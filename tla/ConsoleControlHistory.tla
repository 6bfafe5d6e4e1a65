----------------------- MODULE ConsoleControlHistory ------------------------
(***************************************************************************)
(* ConsoleControl with auxiliary variables: the lines the peer has sent,   *)
(* the commands the firmware has run since, and the responses of which the *)
(* bytes reached the peer, each with the command it answers.               *)
(***************************************************************************)
EXTENDS ConsoleControl, SequencesExt

CONSTANTS
    MaxLines,  \* bound on the lines a behaviour sends
    Window     \* bytes a peer with a window leaves unanswered at most

VARIABLES
    sent,      \* the lines sent
    ran,       \* the commands run
    received   \* pairs of a command and the response the peer got

hvars == <<vars, sent, ran, received>>

HInit == Init /\ sent = <<>> /\ ran = <<>> /\ received = <<>>

HSend(line) ==
    /\ Len(sent) < MaxLines
    /\ Send(line)
    /\ sent' = Append(sent, line)
    /\ UNCHANGED <<ran, received>>

HRun ==
    /\ Run
    /\ \E c \in Commands : Decodes(c) /\ ran' = Append(ran, c)
    /\ UNCHANGED <<sent, received>>

HFlush(written) ==
    /\ Flush(written)
    /\ received' = IF written /\ tx # <<>>
                   THEN Append(received, <<Last(ran), Last(tx)>>)
                   ELSE received
    /\ UNCHANGED <<sent, ran>>

HPull == Pull /\ UNCHANGED <<sent, ran, received>>

HLoop ==
    \/ (Boot \/ PullNothing \/ NoFrame \/ Malformed) /\ UNCHANGED <<sent, ran, received>>
    \/ HPull
    \/ HRun
    \/ \E written \in BOOLEAN : HFlush(written)

HPowerCycle == PowerCycle /\ UNCHANGED <<sent, ran, received>>

HNext == (\E line \in Lines : HSend(line)) \/ HLoop \/ HPowerCycle

HFairness == WF_hvars(HLoop) /\ SF_hvars(HPull)

HSpec == HInit /\ [][HNext]_hvars /\ HFairness

(* A peer with a window: what it has sent beyond the last line answered    *)
(* never exceeds Window bytes.  It does not wait for the last answer.      *)
Unanswered(line) ==
    FoldSeq(LAMBDA l, n : Len(l) + n, Len(line),
            SubSeq(sent, Len(received) + 1, Len(sent)))

WindowNext ==
    \/ \E line \in Lines : Unanswered(line) <= Window /\ HSend(line)
    \/ HLoop

WindowSpec == HInit /\ [][WindowNext]_hvars /\ HFairness

-----------------------------------------------------------------------------
(* The commands that write to flash. *)
Writing == {"SET_PROFILE", "FORGET_BONDS"}

(* Token m is in the text of command c once, and in no line but c's. *)
Marks(c, m) ==
    /\ \E i \in DOMAIN Text[c] : \A j \in DOMAIN Text[c] : Text[c][j] = m <=> j = i
    /\ \A line \in Lines : m \in Range(line) => line = CommandLine(c)

(* The peer sends commands, and lines with nothing of a writing command:   *)
(* of the six commands only SET_PROFILE has a bar, and only FORGET_BONDS   *)
(* has a D (Command, usb2ble-proto).                                       *)
ASSUME MarksOK == \A c \in Writing : \E m \in Tokens : Marks(c, m)

(* The places of the commands run that write. *)
Writes == {i \in DOMAIN ran : ran[i] \in Writing}

Increasing(f) == \A i, j \in DOMAIN f : i < j => f[i] < f[j]

(* A command that writes to flash runs only because the peer has sent it,  *)
(* at most once for each time it was sent and in the order of sending,     *)
(* whatever bytes were lost and whatever pieces of lines met in the RX     *)
(* buffer then: bonds are not forgotten by accident (push_rx_bytes,        *)
(* try_decode_command).  A command that only reads may run unsent.         *)
OnlySentWritesRun ==
    \E f \in [Writes -> DOMAIN sent] :
        /\ Increasing(f)
        /\ \A i \in Writes : sent[f[i]] = CommandLine(ran[i])

(* Once the peer has the acknowledgment, the bonds are gone for good and   *)
(* the profile is there for good, through any loss of power and through    *)
(* later writes that fail, and no status tells otherwise (nvs_store.rs,    *)
(* README "Clears all persisted BLE bonds from NVS").                      *)
AcknowledgedIsDurable ==
    /\ <<"FORGET_BONDS", Ack>> \in Range(received) => ~BondsPresent
    /\ <<"SET_PROFILE", Ack>> \in Range(received) => profile_from_raw_tag(stored) = V1
    /\ \A i, j \in DOMAIN received :
         i < j /\ received[i] = <<"FORGET_BONDS", Ack>> /\ received[j][2].kind = "Status"
           => ~received[j][2].bonds

CommandsIn(lines) == SelectSeq(lines, LAMBDA l : \E c \in Commands : l = CommandLine(c))

(* Every command of a peer that keeps to the window is answered, though    *)
(* it may send several lines before the first answer comes: the RX buffer  *)
(* holds a window of lines, and none is lost to another.                   *)
EveryCommandAnswered ==
    \A n \in 1..MaxLines :
        (Len(CommandsIn(sent)) >= n) ~> (Len(received) >= n)
=============================================================================
