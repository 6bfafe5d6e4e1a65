--------------------------- MODULE ConsoleControl ---------------------------
(***************************************************************************)
(* The control plane of run_embedded_bridge_demo: steps 1 to 3 of its loop *)
(* (pull UART bytes into the RX buffer, serve at most one command, flush   *)
(* the TX buffer), the FramedConsoleBuffer between them, App::handle_      *)
(* command, and the entries of the NVS namespace that outlive the power.   *)
(*                                                                         *)
(* Bytes are abstracted to tokens: a command is a short sequence of them,  *)
(* with a token in common where commands share a prefix, so that the loss  *)
(* of bytes can join the pieces of two lines.                              *)
(***************************************************************************)
EXTENDS Sequences, Naturals

CONSTANTS
    Tokens,    \* pieces of console lines
    NL,        \* FRAME_TERMINATOR
    Text,      \* the tokens of each command, terminator excluded
    Lines,     \* what the peer may send at once, terminator included
    Profiles,  \* ProfileId
    V1,        \* V1_PROFILE_ID: the default, and all SET_PROFILE can name
    None,      \* Option::None, no entry
    Entries,   \* what the two entries may hold when the board is new
    Chunk,     \* bytes one read() of the UART returns at most
    RxCap,     \* RX_BUFFER_CAPACITY
    TxSlots,   \* longest responses TX_BUFFER_CAPACITY has room for
    MaxUart,   \* bound on the bytes under way to the firmware
    Faults     \* what may fail: "open", "load", "store", "write", "power"

Commands == {"GET_INFO", "GET_STATUS", "GET_PROFILE", "SET_PROFILE", "REBOOT",
             "FORGET_BONDS"}

ASSUME ConstantsOK ==
    /\ NL \notin Tokens
    /\ Text \in [Commands -> Seq(Tokens)]
    /\ \A c, d \in Commands : Text[c] = Text[d] => c = d
    /\ Lines \subseteq Seq(Tokens \cup {NL})
    /\ V1 \in Profiles /\ None \notin Profiles
    /\ Chunk \in Nat \ {0} /\ RxCap \in Nat \ {0}
    /\ TxSlots \in Nat \ {0} /\ MaxUart \in Nat

(* A flash entry is a byte or absent. *)
RawBytes == 0..255

ASSUME EntriesOK ==
    /\ Entries \subseteq (RawBytes \cup {None}) \X (RawBytes \cup {None})
    /\ None \notin RawBytes

(* EmbeddedDemoError: what may fail to open. *)
StartErrors == {"ProfileStore", "BondStore", "Console"}

Opening == {"open_profiles", "open_bonds", "open_console", "boot"}

Symbols == Tokens \cup {NL}

Responses ==
    [kind : {"Info", "Profile"}, profile : Profiles]
      \cup [kind : {"Status"}, profile : Profiles, bonds : BOOLEAN]
      \cup [kind : {"Ack", "Internal"}]

VARIABLES
    uart,          \* bytes sent by the peer and not yet read
    rx,            \* FramedConsoleBuffer.rx[..rx_len]
    tx,            \* FramedConsoleBuffer.tx[..tx_len], as responses
    activeProfile, \* RuntimeState.active_profile
    stored,        \* the byte under ACTIVE_PROFILE_KEY, if any
    bonds,         \* the byte under BONDS_PRESENT_KEY, if any
    phase          \* the next step of the loop, or what ended it

settings == <<activeProfile, stored, bonds>>
vars == <<uart, rx, tx, activeProfile, stored, bonds, phase>>

Init ==
    /\ uart = <<>>
    /\ rx = <<>>
    /\ tx = <<>>
    /\ activeProfile = V1
    /\ \E entry \in Entries : stored = entry[1] /\ bonds = entry[2]
    /\ phase = "open_profiles"

-----------------------------------------------------------------------------
(* The stores of nvs_store.rs. *)

profile_from_raw_tag(raw) == IF raw = 1 THEN V1 ELSE None

raw_tag_from_profile(profile) == 1

raw_flag(present) == IF present THEN 1 ELSE 0

(* What a load returns: an entry that cannot be read reads as none. *)
Loads(value, absent) == {value} \cup {v \in {absent} : "load" \in Faults}

LoadedProfile == Loads(profile_from_raw_tag(stored), None)

BondsPresent == bonds \notin {None, 0}

LoadedBonds == Loads(BondsPresent, FALSE)

(* A write that fails leaves the old byte or the new one. *)
Written(old, new, ok) ==
    IF ok THEN {new} ELSE {b \in {old, new} : "store" \in Faults}

store_active_profile(profile, ok) ==
    stored' \in Written(stored, raw_tag_from_profile(profile), ok)

store_bonds_present(present, ok) == bonds' \in Written(bonds, raw_flag(present), ok)

clear_bonds(ok) == store_bonds_present(FALSE, ok)

-----------------------------------------------------------------------------
Send(line) ==
    /\ Len(uart) + Len(line) <= MaxUart
    /\ uart' = uart \o line
    /\ UNCHANGED <<rx, tx, settings, phase>>

(* run_embedded_bridge_demo opens what it needs; main reports what fails   *)
(* to open and sleeps ever after.                                          *)
Opens(step, next, error) ==
    /\ phase = step
    /\ phase' \in {next} \cup {e \in {error} : "open" \in Faults}
    /\ UNCHANGED <<uart, rx, tx, settings>>

OpenProfileStore == Opens("open_profiles", "open_bonds", "ProfileStore")

OpenBondStore == Opens("open_bonds", "open_console", "BondStore")

OpenConsole == Opens("open_console", "boot", "Console")

(* App::bootstrap; the buffers are new. *)
Bootstrap ==
    /\ phase = "boot"
    /\ \E loaded \in LoadedProfile : activeProfile' = IF loaded = None THEN V1 ELSE loaded
    /\ phase' = "pull"
    /\ UNCHANGED <<uart, rx, tx, stored, bonds>>

Boot == OpenProfileStore \/ OpenBondStore \/ OpenConsole \/ Bootstrap

(* Power is lost: flash is all that stays. *)
PowerCycle ==
    /\ "power" \in Faults
    /\ uart' = <<>>
    /\ rx' = <<>>
    /\ tx' = <<>>
    /\ activeProfile' = V1
    /\ phase' = "open_profiles"
    /\ UNCHANGED <<stored, bonds>>

-----------------------------------------------------------------------------
(* Step 1, pull_rx_into: a read of what has arrived so far. *)

PullNothing ==
    /\ phase = "pull"
    /\ phase' = "service"
    /\ UNCHANGED <<uart, rx, tx, settings>>

Readable(n) == n <= Chunk /\ n <= Len(uart)

(* Defective variants: no check of the capacity, and one that is off by one. *)
FitsAlways(n) == TRUE
FitsBelow(n) == Len(rx) + n < RxCap

Fits(n) == Len(rx) + n <= RxCap

(* push_rx_bytes takes all that was read or, on overflow, nothing of it. *)
PullSome(n) ==
    /\ phase = "pull"
    /\ Readable(n)
    /\ rx' = IF Fits(n) THEN rx \o SubSeq(uart, 1, n) ELSE rx
    /\ uart' = SubSeq(uart, n + 1, Len(uart))
    /\ phase' = "service"
    /\ UNCHANGED <<tx, settings>>

Pull == \E n \in 1..Chunk : PullSome(n)

-----------------------------------------------------------------------------
(* Step 2, service_console_buffer_once. *)

Ends == {i \in 1..Len(rx) : rx[i] = NL}
FirstEnd == CHOOSE i \in Ends : \A j \in Ends : i <= j
Frame == SubSeq(rx, 1, FirstEnd - 1)

(* Defective variant: the frame stays in the buffer. *)
KeepFrame == rx

AfterFrame == SubSeq(rx, FirstEnd + 1, Len(rx))

(* After a malformed frame the loop clears RX, and what followed with it. *)
AfterMalformed == <<>>

Servicing == phase = "service" /\ phase' = "flush"

NoFrame ==
    /\ Servicing
    /\ Ends = {}
    /\ UNCHANGED <<uart, rx, tx, settings>>

Malformed ==
    /\ Servicing
    /\ Ends # {}
    /\ \A c \in Commands : Frame # Text[c]
    /\ rx' = AfterMalformed
    /\ UNCHANGED <<uart, tx, settings>>

(* The frame at the front of RX is command c. *)
Decodes(c) ==
    /\ Servicing
    /\ Ends # {}
    /\ Frame = Text[c]
    /\ UNCHANGED uart

(* queue_response; the loop clears RX when there is no room in TX. *)
Respond(response) ==
    IF Len(tx) < TxSlots
    THEN tx' = Append(tx, response) /\ rx' = AfterFrame
    ELSE UNCHANGED tx /\ rx' = <<>>

Ack == [kind |-> "Ack"]

(* Defective variant: a failed write to flash is acknowledged. *)
AckAnyway == Ack

StoreFailed == [kind |-> "Internal"]

GetInfo ==
    /\ Decodes("GET_INFO")
    /\ Respond([kind |-> "Info", profile |-> activeProfile])
    /\ UNCHANGED settings

GetStatus ==
    /\ Decodes("GET_STATUS")
    /\ \E loaded \in LoadedBonds :
         Respond([kind |-> "Status", profile |-> activeProfile, bonds |-> loaded])
    /\ UNCHANGED settings

GetProfile ==
    /\ Decodes("GET_PROFILE")
    /\ Respond([kind |-> "Profile", profile |-> activeProfile])
    /\ UNCHANGED settings

(* What the peer is told of a write. *)
Outcome(ok) == IF ok THEN Ack ELSE StoreFailed

(* The active profile is set before it is stored, and stays set if storing *)
(* fails.                                                                  *)
SetProfile ==
    /\ Decodes("SET_PROFILE")
    /\ activeProfile' = V1
    /\ \E ok \in BOOLEAN : store_active_profile(V1, ok) /\ Respond(Outcome(ok))
    /\ UNCHANGED bonds

ForgetBonds ==
    /\ Decodes("FORGET_BONDS")
    /\ \E ok \in BOOLEAN : clear_bonds(ok) /\ Respond(Outcome(ok))
    /\ UNCHANGED <<activeProfile, stored>>

Reboot ==
    /\ Decodes("REBOOT")
    /\ Respond(Ack)
    /\ UNCHANGED settings

Run == GetInfo \/ GetStatus \/ GetProfile \/ SetProfile \/ ForgetBonds \/ Reboot

-----------------------------------------------------------------------------
(* Step 3, flush_tx_from.  One write takes a response whole, the longest   *)
(* being shorter than its 64 bytes; what a failed or short write was given *)
(* is not kept for another one.                                            *)

(* Defective variant: a response is dropped from TX only once written. *)
KeepUnwritten(written) == IF written THEN <<>> ELSE tx

Unsent(written) == <<>>

Flush(written) ==
    /\ phase = "flush"
    /\ written \/ "write" \in Faults
    /\ tx' = Unsent(written)
    /\ phase' = "pull"
    /\ UNCHANGED <<uart, rx, settings>>

-----------------------------------------------------------------------------
Service == NoFrame \/ Malformed \/ Run

Loop == Boot \/ PullNothing \/ Pull \/ Service \/ \E written \in BOOLEAN : Flush(written)

Peer == \E line \in Lines : Send(line)

Next == Peer \/ Loop \/ PowerCycle

(* A patient peer sends a line when the one before has been dealt with. *)
Quiet == phase = "pull" /\ uart = <<>> /\ Ends = {}

CommandLine(c) == Append(Text[c], NL)

SendCommand == \E c \in Commands : Quiet /\ CommandLine(c) \in Lines /\ Send(CommandLine(c))

(* The loop never stops, bytes under way arrive in the end, and the peer   *)
(* does not give up sending commands.                                      *)
Spec == Init /\ [][Next]_vars /\ WF_vars(Loop) /\ SF_vars(Pull) /\ SF_vars(SendCommand)

-----------------------------------------------------------------------------
TypeOK ==
    /\ uart \in Seq(Symbols) /\ Len(uart) <= MaxUart
    /\ rx \in Seq(Symbols) /\ Len(rx) <= RxCap
    /\ tx \in Seq(Responses) /\ Len(tx) <= TxSlots
    /\ activeProfile \in Profiles
    /\ stored \in RawBytes \cup {None}
    /\ bonds \in RawBytes \cup {None}
    /\ phase \in Opening \cup StartErrors \cup {"pull", "service", "flush"}

(* There is always room for the response when a command is served, however *)
(* many responses could not be written: queue_response never fails in this *)
(* loop, so no command takes effect without a response being queued        *)
(* (TxOverflow, app.rs service_console_buffer_once and main.rs step 2).    *)
ResponseFits == phase \in {"pull", "service"} => tx = <<>>

(* README, line 47: "Send protocol commands (e.g., `GET_STATUS`,           *)
(* `GET_INFO`) over UART (newline-terminated)."  A peer that goes on with  *)
(* commands, one at a time, is answered, however it began: bytes lost and  *)
(* lines cut while lines came faster than they are served do not leave the *)
(* console unable to find a command ever after (push_rx_bytes,             *)
(* try_decode_command, clear_rx).                                          *)
KeepsAnswering == <>[][Peer => Quiet]_vars => []<>(tx # <<>>)
=============================================================================
