-------------------------- MODULE HostToolsProofs ---------------------------
(***************************************************************************)
(* Proofs about HostTools: decode_command accepts the six texts of the     *)
(* README and nothing else, whatever words stand between the bars, and     *)
(* service_frame does what the text it was given says; a tool does what    *)
(* the commands of its script say, however many they are; and everything   *)
(* the tools do is a caller's use of HostRuntime, whose promises they      *)
(* therefore inherit.                                                      *)
(***************************************************************************)
EXTENDS HostTools, HostRuntimeProofs, FiniteSetTheorems

(* A frame that is the text of a command. *)
Spells(frame, c) ==
    /\ frame.words = Spelling(c)
    /\ frame.ended /\ frame.utf8 /\ frame.len \in 1..MAX_FRAME_LEN

LEMMA WordsOf ==
    ASSUME NEW frame \in Frame(Word)
    PROVE  /\ frame.words \in Seq(Word) /\ Len(frame.words) \in Nat \ {0}
           /\ frame.len \in Nat
           /\ \A c \in Commands :
                frame.words = Spelling(c) <=>
                  /\ frame.words[1] = c
                  /\ IF c = "SET_PROFILE"
                     THEN Len(frame.words) = 2 /\ frame.words[2] = V1_PROFILE_NAME
                     ELSE Len(frame.words) = 1
<1>1. frame.words \in Seq(Word) /\ frame.words # <<>> /\ frame.len \in Nat
  BY DEF Frame
<1>2. ASSUME NEW s \in Seq(Word), NEW a, NEW b
      PROVE  /\ s = <<a>> <=> Len(s) = 1 /\ s[1] = a
             /\ s = <<a, b>> <=> Len(s) = 2 /\ s[1] = a /\ s[2] = b
  OBVIOUS
<1> QED
  BY <1>1, <1>2 DEF Spelling

(* decode_command decides each command by its text alone: every other      *)
(* frame, whatever its words, is an error.                                 *)
LEMMA TextExact ==
    ASSUME NEW frame \in Frame(Word), NEW c \in Commands
    PROVE  DecodeText(frame) = c <=> frame.words = Spelling(c)
<1>1. DecodeText(frame) = c <=>
        /\ frame.words[1] = c
        /\ IF c = "SET_PROFILE"
           THEN Len(frame.words) = 2 /\ frame.words[2] = V1_PROFILE_NAME
           ELSE Len(frame.words) = 1
  BY WordsOf DEF DecodeText, Commands, PlainCommands, NamesV1, Argument
<1> QED
  BY <1>1, WordsOf

THEOREM DecodeExact ==
    ASSUME NEW frame \in Frame(Word), NEW c \in Commands
    PROVE  DecodeCommand(frame) = c <=> Spells(frame, c)
<1>1. frame.len \in Nat
  BY WordsOf
<1>2. c \notin {"Empty", "TooLong", "MissingTerminator", "InvalidUtf8"}
  BY DEF Commands, PlainCommands
<1> QED
  BY <1>1, <1>2, TextExact DEF DecodeCommand, Spells, MAX_FRAME_LEN

-----------------------------------------------------------------------------
(* service_frame. *)

(* Until the frame is given, the stores are as the tool began with them,   *)
(* and nothing touches them afterwards.                                    *)
FrameInv ==
    /\ AcceptedIffSpelled
    /\ pc = "frame" => tool = "frame"
    /\ tool = "frame" =>
         /\ pc \in {"frame", "end"}
         /\ \E line \in Lines : script = <<[verb |-> "FRAME", line |-> line]>>
         /\ pc = "frame" => stored = None /\ bonds = TRUE

(* Every response fits a frame. *)
LEMMA AlwaysEncodes ==
    ASSUME bonds \in BOOLEAN, NEW command, NEW link \in BleStates
    PROVE  Encodes(ResponseTo(command, link))
<1>1. ResponseTo(command, link) \in Responses
  BY DEF ResponseTo, Responses, BleStates, map_ble_link_state, Links
<1> QED
  BY <1>1, ResponseLength DEF Encodes, MAX_FRAME_LEN

LEMMA FrameServed ==
    ASSUME FrameInv, ServeFrame
    PROVE  FrameInv'
<1>1. /\ tool = "frame" /\ tool' = "frame" /\ script' = script /\ pc' = "end"
      /\ stored = None /\ bonds = TRUE
      /\ verdict' = IF result' = None THEN "Ok" ELSE result'
      /\ ServiceFrame(script[1].line, "Idle")
  BY DEF FrameInv, ServeFrame, End
<1>2. PICK line \in Lines : script = <<[verb |-> "FRAME", line |-> line]>>
  BY <1>1 DEF FrameInv
<1>3. line \in Frame(Word) /\ script[1].line = line /\ script'[1].line = line
  BY <1>1, <1>2, HostConstantsOK
<1> DEFINE command == DecodeCommand(line)
<1>4. \A c \in Commands : command = c <=> Spells(line, c)
  BY <1>3, DecodeExact
<1>5. /\ (\E c \in Commands : Spells(line, c)) <=> command \in Commands
      /\ Spells(line, "SET_PROFILE") <=> command = "SET_PROFILE"
      /\ Spells(line, "FORGET_BONDS") <=> command = "FORGET_BONDS"
  BY <1>4 DEF Commands, PlainCommands
<1>6. CASE command \in Commands
  <2>1. Effect(command) /\ result' = None
    BY <1>1, <1>3, <1>6, AlwaysEncodes DEF ServiceFrame, BleStates
  <2>2. verdict' = "Ok"
    BY <1>1, <2>1
  <2>3. stored' = IF command = "SET_PROFILE" THEN V1_PROFILE_NAME ELSE None
    BY <1>1, <2>1 DEF Effect
  <2>4. bonds' = (command # "FORGET_BONDS")
    BY <1>1, <2>1 DEF Effect
  <2> QED
    BY <1>1, <1>2, <1>3, <1>5, <1>6, <2>2, <2>3, <2>4
       DEF FrameInv, AcceptedIffSpelled, Spells
<1>7. CASE command \notin Commands
  <2>1. UNCHANGED stores /\ result' = "FrameDecode"
    BY <1>1, <1>3, <1>7 DEF ServiceFrame
  <2>2. verdict' = "FrameDecode"
    BY <1>1, <2>1, HostConstantsOK DEF CallerErrors
  <2>3. stored' = None /\ bonds' = TRUE
    BY <1>1, <2>1 DEF stores
  <2>4. command # "SET_PROFILE" /\ command # "FORGET_BONDS"
    BY <1>7 DEF Commands, PlainCommands
  <2> QED
    BY <1>1, <1>2, <1>3, <1>5, <1>7, <2>2, <2>3, <2>4
       DEF FrameInv, AcceptedIffSpelled, Spells
<1> QED
  BY <1>6, <1>7

LEMMA FrameAlways == ToolsSpec => []FrameInv
<1>1. ToolsInit => FrameInv
  BY DEF ToolsInit, HostInit, FrameInv, AcceptedIffSpelled
<1>2. FrameInv /\ [ToolsNext]_toolVars => FrameInv'
  <2> SUFFICES ASSUME FrameInv, [ToolsNext]_toolVars PROVE FrameInv'
    OBVIOUS
  <2>1. CASE ServeFrame
    BY <2>1, FrameServed
  <2>2. CASE UNCHANGED toolVars
    BY <2>2 DEF toolVars, hostVars, stores, toolState, FrameInv, AcceptedIffSpelled
  <2>3. CASE RunTool /\ ~ServeFrame
    <3>1. tool # "frame" /\ tool' = tool
      BY <2>3 DEF RunTool, ReadLine, RefuseScript, TakeScript, StopWithoutDevice, Reading, Issuing,
                  Issue, CallDrain, Accept, Refuse, Checking, Finish, StepOfTool, FrameInv, toolState
    <3>2. pc' # "frame"
      BY <2>3 DEF RunTool, ReadLine, RefuseScript, TakeScript, StopWithoutDevice, Reading, Issuing,
                  Issue, CallDrain, Accept, Refuse, Checking, Finish, StepOfTool, FrameInv, toolState, End
    <3> QED
      BY <3>1, <3>2 DEF FrameInv, AcceptedIffSpelled
  <2>4. CASE OtherCaller \/ OtherRuntime
    BY <2>4 DEF OtherCaller, OtherRuntime, toolState, FrameInv, AcceptedIffSpelled
  <2> QED
    BY <2>1, <2>2, <2>3, <2>4 DEF ToolsNext
<1> QED
  BY <1>1, <1>2, PTL DEF ToolsSpec

(* service_frame answers a frame if and only if it spells a command, and   *)
(* changes the stores as that command says, for any words and lengths.     *)
THEOREM AcceptedExactly == ToolsSpec => []AcceptedIffSpelled
<1>1. FrameInv => AcceptedIffSpelled
  BY DEF FrameInv
<1> QED
  BY <1>1, FrameAlways, PTL

-----------------------------------------------------------------------------
(* What one more command adds to what the script says. *)

Attaches(n) == {i \in 1..n : script[i].verb = "ATTACH"}

Describing(n) ==
    {i \in AttachAt(n) + 1 .. n :
        AttachAt(n) # 0 /\ script[i].verb = "DESCRIPTOR" /\ Parse[script[i].data] # Failed}

Publishing(n) == {i \in 1..n : OutcomeAt(i) = "Published"}

(* Each of the three has a last one, or there is none. *)
ScriptRead(n) ==
    /\ Largest({0} \cup Attaches(n))
    /\ Largest({0} \cup Describing(n))
    /\ Largest({0} \cup Publishing(n))

(* The largest number, if there is a larger one than any before. *)
LEMMA LargestNext ==
    ASSUME NEW n \in Nat, NEW S, S \subseteq 0..n
    PROVE  Largest(S \cup {n + 1}) /\ Max(S \cup {n + 1}) = n + 1
<1>1. n + 1 \in S \cup {n + 1} /\ \A y \in S \cup {n + 1} : n + 1 >= y
  OBVIOUS
<1>2. S \cup {n + 1} \subseteq Nat
  OBVIOUS
<1>3. Max(S \cup {n + 1}) = n + 1
  BY <1>1, <1>2, MaxIs
<1> QED
  BY <1>1, <1>3, Zenon DEF Largest

LEMMA LastOf ==
    ASSUME NEW n \in Nat, NEW S, S \subseteq 0..n, Largest(S)
    PROVE  Max(S) \in S /\ Max(S) \in 0..n /\ \A y \in S : Max(S) >= y
<1>1. S \subseteq Nat
  OBVIOUS
<1> QED
  BY <1>1, MaxOf

LEMMA NoneIsLargest == Largest({0} \cup {}) /\ Max({0} \cup {}) = 0
<1>1. {0} \cup {} \subseteq Nat /\ 0 \in {0} \cup {} /\ \A y \in {0} \cup {} : 0 >= y
  OBVIOUS
<1>2. Max({0} \cup {}) = 0
  BY ONLY <1>1, MaxIs
<1> QED
  BY <1>2 DEF Largest

(* Whether line i detaches what line a attached. *)
Undoes(i, a) == script[i].verb = "DETACH" /\ script[i].device = script[a].device

LastAttached(n) == Max({0} \cup Attaches(n))

Undone(n) ==
    LastAttached(n) # 0 /\ \E i \in LastAttached(n) + 1 .. n : Undoes(i, LastAttached(n))

LEMMA AttachReads ==
    ASSUME NEW n
    PROVE  AttachAt(n) = IF Undone(n) THEN 0 ELSE LastAttached(n)
BY DEF AttachAt, Undone, Undoes, LastAttached, Attaches

LEMMA AttachNext ==
    ASSUME NEW n \in Nat, Largest({0} \cup Attaches(n))
    PROVE  /\ Largest({0} \cup Attaches(n + 1))
           /\ AttachAt(n) \in 0..n
           /\ AttachAt(n) # 0 => script[AttachAt(n)].verb = "ATTACH"
           /\ AttachAt(n + 1) =
                IF script[n + 1].verb = "ATTACH" THEN n + 1
                ELSE IF AttachAt(n) # 0 /\ Undoes(n + 1, AttachAt(n)) THEN 0
                ELSE AttachAt(n)
<1> DEFINE a == LastAttached(n)
<1>1. {0} \cup Attaches(n) \subseteq 0..n
  BY DEF Attaches
<1>2. a \in 0..n /\ a \in {0} \cup Attaches(n)
  BY <1>1, LastOf DEF LastAttached
<1>3. a # 0 => script[a].verb = "ATTACH"
  BY <1>2 DEF Attaches
<1>4. AttachAt(n) \in 0..n /\ (AttachAt(n) # 0 => script[AttachAt(n)].verb = "ATTACH")
  BY <1>2, <1>3, AttachReads
<1>5. CASE script[n + 1].verb = "ATTACH"
  <2>1. {0} \cup Attaches(n + 1) = ({0} \cup Attaches(n)) \cup {n + 1}
    BY <1>5 DEF Attaches
  <2>2. Largest({0} \cup Attaches(n + 1)) /\ LastAttached(n + 1) = n + 1
    BY <1>1, <2>1, LargestNext DEF LastAttached
  <2>3. ~Undone(n + 1)
    BY <2>2 DEF Undone
  <2> QED
    BY <1>4, <1>5, <2>2, <2>3, AttachReads
<1>6. CASE script[n + 1].verb # "ATTACH"
  <2>1. Attaches(n + 1) = Attaches(n)
    BY <1>6 DEF Attaches
  <2>2. LastAttached(n + 1) = a
    BY <2>1 DEF LastAttached
  <2>3. Undone(n + 1) <=> Undone(n) \/ (a # 0 /\ Undoes(n + 1, a))
    <3>1. a # 0 => a + 1 .. n + 1 = (a + 1 .. n) \cup {n + 1}
      BY <1>2
    <3> QED
      BY <2>2, <3>1, Zenon DEF Undone
  <2>4. AttachAt(n + 1) = IF Undone(n + 1) THEN 0 ELSE a
    BY <2>2, AttachReads
  <2> QED
    BY <1>2, <1>4, <1>6, <2>1, <2>3, <2>4, AttachReads
<1> QED
  BY <1>5, <1>6

LEMMA DescriptorNext ==
    ASSUME NEW n \in Nat, Largest({0} \cup Attaches(n)), Largest({0} \cup Describing(n))
    PROVE  /\ Largest({0} \cup Describing(n + 1))
           /\ DescriptorAt(n) \in 0..n
           /\ DescriptorAt(n) # 0 =>
                /\ AttachAt(n) # 0
                /\ script[DescriptorAt(n)].verb = "DESCRIPTOR"
                /\ Parse[script[DescriptorAt(n)].data] # Failed
           /\ DescriptorAt(n + 1) =
                IF AttachAt(n + 1) = 0 \/ script[n + 1].verb = "ATTACH" THEN 0
                ELSE IF script[n + 1].verb = "DESCRIPTOR" /\ Parse[script[n + 1].data] # Failed
                THEN n + 1
                ELSE DescriptorAt(n)
<1>1. \A k : DescriptorAt(k) = Max({0} \cup Describing(k))
  BY DEF DescriptorAt, Describing
<1>2. AttachAt(n) \in 0..n
  BY AttachNext
<1>3. {0} \cup Describing(n) \subseteq 0..n
  BY <1>2 DEF Describing
<1>4. DescriptorAt(n) \in 0..n /\ DescriptorAt(n) \in {0} \cup Describing(n)
  BY <1>1, <1>3, LastOf
<1>5. CASE AttachAt(n + 1) = 0 \/ script[n + 1].verb = "ATTACH"
  <2>1. AttachAt(n + 1) \in {0, n + 1}
    BY <1>5, AttachNext
  <2>2. Describing(n + 1) = {}
    BY <2>1 DEF Describing
  <2>3. Largest({0} \cup Describing(n + 1)) /\ DescriptorAt(n + 1) = 0
    BY <1>1, <2>2, NoneIsLargest
  <2> QED
    BY <1>4, <1>5, <2>3 DEF Describing
<1>6. CASE AttachAt(n + 1) # 0 /\ script[n + 1].verb # "ATTACH"
  <2>1. AttachAt(n + 1) = AttachAt(n)
    BY <1>6, AttachNext
  <2>2. CASE script[n + 1].verb = "DESCRIPTOR" /\ Parse[script[n + 1].data] # Failed
    <3>1. {0} \cup Describing(n + 1) = ({0} \cup Describing(n)) \cup {n + 1}
      BY <1>2, <1>6, <2>1, <2>2 DEF Describing
    <3>2. Largest({0} \cup Describing(n + 1)) /\ DescriptorAt(n + 1) = n + 1
      BY <1>1, <1>3, <3>1, LargestNext
    <3> QED
      BY <1>4, <1>6, <2>2, <3>2 DEF Describing
  <2>3. CASE ~(script[n + 1].verb = "DESCRIPTOR" /\ Parse[script[n + 1].data] # Failed)
    <3>1. Describing(n + 1) = Describing(n)
      BY <1>2, <2>1, <2>3 DEF Describing
    <3> QED
      BY <1>1, <1>4, <1>6, <2>3, <3>1 DEF Describing
  <2> QED
    BY <2>2, <2>3
<1> QED
  BY <1>5, <1>6

LEMMA PublishedNext ==
    ASSUME NEW n \in Nat, Largest({0} \cup Publishing(n))
    PROVE  /\ Largest({0} \cup Publishing(n + 1))
           /\ PublishedAt(n) \in 0..n
           /\ PublishedAt(n + 1) = IF OutcomeAt(n + 1) = "Published" THEN n + 1 ELSE PublishedAt(n)
<1>1. \A k : PublishedAt(k) = Max({0} \cup Publishing(k))
  BY DEF PublishedAt, Publishing
<1>2. {0} \cup Publishing(n) \subseteq 0..n
  BY DEF Publishing
<1>3. PublishedAt(n) \in 0..n
  BY <1>1, <1>2, LastOf
<1>4. CASE OutcomeAt(n + 1) = "Published"
  <2>1. {0} \cup Publishing(n + 1) = ({0} \cup Publishing(n)) \cup {n + 1}
    BY <1>4 DEF Publishing
  <2> QED
    BY <1>1, <1>2, <1>3, <1>4, <2>1, LargestNext
<1>5. CASE OutcomeAt(n + 1) # "Published"
  <2>1. Publishing(n + 1) = Publishing(n)
    BY <1>5 DEF Publishing
  <2> QED
    BY <1>1, <1>3, <1>5, <2>1
<1> QED
  BY <1>4, <1>5

LEMMA NothingRead ==
    /\ ScriptRead(0)
    /\ AttachAt(0) = 0 /\ DescriptorAt(0) = 0 /\ PublishedAt(0) = 0
<1>1. Attaches(0) = {} /\ Publishing(0) = {}
  BY DEF Attaches, Publishing
<1>2. AttachAt(0) = 0
  BY <1>1, NoneIsLargest, AttachReads DEF LastAttached, Undone
<1>3. Describing(0) = {}
  BY <1>2 DEF Describing
<1> QED
  BY <1>1, <1>2, <1>3, NoneIsLargest
     DEF ScriptRead, DescriptorAt, Describing, PublishedAt, Publishing

-----------------------------------------------------------------------------
(* Where a tool stands. *)

Scripted == tool \in {"contract", "replay", "demo"}

(* The commands a tool may run. *)
Runs ==
    \/ tool = "demo" /\ script = DemoScript
    \/ tool \in {"contract", "replay"} /\ script \in Seq(ReplayCommand)

(* The commands are the first n lines of the text, less blanks. *)
Collected(n) ==
    /\ \A i \in 1..n : Parses(text[i])
    /\ script \in Seq(ReplayCommand)
    /\ IsFiniteSet(CommandLines(n))
    /\ Len(script) = Cardinality(CommandLines(n))
    /\ \A i \in CommandLines(n) :
         /\ Cardinality(CommandLines(i)) \in 1..Len(script)
         /\ script[Cardinality(CommandLines(i))] = text[i]

(* The runtime is as it is new. *)
New ==
    /\ app = <<None, None, Neutral>> /\ lastWire = None
    /\ rx = <<>> /\ finalEvents = <<>> /\ phase = "collect"
    /\ txLen = 0 /\ bonds = FALSE

(* The script may be run: what comes of it follows from it alone. *)
Ready ==
    /\ Runs
    /\ \A i \in DOMAIN text : Parses(text[i])
    /\ tool = "replay" => Collected(Len(text))

(* The runtime's state is what the first n commands say, none of which     *)
(* fails.                                                                  *)
Followed(n) ==
    /\ n \in 0..Len(script)
    /\ ScriptRead(n)
    /\ activeDevice = IF AttachAt(n) = 0 THEN None ELSE script[AttachAt(n)].device
    /\ activeDescriptor = IF DescriptorAt(n) = 0 THEN None
                          ELSE Parse[script[DescriptorAt(n)].data]
    /\ lastInput = InputAfter(n)
    /\ lastWire = IF PublishedAt(n) = 0 THEN None ELSE Encode[ReportAt(PublishedAt(n))]
    /\ \A i \in 1..n : FaultAt(i) = None
    /\ bonds = FALSE

Quiet == rx = <<>> /\ finalEvents = <<>>

(* The command at hand is queued. *)
Waiting ==
    /\ at < Len(script)
    /\ ~LacksDevice
    /\ IF current.verb = "CONSOLE"
       THEN rx = <<current.line>> /\ finalEvents = <<>>
       ELSE rx = <<>> /\ finalEvents = <<EventOf(current)>>
    /\ at = 0 => txLen = 0

(* The command at hand is done. *)
Performed ==
    /\ at < Len(script)
    /\ Quiet
    /\ Followed(at + 1)
    /\ call.done = 1 /\ call.last = OutcomeAt(at + 1)

(* The command at hand has failed. *)
Failing ==
    /\ at < Len(script)
    /\ Followed(at)
    /\ FaultAt(at + 1) = "Drain"

(* The call is the tools' own. *)
OwnCall ==
    /\ {"mode", "console", "output", "max", "fails", "done", "last"} \subseteq DOMAIN call
    /\ call.mode = "drain" /\ call.console = "buffer" /\ call.output = "persona"
    /\ call.max = DrainLimit /\ call.fails = {}

AtWork ==
    /\ Ready
    /\ at \in Nat /\ outcomes = [i \in 1..at |-> OutcomeAt(i)]
    /\ shown = None
    /\ pc \in {"issue", "call"} => phase = "collect" /\ Followed(at)
    /\ pc = "issue" => Quiet /\ (at = 0 => txLen = 0)
    /\ pc = "call" => Waiting
    /\ pc = "check" =>
         /\ OwnCall
         /\ \/ /\ phase = "drain" /\ result = None
               /\ \/ call.done = 0 /\ Followed(at) /\ Waiting
                  \/ Performed
            \/ /\ phase = "collect"
               /\ \/ result = "Ok" /\ Performed
                  \/ result = "Usb" /\ Failing

ToolInv ==
    Scripted =>
      /\ pc \in {"parse", "issue", "call", "check", "end"}
      /\ pc = "parse" =>
           /\ tool = "replay" /\ New
           /\ text \in Seq(ScriptLine) /\ at \in 0..Len(text)
           /\ Collected(at)
           /\ outcomes = <<>> /\ shown = None
      /\ pc \in {"issue", "call", "check"} => AtWork
      /\ ToolFollowsScript

(* What the script says does not change when it does not. *)
LEMMA SameScript ==
    ASSUME script' = script, NEW n
    PROVE  /\ AttachAt(n)' = AttachAt(n)
           /\ DescriptorAt(n)' = DescriptorAt(n)
           /\ ReportAt(n)' = ReportAt(n)
           /\ FaultAt(n)' = FaultAt(n)
           /\ OutcomeAt(n)' = OutcomeAt(n)
           /\ PublishedAt(n)' = PublishedAt(n)
           /\ InputAfter(n)' = InputAfter(n)
           /\ ScriptRead(n)' <=> ScriptRead(n)
<1>1. \A k : AttachAt(k)' = AttachAt(k)
  BY DEF AttachAt
<1>2. \A k : DescriptorAt(k)' = DescriptorAt(k)
  BY <1>1 DEF DescriptorAt
<1>3. \A k : ReportAt(k)' = ReportAt(k)
  BY <1>2 DEF ReportAt
<1>4. \A k : FaultAt(k)' = FaultAt(k)
  BY <1>1, <1>2, <1>3 DEF FaultAt
<1>5. \A k : OutcomeAt(k)' = OutcomeAt(k)
  BY <1>1, <1>2 DEF OutcomeAt
<1>6. PublishedAt(n)' = PublishedAt(n)
  BY <1>5 DEF PublishedAt
<1>7. InputAfter(n)' = InputAfter(n)
  BY <1>1, <1>3, <1>6 DEF InputAfter
<1>8. /\ Attaches(n)' = Attaches(n) /\ Describing(n)' = Describing(n)
      /\ Publishing(n)' = Publishing(n)
  BY <1>1, <1>5 DEF Attaches, Describing, Publishing
<1>9. ScriptRead(n)' <=> ScriptRead(n)
  BY <1>8 DEF ScriptRead, Largest
<1> QED
  BY <1>1, <1>2, <1>3, <1>4, <1>5, <1>6, <1>7, <1>9

(* The runtime's state alone decides whether it follows the script. *)
LEMMA FollowedStill ==
    ASSUME NEW n, script' = script, UNCHANGED <<app, lastWire, bonds>>, Followed(n)
    PROVE  Followed(n)'
BY SameScript DEF Followed, app

-----------------------------------------------------------------------------
(* Reading the text. *)

LEMMA NewFollows ==
    ASSUME New, script \in Seq(ReplayCommand) \/ script = DemoScript
    PROVE  Followed(0) /\ Quiet /\ txLen = 0 /\ phase = "collect"
<1>1. 0 \in 0..Len(script)
  BY DEF DemoScript
<1>2. InputAfter(0) = Neutral
  BY NothingRead DEF InputAfter
<1> QED
  BY <1>1, <1>2, NothingRead DEF New, Followed, Quiet, app

LEMMA ToolsBegin ==
    ASSUME ToolsInit
    PROVE  ToolInv
<1> SUFFICES ASSUME Scripted PROVE ToolInv
  BY DEF ToolInv
<1>1. New /\ at = 0 /\ outcomes = <<>> /\ shown = None
  BY DEF ToolsInit, HostInit, Init, New, app, Scripted
<1>2. CASE tool = "replay"
  <2>1. text \in Seq(ScriptLine) /\ script = <<>> /\ pc = "parse"
    BY <1>2, ScriptsOK DEF ToolsInit
  <2>2. CommandLines(0) = {}
    BY DEF CommandLines
  <2>3. Collected(0)
    <3>1. IsFiniteSet(CommandLines(0)) /\ Cardinality(CommandLines(0)) = 0
      BY <2>2, FS_EmptySet
    <3>2. <<>> \in Seq(ReplayCommand) /\ Len(<<>>) = 0
      OBVIOUS
    <3> QED
      BY <2>1, <2>2, <3>1, <3>2 DEF Collected
  <2> QED
    BY <1>1, <1>2, <2>1, <2>3 DEF ToolInv, ToolFollowsScript
<1>3. CASE tool # "replay"
  <2>1. text = <<>> /\ Runs /\ pc = "issue"
    <3>1. <<>> \in Seq(ReplayCommand)
      OBVIOUS
    <3>2. \/ tool \in {"replay", "api", "frame"}
          \/ /\ text = <<>> /\ pc = "issue"
             /\ \/ tool = "contract" /\ script = <<>>
                \/ tool = "demo" /\ script = DemoScript
      BY Zenon DEF ToolsInit
    <3>3. tool \notin {"replay", "api", "frame"}
      BY <1>3 DEF Scripted
    <3> QED
      BY <3>1, <3>2, <3>3 DEF Runs
  <2>2. Ready
    BY <1>3, <2>1 DEF Ready
  <2>3. Followed(0) /\ Quiet /\ txLen = 0 /\ phase = "collect"
    BY <1>1, <2>1, NewFollows DEF Runs
  <2>4. outcomes = [i \in 1..0 |-> OutcomeAt(i)]
    BY <1>1
  <2>5. AtWork
    BY <1>1, <2>1, <2>2, <2>3, <2>4 DEF AtWork
  <2> QED
    BY <2>1, <2>5 DEF ToolInv, ToolFollowsScript
<1> QED
  BY <1>2, <1>3

(* One more line read. *)
LEMMA LineCollected ==
    ASSUME text \in Seq(ScriptLine), NEW n \in Nat, n < Len(text), Collected(n),
           Parses(text[n + 1]), text' = text,
           script' = IF text[n + 1].verb = "SKIP" THEN script ELSE Append(script, text[n + 1])
    PROVE  Collected(n + 1)'
<1>1. \A k : CommandLines(k)' = CommandLines(k)
  BY DEF CommandLines
<1>2. \A i \in 1..n + 1 : Parses(text[i])'
  BY DEF Collected, Parses
<1>3. CASE text[n + 1].verb = "SKIP"
  <2>1. CommandLines(n + 1) = CommandLines(n)
    BY <1>3 DEF CommandLines
  <2> QED
    BY <1>1, <1>2, <1>3, <2>1 DEF Collected
<1>4. CASE text[n + 1].verb # "SKIP"
  <2>1. CommandLines(n + 1) = CommandLines(n) \cup {n + 1} /\ n + 1 \notin CommandLines(n)
    BY <1>4 DEF CommandLines
  <2>2. /\ IsFiniteSet(CommandLines(n + 1))
        /\ Cardinality(CommandLines(n + 1)) = Cardinality(CommandLines(n)) + 1
    BY <2>1, FS_AddElement DEF Collected
  <2>3. text[n + 1] \in ReplayCommand
    <3>1. text[n + 1] \in ScriptLine
      OBVIOUS
    <3> QED
      BY <3>1, <1>4 DEF ScriptLine, Parses
  <2>4. script \in Seq(ReplayCommand) /\ Len(script) = Cardinality(CommandLines(n))
    BY DEF Collected
  <2>5. /\ script' \in Seq(ReplayCommand) /\ Len(script') = Len(script) + 1
        /\ script'[Len(script) + 1] = text[n + 1]
        /\ \A k \in 1..Len(script) : script'[k] = script[k]
    BY <1>4, <2>3, <2>4
  <2>6. ASSUME NEW i \in CommandLines(n + 1)
        PROVE  /\ Cardinality(CommandLines(i)) \in 1..Len(script')
               /\ script'[Cardinality(CommandLines(i))] = text[i]
    <3>1. CASE i \in CommandLines(n)
      BY <2>4, <2>5, <3>1 DEF Collected
    <3>2. CASE i = n + 1
      BY <2>2, <2>4, <2>5, <3>2
    <3> QED
      BY <2>1, <3>1, <3>2
  <2> QED
    BY <1>1, <1>2, <2>2, <2>4, <2>5, <2>6 DEF Collected
<1> QED
  BY <1>3, <1>4

LEMMA ReadingKeeps ==
    ASSUME ToolInv, Scripted, ReadLine \/ RefuseScript \/ TakeScript
    PROVE  ToolInv'
<1>1. /\ pc = "parse" /\ tool = "replay" /\ New
      /\ text \in Seq(ScriptLine) /\ at \in 0..Len(text)
      /\ Collected(at) /\ outcomes = <<>> /\ shown = None
  BY DEF ToolInv, ReadLine, RefuseScript, TakeScript, Reading
<1>2. /\ tool' = tool /\ text' = text /\ outcomes' = outcomes /\ shown' = shown
      /\ New' /\ Scripted'
  BY <1>1 DEF ReadLine, RefuseScript, TakeScript, hostVars, vars, app, console, stores, New,
              Scripted
<1>3. CASE ReadLine
  <2>1. /\ pc' = "parse" /\ at' = at + 1 /\ at < Len(text) /\ Parses(text[at + 1])
        /\ script' = IF text[at + 1].verb = "SKIP" THEN script ELSE Append(script, text[at + 1])
    BY <1>1, <1>3 DEF ReadLine, Reading
  <2>2. PICK n \in Nat : n = at
    BY <1>1
  <2>3. Collected(n + 1)'
    BY <1>1, <1>2, <2>1, <2>2, LineCollected
  <2>4. Collected(at)'
    BY <2>1, <2>2, <2>3 DEF Collected, CommandLines
  <2> QED
    BY <1>1, <1>2, <2>1, <2>4 DEF ToolInv, ToolFollowsScript
<1>4. CASE RefuseScript
  <2>1. pc' = "end" /\ verdict' = "ReplayParse" /\ at < Len(text) /\ text[at + 1].verb = "BAD"
    BY <1>4 DEF RefuseScript, Reading, End, Parses
  <2>2. \E i \in DOMAIN text : text[i].verb = "BAD"
    BY <1>1, <2>1
  <2>3. ToolFollowsScript'
    BY <1>1, <1>2, <2>1, <2>2 DEF ToolFollowsScript, New
  <2> QED
    BY <2>1, <2>3 DEF ToolInv
<1>5. CASE TakeScript
  <2>1. pc' = "issue" /\ at' = 0 /\ script' = script /\ at = Len(text)
    BY <1>5 DEF TakeScript
  <2>2. Collected(Len(text))'
    BY <1>1, <1>2, <2>1 DEF Collected, CommandLines
  <2>3. Ready'
    BY <1>1, <1>2, <2>1, <2>2 DEF Ready, Runs, Collected
  <2>4. Followed(0) /\ Quiet /\ txLen = 0 /\ phase = "collect"
    BY <1>1, NewFollows DEF Collected
  <2>5. /\ UNCHANGED <<app, lastWire, bonds, rx, finalEvents, txLen, phase>>
    BY <1>5 DEF TakeScript, hostVars, vars, app, console, stores
  <2>6. Followed(0)'
    BY <2>1, <2>4, <2>5, FollowedStill
  <2>7. Followed(at)'
    BY <2>1, <2>6 DEF Followed, ScriptRead, Attaches, Describing, Publishing
  <2>8. outcomes' = [i \in 1..at' |-> OutcomeAt(i)']
    BY <1>1, <1>2, <2>1
  <2>9. AtWork'
    BY <1>1, <1>2, <2>1, <2>3, <2>4, <2>5, <2>7, <2>8 DEF AtWork, Quiet
  <2> QED
    BY <2>1, <2>9 DEF ToolInv, ToolFollowsScript
<1> QED
  BY <1>3, <1>4, <1>5

-----------------------------------------------------------------------------
(* Giving a command to the runtime. *)

LEMMA Commanded ==
    ASSUME Runs, NEW i \in 1..Len(script)
    PROVE  /\ script[i].verb \in {"CONSOLE", "ATTACH", "DETACH", "DESCRIPTOR", "INPUT"}
           /\ script[i].verb = "CONSOLE" =>
                tool = "demo" /\ i = 1 /\ script[i].line = DemoLine
           /\ tool = "demo" => script = DemoScript /\ (i = 1 => script[i].verb = "CONSOLE")
           /\ script[i].verb \in {"ATTACH", "DETACH"} => script[i].device \in Devices
           /\ script[i].verb = "DESCRIPTOR" => script[i].data \in DescBuffers
           /\ script[i].verb = "INPUT" => script[i].data \in Payloads
<1>1. CASE tool = "demo" /\ script = DemoScript
  <2>1. i \in 1..4
    BY <1>1 DEF DemoScript
  <2> QED
    BY <1>1, <2>1, ScriptsOK DEF DemoScript
<1>2. CASE tool # "demo" /\ script \in Seq(ReplayCommand)
  <2>1. script[i] \in ReplayCommand
    BY <1>2
  <2> QED
    BY <1>2, <2>1 DEF ReplayCommand
<1> QED
  BY <1>1, <1>2 DEF Runs

(* The device of an event is the active one, the demo's included. *)
LEMMA SourceIsActive ==
    ASSUME Runs, NEW n \in Nat, n < Len(script), Followed(n),
           script[n + 1].verb \in {"DESCRIPTOR", "INPUT"}
    PROVE  Source = activeDevice /\ (Source = None <=> AttachAt(n) = 0)
<1>1. Len(script) \in Nat
  BY DEF Runs, DemoScript
<1>2. CASE tool # "demo"
  <2>1. Source = activeDevice
    BY <1>2 DEF Source
  <2>2. AttachAt(n) \in 0..n /\ (AttachAt(n) # 0 => script[AttachAt(n)].verb = "ATTACH")
    BY AttachNext DEF Followed, ScriptRead
  <2>3. AttachAt(n) # 0 => script[AttachAt(n)].device \in Devices
    BY <1>1, <2>2, Commanded
  <2> QED
    BY <2>1, <2>3, ConstantsOK DEF Followed
<1>3. CASE tool = "demo"
  <2>1. script = DemoScript
    BY <1>3 DEF Runs
  <2>2. n \in {2, 3}
    BY <2>1 DEF DemoScript
  <2>3. /\ \A i \in 1..4 : script[i].verb = "ATTACH" <=> i = 2
        /\ \A i \in 1..4 : script[i].verb # "DETACH"
        /\ script[2].device = DemoDevice
    BY <2>1 DEF DemoScript
  <2>4. Attaches(n) = {2}
    BY <2>2, <2>3 DEF Attaches
  <2>5. LastAttached(n) = 2
    <3>1. {0} \subseteq 0..1 /\ 1 + 1 = 2
      OBVIOUS
    <3>2. Max({0} \cup {1 + 1}) = 1 + 1
      BY <3>1, LargestNext
    <3> QED
      BY <2>4, <3>1, <3>2 DEF LastAttached
  <2>6. ~Undone(n)
    BY <2>2, <2>3, <2>5 DEF Undone, Undoes
  <2>7. AttachAt(n) = 2
    BY <2>5, <2>6, AttachReads
  <2> QED
    BY <1>3, <2>3, <2>7, ScriptsOK, ConstantsOK DEF Followed, Source
<1> QED
  BY <1>2, <1>3

(* A DESCRIPTOR or INPUT without a device ends the tool. *)
LEMMA StoppedFollows ==
    ASSUME ToolInv, Scripted, StopWithoutDevice
    PROVE  FaultAt(at + 1) = "NoActiveDevice" /\ AtWork /\ Followed(at) /\ at < Len(script)
<1>1. AtWork /\ Followed(at) /\ at < Len(script)
  BY DEF StopWithoutDevice, Issuing, ToolInv, AtWork
<1>2. /\ script[at + 1].verb \in {"DESCRIPTOR", "INPUT"} /\ Source = None
      /\ at \in Nat /\ Runs
  BY <1>1 DEF StopWithoutDevice, LacksDevice, current, AtWork, Ready, Followed
<1>3. AttachAt(at) = 0
  BY <1>1, <1>2, SourceIsActive
<1>4. AttachAt(at + 1) = 0
  BY <1>1, <1>2, <1>3, AttachNext DEF Followed, ScriptRead
<1> QED
  BY <1>1, <1>2, <1>4 DEF FaultAt

(* One line alone takes its own length. *)
LEMMA NoBytes == Bytes(<<>>) = 0
<1> DEFINE Up(f) == f = [i \in 0..Len(<<>>) |-> IF i = 0 THEN 0 ELSE f[i - 1] + <<>>[i].len]
<1>1. Up([i \in {0} |-> 0])
  OBVIOUS
<1>2. Up(CHOOSE f : Up(f))
  <2> HIDE DEF Up
  <2> QED
    BY <1>1
<1>3. (CHOOSE f : Up(f))[0] = 0
  BY <1>2
<1> QED
  BY <1>3 DEF Bytes

LEMMA IssuedWaits ==
    ASSUME AtWork, pc = "issue", Issue
    PROVE  /\ pc' = "call" /\ UNCHANGED <<tool, text, script, at, outcomes, shown, verdict>>
           /\ UNCHANGED <<app, lastWire, bonds, phase>>
           /\ Waiting'
<1>1. /\ pc' = "call" /\ UNCHANGED <<tool, text, script, at, outcomes, shown, verdict>>
      /\ at < Len(script) /\ ~LacksDevice /\ Quiet /\ Runs /\ at \in Nat
      /\ at = 0 => txLen = 0
  BY DEF Issue, Issuing, AtWork, Ready, Followed
<1>2. current' = current
  BY <1>1 DEF current
<1>3. CASE current.verb = "CONSOLE"
  <2>1. PushLine(current.line)
    BY <1>3 DEF Issue
  <2>2. current.line = DemoLine
    BY <1>1, <1>3, Commanded DEF current, Runs
  <2>3. Bytes(rx) + current.line.len <= RxCap
    BY <1>1, <2>2, NoBytes, ScriptsOK DEF Quiet, DemoLine
  <2>4. rx' = <<current.line>>
    BY <1>1, <2>1, <2>3 DEF PushLine, Quiet
  <2>5. UNCHANGED <<app, lastWire, bonds, phase, finalEvents, txLen>>
    BY <2>1 DEF PushLine, vars, app, stores
  <2>6. ~LacksDevice'
    BY <1>2, <1>3 DEF LacksDevice
  <2> QED
    BY <1>1, <1>2, <1>3, <2>4, <2>5, <2>6 DEF Waiting, Quiet
<1>4. CASE current.verb # "CONSOLE"
  <2>1. QueueEvent(EventOf(current))
    BY <1>4 DEF Issue
  <2>2. finalEvents' = <<EventOf(current)>>
    BY <1>1, <2>1 DEF QueueEvent, Collect, Quiet
  <2>3. UNCHANGED <<app, lastWire, bonds, phase, rx, txLen>>
    BY <2>1 DEF QueueEvent, Collect, console, stores, app
  <2>4. Source' = Source
    BY <1>1, <2>3 DEF Source, app
  <2>5. EventOf(current)' = EventOf(current) /\ (LacksDevice' <=> LacksDevice)
    BY <1>2, <2>4 DEF EventOf, LacksDevice
  <2> QED
    BY <1>1, <1>2, <1>4, <2>2, <2>3, <2>5 DEF Waiting, Quiet
<1> QED
  BY <1>3, <1>4

-----------------------------------------------------------------------------
(* What the script says of one more command, verb by verb. *)

LEMMA Typed ==
    ASSUME Runs, NEW n \in Nat, n < Len(script), Followed(n)
    PROVE  /\ n + 1 \in 1..Len(script)
           /\ AttachAt(n) \in 0..n /\ DescriptorAt(n) \in 0..n /\ PublishedAt(n) \in 0..n
           /\ AttachAt(n) # 0 => script[AttachAt(n)].device \in Devices
           /\ DescriptorAt(n) # 0 =>
                /\ AttachAt(n) # 0
                /\ Parse[script[DescriptorAt(n)].data] \in Summaries
           /\ activeDevice = None <=> AttachAt(n) = 0
           /\ activeDescriptor = None <=> DescriptorAt(n) = 0
<1>1. Len(script) \in Nat /\ n + 1 \in 1..Len(script)
  BY DEF Runs, DemoScript
<1>2. AttachAt(n) \in 0..n /\ DescriptorAt(n) \in 0..n /\ PublishedAt(n) \in 0..n
  BY AttachNext, DescriptorNext, PublishedNext DEF Followed, ScriptRead
<1>3. AttachAt(n) # 0 => script[AttachAt(n)].device \in Devices
  <2>1. AttachAt(n) # 0 => script[AttachAt(n)].verb = "ATTACH"
    BY AttachNext DEF Followed, ScriptRead
  <2> QED
    BY <1>1, <1>2, <2>1, Commanded
<1>4. ASSUME DescriptorAt(n) # 0
      PROVE  AttachAt(n) # 0 /\ Parse[script[DescriptorAt(n)].data] \in Summaries
  <2>1. /\ AttachAt(n) # 0
        /\ script[DescriptorAt(n)].verb = "DESCRIPTOR"
        /\ Parse[script[DescriptorAt(n)].data] # Failed
    BY <1>4, DescriptorNext DEF Followed, ScriptRead
  <2>2. script[DescriptorAt(n)].data \in DescBuffers
    BY <1>1, <1>2, <1>4, <2>1, Commanded
  <2> QED
    BY <2>1, <2>2, ConstantsOK
<1> QED
  BY <1>1, <1>2, <1>3, <1>4, ConstantsOK DEF Followed

LEMMA ReadOn ==
    ASSUME NEW n \in Nat, Followed(n)
    PROVE  /\ ScriptRead(n + 1)
           /\ PublishedAt(n + 1) = IF OutcomeAt(n + 1) = "Published" THEN n + 1 ELSE PublishedAt(n)
BY AttachNext, DescriptorNext, PublishedNext DEF Followed, ScriptRead

(* The runtime has done one more command. *)
LEMMA FollowsOn ==
    ASSUME NEW n \in Nat, Len(script) \in Nat, n < Len(script), Followed(n),
           FaultAt(n + 1) = None,
           script' = script, bonds' = FALSE,
           activeDevice' = IF AttachAt(n + 1) = 0 THEN None ELSE script[AttachAt(n + 1)].device,
           activeDescriptor' = IF DescriptorAt(n + 1) = 0 THEN None
                               ELSE Parse[script[DescriptorAt(n + 1)].data],
           lastInput' = InputAfter(n + 1),
           lastWire' = IF PublishedAt(n + 1) = 0 THEN None
                       ELSE Encode[ReportAt(PublishedAt(n + 1))]
    PROVE  Followed(n + 1)'
<1>1. ScriptRead(n + 1) /\ n + 1 \in 0..Len(script)
  BY ReadOn
<1>2. \A i \in 1..n + 1 : FaultAt(i) = None
  BY DEF Followed
<1>3. \A i : FaultAt(i)' = FaultAt(i) /\ ReportAt(i)' = ReportAt(i)
  BY SameScript
<1>4. /\ AttachAt(n + 1)' = AttachAt(n + 1) /\ DescriptorAt(n + 1)' = DescriptorAt(n + 1)
      /\ PublishedAt(n + 1)' = PublishedAt(n + 1) /\ InputAfter(n + 1)' = InputAfter(n + 1)
      /\ ScriptRead(n + 1)'
  BY <1>1, SameScript
<1> QED
  BY <1>1, <1>2, <1>3, <1>4 DEF Followed

(* Nothing that the state depends on is said. *)
Silent(n) ==
    /\ AttachAt(n + 1) = AttachAt(n) /\ DescriptorAt(n + 1) = DescriptorAt(n)
    /\ PublishedAt(n + 1) = PublishedAt(n)

LEMMA SilentInput ==
    ASSUME NEW n, Silent(n)
    PROVE  InputAfter(n + 1) = InputAfter(n)
BY DEF Silent, InputAfter

LEMMA ConsoleSays ==
    ASSUME NEW n \in Nat, Followed(n), script[n + 1].verb = "CONSOLE"
    PROVE  OutcomeAt(n + 1) = "Responded" /\ FaultAt(n + 1) = None /\ Silent(n)
<1>1. OutcomeAt(n + 1) = "Responded" /\ FaultAt(n + 1) = None
  BY DEF OutcomeAt, FaultAt
<1>2. AttachAt(n + 1) = AttachAt(n)
  BY AttachNext DEF Followed, ScriptRead, Undoes
<1>3. DescriptorAt(n + 1) = DescriptorAt(n)
  BY <1>2, DescriptorNext DEF Followed, ScriptRead
<1> QED
  BY <1>1, <1>2, <1>3, ReadOn DEF Silent

LEMMA AttachSays ==
    ASSUME NEW n \in Nat, Followed(n), script[n + 1].verb = "ATTACH"
    PROVE  /\ OutcomeAt(n + 1) = "DeviceAttached" /\ FaultAt(n + 1) = None
           /\ AttachAt(n + 1) = n + 1 /\ DescriptorAt(n + 1) = 0
           /\ PublishedAt(n + 1) = PublishedAt(n) /\ InputAfter(n + 1) = Neutral
<1>1. OutcomeAt(n + 1) = "DeviceAttached" /\ FaultAt(n + 1) = None
  BY DEF OutcomeAt, FaultAt
<1>2. AttachAt(n + 1) = n + 1
  BY AttachNext DEF Followed, ScriptRead
<1>3. DescriptorAt(n + 1) = 0
  BY DescriptorNext DEF Followed, ScriptRead
<1>4. PublishedAt(n + 1) = PublishedAt(n) /\ PublishedAt(n) \in 0..n
  BY <1>1, PublishedNext DEF Followed, ScriptRead
<1>5. InputAfter(n + 1) = Neutral
  BY <1>2, <1>4 DEF InputAfter
<1> QED
  BY <1>1, <1>2, <1>3, <1>4, <1>5

LEMMA DetachSays ==
    ASSUME NEW n \in Nat, Followed(n), script[n + 1].verb = "DETACH"
    PROVE  /\ FaultAt(n + 1) = None /\ PublishedAt(n + 1) = PublishedAt(n)
           /\ IF AttachAt(n) # 0 /\ Undoes(n + 1, AttachAt(n))
              THEN /\ OutcomeAt(n + 1) = "DeviceDetached"
                   /\ AttachAt(n + 1) = 0 /\ DescriptorAt(n + 1) = 0
                   /\ InputAfter(n + 1) = Neutral
              ELSE OutcomeAt(n + 1) = "Ignored" /\ Silent(n)
<1>1. AttachAt(n + 1) = IF AttachAt(n) # 0 /\ Undoes(n + 1, AttachAt(n)) THEN 0 ELSE AttachAt(n)
  BY AttachNext DEF Followed, ScriptRead
<1>2. /\ FaultAt(n + 1) = None
      /\ OutcomeAt(n + 1) = IF AttachAt(n + 1) # AttachAt(n) THEN "DeviceDetached" ELSE "Ignored"
  <2>1. (n + 1) - 1 = n
    OBVIOUS
  <2> QED
    BY <2>1 DEF OutcomeAt, FaultAt
<1>3. PublishedAt(n + 1) = PublishedAt(n)
  BY <1>2, ReadOn
<1>4. CASE AttachAt(n) # 0 /\ Undoes(n + 1, AttachAt(n))
  <2>1. DescriptorAt(n + 1) = 0
    BY <1>1, <1>4, DescriptorNext DEF Followed, ScriptRead
  <2>2. InputAfter(n + 1) = Neutral
    BY <1>1, <1>4 DEF InputAfter
  <2> QED
    BY <1>1, <1>2, <1>3, <1>4, <2>1, <2>2
<1>5. CASE ~(AttachAt(n) # 0 /\ Undoes(n + 1, AttachAt(n)))
  <2>1. DescriptorAt(n + 1) = DescriptorAt(n)
    BY <1>1, <1>5, DescriptorNext DEF Followed, ScriptRead
  <2> QED
    BY <1>1, <1>2, <1>3, <1>5, <2>1 DEF Silent
<1> QED
  BY <1>4, <1>5

LEMMA DescriptorSays ==
    ASSUME NEW n \in Nat, Followed(n), script[n + 1].verb = "DESCRIPTOR", AttachAt(n) # 0
    PROVE  IF Parse[script[n + 1].data] = Failed
           THEN FaultAt(n + 1) = "Drain"
           ELSE /\ OutcomeAt(n + 1) = "DescriptorStored" /\ FaultAt(n + 1) = None
                /\ AttachAt(n + 1) = AttachAt(n) /\ DescriptorAt(n + 1) = n + 1
                /\ PublishedAt(n + 1) = PublishedAt(n) /\ InputAfter(n + 1) = InputAfter(n)
<1>1. AttachAt(n + 1) = AttachAt(n)
  BY AttachNext DEF Followed, ScriptRead, Undoes
<1>2. OutcomeAt(n + 1) = "DescriptorStored"
  BY DEF OutcomeAt
<1>3. FaultAt(n + 1) = IF Parse[script[n + 1].data] = Failed THEN "Drain" ELSE None
  BY <1>1 DEF FaultAt
<1>4. Parse[script[n + 1].data] # Failed => DescriptorAt(n + 1) = n + 1
  BY <1>1, DescriptorNext DEF Followed, ScriptRead
<1>5. PublishedAt(n + 1) = PublishedAt(n)
  BY <1>2, ReadOn
<1>6. InputAfter(n + 1) = InputAfter(n)
  BY <1>1, <1>5 DEF InputAfter
<1> QED
  BY <1>1, <1>2, <1>3, <1>4, <1>5, <1>6

LEMMA InputSays ==
    ASSUME NEW n \in Nat, Followed(n), script[n + 1].verb = "INPUT", AttachAt(n) # 0
    PROVE  /\ AttachAt(n + 1) = AttachAt(n) /\ DescriptorAt(n + 1) = DescriptorAt(n)
           /\ IF DescriptorAt(n) = 0
              THEN OutcomeAt(n + 1) = "Ignored" /\ FaultAt(n + 1) = None /\ Silent(n)
              ELSE IF ReportAt(n + 1) = Failed
              THEN FaultAt(n + 1) = "Drain"
              ELSE /\ OutcomeAt(n + 1) = "Published" /\ FaultAt(n + 1) = None
                   /\ PublishedAt(n + 1) = n + 1 /\ InputAfter(n + 1) = ReportAt(n + 1)
<1>1. AttachAt(n + 1) = AttachAt(n) /\ AttachAt(n) \in 0..n
  BY AttachNext DEF Followed, ScriptRead, Undoes
<1>2. DescriptorAt(n + 1) = DescriptorAt(n)
  BY <1>1, DescriptorNext DEF Followed, ScriptRead
<1>3. OutcomeAt(n + 1) = IF DescriptorAt(n) = 0 THEN "Ignored" ELSE "Published"
  BY <1>2 DEF OutcomeAt
<1>4. FaultAt(n + 1) = IF DescriptorAt(n) # 0 /\ ReportAt(n + 1) = Failed THEN "Drain" ELSE None
  BY <1>1, <1>2 DEF FaultAt
<1>5. PublishedAt(n + 1) = IF DescriptorAt(n) = 0 THEN PublishedAt(n) ELSE n + 1
  BY <1>3, ReadOn
<1>6. DescriptorAt(n) # 0 => InputAfter(n + 1) = ReportAt(n + 1)
  BY <1>1, <1>5 DEF InputAfter
<1> QED
  BY <1>1, <1>2, <1>3, <1>4, <1>5, <1>6 DEF Silent

-----------------------------------------------------------------------------
(* The runtime at work on the command. *)

(* A drain has begun, with the command at hand still queued. *)
Begun ==
    /\ Ready /\ OwnCall
    /\ phase = "drain" /\ result = None /\ call.done = 0
    /\ Followed(at) /\ Waiting

LEMMA CallCounts ==
    ASSUME OwnCall, call.done = 0, result = None, NEW outcome, Done(outcome)
    PROVE  /\ OwnCall' /\ phase' = "drain" /\ result' = None
           /\ call'.done = 1 /\ call'.last = outcome
<1>1. call' = [call EXCEPT !.done = 1, !.last = outcome]
  BY DEF Done
<1>2. /\ DOMAIN call' = DOMAIN call /\ call'.done = 1 /\ call'.last = outcome
      /\ \A field \in {"mode", "console", "output", "max", "fails"} : call'[field] = call[field]
  BY <1>1 DEF OwnCall
<1> QED
  BY <1>2 DEF OwnCall, Done, Continue

(* The demo's line is answered. *)
LEMMA LineAnswered ==
    ASSUME Begun, current.verb = "CONSOLE", Step
    PROVE  /\ UNCHANGED <<app, lastWire>> /\ bonds' = FALSE
           /\ Quiet' /\ Done("Responded")
<1>1. /\ Runs /\ at \in Nat /\ at + 1 \in 1..Len(script)
      /\ rx = <<current.line>> /\ finalEvents = <<>> /\ (at = 0 => txLen = 0) /\ bonds = FALSE
  BY Typed DEF Begun, Ready, Followed, Waiting
<1>2. at = 0 /\ current.line = DemoLine
  BY <1>1, Commanded DEF current
<1>3. rx = <<DemoLine>> /\ Head(rx) = DemoLine /\ Tail(rx) = <<>> /\ rx # <<>>
  BY <1>1, <1>2
<1>4. DecodeCommand(DemoLine) = "GET_INFO"
  BY DEF DemoLine, DecodeCommand, DecodeText, PlainCommands, MAX_FRAME_LEN
<1>5. NextCommand = "GET_INFO" /\ NextCommand \in Commands /\ NextCommand \notin FrameErrors
  BY <1>3, <1>4 DEF NextCommand, Commands, PlainCommands, FrameErrors
<1>6. FitsTx(Response)
  <2>1. Response = [kind |-> "Info"]
    BY <1>5 DEF Response, ResponseTo
  <2>2. EncodedLen([kind |-> "Info"]) \in Nat
    BY ResponseLength DEF Responses
  <2> QED
    BY <1>1, <1>2, <2>1, <2>2, ScriptsOK DEF FitsTx
<1>7. ~RefuseLine /\ ~OverflowTx
  BY <1>5, <1>6 DEF RefuseLine, OverflowTx
<1>8. ~AnswerSlot
  BY DEF AnswerSlot, Begun, OwnCall
<1>9. ~UsbStep
  <2>1. ~ConsoleIdle
    BY <1>3 DEF ConsoleIdle, Begun, OwnCall
  <2> QED
    BY <2>1 DEF UsbStep, HandleEvent, RefuseEvent, Publish, FailToPublish, FindIdle, ServesUsb
<1>10. ~ReachLimit
  BY DEF ReachLimit, AtLimit, Begun
<1>11. AnswerLine
  BY <1>7, <1>8, <1>9, <1>10 DEF Step, ConsoleStep
<1>12. UNCHANGED <<app, lastWire>> /\ Quiet' /\ Done("Responded")
  BY <1>1, <1>3, <1>11 DEF AnswerLine, ServesLine, TakeLine, Quiet
<1>13. bonds' = FALSE
  BY <1>1, <1>11 DEF AnswerLine, Effect
<1> QED
  BY <1>12, <1>13

(* An event is handled, refused, or published. *)
LEMMA EventTaken ==
    ASSUME Begun, current.verb # "CONSOLE", Step
    PROVE  /\ Quiet' /\ bonds' = FALSE
           /\ event = EventOf(current)
           /\ \/ Attach /\ Done("DeviceAttached")
              \/ Detach /\ Done("DeviceDetached")
              \/ StoreDescriptor /\ Done("DescriptorStored")
              \/ Ignore /\ Done("Ignored")
              \/ (RejectLength \/ RejectDescriptor \/ RejectInput) /\ Fail("Usb")
              \/ TakeInput /\ lastWire' = CurrentReport /\ Done("Published")
<1>1. rx = <<>> /\ finalEvents = <<EventOf(current)>> /\ bonds = FALSE
  BY DEF Begun, Waiting, Followed
<1>2. event = EventOf(current) /\ finalEvents # <<>> /\ Tail(finalEvents) = <<>>
  BY <1>1 DEF event
<1>3. ~ConsoleStep
  BY <1>1 DEF ConsoleStep, RefuseLine, AnswerLine, OverflowTx, ServesLine, AnswerSlot, Begun,
              OwnCall
<1>4. ~ReachLimit
  BY DEF ReachLimit, AtLimit, Begun
<1>5. ~FindIdle
  BY <1>2 DEF FindIdle, Idle
<1>6. ~FailToPublish
  BY DEF FailToPublish, OutputFails, Begun, OwnCall
<1>7. HandleEvent \/ RefuseEvent \/ Publish
  BY <1>3, <1>4, <1>5, <1>6 DEF Step, UsbStep
<1>8. ServesUsb /\ Poll
  BY <1>7, UsbPolls
<1>9. rx' = rx /\ bonds' = bonds /\ finalEvents' = Tail(finalEvents)
  BY <1>8 DEF ServesUsb, Poll, console, stores
<1>10. Publish => TakeInput /\ lastWire' = CurrentReport /\ Done("Published")
  BY DEF Publish, ToPersona, Begun, OwnCall
<1> QED
  BY <1>1, <1>2, <1>7, <1>9, <1>10 DEF Quiet, HandleEvent, RefuseEvent

(* Command n + 1 is done, or its event is refused. *)
Advances(n) == Followed(n + 1)' /\ Done(OutcomeAt(n + 1))
Fails(n) == FaultAt(n + 1) = "Drain" /\ UNCHANGED <<app, lastWire>> /\ Fail("Usb")

(* What there is to know before an event is taken. *)
LEMMA EventAtHand ==
    ASSUME Begun, Step, NEW n \in Nat, n = at, current.verb # "CONSOLE"
    PROVE  /\ Runs /\ Followed(n) /\ n < Len(script) /\ Len(script) \in Nat
           /\ n + 1 \in 1..Len(script) /\ current = script[n + 1] /\ bonds' = FALSE
           /\ current.verb = "ATTACH" =>
                event.kind = "Attached" /\ event.device = script[n + 1].device
           /\ current.verb = "DETACH" =>
                event.kind = "Detached" /\ event.device = script[n + 1].device
           /\ current.verb \in {"DESCRIPTOR", "INPUT"} =>
                /\ event.kind = IF current.verb = "INPUT" THEN "Input" ELSE "Descriptor"
                /\ event.device = activeDevice /\ AttachAt(n) # 0
                /\ event.data = script[n + 1].data /\ event.fits
<1>1. Runs /\ Followed(n) /\ n < Len(script) /\ current = script[n + 1] /\ ~LacksDevice
  BY DEF Begun, Ready, Waiting, current
<1>2. Len(script) \in Nat /\ n + 1 \in 1..Len(script)
  BY <1>1 DEF Runs, DemoScript
<1>3. bonds' = FALSE /\ event = EventOf(current)
  BY EventTaken
<1>4. current.verb \in {"DESCRIPTOR", "INPUT"} => Source = activeDevice /\ AttachAt(n) # 0
  BY <1>1, SourceIsActive DEF LacksDevice
<1> QED
  BY <1>1, <1>2, <1>3, <1>4 DEF EventOf

LEMMA AttachTaken ==
    ASSUME Begun, Step, script' = script, NEW n \in Nat, n = at, current.verb = "ATTACH"
    PROVE  Advances(n)
<1>1. /\ Followed(n) /\ n < Len(script) /\ Len(script) \in Nat /\ bonds' = FALSE
      /\ script[n + 1].verb = "ATTACH"
      /\ event.kind = "Attached" /\ event.device = script[n + 1].device
  BY EventAtHand
<1>2. Attach /\ Done("DeviceAttached")
  BY <1>1, EventTaken
     DEF Detach, StoreDescriptor, Ignore, Ignored, RejectLength, RejectDescriptor, RejectInput,
         TakeInput, InputReady
<1>3. /\ activeDevice' = script[n + 1].device /\ activeDescriptor' = None
      /\ lastInput' = Neutral /\ lastWire' = lastWire
  BY <1>1, <1>2 DEF Attach, ForgetSource
<1>4. /\ OutcomeAt(n + 1) = "DeviceAttached" /\ FaultAt(n + 1) = None
      /\ AttachAt(n + 1) = n + 1 /\ DescriptorAt(n + 1) = 0
      /\ PublishedAt(n + 1) = PublishedAt(n) /\ InputAfter(n + 1) = Neutral
  BY <1>1, AttachSays
<1>5. lastWire = IF PublishedAt(n) = 0 THEN None ELSE Encode[ReportAt(PublishedAt(n))]
  BY <1>1 DEF Followed
<1>6. /\ activeDevice' = IF AttachAt(n + 1) = 0 THEN None ELSE script[AttachAt(n + 1)].device
      /\ activeDescriptor' = IF DescriptorAt(n + 1) = 0 THEN None
                             ELSE Parse[script[DescriptorAt(n + 1)].data]
      /\ lastInput' = InputAfter(n + 1)
      /\ lastWire' = IF PublishedAt(n + 1) = 0 THEN None
                     ELSE Encode[ReportAt(PublishedAt(n + 1))]
  BY <1>3, <1>4, <1>5
<1>7. Followed(n + 1)'
  BY <1>1, <1>4, <1>6, FollowsOn
<1> QED
  BY <1>2, <1>4, <1>7 DEF Advances

(* A command that is done and leaves everything as it was. *)
LEMMA SilentlyFollows ==
    ASSUME NEW n \in Nat, Len(script) \in Nat, n < Len(script), Followed(n), Silent(n),
           FaultAt(n + 1) = None, script' = script, bonds' = FALSE, UNCHANGED <<app, lastWire>>
    PROVE  Followed(n + 1)'
<1>1. /\ activeDevice' = activeDevice /\ activeDescriptor' = activeDescriptor
      /\ lastInput' = lastInput /\ lastWire' = lastWire
  BY DEF app
<1>2. InputAfter(n + 1) = InputAfter(n)
  BY SilentInput
<1> QED
  BY <1>1, <1>2, FollowsOn DEF Followed, Silent

LEMMA DetachTaken ==
    ASSUME Begun, Step, script' = script, NEW n \in Nat, n = at, current.verb = "DETACH"
    PROVE  Advances(n)
<1>1. /\ Runs /\ Followed(n) /\ n < Len(script) /\ Len(script) \in Nat /\ bonds' = FALSE
      /\ n + 1 \in 1..Len(script) /\ script[n + 1].verb = "DETACH"
      /\ event.kind = "Detached" /\ event.device = script[n + 1].device
  BY EventAtHand
<1>2. (Detach /\ Done("DeviceDetached")) \/ (Ignore /\ Done("Ignored"))
  BY <1>1, EventTaken
     DEF Attach, StoreDescriptor, RejectLength, RejectDescriptor, RejectInput,
         TakeInput, InputReady
<1>3. FromActiveDevice <=> AttachAt(n) # 0 /\ Undoes(n + 1, AttachAt(n))
  <2>1. script[n + 1].device \in Devices
    BY <1>1, Commanded
  <2> QED
    BY <1>1, <2>1, ConstantsOK DEF FromActiveDevice, Followed, Undoes
<1>4. lastWire = IF PublishedAt(n) = 0 THEN None ELSE Encode[ReportAt(PublishedAt(n))]
  BY <1>1 DEF Followed
<1>5. CASE AttachAt(n) # 0 /\ Undoes(n + 1, AttachAt(n))
  <2>1. Detach /\ Done("DeviceDetached")
    BY <1>1, <1>2, <1>3, <1>5 DEF Ignore, Ignored
  <2>2. /\ activeDevice' = None /\ activeDescriptor' = None
        /\ lastInput' = Neutral /\ lastWire' = lastWire
    BY <2>1 DEF Detach, ForgetSource
  <2>3. /\ OutcomeAt(n + 1) = "DeviceDetached" /\ FaultAt(n + 1) = None
        /\ AttachAt(n + 1) = 0 /\ DescriptorAt(n + 1) = 0
        /\ PublishedAt(n + 1) = PublishedAt(n) /\ InputAfter(n + 1) = Neutral
    BY <1>1, <1>5, DetachSays
  <2>4. /\ activeDevice' = IF AttachAt(n + 1) = 0 THEN None ELSE script[AttachAt(n + 1)].device
        /\ activeDescriptor' = IF DescriptorAt(n + 1) = 0 THEN None
                               ELSE Parse[script[DescriptorAt(n + 1)].data]
        /\ lastInput' = InputAfter(n + 1)
        /\ lastWire' = IF PublishedAt(n + 1) = 0 THEN None
                       ELSE Encode[ReportAt(PublishedAt(n + 1))]
    BY <1>4, <2>2, <2>3
  <2>5. Followed(n + 1)'
    BY <1>1, <2>3, <2>4, FollowsOn
  <2> QED
    BY <2>1, <2>3, <2>5 DEF Advances
<1>6. CASE ~(AttachAt(n) # 0 /\ Undoes(n + 1, AttachAt(n)))
  <2>1. Ignore /\ Done("Ignored")
    BY <1>2, <1>3, <1>6 DEF Detach
  <2>2. OutcomeAt(n + 1) = "Ignored" /\ FaultAt(n + 1) = None /\ Silent(n)
    BY <1>1, <1>6, DetachSays
  <2>3. Followed(n + 1)'
    BY <1>1, <2>1, <2>2, SilentlyFollows DEF Ignore
  <2> QED
    BY <2>1, <2>2, <2>3 DEF Advances
<1> QED
  BY <1>5, <1>6

LEMMA DescriptorTaken ==
    ASSUME Begun, Step, script' = script, NEW n \in Nat, n = at, current.verb = "DESCRIPTOR"
    PROVE  Advances(n) \/ Fails(n)
<1>1. /\ Followed(n) /\ n < Len(script) /\ Len(script) \in Nat /\ bonds' = FALSE
      /\ script[n + 1].verb = "DESCRIPTOR" /\ AttachAt(n) # 0
      /\ event.kind = "Descriptor" /\ event.device = activeDevice /\ event.fits
      /\ event.data = script[n + 1].data
  BY EventAtHand
<1>2. FromActiveDevice
  BY <1>1 DEF FromActiveDevice
<1>3. \/ StoreDescriptor /\ Done("DescriptorStored")
      \/ RejectDescriptor /\ Fail("Usb")
  BY <1>1, <1>2, EventTaken
     DEF Attach, Detach, Ignore, Ignored, RejectLength, RejectInput, TakeInput, InputReady
<1>4. DescriptorParses <=> Parse[script[n + 1].data] # Failed
  BY <1>1 DEF DescriptorParses
<1>5. CASE Parse[script[n + 1].data] = Failed
  <2>1. RejectDescriptor /\ Fail("Usb")
    BY <1>3, <1>4, <1>5 DEF StoreDescriptor
  <2>2. FaultAt(n + 1) = "Drain"
    BY <1>1, <1>5, DescriptorSays
  <2> QED
    BY <2>1, <2>2 DEF Fails, RejectDescriptor
<1>6. CASE Parse[script[n + 1].data] # Failed
  <2>1. StoreDescriptor /\ Done("DescriptorStored")
    BY <1>3, <1>4, <1>6 DEF RejectDescriptor
  <2>2. /\ activeDevice' = activeDevice /\ activeDescriptor' = Parse[script[n + 1].data]
        /\ lastInput' = lastInput /\ lastWire' = lastWire
    BY <1>1, <2>1 DEF StoreDescriptor
  <2>3. /\ OutcomeAt(n + 1) = "DescriptorStored" /\ FaultAt(n + 1) = None
        /\ AttachAt(n + 1) = AttachAt(n) /\ DescriptorAt(n + 1) = n + 1
        /\ PublishedAt(n + 1) = PublishedAt(n) /\ InputAfter(n + 1) = InputAfter(n)
    BY <1>1, <1>6, DescriptorSays
  <2>4. /\ activeDevice = IF AttachAt(n) = 0 THEN None ELSE script[AttachAt(n)].device
        /\ lastInput = InputAfter(n)
        /\ lastWire = IF PublishedAt(n) = 0 THEN None ELSE Encode[ReportAt(PublishedAt(n))]
    BY <1>1 DEF Followed
  <2>5. /\ activeDevice' = IF AttachAt(n + 1) = 0 THEN None ELSE script[AttachAt(n + 1)].device
        /\ activeDescriptor' = IF DescriptorAt(n + 1) = 0 THEN None
                               ELSE Parse[script[DescriptorAt(n + 1)].data]
        /\ lastInput' = InputAfter(n + 1)
        /\ lastWire' = IF PublishedAt(n + 1) = 0 THEN None
                       ELSE Encode[ReportAt(PublishedAt(n + 1))]
    BY <2>2, <2>3, <2>4
  <2>6. Followed(n + 1)'
    BY <1>1, <2>3, <2>5, FollowsOn
  <2> QED
    BY <2>1, <2>3, <2>6 DEF Advances
<1> QED
  BY <1>5, <1>6

LEMMA InputTaken ==
    ASSUME Begun, Step, script' = script, NEW n \in Nat, n = at, current.verb = "INPUT"
    PROVE  Advances(n) \/ Fails(n)
<1>1. /\ Runs /\ Followed(n) /\ n < Len(script) /\ Len(script) \in Nat /\ bonds' = FALSE
      /\ script[n + 1].verb = "INPUT" /\ AttachAt(n) # 0
      /\ event.kind = "Input" /\ event.device = activeDevice /\ event.fits
      /\ event.data = script[n + 1].data
  BY EventAtHand
<1>2. FromActiveDevice
  BY <1>1 DEF FromActiveDevice
<1>3. InputReady <=> DescriptorAt(n) # 0
  BY <1>1, <1>2, Typed DEF InputReady
<1>4. \/ Ignore /\ Done("Ignored")
      \/ RejectInput /\ Fail("Usb")
      \/ TakeInput /\ lastWire' = CurrentReport /\ Done("Published")
  BY <1>1, EventTaken
     DEF Attach, Detach, StoreDescriptor, RejectLength, RejectDescriptor
<1>5. /\ AttachAt(n + 1) = AttachAt(n) /\ DescriptorAt(n + 1) = DescriptorAt(n)
      /\ IF DescriptorAt(n) = 0
         THEN OutcomeAt(n + 1) = "Ignored" /\ FaultAt(n + 1) = None /\ Silent(n)
         ELSE IF ReportAt(n + 1) = Failed
         THEN FaultAt(n + 1) = "Drain"
         ELSE /\ OutcomeAt(n + 1) = "Published" /\ FaultAt(n + 1) = None
              /\ PublishedAt(n + 1) = n + 1 /\ InputAfter(n + 1) = ReportAt(n + 1)
  BY <1>1, InputSays
<1>6. CASE DescriptorAt(n) = 0
  <2>1. Ignore /\ Done("Ignored")
    BY <1>3, <1>4, <1>6 DEF RejectInput, TakeInput
  <2>2. Followed(n + 1)'
    BY <1>1, <1>5, <1>6, <2>1, SilentlyFollows DEF Ignore
  <2> QED
    BY <1>5, <1>6, <2>1, <2>2 DEF Advances
<1>7. CASE DescriptorAt(n) # 0
  <2>1. activeDescriptor = Parse[script[DescriptorAt(n)].data]
    BY <1>1, <1>7 DEF Followed
  <2>2. Decoded = ReportAt(n + 1)
    BY <1>1, <1>5, <2>1 DEF Decoded, ReportAt
  <2>3. ~Ignore
    BY <1>1, <1>3, <1>7 DEF Ignore, Ignored, InputReady
  <2>4. CASE ReportAt(n + 1) = Failed
    <3>1. RejectInput /\ Fail("Usb")
      BY <1>4, <2>2, <2>3, <2>4 DEF TakeInput
    <3> QED
      BY <1>5, <1>7, <2>4, <3>1 DEF Fails, RejectInput
  <2>5. CASE ReportAt(n + 1) # Failed
    <3>1. TakeInput /\ lastWire' = CurrentReport /\ Done("Published")
      BY <1>4, <2>2, <2>3, <2>5 DEF RejectInput
    <3>2. /\ activeDevice' = activeDevice /\ activeDescriptor' = activeDescriptor
          /\ lastInput' = ReportAt(n + 1) /\ lastWire' = Encode[ReportAt(n + 1)]
      BY <2>2, <3>1 DEF TakeInput, CurrentReport
    <3>3. /\ OutcomeAt(n + 1) = "Published" /\ FaultAt(n + 1) = None
          /\ PublishedAt(n + 1) = n + 1 /\ InputAfter(n + 1) = ReportAt(n + 1)
      BY <1>5, <1>7, <2>5
    <3>4. activeDevice = IF AttachAt(n) = 0 THEN None ELSE script[AttachAt(n)].device
      BY <1>1 DEF Followed
    <3>5. /\ activeDevice' = IF AttachAt(n + 1) = 0 THEN None ELSE script[AttachAt(n + 1)].device
          /\ activeDescriptor' = IF DescriptorAt(n + 1) = 0 THEN None
                                 ELSE Parse[script[DescriptorAt(n + 1)].data]
          /\ lastInput' = InputAfter(n + 1)
          /\ lastWire' = IF PublishedAt(n + 1) = 0 THEN None
                         ELSE Encode[ReportAt(PublishedAt(n + 1))]
      BY <1>5, <1>7, <2>1, <3>2, <3>3, <3>4
    <3>6. Followed(n + 1)'
      BY <1>1, <3>3, <3>5, FollowsOn
    <3> QED
      BY <3>1, <3>3, <3>6 DEF Advances
  <2> QED
    BY <2>4, <2>5
<1> QED
  BY <1>6, <1>7

(* A step of a drain that has begun does the command or fails on it. *)
LEMMA CommandTaken ==
    ASSUME Begun, Step, script' = script, at' = at
    PROVE  /\ OwnCall'
           /\ \/ phase' = "drain" /\ result' = None /\ Performed'
              \/ phase' = "collect" /\ result' = "Usb" /\ Failing'
<1>1. PICK n \in Nat : n = at /\ n < Len(script)
  BY DEF Begun, Followed, Waiting
<1>2. /\ Runs /\ Followed(n) /\ Len(script) \in Nat /\ n + 1 \in 1..Len(script)
      /\ current = script[n + 1]
  BY <1>1 DEF Begun, Ready, Runs, DemoScript, current
<1>3. Quiet' /\ bonds' = FALSE
  BY LineAnswered, EventTaken
<1>4. Advances(n) \/ Fails(n)
  <2>1. CASE current.verb = "CONSOLE"
    <3>1. UNCHANGED <<app, lastWire>> /\ Done("Responded")
      BY <2>1, LineAnswered
    <3>2. OutcomeAt(n + 1) = "Responded" /\ FaultAt(n + 1) = None /\ Silent(n)
      BY <1>2, <2>1, ConsoleSays
    <3>3. Followed(n + 1)'
      BY <1>1, <1>2, <1>3, <3>1, <3>2, SilentlyFollows
    <3> QED
      BY <3>1, <3>2, <3>3 DEF Advances
  <2>2. CASE current.verb \in {"ATTACH", "DETACH", "DESCRIPTOR", "INPUT"}
    BY <1>1, <2>2, AttachTaken, DetachTaken, DescriptorTaken, InputTaken
  <2> QED
    BY <1>2, <2>1, <2>2, Commanded
<1>5. CASE Advances(n)
  <2>1. /\ OwnCall' /\ phase' = "drain" /\ result' = None
        /\ call'.done = 1 /\ call'.last = OutcomeAt(n + 1)
    BY <1>5, CallCounts DEF Advances, Begun
  <2>2. Followed(n + 1)' /\ OutcomeAt(n + 1)' = OutcomeAt(n + 1)
    BY <1>5, SameScript DEF Advances
  <2>3. Performed'
    BY <1>1, <1>3, <2>1, <2>2
       DEF Performed, Followed, ScriptRead, Attaches, Describing, Publishing
  <2> QED
    BY <2>1, <2>3
<1>6. CASE Fails(n)
  <2>1. phase' = "collect" /\ result' = "Usb" /\ call' = call
    BY <1>6 DEF Fails, Fail, GiveUp
  <2>2. OwnCall'
    BY <2>1 DEF OwnCall, Begun
  <2>3. Followed(n)'
    <3>1. UNCHANGED bonds
      BY <1>2, <1>3 DEF Followed
    <3> QED
      BY <1>2, <1>6, <3>1, FollowedStill DEF Fails
  <2>4. FaultAt(n + 1)' = "Drain"
    BY <1>6, SameScript DEF Fails
  <2>5. Failing'
    BY <1>1, <2>3, <2>4 DEF Failing, Followed, ScriptRead, Attaches, Describing, Publishing
  <2> QED
    BY <2>1, <2>2, <2>5
<1> QED
  BY <1>4, <1>5, <1>6

(* After it the drain finds nothing, well before its limit. *)
LEMMA NothingLeft ==
    ASSUME OwnCall, phase = "drain", Performed, Step
    PROVE  /\ phase' = "collect" /\ result' = "Ok" /\ call' = call
           /\ UNCHANGED <<app, lastWire, finalEvents, rx, bonds>>
<1>1. rx = <<>> /\ finalEvents = <<>> /\ call.done = 1
  BY DEF Performed, Quiet
<1>2. ~AtLimit
  BY <1>1, ScriptsOK DEF AtLimit, OwnCall
<1>3. ~ConsoleStep
  BY <1>1 DEF ConsoleStep, RefuseLine, AnswerLine, OverflowTx, ServesLine, AnswerSlot, OwnCall
<1>4. ~Poll
  BY <1>1 DEF Poll
<1>5. FindIdle
  BY <1>2, <1>3, <1>4, UsbPolls DEF Step, UsbStep, ReachLimit
<1> QED
  BY <1>5 DEF FindIdle, Idle, ServesUsb, console, stores, app

-----------------------------------------------------------------------------
(* The end. *)

LEMMA MinIs ==
    ASSUME NEW S, S \subseteq Nat, NEW m \in S, \A y \in S : m =< y
    PROVE  Min(S) = m
<1>1. \E x \in S : \A y \in S : x =< y
  OBVIOUS
<1>2. Min(S) \in S /\ \A y \in S : Min(S) =< y
  BY <1>1, Zenon DEF Min
<1>3. Min(S) \in Nat /\ m \in Nat /\ Min(S) =< m /\ m =< Min(S)
  BY <1>2
<1> QED
  BY <1>3

(* The tool ends after n commands: behind the last, or at the first that   *)
(* cannot be done.                                                         *)
LEMMA EndFollows ==
    ASSUME Ready, NEW n \in Nat, Len(script) \in Nat, n <= Len(script), Followed(n),
           n < Len(script) => FaultAt(n + 1) # None,
           UNCHANGED <<tool, text, script, outcomes, app, lastWire, bonds>>,
           outcomes = [i \in 1..n |-> OutcomeAt(i)],
           verdict' = IF n = Len(script) THEN "Ok" ELSE FaultAt(n + 1),
           shown' = IF n = Len(script) THEN Snapshot ELSE None
    PROVE  ToolFollowsScript'
<1> DEFINE faults == {i \in DOMAIN script : FaultAt(i) # None}
           upto == {Len(script) + 1} \cup faults
<1>1. DOMAIN script = 1..Len(script)
  BY DEF Ready, Runs, DemoScript
<1>2. upto \subseteq Nat /\ n + 1 \in upto /\ \A y \in upto : n + 1 =< y
  BY <1>1 DEF Followed
<1>3. Min(upto) = n + 1
  <2> HIDE DEF upto
  <2> QED
    BY <1>2, MinIs
<1>4. faults = {} <=> n = Len(script)
  BY <1>1 DEF Followed
<1>5. /\ \A i : FaultAt(i)' = FaultAt(i) /\ OutcomeAt(i)' = OutcomeAt(i)
      /\ \A i : ReportAt(i)' = ReportAt(i) /\ PublishedAt(i)' = PublishedAt(i)
      /\ \A i : InputAfter(i)' = InputAfter(i)
      /\ \A i : CommandLines(i)' = CommandLines(i)
  BY SameScript DEF CommandLines
<1>6. {i \in DOMAIN script' : FaultAt(i)' # None} = faults /\ (n + 1) - 1 = n
  BY <1>5
<1>7. ~\E i \in DOMAIN text' : text'[i].verb = "BAD"
  BY DEF Ready, Parses
<1>8. tool' = "replay" =>
        /\ Len(script') = Cardinality(CommandLines(Len(text))')
        /\ \A i \in CommandLines(Len(text))' : script'[Cardinality(CommandLines(i))'] = text'[i]
  BY <1>5 DEF Ready, Collected
<1>9. /\ verdict' = IF faults = {} THEN "Ok" ELSE FaultAt(n + 1)'
      /\ outcomes' = [i \in 1..n |-> OutcomeAt(i)']
      /\ lastWire' = IF PublishedAt(n)' = 0 THEN None ELSE Encode[ReportAt(PublishedAt(n))']
      /\ lastInput' = InputAfter(n)'
  BY <1>4, <1>5 DEF Followed, app
<1>10. shown' = IF faults # {} THEN None
                ELSE [current_report |-> InputAfter(n)',
                      current_encoded_report |-> Encode[InputAfter(n)'],
                      last_wire |-> lastWire', bonds_present |-> FALSE]
  BY <1>4, <1>5 DEF Followed, Snapshot
<1> HIDE DEF faults
<1> QED
  BY <1>3, <1>6, <1>7, <1>8, <1>9, <1>10 DEF ToolFollowsScript

-----------------------------------------------------------------------------
(* Every step of a tool. *)

LEMMA ReadyStill ==
    ASSUME Ready, UNCHANGED <<tool, text, script>>
    PROVE  Ready'
BY DEF Ready, Runs, Collected, CommandLines, Parses

LEMMA FollowedHere ==
    ASSUME Followed(at), UNCHANGED <<script, at, app, lastWire, bonds>>
    PROVE  Followed(at)'
<1>1. PICK n : n = at
  OBVIOUS
<1>2. Followed(n)'
  BY <1>1, FollowedStill
<1> QED
  BY <1>1, <1>2 DEF Followed, ScriptRead, Attaches, Describing, Publishing

LEMMA PerformedHere ==
    ASSUME Performed, UNCHANGED <<script, at, app, lastWire, bonds, rx, finalEvents, call>>
    PROVE  Performed'
<1>1. PICK n : n = at + 1
  OBVIOUS
<1>2. Followed(n)' /\ OutcomeAt(n)' = OutcomeAt(n)
  BY <1>1, FollowedStill, SameScript DEF Performed
<1> QED
  BY <1>1, <1>2 DEF Performed, Quiet, Followed, ScriptRead, Attaches, Describing, Publishing

LEMMA WaitingHere ==
    ASSUME Waiting, UNCHANGED <<tool, script, at, activeDevice, rx, finalEvents, txLen>>
    PROVE  Waiting'
<1>1. current' = current /\ Source' = Source
  BY DEF current, Source
<1>2. EventOf(current)' = EventOf(current) /\ (LacksDevice' <=> LacksDevice)
  BY <1>1 DEF EventOf, LacksDevice
<1> QED
  BY <1>1, <1>2 DEF Waiting

LEMMA OutcomesStill ==
    ASSUME outcomes = [i \in 1..at |-> OutcomeAt(i)], UNCHANGED <<script, at, outcomes>>
    PROVE  outcomes' = [i \in 1..at' |-> OutcomeAt(i)']
BY SameScript

LEMMA StopKeeps ==
    ASSUME ToolInv, Scripted, StopWithoutDevice
    PROVE  ToolInv'
<1>1. PICK n \in Nat : n = at /\ n < Len(script)
  BY StoppedFollows DEF Followed
<1>2. /\ FaultAt(n + 1) = "NoActiveDevice" /\ Ready /\ Followed(n)
      /\ outcomes = [i \in 1..n |-> OutcomeAt(i)] /\ shown = None
  BY <1>1, StoppedFollows DEF AtWork
<1>3. Len(script) \in Nat
  BY <1>2 DEF Ready, Runs, DemoScript
<1>4. /\ pc' = "end" /\ verdict' = "NoActiveDevice" /\ shown' = shown
      /\ UNCHANGED <<tool, text, script, outcomes, app, lastWire, bonds>>
  BY DEF StopWithoutDevice, End, hostVars, vars, app, stores
<1>5. ToolFollowsScript'
  BY <1>1, <1>2, <1>3, <1>4, ScriptsOK, EndFollows
<1> QED
  BY <1>4, <1>5 DEF ToolInv

LEMMA IssueKeeps ==
    ASSUME ToolInv, Scripted, Issue
    PROVE  ToolInv'
<1>1. AtWork /\ pc = "issue"
  BY DEF ToolInv, Issue, Issuing
<1>2. /\ pc' = "call" /\ UNCHANGED <<tool, text, script, at, outcomes, shown, verdict>>
      /\ UNCHANGED <<app, lastWire, bonds, phase>>
      /\ Waiting'
  BY <1>1, IssuedWaits
<1>3. Ready' /\ Followed(at)' /\ outcomes' = [i \in 1..at' |-> OutcomeAt(i)']
  BY <1>1, <1>2, ReadyStill, FollowedHere, OutcomesStill DEF AtWork
<1>4. AtWork'
  BY <1>1, <1>2, <1>3 DEF AtWork
<1> QED
  BY <1>2, <1>4 DEF ToolInv, ToolFollowsScript

LEMMA CallKeeps ==
    ASSUME ToolInv, Scripted, CallDrain
    PROVE  ToolInv'
<1>1. AtWork /\ Waiting /\ Followed(at)
  BY DEF ToolInv, AtWork, CallDrain
<1>2. /\ pc' = "check" /\ UNCHANGED <<tool, text, script, at, outcomes, shown>>
      /\ UNCHANGED <<app, lastWire, bonds, rx, finalEvents, txLen>>
      /\ phase' = "drain" /\ result' = None
  BY DEF CallDrain, StartCall, StartDrain, console, stores
<1>3. OwnCall' /\ call'.done = 0
  BY DEF CallDrain, StartCall, DrainCall, OwnCall
<1>4. Ready' /\ Followed(at)' /\ outcomes' = [i \in 1..at' |-> OutcomeAt(i)']
  BY <1>1, <1>2, ReadyStill, FollowedHere, OutcomesStill DEF AtWork
<1>5. Waiting'
  BY <1>1, <1>2, WaitingHere DEF app
<1>6. AtWork'
  BY <1>1, <1>2, <1>3, <1>4, <1>5 DEF AtWork
<1> QED
  BY <1>2, <1>6 DEF ToolInv, ToolFollowsScript

LEMMA DrainKeeps ==
    ASSUME ToolInv, Scripted, StepOfTool
    PROVE  ToolInv'
<1>1. AtWork /\ pc = "check" /\ Step /\ UNCHANGED toolState
  BY DEF ToolInv, StepOfTool
<1>2. UNCHANGED <<tool, text, script, at, pc, outcomes, shown>>
  BY <1>1 DEF toolState
<1>3. phase = "drain"
  BY <1>1 DEF Step, ConsoleStep, RefuseLine, AnswerLine, OverflowTx, ServesLine, AnswerSlot,
              UsbStep, HandleEvent, RefuseEvent, Publish, FailToPublish, FindIdle, ServesUsb,
              Serving, ReachLimit
<1>4. OwnCall /\ result = None /\ (Begun \/ Performed)
  BY <1>1, <1>3 DEF AtWork, Begun
<1>5. Ready' /\ outcomes' = [i \in 1..at' |-> OutcomeAt(i)']
  BY <1>1, <1>2, ReadyStill, OutcomesStill DEF AtWork
<1>6. CASE Begun
  <2>1. /\ OwnCall'
        /\ \/ phase' = "drain" /\ result' = None /\ Performed'
           \/ phase' = "collect" /\ result' = "Usb" /\ Failing'
    BY <1>1, <1>2, <1>6, CommandTaken
  <2>2. AtWork'
    BY <1>1, <1>2, <1>5, <2>1 DEF AtWork
  <2> QED
    BY <1>1, <1>2, <2>2 DEF ToolInv, ToolFollowsScript
<1>7. CASE Performed
  <2>1. /\ phase' = "collect" /\ result' = "Ok" /\ call' = call
        /\ UNCHANGED <<app, lastWire, finalEvents, rx, bonds>>
    BY <1>1, <1>3, <1>4, <1>7, NothingLeft
  <2>2. OwnCall' /\ Performed'
    BY <1>2, <1>4, <1>7, <2>1, PerformedHere DEF OwnCall
  <2>3. AtWork'
    BY <1>1, <1>2, <1>5, <2>1, <2>2 DEF AtWork
  <2> QED
    BY <1>1, <1>2, <2>3 DEF ToolInv, ToolFollowsScript
<1> QED
  BY <1>4, <1>6, <1>7

LEMMA AcceptKeeps ==
    ASSUME ToolInv, Scripted, Accept
    PROVE  ToolInv'
<1>1. /\ AtWork /\ pc = "check" /\ phase = "collect" /\ result = "Ok"
  BY DEF ToolInv, Accept, Checking, Returned, AsExpected
<1>2. Performed /\ OwnCall
  BY <1>1 DEF AtWork
<1>3. PICK n \in Nat : n = at /\ n < Len(script)
  BY <1>1, <1>2 DEF AtWork, Performed
<1>4. /\ pc' = "issue" /\ at' = n + 1 /\ outcomes' = Append(outcomes, OutcomeAt(n + 1))
      /\ UNCHANGED <<tool, text, script, shown, phase, rx, finalEvents>>
      /\ UNCHANGED <<app, lastWire, bonds>>
  BY <1>2, <1>3 DEF Accept, Performed, hostVars, vars, app, console, stores
<1>5. Followed(n + 1)'
  BY <1>2, <1>3, <1>4, FollowedStill DEF Performed
<1>6. Followed(at)'
  BY <1>4, <1>5 DEF Followed, ScriptRead, Attaches, Describing, Publishing
<1>7. outcomes' = [i \in 1..n + 1 |-> OutcomeAt(i)]
  BY <1>1, <1>3, <1>4 DEF AtWork
<1>8. outcomes' = [i \in 1..at' |-> OutcomeAt(i)']
  BY <1>4, <1>7, SameScript
<1>9. Ready'
  BY <1>1, <1>4, ReadyStill DEF AtWork
<1>10. at' \in Nat /\ at' # 0
  BY <1>4
<1>11. shown' = None /\ phase' = "collect" /\ Quiet'
  BY <1>1, <1>2, <1>4 DEF AtWork, Performed, Quiet
<1>12. AtWork'
  BY <1>4, <1>6, <1>8, <1>9, <1>10, <1>11 DEF AtWork
<1> QED
  BY <1>4, <1>12 DEF ToolInv, ToolFollowsScript

(* What a command leads to is what the tool expects of it. *)
LEMMA AlwaysExpected ==
    ASSUME Ready, Performed, at \in Nat
    PROVE  Expected
<1>1. Runs /\ at + 1 \in 1..Len(script) /\ call.last = OutcomeAt(at + 1)
  BY DEF Ready, Performed, Runs, DemoScript
<1>2. CASE current.verb = "CONSOLE"
  BY <1>1, <1>2, Commanded DEF Expected, OutcomeAt, current
<1>3. CASE current.verb \in {"ATTACH", "DETACH", "DESCRIPTOR", "INPUT"}
  BY <1>1, <1>3 DEF Expected, OutcomeAt, current, Outcomes
<1> QED
  BY <1>1, <1>2, <1>3, Commanded DEF current

LEMMA RefuseKeeps ==
    ASSUME ToolInv, Scripted, Refuse
    PROVE  ToolInv'
<1>1. AtWork /\ pc = "check" /\ phase = "collect" /\ Ready
  BY DEF ToolInv, Refuse, Checking, Returned, AtWork
<1>2. result = "Usb" /\ Failing
  <2>1. CASE result = "Ok" /\ Performed
    BY <1>1, <2>1, AlwaysExpected DEF AtWork, Refuse, AsExpected
  <2> QED
    BY <1>1, <2>1 DEF AtWork
<1>3. PICK n \in Nat : n = at /\ n < Len(script)
  BY <1>2 DEF Failing, Followed
<1>4. /\ FaultAt(n + 1) = "Drain" /\ Followed(n) /\ Len(script) \in Nat
      /\ outcomes = [i \in 1..n |-> OutcomeAt(i)] /\ shown = None
  BY <1>1, <1>2, <1>3 DEF AtWork, Failing, Ready, Runs, DemoScript
<1>5. /\ pc' = "end" /\ verdict' = "Drain" /\ shown' = shown
      /\ UNCHANGED <<tool, text, script, outcomes, app, lastWire, bonds>>
  BY <1>2 DEF Refuse, Surprise, End, hostVars, vars, app, stores
<1>6. ToolFollowsScript'
  BY <1>1, <1>3, <1>4, <1>5, ScriptsOK, EndFollows
<1> QED
  BY <1>5, <1>6 DEF ToolInv

LEMMA FinishKeeps ==
    ASSUME ToolInv, Scripted, Finish
    PROVE  ToolInv'
<1>1. AtWork /\ pc = "issue" /\ at = Len(script) /\ Ready /\ Followed(at)
  BY DEF ToolInv, Finish, AtWork
<1>2. PICK n \in Nat : n = at
  BY <1>1 DEF Followed
<1>3. /\ Followed(n) /\ n = Len(script) /\ outcomes = [i \in 1..n |-> OutcomeAt(i)]
  BY <1>1, <1>2 DEF AtWork
<1>4. /\ pc' = "end" /\ verdict' = "Ok" /\ shown' = Snapshot
      /\ UNCHANGED <<tool, text, script, outcomes, app, lastWire, bonds>>
  BY DEF Finish, End, hostVars, vars, app, stores
<1>5. ToolFollowsScript'
  BY <1>1, <1>3, <1>4, EndFollows
<1> QED
  BY <1>4, <1>5 DEF ToolInv

LEMMA IdleKeeps ==
    ASSUME ToolInv, Scripted, UNCHANGED toolVars
    PROVE  ToolInv'
<1>1. /\ UNCHANGED <<tool, text, script, at, pc, outcomes, shown, verdict>>
      /\ UNCHANGED <<app, lastWire, bonds, rx, finalEvents, txLen, phase, call, result>>
  BY DEF toolVars, toolState, hostVars, vars, app, console, stores
<1>2. CASE pc = "parse"
  <2>1. New /\ Collected(at)
    BY <1>2 DEF ToolInv
  <2>2. New' /\ Collected(at)'
    BY <1>1, <2>1 DEF New, app, Collected, CommandLines, Parses
  <2> QED
    BY <1>1, <1>2, <2>2 DEF ToolInv, ToolFollowsScript
<1>3. CASE pc \in {"issue", "call", "check"}
  <2>1. AtWork
    BY <1>3 DEF ToolInv
  <2>2. Ready' /\ outcomes' = [i \in 1..at' |-> OutcomeAt(i)']
    BY <1>1, <2>1, ReadyStill, OutcomesStill DEF AtWork
  <2>3. /\ Followed(at) => Followed(at)'
        /\ Waiting => Waiting'
        /\ Performed => Performed'
    BY <1>1, FollowedHere, WaitingHere, PerformedHere DEF app
  <2>4. Failing => Failing'
    <3>1. FaultAt(at + 1)' = FaultAt(at + 1)
      <4>1. PICK n : n = at + 1
        OBVIOUS
      <4>2. FaultAt(n)' = FaultAt(n)
        BY <1>1, SameScript
      <4> QED
        BY <1>1, <4>1, <4>2 DEF FaultAt
    <3> QED
      BY <1>1, <2>3, <3>1 DEF Failing
  <2>5. (OwnCall => OwnCall') /\ (Quiet => Quiet')
    BY <1>1 DEF OwnCall, Quiet
  <2>6. AtWork'
    BY <1>1, <2>1, <2>2, <2>3, <2>4, <2>5 DEF AtWork
  <2> QED
    BY <1>1, <1>3, <2>6 DEF ToolInv, ToolFollowsScript
<1>4. CASE pc = "end"
  <2>1. ToolFollowsScript
    BY DEF ToolInv
  <2>2. /\ \A i : FaultAt(i)' = FaultAt(i) /\ OutcomeAt(i)' = OutcomeAt(i)
        /\ \A i : ReportAt(i)' = ReportAt(i) /\ PublishedAt(i)' = PublishedAt(i)
        /\ \A i : InputAfter(i)' = InputAfter(i)
        /\ \A i : CommandLines(i)' = CommandLines(i)
    BY <1>1, SameScript DEF CommandLines
  <2>3. UNCHANGED <<activeDevice, activeDescriptor, lastInput>>
    BY <1>1 DEF app
  <2>4. ToolFollowsScript'
    BY <1>1, <2>1, <2>2, <2>3 DEF ToolFollowsScript, app
  <2> QED
    BY <1>1, <1>4, <2>4 DEF ToolInv
<1> QED
  BY <1>2, <1>3, <1>4 DEF ToolInv

LEMMA ToolAlways == ToolsSpec => []ToolInv
<1>1. ToolsInit => ToolInv
  BY ToolsBegin
<1>2. ToolInv /\ [ToolsNext]_toolVars => ToolInv'
  <2> SUFFICES ASSUME ToolInv, [ToolsNext]_toolVars PROVE ToolInv'
    OBVIOUS
  <2>1. tool' = tool
    BY DEF ToolsNext, RunTool, ServeFrame, ReadLine, RefuseScript, TakeScript, StopWithoutDevice,
           Issue, CallDrain, StepOfTool, Accept, Refuse, Finish, OtherCaller, OtherRuntime,
           toolState, toolVars
  <2>2. CASE ~Scripted
    BY <2>1, <2>2 DEF ToolInv, Scripted
  <2>3. CASE Scripted
    <3>1. CASE ServeFrame
      BY <2>3, <3>1 DEF ServeFrame, ToolInv
    <3>2. CASE ReadLine \/ RefuseScript \/ TakeScript
      BY <2>3, <3>2, ReadingKeeps
    <3>3. CASE StopWithoutDevice \/ Issue \/ CallDrain \/ StepOfTool
      BY <2>3, <3>3, StopKeeps, IssueKeeps, CallKeeps, DrainKeeps
    <3>4. CASE Accept \/ Refuse \/ Finish
      BY <2>3, <3>4, AcceptKeeps, RefuseKeeps, FinishKeeps
    <3>5. CASE OtherCaller \/ OtherRuntime
      BY <2>3, <3>5 DEF OtherCaller, OtherRuntime, Scripted
    <3>6. CASE UNCHANGED toolVars
      BY <2>3, <3>6, IdleKeeps
    <3> QED
      BY <3>1, <3>2, <3>3, <3>4, <3>5, <3>6 DEF ToolsNext, RunTool
  <2> QED
    BY <2>2, <2>3
<1> QED
  BY <1>1, <1>2, PTL DEF ToolsSpec

(* Every script, of whatever length, and the demo: what a tool reports,    *)
(* publishes and shows is what the commands of the text say, for any       *)
(* parser, decoder and encoder.                                            *)
THEOREM ToolAlwaysFollows == ToolsSpec => []ToolFollowsScript
<1>1. ToolInv /\ Scripted => ToolFollowsScript
  BY DEF ToolInv
<1>2. ToolInv => ToolFollowsScript
  BY <1>1 DEF ToolFollowsScript, Scripted
<1> QED
  BY <1>2, ToolAlways, PTL

-----------------------------------------------------------------------------
(* The tools are callers of the runtime. *)

LEMMA EventIsIngress ==
    ASSUME ToolInv, Scripted, Issue, current.verb # "CONSOLE"
    PROVE  EventOf(current) \in IngressEvents
<1>1. /\ AtWork /\ Runs /\ at \in Nat /\ at < Len(script) /\ Followed(at) /\ ~LacksDevice
  BY DEF ToolInv, AtWork, Ready, Issue, Issuing
<1>2. at + 1 \in 1..Len(script)
  BY <1>1, Typed
<1>3. /\ current.verb \in {"ATTACH", "DETACH", "DESCRIPTOR", "INPUT"}
      /\ current.verb \in {"ATTACH", "DETACH"} => current.device \in Devices
      /\ current.verb = "DESCRIPTOR" => current.data \in DescBuffers
      /\ current.verb = "INPUT" => current.data \in Payloads
  BY <1>1, <1>2, Commanded DEF current
<1>4. activeDevice # None => activeDevice \in Devices
  BY <1>1, Typed DEF Followed
<1>5. current.verb \in {"DESCRIPTOR", "INPUT"} => Source \in Devices
  BY <1>1, <1>4, ScriptsOK DEF LacksDevice, Source
<1>6. EventOf(current) \in ToolEvents
  BY <1>3, <1>5 DEF EventOf, ToolEvents
<1> QED
  BY <1>6, ScriptsOK

(* Another caller has no script.                                           *)
OtherInv ==
    /\ Scripted \/ tool \in {"api", "frame"}
    /\ tool = "api" => pc = "end"

LEMMA OtherAlways == ToolsSpec => []OtherInv
<1>1. ToolsInit => OtherInv
  BY Zenon DEF ToolsInit, OtherInv, Scripted
<1>2. OtherInv /\ [ToolsNext]_toolVars => OtherInv'
  BY DEF OtherInv, Scripted, ToolsNext, RunTool, ServeFrame, ReadLine, RefuseScript, TakeScript,
         Reading, StopWithoutDevice, Issuing, Issue, CallDrain, StepOfTool, Accept, Refuse,
         Checking, Finish, OtherCaller, OtherRuntime, toolState, toolVars
<1> QED
  BY <1>1, <1>2, PTL DEF ToolsSpec

LEMMA ToolStepIsHostStep ==
    ASSUME ToolInv, FrameInv, OtherInv, [ToolsNext]_toolVars
    PROVE  [HostNext]_hostVars
<1>1. CASE ServeFrame
  <2>1. PICK line \in Lines : script[1].line = line
    BY <1>1 DEF ServeFrame, FrameInv
  <2>2. ServiceFrame(line, "Idle")
    BY <1>1, <2>1 DEF ServeFrame
  <2> QED
    BY <2>1, <2>2 DEF HostNext, Caller, BleStates
<1>2. CASE ReadLine \/ RefuseScript \/ TakeScript \/ StopWithoutDevice \/ Accept \/ Refuse \/ Finish
  BY <1>2 DEF ReadLine, RefuseScript, TakeScript, StopWithoutDevice, Accept, Refuse, Finish
<1>3. CASE Issue
  <2>1. Scripted
    BY <1>3 DEF Issue, Issuing, FrameInv, OtherInv
  <2>2. CASE current.verb = "CONSOLE"
    <3>1. AtWork /\ Runs /\ at + 1 \in 1..Len(script)
      BY <1>3, <2>1, Typed DEF ToolInv, AtWork, Ready, Issue, Issuing
    <3>2. current.line \in Lines
      BY <2>2, <3>1, Commanded, ScriptsOK DEF current
    <3> QED
      BY <1>3, <2>2, <3>2 DEF Issue, HostNext, Caller
  <2>3. CASE current.verb # "CONSOLE"
    BY <1>3, <2>1, <2>3, EventIsIngress DEF Issue, HostNext, Caller
  <2> QED
    BY <2>2, <2>3
<1>4. CASE CallDrain
  BY <1>4, ScriptsOK DEF CallDrain, HostNext, Runtime, Starts
<1>5. CASE StepOfTool
  BY <1>5 DEF StepOfTool, HostNext, Runtime
<1>6. CASE OtherCaller
  BY <1>6, ScriptsOK DEF OtherCaller, HostNext, Caller
<1>7. CASE OtherRuntime
  BY <1>7, ScriptsOK DEF OtherRuntime, HostNext, Runtime, Starts
<1>8. CASE UNCHANGED toolVars
  BY <1>8 DEF toolVars
<1> QED
  BY <1>1, <1>2, <1>3, <1>4, <1>5, <1>6, <1>7, <1>8 DEF ToolsNext, RunTool

(* Whatever a tool or another caller does, the runtime sees only calls of  *)
(* its API with arguments the API allows: a behaviour of HostTools is one  *)
(* of HostRuntime, but for the fairness.                                   *)
THEOREM ToolsAreCallers == ToolsSpec => HostSteps
<1>1. ToolsInit => HostInit
  BY DEF ToolsInit
<1>2. ToolInv /\ FrameInv /\ OtherInv /\ [ToolsNext]_toolVars => [HostNext]_hostVars
  BY ToolStepIsHostStep
<1> QED
  BY <1>1, <1>2, ToolAlways, FrameAlways, OtherAlways, PTL DEF ToolsSpec, HostSteps

(* So every promise of the runtime holds under the tools, whatever their   *)
(* scripts: what a call reports is what it did, the console goes first, no *)
(* setting changes silently, and what App keeps and publishes is that of a *)
(* single source.                                                          *)
THEOREM ToolsKeepPromises ==
    ToolsSpec => /\ []HostTypeOK /\ []DrainAccounts /\ []ConsoleBeforeUsb /\ []EffectsReported
                 /\ HostImplementsSingleSource
<1> QED
  BY ToolsAreCallers, HostTypeCorrect, DrainAlwaysAccounts, ConsoleAlwaysFirst,
     EffectsAlwaysReported, HostRefinement, PTL

(* The room for two responses, too, whichever tool fills TX.               *)
THEOREM ToolsHoldTwo ==
    ASSUME TxCap >= 110
    PROVE  ToolsSpec => []TxHoldsTwo
<1>1. HostSteps => []TxHoldsTwo
  BY TxAlwaysHoldsTwo
<1> QED
  BY <1>1, ToolsAreCallers, PTL
=============================================================================
