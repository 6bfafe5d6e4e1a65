----------------------------- MODULE HostTools ------------------------------
(***************************************************************************)
(* The host tools around HostRuntime: --replay-host parses a text line by  *)
(* line, then runs its commands, each an event and a drain of at most      *)
(* DrainLimit steps; --demo-host does the same with a fixed script, a      *)
(* console line first.  Either stops at the first thing that goes wrong.   *)
(* --embedded-contract shows the runtime as it is new and does no more.    *)
(* "api" stands for any other caller: the tests, and what may be built;    *)
(* "frame" for one that gives a single frame to service_frame.             *)
(*                                                                         *)
(* A line of a script is kept as its verb and what the verb needs; "BAD"   *)
(* is a line that does not parse, "SKIP" a blank one or a comment.         *)
(***************************************************************************)
EXTENDS HostRuntime, FiniteSetsExt

CONSTANTS
    Scripts,    \* the texts to replay
    DemoDevice, \* the device of run_host_demo,
    DemoDescriptor, \* its report descriptor
    DemoPayload,    \* and the one report it sends
    DrainLimit, \* steps of a drain: 8
    Pushed,     \* the lines another caller may give,
    Queued,     \* the events it may queue,
    Called,     \* the calls it may make, and a
    MaxInputs   \* bound on what it does between its calls

ReplayCommand ==
    [verb : {"ATTACH", "DETACH"}, device : Devices]
      \cup [verb : {"DESCRIPTOR"}, data : DescBuffers]
      \cup [verb : {"INPUT"}, data : Payloads]

ScriptLine == ReplayCommand \cup [verb : {"BAD", "SKIP"}]

(* What run_host_demo does, in the form of a script. *)
DemoLine == [len |-> 9, ended |-> TRUE, utf8 |-> TRUE, words |-> <<"GET_INFO">>]

DemoScript ==
    <<[verb |-> "CONSOLE", line |-> DemoLine],
      [verb |-> "ATTACH", device |-> DemoDevice],
      [verb |-> "DESCRIPTOR", data |-> DemoDescriptor],
      [verb |-> "INPUT", data |-> DemoPayload]>>

(* The call the tools make. *)
DrainCall ==
    [mode |-> "drain", console |-> "buffer", output |-> "persona", max |-> DrainLimit,
     link |-> "Connected", fails |-> {}]

(* What the tools put into a UsbEvent always fits. *)
ToolEvents ==
    [kind : {"Attached", "Detached"}, device : Devices]
      \cup [kind : {"Descriptor"}, device : Devices, data : DescBuffers, fits : {TRUE}]
      \cup [kind : {"Input"}, device : Devices, data : Payloads, fits : {TRUE}]

ASSUME ScriptsOK ==
    /\ Scripts \subseteq Seq(ScriptLine)
    /\ DemoDevice \in Devices /\ DemoDescriptor \in DescBuffers /\ DemoPayload \in Payloads
    /\ DemoLine \in Lines /\ DemoLine.len <= RxCap /\ EncodedLen([kind |-> "Info"]) <= TxCap
    /\ DrainLimit \in Nat \ {0, 1} /\ MaxInputs \in Nat
    /\ Pushed \subseteq Lines /\ Queued \cup ToolEvents \subseteq IngressEvents
    /\ Called \cup {DrainCall} \subseteq Calls
    /\ None \notin {"Drain", "NoActiveDevice"}

VARIABLES
    tool,     \* the tool that main was told to run
    text,     \* the lines of the script file
    script,   \* the commands
    at,       \* the number of lines read, then of commands done
    pc,       \* "parse", "issue", "call", "check", "frame", "end"
    outcomes, \* ReplayResult.outcomes, or those of HostDemoResult
    shown,    \* the rest of the result: the runtime's last snapshot
    verdict,  \* how the tool ended: "Ok", or the HostToolError
    inputs    \* what another caller has done, calls excepted

toolState == <<tool, text, script, at, pc, outcomes, shown, verdict, inputs>>
toolVars == <<hostVars, toolState>>

ToolsInit ==
    /\ HostInit
    /\ \/ tool = "replay" /\ text \in Scripts /\ script = <<>> /\ pc = "parse" /\ ~bonds
       \/ text = <<>> /\
            \/ tool = "api" /\ script = <<>> /\ pc = "end"
            \/ tool = "contract" /\ script = <<>> /\ pc = "issue" /\ ~bonds
            \/ tool = "demo" /\ script = DemoScript /\ pc = "issue" /\ ~bonds
            \/ tool = "frame" /\ pc = "frame" /\ bonds
                 /\ script \in {<<[verb |-> "FRAME", line |-> line]>> : line \in Lines}
    /\ at = 0
    /\ outcomes = <<>>
    /\ shown = None
    /\ verdict = None
    /\ inputs = 0

End(how) == pc' = "end" /\ verdict' = how

Parses(line) == line.verb # "BAD"

Reading == pc = "parse" /\ at < Len(text)

(* parse_replay_script: all of the text, before anything is run. *)
ReadLine ==
    /\ Reading
    /\ Parses(text[at + 1])
    /\ at' = at + 1
    /\ script' = IF text[at + 1].verb = "SKIP" THEN script ELSE Append(script, text[at + 1])
    /\ UNCHANGED <<hostVars, tool, text, pc, outcomes, shown, verdict, inputs>>

RefuseScript ==
    /\ Reading
    /\ ~Parses(text[at + 1])
    /\ script' = <<>>
    /\ End("ReplayParse")
    /\ UNCHANGED <<hostVars, tool, text, at, outcomes, shown, inputs>>

TakeScript ==
    /\ pc = "parse"
    /\ at = Len(text)
    /\ at' = 0
    /\ pc' = "issue"
    /\ UNCHANGED <<hostVars, tool, text, script, outcomes, shown, verdict, inputs>>

current == script[at + 1]

(* The device of a DESCRIPTOR or an INPUT. *)
Source == IF tool = "demo" THEN DemoDevice ELSE activeDevice

EventOf(line) ==
    CASE line.verb = "ATTACH" -> [kind |-> "Attached", device |-> line.device]
      [] line.verb = "DETACH" -> [kind |-> "Detached", device |-> line.device]
      [] line.verb = "DESCRIPTOR" ->
           [kind |-> "Descriptor", device |-> Source, data |-> line.data, fits |-> TRUE]
      [] line.verb = "INPUT" ->
           [kind |-> "Input", device |-> Source, data |-> line.data, fits |-> TRUE]

(* Defective variant: only a descriptor is refused without a device. *)
DescriptorLacksDevice == current.verb = "DESCRIPTOR" /\ Source = None

LacksDevice == current.verb \in {"DESCRIPTOR", "INPUT"} /\ Source = None

Issuing == pc = "issue" /\ at < Len(script)

StopWithoutDevice ==
    /\ Issuing
    /\ LacksDevice
    /\ End("NoActiveDevice")
    /\ UNCHANGED <<hostVars, tool, text, script, at, outcomes, shown, inputs>>

Issue ==
    /\ Issuing
    /\ ~LacksDevice
    /\ IF current.verb = "CONSOLE" THEN PushLine(current.line) ELSE QueueEvent(EventOf(current))
    /\ pc' = "call"
    /\ UNCHANGED <<tool, text, script, at, outcomes, shown, verdict, inputs>>

CallDrain ==
    /\ pc = "call"
    /\ StartCall(DrainCall)
    /\ pc' = "check"
    /\ UNCHANGED <<tool, text, script, at, outcomes, shown, verdict, inputs>>

Checking == pc = "check" /\ Returned

(* What the tool expects of the drain's last outcome. *)
Expected ==
    IF tool = "demo" /\ current.verb = "CONSOLE"
    THEN call.last = "Responded"
    ELSE call.last \in Outcomes \ {"Responded"}

(* The error of what it does not expect. *)
Surprise ==
    IF result # "Ok" THEN "Drain"
    ELSE IF call.last = None \/ (tool = "demo" /\ current.verb = "CONSOLE") THEN "ReplayNoWork"
    ELSE IF tool = "demo" THEN "UnexpectedDemoOutcome" ELSE "UnexpectedConsoleOutcome"

AsExpected == result = "Ok" /\ Expected

Accept ==
    /\ Checking
    /\ AsExpected
    /\ outcomes' = Append(outcomes, call.last)
    /\ at' = at + 1
    /\ pc' = "issue"
    /\ UNCHANGED <<hostVars, tool, text, script, shown, verdict, inputs>>

Refuse ==
    /\ Checking
    /\ ~AsExpected
    /\ End(Surprise)
    /\ UNCHANGED <<hostVars, tool, text, script, at, outcomes, shown, inputs>>

(* The results name their fields; what they hold is this. *)
Finish ==
    /\ pc = "issue"
    /\ at = Len(script)
    /\ shown' = Snapshot
    /\ End("Ok")
    /\ UNCHANGED <<hostVars, tool, text, script, at, outcomes, inputs>>

StepOfTool == pc = "check" /\ Step /\ UNCHANGED toolState

ServeFrame ==
    /\ pc = "frame"
    /\ ServiceFrame(script[1].line, "Idle")
    /\ End(IF result' = None THEN "Ok" ELSE result')
    /\ UNCHANGED <<tool, text, script, at, outcomes, shown, inputs>>

RunTool ==
    \/ ServeFrame
    \/ ReadLine \/ RefuseScript \/ TakeScript \/ StopWithoutDevice \/ Issue \/ CallDrain
    \/ StepOfTool \/ Accept \/ Refuse \/ Finish

(* Any other caller, up to a number of inputs. *)
OtherCaller ==
    /\ tool = "api"
    /\ inputs < MaxInputs /\ inputs' = inputs + 1
    /\ Caller(Pushed, Queued)
    /\ UNCHANGED <<tool, text, script, at, pc, outcomes, shown, verdict>>

OtherRuntime ==
    /\ tool = "api"
    /\ (\E c \in Called : StartCall(c)) \/ Step
    /\ UNCHANGED toolState

ToolsNext == RunTool \/ OtherCaller \/ OtherRuntime

ToolsSpec ==
    /\ ToolsInit
    /\ [][ToolsNext]_toolVars
    /\ WF_toolVars(RunTool) /\ WF_toolVars(OtherRuntime)

-----------------------------------------------------------------------------
(* What a script means, read off its commands alone. *)

(* The last of the first n commands that attached a device, unless that    *)
(* device was detached since; or 0.                                        *)
AttachAt(n) ==
    LET attaches == {i \in 1..n : script[i].verb = "ATTACH"}
        last == Max({0} \cup attaches)
        Detaches(i) == script[i].verb = "DETACH" /\ script[i].device = script[last].device
    IN  IF \E i \in last + 1 .. n : last # 0 /\ Detaches(i) THEN 0 ELSE last

(* The last descriptor of that attachment that parses; or 0. *)
DescriptorAt(n) ==
    LET a == AttachAt(n)
        Describes(i) == script[i].verb = "DESCRIPTOR" /\ Parse[script[i].data] # Failed
    IN  Max({0} \cup {i \in a + 1 .. n : a # 0 /\ Describes(i)})

ReportAt(i) ==
    Decode[<<Parse[script[DescriptorAt(i)].data], script[i].data>>]

(* The error command i ends the tool with, given that those before it did  *)
(* not; or None.                                                           *)
FaultAt(i) ==
    CASE script[i].verb \in {"DESCRIPTOR", "INPUT"} /\ AttachAt(i) = 0 -> "NoActiveDevice"
      [] script[i].verb = "DESCRIPTOR" /\ AttachAt(i) # 0 ->
           IF Parse[script[i].data] = Failed THEN "Drain" ELSE None
      [] script[i].verb = "INPUT" /\ AttachAt(i) # 0 ->
           IF DescriptorAt(i) # 0 /\ ReportAt(i) = Failed THEN "Drain" ELSE None
      [] OTHER -> None

OutcomeAt(i) ==
    CASE script[i].verb = "CONSOLE" -> "Responded"
      [] script[i].verb = "ATTACH" -> "DeviceAttached"
      [] script[i].verb = "DESCRIPTOR" -> "DescriptorStored"
      [] script[i].verb = "INPUT" -> IF DescriptorAt(i) = 0 THEN "Ignored" ELSE "Published"
      [] script[i].verb = "DETACH" ->
           IF AttachAt(i) # AttachAt(i - 1) THEN "DeviceDetached" ELSE "Ignored"

(* The last of the first n commands that published a report; or 0. *)
PublishedAt(n) == Max({0} \cup {i \in 1..n : OutcomeAt(i) = "Published"})

(* The joystick state the first n commands leave. *)
InputAfter(n) ==
    LET last == PublishedAt(n)
    IN  IF last = 0 \/ AttachAt(n) = 0 \/ AttachAt(n) > last THEN Neutral ELSE ReportAt(last)

(* The lines of the text that are commands, among the first n. *)
CommandLines(n) == {i \in 1..n : text[i].verb # "SKIP"}

(* A tool does what its script says, up to the first command that cannot   *)
(* be done and no further: a text that does not parse does nothing, one    *)
(* that does is run line by line but for blanks and comments, an outcome   *)
(* is reported for every command done, the published report is that of the *)
(* last input among them, and the joystick state, which is what the tool   *)
(* shows in the end, is neutral again when its source is gone; the errors  *)
(* for outcomes of the wrong kind never come up (parse_replay_script,      *)
(* run_replay_host, run_host_demo).                                        *)
ToolFollowsScript ==
    tool \in {"contract", "replay", "demo"} /\ pc = "end" =>
      IF \E i \in DOMAIN text : text[i].verb = "BAD"
      THEN /\ verdict = "ReplayParse" /\ outcomes = <<>> /\ shown = None
           /\ app = <<None, None, Neutral>> /\ lastWire = None
      ELSE LET faults == {i \in DOMAIN script : FaultAt(i) # None}
               stop == Min({Len(script) + 1} \cup faults)
               last == PublishedAt(stop - 1)
               final == InputAfter(stop - 1)
           IN  /\ tool = "replay" =>
                     /\ Len(script) = Cardinality(CommandLines(Len(text)))
                     /\ \A i \in CommandLines(Len(text)) :
                          script[Cardinality(CommandLines(i))] = text[i]
               /\ verdict = IF faults = {} THEN "Ok" ELSE FaultAt(stop)
               /\ outcomes = [i \in 1 .. stop - 1 |-> OutcomeAt(i)]
               /\ lastWire = IF last = 0 THEN None ELSE Encode[ReportAt(last)]
               /\ lastInput = final
               /\ shown = IF faults # {} THEN None
                          ELSE [current_report |-> final,
                                current_encoded_report |-> Encode[final],
                                last_wire |-> lastWire, bonds_present |-> FALSE]

(* A frame is accepted exactly if it is a command as the README spells it, *)
(* terminated and of sane length, and has the effect of that command and   *)
(* of no other: no number of bars, empty words or words behind a command   *)
(* makes one out of anything else (decode_command, service_frame).         *)
AcceptedIffSpelled ==
    tool = "frame" /\ pc = "end" =>
      LET frame == script[1].line
          Spells(c) == /\ frame.words = Spelling(c)
                       /\ frame.ended /\ frame.utf8 /\ frame.len \in 1..MAX_FRAME_LEN
      IN  /\ verdict = IF \E c \in Commands : Spells(c) THEN "Ok" ELSE "FrameDecode"
          /\ stored = IF Spells("SET_PROFILE") THEN V1_PROFILE_NAME ELSE None
          /\ bonds = ~Spells("FORGET_BONDS")

(* USB is served in the end, though every step prefers the console and     *)
(* every failing step ends its call: a caller that keeps calling, with     *)
(* whatever limit, and does not have commands forever, has every event     *)
(* handled (service_once_with_console_buffer_persona and its siblings).    *)
UsbServed == []<>(finalEvents = <<>>)
=============================================================================
