---------------------------- MODULE HostRuntime -----------------------------
(***************************************************************************)
(* The runtime of the host builds: App with the framed console buffer, the *)
(* in-memory stores, the queue of USB events and the recording outputs,    *)
(* and the calls that serve it: the service_once family (the console       *)
(* before USB, at most one of the two), service_frame, and                 *)
(* drain_persona_until_idle with its limit of steps.                       *)
(*                                                                         *)
(* One thread does it all: "collect" is the phase in which the caller has  *)
(* control, "drain" the phase of a call.  The caller pushes whole lines.   *)
(***************************************************************************)
EXTENDS UsbBridge, Protocol

CONSTANTS
    Word,      \* what may stand between two bars of a line
    Lines,     \* the lines it may be given
    Calls,     \* the calls it may make
    RxCap,     \* RX_BUFFER_CAPACITY
    TxCap      \* TX_BUFFER_CAPACITY

(* BleConnectionState, and what the protocol calls it. *)
BleStates == {"Idle", "Advertising", "Connected"}

map_ble_link_state ==
    [Idle |-> "Idle", Advertising |-> "Advertising", Connected |-> "Connected"]

(* A call.  A single step serves the framed buffer or the one-slot command *)
(* source, and publishes to a persona output or a plain one; only the      *)
(* first combination has a drain loop around it.  "fails" are the doubles  *)
(* told to fail (set_fail_with).                                           *)
Call ==
    [mode : {"drain", "once"}, console : {"buffer", "slot"},
     output : {"persona", "plain"}, max : Nat, link : BleStates,
     fails : SUBSET {"ble", "console"}]

Outcomes == {"Responded", "Ignored", "DeviceAttached", "DeviceDetached",
             "DescriptorStored", "Published"}

FrameBufferErrors == {"RxOverflow", "TxOverflow", "Decode"}

(* What a call returns: the errors of a step end it. *)
StepErrors == (FrameBufferErrors \ {"RxOverflow"}) \cup {"Console", "Usb", "Ble"}
CallResults == {"Ok", "StepLimitReached"} \cup StepErrors

(* The errors of push_console_bytes and service_frame. *)
CallerErrors == {"RxOverflow", "FrameDecode", "FrameEncode"}

ASSUME HostConstantsOK ==
    /\ Lines \subseteq Frame(Word)
    /\ Calls \subseteq Call
    /\ \A c \in Calls :
         IF c.mode = "once" THEN c.max = 1 ELSE c.console = "buffer" /\ c.output = "persona"
    /\ RxCap \in Nat /\ TxCap \in Nat
    /\ None \notin Commands \cup Inputs \cup {V1_PROFILE_NAME}
    /\ None \notin CallResults \cup CallerErrors

VARIABLES
    rx,      \* FramedConsoleBuffer.rx[..rx_len], as lines
    tx,      \* FramedConsoleBuffer.tx[..tx_len], as responses
    txLen,   \* FramedConsoleBuffer.tx_len
    slot,    \* QueuedCommandSource.next_command
    stored,  \* MemoryProfileStore.active_profile
    bonds,   \* MemoryBondStore.bonds_present
    plain,   \* what a plain output has recorded
    call,    \* the call, actions_processed, the last outcome, and, for the
             \* properties, what the call found when it began
    result   \* what it returned

console  == <<rx, tx, txLen, slot>>
stores   == <<stored, bonds>>
hostVars == <<vars, console, stores, plain, call, result>>

Pending(path) ==
    Len(finalEvents) + (IF path = "buffer" THEN Len(rx)
                        ELSE IF slot # None THEN 1 ELSE 0)

Found(path) == [work |-> Pending(path), events |-> Len(finalEvents),
                responses |-> Len(tx), stores |-> stores]

NoCall == [mode |-> "once", console |-> "buffer", output |-> "persona", max |-> 1,
           link |-> "Idle", fails |-> {}, done |-> 0, last |-> None, found |-> None]

(* new_for_host; a test may begin with bonds (with_bonds_present). *)
HostInit ==
    /\ Init
    /\ rx = <<>> /\ tx = <<>> /\ txLen = 0 /\ slot = None
    /\ stored = None /\ bonds \in BOOLEAN
    /\ plain = None
    /\ call = NoCall
    /\ result = None

-----------------------------------------------------------------------------
(* The caller. *)

(* What the caller does between two calls; the last one is forgotten.      *)
CallerActs ==
    /\ phase = "collect"
    /\ call' = NoCall

(* rx_len *)
Bytes(lines) ==
    LET upTo[i \in 0..Len(lines)] == IF i = 0 THEN 0 ELSE upTo[i - 1] + lines[i].len
    IN  upTo[Len(lines)]

(* push_console_bytes takes a line whole or not at all. *)
PushLine(line) ==
    /\ CallerActs
    /\ IF Bytes(rx) + line.len <= RxCap
       THEN rx' = Append(rx, line) /\ result' = None
       ELSE result' = "RxOverflow" /\ UNCHANGED rx
    /\ UNCHANGED <<vars, tx, txLen, slot, stores, plain>>

QueueEvent(e) ==
    /\ CallerActs
    /\ Collect(e)
    /\ result' = None
    /\ UNCHANGED <<console, stores, plain>>

(* queue_command replaces a command not served yet. *)
QueueCommand(command) ==
    /\ CallerActs
    /\ command \in Commands
    /\ slot' = command
    /\ result' = None
    /\ UNCHANGED <<vars, rx, tx, txLen, stores, plain>>

StoreBonds(present) ==
    /\ CallerActs
    /\ bonds' = present
    /\ result' = None
    /\ UNCHANGED <<vars, console, stored, plain>>

ClearTx ==
    /\ CallerActs
    /\ tx' = <<>> /\ txLen' = 0
    /\ result' = None
    /\ UNCHANGED <<vars, rx, slot, stores, plain>>

StartCall(c) ==
    /\ StartDrain
    /\ call' = [mode |-> c.mode, console |-> c.console, output |-> c.output,
                max |-> c.max, link |-> c.link, fails |-> c.fails,
                done |-> 0, last |-> None, found |-> Found(c.console)]
    /\ result' = None
    /\ UNCHANGED <<console, stores, plain>>

-----------------------------------------------------------------------------
(* handle_command: what it changes and what it answers. *)

Effect(command) ==
    /\ stored' = IF command = "SET_PROFILE" THEN V1_PROFILE_NAME ELSE stored
    /\ bonds' = (bonds /\ command # "FORGET_BONDS")

ResponseTo(command, link) ==
    CASE command = "GET_INFO" -> [kind |-> "Info"]
      [] command = "GET_STATUS" -> [kind |-> "Status", bonds |-> bonds,
                                 link |-> map_ble_link_state[link]]
      [] command = "GET_PROFILE" -> [kind |-> "Profile"]
      [] OTHER -> [kind |-> "Ack"]

(* service_frame: the response is returned, not queued. *)
ServiceFrame(line, link) ==
    LET command == DecodeCommand(line)
    IN  /\ CallerActs
        /\ IF command \in Commands
           THEN /\ Effect(command)
                /\ result' = IF Encodes(ResponseTo(command, link)) THEN None ELSE "FrameEncode"
           ELSE result' = "FrameDecode" /\ UNCHANGED stores
        /\ UNCHANGED <<vars, console, plain>>

-----------------------------------------------------------------------------
(* What the runtime shows of itself; last_wire is the persona output's.    *)
Snapshot ==
    [current_report |-> lastInput, current_encoded_report |-> Encode[lastInput],
     last_wire |-> lastWire, bonds_present |-> bonds]

-----------------------------------------------------------------------------
(* Within a call.  A drain takes a step before it looks at its limit.      *)

(* Defective variant: one step more than the limit. *)
PastLimit == call.done > 0 /\ call.done > call.max

AtLimit == call.done > 0 /\ call.done >= call.max

Serving == phase = "drain" /\ ~AtLimit

Done(outcome) ==
    /\ Continue
    /\ call' = [call EXCEPT !.done = @ + 1, !.last = outcome]
    /\ UNCHANGED result

Fail(error) == GiveUp /\ result' = error /\ UNCHANGED call

ReachLimit ==
    /\ phase = "drain"
    /\ AtLimit
    /\ GiveUp
    /\ result' = IF call.mode = "drain" THEN "StepLimitReached" ELSE "Ok"
    /\ UNCHANGED <<app, lastWire, finalEvents, console, stores, plain, call>>

(* service_console_buffer_once: the line is gone before its command is     *)
(* looked at, and the command has run before its response finds no room.   *)
NextCommand == DecodeCommand(Head(rx))
Response == ResponseTo(NextCommand, call.link)

(* Defective variants: room for the longest frame is asked for, or none.   *)
FitsFrame(response) == txLen + MAX_FRAME_LEN <= TxCap
FitsAnyway(response) == TRUE

FitsTx(response) == txLen + EncodedLen(response) <= TxCap

(* Defective variant: a line that is refused stays in RX. *)
KeepLine == rx' = rx

TakeLine == rx' = Tail(rx)

ServesLine ==
    /\ Serving
    /\ call.console = "buffer"
    /\ rx # <<>>
    /\ TakeLine
    /\ UNCHANGED <<app, lastWire, finalEvents, slot, plain>>

RefuseLine ==
    /\ ServesLine
    /\ NextCommand \in FrameErrors
    /\ Fail("Decode")
    /\ UNCHANGED <<tx, txLen, stores>>

AnswerLine ==
    /\ ServesLine
    /\ NextCommand \in Commands
    /\ FitsTx(Response)
    /\ Effect(NextCommand)
    /\ tx' = Append(tx, Response) /\ txLen' = txLen + EncodedLen(Response)
    /\ Done("Responded")

(* Defective variant: the caller is not told. *)
IgnoreOverflow == Done("Responded")

TellOverflow == Fail("TxOverflow")

OverflowTx ==
    /\ ServesLine
    /\ NextCommand \in Commands
    /\ ~FitsTx(Response)
    /\ Effect(NextCommand)
    /\ TellOverflow
    /\ UNCHANGED <<tx, txLen>>

(* RecordingResponseSink *)
SinkFails == "console" \in call.fails

(* service_console_once: the typed command source and response sink. *)
AnswerSlot ==
    /\ Serving
    /\ call.console = "slot"
    /\ slot # None
    /\ slot' = None
    /\ Effect(slot)
    /\ IF SinkFails THEN Fail("Console") ELSE Done("Responded")
    /\ UNCHANGED <<app, lastWire, finalEvents, rx, tx, txLen, plain>>

ConsoleStep == RefuseLine \/ AnswerLine \/ OverflowTx \/ AnswerSlot

-----------------------------------------------------------------------------
(* service_usb_once and service_usb_once_persona, if the console was idle. *)

(* Defective variant: USB does not wait for the console. *)
ConsoleAside == TRUE

ConsoleIdle == IF call.console = "buffer" THEN rx = <<>> ELSE slot = None

ServesUsb == Serving /\ ConsoleIdle /\ UNCHANGED <<console, stores>>

HandleEvent ==
    /\ ServesUsb
    /\ \/ Attach /\ Done("DeviceAttached")
       \/ Detach /\ Done("DeviceDetached")
       \/ StoreDescriptor /\ Done("DescriptorStored")
       \/ Ignore /\ Done("Ignored")
    /\ UNCHANGED plain

RefuseEvent ==
    /\ ServesUsb
    /\ RejectLength \/ RejectDescriptor \/ RejectInput
    /\ Fail("Usb")
    /\ UNCHANGED plain

(* The recording outputs, told to fail or not. *)
OutputFails == "ble" \in call.fails

(* RecordingBleOutput keeps the report, WireRecordingBleOutput both. *)
Recording(i) == [report |-> i, wire |-> Encode[i]]

(* A persona output gets the encoded report, a plain one the report. *)
ToPersona == lastWire' = CurrentReport /\ UNCHANGED plain
ToPlain == plain' = Recording(lastInput') /\ UNCHANGED lastWire

Publish ==
    /\ ServesUsb
    /\ ~OutputFails
    /\ TakeInput
    /\ Done("Published")
    /\ IF call.output = "persona" THEN ToPersona ELSE ToPlain

(* Any error of the output ends the call. *)
FailToPublish ==
    /\ ServesUsb
    /\ OutputFails
    /\ TakeInput
    /\ Fail("Ble")
    /\ UNCHANGED <<lastWire, plain>>

FindIdle ==
    /\ ServesUsb
    /\ Idle
    /\ result' = "Ok"
    /\ UNCHANGED <<plain, call>>

UsbStep == HandleEvent \/ RefuseEvent \/ Publish \/ FailToPublish \/ FindIdle

Step == ConsoleStep \/ UsbStep \/ ReachLimit

-----------------------------------------------------------------------------
Starts == \E c \in Calls : StartCall(c)

Caller(lines, events) ==
    \/ \E line \in lines :
         \/ PushLine(line)
         \/ QueueCommand(DecodeCommand(line))
         \/ \E link \in BleStates : ServiceFrame(line, link)
    \/ \E e \in events : QueueEvent(e)
    \/ \E present \in BOOLEAN : StoreBonds(present)
    \/ ClearTx

Runtime == Starts \/ Step

HostNext == Caller(Lines, IngressEvents) \/ Runtime

HostSteps == HostInit /\ [][HostNext]_hostVars

(* A call runs to its end, and the caller keeps calling. *)
HostSpec == HostSteps /\ WF_hostVars(Runtime)

-----------------------------------------------------------------------------
HostTypeOK ==
    /\ TypeOK
    /\ rx \in Seq(Lines)
    /\ tx \in Seq(Responses) /\ txLen \in 0..TxCap
    /\ slot \in Commands \cup {None}
    /\ stored \in {V1_PROFILE_NAME, None} /\ bonds \in BOOLEAN
    /\ plain \in [report : Inputs, wire : Wires] \cup {None}
    /\ call.mode \in {"drain", "once"} /\ call.console \in {"buffer", "slot"}
    /\ call.done \in Nat /\ call.last \in Outcomes \cup {None}
    /\ result \in CallResults \cup CallerErrors \cup {None}

Returned == phase = "collect" /\ result \in CallResults

(* What a call reports about its work is what it did: a drain that returns *)
(* Ok has left nothing and done less than its limit, one that reports the  *)
(* limit has done exactly as much (but one step for a limit of zero, and   *)
(* the limit even if nothing was left), and a failing step has used up the *)
(* line, command or event it failed on and nothing else (app.rs,           *)
(* drain_persona_until_idle).                                              *)
DrainAccounts ==
    LET used == call.found.work - Pending(call.console)
    IN  Returned =>
          /\ used = call.done + (IF result \in StepErrors THEN 1 ELSE 0)
          /\ result = "Ok" =>
               IF call.mode = "drain"
               THEN used = call.found.work /\ (used < call.max \/ used = 0)
               ELSE used = 1 \/ call.found.work = 0
          /\ result = "StepLimitReached" =>
               call.mode = "drain" /\ used = IF call.max = 0 THEN 1 ELSE call.max
          /\ result \in StepErrors => call.done < call.max \/ call.done = 0

(* No call serves a USB event while a command waits, however the two were  *)
(* queued and wherever an earlier call has failed or met its limit         *)
(* (service_once_with_console_buffer_persona and its three siblings).      *)
ConsoleBeforeUsb ==
    phase = "drain" \/ Returned =>
      Len(finalEvents) = call.found.events \/ Pending(call.console) = Len(finalEvents)

(* A setting does not change behind the caller's back: if a call changed   *)
(* one, either the acknowledgment is queued or returned, or the call       *)
(* returned the error of its response (the command has run by then).       *)
EffectsReported ==
    Returned /\ stores # call.found.stores =>
      \/ result \in {"TxOverflow", "Console"}
      \/ call.last = "Responded" /\ call.console = "slot"
      \/ \E i \in call.found.responses + 1 .. Len(tx) : tx[i].kind = "Ack"

(* Responses nobody collects are refused one day, for the runtime never    *)
(* empties TX itself, but two of them always find room, whatever they are  *)
(* (queue_response).                                                       *)
TxHoldsTwo == result = "TxOverflow" => Len(tx) >= 2

(* The state App keeps, and what reaches either kind of output, is that of *)
(* one source at a time, whatever is served between the events and         *)
(* whichever calls fail (handle_usb_event under the service_once family).  *)
PlainPromise == INSTANCE SingleSource
                  WITH source <- activeDevice, view <- lastInput, peer <- plain,
                       Encode <- [i \in Inputs |-> Recording(i)]
HostImplementsSingleSource == Promise!SSpec /\ PlainPromise!SSpec

=============================================================================
