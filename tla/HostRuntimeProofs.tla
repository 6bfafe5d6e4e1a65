------------------------- MODULE HostRuntimeProofs --------------------------
(***************************************************************************)
(* Proofs about HostRuntime, for any events, lines and calls, whatever the *)
(* parser, decoder and encoder compute and whatever the capacities are:    *)
(* its types, what a call accounts for, the console before USB, that no    *)
(* effect is silent, room for two responses, and the refinement.  None of  *)
(* it needs the fairness of HostSpec, hence HostSteps.                     *)
(***************************************************************************)
EXTENDS HostRuntime, UsbBridgeProofs

FoundRecord ==
    [work : Nat, events : Nat, responses : Nat,
     stores : {V1_PROFILE_NAME, None} \X BOOLEAN]

CallRecord ==
    [mode : {"drain", "once"}, console : {"buffer", "slot"},
     output : {"persona", "plain"}, max : Nat, link : BleStates,
     fails : SUBSET {"ble", "console"}, done : Nat, last : Outcomes \cup {None},
     found : FoundRecord \cup {None}]

(* A call is one of the API's, and its bookkeeping has begun whenever one  *)
(* is under way or has just returned.                                      *)
CallInv ==
    /\ HostTypeOK
    /\ call \in CallRecord
    /\ call.mode = "once" => call.max = 1
    /\ call.mode = "drain" => call.console = "buffer"
    /\ phase = "drain" => result = None
    /\ phase = "drain" \/ Returned => call.found \in FoundRecord

-----------------------------------------------------------------------------
(* Facts about the protocol. *)

(* decode_command answers every input with a command or an error. *)
LEMMA DecodeTotal ==
    ASSUME NEW frame
    PROVE  DecodeCommand(frame) \in Commands \cup FrameErrors
BY DEF DecodeCommand, DecodeText, Commands, FrameErrors

(* A command is answered with a response of the protocol. *)
LEMMA ResponseType ==
    ASSUME HostTypeOK, NEW command, NEW link \in BleStates
    PROVE  ResponseTo(command, link) \in Responses
BY DEF ResponseTo, Responses, HostTypeOK, BleStates, map_ble_link_state, Links

(* The longest response takes 55 bytes. *)
LEMMA ResponseLength ==
    ASSUME NEW response \in Responses
    PROVE  EncodedLen(response) \in Nat /\ EncodedLen(response) <= 55
BY DEF Responses, EncodedLen, Links, ErrorCodes, LinkLen, ErrorLen, VersionLen, FlagLen,
       FirmwareLen, ProfileLen, PersonaLen

-----------------------------------------------------------------------------
(* Every step is a step of the bridge, or leaves all but the phase alone.  *)

(* A step of a call that takes an input is one of the bridge's. *)
LEMMA PublishIsApply ==
    (Publish \/ FailToPublish) => \E published \in PublishResults : ApplyInput(published)
<1>1. ASSUME Publish, call.output = "persona" PROVE ApplyInput("Ok")
  BY <1>1 DEF Publish, ToPersona, ToPlain, ApplyInput, Recoverable, Done
<1>2. ASSUME Publish, call.output # "persona" PROVE ApplyInput("NotReady")
  BY <1>2 DEF Publish, ToPersona, ToPlain, ApplyInput, Recoverable, Done
<1>3. ASSUME FailToPublish PROVE ApplyInput("Transport")
  BY <1>3 DEF FailToPublish, ApplyInput, Recoverable, Fail
<1> QED
  BY <1>1, <1>2, <1>3 DEF PublishResults

(* The console's steps and the limit leave the bridge's data alone. *)
LEMMA ConsoleKeepsBridge ==
    ConsoleStep \/ ReachLimit =>
      /\ UNCHANGED <<app, lastWire, finalEvents, plain>>
      /\ Continue \/ GiveUp
BY DEF ConsoleStep, RefuseLine, AnswerLine, OverflowTx, TellOverflow, AnswerSlot, SinkFails,
       ServesLine,
       ReachLimit, Done, Fail

LEMMA BridgeStep ==
    ASSUME [HostNext]_hostVars
    PROVE  \/ [Next]_vars
           \/ UNCHANGED <<app, lastWire, finalEvents>> /\ (Continue \/ GiveUp)
<1>1. CASE Caller(Lines, IngressEvents)
  BY <1>1 DEF Caller, PushLine, QueueCommand, ServiceFrame, QueueEvent, StoreBonds, ClearTx, Next
<1>2. CASE Starts
  BY <1>2 DEF Starts, StartCall, Next, Loop
<1>3. CASE ConsoleStep \/ ReachLimit
  BY <1>3, ConsoleKeepsBridge
<1>4. CASE HandleEvent \/ RefuseEvent
  BY <1>4 DEF HandleEvent, RefuseEvent, Next, Loop, Handle, HandleOther
<1>5. CASE Publish \/ FailToPublish
  BY <1>5, PublishIsApply DEF Next, Loop, Handle
<1>6. CASE FindIdle
  BY <1>6 DEF FindIdle, Next, Loop
<1>7. CASE UNCHANGED hostVars
  BY <1>7 DEF hostVars
<1> QED
  BY <1>1, <1>2, <1>3, <1>4, <1>5, <1>6, <1>7 DEF HostNext, Runtime, Step, UsbStep

LEMMA BridgeTypes ==
    ASSUME TypeOK, [HostNext]_hostVars
    PROVE  TypeOK'
<1>1. CASE UNCHANGED <<app, lastWire, finalEvents>> /\ (Continue \/ GiveUp)
  BY <1>1, PhaseType DEF TypeOK, app
<1> QED
  BY <1>1, BridgeStep, TypeStep

-----------------------------------------------------------------------------
(* Five kinds of steps: the caller's, the begin of a call, the two that    *)
(* find nothing more to do, and those that take a piece of work.           *)

CallerStep ==
    /\ phase = "collect" /\ phase' = "collect"
    /\ call' = NoCall
    /\ result' \in CallerErrors \cup {None}

WorkStep == ConsoleStep \/ HandleEvent \/ RefuseEvent \/ Publish \/ FailToPublish

LEMMA CallerKind ==
    ASSUME Caller(Lines, IngressEvents)
    PROVE  CallerStep /\ plain' = plain
BY DEF Caller, CallerStep, CallerActs, PushLine, QueueCommand, ServiceFrame, QueueEvent,
       StoreBonds, ClearTx, Collect, vars, CallerErrors

(* A piece of work ends in an outcome or an error. *)
LEMMA WorkEnds ==
    ASSUME WorkStep
    PROVE  /\ Serving
           /\ \/ \E outcome \in Outcomes : Done(outcome)
              \/ \E error \in StepErrors : Fail(error)
<1>1. CASE ConsoleStep
  BY <1>1 DEF ConsoleStep, RefuseLine, AnswerLine, OverflowTx, TellOverflow, AnswerSlot, SinkFails,
              ServesLine, Outcomes, StepErrors, FrameBufferErrors
<1>2. CASE HandleEvent
  BY <1>2 DEF HandleEvent, ServesUsb, Outcomes
<1>3. CASE RefuseEvent
  BY <1>3 DEF RefuseEvent, ServesUsb, StepErrors, FrameBufferErrors
<1>4. CASE Publish
  BY <1>4 DEF Publish, ToPersona, ToPlain, ServesUsb, Outcomes
<1>5. CASE FailToPublish
  BY <1>5 DEF FailToPublish, ServesUsb, StepErrors, FrameBufferErrors
<1> QED
  BY <1>1, <1>2, <1>3, <1>4, <1>5 DEF WorkStep

(* USB steps poll, and the console's variables stay. *)
LEMMA UsbPolls ==
    ASSUME HandleEvent \/ RefuseEvent \/ Publish \/ FailToPublish
    PROVE  ServesUsb /\ Poll
BY DEF HandleEvent, RefuseEvent, Publish, ToPersona, ToPlain, FailToPublish,
       TakeInput, Attach, Detach,
       StoreDescriptor, Ignore, RejectLength, RejectDescriptor, RejectInput

LEMMA Kinds ==
    ASSUME [HostNext]_hostVars
    PROVE  \/ Caller(Lines, IngressEvents)
           \/ \E c \in Calls : StartCall(c)
           \/ ReachLimit \/ FindIdle \/ WorkStep
           \/ UNCHANGED hostVars
BY DEF HostNext, Runtime, Starts, Step, UsbStep, WorkStep

-----------------------------------------------------------------------------
(* Types. *)

LEMMA NoCallType == NoCall \in CallRecord /\ NoCall.mode = "once" /\ NoCall.max = 1
BY DEF NoCall, CallRecord, BleStates

(* An effect stores what a store holds. *)
LEMMA EffectType ==
    ASSUME HostTypeOK, NEW command, Effect(command)
    PROVE  stored' \in {V1_PROFILE_NAME, None} /\ bonds' \in BOOLEAN
BY DEF Effect, HostTypeOK

LEMMA CallerTypes ==
    ASSUME CallInv, Caller(Lines, IngressEvents)
    PROVE  CallInv'
<1>1. TypeOK'
  BY BridgeTypes DEF CallInv, HostTypeOK, HostNext
<1>2. CallerStep /\ plain' = plain
  BY CallerKind
<1>3. stored' \in {V1_PROFILE_NAME, None} /\ bonds' \in BOOLEAN
  BY EffectType
     DEF CallInv, HostTypeOK, Caller, PushLine, QueueEvent, QueueCommand, StoreBonds, ClearTx,
         ServiceFrame, stores
<1>4. rx' \in Seq(Lines)
  <2>1. ASSUME NEW line \in Lines, PushLine(line) PROVE rx' \in Seq(Lines)
    <3>1. rx \in Seq(Lines)
      BY Zenon DEF CallInv, HostTypeOK
    <3>2. rx' = Append(rx, line) \/ rx' = rx
      BY <2>1, Zenon DEF PushLine
    <3> QED
      BY ONLY line \in Lines, <3>1, <3>2
  <2>2. CASE UNCHANGED rx
    BY <2>2 DEF CallInv, HostTypeOK
  <2> QED
    BY <2>1, <2>2
       DEF Caller, QueueEvent, QueueCommand, StoreBonds, ClearTx, ServiceFrame, console
<1>5. tx' \in Seq(Responses) /\ txLen' \in 0..TxCap
  <2>1. CASE ClearTx
    BY <2>1, HostConstantsOK DEF ClearTx
  <2>2. CASE UNCHANGED <<tx, txLen>>
    BY <2>2 DEF CallInv, HostTypeOK
  <2> QED
    BY <2>1, <2>2
       DEF Caller, PushLine, QueueEvent, QueueCommand, StoreBonds, ServiceFrame, console
<1>6. slot' \in Commands \cup {None}
  BY DEF CallInv, HostTypeOK, Caller, PushLine, QueueEvent, QueueCommand, StoreBonds, ClearTx,
         ServiceFrame, console
<1>7. ~(result' \in CallResults)
  BY <1>2, HostConstantsOK DEF CallerStep, CallerErrors, CallResults, StepErrors, FrameBufferErrors
<1> QED
  BY <1>1, <1>2, <1>3, <1>4, <1>5, <1>6, <1>7, NoCallType
     DEF CallInv, HostTypeOK, CallerStep, CallRecord, Returned

LEMMA StartTypes ==
    ASSUME CallInv, NEW c \in Calls, StartCall(c)
    PROVE  CallInv' /\ call'.found = Found(call'.console) /\ call'.done = 0 /\ call'.last = None
<1>1. TypeOK'
  BY BridgeTypes DEF CallInv, HostTypeOK, HostNext, Runtime, Starts
<1>2. c \in Call
  BY HostConstantsOK
<1>3. Found(c.console) \in FoundRecord
  <2>1. Pending(c.console) \in Nat /\ Len(finalEvents) \in Nat /\ Len(tx) \in Nat
    BY DEF CallInv, HostTypeOK, TypeOK, Pending
  <2>2. stores \in {V1_PROFILE_NAME, None} \X BOOLEAN
    BY DEF CallInv, HostTypeOK, stores
  <2> QED
    BY <2>1, <2>2 DEF Found, FoundRecord
<1>4. call' \in CallRecord /\ call'.found = Found(call'.console)
  BY <1>2, <1>3 DEF StartCall, CallRecord, Call
<1>5. /\ call'.mode = "once" => call'.max = 1
      /\ call'.mode = "drain" => call'.console = "buffer"
  BY <1>2, HostConstantsOK DEF StartCall, Call
<1>6. call'.found \in FoundRecord
  BY <1>3 DEF StartCall
<1> QED
  BY <1>1, <1>4, <1>5, <1>6 DEF CallInv, HostTypeOK, StartCall, CallRecord, console, stores

(* What the bookkeeping of a call becomes in a step that works. *)
LEMMA WorkCall ==
    ASSUME CallInv, WorkStep
    PROVE  /\ call.done = 0 \/ call.done < call.max
           /\ phase = "drain"
           /\ call' \in CallRecord
           /\ \A field \in {"mode", "console", "max", "found", "link", "output", "fails"} :
                call'[field] = call[field]
           /\ \/ /\ call'.done = call.done + 1
                 /\ phase' = "drain" /\ result' = None
              \/ /\ call' = call
                 /\ phase' = "collect" /\ result' \in StepErrors
<1>1. call.done = 0 \/ call.done < call.max
  BY WorkEnds DEF Serving, AtLimit, CallInv, CallRecord
<1>2. ASSUME NEW outcome \in Outcomes, Done(outcome)
      PROVE  /\ phase = "drain" /\ call' \in CallRecord
             /\ \A field \in {"mode", "console", "max", "found", "link", "output", "fails"} :
                  call'[field] = call[field]
             /\ call'.done = call.done + 1
             /\ phase' = "drain" /\ result' = None
  <2>1. call' = [call EXCEPT !.done = call.done + 1, !.last = outcome]
    BY <1>2 DEF Done
  <2>2. call \in CallRecord /\ call.done + 1 \in Nat
    BY DEF CallInv, CallRecord
  <2>3. phase = "drain" /\ phase' = "drain" /\ result' = None
    BY <1>2, WorkEnds DEF Done, Continue, CallInv, Serving
  <2> QED
    BY <2>1, <2>2, <2>3 DEF CallRecord
<1>3. ASSUME NEW error \in StepErrors, Fail(error)
      PROVE  /\ phase = "drain" /\ call' \in CallRecord /\ call' = call
             /\ phase' = "collect" /\ result' \in StepErrors
  BY <1>3, WorkEnds DEF Fail, GiveUp, CallInv, Serving
<1> QED
  <2>1. CASE \E outcome \in Outcomes : Done(outcome)
    BY <1>1, <1>2, <2>1
  <2>2. CASE \E error \in StepErrors : Fail(error)
    <3>1. \A field \in {"mode", "console", "max", "found", "link", "output", "fails"} :
            call'[field] = call[field]
      BY <1>3, <2>2
    <3> QED
      BY <1>1, <1>3, <2>2, <3>1
  <2> QED
    BY <2>1, <2>2, WorkEnds

LEMMA ConsoleTypes ==
    ASSUME CallInv, ConsoleStep
    PROVE  /\ rx' \in Seq(Lines)
           /\ tx' \in Seq(Responses) /\ txLen' \in 0..TxCap
           /\ slot' \in Commands \cup {None}
           /\ stored' \in {V1_PROFILE_NAME, None} /\ bonds' \in BOOLEAN
<1> USE DEF CallInv, HostTypeOK
<1>1. CASE RefuseLine
  BY <1>1 DEF RefuseLine, ServesLine, TakeLine, stores
<1>2. CASE AnswerLine
  <2>1. Response \in Responses
    BY ResponseType DEF Response, CallRecord
  <2> QED
    BY <1>2, <2>1, ResponseLength, EffectType, HostConstantsOK
       DEF AnswerLine, ServesLine, TakeLine, FitsTx
<1>3. CASE OverflowTx
  BY <1>3, EffectType DEF OverflowTx, ServesLine, TakeLine
<1>4. CASE AnswerSlot
  BY <1>4, EffectType DEF AnswerSlot, SinkFails
<1> QED
  BY <1>1, <1>2, <1>3, <1>4 DEF ConsoleStep

LEMMA UsbTypes ==
    ASSUME CallInv, HandleEvent \/ RefuseEvent \/ Publish \/ FailToPublish
    PROVE  /\ UNCHANGED <<console, stores>>
           /\ TypeOK' => plain' \in [report : Inputs, wire : Wires] \cup {None}
<1>1. UNCHANGED <<console, stores>>
  BY DEF HandleEvent, RefuseEvent, Publish, FailToPublish, ServesUsb
<1>2. ASSUME TypeOK' PROVE plain' \in [report : Inputs, wire : Wires] \cup {None}
  <2>1. CASE plain' = plain
    BY <2>1 DEF CallInv, HostTypeOK
  <2>2. CASE plain' = Recording(lastInput')
    BY <1>2, <2>2, ConstantsOK DEF Recording, TypeOK
  <2> QED
    BY <2>1, <2>2 DEF HandleEvent, RefuseEvent, Publish, ToPersona, ToPlain, FailToPublish
<1> QED
  BY <1>1, <1>2

LEMMA StepKeepsCallInv ==
    ASSUME CallInv, [HostNext]_hostVars
    PROVE  CallInv'
<1>1. TypeOK'
  BY BridgeTypes DEF CallInv, HostTypeOK
<1>2. CASE WorkStep
  <2>1. call'.mode = call.mode /\ call'.max = call.max /\ call'.console = call.console
          /\ call'.found = call.found
    BY <1>2, WorkCall
  <2>2. CASE ConsoleStep
    <3>1. plain' = plain
      BY <2>2, ConsoleKeepsBridge
    <3> QED
      BY <1>1, <1>2, <2>1, <2>2, <3>1, WorkCall, ConsoleTypes
         DEF CallInv, HostTypeOK, CallRecord, Returned, CallResults
  <2>3. CASE HandleEvent \/ RefuseEvent \/ Publish \/ FailToPublish
    BY <1>1, <1>2, <2>1, <2>3, WorkCall, UsbTypes
       DEF CallInv, HostTypeOK, CallRecord, Returned, CallResults, console, stores
  <2> QED
    BY <1>2, <2>2, <2>3 DEF WorkStep
<1>3. CASE ReachLimit
  BY <1>1, <1>3 DEF ReachLimit, CallInv, HostTypeOK, CallRecord, Returned, CallResults, GiveUp,
                    console, stores
<1>4. CASE FindIdle
  BY <1>1, <1>4 DEF FindIdle, ServesUsb, Serving, Idle, CallInv, HostTypeOK, CallRecord, Returned,
                    CallResults, console, stores
<1>5. CASE UNCHANGED hostVars
  BY <1>1, <1>5 DEF hostVars, console, stores, vars, CallInv, HostTypeOK, Returned
<1> QED
  BY <1>2, <1>3, <1>4, <1>5, CallerTypes, StartTypes, Kinds

(* The types of the runtime, and what a call keeps about itself, in every  *)
(* reachable state: TX is never filled beyond its capacity and a slot or   *)
(* store never holds anything but what it is declared for.                 *)
THEOREM HostTypeCorrect == HostSteps => [](HostTypeOK /\ CallInv)
<1>1. HostInit => CallInv
  <2> SUFFICES ASSUME HostInit PROVE CallInv
    OBVIOUS
  <2>1. TypeOK
    BY ConstantsOK DEF HostInit, Init, TypeOK
  <2> QED
    BY <2>1, NoCallType, HostConstantsOK
       DEF HostInit, Init, CallInv, HostTypeOK, CallRecord, Returned
<1>2. CallInv /\ [HostNext]_hostVars => CallInv'
  BY StepKeepsCallInv
<1>3. CallInv => HostTypeOK
  BY DEF CallInv
<1> QED
  BY <1>1, <1>2, <1>3, PTL DEF HostSteps

-----------------------------------------------------------------------------
(* What is left to do. *)

Left == Pending(call.console)

LEMMA LeftType == CallInv => Left \in Nat /\ Len(finalEvents) \in Nat
BY DEF CallInv, HostTypeOK, TypeOK, Left, Pending

(* The console's work is its own: the events stay, and one item goes. *)
LEMMA ConsoleLeft ==
    ASSUME CallInv, ConsoleStep
    PROVE  /\ Left' = Left - 1
           /\ UNCHANGED finalEvents
           /\ Left > Len(finalEvents)
<1> USE DEF CallInv, HostTypeOK
<1>1. UNCHANGED finalEvents /\ Len(finalEvents) \in Nat
  BY ConsoleKeepsBridge DEF TypeOK
<1>2. call'.console = call.console
  BY WorkCall DEF WorkStep
<1>3. CASE ServesLine
  BY <1>1, <1>2, <1>3 DEF ServesLine, TakeLine, Left, Pending
<1>4. CASE AnswerSlot
  <2>1. call.console = "slot" /\ slot # None /\ slot' = None
    BY <1>4 DEF AnswerSlot, SinkFails
  <2> QED
    BY <1>1, <1>2, <2>1 DEF Left, Pending
<1> QED
  BY <1>3, <1>4 DEF ConsoleStep, RefuseLine, AnswerLine, OverflowTx

(* USB's work is the next event, with no command waiting. *)
LEMMA UsbLeft ==
    ASSUME CallInv, HandleEvent \/ RefuseEvent \/ Publish \/ FailToPublish
    PROVE  /\ Left' = Left - 1
           /\ Left' = Len(finalEvents')
<1>1. ServesUsb /\ Poll
  BY UsbPolls
<1>2. UNCHANGED <<rx, slot>> /\ ConsoleIdle
  BY <1>1 DEF ServesUsb, console
<1>3. Len(finalEvents) \in Nat /\ Len(finalEvents') = Len(finalEvents) - 1
  BY <1>1 DEF Poll, CallInv, HostTypeOK, TypeOK
<1>4. call'.console = call.console
  BY WorkCall DEF WorkStep
<1> QED
  BY <1>2, <1>3, <1>4 DEF ConsoleIdle, Left, Pending

LEMMA WorkLeft ==
    ASSUME CallInv, WorkStep
    PROVE  Left' = Left - 1
BY ConsoleLeft, UsbLeft DEF WorkStep

-----------------------------------------------------------------------------
(* What a call accounts for. *)

(* During a call, what it has done is what is gone, and no more than its   *)
(* limit allows.                                                           *)
AccountInv ==
    /\ DrainAccounts
    /\ phase = "drain" =>
         call.found.work - Left = call.done /\ (call.done <= 1 \/ call.done <= call.max)

LEMMA WorkAccounts ==
    ASSUME CallInv, AccountInv, WorkStep
    PROVE  AccountInv'
<1>1. /\ call.done \in Nat /\ call.max \in Nat /\ Left \in Nat
      /\ call.found.work \in Nat
      /\ call.found.work - Left = call.done
      /\ call'.max = call.max /\ call'.found = call.found
  BY WorkCall, LeftType DEF CallInv, CallRecord, AccountInv, FoundRecord
<1>2. CASE call'.done = call.done + 1 /\ phase' = "drain" /\ result' = None
  BY <1>1, <1>2, WorkLeft, WorkCall DEF AccountInv, DrainAccounts, Returned
<1>3. CASE call' = call /\ phase' = "collect" /\ result' \in StepErrors
  BY <1>1, <1>3, WorkLeft, WorkCall
     DEF AccountInv, DrainAccounts, Left, StepErrors, FrameBufferErrors
<1> QED
  BY <1>2, <1>3, WorkCall

(* drain_persona_until_idle never claims more or less than it has done,    *)
(* whatever is queued, whatever fails and whatever its limit is.           *)
THEOREM DrainAlwaysAccounts == HostSteps => []DrainAccounts
<1>1. HostInit => AccountInv
  BY HostConstantsOK DEF HostInit, Init, AccountInv, DrainAccounts, Returned
<1>2. CallInv /\ AccountInv /\ [HostNext]_hostVars => AccountInv'
  <2> SUFFICES ASSUME CallInv, AccountInv, [HostNext]_hostVars PROVE AccountInv'
    OBVIOUS
  <2>1. CASE Caller(Lines, IngressEvents)
    <3>1. phase' = "collect" /\ ~(result' \in CallResults)
      BY <2>1, CallerKind, HostConstantsOK
         DEF CallerStep, CallerErrors, CallResults, StepErrors, FrameBufferErrors
    <3> QED
      BY <3>1 DEF AccountInv, DrainAccounts, Returned
  <2>2. ASSUME NEW c \in Calls, StartCall(c) PROVE AccountInv'
    <3>1. phase' = "drain" /\ call'.done = 0 /\ result' = None
      BY <2>2, StartTypes DEF StartCall, StartDrain
    <3>2. call'.found.work = Pending(c.console) /\ call'.console = c.console
      BY <2>2 DEF StartCall, Found
    <3>3. UNCHANGED <<finalEvents, rx, slot>>
      BY <2>2 DEF StartCall, StartDrain, console
    <3>4. Left' = call'.found.work
      BY <3>2, <3>3 DEF Left, Pending
    <3>5. Left' \in Nat
      BY <2>2, <3>1, <3>4, StartTypes DEF CallInv, FoundRecord
    <3> QED
      BY <3>1, <3>4, <3>5 DEF AccountInv, DrainAccounts, Returned
  <2>3. CASE ReachLimit
    <3>1. /\ UNCHANGED <<call, finalEvents, rx, slot>>
          /\ phase = "drain" /\ AtLimit
          /\ result' = IF call.mode = "drain" THEN "StepLimitReached" ELSE "Ok"
          /\ phase' = "collect"
      BY <2>3 DEF ReachLimit, console, GiveUp
    <3> QED
      BY <3>1, LeftType
         DEF AccountInv, DrainAccounts, Left, Pending, AtLimit, CallInv, CallRecord, FoundRecord,
             StepErrors, FrameBufferErrors
  <2>4. CASE FindIdle
    <3>1. /\ UNCHANGED <<call, finalEvents, rx, slot>>
          /\ phase = "drain" /\ ~AtLimit /\ result' = "Ok" /\ phase' = "collect"
          /\ Left = 0
      BY <2>4 DEF FindIdle, ServesUsb, Serving, ConsoleIdle, Idle, console, Left, Pending
    <3> QED
      BY <3>1, LeftType
         DEF AccountInv, DrainAccounts, Left, Pending, AtLimit, CallInv, CallRecord, FoundRecord,
             StepErrors, FrameBufferErrors
  <2>5. CASE UNCHANGED hostVars
    BY <2>5 DEF hostVars, vars, console, AccountInv, DrainAccounts, Returned, Left, Pending
  <2> QED
    BY <2>1, <2>2, <2>3, <2>4, <2>5, WorkAccounts, Kinds
<1>3. AccountInv => DrainAccounts
  BY DEF AccountInv
<1> QED
  BY <1>1, <1>2, <1>3, HostTypeCorrect, PTL DEF HostSteps

(* No event is served before a command that waits, in any interleaving of  *)
(* the caller's pushes with calls that fail or meet their limit.           *)
THEOREM ConsoleAlwaysFirst == HostSteps => []ConsoleBeforeUsb
<1>1. HostInit => ConsoleBeforeUsb
  BY HostConstantsOK DEF HostInit, Init, ConsoleBeforeUsb, Returned
<1>2. CallInv /\ ConsoleBeforeUsb /\ [HostNext]_hostVars => ConsoleBeforeUsb'
  <2> SUFFICES ASSUME CallInv, ConsoleBeforeUsb, [HostNext]_hostVars PROVE ConsoleBeforeUsb'
    OBVIOUS
  <2>1. CASE Caller(Lines, IngressEvents)
    <3>1. phase' = "collect" /\ ~(result' \in CallResults)
      BY <2>1, CallerKind, HostConstantsOK
         DEF CallerStep, CallerErrors, CallResults, StepErrors, FrameBufferErrors
    <3> QED
      BY <3>1 DEF ConsoleBeforeUsb, Returned
  <2>2. ASSUME NEW c \in Calls, StartCall(c) PROVE ConsoleBeforeUsb'
    BY <2>2, StartTypes DEF StartCall, StartDrain, Found, ConsoleBeforeUsb
  <2>3. CASE ReachLimit
    BY <2>3 DEF ReachLimit, ConsoleBeforeUsb, console, Pending
  <2>4. CASE FindIdle
    BY <2>4 DEF FindIdle, ServesUsb, Serving, Idle, ConsoleBeforeUsb, console, Pending
  <2>5. CASE UNCHANGED hostVars
    BY <2>5 DEF hostVars, vars, console, ConsoleBeforeUsb, Returned, Pending
  <2>6. CASE ConsoleStep
    <3>1. phase = "drain" /\ call'.found = call.found
      BY <2>6, WorkCall DEF WorkStep
    <3> QED
      BY <2>6, <3>1, ConsoleLeft, LeftType DEF ConsoleBeforeUsb, Left
  <2>7. CASE HandleEvent \/ RefuseEvent \/ Publish \/ FailToPublish
    BY <2>7, UsbLeft DEF ConsoleBeforeUsb, Left
  <2> QED
    BY <2>1, <2>2, <2>3, <2>4, <2>5, <2>6, <2>7, Kinds DEF WorkStep
<1> QED
  BY <1>1, <1>2, HostTypeCorrect, PTL DEF HostSteps

-----------------------------------------------------------------------------
(* Effects and their answers. *)

Acknowledged == \E i \in call.found.responses + 1 .. Len(tx) : tx[i].kind = "Ack"

(* During a call, a changed setting has its acknowledgment in TX, or it    *)
(* was the single step of a call on the one-slot source.                   *)
EffectInv ==
    /\ EffectsReported
    /\ phase = "drain" =>
         /\ call.found.responses <= Len(tx)
         /\ stores # call.found.stores =>
              \/ Acknowledged
              \/ call.console = "slot" /\ call.last = "Responded" /\ call.done > 0

(* A command that changes a setting is acknowledged. *)
LEMMA EffectIsAcknowledged ==
    ASSUME HostTypeOK, NEW command, NEW link, Effect(command), stores' # stores
    PROVE  ResponseTo(command, link).kind = "Ack"
<1>1. command = "SET_PROFILE" \/ command = "FORGET_BONDS"
  BY DEF Effect, stores, HostTypeOK
<1> QED
  BY <1>1 DEF ResponseTo

LEMMA LineEffects ==
    ASSUME CallInv, EffectInv, AnswerLine
    PROVE  EffectInv'
<1>1. /\ tx \in Seq(Responses) /\ Len(tx) \in Nat
      /\ call.found.responses \in Nat /\ call.found.responses <= Len(tx)
      /\ call.console = "buffer"
      /\ stores # call.found.stores => Acknowledged
  BY DEF AnswerLine, ServesLine, Serving, CallInv, HostTypeOK, FoundRecord, EffectInv
<1>2. Response \in Responses
  BY ResponseType DEF Response, CallInv, CallRecord
<1>3. /\ tx' \in Seq(Responses) /\ Len(tx') = Len(tx) + 1
      /\ tx'[Len(tx) + 1] = Response
      /\ \A i \in 1..Len(tx) : tx'[i] = tx[i]
  BY <1>1, <1>2 DEF AnswerLine
<1>4. call'.found = call.found /\ phase' = "drain" /\ result' = None
  BY WorkCall DEF WorkStep, ConsoleStep, AnswerLine, Done, Continue, CallInv, ServesLine, Serving
<1>5. stores' # call.found.stores => Acknowledged'
  <2>1. CASE stores' = stores
    BY <1>1, <1>3, <1>4, <2>1 DEF Acknowledged
  <2>2. CASE stores' # stores
    <3>1. Response.kind = "Ack"
      BY <2>2, EffectIsAcknowledged DEF AnswerLine, Response, CallInv
    <3> QED
      BY <1>1, <1>3, <1>4, <3>1 DEF Acknowledged
  <2> QED
    BY <2>1, <2>2
<1> QED
  BY <1>1, <1>3, <1>4, <1>5, HostConstantsOK
     DEF EffectInv, EffectsReported, Returned, CallResults, StepErrors, FrameBufferErrors

(* A step that changes no setting and queues no response. *)
LEMMA OtherEffects ==
    ASSUME CallInv, EffectInv, WorkStep, UNCHANGED <<tx, stores>>
    PROVE  EffectInv'
<1>1. /\ call.found.responses <= Len(tx)
      /\ stores # call.found.stores => Acknowledged
  <2>1. call.console = "slot" => call.done = 0
    BY WorkCall DEF CallInv, CallRecord
  <2> QED
    BY <2>1, WorkCall DEF EffectInv
<1>2. call'.found = call.found
  BY WorkCall
<1>3. stores' # call'.found.stores => Acknowledged'
  BY <1>1, <1>2 DEF Acknowledged
<1> QED
  BY <1>1, <1>2, <1>3 DEF EffectInv, EffectsReported, Acknowledged

LEMMA WorkEffects ==
    ASSUME CallInv, EffectInv, WorkStep
    PROVE  EffectInv'
<1>1. CASE AnswerLine
  BY <1>1, LineEffects
<1>2. CASE RefuseLine
  BY <1>2, OtherEffects DEF RefuseLine
<1>3. CASE OverflowTx
  BY <1>3 DEF OverflowTx, TellOverflow, Fail, GiveUp, EffectInv, EffectsReported
<1>4. CASE AnswerSlot
  <2>1. /\ call.console = "slot" /\ call.done \in Nat /\ UNCHANGED tx
        /\ call.found.responses <= Len(tx) /\ call'.found = call.found
        /\ call'.console = "slot"
    BY <1>4, WorkCall DEF AnswerSlot, SinkFails, EffectInv, CallInv, CallRecord
  <2>2. CASE Fail("Console")
    BY <2>2 DEF Fail, GiveUp, EffectInv, EffectsReported
  <2>3. CASE Done("Responded")
    <3>1. call' = [call EXCEPT !.done = call.done + 1, !.last = "Responded"]
      BY <2>3 DEF Done
    <3>2. call'.last = "Responded" /\ call'.done = call.done + 1
      BY <3>1 DEF CallInv, CallRecord
    <3> QED
      BY <2>1, <3>2 DEF EffectInv, EffectsReported
  <2> QED
    BY <1>4, <2>2, <2>3 DEF AnswerSlot, SinkFails
<1>5. CASE HandleEvent \/ RefuseEvent \/ Publish \/ FailToPublish
  BY <1>5, UsbTypes, OtherEffects DEF console
<1> QED
  BY <1>1, <1>2, <1>3, <1>4, <1>5 DEF WorkStep, ConsoleStep

(* No setting changes without the acknowledgment queued or returned, or    *)
(* the error of the response returned, whatever else the call served.      *)
THEOREM EffectsAlwaysReported == HostSteps => []EffectsReported
<1>1. HostInit => EffectInv
  BY HostConstantsOK DEF HostInit, Init, EffectInv, EffectsReported, Returned
<1>2. CallInv /\ EffectInv /\ [HostNext]_hostVars => EffectInv'
  <2> SUFFICES ASSUME CallInv, EffectInv, [HostNext]_hostVars PROVE EffectInv'
    OBVIOUS
  <2>1. CASE Caller(Lines, IngressEvents)
    <3>1. phase' = "collect" /\ ~(result' \in CallResults)
      BY <2>1, CallerKind, HostConstantsOK
         DEF CallerStep, CallerErrors, CallResults, StepErrors, FrameBufferErrors
    <3> QED
      BY <3>1 DEF EffectInv, EffectsReported, Returned
  <2>2. ASSUME NEW c \in Calls, StartCall(c) PROVE EffectInv'
    <3>1. phase' = "drain" /\ UNCHANGED <<tx, stores>> /\ Len(tx) \in Nat
      BY <2>2 DEF StartCall, StartDrain, console, CallInv, HostTypeOK
    <3>2. call'.found.responses = Len(tx) /\ call'.found.stores = stores
      BY <2>2 DEF StartCall, Found
    <3> QED
      BY <3>1, <3>2 DEF EffectInv, EffectsReported, Returned
  <2>3. CASE ReachLimit \/ FindIdle
    <3>1. UNCHANGED <<call, tx, stores>> /\ phase = "drain" /\ phase' = "collect"
      BY <2>3 DEF ReachLimit, FindIdle, ServesUsb, Serving, Idle, GiveUp, console
    <3> QED
      BY <3>1 DEF EffectInv, EffectsReported, Acknowledged
  <2>4. CASE UNCHANGED hostVars
    BY <2>4 DEF hostVars, vars, console, stores, EffectInv, EffectsReported, Returned,
                Acknowledged
  <2> QED
    BY <2>1, <2>2, <2>3, <2>4, WorkEffects, Kinds
<1>3. EffectInv => EffectsReported
  BY DEF EffectInv
<1> QED
  BY <1>1, <1>2, <1>3, HostTypeCorrect, PTL DEF HostSteps

-----------------------------------------------------------------------------
(* Room in TX. *)

(* No response in TX takes more than the longest. *)
TxInv == TxHoldsTwo /\ txLen <= 55 * Len(tx)

LEMMA WorkRoom ==
    ASSUME TxCap >= 110, CallInv, TxInv, WorkStep
    PROVE  TxInv'
<1>1. /\ tx \in Seq(Responses) /\ Len(tx) \in Nat /\ txLen \in Nat /\ TxCap \in Nat
      /\ txLen <= 55 * Len(tx)
      /\ phase = "drain" /\ result = None
  BY WorkCall, HostConstantsOK DEF CallInv, HostTypeOK, TxInv
<1>2. Response \in Responses
  BY ResponseType DEF Response, CallInv, CallRecord
<1>3. EncodedLen(Response) \in Nat /\ EncodedLen(Response) <= 55
  BY <1>2, ResponseLength
<1>4. CASE AnswerLine
  <2>1. Len(tx') = Len(tx) + 1 /\ txLen' = txLen + EncodedLen(Response)
    BY <1>1, <1>2, <1>4 DEF AnswerLine
  <2>2. result' = None
    BY <1>1, <1>4 DEF AnswerLine, Done
  <2> QED
    BY <1>1, <1>3, <2>1, <2>2, HostConstantsOK DEF TxInv, TxHoldsTwo, CallResults,
       StepErrors, FrameBufferErrors
<1>5. CASE OverflowTx
  <2>1. txLen + EncodedLen(Response) > TxCap /\ UNCHANGED <<tx, txLen>>
    BY <1>1, <1>3, <1>5 DEF OverflowTx, FitsTx
  <2>2. Len(tx) >= 2
    BY <1>1, <1>3, <2>1
  <2> QED
    BY <1>1, <2>1, <2>2 DEF TxInv, TxHoldsTwo
<1>6. CASE UNCHANGED <<tx, txLen>> /\ result' # "TxOverflow"
  BY <1>1, <1>6 DEF TxInv, TxHoldsTwo
<1>7. RefuseLine \/ AnswerSlot \/ HandleEvent \/ RefuseEvent \/ Publish \/ FailToPublish
        => UNCHANGED <<tx, txLen>> /\ result' # "TxOverflow"
  <2>1. \A outcome : Done(outcome) => result' # "TxOverflow"
    BY <1>1, HostConstantsOK DEF Done, CallResults, StepErrors, FrameBufferErrors
  <2>2. Fail("Decode") \/ Fail("Console") \/ Fail("Usb") \/ Fail("Ble")
          => result' # "TxOverflow"
    BY DEF Fail
  <2> QED
    BY <2>1, <2>2 DEF RefuseLine, AnswerSlot, SinkFails, HandleEvent, RefuseEvent, Publish,
       ToPersona, ToPlain, FailToPublish,
                      ServesUsb, console
<1> QED
  BY <1>4, <1>5, <1>6, <1>7 DEF WorkStep, ConsoleStep

(* With room for two of the longest responses, TX refuses none before two  *)
(* wait in it; the code's 128 bytes are room enough.                       *)
THEOREM TxAlwaysHoldsTwo ==
    ASSUME TxCap >= 110
    PROVE  HostSteps => []TxHoldsTwo
<1>1. HostInit => TxInv
  BY HostConstantsOK DEF HostInit, TxInv, TxHoldsTwo, CallResults, StepErrors, FrameBufferErrors
<1>2. CallInv /\ TxInv /\ [HostNext]_hostVars => TxInv'
  <2> SUFFICES ASSUME CallInv, TxInv, [HostNext]_hostVars PROVE TxInv'
    OBVIOUS
  <2>1. CASE Caller(Lines, IngressEvents)
    <3>1. result' # "TxOverflow"
      BY <2>1, CallerKind, HostConstantsOK
         DEF CallerStep, CallerErrors, CallResults, StepErrors, FrameBufferErrors
    <3>2. UNCHANGED <<tx, txLen>> \/ (tx' = <<>> /\ txLen' = 0)
      BY <2>1 DEF Caller, PushLine, QueueEvent, QueueCommand, StoreBonds, ClearTx,
                  ServiceFrame, console
    <3> QED
      BY <3>1, <3>2 DEF TxInv, TxHoldsTwo
  <2>2. ASSUME NEW c \in Calls, StartCall(c) PROVE TxInv'
    BY <2>2, HostConstantsOK
       DEF StartCall, console, TxInv, TxHoldsTwo, CallResults, StepErrors, FrameBufferErrors
  <2>3. CASE ReachLimit \/ FindIdle
    BY <2>3 DEF ReachLimit, FindIdle, ServesUsb, console, TxInv, TxHoldsTwo
  <2>4. CASE UNCHANGED hostVars
    BY <2>4 DEF hostVars, console, TxInv, TxHoldsTwo
  <2> QED
    BY <2>1, <2>2, <2>3, <2>4, WorkRoom, Kinds
<1>3. TxInv => TxHoldsTwo
  BY DEF TxInv
<1> QED
  BY <1>1, <1>2, <1>3, HostTypeCorrect, PTL DEF HostSteps

-----------------------------------------------------------------------------
(* Refinement. *)

LEMMA HostPromiseStep ==
    ASSUME CallInv, [HostNext]_hostVars
    PROVE  [Promise!SNext]_(Promise!svars)
<1>1. CASE [Next]_vars
  BY <1>1, PromiseStep DEF CallInv, HostTypeOK
<1>2. CASE UNCHANGED <<app, lastWire, finalEvents>>
  BY <1>2 DEF app, Promise!svars
<1> QED
  BY <1>1, <1>2, BridgeStep

(* The plain output receives the report where the persona output receives  *)
(* its encoding.                                                           *)
LEMMA HostPlainStep ==
    ASSUME CallInv, [HostNext]_hostVars
    PROVE  [PlainPromise!SNext]_(PlainPromise!svars)
<1> USE DEF PlainPromise!svars
<1>1. CASE UNCHANGED <<app, plain>>
  BY <1>1 DEF app
<1>2. CASE HandleEvent
  <2>1. CASE Attach
    BY <1>2, <2>1, PolledEvent
       DEF HandleEvent, Attach, ForgetSource, PlainPromise!SNext, PlainPromise!Adopt,
           CallInv, HostTypeOK
  <2>2. CASE Detach
    <3>1. activeDevice # None
      BY <2>2, PolledEvent, ConstantsOK DEF Detach, FromActiveDevice, CallInv, HostTypeOK
    <3> QED
      BY <1>2, <2>2, <3>1
         DEF HandleEvent, Detach, ForgetSource, PlainPromise!SNext, PlainPromise!Release
  <2>3. CASE StoreDescriptor \/ Ignore
    BY <1>2, <2>3 DEF HandleEvent, StoreDescriptor, Ignore, app
  <2> QED
    BY <1>2, <2>1, <2>2, <2>3 DEF HandleEvent
<1>3. CASE Publish \/ FailToPublish
  <2>1. TakeInput
    BY <1>3 DEF Publish, ToPersona, ToPlain, FailToPublish
  <2>2. activeDevice # None
    BY <2>1, PolledEvent, ConstantsOK
       DEF TakeInput, InputReady, FromActiveDevice, CallInv, HostTypeOK
  <2>3. lastInput' \in Inputs
    <3>1. <<activeDescriptor, event.data>> \in Summaries \X Payloads
      BY <2>1, PolledEvent DEF CallInv, HostTypeOK, TypeOK, TakeInput, InputReady
    <3> QED
      BY <2>1, <3>1, ConstantsOK DEF TakeInput, Decoded
  <2>4. plain' \in {plain, [i \in Inputs |-> Recording(i)][lastInput']}
    BY <1>3, <2>3 DEF Publish, ToPersona, ToPlain, FailToPublish
  <2> QED
    BY <2>1, <2>2, <2>3, <2>4 DEF TakeInput, PlainPromise!SNext, PlainPromise!Update
<1>4. CASE RefuseEvent \/ FindIdle
  BY <1>4, <1>1
     DEF RefuseEvent, RejectLength, RejectDescriptor, RejectInput, FindIdle, Idle
<1>5. CASE ConsoleStep \/ ReachLimit
  BY <1>1, <1>5, ConsoleKeepsBridge
<1>6. CASE Caller(Lines, IngressEvents)
  BY <1>1, <1>6, CallerKind
     DEF Caller, PushLine, QueueEvent, QueueCommand, StoreBonds, ClearTx, ServiceFrame, Collect,
         vars, app
<1>7. CASE \E c \in Calls : StartCall(c)
  BY <1>1, <1>7 DEF StartCall, StartDrain
<1>8. CASE UNCHANGED hostVars
  BY <1>1, <1>8 DEF hostVars, vars, app
<1> QED
  BY <1>2, <1>3, <1>4, <1>5, <1>6, <1>7, <1>8, Kinds DEF WorkStep

(* The runtime implements SingleSource twice over, with the encoded report *)
(* or the plain one as what the peer receives, whatever commands are       *)
(* served between the events and wherever a call ends.                     *)
THEOREM HostRefinement == HostSteps => HostImplementsSingleSource
<1>1. HostInit => Promise!SInit /\ PlainPromise!SInit
  BY DEF HostInit, Init, Promise!SInit, PlainPromise!SInit
<1>2. CallInv /\ [HostNext]_hostVars => [Promise!SNext]_(Promise!svars)
  BY HostPromiseStep
<1>3. CallInv /\ [HostNext]_hostVars => [PlainPromise!SNext]_(PlainPromise!svars)
  BY HostPlainStep
<1> QED
  BY <1>1, <1>2, <1>3, HostTypeCorrect, PTL
     DEF HostSteps, HostImplementsSingleSource, Promise!SSpec, PlainPromise!SSpec
=============================================================================
