-------------------------- MODULE UsbBridgeProofs ---------------------------
(***************************************************************************)
(* Proofs about UsbBridge and UsbBridgeHistory, for any devices, buffers,  *)
(* parser, decoder and encoder and histories of any length: its types, the *)
(* consistency of the three fields of App, that it implements              *)
(* SingleSource, and that those fields and the report of the peer are the  *)
(* ones the history implies.  That argument goes event by event: what the  *)
(* first events say does not change when one more is handled (Earlier),    *)
(* what that one adds depends on its kind, device and data (AttachAdded to *)
(* BoundAdded), and the handler's arm for it makes the same change         *)
(* (AttachFollows to OtherFollows).                                        *)
(***************************************************************************)
EXTENDS UsbBridgeHistory, TLAPS

(* What a polled event carries, by its kind. *)
LEMMA PolledEvent ==
    ASSUME TypeOK, Poll
    PROVE  /\ event \in UsbEvent
           /\ finalEvents' \in Seq(IngressEvents)
           /\ event.device \in Devices
           /\ event.kind = "Descriptor" => event.data \in DescBuffers
           /\ event.kind = "Input" => event.data \in Payloads
<1>1. event \in IngressEvents /\ finalEvents' \in Seq(IngressEvents)
  BY DEF TypeOK, Poll, event
<1>2. event \in UsbEvent
  BY <1>1, EventsOK
<1>3. /\ event.device \in Devices
      /\ event.kind = "Descriptor" => event.data \in DescBuffers
      /\ event.kind = "Input" => event.data \in Payloads
  BY <1>2 DEF UsbEvent
<1> QED
  BY <1>1, <1>2, <1>3

(* The phases the loop's steps lead to are phases. *)
LEMMA PhaseType == (Continue \/ GiveUp) => phase' \in {"collect", "drain"}
BY DEF Continue, GiveUp

(* A step keeps the types. *)
LEMMA TypeStep ==
    ASSUME TypeOK, [Next]_vars
    PROVE  TypeOK'
<1>1. ASSUME NEW e \in IngressEvents, Collect(e) PROVE TypeOK'
  BY <1>1 DEF TypeOK, Collect, app
<1>2. CASE StartDrain
  BY <1>2 DEF TypeOK, StartDrain, app
<1>3. CASE Idle
  BY <1>3 DEF TypeOK, Idle, app
<1>4. CASE Attach
  BY <1>4, PolledEvent, PhaseType, ConstantsOK DEF TypeOK, Attach, ForgetSource
<1>5. CASE Detach
  BY <1>5, PolledEvent, PhaseType, ConstantsOK DEF TypeOK, Detach, ForgetSource
<1>6. CASE RejectLength
  BY <1>6, PolledEvent, PhaseType DEF TypeOK, RejectLength, app
<1>7. CASE StoreDescriptor
  <2>1. Parse[event.data] \in Summaries
    BY <1>7, PolledEvent, ConstantsOK DEF StoreDescriptor, DescriptorParses
  <2> QED
    BY <1>7, <2>1, PolledEvent, PhaseType DEF TypeOK, StoreDescriptor
<1>8. CASE RejectDescriptor
  BY <1>8, PolledEvent, PhaseType DEF TypeOK, RejectDescriptor, app
<1>9. CASE RejectInput
  BY <1>9, PolledEvent, PhaseType DEF TypeOK, RejectInput, app
<1>10. CASE Ignore
  BY <1>10, PolledEvent, PhaseType DEF TypeOK, Ignore, app
<1>11. ASSUME NEW published \in PublishResults, ApplyInput(published)
       PROVE  TypeOK'
  <2>1. <<activeDescriptor, event.data>> \in Summaries \X Payloads
    BY <1>11, PolledEvent DEF TypeOK, ApplyInput, TakeInput, InputReady
  <2>2. Decoded \in Inputs
    BY <1>11, <2>1, ConstantsOK DEF ApplyInput, TakeInput, Decoded
  <2>3. lastInput' \in Inputs /\ lastWire' \in Wires \cup {None}
    BY <1>11, <2>2, ConstantsOK DEF ApplyInput, TakeInput, CurrentReport, TypeOK
  <2>4. phase' \in {"collect", "drain"}
    BY <1>11, PhaseType DEF ApplyInput, TakeInput
  <2> QED
    BY <1>11, <2>3, <2>4, PolledEvent DEF TypeOK, ApplyInput, TakeInput
<1>12. CASE UNCHANGED vars
  BY <1>12 DEF TypeOK, vars
<1> QED
  BY <1>1, <1>2, <1>3, <1>4, <1>5, <1>6, <1>7, <1>8, <1>9, <1>10, <1>11, <1>12
     DEF Next, Loop, Handle, HandleOther

(* Every variable keeps its type (the Option fields of App hold what they  *)
(* are declared to hold, and a failed decode never reaches them).          *)
THEOREM TypeCorrect == Spec => []TypeOK
<1>1. Init => TypeOK
  BY ConstantsOK DEF Init, TypeOK
<1>2. TypeOK /\ [Next]_vars => TypeOK'
  BY TypeStep
<1> QED
  BY <1>1, <1>2, PTL DEF Spec

LEMMA HandleShrinks ==
    ASSUME TypeOK, Handle
    PROVE  Len(finalEvents') < Len(finalEvents)
<1>1. Poll
  BY DEF Handle, HandleOther, Attach, Detach, RejectLength, StoreDescriptor, RejectDescriptor,
         RejectInput, Ignore, ApplyInput, TakeInput
<1> QED
  BY <1>1 DEF Poll, TypeOK

(* The safety half of DrainEnds, for queues of any length: no outcome of   *)
(* an event, be it a peer that is not ready, lets the loop take it again.  *)
THEOREM DrainAlwaysShrinks == Spec => DrainShrinks
<1>1. TypeOK /\ [Next]_vars =>
        [phase = "drain" /\ phase' = "drain" => Len(finalEvents') < Len(finalEvents)]_vars
  BY HandleShrinks DEF Next, Loop, Collect, StartDrain, Idle, GiveUp
<1> QED
  BY <1>1, TypeCorrect, PTL DEF Spec, DrainShrinks

(* A step leaves no orphan. *)
LEMMA OrphanStep ==
    ASSUME TypeOK, NoOrphanInput, [Next]_vars
    PROVE  NoOrphanInput'
<1>1. CASE UNCHANGED app
  BY <1>1 DEF NoOrphanInput, app
<1>2. CASE Attach
  BY <1>2 DEF NoOrphanInput, Attach, ForgetSource
<1>3. CASE Detach
  BY <1>3 DEF NoOrphanInput, Detach, ForgetSource
<1>4. CASE StoreDescriptor
  <2>1. activeDevice # None
    BY <1>4, PolledEvent, ConstantsOK DEF StoreDescriptor, FromActiveDevice
  <2>2. activeDescriptor' # None
    BY <1>4, PolledEvent, ConstantsOK DEF StoreDescriptor, DescriptorParses
  <2> QED
    BY <1>4, <2>1, <2>2 DEF NoOrphanInput, StoreDescriptor
<1>5. ASSUME NEW published \in PublishResults, ApplyInput(published)
      PROVE  NoOrphanInput'
  BY <1>5 DEF NoOrphanInput, ApplyInput, TakeInput, InputReady
<1> QED
  BY <1>1, <1>2, <1>3, <1>4, <1>5
     DEF Next, Loop, Handle, HandleOther, Collect, StartDrain, Idle,
         RejectLength, RejectDescriptor, RejectInput, Ignore, vars, app

(* No descriptor without its device and no joystick state without a        *)
(* descriptor, in every reachable state.                                   *)
THEOREM NeverOrphaned == Spec => []NoOrphanInput
<1>1. Init => NoOrphanInput
  BY DEF Init, NoOrphanInput
<1>2. TypeOK /\ NoOrphanInput /\ [Next]_vars => NoOrphanInput'
  BY OrphanStep
<1> QED
  BY <1>1, <1>2, TypeCorrect, PTL DEF Spec

(* A step the abstract source sees is one of its own. *)
LEMMA PromiseStep ==
    ASSUME TypeOK, [Next]_vars, ~UNCHANGED Promise!svars
    PROVE  Promise!SNext
<1> USE DEF Promise!svars
<1>1. CASE Attach
  BY <1>1, PolledEvent DEF Attach, ForgetSource, Promise!SNext, Promise!Adopt
<1>2. CASE Detach
  <2>1. activeDevice # None
    BY <1>2, PolledEvent, ConstantsOK DEF Detach, FromActiveDevice
  <2> QED
    BY <1>2, <2>1 DEF Detach, ForgetSource, Promise!SNext, Promise!Release
<1>3. CASE StoreDescriptor
  BY <1>3 DEF StoreDescriptor, DescriptorParses
<1>4. ASSUME NEW published \in PublishResults, ApplyInput(published)
      PROVE  Promise!SNext
  <2>1. activeDevice # None
    BY <1>4, PolledEvent, ConstantsOK DEF ApplyInput, TakeInput, InputReady, FromActiveDevice
  <2>2. lastInput' \in Inputs
    <3>1. <<activeDescriptor, event.data>> \in Summaries \X Payloads
      BY <1>4, PolledEvent DEF TypeOK, ApplyInput, TakeInput, InputReady
    <3> QED
      BY <1>4, <3>1, ConstantsOK DEF ApplyInput, TakeInput, Decoded
  <2>3. lastWire' \in {lastWire, Encode[lastInput']}
    BY <1>4 DEF ApplyInput, TakeInput, CurrentReport
  <2>4. Promise!Update(lastInput')
    BY <1>4, <2>1, <2>3 DEF ApplyInput, TakeInput, Promise!Update
  <2> QED
    BY <2>2, <2>4 DEF Promise!SNext
<1>5. CASE UNCHANGED <<app, lastWire>>
  BY <1>5 DEF app
<1> QED
  BY <1>1, <1>2, <1>3, <1>4, <1>5
     DEF Next, Loop, Handle, HandleOther, Collect, StartDrain, Idle,
         RejectLength, RejectDescriptor, RejectInput, Ignore, vars, app

(* The bridge implements SingleSource: whatever events arrive in whatever  *)
(* order, its state changes only as the abstract source does, and the BLE  *)
(* peer receives nothing but the report of the state just set.             *)
THEOREM Refinement == Spec => ImplementsSingleSource
<1>1. Init => Promise!SInit
  BY DEF Init, Promise!SInit
<1>2. TypeOK /\ [Next]_vars => [Promise!SNext]_(Promise!svars)
  BY PromiseStep
<1> QED
  BY <1>1, <1>2, TypeCorrect, PTL DEF Spec, ImplementsSingleSource, Promise!SSpec

-----------------------------------------------------------------------------
(* A set of numbers that has a largest one. *)
Largest(S) == \E m \in S : \A y \in S : m >= y

(* Max is the largest one there is. *)
LEMMA MaxOf ==
    ASSUME NEW S, S \subseteq Nat, Largest(S)
    PROVE  Max(S) \in S /\ \A y \in S : Max(S) >= y
BY Zenon DEF Max, Largest

(* What is at least every other is the Max. *)
LEMMA MaxIs ==
    ASSUME NEW S, S \subseteq Nat, NEW m \in S, \A y \in S : m >= y
    PROVE  Max(S) = m
<1>1. Largest(S)
  BY DEF Largest
<1>2. Max(S) \in S /\ Max(S) >= m
  BY <1>1, MaxOf
<1>3. m \in Nat /\ Max(S) \in Nat /\ m >= Max(S)
  BY <1>2
<1> QED
  BY <1>2, <1>3

(* The indices the history is read at are indices of its events. *)
BoundedTo(n) ==
    \A i \in 0..n : LastAttach(i) \in 0..i /\ DescribedAt(i) \in 0..i

(* What the first events say does not change when more are handled. *)
LEMMA Earlier ==
    ASSUME NEW n \in Nat, BoundedTo(n),
           \A k \in 1..n : handled'[k] = handled[k],
           NEW i \in 0..n
    PROVE  /\ LastAttach(i)' = LastAttach(i)
           /\ AttachedAt(i)' = AttachedAt(i) /\ AttachedAt(i) \in 0..i
           /\ DescribedAt(i)' = DescribedAt(i)
           /\ i # 0 => Meaning(i)' = Meaning(i)
           /\ Meaningful(i)' = Meaningful(i)
<1>1. ASSUME NEW k \in 0..n PROVE LastAttach(k)' = LastAttach(k)
  <2>1. {j \in 1..k : handled'[j].event.kind = "Attached"}
          = {j \in 1..k : handled[j].event.kind = "Attached"}
    OBVIOUS
  <2> QED
    BY <2>1 DEF LastAttach
<1>2. ASSUME NEW k \in 0..n
      PROVE  AttachedAt(k)' = AttachedAt(k) /\ AttachedAt(k) \in 0..k
  <2>1. LastAttach(k) \in 0..k
    BY DEF BoundedTo
  <2>2. CASE LastAttach(k) = 0
    BY <1>1, <2>2 DEF AttachedAt
  <2>3. CASE LastAttach(k) # 0
    <3>1. /\ handled'[LastAttach(k)] = handled[LastAttach(k)]
          /\ \A j \in LastAttach(k) + 1 .. k : handled'[j] = handled[j]
      BY <2>1, <2>3
    <3>2. Gone(k)' <=> Gone(k)
      BY <1>1, <3>1 DEF Gone
    <3> QED
      BY <1>1, <2>1, <3>2 DEF AttachedAt
  <2> QED
    BY <2>2, <2>3
<1>3. ASSUME NEW k \in 1..n, NEW kind, AttachedAt(k) # 0
      PROVE  \A j \in 1..k : OfAttachment(AttachedAt(k), j, kind)'
                               <=> OfAttachment(AttachedAt(k), j, kind)
  <2>1. AttachedAt(k)' = AttachedAt(k) /\ AttachedAt(k) \in 1..n
    BY <1>2, <1>3
  <2>2. handled'[AttachedAt(k)] = handled[AttachedAt(k)]
    BY <2>1
  <2> QED
    BY <2>1, <2>2 DEF OfAttachment
<1>4. ASSUME NEW k \in 0..n
      PROVE  DescribedAt(k)' = DescribedAt(k) /\ DescribedAt(k) \in 0..k
  <2>1. Descriptions(k)' = Descriptions(k)
    BY <1>2, <1>3 DEF Descriptions
  <2> QED
    BY <2>1 DEF DescribedAt, BoundedTo
<1>5. ASSUME NEW k \in 1..n PROVE Meaning(k)' = Meaning(k)
  <2>1. DescribedAt(k) # 0 => handled'[DescribedAt(k)] = handled[DescribedAt(k)]
    BY <1>4
  <2> QED
    BY <1>4, <2>1 DEF Meaning
<1>6. Meaningful(i)' = Meaningful(i)
  BY <1>2, <1>3, <1>5 DEF Meaningful
<1> QED
  BY <1>1, <1>2, <1>4, <1>5, <1>6

-----------------------------------------------------------------------------
(* What one more event adds. *)

(* It becomes the last of n + 1, those before it stay. *)
Adds(n, e) ==
    /\ \A k \in 1..n : handled'[k] = handled[k]
    /\ handled'[n + 1].event = e

DeviceAt(i) == handled[i].event.device

(* The event is one of the device attached. *)
OfSource(n, e) == AttachedAt(n) # 0 /\ e.device = DeviceAt(AttachedAt(n))

(* The event detaches the device attached. *)
Releases(n, e) == e.kind = "Detached" /\ OfSource(n, e)

(* An attach becomes the source. *)
LEMMA AttachAdded ==
    ASSUME NEW n \in Nat, BoundedTo(n), NEW e, Adds(n, e), e.kind = "Attached"
    PROVE  LastAttach(n + 1)' = n + 1 /\ AttachedAt(n + 1)' = n + 1
<1> DEFINE S == {0} \cup {i \in 1..n + 1 : handled'[i].event.kind = "Attached"}
<1>1. S \subseteq Nat /\ n + 1 \in S /\ \A y \in S : n + 1 >= y
  BY DEF Adds
<1>2. Max(S) = n + 1
  <2> HIDE DEF S
  <2> QED
    BY <1>1, MaxIs
<1>3. LastAttach(n + 1)' = n + 1
  BY <1>2 DEF LastAttach
<1>4. ~Gone(n + 1)'
  BY <1>3 DEF Gone
<1> QED
  BY <1>3, <1>4 DEF AttachedAt

(* Any other event leaves the source, unless it releases it. *)
LEMMA OtherAdded ==
    ASSUME NEW n \in Nat, BoundedTo(n), NEW e, Adds(n, e), e.kind # "Attached"
    PROVE  /\ LastAttach(n + 1)' = LastAttach(n)
           /\ AttachedAt(n + 1)' = IF Releases(n, e) THEN 0 ELSE AttachedAt(n)
           /\ AttachedAt(n) \in 0..n
<1>1. {j \in 1..n + 1 : handled'[j].event.kind = "Attached"}
        = {j \in 1..n : handled[j].event.kind = "Attached"}
  BY DEF Adds
<1>2. LastAttach(n + 1)' = LastAttach(n) /\ LastAttach(n) \in 0..n
  <2>1. LastAttach(n + 1)' = LastAttach(n)
    BY <1>1 DEF LastAttach
  <2> QED
    BY <2>1 DEF BoundedTo
<1>3. CASE LastAttach(n) = 0
  BY <1>2, <1>3 DEF AttachedAt, Releases, OfSource
<1>4. CASE LastAttach(n) # 0
  <2>1. /\ handled'[LastAttach(n)] = handled[LastAttach(n)]
        /\ \A j \in LastAttach(n) + 1 .. n : handled'[j] = handled[j]
        /\ handled'[n + 1].event = e
    BY <1>2, <1>4 DEF Adds
  <2>2. Gone(n + 1)' <=> Gone(n) \/ (e.kind = "Detached" /\ e.device = DeviceAt(LastAttach(n)))
    BY <1>2, <2>1 DEF Gone, DeviceAt
  <2> QED
    BY <1>2, <1>4, <2>2 DEF AttachedAt, Releases, OfSource
<1> QED
  BY <1>3, <1>4

(* The event describes the device attached. *)
Describes(n, e) ==
    /\ e.kind = "Descriptor"
    /\ e.fits
    /\ OfSource(n, e)
    /\ Parse[e.data] # Failed

(* A new source, or none, has no descriptor. *)
LEMMA NoneDescribed ==
    ASSUME NEW n \in Nat, NEW e, Adds(n, e), BoundedTo(n),
           e.kind = "Attached" \/ Releases(n, e)
    PROVE  DescribedAt(n + 1)' = 0
<1>1. AttachedAt(n + 1)' \in {0, n + 1}
  BY AttachAdded, OtherAdded DEF Releases
<1>2. Descriptions(n + 1)' = {}
  BY <1>1 DEF Descriptions, OfAttachment
<1>3. Max({0}) = 0
  BY MaxIs
<1> QED
  BY <1>2, <1>3 DEF DescribedAt

(* Else the descriptor stays, unless the event brings one. *)
LEMMA DescriptionAdded ==
    ASSUME NEW n \in Nat, NEW e, Adds(n, e), BoundedTo(n),
           e.kind # "Attached", ~Releases(n, e)
    PROVE  DescribedAt(n + 1)' = IF Describes(n, e) THEN n + 1 ELSE DescribedAt(n)
<1>1. AttachedAt(n + 1)' = AttachedAt(n) /\ AttachedAt(n) \in 0..n
  BY OtherAdded
<1>2. CASE AttachedAt(n) = 0
  <2>1. Descriptions(n + 1)' = {} /\ Descriptions(n) = {}
    BY <1>1, <1>2 DEF Descriptions
  <2> QED
    BY <1>2, <2>1 DEF DescribedAt, Describes, OfSource
<1>3. CASE AttachedAt(n) # 0
  <2>1. /\ handled'[AttachedAt(n)] = handled[AttachedAt(n)]
        /\ \A j \in 1..n : handled'[j] = handled[j]
        /\ handled'[n + 1].event = e
    BY <1>1, <1>3 DEF Adds
  <2>2. Descriptions(n + 1)'
          = Descriptions(n) \cup (IF Describes(n, e) THEN {n + 1} ELSE {})
    <3>1. ASSUME NEW j \in 1..n
          PROVE  j \in Descriptions(n + 1)' <=> j \in Descriptions(n)
      BY <1>1, <2>1 DEF Descriptions, OfAttachment
    <3>2. n + 1 \in Descriptions(n + 1)' <=> Describes(n, e)
      BY <1>1, <1>3, <2>1 DEF Descriptions, OfAttachment, Describes, OfSource, DeviceAt
    <3>3. Descriptions(n + 1)' \subseteq 1..n + 1 /\ Descriptions(n) \subseteq 1..n
      BY DEF Descriptions
    <3> QED
      BY <3>1, <3>2, <3>3
  <2>3. CASE Describes(n, e)
    <3> DEFINE S == {0} \cup Descriptions(n + 1)'
    <3>1. S \subseteq Nat /\ n + 1 \in S /\ \A y \in S : n + 1 >= y
      BY <2>2, <2>3 DEF Descriptions
    <3>2. Max(S) = n + 1
      <4> HIDE DEF S
      <4> QED
        BY <3>1, MaxIs
    <3> QED
      BY <2>3, <3>2 DEF DescribedAt
  <2> QED
    BY <2>2, <2>3 DEF DescribedAt
<1> QED
  BY <1>2, <1>3

(* What a report means under the descriptor in force. *)
MeaningOf(n, e) ==
    IF DescribedAt(n) = 0 THEN Failed
    ELSE Decode[<<Parse[handled[DescribedAt(n)].event.data], e.data>>]

Means(n, e) ==
    /\ e.kind = "Input"
    /\ e.fits
    /\ OfSource(n, e)
    /\ MeaningOf(n, e) # Failed

(* A report counts under the descriptor that was in force. *)
LEMMA MeaningAdded ==
    ASSUME NEW n \in Nat, NEW e, Adds(n, e), BoundedTo(n)
    PROVE  /\ e.kind = "Input" => Meaning(n + 1)' = MeaningOf(n, e)
           /\ Meaningful(n + 1)'
                = Meaningful(n) \cup (IF Means(n, e) THEN {n + 1} ELSE {})
<1>0. /\ \A j \in 1..n : handled'[j] = handled[j]
      /\ handled'[n + 1].event = e
  BY DEF Adds
<1>1. ASSUME e.kind = "Input" PROVE Meaning(n + 1)' = MeaningOf(n, e)
  <2>1. DescribedAt(n + 1)' = DescribedAt(n)
    BY <1>1, DescriptionAdded DEF Releases, Describes
  <2>2. DescribedAt(n) # 0 => handled'[DescribedAt(n)] = handled[DescribedAt(n)]
    BY <1>0 DEF BoundedTo
  <2> QED
    BY <1>0, <2>1, <2>2 DEF Meaning, MeaningOf
<1>2. ASSUME NEW j \in 1..n PROVE j \in Meaningful(n + 1)' <=> j \in Meaningful(n)
  <2>1. Meaningful(j)' = Meaningful(j)
    BY <1>0, Earlier
  <2>2. /\ j \in Meaningful(n + 1)' <=> j \in Meaningful(j)'
        /\ j \in Meaningful(n) <=> j \in Meaningful(j)
    BY DEF Meaningful
  <2> QED
    BY <2>1, <2>2
<1>3. n + 1 \in Meaningful(n + 1)' <=> Means(n, e)
  <2>1. CASE e.kind # "Input"
    BY <1>0, <2>1 DEF Meaningful, OfAttachment, Means
  <2>2. CASE e.kind = "Input"
    <3>1. AttachedAt(n + 1)' = AttachedAt(n) /\ AttachedAt(n) \in 0..n
      BY <2>2, OtherAdded DEF Releases
    <3>2. AttachedAt(n) # 0 => handled'[AttachedAt(n)] = handled[AttachedAt(n)]
      BY <1>0, <3>1
    <3> QED
      BY <1>0, <1>1, <2>2, <3>1, <3>2 DEF Meaningful, OfAttachment, Means, OfSource, DeviceAt
  <2> QED
    BY <2>1, <2>2
<1>4. Meaningful(n + 1)' \subseteq 1..n + 1 /\ Meaningful(n) \subseteq 1..n
  BY DEF Meaningful
<1> QED
  BY <1>1, <1>2, <1>3, <1>4

(* The indices stay indices of events. *)
LEMMA BoundAdded ==
    ASSUME NEW n \in Nat, NEW e, Adds(n, e), BoundedTo(n)
    PROVE  BoundedTo(n + 1)'
<1>1. ASSUME NEW i \in 0..n PROVE LastAttach(i)' \in 0..i /\ DescribedAt(i)' \in 0..i
  <2>1. \A k \in 1..n : handled'[k] = handled[k]
    BY DEF Adds
  <2> QED
    BY <2>1, Earlier DEF BoundedTo
<1>2. LastAttach(n) \in 0..n /\ DescribedAt(n) \in 0..n
  BY DEF BoundedTo
<1>3. LastAttach(n + 1)' \in 0..n + 1
  BY <1>2, AttachAdded, OtherAdded
<1>4. DescribedAt(n + 1)' \in 0..n + 1
  BY <1>2, NoneDescribed, DescriptionAdded
<1> QED
  BY <1>1, <1>3, <1>4 DEF BoundedTo

-----------------------------------------------------------------------------
(* The invariant: what the properties say at index n, and that the largest *)
(* indices they speak of are those of events.                              *)

InForce(n) == Max({0} \cup Current(n))

SourceAt(n) ==
    activeDevice = IF AttachedAt(n) = 0 THEN None ELSE DeviceAt(AttachedAt(n))

LayoutAt(n) ==
    /\ activeDescriptor = IF DescribedAt(n) = 0 THEN None
                          ELSE Parse[handled[DescribedAt(n)].event.data]
    /\ DescribedAt(n) # 0 => activeDescriptor # None

InputAt(n) ==
    /\ AttachedAt(n) = 0 => lastInput = Neutral
    /\ AttachedAt(n) # 0 =>
         \E i \in 0..n : /\ i = InForce(n)
                         /\ lastInput = IF i = 0 THEN Neutral ELSE Meaning(i)

PeerAt(n) ==
    /\ Sent(n) = {} => lastWire = None
    /\ Sent(n) # {} =>
         \E i \in 1..n : i = Max(Sent(n)) /\ lastWire = Encode[Meaning(i)]

FollowsAt(n) == BoundedTo(n) /\ SourceAt(n) /\ LayoutAt(n) /\ InputAt(n) /\ PeerAt(n)

Entry == [event : IngressEvents, accepted : BOOLEAN]

HistInv ==
    /\ handled \in Seq(Entry)
    /\ \A n \in Nat : Now = n => FollowsAt(n)

(* A step that handles an event. *)
Handles(n, accepted) ==
    /\ handled \in Seq(Entry)
    /\ n \in Nat /\ Now = n
    /\ FollowsAt(n)
    /\ TypeOK
    /\ Poll
    /\ accepted \in BOOLEAN
    /\ Record(accepted)

(* What a step that handles an event does to the history. *)
LEMMA HandledEvent ==
    ASSUME NEW n, NEW accepted, Handles(n, accepted)
    PROVE  /\ n \in Nat /\ BoundedTo(n)
           /\ Adds(n, event)
           /\ handled'[n + 1].accepted = accepted
           /\ handled' \in Seq(Entry) /\ Now' = n + 1
           /\ AttachedAt(n) \in 0..n /\ DescribedAt(n) \in 0..n
           /\ \A i \in 1..n : handled[i].event \in UsbEvent
<1>1. event \in IngressEvents /\ event \in UsbEvent
  <2>1. finalEvents \in Seq(IngressEvents) /\ finalEvents # <<>>
    BY DEF Handles, TypeOK, Poll
  <2>2. event \in IngressEvents
    BY <2>1 DEF event
  <2> QED
    BY <2>2, EventsOK
<1>2. /\ handled \in Seq(Entry) /\ n \in Nat /\ Len(handled) = n
      /\ accepted \in BOOLEAN
      /\ handled' = Append(handled, [event |-> event, accepted |-> accepted])
  BY DEF Handles, Record, Now
<1>3. [event |-> event, accepted |-> accepted] \in Entry
  BY <1>1, <1>2 DEF Entry
<1>4. /\ handled' \in Seq(Entry) /\ Len(handled') = n + 1
      /\ handled'[n + 1] = [event |-> event, accepted |-> accepted]
      /\ \A k \in 1..n : handled'[k] = handled[k]
  BY <1>2, <1>3
<1>5. Adds(n, event) /\ handled'[n + 1].accepted = accepted
  BY <1>4 DEF Adds
<1>6. ASSUME NEW i \in 1..n PROVE handled[i].event \in UsbEvent
  <2>1. handled[i] \in Entry
    BY <1>2
  <2> QED
    BY <2>1, EventsOK DEF Entry
<1>7. BoundedTo(n)
  BY DEF Handles, FollowsAt
<1>8. AttachedAt(n) \in 0..n
  BY <1>2, <1>7 DEF BoundedTo, AttachedAt
<1>9. DescribedAt(n) \in 0..n
  BY <1>2, <1>7 DEF BoundedTo
<1> QED
  BY <1>2, <1>4, <1>5, <1>6, <1>7, <1>8, <1>9 DEF Now

(* The history knows the active device and its descriptor. *)
LEMMA SourceKnown ==
    ASSUME NEW n, NEW accepted, Handles(n, accepted)
    PROVE  /\ FromActiveDevice <=> OfSource(n, event)
           /\ activeDescriptor # None =>
                DescribedAt(n) # 0 /\ activeDescriptor = Parse[handled[DescribedAt(n)].event.data]
           /\ activeDescriptor # None /\ event.kind = "Input" => MeaningOf(n, event) = Decoded
<1>1. event.device \in Devices
  BY PolledEvent DEF Handles
<1>2. SourceAt(n) /\ LayoutAt(n)
  BY DEF Handles, FollowsAt
<1>3. AttachedAt(n) # 0 => DeviceAt(AttachedAt(n)) \in Devices
  BY HandledEvent DEF DeviceAt, UsbEvent
<1>4. FromActiveDevice <=> OfSource(n, event)
  BY <1>1, <1>2, <1>3, ConstantsOK DEF FromActiveDevice, OfSource, SourceAt
<1>5. activeDescriptor # None =>
        DescribedAt(n) # 0 /\ activeDescriptor = Parse[handled[DescribedAt(n)].event.data]
  BY <1>2 DEF LayoutAt
<1>6. activeDescriptor # None => MeaningOf(n, event) = Decoded
  BY <1>5 DEF MeaningOf, Decoded
<1> QED
  BY <1>4, <1>5, <1>6

(* An event that is no report in force leaves the peer's. *)
LEMMA PeerKept ==
    ASSUME NEW n, NEW accepted, Handles(n, accepted), ~Means(n, event), lastWire' = lastWire
    PROVE  PeerAt(n + 1)'
<1>1. PeerAt(n)
  BY DEF Handles, FollowsAt
<1>2. Meaningful(n + 1)' = Meaningful(n)
  BY HandledEvent, MeaningAdded
<1>3. n \in Nat /\ \A k \in 1..n : handled'[k] = handled[k]
  BY HandledEvent DEF Adds
<1>4. Sent(n + 1)' = Sent(n)
  <2>1. Meaningful(n) \subseteq 1..n
    BY DEF Meaningful
  <2> QED
    BY <1>2, <1>3, <2>1 DEF Sent
<1>5. Sent(n + 1)' # {} =>
        \E i \in 1..n + 1 : i = Max(Sent(n + 1)') /\ lastWire' = Encode[Meaning(i)']
  <2> SUFFICES ASSUME Sent(n) # {}
               PROVE  \E i \in 1..n + 1 : i = Max(Sent(n)) /\ lastWire' = Encode[Meaning(i)']
    BY <1>4
  <2>1. PICK m \in 1..n : m = Max(Sent(n)) /\ lastWire = Encode[Meaning(m)]
    BY <1>1 DEF PeerAt
  <2>2. Meaning(m)' = Meaning(m)
    BY <1>3, HandledEvent, Earlier
  <2> QED
    BY <1>3, <2>1, <2>2
<1> QED
  BY <1>1, <1>4, <1>5 DEF PeerAt

(* A descriptor in force, and any event of no consequence, leave the       *)
(* joystick state to the report that gave it.                              *)
LEMMA InputKept ==
    ASSUME NEW n, NEW accepted, Handles(n, accepted),
           event.kind # "Attached", ~Releases(n, event), ~Means(n, event),
           lastInput' = lastInput
    PROVE  InputAt(n + 1)'
<1>1. InputAt(n)
  BY DEF Handles, FollowsAt
<1>2. Meaningful(n + 1)' = Meaningful(n)
  BY HandledEvent, MeaningAdded
<1>3. AttachedAt(n + 1)' = AttachedAt(n)
  BY HandledEvent, OtherAdded
<1>4. InForce(n + 1)' = InForce(n)
  <2>1. Current(n + 1)' = Current(n)
    BY <1>2, <1>3 DEF Current
  <2> QED
    BY <2>1 DEF InForce
<1>5. n \in Nat /\ \A k \in 1..n : handled'[k] = handled[k]
  BY HandledEvent DEF Adds
<1>6. ASSUME AttachedAt(n) # 0
      PROVE  \E i \in 0..n + 1 : /\ i = InForce(n + 1)'
                                 /\ lastInput' = IF i = 0 THEN Neutral ELSE Meaning(i)'
  <2>1. PICK i \in 0..n : i = InForce(n) /\ lastInput = IF i = 0 THEN Neutral ELSE Meaning(i)
    BY <1>1, <1>6 DEF InputAt
  <2>2. i # 0 => Meaning(i)' = Meaning(i)
    BY <1>5, HandledEvent, Earlier
  <2> QED
    BY <1>4, <1>5, <2>1, <2>2
<1> QED
  BY <1>1, <1>3, <1>6 DEF InputAt

(* The source stays, unless an attach or a detach changes it. *)
LEMMA SourceKept ==
    ASSUME NEW n, NEW accepted, Handles(n, accepted),
           event.kind # "Attached", ~Releases(n, event), activeDevice' = activeDevice
    PROVE  SourceAt(n + 1)'
<1>1. AttachedAt(n + 1)' = AttachedAt(n) /\ AttachedAt(n) \in 0..n
  BY HandledEvent, OtherAdded
<1>2. AttachedAt(n) # 0 => handled'[AttachedAt(n)] = handled[AttachedAt(n)]
  BY <1>1, HandledEvent DEF Adds
<1> QED
  BY <1>1, <1>2 DEF SourceAt, DeviceAt, Handles, FollowsAt

(* So does the descriptor, unless one is stored. *)
LEMMA DescriptorKept ==
    ASSUME NEW n, NEW accepted, Handles(n, accepted),
           event.kind # "Attached", ~Releases(n, event), ~Describes(n, event),
           activeDescriptor' = activeDescriptor
    PROVE  LayoutAt(n + 1)'
<1>1. DescribedAt(n + 1)' = DescribedAt(n) /\ DescribedAt(n) \in 0..n
  BY HandledEvent, DescriptionAdded
<1>2. DescribedAt(n) # 0 => handled'[DescribedAt(n)] = handled[DescribedAt(n)]
  BY <1>1, HandledEvent DEF Adds
<1> QED
  BY <1>1, <1>2 DEF LayoutAt, Handles, FollowsAt

(* An event of no consequence. *)
LEMMA NothingMoves ==
    ASSUME NEW n, NEW accepted, Handles(n, accepted),
           event.kind # "Attached", ~Releases(n, event), ~Describes(n, event),
           ~Means(n, event), UNCHANGED <<app, lastWire>>
    PROVE  FollowsAt(n + 1)'
<1>1. BoundedTo(n + 1)'
  BY HandledEvent, BoundAdded
<1> QED
  BY <1>1, SourceKept, DescriptorKept, InputKept, PeerKept DEF FollowsAt, app

(* Arm by arm: an attach, *)
LEMMA AttachFollows ==
    ASSUME NEW n, NEW accepted, Handles(n, accepted), Attach
    PROVE  FollowsAt(n + 1)'
<1>1. /\ event.kind = "Attached"
      /\ activeDevice' = event.device /\ activeDescriptor' = None
      /\ lastInput' = Neutral /\ lastWire' = lastWire
  BY DEF Attach, ForgetSource
<1>2. AttachedAt(n + 1)' = n + 1 /\ n + 1 # 0
  BY <1>1, HandledEvent, AttachAdded
<1>3. SourceAt(n + 1)'
  BY <1>1, <1>2, HandledEvent DEF SourceAt, DeviceAt, Adds
<1>4. LayoutAt(n + 1)'
  BY <1>1, HandledEvent, NoneDescribed DEF LayoutAt
<1>5. InForce(n + 1)' = 0
  <2>1. Current(n + 1)' = {}
    BY <1>2, HandledEvent DEF Current, Meaningful
  <2>2. Max({0}) = 0
    BY MaxIs
  <2> QED
    BY <2>1, <2>2 DEF InForce
<1>6. InputAt(n + 1)'
  BY <1>1, <1>2, <1>5, HandledEvent DEF InputAt
<1>7. PeerAt(n + 1)'
  BY <1>1, PeerKept DEF Means
<1> QED
  BY <1>3, <1>4, <1>6, <1>7, HandledEvent, BoundAdded DEF FollowsAt

(* a detach of the source, *)
LEMMA DetachFollows ==
    ASSUME NEW n, NEW accepted, Handles(n, accepted), Detach
    PROVE  FollowsAt(n + 1)'
<1>1. /\ event.kind = "Detached" /\ FromActiveDevice
      /\ activeDevice' = None /\ activeDescriptor' = None
      /\ lastInput' = Neutral /\ lastWire' = lastWire
  BY DEF Detach, ForgetSource
<1>2. Releases(n, event)
  BY <1>1, SourceKnown DEF Releases
<1>3. AttachedAt(n + 1)' = 0
  BY <1>1, <1>2, HandledEvent, OtherAdded
<1>4. SourceAt(n + 1)' /\ InputAt(n + 1)'
  BY <1>1, <1>3 DEF SourceAt, InputAt
<1>5. LayoutAt(n + 1)'
  BY <1>1, <1>2, HandledEvent, NoneDescribed DEF LayoutAt
<1>6. PeerAt(n + 1)'
  BY <1>1, PeerKept DEF Means
<1> QED
  BY <1>4, <1>5, <1>6, HandledEvent, BoundAdded DEF FollowsAt

(* a descriptor of the source, *)
LEMMA DescriptorFollows ==
    ASSUME NEW n, NEW accepted, Handles(n, accepted), StoreDescriptor
    PROVE  FollowsAt(n + 1)'
<1>1. /\ event.kind = "Descriptor" /\ event.fits /\ FromActiveDevice
      /\ Parse[event.data] # Failed
      /\ activeDescriptor' = Parse[event.data]
      /\ activeDevice' = activeDevice /\ lastInput' = lastInput /\ lastWire' = lastWire
  BY DEF StoreDescriptor, DescriptorParses
<1>2. Describes(n, event)
  BY <1>1, SourceKnown DEF Describes
<1>3. ~Releases(n, event) /\ ~Means(n, event)
  BY <1>1 DEF Releases, Means
<1>4. DescribedAt(n + 1)' = n + 1 /\ n + 1 # 0
  BY <1>1, <1>2, <1>3, HandledEvent, DescriptionAdded
<1>5. LayoutAt(n + 1)'
  <2>1. Parse[event.data] # None
    BY <1>1, PolledEvent, ConstantsOK DEF Handles
  <2> QED
    BY <1>1, <1>4, <2>1, HandledEvent DEF LayoutAt, Adds
<1>6. SourceAt(n + 1)' /\ InputAt(n + 1)' /\ PeerAt(n + 1)'
  BY <1>1, <1>3, SourceKept, InputKept, PeerKept
<1> QED
  BY <1>5, <1>6, HandledEvent, BoundAdded DEF FollowsAt

(* a report of the source, published or not, *)
LEMMA InputFollows ==
    ASSUME NEW published \in PublishResults,
           NEW n, NEW accepted, accepted = (published = "Ok"),
           Handles(n, accepted), ApplyInput(published)
    PROVE  FollowsAt(n + 1)'
<1>1. /\ event.kind = "Input" /\ event.fits /\ FromActiveDevice
      /\ activeDescriptor # None /\ Decoded # Failed
      /\ lastInput' = Decoded
      /\ activeDevice' = activeDevice /\ activeDescriptor' = activeDescriptor
      /\ lastWire' = IF published = "Ok" THEN Encode[lastInput'] ELSE lastWire
  BY DEF ApplyInput, TakeInput, InputReady, CurrentReport
<1>2. Means(n, event) /\ MeaningOf(n, event) = Decoded
  BY <1>1, SourceKnown DEF Means
<1>3. ~Releases(n, event) /\ ~Describes(n, event)
  BY <1>1 DEF Releases, Describes
<1>4. SourceAt(n + 1)' /\ LayoutAt(n + 1)'
  BY <1>1, <1>3, SourceKept, DescriptorKept
<1>5. /\ n \in Nat /\ BoundedTo(n) /\ Adds(n, event)
      /\ AttachedAt(n + 1)' = AttachedAt(n) /\ AttachedAt(n) \in 0..n
      /\ Meaning(n + 1)' = Decoded
      /\ Meaningful(n + 1)' = Meaningful(n) \cup {n + 1}
      /\ Meaningful(n) \subseteq 1..n
  <2>1. n \in Nat /\ BoundedTo(n) /\ Adds(n, event) /\ AttachedAt(n) \in 0..n
    BY HandledEvent
  <2>2. AttachedAt(n + 1)' = AttachedAt(n)
    BY <1>1, <1>3, <2>1, OtherAdded
  <2>3. /\ Meaning(n + 1)' = Decoded
        /\ Meaningful(n + 1)' = Meaningful(n) \cup {n + 1}
    BY <1>1, <1>2, <2>1, MeaningAdded
  <2>4. Meaningful(n) \subseteq 1..n
    BY DEF Meaningful
  <2> QED
    BY <2>1, <2>2, <2>3, <2>4
<1>6. InputAt(n + 1)'
  <2> DEFINE S == {0} \cup Current(n + 1)'
  <2>1. S \subseteq Nat /\ n + 1 \in S /\ \A y \in S : n + 1 >= y
    BY <1>5 DEF Current
  <2>2. Max(S) = n + 1
    <3> HIDE DEF S
    <3> QED
      BY <2>1, MaxIs
  <2>3. InForce(n + 1)' = n + 1
    BY <2>2 DEF InForce
  <2>4. AttachedAt(n + 1)' # 0
    BY <1>2, <1>5 DEF Means, OfSource
  <2> QED
    BY <1>1, <1>5, <2>3, <2>4 DEF InputAt
<1>7. PeerAt(n + 1)'
  <2>1. handled'[n + 1].accepted = accepted /\ \A k \in 1..n : handled'[k] = handled[k]
    BY HandledEvent DEF Adds
  <2>2. CASE published = "Ok"
    <3> DEFINE S == Sent(n + 1)'
    <3>0. handled'[n + 1].accepted
      BY <2>1, <2>2, Zenon
    <3>1. S \subseteq Nat /\ n + 1 \in S /\ \A y \in S : n + 1 >= y
      <4>1. S \subseteq Nat /\ \A y \in S : n + 1 >= y
        BY <1>5 DEF Sent
      <4>2. n + 1 \in S
        BY <1>5, <3>0 DEF Sent
      <4> QED
        BY <4>1, <4>2
    <3>2. Max(S) = n + 1
      <4> HIDE DEF S
      <4> QED
        BY <3>1, MaxIs
    <3> QED
      BY <1>1, <1>5, <2>2, <3>1, <3>2 DEF PeerAt
  <2>3. CASE published # "Ok"
    <3>1. Sent(n + 1)' = Sent(n)
      BY <1>5, <2>1, <2>3 DEF Sent
    <3>2. PeerAt(n) /\ lastWire' = lastWire
      BY <1>1, <2>3 DEF Handles, FollowsAt
    <3>3. ASSUME Sent(n) # {}
          PROVE  \E i \in 1..n + 1 : i = Max(Sent(n + 1)') /\ lastWire' = Encode[Meaning(i)']
      <4>1. PICK m \in 1..n : m = Max(Sent(n)) /\ lastWire = Encode[Meaning(m)]
        BY <3>2, <3>3 DEF PeerAt
      <4>2. Meaning(m)' = Meaning(m)
        BY <1>5, <2>1, Earlier
      <4> QED
        BY <1>5, <3>1, <3>2, <4>1, <4>2
    <3> QED
      BY <3>1, <3>2, <3>3 DEF PeerAt
  <2> QED
    BY <2>2, <2>3
<1> QED
  BY <1>4, <1>5, <1>6, <1>7, BoundAdded DEF FollowsAt

(* and the events that are refused or ignored. *)
LEMMA OtherFollows ==
    ASSUME NEW n, NEW accepted, Handles(n, accepted), HandleOther
    PROVE  FollowsAt(n + 1)'
<1> USE DEF Releases, Describes, Means
<1>1. CASE Attach
  BY <1>1, AttachFollows
<1>2. CASE Detach
  BY <1>2, DetachFollows
<1>3. CASE StoreDescriptor
  BY <1>3, DescriptorFollows
<1>4. CASE RejectLength
  BY <1>4, NothingMoves DEF RejectLength
<1>5. CASE RejectDescriptor
  BY <1>5, NothingMoves DEF RejectDescriptor, DescriptorParses
<1>6. CASE RejectInput
  <2>1. MeaningOf(n, event) = Failed
    BY <1>6, SourceKnown DEF RejectInput, InputReady
  <2> QED
    BY <1>6, <2>1, NothingMoves DEF RejectInput, InputReady
<1>7. CASE Ignore
  <2>1. FromActiveDevice <=> OfSource(n, event)
    BY SourceKnown
  <2>2. activeDescriptor = None => MeaningOf(n, event) = Failed
    <3>1. LayoutAt(n)
      BY DEF Handles, FollowsAt
    <3> QED
      BY <3>1 DEF LayoutAt, MeaningOf
  <2> QED
    BY <1>7, <2>1, <2>2, NothingMoves DEF Ignore, Ignored
<1> QED
  BY <1>1, <1>2, <1>3, <1>4, <1>5, <1>6, <1>7 DEF HandleOther

-----------------------------------------------------------------------------
(* The theorems. *)

(* A step that handles no event. *)
LEMMA FollowsStill ==
    ASSUME NEW n \in Nat, FollowsAt(n), UNCHANGED handled, UNCHANGED <<app, lastWire>>
    PROVE  FollowsAt(n)'
<1> USE DEF app
<1>1. BoundedTo(n) /\ \A k \in 1..n : handled'[k] = handled[k]
  BY DEF FollowsAt
<1>2. ASSUME NEW i \in 0..n
      PROVE  /\ LastAttach(i)' = LastAttach(i) /\ AttachedAt(i)' = AttachedAt(i)
             /\ DescribedAt(i)' = DescribedAt(i)
             /\ i # 0 => Meaning(i)' = Meaning(i)
             /\ Meaningful(i)' = Meaningful(i)
  BY <1>1, Earlier
<1>3. BoundedTo(n)'
  BY <1>1, <1>2 DEF BoundedTo
<1>4. SourceAt(n)' /\ LayoutAt(n)'
  BY <1>2 DEF FollowsAt, SourceAt, LayoutAt, DeviceAt
<1>5. InForce(n)' = InForce(n) /\ Sent(n)' = Sent(n)
  <2>1. Current(n)' = Current(n)
    BY <1>2 DEF Current
  <2>2. Sent(n)' = Sent(n)
    BY <1>2 DEF Sent
  <2> QED
    BY <2>1, <2>2 DEF InForce
<1>6. InputAt(n)'
  BY <1>2, <1>5 DEF FollowsAt, InputAt
<1>7. PeerAt(n)'
  <2>1. ASSUME Sent(n)' # {}
        PROVE  \E i \in 1..n : i = Max(Sent(n)') /\ lastWire' = Encode[Meaning(i)']
    <3>1. PICK m \in 1..n : m = Max(Sent(n)) /\ lastWire = Encode[Meaning(m)]
      BY <1>5, <2>1 DEF FollowsAt, PeerAt
    <3> QED
      BY <1>2, <1>5, <3>1
  <2> QED
    BY <1>5, <2>1 DEF FollowsAt, PeerAt
<1> QED
  BY <1>3, <1>4, <1>6, <1>7 DEF FollowsAt

(* No event, no source. *)
LEMMA HistoryInit == HInit => TypeOK /\ HistInv
<1> SUFFICES ASSUME HInit PROVE TypeOK /\ HistInv
  OBVIOUS
<1>1. TypeOK
  BY ConstantsOK DEF HInit, Init, TypeOK
<1>2. handled = <<>> /\ handled \in Seq(Entry) /\ Now = 0
  BY DEF HInit, Now
<1>3. Max({0}) = 0
  BY MaxIs
<1>4. LastAttach(0) = 0 /\ AttachedAt(0) = 0
  BY <1>3 DEF LastAttach, AttachedAt
<1>5. DescribedAt(0) = 0
  <2>1. Descriptions(0) = {}
    BY <1>4 DEF Descriptions
  <2> QED
    BY <1>3, <2>1 DEF DescribedAt
<1>6. Sent(0) = {}
  BY DEF Sent, Meaningful
<1>7. FollowsAt(0)
  BY <1>4, <1>5, <1>6 DEF HInit, Init, FollowsAt, BoundedTo, SourceAt, LayoutAt,
     InputAt, PeerAt
<1> QED
  BY <1>1, <1>2, <1>7 DEF HistInv

(* Every step keeps the invariant. *)
LEMMA HistoryStep ==
    ASSUME TypeOK, HistInv, [HNext]_hvars
    PROVE  TypeOK' /\ HistInv'
<1>1. [Next]_vars
  BY DEF HNext, HLoop, HCollect, HHandleOther, HApplyInput, Next, Loop, Handle, hvars
<1>2. TypeOK'
  BY <1>1, TypeStep
<1>3. ASSUME UNCHANGED handled, UNCHANGED <<app, lastWire>> PROVE HistInv'
  <2>1. handled' \in Seq(Entry) /\ Now' = Now
    BY <1>3 DEF HistInv, Now
  <2>2. ASSUME NEW n \in Nat, FollowsAt(n) PROVE FollowsAt(n)'
    BY <1>3, <2>2, FollowsStill
  <2> QED
    BY <2>1, <2>2 DEF HistInv
<1>4. ASSUME NEW accepted \in BOOLEAN, Poll, Record(accepted),
             \A n : Handles(n, accepted) => FollowsAt(n + 1)'
      PROVE  HistInv'
  <2>1. Handles(Len(handled), accepted)
    BY <1>4 DEF Handles, HistInv, Now
  <2> PICK n : n = Len(handled)
    OBVIOUS
  <2>2. Handles(n, accepted)
    BY <2>1
  <2>3. n \in Nat /\ handled' \in Seq(Entry) /\ Now' = n + 1 /\ FollowsAt(n + 1)'
    BY <1>4, <2>2, HandledEvent
  <2> QED
    BY <2>3 DEF HistInv
<1>5. ASSUME HHandleOther PROVE HistInv'
  <2>1. Poll /\ Record(FALSE) /\ HandleOther
    BY <1>5 DEF HHandleOther, HandleOther, Attach, Detach, RejectLength, StoreDescriptor,
       RejectDescriptor, RejectInput, Ignore
  <2> QED
    BY <1>4, <2>1, OtherFollows
<1>6. ASSUME NEW published \in PublishResults, HApplyInput(published) PROVE HistInv'
  <2>1. Poll /\ Record(published = "Ok") /\ ApplyInput(published)
    BY <1>6 DEF HApplyInput, ApplyInput, TakeInput
  <2> QED
    BY <1>4, <2>1, InputFollows
<1>7. ASSUME UNCHANGED hvars PROVE HistInv'
  BY <1>3, <1>7 DEF hvars, vars, app
<1> QED
  BY <1>2, <1>3, <1>5, <1>6, <1>7 DEF HNext, HLoop, HCollect, Collect, StartDrain, Idle

(* The invariant always holds, of the whole history. *)
LEMMA HistoryHolds == HSpec => [](TypeOK /\ HistInv)
BY HistoryInit, HistoryStep, PTL DEF HSpec

LEMMA AtNow == HistInv => FollowsAt(Now)
BY DEF HistInv, Now

(* The three fields of App are those the history of events implies, after  *)
(* any number of events of any devices.                                    *)
THEOREM StateAlwaysFollows == HSpec => []StateFollowsHistory
<1>1. HistInv => StateFollowsHistory
  BY AtNow DEF FollowsAt, SourceAt, LayoutAt, InputAt, InForce, DeviceAt,
     StateFollowsHistory
<1> QED
  BY <1>1, HistoryHolds, PTL

(* The BLE peer holds the last report that meant something and was         *)
(* accepted, after any number of events and failed publications.           *)
THEOREM PeerAlwaysFollows == HSpec => []PeerFollowsHistory
<1>1. HistInv => PeerFollowsHistory
  BY AtNow DEF FollowsAt, PeerAt, PeerFollowsHistory
<1> QED
  BY <1>1, HistoryHolds, PTL
=============================================================================
