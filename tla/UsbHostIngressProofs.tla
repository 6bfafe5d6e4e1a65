------------------------ MODULE UsbHostIngressProofs ------------------------
(***************************************************************************)
(* Proofs about UsbHostIngress, for any devices, addresses, memory and     *)
(* limits: its types, that the handles kept are the open ones, that no     *)
(* freed transfer stays in the map without the event that will remove it,  *)
(* and that what the app hears is of a device it was told of.              *)
(***************************************************************************)
EXTENDS UsbHostIngress, TLAPS

(* What Take leaves of the staged events. *)
LEMMA TakeType ==
    ASSUME TypeOK, NEW types, Take(types)
    PROVE  /\ Due \in Event /\ Due = staging[1] /\ Due.type \in types
           /\ staging' \in Seq(Event)
           /\ Len(staging) \in Nat /\ Len(staging) >= 1
           /\ Len(staging') = Len(staging) - 1
           /\ \A i \in 1..Len(staging') : staging'[i] = staging[i + 1]
           /\ work' \in Nat
           /\ pc' \in {"idle", "client", "promote", "drain"}
<1>1. staging \in Seq(Event) /\ staging # <<>>
  BY DEF TypeOK, Take
<1>2. Due = Head(staging) /\ staging' = Tail(staging)
  BY DEF Due, PopFront, Take
<1>3. work' \in Nat /\ pc' \in {"idle", "client", "promote", "drain"}
  BY DEF Take, Leave, TypeOK
<1> QED
  BY <1>1, <1>2, <1>3 DEF Take

(* An event read from a device is an event. *)
LEMMA StageType ==
    ASSUME TypeOK, NEW d \in Devices, NEW a \in Addresses \cup {0},
           NEW type \in {"Attached", "Detached", "Stopped", "Descriptor", "Input"}
    PROVE  [type |-> type, address |-> a, device |-> d] \in Event
BY DEF Event, Kinds

LEMMA StagedType ==
    ASSUME TypeOK, NEW d \in Devices, NEW a \in Addresses \cup {0},
           NEW type \in {"Attached", "Detached", "Stopped", "Descriptor", "Input"},
           Stage(type, a, d)
    PROVE  staging' \in Seq(Event)
<1>1. [type |-> type, address |-> a, device |-> d] \in Event
  BY StageType
<1>2. staging \in Seq(Event)
  BY DEF TypeOK
<1> QED
  BY <1>1, <1>2 DEF Stage

(* What the callback of a transfer stages: its device and the address read. *)
ReadFrom(e, t, a) ==
    /\ e.type \in {"Stopped", "Input", "Descriptor"}
    /\ e.device = flight[t].device
    /\ e.address = a

(* A stop is staged behind what was staged, and behind a last report. *)
LEMMA StopType ==
    ASSUME TypeOK, NEW t \in Transfers, flight[t] # None, NEW a \in Addresses \cup {0},
           NEW reported \in Seq(Event), Stop(t, a, reported),
           \A i \in 1..Len(reported) : ReadFrom(reported[i], t, a)
    PROVE  /\ staging' \in Seq(Event)
           /\ Len(staging') \in Nat /\ Len(staging') >= 1
           /\ staging'[Len(staging')].type = "Stopped"
           /\ staging'[Len(staging')].address = a
           /\ \A i \in 1..Len(staging) : i \in 1..Len(staging') /\ staging'[i] = staging[i]
           /\ \A i \in 1..Len(staging') : i \in 1..Len(staging) \/ ReadFrom(staging'[i], t, a)
<1> DEFINE last == [type |-> "Stopped", address |-> a, device |-> flight[t].device]
           before == staging \o reported
<1>1. flight[t].device \in Devices
  BY DEF TypeOK, Transfer
<1>2. last \in Event
  BY <1>1, StageType
<1>3. staging \in Seq(Event)
  BY DEF TypeOK
<1>4. /\ before \in Seq(Event) /\ Len(before) \in Nat
      /\ \A i \in 1..Len(staging) : i \in 1..Len(before) /\ before[i] = staging[i]
      /\ \A i \in 1..Len(before) : i \in 1..Len(staging) \/ ReadFrom(before[i], t, a)
  <2>1. /\ before \in Seq(Event) /\ Len(before) = Len(staging) + Len(reported)
        /\ Len(staging) \in Nat /\ Len(reported) \in Nat
        /\ \A i \in 1..Len(before) :
              before[i] = IF i <= Len(staging) THEN staging[i] ELSE reported[i - Len(staging)]
    BY <1>3
  <2> HIDE DEF before
  <2>2. ASSUME NEW i \in 1..Len(before), i \notin 1..Len(staging)
        PROVE  ReadFrom(before[i], t, a)
    <3>1. i - Len(staging) \in 1..Len(reported) /\ before[i] = reported[i - Len(staging)]
      BY <2>1, <2>2
    <3> QED
      BY <3>1
  <2> QED
    BY <2>1, <2>2
<1>5. staging' = before \o <<last>>
  BY DEF Stop
<1>6. staging' = Append(before, last)
  <2>1. \A x \in Event : before \o <<x>> = Append(before, x)
    BY <1>4
  <2> QED
    BY <1>2, <1>5, <2>1
<1> HIDE DEF last, before
<1>7. /\ staging' \in Seq(Event) /\ Len(staging') = Len(before) + 1
      /\ staging'[Len(before) + 1] = last
      /\ \A i \in 1..Len(before) : staging'[i] = before[i]
  BY <1>2, <1>4, <1>6
<1>8. last.type = "Stopped" /\ last.address = a /\ ReadFrom(last, t, a)
  BY DEF last, ReadFrom
<1>9. ASSUME NEW i \in 1..Len(staging')
      PROVE  i \in 1..Len(staging) \/ ReadFrom(staging'[i], t, a)
  <2>1. CASE i = Len(before) + 1
    BY <1>7, <1>8, <2>1
  <2>2. CASE i # Len(before) + 1
    <3>1. i \in 1..Len(before)
      BY <1>4, <1>7, <2>2
    <3> QED
      BY <1>4, <1>7, <3>1
  <2> QED
    BY <2>1, <2>2
<1>10. \A i \in 1..Len(staging) : i \in 1..Len(staging') /\ staging'[i] = staging[i]
  BY <1>4, <1>7
<1> QED
  BY <1>4, <1>7, <1>8, <1>9, <1>10

LEMMA ReadAddressType ==
    ASSUME TypeOK, NEW d \in Devices, NEW a \in ReadAddress(d)
    PROVE  a \in Addresses \cup {0}
BY DEF TypeOK, ReadAddress

(* A transfer in flight is for some device. *)
LEMMA FlightType ==
    ASSUME TypeOK, NEW t \in Transfers, flight[t] # None
    PROVE  flight[t] \in Transfer /\ flight[t].device \in Devices
BY DEF TypeOK, Transfer

(* A callback that frees an input transfer keeps what is staged and adds   *)
(* the stop of the address it read.                                        *)
LEMMA StopRead ==
    ASSUME TypeOK, NEW t \in Transfers, InputCallBack(t), InputLast(t) \/ InputStopped(t)
    PROVE  /\ staging' \in Seq(Event)
           /\ Len(staging') \in Nat /\ Len(staging') >= 1
           /\ staging'[Len(staging')].type = "Stopped"
           /\ staging'[Len(staging')].address \in ReadAddress(flight[t].device)
           /\ \A i \in 1..Len(staging) : i \in 1..Len(staging') /\ staging'[i] = staging[i]
           /\ \E a \in ReadAddress(flight[t].device) :
                 \A i \in 1..Len(staging') :
                    i \in 1..Len(staging) \/ ReadFrom(staging'[i], t, a)
<1>1. flight[t] # None /\ flight[t].device \in Devices
  BY FlightType DEF InputCallBack
<1>2. PICK a \in ReadAddress(flight[t].device) :
        \/ Stop(t, a, <<>>)
        \/ Stop(t, a, <<[type |-> "Input", address |-> a, device |-> flight[t].device]>>)
  BY DEF InputLast, InputStopped
<1>3. a \in Addresses \cup {0}
  BY <1>1, ReadAddressType
<1>4. [type |-> "Input", address |-> a, device |-> flight[t].device] \in Event
  BY <1>1, <1>3, StageType
<1>5. PICK reported \in Seq(Event) :
        Stop(t, a, reported) /\ \A i \in 1..Len(reported) : ReadFrom(reported[i], t, a)
  <2>1. /\ <<>> \in Seq(Event)
        /\ <<[type |-> "Input", address |-> a, device |-> flight[t].device]>> \in Seq(Event)
    BY <1>4
  <2>2. /\ \A i \in 1..Len(<<>>) : ReadFrom(<<>>[i], t, a)
        /\ \A x \in Event : Len(<<x>>) = 1 /\ <<x>>[1] = x
    OBVIOUS
  <2>3. CASE Stop(t, a, <<>>)
    BY <2>1, <2>2, <2>3
  <2>4. CASE Stop(t, a, <<[type |-> "Input", address |-> a, device |-> flight[t].device]>>)
    <3> DEFINE x == [type |-> "Input", address |-> a, device |-> flight[t].device]
    <3>1. ReadFrom(x, t, a)
      BY DEF ReadFrom
    <3>2. Stop(t, a, <<x>>) /\ x \in Event /\ <<x>> \in Seq(Event)
      BY <1>4, <2>1, <2>4
    <3> HIDE DEF x
    <3>3. \A i \in 1..Len(<<x>>) : <<x>>[i] = x
      BY <2>2, <3>2
    <3> QED
      BY <3>1, <3>2, <3>3
  <2> QED
    BY <1>2, <2>3, <2>4
<1> QED
  BY <1>1, <1>3, <1>5, StopType

(* The transfers submitted for a device that is opened. *)
LEMMA RequestType ==
    ASSUME TypeOK, NEW d \in Devices, RequestHidDescriptor(d)
    PROVE  /\ flight' \in [Transfers -> Transfer \cup {None}]
           /\ inputTransfers' \in [Addresses -> Transfers \cup {None}]
           /\ \A t \in Transfers :
                 \/ flight'[t] = flight[t]
                 \/ flight[t] = None /\ flight'[t] \in Transfer /\ flight'[t].device = d
           /\ \A a \in Addresses :
                 \/ inputTransfers'[a] = inputTransfers[a]
                 \/ /\ a = address[d] /\ inputTransfers'[a] \in Transfers
                    /\ flight'[inputTransfers'[a]] = [kind |-> "Input", device |-> d]
<1>1. PICK descriptor, input \in {t \in Transfers : flight[t] = None} \cup {None} :
        /\ descriptor = input => input = None
        /\ flight' = [t \in Transfers |->
             IF t = input THEN [kind |-> "Input", device |-> d]
             ELSE [u \in Transfers |->
                    IF u = descriptor THEN [kind |-> "Descriptor", device |-> d]
                    ELSE flight[u]][t]]
        /\ inputTransfers' = IF input = None THEN inputTransfers
                             ELSE [inputTransfers EXCEPT ![address[d]] = input]
  BY DEF RequestHidDescriptor, submit_input_report_transfer, submit_report_descriptor_transfer
<1>2. /\ [kind |-> "Descriptor", device |-> d] \in Transfer
      /\ [kind |-> "Input", device |-> d] \in Transfer
  BY DEF Transfer, Kinds
<1>3. ASSUME NEW t \in Transfers
      PROVE  /\ flight'[t] \in Transfer \cup {None}
             /\ \/ flight'[t] = flight[t]
                \/ flight[t] = None /\ flight'[t] \in Transfer /\ flight'[t].device = d
  <2>0. flight[t] \in Transfer \cup {None}
    BY DEF TypeOK
  <2>1. CASE t = descriptor
    <3>1. flight[t] = None /\ flight'[t] = [kind |-> "Descriptor", device |-> d]
      BY <1>1, <2>1, NoneOK
    <3> QED
      BY <3>1, <1>2
  <2>2. CASE t # descriptor /\ t = input
    <3>1. flight[t] = None /\ flight'[t] = [kind |-> "Input", device |-> d]
      BY <1>1, <2>2, NoneOK
    <3> QED
      BY <3>1, <1>2
  <2>3. CASE t # descriptor /\ t # input
    BY <1>1, <2>0, <2>3
  <2> QED
    BY <2>1, <2>2, <2>3
<1>4. flight' \in [Transfers -> Transfer \cup {None}]
  BY <1>1, <1>3
<1>5. CASE input = None
  BY <1>1, <1>3, <1>4, <1>5 DEF TypeOK
<1>6. CASE input # None
  <2>1. input \in Transfers /\ input # descriptor
    BY <1>1, <1>6
  <2>2. flight'[input] = [kind |-> "Input", device |-> d]
    BY <1>1, <2>1
  <2>3. inputTransfers' = [inputTransfers EXCEPT ![address[d]] = input]
    BY <1>1, <1>6
  <2>4. inputTransfers \in [Addresses -> Transfers \cup {None}]
    BY DEF TypeOK
  <2>5. /\ inputTransfers' \in [Addresses -> Transfers \cup {None}]
        /\ \A a \in Addresses : inputTransfers'[a] = IF a = address[d] THEN input
                                                     ELSE inputTransfers[a]
    BY <2>1, <2>3, <2>4
  <2> QED
    BY <1>3, <1>4, <2>1, <2>2, <2>5
<1> QED
  BY <1>5, <1>6

(* Every queue, map and handle keeps its type. *)
THEOREM TypeCorrect == Spec => []TypeOK
<1>1. Init => TypeOK
  BY DEF Init, TypeOK
<1>2. TypeOK /\ [Next]_vars => TypeOK'
  <2> SUFFICES ASSUME TypeOK, [Next]_vars PROVE TypeOK'
    OBVIOUS
  <2>1. CASE UNCHANGED vars
    BY <2>1 DEF TypeOK, vars, stack, queues, maps, loop
  <2>2. ASSUME NEW d \in Devices, NEW a \in Addresses, Plug(d, a) PROVE TypeOK'
    <3>1. [type |-> "NEW_DEV", device |-> d] \in Message
      BY DEF Message
    <3> QED
      BY <2>2, <3>1 DEF TypeOK, Plug, queues, maps, loop
  <2>3. ASSUME NEW d \in Devices, Unplug(d) PROVE TypeOK'
    <3>1. [type |-> "DEV_GONE", device |-> d] \in Message
      BY DEF Message
    <3>2. messages' \in Seq(Message)
      <4>1. messages \in Seq(Message)
        BY DEF TypeOK
      <4>2. \/ messages' = Append(messages, [type |-> "DEV_GONE", device |-> d])
            \/ messages' = messages
        BY <2>3 DEF Unplug
      <4> QED
        BY <3>1, <4>1, <4>2
    <3> QED
      BY <2>3, <3>2 DEF TypeOK, Unplug, queues, maps, loop
  <2>4. CASE ClientEvent
    <3>1. messages \in Seq(Message) /\ messages # <<>>
      BY <2>4 DEF TypeOK, ClientEvent
    <3>2. Head(messages).device \in Devices /\ messages' \in Seq(Message)
      <4>1. Head(messages) \in Message /\ Tail(messages) \in Seq(Message)
        BY <3>1
      <4> QED
        BY <2>4, <4>1 DEF ClientEvent, Message
    <3>3. address[Head(messages).device] \in Addresses \cup {0}
      BY <3>2 DEF TypeOK
    <3>4. staging' \in Seq(Event)
      <4>1. PICK type \in {"Attached", "Detached"} :
              Stage(type, address[Head(messages).device], Head(messages).device)
        BY <2>4 DEF ClientEvent
      <4> QED
        BY <3>2, <3>3, <4>1, StagedType
    <3> QED
      BY <2>4, <3>2, <3>4 DEF TypeOK, ClientEvent, maps, loop
  <2>5. ASSUME NEW t \in Transfers, DescriptorDone(t) PROVE TypeOK'
    <3>1. flight[t].device \in Devices
      BY <2>5, FlightType DEF DescriptorDone
    <3>2. staging' \in Seq(Event)
      BY <2>5, <3>1, ReadAddressType, StagedType DEF DescriptorDone, TypeOK
    <3>3. flight' \in [Transfers -> Transfer \cup {None}]
      BY <2>5 DEF DescriptorDone, Free, TypeOK
    <3> QED
      BY <2>5, <3>2, <3>3 DEF TypeOK, DescriptorDone, maps, loop
  <2>6. ASSUME NEW t \in Transfers, InputDone(t) \/ InputLast(t) \/ InputStopped(t)
        PROVE  TypeOK'
    <3>1. InputCallBack(t)
      BY <2>6 DEF InputDone, InputLast, InputStopped
    <3>2. flight[t].device \in Devices
      BY <3>1, FlightType DEF InputCallBack
    <3>3. staging' \in Seq(Event)
      <4>1. CASE InputDone(t)
        BY <4>1, <3>2, ReadAddressType, StagedType DEF InputDone, TypeOK
      <4>2. CASE InputLast(t)
        BY <4>2, <3>1, <3>2, StopRead DEF InputLast
      <4>3. CASE InputStopped(t)
        BY <4>3, <3>1, <3>2, StopRead DEF InputStopped
      <4> QED
        BY <2>6, <4>1, <4>2, <4>3
    <3>4. flight' \in [Transfers -> Transfer \cup {None}]
      BY <2>6 DEF InputDone, InputLast, InputStopped, Free, TypeOK
    <3> QED
      BY <3>1, <3>3, <3>4 DEF TypeOK, InputCallBack, maps, loop
  <2>7. CASE LibReturns \/ LibFails \/ ClientReturns \/ ClientFails \/ NothingStaged \/ EndDrain
    BY <2>7 DEF TypeOK, LibReturns, LibFails, ClientReturns, ClientFails, NothingStaged,
                EndDrain, Leave, stack, queues, maps
  <2>8. ASSUME NEW types, Take(types), Report, Announce(Due),
               UNCHANGED <<bus, address, messages>>,
               handle' \in [Devices -> {"none", "open", "closed", "refused"}],
               flight' \in [Transfers -> Transfer \cup {None}],
               devices' \in [Addresses -> Devices \cup {None}],
               inputTransfers' \in [Addresses -> Transfers \cup {None}]
        PROVE  TypeOK'
    <3>1. Due \in Event /\ Due.device \in Devices
      BY <2>8, TakeType DEF Event
    <3>2. source' \in [Addresses -> SUBSET Devices]
      <4>1. Holder(Due.address) \in SUBSET Devices
        BY DEF Holder
      <4> QED
        BY <2>8, <3>1, <4>1 DEF Announce, TypeOK
    <3>3. finalEvents' \in Seq(Event)
      BY <2>8, <3>1 DEF TypeOK, Report
    <3>4. /\ staging' \in Seq(Event) /\ work' \in Nat
          /\ pc' \in {"idle", "client", "promote", "drain"}
      BY <2>8, TakeType
    <3>5. /\ bus' \in [Devices -> {"out", "in", "gone"}]
          /\ address' \in [Devices -> Addresses \cup {0}]
          /\ messages' \in Seq(Message)
      BY <2>8 DEF TypeOK
    <3> QED
      BY <2>8, <3>2, <3>3, <3>4, <3>5 DEF TypeOK
  <2>9. CASE PromoteAttached
    <3>1. PICK d \in Holder(Due.address) :
            /\ handle' = [handle EXCEPT ![d] = "open"]
            /\ devices' = [devices EXCEPT ![Due.address] = d]
            /\ RequestHidDescriptor(d)
      BY <2>9 DEF PromoteAttached
    <3>2. d \in Devices
      BY DEF Holder
    <3> QED
      BY <2>8, <2>9, <3>1, <3>2, RequestType DEF PromoteAttached, TypeOK
  <2>10. CASE PromoteUnopened
    BY <2>8, <2>10 DEF PromoteUnopened, TypeOK, stack, maps
  <2>11. CASE PromoteDetached
    <3>1. handle' \in [Devices -> {"none", "open", "closed", "refused"}]
      BY <2>11 DEF PromoteDetached, CloseDevice, TypeOK
    <3>2. /\ inputTransfers' \in [Addresses -> Transfers \cup {None}]
          /\ devices' \in [Addresses -> Devices \cup {None}]
      BY <2>11 DEF PromoteDetached, TypeOK
    <3>3. finalEvents' \in Seq(Event)
      BY <2>11, TakeType DEF PromoteDetached, Report, TypeOK
    <3>4. /\ staging' \in Seq(Event) /\ work' \in Nat
          /\ pc' \in {"idle", "client", "promote", "drain"}
      BY <2>11, TakeType DEF PromoteDetached
    <3> QED
      BY <2>11, <3>1, <3>2, <3>3, <3>4 DEF PromoteDetached, TypeOK
  <2>12. CASE PromoteReceived
    BY <2>12, TakeType DEF PromoteReceived, Report, TypeOK, stack, maps
  <2>13. CASE PromoteStopped
    BY <2>13, TakeType DEF PromoteStopped, TypeOK, stack
  <2>14. CASE PollEvent
    BY <2>14 DEF PollEvent, TypeOK, stack, maps, loop
  <2> QED
    BY <2>1, <2>2, <2>3, <2>4, <2>5, <2>6, <2>7, <2>9, <2>10, <2>11, <2>12, <2>13, <2>14
       DEF Next, Bus, CallBacks, Loop
<1> QED
  BY <1>1, <1>2, PTL DEF Spec

-----------------------------------------------------------------------------
(* What the addresses mean.  A device in use has one of its own, so that   *)
(* opening by address cannot replace a handle that is kept, and every      *)
(* message and attachment event speaks of a device that has had one.       *)
Given ==
    /\ \A d \in Devices : bus[d] # "out" => address[d] \in Addresses
    /\ \A d \in Devices : handle[d] # "none" => bus[d] # "out"
    /\ \A i \in 1..Len(messages) : bus[messages[i].device] # "out"
    /\ \A i \in 1..Len(staging) :
          staging[i].type \in {"Attached", "Detached"} => staging[i].address \in Addresses

OneHolder ==
    \A a \in Addresses, d, e \in Devices : Holds(d, a) /\ Holds(e, a) => d = e

HandleInv == TypeOK /\ Given /\ OneHolder /\ OpenHandlesAreKept

StopStaged(a) ==
    \E i \in 1..Len(staging) : staging[i].type = "Stopped" /\ staging[i].address = a

(* The transfer kept for an address polls the device kept for it, until it *)
(* is freed with a stop staged.                                            *)
Tracked(a) ==
    inputTransfers[a] # None =>
      \/ StopStaged(a)
      \/ \E d \in Devices : /\ devices[a] = d
                            /\ flight[inputTransfers[a]] = [kind |-> "Input", device |-> d]

TrackInv == HandleInv /\ \A a \in Addresses : Tracked(a)

(* What the callbacks of transfers do to the staged events: they add none  *)
(* that speaks of an attachment.                                           *)
LEMMA StagedGrows ==
    ASSUME TypeOK, NEW t \in Transfers,
           DescriptorDone(t) \/ InputDone(t) \/ InputLast(t) \/ InputStopped(t)
    PROVE  /\ Len(staging') \in Nat
           /\ \A i \in 1..Len(staging) : i \in 1..Len(staging') /\ staging'[i] = staging[i]
           /\ \E a \in ReadAddress(flight[t].device) :
                 \A i \in 1..Len(staging') :
                    i \in 1..Len(staging) \/ ReadFrom(staging'[i], t, a)
<1>1. staging \in Seq(Event) /\ Len(staging) \in Nat
  BY DEF TypeOK
<1>2. flight[t].device \in Devices
  BY FlightType DEF DescriptorDone, InputDone, InputLast, InputStopped, InputCallBack
<1>3. CASE staging' = staging
  <2>1. address[flight[t].device] \in ReadAddress(flight[t].device)
    BY DEF ReadAddress
  <2> QED
    BY <1>1, <1>3, <2>1
<1>4. ASSUME NEW type \in {"Input", "Descriptor"}, NEW a \in ReadAddress(flight[t].device),
             Stage(type, a, flight[t].device)
      PROVE  /\ Len(staging') = Len(staging) + 1
             /\ \A i \in 1..Len(staging) : staging'[i] = staging[i]
             /\ ReadFrom(staging'[Len(staging) + 1], t, a)
  <2>1. [type |-> type, address |-> a, device |-> flight[t].device] \in Event
    BY <1>2, ReadAddressType, StageType
  <2>2. /\ Len(staging') = Len(staging) + 1
        /\ \A i \in 1..Len(staging) : staging'[i] = staging[i]
        /\ staging'[Len(staging) + 1] = [type |-> type, address |-> a,
                                         device |-> flight[t].device]
    BY <1>1, <1>4, <2>1 DEF Stage
  <2> QED
    BY <2>2 DEF ReadFrom
<1>5. CASE DescriptorDone(t) \/ InputDone(t)
  <2>1. \/ staging' = staging
        \/ \E type \in {"Input", "Descriptor"}, a \in ReadAddress(flight[t].device) :
              Stage(type, a, flight[t].device)
    BY <1>5 DEF DescriptorDone, InputDone
  <2>2. ASSUME NEW type \in {"Input", "Descriptor"}, NEW a \in ReadAddress(flight[t].device),
               Stage(type, a, flight[t].device)
        PROVE  /\ Len(staging') \in Nat
               /\ \A i \in 1..Len(staging) : i \in 1..Len(staging') /\ staging'[i] = staging[i]
               /\ \A i \in 1..Len(staging') :
                     i \in 1..Len(staging) \/ ReadFrom(staging'[i], t, a)
    BY <1>1, <1>4, <2>2
  <2> QED
    BY <1>3, <2>1, <2>2
<1>6. CASE InputLast(t) \/ InputStopped(t)
  <2>1. InputCallBack(t)
    BY <1>6 DEF InputLast, InputStopped
  <2> QED
    BY <1>6, <2>1, StopRead
<1> QED
  BY <1>5, <1>6

LEMMA MessageType ==
    ASSUME TypeOK PROVE \A i \in 1..Len(messages) : messages[i].device \in Devices
<1>1. ASSUME NEW i \in 1..Len(messages) PROVE messages[i] \in Message
  BY DEF TypeOK
<1>2. \A m \in Message : m.device \in Devices
  BY DEF Message
<1> QED
  BY <1>1, <1>2

(* What the callbacks of transfers leave alone. *)
LEMMA CallBackFrame ==
    ASSUME NEW t \in Transfers,
           DescriptorDone(t) \/ InputDone(t) \/ InputLast(t) \/ InputStopped(t)
    PROVE  /\ UNCHANGED <<bus, address, messages, handle, devices, inputTransfers>>
           /\ flight' = flight \/ flight' = [flight EXCEPT ![t] = None]
BY DEF DescriptorDone, InputDone, InputLast, InputStopped, InputCallBack, Free, maps

(* Promoted, an event leaves the others as they are. *)
LEMMA GivenKept ==
    ASSUME TypeOK, Given, NEW types, Take(types), UNCHANGED <<bus, address, messages>>,
           \A d \in Devices : handle'[d] = handle[d] \/ bus[d] # "out"
    PROVE  Given'
<1>1. \A i \in 1..Len(staging') :
         staging'[i].type \in {"Attached", "Detached"} => staging'[i].address \in Addresses
  <2>1. ASSUME NEW i \in 1..Len(staging')
        PROVE  i + 1 \in 1..Len(staging) /\ staging'[i] = staging[i + 1]
    BY TakeType
  <2> QED
    BY <2>1 DEF Given
<1> QED
  BY <1>1 DEF Given

(* The address of a detachment is one the stack assigned. *)
LEMMA DetachedAddress ==
    ASSUME TypeOK, Given, PromoteDetached
    PROVE  Due.address \in Addresses
<1>1. Due = staging[1] /\ 1 \in 1..Len(staging) /\ Due.type = "Detached"
  BY TakeType DEF PromoteDetached
<1> QED
  BY <1>1 DEF Given

(* No handle is kept for an address whose present device is not open. *)
LEMMA HeldOnce ==
    ASSUME HandleInv, NEW d \in Devices, bus[d] = "in", address[d] \in Addresses,
           handle[d] # "open"
    PROVE  \A e \in Devices : devices[address[d]] # e
<1>1. ASSUME NEW e \in Devices, devices[address[d]] = e PROVE FALSE
  <2>1. handle[e] = "open" /\ address[e] = address[d]
    BY <1>1 DEF HandleInv, OpenHandlesAreKept
  <2>2. bus[e] \in {"in", "gone"}
    BY <2>1 DEF HandleInv, Given, TypeOK
  <2>3. Holds(d, address[d]) /\ Holds(e, address[d])
    BY <2>1, <2>2 DEF Holds
  <2>4. e = d
    BY <2>3 DEF HandleInv, OneHolder
  <2> QED
    BY <2>1, <2>4
<1> QED
  BY <1>1

LEMMA GivenStep ==
    ASSUME HandleInv, TypeOK', [Next]_vars
    PROVE  Given'
<1> USE DEF HandleInv
<1>1. CASE UNCHANGED vars
  BY <1>1 DEF vars, stack, queues, Given
<1>2. ASSUME NEW d \in Devices, NEW a \in Addresses, Plug(d, a) PROVE Given'
  <2>1. bus'[d] = "in" /\ address'[d] = a
    BY <1>2 DEF Plug, TypeOK
  <2>2. \A e \in Devices : e # d => bus'[e] = bus[e] /\ address'[e] = address[e]
    BY <1>2 DEF Plug, TypeOK
  <2>3. \A i \in 1..Len(messages') : bus'[messages'[i].device] # "out"
    <3>1. messages \in Seq(Message)
      BY DEF TypeOK
    <3>2. [type |-> "NEW_DEV", device |-> d] \in Message
      BY DEF Message
    <3>3. /\ Len(messages') = Len(messages) + 1 /\ Len(messages) \in Nat
          /\ \A i \in 1..Len(messages) : messages'[i] = messages[i]
          /\ messages'[Len(messages) + 1] = [type |-> "NEW_DEV", device |-> d]
      BY <1>2, <3>1, <3>2 DEF Plug
    <3>4. \A i \in 1..Len(messages) : messages[i].device \in Devices
      BY MessageType
    <3>5. ASSUME NEW i \in 1..Len(messages') PROVE bus'[messages'[i].device] # "out"
      <4>1. CASE i = Len(messages) + 1
        BY <4>1, <3>3, <2>1
      <4>2. CASE i # Len(messages) + 1
        <5>1. i \in 1..Len(messages)
          BY <4>2, <3>3
        <5> QED
          BY <5>1, <3>3, <3>4, <2>1, <2>2 DEF Given
      <4> QED
        BY <4>1, <4>2
    <3> QED
      BY <3>5
  <2>4. handle' = handle /\ staging' = staging
    BY <1>2 DEF Plug, queues
  <2> QED
    BY <2>1, <2>2, <2>3, <2>4 DEF Given
<1>3. ASSUME NEW d \in Devices, Unplug(d) PROVE Given'
  <2>1. \A e \in Devices : bus'[e] # "out" <=> bus[e] # "out"
    BY <1>3 DEF Unplug, TypeOK
  <2>2. handle' = handle /\ staging' = staging /\ address' = address
    BY <1>3 DEF Unplug, queues
  <2>3. \A i \in 1..Len(messages') : bus'[messages'[i].device] # "out"
    <3>1. messages \in Seq(Message)
      BY DEF TypeOK
    <3>2. \A i \in 1..Len(messages) : messages[i].device \in Devices
      BY MessageType
    <3>3. CASE messages' = messages
      BY <3>2, <3>3, <2>1 DEF Given
    <3>4. CASE messages' = Append(messages, [type |-> "DEV_GONE", device |-> d])
      <4>1. [type |-> "DEV_GONE", device |-> d] \in Message
        BY DEF Message
      <4>2. /\ Len(messages') = Len(messages) + 1 /\ Len(messages) \in Nat
            /\ \A i \in 1..Len(messages) : messages'[i] = messages[i]
            /\ messages'[Len(messages) + 1] = [type |-> "DEV_GONE", device |-> d]
        BY <3>1, <3>4, <4>1
      <4>3. bus'[d] # "out"
        BY <1>3, <2>1 DEF Unplug
      <4>4. ASSUME NEW i \in 1..Len(messages') PROVE bus'[messages'[i].device] # "out"
        <5>1. CASE i = Len(messages) + 1
          BY <5>1, <4>2, <4>3
        <5>2. CASE i # Len(messages) + 1
          <6>1. i \in 1..Len(messages)
            BY <5>2, <4>2
          <6> QED
            BY <6>1, <4>2, <3>2, <2>1 DEF Given
        <5> QED
          BY <5>1, <5>2
      <4> QED
        BY <4>4
    <3> QED
      BY <1>3, <3>3, <3>4 DEF Unplug
  <2> QED
    BY <2>1, <2>2, <2>3 DEF Given
<1>4. CASE ClientEvent
  <2>1. messages \in Seq(Message) /\ messages # <<>> /\ messages' = Tail(messages)
    BY <1>4 DEF TypeOK, ClientEvent
  <2>2. /\ Len(messages') = Len(messages) - 1 /\ Len(messages) \in Nat
        /\ \A i \in 1..Len(messages') : messages'[i] = messages[i + 1]
        /\ Head(messages) = messages[1] /\ messages[1] \in Message
    BY <2>1
  <2>3. UNCHANGED <<bus, address, handle>>
    BY <1>4 DEF ClientEvent
  <2>4. \A i \in 1..Len(messages') : bus'[messages'[i].device] # "out"
    <3>1. ASSUME NEW i \in 1..Len(messages') PROVE bus[messages'[i].device] # "out"
      <4>1. i + 1 \in 1..Len(messages)
        BY <2>2
      <4> QED
        BY <4>1, <2>2 DEF Given
    <3> QED
      BY <3>1, <2>3
  <2>5. Head(messages).device \in Devices /\ address[Head(messages).device] \in Addresses
    <3>1. 1 \in 1..Len(messages)
      BY <2>1, <2>2
    <3> QED
      BY <2>2, <3>1 DEF Given, Message
  <2>6. PICK type \in {"Attached", "Detached"} :
          Stage(type, address[Head(messages).device], Head(messages).device)
    BY <1>4 DEF ClientEvent
  <2>7. [type |-> type, address |-> address[Head(messages).device],
         device |-> Head(messages).device] \in Event
    BY <2>5, StageType
  <2>8. staging \in Seq(Event) /\ Len(staging) \in Nat
    BY DEF TypeOK
  <2>9. /\ Len(staging') = Len(staging) + 1
        /\ \A i \in 1..Len(staging) : staging'[i] = staging[i]
        /\ staging'[Len(staging) + 1].address = address[Head(messages).device]
    BY <2>6, <2>7, <2>8 DEF Stage
  <2>10. ASSUME NEW i \in 1..Len(staging'), staging'[i].type \in {"Attached", "Detached"}
         PROVE  staging'[i].address \in Addresses
    <3>1. CASE i = Len(staging) + 1
      BY <3>1, <2>5, <2>9
    <3>2. CASE i # Len(staging) + 1
      <4>1. i \in 1..Len(staging)
        BY <3>2, <2>8, <2>9
      <4> QED
        BY <2>10, <4>1, <2>9 DEF Given
    <3> QED
      BY <3>1, <3>2
  <2> QED
    BY <2>3, <2>4, <2>10 DEF Given
<1>5. ASSUME NEW t \in Transfers,
             DescriptorDone(t) \/ InputDone(t) \/ InputLast(t) \/ InputStopped(t)
      PROVE  Given'
  <2>1. ASSUME NEW i \in 1..Len(staging'), staging'[i].type \in {"Attached", "Detached"}
        PROVE  staging'[i].address \in Addresses
    <3>1. i \in 1..Len(staging) /\ staging'[i] = staging[i]
      BY <1>5, <2>1, StagedGrows DEF ReadFrom
    <3> QED
      BY <2>1, <3>1 DEF Given
  <2> QED
    BY <1>5, <2>1, CallBackFrame DEF Given
<1>6. CASE LibReturns \/ LibFails \/ ClientReturns \/ ClientFails \/ NothingStaged \/ EndDrain
           \/ PollEvent
  BY <1>6 DEF LibReturns, LibFails, ClientReturns, ClientFails, NothingStaged, EndDrain,
              PollEvent, stack, queues, Given
<1>7. CASE PromoteAttached
  <2>1. PICK d \in Holder(Due.address) : handle' = [handle EXCEPT ![d] = "open"]
    BY <1>7 DEF PromoteAttached
  <2>2. \A e \in Devices : handle'[e] = handle[e] \/ bus[e] # "out"
    BY <2>1 DEF Holder, TypeOK
  <2> QED
    BY <1>7, <2>2, GivenKept DEF PromoteAttached
<1>8. CASE PromoteDetached
  <2>1. Due.address \in Addresses
    BY <1>8, DetachedAddress
  <2>2. \A e \in Devices : handle'[e] = handle[e] \/ bus[e] # "out"
    <3>1. CASE devices[Due.address] = None
      BY <1>8, <3>1 DEF PromoteDetached, CloseDevice
    <3>2. CASE devices[Due.address] # None
      <4>1. devices[Due.address] \in Devices
        BY <2>1, <3>2 DEF TypeOK
      <4>2. bus[devices[Due.address]] # "out"
        BY <2>1, <4>1 DEF OpenHandlesAreKept, Given
      <4>3. \E result \in {"closed", "refused"} :
               handle' = [handle EXCEPT ![devices[Due.address]] = result]
        BY <1>8, <3>2 DEF PromoteDetached, CloseDevice
      <4> QED
        BY <4>2, <4>3 DEF TypeOK
    <3> QED
      BY <3>1, <3>2
  <2> QED
    BY <1>8, <2>2, GivenKept DEF PromoteDetached
<1>9. CASE PromoteUnopened
  BY <1>9, GivenKept DEF PromoteUnopened, stack
<1>10. CASE PromoteReceived
  BY <1>10, GivenKept DEF PromoteReceived, stack
<1>11. CASE PromoteStopped
  BY <1>11, GivenKept DEF PromoteStopped, stack
<1> QED
  BY <1>1, <1>2, <1>3, <1>4, <1>5, <1>6, <1>7, <1>8, <1>9, <1>10, <1>11
     DEF Next, Bus, CallBacks, Loop

(* No step but plugging in makes a device hold an address.                 *)
LEMMA HolderKept ==
    ASSUME OneHolder, \A d \in Devices, a \in Addresses : Holds(d, a)' => Holds(d, a)
    PROVE  OneHolder'
BY DEF OneHolder

LEMMA OneHolderStep ==
    ASSUME HandleInv, TypeOK', [Next]_vars
    PROVE  OneHolder'
<1> USE DEF HandleInv
<1>1. CASE UNCHANGED <<bus, address, handle, flight>>
  BY <1>1 DEF OneHolder, Holds, InFlight
<1>2. ASSUME NEW d \in Devices, NEW a \in Addresses, Plug(d, a) PROVE OneHolder'
  <2>1. \A other \in Devices : ~Holds(other, a)
    BY <1>2 DEF Plug
  <2>2. address'[d] = a
    BY <1>2 DEF Plug, TypeOK
  <2>3. ASSUME NEW e \in Devices, e # d, NEW b \in Addresses PROVE Holds(e, b)' <=> Holds(e, b)
    BY <1>2, <2>3 DEF Plug, TypeOK, Holds, InFlight
  <2>4. \A b \in Addresses : Holds(d, b)' => b = a
    BY <2>2 DEF Holds
  <2> QED
    BY <2>1, <2>3, <2>4 DEF OneHolder
<1>3. ASSUME NEW d \in Devices, Unplug(d) PROVE OneHolder'
  <2>1. ASSUME NEW e \in Devices, NEW a \in Addresses, Holds(e, a)' PROVE Holds(e, a)
    BY <1>3, <2>1 DEF Unplug, TypeOK, Holds, InFlight
  <2> QED
    BY <2>1, HolderKept
<1>4. ASSUME NEW t \in Transfers,
             DescriptorDone(t) \/ InputDone(t) \/ InputLast(t) \/ InputStopped(t)
      PROVE  OneHolder'
  <2>1. \A u \in Transfers : flight'[u] # None => flight'[u] = flight[u]
    BY <1>4, CallBackFrame DEF TypeOK
  <2>2. ASSUME NEW e \in Devices, NEW a \in Addresses, Holds(e, a)' PROVE Holds(e, a)
    <3>1. bus' = bus /\ address' = address /\ handle' = handle
      BY <1>4, CallBackFrame
    <3>2. InFlight(e)' \subseteq InFlight(e)
      BY <2>1 DEF InFlight
    <3> QED
      BY <2>2, <3>1, <3>2 DEF Holds
  <2> QED
    BY <2>2, HolderKept
<1>5. CASE PromoteAttached
  <2>1. PICK d \in Holder(Due.address) :
          /\ handle' = [handle EXCEPT ![d] = "open"]
          /\ RequestHidDescriptor(d)
    BY <1>5 DEF PromoteAttached
  <2>2. d \in Devices /\ bus[d] = "in"
    BY DEF Holder
  <2>3. ASSUME NEW e \in Devices, NEW a \in Addresses, Holds(e, a)' PROVE Holds(e, a)
    <3>1. bus' = bus /\ address' = address
      BY <1>5 DEF PromoteAttached
    <3>2. CASE e = d
      BY <2>2, <2>3, <3>1, <3>2 DEF Holds
    <3>3. CASE e # d
      <4>1. handle'[e] = handle[e]
        BY <2>1, <3>3 DEF TypeOK
      <4>2. \A t \in Transfers :
               \/ flight'[t] = flight[t]
               \/ flight'[t].device = d
        BY <2>1, <2>2, RequestType
      <4>3. InFlight(e)' \subseteq InFlight(e)
        BY <3>3, <4>2 DEF InFlight
      <4> QED
        BY <2>3, <3>1, <4>1, <4>3 DEF Holds
    <3> QED
      BY <3>2, <3>3
  <2> QED
    BY <2>3, HolderKept
<1>6. CASE PromoteDetached
  <2>1. bus' = bus /\ address' = address /\ flight' = flight
    BY <1>6 DEF PromoteDetached
  <2>3. Due.address \in Addresses
    BY <1>6, DetachedAddress
  <2>4. ASSUME NEW e \in Devices, handle'[e] \in {"open", "refused"}
        PROVE  handle[e] \in {"open", "refused"}
    <3>1. CASE devices[Due.address] = None
      BY <1>6, <2>4, <3>1 DEF PromoteDetached, CloseDevice
    <3>2. CASE devices[Due.address] # None
      <4>1. devices[Due.address] \in Devices
        BY <2>3, <3>2 DEF TypeOK
      <4>2. handle[devices[Due.address]] = "open"
        BY <2>3, <4>1 DEF OpenHandlesAreKept
      <4>3. \E result \in {"closed", "refused"} :
               handle' = [handle EXCEPT ![devices[Due.address]] = result]
        BY <1>6, <3>2 DEF PromoteDetached, CloseDevice
      <4> QED
        BY <2>4, <4>2, <4>3 DEF TypeOK
    <3> QED
      BY <3>1, <3>2
  <2>5. ASSUME NEW e \in Devices, NEW a \in Addresses, Holds(e, a)' PROVE Holds(e, a)
    BY <2>1, <2>4, <2>5 DEF Holds, InFlight
  <2> QED
    BY <2>5, HolderKept
<1>7. CASE UNCHANGED vars
  BY <1>1, <1>7 DEF vars, stack
<1>8. CASE ClientEvent
  BY <1>1, <1>8 DEF ClientEvent
<1>9. CASE LibReturns \/ LibFails \/ ClientReturns \/ ClientFails \/ NothingStaged \/ EndDrain
           \/ PollEvent \/ PromoteUnopened \/ PromoteReceived \/ PromoteStopped
  BY <1>1, <1>9 DEF LibReturns, LibFails, ClientReturns, ClientFails, NothingStaged, EndDrain,
              PollEvent, PromoteUnopened, PromoteReceived, PromoteStopped, stack
<1> QED
  BY <1>2, <1>3, <1>4, <1>5, <1>6, <1>7, <1>8, <1>9 DEF Next, Bus, CallBacks, Loop

(* Opening a device fills an entry that was empty, closing one empties its. *)
LEMMA HandlesStep ==
    ASSUME HandleInv, TypeOK', [Next]_vars
    PROVE  OpenHandlesAreKept'
<1> USE DEF HandleInv
<1>1. CASE UNCHANGED <<address, handle, devices>>
  BY <1>1 DEF OpenHandlesAreKept
<1>2. ASSUME NEW d \in Devices, NEW a \in Addresses, Plug(d, a) PROVE OpenHandlesAreKept'
  <2>1. handle[d] # "open"
    BY <1>2 DEF Plug, Given
  <2>2. \A e \in Devices : e # d => address'[e] = address[e]
    BY <1>2 DEF Plug, TypeOK
  <2> QED
    BY <1>2, <2>1, <2>2 DEF Plug, maps, OpenHandlesAreKept
<1>3. CASE PromoteAttached
  <2>1. PICK d \in Holder(Due.address) :
          /\ handle[d] \in {"none", "closed"}
          /\ handle' = [handle EXCEPT ![d] = "open"]
          /\ devices' = [devices EXCEPT ![Due.address] = d]
    BY <1>3 DEF PromoteAttached
  <2> DEFINE here == Due.address
  <2>2. d \in Devices /\ bus[d] = "in" /\ address[d] = here /\ here \in Addresses
    BY DEF Holder, Given
  <2>3. \A e \in Devices : devices[here] # e
    BY <2>1, <2>2, HeldOnce
  <2>4. address' = address
    BY <1>3 DEF PromoteAttached
  <2>5. ASSUME NEW e \in Devices, NEW a \in Addresses
        PROVE  devices'[a] = e <=> handle'[e] = "open" /\ address'[e] = a
    <3>0. /\ handle'[e] = IF e = d THEN "open" ELSE handle[e]
          /\ devices'[a] = IF a = here THEN d ELSE devices[a]
      BY <2>1 DEF TypeOK
    <3>1. devices[a] = e <=> handle[e] = "open" /\ address[e] = a
      BY DEF OpenHandlesAreKept
    <3> QED
      BY <2>1, <2>2, <2>3, <2>4, <3>0, <3>1
  <2> QED
    BY <2>5 DEF OpenHandlesAreKept
<1>4. CASE PromoteDetached
  <2> DEFINE here == Due.address
  <2>1. here \in Addresses /\ address' = address
    BY <1>4, DetachedAddress DEF PromoteDetached
  <2>2. devices' = [devices EXCEPT ![here] = None]
    BY <1>4 DEF PromoteDetached
  <2>3. ASSUME NEW e \in Devices
        PROVE  handle'[e] = "open" <=> handle[e] = "open" /\ e # devices[here]
    <3>1. CASE devices[here] = None
      BY <1>4, <3>1, NoneOK DEF PromoteDetached, CloseDevice
    <3>2. CASE devices[here] # None
      <4>1. devices[here] \in Devices
        BY <2>1, <3>2 DEF TypeOK
      <4>2. \E result \in {"closed", "refused"} :
               handle' = [handle EXCEPT ![devices[here]] = result]
        BY <1>4, <3>2 DEF PromoteDetached, CloseDevice
      <4> QED
        BY <4>1, <4>2 DEF TypeOK
    <3> QED
      BY <3>1, <3>2
  <2>4. ASSUME NEW e \in Devices, NEW a \in Addresses
        PROVE  devices'[a] = e <=> handle'[e] = "open" /\ address'[e] = a
    <3>1. devices'[a] = IF a = here THEN None ELSE devices[a]
      BY <2>1, <2>2 DEF TypeOK
    <3>2. devices[a] = e <=> handle[e] = "open" /\ address[e] = a
      BY DEF OpenHandlesAreKept
    <3>3. devices[here] = e <=> handle[e] = "open" /\ address[e] = here
      BY <2>1 DEF OpenHandlesAreKept
    <3> QED
      BY <2>1, <2>3, <3>1, <3>2, <3>3, NoneOK
  <2> QED
    BY <2>4 DEF OpenHandlesAreKept
<1>5. CASE UNCHANGED vars
  BY <1>1, <1>5 DEF vars, stack, maps
<1>6. ASSUME NEW d \in Devices, Unplug(d) PROVE OpenHandlesAreKept'
  BY <1>1, <1>6 DEF Unplug, maps
<1>7. CASE ClientEvent
  BY <1>1, <1>7 DEF ClientEvent, maps
<1>8. ASSUME NEW t \in Transfers,
             DescriptorDone(t) \/ InputDone(t) \/ InputLast(t) \/ InputStopped(t)
      PROVE  OpenHandlesAreKept'
  BY <1>1, <1>8, CallBackFrame
<1>9. CASE LibReturns \/ LibFails \/ ClientReturns \/ ClientFails \/ NothingStaged \/ EndDrain
           \/ PollEvent \/ PromoteUnopened \/ PromoteReceived \/ PromoteStopped
  BY <1>1, <1>9 DEF LibReturns, LibFails, ClientReturns, ClientFails, NothingStaged, EndDrain,
              PollEvent, PromoteUnopened, PromoteReceived, PromoteStopped, stack, maps
<1> QED
  BY <1>2, <1>3, <1>4, <1>5, <1>6, <1>7, <1>8, <1>9 DEF Next, Bus, CallBacks, Loop

LEMMA HandleInvariant == Spec => []HandleInv
<1>1. Init => Given /\ OneHolder /\ OpenHandlesAreKept
  BY AddressesOK, NoneOK
     DEF Init, Given, OneHolder, Holds, InFlight, OpenHandlesAreKept
<1>2. HandleInv /\ TypeOK' /\ [Next]_vars => HandleInv'
  BY GivenStep, OneHolderStep, HandlesStep DEF HandleInv
<1>3. TypeOK /\ Given /\ OneHolder /\ OpenHandlesAreKept => HandleInv
  BY DEF HandleInv
<1> QED
  BY <1>1, <1>2, <1>3, TypeCorrect, PTL DEF Spec

(* For any devices and addresses, however often an address is reused and   *)
(* whatever the stack refuses: a handle is kept for every open device not  *)
(* refused to close, at its address and nowhere else.                      *)
THEOREM HandlesKept == Spec => []OpenHandlesAreKept
<1>1. HandleInv => OpenHandlesAreKept
  BY DEF HandleInv
<1> QED
  BY <1>1, HandleInvariant, PTL

-----------------------------------------------------------------------------
(* A stop that is staged stays until it is its turn. *)
LEMMA StopKept ==
    ASSUME TypeOK, NEW types, Take(types), NEW a \in Addresses, StopStaged(a),
           ~(Due.type = "Stopped" /\ Due.address = a)
    PROVE  StopStaged(a)'
<1>1. PICK i \in 1..Len(staging) : staging[i].type = "Stopped" /\ staging[i].address = a
  BY DEF StopStaged
<1>2. i # 1
  BY <1>1, TakeType
<1>3. i - 1 \in 1..Len(staging') /\ staging'[i - 1] = staging[i]
  <2>1. i - 1 \in 1..Len(staging')
    BY <1>2, TakeType
  <2>2. staging'[i - 1] = staging[(i - 1) + 1]
    BY <2>1, TakeType
  <2> QED
    BY <2>1, <2>2
<1> QED
  BY <1>1, <1>3 DEF StopStaged

(* Promoting an event that changes no map and is no stop. *)
LEMMA TrackedKept ==
    ASSUME TypeOK, NEW types, Take(types), NEW a \in Addresses, Tracked(a),
           ~(Due.type = "Stopped" /\ Due.address = a),
           inputTransfers'[a] = inputTransfers[a], devices'[a] = devices[a],
           \A t \in Transfers : flight[t] # None => flight'[t] = flight[t]
    PROVE  Tracked(a)'
<1>1. StopStaged(a) => StopStaged(a)'
  BY StopKept
<1>2. inputTransfers[a] # None => inputTransfers[a] \in Transfers
  BY DEF TypeOK
<1>3. \A d \in Devices : [kind |-> "Input", device |-> d] # None
  BY NoneOK DEF Transfer, Kinds
<1> QED
  BY <1>1, <1>2, <1>3 DEF Tracked

(* A callback frees a tracked transfer only with its stop staged. *)
LEMMA TrackedFreed ==
    ASSUME TrackInv, NEW t \in Transfers,
           DescriptorDone(t) \/ InputDone(t) \/ InputLast(t) \/ InputStopped(t),
           NEW a \in Addresses
    PROVE  Tracked(a)'
<1>0. TypeOK /\ OpenHandlesAreKept /\ Tracked(a)
  BY DEF TrackInv, HandleInv
<1>1. /\ inputTransfers' = inputTransfers /\ devices' = devices
      /\ flight' = flight \/ flight' = [flight EXCEPT ![t] = None]
  BY CallBackFrame
<1>2. StopStaged(a) => StopStaged(a)'
  BY <1>0, StagedGrows DEF StopStaged
<1>3. CASE inputTransfers[a] = None \/ StopStaged(a)
  BY <1>1, <1>2, <1>3 DEF Tracked
<1>4. CASE inputTransfers[a] # None /\ ~StopStaged(a)
  <2>1. PICK d \in Devices :
          /\ devices[a] = d
          /\ flight[inputTransfers[a]] = [kind |-> "Input", device |-> d]
    BY <1>0, <1>4 DEF Tracked
  <2>2. inputTransfers[a] \in Transfers
    BY <1>0, <1>4 DEF TypeOK
  <2>3. CASE flight'[inputTransfers[a]] = flight[inputTransfers[a]]
    BY <1>1, <2>1, <2>3 DEF Tracked
  <2>4. CASE flight'[inputTransfers[a]] # flight[inputTransfers[a]]
    <3>1. inputTransfers[a] = t /\ flight' # flight
      BY <1>0, <1>1, <2>2, <2>4 DEF TypeOK
    <3>2. flight[t].kind = "Input" /\ flight[t].device = d
      BY <2>1, <3>1
    <3>3. InputLast(t) \/ InputStopped(t)
      BY <3>1, <3>2 DEF DescriptorDone, InputDone
    <3>4. ReadAddress(d) = {a}
      BY <1>0, <2>1 DEF OpenHandlesAreKept, ReadAddress
    <3>5. InputCallBack(t)
      BY <3>3 DEF InputLast, InputStopped
    <3>6. /\ Len(staging') \in 1..Len(staging')
          /\ staging'[Len(staging')].type = "Stopped"
          /\ staging'[Len(staging')].address = a
      BY <1>0, <3>2, <3>3, <3>4, <3>5, StopRead
    <3> QED
      BY <3>6 DEF Tracked, StopStaged
  <2> QED
    BY <2>3, <2>4
<1> QED
  BY <1>3, <1>4

LEMMA TrackStep ==
    ASSUME TrackInv, TypeOK', [Next]_vars, NEW a \in Addresses
    PROVE  Tracked(a)'
<1>0. TypeOK /\ Given /\ HandleInv /\ Tracked(a)
  BY DEF TrackInv, HandleInv
<1>1. CASE UNCHANGED <<flight, staging, devices, inputTransfers>>
  BY <1>0, <1>1 DEF Tracked, StopStaged
<1>2. CASE ClientEvent
  <2>1. UNCHANGED <<flight, devices, inputTransfers>>
    BY <1>2 DEF ClientEvent, maps
  <2>2. StopStaged(a) => StopStaged(a)'
    BY <1>2, <1>0 DEF ClientEvent, Stage, StopStaged, TypeOK
  <2> QED
    BY <1>0, <2>1, <2>2 DEF Tracked
<1>3. ASSUME NEW t \in Transfers,
             DescriptorDone(t) \/ InputDone(t) \/ InputLast(t) \/ InputStopped(t)
      PROVE  Tracked(a)'
  BY <1>3, TrackedFreed
<1>4. CASE PromoteAttached
  <2>1. PICK d \in Holder(Due.address) :
          /\ handle[d] \in {"none", "closed"}
          /\ devices' = [devices EXCEPT ![Due.address] = d]
          /\ RequestHidDescriptor(d)
    BY <1>4 DEF PromoteAttached
  <2>2. d \in Devices /\ bus[d] = "in" /\ address[d] = Due.address /\ Due.address \in Addresses
    BY <1>0 DEF Holder, Given
  <2>3. \A t \in Transfers : flight[t] # None => flight'[t] = flight[t]
    BY <1>0, <2>1, <2>2, RequestType
  <2>4. Take({"Attached"}) /\ Due.type = "Attached"
    BY <1>0, <1>4, TakeType DEF PromoteAttached
  <2>5. CASE inputTransfers'[a] # inputTransfers[a]
    <3>1. /\ a = address[d]
          /\ flight'[inputTransfers'[a]] = [kind |-> "Input", device |-> d]
      BY <1>0, <2>1, <2>2, <2>5, RequestType
    <3>2. devices'[a] = d
      BY <1>0, <2>1, <2>2, <3>1 DEF TypeOK
    <3> QED
      BY <2>2, <3>1, <3>2 DEF Tracked
  <2>6. CASE inputTransfers'[a] = inputTransfers[a] /\ a # Due.address
    <3>1. devices'[a] = devices[a]
      BY <1>0, <2>1, <2>6 DEF TypeOK
    <3> QED
      BY <1>0, <2>3, <2>4, <2>6, <3>1, TrackedKept
  <2>7. CASE inputTransfers'[a] = inputTransfers[a] /\ a = Due.address
    <3>1. \A e \in Devices : devices[a] # e
      BY <1>0, <2>1, <2>2, <2>7, HeldOnce
    <3>2. StopStaged(a) => StopStaged(a)'
      BY <1>0, <2>4, StopKept
    <3> QED
      BY <1>0, <2>7, <3>1, <3>2 DEF Tracked
  <2> QED
    BY <2>5, <2>6, <2>7
<1>5. CASE PromoteDetached
  <2>1. Due.address \in Addresses /\ flight' = flight
    BY <1>0, <1>5, DetachedAddress DEF PromoteDetached
  <2>2. Take({"Detached"}) /\ Due.type = "Detached"
    BY <1>0, <1>5, TakeType DEF PromoteDetached
  <2>3. CASE a = Due.address
    <3>1. inputTransfers'[a] = None
      BY <1>0, <1>5, <2>1, <2>3 DEF PromoteDetached, TypeOK
    <3> QED
      BY <3>1 DEF Tracked
  <2>4. CASE a # Due.address
    <3>1. inputTransfers'[a] = inputTransfers[a] /\ devices'[a] = devices[a]
      BY <1>0, <1>5, <2>4 DEF PromoteDetached, TypeOK
    <3> QED
      BY <1>0, <2>1, <2>2, <3>1, TrackedKept
  <2> QED
    BY <2>3, <2>4
<1>6. CASE PromoteStopped
  <2>1. Take({"Stopped"}) /\ flight' = flight /\ devices' = devices
    BY <1>6 DEF PromoteStopped, stack
  <2>2. inputTransfers'[a] = IF a = Due.address THEN None ELSE inputTransfers[a]
    BY <1>6 DEF PromoteStopped
  <2>3. CASE a = Due.address
    BY <2>2, <2>3 DEF Tracked
  <2>4. CASE a # Due.address
    BY <1>0, <2>1, <2>2, <2>4, TrackedKept
  <2> QED
    BY <2>3, <2>4
<1>7. CASE PromoteUnopened
  <2>1. Take({"Attached"}) /\ Due.type = "Attached"
    BY <1>0, <1>7, TakeType DEF PromoteUnopened
  <2> QED
    BY <1>0, <1>7, <2>1, TrackedKept DEF PromoteUnopened, stack, maps
<1>8. CASE PromoteReceived
  <2>1. Take(Kinds) /\ Due.type \in Kinds
    BY <1>0, <1>8, TakeType DEF PromoteReceived
  <2> QED
    BY <1>0, <1>8, <2>1, TrackedKept DEF PromoteReceived, Kinds, stack, maps
<1>9. CASE UNCHANGED vars
  BY <1>1, <1>9 DEF vars, stack, queues, maps
<1>10. ASSUME NEW d \in Devices, NEW b \in Addresses, Plug(d, b) PROVE Tracked(a)'
  BY <1>1, <1>10 DEF Plug, queues, maps
<1>11. ASSUME NEW d \in Devices, Unplug(d) PROVE Tracked(a)'
  BY <1>1, <1>11 DEF Unplug, queues, maps
<1>12. CASE LibReturns \/ LibFails \/ ClientReturns \/ ClientFails \/ NothingStaged \/ EndDrain
            \/ PollEvent
  BY <1>1, <1>12 DEF LibReturns, LibFails, ClientReturns, ClientFails, NothingStaged,
               EndDrain, PollEvent, stack, queues, maps
<1> QED
  BY <1>2, <1>3, <1>4, <1>5, <1>6, <1>7, <1>8, <1>9, <1>10, <1>11, <1>12
     DEF Next, Bus, CallBacks, Loop

(* For any devices, addresses and memory, which is used again as soon as   *)
(* it is freed: an entry of input_transfers whose transfer is freed will   *)
(* be removed by a stop that is already staged.                            *)
THEOREM TrackedTransfers == Spec => []TrackedTransferIsLive
<1>1. Init => \A a \in Addresses : Tracked(a)
  BY DEF Init, Tracked
<1>2. TrackInv /\ HandleInv' /\ [Next]_vars => TrackInv'
  <2> SUFFICES ASSUME TrackInv, HandleInv', [Next]_vars PROVE TrackInv'
    OBVIOUS
  <2>1. TypeOK'
    BY DEF HandleInv
  <2>2. \A a \in Addresses : Tracked(a)'
    BY <2>1, TrackStep
  <2> QED
    BY <2>2 DEF TrackInv
<1>3. TrackInv => TrackedTransferIsLive
  <2>1. \A d \in Devices : [kind |-> "Input", device |-> d] # None
    BY NoneOK DEF Transfer, Kinds
  <2> QED
    BY <2>1 DEF TrackInv, Tracked, StopStaged, TrackedTransferIsLive
<1>4. HandleInv /\ (\A a \in Addresses : Tracked(a)) => TrackInv
  BY DEF TrackInv
<1> QED
  BY <1>1, <1>2, <1>3, <1>4, HandleInvariant, PTL DEF Spec

-----------------------------------------------------------------------------
(* Who is heard of.  What is in flight, or has been received and waits,    *)
(* belongs to a device that may be heard of at its address; an attachment  *)
(* waiting before such an event cannot forbid it, for the device it is     *)
(* about is the same one or gone.                                          *)
Waiting(s, i) == s[i].type \in Kinds /\ s[i].address # 0

AttachedOwns ==
    \A i \in 1..Len(staging) : staging[i].type = "Attached" =>
        /\ bus[staging[i].device] # "out"
        /\ address[staging[i].device] = staging[i].address

FlightHeard ==
    \A t \in Transfers : flight[t] # None =>
        /\ bus[flight[t].device] # "out"
        /\ flight[t].device \in source[address[flight[t].device]]

StagedHeard ==
    \A i \in 1..Len(staging) : Waiting(staging, i) =>
        /\ bus[staging[i].device] # "out"
        /\ address[staging[i].device] = staging[i].address
        /\ staging[i].device \in source[staging[i].address]

AttachedHarmless ==
    \A i \in 1..Len(staging) : Waiting(staging, i) =>
        \A j \in 1..(i - 1) :
            staging[j].type = "Attached" /\ staging[j].address = staging[i].address =>
                staging[j].device = staging[i].device \/ bus[staging[j].device] = "gone"

HearInv == HandleInv /\ AttachedOwns /\ FlightHeard /\ StagedHeard /\ AttachedHarmless

LEMMA StagedDevice ==
    ASSUME TypeOK
    PROVE  /\ staging \in Seq(Event) /\ Len(staging) \in Nat
           /\ \A i \in 1..Len(staging) :
                 /\ staging[i].device \in Devices
                 /\ staging[i].address \in Addresses \cup {0}
<1>1. staging \in Seq(Event) /\ Len(staging) \in Nat
  BY DEF TypeOK
<1>2. ASSUME NEW i \in 1..Len(staging)
      PROVE  staging[i].device \in Devices /\ staging[i].address \in Addresses \cup {0}
  <2>1. staging[i] \in Event
    BY <1>1, <1>2
  <2> QED
    BY <2>1 DEF Event
<1> QED
  BY <1>1, <1>2

(* Nothing waits or flies for a device still out, and one that is plugged  *)
(* in or taken away is heard of as before.                                 *)
LEMMA HeardOnBus ==
    ASSUME HearInv, UNCHANGED <<staging, flight, source>>,
           \A e \in Devices : bus[e] # "out" =>
              /\ bus'[e] # "out" /\ address'[e] = address[e]
              /\ bus[e] = "gone" => bus'[e] = "gone"
    PROVE  AttachedOwns' /\ FlightHeard' /\ StagedHeard' /\ AttachedHarmless'
<1>0. TypeOK /\ AttachedOwns /\ FlightHeard /\ StagedHeard /\ AttachedHarmless
  BY DEF HearInv, HandleInv
<1>1. \A i \in 1..Len(staging) : staging[i].device \in Devices
  BY <1>0, StagedDevice
<1>2. AttachedOwns'
  BY <1>0, <1>1 DEF AttachedOwns
<1>3. FlightHeard'
  <2>1. \A t \in Transfers : flight[t] # None => flight[t].device \in Devices
    BY <1>0, FlightType
  <2> QED
    BY <1>0, <2>1 DEF FlightHeard
<1>4. StagedHeard'
  BY <1>0, <1>1 DEF StagedHeard, Waiting
<1>5. AttachedHarmless'
  <2>1. ASSUME NEW i \in 1..Len(staging), Waiting(staging, i), NEW j \in 1..(i - 1),
               staging[j].type = "Attached", staging[j].address = staging[i].address
        PROVE  staging[j].device = staging[i].device \/ bus'[staging[j].device] = "gone"
    <3>1. j \in 1..Len(staging)
      BY <1>0, StagedDevice
    <3>2. staging[j].device = staging[i].device \/ bus[staging[j].device] = "gone"
      BY <1>0, <2>1 DEF AttachedHarmless
    <3> QED
      BY <1>1, <3>1, <3>2
  <2> QED
    BY <2>1 DEF AttachedHarmless, Waiting
<1> QED
  BY <1>2, <1>3, <1>4, <1>5

(* The events behind the one that is promoted. *)
LEMMA HeardBehind ==
    ASSUME HearInv, NEW types, Take(types), UNCHANGED <<bus, address>>,
           \A i \in 2..Len(staging) : Waiting(staging, i) =>
              staging[i].device \in source'[staging[i].address]
    PROVE  AttachedOwns' /\ StagedHeard' /\ AttachedHarmless'
<1>0. TypeOK /\ AttachedOwns /\ StagedHeard /\ AttachedHarmless
  BY DEF HearInv, HandleInv
<1>1. Len(staging) \in Nat /\ Len(staging') = Len(staging) - 1
  BY <1>0, TakeType
<1>2. ASSUME NEW i \in 1..Len(staging')
      PROVE  i + 1 \in 2..Len(staging) /\ staging'[i] = staging[i + 1]
  BY <1>0, <1>1, TakeType
<1>3. AttachedOwns'
  BY <1>0, <1>1, <1>2 DEF AttachedOwns
<1>4. StagedHeard'
  BY <1>0, <1>1, <1>2 DEF StagedHeard, Waiting
<1>5. AttachedHarmless'
  <2>1. ASSUME NEW i \in 1..Len(staging'), Waiting(staging', i), NEW j \in 1..(i - 1),
               staging'[j].type = "Attached", staging'[j].address = staging'[i].address
        PROVE  staging'[j].device = staging'[i].device \/ bus'[staging'[j].device] = "gone"
    <3>1. j \in 1..Len(staging') /\ j + 1 \in 1..((i + 1) - 1)
      BY <1>1
    <3>2. /\ staging'[i] = staging[i + 1] /\ i + 1 \in 1..Len(staging)
          /\ staging'[j] = staging[j + 1]
      BY <1>1, <1>2, <3>1
    <3>3. Waiting(staging, i + 1)
      BY <2>1, <3>2 DEF Waiting
    <3> QED
      BY <1>0, <2>1, <3>1, <3>2, <3>3 DEF AttachedHarmless
  <2> QED
    BY <2>1 DEF AttachedHarmless
<1> QED
  BY <1>3, <1>4, <1>5

(* The attachment of a device that is there forbids the others at its      *)
(* address, none of which has anything in flight or waiting.               *)
LEMMA HeardAnnounced ==
    ASSUME HearInv, Take({"Attached"}), Announce(Due)
    PROVE  /\ \A a \in Addresses : source'[a] = source[a] \/ a = Due.address
           /\ Holder(Due.address) \subseteq source'[Due.address]
           /\ \A t \in Transfers : flight[t] # None =>
                 flight[t].device \in source'[address[flight[t].device]]
           /\ \A i \in 2..Len(staging) : Waiting(staging, i) =>
                 staging[i].device \in source'[staging[i].address]
<1>0. /\ TypeOK /\ Given /\ OneHolder
      /\ AttachedOwns /\ FlightHeard /\ StagedHeard /\ AttachedHarmless
  BY DEF HearInv, HandleInv
<1> DEFINE here == Due.address
           d == Due.device
<1>1. /\ Due = staging[1] /\ 1 \in 1..Len(staging) /\ Due.type = "Attached"
  BY <1>0, TakeType
<1>2. here \in Addresses /\ d \in Devices /\ bus[d] # "out" /\ address[d] = here
  BY <1>0, <1>1, StagedDevice DEF Given, AttachedOwns
<1>3. \A a \in Addresses :
         source'[a] = IF a # here THEN source[a]
                      ELSE IF d \in Holder(here) THEN {d} ELSE source[a] \cup Holder(here)
  BY <1>0, <1>2 DEF Announce, TypeOK
<1>4. Holder(here) \subseteq source'[here]
  <2>1. ASSUME NEW e \in Holder(here), d \in Holder(here) PROVE e = d
    <3>1. e \in Devices /\ Holds(e, here) /\ Holds(d, here)
      BY <2>1 DEF Holder, Holds
    <3> QED
      BY <1>0, <1>2, <3>1 DEF OneHolder
  <2> QED
    BY <1>2, <1>3, <2>1
<1>5. ASSUME NEW t \in Transfers, flight[t] # None
      PROVE  flight[t].device \in source'[address[flight[t].device]]
  <2> DEFINE e == flight[t].device
  <2>1. e \in Devices /\ bus[e] # "out" /\ e \in source[address[e]]
    BY <1>0, <1>5, FlightType DEF FlightHeard
  <2>2. address[e] \in Addresses
    BY <1>0, <2>1 DEF Given
  <2>3. d \in Holder(here) /\ address[e] = here => e = d
    <3>1. SUFFICES ASSUME d \in Holder(here), address[e] = here PROVE e = d
      OBVIOUS
    <3>2. t \in InFlight(e) /\ bus[e] \in {"in", "gone"}
      BY <1>0, <1>5, <2>1 DEF InFlight, TypeOK
    <3>3. Holds(e, here) /\ Holds(d, here)
      BY <3>1, <3>2 DEF Holds, Holder
    <3> QED
      BY <1>0, <1>2, <2>1, <3>3 DEF OneHolder
  <2> QED
    BY <1>3, <2>1, <2>2, <2>3
<1>6. ASSUME NEW i \in 2..Len(staging), Waiting(staging, i)
      PROVE  staging[i].device \in source'[staging[i].address]
  <2>1. i \in 1..Len(staging) /\ 1 \in 1..(i - 1)
    BY <1>0, StagedDevice
  <2>2. /\ staging[i].address \in Addresses
        /\ staging[i].device \in source[staging[i].address]
    BY <1>0, <1>6, <2>1, StagedDevice DEF StagedHeard, Waiting
  <2>3. staging[i].address = here => d = staging[i].device \/ bus[d] = "gone"
    BY <1>0, <1>1, <1>6, <2>1 DEF AttachedHarmless
  <2>4. bus[d] = "gone" => d \notin Holder(here)
    BY DEF Holder
  <2> QED
    BY <1>3, <2>2, <2>3, <2>4
<1> HIDE DEF here, d
<1> QED
  BY <1>3, <1>4, <1>5, <1>6 DEF here

(* An event staged last for a device in flight, or about an attachment.    *)
LEMMA HeardReceived ==
    ASSUME HearInv, NEW t \in Transfers,
           DescriptorDone(t) \/ InputDone(t) \/ InputLast(t) \/ InputStopped(t)
    PROVE  AttachedOwns' /\ FlightHeard' /\ StagedHeard' /\ AttachedHarmless'
<1>0. /\ TypeOK /\ Given /\ OneHolder
      /\ AttachedOwns /\ FlightHeard /\ StagedHeard /\ AttachedHarmless
  BY DEF HearInv, HandleInv
<1> DEFINE d == flight[t].device
<1>1. flight[t] # None
  BY DEF DescriptorDone, InputDone, InputLast, InputStopped, InputCallBack
<1>2. /\ d \in Devices /\ bus[d] \in {"in", "gone"} /\ d \in source[address[d]]
      /\ address[d] \in Addresses
  BY <1>0, <1>1, FlightType DEF FlightHeard, Given, TypeOK
<1>3. /\ UNCHANGED <<bus, address, source>>
      /\ flight' = flight \/ flight' = [flight EXCEPT ![t] = None]
  <2>1. source' = source
    BY DEF DescriptorDone, InputDone, InputLast, InputStopped, InputCallBack
  <2> QED
    BY <2>1, CallBackFrame
<1>4. PICK a \in ReadAddress(d) :
        /\ Len(staging') \in Nat
        /\ \A i \in 1..Len(staging) : i \in 1..Len(staging') /\ staging'[i] = staging[i]
        /\ \A i \in 1..Len(staging') : i \in 1..Len(staging) \/ ReadFrom(staging'[i], t, a)
  BY <1>0, StagedGrows
<1>5. a = 0 \/ a = address[d]
  BY DEF ReadAddress
<1>6. AttachedOwns'
  BY <1>0, <1>3, <1>4 DEF AttachedOwns, ReadFrom
<1>7. FlightHeard'
  BY <1>0, <1>3 DEF FlightHeard, TypeOK
<1>8. StagedHeard'
  BY <1>0, <1>2, <1>3, <1>4, <1>5 DEF StagedHeard, Waiting, ReadFrom
<1>9. AttachedHarmless'
  <2>1. ASSUME NEW i \in 1..Len(staging'), Waiting(staging', i), NEW j \in 1..(i - 1),
               staging'[j].type = "Attached", staging'[j].address = staging'[i].address
        PROVE  staging'[j].device = staging'[i].device \/ bus'[staging'[j].device] = "gone"
    <3>0. j \in 1..Len(staging')
      BY <1>4
    <3>1. j \in 1..Len(staging) /\ staging'[j] = staging[j]
      BY <1>4, <2>1, <3>0 DEF ReadFrom
    <3>2. CASE i \in 1..Len(staging)
      BY <1>0, <1>3, <1>4, <2>1, <3>1, <3>2 DEF AttachedHarmless, Waiting
    <3>3. CASE i \notin 1..Len(staging)
      <4>1. ReadFrom(staging'[i], t, a)
        BY <1>4, <3>3
      <4>2. staging'[i].device = d /\ staging'[i].address = address[d]
        BY <1>5, <2>1, <4>1 DEF ReadFrom, Waiting
      <4> DEFINE e == staging[j].device
      <4>3. e \in Devices /\ bus[e] \in {"in", "gone"} /\ address[e] = address[d]
        BY <1>0, <2>1, <3>1, <4>2, StagedDevice DEF AttachedOwns, TypeOK
      <4>4. CASE bus[e] = "in"
        <5>1. t \in InFlight(d)
          BY <1>1 DEF InFlight
        <5>2. Holds(e, address[d]) /\ Holds(d, address[d])
          BY <1>2, <4>3, <4>4, <5>1 DEF Holds
        <5> QED
          BY <1>0, <1>2, <3>1, <4>2, <4>3, <5>2 DEF OneHolder
      <4>5. CASE bus[e] = "gone"
        BY <1>3, <3>1, <4>5
      <4> QED
        BY <4>3, <4>4, <4>5
    <3> QED
      BY <3>2, <3>3
  <2> QED
    BY <2>1 DEF AttachedHarmless
<1> QED
  BY <1>6, <1>7, <1>8, <1>9

LEMMA HeardStep ==
    ASSUME HearInv, TypeOK', [Next]_vars
    PROVE  AttachedOwns' /\ FlightHeard' /\ StagedHeard' /\ AttachedHarmless'
<1>0. /\ TypeOK /\ Given /\ OneHolder
      /\ AttachedOwns /\ FlightHeard /\ StagedHeard /\ AttachedHarmless
  BY DEF HearInv, HandleInv
<1>1. CASE UNCHANGED <<bus, address, staging, flight, source>>
  BY <1>0, <1>1 DEF AttachedOwns, FlightHeard, StagedHeard, AttachedHarmless, Waiting
<1>2. ASSUME NEW d \in Devices, NEW a \in Addresses, Plug(d, a)
      PROVE  AttachedOwns' /\ FlightHeard' /\ StagedHeard' /\ AttachedHarmless'
  BY <1>0, <1>2, HeardOnBus DEF Plug, TypeOK, queues
<1>3. ASSUME NEW d \in Devices, Unplug(d)
      PROVE  AttachedOwns' /\ FlightHeard' /\ StagedHeard' /\ AttachedHarmless'
  BY <1>0, <1>3, HeardOnBus DEF Unplug, TypeOK, queues
<1>4. CASE ClientEvent
  <2>1. messages \in Seq(Message) /\ messages # <<>>
    BY <1>0, <1>4 DEF TypeOK, ClientEvent
  <2>2. Head(messages) = messages[1] /\ 1 \in 1..Len(messages) /\ messages[1] \in Message
    BY <2>1
  <2> DEFINE d == Head(messages).device
  <2>3. d \in Devices /\ bus[d] # "out" /\ address[d] \in Addresses
    BY <1>0, <2>2 DEF Message, Given
  <2>4. PICK type \in {"Attached", "Detached"} : Stage(type, address[d], d)
    BY <1>4 DEF ClientEvent
  <2>5. [type |-> type, address |-> address[d], device |-> d] \in Event
    BY <1>0, <2>3, StageType
  <2>6. /\ Len(staging') = Len(staging) + 1 /\ Len(staging) \in Nat
        /\ \A i \in 1..Len(staging) : staging'[i] = staging[i]
        /\ staging'[Len(staging) + 1] = [type |-> type, address |-> address[d], device |-> d]
    BY <1>0, <2>4, <2>5 DEF Stage, TypeOK
  <2>7. UNCHANGED <<bus, address, flight, source>>
    BY <1>4 DEF ClientEvent
  <2>8. ASSUME NEW i \in 1..Len(staging')
        PROVE  \/ i \in 1..Len(staging) /\ staging'[i] = staging[i]
               \/ /\ i = Len(staging) + 1 /\ staging'[i].type \notin Kinds
                  /\ staging'[i].device = d /\ staging'[i].address = address[d]
    BY <2>6 DEF Kinds
  <2>9. AttachedOwns'
    BY <1>0, <2>3, <2>7, <2>8 DEF AttachedOwns
  <2>10. FlightHeard'
    BY <1>0, <2>7 DEF FlightHeard
  <2>11. StagedHeard'
    BY <1>0, <2>7, <2>8 DEF StagedHeard, Waiting
  <2>12. AttachedHarmless'
    <3>1. ASSUME NEW i \in 1..Len(staging'), Waiting(staging', i), NEW j \in 1..(i - 1)
          PROVE  /\ i \in 1..Len(staging) /\ staging'[i] = staging[i]
                 /\ staging'[j] = staging[j]
      BY <2>6, <2>8, <3>1 DEF Waiting
    <3> QED
      BY <1>0, <2>7, <3>1 DEF AttachedHarmless, Waiting
  <2> QED
    BY <2>9, <2>10, <2>11, <2>12
<1>5. ASSUME NEW t \in Transfers,
             DescriptorDone(t) \/ InputDone(t) \/ InputLast(t) \/ InputStopped(t)
      PROVE  AttachedOwns' /\ FlightHeard' /\ StagedHeard' /\ AttachedHarmless'
  BY <1>5, HeardReceived
<1>6. CASE PromoteAttached
  <2>1. PICK d \in Holder(Due.address) : RequestHidDescriptor(d)
    BY <1>6 DEF PromoteAttached
  <2>2. d \in Devices /\ bus[d] = "in" /\ address[d] = Due.address
    BY <2>1 DEF Holder
  <2>3. Take({"Attached"}) /\ Announce(Due) /\ UNCHANGED <<bus, address>>
    BY <1>6 DEF PromoteAttached
  <2>4. \A t \in Transfers :
           \/ flight'[t] = flight[t]
           \/ flight[t] = None /\ flight'[t].device = d
    BY <1>0, <2>1, <2>2, RequestType
  <2>5. d \in source'[address[d]]
    BY <2>2, <2>3, HeardAnnounced
  <2>6. FlightHeard'
    <3>1. ASSUME NEW t \in Transfers, flight'[t] # None
          PROVE  /\ bus[flight'[t].device] # "out"
                 /\ flight'[t].device \in source'[address[flight'[t].device]]
      <4>1. CASE flight'[t] = flight[t]
        BY <1>0, <2>3, <3>1, <4>1, HeardAnnounced DEF FlightHeard
      <4>2. CASE flight'[t].device = d
        BY <2>2, <2>5, <4>2
      <4> QED
        BY <2>4, <4>1, <4>2
    <3> QED
      BY <2>3, <3>1 DEF FlightHeard
  <2> QED
    BY <2>3, <2>6, HeardAnnounced, HeardBehind
<1>7. CASE PromoteUnopened
  <2>1. Take({"Attached"}) /\ Announce(Due) /\ UNCHANGED <<bus, address, flight>>
    BY <1>7 DEF PromoteUnopened, stack
  <2>2. FlightHeard'
    BY <1>0, <2>1, HeardAnnounced DEF FlightHeard
  <2> QED
    BY <2>1, <2>2, HeardAnnounced, HeardBehind
<1>8. CASE PromoteDetached \/ PromoteReceived \/ PromoteStopped
  <2>1. PICK types : Take(types)
    BY <1>8 DEF PromoteDetached, PromoteReceived, PromoteStopped
  <2>2. UNCHANGED <<bus, address, flight, source>>
    BY <1>8 DEF PromoteDetached, PromoteReceived, PromoteStopped, stack
  <2>3. FlightHeard'
    BY <1>0, <2>2 DEF FlightHeard
  <2>4. \A i \in 2..Len(staging) : i \in 1..Len(staging)
    BY <1>0, StagedDevice
  <2>5. \A i \in 2..Len(staging) : Waiting(staging, i) =>
           staging[i].device \in source'[staging[i].address]
    BY <1>0, <2>2, <2>4 DEF StagedHeard
  <2> QED
    BY <2>1, <2>2, <2>3, <2>5, HeardBehind
<1>9. CASE UNCHANGED vars
  BY <1>1, <1>9 DEF vars, stack, queues
<1>10. CASE LibReturns \/ LibFails \/ ClientReturns \/ ClientFails \/ NothingStaged \/ EndDrain
            \/ PollEvent
  BY <1>1, <1>10 DEF LibReturns, LibFails, ClientReturns, ClientFails, NothingStaged,
               EndDrain, PollEvent, stack, queues
<1> QED
  BY <1>2, <1>3, <1>4, <1>5, <1>6, <1>7, <1>8, <1>9, <1>10 DEF Next, Bus, CallBacks, Loop

(* Only the promotion of a report or a descriptor hands one to the app.    *)
LEMMA HandedOver ==
    ASSUME TypeOK, [Next]_vars, NEW e \in Event, e.type \in Kinds,
           finalEvents' = Append(finalEvents, e)
    PROVE  Take(Kinds) /\ e = Due
<1>1. finalEvents \in Seq(Event) /\ Len(finalEvents) \in Nat
  BY DEF TypeOK
<1>2. /\ Len(finalEvents') = Len(finalEvents) + 1
      /\ finalEvents'[Len(finalEvents) + 1] = e
  BY <1>1
<1>3. CASE UNCHANGED finalEvents
  BY <1>1, <1>2, <1>3
<1>4. ASSUME NEW types, Take(types), Report
      PROVE  e = Due /\ Due.type \in types
  <2>1. Due \in Event /\ Due.type \in types
    BY <1>4, TakeType
  <2> QED
    BY <1>1, <1>2, <1>4, <2>1 DEF Report
<1>5. CASE PromoteReceived
  BY <1>4, <1>5 DEF PromoteReceived
<1>6. CASE PromoteAttached \/ PromoteUnopened \/ PromoteDetached
  BY <1>4, <1>6 DEF PromoteAttached, PromoteUnopened, PromoteDetached, Kinds
<1>7. CASE PollEvent
  <2>1. Len(finalEvents') = Len(finalEvents) - 1
    BY <1>1, <1>7 DEF PollEvent
  <2> QED
    BY <1>1, <1>2, <2>1
<1>8. CASE UNCHANGED vars
  BY <1>3, <1>8 DEF vars, queues
<1>9. CASE Bus
  BY <1>3, <1>9 DEF Bus, Plug, Unplug, queues
<1>10. CASE CallBacks
  BY <1>3, <1>10 DEF CallBacks, ClientEvent, DescriptorDone, InputDone, InputLast,
               InputStopped, InputCallBack
<1>11. CASE PromoteStopped \/ LibReturns \/ LibFails \/ ClientReturns \/ ClientFails
            \/ NothingStaged \/ EndDrain
  BY <1>3, <1>11 DEF PromoteStopped, LibReturns, LibFails, ClientReturns, ClientFails,
               NothingStaged, EndDrain, queues
<1> QED
  BY <1>5, <1>6, <1>7, <1>8, <1>9, <1>10, <1>11 DEF Next, Loop

(* For any number of devices taking turns at an address: between the       *)
(* attachment of a device that is there and the next attachment, the app   *)
(* gets descriptors and reports of that device only from its address.      *)
THEOREM HeardOnlyAnnounced == Spec => FromAnnouncedDevice
<1>1. Init => AttachedOwns /\ FlightHeard /\ StagedHeard /\ AttachedHarmless
  BY DEF Init, AttachedOwns, FlightHeard, StagedHeard, AttachedHarmless, Waiting
<1>2. HearInv /\ HandleInv' /\ [Next]_vars => HearInv'
  <2>1. HandleInv' => TypeOK'
    BY DEF HandleInv
  <2> QED
    BY <2>1, HeardStep DEF HearInv
<1>3. HandleInv /\ AttachedOwns /\ FlightHeard /\ StagedHeard /\ AttachedHarmless => HearInv
  BY DEF HearInv
<1>4. HearInv /\ [Next]_vars =>
        [\A e \in Event :
           finalEvents' = Append(finalEvents, e) /\ e.type \in Kinds /\ e.address # 0
             => e.device \in source[e.address]]_vars
  <2> SUFFICES ASSUME HearInv, [Next]_vars, NEW e \in Event,
                      finalEvents' = Append(finalEvents, e), e.type \in Kinds, e.address # 0
               PROVE  e.device \in source[e.address]
    OBVIOUS
  <2>1. TypeOK /\ StagedHeard
    BY DEF HearInv, HandleInv
  <2>2. Take(Kinds) /\ e = Due
    BY <2>1, HandedOver
  <2>3. e = staging[1] /\ 1 \in 1..Len(staging)
    BY <2>1, <2>2, TakeType
  <2> QED
    BY <2>1, <2>3 DEF StagedHeard, Waiting
<1> QED
  BY <1>1, <1>2, <1>3, <1>4, HandleInvariant, PTL DEF Spec, FromAnnouncedDevice
=============================================================================
