--------------------------- MODULE UsbHostIngress ---------------------------
(***************************************************************************)
(* EspUsbHostIngress: the client of the ESP-IDF USB host stack.  The       *)
(* callbacks of the stack stage events while service_until_idle runs the   *)
(* stack; service_until_idle then promotes staged events to the final      *)
(* queue, opening, polling and closing devices as it goes; the loop of     *)
(* main.rs polls the final queue.  Everything runs in one thread, but the  *)
(* bus does not wait for it: devices come and go, and an address may serve *)
(* another device before the events of the former one have been promoted.  *)
(***************************************************************************)
EXTENDS Integers, Sequences

CONSTANTS
    Devices,    \* devices that may be plugged in, each once: a replug is another device
    Addresses,  \* USB addresses the stack assigns
    Transfers,  \* memory for usb_transfer_t
    None,       \* no entry in a map, free memory
    MaxWork,    \* the limit of one service_until_idle (20)
    MaxEvents   \* bound: the stack calls back only while fewer events are queued

Kinds == {"Descriptor", "Input"}
Transfer == [kind : Kinds, device : Devices]

(* UsbEvent without its payload, and UsbDeviceId 0 for an address that     *)
(* could not be read; the device is not part of the code's event.          *)
Event == [type : {"Attached", "Detached", "Stopped"} \cup Kinds,
          address : Addresses \cup {0}, device : Devices]

Message == [type : {"NEW_DEV", "DEV_GONE"}, device : Devices]

ASSUME AddressesOK == 0 \notin Addresses
ASSUME NoneOK == None \notin Devices \cup Transfers \cup Transfer
ASSUME LimitsOK == MaxWork \in Nat \ {0} /\ MaxEvents \in Nat \ {0}

VARIABLES
    bus,            \* per device: still "out", "in", or "gone"
    address,        \* per device: the address it was given, 0 before
    messages,       \* the stack's event messages for the client
    handle,         \* per device: "none", "open", "closed" or "refused"
    flight,         \* per transfer: what it is submitted for, or None
    staging,        \* IngressStaging.events
    finalEvents,    \* final_events
    devices,        \* per address: the device whose handle is kept
    inputTransfers, \* per address: the input transfer kept for cleanup
    pc,             \* where the loop is
    work,           \* work_done, 0 outside the call
    source          \* history: per address, who may be heard of there

stack == <<bus, address, messages, handle, flight>>
queues == <<staging, finalEvents>>
maps == <<devices, inputTransfers>>
loop == <<pc, work>>
vars == <<stack, queues, maps, loop, source>>

TypeOK ==
    /\ bus \in [Devices -> {"out", "in", "gone"}]
    /\ address \in [Devices -> Addresses \cup {0}]
    /\ messages \in Seq(Message)
    /\ handle \in [Devices -> {"none", "open", "closed", "refused"}]
    /\ flight \in [Transfers -> Transfer \cup {None}]
    /\ staging \in Seq(Event)
    /\ finalEvents \in Seq(Event)
    /\ devices \in [Addresses -> Devices \cup {None}]
    /\ inputTransfers \in [Addresses -> Transfers \cup {None}]
    /\ pc \in {"idle", "client", "promote", "drain"}
    /\ work \in Nat
    /\ source \in [Addresses -> SUBSET Devices]

Init ==
    /\ bus = [d \in Devices |-> "out"]
    /\ address = [d \in Devices |-> 0]
    /\ messages = <<>>
    /\ handle = [d \in Devices |-> "none"]
    /\ flight = [t \in Transfers |-> None]
    /\ staging = <<>>
    /\ finalEvents = <<>>
    /\ devices = [a \in Addresses |-> None]
    /\ inputTransfers = [a \in Addresses |-> None]
    /\ pc = "idle"
    /\ work = 0
    /\ source = [a \in Addresses |-> {}]

-----------------------------------------------------------------------------
(* The bus, and the stack's side of it. *)

InFlight(d) == {t \in Transfers : flight[t] # None /\ flight[t].device = d}

(* An address is given out again once the former device is closed and its  *)
(* transfers have been called back.                                        *)
Holds(d, a) ==
    /\ address[d] = a
    /\ bus[d] = "in" \/ (bus[d] = "gone" /\ (handle[d] \in {"open", "refused"} \/ InFlight(d) # {}))

Plug(d, a) ==
    /\ bus[d] = "out"
    /\ \A other \in Devices : ~Holds(other, a)
    /\ bus' = [bus EXCEPT ![d] = "in"]
    /\ address' = [address EXCEPT ![d] = a]
    /\ messages' = Append(messages, [type |-> "NEW_DEV", device |-> d])
    /\ UNCHANGED <<handle, flight, queues, maps, loop, source>>

(* A client is told of the end of a device it has open, and maybe of others. *)
Unplug(d) ==
    /\ bus[d] = "in"
    /\ bus' = [bus EXCEPT ![d] = "gone"]
    /\ \/ messages' = Append(messages, [type |-> "DEV_GONE", device |-> d])
       \/ handle[d] \in {"none", "closed"} /\ UNCHANGED messages
    /\ UNCHANGED <<address, handle, flight, queues, maps, loop, source>>

-----------------------------------------------------------------------------
(* service_until_idle runs the stack: an error ends the call, a timeout is *)
(* no work.                                                                *)

(* service_until_idle returns. *)
Leave == pc' = "drain" /\ work' = 0

LibReturns ==
    /\ pc = "idle"
    /\ pc' = "client"
    /\ work' \in {0, 1}
    /\ UNCHANGED <<stack, queues, maps, source>>

LibFails ==
    /\ pc = "idle"
    /\ Leave
    /\ UNCHANGED <<stack, queues, maps, source>>

ClientReturns ==
    /\ pc = "client"
    /\ pc' = "promote"
    /\ work' \in {work, work + 1}
    /\ UNCHANGED <<stack, queues, maps, source>>

ClientFails ==
    /\ pc = "client"
    /\ Leave
    /\ UNCHANGED <<stack, queues, maps, source>>

-----------------------------------------------------------------------------
(* The callbacks, called while the client's events are handled. *)

CallBack == pc = "client" /\ Len(staging) + Len(finalEvents) < MaxEvents

Stage(type, a, d) ==
    staging' = Append(staging, [type |-> type, address |-> a, device |-> d])

(* client_event_cb *)
ClientEvent ==
    /\ CallBack
    /\ messages # <<>>
    /\ LET m == Head(messages)
       IN  Stage(IF m.type = "NEW_DEV" THEN "Attached" ELSE "Detached",
                 address[m.device], m.device)
    /\ messages' = Tail(messages)
    /\ UNCHANGED <<bus, address, handle, flight, finalEvents, maps, loop, source>>

(* usb_host_device_addr: whatever the memory of a closed device holds. *)
ReadAddress(d) == IF handle[d] \in {"open", "refused"} THEN {address[d]} ELSE {0, address[d]}

Free(t) == flight' = [flight EXCEPT ![t] = None]

(* transfer_cb: the descriptor is staged if more than the setup arrived,   *)
(* whatever the status, and the transfer is freed.                         *)
DescriptorDone(t) ==
    /\ CallBack
    /\ flight[t] # None /\ flight[t].kind = "Descriptor"
    /\ \/ \E a \in ReadAddress(flight[t].device) : Stage("Descriptor", a, flight[t].device)
       \/ UNCHANGED staging
    /\ Free(t)
    /\ UNCHANGED <<bus, address, messages, handle, finalEvents, maps, loop, source>>

InputCallBack(t) ==
    /\ CallBack
    /\ flight[t] # None /\ flight[t].kind = "Input"
    /\ UNCHANGED <<bus, address, messages, handle, finalEvents, maps, loop, source>>

(* input_report_cb: completed and submitted again; empty reports are not   *)
(* staged.                                                                 *)
InputDone(t) ==
    /\ InputCallBack(t)
    /\ bus[flight[t].device] = "in"
    /\ \/ \E a \in ReadAddress(flight[t].device) : Stage("Input", a, flight[t].device)
       \/ UNCHANGED staging
    /\ UNCHANGED flight

(* Defective variant: the stop is not reported. *)
StopSilently(t, a, reported) ==
    staging' = staging \o reported

Stop(t, a, reported) ==
    staging' = staging \o reported \o
                 <<[type |-> "Stopped", address |-> a, device |-> flight[t].device]>>

(* input_report_cb: completed but not accepted again. *)
InputLast(t) ==
    /\ InputCallBack(t)
    /\ Len(staging) + Len(finalEvents) + 1 < MaxEvents
    /\ \E a \in ReadAddress(flight[t].device) :
          \/ Stop(t, a, <<>>)
          \/ Stop(t, a, <<[type |-> "Input", address |-> a, device |-> flight[t].device]>>)
    /\ Free(t)

(* input_report_cb: cancelled, failed, or the device is gone. *)
InputStopped(t) ==
    /\ InputCallBack(t)
    /\ \E a \in ReadAddress(flight[t].device) : Stop(t, a, <<>>)
    /\ Free(t)

-----------------------------------------------------------------------------
(* Promotion.  The limit is looked at after each event: every call that    *)
(* comes so far promotes one.                                              *)

(* Defective variant: last in, first out. *)
PopBack(s) == [event |-> s[Len(s)], rest |-> SubSeq(s, 1, Len(s) - 1)]

PopFront(s) == [event |-> Head(s), rest |-> Tail(s)]

Due == PopFront(staging).event

Take(types) ==
    /\ pc = "promote"
    /\ staging # <<>>
    /\ Due.type \in types
    /\ staging' = PopFront(staging).rest
    /\ IF work + 1 >= MaxWork THEN Leave ELSE work' = work + 1 /\ UNCHANGED pc

Report == finalEvents' = Append(finalEvents, Due)

Holder(a) == {d \in Devices : bus[d] = "in" /\ address[d] = a}

(* An attachment whose device is there makes it the only one to hear of    *)
(* at that address; one that comes late adds the device it finds, if any.  *)
Announce(e) ==
    source' = [source EXCEPT ![e.address] =
                 IF e.device \in Holder(e.address) THEN {e.device}
                 ELSE @ \cup Holder(e.address)]

(* The transfers in flight f with t submitted for device d; t may be None. *)
submit_report_descriptor_transfer(f, t, d) ==
    [u \in Transfers |-> IF u = t THEN [kind |-> "Descriptor", device |-> d] ELSE f[u]]

submit_input_report_transfer(f, t, d) ==
    [u \in Transfers |-> IF u = t THEN [kind |-> "Input", device |-> d] ELSE f[u]]

(* Which of the two transfers of the first HID interface are submitted     *)
(* depends on its descriptors and on the stack.                            *)
RequestHidDescriptor(d) ==
    \E descriptor, input \in {t \in Transfers : flight[t] = None} \cup {None} :
        /\ descriptor = input => input = None
        /\ flight' = submit_input_report_transfer(
                        submit_report_descriptor_transfer(flight, descriptor, d), input, d)
        /\ inputTransfers' = IF input = None THEN inputTransfers
                             ELSE [inputTransfers EXCEPT ![address[d]] = input]

(* The device that has the address now is opened, whichever was announced. *)
PromoteAttached ==
    /\ Take({"Attached"})
    /\ Report
    /\ Announce(Due)
    /\ \E d \in Holder(Due.address) :
          /\ handle[d] \in {"none", "closed"}
          /\ handle' = [handle EXCEPT ![d] = "open"]
          /\ devices' = [devices EXCEPT ![Due.address] = d]
          /\ RequestHidDescriptor(d)
    /\ UNCHANGED <<bus, address, messages>>

(* usb_host_device_open fails: the attachment is reported all the same. *)
PromoteUnopened ==
    /\ Take({"Attached"})
    /\ Report
    /\ Announce(Due)
    /\ UNCHANGED <<stack, maps>>

(* Defective variant: the handle is dropped instead of closed. *)
DropHandle(d) == UNCHANGED handle

(* Defective variant: an address without a handle is closed too. *)
CloseAlways(d) ==
    \E result \in {"closed", "refused"} :
        handle' = [other \in Devices \cup {d} |-> IF other = d THEN result ELSE handle[other]]

(* The result of usb_host_device_close is ignored: "refused" stays open    *)
(* with nobody to close it.                                                *)
CloseDevice(d) ==
    IF d = None THEN UNCHANGED handle
    ELSE \E result \in {"closed", "refused"} : handle' = [handle EXCEPT ![d] = result]

(* Cancelling is asynchronous: the transfer is called back later. *)
PromoteDetached ==
    /\ Take({"Detached"})
    /\ Report
    /\ inputTransfers' = [inputTransfers EXCEPT ![Due.address] = None]
    /\ devices' = [devices EXCEPT ![Due.address] = None]
    /\ CloseDevice(devices[Due.address])
    /\ UNCHANGED <<bus, address, messages, flight, source>>

PromoteReceived ==
    /\ Take(Kinds)
    /\ Report
    /\ UNCHANGED <<stack, maps, source>>

(* The entry of the address is removed, whichever transfer it holds. *)
PromoteStopped ==
    /\ Take({"Stopped"})
    /\ inputTransfers' = [a \in Addresses |-> IF a = Due.address THEN None
                                              ELSE inputTransfers[a]]
    /\ UNCHANGED <<stack, finalEvents, devices, source>>

NothingStaged ==
    /\ pc = "promote"
    /\ staging = <<>>
    /\ Leave
    /\ UNCHANGED <<stack, queues, maps, source>>

(* poll_event, by service_usb_once_persona. *)
PollEvent ==
    /\ pc = "drain"
    /\ finalEvents # <<>>
    /\ finalEvents' = Tail(finalEvents)
    /\ UNCHANGED <<stack, staging, maps, loop, source>>

(* The drain ends with the queue, or at an error. *)
EndDrain ==
    /\ pc = "drain"
    /\ pc' = "idle"
    /\ UNCHANGED <<work, stack, queues, maps, source>>

-----------------------------------------------------------------------------
Bus == \E d \in Devices : Unplug(d) \/ \E a \in Addresses : Plug(d, a)

CallBacks ==
    \/ ClientEvent
    \/ \E t \in Transfers : DescriptorDone(t) \/ InputDone(t) \/ InputLast(t) \/ InputStopped(t)

Loop ==
    \/ LibReturns \/ LibFails
    \/ ClientReturns \/ ClientFails
    \/ PromoteAttached \/ PromoteUnopened \/ PromoteDetached
    \/ PromoteReceived \/ PromoteStopped \/ NothingStaged
    \/ PollEvent \/ EndDrain

Next == Bus \/ CallBacks \/ Loop

(* The loop runs forever, and the stack does not fail every time. *)
Fairness == WF_vars(Loop) /\ SF_vars(LibReturns) /\ SF_vars(ClientReturns)

Spec == Init /\ [][Next]_vars /\ Fairness

-----------------------------------------------------------------------------
(* When the app is told of an attachment whose device is still there, all  *)
(* it gets from that address afterwards comes from this device, though the *)
(* stack reuses addresses, devices are opened by address and callbacks     *)
(* outlive them: nothing of a former device, and nothing of a device not   *)
(* attached yet.  Attachments promoted too late, which open another device *)
(* than the one they are about, only add that one to those heard of.       *)
(* (service_until_idle, input_report_cb, transfer_cb)                      *)
FromAnnouncedDevice ==
    [][\A e \in Event :
          finalEvents' = Append(finalEvents, e) /\ e.type \in Kinds /\ e.address # 0
            => e.device \in source[e.address]]_vars

(* input_transfers never keeps a freed transfer, unless the event that     *)
(* will remove it is still staged: the callback frees the transfer, the    *)
(* loop owns the map.                                                      *)
TrackedTransferIsLive ==
    \A a \in Addresses :
        inputTransfers[a] # None /\ flight[inputTransfers[a]] = None
          => \E i \in 1..Len(staging) :
                staging[i].type = "Stopped" /\ staging[i].address = a

(* The handles kept are the open ones, except those the stack refused to   *)
(* close: none is closed twice or overwritten, in spite of stale           *)
(* attachments that open another device (devices, in service_until_idle).  *)
OpenHandlesAreKept ==
    \A d \in Devices, a \in Addresses :
        devices[a] = d <=> handle[d] = "open" /\ address[d] = a

(* What the stack told of a device reaches the app, however many reports   *)
(* other devices send and though a call promotes a limited number.         *)
Told(d) == \E i \in 1..Len(staging) :
              staging[i].device = d /\ staging[i].type \in {"Attached", "Detached"}
AttachmentsAreReported == \A d \in Devices : Told(d) ~> ~Told(d)
=============================================================================
