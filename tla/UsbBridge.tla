----------------------------- MODULE UsbBridge ------------------------------
(***************************************************************************)
(* The path of a USB event through the firmware: the ingress queue, the    *)
(* handler App::handle_usb_event with the state it keeps, the publication  *)
(* App::service_usb_once_persona performs after an applied input, and the  *)
(* drain loop of run_embedded_bridge_demo around them, which goes on after *)
(* a BLE NotReady and gives up for this iteration on any other error.      *)
(*                                                                         *)
(* The descriptor parser, the report decoder with the normalizer, and the  *)
(* BLE encoder are functions here; what they compute is the subject of     *)
(* other modules.                                                          *)
(***************************************************************************)
EXTENDS Sequences, Naturals

CONSTANTS
    Devices,      \* identifiers of USB devices
    DescBuffers,  \* contents of report descriptor buffers
    Payloads,     \* contents of input report buffers, report id included
    Summaries,    \* results of a successful descriptor parse
    Inputs,       \* normalized joystick states
    Neutral,      \* NormalizedJoystickState::default()
    Wires,        \* encoded BLE input reports
    Parse,        \* parse_descriptor_summary
    Decode,       \* decode_report, then normalize_decoded_report
    Encode,       \* current_encoded_ble_input_report
    None,         \* Option::None
    Failed,       \* an Err of Parse or Decode
    IngressEvents,\* the events the ingress may deliver
    MaxQueue      \* bound on the ingress queue (a VecDeque in the code)

ASSUME ConstantsOK ==
    /\ Neutral \in Inputs
    /\ None \notin Devices \cup Summaries \cup Wires
    /\ Failed \notin Summaries \cup Inputs
    /\ Parse \in [DescBuffers -> Summaries \cup {Failed}]
    /\ Decode \in [Summaries \X Payloads -> Inputs \cup {Failed}]
    /\ Encode \in [Inputs -> Wires]

(* UsbEvent.  "fits" tells whether the reported length is at most the 64   *)
(* bytes of the event's buffer.                                            *)
UsbEvent ==
    [kind : {"Attached", "Detached", "Stopped"}, device : Devices]
      \cup [kind : {"Descriptor"}, device : Devices, data : DescBuffers, fits : BOOLEAN]
      \cup [kind : {"Input"}, device : Devices, data : Payloads, fits : BOOLEAN]

ASSUME EventsOK == IngressEvents \subseteq UsbEvent

(* Outcomes of publish_encoded_report. *)
PublishResults == {"Ok", "NotReady", "Transport"}

VARIABLES
    activeDevice,     \* App.active_device
    activeDescriptor, \* App.active_descriptor
    lastInput,        \* RuntimeState.last_input
    lastWire,         \* PersonaWireRecordingBleOutput.last_wire
    finalEvents,      \* EspUsbHostIngress.final_events, or QueuedUsbIngress.events
    phase             \* "collect": loop steps 1 to 4; "drain": step 5

app  == <<activeDevice, activeDescriptor, lastInput>>
vars == <<activeDevice, activeDescriptor, lastInput, lastWire, finalEvents, phase>>

TypeOK ==
    /\ activeDevice \in Devices \cup {None}
    /\ activeDescriptor \in Summaries \cup {None}
    /\ lastInput \in Inputs
    /\ lastWire \in Wires \cup {None}
    /\ finalEvents \in Seq(IngressEvents)
    /\ phase \in {"collect", "drain"}

Init ==
    /\ activeDevice = None
    /\ activeDescriptor = None
    /\ lastInput = Neutral
    /\ lastWire = None
    /\ finalEvents = <<>>
    /\ phase = "collect"

-----------------------------------------------------------------------------
(* The loop around the handler. *)

(* service_until_idle promotes one more event to the queue. *)
Collect(e) ==
    /\ phase = "collect"
    /\ Len(finalEvents) < MaxQueue
    /\ finalEvents' = Append(finalEvents, e)
    /\ UNCHANGED <<app, lastWire, phase>>

StartDrain ==
    /\ phase = "collect"
    /\ phase' = "drain"
    /\ UNCHANGED <<app, lastWire, finalEvents>>

(* poll_event finds nothing: the drain loop ends until the next iteration. *)
Idle ==
    /\ phase = "drain"
    /\ finalEvents = <<>>
    /\ phase' = "collect"
    /\ UNCHANGED <<app, lastWire, finalEvents>>

event == Head(finalEvents)

(* Defective variant: the head is read but left in the queue. *)
PeekOnly == /\ phase = "drain"
            /\ finalEvents # <<>>
            /\ UNCHANGED finalEvents

(* Defective variant: the whole queue goes with its head. *)
TakeAll == /\ phase = "drain"
           /\ finalEvents # <<>>
           /\ finalEvents' = <<>>

(* poll_event removes the event before it is handled, whatever comes of it. *)
Poll ==
    /\ phase = "drain"
    /\ finalEvents # <<>>
    /\ finalEvents' = Tail(finalEvents)

Continue == phase' = "drain"
GiveUp   == phase' = "collect"

FromActiveDevice == activeDevice = event.device

-----------------------------------------------------------------------------
(* handle_usb_event, one action per arm and outcome. *)

(* Defective variant: the joystick state outlives its descriptor. *)
ForgetDescriptorOnly == activeDescriptor' = None /\ UNCHANGED lastInput

(* active_descriptor = None and clear_input(). *)
ForgetSource == activeDescriptor' = None /\ lastInput' = Neutral

Attach ==
    /\ Poll
    /\ event.kind = "Attached"
    /\ activeDevice' = event.device
    /\ ForgetSource
    /\ UNCHANGED lastWire
    /\ Continue

Detach ==
    /\ Poll
    /\ event.kind = "Detached"
    /\ FromActiveDevice
    /\ activeDevice' = None
    /\ ForgetSource
    /\ UNCHANGED lastWire
    /\ Continue

(* The length is checked before the device is. *)
RejectLength ==
    /\ Poll
    /\ event.kind \in {"Descriptor", "Input"}
    /\ ~event.fits
    /\ UNCHANGED <<app, lastWire>>
    /\ GiveUp

(* Defective variant: the parser's error is not looked at. *)
AnyDescriptor == TRUE

DescriptorParses == Parse[event.data] # Failed

StoreDescriptor ==
    /\ Poll
    /\ event.kind = "Descriptor"
    /\ event.fits
    /\ FromActiveDevice
    /\ DescriptorParses
    /\ activeDescriptor' = Parse[event.data]
    /\ UNCHANGED <<activeDevice, lastInput, lastWire>>
    /\ Continue

RejectDescriptor ==
    /\ Poll
    /\ event.kind = "Descriptor"
    /\ event.fits
    /\ FromActiveDevice
    /\ ~DescriptorParses
    /\ UNCHANGED <<app, lastWire>>
    /\ GiveUp

InputReady ==
    /\ event.kind = "Input"
    /\ event.fits
    /\ FromActiveDevice
    /\ activeDescriptor # None

Decoded == Decode[<<activeDescriptor, event.data>>]

RejectInput ==
    /\ Poll
    /\ InputReady
    /\ Decoded = Failed
    /\ UNCHANGED <<app, lastWire>>
    /\ GiveUp

(* Defective variant: the report is encoded before update_input. *)
StaleReport == Encode[lastInput]

(* current_encoded_ble_input_report, after update_input. *)
CurrentReport == Encode[lastInput']

(* update_input: the joystick state changes before anything is published.  *)
TakeInput ==
    /\ Poll
    /\ InputReady
    /\ Decoded # Failed
    /\ lastInput' = Decoded
    /\ UNCHANGED <<activeDevice, activeDescriptor>>

(* is_recoverable_ble_error *)
Recoverable(published) == published = "NotReady"

(* Then publish_current_persona_report; of its errors only a recoverable   *)
(* one lets the drain loop continue.                                       *)
ApplyInput(published) ==
    /\ TakeInput
    /\ lastWire' = IF published = "Ok" THEN CurrentReport ELSE lastWire
    /\ IF published = "Ok" \/ Recoverable(published) THEN Continue ELSE GiveUp

Ignored ==
    \/ event.kind = "Stopped"
    \/ event.kind = "Detached" /\ ~FromActiveDevice
    \/ event.kind = "Descriptor" /\ event.fits /\ ~FromActiveDevice
    \/ event.kind = "Input" /\ event.fits
         /\ (~FromActiveDevice \/ activeDescriptor = None)

Ignore ==
    /\ Poll
    /\ Ignored
    /\ UNCHANGED <<app, lastWire>>
    /\ Continue

-----------------------------------------------------------------------------
HandleOther ==
    \/ Attach
    \/ Detach
    \/ RejectLength
    \/ StoreDescriptor
    \/ RejectDescriptor
    \/ RejectInput
    \/ Ignore

Handle == HandleOther \/ \E published \in PublishResults : ApplyInput(published)

Loop == StartDrain \/ Idle \/ Handle

Next == (\E e \in IngressEvents : Collect(e)) \/ Loop

(* The firmware's loop never stops; no event need ever arrive. *)
Spec == Init /\ [][Next]_vars /\ WF_vars(Loop)

-----------------------------------------------------------------------------
(* Joystick state without a descriptor to decode it, or a descriptor       *)
(* without the device it describes, is never kept: the early returns of    *)
(* handle_usb_event rely on all three fields being reset together          *)
(* (app.rs, DeviceAttached and DeviceDetached arms).                       *)
NoOrphanInput ==
    /\ activeDevice = None => activeDescriptor = None
    /\ activeDescriptor = None => lastInput = Neutral

(* The code keeps the promise of SingleSource for the state it holds and   *)
(* the reports it publishes, whatever the queue contains and whichever     *)
(* publications fail.                                                      *)
Promise == INSTANCE SingleSource
             WITH source <- activeDevice, view <- lastInput, peer <- lastWire
ImplementsSingleSource == Promise!SSpec

(* Within a drain every step takes an event, good or bad, and none comes   *)
(* in, so that a drain has no more steps than there were events, plus one. *)
DrainShrinks ==
    [][phase = "drain" /\ phase' = "drain" => Len(finalEvents') < Len(finalEvents)]_vars

(* The drain loop (main.rs, step 5) always returns to the rest of the      *)
(* firmware's loop: a peer that is not ready, or a queue full of bad       *)
(* reports, cannot keep the console from being served.                     *)
DrainEnds == DrainShrinks /\ []<>(phase = "collect")
=============================================================================
