------------------------ MODULE MCUsbBridgeHistory -------------------------
(* UsbBridgeHistory on the devices and buffers of MCUsbBridge. *)
EXTENDS UsbBridgeHistory, MCUsbBridge

(* Enough events for every arm of the handler; the second device sends     *)
(* what can disturb the first one.                                         *)
FewEvents ==
    [kind : {"Attached", "Detached"}, device : MCDevices]
      \cup {[kind |-> "Stopped", device |-> d1]}
      \cup [kind : {"Descriptor"}, device : {d1}, data : MCDescBuffers, fits : {TRUE}]
      \cup [kind : {"Descriptor"}, device : {d2}, data : {"B"}, fits : {TRUE}]
      \cup [kind : {"Input"}, device : {d1}, data : MCPayloads, fits : {TRUE}]
      \cup {[kind |-> "Input", device |-> d2, data |-> "p", fits |-> TRUE],
            [kind |-> "Input", device |-> d1, data |-> "p", fits |-> FALSE]}
=============================================================================
