---------------------------- MODULE SingleSource ----------------------------
(***************************************************************************)
(* What the bridge promises, without queues, descriptors or errors: at any *)
(* moment at most one USB device is the source of the joystick state, the  *)
(* state is neutral whenever the source has just changed, and the BLE peer *)
(* only ever receives the encoding of the state the source has just set.   *)
(***************************************************************************)

CONSTANTS Devices,   \* identifiers of USB devices
          Inputs,    \* normalized joystick states
          Neutral,   \* the all-centred state
          Encode,    \* the BLE report of a joystick state
          None       \* no device, or nothing published yet

VARIABLES source,    \* the device the state comes from, or None
          view,      \* the joystick state of the bridge
          peer       \* the last report the BLE peer received, or None

svars == <<source, view, peer>>

SInit == /\ source = None
         /\ view = Neutral
         /\ peer = None

(* A device becomes the source; nothing of an earlier source survives. *)
Adopt(d) == /\ source' = d
            /\ view' = Neutral
            /\ UNCHANGED peer

(* The source goes away.  The peer is not told. *)
Release == /\ source # None
           /\ source' = None
           /\ view' = Neutral
           /\ UNCHANGED peer

(* The source sets a new state; the peer receives it or misses it. *)
Update(i) == /\ source # None
             /\ view' = i
             /\ peer' \in {peer, Encode[i]}
             /\ UNCHANGED source

SNext == \/ \E d \in Devices : Adopt(d)
         \/ Release
         \/ \E i \in Inputs : Update(i)

SSpec == SInit /\ [][SNext]_svars
=============================================================================
