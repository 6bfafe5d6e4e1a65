-------------------------- MODULE UsbBridgeHistory ---------------------------
(***************************************************************************)
(* UsbBridge with an auxiliary variable: the events handled so far, each   *)
(* with whether its publication was accepted.  The state the firmware      *)
(* keeps in three fields is compared with what the whole history says it   *)
(* should be.                                                              *)
(***************************************************************************)
EXTENDS UsbBridge, FiniteSetsExt

CONSTANT MaxEvents  \* bound on the events one behaviour delivers

VARIABLE handled    \* sequence of [event, accepted]

hvars == <<vars, handled>>

HInit == Init /\ handled = <<>>

Record(accepted) ==
    handled' = Append(handled, [event |-> event, accepted |-> accepted])

HCollect(e) ==
    /\ Len(handled) + Len(finalEvents) < MaxEvents
    /\ Collect(e)
    /\ UNCHANGED handled

HHandleOther == HandleOther /\ Record(FALSE)

HApplyInput(published) == ApplyInput(published) /\ Record(published = "Ok")

HLoop ==
    \/ (StartDrain \/ Idle) /\ UNCHANGED handled
    \/ HHandleOther
    \/ \E published \in PublishResults : HApplyInput(published)

HNext == (\E e \in IngressEvents : HCollect(e)) \/ HLoop

HSpec == HInit /\ [][HNext]_hvars /\ WF_hvars(HLoop)

-----------------------------------------------------------------------------
(* What a prefix of the history says, independently of the handler. *)

(* The last attach among the first n events, or 0. *)
LastAttach(n) == Max({0} \cup {i \in 1..n : handled[i].event.kind = "Attached"})

(* Whether the device of that attach has been detached since. *)
Gone(n) ==
    \E i \in LastAttach(n) + 1 .. n :
        /\ handled[i].event.kind = "Detached"
        /\ handled[i].event.device = handled[LastAttach(n)].event.device

(* The attach that made the current source current, or 0 for no source. *)
AttachedAt(n) == IF LastAttach(n) = 0 \/ Gone(n) THEN 0 ELSE LastAttach(n)

(* Event i belongs to the attachment made by event a. *)
OfAttachment(a, i, kind) ==
    LET e == handled[i].event
    IN  /\ i > a
        /\ e.kind = kind
        /\ e.fits
        /\ e.device = handled[a].event.device

(* The last descriptor of this attachment that parses. *)
Descriptions(n) ==
    {i \in 1..n : /\ AttachedAt(n) # 0
                  /\ OfAttachment(AttachedAt(n), i, "Descriptor")
                  /\ Parse[handled[i].event.data] # Failed}

DescribedAt(n) == Max({0} \cup Descriptions(n))

(* What input event i means under the descriptor in force when it came. *)
Meaning(i) ==
    LET d == DescribedAt(i)
    IN  IF d = 0 THEN Failed
        ELSE Decode[<<Parse[handled[d].event.data], handled[i].event.data>>]

(* The input events that were meaningful among the first n, of whichever   *)
(* attachment was current when they came.                                  *)
Meaningful(n) ==
    {i \in 1..n : /\ AttachedAt(i) # 0
                  /\ OfAttachment(AttachedAt(i), i, "Input")
                  /\ Meaning(i) # Failed}

(* Those of them of the current attachment, and those that were sent. *)
Current(n) == {m \in Meaningful(n) : m > AttachedAt(n)}

Sent(n) == {i \in Meaningful(n) : handled[i].accepted}

Now == Len(handled)

-----------------------------------------------------------------------------
(* The three fields of App are exactly what the history of attachments     *)
(* implies: the source is the last device attached and not detached since, *)
(* its descriptor the last good one it sent since it was attached, and the *)
(* joystick state the last report that made sense under the descriptor in  *)
(* force when it came, from this attachment and no earlier one.  Events of *)
(* other devices, malformed ones and those in the wrong order leave no     *)
(* trace (App::handle_usb_event).                                          *)
StateFollowsHistory ==
    LET a == AttachedAt(Now)
        d == DescribedAt(Now)
        i == Max({0} \cup Current(Now))
    IN  /\ activeDevice = IF a = 0 THEN None ELSE handled[a].event.device
        /\ activeDescriptor = IF d = 0 THEN None ELSE Parse[handled[d].event.data]
        /\ lastInput = IF a = 0 \/ i = 0 THEN Neutral ELSE Meaning(i)

(* The BLE peer holds the last meaningful report whose publication was     *)
(* accepted: a refused report is not sent later, a detach or a new source  *)
(* sends nothing, and no report is sent under another report's decoding    *)
(* (App::service_usb_once_persona).                                        *)
PeerFollowsHistory ==
    lastWire = IF Sent(Now) = {} THEN None ELSE Encode[Meaning(Max(Sent(Now)))]

(* Every event the ingress has delivered is handled in the end, also those *)
(* behind an event that made the drain loop give up (main.rs, steps 4, 5). *)
EveryEventHandled ==
    \A n \in 1..MaxEvents :
        (Len(handled) + Len(finalEvents) >= n) ~> (Len(handled) >= n)
=============================================================================
