----------------------------- MODULE HidReport -----------------------------
(***************************************************************************)
(* From the payload of an input report to the bytes the BLE peer gets:     *)
(* decode_report takes the values of the report's fields out of the        *)
(* payload, normalize_decoded_report collects them in a joystick state     *)
(* that starts blank, the app keeps that state, and the BLE report is      *)
(* encoded from it.  Each loop takes one step per field here.  Bytes have  *)
(* 8 bits and values keep their widths: nothing is scaled down.            *)
(***************************************************************************)
EXTENDS Integers, Sequences, FiniteSetsExt, SequencesExt

CONSTANTS
    Summaries,  \* parsed descriptors: sequences of fields
    Payloads,   \* payloads of input reports: sequences of bytes
    ReportIds

(* u8, u16 and what an axis can be. *)
U8_MAX == 255
U16_MAX == 65535
AXIS_MIN == -32768
AXIS_MAX == 32767

Byte == 0..U8_MAX
U16 == 0..U16_MAX
I16 == AXIS_MIN..AXIS_MAX

(* What 16 bits can be, signed or not. *)
FieldValues == AXIS_MIN..U16_MAX

Axes == {"X", "Y", "Rz"}

(* A usage is an axis, the hat, a one-based button or anything else.       *)
Usages == [control : Axes \cup {"HatSwitch", "Other"}, button : {0}]
            \cup [control : {"Button"}, button : U16]

(* usage_from_parts: the usage of a page and an id.  The other axes of the *)
(* generic desktop are known to the parser and skipped by the normalizer.  *)
DesktopIds == [X |-> 48, Y |-> 49, Rz |-> 53, HatSwitch |-> 57]

UsageFromParts(page, id) ==
    IF page = 9 THEN [control |-> "Button", button |-> id]
    ELSE LET named == {c \in DOMAIN DesktopIds : page = 1 /\ DesktopIds[c] = id}
         IN  [control |-> CHOOSE c \in IF named = {} THEN {"Other"} ELSE named : TRUE,
              button |-> 0]

ReportField ==
    [reportId : ReportIds, bitOffset : U16, bitSize : Byte,
     signed : BOOLEAN,      \* logical_min < 0
     usage : Usages, kind : {"Variable", "Array"}]

ASSUME SummariesOK == Summaries \subseteq Seq(ReportField)
ASSUME PayloadsOK == Payloads \subseteq Seq(Byte)

Hats == {"Centered", "Up", "UpRight", "Right", "DownRight", "Down", "DownLeft", "Left", "UpLeft"}
BUTTON_COUNT == 16

(* ButtonIndex::new accepts these. *)
ButtonIndex == 0..BUTTON_COUNT - 1

JoystickState == [axis : [Axes -> I16], hat : Hats, buttons : SUBSET ButtonIndex]

Errors == {"ArrayFieldsUnsupported", "UnsupportedFieldSize", "ReportTooShort",
           "AxisOutOfRange", "UnsupportedHatValue", "ButtonOutOfRange"}

VARIABLES
    summary,    \* active_descriptor
    reportId,   \* of the report at hand
    payload,    \* its bytes
    phase,      \* "decode", "normalize", "applied", or the error it was refused with
    index,      \* of the loop of the phase
    decoded,    \* DecodedReport
    state,      \* the joystick state that normalization accumulates
    lastInput,  \* RuntimeState.last_input
    wire        \* the encoded BLE report of an applied report

vars == <<summary, reportId, payload, phase, index, decoded, state, lastInput, wire>>

TypeOK ==
    /\ summary \in Summaries
    /\ reportId \in ReportIds
    /\ payload \in Payloads
    /\ phase \in {"decode", "normalize", "applied"} \cup Errors
    /\ index \in 1..Len(summary) + 1
    /\ decoded \in Seq([usage : Usages, value : FieldValues])
    /\ Len(decoded) <= Len(summary)
    /\ {state, lastInput} \subseteq JoystickState
    /\ wire \in Seq(Byte)

Default == [axis |-> [a \in Axes |-> 0], hat |-> "Centered", buttons |-> {}]

-----------------------------------------------------------------------------
(* hid_decode *)

Bit(n) == (payload[n \div 8 + 1] \div 2^(n % 8)) % 2

(* Eight bits, the lowest first. *)
Octet(bits) ==
    bits[0] + 2 * bits[1] + 4 * bits[2] + 8 * bits[3]
        + 16 * bits[4] + 32 * bits[5] + 64 * bits[6] + 128 * bits[7]

(* extract_bits: bit i of the field is bit bitOffset + i of the payload.   *)
(* Only the sizes that DecodeError lets through come here.                 *)
ExtractBits(field) ==
    LET OctetAt(n) == Octet([i \in 0..7 |-> Bit(n + i)])
    IN  CASE field.bitSize = 1 -> Bit(field.bitOffset)
          [] field.bitSize = 8 -> OctetAt(field.bitOffset)
          [] field.bitSize = 16 -> OctetAt(field.bitOffset) + 256 * OctetAt(field.bitOffset + 8)

(* Defective variant: the sign bit is tested one place too high. *)
SignExtendLate(raw, field) ==
    IF field.signed /\ raw >= 2^field.bitSize THEN raw - 2^field.bitSize ELSE raw

SignExtend(raw, field) ==
    IF field.signed /\ raw >= 2^(field.bitSize - 1) THEN raw - 2^field.bitSize ELSE raw

DecodeError(field) ==
    IF field.kind = "Array" THEN "ArrayFieldsUnsupported"
    ELSE IF field.bitSize \notin {1, 8, 16} THEN "UnsupportedFieldSize"
    ELSE IF field.bitOffset + field.bitSize > Len(payload) * 8 THEN "ReportTooShort"
    ELSE "none"

Current == summary[index]
Decoding == phase = "decode" /\ index <= Len(summary)

SkipField ==
    /\ Decoding
    /\ Current.reportId # reportId
    /\ index' = index + 1
    /\ UNCHANGED <<summary, reportId, payload, phase, decoded, state, lastInput, wire>>

Refuse(error) ==
    /\ error # "none"
    /\ phase' = error
    /\ UNCHANGED <<summary, reportId, payload, index, decoded, state, lastInput, wire>>

RefuseField == Decoding /\ Current.reportId = reportId /\ Refuse(DecodeError(Current))

(* MAX_DECODED_FIELDS is MAX_FIELDS: there is a slot for every field. *)
DecodeField ==
    /\ Decoding
    /\ Current.reportId = reportId
    /\ DecodeError(Current) = "none"
    /\ decoded' = Append(decoded, [usage |-> Current.usage,
                                   value |-> SignExtend(ExtractBits(Current), Current)])
    /\ index' = index + 1
    /\ UNCHANGED <<summary, reportId, payload, phase, state, lastInput, wire>>

(* Defective variant: normalization goes on from the last state. *)
GoOn == lastInput

Blank == Default

EndDecode ==
    /\ phase = "decode"
    /\ index > Len(summary)
    /\ phase' = "normalize"
    /\ index' = 1
    /\ state' = Blank
    /\ UNCHANGED <<summary, reportId, payload, decoded, lastInput, wire>>

-----------------------------------------------------------------------------
(* normalize *)

HatNames == <<"Up", "UpRight", "Right", "DownRight", "Down", "DownLeft", "Left", "UpLeft">>
HatOf(value) == IF value \in {-1, 8} THEN "Centered" ELSE HatNames[value + 1]

(* Defective variant: centred by the value 8 only. *)
HatValuesWithoutNull == 0..8

HatValues == -1..8

(* Defective variant: the 16 bits are taken as they are. *)
AnyAxisValue == FieldValues

AxisValues == I16

NormalizeError(field) ==
    CASE field.usage.control \in Axes /\ field.value \notin AxisValues -> "AxisOutOfRange"
      [] field.usage.control = "HatSwitch" /\ field.value \notin HatValues -> "UnsupportedHatValue"
      [] field.usage.control = "Button" /\ field.usage.button - 1 \notin ButtonIndex ->
           "ButtonOutOfRange"
      [] OTHER -> "none"

(* set_button *)
SetButton(buttons, i, pressed) == IF pressed THEN buttons \cup {i} ELSE buttons \ {i}

Normalizing == phase = "normalize" /\ index <= Len(decoded)

RefuseValue == Normalizing /\ Refuse(NormalizeError(decoded[index]))

(* apply_decoded_field; a usage without a control is skipped. *)
Apply(field) ==
    LET control == field.usage.control
    IN  CASE control \in Axes -> state' = [state EXCEPT !.axis[control] = field.value]
          [] control = "HatSwitch" -> state' = [state EXCEPT !.hat = HatOf(field.value)]
          [] control = "Button" ->
                state' = [state EXCEPT !.buttons =
                            SetButton(@, field.usage.button - 1, field.value # 0)]
          [] OTHER -> UNCHANGED state

ApplyField ==
    /\ Normalizing
    /\ NormalizeError(decoded[index]) = "none"
    /\ Apply(decoded[index])
    /\ index' = index + 1
    /\ UNCHANGED <<summary, reportId, payload, phase, decoded, lastInput, wire>>

-----------------------------------------------------------------------------
(* The BLE report. *)

(* to_le_bytes of 16 bits *)
LeBytes(n) == <<n % 256, (n \div 256) % 256>>

HatToWire(hat) ==
    IF hat = "Centered" THEN 8 ELSE CHOOSE i \in 0..7 : HatNames[i + 1] = hat

(* button_bits_from_normalized *)
ButtonBits(buttons) ==
    LET OctetAt(n) == Octet([i \in 0..7 |-> IF n + i \in buttons THEN 1 ELSE 0])
    IN  OctetAt(0) + 256 * OctetAt(8)

(* encode_generic_ble_gamepad16_report of from_normalized, with report id 1. *)
Encode(s) ==
    <<1>> \o LeBytes(s.axis["X"]) \o LeBytes(s.axis["Y"]) \o LeBytes(s.axis["Rz"])
          \o <<HatToWire(s.hat)>> \o LeBytes(ButtonBits(s.buttons))

EndNormalize ==
    /\ phase = "normalize"
    /\ index > Len(decoded)
    /\ phase' = "applied"
    /\ lastInput' = state
    /\ wire' = Encode(state)
    /\ UNCHANGED <<summary, reportId, payload, index, decoded, state>>

Finished == phase \in {"applied"} \cup Errors

(* The next report of the device, with what the last one left. *)
NextReport ==
    /\ Finished
    /\ \E id \in ReportIds, p \in Payloads : reportId' = id /\ payload' = p
    /\ phase' = "decode"
    /\ index' = 1
    /\ decoded' = <<>>
    /\ state' = Default
    /\ wire' = <<>>
    /\ UNCHANGED <<summary, lastInput>>

Init ==
    /\ summary \in Summaries
    /\ reportId \in ReportIds
    /\ payload \in Payloads
    /\ phase = "decode"
    /\ index = 1
    /\ decoded = <<>>
    /\ state = Default
    /\ lastInput = Default
    /\ wire = <<>>

Next ==
    \/ SkipField \/ RefuseField \/ DecodeField \/ EndDecode
    \/ RefuseValue \/ ApplyField \/ EndNormalize
    \/ NextReport

Spec == Init /\ [][Next]_vars

-----------------------------------------------------------------------------
(* What the report means, without loops: a field is a slice of the number  *)
(* that the three bytes from its first one on are, the lowest first, and   *)
(* the last field of a usage counts.                                       *)

Slice(bytes, bit, size) ==
    LET At(i) == IF i \in DOMAIN bytes THEN bytes[i] ELSE 0
        first == bit \div 8 + 1
        number == At(first) + 256 * At(first + 1) + 65536 * At(first + 2)
    IN  (number \div 2^(bit % 8)) % 2^size

ValueIn(bytes, bit, size, signed) ==
    LET raw == Slice(bytes, bit, size)
    IN  IF signed /\ 2 * raw >= 2^size THEN raw - 2^size ELSE raw

ValueOf(field) == ValueIn(payload, field.bitOffset, field.bitSize, field.signed)

Reported == {i \in DOMAIN summary : summary[i].reportId = reportId}
Meaning(usage, none) ==
    LET fields == {i \in Reported : summary[i].usage = usage}
    IN  IF fields = {} THEN none ELSE ValueOf(summary[Max(fields)])

-----------------------------------------------------------------------------
(* What the peer knows of the reports: the persona's descriptor, with the  *)
(* report map, one short item after the other.                             *)

GENERIC_BLE_GAMEPAD16_REPORT_MAP ==
    << <<5, 1>>, <<9, 5>>, <<161, 1>>, <<133, 1>>,
       <<9, 48>>, <<9, 49>>, <<9, 53>>, <<22, 0, 128>>, <<38, 255, 127>>,
       <<117, 16>>, <<149, 3>>, <<129, 2>>,
       <<9, 57>>, <<21, 0>>, <<37, 8>>, <<53, 0>>, <<70, 59, 1>>,
       <<117, 4>>, <<149, 1>>, <<129, 66>>,
       <<117, 4>>, <<149, 1>>, <<129, 1>>,
       <<5, 9>>, <<25, 1>>, <<41, 16>>, <<21, 0>>, <<37, 1>>,
       <<117, 1>>, <<149, 16>>, <<129, 2>>, <<192>> >>

output_persona_descriptor ==
    [report_id |-> 1, payload_len |-> 9, wire_len |-> 10,
     report_map |-> GENERIC_BLE_GAMEPAD16_REPORT_MAP]

(* A HID host reads the map item by item; the variable fields it finds.    *)
ReadItem(host, item) ==
    LET data == MapThenSumSet(LAMBDA i : item[i] * 256^(i - 2), 2..Len(item))
        At(i) == [page |-> host.page, id |-> host.usages[i],
                  bit |-> host.bit + (i - 1) * host.size, size |-> host.size,
                  signed |-> host.signed]
        variable == data % 4 = 2
        tag == item[1] - (item[1] % 4)
    IN  CASE tag = 4 -> [host EXCEPT !.page = data]
          [] tag = 8 -> [host EXCEPT !.usages = Append(@, data)]
          [] tag = 24 -> [host EXCEPT !.first = data]
          [] tag = 40 -> [host EXCEPT !.usages = [i \in 1..data - host.first + 1 |->
                                                    host.first + i - 1]]
          [] tag = 20 -> [host EXCEPT !.signed = Last(item) > 127]
          [] tag = 116 -> [host EXCEPT !.size = data]
          [] tag = 148 -> [host EXCEPT !.count = data]
          [] tag = 132 -> [host EXCEPT !.reportId = data]
          [] tag = 128 -> [host EXCEPT !.bit = @ + host.size * host.count, !.usages = <<>>,
                                       !.fields = @ \cup {At(i) : i \in {j \in 1..host.count :
                                                                          variable}}]
          [] tag = 160 -> [host EXCEPT !.usages = <<>>]
          [] OTHER -> host

Layout ==
    FoldLeft(ReadItem,
             [page |-> 0, usages |-> <<>>, first |-> 0, signed |-> FALSE, size |-> 0,
              count |-> 0, reportId |-> 0, bit |-> 0, fields |-> {}],
             output_persona_descriptor.report_map)

(* What the host makes of this map. *)
AxisBit == [X |-> 0, Y |-> 16, Rz |-> 32]

AxisFields ==
    {[page |-> 1, id |-> DesktopIds[a], bit |-> AxisBit[a], size |-> 16, signed |-> TRUE] :
        a \in Axes}
HatField == [page |-> 1, id |-> DesktopIds.HatSwitch, bit |-> 48, size |-> 4, signed |-> FALSE]
ButtonFields ==
    {[page |-> 9, id |-> b, bit |-> 55 + b, size |-> 1, signed |-> FALSE] : b \in 1..BUTTON_COUNT}

ASSUME LayoutRead ==
    /\ Layout.reportId = 1
    /\ Layout.bit = 72
    /\ Layout.fields = AxisFields \cup {HatField} \cup ButtonFields

UsageOf(field) == UsageFromParts(field.page, field.id)

(* The value of a field of the map in the bytes behind the report id. *)
PeerValue(field) == ValueIn(Tail(wire), field.bit, field.size, field.signed)

(* What it should be. *)
ReportedValue(field) ==
    LET usage == UsageOf(field)
        hat == Meaning(usage, -1)
    IN  CASE usage.control \in Axes -> Meaning(usage, 0)
          [] usage.control = "HatSwitch" -> IF hat \in 0..7 THEN hat ELSE 8
          [] usage.control = "Button" -> IF Meaning(usage, 0) # 0 THEN 1 ELSE 0

(* After a report is applied the peer sees exactly what this report says:  *)
(* under the report map it was given, every control has the value that the *)
(* last field of the same page and id has in this report, and the others   *)
(* are centred or released, whatever earlier reports said; the map covers  *)
(* all the controls and all the bytes (decode_report, from_normalized and  *)
(* the encoder, against output_persona_descriptor).                        *)
PeerSeesReport ==
    phase = "applied" =>
        /\ wire[1] = Layout.reportId /\ wire[1] = output_persona_descriptor.report_id
        /\ Len(wire) = output_persona_descriptor.wire_len
        /\ Layout.bit = 8 * output_persona_descriptor.payload_len
        /\ {UsageOf(f) : f \in Layout.fields} =
              [control : Axes \cup {"HatSwitch"}, button : {0}]
                \cup [control : {"Button"}, button : 1..BUTTON_COUNT]
        /\ \A f \in Layout.fields : PeerValue(f) = ReportedValue(f)

(* A report is refused as a whole if and only if one of its fields is      *)
(* outside the payload or the supported kinds and sizes, or has a value    *)
(* its control cannot take: fields of other reports never matter, fields   *)
(* of unknown usages only for their shape (handle_usb_event).              *)
Readable(field) ==
    /\ field.kind = "Variable"
    /\ field.bitSize \in {1, 8, 16}
    /\ (field.bitOffset + field.bitSize + 7) \div 8 <= Len(payload)
Acceptable(field) ==
    /\ Readable(field)
    /\ field.usage.control \in Axes => ValueOf(field) < 32768
    /\ field.usage.control = "HatSwitch" => ValueOf(field) + 1 \in 0..9
    /\ field.usage.control = "Button" => field.usage.button \in 1..BUTTON_COUNT
RefusedIffUnacceptable ==
    Finished => (phase # "applied" <=> \E i \in Reported : ~Acceptable(summary[i]))
=============================================================================
