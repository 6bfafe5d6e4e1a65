--------------------------- MODULE HidDescriptor ----------------------------
(***************************************************************************)
(* hid_descriptor::parse_descriptor_summary, one step per iteration of its *)
(* loop.  The bytes of a descriptor are abstracted to the short items they *)
(* form: the type, tag, number of data bytes and unsigned data value of    *)
(* each.  The input is read lazily: each step picks the item found at the  *)
(* current offset, so a behaviour is a run of the parser on one input and  *)
(* every input is the input of some behaviour.                             *)
(***************************************************************************)
EXTENDS Integers, Sequences

CONSTANTS
    BufferLen,  \* capacity of a UsbEvent's bytes, the parser's longest input (64)
    MaxFields,  \* MAX_FIELDS (32)
    Word,       \* number of u16 values (2^16): pages, usages, bit offsets
    Items,      \* the items an input may consist of
    None        \* Option::None

(* ShortItem; four data bytes at most. *)
ShortItem == [type : {"Main", "Global", "Local", "Reserved"}, tag : 0..15,
              size : {0, 1, 2, 4}, data : Nat]

ASSUME CapacityOK == /\ BufferLen \in Nat
                     /\ MaxFields \in Nat \ {0}
                     /\ Word \in Nat \ {0}
ASSUME ItemsOK == Items \subseteq ShortItem
ASSUME NoneOK == None \notin Int

VARIABLES
    len,         \* input.len()
    offset,      \* offset of the next item
    page,        \* current_usage_page
    usage,       \* pending_usage
    logicalMin,  \* current_logical_min
    logicalMax,  \* current_logical_max
    reportSize,  \* current_report_size
    reportCount, \* current_report_count
    reportId,    \* current_report_id
    bitOffset,   \* current_bit_offset
    fields,      \* summary.fields[..field_count]
    status       \* "parsing", "ok", or the error returned

globals == <<page, logicalMin, logicalMax, reportSize, reportCount, reportId>>
vars == <<len, offset, page, usage, logicalMin, logicalMax, reportSize,
          reportCount, reportId, bitOffset, fields, status>>

Errors == {"LongItemsUnsupported", "Truncated", "MissingUsagePage", "MissingUsage",
           "MissingReportSize", "MissingLogicalRange", "UnsupportedReportCount",
           "ReportSizeOutOfRange", "ReportIdOutOfRange", "TooManyFields",
           "FieldOutOfOrder"}

ReportField == [reportId : 0..255, bitOffset : 0..Word - 1, bitSize : 0..255,
                logicalMin : Int, logicalMax : Int,
                usage : (0..Word - 1) \X (0..Word - 1), variable : BOOLEAN]

Optional(value, S) == value = None \/ value \in S

TypeOK ==
    /\ len \in 0..BufferLen
    /\ offset \in 0..len
    /\ Optional(page, 0..Word - 1)
    /\ Optional(usage, 0..Word - 1)
    /\ Optional(logicalMin, Int)
    /\ Optional(logicalMax, Int)
    /\ Optional(reportSize, 0..255)
    /\ reportCount \in Nat
    /\ reportId \in 0..255
    /\ bitOffset \in 0..Word - 1
    /\ fields \in Seq(ReportField)
    /\ Len(fields) <= MaxFields
    /\ status \in {"parsing", "ok"} \cup Errors

Init ==
    /\ len \in 0..BufferLen
    /\ offset = 0
    /\ page = None
    /\ usage = None
    /\ logicalMin = None
    /\ logicalMax = None
    /\ reportSize = None
    /\ reportCount = 1
    /\ reportId = 0
    /\ bitOffset = 0
    /\ fields = <<>>
    /\ status = "parsing"

-----------------------------------------------------------------------------
(* Values of an item. *)

AsU16(n) == n % Word
AsU8(n) == n % 256

(* sign_extend_item_data: one, two and four bytes are two's complement. *)
SignedValue(item) ==
    LET TwosComplement(n, m) == IF n < m \div 2 THEN n ELSE n - m
    IN  CASE item.size = 0 -> 0
          [] item.size = 1 -> TwosComplement(AsU8(item.data), 256)
          [] item.size = 2 -> TwosComplement(AsU16(item.data), Word)
          [] item.size = 4 -> TwosComplement(item.data, Word * Word)

(* Bits 0 and 1 of an input item's flags. *)
IsConstant(item) == item.data % 2 = 1
IsVariable(item) == (item.data \div 2) % 2 = 1

-----------------------------------------------------------------------------
(* parse_short_item. *)

Fail(error) ==
    /\ status' = error
    /\ UNCHANGED <<len, offset, globals, usage, bitOffset, fields>>

More == status = "parsing" /\ offset < len

(* Prefix 0xFE reads as a reserved item of tag 15 with two data bytes. *)
IsLong(item) == item.type = "Reserved" /\ item.tag = 15 /\ item.size = 2

(* Defective variant: the prefix byte is not counted. *)
DataOnly(item) == item.size

Needed(item) == 1 + item.size

LongItem(item) ==
    /\ More
    /\ IsLong(item)
    /\ Fail("LongItemsUnsupported")

TruncatedItem(item) ==
    /\ More
    /\ ~IsLong(item)
    /\ len - offset < Needed(item)
    /\ Fail("Truncated")

(* Defective variant: the remaining length is not checked. *)
AdvanceUnchecked(item) ==
    /\ More
    /\ ~IsLong(item)
    /\ offset' = offset + Needed(item)
    /\ UNCHANGED len

Advance(item) ==
    /\ More
    /\ ~IsLong(item)
    /\ len - offset >= Needed(item)
    /\ offset' = offset + Needed(item)
    /\ UNCHANGED len

(* A complete item of the given type and tag. *)
Read(item, type, tag) ==
    /\ Advance(item)
    /\ item.type = type
    /\ item.tag = tag

(* An error after the item has been read. *)
Reject(error) ==
    /\ status' = error
    /\ UNCHANGED <<globals, usage, bitOffset, fields>>

-----------------------------------------------------------------------------
(* Global and local items. *)

SetUsagePage(item) ==
    /\ Read(item, "Global", 0)
    /\ page' = AsU16(item.data)
    /\ UNCHANGED <<logicalMin, logicalMax, reportSize, reportCount, reportId,
                   usage, bitOffset, fields, status>>

SetLogicalMin(item) ==
    /\ Read(item, "Global", 1)
    /\ logicalMin' = SignedValue(item)
    /\ UNCHANGED <<page, logicalMax, reportSize, reportCount, reportId,
                   usage, bitOffset, fields, status>>

SetLogicalMax(item) ==
    /\ Read(item, "Global", 2)
    /\ logicalMax' = SignedValue(item)
    /\ UNCHANGED <<page, logicalMin, reportSize, reportCount, reportId,
                   usage, bitOffset, fields, status>>

SetReportSize(item) ==
    /\ Read(item, "Global", 7)
    /\ IF item.data > 255
       THEN Reject("ReportSizeOutOfRange")
       ELSE /\ reportSize' = item.data
            /\ UNCHANGED <<page, logicalMin, logicalMax, reportCount, reportId,
                           usage, bitOffset, fields, status>>

SetReportId(item) ==
    /\ Read(item, "Global", 8)
    /\ IF item.data > 255
       THEN Reject("ReportIdOutOfRange")
       ELSE /\ reportId' = item.data
            /\ UNCHANGED <<page, logicalMin, logicalMax, reportSize, reportCount,
                           usage, bitOffset, fields, status>>

SetReportCount(item) ==
    /\ Read(item, "Global", 9)
    /\ reportCount' = item.data
    /\ UNCHANGED <<page, logicalMin, logicalMax, reportSize, reportId,
                   usage, bitOffset, fields, status>>

SetUsage(item) ==
    /\ Read(item, "Local", 0)
    /\ usage' = AsU16(item.data)
    /\ UNCHANGED <<globals, bitOffset, fields, status>>

(* Collections, outputs, features, other globals, locals and reserved      *)
(* items are skipped; in particular a collection keeps the pending usage.  *)
SkipItem(item) ==
    /\ Advance(item)
    /\ <<item.type, item.tag>> \notin
         ({"Global"} \X {0, 1, 2, 7, 8, 9}) \cup {<<"Local", 0>>, <<"Main", 8>>}
    /\ UNCHANGED <<globals, usage, bitOffset, fields, status>>

-----------------------------------------------------------------------------
(* Input items. *)

(* The checks in the order the code makes them; padding passes them too. *)
InputError ==
    IF reportCount # 1 THEN "UnsupportedReportCount"
    ELSE IF page = None THEN "MissingUsagePage"
    ELSE IF usage = None THEN "MissingUsage"
    ELSE IF reportSize = None THEN "MissingReportSize"
    ELSE IF logicalMin = None \/ logicalMax = None THEN "MissingLogicalRange"
    ELSE "none"

RejectInputItem(item) ==
    /\ Read(item, "Main", 8)
    /\ InputError # "none"
    /\ Reject(InputError)

(* Defective variant: the pending usage serves the next input item too. *)
KeepUsage == UNCHANGED usage

ConsumeUsage == usage' = None

(* Defective variant: fields start where the previous one starts. *)
StayAtBit == UNCHANGED bitOffset

(* current_bit_offset.wrapping_add(report_size) *)
AdvanceBits == bitOffset' = (bitOffset + reportSize) % Word

Padding(item) ==
    /\ Read(item, "Main", 8)
    /\ InputError = "none"
    /\ IsConstant(item)
    /\ AdvanceBits
    /\ ConsumeUsage
    /\ UNCHANGED <<globals, fields, status>>

Field(item) ==
    [reportId |-> reportId, bitOffset |-> bitOffset, bitSize |-> reportSize,
     logicalMin |-> logicalMin, logicalMax |-> logicalMax,
     usage |-> <<page, usage>>, variable |-> IsVariable(item)]

(* Defective variant: one field more than there are slots. *)
FullTooLate == Len(fields) > MaxFields

(* ReportDescriptorSummary::push_field *)
Full == Len(fields) >= MaxFields
OutOfOrder == Len(fields) > 0 /\ bitOffset < fields[Len(fields)].bitOffset

DataField(item) ==
    /\ Read(item, "Main", 8)
    /\ InputError = "none"
    /\ ~IsConstant(item)

RejectField(item) ==
    /\ DataField(item)
    /\ Full \/ OutOfOrder
    /\ Reject(IF Full THEN "TooManyFields" ELSE "FieldOutOfOrder")

PushField(item) ==
    /\ DataField(item)
    /\ ~Full
    /\ ~OutOfOrder
    /\ fields' = Append(fields, Field(item))
    /\ AdvanceBits
    /\ ConsumeUsage
    /\ UNCHANGED <<globals, status>>

-----------------------------------------------------------------------------
Finish ==
    /\ status = "parsing"
    /\ offset >= len
    /\ status' = "ok"
    /\ UNCHANGED <<len, offset, globals, usage, bitOffset, fields>>

Parse(item) ==
    \/ LongItem(item)
    \/ TruncatedItem(item)
    \/ SetUsagePage(item)
    \/ SetLogicalMin(item)
    \/ SetLogicalMax(item)
    \/ SetReportSize(item)
    \/ SetReportId(item)
    \/ SetReportCount(item)
    \/ SetUsage(item)
    \/ SkipItem(item)
    \/ RejectInputItem(item)
    \/ Padding(item)
    \/ RejectField(item)
    \/ PushField(item)

Next == (\E item \in Items : Parse(item)) \/ Finish

Spec == Init /\ [][Next]_vars /\ WF_vars(Next)

-----------------------------------------------------------------------------
(* The inputs of the firmware: the 64 bytes of a UsbEvent are few enough   *)
(* for 32 slots and 16-bit offsets.  The parser itself takes any length.   *)
InputFits ==
    /\ len < 2 * MaxFields + 6
    /\ 255 * len < 2 * Word

Refused == status \in {"TooManyFields", "FieldOutOfOrder"}

(* When the input comes from a UsbEvent, the field slots are never full    *)
(* and the bit offset never wraps, so the two errors of push_field and the *)
(* wrapping_add never come into play: an input item costs at least two     *)
(* bytes, with the usage it consumes, and none is accepted before four     *)
(* bytes of globals (lib.rs, push_field and the Input arm).                *)
CapacityNeverReached == InputFits => ~Refused

Disjoint ==
    \A i, j \in 1..Len(fields) :
        i < j => fields[i].bitOffset + fields[i].bitSize <= fields[j].bitOffset

(* Of such an input, the fields of the summary never share a bit and come  *)
(* in the order of their offsets, so that no bit of a report reaches two   *)
(* controls, padding or not.                                               *)
FieldsDisjoint == InputFits => Disjoint

(* What does not end the parser moves its offset on, whatever the item, so *)
(* that no item is read again and an input has at most as many steps as    *)
(* bytes (parse_short_item, parse_descriptor_summary).                     *)
MovesOn == [][status' = "parsing" => offset' \in offset + 1 .. len]_vars

(* The parser returns on every input: it moves on, and until it has        *)
(* returned there is always a step to take.                                *)
Terminates == MovesOn /\ <>(status # "parsing")
=============================================================================
