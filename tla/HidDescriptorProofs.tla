------------------------ MODULE HidDescriptorProofs -------------------------
(***************************************************************************)
(* Proofs about HidDescriptor, for inputs of any items: its types for any  *)
(* capacities, and, when the input is as short as a UsbEvent's buffer is   *)
(* for the code's capacities (InputFits), that the field slots are never   *)
(* exhausted, that offsets never wrap and that fields are disjoint.        *)
(***************************************************************************)
EXTENDS HidDescriptor, TLAPS

(* The values the parser takes from an item. *)
LEMMA ItemValues ==
    ASSUME NEW item \in Items
    PROVE  /\ item \in ShortItem
           /\ item.data \in Nat
           /\ item.size \in {0, 1, 2, 4}
           /\ Needed(item) \in Nat /\ Needed(item) >= 1
           /\ AsU16(item.data) \in 0..Word - 1
           /\ SignedValue(item) \in Int
<1>1. item \in ShortItem
  BY ItemsOK
<1>2. item.data \in Nat /\ item.size \in {0, 1, 2, 4}
  BY <1>1 DEF ShortItem
<1>3. Needed(item) \in Nat /\ Needed(item) >= 1
  BY <1>2 DEF Needed
<1>4. AsU16(item.data) \in 0..Word - 1 /\ AsU8(item.data) \in 0..255
  <2>1. PICK d \in Nat, w \in Nat \ {0} : d = item.data /\ w = Word
    BY <1>2, CapacityOK
  <2>2. d % w \in 0..w - 1 /\ d % 256 \in 0..255
    BY ONLY d \in Nat, w \in Nat \ {0}
  <2> QED
    BY ONLY <2>1, <2>2, Zenon DEF AsU16, AsU8
<1>5. SignedValue(item) \in Int
  <2>1. CASE item.size = 0
    BY <2>1 DEF SignedValue
  <2>2. CASE item.size = 1
    BY <2>2, <1>4 DEF SignedValue
  <2>3. CASE item.size = 2
    BY <2>3, <1>4, CapacityOK DEF SignedValue
  <2>4. CASE item.size = 4
    <3>1. Word * Word \in Int
      BY CapacityOK
    <3> QED
      BY <2>4, <1>2, <3>1 DEF SignedValue
  <2> QED
    BY <1>2, <2>1, <2>2, <2>3, <2>4
<1> QED
  BY <1>1, <1>2, <1>3, <1>4, <1>5

(* Reading an item moves the offset forward within the input. *)
LEMMA AdvanceType ==
    ASSUME TypeOK, NEW item \in Items, Advance(item)
    PROVE  /\ len' = len
           /\ len' \in 0..BufferLen
           /\ offset' \in 0..len'
           /\ offset' >= offset + 1
           /\ status = "parsing"
BY ItemValues, CapacityOK DEF TypeOK, Advance, More

(* Giving up on an item that has been read disturbs nothing but status. *)
LEMMA RejectType ==
    ASSUME TypeOK, NEW item \in Items, Advance(item), NEW error \in Errors, Reject(error)
    PROVE  TypeOK'
BY AdvanceType DEF TypeOK, Optional, Reject, globals

(* An input item that passes the checks finds every attribute set. *)
LEMMA AttributesSet ==
    ASSUME TypeOK, InputError = "none"
    PROVE  /\ page \in 0..Word - 1
           /\ usage \in 0..Word - 1
           /\ reportSize \in 0..255
           /\ logicalMin \in Int
           /\ logicalMax \in Int
BY DEF TypeOK, InputError, Optional

(* Wrapping arithmetic stays within its word. *)
LEMMA WrapType == ASSUME NEW n \in Nat PROVE n % Word \in 0..Word - 1
BY CapacityOK

(* The new offset is a u16, and a field is well formed. *)
LEMMA FieldType ==
    ASSUME TypeOK, NEW item \in Items, InputError = "none"
    PROVE  /\ (bitOffset + reportSize) % Word \in 0..Word - 1
           /\ Field(item) \in ReportField
<1>1. (bitOffset + reportSize) % Word \in 0..Word - 1
  <2>1. reportSize \in 0..255
    BY AttributesSet
  <2>2. bitOffset \in 0..Word - 1 /\ Word \in Nat
    BY CapacityOK DEF TypeOK
  <2>3. bitOffset + reportSize \in Nat
    BY <2>1, <2>2
  <2> QED
    BY <2>3, WrapType
<1>2. IsVariable(item) \in BOOLEAN
  BY DEF IsVariable
<1>3. <<page, usage>> \in (0..Word - 1) \X (0..Word - 1)
  BY AttributesSet
<1>4. Field(item) \in ReportField
  BY <1>2, <1>3, AttributesSet DEF Field, ReportField, TypeOK
<1> QED
  BY <1>1, <1>4

LEMMA InitType == Init => TypeOK
BY CapacityOK DEF Init, TypeOK, Optional

(* Every step keeps them. *)
LEMMA TypeStep == ASSUME TypeOK, [Next]_vars PROVE TypeOK'
<1>1. CASE UNCHANGED vars
  BY <1>1 DEF TypeOK, Optional, vars
<1>2. CASE Finish
  BY <1>2 DEF TypeOK, Optional, Finish, globals
<1>3. ASSUME NEW item \in Items, Parse(item) PROVE TypeOK'
  <2>1. CASE LongItem(item)
    BY <2>1 DEF TypeOK, Optional, LongItem, Fail, globals, Errors
  <2>2. CASE TruncatedItem(item)
    BY <2>2 DEF TypeOK, Optional, TruncatedItem, Fail, globals, Errors
  <2>3. CASE SetUsagePage(item)
    BY <2>3, AdvanceType, ItemValues DEF TypeOK, Optional, SetUsagePage, Read
  <2>4. CASE SetLogicalMin(item)
    BY <2>4, AdvanceType, ItemValues DEF TypeOK, Optional, SetLogicalMin, Read
  <2>5. CASE SetLogicalMax(item)
    BY <2>5, AdvanceType, ItemValues DEF TypeOK, Optional, SetLogicalMax, Read
  <2>6. CASE SetReportSize(item)
    <3>1. CASE item.data > 255
      <4>1. Advance(item) /\ Reject("ReportSizeOutOfRange")
        BY <2>6, <3>1 DEF SetReportSize, Read
      <4> QED
        BY <4>1, RejectType DEF Errors
    <3>2. CASE ~(item.data > 255)
      <4>1. reportSize' \in 0..255
        BY <2>6, <3>2, ItemValues DEF SetReportSize
      <4>2. /\ Advance(item)
            /\ UNCHANGED <<page, usage, logicalMin, logicalMax, reportCount, reportId,
                           bitOffset, fields, status>>
        BY <2>6, <3>2 DEF SetReportSize, Read
      <4>3. len' \in 0..BufferLen /\ offset' \in 0..len'
        BY <4>2, AdvanceType
      <4> QED
        BY ONLY TypeOK, <4>1, <4>2, <4>3 DEF TypeOK, Optional
    <3> QED
      BY <3>1, <3>2
  <2>7. CASE SetReportId(item)
    <3>1. CASE item.data > 255
      <4>1. Advance(item) /\ Reject("ReportIdOutOfRange")
        BY <2>7, <3>1 DEF SetReportId, Read
      <4> QED
        BY <4>1, RejectType DEF Errors
    <3>2. CASE ~(item.data > 255)
      <4>1. reportId' \in 0..255
        BY <2>7, <3>2, ItemValues DEF SetReportId
      <4>2. /\ Advance(item)
            /\ UNCHANGED <<page, usage, logicalMin, logicalMax, reportSize, reportCount,
                           bitOffset, fields, status>>
        BY <2>7, <3>2 DEF SetReportId, Read
      <4>3. len' \in 0..BufferLen /\ offset' \in 0..len'
        BY <4>2, AdvanceType
      <4> QED
        BY ONLY TypeOK, <4>1, <4>2, <4>3 DEF TypeOK, Optional
    <3> QED
      BY <3>1, <3>2
  <2>8. CASE SetReportCount(item)
    BY <2>8, AdvanceType, ItemValues DEF TypeOK, Optional, SetReportCount, Read
  <2>9. CASE SetUsage(item)
    BY <2>9, AdvanceType, ItemValues DEF TypeOK, Optional, SetUsage, Read, globals
  <2>10. CASE SkipItem(item)
    BY <2>10, AdvanceType DEF TypeOK, Optional, SkipItem, globals
  <2>11. CASE RejectInputItem(item)
    <3>1. InputError \in Errors
      BY <2>11 DEF RejectInputItem, InputError, Errors
    <3> QED
      BY <2>11, <3>1, RejectType DEF RejectInputItem, Read
  <2>12. CASE Padding(item)
    BY <2>12, AdvanceType, FieldType
       DEF TypeOK, Optional, Padding, Read, AdvanceBits, ConsumeUsage, globals
  <2>13. CASE RejectField(item)
    BY <2>13, RejectType DEF RejectField, DataField, Read, Errors
  <2>14. CASE PushField(item)
    <3>1. fields' \in Seq(ReportField) /\ Len(fields') = Len(fields) + 1
      BY <2>14, FieldType DEF TypeOK, PushField, DataField
    <3>2. Len(fields') <= MaxFields
      BY <2>14, <3>1, CapacityOK DEF TypeOK, PushField, Full
    <3> QED
      BY <2>14, <3>1, <3>2, AdvanceType, FieldType
         DEF TypeOK, Optional, PushField, DataField, Read, AdvanceBits,
             ConsumeUsage, globals
  <2> QED
    BY <1>3, <2>1, <2>2, <2>3, <2>4, <2>5, <2>6, <2>7, <2>8, <2>9, <2>10,
       <2>11, <2>12, <2>13, <2>14 DEF Parse
<1> QED
  BY <1>1, <1>2, <1>3 DEF Next

(* Every variable of the parser keeps its type, and there are never more   *)
(* fields than slots, whatever the capacities and the input.               *)
THEOREM TypeCorrect == Spec => []TypeOK
BY InitType, TypeStep, PTL DEF Spec

LEMMA StepMovesOn ==
    ASSUME TypeOK, [Next]_vars, vars' # vars, status' = "parsing"
    PROVE  offset' \in offset + 1 .. len
<1>1. PICK item \in Items : Parse(item)
  BY DEF Next, Finish
<1>2. Advance(item)
  <2>1. ~LongItem(item) /\ ~TruncatedItem(item)
    BY DEF LongItem, TruncatedItem, Fail
  <2> QED
    BY <1>1, <2>1 DEF Parse, SetUsagePage, SetLogicalMin, SetLogicalMax, SetReportSize,
                      SetReportId, SetReportCount, SetUsage, SkipItem, RejectInputItem, Padding,
                      RejectField, DataField, PushField, Read
<1> QED
  BY <1>2, AdvanceType DEF TypeOK

(* The safety half of termination, for inputs of any length: every item    *)
(* the parser goes on from costs a byte of the input.                      *)
THEOREM AlwaysMovesOn == Spec => MovesOn
<1>1. TypeOK /\ [Next]_vars => [status' = "parsing" => offset' \in offset + 1 .. len]_vars
  BY StepMovesOn
<1> QED
  BY <1>1, TypeCorrect, PTL DEF Spec, MovesOn

-----------------------------------------------------------------------------
(* Why a UsbEvent's buffer is enough: every attribute that is set cost a   *)
(* byte or more, and every field and every advance of the bit offset two,  *)
(* its input item's and those of the usage it consumed.                    *)
Have(attribute) == IF attribute = None THEN 0 ELSE 1

SlotsPaid == 2 * Len(fields) + Have(page) + Have(usage) + Have(logicalMin)
               + Have(logicalMax) + Have(reportSize) <= offset

BitsPaid == 2 * bitOffset + 255 * Have(usage) <= 255 * offset

FieldsBelow == \A i \in 1..Len(fields) :
                   fields[i].bitOffset + fields[i].bitSize <= bitOffset

CapacityInv ==
    /\ TypeOK
    /\ SlotsPaid
    /\ BitsPaid
    /\ FieldsBelow
    /\ Disjoint
    /\ ~Refused

(* What an attribute counts for. *)
LEMMA HaveValues ==
    /\ \A v : Have(v) \in {0, 1}
    /\ Have(None) = 0
    /\ \A v : v # None => Have(v) = 1
BY DEF Have

(* A set attribute is no option. *)
LEMMA NumbersAreSome == \A n \in Int : n # None
BY NoneOK

(* Arithmetic on the bytes read and the bits they may have defined. *)
LEMMA BitsPerByte ==
    ASSUME NEW a \in Nat, NEW b \in Nat, b >= a + 1
    PROVE  255 * a + 255 <= 255 * b
OBVIOUS

LEMMA BitsSum ==
    ASSUME NEW bits \in Nat, NEW size \in 0..255, NEW bytes \in Nat,
           2 * bits + 255 <= 255 * bytes
    PROVE  /\ bits + size \in Nat
           /\ 2 * (bits + size) <= 255 * bytes + 255
OBVIOUS

LEMMA BytesPaid ==
    ASSUME NEW sum \in Nat, NEW a \in Nat, NEW b \in Nat, b >= a + 1,
           2 * sum <= 255 * a + 255
    PROVE  2 * sum + 255 * 0 <= 255 * b
BY BitsPerByte

LEMMA EndBelow ==
    ASSUME NEW start \in Nat, NEW size \in Nat, NEW a \in Nat, NEW b \in Nat,
           start + size <= a, a <= b
    PROVE  start + size <= b
OBVIOUS

(* A field lies where its offset and size, two natural numbers, say. *)
LEMMA FieldNumbers ==
    ASSUME NEW field \in ReportField
    PROVE  field.bitOffset \in Nat /\ field.bitSize \in Nat
<1>1. field.bitOffset \in 0..Word - 1 /\ field.bitSize \in 0..255
  BY DEF ReportField
<1>2. field.bitOffset \in Nat
  BY <1>1, CapacityOK
<1> QED
  BY <1>1, <1>2

(* Fields that stay as they are stay below an offset that grows. *)
LEMMA FieldsKept ==
    ASSUME CapacityInv, fields' = fields, bitOffset' \in Nat, bitOffset' >= bitOffset
    PROVE  FieldsBelow' /\ Disjoint'
<1>1. fields \in Seq(ReportField) /\ bitOffset \in Nat
  BY CapacityOK DEF CapacityInv, TypeOK
<1>2. ASSUME NEW i \in 1..Len(fields)
      PROVE  fields[i].bitOffset + fields[i].bitSize <= bitOffset'
  <2>1. fields[i] \in ReportField
    BY <1>1
  <2>2. fields[i].bitOffset + fields[i].bitSize <= bitOffset
    BY DEF CapacityInv, FieldsBelow
  <2> QED
    BY <1>1, <2>1, <2>2, FieldNumbers, EndBelow
<1> QED
  BY <1>2 DEF CapacityInv, FieldsBelow, Disjoint

(* What an accepted input item finds: two bytes paid for every field, all  *)
(* attributes paid for, and one more byte to read.                         *)
LEMMA InputItemPaid ==
    ASSUME CapacityInv, NEW item \in Items, Advance(item), InputError = "none"
    PROVE  /\ offset \in Nat /\ offset' \in Nat
           /\ offset + 1 <= offset' /\ offset' <= len
           /\ 2 * Len(fields) + 5 <= offset
           /\ bitOffset \in Nat
           /\ reportSize \in 0..255
           /\ 2 * bitOffset + 255 <= 255 * offset
<1>1. TypeOK /\ SlotsPaid /\ BitsPaid
  BY DEF CapacityInv
<1>2. /\ Have(page) = 1 /\ Have(usage) = 1 /\ Have(logicalMin) = 1
      /\ Have(logicalMax) = 1 /\ Have(reportSize) = 1
  BY HaveValues DEF InputError
<1>3. offset \in Nat /\ bitOffset \in Nat /\ Len(fields) \in Nat /\ len \in Nat
  BY <1>1, CapacityOK DEF TypeOK
<1>4. offset' \in Nat /\ offset + 1 <= offset' /\ offset' <= len
  BY <1>1, <1>3, AdvanceType, CapacityOK
<1>5. 2 * Len(fields) + 5 <= offset
  BY <1>1, <1>2, <1>3 DEF SlotsPaid
<1>6. 2 * bitOffset + 255 <= 255 * offset
  BY <1>1, <1>2 DEF BitsPaid
<1> QED
  BY <1>1, <1>3, <1>4, <1>5, <1>6, AttributesSet

(* wrapping_add does not wrap. *)
LEMMA NoWrap ==
    ASSUME InputFits, CapacityInv, NEW item \in Items, Advance(item), InputError = "none"
    PROVE  (bitOffset + reportSize) % Word = bitOffset + reportSize
<1> DEFINE sum == bitOffset + reportSize
<1>0. /\ bitOffset \in Nat /\ reportSize \in 0..255 /\ offset \in Nat
      /\ 2 * bitOffset + 255 <= 255 * offset
  BY InputItemPaid
<1>1. sum \in Nat /\ 2 * sum <= 255 * offset + 255
  BY <1>0, BitsSum
<1>2. /\ offset \in Nat /\ len \in Nat /\ Word \in Nat
      /\ len >= offset + 1
  <2>1. len \in Nat
    BY CapacityOK DEF CapacityInv, TypeOK
  <2> QED
    BY <2>1, InputItemPaid, CapacityOK
<1>3. sum < Word
  <2>1. 255 * offset + 255 <= 255 * len
    BY <1>2, BitsPerByte
  <2> QED
    BY <1>1, <1>2, <2>1 DEF InputFits
<1>4. \A n \in Nat : n < Word => n % Word = n
  BY CapacityOK
<1> QED
  BY <1>1, <1>3, <1>4

(* push_field has no reason to refuse. *)
LEMMA RoomForField ==
    ASSUME InputFits, CapacityInv, NEW item \in Items, Advance(item), InputError = "none"
    PROVE  ~Full /\ ~OutOfOrder
<1>1. fields \in Seq(ReportField) /\ Len(fields) \in Nat
  BY DEF CapacityInv, TypeOK
<1>2. ~Full
  <2>1. len \in Nat
    BY CapacityOK DEF CapacityInv, TypeOK
  <2> QED
    BY <1>1, <2>1, InputItemPaid, CapacityOK DEF Full, InputFits
<1>3. ASSUME Len(fields) > 0, bitOffset < fields[Len(fields)].bitOffset PROVE FALSE
  <2>1. Len(fields) \in 1..Len(fields)
    BY <1>1, <1>3
  <2>2. fields[Len(fields)] \in ReportField
    BY <1>1, <2>1
  <2>3. /\ fields[Len(fields)].bitOffset \in Nat
        /\ fields[Len(fields)].bitSize \in Nat
    BY <2>2, FieldNumbers
  <2>4. fields[Len(fields)].bitOffset + fields[Len(fields)].bitSize <= bitOffset
    BY <2>1 DEF CapacityInv, FieldsBelow
  <2>5. bitOffset \in Nat
    BY CapacityOK DEF CapacityInv, TypeOK
  <2> QED
    BY ONLY <1>3, <2>3, <2>4, <2>5
<1> QED
  BY <1>2, <1>3 DEF OutOfOrder

(* A step that adds no field and moves no bit offset keeps what is paid,   *)
(* when it costs a byte for the attribute it may set.                      *)
LEMMA AttributeStep ==
    ASSUME CapacityInv, TypeOK', offset' >= offset + 1, UNCHANGED <<fields, bitOffset>>,
           status' \notin {"TooManyFields", "FieldOutOfOrder"},
           Have(page') + Have(usage') + Have(logicalMin') + Have(logicalMax')
             + Have(reportSize')
           <= Have(page) + Have(usage) + Have(logicalMin) + Have(logicalMax)
                + Have(reportSize) + 1
    PROVE  CapacityInv'
<1>1. TypeOK /\ SlotsPaid /\ BitsPaid
  BY DEF CapacityInv
<1>2. offset \in Nat /\ offset' \in Nat /\ bitOffset \in Nat /\ Len(fields) \in Nat
  BY <1>1, CapacityOK DEF TypeOK
<1>3. SlotsPaid'
  <2>1. /\ Have(page) \in {0, 1} /\ Have(usage) \in {0, 1} /\ Have(logicalMin) \in {0, 1}
        /\ Have(logicalMax) \in {0, 1} /\ Have(reportSize) \in {0, 1}
    BY HaveValues
  <2>2. /\ Have(page') \in {0, 1} /\ Have(usage') \in {0, 1} /\ Have(logicalMin') \in {0, 1}
        /\ Have(logicalMax') \in {0, 1} /\ Have(reportSize') \in {0, 1}
    BY HaveValues
  <2> DEFINE set == Have(page) + Have(usage) + Have(logicalMin) + Have(logicalMax)
                      + Have(reportSize)
             set1 == Have(page') + Have(usage') + Have(logicalMin') + Have(logicalMax')
                       + Have(reportSize')
  <2>3. set \in Int /\ set1 \in Int /\ set1 <= set + 1
    BY <2>1, <2>2
  <2>4. 2 * Len(fields) + set <= offset
    BY <1>1, <1>2, <2>1 DEF SlotsPaid
  <2>5. 2 * Len(fields') + set1 <= offset'
    <3> HIDE DEF set, set1
    <3> QED
      BY <1>2, <2>3, <2>4
  <2> QED
    BY <1>2, <2>2, <2>5 DEF SlotsPaid
<1>4. BitsPaid'
  <2>1. Have(usage) \in {0, 1} /\ Have(usage') \in {0, 1}
    BY HaveValues
  <2>2. 2 * bitOffset' + 255 * Have(usage') <= 2 * bitOffset + 255 * Have(usage) + 255
    BY <1>2, <2>1
  <2>3. 2 * bitOffset + 255 * Have(usage) <= 255 * offset
    BY <1>1 DEF BitsPaid
  <2>4. 255 * offset + 255 <= 255 * offset'
    BY <1>2, BitsPerByte
  <2> QED
    BY <1>2, <2>1, <2>2, <2>3, <2>4 DEF BitsPaid
<1>5. FieldsBelow' /\ Disjoint'
  BY <1>2, FieldsKept
<1> QED
  BY <1>3, <1>4, <1>5 DEF CapacityInv, Refused

(* An input item that takes its usage and advances the bit offset pays for *)
(* the field it may push.                                                  *)
LEMMA InputItemStep ==
    ASSUME InputFits, CapacityInv, NEW item \in Items, Advance(item), InputError = "none",
           AdvanceBits, ConsumeUsage
    PROVE  /\ bitOffset' = bitOffset + reportSize
           /\ bitOffset \in Nat /\ bitOffset' \in Nat /\ reportSize \in 0..255
           /\ bitOffset' >= bitOffset
           /\ BitsPaid'
<1>1. bitOffset' = bitOffset + reportSize
  BY NoWrap DEF AdvanceBits
<1>2. /\ bitOffset \in Nat /\ reportSize \in 0..255
      /\ offset \in Nat /\ offset' \in Nat /\ offset' >= offset + 1
      /\ 2 * bitOffset + 255 <= 255 * offset
  BY InputItemPaid
<1>3. /\ bitOffset + reportSize \in Nat
      /\ bitOffset + reportSize >= bitOffset
      /\ 2 * (bitOffset + reportSize) <= 255 * offset + 255
  <2>1. reportSize \in Nat
    BY <1>2
  <2>2. bitOffset + reportSize >= bitOffset
    BY <1>2, <2>1
  <2> QED
    BY <1>2, <2>2, BitsSum
<1>4. bitOffset' \in Nat /\ bitOffset' >= bitOffset
  BY <1>1, <1>3
<1>5. BitsPaid'
  <2>1. Have(usage') = 0
    BY HaveValues DEF ConsumeUsage
  <2>2. 2 * (bitOffset + reportSize) + 255 * 0 <= 255 * offset'
    BY <1>2, <1>3, BytesPaid
  <2> QED
    BY <1>1, <2>1, <2>2 DEF BitsPaid
<1> QED
  BY <1>1, <1>2, <1>4, <1>5

(* Padding moves the offset and adds no field. *)
LEMMA PaddingStep ==
    ASSUME InputFits, CapacityInv, TypeOK', NEW item \in Items, Padding(item)
    PROVE  CapacityInv'
<1>1. /\ Advance(item) /\ InputError = "none" /\ AdvanceBits /\ ConsumeUsage
      /\ fields' = fields /\ status' = status
      /\ UNCHANGED <<page, logicalMin, logicalMax, reportSize>>
  BY DEF Padding, Read, globals
<1>2. BitsPaid' /\ bitOffset' \in Nat /\ bitOffset' >= bitOffset
  BY <1>1, InputItemStep
<1>3. FieldsBelow' /\ Disjoint'
  BY <1>1, <1>2, FieldsKept
<1>4. SlotsPaid'
  <2>1. 2 * Len(fields) + 5 <= offset /\ offset \in Nat /\ offset' \in Nat
        /\ offset' >= offset + 1
    BY <1>1, InputItemPaid
  <2>2. /\ Len(fields') = Len(fields) /\ Len(fields) \in Nat
        /\ Have(usage') = 0 /\ Have(page') \in {0, 1} /\ Have(logicalMin') \in {0, 1}
        /\ Have(logicalMax') \in {0, 1} /\ Have(reportSize') \in {0, 1}
    BY <1>1, HaveValues DEF ConsumeUsage, CapacityInv, TypeOK
  <2> QED
    BY <2>1, <2>2 DEF SlotsPaid
<1> QED
  BY <1>1, <1>2, <1>3, <1>4 DEF CapacityInv, Refused

(* A field starts where everything before it has ended. *)
LEMMA PushFieldStep ==
    ASSUME InputFits, CapacityInv, TypeOK', NEW item \in Items, PushField(item)
    PROVE  CapacityInv'
<1>1. /\ Advance(item) /\ InputError = "none" /\ AdvanceBits /\ ConsumeUsage
      /\ fields' = Append(fields, Field(item)) /\ status' = status
      /\ UNCHANGED <<page, logicalMin, logicalMax, reportSize>>
  BY DEF PushField, DataField, Read, globals
<1>2. /\ fields \in Seq(ReportField) /\ Len(fields) \in Nat
      /\ fields' \in Seq(ReportField)
  BY DEF CapacityInv, TypeOK
<1>3. /\ BitsPaid' /\ bitOffset \in Nat /\ bitOffset' \in Nat
      /\ bitOffset' = bitOffset + reportSize /\ bitOffset' >= bitOffset
  BY <1>1, InputItemStep
<1>4. /\ Len(fields') = Len(fields) + 1
      /\ \A i \in 1..Len(fields) : fields'[i] = fields[i]
      /\ fields'[Len(fields) + 1] = Field(item)
  BY <1>1, <1>2
<1>5. Field(item).bitOffset = bitOffset /\ Field(item).bitSize = reportSize
  BY DEF Field
<1>6. \A i \in 1..Len(fields) : fields[i].bitOffset + fields[i].bitSize <= bitOffset
  BY DEF CapacityInv, FieldsBelow
<1>7. FieldsBelow'
  <2>1. ASSUME NEW i \in 1..Len(fields')
        PROVE  fields'[i].bitOffset + fields'[i].bitSize <= bitOffset'
    <3>1. CASE i = Len(fields) + 1
      BY <3>1, <1>3, <1>4, <1>5
    <3>2. CASE i # Len(fields) + 1
      <4>1. i \in 1..Len(fields)
        BY <3>2, <1>2, <1>4
      <4>2. fields[i] \in ReportField
        BY <4>1, <1>2
      <4> QED
        BY <4>1, <4>2, <1>3, <1>4, <1>6, FieldNumbers, EndBelow
    <3> QED
      BY <3>1, <3>2
  <2> QED
    BY <2>1 DEF FieldsBelow
<1>8. Disjoint'
  <2>1. ASSUME NEW i \in 1..Len(fields'), NEW j \in 1..Len(fields'), i < j
        PROVE  fields'[i].bitOffset + fields'[i].bitSize <= fields'[j].bitOffset
    <3>1. i \in 1..Len(fields)
      BY <2>1, <1>2, <1>4
    <3>2. CASE j = Len(fields) + 1
      BY <3>1, <3>2, <1>4, <1>5, <1>6
    <3>3. CASE j # Len(fields) + 1
      <4>1. j \in 1..Len(fields)
        BY <3>3, <1>2, <1>4
      <4> QED
        BY <2>1, <3>1, <4>1, <1>4 DEF CapacityInv, Disjoint
    <3> QED
      BY <3>2, <3>3
  <2> QED
    BY <2>1 DEF Disjoint
<1>9. SlotsPaid'
  <2>1. 2 * Len(fields) + 5 <= offset /\ offset \in Nat /\ offset' \in Nat
        /\ offset' >= offset + 1
    BY <1>1, InputItemPaid
  <2>2. /\ Have(usage') = 0 /\ Have(page') \in {0, 1} /\ Have(logicalMin') \in {0, 1}
        /\ Have(logicalMax') \in {0, 1} /\ Have(reportSize') \in {0, 1}
    BY <1>1, HaveValues DEF ConsumeUsage
  <2> QED
    BY <2>1, <2>2, <1>2, <1>4 DEF SlotsPaid
<1> QED
  BY <1>1, <1>3, <1>7, <1>8, <1>9 DEF CapacityInv, Refused

(* A step that changes nothing that is paid for. *)
LEMMA StatusStep ==
    ASSUME CapacityInv, TypeOK', status' \notin {"TooManyFields", "FieldOutOfOrder"},
           UNCHANGED <<offset, fields, bitOffset, page, usage, logicalMin, logicalMax,
                       reportSize>>
    PROVE  CapacityInv'
BY DEF CapacityInv, SlotsPaid, BitsPaid, Have, FieldsBelow, Disjoint,
       Refused

(* A byte for every attribute set: the steps that set at most one. *)
LEMMA GlobalStep ==
    ASSUME CapacityInv, TypeOK', NEW item \in Items, Advance(item),
           UNCHANGED <<fields, bitOffset>>,
           status' \notin {"TooManyFields", "FieldOutOfOrder"},
           \/ UNCHANGED <<usage, logicalMin, logicalMax, reportSize>>
           \/ UNCHANGED <<page, logicalMin, logicalMax, reportSize>>
           \/ UNCHANGED <<page, usage, logicalMax, reportSize>>
           \/ UNCHANGED <<page, usage, logicalMin, reportSize>>
           \/ UNCHANGED <<page, usage, logicalMin, logicalMax>>
    PROVE  CapacityInv'
<1>1. offset' >= offset + 1
  BY AdvanceType DEF CapacityInv
<1>2. /\ Have(page) \in {0, 1} /\ Have(usage) \in {0, 1} /\ Have(logicalMin) \in {0, 1}
      /\ Have(logicalMax) \in {0, 1} /\ Have(reportSize) \in {0, 1}
      /\ Have(page') \in {0, 1} /\ Have(usage') \in {0, 1} /\ Have(logicalMin') \in {0, 1}
      /\ Have(logicalMax') \in {0, 1} /\ Have(reportSize') \in {0, 1}
  BY HaveValues
<1>3. Have(page') + Have(usage') + Have(logicalMin') + Have(logicalMax')
        + Have(reportSize')
      <= Have(page) + Have(usage) + Have(logicalMin) + Have(logicalMax)
           + Have(reportSize) + 1
  BY <1>2
<1> QED
  BY <1>1, <1>3, AttributeStep

(* The capacity invariant is inductive, for inputs that fit. *)
LEMMA CapacityInductive ==
    ASSUME InputFits, CapacityInv, TypeOK', [Next]_vars
    PROVE  CapacityInv'
<1>1. CASE UNCHANGED vars
  BY <1>1, StatusStep DEF vars, globals, CapacityInv, Refused
<1>2. CASE Finish
  BY <1>2, StatusStep DEF Finish, globals
<1>3. ASSUME NEW item \in Items, Parse(item) PROVE CapacityInv'
  <2> status \notin {"TooManyFields", "FieldOutOfOrder"}
    BY DEF CapacityInv, Refused
  <2>1. CASE LongItem(item)
    BY <2>1, StatusStep DEF LongItem, Fail, globals
  <2>2. CASE TruncatedItem(item)
    BY <2>2, StatusStep DEF TruncatedItem, Fail, globals
  <2>3. CASE SetUsagePage(item)
    BY <2>3, GlobalStep DEF SetUsagePage, Read
  <2>4. CASE SetLogicalMin(item)
    BY <2>4, GlobalStep DEF SetLogicalMin, Read
  <2>5. CASE SetLogicalMax(item)
    BY <2>5, GlobalStep DEF SetLogicalMax, Read
  <2>6. CASE SetReportSize(item)
    BY <2>6, GlobalStep DEF SetReportSize, Read, Reject, globals
  <2>7. CASE SetReportId(item)
    BY <2>7, GlobalStep DEF SetReportId, Read, Reject, globals
  <2>8. CASE SetReportCount(item)
    BY <2>8, GlobalStep DEF SetReportCount, Read
  <2>9. CASE SetUsage(item)
    BY <2>9, GlobalStep DEF SetUsage, Read, globals
  <2>10. CASE SkipItem(item)
    BY <2>10, GlobalStep DEF SkipItem, globals
  <2>11. CASE RejectInputItem(item)
    <3>1. InputError \notin {"TooManyFields", "FieldOutOfOrder"}
      BY DEF InputError
    <3> QED
      BY <2>11, <3>1, GlobalStep DEF RejectInputItem, Read, Reject, globals
  <2>12. CASE Padding(item)
    BY <2>12, PaddingStep
  <2>13. CASE RejectField(item)
    BY <2>13, RoomForField DEF RejectField, DataField, Read
  <2>14. CASE PushField(item)
    BY <2>14, PushFieldStep
  <2> QED
    BY <1>3, <2>1, <2>2, <2>3, <2>4, <2>5, <2>6, <2>7, <2>8, <2>9, <2>10,
       <2>11, <2>12, <2>13, <2>14 DEF Parse
<1> QED
  BY <1>1, <1>2, <1>3 DEF Next

(* The input's length is never touched. *)
LEMMA LengthKept == ASSUME [Next]_vars PROVE len' = len
BY DEF Next, Parse, vars, Finish, LongItem, TruncatedItem, Fail, SetUsagePage,
       SetLogicalMin, SetLogicalMax, SetReportSize, SetReportId, SetReportCount,
       SetUsage, SkipItem, RejectInputItem, Padding, RejectField, DataField,
       PushField, Read, Advance

FitsInv == InputFits => CapacityInv

LEMMA CapacityInvariant == Spec => []FitsInv
<1>1. Init /\ TypeOK => FitsInv
  BY HaveValues
     DEF FitsInv, Init, CapacityInv, SlotsPaid, BitsPaid, FieldsBelow, Disjoint, Refused
<1>2. FitsInv /\ TypeOK' /\ [Next]_vars => FitsInv'
  <2> SUFFICES ASSUME FitsInv, TypeOK', [Next]_vars, InputFits' PROVE CapacityInv'
    BY DEF FitsInv
  <2>1. InputFits
    BY LengthKept DEF InputFits
  <2> QED
    BY <2>1, CapacityInductive DEF FitsInv
<1> QED
  BY <1>1, <1>2, TypeCorrect, PTL DEF Spec

(* For every input as short as a UsbEvent's buffer, the parser reports     *)
(* neither a full summary nor a field out of order: the 32 slots and the   *)
(* 16-bit offsets are more than 64 bytes of descriptor can use.            *)
THEOREM CapacitySuffices == Spec => []CapacityNeverReached
<1>1. FitsInv => CapacityNeverReached
  BY DEF FitsInv, CapacityInv, CapacityNeverReached
<1> QED
  BY <1>1, CapacityInvariant, PTL

(* For such inputs no two fields of a summary share a bit of the report.   *)
THEOREM FieldsNeverOverlap == Spec => []FieldsDisjoint
<1>1. FitsInv => FieldsDisjoint
  BY DEF FitsInv, CapacityInv, FieldsDisjoint
<1> QED
  BY <1>1, CapacityInvariant, PTL
=============================================================================
