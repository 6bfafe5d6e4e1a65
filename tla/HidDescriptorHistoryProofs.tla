--------------------- MODULE HidDescriptorHistoryProofs ----------------------
(***************************************************************************)
(* Proofs about HidDescriptorHistory, for inputs of any items and length:  *)
(* the summary is the one the items read call for, and an input item is    *)
(* refused for what it lacks and for nothing else.  What an item was       *)
(* preceded by does not change when more are read (LastKept), the parser's *)
(* attributes are those in force at the next item (Attributes), and each   *)
(* item changes both alike.                                                *)
(***************************************************************************)
EXTENDS HidDescriptorHistory, HidDescriptorProofs, FiniteSetTheorems

(* A set of numbers that has a largest one. *)
Largest(S) == \E m \in S : \A y \in S : m >= y

(* Max is the largest one there is. *)
LEMMA MaxOf ==
    ASSUME NEW S, S \subseteq Nat, Largest(S)
    PROVE  Max(S) \in S /\ \A y \in S : Max(S) >= y
BY Zenon DEF Max, Largest

(* What is at least every other is the Max. *)
LEMMA MaxIs ==
    ASSUME NEW S, S \subseteq Nat, NEW m \in S, \A y \in S : m >= y
    PROVE  Max(S) = m
<1>1. Largest(S)
  BY DEF Largest
<1>2. Max(S) \in S /\ Max(S) >= m
  BY <1>1, MaxOf
<1>3. m \in Nat /\ Max(S) \in Nat /\ m >= Max(S)
  BY <1>2
<1> QED
  BY <1>2, <1>3

-----------------------------------------------------------------------------
(* The items read. *)

HistoryTypes ==
    /\ items \in Seq(Items)
    /\ starts \in Seq(Nat)
    /\ Len(starts) = Len(items)

(* The last item before item i is one of the items before it. *)
Bounded ==
    \A i \in 1 .. Len(items) + 1 : \A type, tag : LastBefore(i, type, tag) \in 0 .. i - 1

(* One more item is read. *)
Appends(item) ==
    /\ items' = Append(items, item)
    /\ starts' = Append(starts, Bits)

(* The items before it stay, and it is the last. *)
LEMMA AppendedItem ==
    ASSUME HistoryTypes, NEW item \in Items, Appends(item), NEW n, n = Len(items)
    PROVE  /\ n \in Nat
           /\ Len(items') = n + 1
           /\ \A i \in 1..n : items'[i] = items[i] /\ starts'[i] = starts[i]
           /\ \A i \in 1..n : items[i] \in Items /\ starts[i] \in Nat
           /\ items'[n + 1] = item
           /\ starts'[n + 1] = Bits
BY DEF HistoryTypes, Appends

(* What an item was preceded by does not change. *)
LEMMA LastKept ==
    ASSUME HistoryTypes, NEW item \in Items, Appends(item), NEW i \in 1 .. Len(items) + 1,
           NEW type, NEW tag
    PROVE  LastBefore(i, type, tag)' = LastBefore(i, type, tag)
<1> DEFINE n == Len(items)
<1>1. n \in Nat /\ \A j \in 1..n : items'[j] = items[j]
  BY AppendedItem
<1>2. {j \in 1 .. i - 1 : items'[j].type = type /\ items'[j].tag = tag}
        = {j \in 1 .. i - 1 : items[j].type = type /\ items[j].tag = tag}
  BY <1>1
<1> QED
  BY <1>2 DEF LastBefore, Is

(* The last of a type and tag before the next item. *)
Last(type, tag) == LastBefore(Len(items) + 1, type, tag)

(* An item read becomes the last of its type and tag. *)
LEMMA LastTaken ==
    ASSUME HistoryTypes, NEW item \in Items, Appends(item)
    PROVE  /\ Last(item.type, item.tag)' = Len(items) + 1
           /\ items'[Len(items) + 1] = item
<1> DEFINE n == Len(items)
           S == {0} \cup {j \in 1 .. n + 1 :
                             items'[j].type = item.type /\ items'[j].tag = item.tag}
<1>1. n \in Nat /\ Len(items') = n + 1 /\ items'[n + 1] = item
  BY AppendedItem
<1>2. S \subseteq Nat /\ n + 1 \in S /\ \A y \in S : n + 1 >= y
  BY <1>1
<1>3. Max(S) = n + 1
  <2> HIDE DEF S
  <2> QED
    BY <1>2, MaxIs
<1>4. {j \in 1 .. (Len(items') + 1) - 1 :
          items'[j].type = item.type /\ items'[j].tag = item.tag}
        = {j \in 1 .. n + 1 : items'[j].type = item.type /\ items'[j].tag = item.tag}
  BY <1>1
<1>5. Last(item.type, item.tag)' = Max(S)
  BY <1>4 DEF Last, LastBefore, Is
<1> QED
  BY <1>1, <1>3, <1>5

(* It leaves the last of any other as it was. *)
LEMMA LastOthers ==
    ASSUME HistoryTypes, Bounded, NEW item \in Items, Appends(item), NEW type, NEW tag,
           <<item.type, item.tag>> # <<type, tag>>
    PROVE  /\ Last(type, tag)' = Last(type, tag)
           /\ Last(type, tag) \in 0 .. Len(items)
           /\ Last(type, tag) # 0 => /\ items'[Last(type, tag)] = items[Last(type, tag)]
                                     /\ items[Last(type, tag)] \in Items
<1> DEFINE n == Len(items)
<1>1. /\ n \in Nat /\ Len(items') = n + 1 /\ items'[n + 1] = item
      /\ \A j \in 1..n : items'[j] = items[j] /\ items[j] \in Items
  BY AppendedItem
<1>2. {j \in 1 .. (Len(items') + 1) - 1 : items'[j].type = type /\ items'[j].tag = tag}
        = {j \in 1 .. (Len(items) + 1) - 1 : items[j].type = type /\ items[j].tag = tag}
  BY <1>1
<1>3. Last(type, tag)' = Last(type, tag)
  BY <1>2 DEF Last, LastBefore, Is
<1>4. Last(type, tag) \in 0..n
  BY <1>1 DEF Last, Bounded
<1> QED
  BY <1>1, <1>3, <1>4

LEMMA BoundedStep ==
    ASSUME HistoryTypes, Bounded, NEW item \in Items, Appends(item)
    PROVE  Bounded'
<1> DEFINE n == Len(items)
<1>1. n \in Nat /\ Len(items') = n + 1
  BY AppendedItem
<1>2. ASSUME NEW i \in 1 .. n + 2, NEW type, NEW tag
      PROVE  LastBefore(i, type, tag)' \in 0 .. i - 1
  <2>1. CASE i \in 1 .. n + 1
    BY <2>1, LastKept DEF Bounded
  <2>2. CASE i = n + 2
    <3>1. LastBefore(i, type, tag)' = Last(type, tag)'
      BY <1>1, <2>2 DEF Last
    <3>2. CASE <<item.type, item.tag>> = <<type, tag>>
      BY <1>1, <2>2, <3>1, <3>2, LastTaken
    <3>3. CASE <<item.type, item.tag>> # <<type, tag>>
      BY <1>1, <2>2, <3>1, <3>3, LastOthers
    <3> QED
      BY <3>2, <3>3
  <2> QED
    BY <1>1, <2>1, <2>2
<1>3. Len(items') + 1 = n + 2
  BY <1>1
<1> QED
  BY <1>2, <1>3 DEF Bounded

-----------------------------------------------------------------------------
(* The attributes in force at the next item. *)

LastGlobal(tag) == Last("Global", tag)

PageInForce == page = IF LastGlobal(0) = 0 THEN None
                      ELSE AsU16(items[LastGlobal(0)].data)
MinInForce == logicalMin = IF LastGlobal(1) = 0 THEN None
                           ELSE SignedValue(items[LastGlobal(1)])
MaxInForce == logicalMax = IF LastGlobal(2) = 0 THEN None
                           ELSE SignedValue(items[LastGlobal(2)])
SizeInForce == reportSize = IF LastGlobal(7) = 0 THEN None
                            ELSE items[LastGlobal(7)].data
IdInForce == reportId = IF LastGlobal(8) = 0 THEN 0 ELSE items[LastGlobal(8)].data
CountInForce == reportCount = IF LastGlobal(9) = 0 THEN 1
                              ELSE items[LastGlobal(9)].data
UsageInForce == usage = IF Last("Local", 0) > Last("Main", 8)
                        THEN AsU16(items[Last("Local", 0)].data)
                        ELSE None

Attributes ==
    /\ PageInForce
    /\ MinInForce
    /\ MaxInForce
    /\ SizeInForce
    /\ IdInForce
    /\ CountInForce
    /\ UsageInForce

(* An attribute stays in force until an item sets it. *)
LEMMA AttributesKept ==
    ASSUME HistoryTypes, Bounded, Attributes, NEW item \in Items, Appends(item)
    PROVE  LET is(type, tag) == <<item.type, item.tag>> = <<type, tag>>
           IN  /\ page' = page /\ ~is("Global", 0) => PageInForce'
               /\ logicalMin' = logicalMin /\ ~is("Global", 1) => MinInForce'
               /\ logicalMax' = logicalMax /\ ~is("Global", 2) => MaxInForce'
               /\ reportSize' = reportSize /\ ~is("Global", 7) => SizeInForce'
               /\ reportId' = reportId /\ ~is("Global", 8) => IdInForce'
               /\ reportCount' = reportCount /\ ~is("Global", 9) => CountInForce'
               /\ usage' = usage /\ ~is("Local", 0) /\ ~is("Main", 8) => UsageInForce'
<1>1. ASSUME NEW tag, <<item.type, item.tag>> # <<"Global", tag>>
      PROVE  /\ LastGlobal(tag)' = LastGlobal(tag)
             /\ LastGlobal(tag) # 0 => items'[LastGlobal(tag)] = items[LastGlobal(tag)]
  BY <1>1, LastOthers DEF LastGlobal
<1>2. page' = page /\ <<item.type, item.tag>> # <<"Global", 0>> => PageInForce'
  BY <1>1 DEF Attributes, PageInForce
<1>3. logicalMin' = logicalMin /\ <<item.type, item.tag>> # <<"Global", 1>> => MinInForce'
  BY <1>1 DEF Attributes, MinInForce
<1>4. logicalMax' = logicalMax /\ <<item.type, item.tag>> # <<"Global", 2>> => MaxInForce'
  BY <1>1 DEF Attributes, MaxInForce
<1>5. reportSize' = reportSize /\ <<item.type, item.tag>> # <<"Global", 7>> => SizeInForce'
  BY <1>1 DEF Attributes, SizeInForce
<1>6. reportId' = reportId /\ <<item.type, item.tag>> # <<"Global", 8>> => IdInForce'
  BY <1>1 DEF Attributes, IdInForce
<1>7. reportCount' = reportCount /\ <<item.type, item.tag>> # <<"Global", 9>>
        => CountInForce'
  BY <1>1 DEF Attributes, CountInForce
<1>8. ASSUME usage' = usage, <<item.type, item.tag>> # <<"Local", 0>>,
             <<item.type, item.tag>> # <<"Main", 8>>
      PROVE  UsageInForce'
  <2>1. /\ Last("Local", 0)' = Last("Local", 0) /\ Last("Local", 0) \in 0 .. Len(items)
        /\ Last("Local", 0) # 0 => items'[Last("Local", 0)] = items[Last("Local", 0)]
    BY <1>8, LastOthers
  <2>2. Last("Main", 8)' = Last("Main", 8) /\ Last("Main", 8) \in 0 .. Len(items)
    BY <1>8, LastOthers
  <2>3. Last("Local", 0) > Last("Main", 8) => Last("Local", 0) # 0
    BY <2>1, <2>2
  <2> QED
    BY <1>8, <2>1, <2>2, <2>3 DEF Attributes, UsageInForce
<1> QED
  BY <1>2, <1>3, <1>4, <1>5, <1>6, <1>7, <1>8

(* The item that sets an attribute puts its own value in force. *)
LEMMA AttributeSet ==
    ASSUME HistoryTypes, Bounded, NEW item \in Items, Appends(item)
    PROVE  LET is(type, tag) == item.type = type /\ item.tag = tag
           IN  /\ is("Global", 0) /\ page' = AsU16(item.data) => PageInForce'
               /\ is("Global", 1) /\ logicalMin' = SignedValue(item) => MinInForce'
               /\ is("Global", 2) /\ logicalMax' = SignedValue(item) => MaxInForce'
               /\ is("Global", 7) /\ reportSize' = item.data => SizeInForce'
               /\ is("Global", 8) /\ reportId' = item.data => IdInForce'
               /\ is("Global", 9) /\ reportCount' = item.data => CountInForce'
               /\ is("Local", 0) /\ usage' = AsU16(item.data) => UsageInForce'
               /\ is("Main", 8) /\ usage' = None => UsageInForce'
<1> DEFINE n == Len(items)
<1>1. n \in Nat /\ n + 1 # 0
  BY DEF HistoryTypes
<1>2. ASSUME NEW tag, item.type = "Global", item.tag = tag
      PROVE  LastGlobal(tag)' = n + 1 /\ items'[LastGlobal(tag)'] = item
  BY <1>2, LastTaken DEF LastGlobal
<1>3. ASSUME item.type = "Local", item.tag = 0, usage' = AsU16(item.data)
      PROVE  UsageInForce'
  <2>1. Last("Local", 0)' = n + 1 /\ items'[n + 1] = item
    BY <1>3, LastTaken
  <2>2. Last("Main", 8)' \in 0..n
    BY <1>3, LastOthers
  <2> QED
    BY <1>1, <1>3, <2>1, <2>2 DEF UsageInForce
<1>4. ASSUME item.type = "Main", item.tag = 8, usage' = None
      PROVE  UsageInForce'
  <2>1. Last("Main", 8)' = n + 1
    BY <1>4, LastTaken
  <2>2. Last("Local", 0)' \in 0..n
    BY <1>4, LastOthers
  <2> QED
    BY <1>1, <1>4, <2>1, <2>2 DEF UsageInForce
<1> QED
  BY <1>1, <1>2, <1>3, <1>4
     DEF PageInForce, MinInForce, MaxInForce, SizeInForce, IdInForce, CountInForce

-----------------------------------------------------------------------------
(* The bits, inputs and fields so far. *)

BitsCounted == Bits \in Nat /\ bitOffset = Bits % Word

InputsComplete == \A i \in InputItems(Len(items)) : Complete(i)

OneFieldEach ==
    /\ Len(fields) = Cardinality(DataItems(Len(items)))
    /\ \A i \in DataItems(Len(items)) : fields[Cardinality(DataItems(i))] = FieldOf(i)

Determined ==
    /\ Bounded
    /\ Attributes
    /\ BitsCounted
    /\ InputsComplete
    /\ OneFieldEach

(* What the items call for at an item does not change when more are read. *)
LEMMA MeaningKept ==
    ASSUME HistoryTypes, Bounded, NEW item \in Items, Appends(item),
           NEW i \in 1 .. Len(items)
    PROVE  /\ Is(i, "Main", 8)' <=> Is(i, "Main", 8)
           /\ InputItems(i)' = InputItems(i)
           /\ DataItems(i)' = DataItems(i)
           /\ Complete(i)' <=> Complete(i)
           /\ Complete(i) => FieldOf(i)' = FieldOf(i)
<1> DEFINE n == Len(items)
<1>1. /\ n \in Nat
      /\ \A j \in 1..n : items'[j] = items[j] /\ starts'[j] = starts[j]
  BY AppendedItem
<1>2. \A j \in 1..i : Is(j, "Main", 8)' <=> Is(j, "Main", 8)
  BY <1>1 DEF Is
<1>3. InputItems(i)' = InputItems(i)
  BY <1>2 DEF InputItems
<1>4. DataItems(i)' = DataItems(i)
  <2>1. \A j \in InputItems(i) : items'[j] = items[j]
    BY <1>1 DEF InputItems
  <2> QED
    BY <1>3, <2>1 DEF DataItems
<1>5. ASSUME NEW type, NEW tag
      PROVE  /\ LastBefore(i, type, tag)' = LastBefore(i, type, tag)
             /\ LastBefore(i, type, tag) # 0
                  => items'[LastBefore(i, type, tag)] = items[LastBefore(i, type, tag)]
  <2>1. LastBefore(i, type, tag) \in 0 .. i - 1
    BY <1>1 DEF Bounded
  <2> QED
    BY <1>1, <2>1, LastKept
<1>6. Complete(i)' <=> Complete(i)
  <2>1. CountIsOne(i)' <=> CountIsOne(i)
    BY <1>5 DEF CountIsOne
  <2>2. HasUsage(i)' <=> HasUsage(i)
    BY <1>5 DEF HasUsage
  <2> QED
    BY <1>5, <2>1, <2>2 DEF Complete
<1>7. ASSUME Complete(i) PROVE FieldOf(i)' = FieldOf(i)
  <2>1. ReportIdAt(i)' = ReportIdAt(i)
    BY <1>5 DEF ReportIdAt
  <2>2. \A tag \in {0, 1, 2, 7} : LastBefore(i, "Global", tag) # 0
    BY <1>7 DEF Complete
  <2>3. LastBefore(i, "Local", 0) # 0
    <3>1. LastBefore(i, "Local", 0) \in 0 .. i - 1 /\ LastBefore(i, "Main", 8) \in 0 .. i - 1
      BY <1>1 DEF Bounded
    <3> QED
      BY <1>7, <3>1 DEF Complete, HasUsage
  <2>4. SizeAt(i)' = SizeAt(i)
    BY <1>5, <2>2 DEF SizeAt
  <2>5. items'[i] = items[i] /\ starts'[i] = starts[i]
    BY <1>1
  <2>6. /\ items'[LastBefore(i, "Global", 0)'] = items[LastBefore(i, "Global", 0)]
        /\ items'[LastBefore(i, "Global", 1)'] = items[LastBefore(i, "Global", 1)]
        /\ items'[LastBefore(i, "Global", 2)'] = items[LastBefore(i, "Global", 2)]
        /\ items'[LastBefore(i, "Local", 0)'] = items[LastBefore(i, "Local", 0)]
    BY <1>5, <2>2, <2>3
  <2> QED
    BY <2>1, <2>4, <2>5, <2>6 DEF FieldOf
<1> QED
  BY <1>2, <1>3, <1>4, <1>6, <1>7

(* Which items are input items with one more read. *)
LEMMA InputsAdded ==
    ASSUME HistoryTypes, Bounded, NEW item \in Items, Appends(item),
           NEW n \in Nat, n = Len(items)
    PROVE  LET input == item.type = "Main" /\ item.tag = 8
           IN  /\ Is(n + 1, "Main", 8)' <=> input
               /\ InputItems(n + 1)' = InputItems(n) \cup (IF input THEN {n + 1} ELSE {})
               /\ DataItems(n + 1)' = DataItems(n) \cup
                     (IF input /\ ~IsConstant(item) THEN {n + 1} ELSE {})
               /\ DataItems(n) \subseteq InputItems(n) /\ InputItems(n) \subseteq 1..n
<1> DEFINE input == item.type = "Main" /\ item.tag = 8
<1>1. /\ n \in Nat /\ items'[n + 1] = item
      /\ \A j \in 1..n : items'[j] = items[j]
  BY AppendedItem
<1>2. Is(n + 1, "Main", 8)' <=> input
  BY <1>1 DEF Is
<1>3. \A j \in 1..n : Is(j, "Main", 8)' <=> Is(j, "Main", 8)
  BY <1>1 DEF Is
<1>4. InputItems(n + 1)' = InputItems(n) \cup (IF input THEN {n + 1} ELSE {})
  BY <1>1, <1>2, <1>3 DEF InputItems
<1>5. DataItems(n) \subseteq InputItems(n) /\ InputItems(n) \subseteq 1..n
  BY DEF DataItems, InputItems
<1>6. DataItems(n + 1)' = DataItems(n) \cup
        (IF input /\ ~IsConstant(item) THEN {n + 1} ELSE {})
  BY <1>1, <1>4, <1>5 DEF DataItems
<1> QED
  BY <1>2, <1>4, <1>5, <1>6

(* An input item lacks something exactly when the parser has an error for  *)
(* it, and when it lacks nothing its field is the one the parser makes.    *)
LEMMA ErrorIffIncomplete ==
    ASSUME TypeOK, HistoryTypes, Determined, NEW item \in Items, Appends(item),
           NEW n \in Nat, n = Len(items)
    PROVE  /\ InputError = "none" <=> Complete(n + 1)'
           /\ InputError = "none" => /\ FieldOf(n + 1)' = Field(item)
                                     /\ SizeAt(n + 1)' = reportSize
<1>1. /\ n \in Nat /\ items'[n + 1] = item /\ starts'[n + 1] = Bits
      /\ \A j \in 1..n : items'[j] = items[j] /\ items[j] \in Items
  BY AppendedItem
<1>2. ASSUME NEW type, NEW tag
      PROVE  /\ LastBefore(n + 1, type, tag)' = Last(type, tag)
             /\ Last(type, tag) \in 0..n
             /\ Last(type, tag) # 0 => /\ items'[Last(type, tag)] = items[Last(type, tag)]
                                       /\ items[Last(type, tag)] \in Items
  <2>1. LastBefore(n + 1, type, tag)' = Last(type, tag)
    BY <1>1, LastKept DEF Last
  <2>2. Last(type, tag) \in 0..n
    <3>1. n + 1 \in 1 .. n + 1 /\ (n + 1) - 1 = n
      BY <1>1
    <3> QED
      BY <3>1 DEF Determined, Bounded, Last
  <2> QED
    BY <1>1, <2>1, <2>2
<1>3. Attributes
  BY DEF Determined
<1>4. page # None <=> LastGlobal(0) # 0
  BY <1>2, <1>3, ItemValues, NumbersAreSome DEF Attributes, PageInForce, LastGlobal
<1>5. logicalMin # None <=> LastGlobal(1) # 0
  BY <1>2, <1>3, ItemValues, NumbersAreSome DEF Attributes, MinInForce, LastGlobal
<1>6. logicalMax # None <=> LastGlobal(2) # 0
  BY <1>2, <1>3, ItemValues, NumbersAreSome DEF Attributes, MaxInForce, LastGlobal
<1>7. reportSize # None <=> LastGlobal(7) # 0
  BY <1>2, <1>3, ItemValues, NumbersAreSome DEF Attributes, SizeInForce, LastGlobal
<1>8. reportCount = 1 <=> CountIsOne(n + 1)'
  BY <1>2, <1>3 DEF Attributes, CountInForce, LastGlobal, CountIsOne
<1>9. /\ usage # None <=> HasUsage(n + 1)'
      /\ usage # None => Last("Local", 0) # 0
  <2>1. Last("Local", 0) > Last("Main", 8) => Last("Local", 0) # 0
    BY <1>2
  <2>2. Last("Local", 0) # 0 => AsU16(items[Last("Local", 0)].data) # None
    BY <1>2, ItemValues, NumbersAreSome
  <2> QED
    BY <1>2, <1>3, <2>1, <2>2 DEF Attributes, UsageInForce, HasUsage
<1>10. InputError = "none" <=> Complete(n + 1)'
  <2>1. Complete(n + 1)' <=> /\ reportCount = 1 /\ usage # None /\ page # None
                             /\ logicalMin # None /\ logicalMax # None
                             /\ reportSize # None
    BY <1>2, <1>4, <1>5, <1>6, <1>7, <1>8, <1>9 DEF Complete, LastGlobal
  <2> QED
    BY <2>1 DEF InputError
<1>11. ASSUME InputError = "none"
       PROVE  FieldOf(n + 1)' = Field(item) /\ SizeAt(n + 1)' = reportSize
  <2>1. /\ page # None /\ usage # None /\ logicalMin # None /\ logicalMax # None
        /\ reportSize # None
    BY <1>11 DEF InputError
  <2>2. SizeAt(n + 1)' = reportSize
    BY <1>2, <1>3, <1>7, <2>1 DEF SizeAt, Attributes, SizeInForce, LastGlobal
  <2>3. ReportIdAt(n + 1)' = reportId
    BY <1>2, <1>3 DEF ReportIdAt, Attributes, IdInForce, LastGlobal
  <2>4. SignedValue(items'[LastBefore(n + 1, "Global", 1)']) = logicalMin
    BY <1>2, <1>3, <1>5, <2>1 DEF Attributes, MinInForce, LastGlobal
  <2>5. SignedValue(items'[LastBefore(n + 1, "Global", 2)']) = logicalMax
    BY <1>2, <1>3, <1>6, <2>1 DEF Attributes, MaxInForce, LastGlobal
  <2>6. AsU16(items'[LastBefore(n + 1, "Global", 0)'].data) = page
    BY <1>2, <1>3, <1>4, <2>1 DEF Attributes, PageInForce, LastGlobal
  <2>7. AsU16(items'[LastBefore(n + 1, "Local", 0)'].data) = usage
    BY <1>2, <1>3, <1>9, <2>1 DEF Attributes, UsageInForce
  <2>8. starts'[n + 1] % Word = bitOffset
    BY <1>1 DEF Determined, BitsCounted
  <2> QED
    BY <1>1, <2>2, <2>3, <2>4, <2>5, <2>6, <2>7, <2>8 DEF FieldOf, Field
<1> QED
  BY <1>10, <1>11

-----------------------------------------------------------------------------
(* What reading an item does to them. *)

(* A multiple of a positive number that lies nearer to zero than it is zero. *)
LEMMA SmallMultiple ==
    ASSUME NEW w \in Nat \ {0}, NEW k \in Int, w * k < w, -w < w * k
    PROVE  k = 0
<1>1. ASSUME k >= 1 PROVE FALSE
  <2>1. w * k >= w * 1
    BY <1>1
  <2> QED
    BY <2>1
<1>2. ASSUME k <= -1 PROVE FALSE
  <2>1. w * k <= w * (-1)
    BY <1>2
  <2> QED
    BY <2>1
<1> QED
  BY <1>1, <1>2

(* Quotient and remainder are unique. *)
LEMMA Remainder ==
    ASSUME NEW w \in Nat \ {0}, NEW q \in Int, NEW r \in 0 .. w - 1
    PROVE  (w * q + r) % w = r
<1> DEFINE a == w * q + r
<1>1. a \in Int /\ w * q \in Int
  OBVIOUS
<1>2. a = w * (a \div w) + (a % w) /\ (a % w) \in 0 .. w - 1 /\ a \div w \in Int
  <2> HIDE DEF a
  <2> QED
    BY <1>1
<1>3. w * (q - (a \div w)) = (a % w) - r
  <2> DEFINE k == a \div w
             m == a % w
  <2>1. a = w * k + m /\ m \in Int /\ k \in Int
    BY <1>2
  <2>2. a = w * q + r
    OBVIOUS
  <2> HIDE DEF a, k, m
  <2>3. w * (q - k) = w * q - w * k
    BY <2>1
  <2>4. w * k \in Int
    BY <2>1
  <2>5. w * (q - k) = m - r
    BY <1>1, <2>1, <2>2, <2>3, <2>4
  <2> QED
    BY <2>5 DEF k, m
<1>4. q - (a \div w) = 0
  <2> DEFINE k == q - (a \div w)
  <2>1. k \in Int /\ w * k < w /\ -w < w * k
    BY <1>2, <1>3
  <2> HIDE DEF k
  <2> QED
    BY <2>1, SmallMultiple
<1> QED
  <2>1. w * 0 = 0
    OBVIOUS
  <2> QED
    BY <1>2, <1>3, <1>4, <2>1

(* Wrapping once at the end is wrapping at every addition. *)
LEMMA WrapSum ==
    ASSUME NEW x \in Nat, NEW size \in Nat
    PROVE  ((x % Word) + size) % Word = (x + size) % Word
<1> DEFINE q == x \div Word
           r == x % Word
           y == r + size
           p == y \div Word
           m == y % Word
<1>1. Word \in Nat \ {0}
  BY CapacityOK
<1>2. x = Word * q + r /\ q \in Int /\ r \in 0 .. Word - 1
  BY <1>1
<1>3. y \in Nat
  BY <1>2
<1>4. y = Word * p + m /\ p \in Int /\ m \in 0 .. Word - 1
  <2> HIDE DEF y
  <2> QED
    BY <1>1, <1>3
<1>5. x + size = Word * (q + p) + m
  <2> HIDE DEF q, r, p, m
  <2>1. Word * (q + p) = Word * q + Word * p
    BY <1>1, <1>2, <1>4
  <2>2. Word * q \in Int /\ Word * p \in Int
    BY <1>1, <1>2, <1>4
  <2> QED
    BY <1>2, <1>4, <2>1, <2>2
<1>6. (Word * (q + p) + m) % Word = m
  <2> HIDE DEF q, p, m
  <2>1. q + p \in Int
    BY <1>2, <1>4
  <2> QED
    BY <1>1, <1>4, <2>1, Remainder
<1> QED
  BY <1>5, <1>6

(* The bits of the items read, with one more. *)
LEMMA BitsAdded ==
    ASSUME HistoryTypes, NEW item \in Items, Appends(item), NEW n \in Nat, n = Len(items)
    PROVE  Bits' = Bits + IF item.type = "Main" /\ item.tag = 8 THEN SizeAt(n + 1)' ELSE 0
<1>1. Len(items') = n + 1 /\ n + 1 # 0 /\ items'[n + 1] = item /\ starts'[n + 1] = Bits
  BY AppendedItem
<1>2. Is(n + 1, "Main", 8)' <=> item.type = "Main" /\ item.tag = 8
  BY <1>1 DEF Is
<1> QED
  BY <1>1, <1>2 DEF Bits

(* The inputs read before are as complete as they were. *)
LEMMA InputsKept ==
    ASSUME HistoryTypes, Determined, NEW item \in Items, Appends(item)
    PROVE  \A i \in InputItems(Len(items)) : Complete(i) /\ Complete(i)'
<1>1. InputItems(Len(items)) \subseteq 1 .. Len(items)
  BY DEF InputItems
<1> QED
  BY <1>1, MeaningKept DEF Determined, InputsComplete

(* There are finitely many data items. *)
LEMMA DataItemsFinite ==
    ASSUME NEW n \in Nat
    PROVE  IsFiniteSet(DataItems(n)) /\ DataItems(n) \in SUBSET (1..n)
<1>1. DataItems(n) \in SUBSET (1..n)
  BY DEF DataItems, InputItems
<1>2. 1 \in Int /\ n \in Int
  OBVIOUS
<1>3. IsFiniteSet(1..n)
  BY <1>2, FS_Interval
<1> QED
  BY <1>1, <1>3, FS_Subset

(* The data items before one are no more than the fields. *)
LEMMA FieldIndex ==
    ASSUME HistoryTypes, Determined, NEW i \in DataItems(Len(items))
    PROVE  Cardinality(DataItems(i)) \in 1 .. Len(fields)
<1> DEFINE n == Len(items)
<1>1. n \in Nat
  BY DEF HistoryTypes
<1>2. IsFiniteSet(DataItems(n)) /\ DataItems(n) \subseteq 1..n
  BY <1>1, DataItemsFinite
<1>3. DataItems(i) \subseteq DataItems(n) /\ i \in DataItems(i)
  BY <1>1, <1>2 DEF DataItems, InputItems
<1>4. /\ IsFiniteSet(DataItems(i)) /\ Cardinality(DataItems(i)) \in Nat
      /\ Cardinality(DataItems(i)) <= Cardinality(DataItems(n))
      /\ Cardinality(DataItems(n)) \in Nat
  BY <1>2, <1>3, FS_Subset, FS_CardinalityType
<1>5. Cardinality(DataItems(i)) # 0
  BY <1>3, <1>4, FS_EmptySet
<1>6. Len(fields) = Cardinality(DataItems(n))
  BY DEF Determined, OneFieldEach
<1> QED
  BY <1>4, <1>5, <1>6

(* The fields there are stay those of the data items read before. *)
LEMMA FieldsKeep ==
    ASSUME HistoryTypes, Determined, NEW item \in Items, Appends(item),
           \A k \in 1 .. Len(fields) : fields'[k] = fields[k],
           NEW i \in DataItems(Len(items))
    PROVE  fields'[Cardinality(DataItems(i)')] = FieldOf(i)'
<1>1. i \in 1 .. Len(items) /\ i \in InputItems(Len(items))
  BY DEF DataItems, InputItems
<1>2. DataItems(i)' = DataItems(i) /\ FieldOf(i)' = FieldOf(i)
  BY <1>1, InputsKept, MeaningKept DEF Determined
<1>3. fields[Cardinality(DataItems(i))] = FieldOf(i)
  BY DEF Determined, OneFieldEach
<1> QED
  BY <1>2, <1>3, FieldIndex

(* An item that is no input item defines no bits and no field. *)
LEMMA OtherItem ==
    ASSUME HistoryTypes, Determined, NEW item \in Items, Appends(item),
           ~(item.type = "Main" /\ item.tag = 8), UNCHANGED <<bitOffset, fields>>
    PROVE  BitsCounted' /\ InputsComplete' /\ OneFieldEach'
<1> SUFFICES ASSUME NEW n \in Nat, n = Len(items)
             PROVE  BitsCounted' /\ InputsComplete' /\ OneFieldEach'
  BY DEF HistoryTypes
<1>1. Len(items') = n + 1
  BY AppendedItem
<1>2. /\ InputItems(n + 1)' = InputItems(n)
      /\ DataItems(n + 1)' = DataItems(n)
  BY InputsAdded DEF Determined
<1>3. BitsCounted'
  <2>1. Bits' = Bits + 0
    BY BitsAdded
  <2> QED
    BY <2>1 DEF Determined, BitsCounted
<1>4. InputsComplete'
  BY <1>1, <1>2, InputsKept DEF InputsComplete
<1>5. OneFieldEach'
  BY <1>1, <1>2, FieldsKeep DEF OneFieldEach, Determined
<1> QED
  BY <1>3, <1>4, <1>5

(* An accepted input item counts its bits and is complete. *)
LEMMA InputItem ==
    ASSUME TypeOK, HistoryTypes, Determined, NEW item \in Items, Appends(item),
           item.type = "Main", item.tag = 8, InputError = "none", AdvanceBits
    PROVE  BitsCounted' /\ InputsComplete'
<1> SUFFICES ASSUME NEW n \in Nat, n = Len(items)
             PROVE  BitsCounted' /\ InputsComplete'
  BY DEF HistoryTypes
<1>1. Len(items') = n + 1
  BY AppendedItem
<1>2. InputItems(n + 1)' = InputItems(n) \cup {n + 1}
  BY InputsAdded DEF Determined
<1>3. Complete(n + 1)' /\ SizeAt(n + 1)' = reportSize
  BY ErrorIffIncomplete
<1>4. InputsComplete'
  BY <1>1, <1>2, <1>3, InputsKept DEF InputsComplete
<1>5. BitsCounted'
  <2>1. Bits \in Nat /\ bitOffset = Bits % Word /\ reportSize \in Nat
    <3>1. reportSize \in 0..255
      BY AttributesSet
    <3> QED
      BY <3>1 DEF Determined, BitsCounted
  <2>2. Bits' = Bits + reportSize
    BY <1>3, BitsAdded
  <2>3. bitOffset' = (Bits + reportSize) % Word
    BY <2>1, WrapSum DEF AdvanceBits
  <2>4. Bits + reportSize \in Nat
    BY <2>1
  <2> QED
    BY <2>2, <2>3, <2>4 DEF BitsCounted
<1> QED
  BY <1>4, <1>5

(* Padding adds no field. *)
LEMMA PaddingItem ==
    ASSUME HistoryTypes, Determined, NEW item \in Items, Appends(item),
           IsConstant(item), UNCHANGED fields
    PROVE  OneFieldEach'
<1> SUFFICES ASSUME NEW n \in Nat, n = Len(items)
             PROVE  OneFieldEach'
  BY DEF HistoryTypes
<1>1. Len(items') = n + 1
  BY AppendedItem
<1>2. DataItems(n + 1)' = DataItems(n)
  BY InputsAdded DEF Determined
<1> QED
  BY <1>1, <1>2, FieldsKeep DEF OneFieldEach, Determined

(* A data item adds its own. *)
LEMMA DataItem ==
    ASSUME TypeOK, HistoryTypes, Determined, NEW item \in Items, Appends(item),
           item.type = "Main", item.tag = 8, InputError = "none", ~IsConstant(item),
           fields' = Append(fields, Field(item))
    PROVE  OneFieldEach'
<1> SUFFICES ASSUME NEW n \in Nat, n = Len(items)
             PROVE  OneFieldEach'
  BY DEF HistoryTypes
<1>1. Len(items') = n + 1
  BY AppendedItem
<1>2. DataItems(n + 1)' = DataItems(n) \cup {n + 1} /\ DataItems(n) \subseteq 1..n
  BY InputsAdded DEF Determined
<1>3. Cardinality(DataItems(n + 1)') = Cardinality(DataItems(n)) + 1
  <2>1. IsFiniteSet(DataItems(n))
    BY DataItemsFinite
  <2>2. n + 1 \notin DataItems(n)
    BY <1>2
  <2> QED
    BY <1>2, <2>1, <2>2, FS_AddElement
<1>4. Len(fields) = Cardinality(DataItems(n)) /\ Len(fields) \in Nat
  BY DEF Determined, OneFieldEach, TypeOK
<1>5. /\ Len(fields') = Len(fields) + 1
      /\ \A k \in 1 .. Len(fields) : fields'[k] = fields[k]
      /\ fields'[Len(fields) + 1] = Field(item)
  BY DEF TypeOK
<1>6. ASSUME NEW i \in DataItems(n + 1)'
      PROVE  fields'[Cardinality(DataItems(i)')] = FieldOf(i)'
  <2>1. CASE i \in DataItems(n)
    BY <2>1, <1>5, FieldsKeep
  <2>2. CASE i = n + 1
    <3>1. FieldOf(n + 1)' = Field(item)
      BY ErrorIffIncomplete
    <3> QED
      BY <2>2, <3>1, <1>3, <1>4, <1>5
  <2> QED
    BY <1>2, <2>1, <2>2
<1> QED
  BY <1>1, <1>3, <1>4, <1>5, <1>6 DEF OneFieldEach

-----------------------------------------------------------------------------
(* The invariant. *)

Missing == {"MissingUsagePage", "MissingUsage", "MissingReportSize",
            "MissingLogicalRange", "UnsupportedReportCount"}

LastLacks == Is(Len(items), "Main", 8) /\ ~Complete(Len(items))

HistoryInv ==
    /\ HistoryTypes
    /\ Accepted => Determined
    /\ status \in Missing => LastLacks

LEMMA HistoryInit == HInit => HistoryInv
<1> SUFFICES ASSUME HInit PROVE HistoryInv
  OBVIOUS
<1>1. items = <<>> /\ starts = <<>> /\ Len(items) = 0 /\ fields = <<>> /\ Len(fields) = 0
  BY DEF HInit, Init
<1>2. HistoryTypes
  BY <1>1 DEF HistoryTypes
<1>3. \A type, tag : LastBefore(1, type, tag) = 0
  <2> SUFFICES ASSUME NEW type, NEW tag PROVE LastBefore(1, type, tag) = 0
    OBVIOUS
  <2>1. {0} \cup {j \in 1 .. 1 - 1 : Is(j, type, tag)} = {0}
    OBVIOUS
  <2>2. Max({0}) = 0
    BY MaxIs
  <2> QED
    BY <2>1, <2>2 DEF LastBefore
<1>4. Bounded
  BY <1>1, <1>3 DEF Bounded
<1>5. Attributes
  <2>1. \A type, tag : Last(type, tag) = 0
    BY <1>1, <1>3 DEF Last
  <2> QED
    BY <2>1 DEF Attributes, HInit, Init, PageInForce, MinInForce, MaxInForce,
                SizeInForce, IdInForce, CountInForce, UsageInForce, LastGlobal
<1>6. BitsCounted
  <2>1. Bits = 0
    BY <1>1 DEF Bits
  <2>2. 0 % Word = 0
    BY CapacityOK
  <2> QED
    BY <2>1, <2>2 DEF BitsCounted, HInit, Init
<1>7. InputsComplete
  BY <1>1 DEF InputsComplete, InputItems
<1>8. OneFieldEach
  <2>1. DataItems(0) = {}
    BY DEF DataItems, InputItems
  <2> QED
    BY <1>1, <2>1, FS_EmptySet DEF OneFieldEach
<1>9. status \notin Missing
  BY DEF HInit, Init, Missing
<1> QED
  BY <1>2, <1>4, <1>5, <1>6, <1>7, <1>8, <1>9 DEF HistoryInv, Determined

(* An item accepted that is no input item. *)
LEMMA AttributeItem ==
    ASSUME HistoryTypes, Determined, NEW item \in Items, Appends(item),
           ~(item.type = "Main" /\ item.tag = 8), UNCHANGED <<bitOffset, fields>>,
           Attributes', status' \notin Missing
    PROVE  HistoryInv'
<1>1. HistoryTypes'
  <2>1. Bits \in Nat
    BY DEF Determined, BitsCounted
  <2> QED
    BY <2>1 DEF HistoryTypes, Appends
<1>2. Bounded'
  BY BoundedStep DEF Determined
<1> QED
  BY <1>1, <1>2, OtherItem DEF HistoryInv, Determined

(* An item refused. *)
LEMMA RefusedItem ==
    ASSUME HistoryTypes, Determined, NEW item \in Items, Appends(item),
           status' \in Errors, status' \in Missing => LastLacks'
    PROVE  HistoryInv'
<1>1. HistoryTypes'
  <2>1. Bits \in Nat
    BY DEF Determined, BitsCounted
  <2> QED
    BY <2>1 DEF HistoryTypes, Appends
<1>2. ~Accepted'
  BY DEF Accepted, Errors
<1> QED
  BY <1>1, <1>2 DEF HistoryInv

(* Every item keeps the invariant. *)
LEMMA ItemStep ==
    ASSUME TypeOK, HistoryInv, NEW item \in Items, HParse(item)
    PROVE  HistoryInv'
<1>1. status = "parsing"
  BY DEF HParse, Parse, LongItem, TruncatedItem, SetUsagePage, SetLogicalMin,
         SetLogicalMax, SetReportSize, SetReportId, SetReportCount, SetUsage, SkipItem,
         RejectInputItem, Padding, RejectField, DataField, PushField, Read, Advance, More
<1>2. HistoryTypes /\ Determined /\ Bounded /\ Attributes /\ Appends(item)
  BY <1>1 DEF HistoryInv, Accepted, Determined, HParse, Appends
<1>3. status \notin Missing
  BY <1>1 DEF Missing
<1>4. /\ PageInForce /\ MinInForce /\ MaxInForce /\ SizeInForce /\ IdInForce
      /\ CountInForce /\ UsageInForce
  BY <1>2 DEF Attributes
<1>5. CASE LongItem(item)
  BY <1>2, <1>5, RefusedItem DEF LongItem, Fail, Errors, Missing
<1>6. CASE TruncatedItem(item)
  BY <1>2, <1>6, RefusedItem DEF TruncatedItem, Fail, Errors, Missing
<1>7. CASE SetUsagePage(item)
  <2>1. Attributes'
    BY <1>2, <1>7, AttributesKept, AttributeSet DEF SetUsagePage, Read, Attributes
  <2> QED
    BY <1>2, <1>3, <1>7, <2>1, AttributeItem DEF SetUsagePage, Read
<1>8. CASE SetLogicalMin(item)
  <2>1. Attributes'
    BY <1>2, <1>8, AttributesKept, AttributeSet DEF SetLogicalMin, Read, Attributes
  <2> QED
    BY <1>2, <1>3, <1>8, <2>1, AttributeItem DEF SetLogicalMin, Read
<1>9. CASE SetLogicalMax(item)
  <2>1. Attributes'
    BY <1>2, <1>9, AttributesKept, AttributeSet DEF SetLogicalMax, Read, Attributes
  <2> QED
    BY <1>2, <1>3, <1>9, <2>1, AttributeItem DEF SetLogicalMax, Read
<1>10. CASE SetReportSize(item)
  <2>1. CASE item.data > 255
    BY <1>2, <1>10, <2>1, RefusedItem DEF SetReportSize, Reject, Errors, Missing
  <2>2. CASE ~(item.data > 255)
    <3>1. Attributes'
      BY <1>2, <1>10, <2>2, AttributesKept, AttributeSet DEF SetReportSize, Read, Attributes
    <3> QED
      BY <1>2, <1>3, <1>10, <2>2, <3>1, AttributeItem DEF SetReportSize, Read
  <2> QED
    BY <2>1, <2>2
<1>11. CASE SetReportId(item)
  <2>1. CASE item.data > 255
    BY <1>2, <1>11, <2>1, RefusedItem DEF SetReportId, Reject, Errors, Missing
  <2>2. CASE ~(item.data > 255)
    <3>1. Attributes'
      BY <1>2, <1>11, <2>2, AttributesKept, AttributeSet DEF SetReportId, Read, Attributes
    <3> QED
      BY <1>2, <1>3, <1>11, <2>2, <3>1, AttributeItem DEF SetReportId, Read
  <2> QED
    BY <2>1, <2>2
<1>12. CASE SetReportCount(item)
  <2>1. Attributes'
    BY <1>2, <1>12, AttributesKept, AttributeSet DEF SetReportCount, Read, Attributes
  <2> QED
    BY <1>2, <1>3, <1>12, <2>1, AttributeItem DEF SetReportCount, Read
<1>13. CASE SetUsage(item)
  <2>1. Attributes'
    BY <1>2, <1>13, AttributesKept, AttributeSet DEF SetUsage, Read, Attributes, globals
  <2> QED
    BY <1>2, <1>3, <1>13, <2>1, AttributeItem DEF SetUsage, Read, globals
<1>14. CASE SkipItem(item)
  <2>1. /\ <<item.type, item.tag>> # <<"Global", 0>>
        /\ <<item.type, item.tag>> # <<"Global", 1>>
        /\ <<item.type, item.tag>> # <<"Global", 2>>
        /\ <<item.type, item.tag>> # <<"Global", 7>>
        /\ <<item.type, item.tag>> # <<"Global", 8>>
        /\ <<item.type, item.tag>> # <<"Global", 9>>
        /\ <<item.type, item.tag>> # <<"Local", 0>>
        /\ <<item.type, item.tag>> # <<"Main", 8>>
    BY <1>14 DEF SkipItem
  <2>2. Attributes'
    BY <1>2, <1>14, <2>1, AttributesKept DEF SkipItem, Attributes, globals
  <2> QED
    BY <1>2, <1>3, <1>14, <2>1, <2>2, AttributeItem DEF SkipItem
<1>15. CASE RejectInputItem(item)
  <2> SUFFICES ASSUME NEW n \in Nat, n = Len(items)
               PROVE  HistoryInv'
    BY <1>2 DEF HistoryTypes
  <2>1. Len(items') = n + 1
    BY <1>2, AppendedItem
  <2>2. Is(n + 1, "Main", 8)'
    BY <1>2, <1>15, InputsAdded DEF RejectInputItem, Read
  <2>3. ~Complete(n + 1)'
    BY <1>2, <1>15, ErrorIffIncomplete DEF RejectInputItem
  <2>4. status' \in Errors
    BY <1>15 DEF RejectInputItem, Reject, InputError, Errors
  <2> QED
    BY <1>2, <2>1, <2>2, <2>3, <2>4, RefusedItem DEF LastLacks
<1>16. CASE Padding(item) \/ PushField(item)
  <2>1. /\ item.type = "Main" /\ item.tag = 8 /\ InputError = "none"
        /\ AdvanceBits /\ usage' = None /\ UNCHANGED <<globals, status>>
    BY <1>16 DEF Padding, PushField, DataField, Read, ConsumeUsage
  <2>2. Attributes'
    BY <1>2, <2>1, AttributesKept, AttributeSet DEF Attributes, globals
  <2>3. BitsCounted' /\ InputsComplete'
    BY <1>2, <2>1, InputItem
  <2>4. OneFieldEach'
    <3>1. CASE Padding(item)
      BY <1>2, <3>1, PaddingItem DEF Padding
    <3>2. CASE PushField(item)
      BY <1>2, <2>1, <3>2, DataItem DEF PushField, DataField
    <3> QED
      BY <1>16, <3>1, <3>2
  <2>5. HistoryTypes'
    <3>1. Bits \in Nat
      BY <1>2 DEF Determined, BitsCounted
    <3> QED
      BY <1>2, <3>1 DEF HistoryTypes, Appends
  <2>6. Bounded'
    BY <1>2, BoundedStep
  <2> QED
    BY <1>3, <2>1, <2>2, <2>3, <2>4, <2>5, <2>6 DEF HistoryInv, Determined
<1>17. CASE RejectField(item)
  BY <1>2, <1>17, RefusedItem DEF RejectField, Reject, Errors, Missing
<1> QED
  BY <1>5, <1>6, <1>7, <1>8, <1>9, <1>10, <1>11, <1>12, <1>13, <1>14, <1>15, <1>16,
     <1>17 DEF HParse, Parse

(* A step that reads nothing and refuses nothing. *)
LEMMA NoItemStep ==
    ASSUME HistoryInv, UNCHANGED <<items, starts, globals, usage, bitOffset, fields>>,
           status' = status \/ (status = "parsing" /\ status' = "ok")
    PROVE  HistoryInv'
<1>1. Accepted' => Accepted
  BY DEF Accepted
<1>2. status' \in Missing => status \in Missing
  BY DEF Missing
<1>3. HistoryTypes'
  BY DEF HistoryInv, HistoryTypes
<1>4. Determined => Determined'
  <2>1. ASSUME NEW i, NEW type, NEW tag
        PROVE  LastBefore(i, type, tag)' = LastBefore(i, type, tag)
    BY DEF LastBefore, Is
  <2>2. Len(items') = Len(items)
    OBVIOUS
  <2>3. Bounded => Bounded'
    BY <2>1, <2>2 DEF Bounded
  <2>4. Attributes => Attributes'
    BY DEF Attributes, PageInForce, MinInForce, MaxInForce, SizeInForce, IdInForce,
           CountInForce, UsageInForce, LastGlobal, Last, LastBefore, Is, globals
  <2>5. BitsCounted => BitsCounted'
    BY DEF BitsCounted, Bits, SizeAt, LastBefore, Is
  <2>6. ASSUME NEW i
        PROVE  /\ InputItems(i)' = InputItems(i) /\ DataItems(i)' = DataItems(i)
               /\ Complete(i)' <=> Complete(i)
    <3>1. InputItems(i)' = InputItems(i)
      BY DEF InputItems, Is
    <3>2. DataItems(i)' = DataItems(i)
      BY <3>1 DEF DataItems
    <3>3. Complete(i)' <=> Complete(i)
      BY <2>1 DEF Complete, CountIsOne, HasUsage
    <3> QED
      BY <3>1, <3>2, <3>3
  <2>7. ASSUME NEW i PROVE FieldOf(i)' = FieldOf(i)
    BY <2>1 DEF FieldOf, ReportIdAt, SizeAt
  <2>8. InputsComplete => InputsComplete'
    BY <2>2, <2>6 DEF InputsComplete
  <2>9. OneFieldEach => OneFieldEach'
    BY <2>2, <2>6, <2>7 DEF OneFieldEach
  <2> QED
    BY <2>3, <2>4, <2>5, <2>8, <2>9 DEF Determined
<1>5. LastLacks => LastLacks'
  BY DEF LastLacks, Complete, CountIsOne, HasUsage, LastBefore, Is
<1> QED
  BY <1>1, <1>2, <1>3, <1>4, <1>5 DEF HistoryInv

LEMMA HistoryInvariant == HSpec => [](TypeOK /\ HistoryInv)
<1>1. HInit => TypeOK /\ HistoryInv
  BY InitType, HistoryInit DEF HInit
<1>2. TypeOK /\ HistoryInv /\ [HNext]_hvars => TypeOK' /\ HistoryInv'
  <2> SUFFICES ASSUME TypeOK, HistoryInv, [HNext]_hvars PROVE TypeOK' /\ HistoryInv'
    OBVIOUS
  <2>1. [Next]_vars
    BY DEF HNext, HParse, Next, hvars
  <2>2. ASSUME UNCHANGED hvars PROVE HistoryInv'
    BY <2>2, NoItemStep DEF hvars, vars, globals
  <2>3. ASSUME NEW item \in Items, HParse(item) PROVE HistoryInv'
    BY <2>3, ItemStep
  <2>4. ASSUME Finish, UNCHANGED <<items, starts>> PROVE HistoryInv'
    BY <2>4, NoItemStep DEF Finish
  <2> QED
    BY <2>1, <2>2, <2>3, <2>4, TypeStep DEF HNext
<1> QED
  BY <1>1, <1>2, PTL DEF HSpec

(* The summary of any input holds one field for each data input item, in   *)
(* order, with the globals in force there, the item's own usage, and an    *)
(* offset that counts the bits of every input item before it.              *)
THEOREM SummaryFollowsItems == HSpec => []FieldsFollowItems
<1>1. HistoryInv => FieldsFollowItems
  BY DEF HistoryInv, Determined, OneFieldEach, FieldsFollowItems
<1> QED
  BY <1>1, HistoryInvariant, PTL

(* An input item that lacks an attribute is always refused, and no other   *)
(* is refused for one; in particular no usage ever serves two.             *)
THEOREM IncompleteIsRefused == HSpec => []RefusedIffIncomplete
<1>1. HistoryInv => RefusedIffIncomplete
  BY DEF HistoryInv, Determined, InputsComplete, Missing, LastLacks, RefusedIffIncomplete
<1> QED
  BY <1>1, HistoryInvariant, PTL
=============================================================================
