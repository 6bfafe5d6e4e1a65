------------------------ MODULE HidDescriptorHistory ------------------------
(***************************************************************************)
(* HidDescriptor with auxiliary variables, the items read so far and where *)
(* each would begin in a report, and the summary those items call for,     *)
(* defined over the whole sequence instead of by the parser's nine         *)
(* variables.                                                              *)
(***************************************************************************)
EXTENDS HidDescriptor, FiniteSetsExt

VARIABLES
    items,  \* the items read
    starts  \* per item: the bits of all input items before it

hvars == <<vars, items, starts>>

HInit == Init /\ items = <<>> /\ starts = <<>>

Is(i, type, tag) == items[i].type = type /\ items[i].tag = tag

(* The last item of this type and tag before item i, or 0. *)
LastBefore(i, type, tag) == Max({0} \cup {j \in 1 .. i - 1 : Is(j, type, tag)})

InputItems(n) == {i \in 1..n : Is(i, "Main", 8)}
DataItems(n) == {i \in InputItems(n) : ~IsConstant(items[i])}

(* The report size in force at item i. *)
SizeAt(i) == items[LastBefore(i, "Global", 7)].data

(* The bits of the input items read, padding included. *)
Bits == LET n == Len(items)
        IN  IF n = 0 THEN 0 ELSE starts[n] + IF Is(n, "Main", 8) THEN SizeAt(n) ELSE 0

HParse(item) ==
    /\ Parse(item)
    /\ items' = Append(items, item)
    /\ starts' = Append(starts, Bits)

HNext == \/ \E item \in Items : HParse(item)
         \/ Finish /\ UNCHANGED <<items, starts>>

HSpec == HInit /\ [][HNext]_hvars /\ WF_hvars(HNext)

-----------------------------------------------------------------------------
(* Nothing has been refused so far. *)
Accepted == status \in {"parsing", "ok"}

ReportIdAt(i) ==
    LET j == LastBefore(i, "Global", 8) IN IF j = 0 THEN 0 ELSE items[j].data

(* The usage of input item i is its own: set after the input before it. *)
HasUsage(i) == LastBefore(i, "Local", 0) > LastBefore(i, "Main", 8)

CountIsOne(i) ==
    LET j == LastBefore(i, "Global", 9) IN j = 0 \/ items[j].data = 1

Complete(i) ==
    /\ CountIsOne(i)
    /\ HasUsage(i)
    /\ \A tag \in {0, 1, 2, 7} : LastBefore(i, "Global", tag) # 0

FieldOf(i) ==
    [reportId |-> ReportIdAt(i),
     bitOffset |-> starts[i] % Word,
     bitSize |-> SizeAt(i),
     logicalMin |-> SignedValue(items[LastBefore(i, "Global", 1)]),
     logicalMax |-> SignedValue(items[LastBefore(i, "Global", 2)]),
     usage |-> <<AsU16(items[LastBefore(i, "Global", 0)].data),
                 AsU16(items[LastBefore(i, "Local", 0)].data)>>,
     variable |-> IsVariable(items[i])]

-----------------------------------------------------------------------------
(* The summary holds one field for every data input item, in order, each   *)
(* with the globals in force at that item, its own usage, and an offset    *)
(* that counts the bits of every input item before it, padding included    *)
(* (parse_descriptor_summary).                                             *)
FieldsFollowItems ==
    Accepted =>
        /\ Len(fields) = Cardinality(DataItems(Len(items)))
        /\ \A i \in DataItems(Len(items)) :
              fields[Cardinality(DataItems(i))] = FieldOf(i)

(* A descriptor is refused for a missing attribute only when an input item *)
(* lacks one, and accepted only when none does; a usage never serves two   *)
(* input items (the ok_or chain of the Input arm).                         *)
RefusedIffIncomplete ==
    LET n == Len(items)
        Missing == {"MissingUsagePage", "MissingUsage", "MissingReportSize",
                    "MissingLogicalRange", "UnsupportedReportCount"}
    IN  /\ Accepted => \A i \in InputItems(n) : Complete(i)
        /\ status \in Missing => Is(n, "Main", 8) /\ ~Complete(n)

(* "The bit offset of the field within the report payload" (lib.rs,        *)
(* ReportField): the bits before it of input items of the same report.     *)
BitOffsetWithinReport ==
    Accepted =>
        \A i \in DataItems(Len(items)) :
            fields[Cardinality(DataItems(i))].bitOffset =
                MapThenSumSet(SizeAt, {j \in InputItems(i - 1) :
                                          ReportIdAt(j) = ReportIdAt(i)})
=============================================================================
