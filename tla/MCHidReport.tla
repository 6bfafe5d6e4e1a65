---------------------------- MODULE MCHidReport ----------------------------
(***************************************************************************)
(* HidReport on single fields of every kind and on pairs of fields, with   *)
(* payloads of up to three boundary bytes.                                 *)
(***************************************************************************)
EXTENDS HidReport

Field(id, offset, size, signed, usage) ==
    [reportId |-> id, bitOffset |-> offset, bitSize |-> size, signed |-> signed,
     usage |-> usage, kind |-> "Variable"]

Desktop(id) == UsageFromParts(1, id)
Button(b) == UsageFromParts(9, b)

(* The others: an axis that is skipped, an id no axis has, and the X of    *)
(* another page.                                                           *)
SingleUsages == {Desktop(48), Desktop(57),
                 Desktop(50), Desktop(1), UsageFromParts(2, 48),
                 Button(0), Button(1), Button(16), Button(17)}
Singles ==
    {<<Field(1, offset, size, signed, usage)>> :
        offset \in {0, 4}, size \in {1, 4, 8, 16}, signed \in BOOLEAN, usage \in SingleUsages}
    \cup {<<[Field(1, 0, 8, FALSE, Desktop(48)) EXCEPT !.kind = "Array"]>>}

(* As the parser lays them out: the second field begins where the first    *)
(* ends, whichever report each belongs to.                                 *)
Pair(id, size, signed, first, second) ==
    <<Field(1, 0, size, signed, first), Field(id, size, 8, TRUE, second)>>
PairUsages == {<<Desktop(48), Desktop(48)>>, <<Desktop(48), Desktop(49)>>,
               <<Desktop(49), Desktop(53)>>, <<Button(1), Button(1)>>,
               <<Button(1), Button(9)>>, <<Desktop(57), Button(2)>>,
               <<Desktop(48), Button(17)>>}
Pairs == {Pair(id, size, signed, u[1], u[2]) :
             id \in {1, 2}, size \in {1, 8}, signed \in BOOLEAN, u \in PairUsages}

SinglesAndPairs == Singles \cup Pairs

BoundaryBytes == {0, 5, 129, 255}
BoundaryPayloads == UNION {[1..n -> BoundaryBytes] : n \in 0..2}
                      \cup {<<255, p[1], p[2]>> : p \in [1..2 -> BoundaryBytes]}
BothReports == {1, 2}
=============================================================================
