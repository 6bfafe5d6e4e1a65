----------------------- MODULE MCHidDescriptorHistory -----------------------
(* HidDescriptorHistory on the items of MCHidDescriptor. *)
EXTENDS HidDescriptorHistory, MCHidDescriptor

(* A full buffer that starts with a page and a logical range and sets      *)
(* them no more.                                                           *)
Prelude == <<Item("Global", 0, 0, 0), Item("Global", 1, 0, 0), Item("Global", 2, 0, 0)>>

FollowsPrelude(n) == IF n <= Len(Prelude)
                     THEN items'[n] = Prelude[n]
                     ELSE \A i \in DOMAIN Prelude : items'[n] # Prelude[i]

LayoutSpec ==
    /\ HInit
    /\ len = BufferLen
    /\ [][HNext /\ (Finish \/ FollowsPrelude(Len(items) + 1))]_hvars

(* Of these, the attributes in any order in a buffer of 7 bytes, or the    *)
(* layouts in a full one.                                                  *)
HistoryItems == AttributeItems \cup LayoutItems
ShortLen == 7

ShortOrLongSpec ==
    /\ HInit
    /\ len \in {ShortLen, BufferLen}
    /\ [][/\ HNext
          /\ \/ Finish
             \/ len = ShortLen /\ items'[Len(items')] \in AttributeItems
             \/ /\ len = BufferLen
                /\ items'[Len(items')] \in LayoutItems
                /\ FollowsPrelude(Len(items) + 1)]_hvars

(* The example descriptor of README.md, line 99:                           *)
(* 05 01 09 05 A1 01 05 01 09 30 09 31 15 81 25 7F 75 08 95 02 81 02 C0    *)
ReadmeExample ==
    <<Item("Global", 0, 1, 1), Item("Local", 0, 1, 5), Item("Main", 10, 1, 1),
      Item("Global", 0, 1, 1), Item("Local", 0, 1, 48), Item("Local", 0, 1, 49),
      Item("Global", 1, 1, 129), Item("Global", 2, 1, 127),
      Item("Global", 7, 1, 8), Item("Global", 9, 1, 2), Item("Main", 8, 1, 2),
      Item("Main", 12, 0, 0)>>
ReadmeItems == {ReadmeExample[i] : i \in DOMAIN ReadmeExample}
ReadmeLength == 23

ReadmeSpec ==
    /\ HInit
    /\ len = ReadmeLength
    /\ [][HNext /\ (Finish \/ items' = SubSeq(ReadmeExample, 1, Len(items) + 1))]_hvars

(* README.md, lines 93 to 106, gives the script as an example of a         *)
(* descriptor followed by an input report it decodes ("Send an input       *)
(* report (X=5, Y=-10)"): the parser must accept it.                       *)
ReadmeExampleParses == status \in {"parsing", "ok"}
=============================================================================
