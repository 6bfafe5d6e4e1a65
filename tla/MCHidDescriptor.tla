-------------------------- MODULE MCHidDescriptor ---------------------------
(***************************************************************************)
(* HidDescriptor on small alphabets of items.  Zero-length items (a prefix *)
(* byte alone, with value 0) are the cheapest way to set an attribute, so  *)
(* with them the most input items fit into a buffer.                       *)
(***************************************************************************)
EXTENDS HidDescriptor

Item(type, tag, size, data) == [type |-> type, tag |-> tag, size |-> size, data |-> data]

(* Every kind of item, valid and not, short and long. *)
EveryItem ==
    {Item("Global", 0, 0, 0), Item("Global", 0, 4, 65545),
     Item("Global", 1, 0, 0), Item("Global", 1, 1, 129),
     Item("Global", 2, 0, 0), Item("Global", 2, 2, 32767),
     Item("Global", 3, 0, 0),
     Item("Global", 7, 0, 0), Item("Global", 7, 1, 255), Item("Global", 7, 2, 256),
     Item("Global", 8, 1, 1), Item("Global", 8, 2, 256),
     Item("Global", 9, 1, 2), Item("Global", 9, 1, 1),
     Item("Local", 0, 0, 0), Item("Local", 0, 1, 48), Item("Local", 1, 0, 0),
     Item("Main", 8, 0, 0), Item("Main", 8, 1, 1), Item("Main", 8, 1, 2),
     Item("Main", 10, 1, 1), Item("Main", 12, 0, 0),
     Item("Reserved", 15, 2, 0), Item("Reserved", 0, 1, 7)}

(* Attributes of one byte each, set in any order or not at all. *)
AttributeItems ==
    {Item("Global", 0, 0, 0), Item("Global", 1, 0, 0), Item("Global", 2, 0, 0),
     Item("Global", 7, 0, 0), Item("Global", 9, 0, 0), Item("Global", 9, 1, 1),
     Item("Local", 0, 0, 0), Item("Main", 8, 0, 0)}

(* One page, one range, sizes and report ids that matter to offsets. *)
LayoutItems ==
    {Item("Global", 0, 0, 0), Item("Global", 1, 0, 0), Item("Global", 2, 0, 0),
     Item("Global", 7, 1, 5), Item("Global", 7, 1, 11), Item("Global", 8, 1, 1),
     Item("Local", 0, 0, 0), Item("Main", 8, 0, 0), Item("Main", 8, 1, 1)}
=============================================================================
