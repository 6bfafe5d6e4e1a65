---------------------------- MODULE MCUsbBridge -----------------------------
(***************************************************************************)
(* UsbBridge on two devices.  Descriptor buffers "A" and "B" describe      *)
(* different report layouts, "bad" does not parse; payload "p" is valid    *)
(* under both layouts with different meanings, "q" only under that of "A". *)
(***************************************************************************)
EXTENDS UsbBridge

CONSTANTS d1, d2

MCDevices == {d1, d2}
MCDescBuffers == {"A", "B", "bad"}
MCPayloads == {"p", "q"}
MCSummaries == {"layoutA", "layoutB"}
MCInputs == {"centred", "left", "right"}
MCNeutral == "centred"
MCWires == {"w0", "wL", "wR"}
MCParse == [b \in MCDescBuffers |->
              CASE b = "A" -> "layoutA" [] b = "B" -> "layoutB" [] OTHER -> Failed]
MCDecode == [c \in MCSummaries \X MCPayloads |->
              CASE c = <<"layoutA", "p">> -> "left"
                [] c = <<"layoutA", "q">> -> "right"
                [] c = <<"layoutB", "p">> -> "right"
                [] OTHER -> Failed]
MCEncode == [i \in MCInputs |->
              CASE i = "left" -> "wL" [] i = "right" -> "wR" [] OTHER -> "w0"]

AllEvents == UsbEvent
=============================================================================
