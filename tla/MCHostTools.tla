---------------------------- MODULE MCHostTools -----------------------------
(***************************************************************************)
(* The host runtime and its tools on a few events of the devices of        *)
(* MCUsbBridge, every script of up to three commands, and every one of up  *)
(* to three behind a device that has sent an input.                        *)
(***************************************************************************)
EXTENDS HostTools, MCUsbBridge

Line(words, length) == [len |-> length, ended |-> TRUE, utf8 |-> TRUE, words |-> words]

MCWord == Commands \cup {V1_PROFILE_NAME, "", "?"}

(* Frames of up to three words, terminated or not, of every length that    *)
(* decode_command tells apart.                                             *)
TestFrames ==
    [len : {0, 1, 96, 97}, ended : BOOLEAN, utf8 : BOOLEAN,
     words : UNION {[1..k -> MCWord] : k \in 1..3}]

MCPushed == {Line(<<"GET_STATUS">>, 11), Line(<<"SET_PROFILE", V1_PROFILE_NAME>>, 23),
            Line(<<"FORGET_BONDS">>, 13), Line(<<"?">>, 97)}

MCLines == TestFrames \cup MCPushed \cup {DemoLine}

OneCall(path, out, max, mode, fails) ==
    [mode |-> mode, console |-> path, output |-> out, max |-> max,
     link |-> "Advertising", fails |-> fails]

MCCalled ==
    {OneCall("buffer", "persona", max, "drain", {}) : max \in {0, 2, 5}}
      \cup {OneCall("buffer", "plain", 1, "once", {}),
            OneCall("slot", "persona", 1, "once", {}),
            OneCall("slot", "plain", 1, "once", {"ble", "console"})}

(* DrainCall too, which a constant's value cannot name. *)
MCCalls ==
    MCCalled \cup {[OneCall("buffer", "persona", 8, "drain", {}) EXCEPT !.link = "Connected"]}

HostEvents ==
    {[kind |-> "Attached", device |-> d1],
     [kind |-> "Detached", device |-> d1],
     [kind |-> "Descriptor", device |-> d1, data |-> "A", fits |-> TRUE],
     [kind |-> "Input", device |-> d1, data |-> "p", fits |-> TRUE],
     [kind |-> "Input", device |-> d1, data |-> "p", fits |-> FALSE]}

Verbs ==
    [verb : {"ATTACH"}, device : {d1, d2}]
      \cup [verb : {"DETACH"}, device : {d1}]
      \cup [verb : {"DESCRIPTOR"}, data : MCDescBuffers]
      \cup [verb : {"INPUT"}, data : MCPayloads]
      \cup [verb : {"BAD", "SKIP"}]

Upto(n) == UNION {[1..k -> Verbs] : k \in 0..n}

AnInput ==
    <<[verb |-> "ATTACH", device |-> d1], [verb |-> "DESCRIPTOR", data |-> "A"],
      [verb |-> "INPUT", data |-> "p"]>>

MCScripts == Upto(3) \cup {AnInput \o s : s \in Upto(3)}
=============================================================================
