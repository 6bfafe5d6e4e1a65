-------------------------- MODULE MCConsoleControl --------------------------
(***************************************************************************)
(* ConsoleControl with the prefixes that commands share as tokens.         *)
(***************************************************************************)
EXTENDS ConsoleControl

MCTokens == {"GET_", "SET_", "FOR", "INFO", "STATUS", "PROFILE", "|v1", "BONDS",
             "REBOOT", "?"}

MCText == [GET_INFO     |-> <<"GET_", "INFO">>,
           GET_STATUS   |-> <<"GET_", "STATUS">>,
           GET_PROFILE  |-> <<"GET_", "PROFILE">>,
           SET_PROFILE  |-> <<"SET_", "PROFILE", "|v1">>,
           REBOOT       |-> <<"REBOOT">>,
           FORGET_BONDS |-> <<"FOR", "GET_", "BONDS">>]

MCProfiles == {"t16000m_v1"}

(* A new board, and boards with bonds that an older or newer firmware has  *)
(* written, the newer one with a profile this one does not know.           *)
MCEntries == {<<None, None>>, <<1, 0>>, <<1, 1>>, <<2, 1>>}

NewBoard == {<<None, None>>}

TwoBoards == NewBoard \cup {<<1, 1>>}

(* Two commands of which two cut copies leave no room for a third. *)
LongLines == {CommandLine("SET_PROFILE"), CommandLine("GET_STATUS")}
=============================================================================
