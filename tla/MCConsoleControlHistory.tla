---------------------- MODULE MCConsoleControlHistory -----------------------
(***************************************************************************)
(* ConsoleControlHistory on sets of lines that share tokens.               *)
(***************************************************************************)
EXTENDS ConsoleControlHistory, MCConsoleControl

(* The commands that write, one that does not, a short one that makes room *)
(* for the pieces of the others, and a line that is no command.            *)
SpliceLines == {CommandLine(c) : c \in {"SET_PROFILE", "FORGET_BONDS", "GET_STATUS",
                                        "REBOOT"}}
                 \cup {Append(<<"?">>, NL)}

(* The longest lines, of which two fill the window, and two shorter ones.  *)
WindowLines == {CommandLine(c) : c \in {"SET_PROFILE", "FORGET_BONDS", "GET_INFO",
                                        "GET_PROFILE"}}
=============================================================================
