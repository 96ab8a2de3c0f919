----------------------------- MODULE LogConsole ------------------------------
(* The log server and a program with the debug console, which share the    *)
(* database: the console reads while the server writes.                    *)
EXTENDS LogServer, DebugModule

consoleVars == <<serverVars, debugVars, dbVars>>

ConsoleInit == DbInit /\ LogInit /\ DebugInit

\* The server is in AddLog.
Writing == pc \in {"create", "insert"}

ConsoleNext ==
  \/ LogServerNext /\ UNCHANGED debugVars
  \/ DebugNext(Writing) /\ UNCHANGED serverVars

ConsoleSpec == ConsoleInit /\ [][ConsoleNext]_consoleVars

(* The thread of the server runs, its subscription is not refused for      *)
(* ever, and a program whose threads end exits.                            *)
ConsoleLiveSpec ==
  /\ ConsoleSpec
  /\ WF_consoleVars(~Waits /\ LogTask /\ UNCHANGED debugVars)
  /\ WF_consoleVars(Exit /\ UNCHANGED debugVars)
=============================================================================
