---------------------------- MODULE MCLogConsole -----------------------------
(* LogConsole with small constants for TLC.                                *)
EXTENDS LogConsole

\* A line as PRINT_LOG writes it, and one that is too long and has a quote.
MCText == {[quoted |-> FALSE, last |-> "newline"],
           [quoted |-> TRUE, last |-> "letter"]}

\* No command, a query, a command without argument, one that is unknown.
MCTyped == {<<>>, <<"GetLog", "select">>, <<"Log", "on">>, <<"Unknown">>}
=============================================================================
