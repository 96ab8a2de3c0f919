------------------------- MODULE Sqlite3InterfaceLog -------------------------
(* The log store, common/Sqlite3Interface and Sqlite3InterfaceLog, over a  *)
(* database file that several processes have open.  SQLite is external: a  *)
(* statement that changes the file takes effect as a whole or not at all,  *)
(* and not while another process reads it (nobody has set a busy timeout). *)
EXTENDS Integers, Sequences

CONSTANT
  Text   \* what a line may say: whether it has a quote, how it ends

ASSUME LogTextAssumption ==
  Text \subseteq [quoted : BOOLEAN, last : {"newline", "letter", "blank"}]

VARIABLES
  exists,   \* the table LOG has been created
  table,    \* its rows
  reading   \* another process is inside sqlite3_get_table

dbVars == <<exists, table, reading>>

DbInit == exists = FALSE /\ table = <<>> /\ reading = FALSE

(* The first exec of AddLog.  A table that exists is left alone, and that  *)
(* needs no more than reading.                                             *)
CreateTable == exists' = (exists \/ ~reading)

(* logstr.back() = ' ': meant for the newline, whatever is there.          *)
Blanked(line) == [line EXCEPT !.text.last = "blank"]

(* The second exec: what makes it fail is that the text is put between     *)
(* quotes as it is, that there is no table, and a reader.                  *)
Inserts(line) == exists /\ ~reading /\ ~line.text.quoted

AddRow(line) == Append(table, Blanked(line))

InsertRow(line) == table' = IF Inserts(line) THEN AddRow(line) ELSE table

(* QueryLog: GetTable fails without a table, and when a writer is in the   *)
(* middle of a change; the answer is then empty.  Otherwise the rows are   *)
(* read under SQLite's shared lock, and printed.                           *)
QueryBegins(writing) ==
  /\ ~reading
  /\ \/ exists /\ reading' = TRUE
     \/ (writing \/ ~exists) /\ UNCHANGED reading
  /\ UNCHANGED <<exists, table>>

QueryEnds ==
  /\ reading
  /\ reading' = FALSE
  /\ UNCHANGED <<exists, table>>
=============================================================================
