------------------------------ MODULE LogServer ------------------------------
(* log_server/LogServer: one thread that subscribes to "log", fetches what *)
(* the broker passes on and adds it to the log.                            *)
(*                                                                         *)
(* The client below it is what EvClient.tla shows: messages come whole and *)
(* in order until ConnReadCb erases bytes of a buffer over its limit; a    *)
(* broken connection is replaced, and neither the subscription nor the     *)
(* unread messages survive that.                                           *)
EXTENDS Sqlite3InterfaceLog, FiniteSets

CONSTANTS
  MaxSent,     \* bound: lines the broker passes on
  MaxStray,    \* bound: messages with another name among them
  MaxFaults,   \* bound: broken connections and ends of the program
  SubResults,  \* what SubMsg may answer
  OverLimit    \* what ConnReadCb's test of the 32 * 1024 may answer

ASSUME LogServerAssumption ==
  /\ MaxSent \in Nat /\ MaxStray \in Nat /\ MaxFaults \in Nat
  /\ SubResults # {} /\ SubResults \subseteq BOOLEAN
  /\ OverLimit # {} /\ OverLimit \subseteq BOOLEAN

VARIABLES
  m_runFlag,
  pc,          \* the thread of LogTask
  m_logmsg,    \* the line AddLog works on
  subscribed,  \* "no", "asked", or "known" to the broker
  inbox,       \* messages of m_vecBuffer and on their way to it
  cut,         \* m_vecBuffer does not begin with a message
  sent, stray, faults,
  disturbed,   \* history: lines during whose AddLog somebody read the file
  refused,     \* history: lines whose insert has failed
  lost,        \* history: lines that went with a connection or the program
  overrun      \* history: lines that lost bytes to the limit

serverVars == <<m_runFlag, pc, m_logmsg, subscribed, inbox, cut, sent, stray,
                faults, disturbed, refused, lost, overrun>>

NoText == [quoted |-> FALSE, last |-> "letter"]
NoLine == [name |-> "", n |-> 0, text |-> NoText]

LogInit ==
  /\ m_runFlag = TRUE /\ pc = "sub" /\ m_logmsg = NoLine
  /\ subscribed = "no" /\ inbox = <<>> /\ cut = FALSE
  /\ sent = 0 /\ stray = 0 /\ faults = 0
  /\ disturbed = {} /\ refused = {} /\ lost = {} /\ overrun = {}

Numbers(msgs) == {msgs[k].n : k \in 1..Len(msgs)} \ {0}

-----------------------------------------------------------------------------
(* The broker and the programs that call PubLog.                           *)

BrokerKnows ==
  /\ subscribed = "asked"
  /\ subscribed' = "known"
  /\ UNCHANGED <<m_runFlag, pc, m_logmsg, inbox, cut, sent, stray, faults,
                 disturbed, refused, lost, overrun, dbVars>>

(* The broker may take this connection for an earlier one at its address   *)
(* (PublishedToSubscribersOnly in EvCoreServer).                           *)
Mistaken == pc # "down" /\ stray < MaxStray /\ stray' = stray + 1

(* PubLog prints into 512 bytes, so that a long line has lost its newline. *)
(* Lines are numbered as the broker passes them on.                        *)
PubLog(text) ==
  /\ sent < MaxSent
  /\ (subscribed = "known" /\ UNCHANGED stray) \/ Mistaken
  /\ sent' = sent + 1
  /\ inbox' = Append(inbox, [name |-> "log", n |-> sent + 1, text |-> text])
  /\ UNCHANGED <<m_runFlag, pc, m_logmsg, subscribed, cut, faults, disturbed,
                 refused, lost, overrun, dbVars>>

StrayMessage ==
  /\ Mistaken
  /\ inbox' = Append(inbox, [name |-> "other", n |-> 0, text |-> NoText])
  /\ UNCHANGED <<m_runFlag, pc, m_logmsg, subscribed, cut, sent, faults,
                 disturbed, refused, lost, overrun, dbVars>>

\* EvClient connects again with an empty buffer and without subscriptions.
ConnectionBreaks ==
  /\ pc # "down" /\ faults < MaxFaults
  /\ faults' = faults + 1
  /\ subscribed' = "no" /\ inbox' = <<>> /\ cut' = FALSE
  /\ lost' = lost \cup Numbers(inbox)
  /\ UNCHANGED <<m_runFlag, pc, m_logmsg, sent, stray, disturbed, refused,
                 overrun, dbVars>>

(* The first k messages are gone, or part of the last of them is.          *)
Overrun(k) ==
  /\ inbox' = SubSeq(inbox, k + 1, Len(inbox))
  /\ overrun' = overrun \cup Numbers(SubSeq(inbox, 1, k))

(* Of a read that finds the buffer over its limit: as many bytes go as     *)
(* come, and what is left mostly begins in the middle of a message.  Any   *)
(* other read moves messages from one part of inbox to the other.          *)
ConnReadCb ==
  /\ TRUE \in OverLimit
  /\ \E k \in 1..Len(inbox) : Overrun(k)
  /\ cut' = TRUE
  /\ UNCHANGED <<m_runFlag, pc, m_logmsg, subscribed, sent, stray, faults,
                 disturbed, refused, lost, dbVars>>

-----------------------------------------------------------------------------
(* LogTask.                                                                *)

\* The loop of the subscription does not look at m_runFlag.
SubMsg(ok) ==
  /\ pc = "sub"
  /\ IF ok THEN subscribed' = "asked" /\ pc' = "poll"
           ELSE UNCHANGED <<subscribed, pc>>
  /\ UNCHANGED <<m_runFlag, m_logmsg, inbox, cut, sent, stray, faults, disturbed,
                 refused, lost, overrun, dbVars>>

\* Mutated form: the name of the message is not compared.
AnyName(msg) == TRUE
IsLog(msg) == msg.name = "log"

\* GetLog has taken the message when it sees that it is not a log line.
Fetched(msg) ==
  IF IsLog(msg) THEN m_logmsg' = msg /\ pc' = "create"
                ELSE UNCHANGED <<m_logmsg, pc>>

(* The message in front; what was left of a cut one before it has been     *)
(* skipped.                                                                *)
GetLog ==
  /\ pc = "poll" /\ m_runFlag /\ inbox # <<>>
  /\ inbox' = Tail(inbox) /\ cut' = FALSE
  /\ Fetched(Head(inbox))
  /\ UNCHANGED <<m_runFlag, subscribed, sent, stray, faults, disturbed, refused,
                 lost, overrun, dbVars>>

(* Behind a cut GetOneProtocol may take anything for a message: bytes that *)
(* look like a header, or a header whose length it reads somewhere else.   *)
(* It has no number; bound: it costs one of those that were sent.          *)
GetMangled ==
  /\ pc = "poll" /\ m_runFlag /\ cut
  /\ \E k \in 1..Len(inbox) : Overrun(k)
  /\ cut' \in BOOLEAN
  /\ \E name \in {"log", "other"}, text \in Text :
       Fetched([name |-> name, n |-> 0, text |-> text])
  /\ UNCHANGED <<m_runFlag, subscribed, sent, stray, faults, disturbed, refused,
                 lost, dbVars>>

Disturbed == IF reading THEN disturbed \cup {m_logmsg.n} ELSE disturbed

\* AddLog, which does not look at the result of either exec.
AddLogCreate ==
  /\ pc = "create"
  /\ CreateTable /\ disturbed' = Disturbed
  /\ pc' = "insert"
  /\ UNCHANGED <<m_runFlag, m_logmsg, subscribed, inbox, cut, sent, stray, faults,
                 refused, lost, overrun, table, reading>>

\* Mutated form: after an insert that failed the thread is through.
GivesUp == IF Inserts(m_logmsg) THEN "poll" ELSE "done"
AfterInsert == "poll"

AddLogInsert ==
  /\ pc = "insert"
  /\ InsertRow(m_logmsg) /\ disturbed' = Disturbed
  /\ refused' = IF Inserts(m_logmsg) THEN refused ELSE refused \cup {m_logmsg}
  /\ m_logmsg' = NoLine /\ pc' = AfterInsert
  /\ UNCHANGED <<m_runFlag, subscribed, inbox, cut, sent, stray, faults, lost,
                 overrun, exists, reading>>

TaskEnds ==
  /\ pc = "poll" /\ ~m_runFlag
  /\ pc' = "done"
  /\ UNCHANGED <<m_runFlag, m_logmsg, subscribed, inbox, cut, sent, stray, faults,
                 disturbed, refused, lost, overrun, dbVars>>

LogTask ==
  \/ \E ok \in SubResults : SubMsg(ok)
  \/ GetLog \/ GetMangled \/ AddLogCreate \/ AddLogInsert \/ TaskEnds

\* Behind a cut GetOneProtocol may also wait for more than ever comes.
Waits == pc = "poll" /\ m_runFlag /\ cut

-----------------------------------------------------------------------------
(* The program.                                                            *)

\* The destructor clears the flag and then waits for the thread.
Destroy ==
  /\ pc # "down" /\ m_runFlag /\ faults < MaxFaults
  /\ faults' = faults + 1
  /\ m_runFlag' = FALSE
  /\ UNCHANGED <<pc, m_logmsg, subscribed, inbox, cut, sent, stray, disturbed,
                 refused, lost, overrun, dbVars>>

\* All that the process has in memory is gone; so is its connection.
Gone ==
  /\ pc' = "down" /\ m_logmsg' = NoLine
  /\ subscribed' = "no" /\ inbox' = <<>> /\ cut' = FALSE
  /\ lost' = lost \cup ((Numbers(inbox) \cup {m_logmsg.n}) \ {0})
  /\ UNCHANGED <<m_runFlag, sent, stray, disturbed, refused, overrun, dbVars>>

Exit == pc = "done" /\ ~m_runFlag /\ Gone /\ UNCHANGED faults

Crash ==
  pc # "down" /\ faults < MaxFaults /\ Gone /\ faults' = faults + 1

\* Somebody starts the program again; the file is still there.
Restart ==
  /\ pc = "down"
  /\ pc' = "sub" /\ m_runFlag' = TRUE
  /\ UNCHANGED <<m_logmsg, subscribed, inbox, cut, sent, stray, faults, disturbed,
                 refused, lost, overrun, dbVars>>

LogServerNext ==
  \/ BrokerKnows \/ \E text \in Text : PubLog(text)
  \/ StrayMessage \/ ConnectionBreaks \/ ConnReadCb
  \/ LogTask
  \/ Destroy \/ Exit \/ Crash \/ Restart

-----------------------------------------------------------------------------
(* Properties.                                                             *)

InHand == {m_logmsg.n} \ {0}
RefusedLines == {line.n : line \in refused} \ {0}

(* Every line the broker has passed on is in exactly one place: still to   *)
(* be fetched, in the hands of AddLog, in the table, refused, lost with a  *)
(* connection or the program, or hit by the limit of the buffer; and a     *)
(* line is refused only for its quote or because somebody read the file    *)
(* meanwhile.  The table has log lines only, in the order the broker sent  *)
(* them, across crashes and reconnects; behind a cut also rows that nobody *)
(* has sent, which have no number.                                         *)
LinesAccountedFor ==
  /\ LET places == <<Numbers(inbox), InHand, Numbers(table), RefusedLines, lost,
                      overrun>>
     IN  /\ UNION {places[k] : k \in 1..6} = 1..sent
         /\ \A k, l \in 1..6 : k # l => places[k] \cap places[l] = {}
  /\ \A line \in refused : line.text.quoted \/ line.n \in disturbed
  /\ \A k \in 1..Len(table) : table[k].name = "log" /\ ~table[k].text.quoted
  /\ \A k, l \in 1..Len(table) :
       k < l /\ table[k].n # 0 /\ table[l].n # 0 => table[k].n < table[l].n

(* A line that waits to be fetched gets its turn, whatever becomes of it:  *)
(* a line refused, a reader of the file or a stranger's message does not   *)
(* hold the others up.  Only a cut in the buffer may.                      *)
LinesGetTheirTurn ==
  \A n \in 1..MaxSent :
    n \in Numbers(inbox)
      ~> cut \/ n \in Numbers(table) \cup RefusedLines \cup lost
=============================================================================
