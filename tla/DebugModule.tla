----------------------------- MODULE DebugModule -----------------------------
(* The debug console, debug/DebugModule: any terminal puts a command into  *)
(* a System V message queue, one detached thread of the program takes the  *)
(* messages out, collects their words and calls what the third word names. *)
(* The queue belongs to the system and outlives the program.               *)
(*                                                                         *)
(* What the commands call, LogPrint and NetworkServer, is not in the       *)
(* repository: their settings are external.  GetLog asks the log database  *)
(* through Sqlite3InterfaceLog.                                            *)
EXTENDS Sqlite3InterfaceLog

CONSTANTS
  Pts,       \* terminals
  Prog,      \* the name of the program, the first word typed
  Typed,     \* what is typed behind it: sequences of words
  NoPts,     \* LogPrint prints nowhere
  MaxCalls,  \* bound: calls of SendMsg
  MaxStarts  \* bound: starts of the program

m_map_funname_pfun == {"PrintSock", "Log", "ListAllClient", "Help", "GetLog"}

(* SendMsg puts "/dev/" before the name of the terminal: no command is     *)
(* called like that.                                                       *)
ASSUME DebugAssumption ==
  /\ MaxCalls \in Nat /\ MaxStarts \in Nat \ {0} /\ NoPts \notin Pts
  /\ Pts \cap m_map_funname_pfun = {}
  /\ Typed \subseteq Seq(STRING)

VARIABLES
  queue,      \* the messages, each its words
  typed,      \* calls of SendMsg so far
  starts,     \* starts of the program so far
  vecstr,     \* the words the thread has collected
  busy,       \* the thread is inside GetLog
  ptsName, pts2Name, showData,   \* settings of LogPrint and NetworkServer
  heard,      \* history: the messages received since the start
  ran         \* history: their numbers and the words their command got

debugVars == <<queue, typed, starts, vecstr, busy, ptsName, pts2Name, showData,
               heard, ran>>

DebugInit ==
  /\ queue = <<>> /\ typed = 0 /\ starts = 1
  /\ vecstr = <<>> /\ busy = FALSE
  /\ ptsName = NoPts /\ pts2Name = NoPts /\ showData = FALSE
  /\ heard = <<>> /\ ran = {}

\* The words that GetVecStr will find in it: terminal, program, the rest.
SendMsg(pts, line) ==
  /\ typed < MaxCalls
  /\ typed' = typed + 1
  /\ queue' = Append(queue, <<pts, Prog>> \o line)
  /\ UNCHANGED <<starts, vecstr, busy, ptsName, pts2Name, showData, heard, ran,
                 dbVars>>

-----------------------------------------------------------------------------
(* The commands; all but two want an argument.                             *)

Arg(words) == IF Len(words) < 4 THEN "" ELSE words[4]

PrintSock(words) ==
  /\ showData' = IF Arg(words) = "" THEN showData ELSE Arg(words) = "on"
  /\ pts2Name' = IF Arg(words) = "on" THEN words[1] ELSE pts2Name
  /\ UNCHANGED <<ptsName, busy, dbVars>>

Log(words) ==
  /\ ptsName' = CASE Arg(words) = ""   -> ptsName
                  [] Arg(words) = "on" -> words[1]
                  [] OTHER             -> NoPts
  /\ UNCHANGED <<pts2Name, showData, busy, dbVars>>

\* ListAllClient and Help print to the terminal that asks.
Answer(words) ==
  /\ pts2Name' = words[1]
  /\ UNCHANGED <<ptsName, showData, busy, dbVars>>

\* GetLog: without a query nothing happens.
GetLogLines(words, writing) ==
  IF Arg(words) = ""
  THEN UNCHANGED <<ptsName, pts2Name, showData, busy, dbVars>>
  ELSE /\ pts2Name' = words[1]
       /\ QueryBegins(writing) /\ busy' = reading'
       /\ UNCHANGED <<ptsName, showData>>

Call(name, words, writing) ==
  CASE name = "PrintSock" -> PrintSock(words)
    [] name = "Log"       -> Log(words)
    [] name = "GetLog"    -> GetLogLines(words, writing)
    [] OTHER              -> Answer(words)

-----------------------------------------------------------------------------
(* Task.                                                                   *)

\* Mutated form: the words are forgotten when they have named a command.
ClearedIfFound(words) ==
  IF words[3] \in m_map_funname_pfun THEN <<>> ELSE words
Cleared(words) == <<>>

(* RecvMsg takes a message; with the words of the one before, if that was  *)
(* too short to name a command, they are looked at and then forgotten.     *)
Task(writing) ==
  /\ ~busy /\ queue # <<>>
  /\ queue' = Tail(queue)
  /\ heard' = Append(heard, Head(queue))
  /\ LET words == vecstr \o Head(queue)
     IN  IF Len(words) > 2
         THEN /\ vecstr' = Cleared(words)
              /\ IF words[3] \in m_map_funname_pfun
                 THEN /\ Call(words[3], words, writing)
                      /\ ran' = ran \cup {<<Len(heard) + 1, words>>}
                 ELSE UNCHANGED <<ptsName, pts2Name, showData, busy, ran, dbVars>>
         ELSE /\ vecstr' = words
              /\ UNCHANGED <<ptsName, pts2Name, showData, busy, ran, dbVars>>
  /\ UNCHANGED <<typed, starts>>

GetLogReturns ==
  /\ busy
  /\ QueryEnds /\ busy' = FALSE
  /\ UNCHANGED <<queue, typed, starts, vecstr, ptsName, pts2Name, showData, heard,
                 ran>>

(* The program ends, wherever its thread is, and is started again; a lock  *)
(* it had on the database ends with it.                                    *)
StartTask ==
  /\ starts < MaxStarts
  /\ starts' = starts + 1
  /\ vecstr' = <<>> /\ busy' = FALSE /\ heard' = <<>> /\ ran' = {}
  /\ ptsName' = NoPts /\ pts2Name' = NoPts /\ showData' = FALSE
  /\ IF busy THEN QueryEnds ELSE UNCHANGED dbVars
  /\ UNCHANGED <<queue, typed>>

DebugNext(writing) ==
  \/ \E pts \in Pts, line \in Typed : SendMsg(pts, line)
  \/ Task(writing) \/ GetLogReturns
  \/ StartTask

-----------------------------------------------------------------------------
(* Properties.                                                             *)

Bare(words) == Len(words) = 2

\* The bare messages right before the k-th, all of them, begin with the j-th.
BareFrom(j, k) ==
  /\ \A i \in j..(k - 1) : Bare(heard[i])
  /\ j > 1 => ~Bare(heard[j - 1])

EvenBefore(k) == \E j \in 1..k : BareFrom(j, k) /\ (k - j) % 2 = 0

(* A command is called, and with its own words only, unless it comes       *)
(* behind an odd number of calls that named none: the words of the last of *)
(* them are then taken for its beginning, and both are forgotten.          *)
CommandsAreCalled ==
  ran = {<<k, heard[k]>> : k \in
          {k \in 1..Len(heard) : /\ ~Bare(heard[k])
                                /\ heard[k][3] \in m_map_funname_pfun
                                /\ EvenBefore(k)}}
=============================================================================
