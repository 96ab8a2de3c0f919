----------------------------- MODULE MessageLife -----------------------------
(* What the connection handler promises about a message, whatever its      *)
(* threads, maps and locks look like.  A message waits in the socket, then *)
(* in a receive buffer, then in the one batch that is being handled; then  *)
(* it has been handled.  It may be lost before it is in a batch, never     *)
(* afterwards, and it is handled once.  A message is lost with its         *)
(* connection, or because the receive buffer of its connection has been    *)
(* over its limit: of such a connection, and of no other, messages may be  *)
(* missed in the buffer or come out mangled.                               *)
EXTENDS Naturals, Sequences

CONSTANTS Id, Owner   \* messages, numbered as they are sent; connections

\* What the theorems about this module ask of the constants.
MessageLifeAssumption == Id \subseteq Nat /\ Owner \subseteq Nat \ {0}

VARIABLES
  stage,   \* where each message is
  owner,   \* the connection it came in on, 0: not sent or lost
  log,     \* the messages handled, in order
  cut      \* the connections whose buffer has been over its limit

lifeVars == <<stage, owner, log, cut>>

Stage == {"unsent", "socket", "buffer", "batch", "handled", "lost"}

At(s) == {m \in Id : stage[m] = s}
Of(s, c) == {m \in At(s) : owner[m] = c}

\* S with everything of T that is older than a member of S.
Oldest(S, T) == S \subseteq T /\ \A m \in S, n \in T : n < m => n \in S

Init ==
  /\ stage = [m \in Id |-> "unsent"]
  /\ owner = [m \in Id |-> 0]
  /\ log = <<>> /\ cut = {}

Send(m, c) ==
  /\ Oldest({m}, At("unsent"))
  /\ stage' = [stage EXCEPT ![m] = "socket"]
  /\ owner' = [owner EXCEPT ![m] = c]
  /\ UNCHANGED <<log, cut>>

(* A connection's messages are read in the order they were sent.  When the *)
(* receive buffer is over its limit the oldest bytes in it are lost; what  *)
(* is read may then be only a piece of the next message.                   *)
Read(c, new, lost) ==
  /\ Oldest(new, Of("socket", c)) /\ Oldest(lost, Of("buffer", c))
  /\ cut' \in {cut, cut \cup {c}}
  /\ lost # {} => c \in cut'
  /\ stage' = [m \in Id |-> CASE m \in new  -> "buffer"
                              [] m \in lost -> "lost"
                              [] OTHER      -> stage[m]]
  /\ owner' = [m \in Id |-> IF m \in lost THEN 0 ELSE owner[m]]
  /\ UNCHANGED log

(* A connection ends, from the inside or from the outside.  The handler    *)
(* forgets the receive buffer first and then, or at once, the socket.      *)
Close(c, rest) ==
  LET gone == Of("buffer", c) \cup rest
  IN  /\ gone # {}
      /\ stage' = [m \in Id |-> IF m \in gone THEN "lost" ELSE stage[m]]
      /\ owner' = [m \in Id |-> IF m \in gone THEN 0 ELSE owner[m]]
      /\ UNCHANGED <<log, cut>>

(* The last batch is done.  The next one is everything that has been       *)
(* received; of a connection that has been over its limit it is what is    *)
(* found in the part of the buffer that has been looked through.           *)
Take(seen, found) ==
  /\ At("batch") = {} /\ seen # {} /\ found \subseteq seen
  /\ \A c \in Owner : Oldest({m \in seen : owner[m] = c}, Of("buffer", c))
  /\ \A c \in Owner \ cut : Of("buffer", c) \subseteq found
  /\ stage' = [m \in Id |-> CASE m \in found -> "batch"
                              [] m \in seen \ found -> "lost"
                              [] OTHER -> stage[m]]
  /\ owner' = [m \in Id |-> IF m \in seen \ found THEN 0 ELSE owner[m]]
  /\ UNCHANGED <<log, cut>>

\* Of one connection the newest message of the batch comes first.
Handle(m) ==
  /\ m \in At("batch")
  /\ \A n \in Of("batch", owner[m]) : n <= m
  /\ stage' = [stage EXCEPT ![m] = "handled"]
  /\ log' = Append(log, m)
  /\ UNCHANGED <<owner, cut>>

Next ==
  \/ \E m \in Id, c \in Owner : Send(m, c)
  \/ \E c \in Owner :
       \E new \in SUBSET Of("socket", c), lost \in SUBSET Of("buffer", c) :
         Read(c, new, lost)
  \/ \E c \in Owner : \E rest \in {{}, Of("socket", c)} : Close(c, rest)
  \/ \E seen \in SUBSET At("buffer") : \E found \in SUBSET seen :
       Take(seen, found)
  \/ \E m \in Id : Handle(m)

Spec == Init /\ [][Next]_lifeVars

-----------------------------------------------------------------------------
(* Properties.                                                             *)

LifeTypeOK ==
  /\ stage \in [Id -> Stage]
  /\ owner \in [Id -> Owner \cup {0}]
  /\ log \in Seq(Id)
  /\ cut \subseteq Owner

(* The log is the set of handled messages, without repetition.             *)
LogIsHandled ==
  /\ \A m \in Id : stage[m] = "handled" <=> \E i \in 1..Len(log) : log[i] = m
  /\ \A i, j \in 1..Len(log) : log[i] = log[j] => i = j

(* A message that is still on its way is newer than every message of its   *)
(* connection that has gone further: only batches turn the order round.    *)
NoOvertaking ==
  \A m, n \in Id :
    /\ owner[m] = owner[n] /\ owner[m] # 0
    /\ stage[m] \in {"socket", "buffer"} /\ stage[n] \in {"batch", "handled"}
    => n < m
=============================================================================
