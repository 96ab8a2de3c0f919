---------------------------- MODULE EvTcpHandler ----------------------------
(***************************************************************************)
(* The connection handler of the broker, ipc_core/EvTcpHandler: one event  *)
(* thread runs libevent's callbacks (accept, read, close), one handler     *)
(* thread takes the complete messages out of every receive buffer and      *)
(* passes them to the virtual HandleOneProtocolData.                       *)
(*                                                                         *)
(* This module is the base class: what a subclass does in                  *)
(* HandleOneProtocolData is left open, it may call SendDataToClient and    *)
(* DisconnectClient with any pointer, any number of times, and return.     *)
(* EvCoreServer.tla is the subclass of this repository.                    *)
(*                                                                         *)
(* Two kinds of lock are visible.  m_mutex guards the maps; libevent's     *)
(* lock of a bufferevent is held while one of its callbacks runs and while *)
(* bufferevent_write or bufferevent_free works on it (the sockets are made *)
(* with BEV_OPT_THREADSAFE and without BEV_OPT_UNLOCK_CALLBACKS).  The     *)
(* event thread takes the bufferevent lock first, SendDataToClient takes   *)
(* m_mutex first: see LockCycle.                                           *)
(*                                                                         *)
(* A receive buffer is a sequence of whole messages here; how messages are *)
(* cut out of the byte stream is the subject of ProtocolInc.tla.  The one  *)
(* place where bytes show is a buffer over its limit: ConnReadCb erases as *)
(* many bytes as it has read, mostly up to the middle of a message, and    *)
(* GetOneProtocol looks for the next header in what is left.  What it then *)
(* finds is left open: see trimmed.                                        *)
(***************************************************************************)
EXTENDS Integers, Sequences, SequencesExt

CONSTANTS
  Bev,          \* the addresses bufferevent_socket_new can return
  NoBev,        \* the null pointer
  Payload,      \* what a message says; read by the subclass only
  MaxConn,      \* bound: connections ever accepted
  MaxMsg,       \* bound: messages ever sent by the peers
  MaxRead,      \* the most that one read callback finds in the input buffer
  OverLimit,    \* what ConnReadCb's test of the 32 * 1024 may answer
  WriteResults  \* what bufferevent_write may answer for an allocated socket

ASSUME EvTcpAssumption ==
  /\ NoBev \notin Bev
  /\ MaxConn \in Nat /\ MaxMsg \in Nat
  /\ MaxRead \in Nat \ {0}
  /\ OverLimit # {} /\ OverLimit \subseteq BOOLEAN
  /\ WriteResults # {} /\ WriteResults \subseteq {0, -1}

VARIABLES
  conn,             \* the connection that occupies an address, 0: not allocated
  peerOpen,         \* addresses whose remote side has not closed
  inbound,          \* sent by the peer, not yet read by ConnReadCb
  written,          \* what bufferevent_write accepted for the connection
  accepted, sent,   \* connections accepted, messages sent so far
  trimmed,          \* history: connections whose buffer has been trimmed
  vecuint8,         \* m_map_bfevnt_vecuint8: the receive buffers
  listvecProtocol,  \* m_map_bfevnt_listvecProtocol: the batch being handled
  ev,               \* event thread: the callback that waits for m_mutex
  pc,               \* handler thread: where it is
  epair, evec,      \* handler thread: its two loop positions
  visited,          \* handler thread: the connections it is through with
  target,           \* handler thread: the argument of the library call
  handled           \* history: messages HandleOneProtocolData returned from

netVars     == <<conn, peerOpen, inbound, written, accepted, sent, trimmed>>
loopVars    == <<epair, evec, visited>>
handlerVars == <<listvecProtocol, pc, loopVars, target, handled>>
tcpVars     == <<netVars, vecuint8, ev, handlerVars>>

Msg == [id : 1..MaxMsg, conn : 1..MaxConn, body : Payload]

\* The allocated bufferevents.
Live == {b \in Bev : conn[b] # 0}

Idle == [cb |-> "none", bev |-> NoBev]

(* std::map::insert keeps an entry that exists; erase forgets the key.     *)
MapInsert(f, k, v) ==
  [x \in DOMAIN f \cup {k} |-> IF x \in DOMAIN f THEN f[x] ELSE v]
MapErase(f, k) == [x \in DOMAIN f \ {k} |-> f[x]]

TcpInit ==
  /\ conn = [b \in Bev |-> 0]
  /\ peerOpen = {}
  /\ inbound = [b \in Bev |-> <<>>]
  /\ written = [b \in Bev |-> {}]
  /\ accepted = 0 /\ sent = 0 /\ trimmed = {}
  /\ vecuint8 = [b \in {} |-> <<>>]
  /\ listvecProtocol = [b \in {} |-> <<>>]
  /\ ev = Idle
  /\ pc = "extract"
  /\ epair = NoBev /\ evec = 0 /\ visited = {}
  /\ target = NoBev
  /\ handled = <<>>

-----------------------------------------------------------------------------
(* Locks.  The handler thread keeps m_mutex from one of its steps to the   *)
(* next only inside SendDataToClient and DisconnectClient.                 *)

NoMutexTaken == TRUE
MutexFree == pc \notin {"write", "free"}

BevUnlocked(b) == ev.bev # b

-----------------------------------------------------------------------------
(* The peers.                                                              *)

PeerSend(b, p) ==
  /\ b \in peerOpen /\ sent < MaxMsg
  /\ sent' = sent + 1
  /\ inbound' = [inbound EXCEPT
       ![b] = Append(@, [id |-> sent + 1, conn |-> conn[b], body |-> p])]
  /\ UNCHANGED <<conn, peerOpen, written, accepted, trimmed, vecuint8, ev,
                 handlerVars>>

PeerClose(b) ==
  /\ b \in peerOpen
  /\ peerOpen' = peerOpen \ {b}
  /\ UNCHANGED <<conn, inbound, written, accepted, sent, trimmed, vecuint8, ev,
                 handlerVars>>

\* bufferevent_free: the socket is closed, the memory goes back to the heap.
BuffereventFree(b) ==
  /\ conn' = [conn EXCEPT ![b] = 0]
  /\ peerOpen' = peerOpen \ {b}
  /\ inbound' = [inbound EXCEPT ![b] = <<>>]
  /\ written' = [written EXCEPT ![b] = {}]
  /\ UNCHANGED <<accepted, sent, trimmed>>

-----------------------------------------------------------------------------
(* The event thread.  libevent locks a bufferevent and calls back; the     *)
(* callback then waits for m_mutex.                                        *)

(* The allocator may hand out any address that is not in use, the one of a *)
(* connection that has just been freed included.                           *)
ListenerCb(b) ==
  /\ ev = Idle /\ MutexFree
  /\ b \notin Live /\ accepted < MaxConn
  /\ accepted' = accepted + 1
  /\ conn' = [conn EXCEPT ![b] = accepted + 1]
  /\ peerOpen' = peerOpen \cup {b}
  /\ vecuint8' = MapInsert(vecuint8, b, <<>>)
  /\ UNCHANGED <<inbound, written, sent, trimmed, ev, handlerVars>>

StartReadCb(b) ==
  /\ ev = Idle
  /\ b \in Live /\ inbound[b] # <<>>
  /\ ev' = [cb |-> "read", bev |-> b]
  /\ UNCHANGED <<netVars, vecuint8, handlerVars>>

(* A closed peer is reported as BEV_EVENT_EOF when its data has been read, *)
(* or as BEV_EVENT_ERROR (a reset) at any time.                            *)
StartEventCb(b) ==
  /\ ev = Idle
  /\ b \in Live \ peerOpen
  /\ ev' = [cb |-> "event", bev |-> b]
  /\ UNCHANGED <<netVars, vecuint8, handlerVars>>

\* Mutated form: the newest messages go.
TrimTheEnd(vec) == {SubSeq(vec, 1, k) : k \in 0..Len(vec)}
(* The bytes that are erased are the oldest ones.  A message whose front   *)
(* is gone counts as gone, or as kept if there is something to find in its *)
(* rest.                                                                   *)
TrimFront(vec) == {SubSeq(vec, k + 1, Len(vec)) : k \in 0..Len(vec)}

InsertAtEnd(vec, new) == vec \o new

(* len counts the messages whose last byte is read; with 0 of them it is a *)
(* piece of a message, which shows when the buffer is over its limit.      *)
ConnReadCb(b) ==
  /\ ev = [cb |-> "read", bev |-> b] /\ MutexFree
  /\ \E len \in 0..MaxRead, over \in OverLimit :
       /\ len <= Len(inbound[b]) /\ (len > 0 \/ over)
       /\ inbound' = [inbound EXCEPT ![b] = SubSeq(@, len + 1, Len(@))]
       /\ IF b \in DOMAIN vecuint8
          THEN /\ \E rest \in IF over THEN TrimFront(vecuint8[b])
                                       ELSE {vecuint8[b]} :
                    vecuint8' = [vecuint8 EXCEPT
                      ![b] = InsertAtEnd(rest, SubSeq(inbound[b], 1, len))]
               /\ trimmed' = IF over THEN trimmed \cup {conn[b]} ELSE trimmed
          ELSE UNCHANGED <<vecuint8, trimmed>>
  /\ ev' = Idle
  /\ UNCHANGED <<conn, peerOpen, written, accepted, sent, handlerVars>>

\* Mutated form: the entry of the freed connection stays in the map.
ConnEventCbKeepsEntry(b) ==
  /\ ev = [cb |-> "event", bev |-> b] /\ MutexFree
  /\ BuffereventFree(b)
  /\ ev' = Idle
  /\ UNCHANGED <<vecuint8, handlerVars>>

\* Mutated form: the batch forgets the freed connection as well.
ConnEventCbDropsBatch(b) ==
  /\ ev = [cb |-> "event", bev |-> b] /\ MutexFree
  /\ BuffereventFree(b)
  /\ vecuint8' = MapErase(vecuint8, b)
  /\ listvecProtocol' = MapErase(listvecProtocol, b)
  /\ ev' = Idle
  /\ UNCHANGED <<pc, loopVars, target, handled>>

\* Mutated form: the event is only logged.
ConnEventCbLogs(b) ==
  /\ ev = [cb |-> "event", bev |-> b] /\ MutexFree
  /\ ev' = Idle
  /\ UNCHANGED <<netVars, vecuint8, handlerVars>>

ConnEventCb(b) ==
  /\ ev = [cb |-> "event", bev |-> b] /\ MutexFree
  /\ IF b \in DOMAIN vecuint8
     THEN /\ BuffereventFree(b)
          /\ vecuint8' = MapErase(vecuint8, b)
     ELSE UNCHANGED <<netVars, vecuint8>>
  /\ ev' = Idle
  /\ UNCHANGED handlerVars

-----------------------------------------------------------------------------
(* The handler thread, TaskGetProtocolDataAndHandle.                       *)

\* Mutated form: push_back instead of push_front.
PushBack(list, vec) == list \o vec
\* The messages of one buffer are pushed to the front of the list in turn.
PushFront(list, vec) == Reverse(vec) \o list

ListOf(b) == IF b \in DOMAIN listvecProtocol THEN listvecProtocol[b] ELSE <<>>

\* Mutated form: the list is inserted before a message has been found.
AnyBuffer(take) == DOMAIN take
\* The buffers GetOneProtocolData finds a message in.
WithProtocol(take) == {b \in DOMAIN take : take[b].found # <<>>}

\* Mutated form: GetOneProtocolData leaves the messages in the buffer.
Undrained(vec) == vec
\* The loop ends when no whole message is left.
Drained(vec) == <<>>

Rising(vec) == \A i, j \in 1..Len(vec) : i < j => vec[i].id < vec[j].id

(* Behind a cut GetOneProtocol copies from wherever it finds a header: a   *)
(* message behind it comes out whole, mangled (with its own number: bound, *)
(* at most one message is made of the bytes of each) or not at all.        *)
Mangled(m) == {[m EXCEPT !.body = p] : p \in Payload}
Resynced(vec) ==
  {f \in SeqOf(UNION {Mangled(m) : m \in ToSet(vec)}, Len(vec)) : Rising(f)}

(* What the loop may find in a buffer and what it may leave there.         *)
Extractions(b) ==
  LET vec == vecuint8[b]
  IN  IF conn[b] \notin trimmed
      THEN {[found |-> vec, rest |-> Drained(vec)]}
      ELSE UNION {{[found |-> f, rest |-> SubSeq(vec, n + 1, Len(vec))] :
                     f \in Resynced(SubSeq(vec, 1, n))} : n \in 0..Len(vec)}

(* GetProtocalData: under m_mutex every buffer is emptied into the batch.  *)
(* With an empty batch the thread sleeps and tries again.                  *)
GetProtocalData ==
  /\ pc = "extract"
  /\ \E take \in [DOMAIN vecuint8 ->
                    UNION {Extractions(b) : b \in DOMAIN vecuint8}] :
       /\ \A b \in DOMAIN vecuint8 : take[b] \in Extractions(b)
       /\ listvecProtocol' =
            [b \in DOMAIN listvecProtocol \cup WithProtocol(take) |->
               PushFront(ListOf(b),
                         IF b \in DOMAIN take THEN take[b].found ELSE <<>>)]
       /\ vecuint8' = [b \in DOMAIN vecuint8 |-> take[b].rest]
  /\ pc' = IF DOMAIN listvecProtocol' = {} THEN "extract" ELSE "handle"
  /\ UNCHANGED <<netVars, ev, loopVars, target, handled>>

(* The outer loop runs over the map in the order of its keys; addresses    *)
(* have no order here, so any connection may be next.                      *)
NextProtocol(b) ==
  /\ pc = "handle"
  /\ \/ /\ epair = NoBev
        /\ b \in DOMAIN listvecProtocol \ visited
        /\ epair' = b /\ evec' = 1
     \/ /\ epair = b /\ b # NoBev
        /\ UNCHANGED <<epair, evec>>
  /\ pc' = "call"
  /\ UNCHANGED <<netVars, vecuint8, ev, listvecProtocol, visited, target,
                 handled>>

\* The message HandleOneProtocolData has been called with.
CurProtocol == listvecProtocol[epair][evec]

\* Mutated form: only the first message of every list is handled.
HandleReturnBreaks ==
  /\ pc = "call"
  /\ handled' = Append(handled, [bev |-> epair, msg |-> CurProtocol])
  /\ epair' = NoBev /\ evec' = 0
  /\ visited' = visited \cup {epair}
  /\ pc' = "handle"
  /\ UNCHANGED <<netVars, vecuint8, ev, listvecProtocol, target>>

(* HandleOneProtocolData returns, both loops move on.                      *)
HandleReturn ==
  /\ pc = "call"
  /\ handled' = Append(handled, [bev |-> epair, msg |-> CurProtocol])
  /\ IF evec < Len(listvecProtocol[epair])
     THEN evec' = evec + 1 /\ UNCHANGED <<epair, visited>>
     ELSE /\ epair' = NoBev /\ evec' = 0
          /\ visited' = visited \cup {epair}
  /\ pc' = "handle"
  /\ UNCHANGED <<netVars, vecuint8, ev, listvecProtocol, target>>

ClearBatch ==
  /\ pc = "handle" /\ epair = NoBev /\ visited = DOMAIN listvecProtocol
  /\ listvecProtocol' = [b \in {} |-> <<>>]
  /\ visited' = {}
  /\ pc' = "extract"
  /\ UNCHANGED <<netVars, vecuint8, ev, epair, evec, target, handled>>

-----------------------------------------------------------------------------
(* What HandleOneProtocolData may call.                                    *)

(* SendDataToClient finds the connection under m_mutex and keeps it for    *)
(* bufferevent_write.  For an unknown pointer it answers -1: no step.      *)
SendDataToClient(b) ==
  /\ pc = "call"
  /\ b \in DOMAIN vecuint8
  /\ pc' = "write" /\ target' = b
  /\ UNCHANGED <<netVars, vecuint8, ev, listvecProtocol, loopVars, handled>>

(* The rest of SendDataToClient, once the bufferevent lock is free.  Both  *)
(* senders of this repository forward the message they are handling.       *)
BuffereventWrite(ret) ==
  /\ pc = "write" /\ BevUnlocked(target)
  /\ written' = IF ret = 0
                THEN [written EXCEPT ![target] = @ \cup {CurProtocol}]
                ELSE written
  /\ pc' = "call" /\ target' = NoBev
  /\ UNCHANGED <<conn, peerOpen, inbound, accepted, sent, trimmed, vecuint8, ev,
                 listvecProtocol, loopVars, handled>>

(* DisconnectClient forgets the connection and then frees it, both under   *)
(* m_mutex.                                                                *)
DisconnectClient(b) ==
  /\ pc = "call"
  /\ b \in DOMAIN vecuint8
  /\ vecuint8' = MapErase(vecuint8, b)
  /\ pc' = "free" /\ target' = b
  /\ UNCHANGED <<netVars, ev, listvecProtocol, loopVars, handled>>

DisconnectFree ==
  /\ pc = "free" /\ BevUnlocked(target)
  /\ BuffereventFree(target)
  /\ pc' = "call" /\ target' = NoBev
  /\ UNCHANGED <<vecuint8, ev, listvecProtocol, loopVars, handled>>

-----------------------------------------------------------------------------

PeerNext == \E b \in Bev : PeerClose(b) \/ \E p \in Payload : PeerSend(b, p)

EventNext(b) ==
  ListenerCb(b) \/ StartReadCb(b) \/ StartEventCb(b) \/ ConnReadCb(b)
    \/ ConnEventCb(b)

LoopNext == GetProtocalData \/ ClearBatch \/ \E b \in Bev : NextProtocol(b)

VirtualNext ==
  \/ HandleReturn \/ DisconnectFree
  \/ \E b \in Bev : SendDataToClient(b) \/ DisconnectClient(b)
  \/ \E ret \in WriteResults : BuffereventWrite(ret)

TcpNext ==
  \/ PeerNext
  \/ \E b \in Bev : EventNext(b)
  \/ LoopNext
  \/ VirtualNext

TcpSpec == TcpInit /\ [][TcpNext]_tcpVars

-----------------------------------------------------------------------------
(* Properties.                                                             *)

IsBevMap(f, S) == DOMAIN f \subseteq Bev /\ f \in [DOMAIN f -> S]

TcpTypeOK ==
  /\ conn \in [Bev -> 0..MaxConn]
  /\ peerOpen \subseteq Live
  /\ inbound \in [Bev -> Seq(Msg)]
  /\ written \in [Bev -> SUBSET Msg]
  /\ accepted \in 0..MaxConn /\ sent \in 0..MaxMsg
  /\ trimmed \subseteq 1..MaxConn
  /\ IsBevMap(vecuint8, Seq(Msg))
  /\ IsBevMap(listvecProtocol, Seq(Msg) \ {<<>>})
  /\ ev \in [cb : {"read", "event"}, bev : Bev] \cup {Idle}
  /\ pc \in {"extract", "handle", "call", "write", "free"}
  /\ epair \in Bev \cup {NoBev} /\ evec \in Nat
  /\ visited \subseteq Bev
  /\ target \in Bev \cup {NoBev}
  /\ handled \in Seq([bev : Bev, msg : Msg])

(* No use after free: a socket the handler thread passes to libevent, and  *)
(* a socket whose callback is waiting for m_mutex, is still allocated. The *)
(* look-up in SendDataToClient and the write it guards are two steps with  *)
(* the event thread running in between.                                    *)
NoUseAfterFree ==
  /\ pc \in {"write", "free"} => target \in Live
  /\ ev # Idle => ev.bev \in Live

(* The map of receive buffers and the set of allocated sockets agree, but  *)
(* for the socket DisconnectClient has erased and not freed yet: nothing   *)
(* leaks and nothing is freed twice.                                       *)
MapMatchesSockets ==
  DOMAIN vecuint8 = Live \ (IF pc = "free" THEN {target} ELSE {})

(* The two iterators of the handler thread stay valid while it is in the   *)
(* batch, whichever connections the event thread frees in the meantime;    *)
(* and they are gone when the next batch is filled.                        *)
IteratorsValid ==
  /\ pc = "extract" => epair = NoBev
  /\ pc \in {"call", "write", "free"} => epair # NoBev
  /\ epair # NoBev => /\ epair \in DOMAIN listvecProtocol
                      /\ evec \in 1..Len(listvecProtocol[epair])

Ids(msgs) == {msgs[i].id : i \in 1..Len(msgs)}

(* Messages of one connection that are taken in different batches are      *)
(* handled in the order they were sent: whatever still waits is newer than *)
(* everything of its connection in the batch or handled.  Trimming loses   *)
(* and mangles messages; it does not turn them round.                      *)
LaterBatchesAreNewer ==
  \A b \in DOMAIN vecuint8 :
    LET waiting == Ids(vecuint8[b]) \cup Ids(inbound[b])
        taken   == {m \in {handled[i].msg : i \in 1..Len(handled)}
                            \cup ToSet(ListOf(b)) : m.conn = conn[b]}
    IN  \A m \in taken, w \in waiting : m.id < w

(* Within a batch GetProtocalData's push_front makes the newest message of *)
(* a connection the first one to be handled.                               *)
BatchIsNewestFirst ==
  \A b \in DOMAIN listvecProtocol :
    LET list == listvecProtocol[b]
    IN  \A i, j \in 1..Len(list) : i < j => list[i].id > list[j].id

(* Every message goes through the life MessageLife promises it: the stage  *)
(* of a message is read off the place that holds it.                       *)
InSeqs(f, id) == \E b \in DOMAIN f : id \in Ids(f[b])

HandledIds == {handled[i].msg.id : i \in 1..Len(handled)}

StageOf(id) ==
  IF id > sent THEN "unsent"
  ELSE IF id \in HandledIds THEN "handled"
  ELSE IF InSeqs(listvecProtocol, id) THEN "batch"
  ELSE IF InSeqs(vecuint8, id) THEN "buffer"
  ELSE IF InSeqs(inbound, id) THEN "socket"
  ELSE "lost"

\* Every copy of a message the handler still knows.
KnownMsgs ==
  {handled[i].msg : i \in 1..Len(handled)}
    \cup (UNION {ToSet(listvecProtocol[b]) : b \in DOMAIN listvecProtocol})
    \cup (UNION {ToSet(vecuint8[b]) : b \in DOMAIN vecuint8})
    \cup (UNION {ToSet(inbound[b]) : b \in Bev})

OwnerOf(id) ==
  IF \E m \in KnownMsgs : m.id = id
  THEN (CHOOSE m \in KnownMsgs : m.id = id).conn
  ELSE 0

StageMap == [id \in 1..MaxMsg |-> StageOf(id)]
OwnerMap == [id \in 1..MaxMsg |-> OwnerOf(id)]
LogMap   == [i \in 1..Len(handled) |-> handled[i].msg.id]

Life == INSTANCE MessageLife WITH
  Id <- 1..MaxMsg, Owner <- 1..MaxConn,
  stage <- StageMap, owner <- OwnerMap, log <- LogMap, cut <- trimmed

MessagesLiveTheirLife == Life!Spec

(* The two threads wait for each other: the event thread holds the lock of *)
(* the socket and wants m_mutex, the handler thread holds m_mutex and      *)
(* wants the lock of the socket.                                           *)
LockCycle == ~MutexFree /\ ~BevUnlocked(target)
=============================================================================
