------------------------------ MODULE EvClient ------------------------------
(* The client library, common/EvClient: one event thread runs libevent's   *)
(* callbacks of the connection to the broker and the heartbeat timer; any  *)
(* number of user threads publish, subscribe and fetch messages.           *)
(*                                                                         *)
(* As in EvTcpHandler, libevent holds the lock of the bufferevent while    *)
(* one of its callbacks runs, and the callback waits for m_mutex; a user   *)
(* thread has m_mutex and waits for the lock of the bufferevent.  Since    *)
(* m_mutex admits one user thread at a time, one call is all there is to   *)
(* know of them.                                                           *)
(*                                                                         *)
(* The broker is what it is in EvTcpHandler and EvCoreServer, seen from    *)
(* this one connection: it reads requests into a buffer, takes them out in *)
(* batches, handles a batch newest first, and sends what is published,     *)
(* cell by cell; the framing is that of ProtocolInc.                       *)
EXTENDS ProtocolInc, SequencesExt

CONSTANTS
  Name,           \* what subscriptions are named by
  NoCall,         \* no user thread is in SendToServer
  MaxConn,        \* bound: bufferevents ever made
  MaxOps,         \* bound: calls of SubMsg, SubMsgCancel and PubMsg
  MaxIn,          \* bound: messages the broker sends
  MaxOut,         \* bound: no heartbeat is added to more output than this
  MaxRead,        \* the most that one read callback finds
  Cap,            \* the 32 * 1024 of ConnReadCb
  OverLimit,      \* what the broker's test of its 32 * 1024 may answer
  ConnectResults, \* what bufferevent_socket_connect may answer
  WriteResults    \* what bufferevent_write may answer

(* The broker numbers its messages in a cell.                              *)
ASSUME EvClientAssumption ==
  /\ MaxConn \in Nat \ {0} /\ MaxOps \in Nat /\ MaxIn \in Nat /\ MaxOut \in Nat
  /\ MaxIn < Width /\ MaxDataLen >= 1
  /\ Cap \in Nat /\ MaxRead \in Nat \ {0} /\ MaxRead <= Cap + 1
  /\ OverLimit # {} /\ OverLimit \subseteq BOOLEAN
  /\ ConnectResults # {} /\ ConnectResults \subseteq {0, -1}
  /\ WriteResults # {} /\ WriteResults \subseteq {0, -1}

VARIABLES
  made,       \* bufferevents made so far; each has its number
  open,       \* those that have not been freed
  bev,        \* m_bev
  link,       \* the connection of m_bev
  out,        \* the output buffer of m_bev, message by message
  wire,       \* sent by the broker on this connection, not yet read
  m_vecBuffer,  \* what has been read of it and not yet been taken
  ev,         \* event thread: the callback that waits for m_mutex
  call,       \* user thread inside SendToServer, holding m_mutex
  ops,        \* calls so far
  pubs,       \* messages the broker has sent so far
  vecuint8,   \* the broker's receive buffer: requests about subscriptions
  listvecProtocol,  \* those of the broker's batch that are not yet handled
  subs,       \* names whose list at the broker has this connection's address
  wanted,     \* history: the bufferevent a name was last subscribed on, or 0
  got,        \* history: the messages GetMsg returned
  trimmed,    \* history: ConnReadCb has erased something
  cut,        \* history: the broker has, on this connection
  excused     \* history: names of which the broker has made something else
              \* since they were last subscribed

brokerVars == <<vecuint8, listvecProtocol, subs, cut>>
netVars    == <<link, wire, pubs, brokerVars>>
bevVars    == <<made, open, bev, out>>
userVars   == <<call, ops, wanted, got, excused>>
bufVars    == <<m_vecBuffer, trimmed>>
clientVars == <<netVars, bevVars, userVars, bufVars, ev>>

Request == [op : {"SUB", "SUB_CANCEL", "PUB"}, name : Name]
HeartBeat == [op |-> "HEARTBEAT"]

AsksFor(n) == [op |-> "SUB", name |-> n]
GivesUp(n) == [op |-> "SUB_CANCEL", name |-> n]

\* The requests that change a subscription.
Noted == [op : {"SUB", "SUB_CANCEL"}, name : Name]

Idle == [cb |-> "none", bev |-> 0]

LinkAfter(ret) == IF ret = 0 THEN "connecting" ELSE "dead"

\* The constructor has called Connect before the threads start.
ClientInit ==
  /\ made = 1 /\ open = {1} /\ bev = 1
  /\ \E ret \in ConnectResults : link = LinkAfter(ret)
  /\ out = <<>> /\ wire = <<>> /\ m_vecBuffer = <<>>
  /\ ev = Idle
  /\ call = NoCall /\ ops = 0
  /\ pubs = 0 /\ wanted = [n \in Name |-> 0] /\ got = <<>>
  /\ vecuint8 = <<>> /\ listvecProtocol = <<>> /\ subs \in SUBSET Name
  /\ trimmed = FALSE /\ cut = FALSE /\ excused = {}

-----------------------------------------------------------------------------
(* Locks.                                                                  *)

NoMutexTaken == TRUE
MutexFree == call = NoCall

BevUnlocked(b) == ev.bev # b

-----------------------------------------------------------------------------
(* The broker and the network.                                             *)

(* The attempt fails, or either side gives the connection up, and the      *)
(* broker erases its buffer, if it has noticed.  The last bufferevent that *)
(* the bound allows stays.                                                 *)
LinkDown ==
  /\ link \in {"connecting", "up"} /\ made < MaxConn
  /\ link' = "down"
  /\ vecuint8' \in {<<>>, vecuint8}
  /\ UNCHANGED <<wire, pubs, listvecProtocol, subs, cut, bevVars, userVars,
                 bufVars, ev>>

(* ProcPub sends to every address of a name's list, that of a connection   *)
(* which has not subscribed included.  The message carries its number.     *)
BrokerSend ==
  /\ link = "up" /\ pubs < MaxIn
  /\ pubs' = pubs + 1
  /\ wire' = wire \o MakeProtocol(<<pubs + 1>>)
  /\ UNCHANGED <<link, brokerVars, bevVars, userVars, bufVars, ev>>

\* ProcPub: bufferevent_write refuses the copy, the address is erased.
BrokerRefused(n) ==
  /\ n \in subs /\ -1 \in WriteResults
  /\ subs' = subs \ {n}
  /\ excused' = excused \cup {n}
  /\ UNCHANGED <<link, wire, pubs, vecuint8, listvecProtocol, cut, bevVars,
                 call, ops, wanted, got, bufVars, ev>>

(* libevent writes what is in the output buffer, and the broker's          *)
(* ConnReadCb reads it, message by message.  When its buffer is over the   *)
(* limit, the oldest bytes go.  Heartbeats and publications change no      *)
(* subscription and are not shown.                                         *)
Flush ==
  /\ ev = Idle /\ link = "up" /\ out # <<>>
  /\ out' = Tail(out)
  /\ \E over \in OverLimit, k \in 0..Len(vecuint8) :
       /\ over \/ k = 0
       /\ vecuint8' = Erase(vecuint8, k) \o
            (IF Head(out) \in Noted THEN <<Head(out)>> ELSE <<>>)
       /\ cut' = (cut \/ over)
  /\ UNCHANGED <<link, wire, pubs, listvecProtocol, subs, made, open, bev,
                 userVars, bufVars, ev>>

\* The names that are given up and subscribed again in one buffer.
Reversed(vec) ==
  {n \in Name : \E j \in 1..Len(vec) : \E i \in 1..(j - 1) :
                  vec[i] = GivesUp(n) /\ vec[j] = AsksFor(n)}

(* GetProtocalData, as the last batch is done: push_front has the newest   *)
(* request first.  Behind a cut it finds anything; bound: at most as many  *)
(* requests as it takes.                                                   *)
GetProtocalData ==
  /\ listvecProtocol = <<>> /\ vecuint8 # <<>>
  /\ \E k \in 0..Len(vecuint8) :
       \E found \in IF cut THEN SeqOf(Noted, k) ELSE {vecuint8} :
         /\ cut \/ k = Len(vecuint8)
         /\ listvecProtocol' = Reverse(found)
         /\ vecuint8' = Erase(vecuint8, k)
  /\ excused' = excused \cup Reversed(vecuint8)
  /\ UNCHANGED <<link, wire, pubs, subs, cut, bevVars, call, ops, wanted, got,
                 bufVars, ev>>

\* What ProcSub and ProcSubCancel make of the lists.
Handled(known, req) ==
  IF req.op = "SUB" THEN known \cup {req.name} ELSE known \ {req.name}

HandleOneProtocolData ==
  /\ listvecProtocol # <<>>
  /\ listvecProtocol' = Tail(listvecProtocol)
  /\ subs' = Handled(subs, Head(listvecProtocol))
  /\ UNCHANGED <<link, wire, pubs, vecuint8, cut, bevVars, userVars, bufVars, ev>>

(* The broker accepts the next connection, maybe at an address that is     *)
(* still in its lists, or in the batch it is at.                           *)
Accepted ==
  /\ vecuint8' = <<>> /\ cut' = FALSE
  /\ listvecProtocol' \in {<<>>, listvecProtocol}
  /\ subs' \in SUBSET Name

-----------------------------------------------------------------------------
(* The event thread.                                                       *)

StartReadCb ==
  /\ ev = Idle /\ link \in {"up", "down"} /\ wire # <<>>
  /\ ev' = [cb |-> "read", bev |-> bev]
  /\ UNCHANGED <<netVars, bevVars, userVars, bufVars>>

InsertAtEnd(vec, new) == vec \o new

ConnReadCb ==
  /\ ev.cb = "read" /\ MutexFree
  /\ \E len \in 1..MaxRead :
       /\ len <= Len(wire)
       /\ wire' = Erase(wire, len)
       /\ m_vecBuffer' = InsertAtEnd(
            IF Len(m_vecBuffer) > Cap THEN Erase(m_vecBuffer, len)
                                      ELSE m_vecBuffer,
            SubSeq(wire, 1, len))
  /\ trimmed' = (trimmed \/ Len(m_vecBuffer) > Cap)
  /\ ev' = Idle
  /\ UNCHANGED <<link, pubs, brokerVars, bevVars, userVars>>

(* The event callback for BEV_EVENT_CONNECTED returns at once, but not     *)
(* before it has had m_mutex.                                              *)
StartConnectedCb ==
  /\ ev = Idle /\ link = "connecting"
  /\ link' = "up"
  /\ ev' = [cb |-> "connected", bev |-> bev]
  /\ UNCHANGED <<wire, pubs, brokerVars, bevVars, userVars, bufVars>>

ConnectedCb ==
  /\ ev.cb = "connected" /\ MutexFree
  /\ ev' = Idle
  /\ UNCHANGED <<netVars, bevVars, userVars, bufVars>>

StartEventCb ==
  /\ ev = Idle /\ link = "down"
  /\ ev' = [cb |-> "event", bev |-> bev]
  /\ UNCHANGED <<netVars, bevVars, userVars, bufVars>>

\* Mutated form: the buffer keeps what the old connection brought.
KeepBuffer(vec) == vec
ClearBuffer(vec) == <<>>

BuffereventFree(b) == open \ {b}

NewBev == made + 1

\* Mutated form: every event is treated like BEV_EVENT_CONNECTED.
ConnEventCbReturns ==
  /\ ev.cb = "event" /\ MutexFree
  /\ ev' = Idle
  /\ UNCHANGED <<netVars, bevVars, userVars, bufVars>>

(* Connect makes another bufferevent, does not look at the result of       *)
(* bufferevent_socket_connect and sleeps with m_mutex held.                *)
ConnEventCb ==
  /\ ev.cb = "event" /\ MutexFree
  /\ open' = BuffereventFree(ev.bev) \cup {made + 1}
  /\ made' = made + 1 /\ bev' = NewBev
  /\ out' = <<>> /\ wire' = <<>>
  /\ m_vecBuffer' = ClearBuffer(m_vecBuffer)
  /\ \E ret \in ConnectResults : link' = LinkAfter(ret)
  /\ Accepted
  /\ ev' = Idle
  /\ UNCHANGED <<pubs, userVars, trimmed>>

TimerCbkHeartBeat ==
  /\ ev = Idle /\ MutexFree
  /\ Len(out) < MaxOut
  /\ out' = Append(out, HeartBeat)
  /\ UNCHANGED <<netVars, made, open, bev, userVars, bufVars, ev>>

-----------------------------------------------------------------------------
(* The user threads.                                                       *)

(* SubMsg, SubMsgCancel and PubMsg, up to the point where bufferevent_write *)
(* asks for the lock of the bufferevent.                                   *)
SendToServer(req) ==
  /\ MutexFree /\ ops < MaxOps
  /\ ops' = ops + 1
  /\ call' = [bev |-> bev, req |-> req]
  /\ UNCHANGED <<netVars, bevVars, bufVars, ev, wanted, got, excused>>

\* Mutated form: SubMsg does not look at the result.
AnyResult(ret) == TRUE
Success(ret) == ret = 0

BuffereventWrite(ret) ==
  /\ call # NoCall /\ BevUnlocked(call.bev)
  /\ out' = IF ret = 0 THEN Append(out, call.req) ELSE out
  /\ wanted' =
       CASE call.req.op = "SUB" /\ Success(ret) ->
              [wanted EXCEPT ![call.req.name] = call.bev]
         [] call.req.op = "SUB_CANCEL" -> [wanted EXCEPT ![call.req.name] = 0]
         [] OTHER -> wanted
  /\ excused' = IF call.req.op = "SUB" /\ Success(ret)
                THEN excused \ {call.req.name} ELSE excused
  /\ call' = NoCall
  /\ UNCHANGED <<netVars, made, open, bev, bufVars, ev, ops, got>>

\* GetOneProtocol may drop garbage even when it finds no message.
GetMsg ==
  /\ MutexFree
  /\ LET r == GetOneProtocol(m_vecBuffer)
     IN  /\ m_vecBuffer' = r.vecBuffer
         /\ got' = IF r.ok THEN Append(got, r.vecProtocal) ELSE got
  /\ UNCHANGED <<netVars, bevVars, ev, call, ops, wanted, excused, trimmed>>

-----------------------------------------------------------------------------

BrokerNext ==
  \/ LinkDown \/ BrokerSend
  \/ \E n \in Name : BrokerRefused(n)
  \/ Flush \/ GetProtocalData \/ HandleOneProtocolData

EventThread ==
  \/ StartReadCb \/ ConnReadCb \/ StartConnectedCb \/ ConnectedCb
  \/ StartEventCb \/ ConnEventCb \/ TimerCbkHeartBeat

UserThreads ==
  \/ \E req \in Request : SendToServer(req)
  \/ \E ret \in WriteResults : BuffereventWrite(ret)
  \/ GetMsg

ClientNext == BrokerNext \/ EventThread \/ UserThreads

ClientSpec == ClientInit /\ [][ClientNext]_clientVars

(* libevent's loop serves what is ready, and a user thread that has called *)
(* bufferevent_write goes on.  Nobody has to call, and the broker has to   *)
(* do nothing.                                                             *)
ClientFairness ==
  /\ WF_clientVars(StartReadCb \/ ConnReadCb)
  /\ WF_clientVars(StartConnectedCb \/ ConnectedCb)
  /\ WF_clientVars(StartEventCb \/ ConnEventCb)
  /\ WF_clientVars(\E ret \in WriteResults : BuffereventWrite(ret))

ClientLiveSpec == ClientSpec /\ ClientFairness

-----------------------------------------------------------------------------
(* Properties.                                                             *)

ClientTypeOK ==
  /\ made \in 1..MaxConn /\ open \subseteq 1..MaxConn /\ bev \in 1..MaxConn
  /\ link \in {"connecting", "up", "down", "dead"}
  /\ out \in Seq(Request \cup {HeartBeat})
  /\ wire \in Seq(Cell) /\ m_vecBuffer \in Seq(Cell)
  /\ ev \in [cb : {"read", "connected", "event"}, bev : 1..MaxConn] \cup {Idle}
  /\ call \in [bev : 1..MaxConn, req : Request] \cup {NoCall}
  /\ ops \in 0..MaxOps /\ pubs \in 0..MaxIn
  /\ vecuint8 \in Seq(Noted) /\ listvecProtocol \in Seq(Noted)
  /\ subs \subseteq Name /\ wanted \in [Name -> 0..MaxConn]
  /\ got \in Seq(Seq(Cell))
  /\ trimmed \in BOOLEAN /\ cut \in BOOLEAN /\ excused \subseteq Name

(* The bufferevent a user thread is about to write to and the one whose    *)
(* callback is running are the one of m_bev, however often the event       *)
(* thread reconnects; nothing else has been left open.                     *)
OneLiveSocket ==
  /\ open = {bev}
  /\ call # NoCall => call.bev = bev
  /\ ev # Idle => ev.bev = bev

(* GetMsg returns whole messages the broker has sent, in their order and   *)
(* none twice, even when a connection breaks in the middle of a message    *)
(* and the next one starts with another: as long as the limit of the       *)
(* buffer is not reached.                                                  *)
MessagesAreWhole ==
  ~trimmed =>
    /\ \A i \in 1..Len(got) :
         \E k \in 1..pubs : got[i] = MakeProtocol(<<k>>)
    /\ \A i, j \in 1..Len(got) : i < j => Last(got[i]) < Last(got[j])

\* In requests that are handled from the front on, n is given up, or is
\* asked for and not given up behind that.
Gives(reqs, n) == \E k \in 1..Len(reqs) : reqs[k] = GivesUp(n)
Asks(reqs, n) ==
  \E k \in 1..Len(reqs) :
    /\ reqs[k] = AsksFor(n)
    /\ \A j \in (k + 1)..Len(reqs) : reqs[j] # GivesUp(n)

\* The broker will have the subscription when it has handled everything.
UnderWay(n) ==
  \/ Asks(out, n)
  \/ /\ ~Gives(out, n)
     /\ \/ Asks(vecuint8, n)
        \/ /\ ~Gives(vecuint8, n)
           /\ \/ Asks(listvecProtocol, n)
              \/ ~Gives(listvecProtocol, n) /\ n \in subs

(* A subscription that SubMsg has reported as successful is known to the   *)
(* broker or on its way there, and no heartbeat, publication, failed call  *)
(* or batch takes it back: as long as its connection lasts and has been    *)
(* made at all, the broker has not trimmed its buffer, and since the call  *)
(* has neither refused a copy nor taken the subscription in one batch with *)
(* a cancel of the same name before it, which is then handled after it.    *)
SubscriptionUnderWay ==
  ~cut /\ link \in {"connecting", "up"} =>
    \A n \in Name : wanted[n] = bev => n \in excused \/ UnderWay(n)

(* The two threads wait for each other.                                    *)
LockCycle == call # NoCall /\ ~BevUnlocked(call.bev)

(* A connection that breaks is followed by another one, unless the threads *)
(* block each other or the attempt fails at once: Connect does not look at *)
(* that, and nothing tries again.                                          *)
BrokenIsReplaced ==
  (link = "down") ~> (link \in {"up", "dead"} \/ LockCycle)
=============================================================================
