---------------------------- MODULE EvCoreServer ----------------------------
(* The broker, ipc_core/EvCoreServer: the subclass of EvTcpHandler that    *)
(* keeps the lists of subscribers.  HandleOneProtocolData runs in the      *)
(* handler thread at EvTcpHandler's pc = "call" and holds the subclass's   *)
(* own m_mutex throughout; nothing else in the program takes that mutex    *)
(* (the call of CheckClientStatus is commented out), so it is not a        *)
(* variable here.  The loop of ProcPub is one step per iteration and one   *)
(* per bufferevent_write: connections come and go in between.              *)
EXTENDS EvTcpHandler

CONSTANT Name     \* what subscriptions and publications are named by

Type == {"HEARTBEAT", "PUB", "PUB_QUERY", "SUB", "SUB_CANCEL", "OTHER"}

ASSUME EvCoreAssumption == Payload \subseteq [type : Type, name : Name]

VARIABLES
  heartbeatinfo,  \* m_map_bfevnt_heartbeatinfo, the names only
  listsubbev,     \* m_map_pubname_listsubbev
  proc,           \* HandleOneProtocolData: what it is doing
  it,             \* ProcPub: the position of its iterator, 0 outside the loop
  copies          \* history: copies accepted per socket in this ProcPub

subVars  == <<heartbeatinfo, listsubbev>>
procVars == <<proc, it, copies>>
coreVars == <<tcpVars, subVars, procVars>>

CoreInit ==
  /\ TcpInit
  /\ heartbeatinfo = [b \in {} |-> ""]
  /\ listsubbev = [n \in {} |-> <<>>]
  /\ proc = "dispatch" /\ it = 0 /\ copies = [b \in Bev |-> 0]

MapAssign(f, k, v) == [x \in DOMAIN f \cup {k} |-> IF x = k THEN v ELSE f[x]]

CurName == CurProtocol.body.name
Called(type) ==
  pc = "call" /\ proc = "dispatch" /\ CurProtocol.body.type = type

-----------------------------------------------------------------------------
(* The operations that return without sending.                             *)

ProcHeartBeat ==
  /\ Called("HEARTBEAT")
  /\ heartbeatinfo' = MapAssign(heartbeatinfo, epair, CurName)
  /\ HandleReturn
  /\ UNCHANGED <<listsubbev, procVars>>

\* Prints the names.
ProcPubQuery ==
  /\ Called("PUB_QUERY")
  /\ HandleReturn
  /\ UNCHANGED <<subVars, procVars>>

Subscribers(n) == IF n \in DOMAIN listsubbev THEN listsubbev[n] ELSE <<>>

\* Mutated form: the list of an existing name is replaced.
SubscribeAnew(list, b) == <<b>>
Subscribe(list, b) == <<b>> \o list

(* A subscriber is pushed to the front, whether or not it is in the list   *)
(* already and whether or not it is still connected.                       *)
ProcSub ==
  /\ Called("SUB")
  /\ listsubbev' =
       MapAssign(listsubbev, CurName, Subscribe(Subscribers(CurName), epair))
  /\ HandleReturn
  /\ UNCHANGED <<heartbeatinfo, procVars>>

\* Mutated form: only the first entry of the subscriber is removed.
CancelFirst(list, b) == RemoveFirstMatch(list, LAMBDA c : c = b)
\* The place each member of a set of numbers has among them, from 1 on.
Rank(S) == [i \in S |-> Cardinality({j \in S : j <= i})]
(* std::list::remove takes out every entry that is equal; the others keep  *)
(* their order.                                                            *)
CancelAll(list, b) ==
  LET kept == {i \in 1..Len(list) : list[i] # b}
  IN  [k \in 1..Cardinality(kept) |->
         list[CHOOSE i \in kept : Rank(kept)[i] = k]]

ProcSubCancel ==
  /\ Called("SUB_CANCEL")
  /\ IF CurName \in DOMAIN listsubbev
     THEN listsubbev' = [listsubbev EXCEPT ![CurName] = CancelAll(@, epair)]
     ELSE UNCHANGED listsubbev
  /\ HandleReturn
  /\ UNCHANGED <<heartbeatinfo, procVars>>

-----------------------------------------------------------------------------
(* ProcPub.                                                                *)

EmptyList == <<>>

PubUnknown ==
  /\ Called("PUB")
  /\ CurName \notin DOMAIN listsubbev
  /\ listsubbev' = MapAssign(listsubbev, CurName, EmptyList)
  /\ HandleReturn
  /\ UNCHANGED <<heartbeatinfo, procVars>>

PubBegin ==
  /\ Called("PUB")
  /\ CurName \in DOMAIN listsubbev
  /\ proc' = "pub" /\ it' = 1 /\ copies' = [b \in Bev |-> 0]
  /\ UNCHANGED <<tcpVars, subVars>>

InLoop == proc = "pub" /\ it <= Len(listsubbev[CurName])

\* Mutated form: the iterator moves on after erase as well.
EraseAndSkip ==
  /\ listsubbev' = [listsubbev EXCEPT ![CurName] = RemoveAt(@, it)]
  /\ it' = it + 1

\* listsubbev.erase ( it++ ): the iterator is at the next entry.
EraseIt ==
  /\ listsubbev' = [listsubbev EXCEPT ![CurName] = RemoveAt(@, it)]
  /\ it' = it

\* Mutated form: the iterator moves on before the result is known.
PubSendAdvances ==
  /\ pc = "call" /\ InLoop
  /\ SendDataToClient(listsubbev[CurName][it])
  /\ it' = it + 1
  /\ UNCHANGED <<subVars, proc, copies>>

PubSend ==
  /\ pc = "call" /\ InLoop
  /\ SendDataToClient(listsubbev[CurName][it])
  /\ UNCHANGED <<subVars, procVars>>

\* SendDataToClient does not know the pointer.
PubNotFound ==
  /\ pc = "call" /\ InLoop
  /\ listsubbev[CurName][it] \notin DOMAIN vecuint8
  /\ EraseIt
  /\ UNCHANGED <<tcpVars, heartbeatinfo, proc, copies>>

PubWritten ==
  /\ pc = "write" /\ proc = "pub" /\ 0 \in WriteResults
  /\ BuffereventWrite(0)
  /\ copies' = [copies EXCEPT ![target] = @ + 1]
  /\ it' = it + 1
  /\ UNCHANGED <<subVars, proc>>

\* Mutated form: the socket is freed with the subscription.
FreeAndErase ==
  /\ pc = "write" /\ proc = "pub" /\ -1 \in WriteResults /\ BevUnlocked(target)
  /\ BuffereventFree(target)
  /\ pc' = "call" /\ target' = NoBev
  /\ EraseIt
  /\ UNCHANGED <<vecuint8, ev, listvecProtocol, loopVars, handled,
                 heartbeatinfo, proc, copies>>

PubWriteFailed ==
  /\ pc = "write" /\ proc = "pub" /\ -1 \in WriteResults
  /\ BuffereventWrite(-1)
  /\ EraseIt
  /\ UNCHANGED <<heartbeatinfo, proc, copies>>

PubEnd ==
  /\ pc = "call" /\ proc = "pub" /\ ~InLoop
  /\ proc' = "dispatch" /\ it' = 0 /\ copies' = [b \in Bev |-> 0]
  /\ HandleReturn
  /\ UNCHANGED subVars

-----------------------------------------------------------------------------
(* A message of any other type goes back to its sender.                    *)

EchoSend ==
  /\ Called("OTHER")
  /\ SendDataToClient(epair)
  /\ proc' = "echo"
  /\ UNCHANGED <<subVars, it, copies>>

EchoNotFound ==
  /\ Called("OTHER")
  /\ epair \notin DOMAIN vecuint8
  /\ HandleReturn
  /\ UNCHANGED <<subVars, procVars>>

EchoWrite ==
  /\ pc = "write" /\ proc = "echo"
  /\ \E ret \in WriteResults : BuffereventWrite(ret)
  /\ UNCHANGED <<subVars, procVars>>

EchoEnd ==
  /\ pc = "call" /\ proc = "echo"
  /\ proc' = "dispatch"
  /\ HandleReturn
  /\ UNCHANGED <<subVars, it, copies>>

-----------------------------------------------------------------------------

HandleOneProtocolData ==
  \/ ProcHeartBeat \/ ProcPubQuery \/ ProcSub \/ ProcSubCancel
  \/ PubUnknown \/ PubBegin \/ PubSend \/ PubNotFound \/ PubWritten
  \/ PubWriteFailed \/ PubEnd
  \/ EchoSend \/ EchoNotFound \/ EchoWrite \/ EchoEnd

\* DisconnectClient has no caller in the repository.
HandlerThread ==
  \/ LoopNext /\ UNCHANGED <<subVars, procVars>>
  \/ HandleOneProtocolData

EventThread(b) == EventNext(b) /\ UNCHANGED <<subVars, procVars>>

CoreNext ==
  \/ PeerNext /\ UNCHANGED <<subVars, procVars>>
  \/ \E b \in Bev : EventThread(b)
  \/ HandlerThread

CoreSpec == CoreInit /\ [][CoreNext]_coreVars

(* The scheduler runs both threads, and libevent calls back for every      *)
(* socket that is ready.  Nothing makes a peer send, close or connect.     *)
CoreFairness ==
  /\ WF_coreVars(HandlerThread)
  /\ \A b \in Bev :
       /\ WF_coreVars((StartReadCb(b) \/ ConnReadCb(b))
                        /\ UNCHANGED <<subVars, procVars>>)
       /\ WF_coreVars((StartEventCb(b) \/ ConnEventCb(b))
                        /\ UNCHANGED <<subVars, procVars>>)

CoreLiveSpec == CoreSpec /\ CoreFairness

-----------------------------------------------------------------------------
(* Properties.                                                             *)

(* The loop of ProcPub runs over the list it was called for, and while a   *)
(* copy waits for the lock of its socket the iterator still points at the  *)
(* entry of that socket: the one to erase if the copy is refused.          *)
IteratorAtTarget ==
  /\ proc # "dispatch" => pc \in {"call", "write"}
  /\ pc = "write" => proc # "dispatch"
  /\ proc = "pub" =>
       /\ CurName \in DOMAIN listsubbev
       /\ it \in 1..(Len(listsubbev[CurName]) + 1)
       /\ pc = "write" => InLoop /\ listsubbev[CurName][it] = target

(* While ProcPub erases entries under its own iterator, every entry it has *)
(* passed and kept has been sent exactly one copy, entries of the same     *)
(* socket counted apart: nobody is skipped after an erase and nobody is    *)
(* served twice, whoever disconnects during the loop.                      *)
CopiesMatchEntries ==
  proc = "pub" =>
    LET list == listsubbev[CurName]
    IN  \A b \in Bev :
          copies[b] =
            Cardinality({i \in 1..Len(list) : i < it /\ list[i] = b})

\* The positions in the history of the (un)subscriptions of b to n.
Requests(b, n) ==
  {i \in 1..Len(handled) :
     /\ handled[i].bev = b
     /\ handled[i].msg.body.name = n
     /\ handled[i].msg.body.type \in {"SUB", "SUB_CANCEL"}}

(* Whoever is in a list has asked for it, and has not cancelled since: one *)
(* SUB_CANCEL takes back any number of SUBs.                               *)
EntryHasLiveRequest ==
  \A n \in DOMAIN listsubbev : \A b \in ToSet(listsubbev[n]) :
    LET asked == Requests(b, n)
    IN  /\ asked # {}
        /\ handled[Max(asked)].msg.body.type = "SUB"

\* The places of b in a list.
Places(list, b) == {i \in 1..Len(list) : list[i] = b}

PrunedForCause ==
  \A n \in DOMAIN listsubbev : \A b \in Bev :
    Cardinality(Places(listsubbev'[n], b)) < Cardinality(Places(listsubbev[n], b))
      => \/ handled' = handled /\ b \notin DOMAIN vecuint8
         \/ pc = "write" /\ target = b /\ written' = written
         \/ /\ handled' # handled
            /\ Last(handled').bev = b
            /\ Last(handled').msg.body = [type |-> "SUB_CANCEL", name |-> n]

(* A list loses an entry in two ways only: the subscriber cancels, or a    *)
(* copy could not be sent, to a socket unknown to the handler or one that  *)
(* bufferevent_write refused.                                              *)
PrunedOnlyIfSendFailed == [][PrunedForCause]_coreVars

(* EvTcpHandler.cpp:220 says that to a deleted connection no data can be   *)
(* sent.  Stated for publications: what was written to a connection's      *)
(* socket has been asked for by that very connection.                      *)
PublishedToSubscribersOnly ==
  \A b \in Bev : \A m \in written[b] :
    m.body.type = "PUB" =>
      \E i \in 1..Len(handled) :
        /\ handled[i].msg.conn = conn[b]
        /\ handled[i].msg.body = [type |-> "SUB", name |-> m.body.name]

InBuffer(id)  == \E b \in DOMAIN vecuint8 : id \in Ids(vecuint8[b])
InBatch(id)   == \E b \in DOMAIN listvecProtocol : id \in Ids(listvecProtocol[b])
IsHandled(id) == \E i \in 1..Len(handled) : handled[i].msg.id = id

(* No receive buffer keeps a message for ever, but one that has been over  *)
(* its limit; and a message that has been taken into a batch is handled    *)
(* even if its connection is closed in the meantime; unless the two        *)
(* threads block each other.                                               *)
HandledEventually ==
  \A id \in 1..MaxMsg :
    /\ InBuffer(id) ~> (~InBuffer(id) \/ LockCycle \/ trimmed # {})
    /\ InBatch(id) ~> (IsHandled(id) \/ LockCycle)

(* A connection whose peer has closed is freed, unless the two threads     *)
(* block each other.                                                       *)
ClosedIsFreed ==
  \A b \in Bev : (b \in Live \ peerOpen) ~> (b \notin Live \/ LockCycle)
=============================================================================
