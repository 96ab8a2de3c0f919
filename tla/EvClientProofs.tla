--------------------------- MODULE EvClientProofs ---------------------------
(* Proofs about EvClient.                                                  *)
EXTENDS EvClient, ProtocolIncProofs

(* The constructor has made one bufferevent, and nothing else has started. *)
LEMMA ClientInitOne == ClientInit => OneLiveSocket
  BY DEF ClientInit, OneLiveSocket

(* The broker and the network do not touch the sockets, the callback and   *)
(* the call.                                                               *)
LEMMA BrokerKeepsOne == OneLiveSocket /\ BrokerNext => OneLiveSocket'
  BY DEF OneLiveSocket, BrokerNext, LinkDown, BrokerSend, BrokerRefused, Flush,
         GetProtocalData, HandleOneProtocolData, bevVars, userVars

(* A callback is started for m_bev, and only the one that holds m_mutex    *)
(* replaces it.                                                            *)
LEMMA EventThreadKeepsOne == OneLiveSocket /\ EventThread => OneLiveSocket'
<1> SUFFICES ASSUME OneLiveSocket, EventThread PROVE OneLiveSocket'
  OBVIOUS
<1>1. CASE StartReadCb \/ StartConnectedCb \/ StartEventCb
  BY <1>1 DEF OneLiveSocket, StartReadCb, StartConnectedCb, StartEventCb, bevVars,
              userVars
<1>2. CASE ConnReadCb \/ ConnectedCb
  BY <1>2 DEF OneLiveSocket, ConnReadCb, ConnectedCb, bevVars, userVars
<1>3. CASE ConnEventCb
  <2>1. ev # Idle /\ ev.bev = bev
    BY <1>3 DEF OneLiveSocket, ConnEventCb, Idle
  <2>2. open' = {bev'}
    BY <1>3, <2>1 DEF OneLiveSocket, ConnEventCb, BuffereventFree, NewBev
  <2>3. call' = NoCall /\ ev' = Idle
    BY <1>3 DEF ConnEventCb, MutexFree, userVars
  <2> QED
    BY <2>2, <2>3 DEF OneLiveSocket
<1>4. CASE TimerCbkHeartBeat
  BY <1>4 DEF OneLiveSocket, TimerCbkHeartBeat, userVars
<1> QED
  BY <1>1, <1>2, <1>3, <1>4 DEF EventThread

(* A user thread keeps the pointer it read under m_mutex.                  *)
LEMMA UserThreadsKeepOne == OneLiveSocket /\ UserThreads => OneLiveSocket'
<1> SUFFICES ASSUME OneLiveSocket, UserThreads PROVE OneLiveSocket'
  OBVIOUS
<1>1. ASSUME NEW req \in Request, SendToServer(req) PROVE OneLiveSocket'
  BY <1>1 DEF OneLiveSocket, SendToServer, bevVars
<1>2. ASSUME NEW ret \in WriteResults, BuffereventWrite(ret) PROVE OneLiveSocket'
  BY <1>2 DEF OneLiveSocket, BuffereventWrite
<1>3. CASE GetMsg
  BY <1>3 DEF OneLiveSocket, GetMsg, bevVars
<1> QED
  BY <1>1, <1>2, <1>3 DEF UserThreads

(* However often the event thread reconnects and whatever the user threads *)
(* call meanwhile: one bufferevent is open, it is m_bev, and it is the one *)
(* a callback runs for and a write goes to.                                *)
THEOREM OneSocket == ClientSpec => []OneLiveSocket
<1>1. OneLiveSocket /\ [ClientNext]_clientVars => OneLiveSocket'
  <2> SUFFICES ASSUME OneLiveSocket, [ClientNext]_clientVars PROVE OneLiveSocket'
    OBVIOUS
  <2>1. CASE ClientNext
    BY <2>1, BrokerKeepsOne, EventThreadKeepsOne, UserThreadsKeepOne DEF ClientNext
  <2>2. CASE UNCHANGED clientVars
    BY <2>2 DEF OneLiveSocket, clientVars, bevVars, userVars
  <2> QED
    BY <2>1, <2>2
<1> QED
  BY <1>1, ClientInitOne, PTL DEF ClientSpec

-----------------------------------------------------------------------------
(* Type correctness.  That m_bev gets another number only within the bound *)
(* needs to know that a connection that is down is not the last one, and   *)
(* that its event callback runs for no other.                              *)

ClientInv ==
  /\ ClientTypeOK
  /\ link = "down" => made < MaxConn
  /\ ev.cb = "event" => link = "down"

LEMMA NothingNoted == <<>> \in Seq(Noted)
  OBVIOUS

(* What the broker does.                                                   *)
LEMMA BrokerKeepsInv == ClientInv /\ BrokerNext => ClientInv'
<1> SUFFICES ASSUME ClientInv, BrokerNext PROVE ClientInv'
  OBVIOUS
<1> USE DEF ClientInv, ClientTypeOK
<1>1. CASE LinkDown
  <2>1. vecuint8' \in Seq(Noted)
    <3>1. vecuint8' = <<>> \/ vecuint8' = vecuint8
      BY <1>1 DEF LinkDown
    <3>2. vecuint8 \in Seq(Noted)
      OBVIOUS
    <3>3. QED
      BY <3>1, <3>2, NothingNoted
  <2>2. QED
    BY <1>1, <2>1 DEF LinkDown, bufVars, bevVars, userVars
<1>2. CASE BrokerSend
  <2>1. <<pubs + 1>> \in Seq(Cell) /\ Len(<<pubs + 1>>) = 1 /\ pubs + 1 \in 0..MaxIn
    BY <1>2, EvClientAssumption, ProtocolAssumption DEF BrokerSend, Cell
  <2>2. MakeProtocol(<<pubs + 1>>) \in Seq(Cell)
    BY <2>1, MakeProtocolShape, EvClientAssumption, ProtocolAssumption
  <2>3. wire' \in Seq(Cell)
    <3>1. wire \in Seq(Cell) /\ wire' = wire \o MakeProtocol(<<pubs + 1>>)
      BY <1>2 DEF BrokerSend
    <3> HIDE DEF ClientInv, ClientTypeOK
    <3>2. QED
      BY <2>2, <3>1
  <2> QED
    BY <1>2, <2>1, <2>3 DEF BrokerSend, brokerVars, bufVars, bevVars, userVars
<1>3. ASSUME NEW n \in Name, BrokerRefused(n) PROVE ClientInv'
  BY <1>3 DEF BrokerRefused, bufVars, bevVars
<1>4. CASE Flush
  <2>1. out' \in Seq(Request \cup {HeartBeat})
    BY <1>4 DEF Flush
  <2>2. vecuint8' \in Seq(Noted) /\ cut' \in BOOLEAN
    <3>1. PICK over \in OverLimit, k \in 0..Len(vecuint8) :
            /\ vecuint8' = Erase(vecuint8, k) \o
                 (IF Head(out) \in Noted THEN <<Head(out)>> ELSE <<>>)
            /\ cut' = (cut \/ over)
      BY <1>4 DEF Flush
    <3>2. Erase(vecuint8, k) \in Seq(Noted)
      BY DEF Erase
    <3>3. (IF Head(out) \in Noted THEN <<Head(out)>> ELSE <<>>) \in Seq(Noted)
      OBVIOUS
    <3> HIDE DEF ClientInv, ClientTypeOK
    <3>4. vecuint8' \in Seq(Noted)
      BY <3>1, <3>2, <3>3
    <3>5. cut' \in BOOLEAN
      BY <3>1, EvClientAssumption
    <3>6. QED
      BY <3>4, <3>5
  <2>3. QED
    BY <1>4, <2>1, <2>2 DEF Flush, bufVars, userVars
<1>5. CASE GetProtocalData
  <2>1. vecuint8' \in Seq(Noted) /\ listvecProtocol' \in Seq(Noted)
    <3>1. PICK k \in 0..Len(vecuint8) :
            \E found \in IF cut THEN SeqOf(Noted, k) ELSE {vecuint8} :
              /\ listvecProtocol' = Reverse(found)
              /\ vecuint8' = Erase(vecuint8, k)
      BY <1>5 DEF GetProtocalData
    <3>2. PICK found \in IF cut THEN SeqOf(Noted, k) ELSE {vecuint8} :
            listvecProtocol' = Reverse(found)
      BY <3>1
    <3>3. Erase(vecuint8, k) \in Seq(Noted)
      BY DEF Erase
    <3>4. found \in Seq(Noted)
      <4>1. k \in Nat
        BY <3>1
      <4>2. SeqOf(Noted, k) \subseteq Seq(Noted)
        BY <4>1 DEF SeqOf
      <4>3. QED
        BY <3>2, <4>2
    <3>5. Reverse(found) \in Seq(Noted)
      BY <3>4 DEF Reverse
    <3>6. QED
      BY <3>1, <3>2, <3>3, <3>5
  <2>2. excused' \subseteq Name
    BY <1>5 DEF GetProtocalData, Reversed
  <2>3. QED
    BY <1>5, <2>1, <2>2 DEF GetProtocalData, bufVars, bevVars
<1>6. CASE HandleOneProtocolData
  <2>1. /\ Head(listvecProtocol) \in Noted
        /\ listvecProtocol' \in Seq(Noted)
    BY <1>6 DEF HandleOneProtocolData
  <2>2. Handled(subs, Head(listvecProtocol)) \subseteq Name
    BY <2>1 DEF Handled, Noted
  <2>3. QED
    BY <1>6, <2>1, <2>2 DEF HandleOneProtocolData, bufVars, bevVars, userVars
<1>7. QED
  BY <1>1, <1>2, <1>3, <1>4, <1>5, <1>6 DEF BrokerNext

(* What the event thread does.                                             *)
LEMMA EventThreadKeepsInv == ClientInv /\ EventThread => ClientInv'
<1> SUFFICES ASSUME ClientInv, EventThread PROVE ClientInv'
  OBVIOUS
<1> USE DEF ClientInv, ClientTypeOK, brokerVars
<1>1. CASE StartReadCb
  BY <1>1 DEF StartReadCb, bufVars, netVars, bevVars, userVars
<1>2. CASE ConnReadCb
  <2>1. PICK len \in 1..MaxRead :
          /\ len <= Len(wire)
          /\ wire' = Erase(wire, len)
          /\ m_vecBuffer' = InsertAtEnd(
               IF Len(m_vecBuffer) > Cap THEN Erase(m_vecBuffer, len) ELSE m_vecBuffer,
               SubSeq(wire, 1, len))
    BY <1>2 DEF ConnReadCb
  <2>2. /\ Erase(wire, len) \in Seq(Cell) /\ Erase(m_vecBuffer, len) \in Seq(Cell)
        /\ SubSeq(wire, 1, len) \in Seq(Cell)
    <3>1. wire \in Seq(Cell) /\ m_vecBuffer \in Seq(Cell)
      OBVIOUS
    <3>2. len \in Nat /\ 1 <= len /\ len <= Len(wire)
      BY <2>1, EvClientAssumption
    <3> HIDE DEF ClientInv, ClientTypeOK
    <3>3. SubSeq(wire, 1, len) \in Seq(Cell)
      BY <3>1, <3>2
    <3> QED
      BY <3>1, <3>2, <3>3, EraseType
  <2>3. wire' \in Seq(Cell) /\ m_vecBuffer' \in Seq(Cell)
    BY <2>1, <2>2 DEF InsertAtEnd
  <2> QED
    BY <1>2, <2>3 DEF ConnReadCb, Idle, bevVars, userVars
<1>3. CASE StartConnectedCb
  BY <1>3 DEF StartConnectedCb, bufVars, Idle, bevVars, userVars
<1>4. CASE ConnectedCb
  BY <1>4 DEF ConnectedCb, bufVars, Idle, netVars, bevVars, userVars
<1>5. CASE StartEventCb
  BY <1>5 DEF StartEventCb, bufVars, netVars, bevVars, userVars
<1>6. CASE ConnEventCb
  <2>1. link = "down" /\ made < MaxConn
    BY <1>6 DEF ConnEventCb
  <2>2. made' \in 1..MaxConn /\ bev' \in 1..MaxConn /\ open' \subseteq 1..MaxConn
    <3>1. made + 1 \in 1..MaxConn
      BY <2>1, EvClientAssumption
    <3>2. /\ made' = made + 1 /\ bev' = made + 1
          /\ open' = (open \ {ev.bev}) \cup {made + 1}
      BY <1>6 DEF ConnEventCb, BuffereventFree, NewBev
    <3> QED
      BY <3>1, <3>2
  <2>3. link' \in {"connecting", "dead"}
    BY <1>6 DEF ConnEventCb, LinkAfter
  <2>4. out' = <<>> /\ wire' = <<>> /\ m_vecBuffer' = <<>> /\ ev' = Idle
    BY <1>6 DEF ConnEventCb, ClearBuffer
  <2>5. /\ vecuint8' \in Seq(Noted) /\ listvecProtocol' \in Seq(Noted)
        /\ subs' \subseteq Name /\ cut' \in BOOLEAN
    <3>1. /\ vecuint8' = <<>> /\ cut' = FALSE /\ subs' \in SUBSET Name
          /\ listvecProtocol' = <<>> \/ listvecProtocol' = listvecProtocol
      BY <1>6 DEF ConnEventCb, Accepted
    <3>2. listvecProtocol \in Seq(Noted)
      OBVIOUS
    <3>3. QED
      BY <3>1, <3>2, NothingNoted
  <2> QED
    BY <1>6, <2>2, <2>3, <2>4, <2>5 DEF ConnEventCb, Idle, userVars
<1>7. CASE TimerCbkHeartBeat
  <2>1. out' \in Seq(Request \cup {HeartBeat})
    BY <1>7 DEF TimerCbkHeartBeat
  <2> QED
    BY <1>7, <2>1 DEF TimerCbkHeartBeat, bufVars, netVars, userVars
<1> QED
  BY <1>1, <1>2, <1>3, <1>4, <1>5, <1>6, <1>7 DEF EventThread

(* What the user threads do.                                               *)
LEMMA UserThreadsKeepInv == ClientInv /\ UserThreads => ClientInv'
<1> SUFFICES ASSUME ClientInv, UserThreads PROVE ClientInv'
  OBVIOUS
<1> USE DEF ClientInv, ClientTypeOK, brokerVars
<1>1. ASSUME NEW req \in Request, SendToServer(req) PROVE ClientInv'
  BY <1>1, EvClientAssumption DEF SendToServer, bufVars, netVars, bevVars
<1>2. ASSUME NEW ret \in WriteResults, BuffereventWrite(ret) PROVE ClientInv'
  <2>1. call \in [bev : 1..MaxConn, req : Request]
    BY <1>2 DEF BuffereventWrite
  <2>2. out' \in Seq(Request \cup {HeartBeat})
    BY <1>2, <2>1 DEF BuffereventWrite
  <2>3. call.req.name \in Name /\ call.bev \in 0..MaxConn
    BY <2>1, EvClientAssumption DEF Request
  <2>4. wanted' \in [Name -> 0..MaxConn]
    <3>1. /\ [wanted EXCEPT ![call.req.name] = call.bev] \in [Name -> 0..MaxConn]
          /\ [wanted EXCEPT ![call.req.name] = 0] \in [Name -> 0..MaxConn]
      BY <2>3, EvClientAssumption
    <3> QED
      BY <1>2, <3>1 DEF BuffereventWrite
  <2>5. excused' \subseteq Name
    BY <1>2 DEF BuffereventWrite
  <2> QED
    BY <1>2, <2>2, <2>4, <2>5 DEF BuffereventWrite, bufVars, netVars
<1>3. CASE GetMsg
  <2>1. m_vecBuffer' \in Seq(Cell) /\ got' \in Seq(Seq(Cell))
    BY <1>3, GetOneProtocolType DEF GetMsg
  <2> QED
    BY <1>3, <2>1 DEF GetMsg, netVars, bevVars
<1> QED
  BY <1>1, <1>2, <1>3 DEF UserThreads

LEMMA ClientInvariant == ClientSpec => []ClientInv
<1>1. ASSUME ClientInit PROVE ClientInv
  <2>1. wanted \in [Name -> 0..MaxConn]
    BY <1>1, EvClientAssumption DEF ClientInit
  <2>2. /\ out \in Seq(Request \cup {HeartBeat}) /\ wire \in Seq(Cell)
        /\ m_vecBuffer \in Seq(Cell) /\ got \in Seq(Seq(Cell))
    BY <1>1 DEF ClientInit
  <2>3. /\ made \in 1..MaxConn /\ open \subseteq 1..MaxConn /\ bev \in 1..MaxConn
        /\ ops \in 0..MaxOps /\ pubs \in 0..MaxIn /\ subs \subseteq Name
        /\ excused \subseteq Name
    BY <1>1, EvClientAssumption DEF ClientInit
  <2>4. link \in {"connecting", "dead"} /\ ev = Idle /\ call = NoCall
    BY <1>1 DEF ClientInit, LinkAfter
  <2>5. /\ trimmed \in BOOLEAN /\ cut \in BOOLEAN
        /\ vecuint8 \in Seq(Noted) /\ listvecProtocol \in Seq(Noted)
    BY <1>1, NothingNoted DEF ClientInit
  <2>6. QED
    BY <2>1, <2>2, <2>3, <2>4, <2>5 DEF ClientInv, ClientTypeOK, Idle
<1>2. ClientInv /\ [ClientNext]_clientVars => ClientInv'
  <2> SUFFICES ASSUME ClientInv, [ClientNext]_clientVars PROVE ClientInv'
    OBVIOUS
  <2>1. CASE ClientNext
    BY <2>1, BrokerKeepsInv, EventThreadKeepsInv, UserThreadsKeepInv DEF ClientNext
  <2>2. CASE UNCHANGED clientVars
    BY <2>2 DEF ClientInv, ClientTypeOK, clientVars, netVars, brokerVars, bevVars,
              userVars, bufVars
  <2> QED
    BY <2>1, <2>2
<1> QED
  BY <1>1, <1>2, PTL DEF ClientSpec

(* Type correctness of the client: every buffer stays a sequence of cells  *)
(* and the bufferevents stay within the bound.                             *)
THEOREM ClientTypeCorrect == ClientSpec => []ClientTypeOK
<1>1. ClientInv => ClientTypeOK
  BY DEF ClientInv
<1> QED
  BY <1>1, ClientInvariant, PTL

-----------------------------------------------------------------------------
(* Subscriptions.  Requests about a name pass from the output buffer to    *)
(* the broker's buffer and from there to its batch, and what is behind     *)
(* decides.  A bufferevent is named by a number that no earlier            *)
(* subscription was made on.                                               *)

Entry == Request \cup {HeartBeat}

\* What another request at the end changes.
LEMMA RequestAdded ==
  ASSUME NEW S, NEW reqs \in Seq(S), NEW e \in S, NEW n \in Name
  PROVE  /\ Gives(Append(reqs, e), n) => Gives(reqs, n) \/ e = GivesUp(n)
         /\ e = AsksFor(n) => Asks(Append(reqs, e), n)
         /\ e # GivesUp(n) /\ Asks(reqs, n) => Asks(Append(reqs, e), n)
<1> DEFINE longer == Append(reqs, e)
<1>1. /\ Len(reqs) \in Nat /\ Len(longer) = Len(reqs) + 1
      /\ \A j \in 1..Len(reqs) : longer[j] = reqs[j]
      /\ longer[Len(reqs) + 1] = e
  BY AppendProperties
<1> HIDE DEF longer
<1>2. ASSUME NEW j \in 1..Len(longer)
      PROVE  j = Len(reqs) + 1 \/ j \in 1..Len(reqs)
  BY <1>1
<1>3. ASSUME Gives(longer, n) PROVE Gives(reqs, n) \/ e = GivesUp(n)
  <2>1. PICK j \in 1..Len(longer) : longer[j] = GivesUp(n)
    BY <1>3 DEF Gives
  <2>2. QED
    BY <1>1, <1>2, <2>1 DEF Gives
<1>4. ASSUME e = AsksFor(n) PROVE Asks(longer, n)
  <2>1. /\ Len(reqs) + 1 \in 1..Len(longer)
        /\ ((Len(reqs) + 1) + 1)..Len(longer) = {}
    BY <1>1
  <2>2. QED
    BY <1>1, <1>4, <2>1 DEF Asks
<1>5. ASSUME e # GivesUp(n), Asks(reqs, n) PROVE Asks(longer, n)
  <2>1. PICK k \in 1..Len(reqs) :
          /\ reqs[k] = AsksFor(n)
          /\ \A j \in (k + 1)..Len(reqs) : reqs[j] # GivesUp(n)
    BY <1>5 DEF Asks
  <2>2. k \in 1..Len(longer) /\ longer[k] = AsksFor(n)
    BY <1>1, <2>1
  <2>3. ASSUME NEW j \in (k + 1)..Len(longer) PROVE longer[j] # GivesUp(n)
    <3>1. j = Len(reqs) + 1 \/ (j \in (k + 1)..Len(reqs) /\ j \in 1..Len(reqs))
      BY <1>1
    <3>2. QED
      BY <1>1, <1>5, <2>1, <3>1
  <2>4. QED
    BY <2>2, <2>3 DEF Asks
<1>6. QED
  BY <1>3, <1>4, <1>5 DEF longer

\* What is left when the request in front has been taken.
LEMMA RequestTaken ==
  ASSUME NEW S, NEW reqs \in Seq(S), reqs # <<>>, NEW n \in Name
  PROVE  /\ Head(reqs) \in S /\ Tail(reqs) \in Seq(S)
         /\ Gives(Tail(reqs), n) => Gives(reqs, n)
         /\ Head(reqs) = GivesUp(n) => Gives(reqs, n)
         /\ Asks(reqs, n) =>
              \/ Asks(Tail(reqs), n)
              \/ Head(reqs) = AsksFor(n) /\ ~Gives(Tail(reqs), n)
<1> DEFINE less == Tail(reqs)
<1>1. /\ Len(reqs) \in Nat /\ Len(reqs) >= 1 /\ Len(less) = Len(reqs) - 1
      /\ \A j \in 1..(Len(reqs) - 1) : less[j] = reqs[j + 1]
      /\ Head(reqs) = reqs[1] /\ reqs[1] \in S /\ less \in Seq(S)
  BY HeadTailProperties
<1> HIDE DEF less
<1>2. ASSUME Gives(less, n) PROVE Gives(reqs, n)
  <2>1. PICK j \in 1..Len(less) : less[j] = GivesUp(n)
    BY <1>2 DEF Gives
  <2>2. j + 1 \in 1..Len(reqs) /\ reqs[j + 1] = GivesUp(n)
    BY <1>1, <2>1
  <2>3. QED
    BY <2>2 DEF Gives
<1>3. ASSUME Head(reqs) = GivesUp(n) PROVE Gives(reqs, n)
  <2>1. 1 \in 1..Len(reqs)
    BY <1>1
  <2>2. QED
    BY <1>1, <1>3, <2>1 DEF Gives
<1>4. ASSUME Asks(reqs, n)
      PROVE  Asks(less, n) \/ (Head(reqs) = AsksFor(n) /\ ~Gives(less, n))
  <2>1. PICK k \in 1..Len(reqs) :
          /\ reqs[k] = AsksFor(n)
          /\ \A j \in (k + 1)..Len(reqs) : reqs[j] # GivesUp(n)
    BY <1>4 DEF Asks
  <2>2. CASE k = 1
    <3>1. ASSUME NEW j \in 1..Len(less) PROVE less[j] # GivesUp(n)
      <4>1. j + 1 \in (k + 1)..Len(reqs) /\ j \in 1..(Len(reqs) - 1)
        BY <1>1, <2>2
      <4>2. QED
        BY <1>1, <2>1, <4>1
    <3>2. QED
      BY <1>1, <2>1, <2>2, <3>1 DEF Gives
  <2>3. CASE k # 1
    <3>1. k - 1 \in 1..Len(less) /\ less[k - 1] = AsksFor(n)
      <4>1. k - 1 \in 1..(Len(reqs) - 1) /\ (k - 1) + 1 = k
        BY <1>1, <2>3
      <4>2. less[k - 1] = reqs[(k - 1) + 1]
        BY <1>1, <4>1
      <4>3. QED
        BY <1>1, <2>1, <4>1, <4>2
    <3>2. ASSUME NEW j \in ((k - 1) + 1)..Len(less) PROVE less[j] # GivesUp(n)
      <4>1. j + 1 \in (k + 1)..Len(reqs) /\ j \in 1..(Len(reqs) - 1)
        BY <1>1, <2>3
      <4>2. QED
        BY <1>1, <2>1, <4>1
    <3>3. QED
      BY <3>1, <3>2 DEF Asks
  <2>4. QED
    BY <2>2, <2>3
<1>5. QED
  BY <1>1, <1>2, <1>3, <1>4 DEF less

(* push_front reverses a buffer; a name that is not given up before it is  *)
(* asked for is not given up in it at all.                                 *)
LEMMA RequestsReversed ==
  ASSUME NEW S, NEW vec \in Seq(S), NEW n \in Name
  PROVE  /\ Reverse(vec) \in Seq(S)
         /\ Gives(Reverse(vec), n) => Gives(vec, n)
         /\ Asks(vec, n) /\ n \notin Reversed(vec) => Asks(Reverse(vec), n)
<1> DEFINE turned == Reverse(vec)
<1>1. /\ turned = [i \in 1..Len(vec) |-> vec[(Len(vec) - i) + 1]]
      /\ Len(vec) \in Nat /\ \A i \in 1..Len(vec) : vec[i] \in S
  BY DEF Reverse
<1>2. turned \in Seq(S) /\ Len(turned) = Len(vec)
  <2> HIDE DEF turned
  <2>1. \A i \in 1..Len(vec) : (Len(vec) - i) + 1 \in 1..Len(vec)
    BY <1>1
  <2>2. QED
    BY <1>1, <2>1
<1>3. ASSUME NEW i \in 1..Len(vec)
      PROVE  /\ (Len(vec) - i) + 1 \in 1..Len(vec)
             /\ turned[i] = vec[(Len(vec) - i) + 1]
             /\ turned[(Len(vec) - i) + 1] = vec[i]
  <2> HIDE DEF turned
  <2>1. /\ (Len(vec) - i) + 1 \in 1..Len(vec)
        /\ (Len(vec) - ((Len(vec) - i) + 1)) + 1 = i
    BY <1>1
  <2>2. QED
    BY <1>1, <2>1
<1> HIDE DEF turned
<1>4. ASSUME Gives(turned, n) PROVE Gives(vec, n)
  <2>1. PICK j \in 1..Len(vec) : turned[j] = GivesUp(n)
    BY <1>2, <1>4 DEF Gives
  <2>2. QED
    BY <1>3, <2>1 DEF Gives
<1>5. ASSUME Asks(vec, n), n \notin Reversed(vec) PROVE Asks(turned, n)
  <2>1. PICK k \in 1..Len(vec) :
          /\ vec[k] = AsksFor(n)
          /\ \A j \in (k + 1)..Len(vec) : vec[j] # GivesUp(n)
    BY <1>5 DEF Asks
  <2>2. \A i \in 1..(k - 1) : vec[i] # GivesUp(n)
    BY <1>5, <2>1 DEF Reversed
  <2>3. AsksFor(n) # GivesUp(n)
    <3>1. AsksFor(n).op # GivesUp(n).op
      BY DEF AsksFor, GivesUp
    <3>2. QED
      BY <3>1
  <2>4. ~Gives(vec, n)
    <3>1. ASSUME NEW j \in 1..Len(vec) PROVE vec[j] # GivesUp(n)
      <4>1. j \in 1..(k - 1) \/ j = k \/ j \in (k + 1)..Len(vec)
        BY <1>1
      <4>2. QED
        BY <2>1, <2>2, <2>3, <4>1
    <3>2. QED
      BY <3>1 DEF Gives
  <2>5. \A j \in 1..Len(turned) : turned[j] # GivesUp(n)
    BY <1>4, <2>4 DEF Gives
  <2> DEFINE m == (Len(vec) - k) + 1
  <2>6. m \in 1..Len(turned) /\ turned[m] = AsksFor(n)
    BY <1>2, <1>3, <2>1
  <2>7. ASSUME NEW j \in (m + 1)..Len(turned) PROVE turned[j] # GivesUp(n)
    <3>1. j \in 1..Len(turned)
      BY <1>1, <1>2, <2>6
    <3>2. QED
      BY <2>5, <3>1
  <2> HIDE DEF m
  <2>8. QED
    BY <2>6, <2>7 DEF Asks
<1>6. QED
  BY <1>2, <1>4, <1>5 DEF turned

LEMMA NothingAsked ==
  ASSUME NEW n \in Name
  PROVE  ~Asks(<<>>, n) /\ ~Gives(<<>>, n)
<1>1. 1..Len(<<>>) = {}
  OBVIOUS
<1>2. QED
  BY <1>1 DEF Asks, Gives

SubsInv ==
  /\ bev = made
  /\ \A n \in Name : wanted[n] <= bev
  /\ SubscriptionUnderWay

\* What the invariants say that hold already.
LEMMA FromOthers ==
  ASSUME ClientInv, OneLiveSocket
  PROVE  /\ out \in Seq(Entry) /\ made \in Nat /\ bev \in Nat
         /\ vecuint8 \in Seq(Noted) /\ listvecProtocol \in Seq(Noted)
         /\ cut \in BOOLEAN
         /\ subs \subseteq Name /\ wanted \in [Name -> 0..MaxConn]
         /\ call # NoCall => call.bev = bev /\ call.req \in Request
         /\ ev # Idle => ev.bev = bev
  BY EvClientAssumption DEF ClientInv, ClientTypeOK, OneLiveSocket, Entry

LEMMA SubsStart == ClientInit => SubsInv
<1> SUFFICES ASSUME ClientInit PROVE SubsInv
  OBVIOUS
<1>1. bev = 1 /\ made = 1 /\ \A n \in Name : wanted[n] = 0
  BY DEF ClientInit
<1>2. QED
  BY <1>1 DEF SubsInv, SubscriptionUnderWay

\* Steps that leave the calls alone: a look at each name suffices.
LEMMA SubsByName ==
  ASSUME SubsInv, UNCHANGED <<bev, made, wanted>>,
         ~cut' => ~cut, link' = link, excused \subseteq excused',
         \A n \in Name : ~cut' /\ n \notin excused' /\ UnderWay(n) => UnderWay(n)'
  PROVE  SubsInv'
<1>1. SUFFICES ASSUME ~cut', link' \in {"connecting", "up"}, NEW n \in Name,
                      wanted'[n] = bev', n \notin excused'
               PROVE  UnderWay(n)'
  BY DEF SubsInv, SubscriptionUnderWay
<1>2. UnderWay(n)
  BY <1>1 DEF SubsInv, SubscriptionUnderWay
<1>3. QED
  BY <1>1, <1>2

\* Steps that leave the requests alone.
LEMMA SubsSame ==
  ASSUME SubsInv,
         UNCHANGED <<bev, made, wanted, out, vecuint8, listvecProtocol, subs,
                     cut, excused>>,
         link' \in {"connecting", "up"} => link \in {"connecting", "up"}
  PROVE  SubsInv'
<1>1. SUFFICES ASSUME ~cut', link' \in {"connecting", "up"}, NEW n \in Name,
                      wanted'[n] = bev', n \notin excused'
               PROVE  UnderWay(n)'
  BY DEF SubsInv, SubscriptionUnderWay
<1>2. UnderWay(n)
  BY <1>1 DEF SubsInv, SubscriptionUnderWay
<1>3. QED
  BY <1>2 DEF UnderWay

\* The broker reads the entry in front.
LEMMA SubsFlush ==
  ASSUME ClientInv, OneLiveSocket, SubsInv, Flush
  PROVE  SubsInv'
<1>1. /\ out # <<>> /\ out' = Tail(out)
      /\ UNCHANGED <<link, listvecProtocol, subs, made, bev, wanted, excused>>
  BY DEF Flush, userVars
<1>2. PICK over \in OverLimit, k \in 0..Len(vecuint8) :
        /\ over \/ k = 0
        /\ vecuint8' = Erase(vecuint8, k) \o
             (IF Head(out) \in Noted THEN <<Head(out)>> ELSE <<>>)
        /\ cut' = (cut \/ over)
  BY DEF Flush
<1>3. out \in Seq(Entry) /\ vecuint8 \in Seq(Noted)
  BY FromOthers
<1>4. over \in BOOLEAN /\ cut \in BOOLEAN
  BY FromOthers, EvClientAssumption
<1>5. ASSUME NEW n \in Name, ~cut', UnderWay(n)
      PROVE  UnderWay(n)'
  <2>1. vecuint8' = IF Head(out) \in Noted THEN Append(vecuint8, Head(out))
                                           ELSE vecuint8
    <3>1. k = 0
      BY <1>2, <1>4, <1>5
    <3>2. Erase(vecuint8, k) = vecuint8
      BY <1>3, <3>1 DEF Erase
    <3>3. CASE Head(out) \in Noted
      BY <1>2, <1>3, <3>2, <3>3
    <3>4. CASE Head(out) \notin Noted
      BY <1>2, <1>3, <3>2, <3>4
    <3>5. QED
      BY <3>3, <3>4
  <2>2. AsksFor(n) \in Noted
    BY DEF AsksFor, Noted
  <2>3. /\ Gives(out', n) => Gives(out, n)
        /\ Head(out) = GivesUp(n) => Gives(out, n)
        /\ Asks(out, n) =>
             \/ Asks(out', n)
             \/ Head(out) = AsksFor(n) /\ ~Gives(out', n)
    BY <1>1, <1>3, RequestTaken
  <2>4. /\ Gives(vecuint8', n) => Gives(vecuint8, n) \/ Head(out) = GivesUp(n)
        /\ Head(out) = AsksFor(n) => Asks(vecuint8', n)
        /\ Head(out) # GivesUp(n) /\ Asks(vecuint8, n) => Asks(vecuint8', n)
    <3>1. CASE Head(out) \in Noted
      BY <1>3, <2>1, <3>1, RequestAdded
    <3>2. CASE Head(out) \notin Noted
      BY <2>1, <2>2, <3>2
    <3>3. QED
      BY <3>1, <3>2
  <2>5. QED
    BY <1>1, <1>5, <2>3, <2>4 DEF UnderWay
<1>6. ~cut' => ~cut
  BY <1>2, <1>4
<1>7. QED
  BY <1>1, <1>5, <1>6, SubsByName

\* The broker takes its buffer as the next batch.
LEMMA SubsBatch ==
  ASSUME ClientInv, OneLiveSocket, SubsInv, GetProtocalData
  PROVE  SubsInv'
<1>1. /\ listvecProtocol = <<>>
      /\ excused' = excused \cup Reversed(vecuint8)
      /\ UNCHANGED <<link, out, subs, cut, made, bev, wanted>>
  BY DEF GetProtocalData, bevVars
<1>2. vecuint8 \in Seq(Noted)
  BY FromOthers
<1>3. ASSUME NEW n \in Name, ~cut', n \notin excused', UnderWay(n)
      PROVE  UnderWay(n)'
  <2>1. PICK k \in 0..Len(vecuint8) :
          \E found \in IF cut THEN SeqOf(Noted, k) ELSE {vecuint8} :
            /\ cut \/ k = Len(vecuint8)
            /\ listvecProtocol' = Reverse(found)
            /\ vecuint8' = Erase(vecuint8, k)
    BY DEF GetProtocalData
  <2>2. listvecProtocol' = Reverse(vecuint8) /\ k = Len(vecuint8)
    BY <1>1, <1>3, <2>1
  <2>3. vecuint8' = <<>>
    BY <1>2, <2>1, <2>2 DEF Erase
  <2>4. /\ Gives(Reverse(vecuint8), n) => Gives(vecuint8, n)
        /\ Asks(vecuint8, n) => Asks(Reverse(vecuint8), n)
    BY <1>1, <1>2, <1>3, RequestsReversed
  <2>5. ~Asks(<<>>, n) /\ ~Gives(<<>>, n)
    BY NothingAsked
  <2>6. QED
    BY <1>1, <1>3, <2>2, <2>3, <2>4, <2>5 DEF UnderWay
<1>4. QED
  BY <1>1, <1>3, SubsByName

\* ProcSub or ProcSubCancel.
LEMMA SubsHandled ==
  ASSUME ClientInv, OneLiveSocket, SubsInv, HandleOneProtocolData
  PROVE  SubsInv'
<1>1. /\ listvecProtocol # <<>> /\ listvecProtocol' = Tail(listvecProtocol)
      /\ subs' = Handled(subs, Head(listvecProtocol))
      /\ UNCHANGED <<link, out, vecuint8, cut, made, bev, wanted, excused>>
  BY DEF HandleOneProtocolData, bevVars, userVars
<1>2. ASSUME NEW n \in Name, UnderWay(n)
      PROVE  UnderWay(n)'
  <2> DEFINE req == Head(listvecProtocol)
  <2>1. /\ req \in Noted
        /\ Gives(listvecProtocol', n) => Gives(listvecProtocol, n)
        /\ req = GivesUp(n) => Gives(listvecProtocol, n)
        /\ Asks(listvecProtocol, n) =>
             \/ Asks(listvecProtocol', n)
             \/ req = AsksFor(n) /\ ~Gives(listvecProtocol', n)
    BY <1>1, FromOthers, RequestTaken
  <2> HIDE DEF req
  <2>2. req = AsksFor(n) => n \in subs'
    BY <1>1 DEF Handled, AsksFor, req
  <2>3. n \in subs /\ req # GivesUp(n) => n \in subs'
    <3>1. /\ req.op \in {"SUB", "SUB_CANCEL"}
          /\ req = [op |-> req.op, name |-> req.name]
      BY <2>1 DEF Noted
    <3>2. req # GivesUp(n) => req.op = "SUB" \/ req.name # n
      BY <3>1 DEF GivesUp
    <3>3. QED
      BY <1>1, <3>2 DEF Handled, req
  <2>4. QED
    BY <1>1, <1>2, <2>1, <2>2, <2>3 DEF UnderWay
<1>3. QED
  BY <1>1, <1>2, SubsByName

LEMMA SubsBroker ==
  ASSUME ClientInv, OneLiveSocket, SubsInv, BrokerNext
  PROVE  SubsInv'
<1>1. CASE LinkDown
  <2>1. link' = "down" /\ UNCHANGED <<bev, made, wanted>>
    BY <1>1 DEF LinkDown, bevVars, userVars
  <2>2. QED
    BY <2>1 DEF SubsInv, SubscriptionUnderWay
<1>2. CASE BrokerSend
  BY <1>2, SubsSame DEF BrokerSend, bevVars, userVars, brokerVars
<1>3. ASSUME NEW n \in Name, BrokerRefused(n) PROVE SubsInv'
  <2>1. /\ subs' = subs \ {n} /\ excused' = excused \cup {n}
        /\ UNCHANGED <<link, out, vecuint8, listvecProtocol, cut, made, bev, wanted>>
    BY <1>3 DEF BrokerRefused, bevVars
  <2>2. ASSUME NEW m \in Name, m \notin excused', UnderWay(m)
        PROVE  UnderWay(m)'
    <3>1. m # n
      BY <2>1, <2>2
    <3>2. QED
      BY <2>1, <2>2, <3>1 DEF UnderWay
  <2>3. QED
    BY <2>1, <2>2, SubsByName
<1>4. QED
  BY <1>1, <1>2, <1>3, SubsFlush, SubsBatch, SubsHandled DEF BrokerNext

LEMMA SubsEvent ==
  ASSUME ClientInv, OneLiveSocket, SubsInv, EventThread
  PROVE  SubsInv'
<1>1. CASE StartReadCb \/ ConnReadCb \/ ConnectedCb \/ StartEventCb
  <2>1. UNCHANGED <<bev, made, wanted, out, vecuint8, listvecProtocol, subs, cut,
                    excused, link>>
    BY <1>1 DEF StartReadCb, ConnReadCb, ConnectedCb, StartEventCb, netVars,
                brokerVars, bevVars, userVars
  <2>2. QED
    BY <2>1, SubsSame
<1>2. CASE StartConnectedCb
  <2>1. /\ UNCHANGED <<bev, made, wanted, out, vecuint8, listvecProtocol, subs,
                       cut, excused>>
        /\ link = "connecting"
    BY <1>2 DEF StartConnectedCb, brokerVars, bevVars, userVars
  <2>2. QED
    BY <2>1, SubsSame
<1>3. CASE ConnEventCb
  <2>1. made' = made + 1 /\ bev' = made + 1 /\ wanted' = wanted
    BY <1>3 DEF ConnEventCb, NewBev, userVars
  <2>2. \A n \in Name : wanted[n] <= made /\ wanted[n] \in Nat
    BY FromOthers, EvClientAssumption DEF SubsInv
  <2>3. \A n \in Name : wanted'[n] <= bev' /\ wanted'[n] # bev'
    BY <2>1, <2>2, FromOthers
  <2>4. QED
    BY <2>1, <2>3 DEF SubsInv, SubscriptionUnderWay
<1>4. CASE TimerCbkHeartBeat
  <2>1. /\ out' = Append(out, HeartBeat)
        /\ UNCHANGED <<link, made, bev, wanted, vecuint8, listvecProtocol, subs,
                       cut, excused>>
    BY <1>4 DEF TimerCbkHeartBeat, netVars, brokerVars, userVars
  <2>2. ASSUME NEW n \in Name, UnderWay(n)
        PROVE  UnderWay(n)'
    <3>1. HeartBeat \in Entry /\ HeartBeat # GivesUp(n)
      <4>1. HeartBeat.op # GivesUp(n).op
        BY DEF HeartBeat, GivesUp
      <4>2. QED
        BY <4>1 DEF Entry
    <3>2. /\ Gives(out', n) => Gives(out, n)
          /\ Asks(out, n) => Asks(out', n)
      BY <2>1, <3>1, FromOthers, RequestAdded
    <3>3. QED
      BY <2>1, <2>2, <3>2 DEF UnderWay
  <2>3. QED
    BY <2>1, <2>2, SubsByName
<1>5. QED
  BY <1>1, <1>2, <1>3, <1>4 DEF EventThread

\* bufferevent_write: the entry is added, or the request has failed.
LEMMA SubsWrite ==
  ASSUME ClientInv, OneLiveSocket, SubsInv,
         NEW ret \in WriteResults, BuffereventWrite(ret)
  PROVE  SubsInv'
<1> DEFINE req == call.req
           new(n) == n = req.name /\ req.op = "SUB" /\ ret = 0
<1>1. /\ call # NoCall
      /\ out' = IF ret = 0 THEN Append(out, req) ELSE out
      /\ wanted' =
           CASE req.op = "SUB" /\ ret = 0 ->
                  [wanted EXCEPT ![req.name] = call.bev]
             [] req.op = "SUB_CANCEL" -> [wanted EXCEPT ![req.name] = 0]
             [] OTHER -> wanted
      /\ excused' = IF req.op = "SUB" /\ ret = 0
                    THEN excused \ {req.name} ELSE excused
      /\ UNCHANGED <<link, made, bev, vecuint8, listvecProtocol, subs, cut>>
  BY DEF BuffereventWrite, Success, netVars, brokerVars
<1>2. /\ out \in Seq(Entry) /\ bev \in Nat /\ wanted \in [Name -> 0..MaxConn]
      /\ call.bev = bev /\ req \in Request
  BY <1>1, FromOthers
<1>3. /\ req \in Entry /\ req.name \in Name
      /\ req = [op |-> req.op, name |-> req.name]
  BY <1>2 DEF Entry, Request
<1> HIDE DEF req
<1>4. ASSUME NEW n \in Name
      PROVE  wanted'[n] <= bev
  <2>1. wanted[n] <= bev
    BY DEF SubsInv
  <2>2. CASE n = req.name
    BY <1>1, <1>2, <1>3, <2>1, <2>2
  <2>3. CASE n # req.name
    BY <1>1, <1>2, <1>3, <2>1, <2>3
  <2>4. QED
    BY <2>2, <2>3
<1>5. ASSUME NEW n \in Name, ~cut', link' \in {"connecting", "up"},
             wanted'[n] = bev', n \notin excused'
      PROVE  UnderWay(n)'
  <2>1. bev # 0
    BY FromOthers, EvClientAssumption DEF ClientInv, ClientTypeOK
  <2>2. CASE new(n)
    <3>1. req = AsksFor(n)
      BY <1>3, <2>2 DEF AsksFor
    <3>2. Asks(out', n)
      BY <1>1, <1>2, <1>3, <2>2, <3>1, RequestAdded
    <3>3. QED
      BY <3>2 DEF UnderWay
  <2>3. CASE ~new(n)
    <3>1. ~(n = req.name /\ req.op = "SUB_CANCEL")
      <4>1. SUFFICES ASSUME n = req.name, req.op = "SUB_CANCEL" PROVE FALSE
        OBVIOUS
      <4>2. wanted' = [wanted EXCEPT ![req.name] = 0]
        BY <1>1, <4>1
      <4>3. wanted'[n] = 0
        BY <1>2, <4>1, <4>2
      <4>4. QED
        BY <1>1, <1>5, <2>1, <4>3
    <3>2. wanted'[n] = wanted[n] /\ n \notin excused
      BY <1>1, <1>2, <1>3, <1>5, <2>3, <3>1
    <3>3. UnderWay(n)
      BY <1>1, <1>5, <3>2 DEF SubsInv, SubscriptionUnderWay
    <3>4. req # GivesUp(n)
      BY <1>3, <3>1 DEF GivesUp
    <3>5. /\ Gives(out', n) => Gives(out, n)
          /\ Asks(out, n) => Asks(out', n)
      <4>1. CASE ret = 0
        BY <1>1, <1>2, <1>3, <3>4, <4>1, RequestAdded
      <4>2. CASE ret # 0
        BY <1>1, <4>2
      <4>3. QED
        BY <4>1, <4>2
    <3>6. QED
      BY <1>1, <3>3, <3>5 DEF UnderWay
  <2>4. QED
    BY <2>2, <2>3
<1>6. SubscriptionUnderWay'
  BY <1>5 DEF SubscriptionUnderWay
<1>7. QED
  BY <1>1, <1>4, <1>6 DEF SubsInv

LEMMA SubsUser ==
  ASSUME ClientInv, OneLiveSocket, SubsInv, UserThreads
  PROVE  SubsInv'
<1>1. ASSUME NEW req \in Request, SendToServer(req) PROVE SubsInv'
  BY <1>1, SubsSame DEF SendToServer, netVars, brokerVars, bevVars
<1>2. ASSUME NEW ret \in WriteResults, BuffereventWrite(ret) PROVE SubsInv'
  BY <1>2, SubsWrite
<1>3. CASE GetMsg
  BY <1>3, SubsSame DEF GetMsg, netVars, brokerVars, bevVars
<1>4. QED
  BY <1>1, <1>2, <1>3 DEF UserThreads

(* Whatever the threads do and however often the connection breaks: a      *)
(* subscription reported as successful is known to the broker or on its    *)
(* way there, as long as its connection lasts and the broker has neither   *)
(* trimmed its buffer, refused a copy nor reversed the request.            *)
THEOREM AlwaysUnderWay == ClientSpec => []SubscriptionUnderWay
<1>1. ClientInv /\ OneLiveSocket /\ SubsInv /\ [ClientNext]_clientVars => SubsInv'
  <2> SUFFICES ASSUME ClientInv, OneLiveSocket, SubsInv, [ClientNext]_clientVars
               PROVE  SubsInv'
    OBVIOUS
  <2>1. CASE ClientNext
    BY <2>1, SubsBroker, SubsEvent, SubsUser DEF ClientNext
  <2>2. CASE UNCHANGED clientVars
    BY <2>2, SubsSame DEF clientVars, netVars, brokerVars, bevVars, userVars
  <2>3. QED
    BY <2>1, <2>2
<1>2. SubsInv => SubscriptionUnderWay
  BY DEF SubsInv
<1>3. QED
  BY <1>1, <1>2, SubsStart, ClientInvariant, OneSocket, PTL DEF ClientSpec

-----------------------------------------------------------------------------
(* Messages.  There is a number such that the messages up to it are gone,  *)
(* returned or lost with their connections, and the ones behind it are on  *)
(* their way.                                                              *)

Coming(m, n) == [k \in 1..(n - m) |-> MakeProtocol(<<m + k>>)]

GotUpTo(m) ==
  /\ \A i \in 1..Len(got) : \E k \in 1..m : got[i] = MakeProtocol(<<k>>)
  /\ \A i, j \in 1..Len(got) : i < j => Last(got[i]) < Last(got[j])

WholeUpTo(m) == GotUpTo(m) /\ Carries(m_vecBuffer \o wire, Coming(m, pubs))

UndamagedInv == ~trimmed => \E m \in 0..pubs : WholeUpTo(m)

\* A message the broker sends: its number is in its last cell.
LEMMA OneCell ==
  ASSUME NEW k \in 1..MaxIn
  PROVE  /\ <<k>> \in Seq(Cell) /\ Len(<<k>>) <= MaxDataLen
         /\ MakeProtocol(<<k>>) \in Seq(Cell)
         /\ Last(MakeProtocol(<<k>>)) = k
<1> USE ProtocolAssumption
<1> DEFINE data   == <<k>>
           header == [i \in 1..HeaderSize |->
                        CASE i = 1          -> MagicWord
                          [] i = HeaderSize -> Len(data) % Width
                          [] OTHER          -> 0]
<1>1. /\ data \in Seq(Cell) /\ Len(data) = 1 /\ data[1] = k
      /\ Len(data) <= MaxDataLen
  BY EvClientAssumption DEF Cell
<1> HIDE DEF data
<1>2. /\ MakeProtocol(data) \in Seq(Cell)
      /\ Len(MakeProtocol(data)) = HeaderSize + 1
  BY <1>1, MakeProtocolShape
<1>3. MakeProtocol(data) = header \o data
  BY DEF MakeProtocol
<1>4. header \in Seq(Cell) /\ Len(header) = HeaderSize
  <2>1. Len(data) % Width \in Cell
    BY <1>1 DEF Cell
  <2>2. \A i \in 1..HeaderSize : header[i] \in Cell
    BY <2>1 DEF Cell
  <2>3. QED
    BY <2>2
<1> HIDE DEF header
<1>5. (header \o data)[HeaderSize + 1] = k
  <2>1. \A i \in 1..(Len(header) + Len(data)) :
          (header \o data)[i] = IF i <= Len(header) THEN header[i]
                                ELSE data[i - Len(header)]
    BY <1>1, <1>4, ConcatProperties
  <2>2. /\ HeaderSize + 1 \in 1..(Len(header) + Len(data))
        /\ ~(HeaderSize + 1 <= Len(header))
        /\ (HeaderSize + 1) - Len(header) = 1
    BY <1>1, <1>4
  <2>3. QED
    BY <1>1, <2>1, <2>2
<1>6. Last(MakeProtocol(data)) = k
  BY <1>2, <1>3, <1>5 DEF Last
<1>7. QED
  BY <1>1, <1>2, <1>6 DEF data

LEMMA ComingShape ==
  ASSUME NEW n \in 0..MaxIn, NEW m \in 0..n
  PROVE  /\ Coming(m, n) \in Seq(Seq(Cell)) /\ Len(Coming(m, n)) = n - m
         /\ \A k \in 1..(n - m) :
              /\ m + k \in 1..MaxIn
              /\ Coming(m, n)[k] = MakeProtocol(<<m + k>>)
              /\ Made(Coming(m, n)[k])
<1>1. n \in Nat /\ m \in Nat /\ n - m \in Nat
  BY EvClientAssumption
<1>2. ASSUME NEW k \in 1..(n - m)
      PROVE  /\ m + k \in 1..MaxIn /\ MakeProtocol(<<m + k>>) \in Seq(Cell)
             /\ Made(MakeProtocol(<<m + k>>))
  <2>1. m + k \in 1..MaxIn
    BY <1>1, EvClientAssumption
  <2>2. QED
    BY <2>1, OneCell DEF Made
<1>3. Coming(m, n) \in Seq(Seq(Cell)) /\ Len(Coming(m, n)) = n - m
  BY <1>1, <1>2 DEF Coming
<1>4. QED
  BY <1>2, <1>3 DEF Coming

\* Nothing is under way behind the last message.
LEMMA ComingNone ==
  ASSUME NEW n \in 0..MaxIn
  PROVE  Coming(n, n) = <<>>
<1>1. n \in 0..n /\ n - n = 0
  BY EvClientAssumption
<1>2. Len(Coming(n, n)) = 0 /\ Coming(n, n) \in Seq(Seq(Cell))
  BY <1>1, ComingShape
<1>3. QED
  BY <1>2

LEMMA ComingGrows ==
  ASSUME NEW n \in 0..MaxIn, NEW m \in 0..n, n < MaxIn
  PROVE  Coming(m, n + 1) = Append(Coming(m, n), MakeProtocol(<<n + 1>>))
<1> DEFINE msg == MakeProtocol(<<n + 1>>)
           now == Coming(m, n)
           all == Coming(m, n + 1)
           add == Append(now, msg)
<1>1. /\ n \in Nat /\ m \in Nat /\ m <= n /\ n + 1 \in 0..MaxIn
      /\ m \in 0..(n + 1) /\ n + 1 \in 1..MaxIn
  BY EvClientAssumption
<1>2. /\ now \in Seq(Seq(Cell)) /\ Len(now) = n - m
      /\ \A k \in 1..(n - m) : now[k] = MakeProtocol(<<m + k>>)
  BY ComingShape
<1>3. /\ all \in Seq(Seq(Cell)) /\ Len(all) = (n + 1) - m
      /\ \A k \in 1..((n + 1) - m) : all[k] = MakeProtocol(<<m + k>>)
  BY <1>1, ComingShape
<1>4. msg \in Seq(Cell)
  BY <1>1, OneCell
<1>5. /\ add \in Seq(Seq(Cell)) /\ Len(add) = Len(now) + 1
      /\ \A k \in 1..Len(now) : add[k] = now[k]
      /\ add[Len(now) + 1] = msg
  BY <1>2, <1>4, AppendProperties
<1> HIDE DEF now, all, add
<1>6. Len(all) = Len(add)
  BY <1>1, <1>2, <1>3, <1>5
<1>7. ASSUME NEW k \in 1..Len(all)
      PROVE  all[k] = add[k]
  <2>1. all[k] = MakeProtocol(<<m + k>>)
    BY <1>3
  <2>2. CASE k \in 1..(n - m)
    BY <1>2, <1>5, <2>1, <2>2
  <2>3. CASE k \notin 1..(n - m)
    <3>1. k = Len(now) + 1 /\ m + k = n + 1
      BY <1>1, <1>2, <1>3, <2>3
    <3>2. QED
      BY <1>5, <2>1, <3>1
  <2>4. QED
    BY <2>2, <2>3
<1>8. all = add
  <2>1. all \in Seq(Seq(Cell)) /\ add \in Seq(Seq(Cell))
    BY <1>3, <1>5
  <2>2. QED
    BY <1>6, <1>7, <2>1, SeqEqual
<1>9. QED
  BY <1>8 DEF all, add, now

LEMMA ComingShrinks ==
  ASSUME NEW n \in 0..MaxIn, NEW m \in 0..n, Coming(m, n) # <<>>
  PROVE  /\ m + 1 \in 0..n /\ Coming(m, n)[1] = MakeProtocol(<<m + 1>>)
         /\ Tail(Coming(m, n)) = Coming(m + 1, n)
<1> DEFINE now  == Coming(m, n)
           left == Tail(now)
           less == Coming(m + 1, n)
<1>1. n \in Nat /\ m \in Nat /\ m <= n
  BY EvClientAssumption
<1>2. /\ now \in Seq(Seq(Cell)) /\ Len(now) = n - m
      /\ \A k \in 1..(n - m) : now[k] = MakeProtocol(<<m + k>>)
  BY ComingShape
<1>3. /\ left \in Seq(Seq(Cell)) /\ Len(left) = Len(now) - 1
      /\ \A k \in 1..(Len(now) - 1) : left[k] = now[k + 1]
  BY <1>2, HeadTailProperties
<1>4. now # <<>>
  OBVIOUS
<1> HIDE DEF now
<1>5. Len(now) # 0
  BY <1>2, <1>4, EmptySeq
<1>6. m + 1 \in 0..n /\ 1 \in 1..(n - m)
  BY <1>1, <1>2, <1>5
<1>7. /\ less \in Seq(Seq(Cell)) /\ Len(less) = n - (m + 1)
      /\ \A k \in 1..(n - (m + 1)) : less[k] = MakeProtocol(<<(m + 1) + k>>)
  BY <1>6, ComingShape
<1> HIDE DEF left, less
<1>8. Len(left) = Len(less)
  BY <1>1, <1>2, <1>3, <1>7
<1>9. ASSUME NEW k \in 1..Len(left)
      PROVE  left[k] = less[k]
  <2>1. /\ k \in 1..(Len(now) - 1) /\ k + 1 \in 1..(n - m)
        /\ k \in 1..(n - (m + 1)) /\ m + (k + 1) = (m + 1) + k
    BY <1>1, <1>2, <1>3, SMTT(60)
  <2>2. left[k] = MakeProtocol(<<m + (k + 1)>>)
    BY <1>2, <1>3, <2>1
  <2>3. QED
    BY <1>7, <2>1, <2>2
<1>10. left = less
  <2>1. left \in Seq(Seq(Cell)) /\ less \in Seq(Seq(Cell))
    BY <1>3, <1>7
  <2>2. QED
    BY <1>8, <1>9, <2>1, SeqEqual
<1>11. now[1] = MakeProtocol(<<m + 1>>)
  BY <1>2, <1>6
<1>12. QED
  BY <1>6, <1>10, <1>11 DEF left, less, now

\* What the invariants say that hold already.
LEMMA BuffersAreCells ==
  ASSUME ClientInv
  PROVE  /\ wire \in Seq(Cell) /\ m_vecBuffer \in Seq(Cell)
         /\ got \in Seq(Seq(Cell)) /\ pubs \in 0..MaxIn /\ pubs \in Nat
  BY EvClientAssumption DEF ClientInv, ClientTypeOK

LEMMA TrimmedIsBoolean == ClientInv => trimmed \in BOOLEAN
  BY DEF ClientInv, ClientTypeOK

LEMMA StreamStarts == ClientInit => UndamagedInv
<1> SUFFICES ASSUME ClientInit PROVE UndamagedInv
  OBVIOUS
<1>1. pubs = 0 /\ got = <<>> /\ wire = <<>> /\ m_vecBuffer = <<>>
  BY DEF ClientInit
<1>2. GotUpTo(0)
  <2>1. 1..Len(got) = {}
    BY <1>1
  <2>2. QED
    BY <2>1 DEF GotUpTo
<1>3. m_vecBuffer \o wire = <<>>
  BY <1>1
<1>4. 0 \in 0..MaxIn /\ 0 \in 0..pubs
  BY <1>1, EvClientAssumption
<1>5. Coming(0, 0) = <<>>
  BY <1>4, ComingNone
<1>6. WholeUpTo(0)
  BY <1>1, <1>2, <1>3, <1>5, CarriesNothing DEF WholeUpTo
<1>7. QED
  BY <1>4, <1>6 DEF UndamagedInv

\* Steps that leave the stream where it is.
LEMMA StreamSame ==
  ASSUME UndamagedInv, UNCHANGED <<pubs, got, trimmed, wire, m_vecBuffer>>
  PROVE  UndamagedInv'
  BY DEF UndamagedInv, WholeUpTo, GotUpTo

LEMMA StreamSend ==
  ASSUME ClientInv, UndamagedInv, BrokerSend
  PROVE  UndamagedInv'
<1> DEFINE msg == MakeProtocol(<<pubs + 1>>)
<1>1. /\ pubs < MaxIn /\ pubs' = pubs + 1 /\ wire' = wire \o msg
      /\ UNCHANGED <<got, trimmed, m_vecBuffer>>
  BY DEF BrokerSend, userVars, bufVars
<1>2. SUFFICES ASSUME ~trimmed
               PROVE  (\E m \in 0..pubs : WholeUpTo(m))'
  BY <1>1 DEF UndamagedInv
<1>3. PICK m \in 0..pubs : WholeUpTo(m)
  BY <1>2 DEF UndamagedInv
<1>4. /\ wire \in Seq(Cell) /\ m_vecBuffer \in Seq(Cell) /\ pubs \in 0..MaxIn
      /\ pubs \in Nat
  BY BuffersAreCells
<1>5. pubs + 1 \in 1..MaxIn /\ m \in 0..(pubs + 1)
  BY <1>1, <1>4, EvClientAssumption
<1>6. msg \in Seq(Cell)
  BY <1>5, OneCell
<1>7. Coming(m, pubs + 1) = Append(Coming(m, pubs), msg)
  BY <1>1, <1>4, ComingGrows
<1>8. Coming(m, pubs) \in Seq(Seq(Cell))
  BY <1>4, ComingShape
<1>9. Carries(m_vecBuffer \o wire, Coming(m, pubs)) /\ GotUpTo(m)
  BY <1>3 DEF WholeUpTo
<1> HIDE DEF msg
<1>10. Carries(m_vecBuffer \o (wire \o msg), Append(Coming(m, pubs), msg))
  BY <1>4, <1>6, <1>8, <1>9, SendAppends
<1>11. WholeUpTo(m)'
  <2>1. Carries(m_vecBuffer' \o wire', Coming(m, pubs'))
    BY <1>1, <1>7, <1>10
  <2>2. GotUpTo(m)'
    BY <1>1, <1>9 DEF GotUpTo
  <2>3. QED
    BY <2>1, <2>2 DEF WholeUpTo
<1>12. QED
  BY <1>1, <1>5, <1>11

LEMMA StreamRead ==
  ASSUME ClientInv, UndamagedInv, ConnReadCb
  PROVE  UndamagedInv'
<1>1. PICK len \in 1..MaxRead :
        /\ len <= Len(wire)
        /\ wire' = Erase(wire, len)
        /\ m_vecBuffer' = InsertAtEnd(
             IF Len(m_vecBuffer) > Cap THEN Erase(m_vecBuffer, len)
                                       ELSE m_vecBuffer,
             SubSeq(wire, 1, len))
  BY DEF ConnReadCb
<1>2. /\ trimmed' = (trimmed \/ Len(m_vecBuffer) > Cap)
      /\ UNCHANGED <<pubs, got>>
  BY DEF ConnReadCb, userVars
<1>3. /\ wire \in Seq(Cell) /\ m_vecBuffer \in Seq(Cell)
      /\ len \in Nat /\ len <= Len(wire)
  BY <1>1, BuffersAreCells, EvClientAssumption
<1>4. CASE ~trimmed'
  <2>1. ~trimmed /\ ~(Len(m_vecBuffer) > Cap)
    BY <1>2, <1>4, TrimmedIsBoolean
  <2>2. m_vecBuffer' = m_vecBuffer \o SubSeq(wire, 1, len)
    BY <1>1, <2>1 DEF InsertAtEnd
  <2>3. m_vecBuffer' \o wire' = m_vecBuffer \o wire
    <3>1. (m_vecBuffer \o SubSeq(wire, 1, len)) \o Erase(wire, len)
            = m_vecBuffer \o wire
      BY <1>3, ReadMoves
    <3>2. QED
      BY <1>1, <2>2, <3>1
  <2>4. PICK m \in 0..pubs : WholeUpTo(m)
    BY <2>1 DEF UndamagedInv
  <2>5. WholeUpTo(m)'
    BY <1>2, <2>3, <2>4 DEF WholeUpTo, GotUpTo
  <2>6. QED
    BY <1>2, <2>5 DEF UndamagedInv
<1>5. QED
  BY <1>4 DEF UndamagedInv

\* All that was on its way is lost with the connection.
LEMMA StreamBreaks ==
  ASSUME ClientInv, UndamagedInv, ConnEventCb
  PROVE  UndamagedInv'
<1>1. /\ wire' = <<>> /\ m_vecBuffer' = <<>>
      /\ UNCHANGED <<pubs, got, trimmed>>
  BY DEF ConnEventCb, ClearBuffer, userVars
<1>2. SUFFICES ASSUME ~trimmed
               PROVE  (\E m \in 0..pubs : WholeUpTo(m))'
  BY <1>1 DEF UndamagedInv
<1>3. PICK m \in 0..pubs : WholeUpTo(m)
  BY <1>2 DEF UndamagedInv
<1>4. pubs \in 0..MaxIn /\ pubs \in Nat
  BY BuffersAreCells
<1>5. GotUpTo(pubs)
  <2>1. 1..m \subseteq 1..pubs
    BY <1>4
  <2>2. QED
    BY <1>3, <2>1 DEF WholeUpTo, GotUpTo
<1>6. Carries(m_vecBuffer' \o wire', Coming(pubs, pubs))
  <2>1. m_vecBuffer' \o wire' = <<>>
    BY <1>1
  <2>2. QED
    BY <1>4, <2>1, ComingNone, CarriesNothing
<1>7. pubs \in 0..pubs
  BY <1>4
<1>8. GotUpTo(pubs)'
  BY <1>1, <1>5 DEF GotUpTo
<1>9. (\E m1 \in 0..pubs : WholeUpTo(m1))'
  <2>1. WholeUpTo(pubs)'
    BY <1>1, <1>6, <1>8 DEF WholeUpTo
  <2>2. QED
    BY <1>1, <1>7, <2>1
<1>10. QED
  BY <1>9

\* GetMsg takes the next message or nothing.
LEMMA StreamGet ==
  ASSUME ClientInv, UndamagedInv, GetMsg
  PROVE  UndamagedInv'
<1> DEFINE r == GetOneProtocol(m_vecBuffer)
<1>1. /\ m_vecBuffer' = r.vecBuffer
      /\ got' = IF r.ok THEN Append(got, r.vecProtocal) ELSE got
      /\ UNCHANGED <<pubs, wire, trimmed>>
  BY DEF GetMsg, netVars
<1>2. SUFFICES ASSUME ~trimmed
               PROVE  (\E m \in 0..pubs : WholeUpTo(m))'
  BY <1>1 DEF UndamagedInv
<1>3. PICK m \in 0..pubs : WholeUpTo(m)
  BY <1>2 DEF UndamagedInv
<1>4. /\ wire \in Seq(Cell) /\ m_vecBuffer \in Seq(Cell)
      /\ got \in Seq(Seq(Cell)) /\ pubs \in 0..MaxIn /\ pubs \in Nat
  BY BuffersAreCells
<1> DEFINE left == Coming(m, pubs)
<1>5. /\ left \in Seq(Seq(Cell)) /\ Len(left) = pubs - m
      /\ \A k \in 1..Len(left) : Made(left[k])
  BY <1>4, ComingShape
<1>6. Carries(m_vecBuffer \o wire, left) /\ GotUpTo(m)
  BY <1>3 DEF WholeUpTo
<1>7. \/ r = NoMessage(m_vecBuffer)
      \/ /\ left # <<>> /\ r.ok /\ r.vecProtocal = left[1]
         /\ Carries(r.vecBuffer \o wire, Tail(left))
  <2> HIDE DEF left
  <2>1. QED
    BY <1>4, <1>5, <1>6, NextMessage
<1> HIDE DEF r
<1>8. CASE r = NoMessage(m_vecBuffer)
  <2>1. m_vecBuffer' = m_vecBuffer /\ got' = got
    BY <1>1, <1>8 DEF NoMessage
  <2>2. QED
    BY <1>1, <1>3, <2>1 DEF WholeUpTo, GotUpTo
<1>9. CASE /\ left # <<>> /\ r.ok /\ r.vecProtocal = left[1]
           /\ Carries(r.vecBuffer \o wire, Tail(left))
  <2> DEFINE msg == MakeProtocol(<<m + 1>>)
  <2>1. m + 1 \in 0..pubs /\ left[1] = msg /\ Tail(left) = Coming(m + 1, pubs)
    BY <1>4, <1>9, ComingShrinks
  <2>2. m \in Nat /\ m + 1 \in 1..MaxIn
    BY <1>4, <2>1, EvClientAssumption
  <2>3. msg \in Seq(Cell) /\ Last(msg) = m + 1
    BY <2>2, OneCell
  <2>4. got' = Append(got, msg)
    BY <1>1, <1>9, <2>1
  <2>5. ASSUME NEW k \in 1..m
        PROVE  Last(MakeProtocol(<<k>>)) = k
    <3>1. k \in 1..MaxIn
      BY <2>2, EvClientAssumption
    <3>2. QED
      BY <3>1, OneCell
  <2> HIDE DEF msg, left
  <2>6. /\ Len(got) \in Nat /\ Len(got') = Len(got) + 1
        /\ \A i \in 1..Len(got) : got'[i] = got[i]
        /\ got'[Len(got) + 1] = msg
    BY <1>4, <2>3, <2>4, AppendProperties
  <2>7. ASSUME NEW i \in 1..Len(got'), i # Len(got) + 1
        PROVE  /\ i \in 1..Len(got) /\ got'[i] = got[i]
               /\ \E k \in 1..m : got[i] = MakeProtocol(<<k>>) /\ Last(got[i]) = k
    <3>1. i \in 1..Len(got)
      BY <2>6, <2>7
    <3>2. PICK k \in 1..m : got[i] = MakeProtocol(<<k>>)
      BY <1>6, <3>1 DEF GotUpTo
    <3>3. Last(got[i]) = k
      BY <2>5, <3>2
    <3>4. QED
      BY <2>6, <3>1, <3>2, <3>3
  <2>8. ASSUME NEW i \in 1..Len(got')
        PROVE  \E k \in 1..(m + 1) : got'[i] = MakeProtocol(<<k>>)
    <3>1. CASE i = Len(got) + 1
      <4>1. m + 1 \in 1..(m + 1)
        BY <2>2
      <4>2. QED
        BY <2>6, <3>1, <4>1 DEF msg
    <3>2. CASE i # Len(got) + 1
      <4>1. PICK k \in 1..m : got[i] = MakeProtocol(<<k>>)
        BY <2>7, <3>2
      <4>2. k \in 1..(m + 1)
        BY <2>2
      <4>3. QED
        BY <2>7, <3>2, <4>1, <4>2
    <3>3. QED
      BY <3>1, <3>2
  <2>9. ASSUME NEW i \in 1..Len(got'), NEW j \in 1..Len(got'), i < j
        PROVE  Last(got'[i]) < Last(got'[j])
    <3>1. i # Len(got) + 1
      BY <2>6, <2>9
    <3>2. CASE j = Len(got) + 1
      <4>1. PICK k \in 1..m : Last(got[i]) = k
        BY <2>7, <3>1
      <4>2. got'[i] = got[i] /\ got'[j] = msg
        BY <2>6, <2>7, <3>1, <3>2
      <4>3. k < m + 1
        BY <2>2
      <4>4. QED
        BY <2>3, <4>1, <4>2, <4>3
    <3>3. CASE j # Len(got) + 1
      BY <1>6, <2>7, <2>9, <3>1, <3>3 DEF GotUpTo
    <3>4. QED
      BY <3>2, <3>3
  <2>10. GotUpTo(m + 1)'
    BY <2>8, <2>9 DEF GotUpTo
  <2>11. Carries(m_vecBuffer \o wire, Coming(m + 1, pubs))'
    BY <1>1, <1>9, <2>1
  <2>12. WholeUpTo(m + 1)'
    BY <2>10, <2>11 DEF WholeUpTo
  <2>13. QED
    BY <1>1, <2>1, <2>12
<1>10. QED
  BY <1>7, <1>8, <1>9

\* All of the threads' steps.
LEMMA UndamagedKept ==
  ASSUME ClientInv, UndamagedInv, ClientNext
  PROVE  UndamagedInv'
<1>1. CASE LinkDown \/ Flush \/ HandleOneProtocolData
  BY <1>1, StreamSame DEF LinkDown, Flush, HandleOneProtocolData, userVars, bufVars
<1>2. CASE BrokerSend
  BY <1>2, StreamSend
<1>3. CASE StartReadCb \/ StartConnectedCb \/ ConnectedCb \/ StartEventCb
  BY <1>3, StreamSame
  DEF StartReadCb, StartConnectedCb, ConnectedCb, StartEventCb, netVars,
      userVars, bufVars
<1>4. CASE ConnReadCb
  BY <1>4, StreamRead
<1>5. CASE ConnEventCb
  BY <1>5, StreamBreaks
<1>6. CASE TimerCbkHeartBeat
  BY <1>6, StreamSame DEF TimerCbkHeartBeat, netVars, userVars, bufVars
<1>7. ASSUME NEW req \in Request, SendToServer(req) PROVE UndamagedInv'
  BY <1>7, StreamSame DEF SendToServer, netVars, bufVars
<1>8. ASSUME NEW ret \in WriteResults, BuffereventWrite(ret) PROVE UndamagedInv'
  BY <1>8, StreamSame DEF BuffereventWrite, netVars, bufVars
<1>9. CASE GetMsg
  BY <1>9, StreamGet
<1>10. ASSUME NEW n \in Name, BrokerRefused(n) PROVE UndamagedInv'
  BY <1>10, StreamSame DEF BrokerRefused, bufVars
<1>11. CASE GetProtocalData
  BY <1>11, StreamSame DEF GetProtocalData, bufVars
<1>12. QED
  BY <1>1, <1>2, <1>3, <1>4, <1>5, <1>6, <1>7, <1>8, <1>9, <1>10, <1>11
  DEF ClientNext, BrokerNext, EventThread, UserThreads

(* GetMsg returns whole messages, in order and none twice, across every    *)
(* reconnect: as long as ConnReadCb has not erased anything.               *)
THEOREM MessagesAlwaysWhole == ClientSpec => []MessagesAreWhole
<1>1. ClientInv /\ UndamagedInv /\ [ClientNext]_clientVars => UndamagedInv'
  <2> SUFFICES ASSUME ClientInv, UndamagedInv, [ClientNext]_clientVars
               PROVE  UndamagedInv'
    OBVIOUS
  <2>1. CASE ClientNext
    BY <2>1, UndamagedKept
  <2>2. CASE UNCHANGED clientVars
    BY <2>2, StreamSame DEF clientVars, netVars, userVars, bufVars
  <2>3. QED
    BY <2>1, <2>2
<1>2. ClientInv /\ UndamagedInv => MessagesAreWhole
  <2> SUFFICES ASSUME ClientInv, UndamagedInv, ~trimmed
               PROVE  /\ \A i \in 1..Len(got) :
                           \E k \in 1..pubs : got[i] = MakeProtocol(<<k>>)
                      /\ \A i, j \in 1..Len(got) :
                           i < j => Last(got[i]) < Last(got[j])
    BY DEF MessagesAreWhole
  <2>1. PICK m \in 0..pubs : GotUpTo(m)
    BY DEF UndamagedInv, WholeUpTo
  <2>2. 1..m \subseteq 1..pubs
    BY BuffersAreCells
  <2>3. QED
    BY <2>1, <2>2 DEF GotUpTo
<1>3. QED
  BY <1>1, <1>2, StreamStarts, ClientInvariant, PTL DEF ClientSpec
=============================================================================
