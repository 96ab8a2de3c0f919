------------------------- MODULE EvTcpHandlerProofs -------------------------
(* Proofs about what the connection handler promises, MessageLife, and     *)
(* about EvTcpHandler, for any number of addresses, connections and        *)
(* messages, and for any subclass.                                         *)
EXTENDS EvTcpHandler, MessageLife, TLAPS

-----------------------------------------------------------------------------
(* MessageLife.  Its variables stage, owner and log are what EvTcpHandler  *)
(* maps its places to, at the end of this module.                          *)

(* NoOvertaking is not inductive: Take moves a buffer into the batch, so   *)
(* what is in a buffer must be older than what is still in the socket, and *)
(* what is sent next must be newer than everything sent before.            *)
SocketIsNewest ==
  \A m, n \in Id :
    /\ owner[m] = owner[n] /\ owner[m] # 0
    /\ stage[m] = "socket" /\ stage[n] = "buffer"
    => n < m

SentInOrder ==
  \A m, n \in Id : stage[m] = "unsent" /\ stage[n] # "unsent" => n < m

LifeInv ==
  LifeTypeOK /\ LogIsHandled /\ NoOvertaking /\ SocketIsNewest /\ SentInOrder

LEMMA LifeInitInv == Init => LifeInv
  BY DEF Init, LifeInv, LifeTypeOK, LogIsHandled, NoOvertaking, SocketIsNewest,
         SentInOrder, Stage

\* The steps that leave the log alone, and no message handled or unhandled.
LEMMA LogUnchanged ==
  ASSUME LogIsHandled, log' = log,
         \A m \in Id : stage'[m] = "handled" <=> stage[m] = "handled"
  PROVE  LogIsHandled'
  BY DEF LogIsHandled

LEMMA LifeStep ==
  ASSUME MessageLifeAssumption, LifeInv, [Next]_lifeVars
  PROVE  LifeInv'
<1> USE DEF LifeInv, MessageLifeAssumption
<1>1. ASSUME NEW m \in Id, NEW c \in Owner, Send(m, c)
      PROVE  LifeInv'
  <2>1. /\ stage' = [stage EXCEPT ![m] = "socket"]
        /\ owner' = [owner EXCEPT ![m] = c]
        /\ log' = log /\ cut' = cut
        /\ stage[m] = "unsent"
        /\ \A n \in Id : stage[n] = "unsent" /\ n < m => n = m
    BY <1>1 DEF Send, Oldest, At
  <2>2. LifeTypeOK'
    BY <2>1 DEF LifeTypeOK, Stage
  <2>3. LogIsHandled'
    BY <2>1, LogUnchanged DEF LifeTypeOK
  <2>4. SentInOrder'
    BY <2>1 DEF SentInOrder, LifeTypeOK
  <2>5. \A n \in Id : stage[n] # "unsent" => n < m
    BY <2>1 DEF SentInOrder
  <2>6. NoOvertaking' /\ SocketIsNewest'
    BY <2>1, <2>5 DEF NoOvertaking, SocketIsNewest, LifeTypeOK
  <2>7. QED
    BY <2>2, <2>3, <2>4, <2>6
<1>2. ASSUME NEW c \in Owner, NEW new \in SUBSET Of("socket", c),
             NEW lost \in SUBSET Of("buffer", c), Read(c, new, lost)
      PROVE  LifeInv'
  <2>1. /\ log' = log /\ cut' \subseteq Owner
        /\ stage' \in [Id -> Stage]
        /\ \A m \in new : /\ m \in Id /\ stage[m] = "socket" /\ owner[m] = c
                          /\ stage'[m] = "buffer" /\ owner'[m] = c
        /\ \A m \in lost : /\ m \in Id /\ stage[m] = "buffer"
                           /\ stage'[m] = "lost" /\ owner'[m] = 0
        /\ \A m \in Id \ (new \cup lost) :
             stage'[m] = stage[m] /\ owner'[m] = owner[m]
        /\ \A m \in new, n \in Id :
             stage[n] = "socket" /\ owner[n] = c /\ n < m => n \in new
    BY <1>2 DEF Read, Oldest, Of, At, LifeTypeOK, Stage
  <2>2. LifeTypeOK'
    BY <1>2, <2>1 DEF Read, LifeTypeOK
  <2>3. LogIsHandled'
    BY <2>1, LogUnchanged
  <2>4. SentInOrder'
    BY <2>1 DEF SentInOrder
  <2>5. NoOvertaking'
    BY <2>1 DEF NoOvertaking
  <2>6. SocketIsNewest'
    BY <2>1 DEF SocketIsNewest
  <2>7. QED
    BY <2>2, <2>3, <2>4, <2>5, <2>6
<1>3. ASSUME NEW c \in Owner, NEW rest \in {{}, Of("socket", c)}, Close(c, rest)
      PROVE  LifeInv'
  <2> DEFINE gone == Of("buffer", c) \cup rest
  <2>1. /\ log' = log /\ cut' = cut
        /\ stage' \in [Id -> Stage]
        /\ \A m \in gone : /\ stage[m] \in {"buffer", "socket"}
                           /\ stage'[m] = "lost" /\ owner'[m] = 0
        /\ \A m \in Id \ gone : stage'[m] = stage[m] /\ owner'[m] = owner[m]
    BY <1>3 DEF Close, Of, At, LifeTypeOK, Stage
  <2> HIDE DEF gone
  <2>2. LifeTypeOK'
    BY <1>3, <2>1 DEF Close, LifeTypeOK
  <2>3. LogIsHandled'
    BY <2>1, LogUnchanged
  <2>4. SentInOrder' /\ NoOvertaking' /\ SocketIsNewest'
    BY <2>1 DEF SentInOrder, NoOvertaking, SocketIsNewest
  <2>5. QED
    BY <2>2, <2>3, <2>4
<1>4. ASSUME NEW seen \in SUBSET At("buffer"), NEW found \in SUBSET seen,
             Take(seen, found)
      PROVE  LifeInv'
  <2>1. /\ log' = log /\ cut' = cut
        /\ stage' \in [Id -> Stage]
        /\ \A m \in found : /\ m \in Id /\ stage[m] = "buffer"
                            /\ stage'[m] = "batch" /\ owner'[m] = owner[m]
        /\ \A m \in seen \ found : /\ m \in Id /\ stage[m] = "buffer"
                                   /\ stage'[m] = "lost" /\ owner'[m] = 0
        /\ \A m \in Id \ seen : stage'[m] = stage[m] /\ owner'[m] = owner[m]
        /\ owner' \in [Id -> Owner \cup {0}]
    BY <1>4 DEF Take, At, LifeTypeOK, Stage
  <2>2. LifeTypeOK'
    BY <2>1 DEF LifeTypeOK
  <2>3. LogIsHandled'
    BY <2>1, LogUnchanged
  <2>4. SentInOrder' /\ SocketIsNewest'
    BY <2>1 DEF SentInOrder, SocketIsNewest
  <2>5. ASSUME NEW m \in Id, NEW n \in found,
               stage[m] = "buffer", owner[m] = owner[n], owner[m] # 0, m < n
        PROVE  m \in seen
    <3>1. owner[n] \in Owner
      BY <1>4, <2>1, <2>5 DEF Take, LifeTypeOK
    <3>2. QED
      BY <1>4, <2>1, <2>5, <3>1 DEF Take, Oldest, Of, At
  <2>6. ASSUME NEW m \in Id, NEW n \in Id,
               owner'[m] = owner'[n], owner'[m] # 0,
               stage'[m] \in {"socket", "buffer"},
               stage'[n] \in {"batch", "handled"}
        PROVE  n < m
    <3>1. /\ m \notin seen /\ n \notin seen \ found
          /\ stage[m] = stage'[m] /\ owner[m] = owner'[m] /\ owner[n] = owner'[n]
      BY <2>1, <2>6
    <3>2. CASE n \in found
      BY <2>1, <2>5, <2>6, <3>1, <3>2 DEF SocketIsNewest
    <3>3. CASE n \notin found
      BY <2>1, <2>6, <3>1, <3>3 DEF NoOvertaking
    <3>4. QED
      BY <3>2, <3>3
  <2>7. QED
    BY <2>2, <2>3, <2>4, <2>6 DEF NoOvertaking
<1>5. ASSUME NEW m \in Id, Handle(m)
      PROVE  LifeInv'
  <2>1. /\ stage[m] = "batch" /\ owner' = owner /\ cut' = cut
        /\ stage' = [stage EXCEPT ![m] = "handled"]
        /\ log' = Append(log, m)
    BY <1>5 DEF Handle, At
  <2>2. LifeTypeOK'
    BY <2>1 DEF LifeTypeOK, Stage
  <2>3. LogIsHandled'
    <3>1. /\ Len(log') = Len(log) + 1 /\ Len(log) \in Nat
          /\ \A i \in 1..Len(log) : log'[i] = log[i]
          /\ log'[Len(log) + 1] = m
      BY <2>1 DEF LifeTypeOK
    <3>2. \A i \in 1..Len(log) : log[i] # m
      BY <2>1 DEF LogIsHandled
    <3>3. \A n \in Id : stage'[n] = "handled" <=> n = m \/ stage[n] = "handled"
      BY <2>1 DEF LifeTypeOK
    <3>4. QED
      BY <3>1, <3>2, <3>3, SMTT(40) DEF LogIsHandled
  <2>4. SentInOrder' /\ NoOvertaking' /\ SocketIsNewest'
    BY <2>1 DEF SentInOrder, NoOvertaking, SocketIsNewest, LifeTypeOK
  <2>5. QED
    BY <2>2, <2>3, <2>4
<1>6. CASE UNCHANGED lifeVars
  BY <1>6 DEF lifeVars, LifeTypeOK, LogIsHandled, NoOvertaking, SocketIsNewest,
              SentInOrder
<1>7. QED
  BY <1>1, <1>2, <1>3, <1>4, <1>5, <1>6 DEF Next

LEMMA LifeInvariant ==
  ASSUME MessageLifeAssumption
  PROVE  Spec => []LifeInv
<1>1. LifeInv /\ [Next]_lifeVars => LifeInv'
  BY LifeStep
<1>2. QED
  BY <1>1, LifeInitInv, PTL DEF Spec

(* A message is handled once, and only what is in the log has been.        *)
THEOREM HandledOnce ==
  ASSUME MessageLifeAssumption
  PROVE  Spec => []LogIsHandled
<1>1. LifeInv => LogIsHandled
  BY DEF LifeInv
<1>2. QED
  BY <1>1, LifeInvariant, PTL

(* Messages of a connection leave their buffer in the order they were sent *)
(* in.                                                                     *)
THEOREM NothingOvertakes ==
  ASSUME MessageLifeAssumption
  PROVE  Spec => []NoOvertaking
<1>1. LifeInv => NoOvertaking
  BY DEF LifeInv
<1>2. QED
  BY <1>1, LifeInvariant, PTL

-----------------------------------------------------------------------------
(* EvTcpHandler: its threads, locks and pointers.                          *)

(* What one step needs of the state before it.  The type invariant alone   *)
(* does not show that CurProtocol is a message: that takes the iterators.  *)
(* The map alone does not show that a pointer found in it is allocated     *)
(* when it is used: that takes the locks.                                  *)
TcpInv == TcpTypeOK /\ IteratorsValid /\ NoUseAfterFree /\ MapMatchesSockets

-----------------------------------------------------------------------------
(* Lemmas about the operators.                                             *)

\* GetProtocalData's list is a sequence, as long as its two parts.
LEMMA PushFrontType ==
  ASSUME NEW S, NEW list \in Seq(S), NEW vec \in Seq(S)
  PROVE  /\ PushFront(list, vec) \in Seq(S)
         /\ Len(PushFront(list, vec)) = Len(vec) + Len(list)
<1>1. Reverse(vec) \in Seq(S) /\ Len(Reverse(vec)) = Len(vec)
  BY DEF Reverse
<1>2. QED
  BY <1>1 DEF PushFront

\* ConnReadCb over the limit: what is left of the buffer is a sequence.
LEMMA TrimFrontType ==
  ASSUME NEW S, NEW vec \in Seq(S), NEW rest \in TrimFront(vec)
  PROVE  rest \in Seq(S)
<1>1. PICK k \in 0..Len(vec) : rest = SubSeq(vec, k + 1, Len(vec))
  BY DEF TrimFront
<1>2. QED
  BY <1>1

\* A mangled message has the number and the connection of the one it was.
LEMMA MangledType ==
  ASSUME NEW m \in Msg, NEW f \in Mangled(m)
  PROVE  f \in Msg /\ f.id = m.id /\ f.conn = m.conn
  BY DEF Mangled, Msg

\* What is found behind a cut, in a part of a buffer.
LEMMA ResyncedType ==
  ASSUME NEW vec \in Seq(Msg), NEW f \in Resynced(vec)
  PROVE  /\ f \in Seq(Msg) /\ Rising(f)
         /\ \A i \in 1..Len(f) : \E j \in 1..Len(vec) :
              f[i].id = vec[j].id /\ f[i].conn = vec[j].conn
<1> DEFINE S == UNION {Mangled(m) : m \in ToSet(vec)}
<1>1. f \in SeqOf(S, Len(vec)) /\ Rising(f)
  BY DEF Resynced
<1>2. Len(vec) \in Nat
  OBVIOUS
<1>3. f \in Seq(S)
  BY <1>1, <1>2 DEF SeqOf
<1>4. ASSUME NEW x \in S
      PROVE  x \in Msg /\ \E j \in 1..Len(vec) : x.id = vec[j].id /\ x.conn = vec[j].conn
  <2>1. PICK j \in 1..Len(vec) : x \in Mangled(vec[j])
    BY DEF ToSet
  <2>2. vec[j] \in Msg
    OBVIOUS
  <2>3. QED
    BY <2>1, <2>2, MangledType
<1> HIDE DEF S
<1>5. \A i \in 1..Len(f) : f[i] \in S
  BY <1>3
<1>6. f \in Seq(Msg)
  BY <1>3, <1>4
<1>7. QED
  BY <1>1, <1>4, <1>5, <1>6

(* What GetProtocalData finds in a buffer and what it leaves there.  The   *)
(* part that has been looked through ends somewhere; of a connection that  *)
(* has never been trimmed, at the end.                                     *)
LEMMA ExtractionType ==
  ASSUME TcpTypeOK, NEW b \in DOMAIN vecuint8, NEW e \in Extractions(b)
  PROVE  /\ e.found \in Seq(Msg) /\ e.rest \in Seq(Msg)
         /\ \A i \in 1..Len(e.found) : \E j \in 1..Len(vecuint8[b]) :
              /\ e.found[i].id = vecuint8[b][j].id
              /\ e.found[i].conn = vecuint8[b][j].conn
         /\ \E n \in 0..Len(vecuint8[b]) :
              /\ e.rest = SubSeq(vecuint8[b], n + 1, Len(vecuint8[b]))
              /\ \A i \in 1..Len(e.found) : \E j \in 1..n :
                   /\ e.found[i].id = vecuint8[b][j].id
                   /\ e.found[i].conn = vecuint8[b][j].conn
         /\ conn[b] \notin trimmed => e.found = vecuint8[b] /\ e.rest = <<>>
         /\ conn[b] \in trimmed => Rising(e.found)
<1> DEFINE vec == vecuint8[b]
<1>1. vec \in Seq(Msg) /\ Len(vec) \in Nat
  BY DEF TcpTypeOK, IsBevMap
<1>2. CASE conn[b] \notin trimmed
  <2>1. e.found = vec /\ e.rest = <<>>
    BY <1>2 DEF Extractions, Drained
  <2>2. SubSeq(vec, Len(vec) + 1, Len(vec)) = <<>>
    BY <1>1
  <2>3. QED
    BY <1>1, <1>2, <2>1, <2>2
<1>3. CASE conn[b] \in trimmed
  <2>1. PICK n \in 0..Len(vec) : \E f \in Resynced(SubSeq(vec, 1, n)) :
          e = [found |-> f, rest |-> SubSeq(vec, n + 1, Len(vec))]
    BY <1>3 DEF Extractions
  <2> DEFINE f == e.found
  <2>f. /\ f \in Resynced(SubSeq(vec, 1, n))
        /\ e.rest = SubSeq(vec, n + 1, Len(vec))
    BY <2>1
  <2> HIDE DEF f
  <2>2. /\ SubSeq(vec, 1, n) \in Seq(Msg) /\ Len(SubSeq(vec, 1, n)) = n
        /\ \A j \in 1..n : SubSeq(vec, 1, n)[j] = vec[j]
        /\ SubSeq(vec, n + 1, Len(vec)) \in Seq(Msg)
    BY <1>1
  <2>3. /\ f \in Seq(Msg) /\ Rising(f)
        /\ \A i \in 1..Len(f) : \E j \in 1..n :
             f[i].id = vec[j].id /\ f[i].conn = vec[j].conn
    <3> DEFINE front == SubSeq(vec, 1, n)
    <3>1. /\ f \in Seq(Msg) /\ Rising(f)
          /\ \A i \in 1..Len(f) : \E j \in 1..Len(front) :
               f[i].id = front[j].id /\ f[i].conn = front[j].conn
      BY <2>2, <2>f, ResyncedType
    <3>2. Len(front) = n /\ \A j \in 1..n : front[j] = vec[j]
      BY <2>2
    <3> HIDE DEF front
    <3>3. QED
      BY <3>1, <3>2
  <2>4. \A i \in 1..Len(f) : \E j \in 1..Len(vec) :
          f[i].id = vec[j].id /\ f[i].conn = vec[j].conn
    BY <1>1, <2>3
  <2>5. QED
    BY <1>3, <2>2, <2>3, <2>4, <2>f DEF f
<1>4. QED
  BY <1>2, <1>3

-----------------------------------------------------------------------------
(* The initial state, and one lemma per thread.                            *)

LEMMA TcpInitInv == TcpInit => TcpInv
<1> SUFFICES ASSUME TcpInit PROVE TcpInv
  OBVIOUS
<1>1. Live = {}
  BY DEF TcpInit, Live
<1>2. TcpTypeOK
  BY <1>1, EvTcpAssumption DEF TcpInit, TcpTypeOK, IsBevMap, Idle
<1>3. QED
  BY <1>1, <1>2, EvTcpAssumption
  DEF TcpInit, TcpInv, IteratorsValid, NoUseAfterFree, MapMatchesSockets, Idle

LEMMA PeerStep ==
  ASSUME TcpInv, PeerNext
  PROVE  TcpInv'
<1>1. ASSUME NEW b \in Bev, PeerClose(b)
      PROVE  TcpInv'
  BY <1>1 DEF PeerClose, TcpInv, TcpTypeOK, IsBevMap, IteratorsValid,
              NoUseAfterFree, MapMatchesSockets, Live, Msg, handlerVars, loopVars
<1>2. ASSUME NEW b \in Bev, NEW p \in Payload, PeerSend(b, p)
      PROVE  TcpInv'
  <2> DEFINE m == [id |-> sent + 1, conn |-> conn[b], body |-> p]
  <2>1. m \in Msg
    BY <1>2, EvTcpAssumption DEF PeerSend, TcpInv, TcpTypeOK, Live, Msg
  <2>2. inbound' \in [Bev -> Seq(Msg)] /\ sent' \in 0..MaxMsg
    BY <1>2, <2>1, EvTcpAssumption DEF PeerSend, TcpInv, TcpTypeOK
  <2>3. UNCHANGED <<conn, peerOpen, written, accepted, trimmed, vecuint8, ev,
                    listvecProtocol, pc, epair, evec, visited, target, handled>>
    BY <1>2 DEF PeerSend, handlerVars, loopVars
  <2>4. QED
    BY <2>2, <2>3 DEF TcpInv, TcpTypeOK, IsBevMap, IteratorsValid,
                      NoUseAfterFree, MapMatchesSockets, Live, CurProtocol
<1>3. QED
  BY <1>1, <1>2 DEF PeerNext

\* A freed socket leaves the other sockets as they are.
LEMMA FreeType ==
  ASSUME NEW b \in Bev, TcpTypeOK, BuffereventFree(b)
  PROVE  /\ conn' \in [Bev -> 0..MaxConn]
         /\ Live' = Live \ {b}
         /\ peerOpen' \subseteq Live'
         /\ inbound' \in [Bev -> Seq(Msg)]
         /\ written' \in [Bev -> SUBSET Msg]
         /\ accepted' \in 0..MaxConn /\ sent' \in 0..MaxMsg
         /\ trimmed' \subseteq 1..MaxConn
  BY EvTcpAssumption DEF BuffereventFree, TcpTypeOK, Live

LEMMA EventStep ==
  ASSUME NEW b \in Bev, TcpInv, EventNext(b)
  PROVE  TcpInv'
<1> USE DEF TcpInv, handlerVars, loopVars, netVars
<1>1. CASE ListenerCb(b)
  <2>1. /\ conn' \in [Bev -> 0..MaxConn]
        /\ accepted' \in 0..MaxConn
        /\ Live' = Live \cup {b}
        /\ peerOpen' \subseteq Live'
    BY <1>1, EvTcpAssumption DEF ListenerCb, TcpTypeOK, Live
  <2>2. /\ IsBevMap(vecuint8', Seq(Msg))
        /\ DOMAIN vecuint8' = DOMAIN vecuint8 \cup {b}
    BY <1>1 DEF ListenerCb, MapInsert, TcpTypeOK, IsBevMap
  <2>3. QED
    BY <1>1, <2>1, <2>2
    DEF ListenerCb, MutexFree, TcpTypeOK, IsBevMap, IteratorsValid,
        NoUseAfterFree, MapMatchesSockets
<1>2. CASE StartReadCb(b) \/ StartEventCb(b)
  <2>1. /\ ev' \in [cb : {"read", "event"}, bev : Bev]
        /\ ev'.bev \in Live
    BY <1>2 DEF StartReadCb, StartEventCb
  <2>2. UNCHANGED <<conn, peerOpen, inbound, written, accepted, sent, trimmed,
                    vecuint8, listvecProtocol, pc, epair, evec, visited, target,
                    handled>>
    BY <1>2 DEF StartReadCb, StartEventCb
  <2>3. Live' = Live
    BY <2>2 DEF Live
  <2>4. QED
    BY <2>1, <2>2, <2>3
    DEF TcpTypeOK, IsBevMap, IteratorsValid, NoUseAfterFree, MapMatchesSockets
<1>3. CASE ConnReadCb(b)
  <2>1. PICK len \in 0..MaxRead, over \in OverLimit :
          /\ len <= Len(inbound[b])
          /\ inbound' = [inbound EXCEPT ![b] = SubSeq(@, len + 1, Len(@))]
          /\ IF b \in DOMAIN vecuint8
             THEN /\ \E rest \in IF over THEN TrimFront(vecuint8[b])
                                         ELSE {vecuint8[b]} :
                       vecuint8' = [vecuint8 EXCEPT
                         ![b] = InsertAtEnd(rest, SubSeq(inbound[b], 1, len))]
                  /\ trimmed' = IF over THEN trimmed \cup {conn[b]} ELSE trimmed
             ELSE UNCHANGED <<vecuint8, trimmed>>
    BY <1>3 DEF ConnReadCb
  <2>2. len \in Nat /\ inbound[b] \in Seq(Msg)
    BY EvTcpAssumption DEF TcpTypeOK
  <2>3. SubSeq(inbound[b], 1, len) \in Seq(Msg)
    BY <2>1, <2>2
  <2>4. inbound' \in [Bev -> Seq(Msg)]
    BY <2>1, <2>2 DEF TcpTypeOK
  <2>5. IsBevMap(vecuint8', Seq(Msg)) /\ DOMAIN vecuint8' = DOMAIN vecuint8
    <3>1. ASSUME b \in DOMAIN vecuint8,
                 NEW rest \in IF over THEN TrimFront(vecuint8[b])
                                      ELSE {vecuint8[b]}
          PROVE  InsertAtEnd(rest, SubSeq(inbound[b], 1, len)) \in Seq(Msg)
      <4>1. vecuint8[b] \in Seq(Msg)
        BY <3>1 DEF TcpTypeOK, IsBevMap
      <4>2. rest \in Seq(Msg)
        BY <3>1, <4>1, TrimFrontType
      <4>3. QED
        BY <2>3, <4>2 DEF InsertAtEnd
    <3>2. QED
      BY <2>1, <3>1 DEF TcpTypeOK, IsBevMap
  <2>6. trimmed' \subseteq 1..MaxConn
    <3>1. b \in Live
      BY <1>3, EvTcpAssumption DEF ConnReadCb, NoUseAfterFree, Idle
    <3>2. conn[b] \in 1..MaxConn
      BY <3>1, EvTcpAssumption DEF Live, TcpTypeOK
    <3>3. QED
      BY <2>1, <3>2 DEF TcpTypeOK
  <2>7. QED
    BY <1>3, <2>4, <2>5, <2>6
    DEF ConnReadCb, TcpTypeOK, IsBevMap, IteratorsValid, NoUseAfterFree,
        MapMatchesSockets, Live, Idle
<1>4. CASE ConnEventCb(b)
  <2>1. b \in DOMAIN vecuint8 /\ ev.bev = b
    BY <1>4, EvTcpAssumption
    DEF ConnEventCb, NoUseAfterFree, MapMatchesSockets, MutexFree, Idle
  <2>2. BuffereventFree(b) /\ vecuint8' = MapErase(vecuint8, b)
    BY <1>4, <2>1 DEF ConnEventCb
  <2>3. /\ IsBevMap(vecuint8', Seq(Msg))
        /\ DOMAIN vecuint8' = DOMAIN vecuint8 \ {b}
    BY <2>2 DEF MapErase, TcpTypeOK, IsBevMap
  <2>4. QED
    BY <1>4, <2>2, <2>3, FreeType
    DEF ConnEventCb, MutexFree, TcpTypeOK, IsBevMap, IteratorsValid,
        NoUseAfterFree, MapMatchesSockets, Idle
<1>5. QED
  BY <1>1, <1>2, <1>3, <1>4 DEF EventNext

LEMMA LoopStep ==
  ASSUME TcpInv, LoopNext
  PROVE  TcpInv'
<1> USE DEF TcpInv, handlerVars, loopVars, netVars
<1>1. CASE GetProtocalData
  <2>1. PICK take \in [DOMAIN vecuint8 ->
                         UNION {Extractions(b) : b \in DOMAIN vecuint8}] :
          /\ \A b \in DOMAIN vecuint8 : take[b] \in Extractions(b)
          /\ listvecProtocol' =
               [b \in DOMAIN listvecProtocol \cup WithProtocol(take) |->
                  PushFront(ListOf(b),
                            IF b \in DOMAIN take THEN take[b].found ELSE <<>>)]
          /\ vecuint8' = [b \in DOMAIN vecuint8 |-> take[b].rest]
    BY <1>1 DEF GetProtocalData
  <2>2. \A b \in DOMAIN vecuint8 :
          take[b].found \in Seq(Msg) /\ take[b].rest \in Seq(Msg)
    BY <2>1, ExtractionType
  <2>3. /\ IsBevMap(vecuint8', Seq(Msg))
        /\ DOMAIN vecuint8' = DOMAIN vecuint8
    BY <2>1, <2>2 DEF TcpTypeOK, IsBevMap
  <2> DEFINE D == DOMAIN listvecProtocol \cup WithProtocol(take)
             V(b) == IF b \in DOMAIN take THEN take[b].found ELSE <<>>
  <2>4. D \subseteq Bev
    BY <2>1 DEF WithProtocol, TcpTypeOK, IsBevMap
  <2>5. ASSUME NEW b \in D
        PROVE  PushFront(ListOf(b), V(b)) \in Seq(Msg) \ {<<>>}
    <3>1. ListOf(b) \in Seq(Msg) /\ V(b) \in Seq(Msg)
      BY <2>1, <2>2 DEF ListOf, TcpTypeOK, IsBevMap
    <3>2. ListOf(b) # <<>> \/ V(b) # <<>>
      BY <2>5 DEF ListOf, WithProtocol, TcpTypeOK, IsBevMap
    <3>3. Len(ListOf(b)) + Len(V(b)) > 0
      BY <3>1, <3>2
    <3>4. /\ PushFront(ListOf(b), V(b)) \in Seq(Msg)
          /\ Len(PushFront(ListOf(b), V(b))) = Len(V(b)) + Len(ListOf(b))
      BY <3>1, PushFrontType
    <3>5. QED
      BY <3>1, <3>3, <3>4
  <2>6. IsBevMap(listvecProtocol', Seq(Msg) \ {<<>>})
    <3>1. listvecProtocol' = [b \in D |-> PushFront(ListOf(b), V(b))]
      BY <2>1
    <3>2. QED
      BY <2>4, <2>5, <3>1 DEF IsBevMap
  <2>7. /\ epair' = NoBev /\ pc' \in {"extract", "handle"} /\ Live' = Live
        /\ UNCHANGED <<conn, peerOpen, inbound, written, accepted, sent, trimmed,
                       ev, epair, evec, visited, target, handled>>
    BY <1>1 DEF GetProtocalData, IteratorsValid, Live
  <2>8. QED
    BY <1>1, <2>3, <2>6, <2>7
    DEF GetProtocalData, TcpTypeOK, IteratorsValid, NoUseAfterFree,
        MapMatchesSockets
<1>2. CASE ClearBatch
  <2>1. IsBevMap(listvecProtocol', Seq(Msg) \ {<<>>})
    BY <1>2 DEF ClearBatch, IsBevMap
  <2>2. Live' = Live
    BY <1>2 DEF ClearBatch, Live
  <2>3. QED
    BY <1>2, <2>1, <2>2
    DEF ClearBatch, TcpTypeOK, IsBevMap, IteratorsValid, NoUseAfterFree,
        MapMatchesSockets
<1>3. ASSUME NEW b \in Bev, NextProtocol(b)
      PROVE  TcpInv'
  <2>1. /\ epair' \in Bev
        /\ epair' \in DOMAIN listvecProtocol
        /\ evec' \in 1..Len(listvecProtocol[epair'])
    <3>1. ASSUME b \in DOMAIN listvecProtocol
          PROVE  1 \in 1..Len(listvecProtocol[b])
      <4>1. listvecProtocol[b] \in Seq(Msg) /\ listvecProtocol[b] # <<>>
        BY <3>1 DEF TcpTypeOK, IsBevMap
      <4>2. QED
        BY <4>1
    <3>2. QED
      BY <1>3, <3>1 DEF NextProtocol, IteratorsValid, TcpTypeOK
  <2>2. /\ pc' = "call"
        /\ pc = "handle"
        /\ UNCHANGED <<conn, peerOpen, inbound, written, accepted, sent, trimmed,
                       vecuint8, ev, listvecProtocol, visited, target, handled>>
    BY <1>3 DEF NextProtocol
  <2>3. Live' = Live
    BY <2>2 DEF Live
  <2>4. evec' \in Nat /\ epair' # NoBev
    BY <2>1, EvTcpAssumption
  <2>5. QED
    BY <2>1, <2>2, <2>3, <2>4
    DEF TcpTypeOK, IsBevMap, IteratorsValid, NoUseAfterFree, MapMatchesSockets
<1>4. QED
  BY <1>1, <1>2, <1>3 DEF LoopNext

LEMMA VirtualStep ==
  ASSUME TcpInv, VirtualNext
  PROVE  TcpInv'
<1> USE DEF TcpInv, handlerVars, loopVars, netVars
<1>1. ASSUME pc \in {"call", "write", "free"}
      PROVE  epair \in Bev /\ CurProtocol \in Msg
  <2>1. epair \in DOMAIN listvecProtocol /\ evec \in 1..Len(listvecProtocol[epair])
    BY <1>1 DEF IteratorsValid
  <2>2. epair \in Bev /\ listvecProtocol[epair] \in Seq(Msg)
    BY <2>1 DEF TcpTypeOK, IsBevMap
  <2>3. QED
    BY <2>1, <2>2 DEF CurProtocol
<1>2. CASE HandleReturn
  <2>1. pc = "call" /\ epair \in Bev /\ CurProtocol \in Msg
    BY <1>1, <1>2 DEF HandleReturn
  <2>2. handled' \in Seq([bev : Bev, msg : Msg])
    BY <1>2, <2>1 DEF HandleReturn, TcpTypeOK
  <2>3. /\ pc' = "handle"
        /\ UNCHANGED <<conn, peerOpen, inbound, written, accepted, sent, trimmed,
                       vecuint8, ev, listvecProtocol, target>>
        /\ visited' \subseteq Bev
    BY <1>2, <2>1 DEF HandleReturn, TcpTypeOK
  <2>4. \/ epair' = NoBev /\ evec' = 0
        \/ /\ epair' = epair /\ evec' = evec + 1
           /\ evec < Len(listvecProtocol[epair])
    BY <1>2 DEF HandleReturn
  <2>5. Live' = Live
    BY <2>3 DEF Live
  <2>6. IteratorsValid'
    <3>1. epair \in DOMAIN listvecProtocol /\ evec \in 1..Len(listvecProtocol[epair])
      BY <2>1, EvTcpAssumption DEF IteratorsValid
    <3>2. Len(listvecProtocol[epair]) \in Nat
      BY <3>1 DEF TcpTypeOK, IsBevMap
    <3>3. QED
      BY <2>3, <2>4, <3>1, <3>2 DEF IteratorsValid
  <2>7. QED
    BY <2>1, <2>2, <2>3, <2>4, <2>5, <2>6
    DEF TcpTypeOK, IsBevMap, NoUseAfterFree, MapMatchesSockets
<1>3. ASSUME NEW b \in Bev, SendDataToClient(b)
      PROVE  TcpInv'
  <2>1. b \in Live
    BY <1>3 DEF SendDataToClient, MapMatchesSockets
  <2>2. Live' = Live
    BY <1>3 DEF SendDataToClient, Live
  <2>3. QED
    BY <1>3, <2>1, <2>2
    DEF SendDataToClient, TcpTypeOK, IsBevMap, IteratorsValid, NoUseAfterFree,
        MapMatchesSockets
<1>4. ASSUME NEW ret \in WriteResults, BuffereventWrite(ret)
      PROVE  TcpInv'
  <2>1. target \in Bev /\ CurProtocol \in Msg
    BY <1>1, <1>4 DEF BuffereventWrite, NoUseAfterFree, Live
  <2>2. written' \in [Bev -> SUBSET Msg]
    BY <1>4, <2>1 DEF BuffereventWrite, TcpTypeOK
  <2>3. Live' = Live
    BY <1>4 DEF BuffereventWrite, Live
  <2>4. QED
    BY <1>4, <2>2, <2>3
    DEF BuffereventWrite, TcpTypeOK, IsBevMap, IteratorsValid, NoUseAfterFree,
        MapMatchesSockets
<1>5. ASSUME NEW b \in Bev, DisconnectClient(b)
      PROVE  TcpInv'
  <2>1. b \in Live /\ pc = "call"
    BY <1>5 DEF DisconnectClient, MapMatchesSockets
  <2>2. /\ IsBevMap(vecuint8', Seq(Msg))
        /\ DOMAIN vecuint8' = DOMAIN vecuint8 \ {b}
    BY <1>5 DEF DisconnectClient, MapErase, TcpTypeOK, IsBevMap
  <2>3. Live' = Live
    BY <1>5 DEF DisconnectClient, Live
  <2>4. QED
    BY <1>5, <2>1, <2>2, <2>3
    DEF DisconnectClient, TcpTypeOK, IsBevMap, IteratorsValid, NoUseAfterFree,
        MapMatchesSockets
<1>6. CASE DisconnectFree
  <2>1. target \in Bev /\ BuffereventFree(target)
    BY <1>6 DEF DisconnectFree, NoUseAfterFree, Live
  <2>2. ev # Idle => ev.bev # target
    BY <1>6 DEF DisconnectFree, BevUnlocked
  <2>3. QED
    BY <1>6, <2>1, <2>2, FreeType
    DEF DisconnectFree, TcpTypeOK, IsBevMap, IteratorsValid, NoUseAfterFree,
        MapMatchesSockets
<1>7. QED
  BY <1>2, <1>3, <1>4, <1>5, <1>6 DEF VirtualNext

-----------------------------------------------------------------------------
(* The theorems.                                                           *)

\* Every step preserves the invariant, whoever takes it.
LEMMA TcpInvStep ==
  ASSUME TcpInv, [TcpNext]_tcpVars
  PROVE  TcpInv'
<1>1. CASE TcpNext
  BY <1>1, PeerStep, EventStep, LoopStep, VirtualStep DEF TcpNext
<1>2. CASE UNCHANGED tcpVars
  BY <1>2
  DEF tcpVars, netVars, handlerVars, loopVars, TcpInv, TcpTypeOK, IsBevMap,
      IteratorsValid, NoUseAfterFree, MapMatchesSockets, Live
<1>3. QED
  BY <1>1, <1>2

\* The four invariants together are inductive.
THEOREM TcpInvariant == TcpSpec => []TcpInv
  BY TcpInitInv, TcpInvStep, PTL DEF TcpSpec

(* The state is well typed: in particular a batch never holds an empty     *)
(* list, and only allocated sockets have a peer.                           *)
THEOREM TcpTypeCorrect == TcpSpec => []TcpTypeOK
<1>1. TcpInv => TcpTypeOK
  BY DEF TcpInv
<1>2. QED
  BY <1>1, TcpInvariant, PTL

(* SendDataToClient and DisconnectClient never hand a freed socket to      *)
(* libevent, and no callback waits for m_mutex on behalf of one.           *)
THEOREM NeverUsedAfterFree == TcpSpec => []NoUseAfterFree
<1>1. TcpInv => NoUseAfterFree
  BY DEF TcpInv
<1>2. QED
  BY <1>1, TcpInvariant, PTL

(* The map of receive buffers and the allocated sockets agree.             *)
THEOREM MapAlwaysMatches == TcpSpec => []MapMatchesSockets
<1>1. TcpInv => MapMatchesSockets
  BY DEF TcpInv
<1>2. QED
  BY <1>1, TcpInvariant, PTL

(* The handler thread's iterators never dangle.                            *)
THEOREM IteratorsAlwaysValid == TcpSpec => []IteratorsValid
<1>1. TcpInv => IteratorsValid
  BY DEF TcpInv
<1>2. QED
  BY <1>1, TcpInvariant, PTL

-----------------------------------------------------------------------------
(* Sequences of messages.                                                  *)

Descending(s) == \A i, j \in 1..Len(s) : i < j => s[i].id > s[j].id

\* Everything of S was sent before everything of T.
Before(S, T) == \A m \in S, n \in T : m.id < n.id

\* What is known of the fields of a message.
LEMMA MsgType ==
  \A m \in Msg : /\ m.id \in 1..MaxMsg /\ m.id \in Nat
                /\ m.conn \in 1..MaxConn /\ m.conn \in Nat /\ m.conn # 0
  BY EvTcpAssumption DEF Msg

\* The members of a sequence of messages.
LEMMA ToSetIs ==
  ASSUME NEW s \in Seq(Msg)
  PROVE  ToSet(s) = {s[i] : i \in 1..Len(s)} /\ ToSet(s) \subseteq Msg
  BY DEF ToSet

(* Cutting an ascending sequence in two: ConnReadCb reads a prefix of what *)
(* a peer has sent, and trims a prefix of the receive buffer.              *)
LEMMA SplitAscending ==
  ASSUME NEW s \in Seq(Msg), NEW n \in 0..Len(s), Rising(s)
  PROVE  LET front == SubSeq(s, 1, n)
             rest  == SubSeq(s, n + 1, Len(s))
         IN  /\ front \in Seq(Msg) /\ Len(front) = n /\ rest \in Seq(Msg)
             /\ Rising(front) /\ Rising(rest)
             /\ ToSet(s) = ToSet(front) \cup ToSet(rest)
             /\ Before(ToSet(front), ToSet(rest))
<1> DEFINE front == SubSeq(s, 1, n)
           rest  == SubSeq(s, n + 1, Len(s))
<1>1. /\ front \in Seq(Msg) /\ Len(front) = n
      /\ \A i \in 1..n : front[i] = s[i]
  OBVIOUS
<1>2. /\ rest \in Seq(Msg) /\ Len(rest) = Len(s) - n
      /\ \A i \in 1..Len(rest) : rest[i] = s[n + i] /\ n + i \in 1..Len(s)
  OBVIOUS
<1> HIDE DEF front, rest
<1>s. /\ ToSet(s) = {s[i] : i \in 1..Len(s)}
      /\ ToSet(front) = {front[i] : i \in 1..n}
      /\ ToSet(rest) = {rest[i] : i \in 1..Len(rest)}
  BY <1>1, <1>2, ToSetIs
<1>3. ASSUME NEW i \in 1..n, NEW j \in 1..n, i < j
      PROVE  front[i].id < front[j].id
  BY <1>1, <1>3 DEF Rising
<1>4. ASSUME NEW i \in 1..Len(rest), NEW j \in 1..Len(rest), i < j
      PROVE  rest[i].id < rest[j].id
  BY <1>2, <1>4, SMTT(40) DEF Rising
<1>5. ASSUME NEW i \in 1..n, NEW j \in 1..Len(rest)
      PROVE  front[i].id < rest[j].id
  <2>1. n + j \in 1..Len(s) /\ i \in 1..Len(s) /\ i < n + j
    BY <1>2
  <2>2. QED
    BY <1>1, <1>2, <2>1 DEF Rising
<1>6. Before(ToSet(front), ToSet(rest))
  BY <1>5, <1>s DEF Before
<1>7. ASSUME NEW x \in ToSet(s)
      PROVE  x \in ToSet(front) \cup ToSet(rest)
  <2>1. PICK i \in 1..Len(s) : s[i] = x
    BY <1>s
  <2>2. CASE i <= n
    <3>1. i \in 1..n /\ front[i] = x
      BY <1>1, <2>1, <2>2
    <3>2. QED
      BY <1>s, <3>1
  <2>3. CASE i > n
    <3>1. i - n \in 1..Len(rest) /\ n + (i - n) = i
      BY <1>2, <2>3
    <3>2. rest[i - n] = s[i]
      BY <1>2, <3>1
    <3>3. QED
      BY <1>s, <2>1, <3>1, <3>2
  <2>4. QED
    BY <2>2, <2>3
<1>8. ASSUME NEW x \in ToSet(front) \cup ToSet(rest)
      PROVE  x \in ToSet(s)
  BY <1>1, <1>2, <1>8, <1>s
<1>9. QED
  <2>1. Rising(front) /\ Rising(rest) /\ ToSet(s) = ToSet(front) \cup ToSet(rest)
    BY <1>1, <1>3, <1>4, <1>7, <1>8 DEF Rising
  <2>2. QED
    BY <1>1, <1>2, <1>6, <2>1 DEF front, rest

\* What ConnReadCb appends to a receive buffer leaves it in order.
LEMMA JoinAscending ==
  ASSUME NEW s \in Seq(Msg), NEW t \in Seq(Msg), Rising(s), Rising(t),
         Before(ToSet(s), ToSet(t))
  PROVE  /\ s \o t \in Seq(Msg) /\ Rising(s \o t)
         /\ ToSet(s \o t) = ToSet(s) \cup ToSet(t)
<1> DEFINE u == s \o t
<1>1. /\ u \in Seq(Msg) /\ Len(u) = Len(s) + Len(t)
      /\ \A i \in 1..Len(s) : u[i] = s[i] /\ i \in 1..Len(u)
      /\ \A i \in 1..Len(t) : u[Len(s) + i] = t[i] /\ Len(s) + i \in 1..Len(u)
  OBVIOUS
<1> HIDE DEF u
<1>s. /\ ToSet(s) = {s[i] : i \in 1..Len(s)}
      /\ ToSet(t) = {t[i] : i \in 1..Len(t)}
      /\ ToSet(u) = {u[i] : i \in 1..Len(u)}
  BY <1>1, ToSetIs
<1>2. ASSUME NEW i \in 1..Len(u), i > Len(s)
      PROVE  i - Len(s) \in 1..Len(t) /\ u[i] = t[i - Len(s)]
  <2>1. i - Len(s) \in 1..Len(t) /\ Len(s) + (i - Len(s)) = i
    BY <1>1, <1>2
  <2>2. QED
    BY <1>1, <2>1
<1>3. ASSUME NEW i \in 1..Len(u), NEW j \in 1..Len(u), i < j
      PROVE  u[i].id < u[j].id
  <2>1. CASE j <= Len(s)
    BY <1>1, <1>3, <2>1 DEF Rising
  <2>2. CASE i > Len(s)
    <3>1. /\ i - Len(s) \in 1..Len(t) /\ u[i] = t[i - Len(s)]
          /\ j - Len(s) \in 1..Len(t) /\ u[j] = t[j - Len(s)]
      <4>1. j > Len(s)
        BY <1>3, <2>2
      <4>2. QED
        BY <1>2, <2>2, <4>1
    <3>2. QED
      BY <1>3, <3>1, SMTT(40) DEF Rising
  <2>3. CASE i <= Len(s) /\ j > Len(s)
    <3>1. u[i] \in ToSet(s)
      BY <1>1, <1>s, <2>3, SMTT(40)
    <3>2. u[j] \in ToSet(t)
      BY <1>2, <1>s, <2>3
    <3>3. QED
      BY <3>1, <3>2 DEF Before
  <2>4. QED
    BY <2>1, <2>2, <2>3
<1>4. ASSUME NEW x \in ToSet(u)
      PROVE  x \in ToSet(s) \cup ToSet(t)
  <2>1. PICK i \in 1..Len(u) : u[i] = x
    BY <1>s
  <2>2. CASE i <= Len(s)
    <3>1. i \in 1..Len(s) /\ s[i] = x
      BY <1>1, <2>1, <2>2
    <3>2. QED
      BY <1>s, <3>1
  <2>3. CASE i > Len(s)
    <3>1. i - Len(s) \in 1..Len(t) /\ t[i - Len(s)] = x
      BY <1>2, <2>1, <2>3
    <3>2. QED
      BY <1>s, <3>1
  <2>4. QED
    BY <2>2, <2>3
<1>5. ASSUME NEW x \in ToSet(s) \cup ToSet(t)
      PROVE  x \in ToSet(u)
  <2>1. CASE x \in ToSet(s)
    BY <1>1, <1>s, <2>1
  <2>2. CASE x \in ToSet(t)
    BY <1>1, <1>s, <2>2
  <2>3. QED
    BY <1>5, <2>1, <2>2
<1>6. QED
  BY <1>1, <1>3, <1>4, <1>5 DEF u, Rising

\* push_front, message by message, turns a buffer round.
LEMMA ReverseAscending ==
  ASSUME NEW s \in Seq(Msg), Rising(s)
  PROVE  /\ Reverse(s) \in Seq(Msg) /\ Descending(Reverse(s))
         /\ ToSet(Reverse(s)) = ToSet(s)
<1> DEFINE r == Reverse(s)
<1>1. /\ r \in Seq(Msg) /\ Len(r) = Len(s)
      /\ \A i \in 1..Len(s) : r[i] = s[Len(s) - i + 1] /\ Len(s) - i + 1 \in 1..Len(s)
  BY DEF Reverse
<1> HIDE DEF r
<1>2. ASSUME NEW i \in 1..Len(r), NEW j \in 1..Len(r), i < j
      PROVE  r[i].id > r[j].id
  <2>1. Len(s) - j + 1 < Len(s) - i + 1
    BY <1>1, <1>2
  <2>2. s[Len(s) - j + 1].id < s[Len(s) - i + 1].id
    BY <1>1, <2>1 DEF Rising
  <2>3. r[i] = s[Len(s) - i + 1] /\ r[j] = s[Len(s) - j + 1]
    BY <1>1
  <2>5. \A k \in 1..Len(s) : s[k].id \in Int
    BY MsgType
  <2>6. s[Len(s) - j + 1].id \in Int /\ s[Len(s) - i + 1].id \in Int
    BY <1>1, <2>5
  <2>4. QED
    BY <2>2, <2>3, <2>6
<1>3. ASSUME NEW x \in ToSet(s)
      PROVE  x \in ToSet(r)
  <2>1. PICK i \in 1..Len(s) : s[i] = x
    BY ToSetIs
  <2>2. Len(s) - i + 1 \in 1..Len(s) /\ Len(s) - (Len(s) - i + 1) + 1 = i
    OBVIOUS
  <2>3. r[Len(s) - i + 1] = x
    BY <1>1, <2>1, <2>2
  <2>4. QED
    BY <1>1, <2>2, <2>3, ToSetIs
<1>4. ASSUME NEW x \in ToSet(r)
      PROVE  x \in ToSet(s)
  <2>1. PICK i \in 1..Len(r) : r[i] = x
    BY <1>1, ToSetIs
  <2>2. QED
    BY <1>1, <2>1, ToSetIs
<1>5. QED
  BY <1>1, <1>2, <1>3, <1>4 DEF r, Descending

\* The numbers of a set of messages.
IdsOf(S) == {m.id : m \in S}

-----------------------------------------------------------------------------
(* What is where.                                                          *)

(* Where the messages are.  The order within a place is a matter of the    *)
(* sequences (OrderInv below); which message is in which place is all that *)
(* the lives of the messages depend on.                                    *)
SocketOf == [b \in Bev |-> ToSet(inbound[b])]
BufferOf ==
  [b \in Bev |-> IF b \in DOMAIN vecuint8 THEN ToSet(vecuint8[b]) ELSE {}]
BatchOf  == [b \in Bev |-> ToSet(ListOf(b))]
Done     == {handled[i].msg : i \in 1..Len(handled)}
Taken    == Done \cup UNION {BatchOf[b] : b \in Bev}
Known    == Taken \cup UNION {BufferOf[b] \cup SocketOf[b] : b \in Bev}
Nothing  == [b \in Bev |-> {}]

\* The places hold messages.
PlacesType ==
  /\ SocketOf \in [Bev -> SUBSET Msg]
  /\ BufferOf \in [Bev -> SUBSET Msg]
  /\ BatchOf \in [Bev -> SUBSET Msg]
  /\ Done \subseteq Msg
  /\ conn \in [Bev -> 0..MaxConn] /\ accepted \in Nat /\ sent \in Nat

\* A number identifies a connection, an address does not.
ConnIsUnique ==
  \A b \in Bev : /\ conn[b] <= accepted
                 /\ \A c \in Bev : conn[c] = conn[b] /\ conn[b] # 0 => c = b
\* A freed connection leaves no message behind for the next one.
WaitsForItsConn ==
  \A b \in Bev : \A m \in SocketOf[b] \cup BufferOf[b] : m.conn = conn[b]
\* A connection has at most one list in the batch.
ListsAreApart ==
  \A b, c \in Bev : \A m \in BatchOf[b], n \in BatchOf[c] :
    m.conn = n.conn => b = c
\* A message that is known was sent, and its number is its own.
IdsAreUnique ==
  /\ \A m \in Known : m.id <= sent /\ m.conn <= accepted
  /\ \A m, n \in Known : m.id = n.id => m = n
\* What has been read was sent before what has not.
SocketIsNewer == \A b \in Bev : Before(BufferOf[b], SocketOf[b])
\* What has been taken was sent before what has not.
WaitingIsNewer ==
  \A b \in Bev : \A m \in Taken, n \in SocketOf[b] \cup BufferOf[b] :
    m.conn = conn[b] => m.id < n.id

(* WaitingIsNewer is LaterBatchesAreNewer, without the restriction to the  *)
(* buffers still in the map.  It is not inductive: a read or a new batch   *)
(* moves messages on, hence SocketIsNewer; a new connection may get a used *)
(* address, hence ConnIsUnique, WaitsForItsConn and IdsAreUnique.          *)
PlaceInv ==
  /\ ConnIsUnique /\ WaitsForItsConn /\ ListsAreApart /\ IdsAreUnique
  /\ SocketIsNewer /\ WaitingIsNewer

placeVars == <<SocketOf, BufferOf, BatchOf, handled, conn, accepted, sent, trimmed>>

(* The steps of the handler as moves of messages between places.           *)
PSent(b, m) ==
  /\ m \in Msg /\ m.id = sent + 1 /\ m.conn = conn[b]
  /\ SocketOf' = [SocketOf EXCEPT ![b] = @ \cup {m}]
  /\ sent' = sent + 1
  /\ UNCHANGED <<BufferOf, BatchOf, handled, conn, accepted, trimmed>>
PListened(b) ==
  /\ conn[b] = 0
  /\ conn' = [conn EXCEPT ![b] = accepted + 1]
  /\ accepted' = accepted + 1
  /\ UNCHANGED <<SocketOf, BufferOf, BatchOf, handled, sent, trimmed>>
PRead(b, new, lost) ==
  /\ conn[b] # 0 /\ new \subseteq SocketOf[b]
  /\ Before(new, SocketOf[b] \ new)
  /\ lost \subseteq BufferOf[b]
  /\ Before(lost, BufferOf[b] \ lost)
  /\ trimmed' \in {trimmed, trimmed \cup {conn[b]}}
  /\ lost # {} => conn[b] \in trimmed'
  /\ SocketOf' = [SocketOf EXCEPT ![b] = @ \ new]
  /\ BufferOf' = [BufferOf EXCEPT ![b] = (@ \ lost) \cup new]
  /\ UNCHANGED <<BatchOf, handled, conn, accepted, sent>>
PFreed(b) ==
  /\ conn' = [conn EXCEPT ![b] = 0]
  /\ SocketOf' = [SocketOf EXCEPT ![b] = {}]
  /\ BufferOf' = [BufferOf EXCEPT ![b] = {}]
  /\ UNCHANGED <<BatchOf, handled, accepted, sent, trimmed>>
PForgotten(b) ==
  /\ BufferOf' = [BufferOf EXCEPT ![b] = {}]
  /\ UNCHANGED <<SocketOf, BatchOf, handled, conn, accepted, sent, trimmed>>
PTaken(seen, found) ==
  /\ BatchOf = Nothing
  /\ \A b \in Bev :
       /\ seen[b] \subseteq BufferOf[b] /\ Before(seen[b], BufferOf[b] \ seen[b])
       /\ \A f \in found[b] : \E m \in seen[b] : f.id = m.id /\ f.conn = m.conn
       /\ \A f, g \in found[b] : f.id = g.id => f = g
       /\ conn[b] \notin trimmed => seen[b] = BufferOf[b] /\ found[b] = BufferOf[b]
  /\ BatchOf' = found
  /\ BufferOf' = [b \in Bev |-> BufferOf[b] \ seen[b]]
  /\ UNCHANGED <<SocketOf, handled, conn, accepted, sent, trimmed>>
PCleared ==
  /\ \A b \in Bev : BatchOf[b] \subseteq Done
  /\ BatchOf' = Nothing
  /\ UNCHANGED <<SocketOf, BufferOf, handled, conn, accepted, sent, trimmed>>
PHandled(b, m) ==
  /\ m \in BatchOf[b] \ Done
  /\ \A n \in BatchOf[b] \ Done : n.id <= m.id
  /\ handled' = Append(handled, [bev |-> b, msg |-> m])
  /\ Done' = Done \cup {m}
  /\ UNCHANGED <<SocketOf, BufferOf, BatchOf, conn, accepted, sent, trimmed>>

PlaceNext ==
  \/ \E b \in Bev : \E m \in Msg : PSent(b, m) \/ PHandled(b, m)
  \/ \E b \in Bev : PListened(b) \/ PFreed(b) \/ PForgotten(b)
  \/ \E b \in Bev : \E new, lost \in SUBSET Msg : PRead(b, new, lost)
  \/ \E seen, found \in [Bev -> SUBSET Msg] : PTaken(seen, found)
  \/ PCleared
  \/ UNCHANGED placeVars

\* The places are well typed, now and after the step.
LEMMA PlacesTyped == TcpTypeOK => PlacesType
<1> SUFFICES ASSUME TcpTypeOK PROVE PlacesType
  OBVIOUS
<1>1. \A b \in Bev : inbound[b] \in Seq(Msg)
  BY DEF TcpTypeOK
<1>2. \A b \in DOMAIN vecuint8 : vecuint8[b] \in Seq(Msg)
  BY DEF TcpTypeOK, IsBevMap
<1>3. \A b \in Bev : ListOf(b) \in Seq(Msg)
  BY DEF TcpTypeOK, IsBevMap, ListOf
<1>4. \A i \in 1..Len(handled) : handled[i].msg \in Msg
  <2> DEFINE R == [bev : Bev, msg : Msg]
  <2>1. handled \in Seq(R)
    BY DEF TcpTypeOK
  <2> HIDE DEF R
  <2>2. \A i \in 1..Len(handled) : handled[i] \in R
    BY <2>1
  <2>3. QED
    BY <2>2 DEF R
<1>5. SocketOf \in [Bev -> SUBSET Msg]
  BY <1>1, ToSetIs DEF SocketOf
<1>6. BufferOf \in [Bev -> SUBSET Msg]
  BY <1>2, ToSetIs DEF BufferOf
<1>7. BatchOf \in [Bev -> SUBSET Msg]
  BY <1>3, ToSetIs DEF BatchOf
<1>8. QED
  BY <1>4, <1>5, <1>6, <1>7, EvTcpAssumption DEF PlacesType, Done, TcpTypeOK

LEMMA PlacesTypedNext == TcpTypeOK' => PlacesType'
  BY PlacesTyped, PTL

\* Membership, spelled out for the provers.
LEMMA KnownIs ==
  \A m : m \in Known <=> \/ m \in Done
                         \/ \E b \in Bev : m \in BatchOf[b]
                         \/ \E b \in Bev : m \in BufferOf[b]
                         \/ \E b \in Bev : m \in SocketOf[b]
  BY DEF Known, Taken

LEMMA KnownIsNext ==
  \A m : m \in Known' <=> \/ m \in Done'
                          \/ \E b \in Bev : m \in BatchOf'[b]
                          \/ \E b \in Bev : m \in BufferOf'[b]
                          \/ \E b \in Bev : m \in SocketOf'[b]
  BY DEF Known, Taken

LEMMA TakenIs ==
  \A m : m \in Taken <=> m \in Done \/ \E b \in Bev : m \in BatchOf[b]
  BY DEF Taken

LEMMA TakenIsNext ==
  \A m : m \in Taken' <=> m \in Done' \/ \E b \in Bev : m \in BatchOf'[b]
  BY DEF Taken

\* Done is read off the history.
LEMMA DoneUnchanged == handled' = handled => Done' = Done
  BY DEF Done

\* No message is in two places, but for the ones handled in the batch.
LEMMA PlacesApart ==
  ASSUME PlacesType, PlaceInv, NEW b \in Bev
  PROVE  /\ \A m \in SocketOf[b] : m \notin Taken
         /\ \A m \in BufferOf[b] : m \notin Taken
         /\ \A m \in SocketOf[b] : \A c \in Bev : m \notin BufferOf[c]
         /\ conn[b] = 0 => SocketOf[b] = {} /\ BufferOf[b] = {}
<1>1. \A m \in SocketOf[b] \cup BufferOf[b] : m.conn = conn[b] /\ m.id \in Nat /\ m.conn # 0
  BY MsgType DEF PlacesType, PlaceInv, WaitsForItsConn
<1>2. \A m \in SocketOf[b] \cup BufferOf[b] : m \notin Taken
  BY <1>1 DEF PlaceInv, WaitingIsNewer
<1>3. ASSUME NEW m \in SocketOf[b], NEW c \in Bev, m \in BufferOf[c]
      PROVE  FALSE
  <2>1. conn[c] = conn[b] /\ conn[b] # 0
    BY <1>1, <1>3 DEF PlaceInv, WaitsForItsConn
  <2>2. c = b
    BY <2>1 DEF PlaceInv, ConnIsUnique
  <2>3. QED
    BY <1>1, <1>3, <2>2 DEF PlaceInv, SocketIsNewer, Before
<1>4. QED
  BY <1>1, <1>2, <1>3

\* Every move preserves the invariant about the places.
LEMMA PlaceStep ==
  ASSUME PlacesType, PlacesType', PlaceInv, PlaceNext
  PROVE  PlaceInv'
<1> USE DEF PlaceInv
<1>1. ASSUME NEW b \in Bev, NEW m \in Msg, PSent(b, m)
      PROVE  PlaceInv'
  <2> USE <1>1 DEF PSent
  <2>1. Done' = Done /\ Taken' = Taken
    BY DoneUnchanged DEF Taken
  <2>2. Known' \subseteq Known \cup {m}
    BY <2>1, KnownIs, KnownIsNext DEF PlacesType
  <2>3. m.conn <= accepted
    BY DEF ConnIsUnique
  <2>4. \A n \in Msg : n.id \in Nat
    BY MsgType
  <2>5. Known \subseteq Msg
    BY KnownIs DEF PlacesType
  <2>6. IdsAreUnique'
    BY <2>2, <2>3, <2>4, <2>5 DEF IdsAreUnique, PlacesType
  <2>7. ConnIsUnique' /\ ListsAreApart'
    BY DEF ConnIsUnique, ListsAreApart
  <2>8. WaitsForItsConn'
    BY DEF WaitsForItsConn, PlacesType
  <2>9. SocketIsNewer' /\ WaitingIsNewer'
    <3>1. \A n \in Known : n.id < m.id
      BY <2>4, <2>5 DEF IdsAreUnique, PlacesType
    <3>2. \A n : n \in Taken => n \in Known
      BY DEF Known
    <3>3. \A c \in Bev : BufferOf[c] \subseteq Known
      BY KnownIs
    <3>4. \A c \in Bev : SocketOf'[c] \subseteq SocketOf[c] \cup {m}
      BY DEF PlacesType
    <3>5. QED
      BY <2>1, <3>1, <3>2, <3>3, <3>4 DEF SocketIsNewer, WaitingIsNewer, Before
  <2>10. QED
    BY <2>6, <2>7, <2>8, <2>9
<1>2. ASSUME NEW b \in Bev, NEW m \in Msg, PHandled(b, m)
      PROVE  PlaceInv'
  <2> USE <1>2 DEF PHandled
  <2>1. Taken' = Taken /\ Known' = Known
    BY DEF Taken, Known
  <2>2. QED
    BY <2>1 DEF ConnIsUnique, WaitsForItsConn, ListsAreApart, IdsAreUnique,
                SocketIsNewer, WaitingIsNewer
<1>3. ASSUME NEW b \in Bev, PListened(b)
      PROVE  PlaceInv'
  <2> USE <1>3 DEF PListened
  <2>1. Done' = Done /\ Taken' = Taken /\ Known' = Known
    BY DoneUnchanged DEF Taken, Known
  <2>2. SocketOf[b] = {} /\ BufferOf[b] = {}
    BY MsgType DEF WaitsForItsConn, PlacesType
  <2>3. \A c \in Bev : c # b => conn'[c] = conn[c]
    BY DEF PlacesType
  <2>4. ConnIsUnique'
    BY DEF ConnIsUnique, PlacesType
  <2>5. WaitsForItsConn' /\ WaitingIsNewer'
    BY <2>1, <2>2, <2>3 DEF WaitsForItsConn, WaitingIsNewer
  <2>6. IdsAreUnique'
    <3>1. \A m \in Known : m.conn \in Nat
      BY KnownIs, MsgType DEF PlacesType
    <3>2. QED
      BY <2>1, <3>1 DEF IdsAreUnique, PlacesType
  <2>7. QED
    BY <2>1, <2>4, <2>5, <2>6 DEF ListsAreApart, SocketIsNewer
<1>4. ASSUME NEW b \in Bev, PFreed(b) \/ PForgotten(b)
      PROVE  PlaceInv'
  <2>1. /\ BufferOf' = [BufferOf EXCEPT ![b] = {}]
        /\ SocketOf' = SocketOf \/ SocketOf' = [SocketOf EXCEPT ![b] = {}]
        /\ UNCHANGED <<BatchOf, handled, accepted, sent>>
    BY <1>4 DEF PFreed, PForgotten
  <2>2. /\ \A c \in Bev : conn'[c] = conn[c] \/ (c = b /\ conn'[c] = 0)
        /\ conn'[b] = conn[b] \/ SocketOf'[b] = {}
    <3>1. CASE PFreed(b)
      BY <3>1 DEF PFreed, PlacesType
    <3>2. CASE PForgotten(b)
      BY <3>2 DEF PForgotten, PlacesType
    <3>3. QED
      BY <1>4, <3>1, <3>2
  <2>3. Done' = Done /\ Taken' = Taken
    BY <2>1, DoneUnchanged DEF Taken
  <2>4. \A c \in Bev : /\ SocketOf'[c] \subseteq SocketOf[c]
                       /\ BufferOf'[c] \subseteq BufferOf[c]
    BY <2>1 DEF PlacesType
  <2>5. Known' \subseteq Known
    BY <2>1, <2>3, <2>4, KnownIs, KnownIsNext
  <2>6. IdsAreUnique'
    BY <2>1, <2>5 DEF IdsAreUnique
  <2>7. BufferOf'[b] = {}
    BY <2>1 DEF PlacesType
  <2>8. ConnIsUnique'
    BY <2>1, <2>2 DEF ConnIsUnique, PlacesType
  <2>9. WaitsForItsConn' /\ WaitingIsNewer'
    BY <2>2, <2>3, <2>4, <2>7 DEF WaitsForItsConn, WaitingIsNewer
  <2>10. QED
    BY <2>1, <2>4, <2>6, <2>8, <2>9 DEF ListsAreApart, SocketIsNewer, Before
<1>5. ASSUME NEW b \in Bev, NEW new \in SUBSET Msg, NEW lost \in SUBSET Msg,
             PRead(b, new, lost)
      PROVE  PlaceInv'
  <2> USE <1>5 DEF PRead
  <2>1. Done' = Done /\ Taken' = Taken
    BY DoneUnchanged DEF Taken
  <2>2. \A c \in Bev :
          /\ SocketOf'[c] = IF c = b THEN SocketOf[b] \ new ELSE SocketOf[c]
          /\ BufferOf'[c] = IF c = b THEN (BufferOf[b] \ lost) \cup new
                                     ELSE BufferOf[c]
    BY DEF PlacesType
  <2>3. \A c \in Bev : SocketOf'[c] \cup BufferOf'[c] \subseteq SocketOf[c] \cup BufferOf[c]
    BY <2>2
  <2>4. Known' \subseteq Known
    BY <2>1, <2>3, KnownIs, KnownIsNext
  <2>5. IdsAreUnique'
    BY <2>4 DEF IdsAreUnique
  <2>6. WaitsForItsConn' /\ WaitingIsNewer'
    BY <2>1, <2>3 DEF WaitsForItsConn, WaitingIsNewer
  <2>7. SocketIsNewer'
    BY <2>2 DEF SocketIsNewer, Before
  <2>8. QED
    BY <2>5, <2>6, <2>7 DEF ConnIsUnique, ListsAreApart
<1>6. ASSUME NEW seen \in [Bev -> SUBSET Msg], NEW found \in [Bev -> SUBSET Msg],
             PTaken(seen, found)
      PROVE  PlaceInv'
  <2>0. /\ UNCHANGED <<SocketOf, handled, conn, accepted, sent>>
        /\ BatchOf' = found
        /\ BufferOf' = [b \in Bev |-> BufferOf[b] \ seen[b]]
        /\ \A b \in Bev : /\ seen[b] \subseteq BufferOf[b]
                          /\ Before(seen[b], BufferOf[b] \ seen[b])
                          /\ \A f, g \in found[b] : f.id = g.id => f = g
    BY <1>6 DEF PTaken
  <2>f. ASSUME NEW b \in Bev, NEW f \in found[b]
        PROVE  \E m \in seen[b] : m \in BufferOf[b] /\ f.id = m.id /\ f.conn = m.conn
    <3>1. \E m \in seen[b] : f.id = m.id /\ f.conn = m.conn
      BY <1>6, <2>f, Zenon DEF PTaken
    <3>2. QED
      BY <2>0, <3>1
  <2>1. Done' = Done
    BY <2>0, DoneUnchanged
  <2>2. ASSUME NEW b \in Bev, NEW c \in Bev, NEW m \in BufferOf[b],
               NEW n \in BufferOf[c] \cup SocketOf[c], m.conn = n.conn
        PROVE  b = c
    <3>1. conn[b] = conn[c] /\ conn[b] # 0
      BY <2>2, MsgType DEF WaitsForItsConn, PlacesType
    <3>2. QED
      BY <3>1 DEF ConnIsUnique
  <2>3. \A k : k \in Known' <=> \/ k \in Done
                                \/ \E b \in Bev : k \in found[b]
                                \/ \E b \in Bev : k \in BufferOf[b] \ seen[b]
                                \/ \E b \in Bev : k \in SocketOf[b]
    BY <2>0, <2>1, KnownIsNext
  <2>4. \A k \in Known' : k \in Known \/ \E b \in Bev : k \in found[b]
    BY <2>3, KnownIs
  <2>5. ASSUME NEW b \in Bev, NEW k \in found[b], NEW n \in Known', k.id = n.id
        PROVE  k = n
    <3>1. PICK m \in seen[b] : m \in BufferOf[b] /\ m.id = k.id /\ m.conn = k.conn
      BY <2>f
    <3>2. m \in Known /\ m \notin Done
      BY <3>1, KnownIs, TakenIs, PlacesApart
    <3>3. ASSUME NEW c \in Bev, n \in found[c]
          PROVE  k = n
      <4>1. PICK p \in seen[c] : p \in BufferOf[c] /\ p.id = n.id /\ p.conn = n.conn
        BY <2>f, <3>3
      <4>2. p \in Known
        BY <4>1, KnownIs
      <4>3. p = m
        BY <2>5, <3>1, <3>2, <4>1, <4>2 DEF IdsAreUnique
      <4>4. b = c
        BY <2>2, <3>1, <4>1, <4>3
      <4>5. QED
        BY <2>0, <2>5, <3>3, <4>4
    <3>4. ASSUME n \in Known
          PROVE  m = n
      BY <2>5, <3>1, <3>2, <3>4 DEF IdsAreUnique
    <3>5. CASE n \in Done
      BY <3>2, <3>4, <3>5, KnownIs
    <3>6. ASSUME NEW c \in Bev, n \in BufferOf[c] \ seen[c]
          PROVE  FALSE
      <4>1. m = n
        BY <3>4, <3>6, KnownIs
      <4>2. b = c
        BY <2>2, <3>1, <3>6, <4>1
      <4>3. QED
        BY <3>6, <4>1, <4>2
    <3>7. ASSUME NEW c \in Bev, n \in SocketOf[c]
          PROVE  FALSE
      <4>1. m = n
        BY <3>4, <3>7, KnownIs
      <4>2. QED
        BY <3>1, <3>7, <4>1, PlacesApart
    <3>8. QED
      BY <2>3, <3>3, <3>5, <3>6, <3>7
  <2>6. IdsAreUnique'
    <3>1. ASSUME NEW k \in Known'
          PROVE  k.id <= sent' /\ k.conn <= accepted'
      <4>1. CASE k \in Known
        BY <2>0, <4>1 DEF IdsAreUnique
      <4>2. ASSUME NEW b \in Bev, k \in found[b]
            PROVE  k.id <= sent' /\ k.conn <= accepted'
        <5>1. PICK m \in BufferOf[b] : m.id = k.id /\ m.conn = k.conn
          BY <2>f, <4>2
        <5>2. m \in Known
          BY KnownIs
        <5>3. QED
          BY <2>0, <5>1, <5>2 DEF IdsAreUnique
      <4>3. QED
        BY <2>4, <4>1, <4>2
    <3>2. \A k, n \in Known' : k.id = n.id => k = n
      BY <2>4, <2>5 DEF IdsAreUnique
    <3>3. QED
      BY <3>1, <3>2 DEF IdsAreUnique
  <2>7. WaitingIsNewer'
    <3>1. SUFFICES ASSUME NEW b \in Bev, NEW m \in Taken',
                          NEW n \in SocketOf[b] \cup (BufferOf[b] \ seen[b]),
                          m.conn = conn[b]
                   PROVE  m.id < n.id
      BY <2>0 DEF WaitingIsNewer
    <3>2. CASE m \in Done
      BY <3>1, <3>2, TakenIs DEF WaitingIsNewer
    <3>3. ASSUME NEW c \in Bev, m \in found[c]
          PROVE  m.id < n.id
      <4>1. PICK p \in seen[c] : p \in BufferOf[c] /\ p.id = m.id /\ p.conn = m.conn
        BY <2>f, <3>3
      <4>2. p.conn = n.conn
        BY <3>1, <4>1 DEF WaitsForItsConn
      <4>3. c = b
        BY <2>2, <4>1, <4>2
      <4>4. p.id < n.id
        BY <2>0, <4>1, <4>3 DEF SocketIsNewer, Before
      <4>5. QED
        BY <4>1, <4>4
    <3>4. QED
      BY <2>0, <2>1, <3>2, <3>3, TakenIsNext
  <2>8. ListsAreApart'
    <3>1. SUFFICES ASSUME NEW b \in Bev, NEW c \in Bev, NEW m \in found[b],
                          NEW n \in found[c], m.conn = n.conn
                   PROVE  b = c
      BY <2>0 DEF ListsAreApart
    <3>2. PICK p \in BufferOf[b] : p.conn = m.conn
      BY <2>f
    <3>3. PICK q \in BufferOf[c] : q.conn = n.conn
      BY <2>f
    <3>4. QED
      BY <2>2, <3>1, <3>2, <3>3
  <2>9. WaitsForItsConn' /\ SocketIsNewer'
    BY <2>0 DEF WaitsForItsConn, SocketIsNewer, Before
  <2>10. QED
    BY <2>0, <2>6, <2>7, <2>8, <2>9 DEF ConnIsUnique
<1>7. CASE PCleared
  <2> USE <1>7 DEF PCleared
  <2>1. Done' = Done
    BY DoneUnchanged
  <2>2. Known' \subseteq Known /\ Taken' \subseteq Taken
    BY <2>1, KnownIs, KnownIsNext, TakenIs, TakenIsNext DEF Nothing
  <2>3. IdsAreUnique' /\ WaitingIsNewer'
    BY <2>2 DEF IdsAreUnique, WaitingIsNewer
  <2>4. QED
    BY <2>3
    DEF ConnIsUnique, WaitsForItsConn, ListsAreApart, SocketIsNewer, Nothing
<1>8. CASE UNCHANGED placeVars
  <2>1. Done' = Done /\ Taken' = Taken /\ Known' = Known
    BY <1>8, DoneUnchanged DEF placeVars, Taken, Known
  <2>2. QED
    BY <1>8, <2>1
    DEF placeVars, ConnIsUnique, WaitsForItsConn, ListsAreApart, IdsAreUnique,
        SocketIsNewer, WaitingIsNewer
<1>9. QED
  BY <1>1, <1>2, <1>3, <1>4, <1>5, <1>6, <1>7, <1>8 DEF PlaceNext

-----------------------------------------------------------------------------
(* The mapping to MessageLife.                                             *)

(* The refinement mapping in terms of the places: the stage of a message   *)
(* is the place that holds it, its owner the connection it names.          *)
StageIsPlace ==
  /\ \A m \in Known :
       /\ OwnerMap[m.id] = m.conn
       /\ m \in Done => StageMap[m.id] = "handled"
       /\ m \in Taken \ Done => StageMap[m.id] = "batch"
       /\ \A b \in Bev : m \in BufferOf[b] => StageMap[m.id] = "buffer"
       /\ \A b \in Bev : m \in SocketOf[b] => StageMap[m.id] = "socket"
  /\ \A id \in 1..MaxMsg : (\A m \in Known : m.id # id) =>
       /\ OwnerMap[id] = 0
       /\ StageMap[id] = IF id > sent THEN "unsent" ELSE "lost"
  /\ StageMap = [id \in 1..MaxMsg |-> StageMap[id]]
  /\ OwnerMap = [id \in 1..MaxMsg |-> OwnerMap[id]]

\* Ids of a sequence and IdsOf its members are the same.
LEMMA IdsOfSeq ==
  ASSUME NEW s \in Seq(Msg)
  PROVE  Ids(s) = IdsOf(ToSet(s))
  BY ToSetIs DEF Ids, IdsOf

\* The tests that StageOf makes are tests of the places.
LEMMA InSeqsIs ==
  ASSUME TcpTypeOK, NEW id
  PROVE  /\ InSeqs(inbound, id) <=> \E b \in Bev : id \in IdsOf(SocketOf[b])
         /\ InSeqs(vecuint8, id) <=> \E b \in Bev : id \in IdsOf(BufferOf[b])
         /\ InSeqs(listvecProtocol, id) <=> \E b \in Bev : id \in IdsOf(BatchOf[b])
         /\ id \in HandledIds <=> id \in IdsOf(Done)
<1>1. InSeqs(inbound, id) <=> \E b \in Bev : id \in IdsOf(SocketOf[b])
  <2>1. inbound \in [Bev -> Seq(Msg)]
    BY DEF TcpTypeOK
  <2>2. QED
    BY <2>1, IdsOfSeq DEF InSeqs, SocketOf
<1>2. InSeqs(vecuint8, id) <=> \E b \in Bev : id \in IdsOf(BufferOf[b])
  <2>1. DOMAIN vecuint8 \subseteq Bev /\ \A b \in DOMAIN vecuint8 : vecuint8[b] \in Seq(Msg)
    BY DEF TcpTypeOK, IsBevMap
  <2>2. \A b \in DOMAIN vecuint8 : Ids(vecuint8[b]) = IdsOf(BufferOf[b])
    BY <2>1, IdsOfSeq DEF BufferOf
  <2>3. \A b \in Bev : b \notin DOMAIN vecuint8 => IdsOf(BufferOf[b]) = {}
    BY DEF BufferOf, IdsOf
  <2>4. QED
    BY <2>1, <2>2, <2>3 DEF InSeqs
<1>3. InSeqs(listvecProtocol, id) <=> \E b \in Bev : id \in IdsOf(BatchOf[b])
  <2>1. /\ DOMAIN listvecProtocol \subseteq Bev
        /\ \A b \in DOMAIN listvecProtocol : listvecProtocol[b] \in Seq(Msg)
    BY DEF TcpTypeOK, IsBevMap
  <2>2. \A b \in DOMAIN listvecProtocol : Ids(listvecProtocol[b]) = IdsOf(BatchOf[b])
    BY <2>1, IdsOfSeq DEF BatchOf, ListOf
  <2>3. \A b \in Bev : b \notin DOMAIN listvecProtocol => IdsOf(BatchOf[b]) = {}
    BY DEF BatchOf, ListOf, IdsOf, ToSet
  <2>4. QED
    BY <2>1, <2>2, <2>3 DEF InSeqs
<1>4. id \in HandledIds <=> id \in IdsOf(Done)
  BY DEF HandledIds, IdsOf, Done
<1>5. QED
  BY <1>1, <1>2, <1>3, <1>4

\* The messages OwnerOf looks at are those in the places.
LEMMA KnownMsgsIs ==
  ASSUME TcpTypeOK
  PROVE  KnownMsgs = Known
<1>1. \A m : (\E b \in Bev : m \in ToSet(inbound[b]))
               <=> \E b \in Bev : m \in SocketOf[b]
  BY DEF SocketOf
<1>2. \A m : (\E b \in DOMAIN vecuint8 : m \in ToSet(vecuint8[b]))
               <=> \E b \in Bev : m \in BufferOf[b]
  BY DEF BufferOf, TcpTypeOK, IsBevMap
<1>3. \A m : (\E b \in DOMAIN listvecProtocol : m \in ToSet(listvecProtocol[b]))
               <=> \E b \in Bev : m \in BatchOf[b]
  BY DEF BatchOf, ListOf, ToSet, TcpTypeOK, IsBevMap
<1>4. \A m : m \in KnownMsgs <=>
        \/ m \in Done
        \/ \E b \in DOMAIN listvecProtocol : m \in ToSet(listvecProtocol[b])
        \/ \E b \in DOMAIN vecuint8 : m \in ToSet(vecuint8[b])
        \/ \E b \in Bev : m \in ToSet(inbound[b])
  <2> DEFINE L == UNION {ToSet(listvecProtocol[b]) : b \in DOMAIN listvecProtocol}
             V == UNION {ToSet(vecuint8[b]) : b \in DOMAIN vecuint8}
             I == UNION {ToSet(inbound[b]) : b \in Bev}
  <2>1. KnownMsgs = Done \cup L \cup V \cup I
    BY DEF KnownMsgs, Done
  <2>2. \A m : m \in L <=> \E b \in DOMAIN listvecProtocol : m \in ToSet(listvecProtocol[b])
    OBVIOUS
  <2>3. \A m : m \in V <=> \E b \in DOMAIN vecuint8 : m \in ToSet(vecuint8[b])
    OBVIOUS
  <2>4. \A m : m \in I <=> \E b \in Bev : m \in ToSet(inbound[b])
    OBVIOUS
  <2> HIDE DEF L, V, I
  <2>5. QED
    BY <2>1, <2>2, <2>3, <2>4
<1>5. \A m : m \in KnownMsgs <=> m \in Known
  BY <1>1, <1>2, <1>3, <1>4, KnownIs
<1>6. QED
  BY <1>5

\* The mapping is what StageIsPlace says, now and after the step.
LEMMA StageMapIs == TcpTypeOK /\ PlaceInv => StageIsPlace
<1> SUFFICES ASSUME TcpTypeOK, PlaceInv PROVE StageIsPlace
  OBVIOUS
<1>1. PlacesType
  BY PlacesTyped
<1>2. Known \subseteq Msg
  BY <1>1, KnownIs DEF PlacesType
<1>3. \A m \in Known : m.id \in 1..MaxMsg /\ m.id \in Nat /\ m.id <= sent
  BY <1>2, MsgType DEF PlaceInv, IdsAreUnique
<1>4. \A m, n \in Known : m.id = n.id => m = n
  BY DEF PlaceInv, IdsAreUnique
<1>5. ASSUME NEW m \in Known
      PROVE  /\ m.id \in HandledIds <=> m \in Done
             /\ InSeqs(listvecProtocol, m.id) <=> \E b \in Bev : m \in BatchOf[b]
             /\ InSeqs(vecuint8, m.id) <=> \E b \in Bev : m \in BufferOf[b]
             /\ InSeqs(inbound, m.id) <=> \E b \in Bev : m \in SocketOf[b]
  BY <1>4, KnownIs, InSeqsIs DEF IdsOf
<1>6. ASSUME NEW id \in 1..MaxMsg, \A m \in Known : m.id # id
      PROVE  /\ id \notin HandledIds /\ ~InSeqs(listvecProtocol, id)
             /\ ~InSeqs(vecuint8, id) /\ ~InSeqs(inbound, id)
  BY <1>6, KnownIs, InSeqsIs DEF IdsOf
<1>7. ASSUME NEW m \in Known
      PROVE  /\ m \in Done => StageMap[m.id] = "handled"
             /\ m \in Taken \ Done => StageMap[m.id] = "batch"
             /\ \A b \in Bev : m \in BufferOf[b] => StageMap[m.id] = "buffer"
             /\ \A b \in Bev : m \in SocketOf[b] => StageMap[m.id] = "socket"
  <2>1. StageMap[m.id] = StageOf(m.id) /\ ~(m.id > sent)
    BY <1>1, <1>3 DEF StageMap, PlacesType
  <2>2. \A b \in Bev : m \in BufferOf[b] \cup SocketOf[b] => m \notin Taken
    BY <1>1, PlacesApart
  <2>3. \A b, c \in Bev : m \in SocketOf[b] => m \notin BufferOf[c]
    BY <1>1, PlacesApart
  <2>4. QED
    BY <1>5, <2>1, <2>2, <2>3, TakenIs DEF StageOf
<1>8. ASSUME NEW m \in Known
      PROVE  OwnerMap[m.id] = m.conn
  <2>1. OwnerMap[m.id] = OwnerOf(m.id)
    BY <1>3 DEF OwnerMap
  <2>2. (CHOOSE n \in Known : n.id = m.id) = m
    BY <1>4
  <2>3. QED
    BY <2>1, <2>2, KnownMsgsIs DEF OwnerOf
<1>9. ASSUME NEW id \in 1..MaxMsg, \A m \in Known : m.id # id
      PROVE  /\ OwnerMap[id] = 0
             /\ StageMap[id] = IF id > sent THEN "unsent" ELSE "lost"
  <2>1. OwnerMap[id] = 0
    BY <1>9, KnownMsgsIs DEF OwnerMap, OwnerOf
  <2>2. QED
    BY <1>6, <1>9, <2>1 DEF StageMap, StageOf
<1>10. /\ StageMap = [id \in 1..MaxMsg |-> StageMap[id]]
       /\ OwnerMap = [id \in 1..MaxMsg |-> OwnerMap[id]]
  BY DEF StageMap, OwnerMap
<1>11. QED
  BY <1>7, <1>8, <1>9, <1>10 DEF StageIsPlace

LEMMA StageMapIsNext == TcpTypeOK' /\ PlaceInv' => StageIsPlace'
  BY StageMapIs, PTL

\* What the simulation of one step needs of both its states.
MapsInv ==
  /\ PlacesType /\ PlaceInv /\ StageIsPlace
  /\ handled \in Seq([bev : Bev, msg : Msg])

\* The numbers of the known messages are in range and their own.
LEMMA KnownType ==
  ASSUME MapsInv
  PROVE  /\ Known \subseteq Msg
         /\ \A m \in Known : m.id \in 1..MaxMsg /\ m.id \in Nat /\ m.id <= sent
         /\ \A m, n \in Known : m.id = n.id => m = n
         /\ sent \in Nat
<1>1. Known \subseteq Msg
  BY KnownIs DEF PlacesType, MapsInv
<1>2. QED
  BY <1>1, MsgType DEF PlaceInv, IdsAreUnique, MapsInv, PlacesType

\* A message that does not move keeps its stage and its owner.
LEMMA StageKept ==
  ASSUME MapsInv, MapsInv', NEW m \in Known, m \in Known',
         m \in Done' <=> m \in Done,
         m \in Taken' <=> m \in Taken,
         \A b \in Bev : m \in BufferOf[b] => m \in BufferOf'[b],
         \A b \in Bev : m \in SocketOf[b] => m \in SocketOf'[b]
  PROVE  StageMap'[m.id] = StageMap[m.id] /\ OwnerMap'[m.id] = OwnerMap[m.id]
<1>1. OwnerMap'[m.id] = OwnerMap[m.id]
  BY DEF MapsInv, StageIsPlace
<1>2. CASE m \in Taken
  BY <1>2 DEF MapsInv, StageIsPlace
<1>3. CASE \E b \in Bev : m \in BufferOf[b]
  BY <1>3 DEF MapsInv, StageIsPlace
<1>4. CASE \E b \in Bev : m \in SocketOf[b]
  BY <1>4 DEF MapsInv, StageIsPlace
<1>5. QED
  BY <1>1, <1>2, <1>3, <1>4, KnownIs, TakenIs

\* The sets that the guards of MessageLife speak of are places.
LEMMA LifeSets ==
  ASSUME MapsInv
  PROVE  /\ Life!At("unsent") = {id \in 1..MaxMsg : id > sent}
         /\ \A b \in Bev : conn[b] # 0 =>
              /\ Life!Of("socket", conn[b]) = IdsOf(SocketOf[b])
              /\ Life!Of("buffer", conn[b]) = IdsOf(BufferOf[b])
         /\ Life!At("buffer") = IdsOf(UNION {BufferOf[b] : b \in Bev})
         /\ Life!At("batch") = IdsOf(Taken \ Done)
<1> USE DEF Life!At, Life!Of
<1>1. ASSUME NEW id \in 1..MaxMsg
      PROVE  \/ \E m \in Known : m.id = id
             \/ /\ StageMap[id] \in {"unsent", "lost"}
                /\ StageMap[id] = "unsent" <=> id > sent
  BY DEF MapsInv, StageIsPlace
<1>2. ASSUME NEW m \in Known
      PROVE  /\ StageMap[m.id] # "unsent" /\ StageMap[m.id] # "lost" /\ ~(m.id > sent)
             /\ OwnerMap[m.id] = m.conn
             /\ StageMap[m.id] = "batch" <=> m \in Taken \ Done
             /\ StageMap[m.id] = "buffer" <=> \E b \in Bev : m \in BufferOf[b]
             /\ StageMap[m.id] = "socket" <=> \E b \in Bev : m \in SocketOf[b]
  <2>1. ~(m.id > sent)
    BY KnownType
  <2>2. QED
    BY <2>1, KnownIs, TakenIs DEF MapsInv, StageIsPlace
<1>3. Life!At("unsent") = {id \in 1..MaxMsg : id > sent}
  BY <1>1, <1>2
<1>4. ASSUME NEW b \in Bev, NEW c \in Bev, NEW m \in SocketOf[c] \cup BufferOf[c],
             conn[b] = m.conn
      PROVE  b = c
  <2>1. m.conn = conn[c] /\ conn[c] # 0
    BY MsgType DEF MapsInv, PlaceInv, WaitsForItsConn, PlacesType
  <2>2. QED
    BY <1>4, <2>1 DEF MapsInv, PlaceInv, ConnIsUnique
<1>5. \A c \in Bev : \A m \in SocketOf[c] \cup BufferOf[c] :
        m \in Known /\ m.conn = conn[c] /\ m.id \in 1..MaxMsg
  BY KnownIs, KnownType DEF MapsInv, PlaceInv, WaitsForItsConn
<1>6. ASSUME NEW b \in Bev, conn[b] # 0
      PROVE  Life!Of("socket", conn[b]) = IdsOf(SocketOf[b])
  <2>1. ASSUME NEW id \in 1..MaxMsg, StageMap[id] = "socket", OwnerMap[id] = conn[b]
        PROVE  id \in IdsOf(SocketOf[b])
    <3>1. PICK m \in Known : m.id = id
      BY <1>1, <2>1
    <3>2. PICK c \in Bev : m \in SocketOf[c]
      BY <1>2, <2>1, <3>1
    <3>3. b = c
      BY <1>2, <1>4, <2>1, <3>1, <3>2
    <3>4. QED
      BY <3>1, <3>2, <3>3 DEF IdsOf
  <2>2. ASSUME NEW m \in SocketOf[b]
        PROVE  m.id \in Life!Of("socket", conn[b])
    BY <1>2, <1>5
  <2>3. QED
    BY <2>1, <2>2 DEF IdsOf
<1>7. ASSUME NEW b \in Bev, conn[b] # 0
      PROVE  Life!Of("buffer", conn[b]) = IdsOf(BufferOf[b])
  <2>1. ASSUME NEW id \in 1..MaxMsg, StageMap[id] = "buffer", OwnerMap[id] = conn[b]
        PROVE  id \in IdsOf(BufferOf[b])
    <3>1. PICK m \in Known : m.id = id
      BY <1>1, <2>1
    <3>2. PICK c \in Bev : m \in BufferOf[c]
      BY <1>2, <2>1, <3>1
    <3>3. b = c
      BY <1>2, <1>4, <2>1, <3>1, <3>2
    <3>4. QED
      BY <3>1, <3>2, <3>3 DEF IdsOf
  <2>2. ASSUME NEW m \in BufferOf[b]
        PROVE  m.id \in Life!Of("buffer", conn[b])
    BY <1>2, <1>5
  <2>3. QED
    BY <2>1, <2>2 DEF IdsOf
<1>8. Life!At("buffer") = IdsOf(UNION {BufferOf[b] : b \in Bev})
  <2>1. ASSUME NEW id \in 1..MaxMsg, StageMap[id] = "buffer"
        PROVE  \E b \in Bev : \E m \in BufferOf[b] : m.id = id
    BY <1>1, <1>2, <2>1
  <2>2. ASSUME NEW b \in Bev, NEW m \in BufferOf[b]
        PROVE  m.id \in Life!At("buffer")
    BY <1>2, <1>5
  <2>3. QED
    BY <2>1, <2>2 DEF IdsOf
<1>9. Life!At("batch") = IdsOf(Taken \ Done)
  <2>1. ASSUME NEW id \in 1..MaxMsg, StageMap[id] = "batch"
        PROVE  \E m \in Taken \ Done : m.id = id
    BY <1>1, <1>2, <2>1
  <2>2. ASSUME NEW m \in Taken \ Done
        PROVE  m.id \in Life!At("batch")
    BY <1>2, KnownIs, TakenIs, KnownType
  <2>3. QED
    BY <2>1, <2>2 DEF IdsOf
<1>10. QED
  BY <1>3, <1>6, <1>7, <1>8, <1>9

\* PeerSend is Send.
LEMMA LifeSent ==
  ASSUME MapsInv, MapsInv', NEW b \in Bev, NEW m \in Msg, PSent(b, m)
  PROVE  Life!Next
<1>1. Done' = Done /\ Taken' = Taken /\ LogMap' = LogMap
  BY DoneUnchanged DEF Taken, PSent, LogMap
<1>2. \A n : n \in Known' <=> n \in Known \/ n = m
  BY <1>1, KnownIs, KnownIsNext DEF PSent, MapsInv, PlacesType
<1>3. \A n \in Known : n.id # m.id
  BY KnownType DEF PSent
<1>4. ASSUME NEW id \in 1..MaxMsg, id # m.id
      PROVE  StageMap'[id] = StageMap[id] /\ OwnerMap'[id] = OwnerMap[id]
  <2>1. CASE \E n \in Known : n.id = id
    <3>1. PICK n \in Known : n.id = id
      BY <2>1
    <3>2. \A c \in Bev : SocketOf[c] \subseteq SocketOf'[c] /\ BufferOf'[c] = BufferOf[c]
      BY DEF PSent, MapsInv, PlacesType
    <3>3. QED
      BY <1>1, <1>2, <3>1, <3>2, StageKept
  <2>2. CASE \A n \in Known : n.id # id
    <3>1. \A n \in Known' : n.id # id
      BY <1>2, <1>4, <2>2
    <3>2. id > sent <=> id > sent'
      BY <1>4, KnownType, EvTcpAssumption DEF PSent
    <3>3. QED
      BY <2>2, <3>1, <3>2 DEF MapsInv, StageIsPlace
  <2>3. QED
    BY <2>1, <2>2
<1>5. StageMap'[m.id] = "socket" /\ OwnerMap'[m.id] = m.conn
  <2>1. m \in SocketOf'[b] /\ m \in Known'
    BY <1>2 DEF PSent, MapsInv, PlacesType
  <2>2. QED
    BY <2>1 DEF MapsInv, StageIsPlace
<1>6. /\ StageMap' = [StageMap EXCEPT ![m.id] = "socket"]
      /\ OwnerMap' = [OwnerMap EXCEPT ![m.id] = m.conn]
  BY <1>4, <1>5 DEF MapsInv, StageIsPlace
<1>7. Life!Oldest({m.id}, Life!At("unsent"))
  <2>1. m.id \in 1..MaxMsg /\ m.id = sent + 1 /\ sent \in Nat
    BY KnownType, MsgType DEF PSent
  <2>2. Life!At("unsent") = {id \in 1..MaxMsg : id > sent}
    BY LifeSets
  <2>3. QED
    BY <2>1, <2>2, EvTcpAssumption DEF Life!Oldest
<1>8. Life!Send(m.id, m.conn)
  BY <1>1, <1>6, <1>7 DEF Life!Send, PSent
<1>9. QED
  BY <1>8, MsgType DEF Life!Next

\* The variables of MessageLife, as they are mapped.
lifeMaps == <<StageMap, OwnerMap, LogMap, trimmed>>

\* An unknown message stays where it is while nothing is sent.
LEMMA UnknownKept ==
  ASSUME MapsInv, MapsInv', sent' = sent, Known' \subseteq Known, NEW id \in 1..MaxMsg,
         \A m \in Known : m.id # id
  PROVE  StageMap'[id] = StageMap[id] /\ OwnerMap'[id] = OwnerMap[id]
<1>1. \A m \in Known' : m.id # id
  OBVIOUS
<1>2. QED
  BY <1>1 DEF MapsInv, StageIsPlace

\* Nothing happens to MessageLife when no message moves.
LEMMA LifeKept ==
  ASSUME MapsInv, MapsInv', sent' = sent, handled' = handled, Known' = Known,
         trimmed' = trimmed,
         Taken' \ Done' = Taken \ Done,
         \A b \in Bev : BufferOf[b] \subseteq BufferOf'[b],
         \A b \in Bev : SocketOf[b] \subseteq SocketOf'[b]
  PROVE  UNCHANGED lifeMaps
<1>1. LogMap' = LogMap /\ Done' = Done
  BY DoneUnchanged DEF LogMap
<1>2. \A m : m \in Taken' <=> m \in Taken
  BY <1>1 DEF Taken
<1>3. ASSUME NEW id \in 1..MaxMsg
      PROVE  StageMap'[id] = StageMap[id] /\ OwnerMap'[id] = OwnerMap[id]
  <2>1. CASE \E n \in Known : n.id = id
    BY <1>1, <1>2, <2>1, StageKept
  <2>2. CASE \A n \in Known : n.id # id
    BY <2>2, UnknownKept
  <2>3. QED
    BY <2>1, <2>2
<1>4. StageMap' = StageMap /\ OwnerMap' = OwnerMap
  BY <1>3 DEF MapsInv, StageIsPlace
<1>5. QED
  BY <1>1, <1>4 DEF lifeMaps

\* Accepting a connection is invisible.
LEMMA LifeListened ==
  ASSUME MapsInv, MapsInv', NEW b \in Bev, PListened(b)
  PROVE  UNCHANGED lifeMaps
<1>1. Done' = Done /\ Taken' = Taken /\ Known' = Known
  BY DoneUnchanged DEF Taken, Known, PListened
<1>2. QED
  BY <1>1, LifeKept DEF PListened

\* Clearing the batch is invisible: everything in it has been handled.
LEMMA LifeCleared ==
  ASSUME MapsInv, MapsInv', PCleared
  PROVE  UNCHANGED lifeMaps
<1>1. Done' = Done
  BY DoneUnchanged DEF PCleared
<1>2. \A m : m \in Taken <=> m \in Done
  BY TakenIs DEF PCleared
<1>3. \A m : m \in Taken' <=> m \in Done
  BY <1>1, TakenIsNext DEF PCleared, Nothing
<1>4. \A m : m \in Known <=>
        m \in Done \/ \E b \in Bev : m \in BufferOf[b] \cup SocketOf[b]
  BY <1>2, KnownIs, TakenIs
<1>5. \A m : m \in Known' <=>
        m \in Done \/ \E b \in Bev : m \in BufferOf[b] \cup SocketOf[b]
  BY <1>1, <1>3, KnownIsNext, TakenIsNext DEF PCleared
<1>6. Known' = Known /\ Taken' \ Done' = Taken \ Done
  BY <1>1, <1>2, <1>3, <1>4, <1>5
<1>7. QED
  BY <1>6, LifeKept DEF PCleared

\* ConnReadCb is Read; the messages that go over the limit are the lost ones.
LEMMA LifeRead ==
  ASSUME MapsInv, MapsInv', NEW b \in Bev, NEW new \in SUBSET Msg,
         NEW lost \in SUBSET Msg, PRead(b, new, lost)
  PROVE  Life!Next
<1> USE DEF PRead
<1> DEFINE c == conn[b]
           N == IdsOf(new)
           L == IdsOf(lost)
<1>1. Done' = Done /\ Taken' = Taken /\ LogMap' = LogMap
  BY DoneUnchanged DEF Taken, LogMap
<1>2. \A d \in Bev :
        /\ SocketOf'[d] = IF d = b THEN SocketOf[b] \ new ELSE SocketOf[d]
        /\ BufferOf'[d] = IF d = b THEN (BufferOf[b] \ lost) \cup new
                                   ELSE BufferOf[d]
  BY DEF PlacesType, MapsInv
<1>3. Known' \subseteq Known
  <2>1. \A d \in Bev : SocketOf'[d] \cup BufferOf'[d] \subseteq SocketOf[d] \cup BufferOf[d]
    BY <1>2
  <2>2. QED
    BY <1>1, <2>1, KnownIs, KnownIsNext
<1>4. c \in 1..MaxConn /\ c # 0 /\ \A m \in new \cup lost : m.conn = c /\ m \in Known
  BY KnownIs, MsgType DEF MapsInv, PlacesType, PlaceInv, WaitsForItsConn
<1>5. \A m \in lost : m \notin new /\ m \notin Taken /\ \A d \in Bev : m \notin SocketOf[d]
  BY PlacesApart DEF MapsInv
<1>6. \A m \in lost : m \notin Known'
  <2>1. \A m \in lost, d \in Bev : d # b => m \notin BufferOf[d]
    BY <1>4 DEF MapsInv, PlaceInv, WaitsForItsConn, ConnIsUnique
  <2>2. \A m \in lost, d \in Bev : m \notin BufferOf'[d] /\ m \notin SocketOf'[d]
    BY <1>2, <1>5, <2>1
  <2>3. QED
    BY <1>1, <1>5, <2>2, KnownIsNext, TakenIs
<1>7. \A m, n \in Known : m.id = n.id => m = n
  BY KnownType
<1>8. \A m \in Known : m.id \in 1..MaxMsg /\ m.id \in Nat
  BY KnownType
<1>9. ASSUME NEW m \in new
      PROVE  StageMap'[m.id] = "buffer" /\ OwnerMap'[m.id] = OwnerMap[m.id]
  <2>1. m \in BufferOf'[b]
    BY <1>2
  <2>2. m \in Known' /\ m \in Known
    BY <2>1, <1>4, KnownIsNext
  <2>3. QED
    BY <2>1, <2>2 DEF MapsInv, StageIsPlace
<1>10. ASSUME NEW m \in lost
       PROVE  StageMap'[m.id] = "lost" /\ OwnerMap'[m.id] = 0
  <2>1. \A n \in Known' : n.id # m.id
    BY <1>3, <1>4, <1>6, <1>7
  <2>2. m.id \in 1..MaxMsg /\ ~(m.id > sent')
    BY <1>4, KnownType
  <2>3. QED
    BY <2>1, <2>2 DEF MapsInv, StageIsPlace
<1>11. ASSUME NEW id \in 1..MaxMsg, id \notin N, id \notin L
       PROVE  StageMap'[id] = StageMap[id] /\ OwnerMap'[id] = OwnerMap[id]
  <2>1. CASE \E n \in Known : n.id = id
    <3>1. PICK n \in Known : n.id = id
      BY <2>1
    <3>2. n \notin new /\ n \notin lost
      BY <1>11, <3>1 DEF IdsOf
    <3>3. \A d \in Bev : /\ n \in BufferOf[d] => n \in BufferOf'[d]
                         /\ n \in SocketOf[d] => n \in SocketOf'[d]
      BY <1>2, <3>2
    <3>4. n \in Known'
      BY <1>1, <3>3, KnownIs, KnownIsNext
    <3>5. QED
      BY <1>1, <3>1, <3>3, <3>4, StageKept
  <2>2. CASE \A n \in Known : n.id # id
    BY <1>3, <2>2, UnknownKept
  <2>3. QED
    BY <2>1, <2>2
<1>12. /\ N \subseteq 1..MaxMsg /\ L \subseteq 1..MaxMsg /\ N \cap L = {}
       /\ L # {} => lost # {}
  <2>1. N \subseteq 1..MaxMsg /\ L \subseteq 1..MaxMsg
    BY <1>4, <1>8 DEF IdsOf
  <2>2. N \cap L = {}
    BY <1>4, <1>5, <1>7 DEF IdsOf
  <2>3. L # {} => lost # {}
    BY DEF IdsOf
  <2>4. QED
    BY <2>1, <2>2, <2>3
<1>13. \A id \in 1..MaxMsg :
         /\ StageMap'[id] = CASE id \in N -> "buffer"
                              [] id \in L -> "lost"
                              [] OTHER -> StageMap[id]
         /\ OwnerMap'[id] = IF id \in L THEN 0 ELSE OwnerMap[id]
  <2>1. \A id \in N : StageMap'[id] = "buffer" /\ OwnerMap'[id] = OwnerMap[id]
    BY <1>9 DEF IdsOf
  <2>2. \A id \in L : StageMap'[id] = "lost" /\ OwnerMap'[id] = 0
    BY <1>10 DEF IdsOf
  <2> HIDE DEF N, L
  <2>3. QED
    BY <1>11, <1>12, <2>1, <2>2
<1>14. /\ Life!Of("socket", c) = IdsOf(SocketOf[b])
       /\ Life!Of("buffer", c) = IdsOf(BufferOf[b])
  BY <1>4, LifeSets
<1>15. Life!Oldest(N, Life!Of("socket", c))
  <2>1. SocketOf[b] \subseteq Known
    BY KnownIs
  <2>2. \A m \in new, n \in SocketOf[b] : n.id < m.id => n \in new
    BY <1>4, <1>8, <2>1 DEF Before
  <2>3. QED
    BY <1>14, <2>2 DEF Life!Oldest, IdsOf
<1>16. Life!Oldest(L, Life!Of("buffer", c))
  <2>1. BufferOf[b] \subseteq Known
    BY KnownIs
  <2>2. \A m \in lost, n \in BufferOf[b] : n.id < m.id => n \in lost
    BY <1>4, <1>8, <2>1 DEF Before
  <2>3. QED
    BY <1>14, <2>2 DEF Life!Oldest, IdsOf
<1>17. /\ StageMap' = [id \in 1..MaxMsg |-> CASE id \in N -> "buffer"
                                              [] id \in L -> "lost"
                                              [] OTHER -> StageMap[id]]
       /\ OwnerMap' = [id \in 1..MaxMsg |-> IF id \in L THEN 0 ELSE OwnerMap[id]]
  <2> HIDE DEF N, L
  <2>1. QED
    BY <1>13 DEF MapsInv, StageIsPlace
<1>18. trimmed' \in {trimmed, trimmed \cup {c}} /\ (L # {} => c \in trimmed')
  BY <1>12
<1>19. Life!Read(c, N, L)
  <2> HIDE DEF N, L, c
  <2>1. QED
    BY <1>1, <1>15, <1>16, <1>17, <1>18 DEF Life!Read
<1>20. N \subseteq Life!Of("socket", c) /\ L \subseteq Life!Of("buffer", c)
  BY <1>15, <1>16 DEF Life!Oldest
<1>21. QED
  <2> HIDE DEF N, L, c
  <2>1. QED
    BY <1>4, <1>19, <1>20 DEF Life!Next

\* Freeing or forgetting a connection is Close, if a message is lost by it.
LEMMA LifeGone ==
  ASSUME MapsInv, MapsInv', NEW b \in Bev, PFreed(b) \/ PForgotten(b)
  PROVE  Life!Next \/ UNCHANGED lifeMaps
<1> DEFINE c == conn[b]
           rest == SocketOf[b] \ SocketOf'[b]
           gone == IdsOf(BufferOf[b]) \cup IdsOf(rest)
<1>1. /\ handled' = handled /\ sent' = sent /\ BatchOf' = BatchOf
      /\ trimmed' = trimmed
      /\ \A d \in Bev : /\ BufferOf'[d] = IF d = b THEN {} ELSE BufferOf[d]
                        /\ d # b => SocketOf'[d] = SocketOf[d]
      /\ SocketOf'[b] = {} \/ SocketOf'[b] = SocketOf[b]
  BY DEF PFreed, PForgotten, PlacesType, MapsInv
<1>2. Done' = Done /\ Taken' = Taken /\ LogMap' = LogMap
  BY <1>1, DoneUnchanged DEF Taken, LogMap
<1>3. rest = {} \/ rest = SocketOf[b]
  BY <1>1
<1>4. \A d \in Bev : SocketOf'[d] \subseteq SocketOf[d] /\ BufferOf'[d] \subseteq BufferOf[d]
  BY <1>1
<1>5. Known' \subseteq Known
  BY <1>1, <1>2, <1>4, KnownIs, KnownIsNext
<1>6. \A m \in BufferOf[b] \cup rest :
        /\ m \in Known /\ m.conn = c /\ m \notin Taken
        /\ \A d \in Bev : d # b => m \notin BufferOf[d] \cup SocketOf[d]
  <2>1. \A m \in BufferOf[b] \cup SocketOf[b] :
          m \in Known /\ m.conn = c /\ m \notin Taken /\ c # 0
    BY KnownIs, PlacesApart, MsgType DEF MapsInv, PlaceInv, WaitsForItsConn
  <2>2. QED
    BY <2>1 DEF MapsInv, PlaceInv, WaitsForItsConn, ConnIsUnique
<1>7. \A m \in BufferOf[b] \cup rest : m \notin Known'
  <2>1. ASSUME NEW m \in BufferOf[b] \cup rest
        PROVE  m \notin SocketOf'[b]
    BY <1>4, PlacesApart DEF MapsInv
  <2>2. QED
    BY <1>1, <1>2, <1>4, <1>6, <2>1, KnownIsNext, TakenIs
<1>8. \A m, n \in Known : m.id = n.id => m = n
  BY KnownType
<1>9. ASSUME NEW m \in BufferOf[b] \cup rest
      PROVE  StageMap'[m.id] = "lost" /\ OwnerMap'[m.id] = 0
  <2>1. \A n \in Known' : n.id # m.id
    BY <1>5, <1>6, <1>7, <1>8
  <2>2. m.id \in 1..MaxMsg /\ ~(m.id > sent')
    BY <1>1, <1>6, KnownType
  <2>3. QED
    BY <2>1, <2>2 DEF MapsInv, StageIsPlace
<1>10. ASSUME NEW id \in 1..MaxMsg, id \notin gone
       PROVE  StageMap'[id] = StageMap[id] /\ OwnerMap'[id] = OwnerMap[id]
  <2>1. CASE \E n \in Known : n.id = id
    <3>1. PICK n \in Known : n.id = id
      BY <2>1
    <3>2. n \notin BufferOf[b] /\ n \notin rest
      BY <1>10, <3>1 DEF IdsOf
    <3>3. \A d \in Bev : /\ n \in BufferOf[d] => n \in BufferOf'[d]
                         /\ n \in SocketOf[d] => n \in SocketOf'[d]
      BY <1>1, <3>2
    <3>4. n \in Known'
      BY <1>1, <1>2, <3>3, KnownIs, KnownIsNext
    <3>5. QED
      BY <1>2, <3>1, <3>3, <3>4, StageKept
  <2>2. CASE \A n \in Known : n.id # id
    BY <1>1, <1>5, <2>2, UnknownKept
  <2>3. QED
    BY <2>1, <2>2
<1>11. \A id \in 1..MaxMsg :
         /\ StageMap'[id] = IF id \in gone THEN "lost" ELSE StageMap[id]
         /\ OwnerMap'[id] = IF id \in gone THEN 0 ELSE OwnerMap[id]
  <2>1. \A id \in gone : StageMap'[id] = "lost" /\ OwnerMap'[id] = 0
    BY <1>9 DEF IdsOf
  <2> HIDE DEF gone
  <2>2. QED
    BY <1>10, <2>1
<1>12. /\ StageMap' = [id \in 1..MaxMsg |-> IF id \in gone THEN "lost" ELSE StageMap[id]]
       /\ OwnerMap' = [id \in 1..MaxMsg |-> IF id \in gone THEN 0 ELSE OwnerMap[id]]
  <2> HIDE DEF gone
  <2>1. QED
    BY <1>11 DEF MapsInv, StageIsPlace
<1>13. CASE gone = {}
  <2>1. StageMap' = StageMap /\ OwnerMap' = OwnerMap
    BY <1>12, <1>13 DEF MapsInv, StageIsPlace
  <2>2. QED
    BY <1>1, <1>2, <2>1 DEF lifeMaps
<1>14. CASE gone # {}
  <2>1. c # 0 /\ c \in 1..MaxConn
    <3>1. BufferOf[b] \cup SocketOf[b] # {}
      BY <1>14 DEF IdsOf
    <3>2. QED
      BY <3>1, PlacesApart DEF MapsInv, PlacesType
  <2>2. Life!Of("socket", c) = IdsOf(SocketOf[b]) /\ Life!Of("buffer", c) = IdsOf(BufferOf[b])
    BY <2>1, LifeSets
  <2>3. IdsOf(rest) \in {{}, Life!Of("socket", c)}
    BY <1>3, <2>2 DEF IdsOf
  <2>4. gone = Life!Of("buffer", c) \cup IdsOf(rest)
    BY <2>2
  <2>5. Life!Close(c, IdsOf(rest))
    <3> HIDE DEF gone, c, rest
    <3>1. QED
      BY <1>1, <1>2, <1>12, <1>14, <2>4 DEF Life!Close
  <2>6. QED
    <3> HIDE DEF gone, c, rest
    <3>1. QED
      BY <2>1, <2>3, <2>5 DEF Life!Next
<1>15. QED
  BY <1>13, <1>14

\* GetProtocalData is Take, if there is a message in what it looks through.
LEMMA LifeTaken ==
  ASSUME MapsInv, MapsInv', NEW seen \in [Bev -> SUBSET Msg],
         NEW found \in [Bev -> SUBSET Msg], PTaken(seen, found)
  PROVE  Life!Next \/ UNCHANGED lifeMaps
<1>0. /\ UNCHANGED <<SocketOf, handled, conn, accepted, sent, trimmed>>
      /\ BatchOf = Nothing /\ BatchOf' = found
      /\ BufferOf' = [b \in Bev |-> BufferOf[b] \ seen[b]]
      /\ \A b \in Bev :
           /\ seen[b] \subseteq BufferOf[b] /\ Before(seen[b], BufferOf[b] \ seen[b])
           /\ conn[b] \notin trimmed => found[b] = BufferOf[b]
  BY DEF PTaken
<1>f. ASSUME NEW b \in Bev, NEW f \in found[b]
      PROVE  \E m \in seen[b] : m \in BufferOf[b] /\ f.id = m.id /\ f.conn = m.conn
  BY DEF PTaken
<1> DEFINE S == IdsOf(UNION {seen[b] : b \in Bev})
           F == IdsOf(UNION {found[b] : b \in Bev})
<1>1. Done' = Done /\ LogMap' = LogMap
  BY <1>0, DoneUnchanged DEF LogMap
<1>2. /\ \A m : m \in Taken <=> m \in Done
      /\ \A m : m \in Taken' <=> m \in Done \/ \E b \in Bev : m \in found[b]
  BY <1>0, <1>1, TakenIs, TakenIsNext DEF Nothing
<1>3. \A k : k \in Known' <=> \/ k \in Done
                              \/ \E b \in Bev : k \in found[b]
                              \/ \E b \in Bev : k \in BufferOf[b] \ seen[b]
                              \/ \E b \in Bev : k \in SocketOf[b]
  BY <1>0, <1>1, KnownIsNext
<1>4. \A b \in Bev : \A m \in BufferOf[b] :
        /\ m \in Known /\ m \notin Done /\ m.conn = conn[b] /\ m.conn # 0
        /\ m.id \in 1..MaxMsg /\ m.id \in Nat /\ m.id <= sent
        /\ OwnerMap[m.id] = m.conn
        /\ \A c \in Bev : m \notin SocketOf[c] /\ (m \in BufferOf[c] => b = c)
  <2>1. ASSUME NEW b \in Bev, NEW m \in BufferOf[b]
        PROVE  /\ m \in Known /\ m \notin Done /\ m.conn = conn[b] /\ m.conn # 0
               /\ \A c \in Bev : m \notin SocketOf[c]
    BY KnownIs, TakenIs, PlacesApart DEF MapsInv, PlaceInv, WaitsForItsConn
  <2>2. ASSUME NEW b \in Bev, NEW c \in Bev, NEW m \in BufferOf[b], m \in BufferOf[c]
        PROVE  b = c
    <3>1. m.conn = conn[b] /\ m.conn = conn[c] /\ m.conn # 0
      BY <2>1, <2>2
    <3>2. QED
      BY <3>1 DEF MapsInv, PlaceInv, ConnIsUnique
  <2>3. QED
    BY <2>1, <2>2, KnownType DEF MapsInv, StageIsPlace
<1>5. \A m, n \in Known : m.id = n.id => m = n
  BY KnownType
<1>6. F \subseteq S /\ S \subseteq Life!At("buffer")
  <2>1. ASSUME NEW id \in F
        PROVE  id \in S
    <3>1. PICK b \in Bev : \E f \in found[b] : f.id = id
      BY DEF IdsOf
    <3>2. PICK f \in found[b] : f.id = id
      BY <3>1
    <3>3. PICK m \in seen[b] : f.id = m.id
      BY <1>f
    <3>4. QED
      BY <3>2, <3>3 DEF IdsOf
  <2>2. S \subseteq IdsOf(UNION {BufferOf[b] : b \in Bev})
    BY <1>0 DEF IdsOf
  <2>3. QED
    BY <2>1, <2>2, LifeSets
<1>7. ASSUME NEW id \in F
      PROVE  StageMap'[id] = "batch" /\ OwnerMap'[id] = OwnerMap[id]
  <2>1. PICK b \in Bev : \E f \in found[b] : f.id = id
    BY DEF IdsOf
  <2>f. PICK f \in found[b] : f.id = id
    BY <2>1
  <2>2. PICK m \in BufferOf[b] : f.id = m.id /\ f.conn = m.conn
    BY <1>f
  <2>3. m \in BufferOf[b]
    OBVIOUS
  <2>4. f \notin Done
    BY <1>4, <1>5, <2>2, <2>3, KnownIs
  <2>5. f \in Known' /\ f \in Taken' \ Done'
    BY <1>1, <1>2, <1>3, <2>4
  <2>6. QED
    BY <1>4, <2>f, <2>2, <2>3, <2>5 DEF MapsInv, StageIsPlace
<1>8. ASSUME NEW id \in S \ F
      PROVE  StageMap'[id] = "lost" /\ OwnerMap'[id] = 0
  <2>b. PICK b \in Bev : \E m \in seen[b] : m.id = id
    BY DEF IdsOf
  <2>1. PICK m \in seen[b] : m.id = id
    BY <2>b
  <2>2. m \in BufferOf[b]
    BY <1>0
  <2>3. ASSUME NEW k \in Known', k.id = id
        PROVE  FALSE
    <3>1. \A c \in Bev : k \notin found[c]
      BY <1>8, <2>3 DEF IdsOf
    <3>2. k \in Known
      BY <1>3, <3>1, KnownIs
    <3>3. k = m
      BY <1>4, <1>5, <2>1, <2>2, <2>3, <3>2
    <3>4. QED
      BY <1>3, <1>4, <2>2, <3>1, <3>3
  <2>4. id \in 1..MaxMsg /\ ~(id > sent')
    BY <1>0, <1>4, <2>1, <2>2, KnownType
  <2>5. QED
    BY <2>3, <2>4 DEF MapsInv, StageIsPlace
<1>9. ASSUME NEW id \in 1..MaxMsg, id \notin S
      PROVE  StageMap'[id] = StageMap[id] /\ OwnerMap'[id] = OwnerMap[id]
  <2>1. \A k \in Known' : k.id = id => k \in Known /\ \A b \in Bev : k \notin found[b]
    BY <1>0, <1>3, <1>6, <1>9, KnownIs DEF IdsOf
  <2>2. CASE \E n \in Known : n.id = id
    <3>1. PICK n \in Known : n.id = id
      BY <2>2
    <3>2. \A b \in Bev : n \notin seen[b] /\ n \notin found[b]
      BY <1>6, <1>9, <3>1 DEF IdsOf
    <3>3. n \in Known' /\ (n \in Taken' <=> n \in Taken)
      BY <1>0, <1>2, <1>3, <3>2, KnownIs, TakenIs DEF Nothing
    <3>4. QED
      BY <1>0, <1>1, <3>1, <3>2, <3>3, StageKept
  <2>3. CASE \A n \in Known : n.id # id
    <3>1. \A k \in Known' : k.id # id
      BY <2>1, <2>3
    <3>2. QED
      BY <1>0, <2>3, <3>1 DEF MapsInv, StageIsPlace
  <2>4. QED
    BY <2>2, <2>3
<1>10. ASSUME NEW c \in 1..MaxConn
       PROVE  Life!Oldest({id \in S : OwnerMap[id] = c}, Life!Of("buffer", c))
  <2>1. ASSUME NEW i \in S, OwnerMap[i] = c, NEW j \in Life!Of("buffer", c), j < i
        PROVE  j \in S /\ OwnerMap[j] = c
    <3>b. PICK b \in Bev : \E x \in seen[b] : x.id = i
      BY DEF IdsOf
    <3>1. PICK x \in seen[b] : x.id = i
      BY <3>b
    <3>2. j \in Life!At("buffer") /\ OwnerMap[j] = c
      BY <2>1 DEF Life!Of
    <3>d. PICK d \in Bev : \E y \in BufferOf[d] : y.id = j
      BY <3>2, LifeSets DEF IdsOf
    <3>3. PICK y \in BufferOf[d] : y.id = j
      BY <3>d
    <3>4. x \in BufferOf[b]
      BY <1>0
    <3>5. conn[b] = conn[d] /\ conn[b] # 0
      BY <1>4, <2>1, <3>1, <3>2, <3>3, <3>4
    <3>6. d = b
      BY <3>5 DEF MapsInv, PlaceInv, ConnIsUnique
    <3>7. y \in seen[b]
      BY <1>0, <1>4, <2>1, <3>1, <3>3, <3>4, <3>6 DEF Before
    <3>8. QED
      BY <3>2, <3>3, <3>7 DEF IdsOf
  <2>2. \A id \in S : OwnerMap[id] = c => id \in Life!Of("buffer", c)
    BY <1>6 DEF Life!Of
  <2> HIDE DEF S
  <2>3. QED
    BY <2>1, <2>2 DEF Life!Oldest
<1>11. ASSUME NEW c \in 1..MaxConn \ trimmed, NEW j \in Life!Of("buffer", c)
       PROVE  j \in F
  <2>1. j \in Life!At("buffer") /\ OwnerMap[j] = c
    BY DEF Life!Of
  <2>d. PICK d \in Bev : \E y \in BufferOf[d] : y.id = j
    BY <2>1, LifeSets DEF IdsOf
  <2>2. PICK y \in BufferOf[d] : y.id = j
    BY <2>d
  <2>3. conn[d] = c
    BY <1>4, <2>1, <2>2
  <2>4. y \in found[d]
    BY <1>0, <2>3
  <2>5. QED
    BY <2>2, <2>4 DEF IdsOf
<1> HIDE DEF S, F
<1>12. /\ StageMap' = [id \in 1..MaxMsg |-> CASE id \in F -> "batch"
                                              [] id \in S \ F -> "lost"
                                              [] OTHER -> StageMap[id]]
       /\ OwnerMap' = [id \in 1..MaxMsg |->
                         IF id \in S \ F THEN 0 ELSE OwnerMap[id]]
  <2>1. \A id \in 1..MaxMsg :
          /\ StageMap'[id] = CASE id \in F -> "batch"
                               [] id \in S \ F -> "lost"
                               [] OTHER -> StageMap[id]
          /\ OwnerMap'[id] = IF id \in S \ F THEN 0 ELSE OwnerMap[id]
    BY <1>6, <1>7, <1>8, <1>9
  <2>2. QED
    BY <2>1 DEF MapsInv, StageIsPlace
<1>13. CASE S = {}
  <2>1. StageMap' = StageMap /\ OwnerMap' = OwnerMap
    BY <1>6, <1>9, <1>13 DEF MapsInv, StageIsPlace
  <2>2. QED
    BY <1>0, <1>1, <2>1 DEF lifeMaps
<1>14. CASE S # {}
  <2>1. Life!At("batch") = {}
    <3>1. Taken \ Done = {}
      BY <1>2
    <3>2. QED
      BY <3>1, LifeSets DEF IdsOf
  <2>2. Life!Take(S, F)
    BY <1>0, <1>1, <1>6, <1>10, <1>11, <1>12, <1>14, <2>1 DEF Life!Take
  <2>3. QED
    BY <1>6, <2>2 DEF Life!Next
<1>15. QED
  BY <1>13, <1>14

\* The return of HandleOneProtocolData is Handle.
LEMMA LifeHandled ==
  ASSUME MapsInv, MapsInv', NEW b \in Bev, NEW m \in Msg, PHandled(b, m)
  PROVE  Life!Next
<1> USE DEF PHandled
<1>1. Taken' = Taken /\ Known' = Known
  BY DEF Taken, Known
<1>2. m \in Known /\ m \in Taken \ Done
  BY KnownIs, TakenIs
<1>3. \A k, n \in Known : k.id = n.id => k = n
  BY KnownType
<1>4. StageMap'[m.id] = "handled" /\ OwnerMap'[m.id] = OwnerMap[m.id]
  BY <1>1, <1>2 DEF MapsInv, StageIsPlace
<1>5. ASSUME NEW id \in 1..MaxMsg, id # m.id
      PROVE  StageMap'[id] = StageMap[id] /\ OwnerMap'[id] = OwnerMap[id]
  <2>1. CASE \E n \in Known : n.id = id
    BY <1>1, <1>5, <2>1, StageKept
  <2>2. CASE \A n \in Known : n.id # id
    BY <1>1, <2>2, UnknownKept
  <2>3. QED
    BY <2>1, <2>2
<1>6. StageMap' = [StageMap EXCEPT ![m.id] = "handled"] /\ OwnerMap' = OwnerMap
  BY <1>4, <1>5 DEF MapsInv, StageIsPlace
<1>7. LogMap' = Append(LogMap, m.id)
  <2>1. handled \in Seq([bev : Bev, msg : Msg])
    BY DEF MapsInv
  <2>2. /\ Len(handled') = Len(handled) + 1
        /\ \A i \in 1..Len(handled) : handled'[i] = handled[i]
        /\ handled'[Len(handled) + 1] = [bev |-> b, msg |-> m]
    BY <2>1
  <2>3. LogMap \in Seq(Nat) /\ Len(LogMap) = Len(handled)
    <3> DEFINE R == [bev : Bev, msg : Msg]
    <3> HIDE DEF R
    <3>1. handled \in Seq(R)
      BY <2>1 DEF R
    <3>2. \A i \in 1..Len(handled) : handled[i] \in R
      BY <3>1
    <3>3. \A i \in 1..Len(handled) : handled[i].msg.id \in Nat
      BY <3>2, MsgType DEF R
    <3>4. QED
      BY <3>1, <3>3 DEF LogMap
  <2>4. m.id \in Nat
    BY MsgType
  <2>5. LogMap' = [i \in 1..(Len(handled) + 1) |->
                     IF i = Len(handled) + 1 THEN m.id ELSE LogMap[i]]
    BY <2>1, <2>2 DEF LogMap
  <2>6. QED
    BY <2>3, <2>4, <2>5
<1>8. m.id \in Life!At("batch")
  BY <1>2, LifeSets DEF IdsOf
<1>9. ASSUME NEW id \in Life!Of("batch", OwnerMap[m.id])
      PROVE  id <= m.id
  <2>1. id \in Life!At("batch") /\ OwnerMap[id] = OwnerMap[m.id]
    BY <1>9 DEF Life!Of
  <2>2. PICK n \in Taken \ Done : n.id = id
    BY <2>1, LifeSets DEF IdsOf
  <2>3. n \in Known /\ OwnerMap[n.id] = n.conn /\ OwnerMap[m.id] = m.conn
    BY <1>2, KnownIs, TakenIs DEF MapsInv, StageIsPlace
  <2>4. PICK d \in Bev : n \in BatchOf[d]
    BY <2>2, TakenIs
  <2>5. d = b
    BY <2>1, <2>2, <2>3, <2>4 DEF MapsInv, PlaceInv, ListsAreApart
  <2>6. QED
    BY <2>2, <2>4, <2>5
<1>10. Life!Handle(m.id)
  BY <1>6, <1>7, <1>8, <1>9 DEF Life!Handle
<1>11. QED
  BY <1>10, MsgType DEF Life!Next

\* Every move is a step of MessageLife or invisible to it.
LEMMA PlaceSimulation ==
  ASSUME MapsInv, MapsInv', PlaceNext
  PROVE  Life!Next \/ UNCHANGED lifeMaps
<1>1. CASE UNCHANGED placeVars
  <2>1. Done' = Done /\ Taken' = Taken /\ Known' = Known
    BY <1>1, DoneUnchanged DEF placeVars, Taken, Known
  <2>2. QED
    BY <1>1, <2>1, LifeKept DEF placeVars
<1>2. QED
  BY <1>1, LifeSent, LifeHandled, LifeListened, LifeGone, LifeRead, LifeTaken,
     LifeCleared
  DEF PlaceNext

-----------------------------------------------------------------------------
(* In which order.                                                         *)

\* The peers number their messages as they send them.
QueuesInOrder ==
  /\ \A b \in Bev : Rising(inbound[b])
  /\ \A b \in DOMAIN vecuint8 : Rising(vecuint8[b])

\* The positions of the batch that the two loops are through with.
Past(b, i) == b \in visited \/ (b = epair /\ i < evec)

(* The loops have handled what lies behind them and nothing else.  This is *)
(* why BatchIsNewestFirst makes the newest message of a connection the     *)
(* next one to be handled, and why no message is handled twice.            *)
LoopProgress ==
  /\ pc = "extract" => DOMAIN listvecProtocol = {} /\ visited = {}
  /\ epair \notin visited
  /\ visited \subseteq DOMAIN listvecProtocol
  /\ \A b \in DOMAIN listvecProtocol : \A i \in 1..Len(listvecProtocol[b]) :
       Past(b, i) <=> listvecProtocol[b][i] \in Done

\* What is known of the order within the places.
OrderInv == QueuesInOrder /\ BatchIsNewestFirst /\ LoopProgress

\* A peer sends the newest message there is.
LEMMA AppendAscending ==
  ASSUME NEW s \in Seq(Msg), Rising(s), NEW m \in Msg,
         \A n \in ToSet(s) : n.id < m.id
  PROVE  Rising(Append(s, m)) /\ ToSet(Append(s, m)) = ToSet(s) \cup {m}
<1> DEFINE u == Append(s, m)
<1>1. /\ u \in Seq(Msg) /\ Len(u) = Len(s) + 1
      /\ \A i \in 1..Len(s) : u[i] = s[i]
      /\ u[Len(s) + 1] = m
  OBVIOUS
<1> HIDE DEF u
<1>2. ToSet(s) = {s[i] : i \in 1..Len(s)} /\ ToSet(u) = {u[i] : i \in 1..Len(u)}
  BY <1>1, ToSetIs
<1>3. ASSUME NEW i \in 1..Len(u), NEW j \in 1..Len(u), i < j
      PROVE  u[i].id < u[j].id
  <2>1. i \in 1..Len(s) /\ u[i] = s[i]
    BY <1>1, <1>3
  <2>2. CASE j \in 1..Len(s)
    BY <1>1, <1>3, <2>1, <2>2 DEF Rising
  <2>3. CASE j = Len(s) + 1
    BY <1>1, <1>2, <2>1, <2>3
  <2>4. QED
    BY <1>1, <2>2, <2>3
<1>4. \A i \in 1..Len(u) : i \in 1..Len(s) \/ i = Len(s) + 1
  BY <1>1
<1>5. Len(s) + 1 \in 1..Len(u) /\ \A i \in 1..Len(s) : i \in 1..Len(u)
  BY <1>1
<1>6. ToSet(u) = ToSet(s) \cup {m}
  BY <1>1, <1>2, <1>4, <1>5
<1>7. QED
  BY <1>3, <1>6 DEF Rising, u

\* A place changes with its variable only.
LEMMA PlacesKept ==
  /\ inbound' = inbound => SocketOf' = SocketOf
  /\ vecuint8' = vecuint8 => BufferOf' = BufferOf
  /\ listvecProtocol' = listvecProtocol => BatchOf' = BatchOf
  BY DEF SocketOf, BufferOf, BatchOf, ListOf

\* The types of the sequences, one by one.
LEMMA ListFacts ==
  ASSUME TcpInv
  PROVE  /\ DOMAIN vecuint8 \subseteq Bev /\ \A b \in DOMAIN vecuint8 : vecuint8[b] \in Seq(Msg)
         /\ DOMAIN listvecProtocol \subseteq Bev
         /\ \A b \in DOMAIN listvecProtocol : listvecProtocol[b] \in Seq(Msg)
         /\ \A b \in Bev : inbound[b] \in Seq(Msg)
  BY DEF TcpInv, TcpTypeOK, IsBevMap

\* The order in the batch, when the loops stand still.
LEMMA OrderUnlessMoved ==
  ASSUME OrderInv, UNCHANGED <<listvecProtocol, handled, visited, epair, evec>>,
         pc' = "extract" => pc = "extract"
  PROVE  BatchIsNewestFirst' /\ LoopProgress'
<1>1. Done' = Done
  BY DoneUnchanged
<1>2. QED
  BY <1>1 DEF OrderInv, BatchIsNewestFirst, LoopProgress, Past

(* The inductive invariant: types and locks (TcpInv), what is where        *)
(* (PlaceInv) and in which order (OrderInv).                               *)
HandlerInv == TcpInv /\ PlaceInv /\ OrderInv

\* The peers: a message is sent, or none moves.
LEMMA PeerPlaces ==
  ASSUME HandlerInv, PeerNext
  PROVE  PlaceNext /\ OrderInv'
<1>1. ASSUME NEW b \in Bev, PeerClose(b)
      PROVE  PlaceNext /\ OrderInv'
  <2>1. UNCHANGED <<inbound, vecuint8, listvecProtocol, handled, conn, accepted,
                    sent, trimmed, visited, epair, evec, pc>>
    BY <1>1 DEF PeerClose, handlerVars, loopVars
  <2>2. QED
    BY <2>1, PlacesKept, OrderUnlessMoved
    DEF PlaceNext, placeVars, OrderInv, QueuesInOrder, HandlerInv
<1>2. ASSUME NEW b \in Bev, NEW p \in Payload, PeerSend(b, p)
      PROVE  PlaceNext /\ OrderInv'
  <2> DEFINE m == [id |-> sent + 1, conn |-> conn[b], body |-> p]
  <2>1. UNCHANGED <<vecuint8, listvecProtocol, handled, conn, accepted, trimmed,
                    visited, epair, evec, pc>>
    BY <1>2 DEF PeerSend, handlerVars, loopVars
  <2>2. m \in Msg
    BY <1>2, EvTcpAssumption
    DEF PeerSend, HandlerInv, TcpInv, TcpTypeOK, Live, Msg
  <2>3. m.id = sent + 1 /\ m.conn = conn[b]
    OBVIOUS
  <2>4. /\ inbound' = [inbound EXCEPT ![b] = Append(@, m)] /\ sent' = sent + 1
        /\ inbound \in [Bev -> Seq(Msg)] /\ sent \in Nat
    BY <1>2 DEF PeerSend, HandlerInv, TcpInv, TcpTypeOK
  <2> HIDE DEF m
  <2>5. \A n \in ToSet(inbound[b]) : n.id < m.id
    <3>1. \A n \in ToSet(inbound[b]) : n \in Known
      BY KnownIs DEF SocketOf
    <3>2. \A n \in ToSet(inbound[b]) : n \in Msg
      BY <2>4, ToSetIs
    <3>3. QED
      BY <2>3, <2>4, <3>1, <3>2, MsgType DEF HandlerInv, PlaceInv, IdsAreUnique
  <2>6. Rising(inbound'[b]) /\ ToSet(inbound'[b]) = ToSet(inbound[b]) \cup {m}
    BY <2>2, <2>4, <2>5, AppendAscending DEF HandlerInv, OrderInv, QueuesInOrder
  <2>7. SocketOf' = [SocketOf EXCEPT ![b] = @ \cup {m}]
    BY <2>4, <2>6 DEF SocketOf
  <2>8. PSent(b, m)
    BY <2>1, <2>2, <2>3, <2>4, <2>7, PlacesKept DEF PSent
  <2>9. QueuesInOrder'
    BY <2>1, <2>4, <2>6 DEF HandlerInv, OrderInv, QueuesInOrder
  <2>10. QED
    BY <2>1, <2>2, <2>8, <2>9, OrderUnlessMoved
    DEF PlaceNext, OrderInv, HandlerInv
<1>3. QED
  BY <1>1, <1>2 DEF PeerNext

\* bufferevent_free with the entry erased, at once or before.
LEMMA FreePlaces ==
  ASSUME HandlerInv, NEW b \in Bev, BuffereventFree(b),
         UNCHANGED <<listvecProtocol, handled>>,
         \/ vecuint8' = MapErase(vecuint8, b)
         \/ vecuint8' = vecuint8 /\ b \notin DOMAIN vecuint8
  PROVE  PFreed(b) /\ QueuesInOrder'
<1>1. inbound \in [Bev -> Seq(Msg)] /\ inbound' = [inbound EXCEPT ![b] = <<>>]
  BY DEF HandlerInv, TcpInv, TcpTypeOK, BuffereventFree
<1>e. ToSet(<<>>) = {} /\ Rising(<<>>)
  BY DEF ToSet, Rising
<1>2. SocketOf' = [SocketOf EXCEPT ![b] = {}]
  BY <1>1, <1>e DEF SocketOf
<1>3. /\ DOMAIN vecuint8' = DOMAIN vecuint8 \ {b}
      /\ \A c \in DOMAIN vecuint8' : vecuint8'[c] = vecuint8[c]
  BY DEF MapErase
<1>4. BufferOf' = [BufferOf EXCEPT ![b] = {}]
  BY <1>3 DEF BufferOf
<1>5. QueuesInOrder'
  BY <1>1, <1>3, <1>e DEF QueuesInOrder, HandlerInv, OrderInv
<1>6. QED
  BY <1>2, <1>4, <1>5, PlacesKept DEF PFreed, BuffereventFree

\* ConnReadCb moves a prefix, and loses one if the buffer is over its limit.
LEMMA ReadPlaces ==
  ASSUME HandlerInv, NEW b \in Bev, ConnReadCb(b)
  PROVE  PlaceNext /\ OrderInv'
<1>1. b \in DOMAIN vecuint8 /\ conn[b] # 0
  BY EvTcpAssumption
  DEF ConnReadCb, HandlerInv, TcpInv, NoUseAfterFree, MapMatchesSockets, MutexFree,
      Idle, Live
<1> DEFINE vec == vecuint8[b]
<1>a. PICK len \in 0..MaxRead, over \in OverLimit :
        /\ len <= Len(inbound[b])
        /\ inbound' = [inbound EXCEPT ![b] = SubSeq(@, len + 1, Len(@))]
        /\ \E kept \in IF over THEN TrimFront(vec) ELSE {vec} :
             vecuint8' = [vecuint8 EXCEPT
               ![b] = InsertAtEnd(kept, SubSeq(inbound[b], 1, len))]
        /\ trimmed' = IF over THEN trimmed \cup {conn[b]} ELSE trimmed
  BY <1>1 DEF ConnReadCb
<1>2. PICK kept \in IF over THEN TrimFront(vec) ELSE {vec} :
        vecuint8' = [vecuint8 EXCEPT
          ![b] = InsertAtEnd(kept, SubSeq(inbound[b], 1, len))]
  BY <1>a
<1>3. UNCHANGED <<conn, accepted, sent, listvecProtocol, handled, visited, epair,
                  evec, pc>>
  BY DEF ConnReadCb, handlerVars, loopVars
<1> DEFINE came  == SubSeq(inbound[b], 1, len)
           stays == SubSeq(inbound[b], len + 1, Len(inbound[b]))
           new   == ToSet(came)
           lost  == ToSet(vec) \ ToSet(kept)
<1>4. /\ inbound[b] \in Seq(Msg) /\ vec \in Seq(Msg)
      /\ inbound \in [Bev -> Seq(Msg)]
      /\ Rising(inbound[b]) /\ Rising(vec)
  BY <1>1, ListFacts DEF HandlerInv, OrderInv, QueuesInOrder, TcpInv, TcpTypeOK
<1>5. Before(ToSet(vec), ToSet(inbound[b]))
  BY <1>1 DEF HandlerInv, PlaceInv, SocketIsNewer, SocketOf, BufferOf
<1>6. len \in 0..Len(inbound[b])
  BY <1>a, <1>4, EvTcpAssumption
<1>7. /\ came \in Seq(Msg) /\ Rising(came) /\ Rising(stays)
      /\ ToSet(inbound[b]) = new \cup ToSet(stays)
      /\ Before(new, ToSet(stays))
  BY <1>4, <1>6, SplitAscending
<1>8. /\ kept \in Seq(Msg) /\ Rising(kept)
      /\ ToSet(kept) \subseteq ToSet(vec)
      /\ Before(lost, ToSet(kept))
      /\ lost # {} => over
  <2>1. CASE over
    <3>1. PICK k \in 0..Len(vec) : kept = SubSeq(vec, k + 1, Len(vec))
      BY <1>2, <2>1 DEF TrimFront
    <3> DEFINE head == SubSeq(vec, 1, k)
               tail == SubSeq(vec, k + 1, Len(vec))
    <3>2. /\ tail \in Seq(Msg) /\ Rising(tail)
          /\ ToSet(vec) = ToSet(head) \cup ToSet(tail)
          /\ Before(ToSet(head), ToSet(tail))
      BY <1>4, SplitAscending
    <3> HIDE DEF head
    <3>3. QED
      BY <2>1, <3>1, <3>2 DEF Before
  <2>2. CASE ~over
    BY <1>2, <1>4, <2>2 DEF Before
  <2>3. QED
    BY <2>1, <2>2
<1> HIDE DEF came, stays
<1>9. Before(ToSet(kept), new)
  BY <1>5, <1>7, <1>8 DEF Before
<1>10. Rising(kept \o came) /\ ToSet(kept \o came) = ToSet(kept) \cup new
  BY <1>7, <1>8, <1>9, JoinAscending
<1>11. /\ inbound' = [inbound EXCEPT ![b] = stays]
       /\ vecuint8' = [vecuint8 EXCEPT ![b] = kept \o came]
  BY <1>1, <1>2, <1>a DEF InsertAtEnd, came, stays
<1>12. \A m \in new : m.id \in Nat
  BY <1>7, ToSetIs, MsgType
<1>13. ToSet(stays) = SocketOf[b] \ new
  BY <1>7, <1>12 DEF SocketOf, Before
<1>14. SocketOf' = [SocketOf EXCEPT ![b] = @ \ new]
  BY <1>4, <1>11, <1>13 DEF SocketOf
<1>15. BufferOf[b] = ToSet(vec) /\ ToSet(kept) = BufferOf[b] \ lost
  BY <1>1, <1>8 DEF BufferOf
<1>16. BufferOf' = [BufferOf EXCEPT ![b] = (@ \ lost) \cup new]
  <2>1. ASSUME NEW c \in Bev
        PROVE  BufferOf'[c] = IF c = b THEN (BufferOf[b] \ lost) \cup new ELSE BufferOf[c]
    BY <1>1, <1>10, <1>11, <1>15 DEF BufferOf
  <2> HIDE DEF lost, new
  <2>2. QED
    BY <2>1 DEF BufferOf
<1>17. new \subseteq SocketOf[b] /\ lost \subseteq BufferOf[b]
  BY <1>7, <1>15 DEF SocketOf
<1>18. new \in SUBSET Msg /\ lost \in SUBSET Msg
  BY <1>4, <1>7, ToSetIs
<1>19. PRead(b, new, lost)
  <2> HIDE DEF new, lost
  <2>1. Before(new, SocketOf[b] \ new) /\ Before(lost, BufferOf[b] \ lost)
    BY <1>7, <1>8, <1>13, <1>15
  <2>2. /\ trimmed' \in {trimmed, trimmed \cup {conn[b]}}
        /\ lost # {} => conn[b] \in trimmed'
    BY <1>a, <1>8
  <2>3. QED
    BY <1>1, <1>3, <1>14, <1>16, <1>17, <2>1, <2>2, PlacesKept DEF PRead
<1>20. PlaceNext
  <2> HIDE DEF new, lost
  <2>1. QED
    BY <1>18, <1>19 DEF PlaceNext
<1>21. QueuesInOrder'
  BY <1>4, <1>7, <1>10, <1>11 DEF HandlerInv, OrderInv, QueuesInOrder
<1>22. QED
  BY <1>3, <1>20, <1>21, OrderUnlessMoved DEF OrderInv, HandlerInv

\* The event thread.
LEMMA EventPlaces ==
  ASSUME HandlerInv, NEW b \in Bev, EventNext(b)
  PROVE  PlaceNext /\ OrderInv'
<1>1. CASE ListenerCb(b)
  <2>1. /\ UNCHANGED <<inbound, listvecProtocol, handled, sent, trimmed, visited, epair,
                       evec, pc>>
        /\ conn[b] = 0 /\ conn' = [conn EXCEPT ![b] = accepted + 1]
        /\ accepted' = accepted + 1
        /\ vecuint8' = MapInsert(vecuint8, b, <<>>)
        /\ b \notin DOMAIN vecuint8
    BY <1>1
    DEF ListenerCb, handlerVars, loopVars, HandlerInv, TcpInv,
        MapMatchesSockets,
                MutexFree, Live
  <2>2. /\ DOMAIN vecuint8' = DOMAIN vecuint8 \cup {b}
        /\ \A c \in DOMAIN vecuint8 : vecuint8'[c] = vecuint8[c]
        /\ vecuint8'[b] = <<>>
    BY <2>1 DEF MapInsert
  <2>3. ToSet(<<>>) = {} /\ Rising(<<>>)
    BY DEF ToSet, Rising
  <2>4. BufferOf' = BufferOf
    BY <2>1, <2>2, <2>3 DEF BufferOf
  <2>5. PListened(b)
    BY <2>1, <2>4, PlacesKept DEF PListened
  <2>6. QueuesInOrder'
    BY <2>1, <2>2, <2>3 DEF QueuesInOrder, HandlerInv, OrderInv
  <2>7. QED
    BY <2>1, <2>5, <2>6, OrderUnlessMoved DEF PlaceNext, OrderInv, HandlerInv
<1>2. CASE StartReadCb(b) \/ StartEventCb(b)
  <2>1. UNCHANGED <<inbound, vecuint8, listvecProtocol, handled, conn, accepted,
                    sent, trimmed, visited, epair, evec, pc>>
    BY <1>2 DEF StartReadCb, StartEventCb, netVars, handlerVars, loopVars
  <2>2. QED
    BY <2>1, PlacesKept, OrderUnlessMoved
    DEF PlaceNext, placeVars, OrderInv, QueuesInOrder, HandlerInv
<1>3. CASE ConnReadCb(b)
  BY <1>3, ReadPlaces
<1>4. CASE ConnEventCb(b)
  <2>1. b \in DOMAIN vecuint8
    BY <1>4, EvTcpAssumption
    DEF ConnEventCb, HandlerInv, TcpInv, NoUseAfterFree, MapMatchesSockets, MutexFree, Idle
  <2>2. /\ BuffereventFree(b) /\ vecuint8' = MapErase(vecuint8, b)
        /\ UNCHANGED <<listvecProtocol, handled, visited, epair, evec, pc>>
    BY <1>4, <2>1 DEF ConnEventCb, handlerVars, loopVars
  <2>3. PFreed(b) /\ QueuesInOrder'
    BY <2>2, FreePlaces
  <2>4. QED
    BY <2>2, <2>3, OrderUnlessMoved DEF PlaceNext, OrderInv, HandlerInv
<1>5. QED
  BY <1>1, <1>2, <1>3, <1>4 DEF EventNext

\* What GetOneProtocol's loop does with one buffer, as sets of messages.
LEMMA ExtractionPlaces ==
  ASSUME HandlerInv, NEW b \in DOMAIN vecuint8, NEW e \in Extractions(b)
  PROVE  LET seen == BufferOf[b] \ ToSet(e.rest)
         IN  /\ e.found \in Seq(Msg) /\ Rising(e.found)
             /\ e.rest \in Seq(Msg) /\ Rising(e.rest)
             /\ ToSet(e.rest) = BufferOf[b] \ seen
             /\ Before(seen, BufferOf[b] \ seen)
             /\ \A f \in ToSet(e.found) : \E m \in seen :
                  f.id = m.id /\ f.conn = m.conn
             /\ \A f, g \in ToSet(e.found) : f.id = g.id => f = g
             /\ conn[b] \notin trimmed =>
                  seen = BufferOf[b] /\ ToSet(e.found) = BufferOf[b]
<1> DEFINE vec  == vecuint8[b]
           seen == BufferOf[b] \ ToSet(e.rest)
<1>1. vec \in Seq(Msg) /\ Rising(vec) /\ b \in Bev /\ BufferOf[b] = ToSet(vec)
  BY ListFacts DEF HandlerInv, OrderInv, QueuesInOrder, BufferOf
<1>2. /\ e.found \in Seq(Msg) /\ e.rest \in Seq(Msg)
      /\ conn[b] \notin trimmed => e.found = vec /\ e.rest = <<>>
      /\ conn[b] \in trimmed => Rising(e.found)
      /\ \E n \in 0..Len(vec) :
           /\ e.rest = SubSeq(vec, n + 1, Len(vec))
           /\ \A i \in 1..Len(e.found) : \E j \in 1..n :
                e.found[i].id = vec[j].id /\ e.found[i].conn = vec[j].conn
  BY ExtractionType DEF HandlerInv, TcpInv
<1>3. PICK n \in 0..Len(vec) :
        /\ e.rest = SubSeq(vec, n + 1, Len(vec))
        /\ \A i \in 1..Len(e.found) : \E j \in 1..n :
             e.found[i].id = vec[j].id /\ e.found[i].conn = vec[j].conn
  BY <1>2
<1> DEFINE front == SubSeq(vec, 1, n)
<1>4. /\ front \in Seq(Msg) /\ Len(front) = n /\ Rising(e.rest)
      /\ ToSet(vec) = ToSet(front) \cup ToSet(e.rest)
      /\ Before(ToSet(front), ToSet(e.rest))
  BY <1>1, <1>3, SplitAscending
<1>5. \A j \in 1..n : vec[j] \in ToSet(front)
  <2>1. \A j \in 1..n : front[j] = vec[j]
    BY <1>1
  <2> HIDE DEF front
  <2>2. QED
    BY <1>4, <2>1, ToSetIs
<1>6. Rising(e.found)
  BY <1>1, <1>2
<1> HIDE DEF front
<1>7. seen = ToSet(front)
  <2>1. \A m \in ToSet(front) : m.id \in Nat
    BY <1>4, ToSetIs, MsgType
  <2>2. QED
    BY <1>1, <1>4, <2>1 DEF Before
<1>8. ToSet(e.rest) = BufferOf[b] \ seen
  BY <1>1, <1>4
<1>9. \A f \in ToSet(e.found) : \E m \in seen : f.id = m.id /\ f.conn = m.conn
  <2>1. \A f \in ToSet(e.found) : \E i \in 1..Len(e.found) : f = e.found[i]
    BY <1>2, ToSetIs
  <2> HIDE DEF vec, seen
  <2>2. ASSUME NEW f \in ToSet(e.found)
        PROVE  \E m \in seen : f.id = m.id /\ f.conn = m.conn
    <3>1. PICK i \in 1..Len(e.found) : f = e.found[i]
      BY <2>1
    <3>2. PICK j \in 1..n : f.id = vec[j].id /\ f.conn = vec[j].conn
      BY <1>3, <3>1
    <3>3. vec[j] \in seen
      BY <1>5, <1>7
    <3>4. QED
      BY <3>2, <3>3
  <2>3. QED
    BY <2>2
<1>10. \A f, g \in ToSet(e.found) : f.id = g.id => f = g
  <2> DEFINE s == e.found
  <2>1. s \in Seq(Msg) /\ Rising(s)
    BY <1>2, <1>6
  <2> HIDE DEF s
  <2>2. ASSUME NEW f \in ToSet(s), NEW g \in ToSet(s), f.id = g.id
        PROVE  f = g
    <3>1. PICK i \in 1..Len(s), j \in 1..Len(s) : f = s[i] /\ g = s[j]
      BY <2>1, ToSetIs
    <3>2. s[i].id \in Nat /\ s[j].id \in Nat
      BY <2>1, MsgType
    <3>3. ~(i < j) /\ ~(j < i)
      BY <2>1, <2>2, <3>1, <3>2 DEF Rising
    <3>4. i = j
      BY <2>1, <3>3
    <3>5. QED
      BY <3>1, <3>4
  <2>3. QED
    BY <2>2 DEF s
<1>11. ASSUME conn[b] \notin trimmed
       PROVE  seen = BufferOf[b] /\ ToSet(e.found) = BufferOf[b]
  <2>1. ToSet(<<>>) = {}
    BY DEF ToSet
  <2>2. QED
    BY <1>1, <1>2, <1>11, <2>1
<1>12. Before(seen, BufferOf[b] \ seen)
  BY <1>4, <1>7, <1>8
<1> HIDE DEF seen
<1>13. QED
  BY <1>2, <1>4, <1>6, <1>8, <1>9, <1>10, <1>11, <1>12 DEF seen

(* GetProtocalData moves what it finds in every buffer, turned round, into *)
(* the batch.                                                              *)
LEMMA TakePlaces ==
  ASSUME HandlerInv, GetProtocalData
  PROVE  PlaceNext /\ OrderInv'
<1>1. PICK take \in [DOMAIN vecuint8 ->
                       UNION {Extractions(b) : b \in DOMAIN vecuint8}] :
        /\ \A b \in DOMAIN vecuint8 : take[b] \in Extractions(b)
        /\ listvecProtocol' =
             [b \in DOMAIN listvecProtocol \cup WithProtocol(take) |->
                PushFront(ListOf(b),
                          IF b \in DOMAIN take THEN take[b].found ELSE <<>>)]
        /\ vecuint8' = [b \in DOMAIN vecuint8 |-> take[b].rest]
  BY DEF GetProtocalData
<1>2. /\ pc = "extract" /\ DOMAIN listvecProtocol = {} /\ visited = {} /\ epair = NoBev
      /\ pc' \in {"extract", "handle"}
      /\ pc' = "extract" => DOMAIN listvecProtocol' = {}
      /\ UNCHANGED <<inbound, conn, accepted, sent, trimmed, handled, visited, epair,
                     evec>>
  BY DEF GetProtocalData, HandlerInv, OrderInv, LoopProgress, TcpInv,
         IteratorsValid, netVars, loopVars
<1> DEFINE W == WithProtocol(take)
           found == [b \in Bev |-> IF b \in DOMAIN vecuint8
                                   THEN ToSet(take[b].found) ELSE {}]
           seen  == [b \in Bev |-> IF b \in DOMAIN vecuint8
                                   THEN BufferOf[b] \ ToSet(take[b].rest) ELSE {}]
<1>3. DOMAIN vecuint8 \subseteq Bev /\ DOMAIN take = DOMAIN vecuint8
  BY <1>1, ListFacts DEF HandlerInv
<1>4. ASSUME NEW b \in DOMAIN vecuint8
      PROVE  /\ take[b].found \in Seq(Msg) /\ Rising(take[b].found)
             /\ take[b].rest \in Seq(Msg) /\ Rising(take[b].rest)
             /\ found[b] = ToSet(take[b].found)
             /\ ToSet(take[b].rest) = BufferOf[b] \ seen[b]
             /\ Before(seen[b], BufferOf[b] \ seen[b])
             /\ \A f \in found[b] : \E m \in seen[b] :
                  f.id = m.id /\ f.conn = m.conn
             /\ \A f, g \in found[b] : f.id = g.id => f = g
             /\ conn[b] \notin trimmed =>
                  seen[b] = BufferOf[b] /\ found[b] = BufferOf[b]
  <2>1. take[b] \in Extractions(b) /\ b \in Bev
    BY <1>1, <1>3
  <2>2. /\ found[b] = ToSet(take[b].found)
        /\ seen[b] = BufferOf[b] \ ToSet(take[b].rest)
    BY <2>1
  <2> DEFINE e == take[b]
             S == BufferOf[b] \ ToSet(e.rest)
  <2>3. /\ e.found \in Seq(Msg) /\ Rising(e.found)
        /\ e.rest \in Seq(Msg) /\ Rising(e.rest)
        /\ ToSet(e.rest) = BufferOf[b] \ S
        /\ Before(S, BufferOf[b] \ S)
        /\ \A f \in ToSet(e.found) : \E m \in S : f.id = m.id /\ f.conn = m.conn
        /\ \A f, g \in ToSet(e.found) : f.id = g.id => f = g
        /\ conn[b] \notin trimmed => S = BufferOf[b] /\ ToSet(e.found) = BufferOf[b]
    <3> HIDE DEF e
    <3>1. e \in Extractions(b)
      BY <2>1 DEF e
    <3>2. QED
      BY <3>1, ExtractionPlaces
  <2> HIDE DEF found, seen
  <2>4. QED
    BY <2>2, <2>3
<1>5. \A b \in Bev : b \notin DOMAIN vecuint8 =>
        found[b] = {} /\ seen[b] = {} /\ BufferOf[b] = {}
  BY DEF BufferOf
<1>6. found \in [Bev -> SUBSET Msg] /\ seen \in [Bev -> SUBSET Msg]
  <2>1. \A b \in DOMAIN vecuint8 : ToSet(take[b].found) \subseteq Msg
    BY <1>4, ToSetIs
  <2>2. BufferOf \in [Bev -> SUBSET Msg]
    BY PlacesTyped DEF HandlerInv, TcpInv, PlacesType
  <2>3. QED
    BY <2>1, <2>2
<1>7. /\ W \subseteq DOMAIN vecuint8
      /\ \A b \in DOMAIN vecuint8 : b \in W <=> take[b].found # <<>>
  BY <1>3 DEF WithProtocol
<1>8. ASSUME NEW b \in W
      PROVE  PushFront(ListOf(b), IF b \in DOMAIN take THEN take[b].found ELSE <<>>)
               = Reverse(take[b].found)
  <2>1. ListOf(b) = <<>>
    BY <1>2 DEF ListOf
  <2>2. Reverse(take[b].found) \in Seq(Msg)
    BY <1>4, <1>7, ReverseAscending
  <2>3. b \in DOMAIN take
    BY <1>3, <1>7
  <2>4. QED
    BY <2>1, <2>2, <2>3 DEF PushFront
<1>9. listvecProtocol' = [b \in W |-> Reverse(take[b].found)]
  <2>1. DOMAIN listvecProtocol \cup WithProtocol(take) = W
    BY <1>2
  <2> HIDE DEF W
  <2>2. QED
    BY <1>1, <1>8, <2>1
<1>10. \A b \in W : /\ Descending(Reverse(take[b].found))
                    /\ ToSet(Reverse(take[b].found)) = found[b]
                    /\ Reverse(take[b].found) \in Seq(Msg)
  <2>1. \A b \in W : take[b].found \in Seq(Msg) /\ Rising(take[b].found)
    BY <1>4, <1>7
  <2>2. \A b \in W : found[b] = ToSet(take[b].found)
    BY <1>4, <1>7
  <2> HIDE DEF W, found
  <2>3. QED
    BY <2>1, <2>2, ReverseAscending
<1>e. ToSet(<<>>) = {} /\ Rising(<<>>)
  BY DEF ToSet, Rising
<1>11. ASSUME NEW b \in Bev
       PROVE  BatchOf'[b] = found[b] /\ BufferOf'[b] = BufferOf[b] \ seen[b]
  <2>1. CASE b \in W
    <3>1. BatchOf'[b] = ToSet(Reverse(take[b].found))
      BY <1>9, <2>1 DEF BatchOf, ListOf
    <3>2. BufferOf'[b] = ToSet(take[b].rest)
      BY <1>1, <1>7, <2>1 DEF BufferOf
    <3>3. QED
      BY <1>4, <1>7, <1>10, <2>1, <3>1, <3>2
  <2>2. CASE b \notin W
    <3>1. BatchOf'[b] = {}
      BY <1>9, <1>e, <2>2 DEF BatchOf, ListOf
    <3>2. CASE b \in DOMAIN vecuint8
      <4>1. take[b].found = <<>>
        BY <1>7, <2>2, <3>2
      <4>2. BufferOf'[b] = ToSet(take[b].rest)
        BY <1>1, <3>2 DEF BufferOf
      <4>3. QED
        BY <1>4, <1>e, <3>1, <3>2, <4>1, <4>2
    <3>3. CASE b \notin DOMAIN vecuint8
      <4>1. BufferOf'[b] = {}
        BY <1>1, <3>3 DEF BufferOf
      <4>2. QED
        BY <1>5, <3>1, <3>3, <4>1
    <3>4. QED
      BY <3>2, <3>3
  <2>3. QED
    BY <2>1, <2>2
<1>12. /\ BatchOf' = found /\ BufferOf' = [b \in Bev |-> BufferOf[b] \ seen[b]]
  <2> HIDE DEF seen
  <2>1. QED
    BY <1>11 DEF BatchOf, BufferOf
<1>13. BatchOf = Nothing
  BY <1>2, <1>e DEF BatchOf, ListOf, Nothing
<1>14. PTaken(seen, found)
  <2>1. ASSUME NEW b \in Bev
        PROVE  /\ seen[b] \subseteq BufferOf[b]
               /\ Before(seen[b], BufferOf[b] \ seen[b])
               /\ \A f \in found[b] : \E m \in seen[b] :
                    f.id = m.id /\ f.conn = m.conn
               /\ \A f, g \in found[b] : f.id = g.id => f = g
               /\ conn[b] \notin trimmed =>
                    seen[b] = BufferOf[b] /\ found[b] = BufferOf[b]
    <3>1. CASE b \in DOMAIN vecuint8
      <4>1. seen[b] \subseteq BufferOf[b]
        BY <3>1
      <4> HIDE DEF seen, found
      <4>2. QED
        BY <1>4, <3>1, <4>1
    <3>2. CASE b \notin DOMAIN vecuint8
      <4> HIDE DEF seen, found
      <4>1. QED
        BY <1>5, <3>2 DEF Before
    <3>3. QED
      BY <3>1, <3>2
  <2> HIDE DEF seen, found
  <2>2. QED
    BY <1>2, <1>12, <1>13, <2>1, PlacesKept DEF PTaken
<1>15. PlaceNext
  <2> HIDE DEF seen, found
  <2>1. QED
    BY <1>6, <1>14 DEF PlaceNext
<1>16. QueuesInOrder'
  BY <1>1, <1>2, <1>4 DEF QueuesInOrder, HandlerInv, OrderInv
<1>17. BatchIsNewestFirst'
  <2> HIDE DEF W
  <2>1. QED
    BY <1>9, <1>10 DEF BatchIsNewestFirst, Descending
<1>18. LoopProgress'
  <2>1. ASSUME NEW b \in W, NEW i \in 1..Len(listvecProtocol'[b])
        PROVE  listvecProtocol'[b][i] \notin Done'
    <3> DEFINE f == listvecProtocol'[b][i]
    <3>1. listvecProtocol'[b] \in Seq(Msg) /\ ToSet(listvecProtocol'[b]) = found[b]
      BY <1>9, <1>10
    <3>2. f \in found[b]
      BY <3>1, ToSetIs
    <3>3. b \in DOMAIN vecuint8 /\ b \in Bev
      BY <1>3, <1>7
    <3> HIDE DEF f, found, seen
    <3>a. \A g \in found[b] : \E m \in seen[b] : g.id = m.id /\ g.conn = m.conn
      BY <1>4, <3>3
    <3>4. PICK m \in seen[b] : f.id = m.id
      BY <3>2, <3>a
    <3>5. m \in BufferOf[b]
      BY <3>3, <3>4 DEF seen
    <3>6. m \notin Done /\ m \in Known
      BY <3>3, <3>5, PlacesApart, PlacesTyped, KnownIs, TakenIs DEF HandlerInv, TcpInv
    <3>7. f \notin Done
      BY <3>4, <3>6, KnownIs DEF HandlerInv, PlaceInv, IdsAreUnique
    <3>8. QED
      BY <1>2, <3>7, DoneUnchanged DEF f
  <2>2. \A b \in W : b # NoBev
    BY <1>3, <1>7, EvTcpAssumption
  <2> HIDE DEF W
  <2>3. QED
    BY <1>2, <1>9, <2>1, <2>2 DEF LoopProgress, Past
<1>19. QED
  BY <1>15, <1>16, <1>17, <1>18 DEF OrderInv

\* The loop of the handler thread.
LEMMA LoopPlaces ==
  ASSUME HandlerInv, LoopNext
  PROVE  PlaceNext /\ OrderInv'
<1>1. CASE GetProtocalData
  BY <1>1, TakePlaces
<1>2. CASE ClearBatch
  <2>1. /\ listvecProtocol' = [b \in {} |-> <<>>] /\ visited' = {}
        /\ pc = "handle" /\ epair = NoBev /\ visited = DOMAIN listvecProtocol
        /\ UNCHANGED <<inbound, vecuint8, conn, accepted, sent, trimmed, handled, epair,
                       evec>>
    BY <1>2 DEF ClearBatch, netVars
  <2>2. DOMAIN listvecProtocol' = {}
    BY <2>1
  <2>e. ToSet(<<>>) = {}
    BY DEF ToSet
  <2>3. BatchOf' = Nothing
    BY <2>2, <2>e DEF BatchOf, ListOf, Nothing
  <2>4. ASSUME NEW b \in Bev, NEW m \in BatchOf[b]
        PROVE  m \in Done
    <3>1. b \in DOMAIN listvecProtocol
      BY <2>e DEF BatchOf, ListOf
    <3>2. listvecProtocol[b] \in Seq(Msg) /\ m \in ToSet(listvecProtocol[b])
      BY <3>1, ListFacts DEF HandlerInv, BatchOf, ListOf
    <3>3. PICK i \in 1..Len(listvecProtocol[b]) : m = listvecProtocol[b][i]
      BY <3>2, ToSetIs
    <3>4. QED
      BY <2>1, <3>1, <3>3 DEF HandlerInv, OrderInv, LoopProgress, Past
  <2>5. PCleared
    BY <2>1, <2>3, <2>4, PlacesKept DEF PCleared
  <2>6. OrderInv'
    BY <2>1, <2>2
    DEF OrderInv, QueuesInOrder, BatchIsNewestFirst, LoopProgress, HandlerInv
  <2>7. QED
    BY <2>5, <2>6 DEF PlaceNext
<1>3. ASSUME NEW b \in Bev, NextProtocol(b)
      PROVE  PlaceNext /\ OrderInv'
  <2>1. /\ UNCHANGED <<inbound, vecuint8, listvecProtocol, conn, accepted, sent, trimmed,
                       handled, visited>>
        /\ pc = "handle" /\ pc' = "call"
        /\ \/ /\ epair = NoBev /\ b \in DOMAIN listvecProtocol \ visited
              /\ epair' = b /\ evec' = 1
           \/ UNCHANGED <<epair, evec>>
    BY <1>3 DEF NextProtocol, netVars
  <2>2. Done' = Done
    BY <2>1, DoneUnchanged
  <2>3. NoBev \notin DOMAIN listvecProtocol
    BY ListFacts, EvTcpAssumption DEF HandlerInv
  <2>4. ASSUME NEW c \in DOMAIN listvecProtocol, NEW i \in 1..Len(listvecProtocol[c])
        PROVE  Past(c, i)' <=> Past(c, i)
    <3>1. i \in Int /\ ~(i < 1)
      OBVIOUS
    <3>2. QED
      BY <2>1, <2>3, <3>1 DEF Past
  <2>5. LoopProgress'
    BY <2>1, <2>2, <2>4 DEF LoopProgress, HandlerInv, OrderInv
  <2>6. QueuesInOrder' /\ BatchIsNewestFirst'
    BY <2>1 DEF QueuesInOrder, BatchIsNewestFirst, HandlerInv, OrderInv
  <2>7. QED
    BY <2>1, <2>5, <2>6, PlacesKept DEF PlaceNext, placeVars, OrderInv
<1>4. QED
  BY <1>1, <1>2, <1>3 DEF LoopNext

\* HandleOneProtocolData returns: one more position of the batch is past.
LEMMA HandlePlaces ==
  ASSUME HandlerInv, HandleReturn
  PROVE  PlaceNext /\ OrderInv'
<1> DEFINE m == CurProtocol
           list == listvecProtocol[epair]
<1>1. /\ pc = "call" /\ pc' = "handle"
      /\ handled' = Append(handled, [bev |-> epair, msg |-> m])
      /\ \/ evec < Len(list) /\ evec' = evec + 1 /\ UNCHANGED <<epair, visited>>
         \/ /\ ~(evec < Len(list)) /\ epair' = NoBev /\ evec' = 0
            /\ visited' = visited \cup {epair}
      /\ UNCHANGED <<inbound, vecuint8, listvecProtocol, conn, accepted, sent, trimmed>>
  BY DEF HandleReturn, netVars
<1>2. epair \in DOMAIN listvecProtocol /\ evec \in 1..Len(list) /\ epair # NoBev
  BY <1>1 DEF HandlerInv, TcpInv, IteratorsValid
<1>3. epair \in Bev /\ list \in Seq(Msg) /\ m = list[evec] /\ m \in Msg
  BY <1>2, ListFacts DEF HandlerInv, CurProtocol
<1>4. BatchOf[epair] = ToSet(list) /\ ToSet(list) = {list[i] : i \in 1..Len(list)}
  BY <1>2, <1>3, ToSetIs DEF BatchOf, ListOf
<1>5. epair \notin visited /\ evec \in Nat /\ Len(list) \in Nat
  BY <1>2, <1>3 DEF HandlerInv, OrderInv, LoopProgress
<1>6. \A b \in DOMAIN listvecProtocol : \A i \in 1..Len(listvecProtocol[b]) :
        listvecProtocol[b][i] \in Done <=> b \in visited \/ (b = epair /\ i < evec)
  BY DEF HandlerInv, OrderInv, LoopProgress, Past
<1>7. m \notin Done
  BY <1>2, <1>3, <1>5, <1>6
<1>8. \A i, j \in 1..Len(list) : i < j => list[i].id > list[j].id
  BY <1>2 DEF HandlerInv, OrderInv, BatchIsNewestFirst
<1>9. ASSUME NEW n \in BatchOf[epair] \ Done
      PROVE  n.id <= m.id
  <2>1. PICK i \in 1..Len(list) : n = list[i]
    BY <1>4
  <2>2. ~(i < evec)
    BY <1>2, <1>6, <2>1
  <2>3. i = evec \/ evec < i
    BY <1>2, <2>2
  <2>4. n \in Msg /\ n.id \in Nat /\ m.id \in Nat
    BY <1>3, <2>1, MsgType
  <2>5. QED
    BY <1>2, <1>3, <1>8, <2>1, <2>3, <2>4
<1>10. Done' = Done \cup {m}
  <2> DEFINE R == [bev : Bev, msg : Msg]
  <2>1. handled \in Seq(R)
    BY DEF HandlerInv, TcpInv, TcpTypeOK
  <2>2. [bev |-> epair, msg |-> m] \in R
    BY <1>3
  <2> HIDE DEF R, m
  <2>3. /\ Len(handled') = Len(handled) + 1 /\ Len(handled) \in Nat
        /\ \A i \in 1..Len(handled) : handled'[i] = handled[i]
        /\ handled'[Len(handled) + 1] = [bev |-> epair, msg |-> m]
    BY <1>1, <2>1, <2>2
  <2>4. \A i \in 1..Len(handled') : i \in 1..Len(handled) \/ i = Len(handled) + 1
    BY <2>3
  <2>5. /\ Len(handled) + 1 \in 1..Len(handled')
        /\ \A i \in 1..Len(handled) : i \in 1..Len(handled')
    BY <2>3
  <2>6. ASSUME NEW x \in Done' PROVE x \in Done \cup {m}
    <3>1. PICK i \in 1..Len(handled') : x = handled'[i].msg
      BY DEF Done
    <3>2. QED
      BY <2>3, <2>4, <3>1 DEF Done
  <2>7. ASSUME NEW x \in Done \cup {m} PROVE x \in Done'
    <3>1. CASE x \in Done
      <4>1. PICK i \in 1..Len(handled) : x = handled[i].msg
        BY <3>1 DEF Done
      <4>2. QED
        BY <2>3, <2>5, <4>1 DEF Done
    <3>2. CASE x = m
      BY <2>3, <2>5, <3>2 DEF Done
    <3>3. QED
      BY <2>7, <3>1, <3>2
  <2>8. QED
    BY <2>6, <2>7
<1>11. PHandled(epair, m)
  <2>1. m \in BatchOf[epair]
    BY <1>2, <1>3, <1>4
  <2> HIDE DEF m
  <2>2. QED
    BY <1>1, <1>7, <1>9, <1>10, <2>1, PlacesKept DEF PHandled
<1>12. ASSUME NEW b \in DOMAIN listvecProtocol, NEW i \in 1..Len(listvecProtocol[b])
       PROVE  Past(b, i)' <=> listvecProtocol[b][i] \in Done'
  <2>1. listvecProtocol[b][i] = m <=> b = epair /\ i = evec
    <3>1. ASSUME listvecProtocol[b][i] = m
          PROVE  b = epair
      <4>1. b \in Bev /\ listvecProtocol[b] \in Seq(Msg)
        BY ListFacts DEF HandlerInv
      <4>2. m \in BatchOf[b] /\ m \in BatchOf[epair]
        BY <1>2, <1>3, <1>4, <3>1, <4>1, ToSetIs DEF BatchOf, ListOf
      <4>3. QED
        BY <1>3, <4>1, <4>2 DEF HandlerInv, PlaceInv, ListsAreApart
    <3>2. ASSUME b = epair, listvecProtocol[b][i] = m
          PROVE  i = evec
      <4>1. ~(i < evec) /\ ~(evec < i)
        BY <1>2, <1>3, <1>8, <3>2, MsgType
      <4>2. QED
        BY <1>2, <3>2, <4>1
    <3>3. QED
      BY <1>3, <3>1, <3>2
  <2>2. listvecProtocol[b][i] \in Done' <=>
          b \in visited \/ (b = epair /\ i < evec) \/ (b = epair /\ i = evec)
    BY <1>6, <1>10, <2>1
  <2>3. b # NoBev /\ i \in Nat /\ (b = epair => i <= Len(list))
    BY <1>3, ListFacts, EvTcpAssumption DEF HandlerInv
  <2>4. Past(b, i)' <=> b \in visited' \/ (b = epair' /\ i < evec')
    BY DEF Past
  <2>5. CASE evec < Len(list)
    BY <1>1, <1>5, <2>2, <2>3, <2>4, <2>5
  <2>6. CASE ~(evec < Len(list))
    BY <1>1, <1>2, <1>5, <2>2, <2>3, <2>4, <2>6
  <2>7. QED
    BY <2>5, <2>6
<1>13. LoopProgress'
  <2>1. visited' \subseteq DOMAIN listvecProtocol' /\ epair' \notin visited'
    <3>1. visited \subseteq DOMAIN listvecProtocol /\ NoBev \notin DOMAIN listvecProtocol
      BY ListFacts, EvTcpAssumption DEF HandlerInv, OrderInv, LoopProgress
    <3>2. QED
      BY <1>1, <1>2, <1>5, <3>1
  <2>2. QED
    BY <1>1, <1>12, <2>1 DEF LoopProgress
<1>14. QueuesInOrder' /\ BatchIsNewestFirst'
  BY <1>1 DEF QueuesInOrder, BatchIsNewestFirst, HandlerInv, OrderInv
<1>15. QED
  BY <1>3, <1>11, <1>13, <1>14 DEF PlaceNext, OrderInv

\* What a subclass does in HandleOneProtocolData.
LEMMA VirtualPlaces ==
  ASSUME HandlerInv, VirtualNext
  PROVE  PlaceNext /\ OrderInv'
<1>1. CASE HandleReturn
  BY <1>1, HandlePlaces
<1>2. CASE \/ \E b \in Bev : SendDataToClient(b)
           \/ \E ret \in WriteResults : BuffereventWrite(ret)
  <2>1. UNCHANGED <<inbound, vecuint8, listvecProtocol, handled, conn, accepted,
                    sent, trimmed, visited, epair, evec>> /\ pc' # "extract"
    BY <1>2 DEF SendDataToClient, BuffereventWrite, netVars, loopVars
  <2>2. QED
    BY <2>1, PlacesKept, OrderUnlessMoved
    DEF PlaceNext, placeVars, OrderInv, QueuesInOrder, HandlerInv
<1>3. ASSUME NEW b \in Bev, DisconnectClient(b)
      PROVE  PlaceNext /\ OrderInv'
  <2>1. /\ vecuint8' = MapErase(vecuint8, b) /\ pc' # "extract"
        /\ UNCHANGED <<inbound, listvecProtocol, handled, conn, accepted, sent, trimmed,
                       visited, epair, evec>>
    BY <1>3 DEF DisconnectClient, netVars, loopVars
  <2>2. /\ DOMAIN vecuint8' = DOMAIN vecuint8 \ {b}
        /\ \A c \in DOMAIN vecuint8' : vecuint8'[c] = vecuint8[c]
    BY <2>1 DEF MapErase
  <2>3. BufferOf' = [BufferOf EXCEPT ![b] = {}]
    BY <2>2 DEF BufferOf
  <2>4. PForgotten(b)
    BY <2>1, <2>3, PlacesKept DEF PForgotten
  <2>5. QueuesInOrder'
    BY <2>1, <2>2 DEF QueuesInOrder, HandlerInv, OrderInv
  <2>6. QED
    BY <2>1, <2>4, <2>5, OrderUnlessMoved DEF PlaceNext, OrderInv, HandlerInv
<1>4. CASE DisconnectFree
  <2>1. /\ pc = "free" /\ target \in Bev /\ target \notin DOMAIN vecuint8
        /\ BuffereventFree(target) /\ pc' # "extract"
        /\ UNCHANGED <<vecuint8, listvecProtocol, handled, visited, epair, evec>>
    BY <1>4
    DEF DisconnectFree, HandlerInv, TcpInv, NoUseAfterFree, MapMatchesSockets,
        Live,
                loopVars
  <2>2. PFreed(target) /\ QueuesInOrder'
    BY <2>1, FreePlaces
  <2>3. QED
    BY <2>1, <2>2, OrderUnlessMoved DEF PlaceNext, OrderInv, HandlerInv
<1>5. QED
  BY <1>1, <1>2, <1>3, <1>4 DEF VirtualNext

-----------------------------------------------------------------------------
(* The theorems about messages.                                            *)

\* Every step is a move and preserves the invariant.
LEMMA HandlerInvStep ==
  ASSUME HandlerInv, [TcpNext]_tcpVars
  PROVE  PlaceNext /\ HandlerInv'
<1>1. PlaceNext /\ OrderInv'
  <2>1. CASE TcpNext
    BY <2>1, PeerPlaces, EventPlaces, LoopPlaces, VirtualPlaces DEF TcpNext
  <2>2. CASE UNCHANGED tcpVars
    <3>1. UNCHANGED <<inbound, vecuint8, listvecProtocol, handled, conn, accepted,
                      sent, trimmed, visited, epair, evec, pc>>
      BY <2>2 DEF tcpVars, netVars, handlerVars, loopVars
    <3>2. QED
      BY <3>1, PlacesKept, OrderUnlessMoved
      DEF PlaceNext, placeVars, OrderInv, QueuesInOrder, HandlerInv
  <2>3. QED
    BY <2>1, <2>2
<1>2. TcpInv'
  BY TcpInvStep DEF HandlerInv
<1>3. PlaceInv'
  BY <1>1, <1>2, PlaceStep, PlacesTyped, PlacesTypedNext DEF HandlerInv, TcpInv
<1>4. QED
  BY <1>1, <1>2, <1>3 DEF HandlerInv

\* Initially there is no message anywhere.
LEMMA HandlerInvInit == TcpInit => HandlerInv
<1> SUFFICES ASSUME TcpInit PROVE HandlerInv
  OBVIOUS
<1>1. TcpInv
  BY TcpInitInv
<1>e. ToSet(<<>>) = {} /\ Rising(<<>>)
  BY DEF ToSet, Rising
<1>2. /\ SocketOf = Nothing /\ BufferOf = Nothing /\ BatchOf = Nothing /\ Done = {}
  BY <1>e DEF TcpInit, SocketOf, BufferOf, BatchOf, ListOf, Done, Nothing
<1>3. \A m : m \notin Known /\ m \notin Taken
  BY <1>2, KnownIs, TakenIs DEF Nothing
<1>4. PlaceInv
  BY <1>2, <1>3
  DEF TcpInit, PlaceInv, ConnIsUnique, WaitsForItsConn, ListsAreApart, IdsAreUnique,
      SocketIsNewer, WaitingIsNewer, Nothing, Before
<1>5. OrderInv
  BY <1>e DEF TcpInit, OrderInv, QueuesInOrder, BatchIsNewestFirst, LoopProgress
<1>6. QED
  BY <1>1, <1>4, <1>5 DEF HandlerInv

\* The three parts together are inductive.
THEOREM HandlerInvariant == TcpSpec => []HandlerInv
  BY HandlerInvInit, HandlerInvStep, PTL DEF TcpSpec

(* Within a batch the messages of a connection are in the reverse order of *)
(* their sending, whatever was trimmed, freed or reconnected before.       *)
THEOREM BatchAlwaysNewestFirst == TcpSpec => []BatchIsNewestFirst
<1>1. HandlerInv => BatchIsNewestFirst
  BY DEF HandlerInv, OrderInv
<1>2. QED
  BY <1>1, HandlerInvariant, PTL

(* A message still waiting in a socket or a receive buffer is newer than   *)
(* every message of its connection in the batch or handled: only within a  *)
(* batch is the order of a connection turned round.                        *)
THEOREM LaterBatchesAlwaysNewer == TcpSpec => []LaterBatchesAreNewer
<1>1. HandlerInv => LaterBatchesAreNewer
  <2> SUFFICES ASSUME HandlerInv, NEW b \in DOMAIN vecuint8,
                      NEW m \in {handled[i].msg : i \in 1..Len(handled)}
                                  \cup ToSet(ListOf(b)),
                      m.conn = conn[b],
                      NEW w \in Ids(vecuint8[b]) \cup Ids(inbound[b])
               PROVE  m.id < w
    BY DEF LaterBatchesAreNewer
  <2>1. b \in Bev /\ vecuint8[b] \in Seq(Msg) /\ inbound[b] \in Seq(Msg)
    BY ListFacts DEF HandlerInv
  <2>2. m \in Taken
    BY <2>1, TakenIs DEF Done, BatchOf
  <2>3. Ids(vecuint8[b]) = IdsOf(BufferOf[b]) /\ Ids(inbound[b]) = IdsOf(SocketOf[b])
    BY <2>1, IdsOfSeq DEF BufferOf, SocketOf
  <2>4. PICK n \in SocketOf[b] \cup BufferOf[b] : n.id = w
    BY <2>3 DEF IdsOf
  <2>5. QED
    BY <2>1, <2>2, <2>4 DEF HandlerInv, PlaceInv, WaitingIsNewer
<1>2. QED
  BY <1>1, HandlerInvariant, PTL

\* The invariant gives what the simulation needs, in both states.
LEMMA HandlerMaps == HandlerInv => MapsInv
  BY PlacesTyped, StageMapIs DEF HandlerInv, MapsInv, TcpInv, TcpTypeOK

LEMMA MapsInvNext == HandlerInv' => MapsInv'
  BY HandlerMaps, PTL

\* The initial states agree.
LEMMA LifeInit == TcpInit => Life!Init
<1> SUFFICES ASSUME TcpInit PROVE Life!Init
  OBVIOUS
<1>1. MapsInv
  BY HandlerInvInit, HandlerMaps
<1>2. \A m : m \notin Known
  <2>1. ToSet(<<>>) = {}
    BY DEF ToSet
  <2>2. QED
    BY <2>1, KnownIs DEF TcpInit, SocketOf, BufferOf, BatchOf, ListOf, Done
<1>3. \A id \in 1..MaxMsg : StageMap[id] = "unsent" /\ OwnerMap[id] = 0
  BY <1>1, <1>2, EvTcpAssumption DEF MapsInv, StageIsPlace, TcpInit
<1>4. LogMap = <<>> /\ trimmed = {}
  BY DEF TcpInit, LogMap
<1>5. QED
  BY <1>1, <1>3, <1>4 DEF Life!Init, MapsInv, StageIsPlace

(* The handler implements MessageLife: no message is taken out of order of *)
(* its batch, lost once it is in a batch, or handled twice, in spite of    *)
(* two threads, reused addresses and connections freed at any time.        *)
THEOREM HandlerImplementsLife == TcpSpec => MessagesLiveTheirLife
<1>1. HandlerInv /\ [TcpNext]_tcpVars => [Life!Next]_(Life!lifeVars)
  <2> SUFFICES ASSUME HandlerInv, [TcpNext]_tcpVars
               PROVE  Life!Next \/ UNCHANGED lifeMaps
    BY DEF Life!lifeVars, lifeMaps
  <2>1. PlaceNext /\ HandlerInv'
    BY HandlerInvStep
  <2>2. QED
    BY <2>1, HandlerMaps, MapsInvNext, PlaceSimulation
<1>2. QED
  BY <1>1, LifeInit, HandlerInvariant, PTL
  DEF TcpSpec, MessagesLiveTheirLife, Life!Spec
=============================================================================
