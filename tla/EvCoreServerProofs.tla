------------------------- MODULE EvCoreServerProofs -------------------------
(* Proofs about EvCoreServer and the end of its life, Shutdown.  The       *)
(* broker is shown to implement EvTcpHandler, so that everything           *)
(* EvTcpHandlerProofs says of any subclass holds of it; its lists of       *)
(* subscribers and the loop of ProcPub over them are shown to stay in      *)
(* step; and its destruction frees what it has to, when nobody uses it.    *)
EXTENDS Shutdown, EvTcpHandlerProofs, FiniteSetTheorems

(* What HandleOneProtocolData does is a step of the base class or none.    *)
(* Only what SendDataToClient has found in the map is passed on, hence the *)
(* type invariant is all it takes to see that the pointer is an address.   *)
LEMMA VirtualSimulation ==
  ASSUME TcpInv, HandleOneProtocolData
  PROVE  VirtualNext \/ UNCHANGED tcpVars
<1>1. CASE ProcHeartBeat \/ ProcPubQuery \/ ProcSub \/ ProcSubCancel
             \/ PubUnknown \/ PubEnd \/ EchoNotFound \/ EchoEnd
  BY <1>1 DEF ProcHeartBeat, ProcPubQuery, ProcSub, ProcSubCancel, PubUnknown,
              PubEnd, EchoNotFound, EchoEnd, VirtualNext
<1>2. CASE PubBegin \/ PubNotFound
  BY <1>2 DEF PubBegin, PubNotFound
<1>3. ASSUME NEW b, SendDataToClient(b)
      PROVE  b \in Bev
  BY <1>3 DEF SendDataToClient, TcpInv, TcpTypeOK, IsBevMap
<1>4. CASE PubSend
  BY <1>3, <1>4 DEF PubSend, VirtualNext
<1>5. CASE EchoSend
  BY <1>3, <1>5 DEF EchoSend, VirtualNext
<1>6. CASE PubWritten
  BY <1>6 DEF PubWritten, VirtualNext
<1>7. CASE PubWriteFailed
  BY <1>7 DEF PubWriteFailed, VirtualNext
<1>8. CASE EchoWrite
  BY <1>8 DEF EchoWrite, VirtualNext
<1>9. QED
  BY <1>1, <1>2, <1>4, <1>5, <1>6, <1>7, <1>8 DEF HandleOneProtocolData

LEMMA CoreSimulation ==
  ASSUME TcpInv, [CoreNext]_coreVars
  PROVE  [TcpNext]_tcpVars
<1>1. CASE UNCHANGED coreVars
  BY <1>1 DEF coreVars
<1>2. CASE CoreNext
  <2>1. CASE PeerNext /\ UNCHANGED <<subVars, procVars>>
    BY <2>1 DEF TcpNext
  <2>2. CASE \E b \in Bev : EventThread(b)
    BY <2>2 DEF EventThread, TcpNext
  <2>3. CASE HandlerThread
    BY <2>3, VirtualSimulation DEF HandlerThread, TcpNext
  <2>4. QED
    BY <1>2, <2>1, <2>2, <2>3 DEF CoreNext
<1>3. QED
  BY <1>1, <1>2

\* The invariant of the base class is one of the broker.
THEOREM CoreInvariant == CoreSpec => []TcpInv
<1>1. CoreInit => TcpInv
  BY TcpInitInv DEF CoreInit
<1>2. ASSUME TcpInv, [CoreNext]_coreVars
      PROVE  TcpInv'
  BY <1>2, CoreSimulation, TcpInvStep
<1>3. QED
  BY <1>1, <1>2, PTL DEF CoreSpec

(* The broker implements the handler: whatever it does with its lists of   *)
(* subscribers, it never leaves the protocol of the base class.            *)
THEOREM CoreImplementsTcp == CoreSpec => TcpSpec
<1>1. CoreInit => TcpInit
  BY DEF CoreInit
<1>2. TcpInv /\ [CoreNext]_coreVars => [TcpNext]_tcpVars
  BY CoreSimulation
<1>3. QED
  BY <1>1, <1>2, CoreInvariant, PTL DEF CoreSpec, TcpSpec

(* No subscriber's pointer, however old, is ever used after it was freed.  *)
THEOREM CoreNeverUsesAfterFree == CoreSpec => []NoUseAfterFree
  BY CoreImplementsTcp, NeverUsedAfterFree, PTL

(* The messages of the broker live the life MessageLife promises: nothing  *)
(* is handled twice, and what is handled was sent by its own connection.   *)
THEOREM CoreImplementsLife == CoreSpec => MessagesLiveTheirLife
  BY CoreImplementsTcp, HandlerImplementsLife, PTL

(* Across batches the broker handles the messages of a connection in the   *)
(* order they were sent.                                                   *)
THEOREM CoreKeepsBatchOrder == CoreSpec => []LaterBatchesAreNewer
  BY CoreImplementsTcp, LaterBatchesAlwaysNewer, PTL

-----------------------------------------------------------------------------
(* Lists: what erase, remove and push_front do to them.                    *)

(* Erasing at an iterator: what is before it stays where it is, what is    *)
(* behind it moves up.                                                     *)
LEMMA RemoveAtIs ==
  ASSUME NEW S, NEW s \in Seq(S), NEW i \in 1..Len(s)
  PROVE  /\ RemoveAt(s, i) \in Seq(S)
         /\ Len(RemoveAt(s, i)) = Len(s) - 1
         /\ \A j \in 1..(Len(s) - 1) :
              RemoveAt(s, i)[j] = IF j < i THEN s[j] ELSE s[j + 1]
<1> DEFINE front == SubSeq(s, 1, i - 1)
           back  == SubSeq(s, i + 1, Len(s))
<1>1. i \in Nat /\ i >= 1 /\ i <= Len(s) /\ Len(s) \in Nat
  OBVIOUS
<1>2. /\ front \in Seq(S) /\ Len(front) = i - 1
      /\ \A j \in 1..(i - 1) : front[j] = s[j]
  BY <1>1
<1>3. /\ back \in Seq(S) /\ Len(back) = Len(s) - i
      /\ \A j \in 1..(Len(s) - i) : back[j] = s[i + j]
  BY <1>1
<1>4. RemoveAt(s, i) = front \o back
  BY DEF RemoveAt
<1> HIDE DEF front, back
<1>5. front \o back \in Seq(S) /\ Len(front \o back) = Len(s) - 1
  <2>1. front \o back \in Seq(S) /\ Len(front \o back) = Len(front) + Len(back)
    BY <1>2, <1>3
  <2>2. QED
    BY <1>1, <1>2, <1>3, <2>1
<1>6. ASSUME NEW j \in 1..(Len(s) - 1)
      PROVE  (front \o back)[j] = IF j < i THEN s[j] ELSE s[j + 1]
  <2>1. CASE j < i
    BY <1>1, <1>2, <1>3, <2>1
  <2>2. CASE ~(j < i)
    <3>1. j - (i - 1) \in 1..(Len(s) - i) /\ i + (j - (i - 1)) = j + 1
      BY <1>1, <2>2
    <3>2. (front \o back)[j] = back[j - (i - 1)]
      BY <1>1, <1>2, <1>3, <2>2
    <3>3. back[j - (i - 1)] = s[i + (j - (i - 1))]
      BY <1>3, <3>1
    <3>4. QED
      BY <2>2, <3>1, <3>2, <3>3
  <2>3. QED
    BY <2>1, <2>2
<1>7. QED
  BY <1>4, <1>5, <1>6

\* The ranks of a finite set of numbers are 1, 2, ... in their order.
LEMMA RankIs ==
  ASSUME NEW n \in Nat, NEW K, K \subseteq 1..n
  PROVE  /\ IsFiniteSet(K) /\ Cardinality(K) \in Nat
         /\ Rank(K) \in [K -> 1..Cardinality(K)]
         /\ \A i, j \in K : Rank(K)[i] = Rank(K)[j] => i = j
         /\ \A k \in 1..Cardinality(K) : \E i \in K : Rank(K)[i] = k
<1> DEFINE upto(i) == {j \in K : j <= i}
<1>1. IsFiniteSet(1..n) /\ IsFiniteSet(K) /\ Cardinality(K) \in Nat
  <2>1. IsFiniteSet(1..n)
    BY FS_Interval
  <2>2. IsFiniteSet(K)
    BY <2>1, FS_Subset
  <2>3. QED
    BY <2>1, <2>2, FS_CardinalityType
<1>2. ASSUME NEW i \in K
      PROVE  /\ IsFiniteSet(upto(i)) /\ Cardinality(upto(i)) \in Nat
             /\ Cardinality(upto(i)) <= Cardinality(K)
             /\ Cardinality(upto(i)) # 0
  <2>1. upto(i) \subseteq K /\ i \in upto(i)
    OBVIOUS
  <2>2. IsFiniteSet(upto(i)) /\ Cardinality(upto(i)) <= Cardinality(K)
    BY <1>1, <2>1, FS_Subset
  <2>3. Cardinality(upto(i)) \in Nat /\ Cardinality(upto(i)) # 0
    BY <2>1, <2>2, FS_CardinalityType, FS_EmptySet
  <2>4. QED
    BY <2>2, <2>3
<1>3. ASSUME NEW i \in K, NEW j \in K, i < j
      PROVE  Cardinality(upto(i)) # Cardinality(upto(j))
  <2>1. \A k \in K : k \in Int
    OBVIOUS
  <2>2. upto(i) \subseteq upto(j) /\ j \in upto(j) /\ j \notin upto(i)
    <3>1. i \in Int /\ j \in Int
      BY <2>1
    <3>2. \A k \in Int : k <= i => k <= j
      BY <1>3, <3>1
    <3>3. j <= j /\ ~(j <= i)
      BY <1>3, <3>1
    <3>4. QED
      BY <2>1, <3>2, <3>3
  <2>3. Cardinality(upto(i)) = Cardinality(upto(j)) => upto(i) = upto(j)
    BY <1>2, <2>2, FS_Subset
  <2>4. QED
    BY <2>2, <2>3
<1>4. \A i \in K : Rank(K)[i] = Cardinality(upto(i))
  BY DEF Rank
<1>5. Rank(K) \in [K -> 1..Cardinality(K)]
  <2>1. \A i \in K : Cardinality(upto(i)) \in 1..Cardinality(K)
    BY <1>1, <1>2
  <2> HIDE DEF upto
  <2>2. Rank(K) = [i \in K |-> Cardinality(upto(i))]
    BY DEF Rank, upto
  <2>3. QED
    BY <2>1, <2>2
<1>6. \A i, j \in K : Rank(K)[i] = Rank(K)[j] => i = j
  <2>1. ASSUME NEW i \in K, NEW j \in K, i # j
        PROVE  Rank(K)[i] # Rank(K)[j]
    <3>1. i < j \/ j < i
      BY <2>1
    <3> HIDE DEF upto
    <3>2. QED
      BY <1>3, <1>4, <3>1
  <2>2. QED
    BY <2>1
<1>7. Rank(K) \in Injection(K, 1..Cardinality(K))
  BY <1>5, <1>6 DEF Injection, IsInjective
<1>8. /\ IsFiniteSet(1..Cardinality(K))
      /\ Cardinality(1..Cardinality(K)) = Cardinality(K)
  BY <1>1, FS_Interval
<1>9. Rank(K) \in Surjection(K, 1..Cardinality(K))
  BY <1>7, <1>8, FS_Injection
<1>10. QED
  BY <1>1, <1>5, <1>6, <1>9 DEF Surjection

\* The places of the entries that are not of b.
Others(list, b) == {i \in 1..Len(list) : list[i] # b}

(* std::list::remove leaves no entry of b, invents none, and keeps every   *)
(* entry of the others in a place of its own.                              *)
LEMMA CancelAllIs ==
  ASSUME NEW S, NEW list \in Seq(S), NEW b
  PROVE  /\ CancelAll(list, b) \in Seq(S)
         /\ \A k \in 1..Len(CancelAll(list, b)) :
              \E i \in Others(list, b) : CancelAll(list, b)[k] = list[i]
         /\ \A i \in Others(list, b) :
              /\ Rank(Others(list, b))[i] \in 1..Len(CancelAll(list, b))
              /\ CancelAll(list, b)[Rank(Others(list, b))[i]] = list[i]
         /\ \A i, j \in Others(list, b) :
              Rank(Others(list, b))[i] = Rank(Others(list, b))[j] => i = j
<1> DEFINE kept == Others(list, b)
           rest == CancelAll(list, b)
           n    == Cardinality(kept)
           at(k) == CHOOSE i \in kept : Rank(kept)[i] = k
<1>1. kept \subseteq 1..Len(list) /\ Len(list) \in Nat
  BY DEF Others
<1>2. rest = [k \in 1..n |-> list[at(k)]]
  BY DEF CancelAll, Others
<1>3. \A i \in kept : list[i] \in S
  BY DEF Others
<1> HIDE DEF kept
<1>4. /\ n \in Nat /\ Rank(kept) \in [kept -> 1..n]
      /\ \A i, j \in kept : Rank(kept)[i] = Rank(kept)[j] => i = j
      /\ \A k \in 1..n : \E i \in kept : Rank(kept)[i] = k
  BY <1>1, RankIs
<1>5. \A k \in 1..n : at(k) \in kept /\ Rank(kept)[at(k)] = k
  BY <1>4
<1>6. \A i \in kept : Rank(kept)[i] \in 1..n /\ at(Rank(kept)[i]) = i
  BY <1>4, <1>5
<1> HIDE DEF at, rest, n
<1>7. rest \in Seq(S) /\ Len(rest) = n
  BY <1>2, <1>3, <1>4, <1>5
<1>8. \A k \in 1..n : rest[k] = list[at(k)]
  BY <1>2
<1>9. \A i \in kept : rest[Rank(kept)[i]] = list[i]
  BY <1>6, <1>8
<1>10. \A k \in 1..n : \E i \in kept : rest[k] = list[i]
  BY <1>5, <1>8
<1>11. QED
  BY <1>4, <1>6, <1>7, <1>9, <1>10 DEF kept, rest

\* There are finitely many.
LEMMA PlacesFinite ==
  ASSUME NEW S, NEW list \in Seq(S), NEW b
  PROVE  IsFiniteSet(Places(list, b)) /\ Cardinality(Places(list, b)) \in Nat
<1>1. Places(list, b) \subseteq 1..Len(list) /\ Len(list) \in Nat
  BY DEF Places
<1>2. IsFiniteSet(1..Len(list))
  BY <1>1, FS_Interval
<1>3. IsFiniteSet(Places(list, b))
  BY <1>1, <1>2, FS_Subset
<1>4. QED
  BY <1>3, FS_CardinalityType

(* A list has not lost an entry of b when each of them has a place of its  *)
(* own in the new list.                                                    *)
LEMMA NoneLost ==
  ASSUME NEW S, NEW s \in Seq(S), NEW t \in Seq(S), NEW b, NEW f,
         \A i \in Places(s, b) : f[i] \in Places(t, b),
         \A i, j \in Places(s, b) : f[i] = f[j] => i = j
  PROVE  ~(Cardinality(Places(t, b)) < Cardinality(Places(s, b)))
<1> DEFINE F == [i \in Places(s, b) |-> f[i]]
<1>1. F \in Injection(Places(s, b), Places(t, b))
  BY DEF Injection, IsInjective
<1>2. Cardinality(Places(s, b)) <= Cardinality(Places(t, b))
  BY <1>1, PlacesFinite, FS_Injection
<1>3. QED
  BY <1>2, PlacesFinite

-----------------------------------------------------------------------------
(* The lists of subscribers and the loop of ProcPub.                       *)

CoreTypeOK ==
  /\ DOMAIN listsubbev \subseteq Name
  /\ listsubbev \in [DOMAIN listsubbev -> Seq(Bev)]
  /\ proc \in {"dispatch", "pub", "echo"}
  /\ it \in Nat /\ copies \in [Bev -> Nat]

\* HandleOneProtocolData is where the type of its message has sent it.
CalledFor ==
  /\ proc = "pub" => CurProtocol.body.type = "PUB"
  /\ proc = "echo" => CurProtocol.body.type = "OTHER"

\* The last thing b has asked for about n is to be told of it.
LastAskedIsSub(b, n) ==
  \E i \in Requests(b, n) :
    /\ handled[i].msg.body.type = "SUB"
    /\ \A j \in Requests(b, n) : j <= i

\* EntryHasLiveRequest, without the choice of the last request.
EntriesAreAskedFor ==
  \A n \in DOMAIN listsubbev : \A k \in 1..Len(listsubbev[n]) :
    LastAskedIsSub(listsubbev[n][k], n)

CoreInv ==
  /\ TcpInv
  /\ CoreTypeOK /\ CalledFor
  /\ IteratorAtTarget /\ CopiesMatchEntries
  /\ EntriesAreAskedFor

\* The message being handled says what the subclass reads.
LEMMA CurIsMsg ==
  ASSUME TcpInv, pc \in {"call", "write"}
  PROVE  /\ CurProtocol \in Msg /\ epair \in Bev
         /\ CurProtocol.body \in [type : Type, name : Name]
         /\ CurName \in Name
<1>1. epair \in DOMAIN listvecProtocol /\ evec \in 1..Len(listvecProtocol[epair])
  BY DEF TcpInv, IteratorsValid
<1>2. epair \in Bev /\ listvecProtocol[epair] \in Seq(Msg)
  BY <1>1 DEF TcpInv, TcpTypeOK, IsBevMap
<1>3. CurProtocol \in Msg
  BY <1>1, <1>2 DEF CurProtocol
<1>4. CurProtocol.body \in [type : Type, name : Name]
  BY <1>3, EvCoreAssumption DEF Msg
<1>5. QED
  BY <1>2, <1>3, <1>4 DEF CurName

LEMMA CurKept ==
  UNCHANGED <<listvecProtocol, epair, evec>> =>
    CurProtocol' = CurProtocol /\ CurName' = CurName
  BY DEF CurProtocol, CurName

\* Requests are read off the history alone.
LEMMA AskedKept ==
  ASSUME handled' = handled, NEW b, NEW n, LastAskedIsSub(b, n)
  PROVE  LastAskedIsSub(b, n)'
  BY DEF LastAskedIsSub, Requests

(* Entries that are still in a list of the same name are asked for as      *)
(* before when nothing has been handled.                                   *)
LEMMA FewerEntries ==
  ASSUME EntriesAreAskedFor, handled' = handled,
         \A n \in DOMAIN listsubbev' :
           \A k \in 1..Len(listsubbev'[n]) :
             /\ n \in DOMAIN listsubbev
             /\ \E j \in 1..Len(listsubbev[n]) :
                  listsubbev'[n][k] = listsubbev[n][j]
  PROVE  EntriesAreAskedFor'
<1>1. ASSUME NEW n \in DOMAIN listsubbev', NEW k \in 1..Len(listsubbev'[n])
      PROVE  LastAskedIsSub(listsubbev[n][k], n)'
  <2>1. n \in DOMAIN listsubbev
    BY <1>1
  <2>2. PICK j \in 1..Len(listsubbev[n]) : listsubbev'[n][k] = listsubbev[n][j]
    BY <1>1
  <2>3. LastAskedIsSub(listsubbev[n][j], n)
    BY <2>1 DEF EntriesAreAskedFor
  <2>4. LastAskedIsSub(listsubbev'[n][k], n)
    BY <2>2, <2>3
  <2>5. QED
    BY <2>4 DEF LastAskedIsSub, Requests
<1>2. QED
  BY <1>1 DEF EntriesAreAskedFor

\* A step that does not concern the broker's lists.
LEMMA OutsideStep ==
  ASSUME CoreInv, TcpInv', UNCHANGED <<subVars, procVars, handled>>,
         \/ UNCHANGED handlerVars
         \/ proc = "dispatch" /\ pc' # "write"
  PROVE  CoreInv'
<1>1. UNCHANGED <<listsubbev, proc, it, copies>>
  BY DEF subVars, procVars
<1>2. CoreTypeOK'
  BY <1>1 DEF CoreInv, CoreTypeOK
<1>3. EntriesAreAskedFor'
  BY <1>1 DEF CoreInv, EntriesAreAskedFor, LastAskedIsSub, Requests
<1>4. CASE UNCHANGED handlerVars
  <2>1. UNCHANGED <<pc, target, listvecProtocol, epair, evec>>
    BY <1>4 DEF handlerVars, loopVars
  <2>2. CalledFor' /\ IteratorAtTarget' /\ CopiesMatchEntries'
    BY <1>1, <2>1, CurKept
    DEF CoreInv, CalledFor, IteratorAtTarget, InLoop, CopiesMatchEntries
  <2>3. QED
    BY <1>2, <1>3, <2>2 DEF CoreInv
<1>5. CASE proc = "dispatch" /\ pc' # "write"
  <2>1. CalledFor' /\ IteratorAtTarget' /\ CopiesMatchEntries'
    BY <1>1, <1>5 DEF CalledFor, IteratorAtTarget, CopiesMatchEntries
  <2>2. QED
    BY <1>2, <1>3, <2>1 DEF CoreInv
<1>6. QED
  BY <1>4, <1>5

(* A step inside HandleOneProtocolData, which is about the same message    *)
(* before and after: lists may lose entries, nothing is handled.           *)
LEMMA InsideStep ==
  ASSUME CoreInv, TcpInv', pc \in {"call", "write"},
         UNCHANGED <<listvecProtocol, epair, evec, handled>>,
         CoreTypeOK', CalledFor', IteratorAtTarget', CopiesMatchEntries',
         \A n \in DOMAIN listsubbev' :
           \A k \in 1..Len(listsubbev'[n]) :
             /\ n \in DOMAIN listsubbev
             /\ \E j \in 1..Len(listsubbev[n]) :
                  listsubbev'[n][k] = listsubbev[n][j]
  PROVE  CoreInv'
<1>1. EntriesAreAskedFor'
  BY FewerEntries DEF CoreInv
<1>2. QED
  BY <1>1 DEF CoreInv

\* Nothing has been passed yet.
LEMMA PubBeginStep ==
  ASSUME CoreInv, TcpInv', PubBegin
  PROVE  CoreInv'
<1>1. /\ pc = "call" /\ CurProtocol.body.type = "PUB"
      /\ CurName \in DOMAIN listsubbev
      /\ proc' = "pub" /\ it' = 1 /\ copies' = [b \in Bev |-> 0]
      /\ UNCHANGED <<listsubbev, pc, listvecProtocol, epair, evec, handled>>
  BY DEF PubBegin, Called, subVars, tcpVars, handlerVars, loopVars
<1>2. CurProtocol' = CurProtocol /\ CurName' = CurName
  BY <1>1, CurKept
<1>3. CoreTypeOK' /\ CalledFor'
  BY <1>1, <1>2 DEF CoreInv, CoreTypeOK, CalledFor
<1>4. Len(listsubbev[CurName]) \in Nat
  BY <1>1 DEF CoreInv, CoreTypeOK
<1>5. IteratorAtTarget'
  BY <1>1, <1>2, <1>4 DEF IteratorAtTarget
<1>6. CopiesMatchEntries'
  <2>1. ASSUME NEW b \in Bev
        PROVE  {i \in 1..Len(listsubbev[CurName]) :
                  i < 1 /\ listsubbev[CurName][i] = b} = {}
    BY <1>4
  <2>2. Cardinality({}) = 0
    BY FS_EmptySet
  <2>3. QED
    BY <1>1, <1>2, <2>1, <2>2 DEF CopiesMatchEntries
<1>7. QED
  BY <1>1, <1>3, <1>5, <1>6, InsideStep

LEMMA PubSendStep ==
  ASSUME CoreInv, TcpInv', PubSend
  PROVE  CoreInv'
<1>1. /\ pc = "call" /\ InLoop /\ pc' = "write"
      /\ target' = listsubbev[CurName][it]
      /\ UNCHANGED <<listsubbev, proc, it, copies, listvecProtocol, epair, evec,
                     handled>>
  BY DEF PubSend, SendDataToClient, subVars, procVars, loopVars
<1>2. CurProtocol' = CurProtocol /\ CurName' = CurName
  BY <1>1, CurKept
<1>3. CoreTypeOK' /\ CalledFor' /\ IteratorAtTarget' /\ CopiesMatchEntries'
  BY <1>1, <1>2
  DEF CoreInv, CoreTypeOK, CalledFor, IteratorAtTarget, InLoop,
      CopiesMatchEntries
<1>4. QED
  BY <1>1, <1>3, InsideStep

\* The entry at the iterator is passed, and has its copy.
LEMMA PubWrittenStep ==
  ASSUME CoreInv, TcpInv', PubWritten
  PROVE  CoreInv'
<1> DEFINE list == listsubbev[CurName]
           passed(b, i) == {j \in 1..Len(list) : j < i /\ list[j] = b}
<1>1. /\ pc = "write" /\ proc = "pub" /\ pc' = "call" /\ it' = it + 1
      /\ copies' = [copies EXCEPT ![target] = @ + 1]
      /\ UNCHANGED <<listsubbev, proc, listvecProtocol, epair, evec, handled>>
  BY DEF PubWritten, BuffereventWrite, subVars, loopVars
<1>2. CurProtocol' = CurProtocol /\ CurName' = CurName
  BY <1>1, CurKept
<1>3. /\ CurName \in DOMAIN listsubbev /\ InLoop
      /\ it \in 1..Len(list) /\ list[it] = target
      /\ list \in Seq(Bev) /\ Len(list) \in Nat
  BY <1>1 DEF CoreInv, IteratorAtTarget, InLoop, CoreTypeOK
<1>4. target \in Bev
  BY <1>3
<1>5. CoreTypeOK' /\ CalledFor'
  BY <1>1, <1>2, <1>4 DEF CoreInv, CoreTypeOK, CalledFor
<1>6. IteratorAtTarget'
  BY <1>1, <1>2, <1>3 DEF IteratorAtTarget
<1>7. ASSUME NEW b \in Bev
      PROVE  copies'[b] = Cardinality(passed(b, it + 1))
  <2>1. copies[b] = Cardinality(passed(b, it))
    BY <1>1 DEF CoreInv, CopiesMatchEntries
  <2>2. CASE b = target
    <3>1. passed(b, it + 1) = passed(b, it) \cup {it} /\ it \notin passed(b, it)
      BY <1>3, <2>2
    <3>2. IsFiniteSet(1..Len(list)) /\ passed(b, it) \subseteq 1..Len(list)
      BY <1>3, FS_Interval
    <3>3. IsFiniteSet(passed(b, it))
      BY <3>2, FS_Subset
    <3> HIDE DEF passed
    <3>4. Cardinality(passed(b, it + 1)) = Cardinality(passed(b, it)) + 1
      BY <3>1, <3>3, FS_AddElement
    <3>5. copies'[b] = copies[b] + 1
      BY <1>1, <2>2 DEF CoreInv, CoreTypeOK
    <3>6. QED
      BY <2>1, <3>4, <3>5
  <2>3. CASE b # target
    <3>1. passed(b, it + 1) = passed(b, it)
      BY <1>3, <2>3
    <3> HIDE DEF passed
    <3>2. copies'[b] = copies[b]
      BY <1>1, <2>3 DEF CoreInv, CoreTypeOK
    <3>3. QED
      BY <2>1, <3>1, <3>2
  <2>4. QED
    BY <2>2, <2>3
<1>8. CopiesMatchEntries'
  BY <1>1, <1>2, <1>7 DEF CopiesMatchEntries
<1>9. QED
  BY <1>1, <1>5, <1>6, <1>8, InsideStep

(* The entry at the iterator is erased: what has been passed stays, and    *)
(* the iterator is at the next entry or at the end.                        *)
LEMMA EraseStep ==
  ASSUME CoreInv, TcpInv', pc \in {"call", "write"}, InLoop, EraseIt,
         pc' = "call",
         UNCHANGED <<proc, copies, listvecProtocol, epair, evec, handled>>
  PROVE  CoreInv'
<1> DEFINE list == listsubbev[CurName]
           rest == RemoveAt(list, it)
<1>1. CurProtocol' = CurProtocol /\ CurName' = CurName
  BY CurKept
<1>2. /\ proc = "pub" /\ CurName \in DOMAIN listsubbev
      /\ list \in Seq(Bev) /\ Len(list) \in Nat /\ it \in 1..Len(list)
  BY DEF CoreInv, IteratorAtTarget, InLoop, CoreTypeOK
<1>3. /\ rest \in Seq(Bev) /\ Len(rest) = Len(list) - 1
      /\ \A j \in 1..(Len(list) - 1) :
           rest[j] = IF j < it THEN list[j] ELSE list[j + 1]
  BY <1>2, RemoveAtIs
<1>4. /\ it' = it /\ DOMAIN listsubbev' = DOMAIN listsubbev
      /\ listsubbev'[CurName] = rest
      /\ \A n \in DOMAIN listsubbev : n # CurName => listsubbev'[n] = listsubbev[n]
  BY <1>2 DEF EraseIt
<1> HIDE DEF rest
<1>5. CoreTypeOK'
  <2>1. listsubbev' = [listsubbev EXCEPT ![CurName] = rest]
    BY DEF EraseIt, rest
  <2>2. QED
    BY <1>3, <1>4, <2>1 DEF CoreInv, CoreTypeOK
<1>6. CalledFor'
  BY <1>1 DEF CoreInv, CalledFor
<1>7. IteratorAtTarget'
  BY <1>1, <1>2, <1>3, <1>4 DEF IteratorAtTarget
<1>8. CopiesMatchEntries'
  <2>1. ASSUME NEW b \in Bev
        PROVE  {i \in 1..Len(rest) : i < it /\ rest[i] = b}
                 = {i \in 1..Len(list) : i < it /\ list[i] = b}
    BY <1>2, <1>3
  <2>2. QED
    BY <1>1, <1>2, <1>4, <2>1 DEF CoreInv, CopiesMatchEntries
<1>9. ASSUME NEW n \in DOMAIN listsubbev', NEW k \in 1..Len(listsubbev'[n])
      PROVE  /\ n \in DOMAIN listsubbev
             /\ \E j \in 1..Len(listsubbev[n]) :
                  listsubbev'[n][k] = listsubbev[n][j]
  <2>1. CASE n = CurName
    <3>1. k \in 1..(Len(list) - 1)
      BY <1>3, <1>4, <1>9, <2>1
    <3>2. k \in 1..Len(list) /\ k + 1 \in 1..Len(list)
      BY <1>2, <3>1
    <3>3. QED
      BY <1>2, <1>3, <1>4, <2>1, <3>1, <3>2
  <2>2. CASE n # CurName
    BY <1>4, <1>9, <2>2
  <2>3. QED
    BY <2>1, <2>2
<1>10. QED
  BY <1>5, <1>6, <1>7, <1>8, <1>9, InsideStep

LEMMA PubEraseStep ==
  ASSUME CoreInv, TcpInv', PubNotFound \/ PubWriteFailed
  PROVE  CoreInv'
<1>1. /\ pc \in {"call", "write"} /\ pc' = "call" /\ EraseIt
      /\ UNCHANGED <<proc, copies, listvecProtocol, epair, evec, handled>>
  BY DEF PubNotFound, PubWriteFailed, BuffereventWrite, tcpVars, handlerVars,
         loopVars
<1>2. InLoop
  BY DEF PubNotFound, PubWriteFailed, CoreInv, IteratorAtTarget
<1>3. QED
  BY <1>1, <1>2, EraseStep

LEMMA EchoStep ==
  ASSUME CoreInv, TcpInv', EchoSend \/ EchoWrite
  PROVE  CoreInv'
<1>1. /\ pc \in {"call", "write"} /\ pc' \in {"call", "write"}
      /\ proc' = "echo" /\ CurProtocol.body.type = "OTHER"
      /\ UNCHANGED <<listsubbev, it, copies, listvecProtocol, epair, evec,
                     handled>>
  BY DEF EchoSend, EchoWrite, Called, SendDataToClient, BuffereventWrite,
         subVars, procVars, loopVars, CoreInv, CalledFor
<1>2. CurProtocol' = CurProtocol
  BY <1>1, CurKept
<1>3. CoreTypeOK' /\ CalledFor' /\ IteratorAtTarget' /\ CopiesMatchEntries'
  BY <1>1, <1>2
  DEF CoreInv, CoreTypeOK, CalledFor, IteratorAtTarget, CopiesMatchEntries
<1>4. QED
  BY <1>1, <1>3, InsideStep

(* HandleOneProtocolData returns: the message it was called with is the    *)
(* last of the history.                                                    *)
LEMMA ReturnIs ==
  ASSUME TcpInv, HandleReturn
  PROVE  /\ pc = "call" /\ pc' = "handle"
         /\ epair \in Bev /\ CurProtocol \in Msg
         /\ CurName \in Name
         /\ CurProtocol.body \in [type : Type, name : Name]
         /\ Len(handled) \in Nat /\ Len(handled') = Len(handled) + 1
         /\ \A i \in 1..Len(handled) : handled'[i] = handled[i]
         /\ handled'[Len(handled) + 1] = [bev |-> epair, msg |-> CurProtocol]
<1>1. pc = "call" /\ pc' = "handle"
  BY DEF HandleReturn
<1>2. CurProtocol \in Msg /\ epair \in Bev /\ CurName \in Name
      /\ CurProtocol.body \in [type : Type, name : Name]
  BY <1>1, CurIsMsg
<1>3. handled' = Append(handled, [bev |-> epair, msg |-> CurProtocol])
  BY DEF HandleReturn
<1>4. handled \in Seq([bev : Bev, msg : Msg])
  BY DEF TcpInv, TcpTypeOK
<1>5. [bev |-> epair, msg |-> CurProtocol] \in [bev : Bev, msg : Msg]
  BY <1>2
<1> DEFINE e == [bev |-> epair, msg |-> CurProtocol]
           R == [bev : Bev, msg : Msg]
<1>6. handled \in Seq(R) /\ e \in R /\ handled' = Append(handled, e)
  BY <1>3, <1>4, <1>5
<1> HIDE DEF e, R
<1>7. /\ Len(handled) \in Nat /\ Len(handled') = Len(handled) + 1
      /\ \A i \in 1..Len(handled) : handled'[i] = handled[i]
      /\ handled'[Len(handled) + 1] = e
  BY <1>6
<1>8. QED
  BY <1>1, <1>2, <1>7 DEF e

\* A return that is no (un)subscription of b to n leaves its requests alone.
LEMMA NotAsked ==
  ASSUME TcpInv, HandleReturn, NEW b, NEW n, LastAskedIsSub(b, n),
         \/ b # epair \/ n # CurName
         \/ CurProtocol.body.type \notin {"SUB", "SUB_CANCEL"}
  PROVE  LastAskedIsSub(b, n)'
<1> DEFINE L == Len(handled)
<1>1. /\ L \in Nat /\ Len(handled') = L + 1
      /\ \A i \in 1..L : handled'[i] = handled[i]
      /\ handled'[L + 1] = [bev |-> epair, msg |-> CurProtocol]
  BY ReturnIs
<1>2. /\ handled'[L + 1].bev = epair
      /\ handled'[L + 1].msg.body.name = CurName
      /\ handled'[L + 1].msg.body.type = CurProtocol.body.type
  BY <1>1 DEF CurName
<1>3. \A i \in 1..(L + 1) : i \in 1..L \/ i = L + 1
  BY <1>1
<1>4. \A i \in 1..L : i \in 1..(L + 1)
  BY <1>1
<1> HIDE DEF L
<1>5. Requests(b, n)' = Requests(b, n)
  BY <1>1, <1>2, <1>3, <1>4 DEF Requests, L
<1>6. \A i \in Requests(b, n) : handled'[i] = handled[i]
  BY <1>1 DEF Requests, L
<1>7. QED
  BY <1>5, <1>6 DEF LastAskedIsSub

\* A SUB that has been handled is the last thing its sender has asked.
LEMMA NowAsked ==
  ASSUME TcpInv, HandleReturn, CurProtocol.body.type = "SUB",
         NEW b, NEW n, b = epair, n = CurName
  PROVE  LastAskedIsSub(b, n)'
<1> DEFINE L == Len(handled)
<1>1. /\ L \in Nat /\ Len(handled') = L + 1
      /\ handled'[L + 1] = [bev |-> epair, msg |-> CurProtocol]
  BY ReturnIs
<1>2. /\ handled'[L + 1].bev = b
      /\ handled'[L + 1].msg.body.name = n
      /\ handled'[L + 1].msg.body.type = "SUB"
  BY <1>1 DEF CurName
<1>3. L + 1 \in 1..(L + 1) /\ \A j \in 1..(L + 1) : j <= L + 1
  BY <1>1
<1>4. L + 1 \in Requests(b, n)'
  BY <1>1, <1>2, <1>3 DEF Requests
<1>5. \A j \in Requests(b, n)' : j <= L + 1
  BY <1>1, <1>3 DEF Requests
<1>6. QED
  BY <1>2, <1>4, <1>5 DEF LastAskedIsSub

(* What is to be shown of a return: that the lists hold who has asked.     *)
LEMMA ReturnStep ==
  ASSUME CoreInv, TcpInv', HandleReturn, CoreTypeOK', proc' = "dispatch",
         EntriesAreAskedFor'
  PROVE  CoreInv'
<1>1. pc' = "handle"
  BY DEF HandleReturn
<1>2. CalledFor' /\ IteratorAtTarget' /\ CopiesMatchEntries'
  BY <1>1 DEF CalledFor, IteratorAtTarget, CopiesMatchEntries
<1>3. QED
  BY <1>2 DEF CoreInv

LEMMA MapAssignType ==
  ASSUME NEW f, f \in [DOMAIN f -> Seq(Bev)], NEW k, NEW v \in Seq(Bev)
  PROVE  /\ DOMAIN MapAssign(f, k, v) = DOMAIN f \cup {k}
         /\ MapAssign(f, k, v) \in [DOMAIN MapAssign(f, k, v) -> Seq(Bev)]
<1> DEFINE g == MapAssign(f, k, v)
<1>1. g = [x \in DOMAIN f \cup {k} |-> IF x = k THEN v ELSE f[x]]
  BY DEF MapAssign
<1> HIDE DEF g
<1>2. \A x \in DOMAIN f \cup {k} : g[x] \in Seq(Bev)
  BY <1>1
<1>3. DOMAIN g = DOMAIN f \cup {k} /\ g \in [DOMAIN g -> Seq(Bev)]
  BY <1>1, <1>2
<1>4. QED
  BY <1>3 DEF g

\* The lists stay as they are; a publication of a new name makes an empty one.
LEMMA OtherReturn ==
  ASSUME CoreInv, TcpInv',
         \/ ProcHeartBeat \/ ProcPubQuery \/ PubUnknown \/ PubEnd
         \/ EchoNotFound \/ EchoEnd
  PROVE  CoreInv'
<1>1. /\ HandleReturn /\ proc' = "dispatch" /\ it' \in Nat
      /\ copies' \in [Bev -> Nat]
  BY DEF ProcHeartBeat, ProcPubQuery, PubUnknown, PubEnd, EchoNotFound,
         EchoEnd, Called, procVars, CoreInv, CoreTypeOK
<1>2. CurProtocol.body.type \notin {"SUB", "SUB_CANCEL"}
  BY DEF ProcHeartBeat, ProcPubQuery, PubUnknown, PubEnd, EchoNotFound,
         EchoEnd, Called, CoreInv, CalledFor
<1>3. CurName \in Name
  BY <1>1, ReturnIs DEF CoreInv
<1>4. \/ listsubbev' = listsubbev
      \/ listsubbev' = MapAssign(listsubbev, CurName, <<>>)
  BY DEF ProcHeartBeat, ProcPubQuery, PubUnknown, PubEnd, EchoNotFound,
         EchoEnd, subVars, EmptyList
<1>5. CoreTypeOK'
  <2>1. CASE listsubbev' = listsubbev
    BY <1>1, <2>1 DEF CoreInv, CoreTypeOK
  <2>2. CASE listsubbev' = MapAssign(listsubbev, CurName, <<>>)
    <3>1. <<>> \in Seq(Bev) /\ listsubbev \in [DOMAIN listsubbev -> Seq(Bev)]
      BY DEF CoreInv, CoreTypeOK
    <3>2. /\ DOMAIN listsubbev' = DOMAIN listsubbev \cup {CurName}
          /\ listsubbev' \in [DOMAIN listsubbev' -> Seq(Bev)]
      <4> DEFINE g == MapAssign(listsubbev, CurName, <<>>)
      <4>1. DOMAIN g = DOMAIN listsubbev \cup {CurName} /\ g \in [DOMAIN g -> Seq(Bev)]
        BY <3>1, MapAssignType
      <4> HIDE DEF g
      <4>2. QED
        BY <2>2, <4>1 DEF g
    <3>3. QED
      BY <1>1, <1>3, <3>2 DEF CoreInv, CoreTypeOK
  <2>3. QED
    BY <1>4, <2>1, <2>2
<1>6. ASSUME NEW n \in DOMAIN listsubbev', NEW k \in 1..Len(listsubbev'[n])
      PROVE  n \in DOMAIN listsubbev /\ listsubbev'[n] = listsubbev[n]
  <2>1. CASE listsubbev' = listsubbev
    BY <1>6, <2>1
  <2>2. CASE listsubbev' = MapAssign(listsubbev, CurName, <<>>)
    <3>1. n # CurName
      BY <1>6, <2>2 DEF MapAssign
    <3>2. QED
      BY <1>6, <2>2, <3>1 DEF MapAssign
  <2>3. QED
    BY <1>4, <2>1, <2>2
<1>7. ASSUME NEW n \in DOMAIN listsubbev', NEW k \in 1..Len(listsubbev'[n])
      PROVE  LastAskedIsSub(listsubbev[n][k], n)'
  <2>1. LastAskedIsSub(listsubbev[n][k], n)
    BY <1>6, <1>7 DEF CoreInv, EntriesAreAskedFor
  <2> DEFINE b == listsubbev[n][k]
  <2>2. listsubbev'[n][k] = b
    BY <1>6, <1>7
  <2>3. ASSUME NEW c, LastAskedIsSub(c, n), c = listsubbev'[n][k]
        PROVE  LastAskedIsSub(listsubbev[n][k], n)'
    BY <1>1, <1>2, <2>3, NotAsked DEF CoreInv
  <2>4. QED
    BY <2>1, <2>2, <2>3
<1>8. EntriesAreAskedFor'
  BY <1>7 DEF EntriesAreAskedFor
<1>9. QED
  BY <1>1, <1>5, <1>8, ReturnStep

\* Whoever subscribes is in front, the others are where they were before.
LEMMA SubscribeIs ==
  ASSUME CoreInv, NEW e \in Bev
  PROVE  LET old == Subscribers(CurName)
             new == Subscribe(old, e)
         IN  /\ old \in Seq(Bev) /\ new \in Seq(Bev)
             /\ Len(old) \in Nat /\ Len(new) = Len(old) + 1
             /\ new[1] = e
             /\ \A k \in 1..Len(old) : new[k + 1] = old[k]
<1> DEFINE old == Subscribers(CurName)
<1>1. old \in Seq(Bev)
  BY DEF Subscribers, CoreInv, CoreTypeOK
<1> HIDE DEF old
<1>2. /\ <<e>> \in Seq(Bev) /\ Len(<<e>>) = 1 /\ <<e>>[1] = e
      /\ Len(old) \in Nat
  BY <1>1
<1>3. /\ <<e>> \o old \in Seq(Bev) /\ Len(<<e>> \o old) = Len(old) + 1
      /\ (<<e>> \o old)[1] = e
  BY <1>1, <1>2
<1>4. ASSUME NEW k \in 1..Len(old)
      PROVE  (<<e>> \o old)[k + 1] = old[k]
  <2>1. k + 1 \in 1..(Len(old) + 1) /\ ~(k + 1 <= 1) /\ (k + 1) - 1 = k
    BY <1>2
  <2>2. QED
    BY <1>1, <1>2, <2>1
<1>5. QED
  BY <1>1, <1>2, <1>3, <1>4 DEF old, Subscribe

LEMMA SubStep ==
  ASSUME CoreInv, TcpInv', ProcSub
  PROVE  CoreInv'
<1> DEFINE old == Subscribers(CurName)
           new == Subscribe(old, epair)
<1>1. /\ HandleReturn /\ proc = "dispatch" /\ CurProtocol.body.type = "SUB"
      /\ listsubbev' = MapAssign(listsubbev, CurName, new)
      /\ UNCHANGED <<proc, it, copies>>
  BY DEF ProcSub, Called, procVars
<1>2. CurName \in Name /\ epair \in Bev
  BY <1>1, ReturnIs DEF CoreInv
<1>3. /\ old \in Seq(Bev) /\ new \in Seq(Bev)
      /\ Len(old) \in Nat /\ Len(new) = Len(old) + 1
      /\ new[1] = epair
      /\ \A k \in 1..Len(old) : new[k + 1] = old[k]
  BY <1>2, SubscribeIs
<1> HIDE DEF new
<1>4. /\ DOMAIN listsubbev' = DOMAIN listsubbev \cup {CurName}
      /\ listsubbev' \in [DOMAIN listsubbev' -> Seq(Bev)]
      /\ listsubbev'[CurName] = new
      /\ \A n \in DOMAIN listsubbev : n # CurName => listsubbev'[n] = listsubbev[n]
  <2>1. listsubbev \in [DOMAIN listsubbev -> Seq(Bev)]
    BY DEF CoreInv, CoreTypeOK
  <2> DEFINE g == MapAssign(listsubbev, CurName, new)
  <2>2. /\ DOMAIN g = DOMAIN listsubbev \cup {CurName} /\ g \in [DOMAIN g -> Seq(Bev)]
        /\ g[CurName] = new
        /\ \A n \in DOMAIN listsubbev : n # CurName => g[n] = listsubbev[n]
    <3>1. new \in Seq(Bev)
      BY <1>3
    <3>2. DOMAIN g = DOMAIN listsubbev \cup {CurName}
      BY <2>1, <3>1, MapAssignType
    <3>3. g \in [DOMAIN g -> Seq(Bev)]
      BY <2>1, <3>1, MapAssignType
    <3>4. /\ g[CurName] = new
          /\ \A n \in DOMAIN listsubbev : n # CurName => g[n] = listsubbev[n]
      BY DEF MapAssign
    <3>5. QED
      BY <3>2, <3>3, <3>4
  <2> HIDE DEF g
  <2>3. QED
    BY <1>1, <2>2 DEF g
<1>5. CoreTypeOK'
  BY <1>1, <1>2, <1>4 DEF CoreInv, CoreTypeOK
<1>6. ASSUME NEW n \in DOMAIN listsubbev', NEW k \in 1..Len(listsubbev'[n]),
             NEW c, c = listsubbev'[n][k]
      PROVE  LastAskedIsSub(c, n)'
  <2>1. CASE n # CurName
    <3>1. LastAskedIsSub(c, n)
      BY <1>4, <1>6, <2>1 DEF CoreInv, EntriesAreAskedFor
    <3>2. QED
      BY <1>1, <2>1, <3>1, NotAsked DEF CoreInv
  <2>2. CASE n = CurName /\ c = epair
    BY <1>1, <2>2, NowAsked DEF CoreInv
  <2>3. CASE n = CurName /\ c # epair
    <3>1. k \in 1..(Len(old) + 1) /\ k # 1 /\ c = new[k]
      BY <1>3, <1>4, <1>6, <2>3
    <3> HIDE DEF old
    <3>2. k - 1 \in 1..Len(old) /\ (k - 1) + 1 = k
      BY <1>3, <3>1
    <3>3. c = old[k - 1]
      BY <1>3, <3>1, <3>2
    <3>4. n \in DOMAIN listsubbev /\ old = listsubbev[n]
      <4>1. old # <<>>
        BY <3>2
      <4>2. QED
        BY <2>3, <4>1 DEF old, Subscribers
    <3>5. LastAskedIsSub(c, n)
      BY <3>2, <3>3, <3>4 DEF CoreInv, EntriesAreAskedFor
    <3>6. QED
      BY <1>1, <2>3, <3>5, NotAsked DEF CoreInv
  <2>4. QED
    BY <2>1, <2>2, <2>3
<1>7. EntriesAreAskedFor'
  BY <1>6 DEF EntriesAreAskedFor
<1>8. QED
  BY <1>1, <1>5, <1>7, ReturnStep DEF CoreInv, CoreTypeOK

(* SUB_CANCEL takes every entry of its sender out of one list; the entries *)
(* that stay are others'.                                                  *)
LEMMA SubCancelStep ==
  ASSUME CoreInv, TcpInv', ProcSubCancel
  PROVE  CoreInv'
<1> DEFINE rest == CancelAll(listsubbev[CurName], epair)
<1>1. /\ HandleReturn /\ proc = "dispatch"
      /\ CurProtocol.body.type = "SUB_CANCEL"
      /\ UNCHANGED <<proc, it, copies>>
  BY DEF ProcSubCancel, Called, procVars
<1>2. CurName \in Name /\ epair \in Bev
  BY <1>1, ReturnIs DEF CoreInv
<1>3. ASSUME CurName \in DOMAIN listsubbev
      PROVE  /\ rest \in Seq(Bev)
             /\ \A k \in 1..Len(rest) :
                  /\ rest[k] # epair
                  /\ \E i \in 1..Len(listsubbev[CurName]) :
                       rest[k] = listsubbev[CurName][i]
  <2>1. listsubbev[CurName] \in Seq(Bev)
    BY <1>3 DEF CoreInv, CoreTypeOK
  <2>2. QED
    BY <2>1, CancelAllIs DEF Others
<1> HIDE DEF rest
<1>4. /\ DOMAIN listsubbev' = DOMAIN listsubbev
      /\ \A n \in DOMAIN listsubbev :
           listsubbev'[n] = IF n = CurName THEN rest ELSE listsubbev[n]
  BY DEF ProcSubCancel, rest
<1>5. CoreTypeOK'
  <2>1. \/ listsubbev' = listsubbev
        \/ /\ CurName \in DOMAIN listsubbev
           /\ listsubbev' = [listsubbev EXCEPT ![CurName] = rest]
    BY DEF ProcSubCancel, rest
  <2>2. QED
    BY <1>1, <1>3, <2>1 DEF CoreInv, CoreTypeOK
<1>6. ASSUME NEW n \in DOMAIN listsubbev', NEW k \in 1..Len(listsubbev'[n]),
             NEW c, c = listsubbev'[n][k]
      PROVE  LastAskedIsSub(c, n)'
  <2>1. n \in DOMAIN listsubbev
    BY <1>4
  <2>2. \E i \in 1..Len(listsubbev[n]) : c = listsubbev[n][i]
    BY <1>3, <1>4, <1>6, <2>1
  <2>3. LastAskedIsSub(c, n)
    BY <2>1, <2>2 DEF CoreInv, EntriesAreAskedFor
  <2>4. c # epair \/ n # CurName
    BY <1>3, <1>4, <1>6, <2>1
  <2>5. QED
    BY <1>1, <2>3, <2>4, NotAsked DEF CoreInv
<1>7. EntriesAreAskedFor'
  BY <1>6 DEF EntriesAreAskedFor
<1>8. QED
  BY <1>1, <1>5, <1>7, ReturnStep DEF CoreInv, CoreTypeOK

LEMMA CoreInvStep ==
  ASSUME CoreInv, [CoreNext]_coreVars
  PROVE  CoreInv'
<1>1. TcpInv'
  BY CoreSimulation, TcpInvStep DEF CoreInv
<1>2. CASE UNCHANGED coreVars
  BY <1>1, <1>2, OutsideStep DEF coreVars, tcpVars, handlerVars
<1>3. CASE PeerNext /\ UNCHANGED <<subVars, procVars>>
  <2>1. UNCHANGED handlerVars
    BY <1>3 DEF PeerNext, PeerClose, PeerSend
  <2>2. QED
    BY <1>1, <1>3, <2>1, OutsideStep DEF handlerVars
<1>4. CASE \E b \in Bev : EventThread(b)
  <2>1. UNCHANGED <<handlerVars, subVars, procVars>>
    BY <1>4 DEF EventThread, EventNext, ListenerCb, StartReadCb, StartEventCb,
                ConnReadCb, ConnEventCb
  <2>2. QED
    BY <1>1, <2>1, OutsideStep DEF handlerVars
<1>5. CASE LoopNext /\ UNCHANGED <<subVars, procVars>>
  <2>1. pc \in {"extract", "handle"} /\ pc' # "write" /\ UNCHANGED handled
    BY <1>5 DEF LoopNext, GetProtocalData, ClearBatch, NextProtocol
  <2>2. proc = "dispatch"
    BY <2>1 DEF CoreInv, IteratorAtTarget
  <2>3. QED
    BY <1>1, <1>5, <2>1, <2>2, OutsideStep
<1>6. CASE HandleOneProtocolData
  BY <1>1, <1>6, PubBeginStep, PubSendStep, PubWrittenStep, PubEraseStep,
     EchoStep, OtherReturn, SubStep, SubCancelStep
  DEF HandleOneProtocolData
<1>7. QED
  BY <1>2, <1>3, <1>4, <1>5, <1>6 DEF CoreNext, HandlerThread

LEMMA CoreInvInit == CoreInit => CoreInv
<1> SUFFICES ASSUME CoreInit PROVE CoreInv
  OBVIOUS
<1>1. TcpInv
  BY TcpInitInv DEF CoreInit
<1>2. pc = "extract" /\ proc = "dispatch"
  BY DEF CoreInit, TcpInit
<1>3. CoreTypeOK
  BY DEF CoreInit, CoreTypeOK
<1>4. EntriesAreAskedFor
  BY DEF CoreInit, EntriesAreAskedFor
<1>5. QED
  BY <1>1, <1>2, <1>3, <1>4
  DEF CoreInv, CalledFor, IteratorAtTarget, CopiesMatchEntries

\* The lists, the loop of ProcPub and the requests, in every reachable state.
THEOREM ListsInvariant == CoreSpec => []CoreInv
  BY CoreInvInit, CoreInvStep, PTL DEF CoreSpec

(* The iterator of ProcPub is at the entry the copy in hand is for, in     *)
(* lists of any length and whoever comes and goes during the loop.         *)
THEOREM IteratorAlwaysAtTarget == CoreSpec => []IteratorAtTarget
<1>1. CoreInv => IteratorAtTarget
  BY DEF CoreInv
<1>2. QED
  BY <1>1, ListsInvariant, PTL

(* Nobody in the list is skipped by ProcPub and nobody is served twice.    *)
THEOREM CopiesAlwaysMatch == CoreSpec => []CopiesMatchEntries
<1>1. CoreInv => CopiesMatchEntries
  BY DEF CoreInv
<1>2. QED
  BY <1>1, ListsInvariant, PTL

(* Whoever is in a list has asked for it and not cancelled since.          *)
THEOREM EntriesAlwaysAskedFor == CoreSpec => []EntryHasLiveRequest
<1>1. ASSUME CoreInv, NEW n \in DOMAIN listsubbev,
             NEW b \in ToSet(listsubbev[n])
      PROVE  /\ Requests(b, n) # {}
             /\ handled[Max(Requests(b, n))].msg.body.type = "SUB"
  <2>1. listsubbev[n] \in Seq(Bev)
    BY <1>1 DEF CoreInv, CoreTypeOK
  <2>2. PICK k \in 1..Len(listsubbev[n]) : b = listsubbev[n][k]
    BY <2>1 DEF ToSet
  <2>3. LastAskedIsSub(b, n)
    BY <1>1, <2>2 DEF CoreInv, EntriesAreAskedFor
  <2>4. PICK i \in Requests(b, n) :
          /\ handled[i].msg.body.type = "SUB"
          /\ \A j \in Requests(b, n) : j <= i
    BY <2>3 DEF LastAskedIsSub
  <2>5. \A j \in Requests(b, n) : j \in Int
    BY DEF Requests
  <2>6. Max(Requests(b, n)) = i
    <3> DEFINE S == Requests(b, n)
    <3>1. i \in S /\ (\A j \in S : j \in Int /\ j <= i)
      BY <2>4, <2>5
    <3> HIDE DEF S
    <3>2. \A x \in S : (\A y \in S : x >= y) => x = i
      BY <3>1
    <3>3. \A y \in S : i >= y
      BY <3>1
    <3>4. Max(S) = CHOOSE x \in S : \A y \in S : x >= y
      BY DEF Max
    <3>5. QED
      BY <3>1, <3>2, <3>3, <3>4 DEF S
  <2>7. QED
    BY <2>4, <2>6
<1>2. CoreInv => EntryHasLiveRequest
  BY <1>1 DEF EntryHasLiveRequest
<1>3. QED
  BY <1>2, ListsInvariant, PTL

-----------------------------------------------------------------------------
(* What makes a list shorter.                                              *)

\* A list that has not changed is not pruned.
LEMMA SameList ==
  ASSUME CoreInv, NEW n \in DOMAIN listsubbev, NEW b \in Bev,
         listsubbev'[n] = listsubbev[n]
  PROVE  ~(Cardinality(Places(listsubbev'[n], b))
             < Cardinality(Places(listsubbev[n], b)))
<1>1. listsubbev[n] \in Seq(Bev)
  BY DEF CoreInv, CoreTypeOK
<1>2. Cardinality(Places(listsubbev[n], b)) \in Nat
  BY <1>1, PlacesFinite
<1>3. QED
  BY <1>2

\* An erased entry is the loss of its own socket only.
LEMMA EraseLoss ==
  ASSUME NEW s \in Seq(Bev), NEW i \in 1..Len(s), NEW b \in Bev, s[i] # b
  PROVE  ~(Cardinality(Places(RemoveAt(s, i), b)) < Cardinality(Places(s, b)))
<1> DEFINE t == RemoveAt(s, i)
           f == [j \in 1..Len(s) |-> IF j < i THEN j ELSE j - 1]
<1>1. /\ t \in Seq(Bev) /\ Len(t) = Len(s) - 1
      /\ \A j \in 1..(Len(s) - 1) : t[j] = IF j < i THEN s[j] ELSE s[j + 1]
  BY RemoveAtIs
<1> HIDE DEF t
<1>2. ASSUME NEW j \in Places(s, b)
      PROVE  f[j] \in Places(t, b)
  <2>1. j \in 1..Len(s) /\ j # i /\ s[j] = b
    BY DEF Places
  <2>2. CASE j < i
    <3>1. f[j] = j /\ j \in 1..Len(t) /\ t[j] = s[j]
      BY <1>1, <2>1, <2>2
    <3>2. QED
      BY <2>1, <3>1 DEF Places
  <2>3. CASE ~(j < i)
    <3>1. f[j] = j - 1 /\ j - 1 \in 1..Len(t) /\ ~(j - 1 < i) /\ (j - 1) + 1 = j
      BY <1>1, <2>1, <2>3
    <3>2. t[j - 1] = s[j]
      BY <1>1, <3>1
    <3>3. QED
      BY <2>1, <3>1, <3>2 DEF Places
  <2>4. QED
    BY <2>2, <2>3
<1>3. \A j, k \in Places(s, b) : f[j] = f[k] => j = k
  <2>1. \A j \in Places(s, b) : j \in 1..Len(s) /\ j # i
    BY DEF Places
  <2>2. \A j, k \in 1..Len(s) : j # i /\ k # i /\ f[j] = f[k] => j = k
    OBVIOUS
  <2> HIDE DEF f
  <2>3. QED
    BY <2>1, <2>2
<1> HIDE DEF f
<1>4. QED
  BY <1>1, <1>2, <1>3, NoneLost DEF t

\* A cancellation is the loss of its sender only.
LEMMA CancelLoss ==
  ASSUME NEW s \in Seq(Bev), NEW e, NEW b \in Bev, b # e
  PROVE  ~(Cardinality(Places(CancelAll(s, e), b)) < Cardinality(Places(s, b)))
<1> DEFINE t == CancelAll(s, e)
           f == Rank(Others(s, e))
<1>1. /\ t \in Seq(Bev)
      /\ \A i \in Others(s, e) : f[i] \in 1..Len(t) /\ t[f[i]] = s[i]
      /\ \A i, j \in Others(s, e) : f[i] = f[j] => i = j
  BY CancelAllIs
<1> HIDE DEF t, f
<1>2. \A i \in Places(s, b) : i \in Others(s, e) /\ s[i] = b
  BY DEF Places, Others
<1>3. \A i \in Places(s, b) : f[i] \in Places(t, b)
  BY <1>1, <1>2 DEF Places
<1>4. \A i, j \in Places(s, b) : f[i] = f[j] => i = j
  BY <1>1, <1>2
<1>5. QED
  BY <1>1, <1>3, <1>4, NoneLost DEF t

\* A subscription is no loss.
LEMMA SubscribeLoss ==
  ASSUME CoreInv, NEW e \in Bev, NEW b \in Bev, CurName \in DOMAIN listsubbev
  PROVE  ~(Cardinality(Places(Subscribe(Subscribers(CurName), e), b))
             < Cardinality(Places(listsubbev[CurName], b)))
<1> DEFINE s == Subscribers(CurName)
           t == Subscribe(s, e)
           f == [i \in 1..Len(s) |-> i + 1]
<1>1. /\ s \in Seq(Bev) /\ t \in Seq(Bev)
      /\ Len(s) \in Nat /\ Len(t) = Len(s) + 1
      /\ \A k \in 1..Len(s) : t[k + 1] = s[k]
  BY SubscribeIs
<1>2. s = listsubbev[CurName]
  BY DEF Subscribers
<1> HIDE DEF s, t
<1>3. ASSUME NEW i \in Places(s, b)
      PROVE  f[i] \in Places(t, b)
  <2>1. i \in 1..Len(s) /\ s[i] = b
    BY DEF Places
  <2>2. f[i] = i + 1 /\ i + 1 \in 1..Len(t)
    BY <1>1, <2>1
  <2>3. QED
    BY <1>1, <2>1, <2>2 DEF Places
<1>4. \A i, j \in Places(s, b) : f[i] = f[j] => i = j
  <2>1. \A i \in Places(s, b) : i \in 1..Len(s)
    BY DEF Places
  <2>2. \A i, j \in 1..Len(s) : f[i] = f[j] => i = j
    BY <1>1
  <2> HIDE DEF f
  <2>3. QED
    BY <2>1, <2>2
<1> HIDE DEF f
<1>5. QED
  BY <1>1, <1>2, <1>3, <1>4, NoneLost DEF t, s

LEMMA PruneStep ==
  ASSUME CoreInv, [CoreNext]_coreVars
  PROVE  PrunedForCause
<1> SUFFICES ASSUME NEW n \in DOMAIN listsubbev, NEW b \in Bev,
                    Cardinality(Places(listsubbev'[n], b))
                      < Cardinality(Places(listsubbev[n], b))
             PROVE  \/ handled' = handled /\ b \notin DOMAIN vecuint8
                    \/ pc = "write" /\ target = b /\ written' = written
                    \/ /\ handled' # handled
                       /\ Last(handled').bev = b
                       /\ Last(handled').msg.body
                            = [type |-> "SUB_CANCEL", name |-> n]
  BY DEF PrunedForCause
<1>1. listsubbev'[n] # listsubbev[n]
  BY SameList
<1>2. listsubbev[n] \in Seq(Bev)
  BY DEF CoreInv, CoreTypeOK
<1>3. \/ ProcSub \/ ProcSubCancel \/ PubUnknown \/ PubNotFound
      \/ PubWriteFailed
  BY <1>1
  DEF CoreNext, HandlerThread, EventThread, HandleOneProtocolData,
      ProcHeartBeat, ProcPubQuery, PubBegin, PubSend, PubWritten, PubEnd,
      EchoSend, EchoNotFound, EchoWrite, EchoEnd, coreVars, subVars
<1>4. n = CurName
  BY <1>1, <1>3
  DEF ProcSub, ProcSubCancel, PubUnknown, PubNotFound, PubWriteFailed,
      EraseIt, MapAssign
<1>5. CASE ProcSub
  <2>1. epair \in Bev
    BY <1>5, CurIsMsg DEF ProcSub, Called, CoreInv
  <2>2. listsubbev'[n] = Subscribe(Subscribers(CurName), epair)
    BY <1>4, <1>5 DEF ProcSub, MapAssign
  <2>3. QED
    BY <1>4, <2>1, <2>2, SubscribeLoss
<1>6. CASE ProcSubCancel
  <2>1. HandleReturn /\ CurProtocol.body.type = "SUB_CANCEL"
    BY <1>6 DEF ProcSubCancel, Called
  <2>2. listsubbev'[n] = CancelAll(listsubbev[n], epair)
    BY <1>4, <1>6 DEF ProcSubCancel
  <2>3. b = epair
    BY <1>2, <2>2, CancelLoss
  <2> DEFINE e == [bev |-> epair, msg |-> CurProtocol]
             L == Len(handled)
  <2>4. /\ CurProtocol.body \in [type : Type, name : Name]
        /\ L \in Nat /\ Len(handled') = L + 1 /\ handled'[L + 1] = e
    BY <2>1, ReturnIs DEF CoreInv
  <2>5. CurProtocol.body = [type |-> "SUB_CANCEL", name |-> n]
    BY <1>4, <2>1, <2>4 DEF CurName
  <2>6. Last(handled') = e
    BY <2>4 DEF Last
  <2>7. handled' # handled
    BY <2>4
  <2>8. QED
    BY <2>3, <2>5, <2>6, <2>7
<1>7. CASE PubUnknown
  BY <1>4, <1>7 DEF PubUnknown
<1>8. CASE PubNotFound \/ PubWriteFailed
  <2>1. InLoop /\ it \in 1..Len(listsubbev[n])
    BY <1>4, <1>8
    DEF PubNotFound, PubWriteFailed, CoreInv, IteratorAtTarget, InLoop
  <2>2. listsubbev'[n] = RemoveAt(listsubbev[n], it)
    BY <1>4, <1>8 DEF PubNotFound, PubWriteFailed, EraseIt
  <2>3. b = listsubbev[n][it]
    BY <1>2, <2>1, <2>2, EraseLoss
  <2>4. CASE PubNotFound
    BY <1>4, <2>3, <2>4 DEF PubNotFound, tcpVars, handlerVars
  <2>5. CASE PubWriteFailed
    BY <1>4, <2>3, <2>5
    DEF PubWriteFailed, BuffereventWrite, CoreInv, IteratorAtTarget
  <2>6. QED
    BY <1>8, <2>4, <2>5
<1>9. QED
  BY <1>3, <1>5, <1>6, <1>7, <1>8

(* A list loses an entry only to a cancellation of its socket or to a copy *)
(* that could not be sent to it: in lists of any length.                   *)
THEOREM AlwaysPrunedForCause == CoreSpec => PrunedOnlyIfSendFailed
<1>1. CoreInv /\ [CoreNext]_coreVars => [PrunedForCause]_coreVars
  BY PruneStep
<1>2. QED
  BY <1>1, ListsInvariant, PTL DEF CoreSpec, PrunedOnlyIfSendFailed

-----------------------------------------------------------------------------
(* Shutdown.                                                               *)

(* Until Deinit frees the sockets the invariant of the handler holds.  The *)
(* handler thread is between two batches when it is not inside its loop,   *)
(* so that no DisconnectClient is half done when it has been joined, and   *)
(* the event thread ends between two callbacks.                            *)
ShutInv ==
  /\ main \notin {"free", "gone", "crash"} => TcpInv
  /\ conn \in [Bev -> 0..MaxConn]
  /\ hand # "in" => pc = "extract"
  /\ main = "built" => hand = "none"
  /\ dispatch \in {"none", "done"} => ev = Idle
  /\ main \in {"joinevent", "free", "gone"} => hand \in {"none", "done"}
  /\ main \in {"free", "gone"} => /\ dispatch \in {"none", "done"}
                                  /\ Live = tofree

LEMMA ShutInitInv == ShutInit => ShutInv
<1> SUFFICES ASSUME ShutInit PROVE ShutInv
  OBVIOUS
<1>1. TcpInv
  BY TcpInitInv DEF ShutInit, CoreInit
<1>2. QED
  BY <1>1 DEF ShutInit, CoreInit, TcpInit, ShutInv, TcpInv, TcpTypeOK, Idle

(* A step of one of the threads, before the sockets are freed.             *)
LEMMA ThreadStep ==
  ASSUME ShutInv, CoreNext, main' = main, main \notin {"free", "gone", "crash"},
         hand' # "in" => pc' = "extract",
         dispatch \in {"none", "done"} => UNCHANGED ev,
         main \in {"built", "joinevent"} => UNCHANGED hand,
         UNCHANGED dispatch
  PROVE  ShutInv'
<1>1. TcpInv'
  BY CoreSimulation, TcpInvStep DEF ShutInv
<1>2. QED
  BY <1>1 DEF ShutInv, TcpInv, TcpTypeOK

\* The handler's state, as Deinit finds it.
LEMMA FreeSocketStep ==
  ASSUME ShutInv, NEW b \in Bev, FreeSocket(b)
  PROVE  ShutInv'
<1>1. /\ conn' = [conn EXCEPT ![b] = 0]
      /\ tofree' = tofree \ {b} /\ main = "free" /\ main' = "free"
      /\ UNCHANGED <<pc, ev, hand, dispatch>>
  BY DEF FreeSocket, BuffereventFree, handlerVars
<1>2. conn' \in [Bev -> 0..MaxConn] /\ Live' = Live \ {b}
  BY <1>1, EvTcpAssumption DEF ShutInv, Live
<1>3. QED
  BY <1>1, <1>2 DEF ShutInv

LEMMA ShutInvStep ==
  ASSUME ShutInv, [ShutNext]_shutVars
  PROVE  ShutInv'
<1> USE DEF coreVars
<1>1. CASE TopOfLoop \/ PureVirtualCall
  <2>1. UNCHANGED <<tcpVars, dispatch, tofree>>
    BY <1>1 DEF TopOfLoop, PureVirtualCall
  <2>2. TcpInv => TcpInv'
    BY <2>1, TcpInvStep
  <2>3. UNCHANGED <<conn, pc, ev, Live>>
    BY <2>1 DEF tcpVars, netVars, handlerVars, Live
  <2>4. QED
    BY <1>1, <2>1, <2>2, <2>3 DEF TopOfLoop, PureVirtualCall, ShutInv, Alive
<1>2. CASE HandlerStep
  <2>1. CoreNext /\ hand = "in" /\ UNCHANGED <<main, dispatch, tofree>>
    BY <1>2 DEF HandlerStep, CoreNext
  <2>2. main \notin {"built", "joinevent", "free", "gone", "crash"}
    BY <1>2, <2>1 DEF HandlerStep, ShutInv, Alive
  <2>3. hand' # "in" => pc' = "extract"
    BY <1>2 DEF HandlerStep
  <2>4. dispatch \in {"none", "done"} => UNCHANGED ev
    BY <1>2
    DEF HandlerStep, HandlerThread, LoopNext, GetProtocalData, ClearBatch,
        NextProtocol, HandleOneProtocolData, ProcHeartBeat, ProcPubQuery,
        ProcSub, ProcSubCancel, PubUnknown, PubBegin, PubSend, PubNotFound,
        PubWritten, PubWriteFailed, PubEnd, EchoSend, EchoNotFound, EchoWrite,
        EchoEnd, HandleReturn, SendDataToClient, BuffereventWrite, tcpVars
  <2>5. QED
    BY <2>1, <2>2, <2>3, <2>4, ThreadStep
<1>3. ASSUME NEW b \in Bev, Callback(b)
      PROVE  ShutInv'
  <2>1. CoreNext /\ dispatch \in {"run", "exit"} /\ UNCHANGED stopVars
    BY <1>3 DEF Callback, CoreNext
  <2>2. UNCHANGED pc
    BY <1>3
    DEF Callback, EventThread, EventNext, ListenerCb, StartReadCb, StartEventCb,
        ConnReadCb, ConnEventCb, handlerVars
  <2>3. main \notin {"free", "gone", "crash"}
    BY <1>3, <2>1 DEF Callback, Alive, ShutInv
  <2>4. QED
    BY <2>1, <2>2, <2>3, ThreadStep DEF stopVars, ShutInv
<1>4. CASE Peers
  <2>1. CoreNext /\ UNCHANGED <<conn, pc, ev, stopVars>>
    BY <1>4 DEF Peers, CoreNext, PeerNext, PeerSend, PeerClose, handlerVars
  <2>2. main \notin {"free", "gone", "crash"} => TcpInv'
    BY <2>1, CoreSimulation, TcpInvStep DEF ShutInv
  <2>3. QED
    BY <2>1, <2>2 DEF ShutInv, stopVars, Live
<1>5. CASE JoinEvent
  <2>1. main = "joinevent" /\ pc = "extract" /\ Joined(dispatch)
    BY <1>5 DEF JoinEvent, ShutInv
  <2>2. DOMAIN vecuint8 = Live
    BY <2>1 DEF ShutInv, TcpInv, MapMatchesSockets
  <2>3. QED
    BY <1>5, <2>1, <2>2
    DEF JoinEvent, Joined, ShutInv, tcpVars, netVars, handlerVars, Live
<1>6. CASE DispatchEnds \/ CoreTask \/ Start \/ Destruct \/ JoinCore \/ Deinit
             \/ JoinHandler \/ FreeListener
  <2>1. UNCHANGED tcpVars
    BY <1>6 DEF DispatchEnds, CoreTask, Start, Destruct, JoinCore, Deinit,
                JoinHandler, FreeListener
  <2>2. TcpInv => TcpInv'
    BY <2>1, TcpInvStep
  <2>3. UNCHANGED <<conn, pc, ev, Live>>
    BY <2>1 DEF tcpVars, netVars, handlerVars, Live
  <2>4. QED
    BY <1>6, <2>2, <2>3
    DEF DispatchEnds, CoreTask, Start, Destruct, JoinCore, Deinit, JoinHandler,
        FreeListener, ShutInv, Joined, Loopexit, Alive
<1>7. CASE UNCHANGED shutVars
  <2>1. UNCHANGED <<tcpVars, stopVars>>
    BY <1>7 DEF shutVars
  <2>2. TcpInv => TcpInv'
    BY <2>1, TcpInvStep
  <2>3. QED
    BY <2>1, <2>2
    DEF ShutInv, tcpVars, stopVars, netVars, handlerVars, Live
<1>8. QED
  BY <1>1, <1>2, <1>3, <1>4, <1>5, <1>6, <1>7, FreeSocketStep
  DEF ShutNext, Handler, Destructor

(* When Deinit frees the sockets nobody uses them any more, and it frees   *)
(* each of them: for any number of connections and messages, and wherever  *)
(* the threads are when the destructor begins.                             *)
THEOREM NothingIsLeftBehind == ShutSpec => []NothingLeftBehind
<1>1. ShutInv => NothingLeftBehind
  BY DEF ShutInv, NothingLeftBehind
<1>2. QED
  BY <1>1, ShutInitInv, ShutInvStep, PTL DEF ShutSpec
=============================================================================
