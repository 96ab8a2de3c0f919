-------------------------- MODULE ProtocolIncProofs --------------------------
(* Proofs about framing: GetOneProtocol and MakeProtocol, for cells of any *)
(* width, headers of any size and buffers of any length; streams of        *)
(* messages that arrive in pieces; the loop of GetProtocalData.            *)
EXTENDS ProtocolLoop, SequenceTheorems, WellFoundedInduction, TLAPS

\* A length that fits in a cell does not wrap around.
LEMMA NoWrap ==
  ASSUME NEW n \in Nat, n < Width
  PROVE  n % Width = n
  BY ProtocolAssumption

\* First is the least element, by the well-foundedness of the naturals.
LEMMA FirstIsLeast ==
  ASSUME NEW S \in SUBSET Nat, S # {}
  PROVE  First(S) \in S /\ \A j \in S : First(S) <= j
<1>1. \E R : /\ IsWellFoundedOn(R, Nat)
             /\ \A i, j \in Nat : i < j => <<i, j>> \in R
  <2>1. \A i, j \in Nat : i < j => <<i, j>> \in OpToRel(<, Nat)
    BY Zenon DEF OpToRel
  <2>2. QED
    BY <2>1, NatLessThanWellFounded, Zenon
<1>2. PICK R : /\ IsWellFoundedOn(R, Nat)
               /\ \A i, j \in Nat : i < j => <<i, j>> \in R
  BY <1>1
<1>3. S \subseteq Nat
  OBVIOUS
<1>4. PICK m \in S : \A j \in S : ~(<<j, m>> \in R)
  <2>1. IsWellFoundedOn(R, Nat)
    BY <1>2
  <2>2. QED
    BY <2>1, WFMin
<1>5. ASSUME NEW j \in S
      PROVE  m <= j
  <2>1. m \in Nat /\ j \in Nat
    BY <1>3
  <2>2. ~(j < m)
    BY <1>2, <1>4, <2>1, Zenon
  <2>3. QED
    BY <2>1, <2>2
<1>6. QED
  BY <1>5 DEF First

\* A header at the front is the first header.
LEMMA FirstIsFront ==
  ASSUME NEW S \in SUBSET Nat, 0 \in S
  PROVE  First(S) = 0
<1>1. First(S) \in Nat /\ First(S) <= 0
  BY FirstIsLeast
<1>2. QED
  BY <1>1

(* With a header at the front nothing is erased before it, the pointer is  *)
(* not stale, and the length is the one the header gives.                  *)
LEMMA FrontHeader ==
  ASSUME NEW vec \in Seq(Cell), Len(vec) >= HeaderSize, IsValid(vec, 0)
  PROVE  LET len == HeaderSize + DataLen(vec, 0)
         IN  /\ len \in Nat /\ len >= HeaderSize
             /\ GetOneProtocol(vec) = IF Len(vec) >= len
                                      THEN TakeMessage(vec, len)
                                      ELSE NoMessage(vec)
<1> USE ProtocolAssumption
<1> DEFINE len == HeaderSize + DataLen(vec, 0)
<1>1. DataLen(vec, 0) \in Nat /\ DataLen(vec, 0) <= MaxDataLen
  BY DEF DataLen, IsValid, Cell
<1>2. len \in Nat /\ len >= HeaderSize /\ len < Width
  BY <1>1
<1>3. 0 \in Headers(vec) /\ Headers(vec) \in SUBSET Nat
  BY DEF Headers, Offsets
<1>4. First(Headers(vec)) = 0
  BY <1>3, FirstIsFront
<1>5. Erase(vec, 0) = vec
  BY DEF Erase
<1>6. DataLen(Storage(vec, 0), 0) = DataLen(vec, 0)
  BY DEF Storage, DataLen
<1>7. NeedRead(Storage(vec, 0), 0) = len
  BY <1>2, <1>6, NoWrap DEF NeedRead
<1>8. QED
  BY <1>2, <1>3, <1>4, <1>5, <1>7 DEF GetOneProtocol, Complete

\* What MakeProtocol makes.
LEMMA MakeProtocolShape ==
  ASSUME NEW data \in Seq(Cell), Len(data) <= MaxDataLen
  PROVE  /\ MakeProtocol(data) \in Seq(Cell)
         /\ Len(MakeProtocol(data)) = HeaderSize + Len(data)
         /\ MakeProtocol(data)[1] = MagicWord
         /\ MakeProtocol(data)[HeaderSize] = Len(data)
<1> USE ProtocolAssumption
<1> DEFINE header == [k \in 1..HeaderSize |->
                        CASE k = 1          -> MagicWord
                          [] k = HeaderSize -> Len(data) % Width
                          [] OTHER          -> 0]
<1>1. Len(data) % Width = Len(data) /\ Len(data) \in Cell
  BY NoWrap DEF Cell
<1>2. header \in Seq(Cell) /\ Len(header) = HeaderSize
  <2>1. \A k \in 1..HeaderSize : header[k] \in Cell
    BY <1>1 DEF Cell
  <2>2. QED
    BY <2>1
<1>3. header[1] = MagicWord /\ header[HeaderSize] = Len(data)
  BY <1>1
<1>4. MakeProtocol(data) = header \o data
  BY DEF MakeProtocol
<1>5. 1 \in 1..Len(header) /\ HeaderSize \in 1..Len(header)
  BY <1>2
<1> HIDE DEF header
<1>6. /\ header \o data \in Seq(Cell)
      /\ Len(header \o data) = HeaderSize + Len(data)
      /\ \A i \in 1..(Len(header) + Len(data)) :
           (header \o data)[i] =
             IF i <= Len(header) THEN header[i] ELSE data[i - Len(header)]
  BY <1>2, ConcatProperties
<1>7. QED
  BY <1>2, <1>3, <1>4, <1>5, <1>6

(* GetOneProtocol takes a message that was made from legal data out of the *)
(* buffer unchanged, and leaves what follows it.                           *)
THEOREM TakesWhatWasMade ==
  ASSUME NEW data \in Seq(Cell), Len(data) <= MaxDataLen, NEW rest \in Seq(Cell)
  PROVE  GetOneProtocol(MakeProtocol(data) \o rest) =
           [ok |-> TRUE, vecBuffer |-> rest, vecProtocal |-> MakeProtocol(data)]
<1> USE ProtocolAssumption
<1> DEFINE msg == MakeProtocol(data)
           vec == msg \o rest
           len == HeaderSize + Len(data)
<1>1. /\ msg \in Seq(Cell) /\ Len(msg) = len
      /\ msg[1] = MagicWord /\ msg[HeaderSize] = Len(data)
  BY MakeProtocolShape
<1> HIDE DEF msg
<1>2. /\ vec \in Seq(Cell) /\ Len(vec) = Len(msg) + Len(rest)
      /\ \A i \in 1..(Len(msg) + Len(rest)) :
           vec[i] = IF i <= Len(msg) THEN msg[i] ELSE rest[i - Len(msg)]
  <2>1. msg \in Seq(Cell)
    BY <1>1
  <2>2. QED
    BY <2>1, ConcatProperties
<1>3. SubSeq(vec, 1, len) = msg
  BY <1>1
<1>4. SubSeq(vec, len + 1, Len(vec)) = rest
  BY <1>1
<1> HIDE DEF vec
<1>5. IsValid(vec, 0) /\ DataLen(vec, 0) = Len(data)
  BY <1>1, <1>2 DEF IsValid, DataLen
<1>6. GetOneProtocol(vec) = TakeMessage(vec, len)
  <2>1. Len(vec) >= len /\ len >= HeaderSize
    BY <1>1, <1>2
  <2>2. HeaderSize + DataLen(vec, 0) = len
    BY <1>5
  <2> HIDE DEF len
  <2>3. QED
    BY <1>2, <1>5, <2>1, <2>2, FrontHeader
<1>7. QED
  BY <1>3, <1>4, <1>6 DEF TakeMessage, Erase, msg, vec

-----------------------------------------------------------------------------
\* erase leaves a buffer.
LEMMA EraseType ==
  ASSUME NEW vec \in Seq(Cell), NEW n \in Nat
  PROVE  Erase(vec, n) \in Seq(Cell)
  BY DEF Erase

\* The two outcomes when there is a header: at most a message is gone.
LEMMA WithHeader ==
  ASSUME NEW vec \in Seq(Cell), Headers(vec) # {}
  PROVE  LET i    == First(Headers(vec))
             rest == Erase(vec, i)
             need == NeedRead(Storage(vec, i), i)
         IN  /\ i \in Headers(vec) /\ \A j \in Headers(vec) : i <= j
             /\ i \in 0..(Len(vec) - HeaderSize)
             /\ rest \in Seq(Cell) /\ Len(rest) = Len(vec) - i
             /\ need \in Nat
             /\ i = 0 => need >= HeaderSize
             /\ \/ /\ need <= Len(rest)
                   /\ GetOneProtocol(vec) = TakeMessage(rest, need)
                \/ GetOneProtocol(vec) = NoMessage(rest)
<1> USE ProtocolAssumption
<1> DEFINE i    == First(Headers(vec))
           rest == Erase(vec, i)
           need == NeedRead(Storage(vec, i), i)
<1>1. i \in Headers(vec) /\ \A j \in Headers(vec) : i <= j
  <2>1. Headers(vec) \in SUBSET Nat
    BY DEF Headers, Offsets
  <2>2. QED
    BY <2>1, FirstIsLeast
<1>2. i \in 0..(Len(vec) - HeaderSize)
  BY <1>1 DEF Headers, Offsets
<1>3. rest \in Seq(Cell) /\ Len(rest) = Len(vec) - i
  BY <1>2 DEF Erase
<1>4. need \in Nat
  <2>1. i + HeaderSize \in 1..Len(vec)
    BY <1>2
  <2>2. Storage(vec, i)[i + HeaderSize] \in Cell
    BY <1>2, <2>1 DEF Storage
  <2>3. HeaderSize + Storage(vec, i)[i + HeaderSize] \in Nat
    BY <2>2 DEF Cell
  <2>4. QED
    BY <2>3 DEF NeedRead, DataLen
<1>5. i = 0 => need >= HeaderSize
  <2>1. SUFFICES ASSUME i = 0 PROVE need >= HeaderSize
    OBVIOUS
  <2>2. DataLen(Storage(vec, 0), 0) = DataLen(vec, 0)
    BY <1>2, <2>1 DEF Storage, DataLen
  <2>3. DataLen(vec, 0) \in 0..MaxDataLen
    <3>1. IsValid(vec, 0) /\ HeaderSize \in 1..Len(vec)
      BY <1>1, <1>2, <2>1 DEF Headers
    <3>2. vec[HeaderSize] \in Cell
      BY <3>1
    <3>3. QED
      BY <3>1, <3>2 DEF IsValid, DataLen, Cell
  <2>4. HeaderSize + DataLen(vec, 0) \in Nat /\ HeaderSize + DataLen(vec, 0) < Width
    BY <2>3
  <2>5. (HeaderSize + DataLen(vec, 0)) % Width = HeaderSize + DataLen(vec, 0)
    BY <2>4, NoWrap
  <2>6. NeedRead(Storage(vec, 0), 0) = HeaderSize + DataLen(vec, 0)
    BY <2>2, <2>5 DEF NeedRead
  <2>7. QED
    BY <2>1, <2>3, <2>6
<1>6. GetOneProtocol(vec) = IF Complete(rest, need) THEN TakeMessage(rest, need)
                                                    ELSE NoMessage(rest)
  BY DEF GetOneProtocol
<1>7. \/ need <= Len(rest) /\ GetOneProtocol(vec) = TakeMessage(rest, need)
      \/ GetOneProtocol(vec) = NoMessage(rest)
  <2> HIDE DEF i, rest, need
  <2>1. QED
    BY <1>3, <1>4, <1>6 DEF Complete
<1>8. QED
  BY <1>1, <1>2, <1>3, <1>4, <1>5, <1>7

\* Whatever a buffer holds, two sequences of cells come out.
LEMMA GetOneProtocolType ==
  ASSUME NEW vec \in Seq(Cell)
  PROVE  /\ GetOneProtocol(vec).vecBuffer \in Seq(Cell)
         /\ GetOneProtocol(vec).vecProtocal \in Seq(Cell)
<1>1. CASE Headers(vec) = {}
  BY <1>1, EraseType, ProtocolAssumption
  DEF GetOneProtocol, NoMessage, DropGarbage
<1>2. CASE Headers(vec) # {}
  <2>1. PICK rest \in Seq(Cell), need \in Nat :
          \/ need <= Len(rest) /\ GetOneProtocol(vec) = TakeMessage(rest, need)
          \/ GetOneProtocol(vec) = NoMessage(rest)
    BY <1>2, WithHeader
  <2>2. Erase(rest, need) \in Seq(Cell)
    BY EraseType
  <2>3. need <= Len(rest) => SubSeq(rest, 1, need) \in Seq(Cell)
    OBVIOUS
  <2>4. CASE need <= Len(rest) /\ GetOneProtocol(vec) = TakeMessage(rest, need)
    BY <2>2, <2>3, <2>4 DEF TakeMessage
  <2>5. CASE GetOneProtocol(vec) = NoMessage(rest)
    <3>1. <<>> \in Seq(Cell)
      OBVIOUS
    <3>2. QED
      BY <2>5, <3>1 DEF NoMessage
  <2>6. QED
    BY <2>1, <2>4, <2>5
<1>3. QED
  BY <1>1, <1>2

-----------------------------------------------------------------------------
(* Messages on their way, one after the other.                             *)

\* What Carries says of the places where the messages end.
Ends(end, cells, msgs) ==
  /\ end \in [0..Len(msgs) -> 0..Len(cells)]
  /\ end[0] = 0 /\ end[Len(msgs)] = Len(cells)
  /\ \A k \in 1..Len(msgs) :
       /\ end[k] = end[k - 1] + Len(msgs[k])
       /\ \A j \in 1..Len(msgs[k]) : cells[end[k - 1] + j] = msgs[k][j]

LEMMA CarriesEnds ==
  ASSUME NEW cells, NEW msgs
  PROVE  Carries(cells, msgs) <=> \E end : Ends(end, cells, msgs)
  BY DEF Carries, Ends

LEMMA CarriesNothing == Carries(<<>>, <<>>)
<1> DEFINE end == [k \in 0..0 |-> 0]
<1>1. Len(<<>>) = 0
  OBVIOUS
<1>2. Ends(end, <<>>, <<>>)
  BY <1>1 DEF Ends
<1>3. QED
  BY <1>2, CarriesEnds

LEMMA CarriesNone ==
  ASSUME NEW cells \in Seq(Cell), Carries(cells, <<>>)
  PROVE  cells = <<>>
<1>1. PICK end : Ends(end, cells, <<>>)
  BY CarriesEnds
<1>2. Len(cells) = 0
  BY <1>1 DEF Ends
<1>3. QED
  BY <1>2

LEMMA CarriesMore ==
  ASSUME NEW cells \in Seq(Cell), NEW msgs \in Seq(Seq(Cell)),
         NEW msg \in Seq(Cell), Carries(cells, msgs)
  PROVE  Carries(cells \o msg, Append(msgs, msg))
<1> DEFINE n     == Len(msgs)
           all   == cells \o msg
           more1 == Append(msgs, msg)
<1>1. PICK end : Ends(end, cells, msgs)
  BY CarriesEnds
<1> DEFINE end1 == [k \in 0..(n + 1) |-> IF k <= n THEN end[k]
                                         ELSE Len(cells) + Len(msg)]
<1>2. /\ all \in Seq(Cell) /\ Len(all) = Len(cells) + Len(msg)
      /\ \A k \in 1..Len(cells) : all[k] = cells[k]
      /\ \A j \in 1..Len(msg) : all[Len(cells) + j] = msg[j]
  BY ConcatProperties
<1>3. /\ Len(more1) = n + 1 /\ more1[n + 1] = msg
      /\ \A k \in 1..n : more1[k] = msgs[k]
  BY AppendProperties
<1>4. /\ n \in Nat /\ Len(cells) \in Nat /\ Len(msg) \in Nat
      /\ \A k \in 1..n : Len(msgs[k]) \in Nat
  OBVIOUS
<1> HIDE DEF n, all, more1
<1>5. /\ \A k \in 0..n : end[k] \in 0..Len(cells)
      /\ end[0] = 0 /\ end[n] = Len(cells)
      /\ \A k \in 1..n :
           /\ end[k] = end[k - 1] + Len(msgs[k])
           /\ \A j \in 1..Len(msgs[k]) : cells[end[k - 1] + j] = msgs[k][j]
  BY <1>1 DEF Ends, n
<1>6. end1 \in [0..(n + 1) -> 0..Len(all)]
  BY <1>2, <1>4, <1>5
<1>7. end1[0] = 0 /\ end1[n + 1] = Len(all)
  BY <1>2, <1>4, <1>5
<1>8. ASSUME NEW k \in 1..n
      PROVE  /\ end1[k] = end1[k - 1] + Len(more1[k])
             /\ \A j \in 1..Len(more1[k]) : all[end1[k - 1] + j] = more1[k][j]
  <2>1. end1[k] = end[k] /\ end1[k - 1] = end[k - 1] /\ more1[k] = msgs[k]
    BY <1>3, <1>4
  <2>2. end[k - 1] \in Nat /\ end[k] <= Len(cells) /\ Len(msgs[k]) \in Nat
    BY <1>4, <1>5
  <2>3. ASSUME NEW j \in 1..Len(msgs[k])
        PROVE  all[end[k - 1] + j] = msgs[k][j]
    <3>1. end[k - 1] + j \in 1..Len(cells)
      BY <1>4, <1>5, <2>2, SMTT(40)
    <3>2. QED
      BY <1>2, <1>5, <3>1
  <2>4. QED
    BY <1>5, <2>1, <2>3
<1>9. /\ end1[n + 1] = end1[n] + Len(msg)
      /\ \A j \in 1..Len(msg) : all[end1[n] + j] = msg[j]
  <2>1. n + 1 \in 0..(n + 1) /\ ~(n + 1 <= n) /\ n \in 0..(n + 1) /\ n <= n
    BY <1>4
  <2>2. end1[n + 1] = Len(cells) + Len(msg)
    BY <2>1
  <2>3. end1[n] = Len(cells)
    BY <1>5, <2>1
  <2> HIDE DEF end1
  <2>4. end1[n + 1] = end1[n] + Len(msg)
    BY <2>2, <2>3
  <2>5. \A j \in 1..Len(msg) : all[end1[n] + j] = msg[j]
    BY <1>2, <2>3
  <2>6. QED
    BY <2>4, <2>5
<1>10. \A k \in 1..(n + 1) :
         /\ end1[k] = end1[k - 1] + Len(more1[k])
         /\ \A j \in 1..Len(more1[k]) : all[end1[k - 1] + j] = more1[k][j]
  <2> SUFFICES ASSUME NEW k \in 1..(n + 1)
               PROVE  /\ end1[k] = end1[k - 1] + Len(more1[k])
                      /\ \A j \in 1..Len(more1[k]) :
                           all[end1[k - 1] + j] = more1[k][j]
    OBVIOUS
  <2> HIDE DEF end1
  <2>1. CASE k = n + 1
    BY <1>3, <1>4, <1>9, <2>1
  <2>2. CASE k # n + 1
    <3>1. k \in 1..n
      BY <1>4, <2>2
    <3>2. QED
      BY <1>8, <3>1
  <2>3. QED
    BY <2>1, <2>2
<1> HIDE DEF end1
<1>11. Ends(end1, all, more1)
  BY <1>3, <1>6, <1>7, <1>10 DEF Ends
<1>12. QED
  BY <1>11, CarriesEnds DEF all, more1

\* What erase leaves.
LEMMA EraseShape ==
  ASSUME NEW vec \in Seq(Cell), NEW n \in Nat, n <= Len(vec)
  PROVE  LET rest == SubSeq(vec, n + 1, Len(vec))
         IN  /\ rest \in Seq(Cell)
             /\ Len(rest) = Len(vec) - n
             /\ \A j \in 1..(Len(vec) - n) : rest[j] = vec[n + j]
  OBVIOUS

\* No message ends before the first.
LEMMA FirstEndsFirst ==
  ASSUME NEW n \in Nat, NEW end, \A k \in 0..n : end[k] \in Nat,
         \A k \in 1..n : end[k - 1] <= end[k]
  PROVE  \A k \in 1..n : end[1] <= end[k]
<1> DEFINE S == {k \in 1..n : end[k] < end[1]}
<1>1. SUFFICES ASSUME S # {} PROVE FALSE
  <2>1. S = {} => \A k \in 1..n : ~(end[k] < end[1])
    OBVIOUS
  <2>2. ASSUME NEW k \in 1..n, ~(end[k] < end[1])
        PROVE  end[1] <= end[k]
    <3>1. end[k] \in Nat /\ end[1] \in Nat
      OBVIOUS
    <3>2. QED
      BY <2>2, <3>1
  <2>3. QED
    BY <1>1, <2>1, <2>2
<1> DEFINE f == First(S)
<1>2. S \in SUBSET Nat
  OBVIOUS
<1> HIDE DEF S
<1>3. f \in S /\ \A k \in S : f <= k
  BY <1>1, <1>2, FirstIsLeast
<1> HIDE DEF f
<1>4. f \in 1..n /\ end[f] < end[1] /\ f # 1
  BY <1>3 DEF S
<1>5. f - 1 \in 1..n /\ ~(f <= f - 1)
  BY <1>4
<1>6. f - 1 \notin S
  BY <1>3, <1>5
<1>7. ~(end[f - 1] < end[1])
  BY <1>5, <1>6 DEF S
<1>8. end[f - 1] <= end[f] /\ end[f - 1] \in Nat /\ end[f] \in Nat /\ end[1] \in Nat
  BY <1>4, <1>5
<1>9. QED
  BY <1>4, <1>7, <1>8

\* The first message is at the front, and the rest is the others.
LEMMA CarriesFront ==
  ASSUME NEW cells \in Seq(Cell), NEW msgs \in Seq(Seq(Cell)), msgs # <<>>,
         Carries(cells, msgs)
  PROVE  LET len == Len(msgs[1])
         IN  /\ len <= Len(cells)
             /\ \A j \in 1..len : cells[j] = msgs[1][j]
             /\ Carries(SubSeq(cells, len + 1, Len(cells)), Tail(msgs))
<1> DEFINE n    == Len(msgs)
           len  == Len(msgs[1])
           rest == SubSeq(cells, len + 1, Len(cells))
           left == Tail(msgs)
<1>1. PICK end : Ends(end, cells, msgs)
  BY CarriesEnds
<1>2. /\ n \in Nat /\ n >= 1 /\ Len(cells) \in Nat /\ len \in Nat
      /\ \A k \in 1..n : Len(msgs[k]) \in Nat
  OBVIOUS
<1>3. /\ \A k \in 0..n : end[k] \in 0..Len(cells)
      /\ end[0] = 0 /\ end[n] = Len(cells)
      /\ \A k \in 1..n :
           /\ end[k] = end[k - 1] + Len(msgs[k])
           /\ \A j \in 1..Len(msgs[k]) : cells[end[k - 1] + j] = msgs[k][j]
  BY <1>1 DEF Ends
<1>4. end[1] = len /\ len <= Len(cells) /\ \A j \in 1..len : cells[j] = msgs[1][j]
  <2>1. /\ end[1] = end[1 - 1] + Len(msgs[1]) /\ 1 - 1 = 0
        /\ \A j \in 1..Len(msgs[1]) : cells[end[1 - 1] + j] = msgs[1][j]
    BY <1>2, <1>3
  <2>2. end[1] = len
    BY <1>2, <1>3, <2>1
  <2>3. end[1] <= Len(cells)
    BY <1>2, <1>3
  <2>4. QED
    BY <1>2, <1>3, <2>1, <2>2, <2>3
<1>5. /\ Len(left) = n - 1
      /\ \A k \in 1..(n - 1) : left[k] = msgs[k + 1]
  BY HeadTailProperties
<1>6. /\ Len(rest) = Len(cells) - len
      /\ \A j \in 1..(Len(cells) - len) : rest[j] = cells[len + j]
  BY <1>2, <1>4, EraseShape
<1> HIDE DEF n, len, rest, left
<1>7. \A k \in 1..n : len <= end[k]
  <2>1. \A k \in 0..n : end[k] \in Nat
    BY <1>3
  <2>2. ASSUME NEW k \in 1..n
        PROVE  end[k - 1] <= end[k]
    <3>1. k - 1 \in 0..n /\ k \in 0..n
      BY <1>2
    <3>2. end[k - 1] \in Nat /\ Len(msgs[k]) \in Nat
      BY <1>2, <2>1, <3>1
    <3>3. end[k] = end[k - 1] + Len(msgs[k])
      BY <1>3
    <3>4. QED
      BY <3>2, <3>3
  <2>3. QED
    BY <1>2, <1>4, <2>1, <2>2, FirstEndsFirst
<1> DEFINE end1 == [k \in 0..(n - 1) |-> end[k + 1] - len]
<1>8. ASSUME NEW k \in 0..(n - 1)
      PROVE  end1[k] = end[k + 1] - len /\ end1[k] \in 0..Len(rest)
  <2>1. k + 1 \in 1..n
    BY <1>2
  <2>2. end[k + 1] \in 0..Len(cells) /\ len <= end[k + 1]
    BY <1>3, <1>7, <2>1
  <2>3. QED
    BY <1>2, <1>6, <2>2
<1>9. end1 \in [0..(n - 1) -> 0..Len(rest)]
  BY <1>8
<1> HIDE DEF end1
<1>10. end1[0] = 0 /\ end1[n - 1] = Len(rest)
  <2>1. /\ 0 \in 0..(n - 1) /\ n - 1 \in 0..(n - 1)
        /\ 0 + 1 = 1 /\ (n - 1) + 1 = n
    BY <1>2
  <2>2. end1[0] = end[1] - len
    BY <1>8, <2>1
  <2>3. end1[n - 1] = end[n] - len
    BY <1>8, <2>1
  <2>4. end1[0] = 0
    BY <1>2, <1>4, <2>2
  <2>5. end1[n - 1] = Len(rest)
    BY <1>3, <1>6, <2>3
  <2>6. QED
    BY <2>4, <2>5
<1>11. ASSUME NEW k \in 1..(n - 1)
       PROVE  /\ end1[k] = end1[k - 1] + Len(left[k])
              /\ \A j \in 1..Len(left[k]) : rest[end1[k - 1] + j] = left[k][j]
  <2>1. k + 1 \in 1..n /\ k \in 1..n /\ k - 1 \in 0..(n - 1) /\ k \in 0..(n - 1)
    BY <1>2
  <2>2. /\ end1[k] = end[k + 1] - len /\ end1[k - 1] = end[k] - len
        /\ left[k] = msgs[k + 1]
    BY <1>5, <1>8, <2>1
  <2>3. /\ end[k] \in Nat /\ end[k + 1] \in Nat /\ Len(msgs[k + 1]) \in Nat
        /\ end[k + 1] = end[k] + Len(msgs[k + 1])
        /\ end[k + 1] <= Len(cells) /\ len <= end[k]
    BY <1>2, <1>3, <1>7, <2>1
  <2>4. end1[k] = end1[k - 1] + Len(left[k])
    BY <1>2, <2>2, <2>3, SMTT(40)
  <2>5. ASSUME NEW j \in 1..Len(msgs[k + 1])
        PROVE  rest[end1[k - 1] + j] = msgs[k + 1][j]
    <3>1. cells[end[(k + 1) - 1] + j] = msgs[k + 1][j] /\ (k + 1) - 1 = k
      BY <1>3, <2>1
    <3>2. /\ j \in Nat /\ 1 <= j /\ j <= Len(msgs[k + 1])
          /\ len \in Nat /\ Len(cells) \in Nat
      BY <1>2, <2>3
    <3> DEFINE e == end[k]
               d == Len(msgs[k + 1])
               f == end1[k - 1]
    <3>3. /\ e \in Nat /\ d \in Nat /\ len <= e /\ e + d <= Len(cells)
          /\ f = e - len
      BY <2>2, <2>3
    <3>4. j <= d
      BY <3>2
    <3> HIDE DEF e, d, f
    <3>5. len + (f + j) = e + j
      BY <3>2, <3>3
    <3>6. f + j \in 1..(Len(cells) - len)
      BY <3>2, <3>3, <3>4, SMTT(40)
    <3>7. rest[f + j] = cells[len + (f + j)]
      BY <1>6, <3>6
    <3>8. QED
      BY <3>1, <3>5, <3>7 DEF e, f
  <2>6. QED
    BY <2>2, <2>4, <2>5
<1>12. Ends(end1, rest, left)
  BY <1>5, <1>9, <1>10, <1>11 DEF Ends
<1>13. Carries(rest, left)
  BY <1>12, CarriesEnds
<1>14. QED
  BY <1>4, <1>13 DEF len, rest, left

\* A message that was made from legal data.
Made(msg) == \E data \in Seq(Cell) : /\ Len(data) <= MaxDataLen
                                     /\ msg = MakeProtocol(data)

(* GetOneProtocol on a part of such a stream: it takes the next message or *)
(* changes nothing.                                                        *)
LEMMA NextMessage ==
  ASSUME NEW buf \in Seq(Cell), NEW coming \in Seq(Cell),
         NEW msgs \in Seq(Seq(Cell)),
         \A k \in 1..Len(msgs) : Made(msgs[k]), Carries(buf \o coming, msgs)
  PROVE  LET r == GetOneProtocol(buf)
         IN  \/ r = NoMessage(buf)
             \/ /\ msgs # <<>> /\ r.ok /\ r.vecProtocal = msgs[1]
                /\ r.vecBuffer \in Seq(Cell)
                /\ Carries(r.vecBuffer \o coming, Tail(msgs))
<1> USE ProtocolAssumption
<1> DEFINE r     == GetOneProtocol(buf)
           cells == buf \o coming
<1>1. CASE Len(buf) < HeaderSize
  <2>1. Headers(buf) = {}
    BY <1>1 DEF Headers, Offsets
  <2>2. DropGarbage(buf) = buf
    BY <1>1 DEF DropGarbage
  <2>3. QED
    BY <2>1, <2>2 DEF GetOneProtocol
<1>2. CASE Len(buf) >= HeaderSize
  <2>1. /\ cells \in Seq(Cell) /\ Len(cells) = Len(buf) + Len(coming)
        /\ \A i \in 1..(Len(buf) + Len(coming)) :
             cells[i] = IF i <= Len(buf) THEN buf[i]
                                         ELSE coming[i - Len(buf)]
    BY ConcatProperties
  <2>2. msgs # <<>>
    <3>1. ASSUME msgs = <<>> PROVE FALSE
      <4>1. cells = <<>>
        BY <2>1, <3>1, CarriesNone
      <4>2. Len(cells) = 0
        BY <4>1
      <4>3. QED
        BY <1>2, <2>1, <4>2
    <3>2. QED
      BY <3>1
  <2> DEFINE msg == msgs[1]
             len == Len(msg)
  <2>3. msg \in Seq(Cell) /\ 1 \in 1..Len(msgs)
    BY <2>2
  <2>4. PICK data \in Seq(Cell) : /\ Len(data) <= MaxDataLen
                                  /\ msg = MakeProtocol(data)
    BY <2>3 DEF Made
  <2>5. /\ len = HeaderSize + Len(data)
        /\ msg[1] = MagicWord /\ msg[HeaderSize] = Len(data)
    BY <2>4, MakeProtocolShape
  <2>6. /\ len <= Len(cells)
        /\ \A j \in 1..len : cells[j] = msg[j]
        /\ Carries(SubSeq(cells, len + 1, Len(cells)), Tail(msgs))
    BY <2>1, <2>2, CarriesFront
  <2> HIDE DEF msg, len, r, cells
  <2>7. \A j \in 1..len : j <= Len(buf) => buf[j] = msg[j]
    BY <2>1, <2>3, <2>5, <2>6, SMTT(40) DEF len
  <2>8. buf[1] = MagicWord /\ buf[HeaderSize] = Len(data)
    <3>1. 1 \in 1..len /\ HeaderSize \in 1..len
      BY <2>5
    <3>2. QED
      BY <1>2, <2>5, <2>7, <3>1
  <2>9. IsValid(buf, 0) /\ DataLen(buf, 0) = Len(data)
    BY <2>4, <2>8 DEF IsValid, DataLen
  <2>10. r = IF Len(buf) >= len THEN TakeMessage(buf, len)
                                ELSE NoMessage(buf)
    BY <1>2, <2>5, <2>9, FrontHeader DEF r
  <2>11. CASE ~(Len(buf) >= len)
    BY <2>10, <2>11 DEF r
  <2>12. CASE Len(buf) >= len
    <3>1. len \in Nat
      BY <2>5
    <3>2. /\ r.ok /\ r.vecProtocal = SubSeq(buf, 1, len)
          /\ r.vecBuffer = SubSeq(buf, len + 1, Len(buf))
      BY <2>10, <2>12 DEF TakeMessage, Erase
    <3>3. SubSeq(buf, 1, len) = msg
      <4>1. /\ SubSeq(buf, 1, len) \in Seq(Cell)
            /\ Len(SubSeq(buf, 1, len)) = len
            /\ \A j \in 1..len : SubSeq(buf, 1, len)[j] = buf[j]
        BY <2>12, <3>1
      <4>2. \A j \in 1..len : SubSeq(buf, 1, len)[j] = msg[j]
        BY <2>7, <2>12, <3>1, <4>1
      <4>3. Len(msg) = len
        BY DEF len
      <4>4. QED
        BY <2>3, <4>1, <4>2, <4>3, SeqEqual
    <3> DEFINE kept == SubSeq(buf, len + 1, Len(buf))
               late == SubSeq(cells, len + 1, Len(cells))
    <3>4. /\ kept \in Seq(Cell) /\ Len(kept) = Len(buf) - len
          /\ \A j \in 1..(Len(buf) - len) : kept[j] = buf[len + j]
      BY <2>12, <3>1, EraseShape
    <3>5. /\ late \in Seq(Cell) /\ Len(late) = Len(cells) - len
          /\ \A j \in 1..(Len(cells) - len) : late[j] = cells[len + j]
      BY <2>1, <2>6, <3>1, EraseShape
    <3> HIDE DEF kept, late
    <3>6. kept \o coming = late
      <4>1. /\ kept \o coming \in Seq(Cell)
            /\ Len(kept \o coming) = Len(kept) + Len(coming)
            /\ \A i \in 1..(Len(kept) + Len(coming)) :
                 (kept \o coming)[i] = IF i <= Len(kept) THEN kept[i]
                                      ELSE coming[i - Len(kept)]
        BY <3>4, ConcatProperties
      <4>2. Len(kept \o coming) = Len(late)
        BY <2>1, <3>1, <3>4, <3>5, <4>1
      <4>3. ASSUME NEW j \in 1..Len(late)
            PROVE  (kept \o coming)[j] = late[j]
        <5>1. /\ j \in Nat /\ 1 <= j /\ j <= Len(cells) - len
              /\ Len(buf) \in Nat /\ Len(coming) \in Nat /\ len <= Len(buf)
          BY <2>12, <3>1, <3>5
        <5>2. late[j] = IF len + j <= Len(buf) THEN buf[len + j]
                        ELSE coming[(len + j) - Len(buf)]
          BY <2>1, <3>1, <3>5, <5>1
        <5>3. CASE j <= Len(buf) - len
          BY <3>1, <3>4, <4>1, <5>1, <5>2, <5>3
        <5>4. CASE ~(j <= Len(buf) - len)
          <6>1. /\ j - (Len(buf) - len) = (len + j) - Len(buf)
                /\ ~(len + j <= Len(buf))
            BY <3>1, <5>1, <5>4
          <6>2. j \in 1..(Len(kept) + Len(coming)) /\ ~(j <= Len(kept))
            BY <2>1, <3>1, <3>4, <5>1, <5>4
          <6>3. QED
            BY <3>4, <4>1, <5>2, <6>1, <6>2
        <5>5. QED
          BY <5>3, <5>4
      <4>4. QED
        BY <3>5, <4>1, <4>2, <4>3, SeqEqual
    <3>7. QED
      BY <2>2, <2>6, <3>2, <3>3, <3>4, <3>6 DEF r, kept, late, msg
  <2>13. QED
    BY <2>11, <2>12
<1>3. QED
  BY <1>1, <1>2

\* Concatenation is associative.
LEMMA RegroupCells ==
  \A x, y, z \in Seq(Cell) : (x \o y) \o z = x \o (y \o z)
<1>1. TAKE x, y, z \in Seq(Cell)
<1>2. x \in Seq(Cell) /\ y \in Seq(Cell) /\ z \in Seq(Cell)
  OBVIOUS
<1>3. QED
  BY <1>2, ConcatAssociative

(* Reading moves cells from the wire to the buffer.                        *)
LEMMA ReadMoves ==
  ASSUME NEW buf \in Seq(Cell), NEW coming \in Seq(Cell), NEW len \in Nat,
         len <= Len(coming)
  PROVE  /\ SubSeq(coming, 1, len) \in Seq(Cell)
         /\ Erase(coming, len) \in Seq(Cell)
         /\ (buf \o SubSeq(coming, 1, len)) \o Erase(coming, len) = buf \o coming
<1>1. SubSeq(coming, 1, len) \in Seq(Cell)
  OBVIOUS
<1>2. Erase(coming, len) \in Seq(Cell)
  BY EraseType
<1>3. SubSeq(coming, 1, len) \o Erase(coming, len) = coming
  <2>1. /\ 1 \in 1..(Len(coming) + 1) /\ len \in (1 - 1)..Len(coming)
        /\ Len(coming) \in len..Len(coming)
    OBVIOUS
  <2>2. SubSeq(coming, 1, len) \o SubSeq(coming, len + 1, Len(coming))
          = SubSeq(coming, 1, Len(coming))
    BY <2>1, ConcatAdjacentSubSeq
  <2>3. SubSeq(coming, 1, Len(coming)) = coming
    BY SubSeqFull
  <2>4. QED
    BY <2>2, <2>3 DEF Erase
<1>4. (buf \o SubSeq(coming, 1, len)) \o Erase(coming, len)
        = buf \o (SubSeq(coming, 1, len) \o Erase(coming, len))
  BY <1>1, <1>2, RegroupCells
<1>5. QED
  BY <1>1, <1>2, <1>3, <1>4

(* A message is sent behind the cells that are on their way.               *)
LEMMA SendAppends ==
  ASSUME NEW buf \in Seq(Cell), NEW coming \in Seq(Cell),
         NEW msgs \in Seq(Seq(Cell)), NEW msg \in Seq(Cell),
         Carries(buf \o coming, msgs)
  PROVE  Carries(buf \o (coming \o msg), Append(msgs, msg))
<1>1. buf \o coming \in Seq(Cell)
  BY ConcatProperties
<1>2. (buf \o coming) \o msg = buf \o (coming \o msg)
  BY RegroupCells
<1>3. QED
  BY <1>1, <1>2, CarriesMore

-----------------------------------------------------------------------------
(* The loop of GetProtocalData.                                            *)

IsBuffer == buffer \in Seq(Cell)

(* The receive buffer stays a sequence of cells.                           *)
THEOREM AlwaysABuffer == LoopSpec => []IsBuffer
<1>1. LoopInit => IsBuffer
  BY DEF LoopInit, IsBuffer, Buffers
<1>2. ASSUME IsBuffer, [Iterate]_loopVars
      PROVE  IsBuffer'
  BY <1>2, GetOneProtocolType DEF IsBuffer, Iterate, loopVars
<1>3. QED
  BY <1>1, <1>2, PTL DEF LoopSpec

(* A complete message at the front of the buffer is taken whole; an        *)
(* incomplete one is left alone.                                           *)
THEOREM FrontMessageIsTaken == LoopSpec => []FrontMessageTaken
<1>1. IsBuffer => FrontMessageTaken
  <2> SUFFICES ASSUME IsBuffer, Len(buffer) >= HeaderSize,
                      IsValid(buffer, 0)
               PROVE  FrontMessageTaken
    BY DEF FrontMessageTaken
  <2> DEFINE r   == GetOneProtocol(buffer)
             len == HeaderSize + DataLen(buffer, 0)
  <2>1. /\ buffer \in Seq(Cell)
        /\ len \in Nat /\ len >= HeaderSize
        /\ r = IF Len(buffer) >= len THEN TakeMessage(buffer, len)
                                        ELSE NoMessage(buffer)
    BY FrontHeader DEF IsBuffer
  <2> HIDE DEF r, len
  <2>2. CASE Len(buffer) >= len
    <3>1. /\ r.ok
          /\ r.vecProtocal = SubSeq(buffer, 1, len)
          /\ r.vecBuffer = SubSeq(buffer, len + 1, Len(buffer))
      BY <2>1, <2>2 DEF TakeMessage, Erase
    <3>2. /\ Len(SubSeq(buffer, 1, len)) = len
          /\ SubSeq(buffer, 1, len)
               \o SubSeq(buffer, len + 1, Len(buffer)) = buffer
      <4>1. /\ 1 \in 1..(Len(buffer) + 1) /\ len \in (1 - 1)..Len(buffer)
            /\ Len(buffer) \in len..Len(buffer)
        BY <2>1, <2>2
      <4>2. SubSeq(buffer, 1, len)
              \o SubSeq(buffer, len + 1, Len(buffer))
                = SubSeq(buffer, 1, Len(buffer))
        BY <2>1, <4>1, ConcatAdjacentSubSeq
      <4>3. SubSeq(buffer, 1, Len(buffer)) = buffer
        BY <2>1, SubSeqFull
      <4>4. Len(SubSeq(buffer, 1, len)) = len
        BY <2>1, <2>2
      <4>5. QED
        BY <4>2, <4>3, <4>4
    <3>3. QED
      BY <2>2, <3>1, <3>2 DEF FrontMessageTaken, r, len
  <2>3. CASE ~(Len(buffer) >= len)
    BY <2>1, <2>3 DEF NoMessage, FrontMessageTaken, r, len
  <2>4. QED
    BY <2>2, <2>3
<1>2. QED
  BY <1>1, AlwaysABuffer, PTL

(* GetOneProtocol is the inverse of MakeProtocol on legal data.            *)
THEOREM RoundTripHolds == LoopSpec => []RoundTrip
<1>1. IsBuffer => RoundTrip
  <2> SUFFICES ASSUME IsBuffer, NEW n \in 0..MaxDataLen,
                      NEW data \in [1..n -> {MagicWord, 0}]
               PROVE  GetOneProtocol(MakeProtocol(data) \o buffer) =
                        [ok |-> TRUE, vecBuffer |-> buffer,
                         vecProtocal |-> MakeProtocol(data)]
    BY DEF RoundTrip
  <2>1. data \in Seq(Cell) /\ Len(data) <= MaxDataLen
    BY ProtocolAssumption DEF Cell
  <2>2. QED
    BY <2>1, TakesWhatWasMade DEF IsBuffer
<1>2. QED
  BY <1>1, AlwaysABuffer, PTL

(* GetProtocalData's loop makes progress with every message it takes.      *)
THEOREM MessagesShorten == LoopSpec => []MessageShortens
<1>1. ASSUME IsBuffer PROVE MessageShortens
  <2> DEFINE r == GetOneProtocol(buffer)
  <2> SUFFICES ASSUME r.ok
               PROVE  Len(r.vecBuffer) < Len(buffer)
    BY DEF MessageShortens
  <2> USE ProtocolAssumption
  <2>1. buffer \in Seq(Cell)
    BY <1>1 DEF IsBuffer
  <2>2. Headers(buffer) # {}
    BY DEF GetOneProtocol, NoMessage
  <2>3. PICK i \in 0..(Len(buffer) - HeaderSize), rest \in Seq(Cell),
             need \in Nat :
          /\ Len(rest) = Len(buffer) - i
          /\ i = 0 => need >= HeaderSize
          /\ \/ need <= Len(rest) /\ r = TakeMessage(rest, need)
             \/ r = NoMessage(rest)
    BY <2>1, <2>2, WithHeader
  <2>4. need <= Len(rest) /\ r = TakeMessage(rest, need)
    BY <2>3 DEF NoMessage
  <2>5. r.vecBuffer = SubSeq(rest, need + 1, Len(rest))
    BY <2>4 DEF TakeMessage, Erase
  <2> HIDE DEF r
  <2>6. Len(r.vecBuffer) = Len(rest) - need
    BY <2>4, <2>5
  <2>7. QED
    BY <2>1, <2>3, <2>6
<1>2. QED
  BY <1>1, AlwaysABuffer, PTL

(* Only garbage is skipped, also with respect to the headers that the      *)
(* cells still to come complete.                                           *)
THEOREM NoHeaderIsSkipped == LoopSpec => []NoHeaderSkipped
<1> USE ProtocolAssumption
<1>1. ASSUME IsBuffer PROVE NoHeaderSkipped
  <2> DEFINE r    == GetOneProtocol(buffer)
             gone == Len(buffer) - Len(r.vecBuffer) - Len(r.vecProtocal)
  <2> SUFFICES ASSUME NEW next \in [1..(HeaderSize - 1) -> {MagicWord, 0}],
                      NEW i \in Headers(buffer \o next)
               PROVE  i >= gone
    BY DEF NoHeaderSkipped
  <2>1. buffer \in Seq(Cell) /\ next \in Seq(Cell)
    BY <1>1 DEF IsBuffer, Cell
  <2>2. /\ Len(buffer \o next) = Len(buffer) + Len(next)
        /\ \A k \in 1..(Len(buffer) + Len(next)) :
             (buffer \o next)[k] = IF k <= Len(buffer)
                                      THEN buffer[k]
                                      ELSE next[k - Len(buffer)]
    BY <2>1, ConcatProperties
  <2>3. i \in Nat
    BY DEF Headers, Offsets
  <2>4. ASSUME i <= Len(buffer) - HeaderSize
        PROVE  i \in Headers(buffer)
    <3>1. /\ i + 1 \in 1..Len(buffer)
          /\ i + HeaderSize \in 1..Len(buffer)
      BY <2>1, <2>3, <2>4
    <3>2. /\ (buffer \o next)[i + 1] = buffer[i + 1]
          /\ (buffer \o next)[i + HeaderSize] = buffer[i + HeaderSize]
      BY <2>1, <2>2, <3>1
    <3>3. IsValid(buffer \o next, i)
      BY DEF Headers
    <3>4. QED
      BY <2>1, <2>3, <2>4, <3>2, <3>3 DEF Headers, Offsets, IsValid, DataLen
  <2>5. CASE Headers(buffer) = {}
    <3>1. r = NoMessage(DropGarbage(buffer))
      BY <2>5 DEF GetOneProtocol
    <3>2. gone = Len(buffer) - Len(DropGarbage(buffer))
      BY <2>1, <3>1 DEF NoMessage, DropGarbage, Erase
    <3> HIDE DEF r, gone
    <3>3. CASE Len(buffer) >= 2 * HeaderSize
      <4>1. gone = HeaderSize
        <5>1. DropGarbage(buffer)
                = SubSeq(buffer, HeaderSize + 1, Len(buffer))
          BY <3>3 DEF DropGarbage, Erase
        <5>2. Len(SubSeq(buffer, HeaderSize + 1, Len(buffer)))
                = Len(buffer) - HeaderSize
          BY <2>1, <3>3
        <5>3. QED
          BY <2>1, <3>2, <5>1, <5>2
      <4>2. ~(i <= Len(buffer) - HeaderSize)
        BY <2>4, <2>5
      <4>3. QED
        BY <2>1, <2>3, <3>3, <4>1, <4>2
    <3>4. CASE ~(Len(buffer) >= 2 * HeaderSize)
      BY <2>1, <2>3, <3>2, <3>4 DEF DropGarbage
    <3>5. QED
      BY <3>3, <3>4
  <2>6. CASE Headers(buffer) # {}
    <3>1. PICK f \in 0..(Len(buffer) - HeaderSize), rest \in Seq(Cell),
               need \in Nat :
            /\ \A j \in Headers(buffer) : f <= j
            /\ Len(rest) = Len(buffer) - f
            /\ \/ need <= Len(rest) /\ r = TakeMessage(rest, need)
               \/ r = NoMessage(rest)
      BY <2>1, <2>6, WithHeader
    <3>2. gone = f
      <4>1. CASE need <= Len(rest) /\ r = TakeMessage(rest, need)
        <5>1. /\ Len(r.vecBuffer) = Len(rest) - need
              /\ Len(r.vecProtocal) = need
          BY <4>1 DEF TakeMessage, Erase
        <5>2. QED
          BY <2>1, <3>1, <5>1
      <4>2. CASE r = NoMessage(rest)
        BY <2>1, <3>1, <4>2 DEF NoMessage
      <4>3. QED
        BY <3>1, <4>1, <4>2
    <3> HIDE DEF r, gone
    <3>3. ASSUME i < f PROVE FALSE
      <4>1. i \in Headers(buffer)
        BY <2>1, <2>3, <2>4, <3>3
      <4>2. f <= i
        BY <3>1, <4>1
      <4>3. QED
        BY <2>3, <3>3, <4>2
    <3>4. QED
      BY <2>3, <3>2, <3>3
  <2>7. QED
    BY <2>5, <2>6
<1>2. QED
  BY <1>1, AlwaysABuffer, PTL
=============================================================================
