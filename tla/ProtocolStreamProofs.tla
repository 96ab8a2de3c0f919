------------------------ MODULE ProtocolStreamProofs ------------------------
(* Proofs about ProtocolStream: no cell of a sender's stream is lost.      *)
EXTENDS ProtocolStream, ProtocolIncProofs

StreamTypeOK ==
  /\ out \in Seq(Seq(Cell)) /\ in \in Seq(Seq(Cell))
  /\ wire \in Seq(Cell) /\ vecBuffer \in Seq(Cell)
  /\ trimmed \in BOOLEAN

\* Every message has been made by MakeProtocol.
SentIsMade ==
  \A i \in 1..Len(out) : \E data \in Data : out[i] = MakeProtocol(data)

\* The messages that have not yet been taken out.
Pending == SubSeq(out, Len(in) + 1, Len(out))

StreamInv == StreamTypeOK /\ SentIsMade /\ StreamIsKept

-----------------------------------------------------------------------------
\* A message is a sequence of cells, even one that is too long.
LEMMA MadeOfCells ==
  ASSUME NEW data \in Seq(Cell)
  PROVE  /\ MakeProtocol(data) \in Seq(Cell)
         /\ Len(MakeProtocol(data)) = HeaderSize + Len(data)
<1> USE ProtocolAssumption
<1> DEFINE header == [k \in 1..HeaderSize |->
                        CASE k = 1          -> MagicWord
                          [] k = HeaderSize -> Len(data) % Width
                          [] OTHER          -> 0]
<1>1. Len(data) % Width \in Cell
  BY DEF Cell
<1>2. header \in Seq(Cell) /\ Len(header) = HeaderSize
  <2>1. \A k \in 1..HeaderSize : header[k] \in Cell
    BY <1>1 DEF Cell
  <2>2. QED
    BY <2>1
<1>3. MakeProtocol(data) = header \o data
  BY DEF MakeProtocol
<1> HIDE DEF header
<1>4. QED
  BY <1>2, <1>3, ConcatProperties

\* A prefix, element by element.
LEMMA PrefixPointwise ==
  ASSUME NEW s \in Seq(Seq(Cell)), NEW t \in Seq(Seq(Cell)),
         Len(s) <= Len(t), \A i \in 1..Len(s) : s[i] = t[i]
  PROVE  IsPrefix(s, t)
<1>1. /\ SubSeq(s, 1, Len(s)) \in Seq(Seq(Cell))
      /\ Len(SubSeq(s, 1, Len(s))) = Len(s)
      /\ \A i \in 1..Len(s) : SubSeq(s, 1, Len(s))[i] = s[i]
  OBVIOUS
<1>2. /\ SubSeq(t, 1, Len(s)) \in Seq(Seq(Cell))
      /\ Len(SubSeq(t, 1, Len(s))) = Len(s)
      /\ \A i \in 1..Len(s) : SubSeq(t, 1, Len(s))[i] = t[i]
  OBVIOUS
<1>3. SubSeq(s, 1, Len(s)) = SubSeq(t, 1, Len(s))
  BY <1>1, <1>2, SeqEqual
<1>4. QED
  BY <1>3 DEF IsPrefix

LEMMA PrefixElements ==
  ASSUME NEW s \in Seq(Seq(Cell)), NEW t \in Seq(Seq(Cell)), IsPrefix(s, t)
  PROVE  Len(s) <= Len(t) /\ \A i \in 1..Len(s) : s[i] = t[i]
<1>1. Len(s) <= Len(t) /\ SubSeq(s, 1, Len(s)) = SubSeq(t, 1, Len(s))
  BY DEF IsPrefix
<1>2. ASSUME NEW i \in 1..Len(s)
      PROVE  s[i] = t[i]
  <2>1. SubSeq(s, 1, Len(s))[i] = s[i]
    OBVIOUS
  <2>2. SubSeq(t, 1, Len(s))[i] = t[i]
    BY <1>1
  <2>3. QED
    BY <1>1, <2>1, <2>2
<1>3. QED
  BY <1>1, <1>2

\* What has not been taken out of the messages sent.
LEMMA RestShape ==
  ASSUME NEW o \in Seq(Seq(Cell)), NEW n \in Nat, n <= Len(o)
  PROVE  /\ SubSeq(o, n + 1, Len(o)) \in Seq(Seq(Cell))
         /\ Len(SubSeq(o, n + 1, Len(o))) = Len(o) - n
         /\ \A k \in 1..(Len(o) - n) : SubSeq(o, n + 1, Len(o))[k] = o[n + k]
  OBVIOUS

LEMMA PendingShape ==
  ASSUME out \in Seq(Seq(Cell)), in \in Seq(Seq(Cell)), Len(in) <= Len(out)
  PROVE  /\ Pending \in Seq(Seq(Cell))
         /\ Len(Pending) = Len(out) - Len(in)
         /\ \A k \in 1..Len(Pending) : Pending[k] = out[Len(in) + k]
<1> DEFINE n == Len(in)
<1>1. n \in Nat /\ n <= Len(out)
  OBVIOUS
<1>2. Pending = SubSeq(out, n + 1, Len(out))
  BY DEF Pending
<1> HIDE DEF n
<1>3. /\ SubSeq(out, n + 1, Len(out)) \in Seq(Seq(Cell))
      /\ Len(SubSeq(out, n + 1, Len(out))) = Len(out) - n
      /\ \A k \in 1..(Len(out) - n) :
           SubSeq(out, n + 1, Len(out))[k] = out[n + k]
  BY <1>1, RestShape
<1>4. QED
  BY <1>2, <1>3 DEF n

\* It grows with a message that is sent.
LEMMA PendingGrows ==
  ASSUME out \in Seq(Seq(Cell)), in \in Seq(Seq(Cell)), Len(in) <= Len(out),
         NEW msg \in Seq(Cell), out' = Append(out, msg), in' = in
  PROVE  /\ Pending \in Seq(Seq(Cell)) /\ Pending' = Append(Pending, msg)
<1> DEFINE n     == Len(in)
           more1 == Append(Pending, msg)
           late  == SubSeq(out', n + 1, Len(out'))
<1>1. /\ Pending \in Seq(Seq(Cell)) /\ Len(Pending) = Len(out) - n
      /\ \A k \in 1..Len(Pending) : Pending[k] = out[n + k]
  BY PendingShape
<1>2. /\ out' \in Seq(Seq(Cell)) /\ Len(out') = Len(out) + 1
      /\ \A i \in 1..Len(out) : out'[i] = out[i]
      /\ out'[Len(out) + 1] = msg
  BY AppendProperties
<1>3. n \in Nat /\ Len(out) \in Nat /\ n <= Len(out)
  OBVIOUS
<1>4. Pending' = late
  BY DEF Pending
<1> HIDE DEF n
<1>5. /\ late \in Seq(Seq(Cell)) /\ Len(late) = Len(out') - n
      /\ \A k \in 1..(Len(out') - n) : late[k] = out'[n + k]
  <2>1. n <= Len(out')
    BY <1>2, <1>3
  <2>2. QED
    BY <1>2, <1>3, <2>1, RestShape
<1>6. /\ more1 \in Seq(Seq(Cell)) /\ Len(more1) = Len(Pending) + 1
      /\ \A k \in 1..Len(Pending) : more1[k] = Pending[k]
      /\ more1[Len(Pending) + 1] = msg
  BY <1>1, AppendProperties
<1> HIDE DEF more1, late
<1>7. Len(late) = Len(more1)
  BY <1>1, <1>2, <1>3, <1>5, <1>6
<1>8. ASSUME NEW k \in 1..Len(late)
      PROVE  late[k] = more1[k]
  <2>1. late[k] = out'[n + k]
    BY <1>5
  <2>2. CASE k \in 1..Len(Pending)
    BY <1>1, <1>2, <1>3, <1>6, <2>1, <2>2
  <2>3. CASE k \notin 1..Len(Pending)
    <3>1. k = Len(Pending) + 1 /\ n + k = Len(out) + 1
      BY <1>1, <1>3, <1>6, <1>7, <2>3
    <3>2. QED
      BY <1>2, <1>6, <2>1, <3>1
  <2>4. QED
    BY <2>2, <2>3
<1>9. late = more1
  <2>1. late \in Seq(Seq(Cell)) /\ more1 \in Seq(Seq(Cell))
    BY <1>5, <1>6
  <2>2. QED
    BY <1>7, <1>8, <2>1, SeqEqual
<1>10. QED
  BY <1>1, <1>4, <1>9 DEF more1

\* It shrinks with one that is taken out.
LEMMA PendingShrinks ==
  ASSUME out \in Seq(Seq(Cell)), in \in Seq(Seq(Cell)), Len(in) + 1 <= Len(out),
         out' = out, Len(in') = Len(in) + 1
  PROVE  Pending' = Tail(Pending)
<1> DEFINE n    == Len(in)
           left == Tail(Pending)
           late == SubSeq(out, (n + 1) + 1, Len(out))
<1>1. n \in Nat /\ Len(out) \in Nat /\ n + 1 <= Len(out)
  OBVIOUS
<1>2. /\ Pending \in Seq(Seq(Cell)) /\ Len(Pending) = Len(out) - n
      /\ \A k \in 1..Len(Pending) : Pending[k] = out[n + k]
  <2>1. Len(in) <= Len(out)
    OBVIOUS
  <2>2. QED
    BY <2>1, PendingShape
<1>3. Pending' = late
  BY DEF Pending
<1> HIDE DEF n
<1>4. /\ late \in Seq(Seq(Cell)) /\ Len(late) = Len(out) - (n + 1)
      /\ \A k \in 1..(Len(out) - (n + 1)) : late[k] = out[(n + 1) + k]
  <2>1. n + 1 \in Nat
    BY <1>1
  <2>2. QED
    BY <1>1, <2>1, RestShape
<1>5. /\ left \in Seq(Seq(Cell)) /\ Len(left) = Len(Pending) - 1
      /\ \A k \in 1..(Len(Pending) - 1) : left[k] = Pending[k + 1]
  <2>1. Pending # <<>>
    BY <1>1, <1>2
  <2>2. QED
    BY <1>2, <2>1, HeadTailProperties
<1> HIDE DEF left, late
<1>6. Len(late) = Len(left)
  BY <1>1, <1>2, <1>4, <1>5
<1>7. ASSUME NEW k \in 1..Len(late)
      PROVE  late[k] = left[k]
  <2>1. /\ k \in 1..(Len(Pending) - 1) /\ k + 1 \in 1..Len(Pending)
        /\ n + (k + 1) = (n + 1) + k
    BY <1>1, <1>2, <1>4
  <2>2. left[k] = out[n + (k + 1)]
    BY <1>2, <1>5, <2>1
  <2>3. QED
    BY <1>1, <1>4, <2>1, <2>2
<1>8. late = left
  <2>1. late \in Seq(Seq(Cell)) /\ left \in Seq(Seq(Cell))
    BY <1>4, <1>5
  <2>2. QED
    BY <1>6, <1>7, <2>1, SeqEqual
<1>9. QED
  BY <1>3, <1>8 DEF left

-----------------------------------------------------------------------------
LEMMA StreamStarts == StreamInit => StreamInv
<1> SUFFICES ASSUME StreamInit PROVE StreamInv
  OBVIOUS
<1>1. out = <<>> /\ in = <<>> /\ wire = <<>> /\ vecBuffer = <<>>
  BY DEF StreamInit
<1>2. /\ out \in Seq(Seq(Cell)) /\ in \in Seq(Seq(Cell))
      /\ wire \in Seq(Cell) /\ vecBuffer \in Seq(Cell)
  <2>1. <<>> \in Seq(Cell) /\ <<>> \in Seq(Seq(Cell))
    OBVIOUS
  <2>2. QED
    BY <1>1, <2>1
<1>3. StreamTypeOK /\ SentIsMade
  <2>1. trimmed \in BOOLEAN
    BY DEF StreamInit
  <2>2. 1..Len(out) = {}
    BY <1>1
  <2>3. SentIsMade
    BY <2>2 DEF SentIsMade
  <2>4. StreamTypeOK
    BY <1>2, <2>1 DEF StreamTypeOK
  <2>5. QED
    BY <2>3, <2>4
<1>4. StreamIsKept
  <2>1. IsPrefix(in, out)
    <3>1. Len(in) <= Len(out) /\ 1..Len(in) = {}
      BY <1>1
    <3>2. QED
      BY <1>2, <3>1, PrefixPointwise
  <2>2. vecBuffer \o wire = <<>> /\ Pending = <<>>
    BY <1>1 DEF Pending
  <2>3. QED
    BY <2>1, <2>2, CarriesNothing DEF StreamIsKept, Pending
<1>5. QED
  BY <1>3, <1>4 DEF StreamInv

\* A sender adds a message at the end.
LEMMA SendKeeps ==
  ASSUME StreamInv, NEW data \in Data, Send(data)
  PROVE  StreamInv'
<1> DEFINE msg == MakeProtocol(data)
<1>1. StreamTypeOK /\ SentIsMade /\ StreamIsKept
  BY DEF StreamInv
<1>2. /\ out \in Seq(Seq(Cell)) /\ in \in Seq(Seq(Cell))
      /\ wire \in Seq(Cell) /\ vecBuffer \in Seq(Cell)
  BY <1>1 DEF StreamTypeOK
<1>3. msg \in Seq(Cell) /\ data \in Seq(Cell)
  BY MadeOfCells, StreamAssumption
<1>4. /\ out' = Append(out, msg) /\ wire' = wire \o msg
      /\ UNCHANGED <<vecBuffer, in, trimmed>>
  BY DEF Send
<1> HIDE DEF msg
<1>5. /\ out' \in Seq(Seq(Cell)) /\ Len(out') = Len(out) + 1
      /\ \A i \in 1..Len(out) : out'[i] = out[i]
      /\ out'[Len(out) + 1] = msg
  BY <1>2, <1>3, <1>4, AppendProperties
<1>6. StreamTypeOK'
  <2>1. wire' \in Seq(Cell)
    BY <1>2, <1>3, <1>4
  <2>2. QED
    BY <1>1, <1>4, <1>5, <2>1 DEF StreamTypeOK
<1>7. SentIsMade'
  <2> SUFFICES ASSUME NEW i \in 1..Len(out')
               PROVE  \E d \in Data : out'[i] = MakeProtocol(d)
    BY DEF SentIsMade
  <2>1. CASE i \in 1..Len(out)
    BY <1>1, <1>5, <2>1 DEF SentIsMade
  <2>2. CASE i \notin 1..Len(out)
    <3>1. i = Len(out) + 1
      BY <1>2, <1>5, <2>2
    <3>2. QED
      BY <1>5, <3>1 DEF msg
  <2>3. QED
    BY <2>1, <2>2
<1>8. StreamIsKept'
  <2> SUFFICES ASSUME AllLegal', ~trimmed'
               PROVE  /\ IsPrefix(in, out)'
                      /\ Carries(vecBuffer \o wire, Pending)'
    BY DEF StreamIsKept, Pending
  <2>1. AllLegal
    <3>1. ASSUME NEW i \in 1..Len(out)
          PROVE  Legal(out[i])
      <4>1. i \in 1..Len(out') /\ out'[i] = out[i]
        BY <1>2, <1>5
      <4>2. QED
        BY <4>1 DEF AllLegal, Legal
    <3>2. QED
      BY <3>1 DEF AllLegal
  <2>2. IsPrefix(in, out) /\ Carries(vecBuffer \o wire, Pending)
    BY <1>1, <1>4, <2>1 DEF StreamIsKept, Pending
  <2>3. Len(in) <= Len(out) /\ \A i \in 1..Len(in) : in[i] = out[i]
    BY <1>2, <2>2, PrefixElements
  <2>4. IsPrefix(in, out)'
    <3>1. Len(in) <= Len(out')
      BY <1>2, <1>5, <2>3
    <3>2. ASSUME NEW i \in 1..Len(in)
          PROVE  in[i] = out'[i]
      BY <1>2, <1>5, <2>3
    <3>3. IsPrefix(in, out')
      BY <1>2, <1>5, <3>1, <3>2, PrefixPointwise
    <3>4. QED
      BY <1>4, <3>3
  <2>5. Pending \in Seq(Seq(Cell)) /\ Pending' = Append(Pending, msg)
    BY <1>2, <1>3, <1>4, <1>5, <2>3, PendingGrows
  <2>6. Carries(vecBuffer \o (wire \o msg), Append(Pending, msg))
    BY <1>2, <1>3, <2>2, <2>5, SendAppends
  <2>7. QED
    BY <1>4, <2>4, <2>5, <2>6
<1>9. QED
  BY <1>6, <1>7, <1>8 DEF StreamInv

\* ConnReadCb moves cells of the stream, or trims.
LEMMA ReadKeeps ==
  ASSUME StreamInv, NEW len \in 1..MaxRead, ConnReadCb(len)
  PROVE  StreamInv'
<1>1. StreamTypeOK /\ SentIsMade /\ StreamIsKept
  BY DEF StreamInv
<1>2. wire \in Seq(Cell) /\ vecBuffer \in Seq(Cell)
  BY <1>1 DEF StreamTypeOK
<1>3. len \in Nat /\ len <= Len(wire)
  BY StreamAssumption DEF ConnReadCb
<1>4. /\ wire' = Erase(wire, len)
      /\ vecBuffer' = Insert(Trim(vecBuffer, len), SubSeq(wire, 1, len))
      /\ trimmed' = (trimmed \/ Len(vecBuffer) > Cap)
      /\ UNCHANGED <<out, in>>
  BY DEF ConnReadCb
<1>5. /\ SubSeq(wire, 1, len) \in Seq(Cell)
      /\ Erase(wire, len) \in Seq(Cell)
      /\ (vecBuffer \o SubSeq(wire, 1, len)) \o Erase(wire, len)
           = vecBuffer \o wire
  BY <1>2, <1>3, ReadMoves
<1>6. StreamTypeOK'
  <2>1. Trim(vecBuffer, len) \in Seq(Cell)
    BY <1>2, <1>3, EraseType DEF Trim
  <2>2. vecBuffer' \in Seq(Cell)
    BY <1>4, <1>5, <2>1 DEF Insert
  <2>3. trimmed' \in BOOLEAN
    BY <1>1, <1>4 DEF StreamTypeOK
  <2>4. QED
    BY <1>1, <1>4, <1>5, <2>2, <2>3 DEF StreamTypeOK
<1>7. SentIsMade'
  BY <1>1, <1>4 DEF SentIsMade
<1>8. StreamIsKept'
  <2> SUFFICES ASSUME AllLegal', ~trimmed'
               PROVE  /\ IsPrefix(in, out)'
                      /\ Carries(vecBuffer \o wire, Pending)'
    BY DEF StreamIsKept, Pending
  <2>1. AllLegal
    BY <1>4 DEF AllLegal
  <2>2. ~trimmed /\ ~(Len(vecBuffer) > Cap)
    BY <1>1, <1>4 DEF StreamTypeOK
  <2>3. IsPrefix(in, out) /\ Carries(vecBuffer \o wire, Pending)
    BY <1>1, <2>1, <2>2 DEF StreamIsKept, Pending
  <2>4. vecBuffer' = vecBuffer \o SubSeq(wire, 1, len)
    BY <1>4, <2>2 DEF Trim, Insert
  <2>5. vecBuffer' \o wire' = vecBuffer \o wire
    BY <1>4, <1>5, <2>4
  <2>6. Pending' = Pending
    BY <1>4 DEF Pending
  <2>7. QED
    BY <1>4, <2>3, <2>5, <2>6
<1>9. QED
  BY <1>6, <1>7, <1>8 DEF StreamInv

\* GetOneProtocol takes the next message or nothing.
LEMMA GetKeeps ==
  ASSUME StreamInv, GetOneProtocolData
  PROVE  StreamInv'
<1> DEFINE r == GetOneProtocol(vecBuffer)
<1>1. StreamTypeOK /\ SentIsMade /\ StreamIsKept
  BY DEF StreamInv
<1>2. /\ out \in Seq(Seq(Cell)) /\ in \in Seq(Seq(Cell))
      /\ wire \in Seq(Cell) /\ vecBuffer \in Seq(Cell)
  BY <1>1 DEF StreamTypeOK
<1>3. /\ vecBuffer' = r.vecBuffer
      /\ in' = IF r.ok THEN Append(in, r.vecProtocal) ELSE in
      /\ UNCHANGED <<out, wire, trimmed>>
  BY DEF GetOneProtocolData
<1>4. r.vecBuffer \in Seq(Cell) /\ r.vecProtocal \in Seq(Cell)
  BY <1>2, GetOneProtocolType
<1> HIDE DEF r
<1>5. StreamTypeOK'
  <2>1. in' \in Seq(Seq(Cell))
    BY <1>2, <1>3, <1>4
  <2>2. QED
    BY <1>1, <1>3, <1>4, <2>1 DEF StreamTypeOK
<1>6. SentIsMade'
  BY <1>1, <1>3 DEF SentIsMade
<1>7. StreamIsKept'
  <2> SUFFICES ASSUME AllLegal', ~trimmed'
               PROVE  /\ IsPrefix(in, out)'
                      /\ Carries(vecBuffer \o wire, Pending)'
    BY DEF StreamIsKept, Pending
  <2>1. AllLegal /\ ~trimmed
    BY <1>3 DEF AllLegal
  <2>2. IsPrefix(in, out) /\ Carries(vecBuffer \o wire, Pending)
    BY <1>1, <2>1 DEF StreamIsKept, Pending
  <2>3. Len(in) <= Len(out) /\ \A i \in 1..Len(in) : in[i] = out[i]
    BY <1>2, <2>2, PrefixElements
  <2>4. /\ Pending \in Seq(Seq(Cell))
        /\ Len(Pending) = Len(out) - Len(in)
        /\ \A k \in 1..Len(Pending) : Pending[k] = out[Len(in) + k]
    BY <1>2, <2>3, PendingShape
  <2>5. ASSUME NEW k \in 1..Len(Pending)
        PROVE  Made(Pending[k])
    <3>1. Len(in) + k \in 1..Len(out) /\ Pending[k] = out[Len(in) + k]
      <4>1. Len(in) \in Nat /\ Len(out) \in Nat
        BY <1>2
      <4>2. Len(in) + k \in 1..Len(out)
        BY <2>4, <4>1
      <4>3. QED
        BY <2>4, <4>2
    <3>2. PICK data \in Data : out[Len(in) + k] = MakeProtocol(data)
      BY <1>1, <3>1 DEF SentIsMade
    <3>3. data \in Seq(Cell)
      BY StreamAssumption
    <3>4. Len(out[Len(in) + k]) <= HeaderSize + MaxDataLen
      BY <2>1, <3>1 DEF AllLegal, Legal
    <3>5. Len(data) <= MaxDataLen
      <4>1. Len(MakeProtocol(data)) = HeaderSize + Len(data)
        BY <3>3, MadeOfCells
      <4>2. HeaderSize + Len(data) <= HeaderSize + MaxDataLen
        BY <3>2, <3>4, <4>1
      <4>3. QED
        BY <3>3, <4>2, ProtocolAssumption
    <3>6. QED
      BY <3>1, <3>2, <3>3, <3>5 DEF Made
  <2>6. \/ r = NoMessage(vecBuffer)
        \/ /\ Pending # <<>> /\ r.ok /\ r.vecProtocal = Pending[1]
           /\ r.vecBuffer \in Seq(Cell)
           /\ Carries(r.vecBuffer \o wire, Tail(Pending))
    BY <1>2, <2>2, <2>4, <2>5, NextMessage DEF r
  <2>7. CASE r = NoMessage(vecBuffer)
    <3>1. vecBuffer' = vecBuffer /\ in' = in /\ Pending' = Pending
      BY <1>3, <2>7 DEF NoMessage, Pending
    <3>2. QED
      BY <1>3, <2>2, <3>1
  <2>8. CASE /\ Pending # <<>> /\ r.ok /\ r.vecProtocal = Pending[1]
             /\ Carries(r.vecBuffer \o wire, Tail(Pending))
    <3>1. Len(Pending) # 0 /\ Len(in) + 1 \in 1..Len(out)
      BY <1>2, <2>3, <2>4, <2>8, EmptySeq
    <3>2. Pending[1] = out[Len(in) + 1]
      BY <1>2, <2>4, <3>1
    <3>3. in' = Append(in, Pending[1])
      BY <1>3, <2>8
    <3>4. /\ in' \in Seq(Seq(Cell)) /\ Len(in') = Len(in) + 1
          /\ \A i \in 1..Len(in) : in'[i] = in[i]
          /\ in'[Len(in) + 1] = out[Len(in) + 1]
      BY <1>2, <1>4, <2>8, <3>2, <3>3, AppendProperties
    <3>5. IsPrefix(in, out)'
      <4>1. Len(in') <= Len(out)
        BY <1>2, <3>1, <3>4
      <4>2. ASSUME NEW i \in 1..Len(in')
            PROVE  in'[i] = out[i]
        <5>1. i \in 1..Len(in) \/ i = Len(in) + 1
          BY <1>2, <3>4
        <5>2. QED
          BY <2>3, <3>4, <5>1
      <4>3. IsPrefix(in', out)
        BY <1>2, <3>4, <4>1, <4>2, PrefixPointwise
      <4>4. QED
        BY <1>3, <4>3
    <3>6. Pending' = Tail(Pending)
      BY <1>2, <1>3, <2>3, <3>1, <3>4, PendingShrinks
    <3>7. QED
      BY <1>3, <2>8, <3>5, <3>6
  <2>9. QED
    BY <2>6, <2>7, <2>8
<1>8. QED
  BY <1>5, <1>6, <1>7 DEF StreamInv

(* The receiver sees what was sent, whole and in order, and the rest of    *)
(* the stream is still there: however the stream is cut, whatever the data *)
(* looks like and however much is sent, as long as the messages are legal  *)
(* and ConnReadCb has not erased anything.                                 *)
THEOREM StreamAlwaysKept == StreamSpec => []StreamIsKept
<1>1. StreamInv /\ [StreamNext]_streamVars => StreamInv'
  <2> SUFFICES ASSUME StreamInv, [StreamNext]_streamVars PROVE StreamInv'
    OBVIOUS
  <2>1. ASSUME NEW data \in Data, Send(data) PROVE StreamInv'
    BY <2>1, SendKeeps
  <2>2. ASSUME NEW len \in 1..MaxRead, ConnReadCb(len) PROVE StreamInv'
    BY <2>2, ReadKeeps
  <2>3. CASE GetOneProtocolData
    BY <2>3, GetKeeps
  <2>4. CASE UNCHANGED streamVars
    BY <2>4 DEF streamVars, StreamInv, StreamTypeOK, SentIsMade, StreamIsKept,
                AllLegal
  <2>5. QED
    BY <2>1, <2>2, <2>3, <2>4 DEF StreamNext
<1>2. StreamInv => StreamIsKept
  BY DEF StreamInv
<1>3. QED
  BY <1>1, <1>2, StreamStarts, PTL DEF StreamSpec

-----------------------------------------------------------------------------
\* GetOneProtocol never makes a buffer longer.
LEMMA GetOneProtocolShrinks ==
  ASSUME NEW vec \in Seq(Cell)
  PROVE  Len(GetOneProtocol(vec).vecBuffer) <= Len(vec)
<1>1. CASE Headers(vec) = {}
  BY <1>1, ProtocolAssumption
  DEF GetOneProtocol, NoMessage, DropGarbage, Erase
<1>2. CASE Headers(vec) # {}
  <2>1. PICK rest \in Seq(Cell), need \in Nat :
          /\ Len(rest) <= Len(vec)
          /\ \/ need <= Len(rest) /\ GetOneProtocol(vec) = TakeMessage(rest, need)
             \/ GetOneProtocol(vec) = NoMessage(rest)
    <3> DEFINE i    == First(Headers(vec))
               rest == Erase(vec, i)
    <3>1. i \in Nat /\ Len(vec) - i <= Len(vec)
      BY <1>2, WithHeader
    <3>2. QED
      BY <1>2, <3>1, WithHeader
  <2>2. CASE need <= Len(rest) /\ GetOneProtocol(vec) = TakeMessage(rest, need)
    <3>1. Len(Erase(rest, need)) <= Len(rest)
      BY <2>2 DEF Erase
    <3>2. QED
      BY <2>1, <2>2, <3>1 DEF TakeMessage
  <2>3. CASE GetOneProtocol(vec) = NoMessage(rest)
    BY <2>1, <2>3 DEF NoMessage
  <2>4. QED
    BY <2>1, <2>2, <2>3
<1>3. QED
  BY <1>1, <1>2

(* The receive buffer never holds more than the limit and one read,        *)
(* whatever is sent, legal or not, and however rarely GetOneProtocol runs. *)
THEOREM BuffersStayBounded == StreamSpec => []BufferBounded
<1> USE StreamAssumption
<1> DEFINE BInv == vecBuffer \in Seq(Cell) /\ wire \in Seq(Cell) /\ BufferBounded
<1>1. StreamInit => BInv
  <2>1. <<>> \in Seq(Cell) /\ Len(<<>>) = 0
    OBVIOUS
  <2>2. QED
    BY <2>1 DEF StreamInit, BufferBounded
<1>2. BInv /\ [StreamNext]_streamVars => BInv'
  <2> SUFFICES ASSUME BInv, [StreamNext]_streamVars PROVE BInv'
    OBVIOUS
  <2>1. ASSUME NEW data \in Data, Send(data) PROVE BInv'
    <3>1. MakeProtocol(data) \in Seq(Cell)
      BY MadeOfCells
    <3>2. QED
      BY <2>1, <3>1 DEF Send, BufferBounded
  <2>2. ASSUME NEW len \in 1..MaxRead, ConnReadCb(len) PROVE BInv'
    <3>1. /\ Erase(wire, len) \in Seq(Cell) /\ Erase(vecBuffer, len) \in Seq(Cell)
          /\ SubSeq(wire, 1, len) \in Seq(Cell) /\ Len(SubSeq(wire, 1, len)) = len
      <4>1. len \in Nat /\ len <= Len(wire)
        BY <2>2 DEF ConnReadCb
      <4>2. Erase(wire, len) \in Seq(Cell) /\ Erase(vecBuffer, len) \in Seq(Cell)
        BY <4>1, EraseType
      <4>3. QED
        BY <4>1, <4>2
    <3>2. /\ Trim(vecBuffer, len) \in Seq(Cell)
          /\ Len(Trim(vecBuffer, len)) + len <= Cap + MaxRead
      <4>1. CASE Len(vecBuffer) > Cap
        <5>1. Len(Erase(vecBuffer, len)) = Len(vecBuffer) - len
          BY <4>1 DEF Erase
        <5>2. QED
          BY <3>1, <4>1, <5>1 DEF Trim, BufferBounded
      <4>2. CASE ~(Len(vecBuffer) > Cap)
        BY <4>2 DEF Trim
      <4>3. QED
        BY <4>1, <4>2
    <3>3. QED
      BY <2>2, <3>1, <3>2 DEF ConnReadCb, Insert, BufferBounded
  <2>3. CASE GetOneProtocolData
    <3>1. /\ GetOneProtocol(vecBuffer).vecBuffer \in Seq(Cell)
          /\ Len(GetOneProtocol(vecBuffer).vecBuffer) <= Len(vecBuffer)
      BY GetOneProtocolType, GetOneProtocolShrinks
    <3>2. QED
      BY <2>3, <3>1 DEF GetOneProtocolData, BufferBounded
  <2>4. CASE UNCHANGED streamVars
    BY <2>4 DEF streamVars, BufferBounded
  <2>5. QED
    BY <2>1, <2>2, <2>3, <2>4 DEF StreamNext
<1>3. BInv => BufferBounded
  OBVIOUS
<1> HIDE DEF BInv
<1>4. QED
  BY <1>1, <1>2, <1>3, PTL DEF StreamSpec
=============================================================================
