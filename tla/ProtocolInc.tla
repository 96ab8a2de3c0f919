----------------------------- MODULE ProtocolInc -----------------------------
(* Framing, common/ProtocolInc: how a message is laid out and how          *)
(* GetOneProtocol cuts the first message out of a receive buffer.          *)
(*                                                                         *)
(* The unit is a cell.  A header of HeaderSize cells has the magic word in *)
(* its first and dataLen in its last cell; id, type, subType and status    *)
(* lie in between and play no part.  A cell holds any number below Width,  *)
(* and sums of a cell wrap around at Width.                                *)
EXTENDS Integers, Sequences

CONSTANTS
  HeaderSize,   \* sizeof ( protocol_header_t )
  MagicWord,    \* 0xeb90
  MaxDataLen,   \* 32 * 1024
  Width         \* 2 ^ 32

ASSUME ProtocolAssumption ==
  /\ HeaderSize \in Nat /\ HeaderSize >= 2
  /\ MaxDataLen \in Nat
  /\ Width \in Nat /\ HeaderSize + MaxDataLen < Width
  /\ MagicWord \in 0..(Width - 1)

Cell == 0..(Width - 1)

(* The header at the 0-based offset i of the memory mem.                   *)
DataLen(mem, i) == mem[i + HeaderSize]

IsValid(mem, i) == mem[i + 1] = MagicWord /\ DataLen(mem, i) <= MaxDataLen

NeedRead(mem, i) == (HeaderSize + DataLen(mem, i)) % Width

\* vector::erase ( begin, begin + n ).
Erase(vec, n) == SubSeq(vec, n + 1, Len(vec))

(* erase moves the rest of the vector down and keeps the storage: what a   *)
(* pointer into it sees afterwards, the cells past the new end included.   *)
Storage(vec, n) ==
  [k \in 1..Len(vec) |-> IF k <= Len(vec) - n THEN vec[k + n] ELSE vec[k]]

\* The offsets GetOneProtocol tries, and those at which it finds a header.
Offsets(vec) == 0..(Len(vec) - HeaderSize)
Headers(vec) == {i \in Offsets(vec) : IsValid(vec, i)}

First(S) == CHOOSE i \in S : \A j \in S : i <= j

\* Mutated form: the whole buffer is cleared.
ClearGarbage(vec) == IF Len(vec) >= 2 * HeaderSize THEN <<>> ELSE vec
\* No header: a buffer of two header sizes loses one at its front.
DropGarbage(vec) ==
  IF Len(vec) >= 2 * HeaderSize THEN Erase(vec, HeaderSize) ELSE vec

\* Mutated form: the message is not erased from the buffer.
TakeKeeps(rest, need) ==
  [ok |-> TRUE, vecBuffer |-> rest, vecProtocal |-> SubSeq(rest, 1, need)]
TakeMessage(rest, need) ==
  [ok |-> TRUE, vecBuffer |-> Erase(rest, need),
   vecProtocal |-> SubSeq(rest, 1, need)]

NoMessage(vec) == [ok |-> FALSE, vecBuffer |-> vec, vecProtocal |-> <<>>]

\* Mutated form: off by one.
MoreThanComplete(rest, need) == Len(rest) > need
Complete(rest, need) == Len(rest) >= need

(* Cells before the first header are erased.  The pointer to the header is *)
(* not moved along: NeedRead reads dataLen at the header's old offset.     *)
GetOneProtocol(vec) ==
  IF Headers(vec) = {}
  THEN NoMessage(DropGarbage(vec))
  ELSE LET i    == First(Headers(vec))
           rest == Erase(vec, i)
           need == NeedRead(Storage(vec, i), i)
       IN  IF Complete(rest, need) THEN TakeMessage(rest, need)
                                   ELSE NoMessage(rest)

\* The arguments id, type, subType and status are 0 here.
MakeProtocol(data) ==
  [k \in 1..HeaderSize |->
     CASE k = 1          -> MagicWord
       [] k = HeaderSize -> Len(data) % Width
       [] OTHER          -> 0] \o data

-----------------------------------------------------------------------------
(* For the properties: cells is msgs, one after the other; end[k] is where *)
(* the k-th ends.                                                          *)
Carries(cells, msgs) ==
  \E end \in [0..Len(msgs) -> 0..Len(cells)] :
    /\ end[0] = 0 /\ end[Len(msgs)] = Len(cells)
    /\ \A k \in 1..Len(msgs) :
         /\ end[k] = end[k - 1] + Len(msgs[k])
         /\ \A j \in 1..Len(msgs[k]) : cells[end[k - 1] + j] = msgs[k][j]
=============================================================================
