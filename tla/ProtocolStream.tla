--------------------------- MODULE ProtocolStream ---------------------------
(* One direction of one connection, cell by cell: the sender makes its     *)
(* messages with MakeProtocol, TCP cuts the stream anywhere, ConnReadCb    *)
(* collects the pieces in a receive buffer and GetProtocalData takes the   *)
(* messages out with GetOneProtocol.  EvTcpHandler has one such buffer per *)
(* connection; EvClient's ConnReadCb and GetMsg do the same with its own.  *)
EXTENDS ProtocolInc, SequencesExt

CONSTANTS
  Data,       \* what a sender may put into a message: sequences of cells
  Cap,        \* the 32 * 1024 of ConnReadCb
  MaxRead,    \* the most one callback finds in libevent's input buffer
  MaxSend     \* bound: messages sent

(* libevent reads at most 16 KiB at a time, so that the cells ConnReadCb   *)
(* erases are there.                                                       *)
ASSUME StreamAssumption ==
  /\ Data \subseteq Seq(Cell)
  /\ Cap \in Nat /\ MaxSend \in Nat
  /\ MaxRead \in Nat \ {0} /\ MaxRead <= Cap + 1

VARIABLES
  out,          \* history: what has been sent, message by message
  wire,         \* sent and not yet read
  vecBuffer,    \* the receive buffer
  in,           \* history: the messages taken out of the receive buffer
  trimmed       \* history: ConnReadCb has erased something

streamVars == <<out, wire, vecBuffer, in, trimmed>>

StreamInit ==
  /\ out = <<>> /\ wire = <<>> /\ vecBuffer = <<>> /\ in = <<>>
  /\ trimmed = FALSE

\* PubMsg, SubMsg and the others do not look at the length of the data.
Send(data) ==
  /\ Len(out) < MaxSend
  /\ out' = Append(out, MakeProtocol(data))
  /\ wire' = wire \o MakeProtocol(data)
  /\ UNCHANGED <<vecBuffer, in, trimmed>>

\* Mutated form: whatever does not fit is cut off at the end.
InsertUpToCap(vec, new) ==
  SubSeq(vec \o new, 1, Min({Cap, Len(vec) + Len(new)}))
Insert(vec, new) == vec \o new

\* Mutated form: nothing is trimmed.
TrimNothing(vec, len) == vec
\* A buffer over the limit loses as much at its front as is about to arrive.
Trim(vec, len) == IF Len(vec) > Cap THEN Erase(vec, len) ELSE vec

ConnReadCb(len) ==
  /\ len <= Len(wire)
  /\ wire' = Erase(wire, len)
  /\ vecBuffer' = Insert(Trim(vecBuffer, len), SubSeq(wire, 1, len))
  /\ trimmed' = (trimmed \/ Len(vecBuffer) > Cap)
  /\ UNCHANGED <<out, in>>

GetOneProtocolData ==
  LET r == GetOneProtocol(vecBuffer)
  IN  /\ vecBuffer' = r.vecBuffer
      /\ in' = IF r.ok THEN Append(in, r.vecProtocal) ELSE in
      /\ UNCHANGED <<out, wire, trimmed>>

StreamNext ==
  \/ \E data \in Data : Send(data)
  \/ \E len \in 1..MaxRead : ConnReadCb(len)
  \/ GetOneProtocolData

StreamSpec == StreamInit /\ [][StreamNext]_streamVars

(* Both threads run.                                                       *)
StreamLiveSpec ==
  /\ StreamSpec
  /\ WF_streamVars(\E len \in 1..MaxRead : ConnReadCb(len))
  /\ WF_streamVars(GetOneProtocolData)

-----------------------------------------------------------------------------
(* Properties.                                                             *)

Legal(msg) == Len(msg) <= HeaderSize + MaxDataLen
AllLegal == \A i \in 1..Len(out) : Legal(out[i])

(* As long as the senders keep to the limit and the receive buffer has not *)
(* been trimmed, the receiver sees the sent messages, whole and in order,  *)
(* however the stream is cut and whatever the data looks like; the rest of *)
(* the stream is still there.                                              *)
StreamIsKept ==
  AllLegal /\ ~trimmed =>
    /\ IsPrefix(in, out)
    /\ Carries(vecBuffer \o wire, SubSeq(out, Len(in) + 1, Len(out)))

(* ConnReadCb's limit bounds the receive buffer, however slow the thread   *)
(* that takes the messages out is, and whatever the buffer holds.          *)
BufferBounded == Len(vecBuffer) <= Cap + MaxRead

(* Everything sent arrives, under the same conditions.                     *)
EverythingArrives ==
  \A n \in 1..MaxSend :
    Len(out) = n ~> (Len(in) >= n \/ trimmed \/ ~AllLegal)
=============================================================================
