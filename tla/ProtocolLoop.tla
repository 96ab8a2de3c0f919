---------------------------- MODULE ProtocolLoop ----------------------------
(* The loop of GetProtocalData over one receive buffer, from any contents: *)
(* GetOneProtocol is called again until it answers false.                  *)
EXTENDS ProtocolInc

CONSTANTS MaxBuffer   \* bound: cells in the buffer at the start

VARIABLES buffer, more

loopVars == <<buffer, more>>

Buffers == UNION {[1..n -> Cell] : n \in 0..MaxBuffer}

LoopInit == buffer \in Buffers /\ more = TRUE

Iterate ==
  /\ more
  /\ LET r == GetOneProtocol(buffer)
     IN  buffer' = r.vecBuffer /\ more' = r.ok

LoopSpec == LoopInit /\ [][Iterate]_loopVars /\ WF_loopVars(Iterate)

-----------------------------------------------------------------------------
(* Properties.                                                             *)

(* Every message taken shortens the buffer, whatever length the stale      *)
(* pointer yields, a wrapped-around 0 included.                            *)
MessageShortens ==
  LET r == GetOneProtocol(buffer)
  IN  r.ok => Len(r.vecBuffer) < Len(buffer)

(* Therefore the loop, which runs under m_mutex, ends.                     *)
LoopEnds == <>~more

(* Only garbage is skipped: no call erases the start of a header, and none *)
(* that the next cells to arrive could complete.                           *)
NoHeaderSkipped ==
  LET r     == GetOneProtocol(buffer)
      gone  == Len(buffer) - Len(r.vecBuffer) - Len(r.vecProtocal)
  IN  \A next \in [1..(HeaderSize - 1) -> {MagicWord, 0}] :
        \A i \in Headers(buffer \o next) : i >= gone

(* A complete message at the front of the buffer is taken, all of it and   *)
(* nothing else; an incomplete one is left alone.                          *)
FrontMessageTaken ==
  LET r == GetOneProtocol(buffer)
  IN  Len(buffer) >= HeaderSize /\ IsValid(buffer, 0) =>
        LET len == HeaderSize + DataLen(buffer, 0)
        IN  IF Len(buffer) >= len
            THEN /\ r.ok
                 /\ Len(r.vecProtocal) = len
                 /\ r.vecProtocal \o r.vecBuffer = buffer
            ELSE ~r.ok /\ r.vecBuffer = buffer

(* GetOneProtocol returns what MakeProtocol has made, for every legal      *)
(* length and whatever follows in the buffer.                              *)
RoundTrip ==
  \A n \in 0..MaxDataLen : \A data \in [1..n -> {MagicWord, 0}] :
    GetOneProtocol(MakeProtocol(data) \o buffer) =
      [ok |-> TRUE, vecBuffer |-> buffer, vecProtocal |-> MakeProtocol(data)]
=============================================================================
