-------------------------- MODULE MCProtocolStream --------------------------
(* ProtocolStream with small constants for TLC.                            *)
EXTENDS ProtocolStream

\* Data that looks like headers, of every legal length.
LegalData == UNION {[1..n -> {MagicWord, 0}] : n \in 0..MaxDataLen}
=============================================================================
