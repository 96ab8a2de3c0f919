--------------------------- MODULE MCEvTcpHandler ---------------------------
(* EvTcpHandler with small constants for TLC.                              *)
EXTENDS EvTcpHandler, TLC

\* The safety properties do not tell addresses apart.
BevSymmetry == Permutations(Bev)

\* bufferevent_write answers -1.  In this module its answer has no effect but
\* on what has been written, and no property of the run asks for that; the
\* runs of EvCoreServer, where it matters, have both answers.
MCWriteResults == {-1}
=============================================================================
