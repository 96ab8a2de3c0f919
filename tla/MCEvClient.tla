------------------------------ MODULE MCEvClient ------------------------------
(* EvClient with small constants for TLC.                                  *)
EXTENDS EvClient

Both == {0, -1}
YesOrNo == {TRUE, FALSE}
=============================================================================
