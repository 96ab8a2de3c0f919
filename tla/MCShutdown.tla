----------------------------- MODULE MCShutdown ------------------------------
(* Shutdown with small constants for TLC.                                  *)
EXTENDS Shutdown

\* Messages that the handler thread sends on or not, at once or to a list.
MCPayload == [type : {"OTHER", "SUB", "PUB"}, name : Name]
=============================================================================
