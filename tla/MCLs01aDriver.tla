---------------------------- MODULE MCLs01aDriver ----------------------------
(* Ls01aDriver with small constants for TLC.                               *)
EXTENDS Ls01aDriver

\* Noise that looks like the start of a scan.
MCNoise == {StartAck}
=============================================================================
