---------------------------- MODULE MCSerialPort ----------------------------
(* SerialPort with small constants for TLC.                                *)
EXTENDS SerialPort

CONSTANTS reader, user

\* The threads of Ls01aDriver: one reads and restarts the lidar, the other
\* starts and stops it.
MCThread == {reader, user}
MCCalls == [t \in MCThread |->
  IF t = reader THEN {"Write", "Read", "ReadPackage"} ELSE {"Write"}]
=============================================================================
