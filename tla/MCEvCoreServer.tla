--------------------------- MODULE MCEvCoreServer ---------------------------
(* EvCoreServer with small constants for TLC.                              *)
EXTENDS EvCoreServer, TLC

\* The safety properties do not tell addresses apart.
BevSymmetry == Permutations(Bev)

\* bufferevent_write answers 0 or -1.
MCWriteResults == {0, -1}

\* One name, and the messages of publish and subscribe.
PubSubPayload == [type : {"PUB", "SUB", "SUB_CANCEL"}, name : Name]

\* Every type of message.
AllPayload == [type : Type, name : Name]
=============================================================================
