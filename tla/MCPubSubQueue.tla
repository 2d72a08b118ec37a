--------------------------- MODULE MCPubSubQueue ----------------------------
(* Small instances of PubSubQueue for TLC.                                 *)
EXTENDS PubSubQueue
=============================================================================
