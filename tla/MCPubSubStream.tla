--------------------------- MODULE MCPubSubStream ---------------------------
(* PubSubStream for TLC: the constant is given in the configurations.      *)
EXTENDS PubSubStream
=============================================================================
