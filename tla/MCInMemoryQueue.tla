-------------------------- MODULE MCInMemoryQueue --------------------------
(* Small instances of InMemoryQueue for TLC.                               *)
EXTENDS InMemoryQueue
=============================================================================
