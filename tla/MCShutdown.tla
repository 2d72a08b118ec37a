---------------------------- MODULE MCShutdown ----------------------------
(* Time in units of 6 s, rounded up: two worker loops.                     *)
EXTENDS Shutdown
===========================================================================
