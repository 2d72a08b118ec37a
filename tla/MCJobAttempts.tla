--------------------------- MODULE MCJobAttempts ---------------------------
(* Three attempts: two that fail or are cut off and one after them.        *)
EXTENDS JobAttempts
============================================================================
