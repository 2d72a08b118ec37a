--------------------------- MODULE MCJobDelivery ---------------------------
(* JobDelivery for TLC: the constants are given in the configurations.     *)
EXTENDS JobDelivery
=============================================================================
