------------------------------ MODULE MCIntake ------------------------------
(* Intake for TLC: the constants are given in the configurations.          *)
EXTENDS Intake
=============================================================================
