--------------------------- MODULE MCStreamProbe ----------------------------
(* The worker's probe as the chart configures it.                          *)
EXTENDS StreamProbe
=============================================================================
