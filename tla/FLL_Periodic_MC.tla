-------------------------- MODULE FLL_Periodic_MC --------------------------
(* Periods of 9 to 12 clocks (a ratio of 1.33; the design's band of 103 to   *)
(* 126 clocks has 1.22) below a 4-bit counter's range, every start phase.    *)
EXTENDS FLL_Periodic

MCM == 16
MCPeriods == 9 .. 12
MCSamples == {-1, 1}
=============================================================================
