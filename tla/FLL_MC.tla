------------------------------- MODULE FLL_MC -------------------------------
(* 3-bit counters and two-valued signals: only the sign of a sample matters, *)
(* so every sequence of crossings, and none at all, can happen.              *)
EXTENDS FLL_Spec

MCM == 8
MCSamples == {-1, 1}
=============================================================================
