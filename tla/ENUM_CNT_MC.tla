---------------------------- MODULE ENUM_CNT_MC ----------------------------
(* A 3-bit counter (it wraps within a run), negative, zero and two different *)
(* positive samples: crossings from below and from zero, and a signal that   *)
(* moves without crossing.                                                   *)
EXTENDS ENUM_CNT_Spec

MCM == 8
MCSamples == {-1, 0, 1, 2}
MCNoOffer == -1
=============================================================================
