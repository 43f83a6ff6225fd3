------------------------------ MODULE Arith_MC ------------------------------
(* The operation codes the source gives its instances. *)
EXTENDS Arith_Spec

MCCode == [u \in Units |-> CASE u = "div" -> 7 [] u = "cnv_o" -> 1 [] OTHER -> 4]

\* The source's latencies meet what the theorem on overruns asks for.
ASSUME LatenciesKeepUp == ScalingKeepsUp
=============================================================================
