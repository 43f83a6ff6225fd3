------------------------------ MODULE Filtr_MC ------------------------------
(* The source's T and latencies; an input that may be quiet, may be exactly  *)
(* 65536, or anything else.                                                  *)
EXTENDS Filtr_Spec

MCT == 10
MCLatency == 2
MCSignals == {"0.0", "65536.0", "sample"}
MCLabels == 3
=============================================================================
