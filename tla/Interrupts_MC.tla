---------------------------- MODULE Interrupts_MC ----------------------------
(* Three priorities: one that is served, one that interrupts it and one that *)
(* interrupts both.  Two registrations that share nothing.                   *)
EXTENDS Interrupts_Spec

CONSTANTS h1, h2, c1, c2

MCIrq == 0 .. 2
MCRegistered == {[handler |-> h1, context |-> c1], [handler |-> h2, context |-> c2]}
=============================================================================
