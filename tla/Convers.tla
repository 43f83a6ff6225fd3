------------------------------ MODULE Convers ------------------------------
(***************************************************************************)
(* The handshake of the floating-point units (fpoint2_multi.vhd, wrapped   *)
(* by Convers.v): start is answered by done when a free-running 4-bit      *)
(* counter, loaded with the latency of the operation, comes to 0.  clk_en  *)
(* stops the counter but not busy.  The numbers themselves are left out.   *)
(***************************************************************************)
EXTENDS Naturals, Integers

CONSTANTS
    Units,   \* the instances
    Code     \* Code[u]: the operation code on port n of instance u

VARIABLES busy, counter   \* per instance

\* The latency of the operation, less the clock that loads the counter.
load_data(n) ==
    IF n \in {2, 4} THEN 1            \* int to float, multiply
    ELSE IF n = 3 THEN 5              \* square root
    ELSE IF n = 7 THEN 13             \* divide
    ELSE 2                            \* subtract, add and all others

Load(u) == load_data(Code[u])

\* Rounding and float-to-int answer in the clock they are started in.
Immediate(u) == Code[u] \in {0, 1}

done(u, start) ==
    \/ counter[u] = 0 /\ busy[u]
    \/ start /\ Immediate(u)

\* Asynchronous reset.
Cleared ==
    /\ busy' = [u \in Units |-> FALSE]
    /\ counter' = [u \in Units |-> 15]

\* Mutant of UnitsEdge: the counter ignores clk_en, as busy does.
UnitsEdgeUngated(start, clk_en) ==
    /\ busy' = [u \in Units |-> u \in start \/ (busy[u] /\ counter[u] # 0)]
    /\ counter' = [u \in Units |->
                       IF u \in start THEN Load(u) ELSE (counter[u] + 15) % 16]

\* A clock edge; start is the set of instances whose start is high.
UnitsEdge(start, clk_en) ==
    /\ busy' = [u \in Units |-> u \in start \/ (busy[u] /\ counter[u] # 0)]
    /\ counter' = [u \in Units |->
                       IF ~clk_en THEN counter[u]
                       ELSE IF u \in start THEN Load(u)
                       ELSE (counter[u] + 15) % 16]

UnitsTypeOK ==
    /\ busy \in [Units -> BOOLEAN]
    /\ counter \in [Units -> 0 .. 15]
=============================================================================
