----------------------------- MODULE Arith_Spec -----------------------------
(***************************************************************************)
(* The ring with two history variables per unit, for what the handshake    *)
(* promises about each operation.                                          *)
(***************************************************************************)
EXTENDS Arith

VARIABLES
    ran,      \* enabled clocks since the start, the starting one included
    owed      \* a start that has not been answered by done

allVars == <<vars, ran, owed>>

\* Longer than any latency: ran stops counting there.
MaxRan == 15

doneOf(u) == FP!done(u, startOf(u))

History(request) ==
    /\ ran' = [u \in Units |->
                  LET before == IF startOf(u) THEN 0 ELSE ran[u]
                  IN  IF clk_en /\ before < MaxRan THEN before + 1 ELSE before]
    /\ owed' = [u \in Units |->
                  /\ ~request /\ reset_l
                  /\ owed[u] \/ startOf(u)
                  /\ ~doneOf(u)]

SpecInit ==
    /\ Init
    /\ ran = [u \in Units |-> 0]
    /\ owed = [u \in Units |-> FALSE]

TickH == Tick /\ History(FALSE)

ResetTickH == ResetTick /\ History(TRUE)

SpecNext == TickH \/ ResetTickH

HSpec ==
    /\ SpecInit
    /\ [][SpecNext]_allVars
    /\ WF_allVars(TickH) /\ WF_allVars(TickH /\ clk_en')

-----------------------------------------------------------------------------
\* The latencies under which the scaling keeps up with the ring; those of the
\* source, a multiplication beside a multiplication and a division, are such.
ScalingKeepsUp == FP!Load("mult") =< FP!Load("mult_i") + FP!Load("div") + 1

\* No unit is started again before it has answered: the scaling and the
\* conversion are done with one quotient when the next one comes round
\* (Arith.sv:82-107).
NoOverrun ==
    reset_l => \A u \in Units : startOf(u) => ~owed[u]

\* A unit that answers through its counter has been clocked for its whole
\* latency, also when it was started before the firmware set clk_en
\* (fpoint2_multi.vhd:74-98: busy ignores clk_en, counter does not).
NeverEarly ==
    \A u \in Units :
        counter[u] = 0 /\ busy[u] /\ owed[u] => ran[u] >= FP!Load(u) + 1

\* A ring that is enabled and left alone keeps delivering results.
KeepsDelivering == (<>[][~ResetTick]_allVars) => []<>valid
=============================================================================
