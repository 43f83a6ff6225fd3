------------------------------- MODULE Arith -------------------------------
(***************************************************************************)
(* The arithmetic ring (Arith.sv): five floating-point units that start    *)
(* one another.  i*u and q*u are multiplied side by side, their quotient   *)
(* follows, and its done both starts the scaling by Ku (which ends in the  *)
(* conversion to an integer and the output's valid) and starts the two     *)
(* multipliers again.  The ring is kicked once, when reset_l is seen to    *)
(* rise; nothing else ever starts it.                                      *)
(*                                                                         *)
(* reset_l comes from a synchronizer that falls at once and rises after    *)
(* SyncDepth clocks without a request.                                     *)
(***************************************************************************)
EXTENDS Naturals

Units == {"mult_i", "mult_q", "div", "mult", "cnv_o"}

CONSTANT Code   \* the operation codes of the instances, port n

\* The units of the ring answer through their counter; the two multipliers
\* run the same operation.
ASSUME RingAssumption ==
    /\ Code \in [Units -> 0 .. 7]
    /\ Code["mult_i"] = Code["mult_q"]
    /\ Code["cnv_o"] \in {0, 1}
    /\ \A u \in Units \ {"cnv_o"} : Code[u] \notin {0, 1}

VARIABLES
    busy, counter,        \* of the five units
    start,                \* the register that starts both multipliers
    buff_old, buff_new,   \* buff_reset_l[1] and buff_reset_l[0]
    sync,                 \* clocks until the synchronizer lets reset_l rise
    clk_en                \* the enable from Decoder's control register

FP == INSTANCE Convers

vars == <<busy, counter, start, buff_old, buff_new, sync, clk_en>>

\* Mutant of SyncDepth: reset_l rises a clock after the request.
SyncDepthShort == 1

\* The chain of altera_reset_synchronizer: two flops and the output.
SyncDepth == 3

reset_l == sync = 0

done_mult_i == FP!done("mult_i", start)
done_mult_q == FP!done("mult_q", start)
start_div   == done_mult_i /\ done_mult_q
done_rel    == FP!done("div", start_div)
done_mult   == FP!done("mult", done_rel)
done_cnv    == FP!done("cnv_o", done_mult)

valid == done_cnv /\ done_mult

\* Mutant of startOf: one multiplier is started by the other one's done.
startOfChained(u) ==
    \/ u = "mult_i" /\ start
    \/ u = "mult_q" /\ done_mult_i
    \/ u = "div" /\ start_div
    \/ u = "mult" /\ done_rel
    \/ u = "cnv_o" /\ done_mult

\* What drives the start port of each unit.
startOf(u) ==
    \/ u \in {"mult_i", "mult_q"} /\ start
    \/ u = "div" /\ start_div
    \/ u = "mult" /\ done_rel
    \/ u = "cnv_o" /\ done_mult

Started == {u \in Units : startOf(u)}

\* Mutant of StartEdge: the kick is a level, not an edge.
StartEdgeLevel ==
    /\ buff_old' = buff_new
    /\ buff_new' = reset_l
    /\ start' = (buff_new \/ done_rel)

\* Mutant of StartEdge: the quotient does not start the next computation.
StartEdgeOnce ==
    /\ buff_old' = buff_new
    /\ buff_new' = reset_l
    /\ start' = (~buff_old /\ buff_new)

\* The ring's own registers have no reset.
StartEdge ==
    /\ buff_old' = buff_new
    /\ buff_new' = reset_l
    /\ start' = ((~buff_old /\ buff_new) \/ done_rel)

\* A clock edge, after which a reset request may or may not come in.
Edge(request) ==
    /\ IF request \/ ~reset_l THEN FP!Cleared ELSE FP!UnitsEdge(Started, clk_en)
    /\ StartEdge
    /\ sync' = IF request THEN SyncDepth ELSE IF sync = 0 THEN 0 ELSE sync - 1

\* The firmware sets clk_en once and never clears it; reset leaves it alone.
Enable == clk_en' \in {clk_en, TRUE}

\* Power-up: in reset, the registers without reset hold anything.
Init ==
    /\ busy = [u \in Units |-> FALSE]
    /\ counter = [u \in Units |-> 15]
    /\ start \in BOOLEAN /\ buff_old \in BOOLEAN /\ buff_new \in BOOLEAN
    /\ sync = SyncDepth
    /\ clk_en = FALSE

Tick == Enable /\ Edge(FALSE)

ResetTick == Enable /\ Edge(TRUE)

Next == Tick \/ ResetTick

\* The clock runs; the firmware comes to its control write.
Fairness == WF_vars(Tick) /\ WF_vars(Tick /\ clk_en')

Spec == Init /\ [][Next]_vars /\ Fairness

-----------------------------------------------------------------------------
TypeOK ==
    /\ FP!UnitsTypeOK
    /\ start \in BOOLEAN
    /\ buff_old \in BOOLEAN /\ buff_new \in BOOLEAN
    /\ sync \in 0 .. SyncDepth
    /\ clk_en \in BOOLEAN

\* A computation of the ring is in one of three places.
AtStart == start
InPair  == busy["mult_i"]
InDiv   == busy["div"]

Token == IF AtStart THEN ~InPair /\ ~InDiv ELSE (InPair <=> ~InDiv)

NoToken == ~AtStart /\ ~InPair /\ ~InDiv

\* One computation goes round, never two and never none: the kick comes
\* exactly once per reset, whatever was left in the unreset registers, and no
\* handshake drops or doubles it (Arith.sv:49-91, 109-129).
OneToken ==
    reset_l => IF buff_old /\ buff_new THEN Token ELSE NoToken

\* The two multipliers stay in lockstep, so the AND of their dones does not
\* miss the single clock each of them is high (Arith.sv:71-80).
Lockstep ==
    /\ busy["mult_i"] = busy["mult_q"]
    /\ counter["mult_i"] = counter["mult_q"]
=============================================================================
