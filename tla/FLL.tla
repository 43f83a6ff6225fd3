-------------------------------- MODULE FLL --------------------------------
(***************************************************************************)
(* The frequency-locked loop (FLL.sv) with its two period counters, its    *)
(* subtractor (SUB_CNT.sv) and the part of Generator.sv that turns the     *)
(* measured difference into a correction and gates the NCO's clock.        *)
(*                                                                         *)
(* Everything runs on one clock: Edge(x, y) is one posedge out of reset,   *)
(* x and y being the samples of the input signal and of the NCO afterwards.*)
(* A signal assigned from itself in a combinational block is a latch: this  *)
(* variable keeps its value of the clock before, the operator of the same  *)
(* name without the suffix is what it settles to in this clock.            *)
(*                                                                         *)
(* Left out because nothing reads them: en_hold, pm_in_buf (both branches  *)
(* it selects are the same), the ph_en and ph_cnt ports of the counters.   *)
(***************************************************************************)
EXTENDS Naturals, Integers

CONSTANTS
    M,        \* 2^W_N_MAX, the range of both period counters
    Reading   \* the meaning of the counters' sample buffers

ASSUME LoopAssumption == M \in Nat /\ M > 1 /\ Reading \in {"event", "wire"}

VARIABLES
    inState, inFst, inSec, inCount,       \* enum_cnt_input_inst
    genState, genFst, genSec, genCount,   \* enum_cnt_gen_inst
    state,                                \* the enum of lines 15-23
    cnt_hold_l, count_buf_l,              \* latches of the state machine
    quietIn, quietGen,                    \* clocks since buf_pm_* took a crossing
    valid_sub, valid_delta,               \* a pair is on offer; delta is its difference
    delta,                                \* SUB_CNT's register
    sub                                   \* Generator's register, in units of MULT

In == INSTANCE ENUM_CNT WITH
    state <- inState, fst <- inFst, sec <- inSec, count <- inCount
Gen == INSTANCE ENUM_CNT WITH
    state <- genState, fst <- genFst, sec <- genSec, count <- genCount

inVars  == <<inState, inFst, inSec, inCount>>
genVars == <<genState, genFst, genSec, genCount>>
fllVars == <<state, cnt_hold_l, count_buf_l, quietIn, quietGen,
             valid_sub, valid_delta, delta, sub>>
vars == <<inVars, genVars, fllVars>>

FLLStates == {"Reset_St", "Wait_St", "Count_St", "Step_St", "Chek_St",
              "Hold_fst_St", "Hold_sec_St"}

\* buf_pm_in and buf_pm_gen are 3 bits deep and only their OR is used.
BufDepth == 3
ph_pm_in  == quietIn < BufDepth
ph_pm_gen == quietGen < BufDepth

\* Both counters get the same withdrawal (lines 312-313).
valid_input == In!valid(valid_sub)
valid_gen   == Gen!valid(valid_sub)

\* Mutant of Far: only a generator that is too fast is far.
FarLow == valid_delta /\ delta < -1

\* chk: no new difference (0), at most one clock (1), or more (2).
Near == valid_delta /\ delta \in -1 .. 1
Far  == valid_delta /\ delta \notin -1 .. 1

SameCount == inCount = genCount /\ inCount # 0

\* Mutant of Aligned: one clock late.
AlignedLate == inCount = count_buf_l + 1

\* The input has run as long as the period that was saved.
Aligned == inCount = count_buf_l

cnt_hold ==
    \/ state = "Count_St" /\ SameCount /\ Gen!pm
    \/ state = "Step_St" /\ cnt_hold_l /\ ~Far
    \/ state = "Chek_St" /\ (Aligned \/ (cnt_hold_l /\ ~Far))

\* The value the latch keeps, or 0.
Kept(yes) == IF yes THEN count_buf_l ELSE 0

count_buf ==
    IF state = "Count_St" /\ SameCount THEN (IF Gen!pm THEN genCount ELSE 0)
    ELSE Kept(\/ state = "Count_St"
              \/ state = "Step_St" /\ ~Far
              \/ state = "Chek_St" /\ (Aligned \/ ~Far))

blok == state \in {"Hold_fst_St", "Hold_sec_St"}

\* The transitions, in the order of the case statement.
Go(from, to) == state = from /\ state' = to

\* Mutant of Approach: crossings that are both recent do not keep it back.
ApproachAny == Near /\ Go("Wait_St", "Count_St")

Arm        == Go("Reset_St", "Wait_St")
Approach   == Near /\ ~(ph_pm_in /\ ph_pm_gen) /\ Go("Wait_St", "Count_St")
Freeze     == SameCount /\ Gen!pm /\ Go("Count_St", "Step_St")
Miss       == SameCount /\ ~Gen!pm /\ Go("Count_St", "Wait_St")
Confirm    == Near /\ Go("Step_St", "Chek_St")
Align      == Aligned /\ Go("Chek_St", "Hold_fst_St")
GiveUp     == Far /\ (Go("Step_St", "Wait_St") \/ (~Aligned /\ Go("Chek_St", "Wait_St")))
Release    == Go("Hold_fst_St", "Hold_sec_St") \/ Go("Hold_sec_St", "Wait_St")
Stay ==
    /\ \/ state = "Wait_St" /\ ~(Near /\ ~(ph_pm_in /\ ph_pm_gen))
       \/ state = "Count_St" /\ ~SameCount
       \/ state = "Step_St" /\ ~Near /\ ~Far
       \/ state = "Chek_St" /\ ~Aligned /\ ~Far
    /\ UNCHANGED state

Move == Arm \/ Approach \/ Freeze \/ Miss \/ Confirm \/ Align \/ GiveUp \/ Release \/ Stay

\* buf_pm <= {buf_pm[1:0], pm}
Quiet(pm, quiet) == IF pm THEN 0 ELSE IF quiet < BufDepth THEN quiet + 1 ELSE quiet

\* Mutant of HeldSample: the NCO's clken is left at 1.
HeldSampleFree(y) == TRUE

\* The NCO's clken is low while the generator is held (Generator.sv:374-377).
HeldSample(y) == cnt_hold => y = genSec

Edge(x, y) ==
    /\ In!Clock(valid_sub) /\ In!Sample(x, Reading)
    /\ Gen!Clock(valid_sub) /\ HeldSample(y) /\ Gen!Sample(y, Reading)
    /\ Move
    /\ cnt_hold_l' = cnt_hold
    /\ count_buf_l' = count_buf
    /\ quietIn' = Quiet(In!pm, quietIn)
    /\ quietGen' = Quiet(Gen!pm, quietGen)
    /\ valid_sub' = (valid_input /\ valid_gen)
    /\ valid_delta' = valid_sub
    /\ delta' = IF valid_sub THEN inCount - genCount ELSE 0
    /\ sub' = IF blok THEN 0 ELSE delta

\* reset_l low over a clock: Generator's sub has no reset and still follows
\* delta, which the reset has already cleared.
ResetEdge(x, y) ==
    /\ In!Reset /\ In!Sample(x, Reading)
    /\ Gen!Reset /\ Gen!Sample(y, Reading)
    /\ state' = "Reset_St"
    /\ cnt_hold_l' = FALSE
    /\ count_buf_l' = 0
    /\ quietIn' = BufDepth
    /\ quietGen' = BufDepth
    /\ valid_sub' = FALSE
    /\ valid_delta' = FALSE
    /\ delta' = 0
    /\ sub' = 0

Init ==
    /\ In!Init
    /\ Gen!Init
    /\ state = "Reset_St"
    /\ cnt_hold_l = FALSE
    /\ count_buf_l = 0
    /\ quietIn = BufDepth
    /\ quietGen = BufDepth
    /\ valid_sub = FALSE
    /\ valid_delta = FALSE
    /\ delta = 0
    /\ sub = 0

TypeOK ==
    /\ In!TypeOK
    /\ Gen!TypeOK
    /\ state \in FLLStates
    /\ cnt_hold_l \in BOOLEAN
    /\ count_buf_l \in 0 .. M - 1
    /\ quietIn \in 0 .. BufDepth
    /\ quietGen \in 0 .. BufDepth
    /\ valid_sub \in BOOLEAN
    /\ valid_delta \in BOOLEAN
    /\ delta \in 1 - M .. M - 1
    /\ sub \in 1 - M .. M - 1
=============================================================================
