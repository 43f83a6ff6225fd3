--------------------------- MODULE ENUM_CNT_Spec ---------------------------
(***************************************************************************)
(* A period counter on its own: any signal, any reset, and a reader that   *)
(* raises rst only the clock after it saw the offer, as FLL does with      *)
(* valid_sub.                                                              *)
(***************************************************************************)
EXTENDS ENUM_CNT

CONSTANTS
    Samples,  \* the values signal_in takes
    NoOffer   \* PeriodMeter's "nothing on offer"

ASSUME SamplesAssumption == Samples \subseteq Int
ASSUME NoOfferAssumption == NoOffer \notin Nat

VARIABLES
    rst,      \* the reader's withdrawal, a wire of this clock
    ph_cnt,   \* the 2-bit phase counter
    since,    \* history: clocks since the last crossing, modulo M
    reading   \* for the whole behaviour, what the sample buffer is: "event" or "wire"

vars == <<state, fst, sec, count, rst, ph_cnt, since, reading>>

SpecInit ==
    /\ Init
    /\ rst = FALSE
    /\ ph_cnt = 0
    /\ since = 0
    /\ reading \in {"event", "wire"}

\* The history variable: it follows the signal, not the counter.
Elapse == since' = IF pm THEN 1 % M ELSE (since + 1) % M

Tick ==
    /\ Clock(rst)
    /\ ph_cnt' = IF ph_cnt_en(rst) THEN (ph_cnt + 1) % 4 ELSE ph_cnt
    /\ rst' \in {FALSE, valid(rst)}
    /\ \E x \in Samples : Sample(x, reading)
    /\ Elapse
    /\ UNCHANGED reading

ResetTick ==
    /\ Reset
    /\ ph_cnt' = 0
    /\ rst' = FALSE
    /\ \E x \in Samples : Sample(x, reading)
    /\ Elapse
    /\ UNCHANGED reading

Next == Tick \/ ResetTick

\* The clock runs; nothing makes the reset come or the signal move.
Spec == SpecInit /\ [][Next]_vars /\ WF_vars(Tick)

-----------------------------------------------------------------------------
(* Types: the counter stays in its W_N_MAX bits, the phase in two. *)
SpecTypeOK ==
    /\ TypeOK
    /\ rst \in BOOLEAN
    /\ ph_cnt \in 0 .. 3
    /\ since \in 0 .. M - 1
    /\ reading \in {"event", "wire"}

Holding == state \in {"Hold_fst_St", "Hold_sec_St"}

Meter == INSTANCE PeriodMeter WITH
    crossing <- pm,
    offer    <- IF Holding THEN count ELSE NoOffer

\* Whatever the reader and the reset do, the count the machine holds is the
\* distance of two consecutive rising crossings, and it is never disturbed
\* while it is on offer (ENUM_CNT.sv:97-191, COUNT.sv:12-24).
ImplementsPeriodMeter == Meter!MeterSpec

\* The restart on two zero samples (nul) never cuts a measurement short: once
\* the buffer has seen the signal move its two halves differ, so `valid' is
\* never raised by an aborted count (ENUM_CNT.sv:98-105, 127-134, 164-171).
NulNeverAborts == state \in {"Count_St", "Hold_fst_St", "Hold_sec_St"} => ~nul

\* Read as wires (what a netlist of the buffer is) the two halves are equal and
\* no crossing is ever seen: the counter of the netlist cannot measure
\* (ENUM_CNT.sv:195-206).
NeverMeasures == reading = "wire" => state \in {"Reset_St", "Wait_St"}

\* A measurement in progress agrees with the clocks that really passed, also
\* across a stall of the signal longer than the register can hold.
CountFollowsSignal == state = "Count_St" => count = since

\* A signal that keeps crossing is measured again and again: no interleaving
\* of withdrawals and crossings leaves the machine stuck in a hold.
KeepsMeasuring ==
    (<>[][~Reset]_vars /\ []<>(reading = "event" /\ pm)) => []<>(state = "Count_St" /\ pm)
=============================================================================
