---------------------------- MODULE PeriodMeter ----------------------------
(***************************************************************************)
(* What a period counter promises to whoever reads it: it offers nothing,  *)
(* or the number of clocks (modulo the range M of its register) between    *)
(* two CONSECUTIVE crossings of the signal, the later of which is the one  *)
(* that made the offer; an offer never changes, it can only be withdrawn.  *)
(***************************************************************************)
EXTENDS Naturals

CONSTANTS
    M,        \* the range of the register, at least 2
    NoOffer   \* not a natural number

VARIABLES
    crossing, \* the signal crosses zero upwards in this clock
    since,    \* clocks since the last crossing, modulo M
    offer     \* the period on offer, or NoOffer

meterVars == <<crossing, since, offer>>

\* A crossing starts a new distance; any other clock makes it longer.
Elapse ==
    /\ crossing' \in BOOLEAN
    /\ since' = IF crossing THEN 1 % M ELSE (since + 1) % M

MakeOffer == Elapse /\ offer = NoOffer /\ crossing /\ offer' = since

KeepOffer == Elapse /\ UNCHANGED offer

Withdraw == Elapse /\ offer' = NoOffer

\* An asynchronous reset forgets the offer, not the signal.
MeterInit ==
    /\ crossing = FALSE
    /\ since = 0
    /\ offer = NoOffer

MeterNext == MakeOffer \/ KeepOffer \/ Withdraw

MeterSpec == MeterInit /\ [][MeterNext]_meterVars
=============================================================================
