---------------------------- MODULE FLL_Periodic ----------------------------
(***************************************************************************)
(* The loop as it is meant to run: a periodic input, and an NCO that is    *)
(* periodic as long as it is not held and its phase increment does not     *)
(* change.  Both signals are positive for one clock of their period, so a  *)
(* rising crossing lasts one clock.  Periods are whole clocks: the input's *)
(* is constant, where that of a sampled signal can jitter by one clock.    *)
(***************************************************************************)
EXTENDS FLL_Spec

CONSTANT Periods   \* the periods, in clocks, the input and the NCO can have

\* They fit the counters: 103 to 126 clocks in 7 bits.
ASSUME PeriodsAssumption == Periods \subseteq 2 .. M - 1

\* The band is narrow and no period is a few clocks short.  The design's band
\* is CLK_REF / FRQ_SIGNAL_MAX to CLK_REF / FRQ_SIGNAL_MIN, 103 to 126 clocks.
ASSUME BandAssumption == \A p, q \in Periods : 2 * p =< 3 * q /\ q >= 8

\* The samples of the two waves are among those of FLL_Spec.
ASSUME WaveAssumption == {-1, 1} \subseteq InSamples \cap GenSamples

VARIABLES
    perIn, perGen,       \* the two periods; perIn never changes
    phaseIn, phaseGen,   \* clocks into the period
    steady               \* history: the NCO ran undisturbed through its last measurement

periodicVars == <<allVars, perIn, perGen, phaseIn, phaseGen, steady>>

Wave(phase) == IF phase = 0 THEN 1 ELSE -1

PeriodicInit ==
    /\ SpecInit
    /\ perIn \in Periods /\ perGen \in Periods
    /\ phaseIn \in 0 .. perIn - 1 /\ phaseGen \in 0 .. perGen - 1
    /\ steady = FALSE

\* The NCO answers a correction with some other period of the band (external).
Retune == perGen' \in IF sub = 0 THEN {perGen} ELSE Periods

PeriodicTick ==
    /\ Retune
    /\ UNCHANGED perIn
    /\ phaseIn' = (phaseIn + 1) % perIn
    /\ phaseGen' = IF cnt_hold THEN phaseGen ELSE (phaseGen + 1) % perGen'
    /\ Edge(Wave(phaseIn'), IF cnt_hold THEN genSec ELSE Wave(phaseGen'))
    /\ fresh' = (IF valid_sub THEN {} ELSE fresh) \cup Measured
    /\ steady' = IF cnt_hold \/ sub # 0 THEN FALSE
                 ELSE IF genState = "Wait_St" THEN TRUE ELSE steady

PeriodicSpec ==
    PeriodicInit /\ [][PeriodicTick]_periodicVars /\ WF_periodicVars(PeriodicTick)

-----------------------------------------------------------------------------
\* Two different measurements go into every difference: at the ratios of the
\* design's band neither counter sits in Hold_sec_St, where it ignores the
\* withdrawal (ENUM_CNT.sv:172-190), long enough to offer one count twice.
BothFresh == valid_sub => fresh = {"in", "gen"}

\* A measurement through which the NCO ran undisturbed is exact to the clock.
Exact == valid_sub /\ steady => inCount - genCount = perIn - perGen

\* A completed hold leaves the generator one clock behind the input, always and
\* exactly: it is still held in the clock of the input's crossing
\* (FLL.sv:184-191), so its first move, in Hold_fst_St, is the input's second.
\* No hold ends on a stale count, off the crossing by any number of clocks.
ReleasedOneClockLate == state = "Hold_sec_St" => phaseIn = 2 /\ phaseGen = 1

\* A held generator is let go again (FLL.sv:136-209).
HoldEnds == cnt_hold ~> ~cnt_hold

\* A hold that was entered with equal periods, or got as far as Chek_St, is
\* completed and not given up (FLL.sv:147-207).
HoldCompletes ==
    (state = "Chek_St" \/ (state = "Step_St" /\ perIn = perGen))
        ~> state = "Hold_fst_St"
=============================================================================
