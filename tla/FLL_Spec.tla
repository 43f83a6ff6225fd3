------------------------------ MODULE FLL_Spec ------------------------------
(***************************************************************************)
(* The loop under any input signal and any NCO output: neither frequency   *)
(* nor shape is assumed, the NCO only stands still while it is held.       *)
(***************************************************************************)
EXTENDS FLL

CONSTANTS InSamples, GenSamples   \* the values the ADC and the NCO deliver

ASSUME SamplesAssumption == InSamples \subseteq Int /\ GenSamples \subseteq Int

VARIABLE fresh   \* history: the channels that measured since the last pair

Measured ==
    (IF inState = "Count_St" /\ In!pm THEN {"in"} ELSE {})
    \cup (IF genState = "Count_St" /\ Gen!pm THEN {"gen"} ELSE {})

allVars == <<vars, fresh>>

SpecInit == Init /\ fresh = {}

Tick ==
    /\ \E x \in InSamples, y \in GenSamples : Edge(x, y)
    /\ fresh' = (IF valid_sub THEN {} ELSE fresh) \cup Measured

ResetTick ==
    /\ \E x \in InSamples, y \in GenSamples : ResetEdge(x, y)
    /\ fresh' = {}

Next == Tick \/ ResetTick

Spec == SpecInit /\ [][Next]_allVars

-----------------------------------------------------------------------------
SpecTypeOK == TypeOK /\ fresh \subseteq {"in", "gen"}

InHolding == inState \in {"Hold_fst_St", "Hold_sec_St"}
GenHolding == genState \in {"Hold_fst_St", "Hold_sec_St"}

\* valid_sub comes a clock after the offers it was computed from: the two
\* counts that are subtracted are still the ones that were offered.
SubtractsHeldCounts == valid_sub => InHolding /\ GenHolding

\* No pair of counts is subtracted twice: one of the two channels has
\* completed a measurement since the pair before.
EveryPairIsFresh == valid_sub => fresh # {}

\* While the generator is held it stands on its rising crossing, and there is
\* a saved period for the input to reach.
HeldOnCrossing == cnt_hold => Gen!pm /\ count_buf # 0

\* The comparator is quiet in the clock that enters Step_St, so whichever of
\* the two combinational blocks runs first there, the latches keep the hold.
NoGlitchIntoStep == state = "Count_St" /\ SameCount /\ Gen!pm => ~Far
=============================================================================
