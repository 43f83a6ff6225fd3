---------------------------- MODULE Filtr_proof ----------------------------
(***************************************************************************)
(* For every sampling period that is longer than the arithmetic, every     *)
(* latency of an operation and every input: samples have settled when they *)
(* are taken, and the filter starts on samples.                            *)
(***************************************************************************)
EXTENDS Filtr_Spec, TLAPS

\* What the delay line holds, in terms of the samples that were taken.
Held == IF reading = "event" THEN <<newest, before>> ELSE <<newest, newest>>

\* cnt clocks after the delay line moved, the new samples have come through
\* the first cnt registers; the histories follow the delay line.
Settling ==
    /\ cnt \in 0 .. T
    /\ pipe = [j \in Stages |-> pipe[j]]
    /\ \A j \in Stages : j =< cnt => pipe[j] = taps
    /\ taps = Held

\* The residue has left the converter two clocks after a reset.
Refilled ==
    /\ state \in {"Reset_St", "Wait_St", "Count_St"}
    /\ state # "Reset_St" => conv # Cleared
    /\ state = "Count_St" => genuine

-----------------------------------------------------------------------------
(* The arithmetic.                                                          *)

LEMMA StageFacts ==
    /\ Latency \in Stages /\ 3 * Latency \in Stages /\ 5 * Latency \in Stages
    /\ \A j \in Stages : j =< T /\ (j # 1 => j - 1 \in Stages)
    /\ \A j \in Stages \cap AdderInputs : Latency =< j - 1
  BY PipelineAssumption DEF Stages, AdderInputs

\* A register whose predecessors have settled settles with the next clock.
LEMMA ShiftSettles ==
    ASSUME Settling, NEW j \in Stages, j - 1 =< cnt
    PROVE  Shifted(j) = taps
  <1>1. CASE j = 1
    BY <1>1 DEF Shifted
  <1>2. CASE j # 1
    <2>1. pipe[j - 1] = taps
      BY <1>2, StageFacts DEF Settling, Stages
    <2>2. ASSUME j \in AdderInputs
          PROVE  pipe[Latency] = taps
      <3>1. Latency =< j - 1
        BY <2>2, StageFacts
      <3>2. Latency =< cnt
        BY <3>1, PipelineAssumption DEF Settling, Stages
      <3> QED BY <3>2, StageFacts DEF Settling
    <2> QED BY <1>2, <2>1, <2>2 DEF Shifted
  <1> QED BY <1>1, <1>2

\* When a sample is taken both sums have settled, before and after the edge.
LEMMA SumsSettled ==
    ASSUME Settling, Sampling, Pipeline
    PROVE  /\ summ_a3 = taps /\ summ_a3' = taps
           /\ summ_b3 = taps /\ summ_b3' = taps
  <1>1. cnt = T
    BY DEF Sampling
  <1>2. \A j \in Stages : pipe[j] = taps
    BY <1>1, StageFacts DEF Settling
  <1>3. \A j \in Stages : Shifted(j) = taps
    <2>1. TAKE j \in Stages
    <2>2. j - 1 =< cnt
      BY <1>1, StageFacts, PipelineAssumption DEF Stages
    <2> QED BY <2>2, ShiftSettles
  <1> QED BY <1>2, <1>3, StageFacts DEF Pipeline, summ_a3, summ_b3

LEMMA TickSettling == Settling /\ TickH => Settling'
  <1> SUFFICES ASSUME Settling, TickH
               PROVE  Settling'
    OBVIOUS
  <1>1. Sampler /\ Pipeline /\ DelayLine
    BY DEF TickH, Tick, Edge
  <1>2. pipe' = [j \in Stages |-> pipe'[j]]
    BY <1>1 DEF Pipeline
  <1>3. CASE Sampling
    <2>1. cnt' = 0
      BY <1>1, <1>3 DEF Sampler
    <2>2. taps' = Held'
      BY <1>1, <1>3 DEF DelayLine, TickH, Tick, Edge, Settling, taps, Held
    <2> QED BY <1>2, <2>1, <2>2, PipelineAssumption DEF Settling, Stages
  <1>4. CASE ~Sampling
    <2>1. cnt' \in 0 .. T /\ cnt' =< cnt + 1
      BY <1>1, <1>4, PipelineAssumption DEF Sampler, Sampling, Settling
    <2>2. taps' = taps /\ newest' = newest /\ before' = before /\ reading' = reading
      BY <1>1, <1>4 DEF DelayLine, TickH, Tick, Edge, line, taps
    <2>3. ASSUME NEW j \in Stages, j =< cnt'
          PROVE  pipe'[j] = taps'
      <3>1. j - 1 =< cnt
        BY <2>1, <2>3 DEF Settling, Stages
      <3> QED BY <1>1, <2>2, <3>1, ShiftSettles DEF Pipeline
    <2>4. taps' = Held'
      BY <2>2 DEF Settling, Held
    <2> QED BY <1>2, <2>1, <2>3, <2>4 DEF Settling
  <1> QED BY <1>3, <1>4

LEMMA NextSettling == Settling /\ [NextH]_allVars => Settling'
  <1> SUFFICES ASSUME Settling, [NextH]_allVars
               PROVE  Settling'
    OBVIOUS
  <1>1. CASE TickH
    BY <1>1, TickSettling
  <1>2. CASE ResetH
    BY <1>2, PipelineAssumption
    DEF ResetH, ResetEdge, Settling, Stages, line, taps, Held
  <1>3. CASE UNCHANGED allVars
    BY <1>3 DEF allVars, vars, line, history, Settling, taps, Held
  <1> QED BY <1>1, <1>2, <1>3 DEF NextH

LEMMA InitSettling == SpecInit => Settling
  BY PipelineAssumption DEF SpecInit, Init, Settling, Stages, taps, Held

\* What is sampled was computed from the delay line as the last sampling left
\* it, for every period that leaves the arithmetic time to settle, and for both
\* readings of the delay line.
THEOREM TakenSettled == SpecH => SamplesSettled
  <1>1. SpecH => []Settling
    BY InitSettling, NextSettling, PTL DEF SpecH
  <1>2. Settling /\ [NextH]_allVars =>
          [~sampl /\ sampl' =>
             LET held == IF reading = "event" THEN <<newest, before>> ELSE <<newest, newest>>
             IN  madeOf' = held /\ o_signal' = held]_allVars
    <2> SUFFICES ASSUME Settling, NextH, ~sampl, sampl'
                 PROVE  madeOf' = Held /\ o_signal' = Held
      BY DEF Held
    <2>1. TickH
      BY DEF NextH, ResetH, ResetEdge
    <2>2. Sampling /\ Pipeline /\ DelayLine
      BY <2>1 DEF TickH, Tick, Edge, Sampler
    <2>3. taps = Held
      BY DEF Settling
    <2>4. madeOf' = taps
      BY <2>1, <2>2, SumsSettled DEF TickH
    <2>5. o_signal' = taps
      BY <2>2, SumsSettled DEF DelayLine
    <2> QED BY <2>3, <2>4, <2>5
  <1> QED BY <1>1, <1>2, PTL DEF SpecH, SamplesSettled

-----------------------------------------------------------------------------
(* The start-up.                                                            *)

LEMMA NextRefilled == Refilled /\ [NextH]_allVars => Refilled'
  <1> SUFFICES ASSUME Refilled, [NextH]_allVars
               PROVE  Refilled'
    OBVIOUS
  <1>1. CASE TickH
    <2>1. conv' # Cleared
      BY <1>1, SignalsAssumption DEF TickH, Tick, Edge
    <2>2. state' = NextState /\ genuine' = (conv # Cleared)
      BY <1>1 DEF TickH, Tick, Edge
    <2>3. state' = "Count_St" => state # "Reset_St"
      BY <2>2 DEF NextState
    <2> QED BY <2>1, <2>2, <2>3 DEF Refilled, NextState
  <1>2. CASE ResetH
    BY <1>2 DEF ResetH, ResetEdge, Refilled
  <1>3. CASE UNCHANGED allVars
    BY <1>3 DEF allVars, vars, history, Refilled
  <1> QED BY <1>1, <1>2, <1>3 DEF NextH

\* Whatever the input and the resets, the filter sees conversions only.
THEOREM NoResidue == SpecH => []StartsOnSamples
  <1>1. SpecInit => Refilled
    BY DEF SpecInit, Init, Refilled
  <1>2. Refilled => StartsOnSamples
    BY DEF Refilled, StartsOnSamples, start_f
  <1> QED BY <1>1, <1>2, NextRefilled, PTL DEF SpecH
=============================================================================
