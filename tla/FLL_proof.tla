----------------------------- MODULE FLL_proof -----------------------------
(***************************************************************************)
(* For every width of the counters, both readings of the sample buffer and *)
(* any two signals: what the loop subtracts was on offer and is fresh, and *)
(* the generator is only held on its crossing.  With periodic signals the  *)
(* same holds, and an undisturbed difference is exact.  With periods of a  *)
(* narrow band both counts of a pair are fresh, a held generator is let go *)
(* in time and on the input's crossing.                                    *)
(***************************************************************************)
EXTENDS FLL_Periodic, TLAPS

(***************************************************************************)
(* Each channel: a machine that measures has two different samples in its  *)
(* buffer, and read as wires the samples are equal, so it never measures.  *)
(***************************************************************************)
InBuffer ==
    /\ Reading = "wire" => inFst = inSec
    /\ inState \in {"Count_St", "Hold_fst_St", "Hold_sec_St"} => inFst # inSec

GenBuffer ==
    /\ Reading = "wire" => genFst = genSec
    /\ genState \in {"Count_St", "Hold_fst_St", "Hold_sec_St"} => genFst # genSec

\* Two counts are on offer together for one clock only, the one in which they
\* are subtracted: the reader withdraws the younger of them at once.
OfferedOnce ==
    /\ InHolding /\ GenHolding <=> valid_sub
    /\ ~(inState = "Hold_sec_St" /\ genState = "Hold_sec_St")

\* The clock after a subtraction, one of the two counters is back at 0.
OneCleared == valid_delta => inCount = 0 \/ genCount = 0

\* While the machine waits on a frozen generator the latches are set and the
\* generator has not moved off its crossing.
FrozenOnCrossing ==
    state \in {"Step_St", "Chek_St"} => cnt_hold_l /\ count_buf_l # 0 /\ Gen!pm

\* The inductive invariant.
IInv ==
    /\ SpecTypeOK
    /\ InBuffer
    /\ GenBuffer
    /\ OfferedOnce
    /\ EveryPairIsFresh
    /\ OneCleared
    /\ FrozenOnCrossing

-----------------------------------------------------------------------------
(* One clock of a channel.  The two lemmas are the same for both.           *)

LEMMA ModRange == \A n \in Nat : n % M \in 0 .. M - 1
  BY LoopAssumption

LEMMA ZeroInRange == 0 \in 0 .. M - 1 /\ 0 \in 1 - M .. M - 1
  BY LoopAssumption

LEMMA BufDepthInRange == BufDepth \in 0 .. BufDepth
  BY DEF BufDepth

LEMMA InBufferStep ==
    ASSUME In!TypeOK, InBuffer, valid_sub \in BOOLEAN, In!Clock(valid_sub),
           NEW x \in InSamples, In!Sample(x, Reading)
    PROVE  In!TypeOK' /\ InBuffer'
  <1>1. inState' \in In!States
    BY DEF In!TypeOK, In!States, In!Clock, In!Move, In!Go, In!Arm, In!Abort,
           In!Open, In!Close, In!Taken, In!Outlast, In!Expire, In!Stay
  <1>2. inCount' \in 0 .. M - 1
    BY ModRange, LoopAssumption DEF In!TypeOK, In!Clock, In!NextCount
  <1>3. inFst' \in Int /\ inSec' \in Int
    BY SamplesAssumption DEF In!TypeOK, In!Sample
  <1>4. Reading = "wire" => inFst' = inSec'
    BY DEF In!Sample
  <1>5. ASSUME inState' \in {"Count_St", "Hold_fst_St", "Hold_sec_St"}
        PROVE  inFst' # inSec'
    <2>1. In!pm \/ inState \in {"Count_St", "Hold_fst_St", "Hold_sec_St"}
      BY <1>5 DEF In!Clock, In!Move, In!Go, In!Arm, In!Abort, In!Open,
                  In!Close, In!Taken, In!Outlast, In!Expire, In!Stay
    <2>2. inFst # inSec
      BY <2>1 DEF InBuffer, In!TypeOK, In!pm, In!LIMIT
    <2> QED BY <2>2 DEF InBuffer, In!Sample
  <1> QED BY <1>1, <1>2, <1>3, <1>4, <1>5 DEF In!TypeOK, InBuffer

LEMMA GenBufferStep ==
    ASSUME Gen!TypeOK, GenBuffer, valid_sub \in BOOLEAN, Gen!Clock(valid_sub),
           NEW y \in GenSamples, Gen!Sample(y, Reading)
    PROVE  Gen!TypeOK' /\ GenBuffer'
  <1>1. genState' \in Gen!States
    BY DEF Gen!TypeOK, Gen!States, Gen!Clock, Gen!Move, Gen!Go, Gen!Arm,
           Gen!Abort, Gen!Open, Gen!Close, Gen!Taken, Gen!Outlast, Gen!Expire,
           Gen!Stay
  <1>2. genCount' \in 0 .. M - 1
    BY ModRange, LoopAssumption DEF Gen!TypeOK, Gen!Clock, Gen!NextCount
  <1>3. genFst' \in Int /\ genSec' \in Int
    BY SamplesAssumption DEF Gen!TypeOK, Gen!Sample
  <1>4. Reading = "wire" => genFst' = genSec'
    BY DEF Gen!Sample
  <1>5. ASSUME genState' \in {"Count_St", "Hold_fst_St", "Hold_sec_St"}
        PROVE  genFst' # genSec'
    <2>1. Gen!pm \/ genState \in {"Count_St", "Hold_fst_St", "Hold_sec_St"}
      BY <1>5 DEF Gen!Clock, Gen!Move, Gen!Go, Gen!Arm, Gen!Abort, Gen!Open,
                  Gen!Close, Gen!Taken, Gen!Outlast, Gen!Expire, Gen!Stay
    <2>2. genFst # genSec
      BY <2>1 DEF GenBuffer, Gen!TypeOK, Gen!pm, Gen!LIMIT
    <2> QED BY <2>2 DEF GenBuffer, Gen!Sample
  <1> QED BY <1>1, <1>2, <1>3, <1>4, <1>5 DEF Gen!TypeOK, GenBuffer

\* A channel holds its count after a clock exactly if it offered it before,
\* comes to its second hold only from a hold, and a withdrawal clears it.
LEMMA InOffer ==
    ASSUME InBuffer, In!Clock(valid_sub)
    PROVE  /\ InHolding' <=> valid_input
           /\ valid_input => InHolding \/ (inState = "Count_St" /\ In!pm)
           /\ inState' = "Hold_sec_St" =>
                inState = "Hold_sec_St" \/ (inState = "Hold_fst_St" /\ ~valid_sub)
           /\ inState = "Hold_fst_St" /\ valid_sub => inCount' = 0
  <1>1. InHolding \/ inState = "Count_St" => ~In!nul
    BY DEF InBuffer, InHolding, In!nul
  <1>2. InHolding' <=> valid_input
    BY <1>1 DEF InHolding, valid_input, In!valid, In!Clock, In!Move, In!Go,
           In!Arm, In!Abort, In!Open, In!Close, In!Taken, In!Outlast,
           In!Expire, In!Stay
  <1>3. valid_input => InHolding \/ (inState = "Count_St" /\ In!pm)
    BY <1>1 DEF valid_input, In!valid, InHolding
  <1>4. inState' = "Hold_sec_St" =>
          inState = "Hold_sec_St" \/ (inState = "Hold_fst_St" /\ ~valid_sub)
    BY DEF In!Clock, In!Move, In!Go, In!Arm, In!Abort, In!Open, In!Close,
           In!Taken, In!Outlast, In!Expire, In!Stay
  <1>5. inState = "Hold_fst_St" /\ valid_sub => inCount' = 0
    BY <1>1 DEF InHolding, In!Clock, In!NextCount, In!cnt, In!valid
  <1> QED BY <1>2, <1>3, <1>4, <1>5

LEMMA GenOffer ==
    ASSUME GenBuffer, Gen!Clock(valid_sub)
    PROVE  /\ GenHolding' <=> valid_gen
           /\ valid_gen => GenHolding \/ (genState = "Count_St" /\ Gen!pm)
           /\ genState' = "Hold_sec_St" =>
                genState = "Hold_sec_St" \/ (genState = "Hold_fst_St" /\ ~valid_sub)
           /\ genState = "Hold_fst_St" /\ valid_sub => genCount' = 0
  <1>1. GenHolding \/ genState = "Count_St" => ~Gen!nul
    BY DEF GenBuffer, GenHolding, Gen!nul
  <1>2. GenHolding' <=> valid_gen
    BY <1>1 DEF GenHolding, valid_gen, Gen!valid, Gen!Clock, Gen!Move, Gen!Go,
           Gen!Arm, Gen!Abort, Gen!Open, Gen!Close, Gen!Taken, Gen!Outlast,
           Gen!Expire, Gen!Stay
  <1>3. valid_gen => GenHolding \/ (genState = "Count_St" /\ Gen!pm)
    BY <1>1 DEF valid_gen, Gen!valid, GenHolding
  <1>4. genState' = "Hold_sec_St" =>
          genState = "Hold_sec_St" \/ (genState = "Hold_fst_St" /\ ~valid_sub)
    BY DEF Gen!Clock, Gen!Move, Gen!Go, Gen!Arm, Gen!Abort, Gen!Open,
           Gen!Close, Gen!Taken, Gen!Outlast, Gen!Expire, Gen!Stay
  <1>5. genState = "Hold_fst_St" /\ valid_sub => genCount' = 0
    BY <1>1 DEF GenHolding, Gen!Clock, Gen!NextCount, Gen!cnt, Gen!valid
  <1> QED BY <1>2, <1>3, <1>4, <1>5

-----------------------------------------------------------------------------
(* One clock of the loop.                                                   *)

LEMMA MoveTypes ==
    ASSUME TypeOK, Move
    PROVE  state' \in FLLStates
  BY DEF TypeOK, FLLStates, Move, Go, Arm, Approach, Freeze, Miss, Confirm,
         Align, GiveUp, Release, Stay

LEMMA EdgeTypes ==
    ASSUME TypeOK, InBuffer, GenBuffer,
           NEW x \in InSamples, NEW y \in GenSamples, Edge(x, y)
    PROVE  TypeOK' /\ InBuffer' /\ GenBuffer'
  <1>1. In!TypeOK' /\ InBuffer'
    BY InBufferStep DEF Edge, TypeOK
  <1>2. Gen!TypeOK' /\ GenBuffer'
    BY GenBufferStep DEF Edge, TypeOK
  <1>3. state' \in FLLStates
    BY MoveTypes DEF Edge
  <1>4. cnt_hold_l' \in BOOLEAN /\ count_buf_l' \in 0 .. M - 1
    BY LoopAssumption DEF Edge, TypeOK, Gen!TypeOK, cnt_hold, count_buf, Kept
  <1>5. quietIn' \in 0 .. BufDepth /\ quietGen' \in 0 .. BufDepth
    BY DEF Edge, TypeOK, Quiet, BufDepth
  <1>6. valid_sub' \in BOOLEAN /\ valid_delta' \in BOOLEAN
    BY DEF Edge, TypeOK
  <1>7. delta' \in 1 - M .. M - 1 /\ sub' \in 1 - M .. M - 1
    BY LoopAssumption DEF Edge, TypeOK, In!TypeOK, Gen!TypeOK
  <1> QED BY <1>1, <1>2, <1>3, <1>4, <1>5, <1>6, <1>7 DEF TypeOK

\* Both channels hold exactly when both offered, and never both a second time.
LEMMA EdgeOffers ==
    ASSUME InBuffer, GenBuffer, OfferedOnce,
           NEW x \in InSamples, NEW y \in GenSamples, Edge(x, y)
    PROVE  OfferedOnce'
  <1>1. In!Clock(valid_sub) /\ Gen!Clock(valid_sub)
        /\ valid_sub' = (valid_input /\ valid_gen)
    BY DEF Edge
  <1>2. InHolding' /\ GenHolding' <=> valid_sub'
    BY <1>1, InOffer, GenOffer
  <1>3. ASSUME inState' = "Hold_sec_St", genState' = "Hold_sec_St"
        PROVE  FALSE
    <2>1. inState = "Hold_sec_St" \/ (inState = "Hold_fst_St" /\ ~valid_sub)
      BY <1>1, <1>3, InOffer
    <2>2. genState = "Hold_sec_St" \/ (genState = "Hold_fst_St" /\ ~valid_sub)
      BY <1>1, <1>3, GenOffer
    <2>3. InHolding /\ GenHolding
      BY <2>1, <2>2 DEF InHolding, GenHolding
    <2> QED BY <2>1, <2>2, <2>3 DEF OfferedOnce
  <1> QED BY <1>2, <1>3 DEF OfferedOnce

\* A pair that is offered without a new measurement would have to be held by
\* both channels through a withdrawal.
LEMMA EdgeFresh ==
    ASSUME InBuffer, GenBuffer, OfferedOnce, Tick
    PROVE  EveryPairIsFresh'
  <1>1. In!Clock(valid_sub) /\ Gen!Clock(valid_sub)
        /\ valid_sub' = (valid_input /\ valid_gen)
    BY DEF Tick, Edge
  <1>2. SUFFICES ASSUME valid_sub'
                 PROVE  fresh' # {}
    BY DEF EveryPairIsFresh
  <1>3. valid_input /\ valid_gen
    BY <1>1, <1>2
  <1>4. Measured # {}
    <2>1. SUFFICES ASSUME InHolding, GenHolding
                   PROVE  FALSE
      BY <1>1, <1>3, InOffer, GenOffer DEF Measured
    <2>2. valid_sub
      BY <2>1 DEF OfferedOnce
    <2>3. ~In!nul /\ ~Gen!nul
      BY <2>1 DEF InHolding, GenHolding, InBuffer, GenBuffer, In!nul, Gen!nul
    <2>4. inState = "Hold_sec_St" /\ genState = "Hold_sec_St"
      BY <1>3, <2>1, <2>2, <2>3 DEF valid_input, valid_gen, In!valid, Gen!valid,
         InHolding, GenHolding
    <2> QED BY <2>4 DEF OfferedOnce
  <1> QED BY <1>4 DEF Tick

\* The younger of the two counts of a pair is withdrawn, and with it cleared.
LEMMA EdgeClears ==
    ASSUME InBuffer, GenBuffer, OfferedOnce,
           NEW x \in InSamples, NEW y \in GenSamples, Edge(x, y)
    PROVE  OneCleared'
  <1>1. In!Clock(valid_sub) /\ Gen!Clock(valid_sub) /\ valid_delta' = valid_sub
    BY DEF Edge
  <1>2. SUFFICES ASSUME valid_sub
                 PROVE  inCount' = 0 \/ genCount' = 0
    BY <1>1 DEF OneCleared
  <1>3. inState = "Hold_fst_St" \/ genState = "Hold_fst_St"
    BY <1>2 DEF OfferedOnce, InHolding, GenHolding
  <1> QED BY <1>1, <1>2, <1>3, InOffer, GenOffer

\* A frozen generator repeats its sample, so it stays on its crossing.
LEMMA FrozenStaysOnCrossing ==
    ASSUME Gen!TypeOK, GenBuffer, cnt_hold, Gen!pm,
           NEW y, HeldSample(y), Gen!Sample(y, Reading)
    PROVE  Gen!pm'
  BY DEF GenBuffer, HeldSample, Gen!TypeOK, Gen!Sample, Gen!pm, Gen!LIMIT

\* Near and Far exclude one another.
LEMMA NearNotFar == Near => ~Far
  BY DEF Near, Far

LEMMA EdgeFrozen ==
    ASSUME TypeOK, GenBuffer, FrozenOnCrossing,
           NEW x \in InSamples, NEW y \in GenSamples, Edge(x, y)
    PROVE  FrozenOnCrossing'
  <1>1. Move /\ cnt_hold_l' = cnt_hold /\ count_buf_l' = count_buf
        /\ HeldSample(y) /\ Gen!Sample(y, Reading)
    BY DEF Edge
  <1>2. SUFFICES ASSUME state' \in {"Step_St", "Chek_St"}
                 PROVE  cnt_hold_l' /\ count_buf_l' # 0 /\ Gen!pm'
    BY DEF FrozenOnCrossing
  <1>3. \/ state = "Count_St" /\ SameCount /\ Gen!pm
        \/ state \in {"Step_St", "Chek_St"} /\ ~Far
    BY <1>1, <1>2, NearNotFar
    DEF Move, Go, Arm, Approach, Freeze, Miss, Confirm, Align, GiveUp, Release,
        Stay
  <1>4. cnt_hold /\ Gen!pm
    BY <1>3 DEF FrozenOnCrossing, cnt_hold
  <1>5. count_buf # 0
    BY <1>3 DEF FrozenOnCrossing, count_buf, Kept, SameCount
  <1>6. Gen!pm'
    BY <1>1, <1>4, FrozenStaysOnCrossing DEF TypeOK
  <1> QED BY <1>1, <1>4, <1>5, <1>6

-----------------------------------------------------------------------------
LEMMA InitIInv == SpecInit => IInv
  <1> SUFFICES ASSUME SpecInit
               PROVE  IInv
    OBVIOUS
  <1>1. In!TypeOK /\ Gen!TypeOK
    BY LoopAssumption
    DEF SpecInit, Init, In!Init, Gen!Init, In!TypeOK, Gen!TypeOK, In!States,
        Gen!States
  <1>2. SpecTypeOK
    BY <1>1, ZeroInRange, BufDepthInRange
    DEF SpecInit, Init, SpecTypeOK, TypeOK, FLLStates
  <1>3. InBuffer /\ GenBuffer /\ OfferedOnce
    BY DEF SpecInit, Init, In!Init, Gen!Init, InBuffer, GenBuffer, OfferedOnce,
           InHolding, GenHolding
  <1>4. EveryPairIsFresh /\ OneCleared /\ FrozenOnCrossing
    BY DEF SpecInit, Init, EveryPairIsFresh, OneCleared, FrozenOnCrossing
  <1> QED BY <1>2, <1>3, <1>4 DEF IInv

LEMMA TickIInv == IInv /\ Tick => IInv'
  <1> SUFFICES ASSUME IInv, Tick
               PROVE  IInv'
    OBVIOUS
  <1>1. PICK x \in InSamples, y \in GenSamples : Edge(x, y)
    BY DEF Tick
  <1>2. TypeOK /\ InBuffer /\ GenBuffer /\ OfferedOnce /\ FrozenOnCrossing
    BY DEF IInv, SpecTypeOK
  <1>3. TypeOK' /\ InBuffer' /\ GenBuffer'
    BY <1>1, <1>2, EdgeTypes
  <1>4. fresh' \subseteq {"in", "gen"}
    BY DEF Tick, Measured, IInv, SpecTypeOK
  <1>5. OfferedOnce'
    BY <1>1, <1>2, EdgeOffers
  <1>6. EveryPairIsFresh'
    BY <1>2, EdgeFresh
  <1>7. OneCleared'
    BY <1>1, <1>2, EdgeClears
  <1>8. FrozenOnCrossing'
    BY <1>1, <1>2, EdgeFrozen
  <1> QED BY <1>3, <1>4, <1>5, <1>6, <1>7, <1>8 DEF IInv, SpecTypeOK

LEMMA ResetIInv == IInv /\ ResetTick => IInv'
  <1> SUFFICES ASSUME IInv, ResetTick
               PROVE  IInv'
    OBVIOUS
  <1>1. PICK x \in InSamples, y \in GenSamples : ResetEdge(x, y)
    BY DEF ResetTick
  <1>2. In!TypeOK'
    BY <1>1, LoopAssumption, SamplesAssumption
    DEF IInv, SpecTypeOK, TypeOK, ResetEdge, In!Reset, In!Sample, In!TypeOK,
        In!States
  <1>3. Gen!TypeOK'
    BY <1>1, LoopAssumption, SamplesAssumption
    DEF IInv, SpecTypeOK, TypeOK, ResetEdge, Gen!Reset, Gen!Sample, Gen!TypeOK,
        Gen!States
  <1>4. SpecTypeOK'
    BY <1>1, <1>2, <1>3, ZeroInRange, BufDepthInRange
    DEF ResetTick, ResetEdge, SpecTypeOK, TypeOK, FLLStates
  <1>5. InBuffer' /\ GenBuffer'
    BY <1>1 DEF ResetEdge, In!Reset, Gen!Reset, In!Sample, Gen!Sample,
                InBuffer, GenBuffer
  <1>6. OfferedOnce'
    BY <1>1 DEF ResetEdge, In!Reset, Gen!Reset, OfferedOnce, InHolding,
                GenHolding
  <1>7. EveryPairIsFresh' /\ OneCleared' /\ FrozenOnCrossing'
    BY <1>1 DEF ResetEdge, EveryPairIsFresh, OneCleared, FrozenOnCrossing
  <1> QED BY <1>4, <1>5, <1>6, <1>7 DEF IInv

LEMMA StutterIInv == IInv /\ UNCHANGED allVars => IInv'
  <1> SUFFICES ASSUME IInv, UNCHANGED allVars
               PROVE  IInv'
    OBVIOUS
  <1> USE DEF allVars, vars, inVars, genVars, fllVars
  <1>1. SpecTypeOK'
    BY DEF IInv, SpecTypeOK, TypeOK, In!TypeOK, Gen!TypeOK
  <1>2. InBuffer' /\ GenBuffer' /\ OfferedOnce'
    BY DEF IInv, InBuffer, GenBuffer, OfferedOnce, InHolding, GenHolding
  <1>3. EveryPairIsFresh' /\ OneCleared' /\ FrozenOnCrossing'
    BY DEF IInv, EveryPairIsFresh, OneCleared, FrozenOnCrossing, Gen!pm,
           Gen!LIMIT
  <1> QED BY <1>1, <1>2, <1>3 DEF IInv

THEOREM Invariance == Spec => []IInv
  <1>1. IInv /\ [Next]_allVars => IInv'
    BY TickIInv, ResetIInv, StutterIInv DEF Next
  <1> QED BY <1>1, InitIInv, PTL DEF Spec

-----------------------------------------------------------------------------
\* Both counters, the saved period, the difference and the correction stay in
\* their widths.
THEOREM TypeCorrect == Spec => []SpecTypeOK
  BY Invariance, PTL DEF IInv

\* valid_sub is registered, and yet the counts subtracted are still on offer.
THEOREM CountsHeld == Spec => []SubtractsHeldCounts
  <1>1. IInv => SubtractsHeldCounts
    BY DEF IInv, OfferedOnce, SubtractsHeldCounts
  <1> QED BY <1>1, Invariance, PTL

\* No pair of counts corrects the generator twice.
THEOREM PairsFresh == Spec => []EveryPairIsFresh
  BY Invariance, PTL DEF IInv

\* The generator is only stopped on its own rising crossing, with a period
\* saved for the input to reach.
THEOREM HeldInPhase == Spec => []HeldOnCrossing
  <1>1. IInv => HeldOnCrossing
    <2>1. SUFFICES ASSUME IInv, cnt_hold
                   PROVE  Gen!pm /\ count_buf # 0
      BY DEF HeldOnCrossing
    <2>2. FrozenOnCrossing
      BY <2>1 DEF IInv
    <2>3. Gen!pm
      BY <2>1, <2>2 DEF FrozenOnCrossing, cnt_hold
    <2>4. count_buf # 0
      BY <2>1, <2>2 DEF FrozenOnCrossing, cnt_hold, count_buf, Kept, SameCount
    <2> QED BY <2>3, <2>4
  <1> QED BY <1>1, Invariance, PTL

\* The clock that could freeze the generator is never the clock of a new
\* difference, because one of the counters has just been cleared.
THEOREM QuietFreeze == Spec => []NoGlitchIntoStep
  <1>1. IInv => NoGlitchIntoStep
    <2>1. SUFFICES ASSUME IInv, SameCount, Far
                   PROVE  FALSE
      BY DEF NoGlitchIntoStep
    <2>2. inCount = 0 \/ genCount = 0
      BY <2>1 DEF IInv, OneCleared, Far
    <2> QED BY <2>1, <2>2 DEF SameCount
  <1> QED BY <1>1, Invariance, PTL

-----------------------------------------------------------------------------
(***************************************************************************)
(* Periodic signals.  A counter that measures agrees with the phase of its *)
(* signal, and one that holds has the whole period.                        *)
(***************************************************************************)
PhaseTyped ==
    /\ perIn \in Periods /\ phaseIn \in 0 .. perIn - 1
    /\ perGen \in Periods /\ phaseGen \in 0 .. perGen - 1
    /\ steady \in BOOLEAN

\* The buffers hold the waves' samples, or still what power-up left there.
InWave ==
    /\ inFst \in {-1, 0, 1}
    /\ \/ inSec = Wave(phaseIn)
       \/ inState = "Reset_St" /\ inFst = 0 /\ inSec = 0
    /\ Reading = "event" /\ inSec # 0 => inFst # inSec

GenWave ==
    /\ genFst \in {-1, 0, 1}
    /\ \/ genSec = Wave(phaseGen)
       \/ genState = "Reset_St" /\ genFst = 0 /\ genSec = 0
    /\ Reading = "event" /\ genSec # 0 => genFst # genSec

\* What a counter in state st has after phase clocks of a period per.
Counted(st, count, phase, per) ==
    /\ st \in {"Reset_St", "Wait_St"} => count = 0
    /\ st = "Count_St" => count = IF phase = 0 THEN per ELSE phase
    /\ st \in {"Hold_fst_St", "Hold_sec_St"} => count = per

InCounts == Counted(inState, inCount, phaseIn, perIn)

GenCounts ==
    /\ genState \in {"Reset_St", "Wait_St"} => genCount = 0
    /\ steady => Counted(genState, genCount, phaseGen, perGen)

PhaseInv == PhaseTyped /\ InWave /\ GenWave /\ InCounts /\ GenCounts

\* The phase of an undisturbed signal.
LEMMA PhaseStep ==
    ASSUME NEW per \in Periods, NEW ph \in 0 .. per - 1
    PROVE  /\ per \in 2 .. M - 1
           /\ (ph + 1) % per = IF ph = per - 1 THEN 0 ELSE ph + 1
  <1>1. per \in 2 .. M - 1 /\ M \in Nat
    BY PeriodsAssumption, LoopAssumption
  <1>2. \A n \in 0 .. per - 1 : n % per = n
    BY <1>1
  <1>3. per % per = 0
    BY <1>1
  <1> QED
    BY <1>1, <1>2, <1>3

LEMMA PhaseRange ==
    ASSUME NEW per \in Periods, NEW n \in Nat
    PROVE  n % per \in 0 .. per - 1
  <1>1. per \in Nat \ {0}
    BY PeriodsAssumption, LoopAssumption
  <1> QED
    BY <1>1

\* A count below the period does not wrap.
LEMMA CountUp ==
    ASSUME NEW n \in 0 .. M - 2
    PROVE  (n + 1) % M = n + 1
  BY LoopAssumption

\* A counter that runs sees a crossing exactly at the start of the period.
LEMMA InCrossing ==
    ASSUME InWave, InBuffer
    PROVE  /\ In!pm => phaseIn = 0
           /\ inState # "Reset_St" => ~In!nul
           /\ inState \in {"Count_St", "Hold_fst_St", "Hold_sec_St"} /\ phaseIn = 0 => In!pm
  BY DEF InWave, InBuffer, Wave, In!pm, In!nul, In!LIMIT

\* What a clock does to state and count, by state.
LEMMA InClock ==
    ASSUME InWave, InBuffer, In!Clock(valid_sub)
    PROVE  /\ inState = "Reset_St" => inState' \in {"Reset_St", "Wait_St"} /\ inCount' = 0
           /\ inState = "Wait_St" =>
                IF In!pm THEN inState' = "Count_St" /\ inCount' = (inCount + 1) % M
                ELSE inState' = "Wait_St" /\ inCount' = 0
           /\ inState = "Count_St" =>
                IF In!pm THEN inState' = "Hold_fst_St" /\ inCount' = inCount
                ELSE inState' = "Count_St" /\ inCount' = (inCount + 1) % M
           /\ inState \in {"Hold_fst_St", "Hold_sec_St"} =>
                \/ inState' = "Wait_St" /\ inCount' = 0
                \/ inState' \in {"Hold_fst_St", "Hold_sec_St"} /\ inCount' = inCount
  <1>0. /\ In!Move(valid_sub) /\ inCount' = In!NextCount(valid_sub)
        /\ inState # "Reset_St" => ~In!nul
    BY InCrossing DEF In!Clock
  <1> USE DEF In!NextCount, In!cnt, In!valid, In!Move, In!Go, In!Arm, In!Abort, In!Open,
              In!Close, In!Taken, In!Outlast, In!Expire, In!Stay
  <1>1. CASE inState = "Reset_St"
    BY <1>0, <1>1
  <1>2. CASE inState = "Wait_St"
    BY <1>0, <1>2
  <1>3. CASE inState = "Count_St"
    BY <1>0, <1>3
  <1>4. CASE inState = "Hold_fst_St"
    BY <1>0, <1>4
  <1>5. CASE inState = "Hold_sec_St"
    BY <1>0, <1>5
  <1> QED
    BY <1>1, <1>2, <1>3, <1>4, <1>5

\* A counter that runs sees a crossing exactly at the start of the period.
LEMMA GenCrossing ==
    ASSUME GenWave, GenBuffer
    PROVE  /\ Gen!pm => phaseGen = 0
           /\ genState # "Reset_St" => ~Gen!nul
           /\ genState \in {"Count_St", "Hold_fst_St", "Hold_sec_St"} /\ phaseGen = 0 => Gen!pm
  BY DEF GenWave, GenBuffer, Wave, Gen!pm, Gen!nul, Gen!LIMIT

\* What a clock does to state and count, by state.
LEMMA GenClock ==
    ASSUME GenWave, GenBuffer, Gen!Clock(valid_sub)
    PROVE  /\ genState = "Reset_St" => genState' \in {"Reset_St", "Wait_St"} /\ genCount' = 0
           /\ genState = "Wait_St" =>
                IF Gen!pm THEN genState' = "Count_St" /\ genCount' = (genCount + 1) % M
                ELSE genState' = "Wait_St" /\ genCount' = 0
           /\ genState = "Count_St" =>
                IF Gen!pm THEN genState' = "Hold_fst_St" /\ genCount' = genCount
                ELSE genState' = "Count_St" /\ genCount' = (genCount + 1) % M
           /\ genState \in {"Hold_fst_St", "Hold_sec_St"} =>
                \/ genState' = "Wait_St" /\ genCount' = 0
                \/ genState' \in {"Hold_fst_St", "Hold_sec_St"} /\ genCount' = genCount
  <1>0. /\ Gen!Move(valid_sub) /\ genCount' = Gen!NextCount(valid_sub)
        /\ genState # "Reset_St" => ~Gen!nul
    BY GenCrossing DEF Gen!Clock
  <1> USE DEF Gen!NextCount, Gen!cnt, Gen!valid, Gen!Move, Gen!Go, Gen!Arm, Gen!Abort, Gen!Open,
              Gen!Close, Gen!Taken, Gen!Outlast, Gen!Expire, Gen!Stay
  <1>1. CASE genState = "Reset_St"
    BY <1>0, <1>1
  <1>2. CASE genState = "Wait_St"
    BY <1>0, <1>2
  <1>3. CASE genState = "Count_St"
    BY <1>0, <1>3
  <1>4. CASE genState = "Hold_fst_St"
    BY <1>0, <1>4
  <1>5. CASE genState = "Hold_sec_St"
    BY <1>0, <1>5
  <1> QED
    BY <1>1, <1>2, <1>3, <1>4, <1>5

LEMMA InCountsStep ==
    ASSUME PhaseTyped, InWave, InBuffer, InCounts, In!TypeOK, In!Clock(valid_sub),
           perIn' = perIn, phaseIn' = (phaseIn + 1) % perIn
    PROVE  InCounts'
  <1>1. /\ perIn \in 2 .. M - 1 /\ phaseIn \in 0 .. perIn - 1 /\ M \in Nat
        /\ phaseIn' = IF phaseIn = perIn - 1 THEN 0 ELSE phaseIn + 1
    BY PhaseStep, LoopAssumption DEF PhaseTyped
  <1>2. CASE inState = "Reset_St"
    BY <1>2, InClock DEF InCounts, Counted
  <1>3. CASE inState = "Wait_St"
    <2>1. inCount = 0 /\ (0 + 1) % M = 1
      BY <1>1, <1>3, CountUp DEF InCounts, Counted
    <2>2. CASE In!pm
      BY <1>1, <1>3, <2>1, <2>2, InClock, InCrossing DEF InCounts, Counted
    <2>3. CASE ~In!pm
      BY <1>3, <2>3, InClock DEF InCounts, Counted
    <2> QED
      BY <2>2, <2>3
  <1>4. CASE inState = "Count_St" /\ In!pm
    BY <1>1, <1>4, InClock, InCrossing DEF InCounts, Counted
  <1>5. CASE inState = "Count_St" /\ ~In!pm
    <2>1. phaseIn # 0 /\ inCount = phaseIn
      BY <1>5, InCrossing DEF InCounts, Counted
    <2>2. (inCount + 1) % M = phaseIn + 1
      BY <1>1, <2>1, CountUp
    <2> QED
      BY <1>1, <1>5, <2>1, <2>2, InClock DEF InCounts, Counted
  <1>6. CASE inState \in {"Hold_fst_St", "Hold_sec_St"}
    BY <1>6, InClock DEF InCounts, Counted
  <1> QED
    BY <1>2, <1>3, <1>4, <1>5, <1>6 DEF In!TypeOK, In!States

\* The generator's: a measurement stays exact while nothing disturbs it.
LEMMA GenCountsStep ==
    ASSUME PhaseTyped, GenWave, GenBuffer, GenCounts, Gen!TypeOK, PeriodicTick
    PROVE  GenCounts'
  <1>0. Gen!Clock(valid_sub)
    BY DEF PeriodicTick, Edge
  <1>1. genState' \in {"Reset_St", "Wait_St"} => genCount' = 0
    BY <1>0, GenClock DEF Gen!TypeOK, Gen!States
  <1>2. ASSUME steady'
        PROVE  Counted(genState, genCount, phaseGen, perGen)'
    <2>1. /\ ~cnt_hold /\ perGen' = perGen /\ phaseGen' = (phaseGen + 1) % perGen
          /\ steady \/ genState = "Wait_St"
      BY <1>2 DEF PeriodicTick, Retune
    <2>2. /\ perGen \in 2 .. M - 1 /\ phaseGen \in 0 .. perGen - 1 /\ M \in Nat
          /\ phaseGen' = IF phaseGen = perGen - 1 THEN 0 ELSE phaseGen + 1
      BY <2>1, PhaseStep, LoopAssumption DEF PhaseTyped
    <2>3. CASE genState = "Reset_St"
      BY <1>0, <2>3, GenClock DEF Counted
    <2>4. CASE genState = "Wait_St"
      <3>1. genCount = 0 /\ (0 + 1) % M = 1
        BY <2>2, <2>4, CountUp DEF GenCounts
      <3>2. CASE Gen!pm
        BY <1>0, <2>2, <2>4, <3>1, <3>2, GenClock, GenCrossing DEF Counted
      <3>3. CASE ~Gen!pm
        BY <1>0, <2>4, <3>3, GenClock DEF Counted
      <3> QED
        BY <3>2, <3>3
    <2>5. CASE genState = "Count_St" /\ Gen!pm
      BY <1>0, <2>1, <2>2, <2>5, GenClock, GenCrossing DEF GenCounts, Counted
    <2>6. CASE genState = "Count_St" /\ ~Gen!pm
      <3>1. phaseGen # 0 /\ genCount = phaseGen
        BY <2>1, <2>6, GenCrossing DEF GenCounts, Counted
      <3>2. (genCount + 1) % M = phaseGen + 1
        BY <2>2, <3>1, CountUp
      <3> QED
        BY <1>0, <2>1, <2>2, <2>6, <3>1, <3>2, GenClock DEF Counted
    <2>7. CASE genState \in {"Hold_fst_St", "Hold_sec_St"}
      BY <1>0, <2>1, <2>7, GenClock DEF GenCounts, Counted
    <2> QED
      BY <2>3, <2>4, <2>5, <2>6, <2>7 DEF Gen!TypeOK, Gen!States
  <1> QED
    BY <1>1, <1>2 DEF GenCounts

\* Held, the generator stands at the start of its period.
LEMMA HeldAtStart ==
    ASSUME IInv, GenWave, cnt_hold
    PROVE  phaseGen = 0 /\ genSec = Wave(phaseGen) /\ genSec = 1
  <1>1. FrozenOnCrossing /\ GenBuffer /\ Gen!TypeOK
    BY DEF IInv, SpecTypeOK, TypeOK
  <1>2. Gen!pm
    BY <1>1 DEF cnt_hold, FrozenOnCrossing
  <1> QED
    BY <1>1, <1>2, GenCrossing DEF GenWave, Wave, Gen!pm, Gen!LIMIT

\* A clock with periodic signals is a clock with some signals.
LEMMA PeriodicIsTick ==
    ASSUME IInv, GenWave, PeriodicTick
    PROVE  Tick
  <1> DEFINE x == Wave(phaseIn')
             y == IF cnt_hold THEN genSec ELSE Wave(phaseGen')
  <1>1. x \in InSamples /\ y \in GenSamples
    BY WaveAssumption, HeldAtStart DEF Wave
  <1>2. Edge(x, y) /\ fresh' = (IF valid_sub THEN {} ELSE fresh) \cup Measured
    BY DEF PeriodicTick
  <1> QED
    BY <1>1, <1>2 DEF Tick

LEMMA PeriodicPhases ==
    ASSUME IInv, PhaseInv, PeriodicTick
    PROVE  PhaseTyped'
  <1>1. perIn' = perIn /\ perIn \in Periods /\ phaseIn + 1 \in Nat
    BY PeriodsAssumption, LoopAssumption DEF PeriodicTick, PhaseInv, PhaseTyped
  <1>2. phaseIn' \in 0 .. perIn' - 1
    BY <1>1, PhaseRange DEF PeriodicTick
  <1>3. perGen' \in Periods /\ phaseGen + 1 \in Nat
    BY PeriodsAssumption, LoopAssumption DEF PeriodicTick, Retune, PhaseInv, PhaseTyped
  <1>4. phaseGen' \in 0 .. perGen' - 1
    <2>1. CASE cnt_hold
      <3>1. phaseGen' = 0
        BY <2>1, HeldAtStart DEF PeriodicTick, PhaseInv
      <3>2. \A per \in Periods : 0 \in 0 .. per - 1
        BY PeriodsAssumption, LoopAssumption
      <3> QED
        BY <1>3, <3>1, <3>2
    <2>2. CASE ~cnt_hold
      BY <1>3, <2>2, PhaseRange DEF PeriodicTick
    <2> QED
      BY <2>1, <2>2
  <1>5. steady' \in BOOLEAN
    BY DEF PeriodicTick, PhaseInv, PhaseTyped
  <1> QED
    BY <1>1, <1>2, <1>3, <1>4, <1>5 DEF PhaseTyped

LEMMA PeriodicWaves ==
    ASSUME IInv, PhaseInv, PeriodicTick
    PROVE  InWave' /\ GenWave'
  <1>1. In!Sample(Wave(phaseIn'), Reading)
    BY DEF PeriodicTick, Edge
  <1>2. Gen!Sample(Wave(phaseGen'), Reading)
    <2>1. CASE cnt_hold
      BY <2>1, HeldAtStart DEF PeriodicTick, Edge, PhaseInv
    <2>2. CASE ~cnt_hold
      BY <2>2 DEF PeriodicTick, Edge
    <2> QED
      BY <2>1, <2>2
  <1>3. Wave(phaseIn') \in {-1, 1} /\ Wave(phaseGen') \in {-1, 1}
    BY DEF Wave
  <1>4. inSec \in {-1, 0, 1} /\ genSec \in {-1, 0, 1}
    BY DEF PhaseInv, InWave, GenWave, Wave
  <1>5. InWave'
    <2> DEFINE x == Wave(phaseIn')
    <2>1. x \in {-1, 1} /\ In!Sample(x, Reading)
      BY <1>1, <1>3
    <2> HIDE DEF x
    <2>2. /\ inSec' = x /\ inFst' \in {-1, 0, 1}
          /\ Reading = "event" => inFst' # inSec'
      BY <1>4, <2>1 DEF In!Sample, PhaseInv, InWave
    <2> QED
      BY <2>2 DEF InWave, x
  <1>6. GenWave'
    <2> DEFINE y == Wave(phaseGen')
    <2>1. y \in {-1, 1} /\ Gen!Sample(y, Reading)
      BY <1>2, <1>3
    <2> HIDE DEF y
    <2>2. /\ genSec' = y /\ genFst' \in {-1, 0, 1}
          /\ Reading = "event" => genFst' # genSec'
      BY <1>4, <2>1 DEF Gen!Sample, PhaseInv, GenWave
    <2> QED
      BY <2>2 DEF GenWave, y
  <1> QED
    BY <1>5, <1>6

PeriodicInv == IInv /\ PhaseInv

LEMMA PeriodicInitially == PeriodicInit => PeriodicInv
  <1> SUFFICES ASSUME PeriodicInit
               PROVE  PeriodicInv
    OBVIOUS
  <1>1. IInv
    BY InitIInv DEF PeriodicInit
  <1>2. PhaseTyped
    BY DEF PeriodicInit, PhaseTyped
  <1>3. InWave /\ GenWave /\ InCounts /\ GenCounts
    BY DEF PeriodicInit, SpecInit, Init, In!Init, Gen!Init, InWave, GenWave, InCounts,
           GenCounts, Counted
  <1> QED
    BY <1>1, <1>2, <1>3 DEF PeriodicInv, PhaseInv

LEMMA PeriodicStep ==
    ASSUME PeriodicInv, [PeriodicTick]_periodicVars
    PROVE  PeriodicInv'
  <1>1. CASE PeriodicTick
    <2>1. IInv /\ PhaseTyped /\ InWave /\ GenWave /\ InCounts /\ GenCounts
      BY DEF PeriodicInv, PhaseInv
    <2>2. InBuffer /\ GenBuffer /\ In!TypeOK /\ Gen!TypeOK
      BY <2>1 DEF IInv, SpecTypeOK, TypeOK
    <2>3. IInv'
      BY <1>1, <2>1, PeriodicIsTick, TickIInv
    <2>4. PhaseTyped' /\ InWave' /\ GenWave'
      BY <1>1, PeriodicPhases, PeriodicWaves DEF PeriodicInv
    <2>5. In!Clock(valid_sub) /\ perIn' = perIn /\ phaseIn' = (phaseIn + 1) % perIn
      BY <1>1 DEF PeriodicTick, Edge
    <2>6. InCounts'
      BY <2>1, <2>2, <2>5, InCountsStep
    <2>7. GenCounts'
      BY <1>1, <2>1, <2>2, GenCountsStep
    <2> QED
      BY <2>3, <2>4, <2>6, <2>7 DEF PeriodicInv, PhaseInv
  <1>2. CASE UNCHANGED periodicVars
    <2>1. IInv'
      BY <1>2, StutterIInv DEF PeriodicInv, periodicVars
    <2>2. PhaseInv'
      BY <1>2 DEF PeriodicInv, PhaseInv, PhaseTyped, InWave, GenWave, InCounts, GenCounts,
                  Counted, Wave, periodicVars, allVars, vars, inVars, genVars, fllVars
    <2> QED
      BY <2>1, <2>2 DEF PeriodicInv
  <1> QED
    BY <1>1, <1>2

\* The periods, the phases and the counts go together in every clock.
THEOREM PhasesCounted == PeriodicSpec => []PeriodicInv
  <1>1. PeriodicInv /\ [PeriodicTick]_periodicVars => PeriodicInv'
    BY PeriodicStep
  <1> QED
    BY <1>1, PeriodicInitially, PTL DEF PeriodicSpec

\* The loop under periodic signals, whatever their periods, is the loop under
\* any two signals: what is proved of that holds for it.
THEOREM PeriodicIsLoop == PeriodicSpec => Spec
  <1>1. PeriodicInit => SpecInit
    BY DEF PeriodicInit
  <1>2. PeriodicInv /\ [PeriodicTick]_periodicVars => [Next]_allVars
    <2>1. PeriodicInv /\ PeriodicTick => Next
      BY PeriodicIsTick DEF PeriodicInv, PhaseInv, Next
    <2>2. UNCHANGED periodicVars => UNCHANGED allVars
      BY DEF periodicVars
    <2> QED
      BY <2>1, <2>2
  <1> QED
    BY <1>1, <1>2, PhasesCounted, PTL DEF PeriodicSpec, Spec

\* For every pair of periods and phases: a difference that was measured while
\* the NCO ran undisturbed is the difference of the periods, to the clock.
THEOREM DifferencesExact == PeriodicSpec => []Exact
  <1>1. PeriodicInv => Exact
    <2> SUFFICES ASSUME PeriodicInv, valid_sub, steady
                 PROVE  inCount - genCount = perIn - perGen
      BY DEF Exact
    <2>1. InHolding /\ GenHolding
      BY DEF PeriodicInv, IInv, OfferedOnce
    <2> QED
      BY <2>1 DEF PeriodicInv, PhaseInv, InCounts, GenCounts, Counted, InHolding,
                  GenHolding
  <1> QED
    BY <1>1, PhasesCounted, PTL

-----------------------------------------------------------------------------
(***************************************************************************)
(* The two channels together.  Which of them is where in its cycle decides *)
(* whether a pair is of two new counts, and where a hold ends.             *)
(* The buffers are those of a simulator (Reading is "event"): read as      *)
(* wires, nothing is ever measured.                                        *)
(***************************************************************************)
\* Clocks since the last crossing before this clock: a crossing ends a period.
Age(phase, per) == IF phase = 0 THEN per ELSE phase
ageIn == Age(phaseIn, perIn)
ageGen == Age(phaseGen, perGen)

inFresh == "in" \in fresh
genFresh == "gen" \in fresh

\* A count that was subtracted and stays, because Hold_sec_St does not look at
\* the withdrawal.
inStale == inState = "Hold_sec_St" /\ ~inFresh
genStale == genState = "Hold_sec_St" /\ ~genFresh
inStage == IF inStale THEN "Stale_St" ELSE inState
genStage == IF genStale THEN "Stale_St" ELSE genState

Running == state \in {"Wait_St", "Count_St"}
Frozen == state \in {"Step_St", "Chek_St", "Hold_fst_St"}
Alike == perIn - perGen \in -1 .. 1
Shorter == IF perIn =< perGen THEN perIn ELSE perGen

(***************************************************************************)
(* A channel goes through Stale, Wait, Count, Hold_fst and Hold_sec with a *)
(* crossing between any two: since it was last stale it has run a period   *)
(* for every stage it has left, and its age.  A channel that is in a later *)
(* stage s, at age a, than one in stage t, at age b, of period q, leads it *)
(* by at most one period (the shorter) and k clocks.                       *)
(***************************************************************************)
Ahead(s, a, t, b, q, k) ==
    /\ s = "Wait_St" /\ t = "Stale_St" => a =< b + k
    /\ s = "Count_St" /\ t = "Stale_St" => Shorter + a =< b + k
    /\ s = "Count_St" /\ t = "Wait_St" => Shorter + a =< q + b + k
    /\ s = "Hold_fst_St" /\ t = "Wait_St" => 2 * Shorter + a =< q + b + k
    /\ s = "Hold_fst_St" /\ t = "Count_St" => 2 * Shorter + a =< 2 * q + b + k
    /\ s = "Hold_sec_St" /\ t = "Wait_St" => 3 * Shorter + a =< q + b + k
    /\ s = "Hold_sec_St" /\ t = "Count_St" => 3 * Shorter + a =< 2 * q + b + k
    /\ s = "Hold_sec_St" /\ t = "Hold_fst_St" => 3 * Shorter + a =< 3 * q + b + k

InLeads(k) == Ahead(inStage, ageIn, genStage, ageGen, perGen, k)
GenLeads(k) == Ahead(genStage, ageGen, inStage, ageIn, perIn, k)

\* Everything leaves reset in the first clock.
Started ==
    /\ inState = "Reset_St" <=> state = "Reset_St"
    /\ genState = "Reset_St" <=> state = "Reset_St"
    /\ state = "Reset_St" => ~valid_delta
    /\ ~valid_delta => delta = 0

\* What the generator's counter has, also of a period that was disturbed.  A
\* frozen generator stands on its crossing: its counter counts 1 and holds that.
GenExact ==
    /\ genState = "Count_St" /\ ~Frozen => genCount = ageGen
    /\ Running /\ GenHolding /\ genFresh => genCount = perGen
    /\ Frozen => ageGen = perGen
    /\ Frozen /\ genState = "Count_St" => genCount = 1

\* The first hold is of a new count, and so are the two of a pair.
FreshHolds ==
    /\ inState = "Hold_fst_St" => inFresh
    /\ genState = "Hold_fst_St" => genFresh
    /\ valid_sub => inFresh /\ genFresh

\* A pair is offered in the clock after a crossing and subtracted in the next.
\* A channel that keeps its count through that has measured what it counts now.
PairAges ==
    /\ Running /\ valid_sub =>
        \/ inState = "Hold_fst_St" /\ ageIn = 1
        \/ genState = "Hold_fst_St" /\ ageGen = 1
    /\ valid_delta =>
        /\ ~valid_sub /\ ~inFresh /\ ~genFresh
        /\ inState \in {"Wait_St", "Hold_sec_St"} /\ genState \in {"Wait_St", "Hold_sec_St"}
        /\ "Hold_sec_St" \in {inState, genState} => delta = perIn - perGen
    /\ Running /\ valid_delta =>
        \/ inState = "Wait_St" /\ ageIn = 2
        \/ genState = "Wait_St" /\ ageGen = 2

\* The clock in which the NCO takes a new period: two clocks after the pair.
Retuned ==
    sub # 0 =>
        /\ Running /\ ~valid_sub /\ ~valid_delta /\ ~inFresh /\ ~genFresh
        /\ \/ inState = "Wait_St" /\ genState = "Wait_St" /\ (ageIn = 3 \/ ageGen = 3)
           \/ inState = "Hold_sec_St" /\ genState = "Wait_St" /\ ageGen = 3
           \/ inState = "Wait_St" /\ genState = "Hold_sec_St" /\ ageIn = 3
           \/ inState = "Count_St" /\ genState = "Wait_St" /\ ageIn = 1 /\ ageGen = 3
           \/ inState = "Wait_St" /\ genState = "Count_St" /\ ageGen = 1
                /\ (ageIn = 3 \/ state = "Wait_St")

\* The buffers of crossings agree with the ages.
Quieted ==
    /\ InHolding \/ inState = "Count_St" \/ valid_delta => quietIn < ageIn
    /\ (GenHolding /\ ~genStale) \/ genState = "Count_St" \/ valid_delta => quietGen < ageGen

\* The subtracted count that stays is older than what the other channel has,
\* and after it the leads are bounded as long as the periods are alike.  The 3
\* clocks are those from a pair to the period it sets.
Ordered ==
    /\ inStale => Running /\ genState \in {"Wait_St", "Count_St"}
    /\ genStale /\ ~Frozen => Running /\ inState \in {"Wait_St", "Count_St"}
    /\ Running /\ (Alike \/ genStale) => InLeads(3)
    /\ Running /\ (Alike \/ inStale) => GenLeads(0)

\* Approach is not taken when both crossings are recent: in Count_St, and after
\* the NCO has taken its last correction, no lead is a whole period.
Strict == state = "Count_St" /\ sub = 0 => InLeads(-1) /\ GenLeads(-1)

\* Ages about a pair after which the generator's count stays.
Lagging ==
    /\ Running /\ Alike /\ genState = "Hold_sec_St" =>
        /\ valid_sub /\ inState = "Hold_fst_St" => ageGen =< 4
        /\ valid_delta => ageGen =< 5
    /\ state = "Count_St" /\ sub # 0 =>
        /\ genState = "Hold_sec_St" => ageGen \in ageIn + 1 .. 6
        /\ inState = "Hold_sec_St" => ageIn > ageGen
    /\ state = "Count_St" /\ (valid_sub \/ valid_delta) =>
        "Hold_sec_St" \notin {inState, genState}

\* In Count_St the counts are compared in every clock.  Counts that meet end
\* it, so the channel behind has not passed the count of the one that holds.
Meeting ==
    state = "Count_St" =>
        /\ inState = "Hold_fst_St" /\ genState = "Count_St" =>
            ageGen =< perIn \/ ageGen >= perIn + ageIn
        /\ inState = "Count_St" /\ genState = "Hold_fst_St" =>
            ageIn =< perGen \/ ageIn >= perGen + ageGen
        /\ inState = "Hold_sec_St" /\ inFresh /\ genState = "Count_St" => ageGen =< perIn
        /\ inState = "Count_St" /\ genState = "Hold_sec_St" /\ genFresh => ageIn =< perGen
        /\ inState = "Count_St" /\ genState = "Count_St" /\ ageIn = ageGen => ageIn = 1

\* A pair that is formed in Step_St is of the two counts that met, or it has the
\* count 1 of the frozen generator and its difference gives the hold up.  The
\* second does not happen when the periods are equal.
Stepping ==
    state = "Step_St" =>
        \/ /\ inState = "Hold_fst_St" /\ valid_sub /\ ~valid_delta
           /\ count_buf_l = perIn /\ genCount = perIn
        \/ /\ inState = "Wait_St" /\ genState = "Wait_St" /\ valid_delta
           /\ count_buf_l = perIn /\ delta = 0
        \/ /\ perIn # perGen
           /\ \/ /\ inState = "Count_St" /\ ~valid_delta
                 /\ genState \in {"Hold_fst_St", "Count_St"} => genCount = 1
              \/ /\ inState = "Hold_fst_St" /\ ~valid_sub /\ ~valid_delta
                 /\ \/ genState = "Wait_St" /\ ageIn = 1
                    \/ genState = "Count_St" /\ ageIn \in 1 .. 2
              \/ /\ inState = "Hold_fst_St" /\ valid_sub /\ ~valid_delta
                 /\ genCount = 1 /\ ageIn \in 1 .. 3
              \/ /\ inState = "Wait_St" /\ genState = "Wait_St" /\ valid_delta
                 /\ delta = perIn - 1 /\ ageIn \in 2 .. 4

\* Chek_St waits for the count of a whole period, with nothing on offer.
Checking ==
    state = "Chek_St" =>
        /\ inState \in {"Wait_St", "Count_St"} /\ count_buf_l = perIn
        /\ ~valid_sub /\ ~valid_delta

\* The two clocks after the input's crossing in which nothing is corrected.  In
\* the first the generator still stands on its own, in the second it has moved.
Releasing ==
    /\ state = "Hold_fst_St" => inState = "Hold_fst_St" /\ ageIn = 1 /\ ~valid_delta
    /\ state = "Hold_sec_St" =>
        /\ ageIn = 2 /\ ageGen = 1
        /\ \/ /\ inState = "Hold_fst_St" /\ ~valid_delta
              /\ IF valid_sub THEN genState = "Hold_fst_St" ELSE genState = "Count_St"
           \/ inState = "Wait_St" /\ genState = "Wait_St" /\ valid_delta

\* The inductive invariant, beyond PeriodicInv.
OrderInv ==
    /\ Started /\ GenExact /\ FreshHolds /\ PairAges /\ Retuned /\ Quieted
    /\ Ordered /\ Strict /\ Lagging /\ Meeting
    /\ Stepping /\ Checking /\ Releasing

-----------------------------------------------------------------------------
(* One clock in terms of the ages.                                          *)

\* What PeriodicInv says of the loop, in numbers.
LoopFacts ==
    /\ perIn \in Nat /\ perGen \in Nat /\ perIn >= 8 /\ perGen >= 8
    /\ 2 * perIn =< 3 * perGen /\ 2 * perGen =< 3 * perIn
    /\ ageIn \in Nat /\ ageIn >= 1 /\ ageIn =< perIn
    /\ ageGen \in Nat /\ ageGen >= 1 /\ ageGen =< perGen
    /\ {inState, genState} \subseteq
         {"Reset_St", "Wait_St", "Count_St", "Hold_fst_St", "Hold_sec_St"}
    /\ state \in {"Reset_St", "Wait_St", "Count_St", "Step_St", "Chek_St",
                  "Hold_fst_St", "Hold_sec_St"}
    /\ quietIn \in 0 .. 3 /\ quietGen \in 0 .. 3
    /\ inCount \in Nat /\ genCount \in Nat /\ count_buf_l \in Nat
    /\ delta \in Int /\ sub \in Int
    /\ inState \in {"Reset_St", "Wait_St"} => inCount = 0
    /\ inState = "Count_St" => inCount = ageIn
    /\ InHolding => inCount = perIn
    /\ genState \in {"Reset_St", "Wait_St"} => genCount = 0
    /\ OfferedOnce

InMoves ==
    /\ perIn' = perIn
    /\ ageIn' = IF ageIn = perIn THEN 1 ELSE ageIn + 1
    /\ inState = "Reset_St" => inState' = "Wait_St"
    /\ inState = "Wait_St" => inState' = IF ageIn = perIn THEN "Count_St" ELSE "Wait_St"
    /\ inState = "Count_St" => inState' = IF ageIn = perIn THEN "Hold_fst_St" ELSE "Count_St"
    /\ inState = "Hold_fst_St" => inState' = IF valid_sub THEN "Wait_St"
                                             ELSE IF ageIn = perIn THEN "Hold_sec_St"
                                             ELSE "Hold_fst_St"
    /\ inState = "Hold_sec_St" => inState' = IF ageIn = perIn THEN "Wait_St" ELSE "Hold_sec_St"
    /\ inFresh' <=> (inFresh /\ ~valid_sub) \/ (inState = "Count_St" /\ ageIn = perIn)
    /\ inState # "Reset_St" =>
         quietIn' = IF ageIn = perIn THEN 0 ELSE IF quietIn < 3 THEN quietIn + 1 ELSE quietIn

GenMoves ==
    /\ genState = "Reset_St" => genState' = "Wait_St"
    /\ genState = "Wait_St" => genState' = IF ageGen = perGen THEN "Count_St" ELSE "Wait_St"
    /\ genState = "Count_St" => genState' = IF ageGen = perGen THEN "Hold_fst_St" ELSE "Count_St"
    /\ genState = "Hold_fst_St" => genState' = IF valid_sub THEN "Wait_St"
                                               ELSE IF ageGen = perGen THEN "Hold_sec_St"
                                               ELSE "Hold_fst_St"
    /\ genState = "Hold_sec_St" => genState' = IF ageGen = perGen THEN "Wait_St" ELSE "Hold_sec_St"
    /\ genFresh' <=> (genFresh /\ ~valid_sub) \/ (genState = "Count_St" /\ ageGen = perGen)
    /\ genState # "Reset_St" =>
         quietGen' = IF ageGen = perGen THEN 0 ELSE IF quietGen < 3 THEN quietGen + 1 ELSE quietGen
    /\ genState = "Wait_St" => genCount' = IF ageGen = perGen THEN 1 ELSE 0
    /\ genState = "Count_St" => genCount' = IF ageGen = perGen THEN genCount ELSE genCount + 1
    /\ genState = "Hold_fst_St" => genCount' = IF valid_sub THEN 0 ELSE genCount
    /\ genState = "Hold_sec_St" => genCount' = IF ageGen = perGen THEN 0 ELSE genCount

\* Without a correction the generator's period stays, and the generator runs
\* unless it is held, on its crossing.
GenUndisturbed ==
    /\ perGen' = perGen
    /\ ageGen' = IF cnt_hold THEN ageGen ELSE IF ageGen = perGen THEN 1 ELSE ageGen + 1
    /\ cnt_hold => ageGen = perGen

\* With one it goes on from the phase it has.
GenCorrected(per) ==
    /\ perGen' = per
    /\ ageGen' = IF ageGen = perGen THEN 1
                 ELSE IF ageGen + 1 =< per THEN ageGen + 1
                 ELSE ageGen + 1 - per

LoopMoves ==
    /\ cnt_hold <=> \/ state = "Count_St" /\ SameCount /\ ageGen = perGen
                    \/ state = "Step_St" /\ ~Far
                    \/ state = "Chek_St" /\ (Aligned \/ ~Far)
    /\ state = "Reset_St" => state' = "Wait_St"
    /\ state = "Wait_St" =>
         state' = IF Near /\ ~(quietIn < 3 /\ quietGen < 3) THEN "Count_St" ELSE "Wait_St"
    /\ state = "Count_St" => state' = IF ~SameCount THEN "Count_St"
                                      ELSE IF ageGen = perGen THEN "Step_St" ELSE "Wait_St"
    /\ state = "Step_St" => state' = IF Near THEN "Chek_St"
                                     ELSE IF Far THEN "Wait_St" ELSE "Step_St"
    /\ state = "Chek_St" => state' = IF Aligned THEN "Hold_fst_St"
                                     ELSE IF Far THEN "Wait_St" ELSE "Chek_St"
    /\ state = "Hold_fst_St" => state' = "Hold_sec_St"
    /\ state = "Hold_sec_St" => state' = "Wait_St"
    /\ state = "Count_St" /\ SameCount /\ ageGen = perGen => count_buf_l' = genCount
    /\ state \in {"Step_St", "Chek_St"} /\ ~Far => count_buf_l' = count_buf_l
    /\ state = "Chek_St" /\ Aligned => count_buf_l' = count_buf_l
    /\ valid_delta' <=> valid_sub
    /\ delta' = IF valid_sub THEN inCount - genCount ELSE 0
    /\ sub' = IF state \in {"Hold_fst_St", "Hold_sec_St"} THEN 0 ELSE delta

Moves == InMoves /\ GenMoves /\ LoopMoves

\* The bounds of the band, without the quantifiers.
LEMMA Band ==
    ASSUME NEW per \in Periods, NEW q \in Periods
    PROVE  per \in Nat /\ per >= 8 /\ per =< M - 1 /\ M \in Nat /\ 2 * per =< 3 * q
  BY PeriodsAssumption, BandAssumption, LoopAssumption

\* The age of a signal that runs on.
LEMMA AgeStep ==
    ASSUME NEW per \in Periods, NEW ph \in 0 .. per - 1
    PROVE  /\ Age(ph, per) \in 1 .. per
           /\ Age(ph, per) = per <=> ph = 0
           /\ Age((ph + 1) % per, per) = IF Age(ph, per) = per THEN 1 ELSE Age(ph, per) + 1
  <1>1. per \in 2 .. M - 1 /\ M \in Nat /\ (ph + 1) % per = IF ph = per - 1 THEN 0 ELSE ph + 1
    BY PhaseStep, LoopAssumption
  <1> QED
    BY <1>1 DEF Age

\* The age of a signal whose period changes from per to q.
LEMMA AgeCorrected ==
    ASSUME NEW per \in Periods, NEW q \in Periods, NEW ph \in 0 .. per - 1
    PROVE  Age((ph + 1) % q, q) = IF Age(ph, per) = per THEN 1
                                  ELSE IF Age(ph, per) + 1 =< q THEN Age(ph, per) + 1
                                  ELSE Age(ph, per) + 1 - q
  <1>1. /\ per \in Nat /\ per >= 8 /\ q \in Nat /\ q >= 8 /\ 2 * per =< 3 * q
    BY Band
  <1>2. \A n \in 0 .. q - 1 : n % q = n
    BY <1>1
  <1>3. \A n \in 0 .. q - 1 : (q + n) % q = n
    BY <1>1
  <1>4. CASE ph + 1 < q
    BY <1>1, <1>2, <1>4 DEF Age
  <1>5. CASE ph + 1 >= q
    <2>1. ph + 1 - q \in 0 .. q - 1 /\ ph + 1 = q + (ph + 1 - q)
      BY <1>1, <1>5
    <2>2. (ph + 1) % q = ph + 1 - q
      BY <1>3, <2>1
    <2> QED
      BY <1>1, <1>5, <2>2 DEF Age
  <1> QED
    BY <1>1, <1>4, <1>5

LEMMA FactsHold ==
    ASSUME PeriodicInv
    PROVE  LoopFacts
  <1>1. /\ perIn \in Nat /\ perGen \in Nat /\ perIn >= 8 /\ perGen >= 8
        /\ 2 * perIn =< 3 * perGen /\ 2 * perGen =< 3 * perIn
    BY Band DEF PeriodicInv, PhaseInv, PhaseTyped
  <1>2. ageIn \in 1 .. perIn /\ ageGen \in 1 .. perGen
    BY AgeStep DEF PeriodicInv, PhaseInv, PhaseTyped, ageIn, ageGen
  <1>3. /\ inState \in In!States /\ genState \in Gen!States /\ state \in FLLStates
        /\ inCount \in Nat /\ genCount \in Nat /\ count_buf_l \in Nat
        /\ quietIn \in 0 .. 3 /\ quietGen \in 0 .. 3 /\ delta \in Int /\ sub \in Int
    BY LoopAssumption DEF PeriodicInv, IInv, SpecTypeOK, TypeOK, In!TypeOK, Gen!TypeOK, BufDepth
  <1>4. /\ inState \in {"Reset_St", "Wait_St"} => inCount = 0
        /\ inState = "Count_St" => inCount = ageIn
        /\ InHolding => inCount = perIn
        /\ genState \in {"Reset_St", "Wait_St"} => genCount = 0
    BY DEF PeriodicInv, PhaseInv, InCounts, GenCounts, Counted, InHolding, ageIn, Age
  <1> QED
    BY <1>1, <1>2, <1>3, <1>4
    DEF LoopFacts, PeriodicInv, IInv, In!States, Gen!States, FLLStates

\* The crossings are seen, each of them for one clock.
LEMMA Seen ==
    ASSUME Reading = "event", PeriodicInv
    PROVE  /\ inState # "Reset_St" => ~In!nul /\ (In!pm <=> ageIn = perIn)
           /\ genState # "Reset_St" => ~Gen!nul /\ (Gen!pm <=> ageGen = perGen)
  <1>1. InWave /\ GenWave /\ (ageIn = perIn <=> phaseIn = 0) /\ (ageGen = perGen <=> phaseGen = 0)
    BY AgeStep DEF PeriodicInv, PhaseInv, PhaseTyped, ageIn, ageGen
  <1>2. inState # "Reset_St" => ~In!nul /\ (In!pm <=> phaseIn = 0)
    BY <1>1 DEF InWave, Wave, In!pm, In!nul, In!LIMIT
  <1>3. genState # "Reset_St" => ~Gen!nul /\ (Gen!pm <=> phaseGen = 0)
    BY <1>1 DEF GenWave, Wave, Gen!pm, Gen!nul, Gen!LIMIT
  <1> QED
    BY <1>1, <1>2, <1>3

LEMMA InMove ==
    ASSUME Reading = "event", PeriodicInv, LoopFacts, PeriodicTick
    PROVE  InMoves
  <1>1. In!Clock(valid_sub) /\ quietIn' = Quiet(In!pm, quietIn)
    BY DEF PeriodicTick, Edge
  <1>2. perIn' = perIn /\ ageIn' = IF ageIn = perIn THEN 1 ELSE ageIn + 1
    BY AgeStep DEF PeriodicInv, PhaseInv, PhaseTyped, PeriodicTick, ageIn
  <1>3. inFresh' <=> (inFresh /\ ~valid_sub) \/ (inState = "Count_St" /\ ageIn = perIn)
    BY Seen DEF PeriodicTick, Measured, inFresh
  <1>4. inState # "Reset_St" =>
          quietIn' = IF ageIn = perIn THEN 0 ELSE IF quietIn < 3 THEN quietIn + 1 ELSE quietIn
    BY <1>1, Seen DEF Quiet, BufDepth
  <1>5. /\ In!Move(valid_sub)
        /\ inState # "Reset_St" => ~In!nul /\ (In!pm <=> ageIn = perIn)
    BY <1>1, Seen DEF In!Clock
  <1> USE DEF In!Move, In!Go, In!Arm, In!Abort, In!Open, In!Close, In!Taken, In!Outlast,
              In!Expire, In!Stay
  <1>6. inState = "Reset_St" => inState' = "Wait_St"
    BY <1>5
  <1>7. inState = "Wait_St" => inState' = IF ageIn = perIn THEN "Count_St" ELSE "Wait_St"
    BY <1>5
  <1>8. inState = "Count_St" => inState' = IF ageIn = perIn THEN "Hold_fst_St" ELSE "Count_St"
    BY <1>5
  <1>9. inState = "Hold_fst_St" => inState' = IF valid_sub THEN "Wait_St"
                                              ELSE IF ageIn = perIn THEN "Hold_sec_St"
                                              ELSE "Hold_fst_St"
    BY <1>5
  <1>10. inState = "Hold_sec_St" => inState' = IF ageIn = perIn THEN "Wait_St" ELSE "Hold_sec_St"
    BY <1>5
  <1> QED
    BY <1>2, <1>3, <1>4, <1>6, <1>7, <1>8, <1>9, <1>10 DEF InMoves

LEMMA GenMove ==
    ASSUME Reading = "event", PeriodicInv, LoopFacts, Started, GenExact, PeriodicTick
    PROVE  GenMoves
  <1>1. /\ Gen!Move(valid_sub) /\ genCount' = Gen!NextCount(valid_sub)
        /\ quietGen' = Quiet(Gen!pm, quietGen)
    BY DEF PeriodicTick, Edge, Gen!Clock
  <1>2. genFresh' <=> (genFresh /\ ~valid_sub) \/ (genState = "Count_St" /\ ageGen = perGen)
    BY Seen DEF PeriodicTick, Measured, genFresh
  <1>3. genState # "Reset_St" =>
          quietGen' = IF ageGen = perGen THEN 0 ELSE IF quietGen < 3 THEN quietGen + 1 ELSE quietGen
    BY <1>1, Seen DEF Quiet, BufDepth
  <1>4. genState # "Reset_St" => ~Gen!nul /\ (Gen!pm <=> ageGen = perGen)
    BY Seen
  <1>5. (0 + 1) % M = 1 /\ (genState = "Count_St" /\ ageGen # perGen =>
                              genCount = ageGen /\ (genCount + 1) % M = genCount + 1)
    <2>1. (0 + 1) % M = 1
      BY CountUp, LoopAssumption
    <2>2. ASSUME genState = "Count_St", ageGen # perGen
          PROVE  genCount = ageGen /\ ageGen \in 0 .. M - 2
      BY <2>2, Band DEF GenExact, LoopFacts, PeriodicInv, PhaseInv, PhaseTyped
    <2> QED
      BY <2>1, <2>2, CountUp
  <1> USE DEF Gen!Move, Gen!Go, Gen!Arm, Gen!Abort, Gen!Open, Gen!Close, Gen!Taken,
              Gen!Outlast, Gen!Expire, Gen!Stay, Gen!NextCount, Gen!cnt, Gen!valid
  <1>6. genState = "Reset_St" => genState' = "Wait_St"
    BY <1>1
  <1>7. genState = "Wait_St" =>
          /\ genState' = IF ageGen = perGen THEN "Count_St" ELSE "Wait_St"
          /\ genCount' = IF ageGen = perGen THEN 1 ELSE 0
    BY <1>1, <1>4, <1>5 DEF LoopFacts
  <1>8. genState = "Count_St" =>
          /\ genState' = IF ageGen = perGen THEN "Hold_fst_St" ELSE "Count_St"
          /\ genCount' = IF ageGen = perGen THEN genCount ELSE genCount + 1
    BY <1>1, <1>4, <1>5
  <1>9. genState = "Hold_fst_St" =>
          /\ genState' = IF valid_sub THEN "Wait_St"
                         ELSE IF ageGen = perGen THEN "Hold_sec_St"
                         ELSE "Hold_fst_St"
          /\ genCount' = IF valid_sub THEN 0 ELSE genCount
    BY <1>1, <1>4
  <1>10. genState = "Hold_sec_St" =>
          /\ genState' = IF ageGen = perGen THEN "Wait_St" ELSE "Hold_sec_St"
          /\ genCount' = IF ageGen = perGen THEN 0 ELSE genCount
    BY <1>1, <1>4
  <1> QED
    BY <1>2, <1>3, <1>6, <1>7, <1>8, <1>9, <1>10 DEF GenMoves

\* The hold, by the ages.
LEMMA Holding ==
    ASSUME Reading = "event", PeriodicInv, LoopFacts, Started
    PROVE  /\ cnt_hold <=> \/ state = "Count_St" /\ SameCount /\ ageGen = perGen
                           \/ state = "Step_St" /\ ~Far
                           \/ state = "Chek_St" /\ (Aligned \/ ~Far)
           /\ state = "Count_St" => (Gen!pm <=> ageGen = perGen)
           /\ cnt_hold => ageGen = perGen
  <1>1. state # "Reset_St" => (Gen!pm <=> ageGen = perGen)
    BY Seen DEF Started
  <1>2. state \in {"Step_St", "Chek_St"} => cnt_hold_l /\ Gen!pm
    BY DEF PeriodicInv, IInv, FrozenOnCrossing
  <1> QED
    BY <1>1, <1>2 DEF cnt_hold

LEMMA LoopMove ==
    ASSUME Reading = "event", PeriodicInv, LoopFacts, Started, PeriodicTick
    PROVE  LoopMoves
  <1>1. /\ Move /\ count_buf_l' = count_buf /\ valid_delta' = valid_sub
        /\ delta' = IF valid_sub THEN inCount - genCount ELSE 0
        /\ sub' = IF blok THEN 0 ELSE delta
    BY DEF PeriodicTick, Edge
  <1>2. /\ state = "Count_St" => (Gen!pm <=> ageGen = perGen)
        /\ Near => ~Far
    BY Holding, NearNotFar
  <1>3. /\ state = "Reset_St" => state' = "Wait_St"
        /\ state = "Wait_St" =>
             state' = IF Near /\ ~(quietIn < 3 /\ quietGen < 3) THEN "Count_St" ELSE "Wait_St"
        /\ state = "Count_St" => state' = IF ~SameCount THEN "Count_St"
                                          ELSE IF ageGen = perGen THEN "Step_St" ELSE "Wait_St"
    BY <1>1, <1>2 DEF Move, Go, Arm, Approach, Freeze, Miss, Confirm, Align, GiveUp, Release,
                      Stay, ph_pm_in, ph_pm_gen, BufDepth
  <1>4. /\ state = "Step_St" => state' = IF Near THEN "Chek_St"
                                         ELSE IF Far THEN "Wait_St" ELSE "Step_St"
        /\ state = "Chek_St" => state' = IF Aligned THEN "Hold_fst_St"
                                         ELSE IF Far THEN "Wait_St" ELSE "Chek_St"
        /\ state = "Hold_fst_St" => state' = "Hold_sec_St"
        /\ state = "Hold_sec_St" => state' = "Wait_St"
    BY <1>1, <1>2 DEF Move, Go, Arm, Approach, Freeze, Miss, Confirm, Align, GiveUp, Release,
                      Stay
  <1>5. /\ state = "Count_St" /\ SameCount /\ ageGen = perGen => count_buf_l' = genCount
        /\ state \in {"Step_St", "Chek_St"} /\ ~Far => count_buf_l' = count_buf_l
        /\ state = "Chek_St" /\ Aligned => count_buf_l' = count_buf_l
    BY <1>1, <1>2 DEF count_buf, Kept
  <1> QED
    BY <1>1, <1>3, <1>4, <1>5, Holding DEF LoopMoves, blok

LEMMA GenAge ==
    ASSUME Reading = "event", PeriodicInv, LoopFacts, Started, Retuned, PeriodicTick
    PROVE  /\ sub = 0 => GenUndisturbed
           /\ sub # 0 => GenCorrected(perGen') /\ perGen' \in Nat
  <1>1. /\ perGen \in Periods /\ perGen' \in Periods /\ phaseGen \in 0 .. perGen - 1
        /\ sub = 0 => perGen' = perGen
        /\ phaseGen' = IF cnt_hold THEN phaseGen ELSE (phaseGen + 1) % perGen'
    BY DEF PeriodicInv, PhaseInv, PhaseTyped, PeriodicTick, Retune
  <1>2. ASSUME sub = 0
        PROVE  GenUndisturbed
    <2>1. perGen' = perGen /\ (cnt_hold => ageGen = perGen)
      BY <1>1, <1>2, Holding
    <2>2. CASE cnt_hold
      BY <1>1, <2>1, <2>2 DEF GenUndisturbed, ageGen
    <2>3. CASE ~cnt_hold
      <3>1. ageGen' = Age((phaseGen + 1) % perGen, perGen)
        BY <1>1, <2>1, <2>3 DEF ageGen
      <3>2. ageGen' = IF ageGen = perGen THEN 1 ELSE ageGen + 1
        BY <1>1, <3>1, AgeStep DEF ageGen
      <3> QED
        BY <2>1, <2>3, <3>2 DEF GenUndisturbed
    <2> QED
      BY <2>2, <2>3
  <1>3. ASSUME sub # 0
        PROVE  GenCorrected(perGen') /\ perGen' \in Nat
    <2>1. ~cnt_hold
      BY <1>3, Holding DEF Retuned, LoopFacts, Running, SameCount
    <2>2. ageGen' = Age((phaseGen + 1) % perGen', perGen')
      BY <1>1, <2>1 DEF ageGen
    <2>3. GenCorrected(perGen')
      BY <1>1, <2>2, AgeCorrected DEF GenCorrected, ageGen
    <2> QED
      BY <1>1, <2>3, Band
  <1> QED
    BY <1>2, <1>3

-----------------------------------------------------------------------------
(* The order is kept: while the NCO is left alone, and when it takes its    *)
(* correction.                                                              *)

LEMMA OrderKept ==
    ASSUME LoopFacts, LoopFacts', OrderInv, Moves, sub = 0, GenUndisturbed
    PROVE  OrderInv'
  <1> USE DEF OrderInv, LoopFacts, OfferedOnce, Moves, InMoves, GenMoves, LoopMoves, GenUndisturbed,
              Running, Frozen, Alike, Shorter, Ahead, InLeads, GenLeads, InHolding, GenHolding,
              inStage, genStage, inStale, genStale, Near, Far, SameCount, Aligned
  <1>1. Started'
    BY DEF Started
  <1>2. GenExact'
    BY DEF GenExact, Started, Stepping, Checking, Releasing
  <1>3. FreshHolds'
    BY DEF FreshHolds, Ordered, Stepping, Checking, Releasing
  <1>4. PairAges'
    BY DEF PairAges, Started, GenExact, FreshHolds, Stepping, Checking, Releasing
  <1>5. Retuned'
    BY DEF Retuned, Started, GenExact, PairAges, Stepping, Checking
  <1>6. Quieted'
    BY DEF Quieted, FreshHolds
  <1>7. Ordered'
    BY DEF Ordered, Started, GenExact, FreshHolds, PairAges, Stepping, Checking, Releasing
  <1>8. Strict'
    BY DEF Strict, Started, FreshHolds, PairAges, Quieted, Lagging, Meeting
  <1>9. Lagging'
    BY DEF Lagging, Started, PairAges, Quieted, Ordered, Strict, Meeting, Releasing
  <1>10. Meeting'
    BY DEF Meeting, GenExact, FreshHolds, PairAges
  <1>11. Stepping'
    BY DEF Stepping, GenExact, Strict, Lagging, Meeting
  <1>12. Checking'
    BY DEF Checking, Stepping
  <1>13. Releasing'
    BY DEF Releasing, Started, GenExact, Checking
  <1> QED
    BY <1>1, <1>2, <1>3, <1>4, <1>5, <1>6, <1>7,
       <1>8, <1>9, <1>10, <1>11, <1>12, <1>13 DEF OrderInv

LEMMA OrderCorrected ==
    ASSUME LoopFacts, LoopFacts', OrderInv, Moves, sub # 0, NEW per \in Nat, GenCorrected(per)
    PROVE  OrderInv'
  <1> USE DEF OrderInv, LoopFacts, OfferedOnce, Moves, InMoves, GenMoves, LoopMoves, GenCorrected,
              Running, Frozen, Alike, Shorter, Ahead, InLeads, GenLeads, InHolding, GenHolding,
              inStage, genStage, inStale, genStale, Near, Far, SameCount, Aligned
  <1>1. Started'
    BY DEF Started
  <1>2. GenExact'
    BY DEF GenExact, Retuned
  <1>3. FreshHolds'
    BY DEF FreshHolds, Retuned
  <1>4. PairAges'
    BY DEF PairAges, Retuned
  <1>5. Retuned'
    BY DEF Retuned, Started
  <1>6. Quieted'
    BY DEF Quieted, Retuned
  <1>7. Ordered'
    BY DEF Ordered, Retuned
  <1>8. Strict'
    BY DEF Strict, Retuned, Lagging
  <1>9. Lagging'
    BY DEF Lagging, Started, Retuned
  <1>10. Meeting'
    BY DEF Meeting, Retuned
  <1>11. Stepping'
    BY DEF Stepping, Retuned
  <1>12. Checking'
    BY DEF Checking, Stepping
  <1>13. Releasing'
    BY DEF Releasing, Retuned
  <1> QED
    BY <1>1, <1>2, <1>3, <1>4, <1>5, <1>6, <1>7,
       <1>8, <1>9, <1>10, <1>11, <1>12, <1>13 DEF OrderInv

LEMMA OrderInitially == PeriodicInit => OrderInv
  <1> SUFFICES ASSUME PeriodicInit
               PROVE  OrderInv
    OBVIOUS
  <1>1. /\ state = "Reset_St" /\ inState = "Reset_St" /\ genState = "Reset_St"
        /\ fresh = {} /\ ~valid_sub /\ ~valid_delta /\ delta = 0 /\ sub = 0
    BY DEF PeriodicInit, SpecInit, Init, In!Init, Gen!Init
  <1> QED
    BY <1>1 DEF OrderInv, Started, GenExact, FreshHolds, PairAges, Retuned, Quieted, Ordered,
                Strict, Lagging, Meeting, Stepping, Checking, Releasing, Running, Frozen,
                inStale, genStale, InHolding, GenHolding

LEMMA OrderStutters ==
    ASSUME OrderInv, UNCHANGED periodicVars
    PROVE  OrderInv'
  BY DEF OrderInv, Started, GenExact, FreshHolds, PairAges, Retuned, Quieted, Ordered, Strict,
         Lagging, Meeting, Stepping, Checking, Releasing, Running, Frozen, Alike, Shorter, Ahead,
         InLeads, GenLeads, InHolding, GenHolding, inStage, genStage, inStale, genStale,
         inFresh, genFresh, ageIn, ageGen, Age, periodicVars, allVars, vars, inVars, genVars,
         fllVars

\* The leads of the channels stay bounded, whatever the periods of the band, the
\* phases and the corrections.
THEOREM ChannelsOrdered == PeriodicSpec => [](Reading = "event" => OrderInv)
  <1> DEFINE EventInv == Reading = "event" => OrderInv
  <1>1. PeriodicInit => EventInv
    BY OrderInitially
  <1>2. PeriodicInv => LoopFacts
    BY FactsHold
  <1>3. PeriodicInv /\ LoopFacts /\ LoopFacts' /\ EventInv /\ [PeriodicTick]_periodicVars
          => EventInv'
    <2> SUFFICES ASSUME PeriodicInv, LoopFacts, LoopFacts', [PeriodicTick]_periodicVars,
                        Reading = "event", OrderInv
                 PROVE  OrderInv'
      OBVIOUS
    <2>1. CASE PeriodicTick
      <3>1. Started /\ GenExact /\ Retuned
        BY DEF OrderInv
      <3>2. Moves
        BY <2>1, <3>1, InMove, GenMove, LoopMove DEF Moves
      <3>3. CASE sub = 0
        BY <2>1, <3>1, <3>2, <3>3, GenAge, OrderKept
      <3>4. CASE sub # 0
        BY <2>1, <3>1, <3>2, <3>4, GenAge, OrderCorrected
      <3> QED
        BY <3>3, <3>4
    <2>2. CASE UNCHANGED periodicVars
      BY <2>2, OrderStutters
    <2> QED
      BY <2>1, <2>2
  <1> QED
    BY <1>1, <1>2, <1>3, PhasesCounted, PTL DEF PeriodicSpec

\* Read as wires the samples of a channel are equal: nothing is held.
LEMMA WiresHoldNothing ==
    ASSUME PeriodicInv, Reading # "event"
    PROVE  /\ ~InHolding /\ ~GenHolding /\ ~valid_sub
           /\ state \notin {"Step_St", "Chek_St"} /\ ~cnt_hold
  <1>1. Reading = "wire" /\ InBuffer /\ GenBuffer /\ OfferedOnce /\ FrozenOnCrossing
    BY LoopAssumption DEF PeriodicInv, IInv
  <1>2. ~InHolding /\ ~GenHolding
    BY <1>1 DEF InBuffer, GenBuffer, InHolding, GenHolding
  <1>3. ~Gen!pm
    BY <1>1 DEF PeriodicInv, IInv, SpecTypeOK, TypeOK, Gen!TypeOK, GenBuffer, Gen!pm, Gen!LIMIT
  <1> QED
    BY <1>1, <1>2, <1>3 DEF OfferedOnce, FrozenOnCrossing, cnt_hold

\* For all periods of the band: every difference is of two counts neither of
\* which was in a difference before.
THEOREM PairsBothFresh == PeriodicSpec => []BothFresh
  <1>1. PeriodicInv /\ (Reading = "event" => OrderInv) => BothFresh
    <2> SUFFICES ASSUME PeriodicInv, Reading = "event" => OrderInv, valid_sub
                 PROVE  fresh = {"in", "gen"}
      BY DEF BothFresh
    <2>1. inFresh /\ genFresh
      BY WiresHoldNothing DEF OrderInv, FreshHolds
    <2>2. fresh \subseteq {"in", "gen"}
      BY DEF PeriodicInv, IInv, SpecTypeOK
    <2> QED
      BY <2>1, <2>2 DEF inFresh, genFresh
  <1> QED
    BY <1>1, PhasesCounted, ChannelsOrdered, PTL

\* Read as wires the loop never gets as far as letting the generator go.
ReleasesEvents == state \in {"Hold_fst_St", "Hold_sec_St"} => Reading = "event"

LEMMA OnlyEventsRelease == PeriodicSpec => []ReleasesEvents
  <1>1. PeriodicInit => ReleasesEvents
    BY DEF PeriodicInit, SpecInit, Init, ReleasesEvents
  <1>2. PeriodicInv /\ ReleasesEvents /\ [PeriodicTick]_periodicVars => ReleasesEvents'
    <2> SUFFICES ASSUME PeriodicInv, ReleasesEvents, [PeriodicTick]_periodicVars,
                        Reading # "event"
                 PROVE  state' \notin {"Hold_fst_St", "Hold_sec_St"}
      BY DEF ReleasesEvents
    <2>1. state \notin {"Chek_St", "Hold_fst_St", "Hold_sec_St"}
      BY WiresHoldNothing DEF ReleasesEvents
    <2>2. CASE PeriodicTick
      BY <2>1, <2>2 DEF PeriodicTick, Edge, Move, Go, Arm, Approach, Freeze, Miss, Confirm,
                        Align, GiveUp, Release, Stay
    <2>3. CASE UNCHANGED periodicVars
      BY <2>1, <2>3 DEF periodicVars, allVars, vars, fllVars
    <2> QED
      BY <2>2, <2>3
  <1> QED
    BY <1>1, <1>2, PhasesCounted, PTL DEF PeriodicSpec

\* For all periods of the band: after its first move the generator is one clock
\* behind the input, never more and never on a stale count.
THEOREM ReleaseLag == PeriodicSpec => []ReleasedOneClockLate
  <1>1. /\ PeriodicInv /\ LoopFacts /\ ReleasesEvents
        /\ Reading = "event" => OrderInv
        => ReleasedOneClockLate
    <2> SUFFICES ASSUME LoopFacts, ReleasesEvents, Reading = "event" => OrderInv,
                        state = "Hold_sec_St"
                 PROVE  phaseIn = 2 /\ phaseGen = 1
      BY DEF ReleasedOneClockLate
    <2>1. ageIn = 2 /\ ageGen = 1
      BY DEF ReleasesEvents, OrderInv, Releasing
    <2> QED
      BY <2>1 DEF LoopFacts, ageIn, ageGen, Age
  <1>2. PeriodicInv => LoopFacts
    BY FactsHold
  <1> QED
    BY <1>1, <1>2, PhasesCounted, ChannelsOrdered, OnlyEventsRelease, PTL

-----------------------------------------------------------------------------
(* What is left of HoldEnds and HoldCompletes without fairness: a hold that *)
(* must be completed is not given up, and every clock of a hold brings its  *)
(* end nearer, which is at most three periods of the input away.            *)

\* A hold that was entered with equal periods, or got as far as Chek_St.
NotGivenUp ==
    state = "Chek_St" \/ (state = "Step_St" /\ perIn = perGen) => state' # "Wait_St"

\* For all periods of the band: such a hold has no way out but its completion.
THEOREM HoldNotGivenUp == PeriodicSpec => [][NotGivenUp]_periodicVars
  <1>1. PeriodicInv /\ (Reading = "event" => OrderInv) /\ [PeriodicTick]_periodicVars
          => [NotGivenUp]_periodicVars
    <2> SUFFICES ASSUME PeriodicInv, Reading = "event" => OrderInv, PeriodicTick,
                        state = "Chek_St" \/ (state = "Step_St" /\ perIn = perGen)
                 PROVE  state' # "Wait_St"
      BY DEF NotGivenUp
    <2>1. Reading = "event" /\ LoopFacts /\ OrderInv
      BY WiresHoldNothing, FactsHold
    <2>2. LoopMoves
      BY <2>1, LoopMove DEF OrderInv
    <2>3. ~Far
      BY <2>1 DEF OrderInv, Stepping, Checking, Far
    <2> QED
      BY <2>2, <2>3 DEF LoopMoves
  <1> QED
    BY <1>1, PhasesCounted, ChannelsOrdered, PTL DEF PeriodicSpec

(***************************************************************************)
(* The most clocks the hold can still last.  It ends two crossings of the  *)
(* input after the difference that confirms it; before that difference the *)
(* input ends the measurement it is in, and the frozen generator, of which *)
(* every clock is a crossing, one that it begins.                          *)
(***************************************************************************)
StepLeft ==
    CASE inState = "Wait_St" -> 2 * perIn
      [] inState = "Hold_fst_St" /\ valid_sub -> 2 * perIn + 1
      [] inState = "Hold_fst_St" /\ ~valid_sub /\ genState = "Count_St" -> 2 * perIn + 2
      [] inState = "Hold_fst_St" /\ ~valid_sub /\ genState = "Wait_St" -> 2 * perIn + 3
      [] inState = "Count_St" -> 3 * perIn + 4 - ageIn

HoldLeft ==
    CASE state = "Count_St" -> 3 * perIn + 4
      [] state = "Step_St" -> StepLeft
      [] state = "Chek_St" -> (IF inState = "Count_St" THEN perIn ELSE 2 * perIn) - ageIn

HoldShrinks == cnt_hold =>
    HoldLeft \in 0 .. 3 * perIn + 4 /\ (cnt_hold' => HoldLeft' < HoldLeft)

LEMMA HoldStep ==
    ASSUME Reading = "event", PeriodicInv, LoopFacts, LoopFacts', OrderInv, OrderInv',
           PeriodicTick
    PROVE  HoldShrinks
  <1> SUFFICES ASSUME cnt_hold
               PROVE  /\ HoldLeft \in 0 .. 3 * perIn + 4
                      /\ cnt_hold' => HoldLeft' < HoldLeft
    BY DEF HoldShrinks
  <1>1. /\ InMoves /\ GenMoves /\ LoopMoves
        /\ state \in {"Count_St", "Step_St", "Chek_St"}
        /\ cnt_hold' => state' \in {"Count_St", "Step_St", "Chek_St"}
    BY InMove, GenMove, LoopMove DEF OrderInv, cnt_hold
  <1>2. GenUndisturbed /\ ageGen = perGen
    BY GenAge, Holding DEF OrderInv, Retuned, SameCount, LoopFacts, Running
  <1> USE DEF LoopFacts, OfferedOnce, InMoves, GenMoves, LoopMoves, GenUndisturbed,
              InHolding, GenHolding, Near, Far, SameCount, Aligned, HoldLeft, StepLeft
  <1>3. CASE state = "Chek_St"
    <2>1. Checking /\ ~Far
      BY <1>3 DEF OrderInv, Checking
    <2> QED
      BY <1>1, <1>2, <1>3, <2>1 DEF Checking
  <1>4. CASE state = "Step_St"
    <2>1. Stepping /\ Stepping' /\ Checking'
      BY DEF OrderInv
    <2> QED
      BY <1>1, <1>2, <1>4, <2>1 DEF Stepping, Checking
  <1>5. CASE state = "Count_St"
    <2>1. Stepping'
      BY DEF OrderInv
    <2>2. state' = "Step_St"
      BY <1>1, <1>2, <1>5
    <2> QED
      BY <1>1, <1>2, <1>5, <2>1, <2>2 DEF Stepping
  <1> QED
    BY <1>1, <1>3, <1>4, <1>5

\* For all periods of the band: a held generator is let go again within the
\* clocks that HoldLeft counts.
THEOREM HoldBounded == PeriodicSpec => [][HoldShrinks]_periodicVars
  <1> DEFINE EventInv == Reading = "event" => OrderInv
  <1>1. PeriodicSpec => []EventInv
    BY ChannelsOrdered
  <1> HIDE DEF EventInv
  <1>2. PeriodicInv => LoopFacts
    BY FactsHold
  <1>3. PeriodicInv /\ LoopFacts /\ LoopFacts' /\ EventInv /\ EventInv' /\ PeriodicTick
          => HoldShrinks
    <2> SUFFICES ASSUME PeriodicInv, LoopFacts, LoopFacts', EventInv, EventInv', PeriodicTick
                 PROVE  HoldShrinks
      OBVIOUS
    <2>1. CASE Reading = "event"
      <3>1. OrderInv /\ OrderInv'
        BY <2>1 DEF EventInv
      <3> QED
        BY <2>1, <3>1, HoldStep
    <2>2. CASE Reading # "event"
      BY <2>2, WiresHoldNothing DEF HoldShrinks
    <2> QED
      BY <2>1, <2>2
  <1> QED
    BY <1>1, <1>2, <1>3, PhasesCounted, PTL DEF PeriodicSpec
=============================================================================
