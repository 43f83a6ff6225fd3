--------------------------- MODULE ENUM_CNT_proof ---------------------------
(***************************************************************************)
(* For every width of the register, every set of samples and both readings *)
(* of the sample buffer: the period counter implements PeriodMeter.        *)
(***************************************************************************)
EXTENDS ENUM_CNT_Spec, TLAPS

\* Arithmetic modulo the register's range stays in the register.
LEMMA ModRange == \A n \in Nat : n % M \in 0 .. M - 1
  BY CounterAssumption

\* A waiting counter stands at 0: this is what makes the clock that opens a
\* measurement count as its first.
WaitsAtZero == state = "Wait_St" => count = 0

\* The inductive invariant of the measurement.
IInv == SpecTypeOK /\ CountFollowsSignal /\ WaitsAtZero

\* What a clock edge does to the counter's own registers.
LEMMA ClockTypes ==
    ASSUME TypeOK, Clock(rst)
    PROVE  state' \in States /\ count' \in 0 .. M - 1
  <1>1. state' \in States
    BY DEF TypeOK, States, Clock, Move, Go, Arm, Abort, Open, Close, Taken,
           Outlast, Expire, Stay
  <1>2. count' \in 0 .. M - 1
    BY ModRange, CounterAssumption DEF TypeOK, Clock, NextCount
  <1> QED BY <1>1, <1>2

\* A sample keeps the two halves of the buffer integers.
LEMMA SampleTypes ==
    ASSUME TypeOK, NEW x \in Samples, Sample(x, reading)
    PROVE  fst' \in Int /\ sec' \in Int
  BY SamplesAssumption DEF TypeOK, Sample

\* So does the distance to the last crossing.
LEMMA ElapseTypes ==
    ASSUME SpecTypeOK, Elapse
    PROVE  since' \in 0 .. M - 1
  BY ModRange, CounterAssumption DEF SpecTypeOK, Elapse

\* The clock that enters Wait_St, or stays there, clears the count.
LEMMA WaitClears ==
    ASSUME SpecTypeOK, WaitsAtZero, Clock(rst), state' = "Wait_St"
    PROVE  count' = 0
  <1>1. ~valid(rst)
    BY DEF valid, Clock, Move, Go, Arm, Abort, Open, Close, Taken, Outlast,
           Expire, Stay
  <1>2. ~cnt(rst)
    BY DEF cnt, Clock, Move, Go, Arm, Abort, Open, Close, Taken, Outlast,
           Expire, Stay
  <1> QED BY <1>1, <1>2 DEF Clock, NextCount

\* A clock that ends in Count_St adds one to the count and to the distance.
LEMMA CountSteps ==
    ASSUME IInv, Clock(rst), Elapse, state' = "Count_St"
    PROVE  count' = since'
  <1>1. cnt(rst) /\ ~valid(rst)
    BY DEF cnt, valid, Clock, Move, Go, Arm, Abort, Open, Close, Taken,
           Outlast, Expire, Stay
  <1>2. count' = (count + 1) % M
    BY <1>1 DEF Clock, NextCount
  <1>3. (state = "Wait_St" /\ pm) \/ (state = "Count_St" /\ ~pm)
    BY DEF Clock, Move, Go, Arm, Abort, Open, Close, Taken, Outlast, Expire,
           Stay
  <1>4. CASE state = "Wait_St" /\ pm
    BY <1>2, <1>4 DEF IInv, WaitsAtZero, Elapse
  <1>5. CASE state = "Count_St" /\ ~pm
    BY <1>2, <1>5 DEF IInv, CountFollowsSignal, Elapse
  <1> QED BY <1>3, <1>4, <1>5

LEMMA InitIInv == SpecInit => IInv
  <1> SUFFICES ASSUME SpecInit
               PROVE  IInv
    OBVIOUS
  <1>1. TypeOK
    BY CounterAssumption DEF SpecInit, Init, TypeOK, States
  <1>2. rst \in BOOLEAN
    BY DEF SpecInit
  <1>3. /\ ph_cnt \in 0 .. 3 /\ since \in 0 .. M - 1
        /\ reading \in {"event", "wire"}
    BY CounterAssumption DEF SpecInit
  <1>4. CountFollowsSignal /\ WaitsAtZero
    BY DEF SpecInit, Init, CountFollowsSignal, WaitsAtZero
  <1> QED BY <1>1, <1>2, <1>3, <1>4 DEF IInv, SpecTypeOK

LEMMA NextIInv == IInv /\ [Next]_vars => IInv'
  <1> SUFFICES ASSUME IInv, [Next]_vars
               PROVE  IInv'
    OBVIOUS
  <1>1. CASE Tick
    <2>1. TypeOK'
      BY <1>1, ClockTypes, SampleTypes DEF IInv, SpecTypeOK, Tick, TypeOK
    <2>2. rst' \in BOOLEAN
      BY <1>1 DEF Tick, valid
    <2>3. ph_cnt' \in 0 .. 3
      BY <1>1 DEF Tick, IInv, SpecTypeOK
    <2>4. since' \in 0 .. M - 1
      BY <1>1, ElapseTypes DEF Tick, IInv
    <2>5. CountFollowsSignal'
      BY <1>1, CountSteps DEF Tick, CountFollowsSignal
    <2>6. WaitsAtZero'
      BY <1>1, WaitClears DEF Tick, IInv, WaitsAtZero
    <2>7. reading' \in {"event", "wire"}
      BY <1>1 DEF Tick, IInv, SpecTypeOK
    <2> QED BY <2>1, <2>2, <2>3, <2>4, <2>5, <2>6, <2>7 DEF IInv, SpecTypeOK
  <1>2. CASE ResetTick
    <2>1. TypeOK'
      BY <1>2, SampleTypes, CounterAssumption
      DEF IInv, SpecTypeOK, ResetTick, Reset, TypeOK, States
    <2>2. since' \in 0 .. M - 1
      BY <1>2, ElapseTypes DEF ResetTick, IInv
    <2>3. rst' \in BOOLEAN
      BY <1>2 DEF ResetTick
    <2>4. ph_cnt' \in 0 .. 3
      BY <1>2 DEF ResetTick
    <2>5. CountFollowsSignal' /\ WaitsAtZero'
      BY <1>2 DEF ResetTick, Reset, CountFollowsSignal, WaitsAtZero
    <2>6. reading' \in {"event", "wire"}
      BY <1>2 DEF ResetTick, IInv, SpecTypeOK
    <2> QED BY <2>1, <2>2, <2>3, <2>4, <2>5, <2>6 DEF IInv, SpecTypeOK
  <1>3. CASE UNCHANGED vars
    BY <1>3 DEF vars, IInv, SpecTypeOK, TypeOK, CountFollowsSignal, WaitsAtZero
  <1> QED BY <1>1, <1>2, <1>3 DEF Next

THEOREM Invariance == Spec => []IInv
  BY InitIInv, NextIInv, PTL DEF Spec

\* The counter, the phase and the buffer stay in range for every signal.
THEOREM TypeCorrect == Spec => []SpecTypeOK
  BY Invariance, PTL DEF IInv

\* A measurement in progress agrees with the clocks that passed since the
\* crossing that opened it.
THEOREM CountCorrect == Spec => []CountFollowsSignal
  BY Invariance, PTL DEF IInv

-----------------------------------------------------------------------------
(* The refinement: each step of the machine, read through Meter's           *)
(* substitution, makes, keeps or withdraws an offer.                        *)

LEMMA InitMeter == SpecInit => Meter!MeterInit
  BY DEF SpecInit, Init, Meter!MeterInit, pm, LIMIT, Holding

LEMMA ElapseMeter ==
    ASSUME Elapse
    PROVE  Meter!Elapse
  BY DEF Elapse, Meter!Elapse, pm

\* The clock of the closing crossing freezes the count it measured.
LEMMA CloseMakesOffer ==
    ASSUME IInv, Close, count' = NextCount(rst), Elapse
    PROVE  Meter!MakeOffer
  <1>1. valid(rst) /\ count' = count
    BY DEF Close, Go, valid, NextCount
  <1>2. state = "Count_St" /\ state' = "Hold_fst_St" /\ pm
    BY DEF Close, Go
  <1>3. ~Holding /\ Holding'
    BY <1>2 DEF Holding
  <1>4. count = since
    BY <1>2 DEF IInv, CountFollowsSignal
  <1> QED BY <1>1, <1>2, <1>3, <1>4, ElapseMeter DEF Meter!MakeOffer

\* A hold that goes on does not disturb the count.
LEMMA HoldKeepsOffer ==
    ASSUME Clock(rst), Holding, Holding', Elapse
    PROVE  Meter!KeepOffer
  <1>1. valid(rst)
    BY DEF Clock, Move, Go, Arm, Abort, Open, Close, Taken, Outlast, Expire,
           Stay, Holding, valid
  <1>2. count' = count
    BY <1>1 DEF Clock, NextCount
  <1> QED BY <1>2, ElapseMeter DEF Meter!KeepOffer

\* A hold is only entered by closing a measurement.
LEMMA OnlyCloseEntersHold ==
    ASSUME Clock(rst), ~Holding, Holding'
    PROVE  Close
  BY DEF Clock, Move, Go, Arm, Abort, Open, Close, Taken, Outlast, Expire,
         Stay, Holding

LEMMA NextMeter == IInv /\ [Next]_vars => [Meter!MeterNext]_(Meter!meterVars)
  <1> SUFFICES ASSUME IInv, [Next]_vars
               PROVE  [Meter!MeterNext]_(Meter!meterVars)
    OBVIOUS
  <1>1. CASE Tick
    <2>1. Clock(rst) /\ Elapse
      BY <1>1 DEF Tick
    <2>2. CASE ~Holding'
      BY <2>1, <2>2, ElapseMeter DEF Meter!Withdraw, Meter!MeterNext
    <2>3. CASE Holding /\ Holding'
      BY <2>1, <2>3, HoldKeepsOffer DEF Meter!MeterNext
    <2>4. CASE ~Holding /\ Holding'
      BY <2>1, <2>4, OnlyCloseEntersHold, CloseMakesOffer
      DEF Clock, Meter!MeterNext
    <2> QED BY <2>2, <2>3, <2>4
  <1>2. CASE ResetTick
    <2>1. ~Holding'
      BY <1>2 DEF ResetTick, Reset, Holding
    <2> QED BY <1>2, <2>1, ElapseMeter
            DEF ResetTick, Meter!Withdraw, Meter!MeterNext
  <1>3. CASE UNCHANGED vars
    BY <1>3 DEF vars, Meter!meterVars, pm, Holding
  <1> QED BY <1>1, <1>2, <1>3 DEF Next

\* The machine offers nothing but distances of consecutive crossings, and an
\* offer is never changed, whatever the signal, the reader and the reset do.
THEOREM Refinement == Spec => ImplementsPeriodMeter
  <1>1. Spec => []IInv
    BY Invariance
  <1>2. SpecInit => Meter!MeterInit
    BY InitMeter
  <1>3. IInv /\ [Next]_vars => [Meter!MeterNext]_(Meter!meterVars)
    BY NextMeter
  <1> QED BY <1>1, <1>2, <1>3, PTL DEF Spec, Meter!MeterSpec,
             ImplementsPeriodMeter

-----------------------------------------------------------------------------
(* The sample buffer: what its two readings make of the state machine.      *)

Measuring == state \in {"Count_St", "Hold_fst_St", "Hold_sec_St"}

\* Read as events, a machine that measures has two different samples; read as
\* wires it never has, and never sees a crossing.
BufferInv ==
    /\ TypeOK
    /\ reading \in {"event", "wire"}
    /\ reading = "event" => (Measuring => fst # sec)
    /\ reading = "wire" => fst = sec /\ ~Measuring

\* Only a crossing starts a measurement.
LEMMA MeasureFromCrossing ==
    ASSUME TypeOK, Clock(rst), Measuring', ~Measuring
    PROVE  fst # sec
  <1>1. pm
    BY DEF Clock, Move, Go, Arm, Abort, Open, Close, Taken, Outlast, Expire,
           Stay, Measuring
  <1> QED BY <1>1 DEF TypeOK, pm, LIMIT

LEMMA NextBufferInv == BufferInv /\ [Next]_vars => BufferInv'
  <1> SUFFICES ASSUME BufferInv, [Next]_vars
               PROVE  BufferInv'
    OBVIOUS
  <1>1. CASE Tick
    <2>1. TypeOK'
      BY <1>1, ClockTypes, SampleTypes DEF BufferInv, Tick, TypeOK
    <2>2. PICK x \in Samples : Sample(x, reading)
      BY <1>1 DEF Tick
    <2>r. reading' = reading
      BY <1>1 DEF Tick
    <2>3. ASSUME reading = "event", Measuring'
          PROVE  fst' # sec'
      <3>1. fst # sec
        BY <1>1, <2>3, MeasureFromCrossing DEF BufferInv, Tick
      <3> QED BY <2>2, <2>3, <3>1 DEF Sample
    <2>4. ASSUME reading = "wire"
          PROVE  fst' = sec' /\ ~Measuring'
      <3>1. fst = sec /\ state \in {"Reset_St", "Wait_St"} /\ ~pm
        BY <2>4 DEF BufferInv, TypeOK, States, Measuring, pm, LIMIT
      <3>2. ~Measuring'
        BY <1>1, <3>1 DEF Tick, Measuring, Clock, Move, Go, Arm, Abort,
           Open, Close, Taken, Outlast, Expire, Stay
      <3> QED BY <2>2, <2>4, <3>2 DEF Sample
    <2> QED BY <2>1, <2>r, <2>3, <2>4 DEF BufferInv
  <1>2. CASE ResetTick
    <2>1. TypeOK'
      BY <1>2, SampleTypes, CounterAssumption
      DEF BufferInv, ResetTick, Reset, TypeOK, States
    <2>2. reading' = reading /\ (reading = "wire" => fst' = sec')
      BY <1>2 DEF ResetTick, Sample
    <2> QED BY <1>2, <2>1, <2>2 DEF ResetTick, Reset, BufferInv, Measuring
  <1>3. CASE UNCHANGED vars
    BY <1>3 DEF vars, BufferInv, TypeOK, Measuring
  <1> QED BY <1>1, <1>2, <1>3 DEF Next

LEMMA InitBufferInv == SpecInit => BufferInv
  BY CounterAssumption DEF SpecInit, Init, BufferInv, TypeOK, States,
     Measuring

THEOREM BufferInvariance == Spec => []BufferInv
  BY InitBufferInv, NextBufferInv, PTL DEF Spec

\* An idle signal never aborts a measurement, whatever the reading.
THEOREM NoAbort == Spec => []NulNeverAborts
  <1>1. BufferInv => NulNeverAborts
    BY DEF BufferInv, NulNeverAborts, Measuring, nul
  <1> QED BY <1>1, BufferInvariance, PTL

\* The buffer read as wires never measures, at any width and for any signal.
THEOREM WiresNeverMeasure == Spec => []NeverMeasures
  <1>1. BufferInv => NeverMeasures
    BY DEF BufferInv, NeverMeasures, Measuring, TypeOK, States
  <1> QED BY <1>1, BufferInvariance, PTL
=============================================================================
