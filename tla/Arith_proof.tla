---------------------------- MODULE Arith_proof ----------------------------
(***************************************************************************)
(* For every latency code of the units: one computation goes round the     *)
(* ring, the two multipliers stay in lockstep, no unit answers before its  *)
(* latency, none is started again while its answer is still read, and      *)
(* rounds take the same time.                                              *)
(***************************************************************************)
EXTENDS Arith_Spec, TLAPS

\* While reset_l is low the units are clear, and the three registers without
\* a reset are flushed one after the other: buff_new, buff_old, start.
Flushed ==
    /\ sync > 0 => /\ busy = [u \in Units |-> FALSE]
                   /\ counter = [u \in Units |-> 15]
    /\ sync \in {1, 2} => ~buff_new
    /\ sync = 1 => ~buff_old /\ ~start

\* Out of reset buff_reset_l reads 00, 01, 11 and stays there: the kick is
\* the clock between the last two.
Kicked ==
    sync = 0 => IF buff_old THEN buff_new /\ Token ELSE NoToken

IInv == TypeOK /\ Lockstep /\ Flushed /\ Kicked

\* A unit of the ring is done when its counter says so, whatever starts it.
LEMMA RingDone ==
    ASSUME NEW u \in {"mult_i", "mult_q", "div"}, NEW s \in BOOLEAN
    PROVE  FP!done(u, s) <=> counter[u] = 0 /\ busy[u]
  BY RingAssumption DEF Units, FP!done, FP!Immediate

\* The three dones that close the ring, in terms of where the token is.
LEMMA Dones ==
    ASSUME TypeOK, Lockstep
    PROVE  /\ start_div <=> InPair /\ counter["mult_i"] = 0
           /\ done_rel <=> InDiv /\ counter["div"] = 0
  <1>1. start_div <=> InPair /\ counter["mult_i"] = 0
    BY RingDone DEF TypeOK, Lockstep, start_div, done_mult_i, done_mult_q, InPair
  <1>2. done_rel <=> InDiv /\ counter["div"] = 0
    BY RingDone DEF done_rel, InDiv, start_div, done_mult_i, done_mult_q
  <1> QED BY <1>1, <1>2

\* Who is started in the ring.
LEMMA WhoStarts ==
    /\ "mult_i" \in Started <=> start
    /\ "mult_q" \in Started <=> start
    /\ "div" \in Started <=> start_div
  BY DEF Started, startOf, Units

\* A clock edge keeps the registers in range.
LEMMA EdgeTypes ==
    ASSUME TypeOK, NEW request \in BOOLEAN, Edge(request), Enable
    PROVE  TypeOK'
  <1>1. FP!UnitsTypeOK'
    <2>1. CASE FP!Cleared
      BY <2>1 DEF FP!Cleared, FP!UnitsTypeOK
    <2>2. CASE FP!UnitsEdge(Started, clk_en)
      <3>1. busy' \in [Units -> BOOLEAN]
        BY <2>2 DEF FP!UnitsEdge, TypeOK, FP!UnitsTypeOK
      <3>2. \A n \in 0 .. 7 : FP!load_data(n) \in 0 .. 15
        BY DEF FP!load_data
      <3>3. \A u \in Units : FP!Load(u) \in 0 .. 15
        BY <3>2, RingAssumption DEF FP!Load
      <3>4. counter' \in [Units -> 0 .. 15]
        BY <2>2, <3>3 DEF FP!UnitsEdge, TypeOK, FP!UnitsTypeOK
      <3> QED BY <3>1, <3>4 DEF FP!UnitsTypeOK
    <2> QED BY <2>1, <2>2 DEF Edge
  <1>2. buff_old' \in BOOLEAN /\ buff_new' \in BOOLEAN /\ start' \in BOOLEAN
    BY DEF TypeOK, Edge, StartEdge, reset_l
  <1>3. sync' \in 0 .. SyncDepth
    BY DEF TypeOK, Edge, SyncDepth
  <1>4. clk_en' \in BOOLEAN
    BY DEF TypeOK, Enable
  <1> QED BY <1>1, <1>2, <1>3, <1>4 DEF TypeOK

\* The multipliers are loaded together, counted together and stopped together.
LEMMA EdgeLockstep ==
    ASSUME TypeOK, Lockstep, NEW request \in BOOLEAN, Edge(request)
    PROVE  Lockstep'
  <1>1. CASE FP!Cleared
    BY <1>1 DEF FP!Cleared, Lockstep, Units
  <1>2. CASE FP!UnitsEdge(Started, clk_en)
    <2>1. FP!Load("mult_i") = FP!Load("mult_q")
      BY RingAssumption DEF FP!Load
    <2> QED BY <1>2, <2>1, WhoStarts DEF FP!UnitsEdge, Lockstep, Units
  <1> QED BY <1>1, <1>2 DEF Edge

\* A reset request, or reset_l still low: the units clear, the flush advances.
LEMMA EdgeFlushes ==
    ASSUME IInv, NEW request \in BOOLEAN, Edge(request), Enable
    PROVE  Flushed'
  <1>1. ASSUME sync' > 0
        PROVE  /\ busy' = [u \in Units |-> FALSE]
               /\ counter' = [u \in Units |-> 15]
    BY <1>1 DEF IInv, TypeOK, Edge, reset_l, FP!Cleared
  <1>2. ASSUME sync' \in {1, 2}
        PROVE  ~buff_new'
    BY <1>2 DEF IInv, TypeOK, Edge, SyncDepth, StartEdge, reset_l
  <1>3. ASSUME sync' = 1
        PROVE  ~buff_old' /\ ~start'
    <2>1. sync = 2
      BY <1>3 DEF IInv, TypeOK, Edge, SyncDepth
    <2>2. ~buff_new /\ ~InDiv
      BY <2>1 DEF IInv, Flushed, InDiv, Units
    <2>3. ~done_rel
      BY <2>2, Dones DEF IInv
    <2> QED BY <2>2, <2>3 DEF Edge, StartEdge
  <1> QED BY <1>1, <1>2, <1>3 DEF Flushed

\* In reset no unit is busy: the clock that lifts reset_l leaves no token.
LEMMA ReleaseClean ==
    ASSUME IInv, Edge(FALSE), Enable, sync = 1
    PROVE  NoToken' /\ ~buff_old'
  <1>1. ~buff_new /\ ~buff_old /\ ~InDiv
    BY DEF IInv, Flushed, InDiv, Units
  <1>2. ~done_rel
    BY <1>1, Dones DEF IInv
  <1>3. ~start' /\ ~buff_old'
    BY <1>1, <1>2 DEF Edge, StartEdge
  <1>4. ~InPair' /\ ~InDiv'
    BY DEF Edge, reset_l, FP!Cleared, InPair, InDiv, Units
  <1> QED BY <1>3, <1>4 DEF NoToken, AtStart

\* Where the units of the ring are after an edge out of reset.
LEMMA RingMoves ==
    ASSUME IInv, Edge(FALSE), sync = 0
    PROVE  /\ InPair' <=> start \/ (InPair /\ counter["mult_i"] # 0)
           /\ InDiv' <=> start_div \/ (InDiv /\ counter["div"] # 0)
           /\ start' <=> (~buff_old /\ buff_new) \/ done_rel
  BY WhoStarts DEF IInv, TypeOK, FP!UnitsTypeOK, Edge, reset_l, FP!UnitsEdge,
     StartEdge, InPair, InDiv, Units

\* The token moves on or stays, and before the kick there is none.
LEMMA EdgeKicks ==
    ASSUME IInv, NEW request \in BOOLEAN, Edge(request), Enable
    PROVE  Kicked'
  <1> SUFFICES ASSUME sync' = 0
               PROVE  (IF buff_old THEN buff_new /\ Token ELSE NoToken)'
    BY DEF Kicked
  <1>1. ~request /\ sync \in {0, 1}
    BY DEF IInv, TypeOK, Edge, SyncDepth
  <1>2. CASE sync = 1
    BY <1>1, <1>2, ReleaseClean
  <1>3. CASE sync = 0
    <2>1. buff_new' /\ (buff_old' <=> buff_new)
      BY <1>3 DEF Edge, StartEdge, reset_l, IInv, TypeOK
    <2>2. CASE buff_old
      <3>1. Token /\ buff_new
        BY <1>3, <2>2 DEF IInv, Kicked
      <3>2. Token'
        BY <1>1, <1>3, <2>2, <3>1, RingMoves, Dones
        DEF IInv, Token, AtStart
      <3> QED BY <2>1, <3>1, <3>2
    <2>3. CASE ~buff_old
      <3>1. NoToken
        BY <1>3, <2>3 DEF IInv, Kicked
      <3>2. ~InPair' /\ ~InDiv' /\ (start' <=> buff_new)
        BY <1>1, <1>3, <2>3, <3>1, RingMoves, Dones DEF IInv, NoToken, AtStart
      <3> QED BY <2>1, <3>2 DEF Token, NoToken, AtStart
    <2> QED BY <2>2, <2>3
  <1> QED BY <1>1, <1>2, <1>3

LEMMA InitIInv == Init => IInv
  <1> SUFFICES ASSUME Init
               PROVE  IInv
    OBVIOUS
  <1>1. TypeOK
    <2>1. FP!UnitsTypeOK
      BY DEF Init, FP!UnitsTypeOK
    <2>2. clk_en \in BOOLEAN
      BY DEF Init
    <2> QED BY <2>1, <2>2 DEF Init, TypeOK, SyncDepth
  <1>2. Lockstep
    BY DEF Init, Lockstep, Units
  <1>3. Flushed /\ Kicked
    BY DEF Init, Flushed, Kicked, SyncDepth
  <1> QED BY <1>1, <1>2, <1>3 DEF IInv

LEMMA NextIInv == IInv /\ [Next]_vars => IInv'
  <1> SUFFICES ASSUME IInv, [Next]_vars
               PROVE  IInv'
    OBVIOUS
  <1>1. ASSUME NEW request \in BOOLEAN, Edge(request), Enable
        PROVE  IInv'
    BY <1>1, EdgeTypes, EdgeLockstep, EdgeFlushes, EdgeKicks DEF IInv
  <1>2. CASE Tick
    BY <1>1, <1>2 DEF Tick
  <1>3. CASE ResetTick
    BY <1>1, <1>3 DEF ResetTick
  <1>4. CASE UNCHANGED vars
    BY <1>4 DEF vars, IInv, TypeOK, FP!UnitsTypeOK, Lockstep, Flushed, Kicked,
       Token, NoToken, AtStart, InPair, InDiv
  <1> QED BY <1>2, <1>3, <1>4 DEF Next

THEOREM Invariance == Spec => []IInv
  BY InitIInv, NextIInv, PTL DEF Spec

\* The 4-bit counters and the synchronizer stay in range.
THEOREM TypeCorrect == Spec => []TypeOK
  BY Invariance, PTL DEF IInv

\* The two dones whose AND starts the divider always come together.
THEOREM MultipliersInStep == Spec => []Lockstep
  BY Invariance, PTL DEF IInv

\* Whatever the unreset registers held and whenever resets came, exactly one
\* computation goes round the ring once it has been kicked.
THEOREM OneComputation == Spec => []OneToken
  <1>1. IInv => OneToken
    BY DEF IInv, TypeOK, Kicked, OneToken, reset_l
  <1> QED BY <1>1, Invariance, PTL

-----------------------------------------------------------------------------
(* What the handshake promises about each operation (Arith_Spec).           *)

\* Before the firmware's control write no counter moves.
Stopped == ~clk_en => \A u \in Units : counter[u] = 15

\* A unit that owes an answer is busy, and what its counter has still to count
\* makes up its latency with what it has been clocked; the conversion, which
\* answers in the clock it is started in, never owes one.
Answers ==
    /\ ran \in [Units -> 0 .. MaxRan] /\ owed \in [Units -> BOOLEAN]
    /\ ~owed["cnv_o"]
    /\ \A u \in Units : owed[u] => busy[u] /\ ran[u] + counter[u] >= FP!Load(u) + 1

\* While the scaling works on one quotient it will answer before the next one
\* is there, wherever in the ring the next computation is.
Ahead ==
    owed["mult"] =>
        /\ clk_en /\ reset_l /\ buff_old
        /\ start => counter["mult"] < FP!Load("mult_i") + FP!Load("div") + 2
        /\ InPair => counter["mult"] < counter["mult_i"] + FP!Load("div") + 1
        /\ InDiv => counter["mult"] < counter["div"]

LEMMA LoadRange == \A u \in Units : FP!Load(u) \in 1 .. 13
  <1>1. \A n \in 0 .. 7 : FP!load_data(n) \in 1 .. 13
    BY DEF FP!load_data
  <1> QED BY <1>1, RingAssumption DEF FP!Load

\* A unit of the ring is done when its counter says so.
LEMMA DoneByCounter ==
    ASSUME NEW u \in Units \ {"cnv_o"}
    PROVE  doneOf(u) <=> counter[u] = 0 /\ busy[u]
  BY RingAssumption DEF doneOf, FP!done, FP!Immediate

LEMMA ConversionAtOnce == startOf("cnv_o") => doneOf("cnv_o")
  BY RingAssumption DEF doneOf, FP!done, FP!Immediate, Units

\* What a clock does to one unit, in reset and out of it.
LEMMA UnitEdge ==
    ASSUME TypeOK, NEW request \in BOOLEAN, Edge(request), NEW u \in Units
    PROVE  /\ request \/ ~reset_l => ~busy'[u] /\ counter'[u] = 15
           /\ ~request /\ reset_l =>
                /\ busy'[u] <=> startOf(u) \/ (busy[u] /\ counter[u] # 0)
                /\ counter'[u] = IF ~clk_en THEN counter[u]
                                 ELSE IF startOf(u) THEN FP!Load(u)
                                 ELSE IF counter[u] = 0 THEN 15 ELSE counter[u] - 1
  <1>1. counter[u] \in 0 .. 15
    BY DEF TypeOK, FP!UnitsTypeOK
  <1>2. CASE request \/ ~reset_l
    BY <1>2 DEF Edge, FP!Cleared
  <1>3. CASE ~request /\ reset_l
    <2>1. (counter[u] + 15) % 16 = IF counter[u] = 0 THEN 15 ELSE counter[u] - 1
      BY <1>1
    <2>2. u \in Started <=> startOf(u)
      BY DEF Started
    <2>3. FP!UnitsEdge(Started, clk_en)
      BY <1>3 DEF Edge
    <2>4. busy'[u] <=> (u \in Started \/ (busy[u] /\ counter[u] # 0))
      BY <2>3 DEF FP!UnitsEdge
    <2>5. counter'[u] = IF ~clk_en THEN counter[u]
                        ELSE IF u \in Started THEN FP!Load(u)
                        ELSE (counter[u] + 15) % 16
      BY <2>3 DEF FP!UnitsEdge
    <2> QED BY <1>3, <2>1, <2>2, <2>4, <2>5
  <1> QED BY <1>2, <1>3

LEMMA StoppedStep ==
    ASSUME TypeOK, Stopped, NEW request \in BOOLEAN, Edge(request), Enable
    PROVE  Stopped'
  <1> SUFFICES ASSUME ~clk_en', NEW u \in Units PROVE counter'[u] = 15
    BY DEF Stopped
  <1>1. ~clk_en
    BY DEF Enable, TypeOK
  <1> QED BY <1>1, UnitEdge DEF Stopped

\* What a clock does to the history of one unit.
LEMMA HistoryOf ==
    ASSUME Answers, TypeOK, NEW request \in BOOLEAN, History(request), NEW u \in Units
    PROVE  /\ owed'[u] <=> ~request /\ reset_l /\ (owed[u] \/ startOf(u)) /\ ~doneOf(u)
           /\ LET before == IF startOf(u) THEN 0 ELSE ran[u]
              IN  ran'[u] = IF clk_en /\ before < MaxRan THEN before + 1 ELSE before
  BY DEF History, Answers

LEMMA AnswersStep ==
    ASSUME TypeOK, Stopped, Answers, NEW request \in BOOLEAN,
           Edge(request), History(request)
    PROVE  Answers'
  <1>1. ASSUME NEW u \in Units PROVE ran'[u] \in 0 .. MaxRan /\ owed'[u] \in BOOLEAN
    <2>1. ran[u] \in 0 .. MaxRan
      BY DEF Answers
    <2> QED BY <2>1 DEF History, MaxRan
  <1>2. ran' \in [Units -> 0 .. MaxRan] /\ owed' \in [Units -> BOOLEAN]
    BY <1>1 DEF History
  <1>3. ~owed'["cnv_o"]
    BY HistoryOf, ConversionAtOnce DEF Answers, Units
  <1>4. ASSUME NEW u \in Units, owed'[u]
        PROVE  busy'[u] /\ ran'[u] + counter'[u] >= FP!Load(u) + 1
    <2>1. ~request /\ reset_l /\ (owed[u] \/ startOf(u)) /\ ~doneOf(u)
      BY <1>4, HistoryOf
    <2>2. u # "cnv_o"
      BY <1>3, <1>4
    <2>3. counter[u] # 0 \/ ~busy[u]
      BY <2>1, <2>2, DoneByCounter
    <2>4. /\ counter[u] \in 0 .. 15 /\ ran[u] \in 0 .. 15 /\ FP!Load(u) \in 1 .. 13
          /\ clk_en \in BOOLEAN
      BY LoadRange DEF TypeOK, FP!UnitsTypeOK, Answers, MaxRan
    <2>5. LET before == IF startOf(u) THEN 0 ELSE ran[u]
          IN  ran'[u] = IF clk_en /\ before < 15 THEN before + 1 ELSE before
      BY HistoryOf DEF MaxRan
    <2>6. /\ busy'[u] <=> startOf(u) \/ (busy[u] /\ counter[u] # 0)
          /\ counter'[u] = IF ~clk_en THEN counter[u]
                           ELSE IF startOf(u) THEN FP!Load(u)
                           ELSE IF counter[u] = 0 THEN 15 ELSE counter[u] - 1
      BY <2>1, UnitEdge
    <2>7. CASE startOf(u)
      <3>1. ~clk_en => counter[u] = 15
        BY DEF Stopped
      <3> QED BY <2>4, <2>5, <2>6, <2>7, <3>1
    <2>8. CASE ~startOf(u)
      <3>1. busy[u] /\ counter[u] # 0 /\ ran[u] + counter[u] >= FP!Load(u) + 1
        BY <2>1, <2>3, <2>8 DEF Answers
      <3> QED BY <2>4, <2>5, <2>6, <2>8, <3>1
    <2> QED BY <2>7, <2>8
  <1> QED BY <1>2, <1>3, <1>4 DEF Answers

LEMMA AheadStep ==
    ASSUME ScalingKeepsUp, IInv, Stopped, Answers, Ahead, NEW request \in BOOLEAN,
           Edge(request), Enable, History(request), IInv'
    PROVE  Ahead'
  <1> SUFFICES ASSUME owed'["mult"] PROVE Ahead'
    BY DEF Ahead
  <1>1. ~request /\ reset_l /\ (owed["mult"] \/ done_rel) /\ ~doneOf("mult")
    BY HistoryOf DEF IInv, startOf, Units
  <1>2. sync = 0
    BY <1>1 DEF reset_l
  <1>3. /\ done_rel <=> InDiv /\ counter["div"] = 0
        /\ start_div <=> InPair /\ counter["mult_i"] = 0
    BY Dones DEF IInv
  <1>4. done_rel => clk_en /\ buff_old
    <2>1. ASSUME done_rel PROVE clk_en
      BY <1>3, <2>1 DEF Stopped, Units
    <2>2. ASSUME done_rel PROVE buff_old
      BY <1>2, <1>3, <2>2 DEF IInv, Kicked, NoToken
    <2> QED BY <2>1, <2>2
  <1>5. clk_en /\ buff_old
    BY <1>1, <1>4 DEF Ahead
  <1>6. buff_new /\ Token
    BY <1>2, <1>5 DEF IInv, Kicked
  <1>7. clk_en' /\ reset_l' /\ buff_old'
    BY <1>1, <1>2, <1>5, <1>6 DEF IInv, TypeOK, Enable, Edge, reset_l, StartEdge
  <1>8. Token'
    BY <1>7 DEF IInv, Kicked, reset_l
  <1>9. /\ InPair' <=> start \/ (InPair /\ counter["mult_i"] # 0)
        /\ InDiv' <=> start_div \/ (InDiv /\ counter["div"] # 0)
        /\ start' <=> done_rel
    BY <1>1, <1>2, <1>5, RingMoves
  <1>10. \A u \in Units : /\ counter[u] \in 0 .. 15 /\ FP!Load(u) \in 1 .. 13
                          /\ counter'[u] = IF startOf(u) THEN FP!Load(u)
                                           ELSE IF counter[u] = 0 THEN 15
                                           ELSE counter[u] - 1
    BY <1>1, <1>5, UnitEdge, LoadRange DEF IInv, TypeOK, FP!UnitsTypeOK
  <1>11. /\ startOf("mult_i") <=> start
         /\ startOf("div") <=> start_div
         /\ startOf("mult") <=> done_rel
    BY DEF startOf
  <1>12. {"mult_i", "div", "mult"} \subseteq Units
    BY DEF Units
  <1>13. CASE done_rel
    <2>1. start' /\ ~InPair' /\ ~InDiv'
      BY <1>8, <1>9, <1>13 DEF Token, AtStart
    <2>2. counter'["mult"] = FP!Load("mult")
      BY <1>10, <1>11, <1>12, <1>13
    <2> QED BY <1>7, <1>10, <1>12, <2>1, <2>2 DEF Ahead, ScalingKeepsUp
  <1>14. CASE ~done_rel
    <2>1. owed["mult"] /\ counter["mult"] # 0
      BY <1>1, <1>14, DoneByCounter, <1>12 DEF Answers
    <2>2. /\ start => counter["mult"] < FP!Load("mult_i") + FP!Load("div") + 2
          /\ InPair => counter["mult"] < counter["mult_i"] + FP!Load("div") + 1
          /\ InDiv => counter["mult"] < counter["div"]
      BY <2>1 DEF Ahead
    <2>3. ~start' /\ counter'["mult"] = counter["mult"] - 1
      BY <1>9, <1>10, <1>11, <1>12, <1>14, <2>1
    <2>4. InPair' => counter'["mult"] < counter'["mult_i"] + FP!Load("div") + 1
      <3>1. CASE start
        BY <3>1, <1>10, <1>11, <1>12, <2>2, <2>3
      <3>2. CASE ~start
        BY <3>2, <1>9, <1>10, <1>11, <1>12, <2>2, <2>3
      <3> QED BY <3>1, <3>2
    <2>5. InDiv' => counter'["mult"] < counter'["div"]
      <3>1. CASE start_div
        BY <3>1, <1>3, <1>10, <1>11, <1>12, <2>2, <2>3
      <3>2. CASE ~start_div
        BY <3>2, <1>9, <1>10, <1>11, <1>12, <2>2, <2>3
      <3> QED BY <3>1, <3>2
    <2> QED BY <1>7, <2>3, <2>4, <2>5 DEF Ahead
  <1> QED BY <1>13, <1>14

\* The invariant of the ring with its history.
HInv == IInv /\ Stopped /\ Answers

LEMMA InitHInv == SpecInit => HInv /\ Ahead
  <1> SUFFICES ASSUME SpecInit PROVE HInv /\ Ahead
    OBVIOUS
  <1>1. IInv
    BY InitIInv DEF SpecInit
  <1>2. Stopped
    BY DEF SpecInit, Init, Stopped
  <1>3. Answers /\ Ahead
    BY DEF SpecInit, Answers, Ahead, MaxRan, Units
  <1> QED BY <1>1, <1>2, <1>3 DEF HInv

LEMMA NextHInv ==
    ASSUME HInv, [SpecNext]_allVars
    PROVE  HInv' /\ (ScalingKeepsUp /\ Ahead => Ahead')
  <1>1. IInv'
    BY NextIInv DEF HInv, SpecNext, TickH, ResetTickH, Next, allVars
  <1>2. ASSUME NEW request \in BOOLEAN, Edge(request), Enable, History(request)
        PROVE  HInv' /\ (ScalingKeepsUp /\ Ahead => Ahead')
    <2>1. Stopped' /\ Answers'
      BY <1>2, StoppedStep, AnswersStep DEF HInv, IInv
    <2>2. ScalingKeepsUp /\ Ahead => Ahead'
      BY <1>1, <1>2, AheadStep DEF HInv
    <2> QED BY <1>1, <2>1, <2>2 DEF HInv
  <1>3. CASE TickH
    BY <1>2, <1>3 DEF TickH, Tick
  <1>4. CASE ResetTickH
    BY <1>2, <1>4 DEF ResetTickH, ResetTick
  <1>5. CASE UNCHANGED allVars
    <2>1. UNCHANGED <<busy, counter, start, buff_old, sync, clk_en, ran, owed>>
      BY <1>5 DEF allVars, vars
    <2>2. Stopped' /\ Answers' /\ (Ahead => Ahead')
      BY <2>1 DEF HInv, Stopped, Answers, Ahead, reset_l, InPair, InDiv
    <2> QED BY <1>1, <2>2 DEF HInv
  <1> QED BY <1>3, <1>4, <1>5 DEF SpecNext

THEOREM HistoryInvariance == HSpec => []HInv
  <1>1. HInv /\ [SpecNext]_allVars => HInv'
    BY NextHInv
  <1>2. SpecInit => HInv
    BY InitHInv
  <1> QED BY <1>1, <1>2, PTL DEF HSpec

\* No unit answers before it has been clocked for its whole latency, whatever
\* the operations of the units and whenever the firmware sets clk_en
\* (fpoint2_multi.vhd:74-98).
THEOREM LatencyKept == HSpec => []NeverEarly
  <1>1. HInv => NeverEarly
    <2> SUFFICES ASSUME HInv, NEW u \in Units, counter[u] = 0, busy[u], owed[u]
                 PROVE  ran[u] >= FP!Load(u) + 1
      BY DEF NeverEarly
    <2>1. ran[u] + 0 >= FP!Load(u) + 1 /\ ran[u] \in Nat
      BY DEF HInv, Answers, MaxRan
    <2> QED BY <2>1
  <1> QED BY <1>1, HistoryInvariance, PTL

\* No unit is started again before it has answered, for all latencies under
\* which the scaling keeps up with the ring (Arith.sv:82-107).
THEOREM NeverOverrun == ASSUME ScalingKeepsUp PROVE HSpec => []NoOverrun
  <1>1. SpecInit => Ahead
    BY InitHInv
  <1>2. HInv /\ Ahead /\ [SpecNext]_allVars => Ahead'
    BY NextHInv
  <1>3. HInv /\ Ahead => NoOverrun
    <2> SUFFICES ASSUME HInv, Ahead, reset_l, NEW u \in Units, startOf(u), owed[u]
                 PROVE  FALSE
      BY DEF NoOverrun
    <2>1. busy[u] /\ u # "cnv_o" /\ busy["mult_i"] = busy["mult_q"]
      BY DEF HInv, Answers, IInv, Lockstep
    <2>2. IF buff_old THEN buff_new /\ Token ELSE NoToken
      BY DEF HInv, IInv, Kicked, reset_l
    <2>3. /\ start_div <=> InPair /\ counter["mult_i"] = 0
          /\ done_rel <=> InDiv /\ counter["div"] = 0
      BY Dones DEF HInv, IInv
    <2>4. CASE u \in {"mult_i", "mult_q"}
      <3>1. start /\ InPair
        BY <2>1, <2>4 DEF startOf, InPair
      <3> QED BY <2>2, <3>1 DEF Token, NoToken, AtStart
    <2>5. CASE u = "div"
      <3>1. InPair /\ InDiv
        BY <2>1, <2>3, <2>5 DEF startOf, InDiv
      <3> QED BY <2>2, <3>1 DEF Token, NoToken, AtStart
    <2>6. CASE u = "mult"
      <3>1. InDiv /\ counter["div"] = 0
        BY <2>3, <2>6 DEF startOf
      <3>2. counter["mult"] < 0 /\ counter["mult"] \in 0 .. 15
        BY <2>6, <3>1 DEF Ahead, HInv, IInv, TypeOK, FP!UnitsTypeOK
      <3> QED BY <3>2
    <2> QED BY <2>1, <2>4, <2>5, <2>6 DEF Units
  <1> QED BY <1>1, <1>2, <1>3, HistoryInvariance, PTL DEF HSpec

-----------------------------------------------------------------------------
(* How long a round takes.                                                  *)

\* The clocks between two quotients: the latencies of the multipliers and the
\* divider, a clock for each of them to load its counter, and one for start.
Round == FP!Load("mult_i") + FP!Load("div") + 3

\* The enabled clocks until the divider is done.
RoundLeft ==
    CASE AtStart -> Round - 1
      [] InPair  -> counter["mult_i"] + FP!Load("div") + 1
      [] InDiv   -> counter["div"]

RoundKept ==
    reset_l /\ reset_l' /\ buff_old /\ clk_en =>
        /\ done_rel <=> RoundLeft = 0
        /\ RoundLeft \in Nat
        /\ RoundLeft' = IF RoundLeft = 0 THEN Round - 1 ELSE RoundLeft - 1

LEMMA RoundStep ==
    ASSUME IInv, Edge(FALSE), reset_l, buff_old, clk_en
    PROVE  /\ done_rel <=> RoundLeft = 0
           /\ RoundLeft \in Nat
           /\ RoundLeft' = IF RoundLeft = 0 THEN Round - 1 ELSE RoundLeft - 1
  <1>1. /\ FP!Load("mult_i") \in Nat /\ FP!Load("div") \in Nat
        /\ counter["mult_i"] \in Nat /\ counter["div"] \in Nat
        /\ AtStart \in BOOLEAN /\ InPair \in BOOLEAN /\ InDiv \in BOOLEAN
    BY LoadRange DEF IInv, TypeOK, FP!UnitsTypeOK, Units, AtStart, InPair, InDiv
  <1>2. IF AtStart THEN ~InPair /\ ~InDiv ELSE (InPair <=> ~InDiv)
    BY DEF IInv, Kicked, Token, reset_l
  <1>3. /\ start_div <=> InPair /\ counter["mult_i"] = 0
        /\ done_rel <=> InDiv /\ counter["div"] = 0
    BY Dones DEF IInv
  <1>4. /\ InPair' <=> AtStart \/ (InPair /\ counter["mult_i"] # 0)
        /\ InDiv' <=> start_div \/ (InDiv /\ counter["div"] # 0)
        /\ AtStart' <=> done_rel
    BY RingMoves DEF IInv, reset_l, AtStart
  <1>5. /\ counter'["mult_i"] = IF AtStart THEN FP!Load("mult_i")
                                ELSE IF counter["mult_i"] = 0 THEN 15
                                ELSE counter["mult_i"] - 1
        /\ counter'["div"] = IF start_div THEN FP!Load("div")
                             ELSE IF counter["div"] = 0 THEN 15 ELSE counter["div"] - 1
    BY UnitEdge DEF IInv, Units, startOf, AtStart
  <1>6. FP!Load("mult_i")' = FP!Load("mult_i") /\ FP!Load("div")' = FP!Load("div")
    BY DEF FP!Load
  <1> QED
    BY <1>1, <1>2, <1>3, <1>4, <1>5, <1>6 DEF RoundLeft, Round

\* For all latencies: while the ring is enabled and not reset, its quotients
\* come exactly a round apart (Arith.sv:49-91).
THEOREM RoundsExact == Spec => [][RoundKept]_vars
  <1>1. IInv /\ Next => RoundKept
    <2> SUFFICES ASSUME IInv, Next
                 PROVE  RoundKept
      OBVIOUS
    <2>1. reset_l' => Edge(FALSE)
      BY DEF Next, Tick, ResetTick, Edge, reset_l, SyncDepth
    <2> QED
      BY <2>1, RoundStep DEF RoundKept
  <1> QED
    BY <1>1, Invariance, PTL DEF Spec
=============================================================================
