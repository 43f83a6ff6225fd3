--------------------------- MODULE Interrupts_proof ---------------------------
(* For any number of interrupts and any registrations: who interrupts whom,   *)
(* how deep, what is called, that every mask is undone and that lines that    *)
(* stay are found, provided that routines leave alone what is enabled while a *)
(* mask is in force (Inside).                                                 *)
EXTENDS Interrupts_Spec, SequenceTheorems, FunctionTheorems, FiniteSetTheorems, TLAPS

\* The mask in force above the lowest k frames.
MaskOver(k) == IF k = 0 THEN Irq ELSE Above(frames[k].irq)

\* The frames below the one that runs, and the mask it runs under.
Under == IF frames # <<>> /\ Top.at # "open" THEN Len(frames) - 1 ELSE Len(frames)

\* Only routines that have opened are interrupted, each by an interrupt its
\* mask lets through, and each remembers the mask before.
Stacked ==
    \A i \in 1 .. Len(frames) :
        /\ i < Len(frames) => frames[i].at = "open"
        /\ frames[i].at \in {"isr", "open"} => frames[i].irq \in MaskOver(i - 1)
        /\ frames[i].at = "open" => frames[i].old = MaskOver(i - 1)
        /\ frames[i].at = "search" => frames[i].active \subseteq MaskOver(i - 1) \cap alt_irq_active

\* The mask is the one of the frames, and ienable what it lets through.
Masked ==
    /\ alt_priority_mask = MaskOver(Under)
    /\ ienable = alt_irq_active \cap alt_priority_mask

\* The program is not interrupted within a call, and the exception code only
\* where it has opened.
Alone ==
    /\ call # NoCall => frames = <<>> /\ ~pie
    /\ frames # <<>> /\ pie => Top.at = "open"

\* A registration in progress is the only entry that may be torn, and it is
\* finished before the interrupt can come; what is enabled has a handler.
Consistent ==
    /\ call.step = "context" => alt_irq[call.id].handler = call.new.handler
    /\ call.step = "context" => call.new \in Registered \cup {NoCall.new}
    /\ call.step = "context" => (call.on <=> call.new.handler # Null)
    /\ \A i \in Irq :
           ~(call.step = "context" /\ call.id = i) => alt_irq[i] \in Registered \cup {NoCall.new}
    /\ \A i \in alt_irq_active :
           ~(call.step \in {"context", "store"} /\ call.id = i) => alt_irq[i] \in Registered
    /\ call.step = "store" => call.loaded = alt_irq_active
    /\ call.step = "store" /\ call.on => alt_irq[call.id] \in Registered
    /\ call.step \in {"context", "store"} => call.id \in Irq

IInv == Types /\ Stacked /\ Masked /\ Alone /\ Consistent /\ OnlyHigher /\ PairsIntact

-----------------------------------------------------------------------------
(* Stacks.                                                                  *)

\* Changing the frame that runs.
LEMMA Changed ==
    ASSUME frames \in Seq(Frames), frames # <<>>, NEW f \in Frames, frames' = WithTop(f)
    PROVE  /\ frames' \in Seq(Frames) /\ Len(frames') = Len(frames) /\ frames' # <<>>
           /\ frames'[Len(frames)] = f
           /\ \A i \in 1 .. Len(frames) - 1 : frames'[i] = frames[i]
<1>1. Len(frames) \in Nat \ {0} /\ Len(frames) \in 1 .. Len(frames)
  OBVIOUS
<1>2. frames' \in Seq(Frames) /\ Len(frames') = Len(frames)
  BY <1>1, ExceptSeq DEF WithTop
<1>3. \A i \in 1 .. Len(frames) : frames'[i] = IF i = Len(frames) THEN f ELSE frames[i]
  BY <1>1 DEF WithTop
<1> QED
  BY <1>1, <1>2, <1>3

\* An interrupt puts a frame on top.
LEMMA Pushed ==
    ASSUME frames \in Seq(Frames), NEW f \in Frames, frames' = Append(frames, f)
    PROVE  /\ frames' \in Seq(Frames) /\ Len(frames') = Len(frames) + 1 /\ frames' # <<>>
           /\ frames'[Len(frames) + 1] = f
           /\ \A i \in 1 .. Len(frames) : frames'[i] = frames[i]
  OBVIOUS

\* Leaving takes the top frame off.
LEMMA Popped ==
    ASSUME frames \in Seq(Frames), frames # <<>>, frames' = SubSeq(frames, 1, Len(frames) - 1)
    PROVE  /\ frames' \in Seq(Frames) /\ Len(frames') = Len(frames) - 1
           /\ \A i \in 1 .. Len(frames) - 1 : frames'[i] = frames[i]
           /\ frames' # <<>> <=> Len(frames) > 1
<1> DEFINE n == Len(frames) - 1
<1>1. n \in Nat /\ \A i \in 1 .. n : frames[i] \in Frames
  OBVIOUS
<1>2. 1 \in Int /\ n \in Int /\ frames' = SubSeq(frames, 1, n)
  BY <1>1
<1> HIDE DEF n
<1>3. /\ SubSeq(frames, 1, n) \in Seq(Frames)
      /\ Len(SubSeq(frames, 1, n)) = IF 1 <= n THEN n - 1 + 1 ELSE 0
      /\ \A i \in 1 .. n - 1 + 1 : SubSeq(frames, 1, n)[i] = frames[1 + i - 1]
  BY <1>1, <1>2, SubSeqProperties
<1>4. /\ frames' \in Seq(Frames) /\ Len(frames') = n
      /\ \A i \in 1 .. n : frames'[i] = frames[i]
  BY <1>1, <1>2, <1>3
<1>5. frames' # <<>> <=> n # 0
  BY <1>4, EmptySeq
<1> QED
  BY <1>1, <1>4, <1>5 DEF n

\* Interrupts are integers, so every mask is a set of them.
LEMMA MasksOfIrq ==
    ASSUME NEW priority PROVE Above(priority) \subseteq Irq
  BY DEF Above

\* Frames that stay leave their masks as they were.
LEMMA SameMasks ==
    ASSUME NEW n \in Nat, \A i \in 1 .. n : frames'[i] = frames[i]
    PROVE  \A k \in 0 .. n : MaskOver(k)' = MaskOver(k)
<1>1. SUFFICES ASSUME NEW k \in 0 .. n PROVE MaskOver(k)' = MaskOver(k)
  OBVIOUS
<1>2. CASE k = 0
  BY <1>2 DEF MaskOver
<1>3. CASE k # 0
  <2>1. frames'[k] = frames[k]
    BY <1>3
  <2> QED
    BY <2>1, <1>3 DEF MaskOver, Above
<1> QED
  BY <1>2, <1>3

\* The frames the handler makes.
LEMMA FramesMade ==
    ASSUME Types
    PROVE  /\ \A at \in Places, a \in SUBSET Irq : Frame(at, a) \in Frames
           /\ \A i \in Irq : Service(i) \in Frames
           /\ frames # <<>> => Top \in Frames
<1>1. \A at \in Places, a \in SUBSET Irq : Frame(at, a) \in Frames
  BY DEF Frame, Frames, Numbers, Handlers, Contexts
<1>2. \A i \in Irq : alt_irq[i] \in Pairs
  BY DEF Types
<1>3. \A i \in Irq : Service(i) \in Frames
  BY <1>2 DEF Service, Frames, Numbers, Pairs, Places
<1>4. frames # <<>> => Top \in Frames
  BY DEF Types, Top
<1> QED
  BY <1>1, <1>3, <1>4

-----------------------------------------------------------------------------
(* Each step keeps the invariant.                                           *)

\* Lines come and go; nothing else looks at them.
LEMMA LineSteps ==
    ASSUME IInv, \/ \E i \in Irq : Raise(i) \/ Drop(i)
                 \/ Serve
    PROVE  IInv'
<1>1. line' \subseteq Irq /\ UNCHANGED <<steady, cpu, masks, tables, call, frames>>
  BY DEF IInv, Types, Raise, Drop, Serve
<1>2. Types'
  BY <1>1 DEF IInv, Types, cpu, masks, tables
<1>3. Stacked' /\ Masked' /\ Alone' /\ Consistent' /\ OnlyHigher' /\ PairsIntact'
  BY <1>1 DEF IInv, Stacked, Masked, Alone, Consistent, OnlyHigher, PairsIntact, MaskOver,
              Under, Top, cpu, masks, tables
<1> QED
  BY <1>2, <1>3 DEF IInv

\* The interrupt is taken over the program or a routine that has opened.
LEMMA TakeStep == ASSUME IInv, Take PROVE IInv'
<1>1. Frame("entry", {}) \in Frames
  BY FramesMade DEF IInv, Places
<1>2. /\ frames \in Seq(Frames)
      /\ frames' = Append(frames, Frame("entry", {}))
      /\ UNCHANGED <<line, steady, ienable, masks, tables, call>>
      /\ pie /\ pie' = FALSE
  BY DEF Take, IInv, Types
<1>3. /\ frames' \in Seq(Frames) /\ Len(frames') = Len(frames) + 1 /\ frames' # <<>>
      /\ frames'[Len(frames) + 1] = Frame("entry", {})
      /\ \A i \in 1 .. Len(frames) : frames'[i] = frames[i]
  BY <1>1, <1>2, Pushed
<1>4. Len(frames) \in Nat /\ frames'[Len(frames')].at = "entry" /\ Len(frames) = Under
  BY <1>2, <1>3 DEF Frame, Under, IInv, Alone, Top
<1>5. frames # <<>> => frames[Len(frames)].at = "open"
  BY <1>2 DEF IInv, Alone, Top
<1>6. \A k \in 0 .. Len(frames) : MaskOver(k)' = MaskOver(k)
  BY <1>3, <1>4, SameMasks
<1>7. Types'
  BY <1>2, <1>3 DEF IInv, Types, masks, tables
<1>8. Stacked'
  BY <1>2, <1>3, <1>4, <1>5, <1>6 DEF IInv, Stacked, masks
<1>9. Under' = Len(frames)
  BY <1>3, <1>4 DEF Under, Top
<1>10. Masked'
  BY <1>2, <1>4, <1>6, <1>9 DEF IInv, Masked, masks
<1>11. Alone'
  BY <1>2 DEF IInv, Alone
<1>12. Consistent'
  BY <1>2 DEF IInv, Consistent, masks, tables
<1>13. OnlyHigher' /\ PairsIntact'
  BY <1>2, <1>3, <1>4 DEF IInv, OnlyHigher, PairsIntact
<1> QED
  BY <1>7, <1>8, <1>10, <1>11, <1>12, <1>13 DEF IInv

\* The exception code goes on in the frame it is in: what it has found, or the
\* routine it calls, is let through by the mask it was entered under.
LEMMA GoOn ==
    ASSUME IInv, frames # <<>>, Top.at # "open",
           NEW f \in Frames, f.at # "open", frames' = WithTop(f),
           f.at = "search" => f.active \subseteq MaskOver(Len(frames) - 1) \cap alt_irq_active,
           f.at = "isr" => /\ f.irq \in MaskOver(Len(frames) - 1)
                           /\ [handler |-> f.handler, context |-> f.context] \in Registered,
           UNCHANGED <<line, steady, cpu, masks, tables, call>>
    PROVE  IInv'
<1> DEFINE n == Len(frames)
<1>1. frames \in Seq(Frames) /\ n \in Nat \ {0} /\ Under = n - 1 /\ ~pie /\ call = NoCall
  BY DEF IInv, Types, Under, Alone
<1>2. /\ frames' \in Seq(Frames) /\ Len(frames') = n /\ frames' # <<>>
      /\ frames'[n] = f
      /\ \A i \in 1 .. n - 1 : frames'[i] = frames[i]
  BY <1>1, Changed
<1> HIDE DEF n
<1>3. \A k \in 0 .. n - 1 : MaskOver(k)' = MaskOver(k)
  <2>1. n - 1 \in Nat
    BY <1>1
  <2> QED
    BY <2>1, <1>2, SameMasks
<1>4. Types'
  BY <1>2 DEF IInv, Types, cpu, masks, tables
<1>5. Stacked'
  <2>1. SUFFICES ASSUME NEW i \in 1 .. n
                 PROVE  /\ i < n => frames'[i].at = "open"
                        /\ frames'[i].at \in {"isr", "open"} => frames'[i].irq \in MaskOver(i - 1)'
                        /\ frames'[i].at = "open" => frames'[i].old = MaskOver(i - 1)'
                        /\ frames'[i].at = "search" =>
                               frames'[i].active \subseteq MaskOver(i - 1)' \cap alt_irq_active'
    BY <1>2 DEF Stacked
  <2>2. i - 1 \in 0 .. n - 1 /\ MaskOver(i - 1)' = MaskOver(i - 1)
    BY <1>1, <1>3
  <2>3. CASE i = n
    BY <2>2, <2>3, <1>1, <1>2 DEF masks, n
  <2>4. CASE i # n
    <3>1. i \in 1 .. n - 1 /\ i \in 1 .. Len(frames) /\ frames'[i] = frames[i]
      BY <2>4, <1>1, <1>2 DEF n
    <3> QED
      BY <2>2, <3>1, <1>1 DEF IInv, Stacked, masks, n
  <2> QED
    BY <2>3, <2>4
<1>6. Under' = n - 1 /\ Under = n - 1
  BY <1>1, <1>2 DEF Under, Top, n
<1>7. Masked'
  BY <1>1, <1>3, <1>6 DEF IInv, Masked, masks, cpu
<1>8. Alone' /\ Consistent'
  BY <1>1 DEF IInv, Alone, Consistent, cpu, masks, tables
<1>9. OnlyHigher'
  <2>1. SUFFICES ASSUME NEW i \in 1 .. n, NEW j \in 1 .. n, i < j,
                        frames'[j].at \in {"isr", "open"}
                 PROVE  frames'[j].irq < frames'[i].irq
    BY <1>2 DEF OnlyHigher
  <2>2. i \in 1 .. n - 1 /\ i \in 1 .. Len(frames) /\ j \in 1 .. Len(frames) /\ frames'[i] = frames[i]
    BY <2>1, <1>1, <1>2 DEF n
  <2>3. CASE j # n
    BY <2>1, <2>2, <2>3, <1>1, <1>2 DEF IInv, OnlyHigher, n
  <2>4. CASE j = n
    <3>1. f.irq < frames[n - 1].irq
      BY <2>1, <2>2, <2>4, <1>1, <1>2 DEF MaskOver, Above, n
    <3>2. CASE i = n - 1
      BY <3>1, <3>2, <2>2, <2>4, <1>2
    <3>3. CASE i # n - 1
      <4>1. n - 1 \in 1 .. Len(frames) /\ i < n - 1 /\ n - 1 < Len(frames)
        BY <3>3, <2>1, <2>2, <1>1 DEF n
      <4>4. frames[n - 1].at = "open" /\ frames[n - 1] \in Frames /\ frames[i] \in Frames
        <5>1. \A k \in 1 .. Len(frames) : frames[k] \in Frames
          BY <1>1
        <5>2. \A k \in 1 .. Len(frames) : k < Len(frames) => frames[k].at = "open"
          BY DEF IInv, Stacked
        <5> QED
          BY <4>1, <5>1, <5>2, <2>2, <1>1
      <4>2. frames[n - 1].irq < frames[i].irq
        BY <4>1, <4>4, <2>2 DEF IInv, OnlyHigher
      <4>3. f.irq \in Int /\ frames[n - 1].irq \in Int /\ frames[i].irq \in Int
        <5>1. \A g \in Frames : g.irq \in Int
          <6>1. Numbers \subseteq Int
            BY IrqAssumption DEF Numbers
          <6> QED
            BY <6>1 DEF Frames
        <5> QED
          BY <4>4, <5>1
      <4> QED
        BY <3>1, <4>2, <4>3, <2>2, <2>4, <1>2
    <3> QED
      BY <3>2, <3>3
  <2> QED
    BY <2>3, <2>4
<1>10. PairsIntact'
  <2>1. SUFFICES ASSUME NEW i \in 1 .. n, frames'[i].at \in {"isr", "open"}
                 PROVE  [handler |-> frames'[i].handler, context |-> frames'[i].context] \in Registered
    BY <1>2 DEF PairsIntact
  <2> QED
    BY <2>1, <1>1, <1>2 DEF IInv, PairsIntact, n
<1> QED
  BY <1>4, <1>5, <1>7, <1>8, <1>9, <1>10 DEF IInv

\* The exception code leaves to what it has interrupted.
LEMMA LeaveStep ==
    ASSUME IInv, frames # <<>>, Top.at # "open", Leave,
           UNCHANGED <<line, steady, ienable, masks, tables, call>>
    PROVE  IInv'
<1> DEFINE n == Len(frames)
<1>1. frames \in Seq(Frames) /\ n \in Nat \ {0} /\ Under = n - 1 /\ call = NoCall /\ pie' = TRUE
  BY DEF IInv, Types, Under, Alone, Leave
<1>2. /\ frames' \in Seq(Frames) /\ Len(frames') = n - 1
      /\ \A i \in 1 .. n - 1 : frames'[i] = frames[i]
      /\ frames' # <<>> <=> n > 1
  BY <1>1, Popped DEF Leave
<1> HIDE DEF n
<1>3. \A k \in 0 .. n - 1 : MaskOver(k)' = MaskOver(k)
  BY <1>1, <1>2, SameMasks
<1>4. \A i \in 1 .. n - 1 : i \in 1 .. Len(frames) /\ frames'[i].at = "open"
  BY <1>1, <1>2 DEF IInv, Stacked, n
<1>5. Types'
  BY <1>1, <1>2 DEF IInv, Types, masks, tables
<1>6. Stacked'
  <2>1. SUFFICES ASSUME NEW i \in 1 .. n - 1
                 PROVE  /\ frames'[i].irq \in MaskOver(i - 1)'
                        /\ frames'[i].old = MaskOver(i - 1)'
    BY <1>2, <1>4 DEF Stacked
  <2>2. i - 1 \in 0 .. n - 1 /\ MaskOver(i - 1)' = MaskOver(i - 1)
    BY <1>1, <1>3
  <2> QED
    BY <2>2, <1>2, <1>4 DEF IInv, Stacked
<1>7. Under' = n - 1
  <2>1. CASE n = 1
    BY <2>1, <1>2 DEF Under
  <2>2. CASE n # 1
    BY <2>2, <1>1, <1>2, <1>4 DEF Under, Top
  <2> QED
    BY <2>1, <2>2
<1>8. Masked'
  BY <1>1, <1>3, <1>7 DEF IInv, Masked, masks
<1>9. Alone'
  BY <1>1, <1>2, <1>4 DEF Alone, Top
<1>10. Consistent'
  BY <1>1 DEF IInv, Consistent, masks, tables
<1>11. OnlyHigher'
  BY <1>2, <1>4 DEF IInv, OnlyHigher
<1>12. PairsIntact'
  BY <1>2, <1>4 DEF IInv, PairsIntact
<1> QED
  BY <1>5, <1>6, <1>8, <1>9, <1>10, <1>11, <1>12 DEF IInv

\* What is pending under the frame that runs is enabled and let through.
LEMMA PendingLetThrough ==
    ASSUME IInv, frames # <<>>, Top.at # "open"
    PROVE  /\ Pending \in SUBSET Irq
           /\ Pending \subseteq MaskOver(Len(frames) - 1) \cap alt_irq_active
<1>1. alt_priority_mask = MaskOver(Len(frames) - 1)
  BY DEF IInv, Masked, Under
<1> QED
  BY <1>1 DEF IInv, Masked, Types, Pending

LEMMA HandlerSteps ==
    ASSUME IInv, Entry \/ Read \/ Search \/ IsrReturn \/ Exception
    PROVE  IInv'
<1>1. Types /\ \A at \in Places, a \in SUBSET Irq : Frame(at, a) \in Frames
  BY FramesMade DEF IInv
<1>2. \A at, a : Frame(at, a).at = at /\ Frame(at, a).active = a
  BY DEF Frame
<1>3. CASE Entry
  <2>1. frames # <<>> /\ Top.at # "open"
        /\ UNCHANGED <<line, steady, cpu, masks, tables, call>>
    BY <1>3 DEF Entry, Running
  <2> DEFINE at == IF Pending = {} THEN "exception" ELSE "read"
             f == Frame(at, {})
  <2>2. f \in Frames /\ f.at \notin {"open", "search", "isr"} /\ frames' = WithTop(f)
    BY <1>1, <1>2, <1>3 DEF Entry, Places
  <2> HIDE DEF f
  <2> QED
    BY <2>1, <2>2, GoOn
<1>4. ASSUME frames # <<>>, Top.at # "open", frames' = WithTop(Found),
             UNCHANGED <<line, steady, cpu, masks, tables, call>>
      PROVE  IInv'
  <2> DEFINE f == Found
  <2>1. Pending \in SUBSET Irq /\ Pending \subseteq MaskOver(Len(frames) - 1) \cap alt_irq_active
    BY <1>4, PendingLetThrough
  <2>2. f \in Frames /\ f.at = "search" /\ f.active = Pending
    BY <1>1, <1>2, <2>1 DEF Found, Places
  <2> HIDE DEF f
  <2>3. frames' = WithTop(f)
    BY <1>4 DEF f
  <2> QED
    BY <1>4, <2>1, <2>2, <2>3, GoOn
<1>5. CASE Read
  BY <1>4, <1>5 DEF Read, Running
<1>6. CASE Search
  <2>1. frames # <<>> /\ Top.at = "search"
        /\ UNCHANGED <<line, steady, cpu, masks, tables, call>>
    BY <1>6 DEF Search, Running
  <2>2. PICK i \in Irq : i \in Top.active /\ frames' = WithTop(Service(i))
    BY <1>6 DEF Search, Chosen
  <2> DEFINE f == Service(i)
  <2>3. i \in MaskOver(Len(frames) - 1) \cap alt_irq_active
    <3>1. Len(frames) \in 1 .. Len(frames)
      BY <1>1, <2>1 DEF Types
    <3> QED
      BY <3>1, <2>1, <2>2 DEF IInv, Stacked, Top
  <2>4. alt_irq[i] \in Registered
    BY <2>1, <2>3 DEF IInv, Alone, Consistent, NoCall
  <2>5. /\ f \in Frames /\ f.at = "isr" /\ f.irq = i
        /\ [handler |-> f.handler, context |-> f.context] \in Registered
    BY <1>1, <2>4, FramesMade, RegisteredAssumption DEF Service
  <2>6. frames' = WithTop(f)
    BY <2>2
  <2> HIDE DEF f
  <2> QED
    BY <2>1, <2>3, <2>5, <2>6, GoOn
<1>7. CASE IsrReturn
  <2>1. frames # <<>> /\ Top.at # "open"
    BY <1>7 DEF IsrReturn, Running
  <2>2. CASE Again
    BY <1>4, <1>7, <2>1, <2>2 DEF IsrReturn, cpu
  <2>3. CASE ~Again
    BY <1>7, <2>1, <2>3, LeaveStep DEF IsrReturn
  <2> QED
    BY <2>2, <2>3
<1>8. CASE Exception
  <2>1. frames # <<>> /\ Top.at # "open"
    BY <1>8 DEF Exception, Running
  <2>2. CASE alt_instruction_exception_handler = Null
    <3> DEFINE f == Frame("break", {})
    <3>1. /\ f \in Frames /\ f.at = "break" /\ frames' = WithTop(f)
          /\ UNCHANGED <<line, steady, cpu, masks, tables, call>>
      BY <1>1, <1>2, <1>8, <2>2 DEF Exception, Places, cpu
    <3> HIDE DEF f
    <3> QED
      BY <2>1, <3>1, GoOn
  <2>3. CASE alt_instruction_exception_handler # Null
    BY <1>8, <2>1, <2>3, LeaveStep DEF Exception
  <2> QED
    BY <2>2, <2>3
<1> QED
  BY <1>3, <1>5, <1>6, <1>7, <1>8

\* A routine lets higher priorities in.
LEMMA OpenStep == ASSUME IInv, alt_irq_interruptible PROVE IInv'
<1> DEFINE n == Len(frames)
           f == [Top EXCEPT !.at = "open", !.old = alt_priority_mask]
<1>1. /\ frames \in Seq(Frames) /\ n \in Nat \ {0} /\ frames # <<>> /\ Top.at = "isr"
      /\ Top = frames[n] /\ Top \in Frames /\ call = NoCall /\ Under = n - 1
  BY DEF IInv, Types, Under, Alone, alt_irq_interruptible, Running, Top
<1>2. alt_priority_mask = MaskOver(n - 1) /\ alt_priority_mask \subseteq Irq
  BY <1>1 DEF IInv, Masked, Types
<1>3. /\ f \in Frames /\ f.at = "open" /\ f.old = MaskOver(n - 1) /\ f.irq = Top.irq
      /\ f.handler = Top.handler /\ f.context = Top.context
  BY <1>1, <1>2 DEF Frames, Places
<1> HIDE DEF f
<1>4. /\ frames' = WithTop(f) /\ alt_priority_mask' = Above(f.irq) /\ pie' = TRUE
      /\ ienable' = alt_irq_active \cap alt_priority_mask'
      /\ UNCHANGED <<line, steady, alt_irq_active, tables, call>>
  BY <1>3 DEF alt_irq_interruptible, f
<1>5. /\ frames' \in Seq(Frames) /\ Len(frames') = n /\ frames' # <<>>
      /\ frames'[n] = f
      /\ \A i \in 1 .. n - 1 : frames'[i] = frames[i]
  BY <1>1, <1>3, <1>4, Changed
<1> HIDE DEF n
<1>6. n - 1 \in Nat
  BY <1>1
<1>7. \A k \in 0 .. n - 1 : MaskOver(k)' = MaskOver(k)
  BY <1>5, <1>6, SameMasks
<1>8. \A i \in 1 .. n : frames'[i].irq = frames[i].irq /\ frames'[i].handler = frames[i].handler
                         /\ frames'[i].context = frames[i].context
  BY <1>1, <1>3, <1>5
<1>9. \A i \in 1 .. n : frames'[i].at \in {"isr", "open"} => frames[i].at \in {"isr", "open"}
  BY <1>1, <1>5
<1>10. Types'
  BY <1>4, <1>5, MasksOfIrq DEF IInv, Types, tables
<1>11. Stacked'
  <2>1. SUFFICES ASSUME NEW i \in 1 .. n
                 PROVE  /\ i < n => frames'[i].at = "open"
                        /\ frames'[i].at \in {"isr", "open"} => frames'[i].irq \in MaskOver(i - 1)'
                        /\ frames'[i].at = "open" => frames'[i].old = MaskOver(i - 1)'
                        /\ frames'[i].at = "search" =>
                               frames'[i].active \subseteq MaskOver(i - 1)' \cap alt_irq_active'
    BY <1>5 DEF Stacked
  <2>2. i - 1 \in 0 .. n - 1 /\ MaskOver(i - 1)' = MaskOver(i - 1) /\ i \in 1 .. Len(frames)
    BY <1>1, <1>7 DEF n
  <2>3. CASE i = n
    BY <2>2, <2>3, <1>1, <1>3, <1>5 DEF IInv, Stacked
  <2>4. CASE i # n
    <3>1. i \in 1 .. n - 1 /\ frames'[i] = frames[i]
      BY <2>4, <1>1, <1>5
    <3> QED
      BY <2>2, <3>1, <1>1, <1>4 DEF IInv, Stacked, n
  <2> QED
    BY <2>3, <2>4
<1>12. Masked'
  <2>1. Under' = n
    BY <1>1, <1>3, <1>5 DEF Under, Top
  <2> SUFFICES ASSUME NEW k, k = n PROVE alt_priority_mask' = MaskOver(k)'
    BY <2>1, <1>4 DEF Masked
  <2> QED
    BY <1>1, <1>4, <1>5 DEF MaskOver, Above
<1>13. Alone' /\ Consistent'
  BY <1>1, <1>3, <1>4, <1>5 DEF IInv, Alone, Consistent, tables, Top
<1>14. OnlyHigher' /\ PairsIntact'
  BY <1>5, <1>8, <1>9 DEF IInv, OnlyHigher, PairsIntact, n
<1> QED
  BY <1>10, <1>11, <1>12, <1>13, <1>14 DEF IInv

\* A routine shuts them out again.
LEMMA CloseStep == ASSUME IInv, alt_irq_non_interruptible PROVE IInv'
<1> DEFINE n == Len(frames)
           f == [Top EXCEPT !.at = "isr", !.old = Irq]
<1>1. /\ frames \in Seq(Frames) /\ n \in Nat \ {0} /\ frames # <<>> /\ Top.at = "open"
      /\ Top = frames[n] /\ Top \in Frames /\ call = NoCall
  BY DEF IInv, Types, Alone, alt_irq_non_interruptible, Running, Top
<1>2. Top.old = MaskOver(n - 1) /\ Top.old \subseteq Irq
  BY <1>1 DEF IInv, Stacked, Frames
<1>3. /\ f \in Frames /\ f.at = "isr" /\ f.irq = Top.irq
      /\ f.handler = Top.handler /\ f.context = Top.context
  BY <1>1, <1>2 DEF Frames, Places
<1> HIDE DEF f
<1>4. /\ frames' = WithTop(f) /\ alt_priority_mask' = MaskOver(n - 1) /\ pie' = FALSE
      /\ ienable' = alt_priority_mask' \cap alt_irq_active /\ alt_priority_mask' \subseteq Irq
      /\ UNCHANGED <<line, steady, alt_irq_active, tables, call>>
  BY <1>2 DEF alt_irq_non_interruptible, Unmasked, f
<1>5. /\ frames' \in Seq(Frames) /\ Len(frames') = n /\ frames' # <<>>
      /\ frames'[n] = f
      /\ \A i \in 1 .. n - 1 : frames'[i] = frames[i]
  BY <1>1, <1>3, <1>4, Changed
<1> HIDE DEF n
<1>6. n - 1 \in Nat
  BY <1>1
<1>7. \A k \in 0 .. n - 1 : MaskOver(k)' = MaskOver(k)
  BY <1>5, <1>6, SameMasks
<1>8. \A i \in 1 .. n : frames'[i].irq = frames[i].irq /\ frames'[i].handler = frames[i].handler
                         /\ frames'[i].context = frames[i].context
  BY <1>1, <1>3, <1>5
<1>9. \A i \in 1 .. n : frames'[i].at \in {"isr", "open"} => frames[i].at \in {"isr", "open"}
  BY <1>1, <1>5
<1>10. Types'
  BY <1>4, <1>5 DEF IInv, Types, tables
<1>11. Stacked'
  <2>1. SUFFICES ASSUME NEW i \in 1 .. n
                 PROVE  /\ i < n => frames'[i].at = "open"
                        /\ frames'[i].at \in {"isr", "open"} => frames'[i].irq \in MaskOver(i - 1)'
                        /\ frames'[i].at = "open" => frames'[i].old = MaskOver(i - 1)'
                        /\ frames'[i].at = "search" =>
                               frames'[i].active \subseteq MaskOver(i - 1)' \cap alt_irq_active'
    BY <1>5 DEF Stacked
  <2>2. i - 1 \in 0 .. n - 1 /\ MaskOver(i - 1)' = MaskOver(i - 1) /\ i \in 1 .. Len(frames)
    BY <1>1, <1>7 DEF n
  <2>3. CASE i = n
    BY <2>2, <2>3, <1>1, <1>3, <1>5 DEF IInv, Stacked
  <2>4. CASE i # n
    <3>1. i \in 1 .. n - 1 /\ frames'[i] = frames[i]
      BY <2>4, <1>1, <1>5
    <3> QED
      BY <2>2, <3>1, <1>1, <1>4 DEF IInv, Stacked, n
  <2> QED
    BY <2>3, <2>4
<1>12. Masked'
  <2>1. Under' = n - 1
    BY <1>1, <1>3, <1>5 DEF Under, Top
  <2> QED
    BY <2>1, <1>4, <1>6, <1>7 DEF Masked
<1>13. Alone' /\ Consistent'
  BY <1>1, <1>4 DEF IInv, Alone, Consistent, tables
<1>14. OnlyHigher' /\ PairsIntact'
  BY <1>5, <1>8, <1>9 DEF IInv, OnlyHigher, PairsIntact, n
<1> QED
  BY <1>10, <1>11, <1>12, <1>13, <1>14 DEF IInv

\* A routine enables or disables an interrupt while no mask is in force.
LEMMA SwitchStep ==
    ASSUME IInv, ~Inside, NEW id \in Irq, NEW on \in BOOLEAN, IsrSwitch(id, on)
    PROVE  IInv'
<1>1. /\ frames # <<>> /\ Top.at \in {"isr", "open"} /\ call = NoCall
      /\ alt_priority_mask = Irq /\ alt_irq_active' \subseteq Irq /\ ienable' = alt_irq_active'
      /\ UNCHANGED <<line, steady, pie, alt_priority_mask, tables, call, frames>>
  BY DEF IInv, Types, Alone, IsrSwitch, Running, Switched
<1>2. Types'
  BY <1>1 DEF IInv, Types, tables
<1>3. Stacked'
  <2>1. \A i \in 1 .. Len(frames) : frames[i].at # "search"
    BY <1>1 DEF IInv, Types, Stacked, Top
  <2> QED
    BY <2>1, <1>1 DEF IInv, Stacked, MaskOver
<1>4. Masked'
  BY <1>1 DEF IInv, Masked, MaskOver, Under, Top
<1>5. Alone'
  BY <1>1 DEF IInv, Alone, Top
<1>6. Consistent'
  <2>1. on => alt_irq[id] \in Registered
    BY <1>1 DEF IsrSwitch, IInv, Consistent, NoCall
  <2>2. \A i \in alt_irq_active' : alt_irq[i] \in Registered
    BY <2>1, <1>1 DEF IsrSwitch, Switched, IInv, Consistent, NoCall
  <2> QED
    BY <2>2, <1>1 DEF IInv, Consistent, NoCall, tables
<1>7. OnlyHigher' /\ PairsIntact'
  BY <1>1 DEF IInv, OnlyHigher, PairsIntact
<1> QED
  BY <1>2, <1>3, <1>4, <1>5, <1>6, <1>7 DEF IInv

\* While the program runs there are no frames.
LEMMA NoFrames ==
    ASSUME IInv, frames = <<>>, frames' = frames, alt_priority_mask' = alt_priority_mask,
           (ienable' = ienable /\ alt_irq_active' = alt_irq_active) \/ ienable' = alt_irq_active',
           alt_irq_active' \subseteq Irq
    PROVE  Stacked' /\ Masked' /\ OnlyHigher' /\ PairsIntact'
<1>1. Len(frames) = 0
  OBVIOUS
<1>2. Under = 0 /\ Under' = 0
  BY <1>1 DEF Under
<1>3. alt_priority_mask = Irq
  BY <1>2 DEF IInv, Masked, MaskOver
<1>4. Masked'
  BY <1>2, <1>3 DEF IInv, Masked, MaskOver
<1> QED
  BY <1>1, <1>4 DEF Stacked, OnlyHigher, PairsIntact

\* The program begins a call: interrupts go off.
LEMMA BeginSteps ==
    ASSUME IInv,
           \/ DisableAll
           \/ \E id \in Irq, new \in Registered \cup {NoCall.new} : Register(id, new)
           \/ \E id \in Irq, on \in BOOLEAN : Switch(id, on)
    PROVE  IInv'
<1>1. /\ frames = <<>> /\ call = NoCall /\ pie' = FALSE
      /\ UNCHANGED <<line, steady, ienable, masks, alt_instruction_exception_handler, frames>>
  BY DEF DisableAll, Register, Switch, Program, Disabled, tables
<1>2. Stacked' /\ Masked' /\ OnlyHigher' /\ PairsIntact'
  BY <1>1, NoFrames DEF masks, IInv, Types
<1>3. Alone'
  BY <1>1 DEF Alone
<1>4. /\ \A i \in Irq : alt_irq[i] \in Pairs /\ alt_irq[i] \in Registered \cup {NoCall.new}
      /\ \A i \in alt_irq_active : alt_irq[i] \in Registered
      /\ pie \in BOOLEAN /\ alt_irq_active \subseteq Irq
  BY <1>1 DEF IInv, Types, Consistent, NoCall
<1>5. NoCall.new \in Pairs /\ NoCall.new.handler = Null /\ Registered \subseteq Pairs
  BY RegisteredAssumption DEF NoCall, Pairs, Handlers, Contexts
<1>6. CASE DisableAll
  <2>1. call' \in Calling /\ call'.step = "off" /\ UNCHANGED tables
    BY <1>4, <1>5, <1>6 DEF DisableAll, Calling, NoCall, Numbers
  <2>2. Types' /\ Consistent'
    BY <2>1, <1>1, <1>4 DEF IInv, Types, Consistent, tables, masks
  <2> QED
    BY <2>2, <1>2, <1>3 DEF IInv
<1>7. ASSUME NEW id \in Irq, NEW new \in Registered \cup {NoCall.new}, Register(id, new) PROVE IInv'
  <2>1. /\ call' \in Calling /\ call'.step = "context" /\ call'.id = id /\ call'.new = new
        /\ (call'.on <=> new.handler # Null)
    BY <1>4, <1>5, <1>7 DEF Register, Calling, NoCall, Numbers
  <2>2. alt_irq' = [alt_irq EXCEPT ![id].handler = new.handler] /\ new.handler \in Handlers
    BY <1>5, <1>7 DEF Register, Pairs
  <2>3. alt_irq' \in [Irq -> Pairs] /\ alt_irq'[id].handler = new.handler
        /\ \A i \in Irq \ {id} : alt_irq'[i] = alt_irq[i]
    BY <2>2 DEF IInv, Types, Pairs
  <2>4. Types'
    BY <2>1, <2>3, <1>1 DEF IInv, Types, masks
  <2>5. Consistent'
    BY <2>1, <2>3, <1>1, <1>4 DEF Consistent, masks
  <2> QED
    BY <2>4, <2>5, <1>2, <1>3 DEF IInv
<1>8. ASSUME NEW id \in Irq, NEW on \in BOOLEAN, Switch(id, on) PROVE IInv'
  <2>1. /\ call' \in Calling /\ call'.step = "store" /\ call'.id = id /\ call'.on = on
        /\ call'.loaded = alt_irq_active /\ UNCHANGED tables
    BY <1>4, <1>5, <1>8 DEF Switch, Calling, NoCall, Numbers
  <2>2. on => alt_irq[id] \in Registered
    BY <1>4, <1>5, <1>8 DEF Switch
  <2>3. Types'
    BY <2>1, <1>1 DEF IInv, Types, masks, tables
  <2>4. Consistent'
    BY <2>1, <2>2, <1>1, <1>4 DEF Consistent, masks, tables
  <2> QED
    BY <2>3, <2>4, <1>2, <1>3 DEF IInv
<1> QED
  BY <1>6, <1>7, <1>8

\* It goes on, and ends with interrupts as they were.
LEMMA CallSteps ==
    ASSUME IInv, EnableAll \/ RegisterContext \/ Store \/ ExceptionRegister
    PROVE  IInv'
<1>1. /\ frames = <<>> /\ UNCHANGED <<line, steady, alt_priority_mask, frames>>
      /\ alt_irq_active \subseteq Irq /\ call \in Calling /\ alt_irq \in [Irq -> Pairs]
  BY DEF EnableAll, RegisterContext, Store, ExceptionRegister, Program, masks, IInv, Types
<1>2. NoCall.new \in Pairs /\ NoCall.step = "none" /\ NoCall \in Calling
  BY DEF NoCall, Pairs, Handlers, Contexts, Calling, Numbers
<1>3. CASE EnableAll
  <2>1. Stacked' /\ Masked' /\ OnlyHigher' /\ PairsIntact'
    BY <1>1, <1>3, NoFrames DEF EnableAll, masks
  <2>2. Types' /\ Alone'
    BY <1>1, <1>2, <1>3 DEF EnableAll, Restored, IInv, Types, Alone, Calling, masks, tables
  <2>3. Consistent'
    BY <1>2, <1>3 DEF EnableAll, IInv, Consistent, masks, tables
  <2> QED
    BY <2>1, <2>2, <2>3 DEF IInv
<1>4. CASE RegisterContext
  <2>1. Stacked' /\ Masked' /\ OnlyHigher' /\ PairsIntact'
    BY <1>1, <1>4, NoFrames DEF RegisterContext, masks, cpu
  <2>2. call.step = "context" /\ call.id \in Irq /\ call.new \in Registered \cup {NoCall.new}
        /\ alt_irq[call.id].handler = call.new.handler /\ (call.on <=> call.new.handler # Null)
    BY <1>4 DEF RegisterContext, IInv, Consistent
  <2>3. /\ call' \in Calling /\ call'.step = "store" /\ call'.id = call.id
        /\ call'.on = call.on /\ call'.loaded = alt_irq_active
    BY <1>1, <1>4 DEF RegisterContext, Calling
  <2>4. /\ alt_irq' = [alt_irq EXCEPT ![call.id].context = call.new.context]
        /\ call.new.context \in Contexts
    BY <1>1, <1>4 DEF RegisterContext, Calling, Pairs
  <2>5. /\ alt_irq' \in [Irq -> Pairs] /\ \A i \in Irq \ {call.id} : alt_irq'[i] = alt_irq[i]
        /\ alt_irq'[call.id].handler = call.new.handler
        /\ alt_irq'[call.id].context = call.new.context
    BY <2>2, <2>4, <1>1 DEF Pairs
  <2>6. call.new = [handler |-> call.new.handler, context |-> call.new.context]
    BY <2>2, RegisteredAssumption DEF NoCall
  <2>7. alt_irq'[call.id] = call.new
    BY <2>2, <2>5, <2>6 DEF Pairs
  <2>8. call.on => call.new \in Registered
    BY <2>2 DEF NoCall
  <2>9. Types'
    BY <2>3, <2>5, <1>1, <1>4 DEF RegisterContext, IInv, Types, masks, cpu
  <2>10. Alone'
    BY <2>2, <1>1, <1>4 DEF RegisterContext, IInv, Alone, NoCall, cpu
  <2>11. alt_irq_active' = alt_irq_active
    BY <1>4 DEF RegisterContext, masks
  <2>12. Consistent'
    <3>1. /\ call'.step = "store" /\ call'.loaded = alt_irq_active' /\ call'.id \in Irq
          /\ call'.on => alt_irq'[call'.id] \in Registered
      BY <2>2, <2>3, <2>7, <2>8, <2>11
    <3>2. \A i \in Irq : alt_irq'[i] \in Registered \cup {NoCall.new}
      BY <2>2, <2>5, <2>7 DEF IInv, Consistent
    <3>3. \A i \in alt_irq_active' : i # call'.id => alt_irq'[i] \in Registered
      BY <2>2, <2>3, <2>5, <2>11, <1>1 DEF IInv, Consistent
    <3> QED
      BY <3>1, <3>2, <3>3 DEF Consistent
  <2> QED
    BY <2>1, <2>9, <2>10, <2>12 DEF IInv
<1>5. CASE Store
  <2>1. /\ call.step = "store" /\ call.loaded = alt_irq_active /\ call.id \in Irq
        /\ call.on => alt_irq[call.id] \in Registered
        /\ call' = NoCall /\ ienable' = alt_irq_active' /\ UNCHANGED tables
        /\ pie' = call.status
    BY <1>5 DEF Store, Restored, IInv, Consistent
  <2>2. alt_irq_active' = IF call.on THEN alt_irq_active \cup {call.id}
                                     ELSE alt_irq_active \ {call.id}
    BY <2>1, <1>5 DEF Store
  <2>3. alt_irq_active' \subseteq Irq
    BY <2>1, <2>2, <1>1
  <2>4. Stacked' /\ Masked' /\ OnlyHigher' /\ PairsIntact'
    BY <2>1, <2>3, <1>1, NoFrames
  <2>5. Types' /\ Alone'
    BY <2>1, <2>3, <1>1, <1>2 DEF IInv, Types, Alone, Calling, tables
  <2>6. \A i \in alt_irq_active' : alt_irq[i] \in Registered
    BY <2>1, <2>2 DEF IInv, Consistent
  <2>7. \A i \in Irq : alt_irq[i] \in Registered \cup {NoCall.new}
    BY <2>1 DEF IInv, Consistent
  <2>8. Consistent'
    BY <2>1, <2>6, <2>7, <1>2 DEF Consistent, tables
  <2> QED
    BY <2>4, <2>5, <2>8 DEF IInv
<1>6. CASE ExceptionRegister
  <2>1. Stacked' /\ Masked' /\ OnlyHigher' /\ PairsIntact'
    BY <1>1, <1>6, NoFrames DEF ExceptionRegister, masks, cpu
  <2>2. Types' /\ Alone' /\ Consistent'
    BY <1>1, <1>6 DEF ExceptionRegister, IInv, Types, Alone, Consistent, masks, cpu
  <2> QED
    BY <2>1, <2>2 DEF IInv
<1> QED
  BY <1>3, <1>4, <1>5, <1>6

-----------------------------------------------------------------------------
LEMMA Initially == ASSUME Init PROVE IInv
<1>1. NoCall \in Calling /\ NoCall.step = "none" /\ NoCall.new \in Pairs
      /\ NoCall.new = [handler |-> Null, context |-> Null]
  BY DEF NoCall, Pairs, Handlers, Contexts, Calling, Numbers
<1>2. Len(<<>>) = 0 /\ <<>> \in Seq(Frames)
  OBVIOUS
<1>3. Types /\ Consistent /\ Alone
  BY <1>1, <1>2 DEF Init, Types, Consistent, Alone
<1>4. Masked
  BY <1>2 DEF Init, Masked, MaskOver, Under
<1>5. Stacked /\ OnlyHigher /\ PairsIntact
  BY <1>2 DEF Init, Stacked, OnlyHigher, PairsIntact
<1> QED
  BY <1>3, <1>4, <1>5 DEF IInv

LEMMA Stutters == ASSUME IInv, UNCHANGED vars PROVE IInv'
  BY DEF IInv, Types, Stacked, Masked, Alone, Consistent, OnlyHigher, PairsIntact, MaskOver,
         Under, Top, vars, cpu, masks, tables

THEOREM Invariance == ASSUME ~Inside PROVE Spec => []IInv
<1>1. ASSUME IInv, [Next]_vars PROVE IInv'
  <2>1. CASE (\E i \in Irq : Raise(i) \/ Drop(i)) \/ Serve
    BY <1>1, <2>1, LineSteps
  <2>2. CASE Take
    BY <1>1, <2>2, TakeStep
  <2>3. CASE Entry \/ Read \/ Search \/ IsrReturn \/ Exception
    BY <1>1, <2>3, HandlerSteps
  <2>4. CASE alt_irq_interruptible
    BY <1>1, <2>4, OpenStep
  <2>5. CASE alt_irq_non_interruptible
    BY <1>1, <2>5, CloseStep
  <2>6. ASSUME NEW id \in Irq, NEW on \in BOOLEAN, IsrSwitch(id, on) PROVE IInv'
    BY <1>1, <2>6, SwitchStep
  <2>7. CASE \/ DisableAll
             \/ \E id \in Irq, new \in Registered \cup {NoCall.new} : Register(id, new)
             \/ \E id \in Irq, on \in BOOLEAN : Switch(id, on)
    BY <1>1, <2>7, BeginSteps
  <2>8. CASE EnableAll \/ RegisterContext \/ Store \/ ExceptionRegister
    BY <1>1, <2>8, CallSteps
  <2>9. CASE UNCHANGED vars
    BY <1>1, <2>9, Stutters
  <2> QED
    BY <1>1, <2>1, <2>2, <2>3, <2>4, <2>5, <2>6, <2>7, <2>8, <2>9 DEF Next, Calls
<1> QED
  BY <1>1, Initially, PTL DEF Spec

\* Routines are only interrupted by routines of a higher priority
\* (alt_legacy_irq.h:110-117).
THEOREM HigherOnly == ASSUME ~Inside PROVE Spec => []OnlyHigher
  BY Invariance, PTL DEF IInv

\* What is called was registered, with the context it is called with
\* (alt_irq_register.c:87-95).
THEOREM RegistrationsWhole == ASSUME ~Inside PROVE Spec => []PairsIntact
  BY Invariance, PTL DEF IInv

\* The program runs with every interrupt it has enabled
\* (alt_legacy_irq.h:139-149).
THEOREM MasksUndone == ASSUME ~Inside PROVE Spec => []MaskUndone
<1>1. IInv => MaskUndone
  <2>1. frames = <<>> => Under = 0
    BY DEF Under
  <2> QED
    BY <2>1 DEF IInv, Masked, Types, MaskUndone, MaskOver
<1> QED
  BY <1>1, Invariance, PTL
-----------------------------------------------------------------------------
(* How deep frames nest, and what a line that stays leads to.               *)

\* Every frame stands over a mask that lets something through: the interrupt
\* it was entered for, whether its line has dropped since or not.
Room == \A i \in 1 .. Len(frames) : MaskOver(i - 1) # {}

\* What the exception code was entered for is still there when it looks.
Awaited ==
    steady /\ frames # <<>> =>
        /\ Top.at \notin {"exception", "break"}
        /\ Top.at \in {"entry", "read"} => Pending # {}
        /\ Top.at = "search" => Top.active # {}

\* The ways a step changes the stack.
LEMMA StackSteps ==
    ASSUME IInv, [Next]_vars
    PROVE  \/ UNCHANGED frames
           \/ /\ frames' = Append(frames, Frame("entry", {}))
              /\ Pending # {} /\ Pending \subseteq MaskOver(Len(frames))
           \/ frames # <<>> /\ \E f : frames' = WithTop(f)
           \/ frames # <<>> /\ frames' = SubSeq(frames, 1, Len(frames) - 1)
<1>1. CASE Take
  <2>1. Under = Len(frames)
    BY <1>1 DEF Take, IInv, Alone, Under
  <2> QED
    BY <1>1, <2>1 DEF Take, IInv, Masked, Pending
<1>2. CASE Entry \/ Read \/ Search
  BY <1>2 DEF Entry, Read, Search, Running
<1>3. CASE IsrReturn \/ Exception
  BY <1>3 DEF IsrReturn, Exception, Running, Leave
<1>4. CASE alt_irq_interruptible \/ alt_irq_non_interruptible
  BY <1>4 DEF alt_irq_interruptible, alt_irq_non_interruptible, Running
<1>5. CASE (\E i \in Irq : Raise(i) \/ Drop(i)) \/ Serve \/ UNCHANGED vars
  BY <1>5 DEF Raise, Drop, Serve, vars
<1>6. CASE DisableAll \/ EnableAll \/ RegisterContext \/ Store \/ ExceptionRegister
  BY <1>6 DEF DisableAll, EnableAll, RegisterContext, Store, ExceptionRegister
<1>7. ASSUME NEW id \in Irq,
             \/ \E new \in Registered \cup {NoCall.new} : Register(id, new)
             \/ \E on \in BOOLEAN : Switch(id, on) \/ IsrSwitch(id, on)
      PROVE  UNCHANGED frames
  BY <1>7 DEF Register, Switch, IsrSwitch
<1> QED
  BY <1>1, <1>2, <1>3, <1>4, <1>5, <1>6, <1>7 DEF Next, Calls

\* A frame with its top replaced stands over the same frames.
LEMMA SameBelow ==
    ASSUME frames \in Seq(Frames), frames' \in Seq(Frames), frames # <<>>,
           NEW f, frames' = WithTop(f)
    PROVE  /\ Len(frames') = Len(frames) /\ frames' # <<>> /\ Top' = f
           /\ \A i \in 1 .. Len(frames) - 1 : frames'[i] = frames[i]
<1> DEFINE n == Len(frames)
           g == [frames EXCEPT ![n] = f]
<1>1. n \in Nat \ {0} /\ n \in 1 .. n /\ frames \in Seq(Frames \cup {f})
  OBVIOUS
<1>2. Len(g) = n /\ \A i \in 1 .. n : g[i] = IF i = n THEN f ELSE frames[i]
  BY <1>1, ExceptSeq
<1>3. frames' = g
  BY DEF WithTop
<1> HIDE DEF g, n
<1>4. Len(frames') = n
  BY <1>2, <1>3
<1>5. frames'[n] = f /\ \A i \in 1 .. n - 1 : frames'[i] = frames[i]
  BY <1>1, <1>2, <1>3
<1>6. Top' = f
  BY <1>4, <1>5 DEF Top
<1>7. frames' # <<>>
  BY <1>1, <1>4
<1> QED
  BY <1>4, <1>5, <1>6, <1>7 DEF n

LEMMA RoomStep == ASSUME IInv, IInv', Room, [Next]_vars PROVE Room'
<1>1. /\ frames \in Seq(Frames) /\ frames' \in Seq(Frames) /\ Len(frames) \in Nat
  BY DEF IInv, Types
<1>2. CASE UNCHANGED frames
  BY <1>2 DEF Room, MaskOver, Above
<1>3. CASE /\ frames' = Append(frames, Frame("entry", {}))
           /\ Pending # {} /\ Pending \subseteq MaskOver(Len(frames))
  <2>1. /\ Len(frames') = Len(frames) + 1
        /\ \A i \in 1 .. Len(frames) : frames'[i] = frames[i]
    BY <1>1, <1>3
  <2>2. \A k \in 0 .. Len(frames) : MaskOver(k)' = MaskOver(k)
    BY <1>1, <2>1, SameMasks
  <2> QED
    BY <1>1, <1>3, <2>1, <2>2 DEF Room
<1>4. CASE frames # <<>> /\ \E f : frames' = WithTop(f)
  <2> DEFINE n == Len(frames) - 1
  <2>1. n \in Nat /\ Len(frames') = n + 1 /\ \A i \in 1 .. n : frames'[i] = frames[i]
    BY <1>1, <1>4, SameBelow
  <2> HIDE DEF n
  <2>2. \A k \in 0 .. n : MaskOver(k)' = MaskOver(k)
    BY <2>1, SameMasks
  <2>3. \A i \in 1 .. n + 1 : i - 1 \in 0 .. n /\ i \in 1 .. Len(frames)
    BY <1>1, <2>1 DEF n
  <2> QED
    BY <2>1, <2>2, <2>3 DEF Room
<1>5. CASE frames # <<>> /\ frames' = SubSeq(frames, 1, Len(frames) - 1)
  <2> DEFINE n == Len(frames) - 1
  <2>1. n \in Nat /\ Len(frames') = n /\ \A i \in 1 .. n : frames'[i] = frames[i]
    BY <1>1, <1>5, Popped
  <2> HIDE DEF n
  <2>2. \A k \in 0 .. n : MaskOver(k)' = MaskOver(k)
    BY <2>1, SameMasks
  <2>3. \A i \in 1 .. n : i - 1 \in 0 .. n /\ i \in 1 .. Len(frames)
    BY <1>1, <2>1 DEF n
  <2> QED
    BY <2>1, <2>2, <2>3 DEF Room
<1> QED
  BY <1>2, <1>3, <1>4, <1>5, StackSteps

\* Every frame has an interrupt of its own: the routine's, or one its mask
\* lets through.
LEMMA Deep ==
    ASSUME IInv, Room
    PROVE  Len(frames) =< Cardinality(Irq)
<1> DEFINE n == Len(frames)
           own == [i \in 1 .. n |-> IF frames[i].at \in {"isr", "open"} THEN frames[i].irq
                                    ELSE CHOOSE k \in MaskOver(n - 1) : TRUE]
<1>1. frames \in Seq(Frames) /\ n \in Nat /\ IsFiniteSet(Irq) /\ Irq \subseteq Int
  BY IrqAssumption DEF IInv, Types
<1>2. \A i \in 1 .. n : MaskOver(i - 1) # {} /\ MaskOver(i - 1) \subseteq Irq
  BY MasksOfIrq DEF Room, MaskOver
<1>3. \A i \in 1 .. n : /\ i < n => frames[i].at = "open"
                        /\ frames[i].at \in {"isr", "open"} => frames[i].irq \in MaskOver(i - 1)
  BY DEF IInv, Stacked
<1> HIDE DEF n
<1>4. \A i \in 1 .. n : own[i] \in MaskOver(i - 1)
  <2>1. SUFFICES ASSUME NEW i \in 1 .. n, frames[i].at \notin {"isr", "open"}
                 PROVE  (CHOOSE k \in MaskOver(n - 1) : TRUE) \in MaskOver(i - 1)
    BY <1>3
  <2>2. i = n
    BY <2>1, <1>1, <1>3
  <2> QED
    BY <2>1, <2>2, <1>2
<1>5. /\ \A i \in 1 .. n : frames[i].at \in {"isr", "open"} => own[i] = frames[i].irq
      /\ \A i \in 1 .. n : own[i] \in Int
      /\ own \in [1 .. n -> Irq]
  BY <1>1, <1>2, <1>4
<1> HIDE DEF own
<1>6. ASSUME NEW i \in 1 .. n, NEW j \in 1 .. n, i < j PROVE own[j] < own[i]
  <2>1. i < n /\ frames[i].at = "open" /\ own[i] = frames[i].irq /\ own[i] \in Int /\ own[j] \in Int
    BY <1>1, <1>3, <1>6, <1>5
  <2>2. CASE frames[j].at \in {"isr", "open"}
    BY <2>1, <2>2, <1>6, <1>5 DEF IInv, OnlyHigher, n
  <2>3. CASE frames[j].at \notin {"isr", "open"}
    <3>1. j = n /\ n - 1 \in 1 .. n /\ n - 1 # 0
      BY <2>3, <1>1, <1>3, <1>6
    <3>2. own[j] < frames[n - 1].irq
      BY <3>1, <1>4 DEF MaskOver, Above
    <3>3. frames[n - 1].irq = own[n - 1] /\ own[n - 1] \in Int /\ frames[n - 1].at = "open"
      BY <3>1, <1>1, <1>3, <1>5
    <3>4. i # n - 1 => own[n - 1] < own[i]
      BY <3>1, <3>3, <2>1, <1>1, <1>6 DEF IInv, OnlyHigher, n
    <3> QED
      <4>1. own[j] < own[n - 1]
        BY <3>2, <3>3
      <4> QED
        BY <4>1, <3>3, <3>4, <2>1
  <2> QED
    BY <2>2, <2>3
<1>7. own \in Injection(1 .. n, Irq)
  <2>1. \A i, j \in 1 .. n : own[i] = own[j] => i = j
    <3>1. SUFFICES ASSUME NEW i \in 1 .. n, NEW j \in 1 .. n, own[i] = own[j], i # j PROVE FALSE
      OBVIOUS
    <3>2. i < j \/ j < i
      BY <3>1, <1>1
    <3>3. own[i] < own[j] \/ own[j] < own[i]
      BY <3>2, <1>6
    <3> QED
      BY <3>1, <3>3, <1>5
  <2> QED
    BY <2>1, <1>5, Fun_IsInj
<1>8. Cardinality(1 .. n) =< Cardinality(Irq)
  BY <1>1, <1>7, FS_Injection
<1>9. Cardinality(1 .. n) = n /\ n \in Int
  BY <1>1, FS_Interval
<1> QED
  BY <1>8, <1>9 DEF n

\* What runs leaves to a routine that has opened; no line drops meanwhile, and
\* each stage finds what the one before has seen.
LEMMA AwaitedStep == ASSUME IInv, IInv', Awaited, [Next]_vars PROVE Awaited'
<1> SUFFICES ASSUME steady', frames' # <<>>
             PROVE  /\ Top.at' \notin {"exception", "break"}
                    /\ Top.at' \in {"entry", "read"} => Pending' # {}
                    /\ Top.at' = "search" => Top.active' # {}
  BY DEF Awaited
<1>1. /\ frames \in Seq(Frames) /\ frames' \in Seq(Frames) /\ Len(frames) \in Nat
  BY DEF IInv, Types
<1>2. \A at, a : Frame(at, a).at = at /\ Frame(at, a).active = a
  BY DEF Frame
<1>3. CASE Take
  <2>1. frames' = Append(frames, Frame("entry", {})) /\ Pending # {} /\ UNCHANGED <<line, ienable>>
    BY <1>3 DEF Take
  <2>2. Top' = Frame("entry", {})
    BY <1>1, <2>1 DEF Top
  <2> QED
    BY <1>2, <2>1, <2>2 DEF Pending
<1>4. ASSUME frames # <<>>, frames' = SubSeq(frames, 1, Len(frames) - 1), pie'
      PROVE  Top.at' = "open"
  BY <1>4 DEF IInv, Alone
<1>5. ASSUME frames # <<>>, NEW f, frames' = WithTop(f) PROVE Top' = f
  BY <1>1, <1>5, SameBelow
<1>6. CASE Entry
  <2>1. Pending # {} /\ UNCHANGED <<line, ienable>> /\ frames # <<>>
    BY <1>6 DEF Entry, Running, Awaited, cpu
  <2>2. Top' = Frame("read", {})
    BY <2>1, <1>5, <1>6 DEF Entry
  <2> QED
    BY <1>2, <2>1, <2>2 DEF Pending
<1>7. ASSUME frames # <<>>, frames' = WithTop(Found), Pending # {}
      PROVE  Top.at' = "search" /\ Top.active' # {}
  <2>1. Top' = Found
    BY <1>5, <1>7
  <2> QED
    BY <1>2, <1>7, <2>1 DEF Found
<1>8. CASE Read
  <2>1. Pending # {} /\ frames # <<>> /\ frames' = WithTop(Found)
    BY <1>8 DEF Read, Running, Awaited
  <2> QED
    BY <2>1, <1>7
<1>9. CASE Search
  <2>1. PICK i \in Irq : frames' = WithTop(Service(i)) /\ frames # <<>>
    BY <1>9 DEF Search, Running
  <2>2. Top' = Service(i)
    BY <2>1, <1>5
  <2> QED
    BY <2>2 DEF Service
<1>10. CASE IsrReturn
  <2>1. CASE Again
    BY <2>1, <1>7, <1>10 DEF IsrReturn, Again, Running
  <2>2. CASE ~Again
    BY <2>2, <1>4, <1>10 DEF IsrReturn, Leave, Running
  <2> QED
    BY <2>1, <2>2
<1>11. CASE Exception
  <2>1. steady = steady'
    BY <1>11 DEF Exception
  <2> QED
    BY <2>1, <1>11 DEF Exception, Awaited, Running
<1>12. CASE alt_irq_interruptible \/ alt_irq_non_interruptible
  <2>1. PICK f : frames' = WithTop(f) /\ f.at \in {"isr", "open"} /\ frames # <<>>
    <3>1. CASE alt_irq_interruptible
      <4>1. Top \in Frames
        BY <3>1, <1>1 DEF alt_irq_interruptible, Running, Top
      <4>2. [Top EXCEPT !.at = "open", !.old = alt_priority_mask].at = "open"
        BY <4>1 DEF Frames
      <4> QED
        BY <3>1, <4>2 DEF alt_irq_interruptible, Running
    <3>2. CASE alt_irq_non_interruptible
      <4>1. Top \in Frames
        BY <3>2, <1>1 DEF alt_irq_non_interruptible, Running, Top
      <4>2. [Top EXCEPT !.at = "isr", !.old = Irq].at = "isr"
        BY <4>1 DEF Frames
      <4> QED
        BY <3>2, <4>2 DEF alt_irq_non_interruptible, Running
    <3> QED
      BY <1>12, <3>1, <3>2
  <2> QED
    BY <2>1, <1>5
<1>13. CASE Serve
  <2>1. frames # <<>> /\ Top.at = "isr" /\ UNCHANGED frames
    BY <1>13 DEF Serve, Running
  <2> QED
    BY <2>1 DEF Top
<1>14. ASSUME UNCHANGED <<steady, frames>>, Pending \subseteq Pending'
       PROVE  /\ Top.at' \notin {"exception", "break"}
              /\ Top.at' \in {"entry", "read"} => Pending' # {}
              /\ Top.at' = "search" => Top.active' # {}
  BY <1>14 DEF Awaited, Top
<1>15. CASE (\E i \in Irq : Raise(i) \/ Drop(i)) \/ UNCHANGED vars
  <2>1. UNCHANGED <<steady, frames>> /\ Pending \subseteq Pending'
    BY <1>15 DEF Raise, Drop, vars, cpu, Pending
  <2> QED
    BY <2>1, <1>14
<1>16. ASSUME NEW id \in Irq, NEW on \in BOOLEAN, IsrSwitch(id, on)
       PROVE  Top.at' \in {"isr", "open"}
  BY <1>16 DEF IsrSwitch, Running, Top
<1>17. CASE \/ DisableAll \/ EnableAll \/ RegisterContext \/ Store \/ ExceptionRegister
            \/ \E id \in Irq : \/ \E new \in Registered \cup {NoCall.new} : Register(id, new)
                               \/ \E on \in BOOLEAN : Switch(id, on)
  <2>1. frames = <<>> /\ UNCHANGED frames
    BY <1>17 DEF DisableAll, EnableAll, RegisterContext, Store, ExceptionRegister, Register,
                 Switch, Program
  <2> QED
    BY <2>1
<1> QED
  BY <1>3, <1>6, <1>8, <1>9, <1>10, <1>11, <1>12, <1>13, <1>15, <1>16, <1>17 DEF Next, Calls

THEOREM NestingInvariance == ASSUME ~Inside PROVE Spec => [](IInv /\ Room /\ Awaited)
<1>1. Init => Room /\ Awaited
  BY DEF Init, Room, Awaited
<1>2. IInv /\ IInv' /\ Room /\ Awaited /\ [Next]_vars => Room' /\ Awaited'
  BY RoomStep, AwaitedStep
<1> QED
  BY <1>1, <1>2, Invariance, PTL DEF Spec

\* The stack never needs more frames than there are priorities, so a stack
\* laid out for that many holds (alt_legacy_irq.h:110-117).
THEOREM NestingBounded == ASSUME ~Inside PROVE Spec => []TypeOK
<1>1. IInv /\ Room => TypeOK
  BY Deep DEF IInv, TypeOK
<1> QED
  BY <1>1, NestingInvariance, PTL

\* A line that stays asserted is served as an interrupt: it is never taken for
\* the exception of an instruction, and the handler's search ends
\* (alt_instruction_exception_entry.c:128-131, alt_irq_handler.c:127-157).
THEOREM SteadyLinesFound == ASSUME ~Inside PROVE Spec => []SteadyIsFound
<1>1. ASSUME IInv, Awaited PROVE SteadyIsFound
  <2>1. SUFFICES ASSUME steady, NEW i \in 1 .. Len(frames)
                 PROVE  /\ frames[i].at \notin {"exception", "break"}
                        /\ frames[i].at = "search" => frames[i].active # {}
    BY DEF SteadyIsFound
  <2>2. frames \in Seq(Frames) /\ Len(frames) \in Nat
    BY <1>1 DEF IInv, Types
  <2>3. CASE i = Len(frames)
    BY <1>1, <2>1, <2>2, <2>3 DEF Awaited, Top
  <2>4. CASE i # Len(frames)
    <3>1. frames[i].at = "open"
      BY <1>1, <2>1, <2>2, <2>4 DEF IInv, Stacked
    <3> QED
      BY <3>1
  <2> QED
    BY <2>3, <2>4
<1> QED
  BY <1>1, NestingInvariance, PTL
=============================================================================
