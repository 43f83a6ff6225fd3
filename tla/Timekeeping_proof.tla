-------------------------- MODULE Timekeeping_proof --------------------------
(* For any number of alarms: the list keeps its shape, no tick is interrupted *)
(* by the next, alarms go off when TimerSet says and only while registered,   *)
(* the walk over the list shortens, and for every rate the wall clock adds    *)
(* up.                                                                        *)
EXTENDS Timekeeping_Spec, TLAPS

Types ==
    /\ next \in [Entry -> Entry \cup {Null}]
    /\ previous \in [Entry -> Entry \cup {Null}]
    /\ pie \in BOOLEAN
    /\ call \in [Context -> Calls]
    /\ tick \in [at : {"idle", "visit", "callback"}, alarm : Entry, next : Entry]

Publishing(c) == call[c].step = "publish"

\* An entry was never linked, or it is known in both directions.
Known ==
    /\ next[Head] # Null
    /\ \A e \in Entry : next[e] = Null <=> previous[e] = Null

\* Both directions agree; of an entry that is being published only the link
\* from the head is missing.
Linkage ==
    \A e \in Entry : next[e] # Null =>
        /\ previous[next[e]] # e =>
               e = Head /\ \E c \in Context : Publishing(c)
        /\ next[previous[e]] # e =>
               \E c \in Context : Publishing(c) /\ call[c].alarm = e

\* The entry that is being published.
Pending ==
    \A c \in Context : Publishing(c) =>
        LET a == call[c].alarm
        IN  a \in Alarm /\ previous[a] = Head /\ next[a] = next[Head] /\ next[a] # a

\* The program publishes only between ticks and with interrupts off, a callback
\* only within one, and gets back that they are off.
Turns ==
    /\ Publishing("main") => tick.at = "idle" /\ ~pie
    /\ Publishing("isr") => tick.at = "callback" /\ call["isr"].context = FALSE
    /\ tick.at # "idle" => ~pie /\ ~Publishing("main")

\* alt_tick is at an entry of the list.
Walks ==
    /\ tick.at # "idle" => next[tick.alarm] # Null
    /\ tick.at = "callback" => tick.alarm \in Alarm /\ next[tick.next] # Null

IInv == Types /\ Known /\ Linkage /\ Pending /\ Turns /\ Walks

-----------------------------------------------------------------------------
LEMMA InvImpliesWoven == IInv => Woven
  BY DEF IInv, Linkage, Publishing, Woven

\* Between calls every known entry has known neighbours.
LEMMA Neighbours ==
    ASSUME IInv, \A c \in Context : ~Publishing(c), NEW e \in Entry, next[e] # Null
    PROVE  /\ next[e] \in Entry /\ previous[e] \in Entry
           /\ previous[next[e]] = e /\ next[previous[e]] = e
           /\ next[next[e]] # Null /\ previous[next[e]] # Null /\ next[previous[e]] # Null
<1>1. next[e] \in Entry /\ previous[e] \in Entry
  BY DEF IInv, Types, Known
<1>2. previous[next[e]] = e /\ next[previous[e]] = e
  BY DEF IInv, Linkage
<1>3. e # Null
  BY EntryAssumption DEF Entry
<1> QED
  BY <1>1, <1>2, <1>3 DEF IInv, Known

\* alt_llist_insert up to the last link.
LEMMA StartStep ==
    ASSUME IInv, NEW c \in Context, NEW a \in Alarm, NEW n \in Delays, Start(c, a, n)
    PROVE  IInv'
<1> DEFINE h == next[Head]
<1>1. /\ a \in Entry /\ Head \in Entry /\ a # Head /\ a # Null /\ Head # Null
      /\ next[a] \in {a, Null} /\ UNCHANGED tick
  BY EntryAssumption DEF Entry, Start, Linked
<1>2. /\ call' = [call EXCEPT ![c] = [step |-> "publish", alarm |-> a, context |-> pie]]
      /\ pie' = FALSE /\ call[c].step # "publish"
      /\ c = "main" => tick.at = "idle"
      /\ c = "isr" => tick.at = "callback"
      /\ next' = [next EXCEPT ![a] = h]
      /\ previous' = [previous EXCEPT ![a] = Head, ![h] = a]
  BY DEF Start, CanCall, NoCall, Disabled, Context
<1>3. \A d \in Context : ~Publishing(d)
  BY <1>2 DEF IInv, Turns, Publishing, Context
<1>4. h \in Entry /\ previous[h] = Head /\ next[h] # Null /\ h # Null
  BY <1>1, <1>3, Neighbours, EntryAssumption DEF IInv, Known, Entry
<1>5. \A e \in Entry : next[e] # Null =>
          /\ next[e] \in Entry /\ previous[e] \in Entry /\ previous[next[e]] = e
          /\ next[previous[e]] = e
  BY <1>3, Neighbours
<1>6. h # a
  BY <1>1, <1>4, <1>5
<1> HIDE DEF h
<1>7. /\ next' \in [Entry -> Entry \cup {Null}] /\ previous' \in [Entry -> Entry \cup {Null}]
      /\ next'[a] = h /\ \A e \in Entry \ {a} : next'[e] = next[e]
      /\ previous'[a] = Head /\ previous'[h] = a
      /\ \A e \in Entry \ {a, h} : previous'[e] = previous[e]
  BY <1>1, <1>2, <1>4, <1>6 DEF IInv, Types
<1>8. /\ call' \in [Context -> Calls] /\ call'[c].step = "publish" /\ call'[c].alarm = a
      /\ call'[c].context = pie
      /\ \A d \in Context \ {c} : call'[d] = call[d]
  BY <1>1, <1>2 DEF IInv, Types, Calls
<1>9. Types' /\ Turns'
  BY <1>1, <1>2, <1>3, <1>7, <1>8 DEF IInv, Types, Turns, Publishing, Context
<1>10. Known'
  BY <1>1, <1>4, <1>6, <1>7 DEF IInv, Known, h
<1>11. Pending'
  BY <1>1, <1>3, <1>6, <1>7, <1>8 DEF Pending, Publishing, h
<1>12. Linkage'
  <2>1. SUFFICES ASSUME NEW e \in Entry, next'[e] # Null
                 PROVE  /\ previous'[next'[e]] # e => e = Head
                        /\ next'[previous'[e]] # e => e = a
    BY <1>8 DEF Linkage, Publishing
  <2>2. previous'[next'[e]] # e => e = Head
    <3>1. CASE e = a
      BY <3>1, <1>7
    <3>2. CASE e # a /\ e # Head
      <4>1. next'[e] = next[e] /\ next[e] # Null
        BY <3>2, <2>1, <1>7
      <4>2. next[e] # a
        BY <4>1, <3>2, <1>1, <1>5, EntryAssumption DEF Entry, IInv, Known
      <4>3. next[e] # h
        BY <4>1, <3>2, <1>4, <1>5
      <4> QED
        BY <4>1, <4>2, <4>3, <1>5, <1>7
    <3> QED
      BY <3>1, <3>2
  <2>3. next'[previous'[e]] # e => e = a
    <3>1. CASE e = h
      BY <3>1, <1>7, <1>1, <1>6
    <3>2. CASE e # h /\ e # a
      <4>1. previous'[e] = previous[e] /\ next[e] # Null
        BY <3>2, <2>1, <1>7
      <4>2. previous[e] # a
        BY <4>1, <3>2, <1>1, <1>5, EntryAssumption DEF Entry
      <4> QED
        BY <4>1, <4>2, <1>5, <1>7
    <3> QED
      BY <3>1, <3>2
  <2> QED
    BY <2>2, <2>3
<1>13. Walks'
  BY <1>1, <1>2, <1>4, <1>7 DEF IInv, Walks, Types
<1> QED
  BY <1>9, <1>10, <1>11, <1>12, <1>13 DEF IInv

\* The last link.
LEMMA PublishStep ==
    ASSUME IInv, NEW c \in Context, Publish(c)
    PROVE  IInv'
<1> DEFINE a == call[c].alarm
           h == next[Head]
<1>1. /\ Publishing(c) /\ UNCHANGED <<previous, tick>>
      /\ next' = [next EXCEPT ![Head] = a] /\ pie' = call[c].context
      /\ call' = [call EXCEPT ![c] = NoCall]
  BY DEF Publish, Publishing, Restored, deadline
<1>2. /\ a \in Alarm /\ previous[a] = Head /\ next[a] = h /\ h # a /\ next[a] # Null
      /\ a \in Entry /\ Head \in Entry /\ a # Head /\ a # Null /\ Head # Null
  BY <1>1, EntryAssumption DEF IInv, Pending, Known, Entry
<1>3. \A d \in Context \ {c} : ~Publishing(d)
  BY <1>1 DEF IInv, Turns, Publishing, Context
<1>4. \A e \in Entry : next[e] # Null =>
          /\ previous[next[e]] # e => e = Head
          /\ next[previous[e]] # e => e = a
  BY <1>3 DEF IInv, Linkage
<1> HIDE DEF a, h
<1>5. /\ next' \in [Entry -> Entry \cup {Null}] /\ next'[Head] = a
      /\ \A e \in Entry \ {Head} : next'[e] = next[e]
  BY <1>1, <1>2 DEF IInv, Types
<1>6. call' \in [Context -> Calls] /\ \A d \in Context : call'[d].step # "publish"
  BY <1>1, <1>2, <1>3 DEF IInv, Types, Calls, NoCall, Publishing
<1>7. pie' \in BOOLEAN /\ (c = "isr" => pie' = FALSE)
  BY <1>1 DEF IInv, Types, Calls, Turns
<1>8. Types'
  BY <1>1, <1>5, <1>6, <1>7 DEF IInv, Types
<1>9. Known'
  BY <1>1, <1>2, <1>5 DEF IInv, Known
<1>10. Linkage'
  <2>1. SUFFICES ASSUME NEW e \in Entry, next'[e] # Null
                 PROVE  previous[next'[e]] = e /\ next'[previous[e]] = e
    BY <1>1 DEF Linkage
  <2>2. next[e] # Null
    BY <2>1, <1>5 DEF IInv, Known
  <2>3. previous[next'[e]] = e
    <3>1. CASE e = Head
      BY <3>1, <1>2, <1>5
    <3>2. CASE e # Head
      BY <3>2, <2>2, <1>4, <1>5
    <3> QED
      BY <3>1, <3>2
  <2>4. CASE e = a
    BY <2>3, <2>4, <1>2, <1>5
  <2>5. CASE e # a
    <3>1. next[previous[e]] = e /\ previous[e] \in Entry
      BY <2>2, <2>5, <1>4 DEF IInv, Known, Types
    <3>2. CASE previous[e] = Head
      <4>1. e = h
        BY <3>1, <3>2 DEF h
      <4>2. previous[next[a]] = a
        BY <1>2, <1>4
      <4> QED
        BY <4>1, <4>2, <3>2, <1>2
    <3>3. CASE previous[e] # Head
      BY <2>3, <3>1, <3>3, <1>5
    <3> QED
      BY <3>2, <3>3
  <2> QED
    BY <2>3, <2>4, <2>5
<1>11. Pending'
  BY <1>6 DEF Pending, Publishing
<1>12. Turns'
  BY <1>1, <1>6, <1>7 DEF IInv, Turns, Publishing, Context
<1>13. Walks'
  BY <1>1, <1>2, <1>5 DEF IInv, Walks, Types
<1> QED
  BY <1>8, <1>9, <1>10, <1>11, <1>12, <1>13 DEF IInv

\* Taking an entry out keeps the list woven, and nothing is forgotten.
LEMMA RemovedStep ==
    ASSUME IInv, \A c \in Context : ~Publishing(c),
           NEW a \in Alarm, next[a] # Null, Removed(a)
    PROVE  /\ next' \in [Entry -> Entry \cup {Null}] /\ previous' \in [Entry -> Entry \cup {Null}]
           /\ \A e \in Entry : next'[e] = Null <=> next[e] = Null
           /\ \A e \in Entry : next'[e] = Null <=> previous'[e] = Null
           /\ \A e \in Entry : next'[e] # Null =>
                  previous'[next'[e]] = e /\ next'[previous'[e]] = e
<1> DEFINE p == previous[a]
           n == next[a]
<1>1. a \in Entry /\ a # Null /\ Null \notin Entry
  BY EntryAssumption DEF Entry
<1>2. /\ p \in Entry /\ n \in Entry /\ previous[n] = a /\ next[p] = a
      /\ next[n] # Null /\ next[p] # Null
  BY <1>1, Neighbours
<1>3. \A e \in Entry : next[e] # Null =>
          /\ next[e] \in Entry /\ previous[e] \in Entry /\ previous[next[e]] = e
          /\ next[previous[e]] = e
  BY Neighbours
<1> HIDE DEF p, n
<1>4. previous' = [previous EXCEPT ![n] = p, ![a] = a] /\ next' = [next EXCEPT ![p] = n, ![a] = a]
  BY DEF Removed, p, n
<1>5. /\ next' \in [Entry -> Entry \cup {Null}] /\ previous' \in [Entry -> Entry \cup {Null}]
      /\ next'[a] = a /\ previous'[a] = a
      /\ p # a => next'[p] = n
      /\ n # a => previous'[n] = p
      /\ \A e \in Entry \ {a, p} : next'[e] = next[e]
      /\ \A e \in Entry \ {a, n} : previous'[e] = previous[e]
  BY <1>1, <1>2, <1>4 DEF IInv, Types
<1>6. \A e \in Entry : next[e] = Null <=> previous[e] = Null
  BY DEF IInv, Known
<1>7. \A e \in Entry : next'[e] = Null <=> next[e] = Null
  BY <1>1, <1>2, <1>5
<1>8. \A e \in Entry : next'[e] = Null <=> previous'[e] = Null
  BY <1>1, <1>2, <1>5, <1>6
<1>9. ASSUME NEW e \in Entry, next'[e] # Null
      PROVE  previous'[next'[e]] = e /\ next'[previous'[e]] = e
  <2>1. next[e] # Null /\ e # Null
    BY <1>1, <1>7, <1>9
  <2>2. CASE e = a
    BY <2>2, <1>5
  <2>3. CASE e # a
    <3>1. previous'[next'[e]] = e
      <4>1. CASE e = p
        <5>1. n # a
          BY <4>1, <2>3, <1>2 DEF p
        <5> QED
          BY <5>1, <4>1, <2>3, <1>5
      <4>2. CASE e # p
        <5>1. next'[e] = next[e] /\ next[e] \in Entry /\ previous[next[e]] = e
          BY <2>1, <2>3, <4>2, <1>3, <1>5
        <5>2. next[e] # a /\ next[e] # n
          BY <5>1, <4>2, <2>3, <1>2 DEF p
        <5> QED
          BY <5>1, <5>2, <1>5
      <4> QED
        BY <4>1, <4>2
    <3>2. next'[previous'[e]] = e
      <4>1. CASE e = n
        <5>1. p # a
          BY <4>1, <2>3, <1>2 DEF n
        <5> QED
          BY <5>1, <4>1, <2>3, <1>5
      <4>2. CASE e # n
        <5>1. previous'[e] = previous[e] /\ previous[e] \in Entry /\ next[previous[e]] = e
          BY <2>1, <2>3, <4>2, <1>3, <1>5
        <5>2. previous[e] # a /\ previous[e] # p
          BY <5>1, <4>2, <2>3, <1>2 DEF n
        <5> QED
          BY <5>1, <5>2, <1>5
      <4> QED
        BY <4>1, <4>2
    <3> QED
      BY <3>1, <3>2
  <2> QED
    BY <2>2, <2>3
<1> QED
  BY <1>5, <1>7, <1>8, <1>9

\* alt_alarm_stop, and a callback that returns.
LEMMA RemovalSteps ==
    ASSUME IInv,
           \/ \E c \in Context, a \in Alarm : Stop(c, a)
           \/ \E r \in Periods : Return(r)
    PROVE  IInv'
<1>1. ASSUME NEW a \in Alarm, next[a] # Null, Removed(a), UNCHANGED call, pie' = pie,
             \A c \in Context : ~Publishing(c),
             \/ UNCHANGED tick
             \/ tick.at = "callback" /\ tick' = [at |-> "visit", alarm |-> tick.next, next |-> Head]
      PROVE  IInv'
  <2>1. /\ next' \in [Entry -> Entry \cup {Null}] /\ previous' \in [Entry -> Entry \cup {Null}]
        /\ \A e \in Entry : next'[e] = Null <=> next[e] = Null
        /\ \A e \in Entry : next'[e] = Null <=> previous'[e] = Null
        /\ \A e \in Entry : next'[e] # Null =>
               previous'[next'[e]] = e /\ next'[previous'[e]] = e
    BY <1>1, RemovedStep
  <2>2. Head \in Entry
    BY DEF Entry
  <2>3. Types'
    BY <1>1, <2>1, <2>2 DEF IInv, Types
  <2>4. Known' /\ Linkage'
    BY <2>1, <2>2 DEF IInv, Known, Linkage
  <2>5. Pending'
    BY <1>1 DEF Pending, Publishing
  <2>6. Turns'
    BY <1>1 DEF IInv, Types, Turns, Publishing, Context
  <2>7. Walks'
    BY <1>1, <2>1 DEF IInv, Types, Walks
  <2> QED
    BY <2>3, <2>4, <2>5, <2>6, <2>7 DEF IInv
<1>2. ASSUME NEW c \in Context, CanCall(c) PROVE \A d \in Context : ~Publishing(d)
  BY <1>2 DEF CanCall, NoCall, Publishing, IInv, Turns, Context
<1>3. ASSUME NEW c \in Context, NEW a \in Alarm, Stop(c, a) PROVE IInv'
  <2>1. CanCall(c) /\ next[a] # Null /\ Removed(a) /\ pie' = pie /\ UNCHANGED <<call, tick>>
    BY <1>3 DEF Stop, Restored
  <2> QED
    BY <2>1, <1>1, <1>2
<1>4. ASSUME NEW r \in Periods, Return(r) PROVE IInv'
  <2> DEFINE a == tick.alarm
  <2>1. /\ CanCall("isr") /\ tick.at = "callback" /\ UNCHANGED <<pie, call>>
        /\ tick' = [at |-> "visit", alarm |-> tick.next, next |-> Head]
        /\ \A c \in Context : ~Publishing(c)
    <3>1. CanCall("isr") /\ UNCHANGED <<pie, call>>
          /\ tick' = [at |-> "visit", alarm |-> tick.next, next |-> Head]
      BY <1>4 DEF Return, NextVisit
    <3>2. "isr" \in Context
      BY DEF Context
    <3> QED
      BY <3>1, <3>2, <1>2 DEF CanCall
  <2>2. a \in Alarm /\ next[a] # Null
    BY <2>1 DEF IInv, Walks
  <2>3. CASE r = 0
    <3>1. Removed(a)
      BY <2>3, <1>4 DEF Return
    <3> QED
      BY <3>1, <2>1, <2>2, <1>1
  <2>4. CASE r # 0
    <3>1. UNCHANGED <<next, previous, call>> /\ Head \in Entry
      BY <2>1, <2>4, <1>4 DEF Return, list, Entry
    <3>2. Types'
      BY <2>1, <3>1 DEF IInv, Types
    <3>4. Known' /\ Linkage' /\ Pending'
      BY <3>1 DEF IInv, Known, Linkage, Pending, Publishing
    <3>3. Turns'
      BY <2>1, <3>1 DEF IInv, Turns, Publishing, Context
    <3>5. Walks'
      BY <2>1, <3>1 DEF IInv, Walks
    <3> QED
      BY <3>2, <3>3, <3>4, <3>5 DEF IInv
  <2> QED
    BY <2>3, <2>4
<1> QED
  BY <1>3, <1>4

\* The rest of alt_tick, and the clock.
LEMMA TickSteps ==
    ASSUME IInv, SysclkInit \/ Tick \/ Visit \/ Done \/ \E t \in Times : SetTime(t)
    PROVE  IInv'
<1>1. UNCHANGED <<next, previous, call>> /\ Head \in Entry
  BY DEF SysclkInit, Tick, Visit, Done, SetTime, vars, list, Entry
<1>2. Known' /\ Linkage' /\ Pending'
  BY <1>1 DEF IInv, Known, Linkage, Pending, Publishing
<1>3. CASE SysclkInit \/ \E t \in Times : SetTime(t)
  <2>1. UNCHANGED <<pie, tick>>
    BY <1>3 DEF SysclkInit, SetTime, vars
  <2>2. Types' /\ Turns' /\ Walks'
    BY <2>1, <1>1 DEF IInv, Types, Turns, Walks, Publishing
  <2> QED
    BY <2>2, <1>2 DEF IInv
<1>4. CASE Tick
  <2>1. /\ pie /\ tick.at = "idle" /\ pie' = FALSE
        /\ tick' = [at |-> "visit", alarm |-> next[Head], next |-> Head]
    BY <1>4 DEF Tick
  <2>2. \A c \in Context : ~Publishing(c)
    BY <2>1 DEF IInv, Turns, Context
  <2>3. next[Head] \in Entry /\ next[next[Head]] # Null
    BY <2>2, <1>1, Neighbours DEF IInv, Known
  <2>4. Types' /\ Walks'
    BY <2>1, <2>3, <1>1 DEF IInv, Types, Walks
  <2>5. Turns'
    BY <2>1, <2>2, <1>1 DEF Turns, Publishing, Context
  <2> QED
    BY <2>4, <2>5, <1>2 DEF IInv
<1>5. CASE Visit
  <2> DEFINE a == tick.alarm
  <2>1. /\ tick.at = "visit" /\ a # Head /\ UNCHANGED pie
        /\ tick' = [at |-> "callback", alarm |-> a, next |-> next[a]] \/ tick' = [tick EXCEPT !.alarm = next[a]]
    BY <1>5 DEF Visit
  <2>2. \A c \in Context : ~Publishing(c)
    BY <2>1 DEF IInv, Turns, Context
  <2>3. a \in Alarm /\ a \in Entry /\ next[a] # Null
    BY <2>1 DEF IInv, Walks, Types, Entry
  <2>4. next[a] \in Entry /\ next[next[a]] # Null
    BY <2>2, <2>3, Neighbours
  <2>5. Types' /\ Walks'
    BY <2>1, <2>3, <2>4, <1>1 DEF IInv, Types, Walks
  <2>6. tick'.at # "idle" /\ ~pie'
    BY <2>1 DEF IInv, Types, Turns
  <2>7. Turns'
    BY <2>2, <2>6, <1>1 DEF Turns, Publishing, Context
  <2> QED
    BY <2>5, <2>7, <1>2 DEF IInv
<1>6. CASE Done
  <2>1. tick.at = "visit" /\ tick' = NoTick /\ pie' = TRUE
    BY <1>6 DEF Done
  <2>2. \A c \in Context : ~Publishing(c)
    BY <2>1 DEF IInv, Turns, Context
  <2>3. Types' /\ Walks'
    BY <2>1, <1>1 DEF IInv, Types, Walks, NoTick
  <2>4. Turns'
    BY <2>1, <2>2, <1>1 DEF Turns, Publishing, Context, NoTick
  <2> QED
    BY <2>3, <2>4, <1>2 DEF IInv
<1> QED
  BY <1>3, <1>4, <1>5, <1>6

LEMMA Initially == ASSUME TimeInit PROVE IInv
<1>1. Null \notin Entry /\ Head \in Entry
  BY EntryAssumption DEF Entry
<1>2. /\ next = [e \in Entry |-> IF e = Head THEN Head ELSE Null] /\ previous = next
      /\ pie = TRUE /\ tick = NoTick
      /\ call = [c \in Context |-> NoCall]
  BY DEF TimeInit, Init
<1>3. Types
  BY <1>1, <1>2 DEF Types, Calls, NoCall, NoTick
<1>4. Known /\ Linkage
  BY <1>1, <1>2 DEF Known, Linkage
<1>5. \A c \in Context : ~Publishing(c)
  BY <1>2 DEF Publishing, NoCall
<1>6. Pending /\ Turns /\ Walks
  BY <1>2, <1>5 DEF Pending, Turns, Walks, NoTick, Context
<1> QED
  BY <1>3, <1>4, <1>6 DEF IInv

THEOREM Invariance == TimeSpec => []IInv
<1>1. ASSUME IInv, [TimeNext]_allVars PROVE IInv'
  <2>1. ASSUME NEW c \in Context, NEW a \in Alarm, NEW n \in Delays, Start(c, a, n) PROVE IInv'
    BY <1>1, <2>1, StartStep
  <2>2. ASSUME NEW c \in Context, Publish(c) PROVE IInv'
    BY <1>1, <2>2, PublishStep
  <2>3. CASE \/ \E c \in Context, a \in Alarm : Stop(c, a)
             \/ \E r \in Periods : Return(r)
    BY <1>1, <2>3, RemovalSteps
  <2>4. CASE SysclkInit \/ Tick \/ Visit \/ Done \/ \E t \in Times : SetTime(t)
    BY <1>1, <2>4, TickSteps
  <2>5. CASE UNCHANGED allVars
    BY <1>1, <2>5 DEF IInv, Types, Known, Linkage, Pending, Turns, Walks, Publishing, allVars,
                      vars, list
  <2> QED
    BY <1>1, <2>1, <2>2, <2>3, <2>4, <2>5 DEF TimeNext, Next, Application
<1> QED
  BY <1>1, Initially, PTL DEF TimeSpec

\* The list of alarms is the same list in both directions whenever somebody
\* walks it (alt_llist.h:90-117).
THEOREM ListWoven == TimeSpec => []Woven
  BY Invariance, InvImpliesWoven, PTL

\* No tick is interrupted by the next, whatever its callbacks call
\* (alt_irq.h:143-159).
THEOREM OneTickAtATime == TimeSpec => []TicksNeverNest
<1>1. IInv => TicksNeverNest
  BY DEF IInv, Turns, TicksNeverNest
<1> QED
  BY <1>1, Invariance, PTL
-----------------------------------------------------------------------------
(* The order of the list, and where alt_tick is in it.                      *)

\* The head and the alarms that are in the list, published or not.
Listed == {Head} \cup {a \in Alarm : Linked(a)}

\* pos numbers the list from its first alarm to the head, which ends it: from
\* an alarm the link leads to the entry with the next higher number, from the
\* head to the lowest, but for an alarm that is being published.
Ordered(pos) ==
    /\ \A e \in Listed : next[e] \in Listed /\ pos[e] =< pos[Head]
    /\ \A e, f \in Listed : pos[e] = pos[f] => e = f
    /\ \A a \in Listed \ {Head} :
           /\ pos[a] < pos[next[a]]
           /\ \A e \in Listed : pos[a] < pos[e] => pos[next[a]] =< pos[e]
    /\ \A e \in Listed :
           pos[next[Head]] > pos[e] => \E c \in Context : Publishing(c) /\ call[c].alarm = e

Numbers ==
    /\ _alt_nticks \in 0 .. Wrap - 1
    /\ time \in [Alarm -> 0 .. Wrap - 1] /\ rollover \in [Alarm -> BOOLEAN]

\* An alarm's deadline has not passed, or lies beyond the wrap.
Timed ==
    \A a \in Alarm : Linked(a) =>
        IF RollsOn(a) THEN time[a] < _alt_nticks ELSE _alt_nticks =< time[a]

\* alt_tick is at an entry of the list, and so is the link it has read before a
\* callback; the callback is due, unless it has stopped its own alarm.
Stands ==
    /\ tick.at = "visit" => tick.alarm \in Listed
    /\ tick.at = "callback" =>
           /\ tick.next \in Listed /\ tick.next # tick.alarm
           /\ ~rollover[tick.alarm]
           /\ Linked(tick.alarm) => time[tick.alarm] = _alt_nticks

\* What a tick has to do to an alarm: call it back, or clear its flag.
Owed(a) ==
    /\ Linked(a)
    /\ \/ ~RollsOn(a) /\ time[a] = _alt_nticks
       \/ rollover[a] /\ _alt_nticks = 0

\* Whatever is owed is still ahead of the walk.
Ahead(pos) ==
    \A b \in Alarm : Owed(b) =>
        \/ tick.at = "visit" /\ pos[tick.alarm] =< pos[b]
        \/ tick.at = "callback" /\ (b = tick.alarm \/ pos[tick.next] =< pos[b])

TInv ==
    /\ Numbers /\ Timed /\ Stands
    /\ \E pos \in [Entry -> Int] : Ordered(pos) /\ Ahead(pos)

LEMMA ListedFacts ==
    /\ Head \in Listed /\ Listed \subseteq Entry /\ Head \in Entry
    /\ \A a \in Alarm : a \in Entry /\ a # Head /\ (a \in Listed <=> Linked(a))
    /\ \A e \in Listed : e = Head \/ e \in Alarm
  BY EntryAssumption DEF Listed, Entry

\* Without a change of the list the numbers stay.
LEMMA SameOrder ==
    ASSUME NEW pos, Ordered(pos), UNCHANGED <<next, call>>
    PROVE  Ordered(pos)' /\ Listed' = Listed
  BY DEF Ordered, Listed, Linked, Publishing

\* A new alarm comes before all others.
LEMMA InsertOrder ==
    ASSUME IInv, NEW c \in Context, NEW a \in Alarm, NEW n \in Delays, Start(c, a, n),
           NEW pos \in [Entry -> Int], Ordered(pos)
    PROVE  /\ a \notin Listed /\ Listed' = Listed \cup {a}
           /\ \E pos2 \in [Entry -> Int] :
                  (\A e \in Listed : pos2[e] = pos[e]) /\ Ordered(pos2)'
<1> DEFINE h == next[Head]
<1>0. PICK pos2 \in [Entry -> Int] : pos2 = [pos EXCEPT ![a] = pos[next[Head]] - 1]
  <2>1. next[Head] \in Entry /\ a \in Entry
    BY ListedFacts DEF Ordered
  <2>2. [pos EXCEPT ![a] = pos[next[Head]] - 1] \in [Entry -> Int]
    <3> HIDE DEF h
    <3> QED
      BY <2>1
  <2> QED
    BY <2>2
<1>1. /\ next' = [next EXCEPT ![a] = h] /\ ~Linked(a)
      /\ call' = [call EXCEPT ![c] = [step |-> "publish", alarm |-> a, context |-> pie]]
      /\ next \in [Entry -> Entry \cup {Null}] /\ call \in [Context -> Calls]
  BY DEF Start, IInv, Types
<1>2. \A d \in Context : ~Publishing(d)
  BY DEF Start, CanCall, NoCall, Publishing, IInv, Turns, Context
<1>3. a \notin Listed /\ a \in Entry /\ a # Head /\ h \in Listed /\ h # Null /\ Null \notin Listed
  BY <1>1, ListedFacts, EntryAssumption DEF Ordered, Entry
<1>4. h # a
  BY <1>3
<1>5. next'[a] = h /\ (\A e \in Entry \ {a} : next'[e] = next[e])
  BY <1>1, <1>3
<1>6. Listed' = Listed \cup {a}
  <2>1. \A b \in Alarm \ {a} : Linked(b)' <=> Linked(b)
    BY <1>5, ListedFacts DEF Linked
  <2>2. Linked(a)'
    BY <1>3, <1>4, <1>5 DEF Linked
  <2> QED
    BY <2>1, <2>2 DEF Listed
<1>7. \A e \in Listed : pos[h] =< pos[e]
  BY <1>2, <1>3, ListedFacts DEF Ordered
<1>8. /\ pos2 \in [Entry -> Int] /\ pos2[a] = pos[h] - 1
      /\ \A e \in Listed : pos2[e] = pos[e] /\ pos[e] \in Int /\ pos2[a] < pos2[e]
  BY <1>0, <1>3, <1>7, ListedFacts
<1>9. Publishing(c)' /\ call'[c].alarm = a
  BY <1>1 DEF Publishing
<1> HIDE DEF h
<1>10. \A e \in Listed' : next'[e] \in Listed' /\ pos2[e] =< pos2[Head]
  <2>1. \A e \in Listed : next[e] \in Listed /\ pos[e] =< pos[Head] /\ next'[e] = next[e]
    BY <1>3, <1>5, ListedFacts DEF Ordered
  <2> QED
    BY <2>1, <1>3, <1>5, <1>6, <1>8, ListedFacts
<1>11. \A e, f \in Listed' : pos2[e] = pos2[f] => e = f
  <2>1. \A e, f \in Listed : pos[e] = pos[f] => e = f
    BY DEF Ordered
  <2> QED
    BY <2>1, <1>6, <1>8
<1>12. ASSUME NEW b \in Listed' \ {Head}
       PROVE  /\ pos2[b] < pos2[next'[b]]
              /\ \A e \in Listed' : pos2[b] < pos2[e] => pos2[next'[b]] =< pos2[e]
  <2>1. CASE b = a
    BY <2>1, <1>3, <1>5, <1>6, <1>7, <1>8
  <2>2. CASE b # a
    <3>1. /\ b \in Listed /\ next'[b] = next[b] /\ next[b] \in Listed
          /\ pos[b] < pos[next[b]]
          /\ \A e \in Listed : pos[b] < pos[e] => pos[next[b]] =< pos[e]
      BY <2>2, <1>5, <1>6, <1>12, ListedFacts DEF Ordered
    <3>2. pos2[b] = pos[b] /\ pos2[next'[b]] = pos[next[b]] /\ pos2[a] < pos2[b]
      BY <3>1, <1>8
    <3>3. ASSUME NEW e \in Listed', pos2[b] < pos2[e] PROVE pos2[next'[b]] =< pos2[e]
      <4>1. e # a
        BY <3>1, <3>2, <3>3, <1>3, <1>8, ListedFacts
      <4> QED
        BY <3>1, <3>2, <3>3, <4>1, <1>6, <1>8
    <3> QED
      BY <3>1, <3>2, <3>3
  <2> QED
    BY <2>1, <2>2
<1>13. next'[Head] = h
  BY <1>3, <1>5, ListedFacts DEF h
<1>14. \A e \in Listed' : pos2[next'[Head]] > pos2[e] => e = a
  BY <1>3, <1>6, <1>7, <1>8, <1>13
<1> QED
  BY <1>3, <1>6, <1>8, <1>9, <1>10, <1>11, <1>12, <1>14 DEF Ordered

\* Publishing an alarm makes it the first.
LEMMA PublishOrder ==
    ASSUME IInv, NEW c \in Context, Publish(c), NEW pos \in [Entry -> Int], Ordered(pos)
    PROVE  Listed' = Listed /\ Ordered(pos)'
<1> DEFINE a == call[c].alarm
<1>1. /\ Publishing(c) /\ next' = [next EXCEPT ![Head] = a]
      /\ next \in [Entry -> Entry \cup {Null}]
  BY DEF Publish, Publishing, IInv, Types
<1>2. a \in Alarm /\ next[a] = next[Head] /\ next[a] # a /\ next[a] # Null
  BY <1>1 DEF IInv, Pending, Known
<1>3. \A d \in Context \ {c} : ~Publishing(d)
  BY <1>1 DEF IInv, Turns, Publishing, Context
<1> HIDE DEF a
<1>4. next'[Head] = a /\ \A e \in Entry \ {Head} : next'[e] = next[e]
  BY <1>1, ListedFacts
<1>5. Listed' = Listed /\ a \in Listed \ {Head}
  <2>1. \A b \in Alarm : Linked(b)' <=> Linked(b)
    BY <1>4, ListedFacts DEF Linked
  <2>2. Linked(a)
    BY <1>2 DEF Linked
  <2> QED
    BY <2>1, <2>2, <1>2, ListedFacts DEF Listed
<1>6. \A e \in Listed : pos[e] \in Int
  BY ListedFacts
<1>7. ASSUME NEW e \in Listed PROVE pos[a] =< pos[e]
  <2>1. pos[a] < pos[next[a]] /\ next[a] \in Listed
    BY <1>5 DEF Ordered
  <2>2. pos[next[Head]] > pos[e] => e = a
    BY <1>3 DEF Ordered, a
  <2> QED
    BY <2>1, <2>2, <1>2, <1>5, <1>6
<1>8. \A e \in Listed' : next'[e] \in Listed' /\ pos[e] =< pos[Head]
  BY <1>4, <1>5, ListedFacts DEF Ordered
<1>9. \A e, f \in Listed' : pos[e] = pos[f] => e = f
  BY <1>5 DEF Ordered
<1>10. \A b \in Listed' \ {Head} :
           /\ pos[b] < pos[next'[b]]
           /\ \A e \in Listed' : pos[b] < pos[e] => pos[next'[b]] =< pos[e]
  <2>1. \A b \in Listed \ {Head} : next'[b] = next[b]
    BY <1>4, ListedFacts
  <2> QED
    BY <2>1, <1>5 DEF Ordered
<1>11. \A e \in Listed' : ~(pos[next'[Head]] > pos[e])
  BY <1>4, <1>5, <1>6, <1>7
<1> QED
  BY <1>5, <1>8, <1>9, <1>10, <1>11 DEF Ordered

\* What is left when an alarm is taken out keeps its numbers.
LEMMA RemoveOrder ==
    ASSUME IInv, \A c \in Context : ~Publishing(c), UNCHANGED call,
           NEW a \in Alarm, next[a] # Null, Removed(a),
           NEW pos \in [Entry -> Int], Ordered(pos)
    PROVE  Listed' = Listed \ {a} /\ Ordered(pos)'
<1> DEFINE p == previous[a]
           n == next[a]
<1>1. /\ a \in Entry /\ a # Head /\ a # Null /\ Null \notin Entry
      /\ next \in [Entry -> Entry \cup {Null}]
  BY EntryAssumption DEF Entry, IInv, Types
<1>2. /\ p \in Entry /\ n \in Entry /\ next[p] = a
      /\ \A e \in Entry : next[e] = a => e = p
  <2>1. \A e \in Entry : next[e] # Null => previous[next[e]] = e
    BY Neighbours
  <2> QED
    BY <1>1, <2>1, Neighbours
<1>3. next' = [next EXCEPT ![p] = n, ![a] = a]
  BY DEF Removed
<1>4. \A e \in Listed : pos[e] \in Int
  BY ListedFacts
<1>5. CASE ~Linked(a)
  <2>1. n = a /\ p = a
    BY <1>1, <1>2, <1>5 DEF Linked
  <2>2. next' = next
    BY <1>1, <1>3, <2>1
  <2>3. a \notin Listed
    BY <1>5, ListedFacts
  <2> QED
    BY <2>2, <2>3, SameOrder
<1>6. CASE Linked(a)
  <2>1. a \in Listed \ {Head} /\ n \in Listed /\ pos[a] < pos[n] /\ n # a
    BY <1>4, <1>6, ListedFacts DEF Ordered
  <2>2. \A e \in Listed : pos[a] < pos[e] => pos[n] =< pos[e]
    BY <2>1 DEF Ordered
  <2>3. p # a
    BY <1>2, <2>1
  <2> HIDE DEF p, n
  <2>4. next'[a] = a /\ next'[p] = n /\ \A e \in Entry \ {a, p} : next'[e] = next[e]
    BY <1>1, <1>2, <1>3, <2>3
  <2>5. p # Head => p \in Listed
    <3> SUFFICES ASSUME p # Head PROVE p \in Listed
      OBVIOUS
    <3>1. p \in Alarm /\ Linked(p)
      BY <1>1, <1>2, <2>3 DEF Entry, Linked
    <3> QED
      BY <3>1, ListedFacts
  <2>6. p # n \/ p = Head
    BY <1>2, <1>4, <2>1, <2>5 DEF Ordered
  <2>7. Listed' = Listed \ {a}
    <3>1. \A b \in Alarm \ {a} : Linked(b)' <=> Linked(b)
      <4> SUFFICES ASSUME NEW b \in Alarm \ {a} PROVE Linked(b)' <=> Linked(b)
        OBVIOUS
      <4>1. CASE b = p
        <5>1. Linked(b)' /\ Linked(b)
          BY <4>1, <1>1, <1>2, <2>3, <2>4, <2>6, ListedFacts DEF Linked
        <5> QED
          BY <5>1
      <4>2. CASE b # p
        BY <4>2, <2>4, ListedFacts DEF Linked
      <4> QED
        BY <4>1, <4>2
    <3>2. ~Linked(a)'
      BY <2>4 DEF Linked
    <3> QED
      BY <3>1, <3>2, <1>1 DEF Listed
  <2>8. \A e \in Listed \ {a} : pos[e] \in Int /\ (pos[a] =< pos[e] => pos[n] =< pos[e])
    <3> SUFFICES ASSUME NEW e \in Listed \ {a}
                 PROVE pos[e] \in Int /\ (pos[a] =< pos[e] => pos[n] =< pos[e])
      OBVIOUS
    <3>1. pos[e] \in Int /\ pos[a] \in Int
      BY <1>4, <2>1
    <3>2. pos[a] # pos[e]
      BY <2>1 DEF Ordered
    <3>3. pos[a] < pos[e] => pos[n] =< pos[e]
      BY <2>2
    <3> QED
      BY <3>1, <3>2, <3>3
  <2>9. \A e \in Listed \ {a, p} : next'[e] = next[e] /\ next[e] \in Listed \ {a}
    BY <1>2, <2>4, ListedFacts DEF Ordered
  <2>10. \A e \in Listed' : next'[e] \in Listed' /\ pos[e] =< pos[Head]
    BY <2>1, <2>4, <2>7, <2>9 DEF Ordered
  <2>11. \A e, f \in Listed' : pos[e] = pos[f] => e = f
    BY <2>7 DEF Ordered
  <2>12. ASSUME NEW b \in Listed' \ {Head}
         PROVE  /\ pos[b] < pos[next'[b]]
                /\ \A e \in Listed' : pos[b] < pos[e] => pos[next'[b]] =< pos[e]
    <3>1. CASE b = p
      <4>1. b \in Listed \ {Head} /\ next[b] = a /\ next'[b] = n
        BY <3>1, <1>2, <2>4, <2>7, <2>12
      <4>2. /\ pos[b] < pos[a]
            /\ \A e \in Listed : pos[b] < pos[e] => pos[a] =< pos[e]
        BY <4>1 DEF Ordered
      <4> QED
        BY <4>1, <4>2, <1>4, <2>1, <2>7, <2>8
    <3>2. CASE b # p
      <4>1. b \in Listed \ {a, p} /\ b # Head /\ next'[b] = next[b]
        BY <3>2, <2>7, <2>9, <2>12
      <4> QED
        BY <4>1, <2>7 DEF Ordered
    <3> QED
      BY <3>1, <3>2
  <2>13. \A e \in Listed' : ~(pos[next'[Head]] > pos[e])
    <3> SUFFICES ASSUME NEW e \in Listed \ {a} PROVE pos[next'[Head]] =< pos[e]
      <4>1. next'[Head] \in Listed
        BY <2>7, <2>10, ListedFacts
      <4> QED
        BY <4>1, <2>7, <1>4
    <3>1. pos[next[Head]] =< pos[e] /\ next[Head] \in Listed
      BY <1>4, ListedFacts DEF Ordered
    <3>2. CASE p = Head
      BY <3>1, <3>2, <1>2, <2>4, <2>8
    <3>3. CASE p # Head
      BY <3>1, <3>3, <1>1, <2>4, ListedFacts
    <3> QED
      BY <3>2, <3>3
  <2> QED
    BY <2>7, <2>10, <2>11, <2>12, <2>13 DEF Ordered
<1> QED
  BY <1>5, <1>6
-----------------------------------------------------------------------------
(* What every step does to the ticks the alarms have left.                  *)

\* Counting modulo Wrap, over less than two rounds.
LEMMA ModWrap ==
    ASSUME NEW n \in 0 .. 2 * Wrap - 1
    PROVE  n % Wrap = IF n < Wrap THEN n ELSE n - Wrap
<1>1. CASE n < Wrap
  BY <1>1, WrapAssumption
<1>2. CASE ~(n < Wrap)
  BY <1>2, WrapAssumption
<1> QED
  BY <1>1, <1>2

\* The steps of TimerSet, said of the ticks left.
Remaining == [a \in Alarm |-> Left(a)]
Ticking == tick.at # "idle"

Maps == Timers!Next \/ UNCHANGED <<Remaining, Ticking>>

LEMMA StutterMaps ==
    ASSUME \A b \in Alarm : Left(b)' = Left(b), Ticking' = Ticking
    PROVE  Maps
  BY DEF Maps, Remaining

LEMMA StartMaps ==
    ASSUME NEW a \in Alarm, NEW n \in Delays, Left(a) = Off, Left(a)' = n + 1,
           \A b \in Alarm \ {a} : Left(b)' = Left(b), Ticking' = Ticking
    PROVE  Maps
<1>1. Remaining[a] = Off /\ Remaining' = [Remaining EXCEPT ![a] = n + 1]
  BY DEF Remaining
<1>2. Timers!Start(a)
  BY <1>1 DEF Timers!Start, Remaining, Ticking
<1> QED
  BY <1>2 DEF Maps, Timers!Next

LEMMA StopMaps ==
    ASSUME NEW a \in Alarm, Left(a)' = Off,
           \A b \in Alarm \ {a} : Left(b)' = Left(b), Ticking' = Ticking
    PROVE  Maps
<1>1. Remaining' = [Remaining EXCEPT ![a] = Off]
  BY DEF Remaining
<1>2. Timers!Stop(a)
  BY <1>1 DEF Timers!Stop, Remaining, Ticking
<1> QED
  BY <1>2 DEF Maps, Timers!Next

LEMMA GoOffMaps ==
    ASSUME NEW a \in Alarm, NEW r \in Periods, Left(a) = 0, Ticking,
           Left(a)' = IF r = 0 THEN Off ELSE r,
           \A b \in Alarm \ {a} : Left(b)' = Left(b), Ticking' = Ticking
    PROVE  Maps
<1>1. Remaining[a] = 0 /\ Remaining' = [Remaining EXCEPT ![a] = IF r = 0 THEN Off ELSE r]
  BY DEF Remaining
<1>2. Timers!GoOff(a)
  BY <1>1 DEF Timers!GoOff, Remaining, Ticking
<1> QED
  BY <1>2 DEF Maps, Timers!Next

LEMMA BeginTickMaps ==
    ASSUME ~Ticking, Ticking',
           \A b \in Alarm : Left(b)' = IF Left(b) = Off THEN Off ELSE Left(b) - 1
    PROVE  Maps
<1>1. Timers!BeginTick
  <2>1. Remaining' = [a \in Alarm |-> IF Remaining[a] = Off THEN Off ELSE Remaining[a] - 1]
    BY DEF Remaining
  <2> QED
    BY <2>1 DEF Timers!BeginTick, Remaining, Ticking
<1> QED
  BY <1>1 DEF Maps, Timers!Next

LEMMA EndTickMaps ==
    ASSUME Ticking, ~Ticking', \A b \in Alarm : Left(b) # 0 /\ Left(b)' = Left(b)
    PROVE  Maps
<1>1. Timers!EndTick
  BY DEF Timers!EndTick, Remaining, Ticking
<1> QED
  BY <1>1 DEF Maps, Timers!Next

\* The ticks left of an alarm in the list are fewer than Wrap, and none are
\* left exactly when it is due.
LEMMA LeftFacts ==
    ASSUME Numbers, Timed, NEW a \in Alarm
    PROVE  /\ Linked(a) => Left(a) \in 0 .. Wrap - 1 /\ Left(a) # Off
           /\ ~Linked(a) => Left(a) = Off
           /\ Left(a) = 0 => Owed(a)
<1>1. /\ _alt_nticks \in 0 .. Wrap - 1 /\ time[a] \in 0 .. Wrap - 1 /\ Wrap \in Nat /\ Wrap > 2
  BY WrapAssumption DEF Numbers
<1>2. CASE ~Linked(a)
  BY <1>1, <1>2 DEF Left, Off
<1>3. CASE Linked(a) /\ RollsOn(a)
  BY <1>1, <1>3 DEF Left, Off, Timed
<1>4. CASE Linked(a) /\ ~RollsOn(a)
  BY <1>1, <1>4 DEF Left, Off, Timed, Owed
<1> QED
  BY <1>2, <1>3, <1>4

\* What is known of one alarm is kept while its links, its deadline and the
\* counter stay.
LEMMA SameAlarm ==
    ASSUME NEW b \in Alarm, Linked(b)' <=> Linked(b),
           time'[b] = time[b], rollover'[b] = rollover[b], _alt_nticks' = _alt_nticks
    PROVE  /\ Left(b)' = Left(b) /\ (Owed(b)' <=> Owed(b)) /\ (RollsOn(b)' <=> RollsOn(b))
  BY DEF Left, Owed, RollsOn

\* alt_alarm_start sets an alarm for the tick after n others.
LEMMA StartTimes ==
    ASSUME IInv, TInv, NEW c \in Context, NEW a \in Alarm, NEW n \in Delays, Start(c, a, n)
    PROVE  TInv' /\ Maps
<1> DEFINE D == Deadline(n)
<1>1. PICK pos \in [Entry -> Int] : Ordered(pos) /\ Ahead(pos)
  BY DEF TInv
<1>2. a \notin Listed /\ Listed' = Listed \cup {a}
  BY <1>1, InsertOrder
<1>0. PICK pos2 \in [Entry -> Int] : (\A e \in Listed : pos2[e] = pos[e]) /\ Ordered(pos2)'
  BY <1>1, InsertOrder
<1>3. /\ CanCall(c) /\ (c = "isr" => a # tick.alarm)
      /\ time' = [time EXCEPT ![a] = D] /\ rollover' = [rollover EXCEPT ![a] = RollsOver(D)]
      /\ _alt_nticks' = _alt_nticks /\ tick' = tick
  BY DEF Start
<1>4. Numbers /\ n \in 0 .. Wrap - 2 /\ _alt_nticks \in 0 .. Wrap - 1
  BY DelaysAssumption DEF TInv, Numbers
<1>5. /\ D \in 0 .. Wrap - 1
      /\ RollsOver(D) => _alt_nticks # 0 /\ D < _alt_nticks /\ D + Wrap - _alt_nticks = n + 1
      /\ ~RollsOver(D) => _alt_nticks < D /\ D - _alt_nticks = n + 1
      /\ RollsOver(D) \in BOOLEAN
  <2>1. n + _alt_nticks + 1 \in 0 .. 2 * Wrap - 1
    BY <1>4, WrapAssumption
  <2>2. D = IF n + _alt_nticks + 1 < Wrap THEN n + _alt_nticks + 1
            ELSE n + _alt_nticks + 1 - Wrap
    <3>1. D = (n + _alt_nticks + 1) % Wrap
      BY DEF Deadline
    <3> HIDE DEF D
    <3> QED
      BY <2>1, <3>1, <1>4, ModWrap, WrapAssumption
  <2> HIDE DEF D
  <2> QED
    BY <2>2, <1>4, WrapAssumption DEF RollsOver
<1> HIDE DEF D
<1>6. /\ time'[a] = D /\ rollover'[a] = RollsOver(D)
      /\ \A b \in Alarm \ {a} : time'[b] = time[b] /\ rollover'[b] = rollover[b]
  BY <1>3, <1>4 DEF Numbers
<1>7. Numbers'
  BY <1>3, <1>4, <1>5 DEF Numbers
<1>8. Linked(a)' /\ ~Linked(a) /\ \A b \in Alarm \ {a} : Linked(b)' <=> Linked(b)
  <2>1. \A b \in Alarm : (b \in Listed' <=> Linked(b)') /\ (b \in Listed <=> Linked(b))
    BY ListedFacts, EntryAssumption DEF Listed
  <2> QED
    BY <2>1, <1>2
<1>9. \A b \in Alarm \ {a} : /\ Left(b)' = Left(b) /\ (Owed(b)' <=> Owed(b))
                             /\ (RollsOn(b)' <=> RollsOn(b))
  BY <1>3, <1>6, <1>8, SameAlarm
<1>10. RollsOn(a)' <=> RollsOver(D)
  BY <1>3, <1>5, <1>6 DEF RollsOn
<1>11. Left(a) = Off /\ Left(a)' = n + 1
  <2>1. Left(a) = Off
    BY <1>8 DEF Left
  <2>2. CASE RollsOver(D)
    BY <2>2, <1>3, <1>5, <1>6, <1>8, <1>10 DEF Left
  <2>3. CASE ~RollsOver(D)
    <3>1. ~(time'[a] < _alt_nticks')
      BY <2>3, <1>3, <1>5, <1>6, <1>4
    <3> QED
      BY <2>3, <3>1, <1>3, <1>5, <1>6, <1>8, <1>10 DEF Left
  <2> QED
    BY <2>1, <2>2, <2>3
<1>12. ~Owed(a)'
  <2>1. CASE RollsOver(D)
    BY <2>1, <1>3, <1>5, <1>10 DEF Owed
  <2>2. CASE ~RollsOver(D)
    BY <2>2, <1>3, <1>4, <1>5, <1>6, WrapAssumption DEF Owed
  <2> QED
    BY <2>1, <2>2
<1>13. Timed'
  <2>1. ASSUME NEW b \in Alarm, Linked(b)'
        PROVE  IF RollsOn(b)' THEN time'[b] < _alt_nticks' ELSE _alt_nticks' =< time'[b]
    <3>1. CASE b = a
      BY <3>1, <1>3, <1>4, <1>5, <1>6, <1>10
    <3>2. CASE b # a
      BY <3>2, <2>1, <1>3, <1>6, <1>8, <1>9 DEF TInv, Timed
    <3> QED
      BY <3>1, <3>2
  <2> QED
    BY <2>1 DEF Timed
<1>14. c = "isr" => tick.at = "callback"
  BY <1>3 DEF CanCall
<1>15. c # "isr" => tick.at = "idle"
  BY <1>3 DEF CanCall, Context
<1>16. Stands'
  <2>1. CASE tick.at = "callback"
    BY <2>1, <1>2, <1>3, <1>6, <1>8, <1>15 DEF TInv, Stands, IInv, Walks
  <2>2. CASE tick.at # "callback"
    BY <2>2, <1>3, <1>14, <1>15 DEF Stands
  <2> QED
    BY <2>1, <2>2
<1>17. Ahead(pos2)'
  <2>1. SUFFICES ASSUME NEW b \in Alarm, Owed(b)'
                 PROVE  \/ tick'.at = "visit" /\ pos2[tick'.alarm] =< pos2[b]
                        \/ tick'.at = "callback" /\ (b = tick'.alarm \/ pos2[tick'.next] =< pos2[b])
    BY DEF Ahead
  <2>2. b # a /\ Owed(b)
    BY <2>1, <1>9, <1>12
  <2>3. b \in Listed
    BY <2>2, ListedFacts DEF Owed
  <2>4. tick.at = "callback" /\ (b = tick.alarm \/ pos[tick.next] =< pos[b])
    BY <2>2, <1>1, <1>14, <1>15 DEF Ahead
  <2>5. tick.next \in Listed
    BY <2>4 DEF TInv, Stands
  <2> QED
    BY <2>3, <2>4, <2>5, <1>0, <1>2, <1>3
<1>18. Maps
  <2>1. Ticking' = Ticking
    BY <1>3 DEF Ticking
  <2> QED
    BY <2>1, <1>9, <1>11, StartMaps
<1> QED
  BY <1>0, <1>7, <1>13, <1>16, <1>17, <1>18 DEF TInv

LEMMA PublishTimes ==
    ASSUME IInv, TInv, NEW c \in Context, Publish(c)
    PROVE  TInv' /\ Maps
<1>1. PICK pos \in [Entry -> Int] : Ordered(pos) /\ Ahead(pos)
  BY DEF TInv
<1>2. Listed' = Listed /\ Ordered(pos)'
  BY <1>1, PublishOrder
<1>3. UNCHANGED <<_alt_nticks, time, rollover, tick>>
  BY DEF Publish, deadline
<1>4. \A b \in Alarm : Linked(b)' <=> Linked(b)
  <2>1. \A b \in Alarm : (b \in Listed' <=> Linked(b)') /\ (b \in Listed <=> Linked(b))
    BY ListedFacts, EntryAssumption DEF Listed
  <2> QED
    BY <2>1, <1>2
<1>5. \A b \in Alarm : /\ Left(b)' = Left(b) /\ (Owed(b)' <=> Owed(b))
                       /\ (RollsOn(b)' <=> RollsOn(b))
  BY <1>3, <1>4, SameAlarm
<1>6. Numbers' /\ Timed'
  BY <1>3, <1>4, <1>5 DEF TInv, Numbers, Timed
<1>7. Stands'
  <2>1. tick.alarm \in Alarm \/ tick.at # "callback"
    BY DEF IInv, Walks
  <2> QED
    BY <2>1, <1>2, <1>3, <1>4 DEF TInv, Stands
<1>8. Ahead(pos)'
  BY <1>1, <1>3, <1>5 DEF Ahead
<1>9. Maps
  BY <1>3, <1>5, StutterMaps DEF Ticking
<1> QED
  BY <1>2, <1>6, <1>7, <1>8, <1>9 DEF TInv

\* An alarm taken out of the list has no ticks left to count; the others keep
\* theirs.
LEMMA RemovedTimes ==
    ASSUME IInv, TInv, \A c \in Context : ~Publishing(c), UNCHANGED call,
           NEW a \in Alarm, next[a] # Null, Removed(a),
           UNCHANGED <<_alt_nticks, time, rollover>>
    PROVE  /\ Listed' = Listed \ {a} /\ ~Linked(a)' /\ Left(a)' = Off
           /\ \A b \in Alarm \ {a} : /\ Linked(b)' <=> Linked(b)
                                     /\ Left(b)' = Left(b)
                                     /\ Owed(b)' <=> Owed(b)
           /\ Numbers' /\ Timed'
           /\ \E pos \in [Entry -> Int] : Ordered(pos)' /\ Ahead(pos)
<1>1. PICK pos \in [Entry -> Int] : Ordered(pos) /\ Ahead(pos)
  BY DEF TInv
<1>2. Listed' = Listed \ {a} /\ Ordered(pos)'
  BY <1>1, RemoveOrder
<1>3. ~Linked(a)' /\ \A b \in Alarm \ {a} : Linked(b)' <=> Linked(b)
  <2>1. \A b \in Alarm : (b \in Listed' <=> Linked(b)') /\ (b \in Listed <=> Linked(b))
    BY ListedFacts, EntryAssumption DEF Listed
  <2> QED
    BY <2>1, <1>2
<1>4. \A b \in Alarm \ {a} : /\ Left(b)' = Left(b) /\ (Owed(b)' <=> Owed(b))
                             /\ (RollsOn(b)' <=> RollsOn(b))
  BY <1>3, SameAlarm
<1>5. Left(a)' = Off
  BY <1>3 DEF Left, Off
<1>6. Numbers' /\ Timed'
  BY <1>3, <1>4 DEF TInv, Numbers, Timed
<1> QED
  BY <1>1, <1>2, <1>3, <1>4, <1>5, <1>6

LEMMA NobodyPublishes ==
    ASSUME IInv, \/ \E c \in Context : CanCall(c)
                 \/ tick.at = "visit"
                 \/ pie
    PROVE  \A c \in Context : ~Publishing(c)
  BY DEF CanCall, NoCall, Publishing, IInv, Turns, Context

\* alt_alarm_stop.
LEMMA StopTimes ==
    ASSUME ~Reckless, IInv, TInv, NEW c \in Context, NEW a \in Alarm, Stop(c, a)
    PROVE  TInv' /\ Maps
<1>1. /\ CanCall(c) /\ next[a] # Null /\ Removed(a)
      /\ c = "isr" => a # tick.next
      /\ UNCHANGED <<_alt_nticks, time, rollover, call, tick>>
  BY DEF Stop, deadline
<1>2. \A d \in Context : ~Publishing(d)
  BY <1>1, NobodyPublishes
<1>3. /\ Listed' = Listed \ {a} /\ ~Linked(a)' /\ Left(a)' = Off
      /\ \A b \in Alarm \ {a} : /\ Linked(b)' <=> Linked(b)
                                /\ Left(b)' = Left(b)
                                /\ Owed(b)' <=> Owed(b)
      /\ Numbers' /\ Timed'
  BY <1>1, <1>2, RemovedTimes
<1>4. PICK pos \in [Entry -> Int] : Ordered(pos)' /\ Ahead(pos)
  BY <1>1, <1>2, RemovedTimes
<1>5. tick.at = IF c = "isr" THEN "callback" ELSE "idle"
  BY <1>1 DEF CanCall, Context
<1>6. Stands'
  <2>1. CASE c = "isr"
    <3>1. tick.at = "callback" /\ tick.alarm \in Alarm
      BY <2>1, <1>5 DEF IInv, Walks
    <3>2. tick.next \in Listed' /\ tick.next # tick.alarm
      BY <2>1, <3>1, <1>1, <1>3 DEF TInv, Stands
    <3>3. ~rollover[tick.alarm]
      BY <3>1 DEF TInv, Stands
    <3>4. PICK b \in Alarm : b = tick.alarm
      BY <3>1
    <3>5. Linked(b)' => time[b] = _alt_nticks
      BY <3>1, <3>4, <1>3 DEF TInv, Stands
    <3> QED
      BY <3>1, <3>2, <3>3, <3>4, <3>5, <1>1 DEF Stands
  <2>2. CASE c # "isr"
    BY <2>2, <1>1, <1>5 DEF Stands
  <2> QED
    BY <2>1, <2>2
<1>7. ~Owed(a)'
  BY <1>3 DEF Owed
<1>8. Ahead(pos)'
  BY <1>1, <1>3, <1>4, <1>7 DEF Ahead
<1>9. Maps
  BY <1>1, <1>3, StopMaps DEF Ticking
<1> QED
  BY <1>3, <1>4, <1>6, <1>8, <1>9 DEF TInv

\* A callback that takes its alarm off the list.
LEMMA ExpireTimes ==
    ASSUME IInv, TInv, Return(0), 0 \in Periods
    PROVE  TInv' /\ Maps
<1>0. PICK a \in Alarm : a = tick.alarm
  BY DEF Return, CanCall, IInv, Walks
<1>1. /\ CanCall("isr") /\ tick.at = "callback" /\ Removed(a)
      /\ UNCHANGED <<_alt_nticks, time, rollover, call>>
      /\ tick' = [at |-> "visit", alarm |-> tick.next, next |-> Head]
  BY <1>0 DEF Return, deadline, NextVisit, CanCall
<1>2. \A d \in Context : ~Publishing(d)
  BY <1>1, NobodyPublishes DEF Context
<1>3. next[a] # Null
  BY <1>0, <1>1 DEF IInv, Walks
<1>4. /\ Listed' = Listed \ {a} /\ ~Linked(a)' /\ Left(a)' = Off
      /\ \A b \in Alarm \ {a} : /\ Linked(b)' <=> Linked(b)
                                /\ Left(b)' = Left(b)
                                /\ Owed(b)' <=> Owed(b)
      /\ Numbers' /\ Timed'
  BY <1>1, <1>2, <1>3, RemovedTimes
<1>5. PICK pos \in [Entry -> Int] : Ordered(pos)' /\ Ahead(pos)
  BY <1>1, <1>2, <1>3, RemovedTimes
<1>6. tick.next \in Listed'
  BY <1>0, <1>1, <1>4 DEF TInv, Stands
<1>7. Stands'
  BY <1>1, <1>6 DEF Stands
<1>8. ~Owed(a)'
  BY <1>4 DEF Owed
<1>9. Ahead(pos)'
  BY <1>0, <1>1, <1>4, <1>5, <1>8 DEF Ahead
<1>10. Ticking /\ Ticking'
  BY <1>1 DEF Ticking
<1>11. Maps
  <2>1. CASE Linked(a)
    <3>1. Left(a) = 0
      <4>1. ~RollsOn(a) /\ time[a] = _alt_nticks /\ _alt_nticks \in 0 .. Wrap - 1
        BY <2>1, <1>0, <1>1 DEF TInv, Stands, RollsOn, Numbers
      <4> QED
        BY <2>1, <4>1, WrapAssumption DEF Left
    <3> QED
      BY <3>1, <1>3, <1>4, <1>10, GoOffMaps
  <2>2. CASE ~Linked(a)
    <3>1. Left(a)' = Left(a)
      BY <2>2, <1>4 DEF Left
    <3> QED
      BY <3>1, <1>4, <1>10, StutterMaps
  <2> QED
    BY <2>1, <2>2
<1> QED
  BY <1>4, <1>5, <1>7, <1>9, <1>11 DEF TInv

\* A callback that sets its alarm for the r-th tick from now.
LEMMA RearmTimes ==
    ASSUME IInv, TInv, NEW r \in Periods, r # 0, Return(r)
    PROVE  TInv' /\ Maps
<1>0. PICK a \in Alarm : a = tick.alarm
  BY DEF Return, CanCall, IInv, Walks
<1> DEFINE t == (time[a] + r) % Wrap
<1>1. /\ tick.at = "callback"
      /\ time' = [time EXCEPT ![a] = t]
      /\ rollover' = [rollover EXCEPT ![a] = rollover[a] \/ RollsOver(t)]
      /\ UNCHANGED <<_alt_nticks, next, call>>
      /\ tick' = [at |-> "visit", alarm |-> tick.next, next |-> Head]
  BY <1>0 DEF Return, list, NextVisit, CanCall
<1>2. PICK pos \in [Entry -> Int] : Ordered(pos) /\ Ahead(pos)
  BY DEF TInv
<1>3. Ordered(pos)' /\ Listed' = Listed
  BY <1>1, <1>2, SameOrder
<1>4. tick.next \in Listed /\ tick.next # a /\ ~rollover[a]
  BY <1>0, <1>1 DEF TInv, Stands
<1>5. /\ Numbers /\ r \in 1 .. Wrap - 1 /\ time[a] \in 0 .. Wrap - 1
      /\ _alt_nticks \in 0 .. Wrap - 1 /\ Wrap \in Nat
  BY <1>4, PeriodsAssumption, WrapAssumption DEF TInv, Numbers
<1>6. t = IF time[a] + r < Wrap THEN time[a] + r ELSE time[a] + r - Wrap
  <2>1. time[a] + r \in 0 .. 2 * Wrap - 1
    BY <1>5
  <2>2. t = (time[a] + r) % Wrap
    OBVIOUS
  <2> HIDE DEF t
  <2> QED
    BY <2>1, <2>2, <1>5, ModWrap
<1> HIDE DEF t
<1>7. t \in 0 .. Wrap - 1 /\ RollsOver(t) \in BOOLEAN
  BY <1>5, <1>6 DEF RollsOver
<1>8. /\ time'[a] = t /\ (rollover'[a] <=> RollsOver(t))
      /\ \A b \in Alarm \ {a} : time'[b] = time[b] /\ rollover'[b] = rollover[b]
  BY <1>1, <1>4, <1>5 DEF Numbers
<1>9. Numbers'
  BY <1>1, <1>4, <1>5, <1>7 DEF Numbers
<1>10. \A b \in Alarm : Linked(b)' <=> Linked(b)
  BY <1>1 DEF Linked
<1>11. \A b \in Alarm \ {a} : /\ Left(b)' = Left(b) /\ (Owed(b)' <=> Owed(b))
                              /\ (RollsOn(b)' <=> RollsOn(b))
  BY <1>1, <1>8, <1>10, SameAlarm
<1>12. Linked(a) => /\ time[a] = _alt_nticks
                    /\ RollsOver(t) => _alt_nticks # 0 /\ t < _alt_nticks
                                       /\ t + Wrap - _alt_nticks = r
                    /\ ~RollsOver(t) => _alt_nticks < t /\ t - _alt_nticks = r
  <2>1. Linked(a) => time[a] = _alt_nticks
    BY <1>0, <1>1 DEF TInv, Stands
  <2> QED
    BY <2>1, <1>5, <1>6 DEF RollsOver
<1>13. Linked(a) => (RollsOn(a)' <=> RollsOver(t))
  BY <1>1, <1>8, <1>12 DEF RollsOn
<1>14. Timed'
  <2>1. ASSUME NEW b \in Alarm, Linked(b)'
        PROVE  IF RollsOn(b)' THEN time'[b] < _alt_nticks' ELSE _alt_nticks' =< time'[b]
    <3>1. CASE b = a
      BY <3>1, <2>1, <1>1, <1>5, <1>7, <1>8, <1>10, <1>12, <1>13
    <3>2. CASE b # a
      BY <3>2, <2>1, <1>1, <1>8, <1>10, <1>11 DEF TInv, Timed
    <3> QED
      BY <3>1, <3>2
  <2> QED
    BY <2>1 DEF Timed
<1>15. Stands'
  BY <1>1, <1>3, <1>4 DEF Stands
<1>16. ~Owed(a)'
  <2>1. CASE ~Linked(a)
    BY <2>1, <1>10 DEF Owed
  <2>2. CASE Linked(a) /\ RollsOver(t)
    BY <2>2, <1>1, <1>12, <1>13 DEF Owed
  <2>3. CASE Linked(a) /\ ~RollsOver(t)
    <3>1. time'[a] # _alt_nticks' /\ ~rollover'[a]
      BY <2>3, <1>1, <1>5, <1>7, <1>8, <1>12
    <3> QED
      BY <3>1 DEF Owed
  <2> QED
    BY <2>1, <2>2, <2>3
<1>17. Ahead(pos)'
  BY <1>0, <1>1, <1>2, <1>11, <1>16 DEF Ahead
<1>18. Ticking /\ Ticking'
  BY <1>1 DEF Ticking
<1>19. Maps
  <2>1. CASE ~Linked(a)
    <3>1. Left(a)' = Left(a)
      BY <2>1, <1>10 DEF Left
    <3> QED
      BY <3>1, <1>11, <1>18, StutterMaps
  <2>2. CASE Linked(a)
    <3>1. Left(a) = 0
      <4>1. ~RollsOn(a)
        BY <1>4 DEF RollsOn
      <4> QED
        BY <2>2, <4>1, <1>5, <1>12 DEF Left
    <3>2. Left(a)' = r
      <4>1. CASE RollsOver(t)
        BY <2>2, <4>1, <1>1, <1>8, <1>10, <1>12, <1>13 DEF Left
      <4>2. CASE ~RollsOver(t)
        <5>1. ~(time'[a] < _alt_nticks')
          BY <2>2, <4>2, <1>1, <1>5, <1>7, <1>8, <1>12
        <5> QED
          BY <2>2, <4>2, <5>1, <1>1, <1>8, <1>10, <1>12, <1>13 DEF Left
      <4> QED
        BY <4>1, <4>2
    <3> QED
      BY <3>1, <3>2, <1>4, <1>11, <1>18, GoOffMaps
  <2> QED
    BY <2>1, <2>2
<1> QED
  BY <1>3, <1>9, <1>14, <1>15, <1>17, <1>19 DEF TInv

\* A tick begins: one tick less is left to every alarm, and whatever is owed
\* now is in the list the walk sets out on.
LEMMA TickTimes ==
    ASSUME IInv, TInv, Tick
    PROVE  TInv' /\ Maps
<1>1. /\ pie /\ tick.at = "idle" /\ UNCHANGED <<next, time, rollover, call>>
      /\ _alt_nticks' = (_alt_nticks + 1) % Wrap
      /\ tick' = [at |-> "visit", alarm |-> next[Head], next |-> Head]
  BY DEF Tick, list, deadline
<1>2. PICK pos \in [Entry -> Int] : Ordered(pos) /\ Ahead(pos)
  BY DEF TInv
<1>3. Ordered(pos)' /\ Listed' = Listed
  BY <1>1, <1>2, SameOrder
<1>4. Numbers /\ _alt_nticks \in 0 .. Wrap - 1 /\ Wrap \in Nat /\ Wrap > 2
  BY WrapAssumption DEF TInv, Numbers
<1>5. _alt_nticks' = IF _alt_nticks + 1 < Wrap THEN _alt_nticks + 1 ELSE 0
  BY <1>1, <1>4, ModWrap
<1>6. Numbers'
  BY <1>1, <1>4, <1>5 DEF Numbers
<1>7. \A b \in Alarm : Linked(b)' <=> Linked(b)
  BY <1>1 DEF Linked
<1>8. \A b \in Alarm : ~Owed(b)
  BY <1>1, <1>2 DEF Ahead
<1>9. ASSUME NEW b \in Alarm, Linked(b)
      PROVE  /\ IF RollsOn(b)' THEN time'[b] < _alt_nticks' ELSE _alt_nticks' =< time'[b]
             /\ Left(b)' = Left(b) - 1
  <2>1. time[b] \in 0 .. Wrap - 1 /\ rollover[b] \in BOOLEAN
    BY <1>4 DEF Numbers
  <2>2. CASE RollsOn(b) /\ _alt_nticks + 1 < Wrap
    <3>1. rollover[b] /\ RollsOn(b)' /\ time[b] < _alt_nticks
      BY <2>2, <1>1, <1>4, <1>5, <1>9 DEF RollsOn, TInv, Timed
    <3> QED
      BY <2>1, <2>2, <3>1, <1>1, <1>4, <1>5, <1>7, <1>9 DEF Left
  <2>3. CASE RollsOn(b) /\ ~(_alt_nticks + 1 < Wrap)
    <3>1. ~RollsOn(b)' /\ _alt_nticks' = 0 /\ _alt_nticks = Wrap - 1
      BY <2>3, <1>4, <1>5 DEF RollsOn
    <3>2. ~(time'[b] < _alt_nticks')
      BY <2>1, <3>1, <1>1
    <3> QED
      BY <2>1, <2>3, <3>1, <3>2, <1>1, <1>4, <1>7, <1>9 DEF Left
  <2>4. CASE ~RollsOn(b)
    <3>1. ~rollover[b] /\ _alt_nticks < time[b]
      BY <2>1, <2>4, <1>4, <1>8, <1>9 DEF RollsOn, TInv, Timed, Owed
    <3>2. ~RollsOn(b)' /\ _alt_nticks' = _alt_nticks + 1 /\ ~(time'[b] < _alt_nticks')
          /\ ~(time[b] < _alt_nticks)
      BY <2>1, <3>1, <1>1, <1>4, <1>5 DEF RollsOn
    <3> QED
      BY <2>1, <2>4, <3>1, <3>2, <1>1, <1>4, <1>7, <1>9 DEF Left
  <2> QED
    BY <2>2, <2>3, <2>4
<1>10. Timed'
  BY <1>7, <1>9 DEF Timed
<1>11. next[Head] \in Listed /\ \A e \in Listed : pos[next[Head]] =< pos[e]
  <2>1. \A c \in Context : ~Publishing(c)
    BY <1>1, NobodyPublishes
  <2> QED
    BY <2>1, <1>2, ListedFacts DEF Ordered
<1>12. Stands'
  BY <1>1, <1>3, <1>11 DEF Stands
<1>13. Ahead(pos)'
  <2>1. \A b \in Alarm : Owed(b)' => b \in Listed
    BY <1>7, ListedFacts DEF Owed
  <2> QED
    BY <2>1, <1>1, <1>11 DEF Ahead
<1>14. Maps
  <2>1. ~Ticking /\ Ticking'
    BY <1>1 DEF Ticking
  <2>2. ASSUME NEW b \in Alarm
        PROVE  Left(b)' = IF Left(b) = Off THEN Off ELSE Left(b) - 1
    <3>1. CASE Linked(b)
      BY <3>1, <1>4, <1>9, LeftFacts DEF TInv
    <3>2. CASE ~Linked(b)
      BY <3>2, <1>7 DEF Left, Off
    <3> QED
      BY <3>1, <3>2
  <2> QED
    BY <2>1, <2>2, BeginTickMaps
<1> QED
  BY <1>3, <1>6, <1>10, <1>12, <1>13, <1>14 DEF TInv

\* The walk leaves an alarm behind only when nothing is owed to it.
LEMMA VisitTimes ==
    ASSUME IInv, TInv, Visit
    PROVE  TInv' /\ Maps
<1>0. PICK a \in Alarm : a = tick.alarm
  BY DEF Visit, IInv, Types, Entry
<1>1. /\ tick.at = "visit" /\ UNCHANGED <<_alt_nticks, next, time, call>>
      /\ rollover' = [rollover EXCEPT ![a] = RollsOn(a)]
      /\ tick' = IF Due(a) THEN [at |-> "callback", alarm |-> a, next |-> next[a]]
                 ELSE [tick EXCEPT !.alarm = next[a]]
      /\ tick \in [at : {"idle", "visit", "callback"}, alarm : Entry, next : Entry]
  BY <1>0 DEF Visit, list, IInv, Types
<1>2. PICK pos \in [Entry -> Int] : Ordered(pos) /\ Ahead(pos)
  BY DEF TInv
<1>3. Ordered(pos)' /\ Listed' = Listed
  BY <1>1, <1>2, SameOrder
<1>4. /\ Numbers /\ _alt_nticks \in 0 .. Wrap - 1 /\ time[a] \in 0 .. Wrap - 1
      /\ Wrap \in Nat /\ RollsOn(a) \in BOOLEAN /\ rollover[a] \in BOOLEAN
  BY WrapAssumption DEF TInv, Numbers, RollsOn
<1>5. \A b \in Alarm : Linked(b)' <=> Linked(b)
  BY <1>1 DEF Linked
<1>6. a \in Listed /\ Linked(a)
  BY <1>0, <1>1, ListedFacts DEF TInv, Stands
<1>7. /\ rollover'[a] = RollsOn(a)
      /\ \A b \in Alarm \ {a} : rollover'[b] = rollover[b]
  BY <1>1, <1>4 DEF Numbers
<1>8. Numbers'
  BY <1>1, <1>4 DEF Numbers
<1>9. \A b \in Alarm \ {a} : /\ Left(b)' = Left(b) /\ (Owed(b)' <=> Owed(b))
                             /\ (RollsOn(b)' <=> RollsOn(b))
  BY <1>1, <1>5, <1>7, SameAlarm
<1>10. RollsOn(a)' <=> RollsOn(a)
  BY <1>1, <1>7 DEF RollsOn
<1>11. Left(a)' = Left(a)
  BY <1>1, <1>5, <1>10 DEF Left
<1>12. Timed'
  <2>1. \A b \in Alarm : RollsOn(b)' <=> RollsOn(b)
    BY <1>9, <1>10
  <2> QED
    BY <2>1, <1>1, <1>5 DEF TInv, Timed
<1>13. /\ next[a] \in Listed /\ next[a] # a
       /\ \A b \in Listed : pos[a] =< pos[b] => b = a \/ pos[next[a]] =< pos[b]
  <2>1. /\ a \in Listed \ {Head} /\ next[a] \in Listed
        /\ pos[a] < pos[next[a]]
        /\ \A e \in Listed : pos[a] < pos[e] => pos[next[a]] =< pos[e]
        /\ \A e \in Listed : pos[a] = pos[e] => e = a
    BY <1>2, <1>6, ListedFacts DEF Ordered
  <2>2. \A e \in Listed : pos[e] \in Int
    BY ListedFacts
  <2> QED
    BY <2>1, <2>2
<1>14. ASSUME NEW b \in Alarm, b # a, Owed(b)' PROVE pos[next[a]] =< pos[b]
  <2>1. Owed(b) /\ b \in Listed
    BY <1>9, <1>14, ListedFacts DEF Owed
  <2>2. pos[a] =< pos[b]
    BY <2>1, <1>0, <1>1, <1>2 DEF Ahead
  <2> QED
    BY <2>1, <2>2, <1>13, <1>14
<1>15. Ticking' = Ticking
  BY <1>1 DEF Ticking
<1>16. Maps
  BY <1>9, <1>11, <1>15, StutterMaps
<1>17. CASE Due(a)
  <2>1. tick' = [at |-> "callback", alarm |-> a, next |-> next[a]]
    BY <1>1, <1>17
  <2>2. ~RollsOn(a) /\ time[a] = _alt_nticks
    BY <1>4, <1>6, <1>17 DEF Due, TInv, Timed
  <2>3. Stands'
    BY <2>1, <2>2, <1>1, <1>3, <1>7, <1>13 DEF Stands
  <2>4. Ahead(pos)'
    BY <2>1, <1>14 DEF Ahead
  <2> QED
    BY <2>3, <2>4, <1>3, <1>8, <1>12, <1>16 DEF TInv
<1>18. CASE ~Due(a)
  <2>1. tick'.at = "visit" /\ tick'.alarm = next[a]
    BY <1>1, <1>18
  <2>2. ~Owed(a)'
    <3>1. ~(~RollsOn(a)' /\ time'[a] = _alt_nticks')
      BY <1>1, <1>4, <1>10, <1>18 DEF Due
    <3>2. ~(rollover'[a] /\ _alt_nticks' = 0)
      BY <1>1, <1>7 DEF RollsOn
    <3> QED
      BY <3>1, <3>2 DEF Owed
  <2>3. Stands'
    BY <2>1, <1>3, <1>13 DEF Stands
  <2>4. Ahead(pos)'
    BY <2>1, <2>2, <1>14 DEF Ahead
  <2> QED
    BY <2>3, <2>4, <1>3, <1>8, <1>12, <1>16 DEF TInv
<1> QED
  BY <1>17, <1>18

\* At the head nothing is ahead, so nothing is owed.
LEMMA DoneTimes ==
    ASSUME IInv, TInv, Done
    PROVE  TInv' /\ Maps
<1>1. /\ tick.at = "visit" /\ tick.alarm = Head /\ tick' = NoTick
      /\ UNCHANGED <<_alt_nticks, next, time, rollover, call>>
  BY DEF Done, list, deadline
<1>2. PICK pos \in [Entry -> Int] : Ordered(pos) /\ Ahead(pos)
  BY DEF TInv
<1>3. Ordered(pos)' /\ Listed' = Listed
  BY <1>1, <1>2, SameOrder
<1>4. \A b \in Alarm : /\ Linked(b)' <=> Linked(b)
                       /\ Left(b)' = Left(b)
                       /\ Owed(b)' <=> Owed(b)
                       /\ RollsOn(b)' <=> RollsOn(b)
  <2>1. \A b \in Alarm : Linked(b)' <=> Linked(b)
    BY <1>1 DEF Linked
  <2> QED
    BY <2>1, <1>1, SameAlarm
<1>5. Numbers' /\ Timed'
  BY <1>1, <1>4 DEF TInv, Numbers, Timed
<1>6. ASSUME NEW b \in Alarm PROVE ~Owed(b)
  <2>1. SUFFICES ASSUME Owed(b) PROVE FALSE
    OBVIOUS
  <2>2. b \in Listed /\ b # Head
    BY <2>1, ListedFacts DEF Owed
  <2>3. pos[Head] =< pos[b]
    BY <2>1, <1>1, <1>2 DEF Ahead
  <2>4. pos[b] =< pos[Head] /\ (pos[b] = pos[Head] => b = Head)
    BY <2>2, <1>2, ListedFacts DEF Ordered
  <2>5. pos[b] \in Int /\ pos[Head] \in Int
    BY <2>2, ListedFacts
  <2> QED
    BY <2>2, <2>3, <2>4, <2>5
<1>7. Stands' /\ Ahead(pos)'
  BY <1>1, <1>4, <1>6 DEF Stands, Ahead, NoTick
<1>8. Maps
  <2>1. Ticking /\ ~Ticking'
    BY <1>1 DEF Ticking, NoTick
  <2>2. \A b \in Alarm : Left(b) # 0
    BY <1>6, LeftFacts DEF TInv
  <2> QED
    BY <2>1, <2>2, <1>4, EndTickMaps
<1> QED
  BY <1>3, <1>5, <1>7, <1>8 DEF TInv

\* What does not touch the alarms or the tick.
LEMMA OtherTimes ==
    ASSUME TInv, UNCHANGED <<_alt_nticks, next, time, rollover, call, tick>>
    PROVE  TInv' /\ Maps
<1>1. PICK pos \in [Entry -> Int] : Ordered(pos) /\ Ahead(pos)
  BY DEF TInv
<1>2. Ordered(pos)' /\ Listed' = Listed
  BY <1>1, SameOrder
<1>3. \A b : (Linked(b)' <=> Linked(b)) /\ Left(b)' = Left(b)
  BY DEF Linked, Left, RollsOn
<1>4. Numbers' /\ Timed' /\ Stands' /\ Ahead(pos)'
  BY <1>1, <1>2 DEF TInv, Numbers, Timed, RollsOn, Linked, Stands, Ahead, Owed
<1>5. Maps
  BY <1>3, StutterMaps DEF Ticking
<1> QED
  BY <1>2, <1>4, <1>5 DEF TInv

LEMMA TimesInitially == ASSUME TimeInit PROVE TInv /\ Timers!Init
<1>1. /\ next = [e \in Entry |-> IF e = Head THEN Head ELSE Null]
      /\ _alt_nticks = 0 /\ tick = NoTick
      /\ time = [a \in Alarm |-> 0] /\ rollover = [a \in Alarm |-> FALSE]
  BY DEF TimeInit, Init
<1>2. \A a \in Alarm : ~Linked(a)
  BY <1>1, ListedFacts DEF Linked
<1>3. Listed = {Head} /\ next[Head] = Head
  BY <1>1, <1>2, ListedFacts DEF Listed
<1>4. Numbers /\ Timed /\ Stands
  BY <1>1, <1>2, WrapAssumption DEF Numbers, Timed, Stands, NoTick
<1>5. \A a \in Alarm : ~Owed(a)
  BY <1>2 DEF Owed
<1>6. \E pos \in [Entry -> Int] : Ordered(pos) /\ Ahead(pos)
  <2>1. PICK pos \in [Entry -> Int] : pos = [e \in Entry |-> 0]
    <3>1. [e \in Entry |-> 0] \in [Entry -> Int]
      OBVIOUS
    <3> QED
      BY <3>1
  <2>2. pos[Head] = 0
    BY <2>1, ListedFacts
  <2> QED
    BY <2>2, <1>3, <1>5 DEF Ordered, Ahead
<1>7. Timers!Init
  BY <1>1, <1>2 DEF Timers!Init, Left, Off, NoTick
<1> QED
  BY <1>4, <1>6, <1>7 DEF TInv

LEMMA TimesStep ==
    ASSUME ~Reckless, IInv, TInv, [TimeNext]_allVars
    PROVE  TInv' /\ Maps
<1>1. ASSUME NEW c \in Context, NEW a \in Alarm, NEW n \in Delays, Start(c, a, n)
      PROVE  TInv' /\ Maps
  BY <1>1, StartTimes
<1>2. ASSUME NEW c \in Context, NEW a \in Alarm, Stop(c, a) PROVE TInv' /\ Maps
  BY <1>2, StopTimes
<1>3. ASSUME NEW r \in Periods, Return(r) PROVE TInv' /\ Maps
  BY <1>3, ExpireTimes, RearmTimes
<1>4. ASSUME NEW c \in Context, Publish(c) PROVE TInv' /\ Maps
  BY <1>4, PublishTimes
<1>5. CASE Tick \/ Visit \/ Done
  BY <1>5, TickTimes, VisitTimes, DoneTimes
<1>6. CASE SysclkInit \/ (\E t \in Times : SetTime(t)) \/ UNCHANGED allVars
  <2>1. UNCHANGED <<_alt_nticks, next, time, rollover, call, tick>>
    BY <1>6 DEF SysclkInit, SetTime, allVars, vars, list, deadline
  <2> QED
    BY <2>1, OtherTimes
<1> QED
  BY <1>1, <1>2, <1>3, <1>4, <1>5, <1>6 DEF TimeNext, Next, Application

THEOREM TimesInvariance == ASSUME ~Reckless PROVE TimeSpec => [](IInv /\ TInv)
<1>1. TimeInit => TInv
  BY TimesInitially
<1>2. IInv /\ TInv /\ [TimeNext]_allVars => TInv'
  BY TimesStep
<1> QED
  BY <1>1, <1>2, Invariance, PTL DEF TimeSpec

\* Every alarm goes off in exactly the tick it was set for, across the wrap of
\* the counter, whatever the program and the callbacks start and stop
\* meanwhile, provided that no callback stops the alarm behind its own
\* (alt_alarm_start.c:84-98, alt_tick.c:98-141).
THEOREM AlarmsKeepTime == ASSUME ~Reckless PROVE TimeSpec => ImplementsTimerSet
<1>1. TimeInit => Timers!Init
  BY TimesInitially
<1>2. IInv /\ TInv /\ [TimeNext]_allVars
      => [Timers!Next]_<<[a \in Alarm |-> Left(a)], tick.at # "idle">>
  BY TimesStep DEF Maps, Remaining, Ticking
<1> QED
  BY <1>1, <1>2, TimesInvariance, PTL DEF TimeSpec, ImplementsTimerSet, Timers!TimerSpec

\* No alarm is called back that has been stopped before its turn
\* (alt_tick.c:60-64).
THEOREM CalledWhileRegistered == ASSUME ~Reckless PROVE TimeSpec => OnlyRegistered
<1>1. ASSUME TInv, [TimeNext]_allVars
      PROVE  [tick'.at = "callback" /\ tick.at # "callback" => Linked(tick'.alarm)]_vars
  <2>1. SUFFICES ASSUME tick'.at = "callback", tick.at # "callback"
                 PROVE  Linked(tick'.alarm)
    OBVIOUS
  <2>2. tick' # tick
    BY <2>1
  <2>3. Visit
    BY <1>1, <2>1, <2>2
       DEF TimeNext, Next, Application, SysclkInit, Start, Stop, Publish, Return, Tick, Done,
           SetTime, allVars, vars, NoTick, NextVisit
  <2>4. tick.at = "visit" /\ tick.alarm # Head /\ tick'.alarm = tick.alarm
    BY <2>1, <2>3 DEF Visit
  <2> QED
    BY <1>1, <2>4, ListedFacts DEF TInv, Stands
<1> QED
  BY <1>1, TimesInvariance, PTL DEF TimeSpec, OnlyRegistered

-----------------------------------------------------------------------------
(* What is left of TickEnds without fairness: the walk has ever fewer       *)
(* entries before it.                                                       *)

\* The entry that alt_tick comes to next.
Upcoming == IF tick.at = "callback" THEN tick.next ELSE tick.alarm

\* A walk from there does not leave S before it is at the head.
Encloses(S) == Upcoming \in S /\ \A e \in S \ {Head} : next[e] \in S

\* The entries it has still to visit.
Rest == {e \in Listed : \A S \in SUBSET Listed : Encloses(S) => e \in S}

WalkShrinks ==
    tick.at # "idle" /\ tick'.at # "idle" =>
        Rest' \subseteq Rest /\ (Visit => Rest' # Rest)

\* Every list there was encloses what is left of it.
LEMMA RestShrinks ==
    ASSUME IInv, TInv, tick.at # "idle",
           \A S \in SUBSET Listed : Encloses(S) =>
               \E T \in SUBSET S : T \subseteq Listed' /\ Encloses(T)'
    PROVE  Rest' \subseteq Rest
<1>1. Encloses(Listed)
  <2>1. Upcoming \in Listed
    BY DEF IInv, Types, TInv, Stands, Upcoming
  <2> QED
    BY <2>1 DEF Encloses, TInv, Ordered
<1>2. ASSUME NEW e \in Rest', NEW S \in SUBSET Listed, Encloses(S) PROVE e \in S
  <2>1. PICK T \in SUBSET S : T \subseteq Listed' /\ Encloses(T)'
    BY <1>2
  <2> QED
    BY <2>1 DEF Rest
<1>3. ASSUME NEW e \in Rest' PROVE e \in Listed
  BY <1>1, <1>2
<1> QED
  BY <1>2, <1>3 DEF Rest

\* A visit leaves its entry behind.
LEMMA VisitAdvances ==
    ASSUME IInv, TInv, Visit
    PROVE  Rest' \subseteq Rest /\ Rest' # Rest
<1>0. PICK a \in Alarm : a = tick.alarm
  BY DEF Visit, IInv, Types, Entry
<1>1. /\ tick.at = "visit" /\ UNCHANGED <<next, call>>
      /\ Upcoming = a /\ Upcoming' = next[a]
  BY <1>0 DEF Visit, list, IInv, Types, Upcoming
<1>2. PICK pos \in [Entry -> Int] : Ordered(pos)
  BY DEF TInv
<1>3. Listed' = Listed
  BY <1>1, <1>2, SameOrder
<1>4. a \in Listed \ {Head}
  BY <1>0, <1>1, ListedFacts DEF TInv, Stands
<1>5. Rest' \subseteq Rest
  <2>1. ASSUME NEW S \in SUBSET Listed, Encloses(S) PROVE Encloses(S)'
    BY <2>1, <1>1, <1>4 DEF Encloses
  <2> QED
    BY <2>1, <1>1, <1>3, RestShrinks
<1>6. a \in Rest
  BY <1>1, <1>4 DEF Rest, Encloses
<1>7. a \notin Rest'
  <2>1. PICK S \in SUBSET Listed : S = {e \in Listed : pos[next[a]] =< pos[e]}
    OBVIOUS
  <2>2. \A e \in Listed : pos[e] \in Int /\ next[e] \in Listed
    BY <1>2, ListedFacts DEF Ordered
  <2>3. \A e \in Listed \ {Head} : pos[e] < pos[next[e]]
    BY <1>2 DEF Ordered
  <2>4. \A e \in S \ {Head} : next[e] \in S
    BY <2>1, <2>2, <2>3, <1>4
  <2>5. next[a] \in S /\ a \notin S
    BY <2>1, <2>2, <2>3, <1>4
  <2>6. Encloses(S)'
    BY <2>4, <2>5, <1>1 DEF Encloses
  <2> QED
    BY <2>5, <2>6, <1>3 DEF Rest
<1> QED
  BY <1>5, <1>6, <1>7

\* An alarm taken out of the list, or passed by, is one less to visit.
LEMMA RemovedIsLess ==
    ASSUME IInv, TInv, tick.at = "callback",
           \A c \in Context : ~Publishing(c), UNCHANGED call,
           NEW a \in Alarm, next[a] # Null, Removed(a), a # Upcoming, Upcoming' = Upcoming
    PROVE  Rest' \subseteq Rest
<1>1. PICK pos \in [Entry -> Int] : Ordered(pos)
  BY DEF TInv
<1>2. Listed' = Listed \ {a}
  BY <1>1, RemoveOrder
<1>3. /\ a \in Entry /\ a # Head /\ previous[a] \in Entry /\ next \in [Entry -> Entry \cup {Null}]
      /\ next[previous[a]] = a
      /\ \A e \in Entry : next[e] = a => e = previous[a]
  <2>1. \A e \in Entry : next[e] # Null => previous[next[e]] = e
    BY Neighbours
  <2> QED
    BY <2>1, Neighbours, EntryAssumption DEF Entry, IInv, Types
<1>4. /\ \A e \in Entry \ {a, previous[a]} : next'[e] = next[e]
      /\ previous[a] # a => next'[previous[a]] = next[a] /\ next[a] # a
  BY <1>3, Neighbours DEF Removed
<1>5. ASSUME NEW S \in SUBSET Listed, Encloses(S) PROVE Encloses(S \ {a})'
  <2>1. Upcoming' \in S \ {a} /\ S \subseteq Entry
    BY <1>5, ListedFacts DEF Encloses
  <2>2. ASSUME NEW e \in S \ {a, Head} PROVE next'[e] \in S \ {a}
    <3>1. e \in Entry /\ next[e] \in S
      BY <2>1, <1>5 DEF Encloses
    <3>2. CASE e = previous[a]
      BY <3>1, <3>2, <1>3, <1>4, <1>5 DEF Encloses
    <3>3. CASE e # previous[a]
      BY <3>1, <3>3, <1>3, <1>4
    <3> QED
      BY <3>2, <3>3
  <2> QED
    BY <2>1, <2>2 DEF Encloses
<1>6. ASSUME NEW S \in SUBSET Listed, Encloses(S)
      PROVE  \E T \in SUBSET S : T \subseteq Listed' /\ Encloses(T)'
  <2>1. S \ {a} \in SUBSET S /\ S \ {a} \subseteq Listed'
    BY <1>2
  <2> QED
    BY <2>1, <1>5, <1>6
<1> QED
  BY <1>6, RestShrinks

\* Whatever a callback calls and returns adds nothing to visit.
LEMMA CallbackAddsNothing ==
    ASSUME ~Reckless, IInv, TInv, tick.at = "callback", tick'.at # "idle", TimeNext
    PROVE  Rest' \subseteq Rest
<1>1. PICK pos \in [Entry -> Int] : Ordered(pos)
  BY DEF TInv
<1>2. tick.next # tick.alarm /\ Upcoming = tick.next /\ (tick' = tick => Upcoming' = Upcoming)
  BY DEF TInv, Stands, Upcoming
<1>3. ASSUME NEW c \in Context, NEW a \in Alarm, NEW n \in Delays, Start(c, a, n)
      PROVE  Rest' \subseteq Rest
  <2>1. a \notin Listed /\ Listed' = Listed \cup {a}
    BY <1>1, <1>3, InsertOrder
  <2>2. /\ tick' = tick
        /\ \A e \in Listed : next'[e] = next[e]
    BY <2>1, <1>3, ListedFacts DEF Start, IInv, Types
  <2>3. ASSUME NEW S \in SUBSET Listed, Encloses(S) PROVE Encloses(S)'
    BY <2>2, <2>3, <1>2 DEF Encloses
  <2> QED
    BY <2>1, <2>3, RestShrinks
<1>4. ASSUME NEW c \in Context, Publish(c) PROVE Rest' \subseteq Rest
  <2>1. Listed' = Listed
    BY <1>1, <1>4, PublishOrder
  <2>2. /\ tick' = tick
        /\ \A e \in Listed \ {Head} : next'[e] = next[e]
    BY <1>4, ListedFacts DEF Publish, IInv, Types
  <2>3. ASSUME NEW S \in SUBSET Listed, Encloses(S) PROVE Encloses(S)'
    BY <2>2, <2>3, <1>2 DEF Encloses
  <2> QED
    BY <2>1, <2>3, RestShrinks
<1>5. ASSUME NEW c \in Context, NEW a \in Alarm, Stop(c, a) PROVE Rest' \subseteq Rest
  <2>1. /\ CanCall(c) /\ c = "isr" /\ a # tick.next /\ next[a] # Null /\ Removed(a)
        /\ UNCHANGED <<call, tick>>
    BY <1>5 DEF Stop, CanCall, Context
  <2>2. \A d \in Context : ~Publishing(d)
    BY <2>1, NobodyPublishes
  <2> QED
    BY <2>1, <2>2, <1>2, RemovedIsLess
<1>6. ASSUME NEW r \in Periods, Return(r) PROVE Rest' \subseteq Rest
  <2>1. PICK a \in Alarm : a = tick.alarm
    BY DEF IInv, Walks
  <2>2. /\ CanCall("isr") /\ UNCHANGED call /\ next[a] # Null
        /\ Upcoming' = Upcoming /\ a # Upcoming
        /\ IF r = 0 THEN Removed(a) ELSE UNCHANGED list
    BY <2>1, <1>2, <1>6 DEF Return, NextVisit, Upcoming, IInv, Walks
  <2>3. CASE r = 0
    <3>1. \A d \in Context : ~Publishing(d)
      BY <2>2, NobodyPublishes DEF Context
    <3> QED
      BY <3>1, <2>2, <2>3, RemovedIsLess
  <2>4. CASE r # 0
    <3>1. Listed' = Listed /\ next' = next
      BY <2>2, <2>4, <1>1, SameOrder DEF list
    <3>2. ASSUME NEW S \in SUBSET Listed, Encloses(S) PROVE Encloses(S)'
      BY <3>1, <3>2, <2>2 DEF Encloses
    <3> QED
      BY <3>1, <3>2, RestShrinks
  <2> QED
    BY <2>3, <2>4
<1>7. ~SysclkInit /\ ~Tick /\ ~Visit /\ ~Done /\ \A s \in Times : ~SetTime(s)
  BY DEF SysclkInit, CanCall, Tick, Visit, Done, SetTime
<1> QED
  BY <1>3, <1>4, <1>5, <1>6, <1>7 DEF TimeNext, Next, Application

\* The walk over the list does not go in circles: until it is at the head each
\* visit takes an entry from those that are left, and no callback adds to them,
\* whatever it starts, stops and returns (alt_tick.c:98-141).
THEOREM WalkShortens == ASSUME ~Reckless PROVE TimeSpec => [][WalkShrinks]_allVars
<1>1. IInv /\ TInv /\ TimeNext => WalkShrinks
  <2> SUFFICES ASSUME IInv, TInv, TimeNext PROVE WalkShrinks
    OBVIOUS
  <2>1. CASE tick.at = "visit" /\ tick'.at # "idle"
    <3>1. Visit
      BY <2>1 DEF TimeNext, Next, Application, SysclkInit, CanCall, Start, Stop, Publish,
                  Return, Tick, Done, SetTime, NoTick, Context, IInv, Turns, Publishing
    <3> QED
      BY <3>1, VisitAdvances DEF WalkShrinks
  <2>2. CASE tick.at = "callback" /\ tick'.at # "idle"
    <3>1. ~Visit
      BY <2>2 DEF Visit
    <3> QED
      BY <3>1, <2>2, CallbackAddsNothing DEF WalkShrinks
  <2>3. CASE tick.at = "idle" \/ tick'.at = "idle"
    BY <2>3 DEF WalkShrinks
  <2> QED
    BY <2>1, <2>2, <2>3 DEF IInv, Types
<1> QED
  BY <1>1, TimesInvariance, PTL DEF TimeSpec

-----------------------------------------------------------------------------
(* The wall clock.                                                          *)

LEMMA DivMod ==
    ASSUME NEW n \in Nat, NEW d \in Nat \ {0}
    PROVE  n \div d \in Nat /\ n % d \in 0 .. d - 1 /\ n = d * (n \div d) + (n % d)
  OBVIOUS

LEMMA ModUnique ==
    ASSUME NEW d \in Nat \ {0}, NEW q \in Nat, NEW m \in 0 .. d - 1
    PROVE  (d * q + m) % d = m
  OBVIOUS

LEMMA TimesMonotone ==
    ASSUME NEW p \in Nat, NEW m \in Int, NEW n \in Int, m =< n
    PROVE  p * m =< p * n
  OBVIOUS

\* Ticks of p microseconds, d of them in a second: the microseconds beyond the
\* last full second are those of the ticks beyond it.
LEMMA ModOfMultiple ==
    ASSUME NEW p \in Nat \ {0}, NEW d \in Nat \ {0}, NEW n \in Nat
    PROVE  (n * p) % (p * d) = p * (n % d) /\ p * (n % d) \in 0 .. p * d - 1
<1>1. PICK q \in Nat, m \in 0 .. d - 1 : n = d * q + m /\ m = n % d
  BY DivMod
<1>2. p * d \in Nat \ {0} /\ p * m \in Int
  OBVIOUS
<1>3. n * p = (p * d) * q + p * m
  <2>1. (d * q + m) * p = (p * d) * q + p * m
    OBVIOUS
  <2> QED
    BY <1>1, <2>1
<1>4. p * m \in 0 .. p * d - 1
  <2>1. p * m =< p * (d - 1)
    BY TimesMonotone
  <2>2. p * (d - 1) = p * d - p
    OBVIOUS
  <2>3. 0 =< p * m
    OBVIOUS
  <2> QED
    BY <1>2, <2>1, <2>2, <2>3
<1>5. ((p * d) * q + p * m) % (p * d) = p * m
  <2> DEFINE D == p * d
             M == p * m
  <2>1. D \in Nat \ {0} /\ M \in 0 .. D - 1
    BY <1>2, <1>4
  <2> HIDE DEF D, M
  <2>2. (D * q + M) % D = M
    BY <2>1, ModUnique
  <2> QED
    BY <2>2 DEF D, M
<1> QED
  BY <1>1, <1>3, <1>4, <1>5

\* What gettimeofday adds up at tick n before it carries, of a time that was set
\* at tick s, is that time and the time since.
AddsUp(p, d, s, n, sec, usec) ==
    \E S \in Int, U \in -(US - 1) .. 2 * US - 2 :
        /\ S = sec - s \div d + n \div d
        /\ U = usec - ((s * p) % US) + ((n * p) % US)
        /\ S * US + U = sec * US + usec + (n - s) * p

LEMMA SumOfParts ==
    ASSUME NEW p \in Nat \ {0}, NEW d \in Nat \ {0}, US = p * d,
           NEW s \in Nat, NEW n \in Nat,
           NEW sec \in Nat, NEW usec \in 0 .. US - 1
    PROVE  AddsUp(p, d, s, n, sec, usec)
<1>1. PICK qs \in Nat, ms \in 0 .. d - 1 : s = d * qs + ms /\ ms = s % d /\ qs = s \div d
  BY DivMod
<1>2. PICK qn \in Nat, mn \in 0 .. d - 1 : n = d * qn + mn /\ mn = n % d /\ qn = n \div d
  BY DivMod
<1>3. /\ (s * p) % US = p * ms /\ p * ms \in 0 .. US - 1
      /\ (n * p) % US = p * mn /\ p * mn \in 0 .. US - 1
  <2>1. (s * p) % (p * d) = p * (s % d) /\ p * (s % d) \in 0 .. p * d - 1
    BY ModOfMultiple
  <2>2. (n * p) % (p * d) = p * (n % d) /\ p * (n % d) \in 0 .. p * d - 1
    BY ModOfMultiple
  <2>3. (s * p) % (p * d) = (s * p) % US /\ (n * p) % (p * d) = (n * p) % US
    OBVIOUS
  <2> QED
    BY <2>1, <2>2, <2>3, <1>1, <1>2
<1>4. PICK S \in Int, U \in Int : S = sec - qs + qn /\ U = usec - p * ms + p * mn
  BY <1>3
<1>5. US \in Nat
  BY ClockAssumption
<1>6. U \in -(US - 1) .. 2 * US - 2
  BY <1>3, <1>4, <1>5
<1>7. (n - s) * p = (qn - qs) * US + p * mn - p * ms
  <2>1. (d * qn + mn - (d * qs + ms)) * p = (qn - qs) * (p * d) + p * mn - p * ms
    OBVIOUS
  <2> QED
    BY <2>1, <1>1, <1>2
<1>8. S * US = sec * US + (qn - qs) * US
  <2>1. (sec - qs + qn) * US = sec * US + (qn - qs) * US
    BY <1>5
  <2> QED
    BY <2>1, <1>4
<1>9. sec * US \in Int /\ (qn - qs) * US \in Int /\ p * mn \in Int /\ p * ms \in Int
  BY <1>3, <1>5
<1>10. S * US + U = sec * US + usec + (n - s) * p
  BY <1>4, <1>7, <1>8, <1>9
<1>11. S = sec - s \div d + n \div d /\ U = usec - ((s * p) % US) + ((n * p) % US)
  BY <1>1, <1>2, <1>3, <1>4
<1> QED
  BY <1>6, <1>10, <1>11 DEF AddsUp

\* The carry changes no time that is not negative.
LEMMA CarryKeeps ==
    ASSUME NEW S \in Int, NEW U \in -(US - 1) .. 2 * US - 2, S * US + U >= 0
    PROVE  /\ Carried(S, U).usec \in 0 .. US - 1
           /\ Microseconds(Carried(S, U)) = S * US + U
<1>1. US \in Nat /\ US > 0
  BY ClockAssumption
<1>2. (S - 1) * US = S * US - US /\ (S + 1) * US = S * US + US /\ S * US \in Int
  BY <1>1
<1>3. CASE U < 0
  <2>1. S > 0
    <3>1. SUFFICES ASSUME S =< 0 PROVE FALSE
      OBVIOUS
    <3>2. US * S =< US * 0
      BY <1>1, <3>1, TimesMonotone
    <3>3. S * US = US * S /\ US * 0 = 0
      BY <1>1
    <3> QED
      BY <1>2, <1>3, <3>2, <3>3
  <2>2. Carried(S, U) = [sec |-> S - 1, usec |-> U + US]
    BY <1>3, <2>1 DEF Carried
  <2> QED
    BY <1>1, <1>2, <1>3, <2>2 DEF Microseconds
<1>4. CASE U >= US
  <2>1. Carried(S, U) = [sec |-> S + 1, usec |-> U - US]
    BY <1>1, <1>4 DEF Carried
  <2> QED
    BY <1>1, <1>2, <1>4, <2>1 DEF Microseconds
<1>5. CASE U \in 0 .. US - 1
  <2>1. Carried(S, U) = [sec |-> S, usec |-> U]
    BY <1>1, <1>5 DEF Carried
  <2> QED
    BY <1>5, <2>1 DEF Microseconds
<1> QED
  BY <1>1, <1>3, <1>4, <1>5

ClockTypes ==
    /\ _alt_tick_rate \in Rates \cup {0}
    /\ _alt_nticks \in 0 .. Wrap - 1 /\ elapsed \in 0 .. Wrap
    /\ set.sec \in Nat /\ set.usec \in 0 .. US - 1

\* settimeofday keeps the difference between the time it was given and the
\* counter at that tick; without a clock neither runs.
Kept ==
    /\ _alt_tick_rate = 0 =>
           /\ _alt_nticks = 0 /\ elapsed = 0
           /\ alt_resettime.sec = set.sec /\ alt_resettime.usec = set.usec
    /\ _alt_tick_rate # 0 /\ SetAt >= 0 =>
           /\ alt_resettime.sec = set.sec - SetAt \div _alt_tick_rate
           /\ alt_resettime.usec = set.usec - (((SetAt * PerTick) % Wrap) % US)

LEMMA RateFacts ==
    ASSUME ClockTypes, _alt_tick_rate # 0
    PROVE  /\ _alt_tick_rate \in Nat \ {0} /\ PerTick \in Nat \ {0}
           /\ US = PerTick * _alt_tick_rate
<1>1. _alt_tick_rate \in Nat \ {0} /\ US \in Nat \ {0} /\ US % _alt_tick_rate = 0
  BY RatesAssumption, ClockAssumption DEF ClockTypes
<1>2. PICK q \in Nat : q = US \div _alt_tick_rate /\ US = _alt_tick_rate * q + 0
  BY <1>1, DivMod
<1>3. q # 0 /\ _alt_tick_rate * q = q * _alt_tick_rate
  BY <1>1, <1>2
<1> QED
  BY <1>1, <1>2, <1>3 DEF PerTick

LEMMA KeptIsWallClock == ASSUME ClockTypes, Kept PROVE WallClock
<1> SUFFICES ASSUME _alt_tick_rate # 0, SetAt >= 0, SetAt * PerTick < Wrap
             PROVE  /\ Now.usec \in 0 .. US - 1
                    /\ Microseconds(Now) = Microseconds(set) + elapsed * PerTick
  BY DEF WallClock
<1>1. /\ PerTick \in Nat \ {0} /\ _alt_tick_rate \in Nat \ {0} /\ US = PerTick * _alt_tick_rate
      /\ _alt_nticks \in Nat /\ elapsed \in Nat /\ SetAt \in Nat
      /\ SetAt = _alt_nticks - elapsed
      /\ set.sec \in Nat /\ set.usec \in 0 .. US - 1 /\ US \in Nat \ {0} /\ Wrap \in Nat
  BY RateFacts, WrapAssumption, ClockAssumption DEF ClockTypes, SetAt
<1>2. PICK p \in Nat \ {0}, d \in Nat \ {0}, s \in Nat, n \in Nat,
           sec \in Nat, usec \in 0 .. US - 1 :
          /\ p = PerTick /\ d = _alt_tick_rate /\ s = SetAt /\ n = _alt_nticks
          /\ sec = set.sec /\ usec = set.usec
  BY <1>1
<1>3. US = p * d /\ n - s = elapsed /\ s * p < Wrap
  BY <1>1, <1>2
<1>4. (s * p) % Wrap = s * p
  <2>1. s * p \in Nat
    OBVIOUS
  <2>2. \A x \in Nat : x < Wrap => x % Wrap = x
    BY <1>1
  <2> QED
    BY <2>1, <2>2, <1>3
<1>5. alt_resettime.sec = sec - s \div d /\ alt_resettime.usec = usec - ((s * p) % US)
  <2>1. /\ alt_resettime.sec = set.sec - SetAt \div _alt_tick_rate
        /\ alt_resettime.usec = set.usec - (((SetAt * PerTick) % Wrap) % US)
    BY DEF Kept
  <2> QED
    BY <2>1, <1>2, <1>4
<1>6. Now = Carried(alt_resettime.sec + n \div d, alt_resettime.usec + ((n * p) % US))
  BY <1>2 DEF Now
<1>7. PICK S \in Int, U \in -(US - 1) .. 2 * US - 2 :
          /\ S = sec - s \div d + n \div d
          /\ U = usec - ((s * p) % US) + ((n * p) % US)
          /\ S * US + U = sec * US + usec + (n - s) * p
  <2>1. AddsUp(p, d, s, n, sec, usec)
    BY <1>3, SumOfParts
  <2> QED
    BY <2>1 DEF AddsUp
<1>8. Now = Carried(S, U)
  BY <1>5, <1>6, <1>7
<1>9. /\ S * US + U = sec * US + usec + elapsed * p
      /\ sec * US \in Nat /\ elapsed * p \in Nat
  BY <1>1, <1>3, <1>7
<1>10. S * US + U >= 0
  BY <1>1, <1>9
<1>11. Carried(S, U).usec \in 0 .. US - 1 /\ Microseconds(Carried(S, U)) = S * US + U
  BY <1>7, <1>10, CarryKeeps
<1> QED
  BY <1>2, <1>8, <1>9, <1>11 DEF Microseconds

LEMMA KeptInitially == ASSUME TimeInit PROVE ClockTypes /\ Kept
  BY WrapAssumption, ClockAssumption DEF TimeInit, Init, ClockTypes, Kept

\* The counter and the ticks since the time was set move together, until the
\* counter wraps.
LEMMA KeptStep ==
    ASSUME ClockTypes, Kept, [TimeNext]_allVars
    PROVE  ClockTypes' /\ Kept'
<1>1. _alt_nticks \in 0 .. Wrap - 1 /\ elapsed \in 0 .. Wrap /\ Wrap \in Nat /\ Wrap > 2
  BY WrapAssumption DEF ClockTypes
<1>2. ASSUME UNCHANGED <<_alt_tick_rate, _alt_nticks, clockVars>>
      PROVE  ClockTypes' /\ Kept'
  BY <1>2 DEF ClockTypes, Kept, SetAt, PerTick, clockVars
<1>3. CASE UNCHANGED allVars
  BY <1>2, <1>3 DEF allVars, vars
<1>4. ASSUME NEW t \in Times, SetTime(t) PROVE ClockTypes' /\ Kept'
  <2>1. /\ _alt_tick_rate # 0 /\ set' = t /\ elapsed' = 0
        /\ UNCHANGED <<_alt_tick_rate, _alt_nticks>>
        /\ alt_resettime' = Reset(t)
    BY <1>4 DEF SetTime, vars
  <2>2. SetAt' = _alt_nticks
    BY <2>1, <1>1 DEF SetAt
  <2>3. ClockTypes'
    BY <2>1, <1>1, ClockAssumption DEF ClockTypes
  <2>4. Kept'
    BY <2>1, <2>2 DEF Kept, Reset, PerTick
  <2> QED
    BY <2>3, <2>4
<1>5. CASE Next /\ Elapse /\ UNCHANGED <<alt_resettime, set>>
  <2>1. CASE SysclkInit
    <3>1. /\ _alt_tick_rate = 0 /\ _alt_tick_rate' \in Rates
          /\ UNCHANGED <<_alt_nticks, elapsed, alt_resettime, set>>
      BY <1>5, <2>1, <1>1 DEF SysclkInit, Elapse
    <3>2. /\ _alt_nticks = 0 /\ elapsed = 0
          /\ alt_resettime.sec = set.sec /\ alt_resettime.usec = set.usec
      BY <3>1 DEF Kept
    <3>3. ClockTypes'
      BY <3>1 DEF ClockTypes
    <3>4. SetAt' = 0
      BY <3>1, <3>2 DEF SetAt
    <3>5. \A x \in Nat \ {0}, y \in Int : 0 \div x = 0 /\ 0 % x = 0 /\ 0 * y = 0
      OBVIOUS
    <3>6. _alt_tick_rate' \in Nat \ {0} /\ US \in Nat \ {0} /\ Wrap \in Nat \ {0}
      BY <3>1, <1>1, RatesAssumption, ClockAssumption
    <3>7. US \div _alt_tick_rate' \in Int
      BY <3>6
    <3>8. (SetAt' \div _alt_tick_rate') = 0 /\ ((SetAt' * PerTick') % Wrap) % US = 0
      BY <3>4, <3>5, <3>6, <3>7 DEF PerTick
    <3>9. Kept'
      BY <3>1, <3>2, <3>3, <3>8 DEF Kept, ClockTypes
    <3> QED
      BY <3>3, <3>9
  <2>2. CASE Tick
    <3>1. /\ _alt_tick_rate # 0 /\ UNCHANGED <<_alt_tick_rate, alt_resettime, set>>
          /\ _alt_nticks' = (_alt_nticks + 1) % Wrap
      BY <1>5, <2>2 DEF Tick
    <3>2. _alt_nticks' = IF _alt_nticks + 1 < Wrap THEN _alt_nticks + 1 ELSE 0
      BY <3>1, <1>1, ModWrap
    <3>3. elapsed' = IF elapsed # Wrap THEN elapsed + 1 ELSE elapsed
      BY <1>5, <3>2, <1>1 DEF Elapse
    <3>4. ClockTypes'
      BY <3>1, <3>2, <3>3, <1>1 DEF ClockTypes
    <3>5. SetAt' >= 0 => SetAt' = SetAt
      BY <3>2, <3>3, <1>1 DEF SetAt
    <3>6. PerTick' = PerTick
      BY <3>1 DEF PerTick
    <3>7. Kept'
      BY <3>1, <3>5, <3>6 DEF Kept
    <3> QED
      BY <3>4, <3>7
  <2>3. CASE ~SysclkInit /\ ~Tick
    <3>1. UNCHANGED <<_alt_tick_rate, _alt_nticks>>
      BY <1>5, <2>3 DEF Next, Application, Start, Stop, Return, Publish, Visit, Done
    <3>2. elapsed' = elapsed
      BY <1>5, <3>1 DEF Elapse
    <3> QED
      BY <1>2, <1>5, <3>1, <3>2 DEF clockVars
  <2> QED
    BY <2>1, <2>2, <2>3
<1> QED
  BY <1>3, <1>4, <1>5 DEF TimeNext

\* gettimeofday returns the time that was set plus the ticks since, for every
\* rate that divides a second and every time, until the counter wraps
\* (alt_settod.c:61-63, alt_gettod.c:56-58).
THEOREM ClockKeepsTime == TimeSpec => []WallClock
<1>1. TimeInit => ClockTypes /\ Kept
  BY KeptInitially
<1>2. ClockTypes /\ Kept /\ [TimeNext]_allVars => ClockTypes' /\ Kept'
  BY KeptStep
<1>3. ClockTypes /\ Kept => WallClock
  BY KeptIsWallClock
<1> QED
  BY <1>1, <1>2, <1>3, PTL DEF TimeSpec
=============================================================================
