------------------------------- MODULE Alarms -------------------------------
(***************************************************************************)
(* The alarms of the HAL: a doubly linked list that the program changes    *)
(* with interrupts off and that alt_tick walks at interrupt level, calling *)
(* functions that may change the list they are called from.                *)
(*                                                                         *)
(* Two contexts run: the program, and above it alt_tick with the callback  *)
(* it is in.  Each can be inside one alt_alarm_start or alt_alarm_stop.    *)
(* The application keeps two rules the HAL does not state: an alarm that   *)
(* is in the list is not started again, and a callback does not start its  *)
(* own alarm (the value it returns is for that).                           *)
(***************************************************************************)
EXTENDS Naturals

CONSTANTS
    Alarm,      \* the alt_alarm structures of the application
    Wrap,       \* 2^32: ticks and deadlines count modulo Wrap
    Delays,     \* what alt_alarm_start is called with
    Periods,    \* what callbacks return
    Head,       \* &alt_alarm_list
    Null,       \* a link that was never written
    Rates,      \* ticks per second of the clocks there may be
    Reckless    \* TRUE: a callback may stop any alarm; FALSE: any but the one
                \* that is behind its own in the list

ASSUME WrapAssumption == Wrap \in Nat /\ Wrap > 2
ASSUME DelaysAssumption == Delays \subseteq 0 .. Wrap - 2
ASSUME PeriodsAssumption == Periods \subseteq 0 .. Wrap - 1
ASSUME RatesAssumption == Rates \subseteq Nat \ {0}
ASSUME EntryAssumption == Head \notin Alarm /\ Null \notin Alarm /\ Null # Head

VARIABLES
    _alt_tick_rate,      \* ticks per second, 0 while there is no system clock
    _alt_nticks,
    next, previous,      \* the links of every entry
    time, rollover,      \* the deadline of every alarm
    pie,                 \* the interrupt enable bit of the status register
    call,                \* per context, the list operation it is in
    tick                 \* where alt_tick is

list == <<next, previous>>
deadline == <<time, rollover>>
vars == <<_alt_tick_rate, _alt_nticks, list, deadline, pie, call, tick>>

Entry == Alarm \cup {Head}
Context == {"main", "isr"}

\* A call of alt_alarm_start is half done, with the context that
\* alt_irq_disable_all returned; alt_tick is going to visit `alarm', or waits
\* for its callback, having read the link behind it.
NoCall == [step |-> "none", alarm |-> Head, context |-> FALSE]
NoTick == [at |-> "idle", alarm |-> Head, next |-> Head]

Linked(a) == next[a] \notin {a, Null}

\* The interrupt runs to its end before the program goes on, and its callback
\* is the only part of it that calls.
CanCall(c) ==
    /\ call[c] = NoCall
    /\ tick.at = IF c = "main" THEN "idle" ELSE "callback"

-----------------------------------------------------------------------------
(* The program and the callbacks.                                           *)

\* alt_sysclk_init, called by the clock's driver.
SysclkInit ==
    /\ CanCall("main") /\ _alt_tick_rate = 0
    /\ _alt_tick_rate' \in Rates
    /\ UNCHANGED <<_alt_nticks, list, deadline, pie, call, tick>>

\* Mutant of Disabled: interrupts stay as they are.
DisabledNot == pie

\* alt_irq_disable_all clears the bit, alt_irq_enable_all(context) puts back
\* what it was before.
Disabled == FALSE

Restored(context) == context

Deadline(n) == (n + _alt_nticks + 1) % Wrap

\* A deadline that lies beyond the next wrap of the counter.
RollsOver(t) == t < _alt_nticks

\* alt_alarm_start, if there is a clock: interrupts off, the deadline, the
\* entry's own links and the link back to it ...
Start(c, a, n) ==
    /\ CanCall(c) /\ _alt_tick_rate # 0
    /\ ~Linked(a)
    /\ c = "isr" => a # tick.alarm
    /\ call' = [call EXCEPT ![c] = [step |-> "publish", alarm |-> a, context |-> pie]]
    /\ pie' = Disabled
    /\ time' = [time EXCEPT ![a] = Deadline(n)]
    /\ rollover' = [rollover EXCEPT ![a] = RollsOver(Deadline(n))]
    /\ next' = [next EXCEPT ![a] = next[Head]]
    /\ previous' = [previous EXCEPT ![a] = Head, ![next[Head]] = a]
    /\ UNCHANGED <<_alt_tick_rate, _alt_nticks, tick>>

\* ... then the link to it, and interrupts as before.
Publish(c) ==
    /\ call[c].step = "publish"
    /\ next' = [next EXCEPT ![Head] = call[c].alarm]
    /\ pie' = Restored(call[c].context)
    /\ call' = [call EXCEPT ![c] = NoCall]
    /\ UNCHANGED <<_alt_tick_rate, _alt_nticks, previous, deadline, tick>>

\* alt_llist_remove.
Removed(a) ==
    /\ previous' = [previous EXCEPT ![next[a]] = previous[a], ![a] = a]
    /\ next' = [next EXCEPT ![previous[a]] = next[a], ![a] = a]

\* alt_alarm_stop, for an alarm that was started once.
Stop(c, a) ==
    /\ CanCall(c)
    /\ next[a] # Null
    /\ c = "isr" => Reckless \/ a # tick.next
    /\ Removed(a)
    /\ pie' = Restored(pie)
    /\ UNCHANGED <<_alt_tick_rate, _alt_nticks, deadline, call, tick>>

-----------------------------------------------------------------------------
(* alt_tick, called by the clock's interrupt.                               *)

Tick ==
    /\ _alt_tick_rate # 0 /\ pie /\ tick.at = "idle"
    /\ pie' = FALSE
    /\ _alt_nticks' = (_alt_nticks + 1) % Wrap
    /\ tick' = [at |-> "visit", alarm |-> next[Head], next |-> Head]
    /\ UNCHANGED <<_alt_tick_rate, list, deadline, call>>

\* The roll-over flag of an alarm, as the visit in this tick leaves it.
RollsOn(a) == rollover[a] /\ _alt_nticks # 0

\* Mutant of Due: the roll-over flag is not looked at.
DueUnflagged(a) == time[a] =< _alt_nticks

Due(a) == time[a] =< _alt_nticks /\ ~RollsOn(a)

\* Mutant of NextVisit: the link is read after the callback.
NextVisitLate == next[tick.alarm]

\* Where the walk goes from an alarm: the link read before its callback.
NextVisit == tick.next

Visit ==
    /\ tick.at = "visit" /\ tick.alarm # Head
    /\ LET a == tick.alarm
       IN  /\ rollover' = [rollover EXCEPT ![a] = RollsOn(a)]
           /\ tick' = IF Due(a)
                      THEN [at |-> "callback", alarm |-> a, next |-> next[a]]
                      ELSE [tick EXCEPT !.alarm = next[a]]
    /\ UNCHANGED <<_alt_tick_rate, _alt_nticks, list, time, pie, call>>

\* The callback returns r: 0 takes the alarm off the list.
Return(r) ==
    /\ CanCall("isr")
    /\ LET a == tick.alarm
           t == (time[a] + r) % Wrap
       IN  IF r = 0
           THEN Removed(a) /\ UNCHANGED deadline
           ELSE /\ time' = [time EXCEPT ![a] = t]
                /\ rollover' = [rollover EXCEPT ![a] = rollover[a] \/ RollsOver(t)]
                /\ UNCHANGED list
    /\ tick' = [at |-> "visit", alarm |-> NextVisit, next |-> Head]
    /\ UNCHANGED <<_alt_tick_rate, _alt_nticks, pie, call>>

\* The end of the list; eret restores the interrupt enable bit.
Done ==
    /\ tick.at = "visit" /\ tick.alarm = Head
    /\ tick' = NoTick
    /\ pie' = TRUE
    /\ UNCHANGED <<_alt_tick_rate, _alt_nticks, list, deadline, call>>

-----------------------------------------------------------------------------
Init ==
    /\ _alt_tick_rate = 0 /\ _alt_nticks = 0
    /\ next = [e \in Entry |-> IF e = Head THEN Head ELSE Null]
    /\ previous = [e \in Entry |-> IF e = Head THEN Head ELSE Null]
    /\ time = [a \in Alarm |-> 0] /\ rollover = [a \in Alarm |-> FALSE]
    /\ pie = TRUE
    /\ call = [c \in Context |-> NoCall]
    /\ tick = NoTick

Application ==
    \/ SysclkInit
    \/ \E c \in Context, a \in Alarm :
           Stop(c, a) \/ \E n \in Delays : Start(c, a, n)
    \/ \E r \in Periods : Return(r)

Next ==
    \/ Application
    \/ \E c \in Context : Publish(c)
    \/ Tick \/ Visit \/ Done
=============================================================================
