--------------------------- MODULE Timekeeping_Spec ---------------------------
(* What an application relies on whose callbacks leave the alarm behind their *)
(* own alone (~Reckless), on a system with a timer: this design has none, so  *)
(* nothing calls its alt_tick.                                                *)
EXTENDS Timekeeping

Calls == [step : {"none", "publish"}, alarm : Entry, context : BOOLEAN]

\* Outside a change of the list every link has its opposite: whoever walks the
\* list, in whichever direction, meets the same entries (alt_llist.h:90-117;
\* the changes are made with interrupts off, alt_tick.c:70-72,
\* alt_alarm_start.c:77-98).
Woven ==
    (\A c \in Context : call[c].step # "publish") =>
        \A e \in Entry : next[e] # Null =>
            /\ previous[next[e]] = e
            /\ next[previous[e]] = e

\* alt_tick runs with interrupts off, whatever its callbacks call: no tick is
\* interrupted by the next (alt_irq.h:143-159).
TicksNeverNest == tick.at # "idle" => ~pie

\* An alarm is called back only while it is registered (alt_tick.c:60-64), also
\* if a callback stops its own or one the walk has passed or is yet to come to,
\* the next one excepted.
OnlyRegistered ==
    [][tick'.at = "callback" /\ tick.at # "callback" => Linked(tick'.alarm)]_vars

Off == Wrap

\* Ticks an alarm has left.  The roll-over flag is obsolete as soon as the
\* counter has wrapped, before the walk has come to clear it.
Left(a) ==
    IF ~Linked(a) THEN Off
    ELSE IF RollsOn(a) THEN time[a] + Wrap - _alt_nticks
    ELSE IF time[a] < _alt_nticks THEN 0
    ELSE time[a] - _alt_nticks

Timers == INSTANCE TimerSet WITH
    left    <- [a \in Alarm |-> Left(a)],
    ticking <- tick.at # "idle"

\* Every alarm goes off in exactly the tick it was set for, across the wrap of
\* the counter, whatever is started and stopped in between, from the program
\* and, but for the alarm behind the one called, from callbacks (alt_alarm_start.c:84-98, alt_tick.c:98-141).
ImplementsTimerSet == Timers!TimerSpec

\* A tick that has begun ends: the walk over the list does not go in circles,
\* although callbacks take their own and other alarms off it and put new ones
\* on, the alarm behind the one called excepted (alt_tick.c:100-140).
TickEnds == tick.at # "idle" ~> tick.at = "idle"

Microseconds(t) == t.sec * US + t.usec

\* The tick counter at which the time was last set.
SetAt == _alt_nticks - elapsed

\* gettimeofday returns what was set, at once and ever after, plus the time
\* that has passed (alt_settod.c:61-63, alt_gettod.c:56-58).  The code needs
\* two things for it: the counter has not wrapped since, and it had not passed
\* 2^32 microseconds when the time was set.
WallClock ==
    _alt_tick_rate # 0 /\ SetAt >= 0 /\ SetAt * PerTick < Wrap
    => /\ Now.usec \in 0 .. US - 1
       /\ Microseconds(Now) = Microseconds(set) + elapsed * PerTick
=============================================================================
