----------------------------- MODULE Timekeeping -----------------------------
(***************************************************************************)
(* The users of the tick counter together: the alarms, and the wall clock  *)
(* of settimeofday and gettimeofday, which keeps no time of its own but    *)
(* only what has to be added to the counter.  Numbers are 32 bits wide     *)
(* (Wrap), except the product in gettimeofday.  The time zone, which is    *)
(* only stored, is left out.  The two functions must not overlap           *)
(* (alt_settod.c:65-66), so each is one step.                              *)
(***************************************************************************)
EXTENDS Alarms, Integers

CONSTANTS
    US,        \* ALT_US: microseconds in a second
    Times      \* what settimeofday is called with, as [sec, usec]

ASSUME ClockAssumption ==
    /\ US \in Nat \ {0}
    /\ \A r \in Rates : US % r = 0   \* or the clock falls back at every second
    /\ \A t \in Times : t.sec \in Nat /\ t.usec \in 0 .. US - 1

VARIABLES
    alt_resettime,
    set, elapsed    \* history: the time last set, ticks since then (at most Wrap)

clockVars == <<alt_resettime, set, elapsed>>
allVars == <<vars, clockVars>>

\* Microseconds in a tick, rounded down.
PerTick == US \div _alt_tick_rate

\* settimeofday: the product is of 32 bits.
Reset(t) ==
    [sec  |-> t.sec - _alt_nticks \div _alt_tick_rate,
     usec |-> t.usec - (((_alt_nticks * PerTick) % Wrap) % US)]

SetTime(t) ==
    /\ CanCall("main") /\ _alt_tick_rate # 0
    /\ alt_resettime' = Reset(t)
    /\ set' = t /\ elapsed' = 0
    /\ UNCHANGED vars

\* Mutant of Carried: the microseconds are carried in one direction only.
CarriedUp(sec, usec) ==
    IF usec >= US THEN [sec |-> sec + 1, usec |-> usec - US]
    ELSE [sec |-> sec, usec |-> usec]

\* The two loops of gettimeofday.  The microseconds are a sum or difference of
\* two that are below US, so neither loop runs twice.
Carried(sec, usec) ==
    IF usec < 0
    THEN IF sec =< 0 THEN [sec |-> 0, usec |-> 0]
         ELSE [sec |-> sec - 1, usec |-> usec + US]
    ELSE IF usec >= US THEN [sec |-> sec + 1, usec |-> usec - US]
    ELSE [sec |-> sec, usec |-> usec]

\* gettimeofday: the product is of 64 bits.
Now ==
    Carried(alt_resettime.sec + _alt_nticks \div _alt_tick_rate,
            alt_resettime.usec + ((_alt_nticks * PerTick) % US))

TimeInit ==
    /\ Init
    /\ alt_resettime = [sec |-> 0, usec |-> 0]
    /\ set = [sec |-> 0, usec |-> 0] /\ elapsed = 0

Elapse ==
    elapsed' = IF _alt_nticks' # _alt_nticks /\ elapsed # Wrap THEN elapsed + 1 ELSE elapsed

TimeNext ==
    \/ Next /\ Elapse /\ UNCHANGED <<alt_resettime, set>>
    \/ \E t \in Times : SetTime(t)

\* What is begun goes on, and a callback that can return does so in the end.
TimeSpec ==
    /\ TimeInit /\ [][TimeNext]_allVars
    /\ WF_vars(\E c \in Context : Publish(c))
    /\ WF_vars(Visit) /\ WF_vars(Done)
    /\ SF_vars(\E r \in Periods : Return(r))
=============================================================================
