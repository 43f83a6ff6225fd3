------------------------------ MODULE TimerSet ------------------------------
(***************************************************************************)
(* What the alarms promise (alt_alarm_start.c:45-50, alt_tick.c:77-85): an *)
(* alarm started with n goes off in the (n+1)st tick from then, one whose  *)
(* callback returns p in the p-th tick after that, not in any other tick,  *)
(* once, and no tick ends before all that are due in it have gone off.     *)
(***************************************************************************)
EXTENDS Naturals

CONSTANTS Alarm, Off, Delays, Periods

VARIABLES
    left,      \* ticks until an alarm goes off, or Off
    ticking    \* a tick is being processed

Start(a) ==
    /\ left[a] = Off
    /\ \E n \in Delays : left' = [left EXCEPT ![a] = n + 1]
    /\ UNCHANGED ticking

Stop(a) ==
    /\ left' = [left EXCEPT ![a] = Off]
    /\ UNCHANGED ticking

BeginTick ==
    /\ ~ticking /\ ticking' = TRUE
    /\ left' = [a \in Alarm |-> IF left[a] = Off THEN Off ELSE left[a] - 1]

GoOff(a) ==
    /\ ticking /\ left[a] = 0
    /\ \E p \in Periods : left' = [left EXCEPT ![a] = IF p = 0 THEN Off ELSE p]
    /\ UNCHANGED ticking

EndTick ==
    /\ ticking /\ ticking' = FALSE
    /\ \A a \in Alarm : left[a] # 0
    /\ UNCHANGED left

Init == left = [a \in Alarm |-> Off] /\ ticking = FALSE

Next == BeginTick \/ EndTick \/ \E a \in Alarm : Start(a) \/ Stop(a) \/ GoOff(a)

TimerSpec == Init /\ [][Next]_<<left, ticking>>
=============================================================================
