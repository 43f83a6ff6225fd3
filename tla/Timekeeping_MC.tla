--------------------------- MODULE Timekeeping_MC ---------------------------
(* Three alarms: the one whose callback runs, the one behind it, and another *)
(* one.  A counter that wraps after four ticks, the longest and the shortest *)
(* delay and period.  Seconds of three ticks of a microsecond, and a time    *)
(* from which gettimeofday has to carry as well as to borrow.                *)
EXTENDS Timekeeping_Spec

CONSTANTS a1, a2, a3

MCAlarm == {a1, a2, a3}
MCWrap == 4
MCDelays == {0, MCWrap - 2}
MCPeriods == {0, MCWrap - 1}
MCUS == 3
MCRates == {3}
MCTimes == {[sec |-> 3, usec |-> 1]}
=============================================================================
