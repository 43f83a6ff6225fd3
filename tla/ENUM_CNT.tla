------------------------------ MODULE ENUM_CNT ------------------------------
(***************************************************************************)
(* One period counter of the frequency-locked loop (ENUM_CNT.sv with its   *)
(* COUNT instance).  It counts the clocks between two rising zero          *)
(* crossings of a sampled signal, offers the count with `valid' and keeps  *)
(* it until the reader withdraws it with rst or the signal moves on.       *)
(*                                                                         *)
(* The module has no next-state relation of its own: FLL instantiates it   *)
(* twice, and ENUM_CNT_Spec closes it with an environment.  A variable is  *)
(* what a clock edge sees: a register, or a wire once it has settled.      *)
(***************************************************************************)
EXTENDS Naturals, Integers

CONSTANTS
    M         \* 2^W_N_MAX: the counter is W_N_MAX bits wide

ASSUME CounterAssumption == M \in Nat /\ M > 1

VARIABLES
    state,    \* the enum of lines 21-27
    fst, sec, \* buff_signal_fst and buff_signal_sec
    count     \* the COUNT register

States == {"Reset_St", "Count_St", "Wait_St", "Hold_fst_St", "Hold_sec_St"}

\* FLL overrides the parameter with 0.
LIMIT == 0

pm == fst <= LIMIT /\ sec > LIMIT

nul == fst = 0 /\ sec = 0

\* Mutant of valid: the closing crossing does not raise it yet.
validLate(rst) ==
    \/ state = "Hold_fst_St" /\ (nul \/ ~rst)
    \/ state = "Hold_sec_St" /\ (nul \/ ~pm)

\* Mutant of valid: the first hold does not look at rst either.
validTaken(rst) ==
    \/ state = "Count_St" /\ (nul \/ pm)
    \/ state = "Hold_fst_St"
    \/ state = "Hold_sec_St" /\ (nul \/ ~pm)

\* valid is ~hold: a count is offered from the closing crossing on.
valid(rst) ==
    \/ state = "Count_St" /\ (nul \/ pm)
    \/ state = "Hold_fst_St" /\ (nul \/ ~rst)
    \/ state = "Hold_sec_St" /\ (nul \/ ~pm)      \* rst is not looked at

cnt(rst) ==
    /\ ~nul
    /\ \/ state = "Wait_St" /\ pm
       \/ state = "Count_St"
       \/ state = "Hold_fst_St" /\ ~rst
       \/ state = "Hold_sec_St" /\ ~pm

\* The two exits of a hold that count the phase (ph_cnt_en).
ph_cnt_en(rst) ==
    /\ ~nul
    /\ \/ state = "Hold_fst_St" /\ rst
       \/ state = "Hold_sec_St" /\ pm

-----------------------------------------------------------------------------
\* The transitions, in the order of the case statement.
Go(from, to) == state = from /\ state' = to

Arm    == Go("Reset_St", "Wait_St")
Abort  == nul /\ state # "Reset_St" /\ state' = "Reset_St"
Open   == ~nul /\ pm /\ Go("Wait_St", "Count_St")
Close  == ~nul /\ pm /\ Go("Count_St", "Hold_fst_St")

\* Mutant of Taken: a withdrawn count is not let go.
TakenStays(rst) == ~nul /\ rst /\ state = "Hold_fst_St" /\ UNCHANGED state

Taken(rst)   == ~nul /\ rst /\ Go("Hold_fst_St", "Wait_St")
Outlast(rst) == ~nul /\ ~rst /\ pm /\ Go("Hold_fst_St", "Hold_sec_St")

\* Mutant of Expire: the second hold has no exit but rst.
ExpireNever == ~nul /\ pm /\ state = "Hold_sec_St" /\ UNCHANGED state

Expire == ~nul /\ pm /\ Go("Hold_sec_St", "Wait_St")
Stay(rst) ==
    /\ ~nul /\ ~pm
    /\ state # "Reset_St"
    /\ state = "Hold_fst_St" => ~rst
    /\ UNCHANGED state

Move(rst) ==
    \/ Arm \/ Abort \/ Open \/ Close
    \/ Taken(rst) \/ Outlast(rst) \/ Expire \/ Stay(rst)

\* Mutant of NextCount: the clear is missing.
NextCountNoClear(rst) == IF valid(rst) THEN count ELSE (count + 1) % M

\* COUNT: clear unless enabled, keep while a count is offered, else add one.
NextCount(rst) ==
    IF ~(cnt(rst) \/ valid(rst)) THEN 0
    ELSE IF valid(rst) THEN count
    ELSE (count + 1) % M

\* A clock edge out of reset.
Clock(rst) ==
    /\ Move(rst)
    /\ count' = NextCount(rst)

\* reset_l is asynchronous; the sample buffer has no reset.
Reset ==
    /\ state' = "Reset_St"
    /\ count' = 0

\* Mutant of Sample: a shift register, clocked whether the signal moved or not.
SampleShifts(x, reading) == fst' = sec /\ sec' = x

(***************************************************************************)
(* The value x of signal_in in the next clock.  The buffer is an           *)
(* always_comb that reads what it writes.  A simulator runs it when        *)
(* signal_in changes, so it holds the last two different samples; read as  *)
(* wires, both halves are signal_in.                                       *)
(***************************************************************************)
Sample(x, reading) ==
    \/ /\ reading = "event"
       /\ x # sec
       /\ fst' = sec /\ sec' = x
    \/ /\ reading = "event"
       /\ x = sec
       /\ UNCHANGED <<fst, sec>>
    \/ /\ reading = "wire"
       /\ fst' = x /\ sec' = x

Init ==
    /\ state = "Reset_St"
    /\ fst = 0 /\ sec = 0
    /\ count = 0

TypeOK ==
    /\ state \in States
    /\ fst \in Int /\ sec \in Int
    /\ count \in 0 .. M - 1
=============================================================================
