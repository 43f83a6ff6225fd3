----------------------------- MODULE Filtr_Spec -----------------------------
(***************************************************************************)
(* The filter channel with histories: whether the converter shows a sample *)
(* of the input, and which samples went into the delay line last.          *)
(***************************************************************************)
EXTENDS Filtr

VARIABLES
    genuine,          \* signal_doubal_o is a conversion of the input
    newest, before,   \* the last two samples taken
    madeOf            \* what the newest was computed from

history == <<genuine, newest, before, madeOf>>
allVars == <<vars, history>>

SpecInit ==
    /\ Init
    /\ genuine = FALSE
    /\ newest = 0 /\ before = 0
    /\ madeOf = mixed

TickH ==
    /\ Tick
    /\ genuine' = (conv # Cleared)
    /\ IF Sampling
       THEN /\ newest' = label
            /\ before' = newest
            /\ madeOf' \in {summ_a3, summ_a3'}
       ELSE UNCHANGED <<newest, before, madeOf>>

ResetH ==
    /\ ResetEdge
    /\ genuine' = FALSE
    /\ UNCHANGED <<newest, before, madeOf>>

NextH == TickH \/ ResetH

SpecH == SpecInit /\ [][NextH]_allVars /\ WF_allVars(TickH)

-----------------------------------------------------------------------------
\* The filter is never fed the 65536.0 that the converter shows for one clock
\* after a reset: the start-up machine is in Wait_St just then
\* (Filtr.sv:52-93, IntToFloat.vhd:449-494).
StartsOnSamples == start_f => genuine

\* It does start, unless the input itself is 65536 for ever or resets go on.
Starts ==
    (<>[][~ResetEdge]_allVars /\ []<>(signal_doubal_o # Residue))
        => <>[](state = "Count_St")

\* Whichever side of the edge the race picks, what is sampled has settled: the
\* sample and the output are computed from the delay line as the last sampling
\* left it.  Read as events it holds exactly the two samples before, read as
\* latches the last one twice (IIR_Filtr.sv:18-33, 94-141).
SamplesSettled ==
    [][~sampl /\ sampl' =>
         LET held == IF reading = "event" THEN <<newest, before>> ELSE <<newest, newest>>
         IN  madeOf' = held /\ o_signal' = held]_allVars
=============================================================================
