------------------------------- MODULE Filtr -------------------------------
(***************************************************************************)
(* One filter channel: the integer-to-float conversion, the start-up       *)
(* machine of Filtr.sv and the recursive filter of IIR_Filtr.sv, whose     *)
(* arithmetic is a pipeline that is sampled every T + 1 clocks.            *)
(*                                                                         *)
(* Numbers are left out.  A sample that went into the delay line is a      *)
(* label, and a register of the pipeline holds the two labels of the delay *)
(* line it was computed from.  The coefficients are in ConfigPath.         *)
(***************************************************************************)
EXTENDS Naturals, Integers

CONSTANTS
    T,         \* a sample is taken when cnt comes to T
    Latency,   \* clocks through one FP_MULT, FP_SUB or FP_ADD
    Signals,   \* what conversions of the input can yield
    Labels     \* samples are labelled modulo Labels

ASSUME PipelineAssumption ==
    /\ Latency \in Nat \ {0}
    /\ T \in Nat /\ 5 * Latency =< T
ASSUME LabelAssumption == Labels \in Nat \ {0}

VARIABLES
    start, clk_en,        \* control bits of Decoder, no reset
    busy, counter,        \* handshake of cnv_i and cnv_o
    conv,                 \* first register of IntToFloat
    signal_doubal_o,      \* its output
    state,                \* the enum of Filtr.sv:23-27
    cnt, sampl,           \* the sampler
    pipe,                 \* registers of the arithmetic, in the order of the data
    sh_1, sh_2, o_signal, \* the delay line and the output, no reset
    label,                \* the label of the next sample
    reading               \* for the whole behaviour: what always @(sampl) is

control == <<start, clk_en>>
line == <<sh_1, sh_2, o_signal, label>>
vars == <<control, busy, counter, conv, signal_doubal_o, state, cnt, sampl, pipe, line,
          reading>>

Converters == {"cnv_i", "cnv_o"}
Code == [u \in Converters |-> IF u = "cnv_i" THEN 2 ELSE 1]

FP == INSTANCE Convers WITH Units <- Converters

\* start is a level.
Started == {u \in Converters : start}

Cleared == "cleared"

ASSUME SignalsAssumption == Cleared \notin Signals

\* A cleared first register has counted 15 leading zeros: exponent 158 - 15.
Residue == "65536.0"

Converted(c) == IF c = Cleared THEN Residue ELSE c

\* The patterns of the case statement, as the two halves of buffer.
Patterns == {<<"h23C00000", "0.0">>, <<"h23C00000", Residue>>, <<"0.0", Residue>>}

\* buffer <= {buffer[0], signal_doubal_o} is combinational and 65 bits go into
\* 66: the upper half is shifted right until nothing of it is left.
buffer == <<"0.0", signal_doubal_o>>

\* Mutant of Waits: a quiet input is waited for as well.
WaitsQuiet == buffer \in Patterns \cup {<<"0.0", "0.0">>}

Waits == buffer \in Patterns

start_f == state = "Count_St"

\* Mutant of NextState: the filter starts with the first clock out of reset.
NextStateSkips == "Count_St"

NextState ==
    IF state = "Reset_St" \/ (state = "Wait_St" /\ Waits) THEN "Wait_St" ELSE "Count_St"

\* Mutant of Sampling: one clock early.
SamplingEarly == start_f /\ cnt = T - 1

\* sampl rises with this clock edge.
Sampling == start_f /\ cnt = T

Sampler ==
    /\ cnt' = IF start_f /\ ~Sampling THEN cnt + 1 ELSE 0
    /\ sampl' = Sampling

\* mult_a2 and its siblings, sub_a2, sub_a3, add_b2, add_b3, one after another.
Stages == 1 .. 5 * Latency
AdderInputs == {Latency + 1, 2 * Latency + 1, 3 * Latency + 1, 4 * Latency + 1}

taps == <<sh_1, sh_2>>
\* No single delay line: Labels is not a label.
mixed == <<Labels, Labels>>

\* Each adder takes the sum so far and a product, which come from the same
\* delay line or else belong together no more.
Shifted(j) ==
    IF j = 1 THEN taps
    ELSE IF j \in AdderInputs /\ pipe[j - 1] # pipe[Latency] THEN mixed
    ELSE pipe[j - 1]

Pipeline == pipe' = [j \in Stages |-> Shifted(j)]

summ_a3 == pipe[3 * Latency]
summ_b3 == pipe[5 * Latency]

(***************************************************************************)
(* always @(sampl): run as an event, the delay line shifts once when sampl *)
(* rises; as the latches a netlist makes of it, both are open together.    *)
(* Whether the sampled sums are those before or after the edge is a race.  *)
(***************************************************************************)
DelayLine ==
    IF Sampling
    THEN /\ sh_1' = label
         /\ sh_2' = IF reading = "event" THEN sh_1 ELSE label
         /\ o_signal' \in {summ_b3, summ_b3'}
         /\ label' = (label + 1) % Labels
    ELSE UNCHANGED line

\* The firmware writes 7 to the control bits and nothing else, ever.
Configure == UNCHANGED control \/ (start' = TRUE /\ clk_en' = TRUE)

Edge(x) ==
    /\ Configure
    /\ FP!UnitsEdge(Started, clk_en)
    /\ conv' = x
    /\ signal_doubal_o' = Converted(conv)
    /\ state' = NextState
    /\ Sampler
    /\ Pipeline
    /\ DelayLine
    /\ UNCHANGED reading

\* reset_l is low over a clock.
ResetEdge ==
    /\ UNCHANGED control
    /\ FP!Cleared
    /\ conv' = Cleared
    /\ signal_doubal_o' = "0.0"
    /\ state' = "Reset_St"
    /\ cnt' = 0 /\ sampl' = FALSE
    /\ pipe' = [j \in Stages |-> mixed]
    /\ UNCHANGED <<line, reading>>

\* Power-up: the control bits have no reset and no initial value.
Init ==
    /\ start \in BOOLEAN /\ clk_en \in BOOLEAN
    /\ busy = [u \in Converters |-> FALSE]
    /\ counter = [u \in Converters |-> 15]
    /\ conv = Cleared
    /\ signal_doubal_o = "0.0"
    /\ state = "Reset_St"
    /\ cnt = 0 /\ sampl = FALSE
    /\ pipe = [j \in Stages |-> mixed]
    /\ sh_1 = 0 /\ sh_2 = 0 /\ o_signal = mixed
    /\ label = 1 % Labels
    /\ reading \in {"event", "latch"}

Tick == \E x \in Signals : Edge(x)
=============================================================================
