----------------------------- MODULE ConfigPath -----------------------------
(***************************************************************************)
(* How a configuration word travels from the firmware to the register it   *)
(* configures: a store of the CPU, the one-clock write beat the master     *)
(* translator makes of it, Decoder's write decode, and, one clock LATER,   *)
(* the strobe with which the addressed block samples address and data      *)
(* straight from the bus.                                                  *)
(*                                                                         *)
(* One Edge is one clock.  A value is named by the store that carries it.  *)
(* The master's address and data registers follow the instruction in       *)
(* execution: they are anything (Junk) but in a store and the clock after. *)
(*                                                                         *)
(* There are two resets.  The decoder's falls with the reset input and is  *)
(* released three clocks after it; the CPU's follows some clocks later,    *)
(* through a synchronous chain, is released after the decoder's, and can   *)
(* also be requested by the debugger.                                      *)
(***************************************************************************)
EXTENDS Naturals, Integers, Sequences

CONSTANTS
    Program,      \* the firmware's stores in order: a sequence of word addresses
    Words         \* the word addresses other instructions leave on the bus

ASSUME ProgramAssumption ==
    /\ Program \in Seq(0 .. 31)
    /\ Words \subseteq 0 .. 31 /\ 0 \in Words

VARIABLES
    pc,                        \* the store the firmware is at
    d_write, address, data,    \* the CPU's data master
    write_accepted,            \* the master translator's two flags
    end_begintransfer,
    waitrequest_reset_override,\* the slave translator's, set by dec_reset
    wr,                        \* the block whose strobe is up, Decoder's wr[0..2]
    mem,                       \* what the registers of Decoder and its blocks hold
    cpu_reset, dec_reset,      \* the two resets, active
    due,                       \* a reset is on its way to the CPU
    orderly,                   \* for the whole behaviour: the debugger resets nothing
                               \* and the reset input stays low until the CPU is in reset
    seesNew                    \* for the whole behaviour: how the race on wr ends

busVars == <<d_write, address, data, write_accepted, end_begintransfer>>
decVars == <<wr, mem, waitrequest_reset_override, dec_reset>>
worldVars == <<orderly, seesNew>>
vars == <<pc, busVars, decVars, cpu_reset, due, worldVars>>

\* What a reset leaves: 1.0 in Ku, 0 elsewhere.
ResetValue == 0
Junk == -1
Unset == -2   \* never written and not reset

Values == {ResetValue, Junk, Unset} \cup (1 .. Len(Program))

\* The registers: control bits, filter coefficients, Ku and the two limits.
Coefs == {<<"caff", k>> : k \in 0 .. 4}
Limits == {<<"range", k>> : k \in 0 .. 1}
Ctl == <<"ctl", 0>>
Ku == <<"Ku", 0>>
Regs == Coefs \cup Limits \cup {Ctl, Ku}

\* address[4:3] selects the block, address[2:0] the register in it.
Block(word) == <<"ctl", "caff", "Ku", "range">>[(word \div 8) + 1]

\* The register a strobed block writes: Ku looks at no address, and an index
\* past the end of an array writes nothing.
Strobed(block, word) ==
    LET r == IF block = "Ku" THEN Ku ELSE <<block, word % 8>>
    IN  {r} \cap Regs

-----------------------------------------------------------------------------
\* The write beat: the translator shows it to the slave until it is accepted,
\* and keeps the CPU one clock longer unless the slave has made it wait before.
writ == d_write /\ ~write_accepted

av_waitrequest ==
    /\ writ
    /\ ~end_begintransfer \/ waitrequest_reset_override

\* Mutant of HoldStore: the CPU is not kept waiting and moves on.
HoldStoreOneClock ==
    /\ av_waitrequest
    /\ write_accepted' = FALSE
    /\ end_begintransfer' = FALSE
    /\ d_write' = FALSE
    /\ UNCHANGED <<address, data>>
    /\ pc' = pc + 1

HoldStore ==
    /\ av_waitrequest
    /\ write_accepted' = ~waitrequest_reset_override
    /\ end_begintransfer' = waitrequest_reset_override
    /\ UNCHANGED <<pc, d_write, address, data>>

\* Mutant of EndStore: the flag is not reset, the next store has no beat.
EndStoreKeepsFlag ==
    /\ d_write /\ ~av_waitrequest
    /\ write_accepted' = TRUE
    /\ end_begintransfer' = FALSE
    /\ d_write' = FALSE
    /\ UNCHANGED <<address, data>>
    /\ pc' = pc + 1

\* The store's operands stay on the bus for the clock after.
EndStore ==
    /\ d_write /\ ~av_waitrequest
    /\ write_accepted' = FALSE
    /\ end_begintransfer' = FALSE
    /\ d_write' = FALSE
    /\ UNCHANGED <<address, data>>
    /\ pc' = pc + 1

NextStore ==
    /\ ~d_write /\ pc <= Len(Program)
    /\ d_write' = TRUE
    /\ address' = Program[pc] /\ data' = pc
    /\ UNCHANGED <<pc, write_accepted, end_begintransfer>>

OtherInstruction ==
    /\ ~d_write
    /\ address' \in Words /\ data' = Junk
    /\ UNCHANGED <<pc, d_write, write_accepted, end_begintransfer>>

\* In reset the CPU's registers are 0 and the firmware is at its start.
InReset ==
    /\ d_write' = FALSE
    /\ write_accepted' = FALSE /\ end_begintransfer' = FALSE
    /\ address' = 0 /\ data' = Junk
    /\ pc' = 1

CpuEdge == IF cpu_reset THEN InReset
           ELSE HoldStore \/ EndStore \/ NextStore \/ OtherInstruction

-----------------------------------------------------------------------------
(***************************************************************************)
(* Decoder assigns wr with `=' in the block of the same clock edge at which *)
(* the addressed block reads it.  In the netlist wr is a register and the   *)
(* old value is read, so the register is written a clock after the beat; a  *)
(* simulator that runs Decoder's block first shows the new one.             *)
(***************************************************************************)
Strobe == IF seesNew THEN wr' ELSE wr

\* Mutant of Written: the control bits are taken from any beat.
WrittenUndecoded ==
    [r \in Regs |->
        IF Strobe # "none" /\ r \in Strobed(Strobe, address) THEN data
        ELSE IF writ /\ r = Ctl THEN data
        ELSE mem[r]]

\* What Decoder's edge makes of the registers: the control bits are taken in
\* the write beat, everything else with the strobe.
Written ==
    [r \in Regs |->
        IF Strobe # "none" /\ r \in Strobed(Strobe, address) THEN data
        ELSE IF writ /\ Block(address) = "ctl" /\ r = Ctl THEN data
        ELSE mem[r]]

\* reset_l resets Ku, both limits, the strobes, and of the coefficients the
\* one that is addressed; the control bits have no reset.
Clear(m, word) ==
    [r \in Regs |->
        IF r = Ku \/ r \in Limits \/ r = <<"caff", word % 8>> THEN ResetValue ELSE m[r]]

\* Mutant of DecoderEdge: a strobe stays up until the next beat.
DecoderEdgeSticky ==
    IF dec_reset
    THEN wr' = "none" /\ mem' = Clear(mem, address)
    ELSE /\ wr' = IF ~writ THEN wr
                  ELSE IF Block(address) # "ctl" THEN Block(address) ELSE "none"
         /\ mem' = Written

DecoderEdge ==
    IF dec_reset
    THEN wr' = "none" /\ mem' = Clear(mem, address)
    ELSE /\ wr' = IF writ /\ Block(address) # "ctl" THEN Block(address) ELSE "none"
         /\ mem' = Written

-----------------------------------------------------------------------------
\* The decoder is released when the reset input is; the CPU after the decoder,
\* unless another reset is on its way to it.
MayReleaseDecoder == orderly => ~due

MayReleaseCpu == due \/ (~dec_reset /\ ~waitrequest_reset_override)

\* A clock edge; a reset that is active may be released after it.
Edge ==
    /\ CpuEdge
    /\ DecoderEdge
    /\ waitrequest_reset_override' = dec_reset
    /\ dec_reset' \in {dec_reset, dec_reset /\ ~MayReleaseDecoder}
    /\ cpu_reset' \in {cpu_reset, cpu_reset /\ ~MayReleaseCpu}
    /\ UNCHANGED <<due, worldVars>>

\* Between two edges: the reset input falls (mem sees the coefficient that was
\* addressed then) ...
SystemReset ==
    /\ ~dec_reset
    /\ dec_reset' = TRUE /\ waitrequest_reset_override' = TRUE
    /\ wr' = "none" /\ mem' = Clear(mem, address)
    /\ due' = TRUE
    /\ UNCHANGED <<pc, busVars, cpu_reset, worldVars>>

\* ... the debugger asks for a reset of the CPU ...
DebugReset ==
    /\ ~orderly /\ ~due
    /\ due' = TRUE
    /\ UNCHANGED <<pc, busVars, decVars, cpu_reset, worldVars>>

\* ... and the reset reaches the CPU.
CpuReset ==
    /\ due
    /\ due' = FALSE /\ cpu_reset' = TRUE
    /\ InReset
    /\ UNCHANGED <<decVars, worldVars>>

\* Power-up: the reset input is low and has yet to reach the CPU.
Init ==
    /\ pc = 1
    /\ d_write = FALSE
    /\ write_accepted = FALSE /\ end_begintransfer = FALSE
    /\ address = 0 /\ data = Junk
    /\ wr = "none"
    /\ mem = [r \in Regs |-> Unset]
    /\ waitrequest_reset_override = TRUE
    /\ cpu_reset \in BOOLEAN /\ dec_reset = TRUE
    /\ due = TRUE
    /\ orderly \in BOOLEAN /\ seesNew \in BOOLEAN

Next == Edge \/ SystemReset \/ DebugReset \/ CpuReset

\* The clock runs, a reset reaches the CPU, resets are released, and the CPU
\* comes to its next store.
Fairness ==
    /\ WF_vars(CpuReset)
    /\ WF_vars(Edge /\ ~dec_reset')
    /\ WF_vars(Edge /\ ~cpu_reset')
    /\ WF_vars(Edge /\ (NextStore \/ EndStore))
    /\ WF_vars(Edge /\ HoldStore)

Spec == Init /\ [][Next]_vars /\ Fairness
=============================================================================
