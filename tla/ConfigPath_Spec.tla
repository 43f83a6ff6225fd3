--------------------------- MODULE ConfigPath_Spec ---------------------------
(* What the firmware relies on when it configures the decoder. *)
EXTENDS ConfigPath

\* The register the map of Decoder.sv:45-78 gives to store k.
TargetOf(k) == Strobed(Block(Program[k]), Program[k])

Configured(m, upto) == \A k \in 1 .. upto : \A r \in TargetOf(k) : m[r] = k

\* The firmware's program as sem.c:35-53 has it: no register is written twice,
\* the control bits through their own word and as the last of all.
OncePerRegister ==
    \A j, k \in 1 .. Len(Program) : TargetOf(j) \cap TargetOf(k) # {} => j = k

ControlWord == \A k \in 1 .. Len(Program) : Block(Program[k]) = "ctl" => Program[k] = 0

ControlLast == \A k \in 1 .. Len(Program) : Block(Program[k]) = "ctl" => k = Len(Program)

Firmware == OncePerRegister /\ ControlWord /\ ControlLast

\* Every store the firmware is past has reached its register, although the
\* register samples the bus a clock after the beat, and although the stores
\* may have been cut short and repeated (sem.c:35-53, Decoder.sv:33-90).  The
\* clocks in which a reset is on its way to the CPU are excepted: the decoder
\* may be cleared already and the firmware has not started again.
StoresLand == ~due => Configured(mem, pc - 1)

\* The control bits are the last thing to change: when the firmware's control
\* store takes effect every other register already has its value
\* (sem.c:35-53; the control path has no strobe, so it is a clock faster).  The
\* bits have no reset and the firmware stores the same word in every run, so
\* they change once, after power-up, whatever resets have come before.
EnabledLast ==
    [][~due /\ mem'[Ctl] # mem[Ctl] => Configured(mem', Len(Program))]_vars

\* No register ever holds what was meant for another or was not meant at all,
\* if resets are orderly; in a simulator that shows the new wr, always: it is
\* blind to the misdirected writes short resets cause in the netlist.
NothingMisdirected ==
    orderly \/ seesNew =>
    \A r \in Regs : \/ mem[r] \in {Unset, ResetValue}
                    \/ mem[r] \in 1 .. Len(Program) /\ r \in TargetOf(mem[r])

\* The driver header's register map: the word its macro for Ku stores to
\* (altera_avalon_sem_regs.h:39-40).
KU_CTL == 2

\* A store through the header's IOWR_ALTERA_AVALON_KU_CTL arrives in Ku.
KuMacroReachesKu ==
    ~due => \A k \in 1 .. pc - 1 : Program[k] = KU_CTL => mem[Ku] = k

\* Once the resets stop the decoder ends up configured, for good.
GetsConfigured ==
    <>[][Edge]_vars => <>[]Configured(mem, Len(Program))
=============================================================================
