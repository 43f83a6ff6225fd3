-------------------------- MODULE ConfigPath_proof --------------------------
(***************************************************************************)
(* For every program that, like sem.c, writes each register once and the   *)
(* control word last: whatever resets cut it short, each store it is past  *)
(* has landed, the control bits change last, and no register holds what    *)
(* was meant for another.                                                  *)
(***************************************************************************)
EXTENDS ConfigPath_Spec, SequenceTheorems, TLAPS

-----------------------------------------------------------------------------
Typed ==
    /\ pc \in 1 .. Len(Program) + 1
    /\ <<d_write, write_accepted, end_begintransfer>> \in BOOLEAN \X BOOLEAN \X BOOLEAN
    /\ address \in 0 .. 31
    /\ data \in Values
    /\ wr \in {"none", "caff", "Ku", "range"}
    /\ mem \in [Regs -> Values]
    /\ <<cpu_reset, dec_reset, waitrequest_reset_override>> \in BOOLEAN \X BOOLEAN \X BOOLEAN
    /\ <<due, orderly, seesNew>> \in BOOLEAN \X BOOLEAN \X BOOLEAN

\* A store in execution is on the bus; a CPU in reset is at its start.
Carried == d_write => /\ pc \in 1 .. Len(Program)
                      /\ address = Program[pc] /\ data = pc

AtStart == cpu_reset => pc = 1 /\ ~d_write

Idle == ~d_write => ~write_accepted /\ ~end_begintransfer

\* The CPU runs only beside a decoder that is released, unless a reset is due.
Steady ==
    ~due => /\ cpu_reset \/ (~dec_reset /\ ~waitrequest_reset_override)
            /\ ~end_begintransfer

\* Between the beat and the strobe: the strobe of the addressed block is up
\* while the store still holds the bus (or its value is there already).
InFlight ==
    ~due /\ ~cpu_reset =>
        IF ~write_accepted THEN wr = "none"
        ELSE IF Block(address) = "ctl" THEN wr = "none" /\ mem[Ctl] = pc
        ELSE /\ wr = Block(address)
             /\ seesNew => \A r \in TargetOf(pc) : mem[r] = pc

IInv == Typed /\ Carried /\ AtStart /\ Idle /\ Steady /\ InFlight /\ StoresLand

\* With orderly resets no strobe is up when the CPU's bus is cleared.
Sheltered ==
    /\ dec_reset => wr = "none"
    /\ orderly => (due => dec_reset) /\ (cpu_reset => wr = "none")

DInv == IInv /\ Sheltered /\ NothingMisdirected

-----------------------------------------------------------------------------
(* Words and registers.                                                     *)

LEMMA BlockFacts ==
    ASSUME NEW w \in 0 .. 31
    PROVE  Block(w) \in {"ctl", "caff", "Ku", "range"}
  <1>1. w \div 8 \in 0 .. 3
    OBVIOUS
  <1> QED
    BY <1>1 DEF Block

LEMMA RegFacts == Ctl \in Regs /\ Ku \in Regs /\ Ctl # Ku /\ Ctl \notin Limits
                  /\ \A k \in Int : Ctl # <<"caff", k>>
  BY DEF Regs, Ctl, Ku, Limits, Coefs

\* Only the control word writes the control bits.
LEMMA StrobedFacts ==
    ASSUME NEW b, NEW w \in 0 .. 31
    PROVE  /\ Strobed(b, w) \subseteq Regs
           /\ Ctl \in Strobed(b, w) => b = "ctl"
           /\ Strobed("ctl", w) \subseteq {Ctl}
           /\ Strobed("ctl", 0) = {Ctl}
  <1>1. Strobed(b, w) \subseteq Regs
    BY DEF Strobed
  <1>2. Ctl \in Strobed(b, w) => b = "ctl"
    BY RegFacts DEF Strobed, Ctl
  <1>3. Strobed("ctl", w) \subseteq {Ctl}
    BY DEF Strobed, Regs, Ctl, Ku, Coefs, Limits
  <1>4. Strobed("ctl", 0) = {Ctl}
    BY DEF Strobed, Regs, Ctl, Ku, Coefs, Limits
  <1> QED
    BY <1>1, <1>2, <1>3, <1>4

LEMMA ProgramFacts ==
    ASSUME NEW k \in 1 .. Len(Program)
    PROVE  Program[k] \in 0 .. 31 /\ TargetOf(k) \subseteq Regs
  <1>0. Program \in Seq(0 .. 31)
    BY ProgramAssumption
  <1>1. Program[k] \in 0 .. 31
    BY <1>0, ElementOfSeq
  <1>2. Strobed(Block(Program[k]), Program[k]) \subseteq Regs
    BY <1>1, StrobedFacts
  <1> QED
    BY <1>1, <1>2 DEF TargetOf

LEMMA ValueFacts ==
    /\ {ResetValue, Junk, Unset} \subseteq Values /\ 1 .. Len(Program) \subseteq Values
    /\ Len(Program) \in Nat
  BY ProgramAssumption DEF Values

LEMMA ClearFacts ==
    ASSUME NEW m \in [Regs -> Values], NEW w
    PROVE  /\ Clear(m, w) \in [Regs -> Values]
           /\ \A r \in Regs : Clear(m, w)[r] \in {ResetValue, m[r]}
  BY ValueFacts DEF Clear

LEMMA ClearKeepsControl ==
    ASSUME NEW m \in [Regs -> Values], NEW w \in 0 .. 31
    PROVE  Clear(m, w)[Ctl] = m[Ctl]
  <1>1. w % 8 \in Int
    OBVIOUS
  <1>2. Ctl # Ku /\ Ctl \notin Limits /\ Ctl # <<"caff", w % 8>> /\ Ctl \in Regs
    BY <1>1, RegFacts
  <1> QED
    BY <1>2 DEF Clear

LEMMA WrittenFacts ==
    ASSUME Typed
    PROVE  /\ Written \in [Regs -> Values]
           /\ \A r \in Regs :
                Written[r] = IF Strobe # "none" /\ r \in Strobed(Strobe, address) THEN data
                             ELSE IF writ /\ Block(address) = "ctl" /\ r = Ctl THEN data
                             ELSE mem[r]
  BY DEF Typed, Written

-----------------------------------------------------------------------------
(* What a clock does to the bus and to the decoder.                         *)

Bus == Carried /\ Idle

BusTyped ==
    /\ pc \in 1 .. Len(Program) + 1
    /\ <<d_write, write_accepted, end_begintransfer>> \in BOOLEAN \X BOOLEAN \X BOOLEAN
    /\ address \in 0 .. 31
    /\ data \in Values

DecTyped == wr \in {"none", "caff", "Ku", "range"} /\ mem \in [Regs -> Values]

LEMMA ResetStep ==
    ASSUME InReset
    PROVE  BusTyped' /\ Bus' /\ pc' = 1 /\ ~d_write'
  <1>1. /\ pc' = 1 /\ address' = 0 /\ data' = Junk
        /\ ~d_write' /\ ~write_accepted' /\ ~end_begintransfer'
        /\ <<d_write', write_accepted', end_begintransfer'>> \in BOOLEAN \X BOOLEAN \X BOOLEAN
    BY DEF InReset
  <1>2. 1 \in 1 .. Len(Program) + 1 /\ 0 \in 0 .. 31 /\ Junk \in Values
    BY ValueFacts
  <1>3. BusTyped'
    BY <1>1, <1>2 DEF BusTyped
  <1> QED
    BY <1>1, <1>3 DEF Bus, Carried, Idle

LEMMA CpuStep ==
    ASSUME Typed, Bus, CpuEdge
    PROVE  BusTyped' /\ Bus' /\ (cpu_reset => pc' = 1 /\ ~d_write')
  <1>1. CASE InReset
    BY <1>1, ResetStep
  <1>2. CASE ~cpu_reset /\ HoldStore
    BY <1>2 DEF Typed, Bus, Carried, Idle, BusTyped, HoldStore, av_waitrequest, writ
  <1>3. CASE ~cpu_reset /\ EndStore
    <2>1. pc' = pc + 1 /\ pc' \in 1 .. Len(Program) + 1
      BY <1>3, ValueFacts DEF EndStore, Bus, Carried, Typed
    <2>2. address' \in 0 .. 31
      BY <1>3 DEF EndStore, Typed
    <2> QED
      BY <1>3, <2>1, <2>2, ValueFacts DEF EndStore, Bus, Carried, Idle, BusTyped, Typed
  <1>4. CASE ~cpu_reset /\ NextStore
    <2>1. pc \in 1 .. Len(Program)
      BY <1>4, ValueFacts DEF NextStore, Typed
    <2>2. Program[pc] \in 0 .. 31 /\ pc \in Values
      BY <2>1, ProgramFacts, ValueFacts
    <2> QED
      BY <1>4, <2>1, <2>2 DEF NextStore, Bus, Carried, Idle, BusTyped, Typed
  <1>5. CASE ~cpu_reset /\ OtherInstruction
    <2>1. address' \in 0 .. 31
      BY <1>5, ProgramAssumption DEF OtherInstruction
    <2> QED
      BY <1>5, <2>1, ValueFacts DEF OtherInstruction, Bus, Carried, Idle, BusTyped, Typed
  <1> QED
    BY <1>1, <1>2, <1>3, <1>4, <1>5 DEF CpuEdge

LEMMA DecoderStep ==
    ASSUME Typed, DecoderEdge
    PROVE  /\ DecTyped'
           /\ dec_reset => wr' = "none" /\ mem' = Clear(mem, address)
           /\ ~dec_reset =>
                /\ wr' = IF writ /\ Block(address) # "ctl" THEN Block(address) ELSE "none"
                /\ mem' = Written
  <1>1. Block(address) \in {"ctl", "caff", "Ku", "range"}
    BY BlockFacts DEF Typed
  <1>2. mem \in [Regs -> Values]
    BY DEF Typed
  <1>3. Clear(mem, address) \in [Regs -> Values]
    BY <1>2, ClearFacts
  <1>4. Written \in [Regs -> Values]
    BY WrittenFacts
  <1> QED
    BY <1>1, <1>3, <1>4 DEF DecoderEdge, DecTyped

-----------------------------------------------------------------------------
(* A store in the beat, in the strobe, and no store.                        *)

\* Storing a value in the registers of store k disturbs no store before it.
LEMMA KeepsEarlier ==
    ASSUME Firmware, Typed, NEW k \in 1 .. Len(Program), Configured(mem, k - 1),
           NEW m \in [Regs -> Values],
           \A r \in Regs : m[r] # mem[r] => r \in TargetOf(k)
    PROVE  Configured(m, k - 1)
  <1> SUFFICES ASSUME NEW j \in 1 .. k - 1, NEW r \in TargetOf(j)
               PROVE  m[r] = j
    BY DEF Configured
  <1>1. j \in 1 .. Len(Program) /\ j # k
    BY ValueFacts
  <1>2. r \in Regs /\ mem[r] = j
    BY <1>1, ProgramFacts DEF Configured
  <1>3. r \notin TargetOf(k)
    BY <1>1 DEF Firmware, OncePerRegister
  <1> QED
    BY <1>2, <1>3

LEMMA ControlFacts ==
    ASSUME Firmware, NEW k \in 1 .. Len(Program), Block(Program[k]) = "ctl"
    PROVE  TargetOf(k) = {Ctl} /\ k = Len(Program)
  <1>1. Program[k] = 0
    BY DEF Firmware, ControlWord
  <1>2. 0 \in 0 .. 31
    OBVIOUS
  <1>3. Strobed("ctl", 0) = {Ctl}
    BY <1>2, StrobedFacts
  <1>4. TargetOf(k) = Strobed(Block(Program[k]), Program[k])
    BY DEF TargetOf
  <1> QED
    BY <1>1, <1>3, <1>4 DEF Firmware, ControlLast

\* The beat raises the strobe of the block, or takes the control bits.
LEMMA InBeat ==
    ASSUME Firmware, IInv, Edge, ~due, ~cpu_reset, d_write, ~write_accepted
    PROVE  /\ HoldStore /\ write_accepted'
           /\ InFlight' /\ StoresLand'
           /\ mem'[Ctl] # mem[Ctl] => Configured(mem', Len(Program))
  <1> USE DEF IInv
  <1>1. ~dec_reset /\ ~waitrequest_reset_override /\ ~end_begintransfer /\ wr = "none"
    BY DEF Steady, InFlight
  <1>2. HoldStore /\ write_accepted' /\ writ /\ ~due' /\ ~cpu_reset'
    BY <1>1 DEF Edge, CpuEdge, HoldStore, EndStore, NextStore, OtherInstruction,
                av_waitrequest, writ, Typed
  <1>3. /\ pc \in 1 .. Len(Program) /\ address = Program[pc] /\ data = pc
        /\ address \in 0 .. 31
    BY DEF Carried, Typed
  <1>4. pc' = pc /\ address' = address
    BY <1>2 DEF HoldStore
  <1>5. /\ wr' = IF Block(address) # "ctl" THEN Block(address) ELSE "none"
        /\ mem' = Written /\ mem' \in [Regs -> Values]
    BY <1>1, <1>2, DecoderStep DEF Edge, DecTyped
  <1>6. TargetOf(pc) = Strobed(Block(address), address) /\ TargetOf(pc) \subseteq Regs
    BY <1>3, ProgramFacts DEF TargetOf
  <1>7. Configured(mem, pc - 1)
    BY DEF StoresLand
  <1>8. CASE Block(address) = "ctl"
    <2>1. Strobe = "none" /\ wr' = "none"
      BY <1>1, <1>5, <1>8 DEF Strobe
    <2>2. TargetOf(pc) = {Ctl} /\ pc = Len(Program)
      BY <1>3, <1>8, ControlFacts
    <2>3. mem'[Ctl] = pc /\ \A r \in Regs : r # Ctl => mem'[r] = mem[r]
      BY <2>1, <1>2, <1>3, <1>5, <1>8, WrittenFacts, RegFacts
    <2>4. Configured(mem', pc - 1)
      BY <2>2, <2>3, <1>3, <1>5, <1>7, KeepsEarlier
    <2>5. Configured(mem', pc)
      BY <2>2, <2>3, <2>4, <1>3 DEF Configured
    <2> QED
      BY <2>1, <2>2, <2>3, <2>4, <2>5, <1>2, <1>4, <1>8
         DEF InFlight, StoresLand
  <1>9. CASE Block(address) # "ctl"
    <2>0. Block(address) \in {"caff", "Ku", "range"}
      BY <1>3, <1>9, BlockFacts
    <2>1. wr' = Block(address) /\ wr' # "none"
      BY <2>0, <1>5, <1>9
    <2>2. Strobe = IF seesNew THEN Block(address) ELSE "none"
      BY <2>1, <1>1 DEF Strobe
    <2>3. \A r \in Regs : mem'[r] = IF seesNew /\ r \in TargetOf(pc) THEN pc ELSE mem[r]
      BY <2>0, <2>2, <1>3, <1>5, <1>6, <1>9, WrittenFacts
    <2>4. Configured(mem', pc - 1)
      BY <2>3, <1>3, <1>5, <1>7, KeepsEarlier
    <2>5. mem'[Ctl] = mem[Ctl]
      <3>1. Ctl \notin TargetOf(pc)
        BY <1>3, <1>6, <1>9, StrobedFacts
      <3> QED
        BY <3>1, <2>3, RegFacts
    <2>6. seesNew' = seesNew
      BY DEF Edge, worldVars
    <2>7. seesNew => \A r \in TargetOf(pc) : mem'[r] = pc
      BY <2>3, <1>6
    <2> QED
      BY <2>1, <2>4, <2>5, <2>6, <2>7, <1>2, <1>4, <1>9 DEF InFlight, StoresLand
  <1> QED
    BY <1>2, <1>8, <1>9

\* In the next clock the block samples the bus, which still holds the store.
LEMMA InStrobe ==
    ASSUME Firmware, IInv, Edge, ~due, ~cpu_reset, d_write, write_accepted
    PROVE  /\ InFlight' /\ StoresLand'
           /\ mem'[Ctl] = mem[Ctl]
  <1> USE DEF IInv
  <1>1. ~dec_reset /\ ~waitrequest_reset_override /\ ~end_begintransfer
    BY DEF Steady
  <1>2. ~writ /\ EndStore /\ ~due' /\ seesNew' = seesNew
    BY <1>1 DEF Edge, CpuEdge, HoldStore, EndStore, NextStore, OtherInstruction,
                av_waitrequest, writ, worldVars
  <1>3. /\ pc \in 1 .. Len(Program) /\ address = Program[pc] /\ data = pc
        /\ address \in 0 .. 31
    BY DEF Carried, Typed
  <1>4. pc' = pc + 1 /\ ~write_accepted'
    BY <1>2 DEF EndStore
  <1>5. wr' = "none" /\ mem' = Written /\ mem' \in [Regs -> Values]
    BY <1>1, <1>2, DecoderStep DEF Edge, DecTyped
  <1>6. TargetOf(pc) = Strobed(Block(address), address) /\ TargetOf(pc) \subseteq Regs
    BY <1>3, ProgramFacts DEF TargetOf
  <1>7. Configured(mem, pc - 1)
    BY DEF StoresLand
  <1>8. /\ Configured(mem', pc - 1) /\ \A r \in TargetOf(pc) : mem'[r] = pc
        /\ mem'[Ctl] = mem[Ctl]
    <2>1. CASE Block(address) = "ctl"
      <3>1. Strobe = "none" /\ mem[Ctl] = pc
        BY <1>5, <2>1 DEF Strobe, InFlight
      <3>2. \A r \in Regs : mem'[r] = mem[r]
        BY <3>1, <1>2, <1>5, WrittenFacts
      <3>3. TargetOf(pc) = {Ctl}
        BY <1>3, <2>1, ControlFacts
      <3> QED
        BY <3>1, <3>2, <3>3, <1>3, <1>5, <1>7, KeepsEarlier, RegFacts
    <2>2. CASE Block(address) # "ctl"
      <3>1. Block(address) \in {"caff", "Ku", "range"} /\ wr = Block(address)
        BY <1>3, <2>2, BlockFacts DEF InFlight
      <3>2. Strobe = IF seesNew THEN "none" ELSE Block(address)
        BY <3>1, <1>5 DEF Strobe
      <3>3. \A r \in Regs :
                mem'[r] = IF ~seesNew /\ r \in TargetOf(pc) THEN pc ELSE mem[r]
        BY <3>1, <3>2, <1>2, <1>3, <1>5, <1>6, WrittenFacts DEF Typed
      <3>4. Ctl \notin TargetOf(pc)
        BY <1>3, <1>6, <2>2, StrobedFacts
      <3>5. seesNew => \A r \in TargetOf(pc) : mem[r] = pc
        BY <2>2 DEF InFlight
      <3>6. Configured(mem', pc - 1)
        BY <3>3, <1>3, <1>5, <1>7, KeepsEarlier
      <3>7. \A r \in TargetOf(pc) : mem'[r] = pc
        BY <3>3, <3>5, <1>6
      <3> QED
        BY <3>3, <3>4, <3>6, <3>7, RegFacts
    <2> QED
      BY <2>1, <2>2
  <1>9. Configured(mem', pc)
    <2>1. \A k \in 1 .. pc : k \in 1 .. pc - 1 \/ k = pc
      BY <1>3, ValueFacts
    <2> QED
      BY <1>8, <2>1 DEF Configured
  <1>10. pc' - 1 = pc
    BY <1>3, <1>4, ValueFacts
  <1> QED
    BY <1>4, <1>5, <1>8, <1>9, <1>10 DEF InFlight, StoresLand

\* Between two stores nothing is written.
LEMMA NoStore ==
    ASSUME Firmware, IInv, Edge, ~due, ~cpu_reset, ~d_write
    PROVE  /\ InFlight' /\ StoresLand'
           /\ mem'[Ctl] = mem[Ctl]
  <1> USE DEF IInv
  <1>1. /\ ~dec_reset /\ ~waitrequest_reset_override /\ ~write_accepted /\ wr = "none"
        /\ ~writ /\ ~due'
    BY DEF Steady, Idle, InFlight, Edge, writ
  <1>2. pc' = pc /\ ~write_accepted'
    BY <1>1 DEF Edge, CpuEdge, HoldStore, EndStore, NextStore, OtherInstruction,
                av_waitrequest
  <1>3. wr' = "none" /\ mem' = Written
    BY <1>1, DecoderStep DEF Edge
  <1>4. \A r \in Regs : mem'[r] = mem[r]
    BY <1>1, <1>3, WrittenFacts DEF Strobe
  <1>5. \A k \in 1 .. pc - 1 : k \in 1 .. Len(Program)
    BY ValueFacts DEF Typed
  <1>6. Configured(mem', pc - 1)
    BY <1>4, <1>5, ProgramFacts DEF StoresLand, Configured
  <1> QED
    BY <1>1, <1>2, <1>3, <1>4, <1>6, RegFacts DEF InFlight, StoresLand

-----------------------------------------------------------------------------
(* The invariant.                                                           *)

LEMMA NoneYet == \A m : Configured(m, 0)
  BY DEF Configured

LEMMA Initially ==
    ASSUME Init
    PROVE  DInv
  <1>1. /\ Len(Program) \in Nat /\ Junk \in Values /\ Unset \in Values
    BY ValueFacts
  <1>2. mem \in [Regs -> Values] /\ \A r \in Regs : mem[r] = Unset
    BY <1>1 DEF Init
  <1>3. Typed
    <2>1. /\ <<d_write, write_accepted, end_begintransfer>> \in BOOLEAN \X BOOLEAN \X BOOLEAN
          /\ <<cpu_reset, dec_reset, waitrequest_reset_override>>
                \in BOOLEAN \X BOOLEAN \X BOOLEAN
          /\ <<due, orderly, seesNew>> \in BOOLEAN \X BOOLEAN \X BOOLEAN
      BY DEF Init
    <2>2. pc \in 1 .. Len(Program) + 1 /\ address \in 0 .. 31
      BY <1>1 DEF Init
    <2>3. data \in Values /\ wr \in {"none", "caff", "Ku", "range"}
      BY <1>1 DEF Init
    <2> QED
      BY <1>2, <2>1, <2>2, <2>3 DEF Typed
  <1>4. IInv
    BY <1>3 DEF Init, IInv, Carried, AtStart, Idle, Steady, InFlight, StoresLand
  <1> QED
    BY <1>2, <1>4 DEF Init, DInv, Sheltered, NothingMisdirected

LEMMA EdgeKeeps ==
    ASSUME Firmware, IInv, Edge
    PROVE  IInv'
  <1> USE DEF IInv
  <1>1. BusTyped' /\ Bus' /\ (cpu_reset => pc' = 1 /\ ~d_write')
    BY CpuStep DEF Edge, Bus
  <1>2. DecTyped'
    BY DecoderStep DEF Edge
  <1>3. /\ cpu_reset' \in BOOLEAN /\ dec_reset' \in BOOLEAN
        /\ waitrequest_reset_override' = dec_reset
        /\ due' = due /\ orderly' = orderly /\ seesNew' = seesNew
        /\ cpu_reset' => cpu_reset
        /\ dec_reset' => dec_reset
        /\ cpu_reset /\ ~cpu_reset' => due \/ (~dec_reset /\ ~waitrequest_reset_override)
    BY DEF Edge, worldVars, Typed, MayReleaseCpu
  <1>4. Typed'
    BY <1>1, <1>2, <1>3 DEF Typed, BusTyped, DecTyped
  <1>5. AtStart'
    BY <1>1, <1>3 DEF AtStart
  <1>6. Steady'
    <2> SUFFICES ASSUME ~due
                 PROVE  /\ cpu_reset' \/ (~dec_reset' /\ ~waitrequest_reset_override')
                        /\ ~end_begintransfer'
      BY <1>3 DEF Steady
    <2>1. cpu_reset' \/ (~dec_reset' /\ ~waitrequest_reset_override')
      BY <1>3 DEF Steady
    <2>2. CASE cpu_reset
      BY <1>1, <2>1, <2>2 DEF Bus, Idle
    <2>3. CASE ~cpu_reset
      <3>1. ~waitrequest_reset_override /\ ~end_begintransfer
        BY <2>3 DEF Steady
      <3>2. HoldStore \/ EndStore \/ NextStore \/ OtherInstruction
        BY <2>3 DEF Edge, CpuEdge
      <3>3. ~end_begintransfer'
        BY <3>1, <3>2 DEF HoldStore, EndStore, NextStore, OtherInstruction
      <3> QED
        BY <2>1, <3>3
    <2> QED
      BY <2>1, <2>2, <2>3
  <1>7. InFlight' /\ StoresLand'
    <2>1. CASE due
      BY <1>3, <2>1 DEF InFlight, StoresLand
    <2>2. CASE ~due /\ cpu_reset
      <3>1. pc' = 1 /\ ~d_write' /\ ~write_accepted'
        BY <1>1, <2>2 DEF Bus, Idle
      <3>2. wr' = "none"
        BY <2>2, DecoderStep DEF Edge, AtStart, writ
      <3> QED
        BY <3>1, <3>2, NoneYet DEF InFlight, StoresLand
    <2>3. CASE ~due /\ ~cpu_reset
      BY <2>3, InBeat, InStrobe, NoStore
    <2> QED
      BY <2>1, <2>2, <2>3
  <1> QED
    BY <1>1, <1>4, <1>5, <1>6, <1>7 DEF Bus

LEMMA ResetsKeep ==
    ASSUME IInv, SystemReset \/ DebugReset \/ CpuReset
    PROVE  IInv'
  <1> USE DEF IInv
  <1>1. CASE SystemReset
    <2>1. mem' \in [Regs -> Values]
      BY <1>1, ClearFacts DEF SystemReset, Typed
    <2> QED
      BY <1>1, <2>1
         DEF SystemReset, busVars, worldVars, Typed, Carried, AtStart, Idle, Steady,
             InFlight, StoresLand
  <1>2. CASE DebugReset
    BY <1>2 DEF DebugReset, busVars, decVars, worldVars, Typed, Carried, AtStart, Idle,
                Steady, InFlight, StoresLand
  <1>3. CASE CpuReset
    <2>1. BusTyped' /\ Bus' /\ pc' = 1 /\ ~d_write'
      BY <1>3, ResetStep DEF CpuReset
    <2>2. cpu_reset' /\ ~due' /\ UNCHANGED <<decVars, worldVars>>
      BY <1>3 DEF CpuReset
    <2>3. Typed'
      BY <1>3, <2>1, <2>2 DEF CpuReset, BusTyped, decVars, worldVars, Typed
    <2> QED
      BY <2>1, <2>2, <2>3, NoneYet DEF Bus, Idle, AtStart, Steady, InFlight, StoresLand
  <1> QED
    BY <1>1, <1>2, <1>3

LEMMA StutterKeeps ==
    ASSUME DInv, UNCHANGED vars
    PROVE  DInv'
  BY DEF DInv, IInv, Sheltered, NothingMisdirected, Configured, Typed, Carried, AtStart, Idle,
         Steady, InFlight, StoresLand, vars, busVars, decVars, worldVars

\* The steps of orderly resets: a strobe is up only where the CPU goes on.
LEMMA ShelterKeeps ==
    ASSUME Firmware, DInv, Next
    PROVE  Sheltered'
  <1> USE DEF DInv, IInv
  <1>1. CASE Edge
    <2>1. (dec_reset => wr' = "none") /\ (cpu_reset => wr' = "none")
      BY <1>1, DecoderStep DEF Edge, AtStart, writ
    <2>2. /\ orderly' = orderly /\ due' = due
          /\ dec_reset' => dec_reset
          /\ cpu_reset' => cpu_reset
          /\ orderly /\ due => dec_reset' = dec_reset
      BY <1>1 DEF Edge, worldVars, Typed, MayReleaseDecoder
    <2> QED
      BY <2>1, <2>2 DEF Sheltered
  <1>2. CASE SystemReset
    BY <1>2 DEF SystemReset, worldVars, Sheltered
  <1>3. CASE DebugReset
    BY <1>3 DEF DebugReset, decVars, worldVars, Sheltered
  <1>4. CASE CpuReset
    BY <1>4 DEF CpuReset, decVars, worldVars, Sheltered
  <1> QED
    BY <1>1, <1>2, <1>3, <1>4 DEF Next

Meant(m) ==
    \A r \in Regs : \/ m[r] \in {Unset, ResetValue}
                    \/ m[r] \in 1 .. Len(Program) /\ r \in TargetOf(m[r])

\* What a strobe or a beat writes is the store on the bus, and that store is
\* meant for the register that takes it.
LEMMA MeantKeeps ==
    ASSUME Firmware, DInv, Next, orderly \/ seesNew
    PROVE  Meant(mem')
  <1> USE DEF DInv, IInv
  <1>0. Meant(mem)
    BY DEF NothingMisdirected, Meant
  <1>1. \A w : Meant(Clear(mem, w))
    <2>1. mem \in [Regs -> Values]
      BY DEF Typed
    <2> QED
      BY <1>0, <2>1, ClearFacts DEF Meant
  <1>2. CASE Edge /\ ~dec_reset
    <2>1. mem' = Written /\ wr' = IF writ /\ Block(address) # "ctl" THEN Block(address) ELSE "none"
      BY <1>2, DecoderStep DEF Edge
    <2>2. Strobe # "none" => d_write /\ Strobe = Block(address)
      <3>1. CASE seesNew
        BY <2>1, <3>1 DEF Strobe, writ
      <3>2. CASE ~seesNew
        <4>1. orderly /\ ~due
          BY <1>2, <3>2 DEF Sheltered
        <4>2. CASE cpu_reset
          BY <3>2, <4>1, <4>2 DEF Sheltered, Strobe
        <4>3. CASE ~cpu_reset
          BY <3>2, <4>1, <4>3 DEF InFlight, Idle, Strobe
        <4> QED
          BY <4>2, <4>3
      <3> QED
        BY <3>1, <3>2
    <2>3. d_write => /\ data = pc /\ pc \in 1 .. Len(Program)
                     /\ TargetOf(pc) = Strobed(Block(address), address)
      BY DEF Carried, TargetOf
    <2>4. writ /\ Block(address) = "ctl" => d_write /\ TargetOf(pc) = {Ctl}
      BY <2>3, ControlFacts DEF writ, Carried
    <2>5. \A r \in Regs : \/ Written[r] = mem[r]
                          \/ d_write /\ Written[r] = data /\ r \in TargetOf(pc)
      BY <2>2, <2>3, <2>4, WrittenFacts
    <2> QED
      BY <1>0, <2>1, <2>3, <2>5 DEF Meant
  <1>3. CASE Edge /\ dec_reset
    BY <1>1, <1>3, DecoderStep DEF Edge
  <1>4. CASE SystemReset
    BY <1>1, <1>4 DEF SystemReset
  <1>5. CASE DebugReset \/ CpuReset
    BY <1>0, <1>5 DEF DebugReset, CpuReset, decVars
  <1> QED
    BY <1>2, <1>3, <1>4, <1>5 DEF Next, Typed

LEMMA StepKeeps ==
    ASSUME Firmware, DInv, [Next]_vars
    PROVE  DInv'
  <1>1. CASE UNCHANGED vars
    BY <1>1, StutterKeeps
  <1>2. CASE Next
    <2>1. IInv'
      BY <1>2, EdgeKeeps, ResetsKeep DEF Next, DInv
    <2>2. Sheltered'
      BY <1>2, ShelterKeeps
    <2>3. orderly' = orderly /\ seesNew' = seesNew
      BY <1>2 DEF Next, Edge, SystemReset, DebugReset, CpuReset, worldVars
    <2>4. NothingMisdirected'
      BY <1>2, <2>3, MeantKeeps DEF NothingMisdirected, Meant
    <2> QED
      BY <2>1, <2>2, <2>4 DEF DInv
  <1> QED
    BY <1>1, <1>2

-----------------------------------------------------------------------------
(* The theorems.                                                            *)

\* The invariant of the configuration path, which the three theorems below
\* rest on: what the bus, the strobes and the resets are to each other in
\* every clock (Decoder.sv:33-90, the translators, the two reset chains).
THEOREM PathInvariance ==
    ASSUME Firmware
    PROVE  Spec => []DInv
  <1>1. Init => DInv
    BY Initially
  <1>2. DInv /\ [Next]_vars => DInv'
    BY StepKeeps
  <1> QED
    BY <1>1, <1>2, PTL DEF Spec

\* Every store the firmware is past is in its register, for every program that
\* writes a register once: the bus holds a store for the clock of the strobe,
\* and no reset leaves a strobe that the restarted program meets.
THEOREM StoresArrive ==
    ASSUME Firmware
    PROVE  Spec => []StoresLand
  <1>1. DInv => StoresLand
    BY DEF DInv, IInv
  <1> QED
    BY <1>1, PathInvariance, PTL

\* With orderly resets, or where a block sees the new strobe, no register holds
\* a value that was meant for another or for none.
THEOREM StoresAreMeant ==
    ASSUME Firmware
    PROVE  Spec => []NothingMisdirected
  <1>1. DInv => NothingMisdirected
    BY DEF DInv
  <1> QED
    BY <1>1, PathInvariance, PTL

\* The control bits change when every other register has its value, although
\* their path is a clock shorter.
THEOREM ControlChangesLast ==
    ASSUME Firmware
    PROVE  Spec => EnabledLast
  <1>1. ASSUME DInv, [Next]_vars
        PROVE  [~due /\ mem'[Ctl] # mem[Ctl] => Configured(mem', Len(Program))]_vars
    <2> SUFFICES ASSUME Next, ~due, mem'[Ctl] # mem[Ctl]
                 PROVE  Configured(mem', Len(Program))
      BY <1>1
    <2>1. IInv
      BY <1>1 DEF DInv
    <2>2. CASE Edge
      <3>1. CASE cpu_reset
        <4>1. ~writ
          BY <2>1, <3>1 DEF IInv, AtStart, writ
        <4>2. CASE dec_reset
          BY <2>1, <2>2, <4>2, DecoderStep, ClearKeepsControl DEF Edge, IInv, Typed
        <4>3. CASE ~dec_reset
          <5>1. Strobe # "ctl"
            BY <2>1, <2>2, <4>1, <4>3, DecoderStep DEF Edge, IInv, Strobe, Typed
          <5>2. address \in 0 .. 31
            BY <2>1 DEF IInv, Typed
          <5>3. Ctl \notin Strobed(Strobe, address)
            BY <5>1, <5>2, StrobedFacts
          <5> QED
            BY <2>1, <2>2, <4>1, <4>3, <5>3, DecoderStep, WrittenFacts, RegFacts
               DEF Edge, IInv
        <4> QED
          BY <2>1, <4>2, <4>3
      <3>2. CASE ~cpu_reset
        BY <2>1, <2>2, <3>2, InBeat, InStrobe, NoStore
      <3> QED
        BY <3>1, <3>2
    <2>3. CASE SystemReset
      BY <2>1, <2>3, ClearKeepsControl DEF SystemReset, IInv, Typed
    <2>4. CASE DebugReset \/ CpuReset
      BY <2>4 DEF DebugReset, CpuReset, decVars
    <2> QED
      BY <2>2, <2>3, <2>4 DEF Next
  <1> QED
    BY <1>1, PathInvariance, PTL DEF Spec, EnabledLast
=============================================================================
