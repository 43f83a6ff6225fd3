------------------------------ MODULE Interrupts ------------------------------
(***************************************************************************)
(* Interrupts through the internal controller: devices raise lines, the    *)
(* CPU enters the exception code, which tells interrupts from exceptions   *)
(* of instructions and calls alt_irq_handler or the program's exception    *)
(* handler; service routines can let higher priorities in.  An interrupt's *)
(* number is its priority, 0 the highest.                                  *)
(*                                                                         *)
(* Irq are the lines the CPU is generated with: it keeps every other bit of *)
(* ienable and of ipending at 0 (SysFiltr_cpu_cpu.v:4524-4527).  The CPU of *)
(* this design is generated with none, its intr_req is 0 for ever: with    *)
(* Irq = {} nothing of this is reached.  With lines the module is the HAL  *)
(* the software is linked with, on a CPU of this make that has them.       *)
(*                                                                         *)
(* Devices are external.  Interrupted code is a stack of frames over the   *)
(* program; the last frame runs.  A routine clears the line it serves.     *)
(* What is enabled has a handler.                                          *)
(***************************************************************************)
EXTENDS Integers, Sequences, FiniteSets

CONSTANTS
    Irq,         \* of 0 .. ALT_NIRQ - 1 those the CPU has lines for
    Registered,  \* the pairs of handler and context the program registers
    Null,
    Inside       \* TRUE: routines enable and disable interrupts at any time,
                 \* FALSE: not while a priority mask is in force

ASSUME IrqAssumption == Irq \subseteq Nat /\ IsFiniteSet(Irq)
ASSUME RegisteredAssumption ==
    \A r \in Registered :
        r = [handler |-> r.handler, context |-> r.context] /\ r.handler # Null

VARIABLES
    line, steady,                    \* lines asserted; steady: only a routine drops one
    pie, ienable,                    \* of the CPU
    alt_irq_active, alt_priority_mask,
    alt_irq,                         \* the table of handlers
    alt_instruction_exception_handler,
    call,                            \* where the program is in a HAL function
    frames

cpu == <<pie, ienable>>
masks == <<alt_irq_active, alt_priority_mask>>
tables == <<alt_irq, alt_instruction_exception_handler>>
vars == <<line, steady, cpu, masks, tables, call, frames>>

\* alt_irq_pending.
Pending == line \cap ienable

NoCall == [step |-> "none", id |-> -1, new |-> [handler |-> Null, context |-> Null],
           on |-> FALSE, loaded |-> {}, status |-> TRUE]

\* A frame of the exception code; active is what its handler has read.
Frame(at, active) ==
    [at |-> at, active |-> active, irq |-> -1, handler |-> Null, context |-> Null, old |-> Irq]

\* A frame of the routine of interrupt i.
Service(i) ==
    [at |-> "isr", active |-> {}, irq |-> i, handler |-> alt_irq[i].handler,
     context |-> alt_irq[i].context, old |-> Irq]

Top == frames[Len(frames)]
WithTop(f) == [frames EXCEPT ![Len(frames)] = f]
Running(at) == frames # <<>> /\ Top.at = at
Program == frames = <<>> /\ call = NoCall

-----------------------------------------------------------------------------
(* The devices and the CPU.                                                 *)

Raise(i) ==
    /\ line' = line \cup {i} /\ i \notin line
    /\ UNCHANGED <<steady, cpu, masks, tables, call, frames>>

Drop(i) ==
    /\ ~steady
    /\ line' = line \ {i} /\ i \in line
    /\ UNCHANGED <<steady, cpu, masks, tables, call, frames>>

\* The CPU takes an interrupt (intr_req) and saves status, in which it was
\* enabled.
Take ==
    /\ pie /\ Pending # {}
    /\ pie' = FALSE
    /\ frames' = Append(frames, Frame("entry", {}))
    /\ UNCHANGED <<line, steady, ienable, masks, tables, call>>

\* The entry code: without a pending interrupt this is the exception of an
\* instruction.
Entry ==
    /\ Running("entry")
    /\ frames' = WithTop(Frame(IF Pending = {} THEN "exception" ELSE "read", {}))
    /\ UNCHANGED <<line, steady, cpu, masks, tables, call>>

\* eret restores the status that was saved.
Leave ==
    /\ frames' = SubSeq(frames, 1, Len(frames) - 1)
    /\ pie' = TRUE

-----------------------------------------------------------------------------
(* alt_irq_handler.                                                         *)

\* What is pending is read for a round.
Found == Frame("search", Pending)

Read ==
    /\ Running("read")
    /\ frames' = WithTop(Found)
    /\ UNCHANGED <<line, steady, cpu, masks, tables, call>>

\* Mutant of Chosen: the last one found.
LastChosen(active, i) == i \in active /\ \A j \in active : j =< i

\* The first bit that is set, from the lowest.
Chosen(active, i) == i \in active /\ \A j \in active : i =< j

\* Its routine is called.  Among no bits the search does not end.
Search ==
    /\ Running("search")
    /\ \E i \in Irq : Chosen(Top.active, i) /\ frames' = WithTop(Service(i))
    /\ UNCHANGED <<line, steady, cpu, masks, tables, call>>

\* The routine serves its device (external).
Serve ==
    /\ Running("isr") /\ Top.irq \in line
    /\ line' = line \ {Top.irq}
    /\ UNCHANGED <<steady, cpu, masks, tables, call, frames>>

\* Mutant of Again: a round is made without looking.
AgainAlways == TRUE

\* Another round.
Again == Pending # {}

\* The routine returns and the handler reads again.
IsrReturn ==
    /\ Running("isr") /\ Top.irq \notin line
    /\ \/ Again /\ frames' = WithTop(Found) /\ UNCHANGED pie
       \/ ~Again /\ Leave
    /\ UNCHANGED <<line, steady, ienable, masks, tables, call>>

\* alt_instruction_exception_entry: no handler stops the CPU in the debugger,
\* a handler has the instruction skipped or repeated.
Exception ==
    /\ Running("exception")
    /\ \/ /\ alt_instruction_exception_handler = Null
          /\ frames' = WithTop(Frame("break", {})) /\ UNCHANGED pie
       \/ alt_instruction_exception_handler # Null /\ Leave
    /\ UNCHANGED <<line, steady, ienable, masks, tables, call>>

-----------------------------------------------------------------------------
(* What a routine can call.                                                 *)

\* Mutant of Above: the priority itself is let in as well.
AboveOrSame(priority) == {i \in Irq : i =< priority}

\* (1 << priority) - 1.
Above(priority) == {i \in Irq : i < priority}

alt_irq_interruptible ==
    /\ Running("isr")
    /\ alt_priority_mask' = Above(Top.irq)
    /\ ienable' = alt_irq_active \cap alt_priority_mask'
    /\ pie' = TRUE
    /\ frames' = WithTop([Top EXCEPT !.at = "open", !.old = alt_priority_mask])
    /\ UNCHANGED <<line, steady, alt_irq_active, tables, call>>

\* Mutant of Unmasked: the mask stays as it is.
UnmaskedNot(mask) == alt_priority_mask

Unmasked(mask) == mask

alt_irq_non_interruptible ==
    /\ Running("open")
    /\ pie' = FALSE
    /\ alt_priority_mask' = Unmasked(Top.old)
    /\ ienable' = alt_priority_mask' \cap alt_irq_active
    /\ frames' = WithTop([Top EXCEPT !.at = "isr", !.old = Irq])
    /\ UNCHANGED <<line, steady, alt_irq_active, tables, call>>

\* alt_irq_enable and alt_irq_disable write ienable without the mask.
Switched(id, on) ==
    alt_irq_active' = IF on THEN alt_irq_active \cup {id} ELSE alt_irq_active \ {id}

IsrSwitch(id, on) ==
    /\ Running("isr") \/ Running("open")
    /\ Inside \/ alt_priority_mask = Irq
    /\ on => alt_irq[id].handler # Null
    /\ Switched(id, on)
    /\ ienable' = alt_irq_active'
    /\ UNCHANGED <<line, steady, pie, alt_priority_mask, tables, call, frames>>

-----------------------------------------------------------------------------
(* What the program can call.  Between its steps it can be interrupted if   *)
(* interrupts are on.                                                       *)

\* Mutant of Disabled: interrupts stay as they are.
DisabledNot == pie

\* alt_irq_disable_all.
Disabled == FALSE

\* alt_irq_enable_all.
Restored(status) == status

\* The program keeps interrupts off for a while of its own.
DisableAll ==
    /\ Program /\ pie
    /\ pie' = Disabled
    /\ call' = [NoCall EXCEPT !.step = "off", !.status = pie]
    /\ UNCHANGED <<line, steady, ienable, masks, tables, frames>>

EnableAll ==
    /\ frames = <<>> /\ call.step = "off"
    /\ pie' = Restored(call.status)
    /\ call' = NoCall
    /\ UNCHANGED <<line, steady, ienable, masks, tables, frames>>

\* alt_irq_register: the handler, the context, then enable or disable.
Register(id, new) ==
    /\ Program
    /\ pie' = Disabled
    /\ alt_irq' = [alt_irq EXCEPT ![id].handler = new.handler]
    /\ call' = [NoCall EXCEPT !.step = "context", !.id = id, !.new = new,
                              !.on = new.handler # Null, !.status = pie]
    /\ UNCHANGED <<line, steady, ienable, masks, alt_instruction_exception_handler, frames>>

RegisterContext ==
    /\ frames = <<>> /\ call.step = "context"
    /\ alt_irq' = [alt_irq EXCEPT ![call.id].context = call.new.context]
    /\ call' = [call EXCEPT !.step = "store", !.loaded = alt_irq_active]
    /\ UNCHANGED <<line, steady, cpu, masks, alt_instruction_exception_handler, frames>>

\* alt_irq_enable and alt_irq_disable: load alt_irq_active, store it changed.
Switch(id, on) ==
    /\ Program
    /\ on => alt_irq[id].handler # Null
    /\ pie' = Disabled
    /\ call' = [NoCall EXCEPT !.step = "store", !.id = id, !.on = on,
                              !.loaded = alt_irq_active, !.status = pie]
    /\ UNCHANGED <<line, steady, ienable, masks, tables, frames>>

Store ==
    /\ frames = <<>> /\ call.step = "store"
    /\ alt_irq_active' = IF call.on THEN call.loaded \cup {call.id}
                                    ELSE call.loaded \ {call.id}
    /\ ienable' = alt_irq_active'
    /\ pie' = Restored(call.status)
    /\ call' = NoCall
    /\ UNCHANGED <<line, steady, alt_priority_mask, tables, frames>>

\* alt_instruction_exception_register, with a handler that skips or repeats
\* the instruction, or none.
ExceptionRegister ==
    /\ Program
    /\ alt_instruction_exception_handler' \in {Null, "handler"}
    /\ UNCHANGED <<line, steady, cpu, masks, alt_irq, call, frames>>

Init ==
    /\ line = {} /\ steady \in BOOLEAN
    /\ pie = TRUE /\ ienable = {}
    /\ alt_irq_active = {} /\ alt_priority_mask = Irq
    /\ alt_irq = [i \in Irq |-> [handler |-> Null, context |-> Null]]
    /\ alt_instruction_exception_handler = Null
    /\ call = NoCall /\ frames = <<>>

Calls ==
    \/ DisableAll \/ ExceptionRegister
    \/ \E id \in Irq : \/ \E new \in Registered \cup {NoCall.new} : Register(id, new)
                       \/ \E on \in BOOLEAN : Switch(id, on) \/ IsrSwitch(id, on)
    \/ alt_irq_interruptible

Next ==
    \/ \E i \in Irq : Raise(i) \/ Drop(i)
    \/ Take \/ Entry \/ Read \/ Search \/ Serve \/ IsrReturn \/ Exception
    \/ alt_irq_non_interruptible
    \/ EnableAll \/ RegisterContext \/ Store
    \/ Calls

\* What is begun goes on: calls end, routines return and end what they let
\* in, the program does not keep interrupts off for ever.  An interrupt is
\* taken between any two instructions, so it is not missed for ever while
\* the program switches interrupts on and off.
Spec ==
    /\ Init /\ [][Next]_vars
    /\ WF_vars(Entry) /\ WF_vars(Read) /\ WF_vars(Search)
    /\ WF_vars(Serve) /\ WF_vars(Exception)
    /\ SF_vars(IsrReturn) /\ SF_vars(alt_irq_non_interruptible)
    /\ WF_vars(EnableAll) /\ WF_vars(RegisterContext) /\ WF_vars(Store)
    /\ SF_vars(Take)
=============================================================================
