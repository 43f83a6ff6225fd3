--------------------------- MODULE Interrupts_Spec ---------------------------
(* What an application relies on, on a CPU that has lines (see Interrupts). *)
EXTENDS Interrupts

Handlers == {r.handler : r \in Registered} \cup {Null}
Contexts == {r.context : r \in Registered} \cup {Null}
Pairs == [handler : Handlers, context : Contexts]
Numbers == Irq \cup {-1}
Places == {"entry", "read", "search", "isr", "open", "exception", "break"}
Frames == [at : Places, active : SUBSET Irq, irq : Numbers, handler : Handlers,
           context : Contexts, old : SUBSET Irq]
Calling == [step : {"none", "off", "context", "store"}, id : Numbers, new : Pairs,
            on : BOOLEAN, loaded : SUBSET Irq, status : BOOLEAN]

Types ==
    /\ line \subseteq Irq /\ steady \in BOOLEAN
    /\ pie \in BOOLEAN /\ ienable \subseteq Irq
    /\ alt_irq_active \subseteq Irq /\ alt_priority_mask \subseteq Irq
    /\ alt_irq \in [Irq -> Pairs]
    /\ alt_instruction_exception_handler \in {Null, "handler"}
    /\ call \in Calling
    /\ frames \in Seq(Frames)

\* The values of the variables; the stack needs room for one frame a priority.
TypeOK == Types /\ Len(frames) =< Cardinality(Irq)

\* A service routine is only interrupted by routines of a higher priority: the
\* stack of frames is never deeper than the priorities above the outermost
\* one (alt_legacy_irq.h:110-117).
OnlyHigher ==
    \A i, j \in 1 .. Len(frames) :
        i < j /\ frames[j].at \in {"isr", "open"} => frames[j].irq < frames[i].irq

\* Whatever routine runs, it was called with the context that was registered
\* together with it: nobody sees half of a registration, and nothing is called
\* that was removed (alt_irq_register.c:87-95).
PairsIntact ==
    \A i \in 1 .. Len(frames) : frames[i].at \in {"isr", "open"} =>
        [handler |-> frames[i].handler, context |-> frames[i].context] \in Registered

\* In the interrupted program all priorities are enabled again, whatever the
\* routines have let in: nothing they masked stays masked
\* (alt_legacy_irq.h:139-149).
MaskUndone == frames = <<>> => alt_priority_mask = Irq /\ ienable = alt_irq_active

\* A line that stays asserted until it is served is never taken for the
\* exception of an instruction and never leaves the handler searching
\* (alt_instruction_exception_entry.c:128-131, alt_irq_handler.c:127-157).
SteadyIsFound ==
    steady => \A i \in 1 .. Len(frames) :
        /\ frames[i].at \notin {"exception", "break"}
        /\ frames[i].at = "search" => frames[i].active # {}

\* The highest priority is served in the end, whatever the program, the other
\* devices and their routines do.
HighestServed ==
    \A i \in {k \in Irq : \A j \in Irq : k =< j} :
        steady /\ i \in line /\ i \in ienable ~> i \notin line \/ i \notin ienable
=============================================================================
