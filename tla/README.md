# DECODER: verification project

DECODER is an FPGA design that measures the relaxation of a resonant circuit:
two ADC channels (I and U) are mixed down with a numerically controlled
oscillator (NCO) that is locked to the input, filtered, divided, scaled and
compared with two limits. A small soft CPU runs one firmware program, `sem.c`,
which only configures the decoder, on top of the hardware abstraction layer
(HAL) that the repository carries as source in `src/software/os_bsp`. Of the
design, `src/SysFiltr/synthesis/submodules` is the reference; the copies under
`simulation/` and `testbench/` are generated from it.

This directory holds TLA+ models of the parts that have control of their own,
TLC configurations that check them on small instances, and proofs for every
instance of the properties that matter most.

## 1. The system

### The design

Everything runs on one clock. Communication is by wires and by single-clock
handshakes; there is one bus, with one master that writes.

| component | state | operations | talks to |
|---|---|---|---|
| period counter `ENUM_CNT.sv`, `COUNT.sv` | five-state machine, the last two samples, the count, a 2-bit phase | one step per clock; asynchronous reset | offers its count to FLL with `valid`, withdrawn with `rst` |
| frequency-locked loop `FLL.sv`, `SUB_CNT.sv` | seven-state machine with two latches, two 3-deep crossing histories, `valid_sub`, `valid_delta`, `delta` | pairs the two counts, subtracts, freezes the NCO to align phase | two period counters, Generator |
| Generator `Generator.sv`, NCO | `sub`, `phi` | `phi` moves by the difference; the NCO's clock enable | FLL, the mixers |
| floating-point units `Convers.v`, `fpoint2_multi.vhd` | `busy`, a 4-bit counter | `start` / `done`, `clk_en` | one another (Arith), Filtr |
| arithmetic ring `Arith.sv` | five units, `start`, two samples of `reset_l`, `Ku` | kicked once after reset, then starts itself | Filtr (data), Decider |
| decision `Decider.sv` | `range[0:1]`, `indicate` | compare, while `work` | Arith, the outside |
| filter channel `Filtr.sv`, `IIR_Filtr.sv` | start-up machine, sampler, delay line, `caff[0:4]` | convert, filter, convert | Decoder, Arith |
| write decode `Decoder.sv` | strobes `wr`, `clk_en`, `start`, `enabel` | decodes a write beat | bus, all blocks |
| data master: CPU and master translator | `d_write`, address, data, `write_accepted` | one store at a time | Decoder |
| reset controllers | synchronizer chains | fall at once, rise later; the CPU's falls late | everything |
| firmware `sem.c` | program counter | nine stores in a fixed order | Decoder |

### The software under the firmware

One CPU, one thread; interrupts are the only concurrency. `alt_main` runs
`alt_irq_init`, `alt_sys_init` (the drivers register their devices, file
systems, the system clock and interrupt handlers), the redirection of stdio,
the constructors, `main`, and closes stdout.

| component | state | operations | talks to |
|---|---|---|---|
| alarms and tick: `alt_alarm_start.c`, `alt_tick.c`, `alt_llist.h`, `alt_alarm.h` | `_alt_nticks`, `_alt_tick_rate`, a doubly linked list, a deadline and a roll-over flag per alarm | start, stop, the walk over the list in `alt_tick`, the callbacks it makes | called from the timer's interrupt; callbacks start and stop alarms |
| wall clock: `alt_settod.c`, `alt_gettod.c` | `alt_resettime` | set, get | reads the tick counter |
| descriptors and start-up: `alt_open.c`, `alt_close.c`, `alt_get_fd.c`, `alt_release_fd.c`, `alt_fd_lock.c`, `alt_ioctl.c`, `alt_fcntl.c`, `alt_io_redirect.c`, `alt_main.c`, ... | `alt_fd_list`, `alt_max_fd`, the lists of devices and file systems, the error number | open, read, write, lseek, ioctl, fcntl, stat, lock, close, redirect, register | the drivers' callbacks, which may refuse |
| interrupts: `alt_irq_register.c`, `alt_irq_handler.c`, `alt_irq.h`, `alt_legacy_irq.h`, the entry code in `*.S`, `alt_instruction_exception_entry.c` | `alt_irq[]`, `alt_irq_active`, `alt_priority_mask`, the exception handler; of the CPU `status` and `ienable` | register, enable, disable, enable all, let higher priorities in and out again; entry, search, call of a routine | devices' lines, service routines |

The tick interrupt is one of the routines `alt_irq_handler` calls; it calls
`alt_tick`, which calls the callbacks, which call `alt_alarm_start` and
`alt_alarm_stop`. None of it is reached in this system: its CPU is generated
without interrupt lines (`SysFiltr_cpu_cpu.v:4524-4527` keeps `ienable` and
`ipending` at 0, so `intr_req` at 3920 is always 0) and `system.h` names no
timer. The HAL is linked all the same, and is what a system with either would
run on. The list and the registration are protected by switching
interrupts off, the descriptors by nothing (one thread), the wall clock by a
rule that its two functions must not overlap (`alt_settod.c:65-66`).

### What is hard about it

* *Interleaving.* The withdrawal of a count, the next crossing and a reset can
  meet in any clock; so can the two channels of FLL, and the five units of the
  ring. An interrupt comes between any two instructions of the program and of a
  routine that has let higher priorities in; a callback changes the list
  `alt_tick` is walking.
* *Stale state.* `valid_sub` is registered, so counts are subtracted a clock
  after they were looked at; the blocks sample the bus a clock after the beat.
  `alt_tick` has read the link behind an alarm before its callback runs;
  `alt_irq_handler` serves from a copy of `ipending`; a mask is saved before
  and put back after higher routines ran.
* *Registers without reset*: `start` and `buff_reset_l` in Arith, `sub`, the
  control bits, four of the five coefficients.
* *Order of reset*: the CPU's reset comes clocks after the decoder's.
* *Liveness*: a stopped NCO, a ring whose only token could be lost, a walk over
  a list that changes, a search for a bit in a word that may be empty.
* *Numeric edges*: 7-bit counts for periods up to 126 clocks, equality tests on
  counts; a tick counter of 32 bits, deadlines beyond its wrap, and a product of
  ticks and microseconds that is 32 bits wide in one function and 64 in another.
* *Partial failure*: an open that the driver refuses after the descriptor was
  taken, a redirection of which one part fails.
* *Limits*: `ALT_MAX_FD`, and `alt_max_fd`, which ends every search.
* *Descriptions that simulate and synthesize differently*: the combinational
  sample buffer, `wr` assigned with `=` and read at the same edge.

`PROJECT.json` lists each hazard at its line with the properties aimed at it.

### What makes each component correct

* period counter: what it offers is the distance of two consecutive crossings,
  it does not change while on offer, and measuring never stops;
* FLL: it subtracts counts that are both on offer, no pair twice, the
  difference is exact; a frozen NCO stands on its crossing, is always let go,
  and a completed hold leaves it one clock behind the input, never more;
* ring: one computation circulates, on time, for ever;
* filter: it starts, on conversions and nothing else, and every sample is
  computed from the two in the delay line;
* configuration: each store reaches its own register and no other, and the
  enable comes last;
* alarms: an alarm goes off in the tick it was set for and in no other, the
  list stays whole, every tick ends;
* wall clock: it shows what was set plus the time that has passed;
* descriptors: one means the same thing from open to close, one that was taken
  in vain is back in the pool without flags, drivers are closed as often as opened, a lock
  keeps others out;
* interrupts: only a higher priority interrupts a routine, masks are undone, a
  routine is called with what was registered with it, the highest is served.

## 2. Modules

| module | models |
|---|---|
| `PeriodMeter` | abstract: what a period counter promises |
| `ENUM_CNT` | one period counter, as a component with its clock edge as an operator |
| `ENUM_CNT_Spec` | the counter closed with any signal, reset and reader; its properties; the refinement to `PeriodMeter` |
| `FLL` | the loop: two instances of `ENUM_CNT`, `SUB_CNT`, the machine, the NCO's hold |
| `FLL_Spec` | the loop under any two signals |
| `FLL_Periodic` | the loop under a periodic input and an NCO that is retuned |
| `Convers` | the handshake of all floating-point units |
| `Arith` | the ring, with `Convers` and the reset synchronizer |
| `Arith_Spec` | the ring with histories for what the handshake promises |
| `Filtr` | a filter channel: both converters, the start-up machine, the sampler, the pipeline and the delay line of the filter |
| `Filtr_Spec` | the channel with histories of the samples taken; its properties |
| `ConfigPath` | firmware, data master, translators, decode, strobes, registers, both resets |
| `ConfigPath_Spec` | what the firmware relies on |
| `TimerSet` | abstract: what alarms promise, as ticks left per alarm |
| `Alarms` | the list of alarms link by link, the program, the tick and its callbacks |
| `Timekeeping` | `Alarms` with the wall clock, on one tick counter |
| `Timekeeping_Spec` | their properties; the refinement to `TimerSet` |
| `Files` | descriptors, drivers, locks, and the program's life from `alt_sys_init` to its end |
| `Files_Spec` | what programs and drivers rely on |
| `Interrupts` | lines, CPU, entry code, handler, masks, the table, the program that changes it |
| `Interrupts_Spec` | what an application relies on |
| `*_proof` | the theorems of a component |
| `*_MC` | the constants' values for TLC |

How the models correspond to the design:

* An action is a clock edge. A clocked block is an assignment to a primed
  variable; a combinational block is an operator of the same name; a block that
  assigns a signal from itself is a latch, kept in a variable with the suffix
  `_l`. The branches of a `case` are actions of their own (`Arm`, `Open`,
  `Close`, ... in `ENUM_CNT`; `Approach`, `Freeze`, `Align`, ... in `FLL`),
  disjoint by their guards; `Move` is the case statement, and `Clock` and `Edge`
  put it together with everything else that the same edge changes.
* Asynchronous resets are `Reset`, `ResetEdge`, `ResetTick`, `SystemReset`;
  what has no reset in the code keeps its value there (`sub` in FLL, `start`
  and `buff_*` in Arith, the control bits and four coefficients in ConfigPath).
* `ENUM_CNT` and `Convers` are components without a next-state relation: the
  modules that use them instantiate them and call their edges.
* Signals are sets of integers (only the sign and equality of samples matter),
  values on the bus are named by the store that carries them.
* The data path is left out: what a unit computes, the filter's arithmetic. In
  `Filtr` a sample is a label, and each register of the arithmetic holds the two
  samples of the delay line its value was computed from, or `mixed` when a sum
  has taken its operands from different ones.

Some things the language of the source leaves open. They are variables that the
initial state chooses and no step changes, so that one run covers both.
`reading` in `ENUM_CNT_Spec` says what the combinational sample buffer of
`ENUM_CNT.sv:195` is: the last two different samples (how a simulator runs it)
or two equal wires (what a netlist makes of it). `reading` in `Filtr` says what
the delay line's `always @(sampl)` is: run once per change of `sampl`, or two
latches that are open together. `seesNew` in `ConfigPath` says which value of
`wr` the addressed block sees at the edge that changes it: the new one, or the
old one of a register. `FLL` takes the counters' reading as a constant, since
with wires it has nothing to subtract. Two assumptions on the surroundings are
chosen the same way: `orderly` in `ConfigPath` (a reset lasts until the CPU has
seen it, and the debugger resets nothing), `steady` in `Interrupts` (a line only falls when it is served).

How the models correspond to the software:

* An action is what no interrupt can divide. A call that a single thread makes
  is one action with all it changes (`Files`). Where an interrupt, a device or a
  callback can come between, the call is divided there and `call` remembers
  where it is: `alt_alarm_start` has filled in the entry but not yet published
  it; `alt_irq_register` has written the handler but not the context;
  `alt_irq_enable` has loaded the mask but not stored it.
* `Alarms` has two contexts, the program and the tick above it; `tick` says
  whether `alt_tick` is about to visit an entry or waits for its callback.
  `Interrupts` has a stack of `frames`, one per interrupted piece of exception
  code, each with its place (`entry`, `read`, `search`, `isr`, `open`,
  `exception`, `break`) and what it keeps in its registers.
* `Irq` are the lines the CPU is generated with; for this design it is empty, and
  then `Take` is never enabled. The runs and theorems are about CPUs with lines.
* `pie` is the bit of the status register; whether an interrupt is taken is
  decided by it and by the masks, never by the model.
* In `Files` an open that fails has taken a descriptor, flagged it and asked for
  the lock, or called the driver, and gives it back, as `alt_open.c:132-165` does:
  each outcome of `Opens` is the pool it leaves. A driver's answer is a choice, so
  every call can fail; `held`,
  `opened` and `users` are histories of what the program did.
* `alt_fd_list`, `alt_max_fd`, `alt_irq_active` and other names are the code's.

Operators called "Mutant of X" are not part of a model. Each is a plausible bug
of the code at X and is what shows that a property can fail.

## 3. Runs

| run | bounds | shows |
|---|---|---|
| `counter` | 3-bit counter, samples -1, 0, 1, 2, both readings of the buffer | the counter implements `PeriodMeter`, its count follows the signal, measuring goes on; as wires it measures nothing |
| `fll_any` | 3-bit counters, samples -1, 1 on both channels | counts subtracted are on offer, no pair twice, held on a crossing |
| `fll_periodic` | 4-bit counters, periods 9..12, every phase | fresh and exact differences, holds end, a completed one with the generator one clock behind the input |
| `arith_ring` | the source's operation codes, resets at any clock, any power-up contents | one token, lockstep, no overrun, never early, keeps delivering |
| `filter` | the source's T = 10 and latency 2, an input that is 0, 65536 or another value, 3 labels, both readings of the delay line | the filter starts, on conversions only; samples have settled, in either reading |
| `config` | six stores of every kind, a word of every block on the bus between them, orderly and arbitrary resets, both ends of the race on `wr` | stores land, nothing is misdirected if resets are orderly, the enable comes last, the decoder gets configured |
| `config_header` | two stores made with the driver header's macros | VIOLATION: the macro for Ku does not reach Ku |
| `ticks` | 3 alarms, a counter that wraps after 4, the shortest and longest delay and period, seconds of 3 ticks | implements `TimerSet`; the list is whole, only registered alarms are called, a tick ends, the wall clock is right |
| `files` | 5 descriptors, the null device, a device with every callback, a file system without open, a name nobody has | a descriptor taken in vain is back in the pool, descriptors keep their meaning, closes match opens, a lock keeps later opens out |
| `fd_lock` | same | VIOLATION: a lock is granted on a device that the highest descriptor uses too |
| `interrupts` | a CPU with 3 lines (this design's has none), 2 registrations that share nothing | only higher priorities interrupt, masks are undone, registrations are seen whole, lines that stay are found, the highest is served |

Why the bounds are enough.

* A 3-bit counter wraps within a measurement, which the design's 7-bit counter
  does only outside its band; nothing in the machine compares a count with a
  number other than 0 and the other channel's. -1, 0, 1, 2 are the signs, the
  zero that `nul` looks for and a change without a crossing; for the loop two
  values suffice because `nul` never aborts a measurement (`NulNeverAborts`,
  proved). The ratio of the periods 9..12 is 1.33, wider than the design's band
  of 103..126 clocks (1.22), `CLK_REF` over the limits of `FRQ_SIGNAL`. What the
  loop's order needs of a band is `BandAssumption`, at most 3 to 2 and 8 clocks or
  more, which the run evaluates and the proofs use. `FLL_Periodic` takes its
  samples from those of `FLL_Spec`, which it extends.
* In the ring nothing is bounded: the counters are the code's four bits. In the
  filter the sampler and the latencies are the code's own; three labels tell
  the two samples in the delay line from the next; of the input only matters
  whether it equals what the converter shows after a reset. In the
  configuration runs nothing depends on the length of the program but the
  place of its last store. `MaxRan` in `Arith_Spec` caps a history above every
  latency.
* An operation on the list touches an entry and its two neighbours: with three
  alarms all of them can be alarms, and the alarm whose callback runs, the one
  behind it and another one are different. Deadlines are compared with the
  counter and, by the roll-over flag, with its wrap, so a counter of 4 with
  delays of 0 and 2 and periods of 3 has every case: due at once, due before and
  beyond the wrap. `elapsed` stops at the wrap, where `WallClock` no longer says
  anything.
* The input's period is a whole number of clocks and does not change, any of
  9..12; that of a real input is not whole and jitters by a clock, which no run
  covers. The generator's changes with every correction.
* Two descriptors beyond stdio are the fewest with one below `alt_max_fd` and
  one at it. The three drivers differ in the callbacks they have, which is all
  the calls ask of them. Descriptor 1 is opened over by the redirection and is
  the one of stdin, stdout and stderr the program calls on (`Used`).
* Three priorities nest twice, and a routine in the middle has one that may
  interrupt it and one that may not. Two registrations show a handler with the
  other's context.

`files` and `fd_lock` do not check for deadlock: the program stops at `exit`.

Fairness. In the design the clock always ticks: weak fairness of the clock edge;
the synchronous parts need no more. In `Arith` the firmware is assumed to come
to its control store (`Tick /\ clk_en'`), which `GetsConfigured` is about. In
`ConfigPath` the CPU executes its program (stores are started and ended), a
requested reset reaches the CPU and a released input releases both. No fairness
is assumed of signals, readers or resets: liveness is stated for signals that
keep crossing (`KeepsMeasuring`) and for behaviours whose resets stop
(`KeepsDelivering`, `GetsConfigured`; `Starts`, which in addition needs an input
that is not 65536 for ever).

In `Timekeeping` code that has begun goes on: weak fairness of `Publish`,
`Visit` and `Done`. A callback can go on calling `alt_alarm_start` and
`alt_alarm_stop`, each of which disables its return for a while; that a callback
returns at all is the application's duty, hence strong fairness of `Return`.
Nothing makes a tick come. In `Interrupts` exception code and calls go on (weak
fairness), a routine and what it has let in return, though they are interrupted
again and again (strong), and the program does not keep interrupts off for ever.
`Take` is strongly fair: the CPU takes an interrupt between any two
instructions in which it is enabled, so a program that disables and enables
interrupts in a loop cannot miss it for ever. Lines are free to come and go;
`HighestServed` is about one that stays.

Findings.

* `config_header`: `altera_avalon_sem_regs.h:40` stores Ku at word 2; Decoder
  decodes Ku at words 16 to 23 and takes word 2 for the control bits. `sem.c`
  does not use the macro.
* `fd_lock`: `alt_fd_lock.c:61` searches below `alt_max_fd`, which is the
  highest descriptor in use and not one more, while `alt_fd_lock.c:43-44`
  promises the lock only if no other descriptor refers to the device. Two opens
  and a lock on the first show it.

### What the models also brought up

Without a document to hold it against, or outside what a run shows. Design:

* `fpoint2_multi.vhd:33` and `:111` say that `done` is driven for one cycle, and
  for the immediate operations at once. The code also runs the counter for them
  (`:113`), so `done` comes again three clocks later. In Arith this is masked by
  `valid = done_cnv && done_mult`.
* In the netlist a short reset, or one of the CPU alone, can misdirect one
  store: `NothingMisdirected` has the premise `orderly`. The CPU's reset can come
  between a write beat and its strobe, a clock later; it clears address and data,
  and the addressed block stores 0 under index 0. (A store that ends keeps its
  operands on the bus until the next instruction, `SysFiltr_cpu_cpu.v:4259-4265`,
  so nothing else is misdirected.) The firmware's next run repairs it
  (`GetsConfigured`).
* A completed hold leaves the generator a clock behind the input. In the clock of
  the input's crossing `cnt_hold` is still 1 (`FLL.sv:186`), so the NCO moves in
  `Hold_fst_St`, when the input has its second sample. `ReleasedOneClockLate` says
  that it is exactly this clock; `HoldCompletes` says nothing about phase.
* Read as latches, the two latches of the delay line are open together, so `sh_2`
  never differs from `sh_1` and the filter is one of first order.
* After a warm reset the control bits and four coefficients keep their values
  while Ku is 1.0 and the limits are 0, until the firmware has run. It stores the
  control word it stored before, so `EnabledLast` is about the first change of
  these bits after power-up.
* For signals of arbitrary frequency, or periods further apart than 2 to 1 (6 to
  13 clocks; for very short ones already 3 to 5), one channel's count can be used
  twice (`BothFresh` fails, `EveryPairIsFresh` holds), because `Hold_sec_St` does
  not look at `rst`, and the generator can be released more than a clock off the
  input's crossing.
* A pair formed while the NCO was frozen yields a large difference that reaches
  `phi` a clock after `blok`, or after a hold that was given up.
* The start-up buffer of `Filtr.sv:71` shifts its upper half out, so of the three
  patterns only the third can match, and the clock spent in `Wait_St` would let
  the residue pass without any. An input of exactly 65536 delays the start.
* The arithmetic needs ten clocks and gets eleven less the one of the sampler:
  the assumption `5 * Latency =< T` is met with equality.
* Filtr drives the `start` of its converters with a control bit that stays high,
  where `fpoint2_multi.vhd:32` speaks of one cycle. The converter is loaded anew in
  every clock and its `done`, the filter's `i_en`, never comes; the conversions
  come all the same, and nothing reads `i_en`.
* `sh_1`, `sh_2` and `o_signal` have no reset: after a warm reset the filter goes
  on from its old samples.

Time:

* A delay of 2^32 - 1 ticks makes the deadline equal to the present tick, so
  the alarm goes off in the next one; `DelaysAssumption` excludes it.
* Starting an alarm that is in the list, or a callback starting its own,
  tears the list; the models' application does neither.
* A callback that stops the alarm behind its own gets it visited all the same:
  with `Reckless = TRUE`, `OnlyRegistered` fails. What the run and the theorems
  say of alarms is about callbacks that do not. `alt_tick` has read the link
  before the call (`alt_tick.c:102`).
* `settimeofday` multiplies in 32 bits what `gettimeofday` multiplies in 64:
  after 2^32 microseconds (71 minutes) a time that is set comes out wrong.
  `WallClock` has the premise.
* With a rate that does not divide 10^6, the time falls back at every full
  second (`ClockAssumption`).

Descriptors:

* 0, 1 and 2 are never released, not even their flags, so a lock on one of them
  survives its close. `alt_fd_lock.c:45-47` says that it is released.
* `alt_main` closes stdout a second time after `main` if the program has closed
  it, and the driver is told so: `OpensMatchCloses` says nothing at `exit`.
* `priv` is not cleared with a descriptor: one that is reused for a driver
  without an open callback keeps the `priv` of its last user, or of a driver that
  refused. `ReturnedToPool` is about driver and flags.
* A call on a descriptor that is not open finds the device null and
  dereferences it; the modelled program does not make one.
* The descriptors 0 to 2 start as `O_RDONLY`, so a write to stdout before the
  redirection, or when it fails, gives `EACCES`; `alt_dev.c:83-85` means such
  output to be harmlessly discarded. The redirection is only compiled if stdio
  devices are chosen, and this BSP has none.
* `stat` calls `fstat` and `close` with -1 after a failed open; both return an
  error and change nothing but the error number.

Interrupts:

* A line that falls between the handler's test and its reading of `ipending`
  makes the search endless; one that falls before the entry code's test makes an
  exception of an interrupted instruction, which the program's handler may then
  skip. `SteadyIsFound` has the premise `steady`.
* `alt_irq_enable` and `alt_irq_disable` write `ienable` without
  `alt_priority_mask` (`alt_legacy_irq.h:76`, `:94`). On a CPU with lines, a
  routine that has called `alt_irq_interruptible` and then enables or disables an
  interrupt is from then on interrupted by its own and lower ones: with
  `Inside = TRUE`, `OnlyHigher` fails.
* `alt_exception_entry.S:276-279`: the comment says that the instruction is
  skipped if the code returned was 0, the branch does so if it is not. The
  branch agrees with the header that defines the codes.

Heap and profiling, read but not modelled: `mcount_allocate` uses what `sbrk`
returned without looking whether it failed, `nios2_pcsample_init` tests it
against 0 where failure is -1.

## 4. Proofs

All are for every value of the constants under the named assumptions of the
modules, checked by TLAPS.

`ENUM_CNT_proof` (counter range above 1, samples integers, either reading):

* `TypeCorrect`, `CountCorrect`: `Spec => []SpecTypeOK`, `[]CountFollowsSignal`.
  `CountFollowsSignal` alone is not inductive: the clock that opens a
  measurement adds 1 to whatever the waiting counter holds. The invariant `IInv`
  therefore adds `WaitsAtZero`, which holds because no way into `Wait_St`
  keeps or counts (`WaitClears`).
* `Refinement`: `Spec => Meter!MeterSpec`. Under `IInv` a step that enters a
  hold is `Close` (`OnlyCloseEntersHold`) and freezes a count equal to the
  distance (`CloseMakesOffer`); a step within a hold keeps it
  (`HoldKeepsOffer`); any other step withdraws.
* `NoAbort`, `WiresNeverMeasure` from `BufferInv`: read as events, a machine
  that measures has two different samples; read as wires, it has equal ones and
  stays in `Reset_St` and `Wait_St`.

`Arith_proof` (the operation codes are codes, the two multipliers' are equal,
no unit of the ring is an immediate operation):

* `OneComputation`, `MultipliersInStep`: `[]OneToken`, `[]Lockstep`, with the
  types. `OneToken` says nothing while `reset_l` is low and is not inductive:
  the invariant adds `Flushed`, how the three registers without a reset are
  cleared one after another during the synchronizer's three clocks, and
  `Kicked`, that out of reset `buff_reset_l` goes 00, 01, 11 and never 10.
  `RingMoves` and `Dones` then say where the token goes.
* `RoundsExact`: `Spec => [][RoundKept]_vars`: while the ring is enabled and out of
  reset its quotients come exactly a `Round` apart, the latencies of multiplier and
  divider and three clocks (17 with the source's codes). `RoundLeft` counts down
  by one in every clock; it is what `KeepsDelivering` rests on without fairness.
* `LatencyKept`: `HSpec => []NeverEarly`; `NeverOverrun`: `HSpec => []NoOverrun`
  under `ScalingKeepsUp`, that the multiplier of the scaling takes at most as long
  as a round of the ring up to the next quotient. The source's codes satisfy it
  (`LatenciesKeepUp`, evaluated in the run); with a division in the place of the
  scaling and multiplications in the ring the overrun would be there. The invariant
  weighs counters against each other: `Answers` (what a unit has run and what its
  counter has left make its latency), `Stopped` (before `clk_en` nothing counts)
  and `Ahead` (wherever the token is, the scaling has less left than the token
  needs to come back to it).

`FLL_proof` (counter range above 1, either reading of the sample buffer, samples
integers):

* `TypeCorrect`, `CountsHeld`, `PairsFresh`, `HeldInPhase`, `QuietFreeze`:
  `[]SpecTypeOK`, `[]SubtractsHeldCounts`, `[]EveryPairIsFresh`,
  `[]HeldOnCrossing`, `[]NoGlitchIntoStep`. The invariant is about how long two
  offers can meet. `OfferedOnce`: both counters hold exactly in the clock of
  `valid_sub`, and are never both in `Hold_sec_St`, because `rst` moves the
  younger of them on at once. `OneCleared`: in the clock after a subtraction one
  counter is back at 0, which keeps the comparator quiet when the machine
  freezes on equal counts above 0. `FrozenOnCrossing`: while the machine waits on a frozen
  generator the latches are set and the sample has not moved. `InBuffer` and
  `GenBuffer` carry the counters' own invariant, one lemma per channel.
* `PeriodicIsLoop`: `PeriodicSpec => Spec` (`FLL_Periodic` implements `FLL_Spec`),
  for all periods that fit the counters, so the theorems above hold under periodic
  signals too. The step needs `HeldAtStart`: a held generator repeats a sample that
  is one of its wave's.
* `DifferencesExact`: `PeriodicSpec => []Exact`. The invariant `PhaseInv` ties
  each counter to the phase of its signal (`Counted`: the phase while it measures,
  the whole period from the closing crossing on), the generator's only while
  `steady`, because a hold or a new increment in the middle makes its count worthless.
* `PairsBothFresh`: `PeriodicSpec => []BothFresh`, and `ReleaseLag`:
  `PeriodicSpec => []ReleasedOneClockLate`, for every band within `BandAssumption`,
  all phases and any answer of the NCO to a correction. Both say that the two
  counters, which never look at each other, keep in order, and both come from
  `ChannelsOrdered`, the invariant `OrderInv`. It speaks of *ages* (the clocks
  since a channel's last crossing) and *stages* (the counter's state, and
  `Stale_St` for a `Hold_sec_St` whose count was subtracted already). A channel
  leaves a stage at a crossing, so its age and its stage say how long ago it was
  stale, and `Ahead` bounds by how much one channel can lead the other:
  by a period and, from a pair to the correction it causes, three clocks
  (`Ordered`); by less in `Count_St`, since `Approach` is not taken when both
  crossings are recent (`Strict`). With a lead of that size the other channel
  closes its measurement before a stale count could be offered again. The
  other parts say what the leads need: the clocks in which a pair is offered
  (`PairAges`, `Lagging`) and the NCO takes its period (`Retuned`), what the
  counts are when they meet (`Meeting`, `GenExact`), and what a hold can find
  (`Stepping`, `Checking`, `Releasing`): the pair of the two counts that met, or
  one with the count 1 of the frozen generator, which gives the hold up.
  Read as
  wires the loop never releases (`OnlyEventsRelease`).
  `OrderKept` is a clock in which the NCO is left alone, `OrderCorrected` one in
  which it takes another period of the band.
* `HoldNotGivenUp`, `HoldBounded`: action properties. A hold that was
  entered with equal periods, or has got as far as `Chek_St`, has no way out but its
  completion; every clock of any hold takes at least one from `HoldLeft`, which
  starts at three periods of the input and four clocks. They are what `HoldCompletes`
  and `HoldEnds` say but for the fairness of the clock.

`ConfigPath_proof`, for every program that is a `Firmware`: no register is written
twice, the control bits through word 0 and last. `sem.c` is such a program, and so
is the one of the run (`ProgramIsFirmware`).

* `StoresArrive`, `StoresAreMeant`, `ControlChangesLast`: `[]StoresLand`,
  `[]NothingMisdirected` and the action property `EnabledLast`, for both ends of
  the race on `wr` and whatever resets come. The invariant follows one store:
  `Carried` (a store in execution holds address and data), `InFlight` (after the
  beat the strobe of the addressed block is up, or the value is there already,
  and the CPU still waits), `Steady` (outside a pending reset the CPU only runs
  beside a released decoder, and no beat is stalled). `InBeat`, `InStrobe` and
  `NoStore` are the three kinds of clock; `KeepsEarlier` says that a store disturbs
  none before it. `Sheltered` is what orderly resets add: no strobe is up when
  the bus is cleared.

`Filtr_proof` (the pipeline is not longer than the period, `Cleared` is not a
signal):

* `TakenSettled`: `SpecH => SamplesSettled`, in both readings of the delay line,
  for every period and latency with `5 * Latency =< T`. The invariant
  `Settling` says that `cnt` clocks after a sample the first `cnt` registers of
  the pipeline hold what belongs to the new delay line; `ShiftSettles` is the
  step.
* `NoResidue`: `SpecH => []StartsOnSamples`, from `Refilled`: the converter's
  first register and its output are refilled one after the other while the
  machine goes `Reset_St`, `Wait_St`, `Count_St`.

`Timekeeping_proof` (alarms, head and null are different; every rate):

* `ListWoven`, `OneTickAtATime`: `TimeSpec => []Woven`, `[]TicksNeverNest`.
  `Woven` is false in the middle of a start, so it says nothing there; the
  invariant says what holds then (`Linkage`: of the entry being published only
  the link from the head is missing; `Pending`: it already points at its
  neighbours) and that nobody else works on the list meanwhile (`Turns`, from
  the interrupt bit the two contexts save and put back). `Walks` keeps
  `alt_tick` on entries that were linked.
* `AlarmsKeepTime`: `TimeSpec => ImplementsTimerSet` and `CalledWhileRegistered`:
  `TimeSpec => OnlyRegistered`, under `~Reckless` (callbacks do not stop the alarm
  behind their own; the run's other remarks in section 3 show why). The list is
  reasoned about without walking it: `Ordered` says that there is a numbering of
  the entries that rises along `next` from the head, so that `Ahead` can say of
  the tick in progress which alarms it has passed and which it has yet to visit.
  `Owed` relates each alarm's deadline and its roll-over flag to the ticks the
  abstract alarm has left, before and after `alt_tick` passes it.
* `WalkShortens`: `TimeSpec => [][WalkShrinks]_allVars`, under `~Reckless`: the
  entries `alt_tick` has still to visit (`Rest`, the smallest set that its links do
  not lead out of before the head) get fewer with every visit, and nothing a callback
  starts, stops or returns adds to them. With finitely many alarms this is what
  `TickEnds` says but for fairness. With a reckless callback it is false.
* `ClockKeepsTime`: `TimeSpec => []WallClock`. `DivMod`, `ModOfMultiple` and
  `SumOfParts` are the arithmetic of seconds and microseconds for any rate that
  divides 10^6; `CarryKeeps` is the loop that normalises.

`Files_proof` (drivers, names and the size of the pool as assumed in `Files`):

* `TypeCorrect`, `DescriptorsReleased`, `MeaningKept`, `LocksKeepOut`:
  `[]TypeOK`, `[]ReturnedToPool`, `[]KeepsMeaning`, and the action property
  `LockKeepsOut`. A lock only keeps out what the search for locks can see, so
  the invariant adds `BelowMark` (a descriptor in use is not above
  `alt_max_fd`), `LocksOnDevices` (only a device is ever locked, and open asks
  for locks only on a device) and `StdioTaken` (0 to 2 are never free, so
  `alt_get_fd` never hands them out). `OpensFacts` says what open can leave, `RefusedFacts` that a descriptor taken,
  flagged and refused is free again, with what the driver left in `priv`.
* `ClosedAsOpened`: `Spec => []OpensMatchCloses`, a statement about a number: each
  step adds or removes one member of a finite set (`On`) where it changes
  `users`. The redirection releases originals without a close, so the invariant
  `Balanced` adds `NotYet`: the standard descriptors it has still to come to are
  on the null device, whose opens and closes nobody counts.

`Interrupts_proof`, under `~Inside`, for a CPU with any finite set of lines and any nesting:

* `HigherOnly`, `RegistrationsWhole`, `MasksUndone`: `[]OnlyHigher`,
  `[]PairsIntact`, `[]MaskUndone`. The invariant relates the stack to the masks:
  `Stacked` (every frame but the last has let others in, its interrupt was
  enabled by the mask of the frames below, and that mask is what it will put
  back), `Masked` (the mask in force is that of the whole stack, `ienable` is
  what it lets through), `Alone` (a call of the program and a frame exclude
  each other while interrupts are off) and `Consistent` (only the entry being
  registered may be torn, and what is enabled has a handler). `~Inside` cannot be
  dropped, as said in section 3.
* `NestingBounded`: `Spec => []TypeOK`, that the stack needs at most as many
  frames as there are priorities: the mask of each frame is a smaller set than
  that of the frame below, and by `Room` no frame was entered under an empty one.
* `SteadyLinesFound`: `Spec => []SteadyIsFound`. `Awaited` says that
  what the exception code was entered for is still pending when it looks, whatever
  came in between.

Proved but not run: `SpecTypeOK` of the counter and of the loop,
`NulNeverAborts`, `NoGlitchIntoStep`, `TicksNeverNest`, `TypeOK` of `Files`, that
`FLL_Periodic` implements `FLL_Spec`, `OrderInv`, and the four about time:
`RoundKept`, `NotGivenUp`, `HoldShrinks`, `WalkShrinks`. TLC agreed with each of
them on the instance of its component's run before it was proved, with `OrderInv`
for the periods 8 to 12 and 14 to 21.

`BandAssumption` belongs to `FLL_Periodic`, but only the theorems from
`ChannelsOrdered` on use it; `PeriodicIsLoop` and `DifferencesExact` need no more
than that the periods fit the counters. TLC finds `BothFresh` and
`ReleasedOneClockLate` true for bands of up to 2 to 1 and not beyond (periods 6 to 12
and 20 to 26 have them, 6 to 13 have not); between 3 to 2 and 2 to 1 they are only
model-checked, on those bands.

Only model-checked: liveness (`KeepsMeasuring`, `HoldEnds`, `HoldCompletes`,
`KeepsDelivering`, `Starts`, `GetsConfigured`, `TickEnds`, `HighestServed`).
Fairness needs `ENABLED`, which is out of the prover's reach. Of `HoldEnds`,
`HoldCompletes`, `KeepsDelivering` and `TickEnds` the part that is not about
fairness is proved, as above. No invariant and no action property of a passing run is
without its theorem.

## 5. Not modelled

Of the design: the NCO core, the floating-point data paths, the CPU beyond its
store path and its interrupts, the generated interconnect beyond the two
translators, the unused `Top` and the test benches: generated or vendor code, or
arithmetic without control. In `FLL` the signals nothing depends on: `en_hold`,
`pm_in_buf` (the two branches it selects are equal), the `ph_en` ports. In
`ConfigPath` reads are left out (nothing answers them), the CPU's delays are any
number of clocks, and so is the delay of its reset (six clocks in the code). In
`Filtr` the numbers, the channel's input from the mixers, `mult_out` (its result
is not used) and `i_en` (not read) are left out.

Of the HAL: the heap and the profiler (their properties are about the contents
of memory), caches and program loading (loops over lines and words; this CPU has
no data cache), the DMA and flash headers (each call passes to a driver, and the
system has none), `printf` and logging (formatting; logging is not enabled), the
functions that only return an error, the busy wait, and the enhanced interrupt
interface (compiled out of this BSP, `alt_iic.c:46`). `fstat`, `isatty` and
`times` change nothing. The locks of the descriptors and of the alarms are empty
without an operating system. In `Interrupts` the saved registers are left out
but for the status.

Most lines of the C sources are licence text, comments, declarations of the
parts above, or one-line stubs; what is modelled of a file is its code.

## 6. Plan

The modules were written in the order of section 2, each component closed by a
`_Spec` module, checked, then proved about. What is left, most important first:

1. *FrequencyLoop*: `phi`, `sub` and the period it gives over the band: does
   the correction shrink the difference from every start, and what does a pair
   formed during a hold do to it.
2. *Capture*: the ring's data beside its handshake: which round of the ring
   `relax_freq` holds when `valid` captures it, how often the filters' outputs
   change while the multipliers work on them, and `Decider` with limits that
   change one at a time.
3. *ConfigRegisters*: an abstract register file that `ConfigPath` implements;
   then Decoder composed from `ConfigPath`, `Arith` and `Filtr`, with the three
   channels in step.
4. *Heap*: `sbrk` with `malloc_lock` and an interrupt routine that allocates;
   the profiler's check before it allocates.
5. Proofs: the order of the channels for every band of at most 2 to 1; the
   abstract register file of item 3.
