# mos65xx in TLA+

A verification project for `mos65xx`, a cycle-accurate model of the 65xx
processors in Python: the MOS 6502 and its NMOS relatives, the 65C02 in its
three revisions, the 65816 and the 65802. `src/` below is the root of that
repository, and line numbers are those of the commit it was written against.

Contents: 1. the system, 2. the modules, 3. what is checked, 4. what is
proved, 5. where the code and its documents differ, 6. what is not modelled,
7. the plan, 8. running it.

## 1. The system

| Component | Source | State it keeps | Operations |
| :--- | :--- | :--- | :--- |
| NMOS core | `src/mos65xx/mos6502.py` | registers and flags; the lines `irq_line`, `nmi_line`, `ready_line`; `_open`, `_inside`, `_unsampled`, `_polled`, `_poll_held`, `_poll_skipped`, `nmi_seen`; `stopped`, `jammed`; `cycles`, `steps` | `step`, `run_for`, `run_until`, `call`, `reset`, `irq`, `nmi`, `held_cycle`, one `op_*` per mnemonic |
| CMOS core | `src/mos65xx/mos65c02.py` | the same and `waiting` | overrides of the polling, the entries, the halts, the adder, the spare cycles; the added instructions |
| 65816 core | `src/mos65xx/wdc65816.py` | 16-bit registers, banks, `m8`, `x8`, `emulation`; the abort latch `_abort_at` with what it keeps; `cycle_budget` for block moves | as above, and `abort` with its roll-back |
| Clock | `src/mos65xx/clock.py` | two semaphores, a worker thread, `closed`, `_failure`, `cycles`, the part's previous `on_cycle` | `tick`, `run_for`, `close`, the context manager, the iterator |
| Memory | `src/mos65xx/memory.py` | bytes | `read8`, `write8` |
| Opcode tables | `src/mos65xx/opcodes*.py` | none | sizes, `branch_target`, `decode`, `render`, `disassemble` |
| Models | `src/mos65xx/models.py` | a catalogue | `lookup`, `build` |
| Surface | `__init__.py`, `errors.py`, `version.py` | none | `Cpu(...)`, exceptions |
| Installation checks | `doctor.py`, `environment.py` | files on disk | `examine`, `observations` |
| Conformance | `src/conformance/` | files on disk, and a test board | suites that compare the cores with recorded data and the documents |

**How they interact.** A core calls its memory once for each bus cycle and
`on_cycle` at that cycle's end; `close_cycle` runs lazily, when the next cycle
begins or the instruction is over. A program moves the lines and calls `irq()`,
`nmi()` and `abort()` between instructions, or from `on_cycle`. A clock takes
`on_cycle` for itself and turns every call of it into a hand-over between two
threads, so that the program's code runs between any two cycles. An exception
of the memory, of `on_cycle`, or of the clock's `close()` unwinds the core's
frames from any cycle.

**What makes each component correct, and what is hard about it.**

- *Clock.* The host and the worker never run the part together; a tick is one
  cycle; a tick and a close always come back; a failure of the part reaches the
  host; after `close()` nobody is inside the part. Hard: two threads over two
  semaphores, three ways for the worker to stop, a `KeyboardInterrupt` in the
  middle of a tick, a join that may give up.
- *Interrupt machinery of the cores.* One entry for each rise of the
  non-maskable line, none lost; the request line honoured as the disable flag
  stood when the part looked; a call refused exactly when it must be. Hard:
  what the part answers from is what it saw a cycle ago, or two; a poll may be
  skipped or held; the host's code runs between the last close and the look at
  the pins; exceptions leave the flags that say where the part is.
- *Aborts.* The registers an aborted instruction leaves are those it found, but
  for what the data sheet lets stand. Hard: the latch, the cycle it was closed
  in, the cycle from which something is kept, and everything that may come
  between a latch and its instruction's end.
- *Addressing.* What is written and read is what the instruction names; the
  core and the disassembler agree on where the next instruction is; the cycles
  are those printed; on a 65816 the outputs tell what a cycle is for. Hard:
  carries and wraps at the end of a page, of page zero, of a bank and of
  memory, different in each mode, core and emulation.
- *Drivers.* `call` ends at its routine's return, and `run_for` counts what the
  part spent. Hard: the part enters interrupts on the way, in the loop's own
  read of the next opcode too, and halts; `call` counts an instruction before it
  steps it, and a 65816 may abort it; a held cycle may wait for RDY.
- *Arithmetic.* The bytes and the carry are the sum or the difference. Hard:
  three decimal adders that correct their digits in different ways.
- *65816 registers and stack.* Widths and mode agree; what is pushed is pulled
  back. Hard: two ways of pushing, setters that are passed by.
- *Block moves.* A move that is cut into slices, and aborted, is still that
  move. Hard: re-execution, the ends of pages and banks, leftover cycles.

`PROJECT.json` lists the places in the code where each of these may go wrong
("hazards"), with the properties that would notice.

## 2. The modules

| Module | Extends, or instantiates | Models |
| :--- | :--- | :--- |
| `LockStep` | | abstract: a clock as turns taken by a host and a part |
| `Clock` | instantiates `LockStep` | both threads of `clock.py` |
| `EightBit` | | cycles, lines, polling, entries of the two 8-bit cores |
| `ClockedPart` | extends `Clock` and `EightBit` | a clock driving an 8-bit core |
| `SixteenBit` | | cycles, lines, aborts, entries of the 65816 |
| `Registers` | | mode, widths and stack of the 65816 |
| `BlockMove` | | MVN and MVP of the 65816 |
| `Adder` | | ADC, SBC and the comparisons of every core |
| `Addressing` | | the bus cycles of the instructions of the two 8-bit cores |
| `SixteenAddressing` | | those of the 65816, and its outputs |
| `Driver` | | `call`, `run_until` and `run_for` |
| `SixteenBitProofs`, `RegistersProofs`, `BlockMoveProofs`, `AdderProofs`, `AddressingProofs`, `SixteenAddressingProofs`, `DriverProofs` | each extends its module and `TLAPS` | the theorems |
| `ClockProofs` | extends `ClockedPart` and `TLAPS` | the theorems of `Clock`, those of `EightBit`, and those of the composition |
| `MC*` | each extends one module | the constants of the runs |

In every module a definition whose comment begins "Fault:" is not the code. It
is the definition after it with a plausible mistake, kept to show that a
property notices that mistake; nothing in the specifications uses it.

### Clock and LockStep

One action is one uninterrupted stretch of one thread between two operations on
the semaphores. `resume` and `arrived` are the two semaphores' counts. The host
is `idle`, `ticking` (in `tick`'s acquire), `closing` (in `close`'s acquire),
`joining`, or `leaving`: on its way out of the `with` block after a signal. The
worker is `new` (in `_run`'s first acquire), at the `loop`'s head, `started` (a
step begun, no cycle closed), `within` a step, `paused` in the hook, `released`
or `done`. The part is reduced to what the clock sees of it: a step closes one
cycle or more, each through the hook, and returns or raises. `Joined` may be
taken whether or not the worker has ended, since the join has a timeout.
`spent`, `outcome` and `broken` are history. `LockStep` is the promise: a turn
goes from the host to the part and back, one count a turn, until it is over.

### EightBit

One action is what the part does from one `on_cycle` to the next: the rest of
the last cycle's work, then the next cycle up to its close. Between two actions
stands everything the program may do: move a line, call `irq()` or `nmi()`,
`reset()`, or raise. The instructions are grouped by what the interrupt logic
tells apart, with their cycles (`Length`) and those of them that write.

| Here | In the code |
| :--- | :--- |
| `op = "idle"`, a key of `Length`, `"boundary"` | between steps; `_inside`; `on_cycle` of an instruction's last cycle, `_unsampled` |
| `polled`, `Spend` | `_polled`, `spend()`, with `_poll_held` for a taken branch's last cycle |
| `Begin`, `Continue`, `Make`, `Stall` | `step()` and the `op_*` it calls; `await_ready()` |
| `SampleSkipped`, `SampleNothing`, `SampleEnters` | the three ways through `sample_pins()` |
| `IrqMasked`, `IrqCall`, `NmiCall`, `MayCall` | `irq()`, `nmi()`, `refuse_inside()`, `entry_pending()` |
| `Unwind` | the `finally` clauses of `step()` and `interrupt()` |
| `HeldCycle`, `Reset` | `held_cycle()`, `reset()` |

A stopped or jammed 8-bit part still takes entries, and a waiting one stops
waiting only at a look at the pins or by a call, as in the code. `irq()` and
`nmi()` with RDY down would spend cycles for ever on the caller's thread: in
`ClockedPart`, where that is the host's own, the call is made with RDY up.
`reset()` is one step, made between instructions. `model` is the part, which
never changes: which core it is, and the interrupt pins its package brings out.
A line without a pin may still be raised: `sample_pins` then looks at it, and
`require` raises out of `step()` (`Missing`).

### ClockedPart

The two threads of `Clock` with the cycles of `EightBit` in the place of its
reduced part: `ReachedACycle` goes with the close of a cycle, `StepReturns`
with a look at the pins that enters nothing, `StepFails` with an exception,
`Resumed` on a closed clock with the unwinding that `_Closed` does. While the
worker is paused the host moves lines and calls `irq()` and `nmi()`; their
entries run on the host's thread (`HostEntry`), where the hook returns at once.
The memory that raises on an entry's first access is `SampleEnters` followed by
`Unwind`, and a line its package lacks makes `step()` raise.

### SixteenBit

As `EightBit`, for the 65816. Of the registers it keeps one of each sort an
abort restores or keeps (`regs`): the mode, on which the length of BRK, RTI and
the entries depends, the disable flag, another flag, whether the program bank
is zero, and whether `pc` is at the opcode. `before` is what `step()` keeps to
roll back to, `abort_at`, `abort_after`, `abort_keeps` and `abort_cycle` the
latch, `watching` the flag `_watching_abort`. `CallAbortInside` is `abort()`
called from inside an instruction, which the code does not refuse: it nests an
entry and clears `_inside` for the rest of the instruction, and what that
remainder does is not followed. Here a stopped part takes no entry at all.
`setting` is a program with its host: its instructions, the lines that move,
how many cycles RDY may hold an instruction up, and whether `abort()` is called
from inside one.

### Registers

One action is one instruction, entry, abort or reset of a 65816, as it changes
the mode, the widths, one index register and the stack pointer. Carry, data
registers, program counter and memory are arbitrary values, but for the cells
that hold what the program has pushed and not yet pulled: `frames` says what
was promised of them. A program that moves its stack (TXS, TAS, XCE into
emulation mode, a pull of another kind) gives its frames up. The code pushes
flat, past the edge of page one, for the instructions the 6502 did not have,
and stays in page one for the others; at that edge the promise of a flat push
or pull is left out (`Promised`): a byte pushed past the edge is pulled from
inside the page. `WidthsAgree` holds from the first `reset()` on, since
`power_on` may leave an 8-bit index register with a high byte.

### BlockMove

`Begin` is the instruction up to its loop, `MoveByte` one round of the loop,
`End` what follows it with the cycles left, `EndAborted` the same followed by
the roll-back of an abort. Each cell starts with its own address for a content,
so that wherever a byte lies the properties know where it came from.

### Adder

A program adds, subtracts or compares two 16-bit numbers, a byte at a time
through the carry or, on a 65816 with a wide accumulator, at once. `add_with_carry`, `subtract_with_carry` and `compare` are
the cores' functions, one decimal algorithm for each core.

### Addressing

`ahead` is what the handler of an instruction has still to do; each action does
one cycle of it. The program's memory is filled in lazily: a cell holds any
byte until it is looked at for one (`mem`), and `first` keeps what was found
there, so that the properties can name the operand from the bytes as they
were, whatever the instruction has overwritten. A byte no address, return or
write depends on is never chosen. X and Y are one index. `part` is the core and
`reach` how many cells the package's address lines tell apart. Each
instruction, or entry, is taken alone from an arbitrary state: `End` forgets
everything. RDY is left to `EightBit`.

### SixteenAddressing

As `Addressing`, for the 65816: `ahead` is built from the mode's part of
`effective()` and the handler's, by the accumulator's width; the direct
register's extra cycle, the indexed modes' and a branch's are added where the
handler decides on them. The registers an instruction reads are chosen when it
begins, and zero when it reads none. `bus` is the last cycle with the outputs
driven in it: `d` and `p` for valid data and program addresses, `w` for a
write, `v` for a vector's pull, `l` for a locked memory; `asserted` are those a
handler holds over several cycles. In emulation mode the instructions of
`Flat` work from the whole stack pointer, may leave page one, and put it back
there when they are done. `Pushed` and `PulledByte` say what an instruction
left on the stack and what it took from there; `Back` says where the return that
ends a routine, or a handler, will look, from the stack pointer the call leaves,
and `OffPageOne` where one of the two works off the end of page one. An entry is
what `enter()` does: it begins with the pushes.

### Driver

The three loops over a `part` (NMOS, CMOS or 65816) that goes where a program
takes it. `next` is what `pc` is at and `frames` the calls and entries the stack
holds; a program is any that returns as it was called (`Follows`), and an
entry's handler is such a program too. One action is the loop's code from one
`on_cycle` it can be interrupted in to the next: the read by which `call()`
looks at an opcode (`"peek"`), an instruction's last cycle (`"last"`) and a held
cycle (`"held"`), in each of which the host may call `irq()` or `nmi()`
(`HostCalls`). `Sampled` is the entry, if any, the pins ask for at the end of
`step()`.

A 65816's instruction may be `Aborted`: it spends its cycles, a halt it made
stands, `pc` and the stack are as before it, and `AbortEnters` instead of
`Sampled`. The roll-back is put where the cycles are spent; nothing looks at
`pc` or the stack between but a call from the last cycle, and `HostIsUndone` is
that call: its entry runs, is rolled back, and has overwritten what a return
would pull. `HeldStalls` is RDY in a jammed NMOS part's held cycle, which is a
read; RDY anywhere else is in what an instruction or an entry costs. `elapsed`
counts what the part spends, against what `run_for()` counts. `departures` are
the three things the properties exempt, and section 5 says why: a call that
changes the part in a peek or a held cycle or under an aborted return, an abort
of what `call()` has counted, a held cycle held up.

## 3. What is checked

Each `.cfg` gives a run its constants and names its properties; `PROJECT.json`
names, for every property of a passing run, the fault that breaks it.

| Run | Module, configuration | Distinct states | Properties |
| :--- | :--- | ---: | :--- |
| `clock` | `MCClock` | 380 | `NeverBothRun`, `TicksAreCycles`; live: `TickReturnsAtLast`, `CloseEndsTheWorker`, `FailureReachesTheHost`, `BrokenTickStillCloses` |
| `eight` | `MCEightBit` | 1,577,428 | `NmiOncePerEdge`, `NmiAnswered`, `IrqHeldIsTaken`, `IrqMaskRespected`, `RefusalIsHonest`, `BreakRunsItsHandler` |
| `clocked` | `MCClockedPart`, `MCClocked` | 471,518 | `ClosedPartIsUsable`; refinement: `StillAClock`, `LockStepSpec` |
| `sixteen` | `MCSixteenBit` | 4,068,940 | `AbortIffHeld`, `HaltedNeverEnters`, `NmiOncePerEdge`, `NmiAnswered`; of steps: `RolledBack` |
| `registers` | `MCRegisters` | 355,696 | `WidthsAgree`, `PullsMatch` |
| `move` | `MCBlockMove` | 165,376 | `MoveIsExact`, `RegistersTell`; live: `MoveEnds` |
| `adder` | `MCAdder` | 1,741,824 | `ResultIsRight`, `OverflowIsSigned`, `CompareOrders` |
| `addressing` | `MCAddressing` | 290,042 | `WritesAreNamed`, `SparesAreHarmless`, `ArrivesWhereDecoded`, `CyclesAsPrinted` |
| `sixteen_addressing` | `MCSixteenAddressing` | 5,694,326 | `DataIsNamed`, `EmulationAddressesAlike`, `OutputsTell`, `ArrivesWhereDecoded`, `CallsComeBack`, `CyclesAsPrinted` |
| `driver` | `MCDriver` | 12,345,300 | `SliceIsPaid`; of steps: `CallEndsAtItsReturn` |
| `clocked_cut` | `MCClockedPart`, `MCClockedCut` | violated | `ClosedAsStepped`, section 5 |
| `call_undone` | `MCSixteenBit`, `MCCallUndone` | violated | `CallSurvives`, section 5 |

**What they show.**

- `clock`. A tick hands control over whole and counts the part's cycles, a
  failure reaches the tick that asked for the cycle, and a clock closed from
  anywhere, after a signal in the middle of a tick too, ends its worker and
  gives `on_cycle` back.
- `eight`. Whatever the order of lines, calls, stalls, resets and exceptions,
  on every package: a rise of the non-maskable line is entered once and not
  more; a line that was low for an instruction and is then held is answered; an
  allowed request held from an instruction's beginning is taken at its end; a
  request is entered with the flag set only after the NMOS parts' SEI and PLP;
  a call is refused exactly at a boundary where the part is about to enter;
  after a BRK an NMOS part runs an instruction of its handler.
- `clocked`. A clock around a part with all this going on is still the clock
  of `Clock`, live and all, and so still `LockStep`; and a closed clock leaves
  a part that may be used.
- `sixteen`. An abort is taken exactly when the line was held in one of the
  instruction's own cycles, and starts from the registers the instruction
  found, but for what is kept; a stopped part enters nothing; the non-maskable
  line keeps its promises when an abort hides a look at it.
- `registers`, `move`, `adder`. Section 1's last three, over the instances
  below.
- `addressing`, `sixteen_addressing`. Every byte an instruction reads for its
  value or writes is one that it names by its own bytes, the pointers' and the
  registers', across every edge; a read beside those is harmless; the program
  goes on where the disassembler says; the cycles are those of the data sheets,
  but for a 65816's entries. On the 65816 a return finds, in the memory a call,
  a BRK or an interrupt has left, the way back to where it was made
  (`CallsComeBack`), except where one of the two works off the end of page one,
  section 5; `VDA`, `VPA`, `VP` and `ML` tell what a cycle is for; and in
  emulation, with its direct page and banks at zero, its addresses are the
  65C02's, but that an index carried past bank zero goes on into bank one.
- `driver`. `call` returns when its own return is next with the stack as it
  found it, and not before, whatever the part enters and whichever instructions
  it aborts, as long as none that `call` has counted is aborted and nothing is
  entered in the loop's own read. `run_for` never has counted more cycles than
  the part made, and has counted them all unless a held cycle enters an
  interrupt or is held up. The exceptions are in section 5.

**Bounds, and why they are enough.**

- `clock`: `MaxTicks = 6`. Nothing depends on how many ticks there were; the
  worker's whole life (start, several cycles of a step, its end, another step)
  fits in three. The theorems have no bound. `clocked`: `MaxTicks = 9`, so that
  a BRK of seven cycles and the beginning of another instruction fit, with a
  program of a store, a BRK and a jam, on a package with every interrupt pin
  and on one with none; without signals, which `clock` covers.
- `eight`: no bound on the length of a behaviour, and one instruction of every
  sort the machinery distinguishes. `MaxDue = 3` saturates a history counter
  whose property is about 1.
- `sixteen`: two settings. Under one the abort line moves, with `MaxStall = 2`
  cycles of RDY in an instruction, so that a latched cycle's number may differ
  from the cycle's place in the instruction by more than one; calls make the
  other entries. Under the other all three lines move, with one cycle of RDY
  and no `abort()` from inside. `MaxCycle` saturates past the longest
  instruction and its stalls.
- `registers`: a byte of three values, so that page one has a page below and a
  page above it and the longest frame of emulation mode just fits; two data
  bytes, one word, two frames at a time, of any kinds and nested any way.
- `move`: banks of four bytes and pages of two, so that every count up to a
  whole bank, every overlap and every wrap occurs; budgets of none, less than a
  byte's, one byte's, one and a part, two bytes', and no limit; one abort.
  Cells hold their origins, so that more values would show nothing more.
- `adder`: 144 numbers of the bytes {0, 1, 9, 16, 25, 79, 80, 127, 128, 153,
  250, 255}, every pair of them, on every core: the bytes where a digit, a sign
  or a correction turns, and some that are no decimal numbers.
- `addressing`: a byte of four values, so that the sixteen cells make page
  zero, the stack's page, another and the vectors'; instructions that begin in
  page zero, across two page edges, before the vectors and across the end of
  memory; packages with every address line and with one less. Operands,
  pointers, stack and vectors overlap the instruction and one another in every
  way that fits.
- `sixteen_addressing`: a byte of four values, so that a bank's sixteen cells
  make page zero, the stack's page, another and the vectors', and a page has
  room for what a call pushes: in emulation a JSL may stay inside page one, and
  `CallsComeBack` is then about it. Instructions begin in bank zero, across the
  end of a bank and across that of memory; data banks at both ends; direct pages
  at page zero's start, inside it, at the last page's start and against the
  bank's end; packages with every bank and with none; indexes of zero, one, a
  whole byte and a whole word. The theorems have none of these bounds.
- `driver`: all three parts; instructions of one cycle and of three, an entry of
  seven; slices of nothing, of one cycle and of several instructions; limits of
  none, zero and three; calls and entries three deep, which holds a call inside
  an entry inside a call. In each loop one instruction that `call()` counts may
  be aborted (others any number of times), one call may be made in a peek and
  one held cycle held up; in an aborted instruction one call may be undone. These
  are the exempted things: one of each suffices to leave the property. The
  theorems have no bound on costs, slices, limits or depth.

**Fairness.** `Clock`: both threads are scheduled (weak fairness of `Worker`
and of the host's steps that finish a call), since Python's interpreter
switches between its threads; `StepReturns`, since an instruction of a part has
finitely many cycles; and `Close` from `leaving`, since `with` runs `__exit__`.
The host need never tick or close. `ClockedPart` adds that a call of `irq()` or
`nmi()` runs on; that an instruction ends is there a fact of `EightBit`, and
nothing is assumed of RDY, since a part stalled on it still ticks. `BlockMove`: the
instruction's own steps, and strong fairness of a host's giving a budget with
room for a byte: a host that only ever gives less never ends a move, in the
code too. The other modules promise nothing live and assume no fairness.

## 4. What is proved

The theorems hold for all values of the constants allowed by the named
assumptions, and are checked by TLAPS; each `*Proofs` module holds one
component's, and `ClockProofs` those of the clock, the 8-bit part and the two
together.

| Theorem | Says |
| :--- | :--- |
| `ClockProofs!Exclusion`, `Counting`, `NoStray`, `TypeCorrect` | `Safe => []` of `NeverBothRun`, `TicksAreCycles`, `NoStrayCycle` (after `close()` gave `on_cycle` back no worker runs), `TypeOK`, for any number of ticks, with signals or without |
| `ClockProofs!FinalCount` | the count only grows by one, and is final once the clock is closed (`CountIsFinal`) |
| `ClockProofs!Refinement` | without signals `Clock` implements `LockStep`, step by step |
| `ClockProofs!StaysAClock`, `StaysAPart`, `StaysInStep` | the composition makes only steps of `Clock`, of `EightBit` and, without signals, of `LockStep`: what is proved of each holds of them together |
| `ClockProofs!ClosedIsUsable` | without signals, `ClockedSafe => []ClosedPartIsUsable`, for any package and program |
| `ClockProofs!PartTypeCorrect`, `EdgeInterruptsOnce`, `EdgeIsAnswered`, `HeldRequestTaken`, `MaskRespected`, `BreakIsSafe`, `RefusalCorrect` | `PartSpec => []` of `PartTypeOK` and of each property of `eight`, on both cores, in any packages and for any set of instructions |
| `ClockProofs!ClockedPartKeeps` | `ClockedSafe => []` of the six properties of `eight`: a clocked part, called from the host's thread and unwound by `close()`, answers its lines as one left alone |
| `SixteenBitProofs!AbortsWhatWasHeld`, `AbortRollsBack`, `HaltedEntersNothing`, `EdgeInterruptsOnce`, `EdgeIsAnswered` | each property of `sixteen`, for any settings and any `MaxStall` |
| `DriverProofs!SlicesArePaid`, `CallsEndAtTheirReturn` | both properties of `driver`, for any of the three parts, any costs of instructions and entries, and any slices, limits and depth |
| `RegistersProofs!WidthsAlwaysAgree`, `PullsAlwaysMatch` | `Spec => []` of each property of `registers`, for any size of a byte, any data and any depth of the stack |
| `BlockMoveProofs!MovesAreExact`, `RegistersAlwaysTell` | `Spec => []` of `MoveIsExact` and `RegistersTell`, for banks and pages of any size, any budgets and any number of aborts |
| `AddressingProofs!WritesAlwaysNamed`, `SparesAlwaysHarmless`, `AlwaysArrives`, `CyclesAlwaysPrinted` | `Spec => []` of each property of `addressing`: every mode, instruction and entry of both cores, for a byte of three values or more, instructions anywhere, and packages with any number of lines above a whole low byte |
| `SixteenAddressingProofs!DataAlwaysNamed`, `EmulationAlwaysAlike`, `OutputsAlwaysTell`, `AlwaysArrives`, `CallsAlwaysComeBack`, `CyclesAlwaysPrinted` | `Spec => []` of each property of `sixteen_addressing`: every mode, width, instruction and entry of the 65816, native and emulated, on both packages, for a byte of three values or more, and instructions, indexes, data banks and direct pages anywhere |
| `AdderProofs!BytewiseResultIsRight`, `BytewiseOverflowIsSigned`, `BytewiseCompareOrders` | `ResultIsRight`, `OverflowIsSigned` and `CompareOrders` for every two 16-bit numbers, in binary a byte at a time on every part and in decimal on the NMOS and CMOS cores |

**The arguments.**

- *Clock.* The thing that is passed is a baton: the host holds it while it
  runs, the worker while it runs, and a permit on a semaphore is the baton on
  its way. `Baton` says that there is one, or two once a signal has broken a
  tick. That is not inductive alone: whether the worker may go on depends on
  `closed`, which the host sets, and on `failure`, which the worker sets; so
  `HostFlags`, `WorkerFlags` and `BrokenFlags` say what each thread's place
  tells of the flags the other reads, and `Counted` what the two counters are
  while a tick is on its way. `IInv` is their conjunction. After a broken tick
  there are two batons, exclusion is gone, and what remains is that a hook
  given back means a worker that is out.
- *ClockedPart.* A step of the composition is a step of `Clock`, or leaves it
  alone, and so for `EightBit`: two case analyses, and each part's theorems
  follow. `Placed` then says that outside a step the part is idle, or in an
  entry on the host's thread that will leave it so; `Ended`, that a close the
  host has been told of has ended the worker. Both need the baton, which says
  that the worker does not run while the host does.
- *EightBit.* Small invariants, each closed under `Next` with few cases.
  `Accounted`: a line that is high and not seen, or polled so, has an `edge` to
  its account. `HeldPolled` and `FlagPolled`: what the held request and the
  flag say of the poll the NMOS part will answer from, an instruction whose
  poll is held included. `Unanswered` and `Due`: an edge that was passed over
  once is in the poll of every instruction after it. `BreakSkips`: a boundary after an NMOS BRK has its
  poll skipped. The lemmas `Moves` and `CycleMoves` reduce the actions to four
  kinds of step that these invariants can tell apart.
- *SixteenBit.* `Halted`: a stopped part is between instructions or at the end
  of its last. `Unseen` and `Kept` are the line's, simpler here, where the part
  answers from now. For aborts the latch is related to the history of the line:
  `Watched` says where the part watches, and in whose entry it may be;
  `Latched`, that the latch is set if the line was held in a cycle of the
  instruction, and only then while no call was accepted at its end; `Counted`
  and `Pointing`, that a latched cycle's number is after the instruction's
  abort point exactly when the line came after it, however many cycles RDY put
  between, and that `before` still holds what the instruction found.
- *Driver.* What is `Due` is what `run_for()` has counted, what `step()` has
  still to return and what a held cycle has still to add. `Paid` says that it is
  never more than the part has spent, and equals it while no cycle has escaped
  (`Whole`); `PaidBy` reduces the actions to one sum. For `call()` the depth it
  keeps is the number of calls among the frames of the stack (`Calls`, by a
  function that counts those under each frame), and a return at `pc`, and every
  one on the way down, is of its frame's sort (`Fits`, `Stacked`): so an RTS at
  depth zero has no frame above it but the caller's. `Looking` joins the two for
  a loop that is `Sound`, where no counted instruction was aborted and no call
  got between the read and the step. An entry, an abort's too, adds a frame that
  is no call (`EntryKeeps`); an undone call changes where a return goes and
  leaves its sort (`UndoneKeeps`).
- *Registers.* `Shape` (the registers' types and `WidthsAgree`) is inductive by
  itself, because every path that changes `x8`, the mode or the stack pointer
  ends in a setter; the proof goes through them instruction by instruction.
  For the stack `IInv` says where the frames are. The addresses of a mode, page
  one or bank zero, are a ring, on which a flat access followed by the setter of
  `s` ends where `push8` would have. The frames pushed in this mode (`Live`) lie
  one below the other from a base down to `s` (`Stands`), and their cells hold
  what their class lays out for their value (`Laid`). A push overwrites none of
  them because their cells never are more than the ring has places, which is a
  count; a change of mode leaves no live frame at all (`Bare`).
- *BlockMove.* `Position` is how many of the move's bytes are behind the
  registers. An abort takes it back, while memory only ever holds more of the
  move; so neither property is inductive by itself. `Told` relates the position
  to the three registers, and `Written` says how far the memory has got, which
  is never short of the position: a byte moved again finds its place filled as
  it fills it, and its origin untouched (`Suits`).
- *Addressing.* What an instruction does is a walk through `ahead`, so that the
  invariant is a table with a row for each thing that may be ahead of each
  instruction: how many cycles and how many of its own bytes are behind it
  (`Row`, `At`), which bytes have been found, and what they make of the byte
  and the address in the making. `Forming` has the rows on the way to an
  address, mode by mode; `Reached` those at it, where the cycles behind and the
  length of `ahead` add up to those printed; `Handling` the instructions
  without an address and the entries. At an empty `ahead` the rows are the
  properties. Three facts carry the rest: what an instruction has found does
  not change under it, and until it writes (`Unwritten`) what it reads is what
  it finds; a page is corrected exactly where the carry moved it (`PageCarry`);
  and what is pushed is not overwritten before its entry is over, because
  three neighbours on the stack are three cells on any package
  (`OtherPlace`): that is where a byte has three values at least, and where a
  package brings out its whole low byte.
- *SixteenAddressing.* The same walk, with more of it to say. `Forming` is by
  mode, with `Aim` for where an offset leads and `Beyond` for the pointer's
  second byte, which wraps in its page, in bank zero or not at all. `Reached`
  holds from the address to the instruction's end, and says that `addr` is what
  the bytes name. `BusTells` carries both into the property: what a cycle of
  data did was done there. `Asserts` says which outputs are held with which
  work still ahead, and is what makes a cycle's outputs tell: none is held once
  nothing is ahead, even after a failure. `Handling` has a family of rows for
  each sort of jump, call, return and entry, and one count, `Cost`, for all of
  them but the branches. On the stack the rows speak of where its pointer was
  (`Tops`): `Around` is a place so far from there, flat or in page one, `Laid`
  and `Drawn` what is at it, and `Settled` the register put back in page one,
  from which `TopIs` finds the way back. What one entry pushes it pushes
  apart (`Apart`), at most four bytes, or three in page one. `Unwritten` ends
  where a call pushes before its operand is read: `jsr (a,x)` then reads an
  operand it may have pushed, and `HighKnown` speaks of memory as it is. A
  JSL may find its bank byte pushed over, so its rows say so of a byte found alone.
  `CallsComeBack` follows from what the calls' and the entries' rows say is
  `Laid` at their end: `FoundBack` shows that the return looks for each byte
  where it was laid, because in native mode both count flat from the same
  pointer, and in emulation folding into page one changes neither's places as
  long as neither goes off the page; `WordBack` puts the bytes together.
  `EmulationAlike` needs no more than `Reached`: with banks and direct page at
  zero each mode's pointer and sum reduce to the 65C02's (`ZeroNames`), and
  `ZeroReach` bounds what an index is added to, so that the operand is the
  65C02's or, past bank zero, exactly a bank further.
- *Adder.* `IInv` carries between the two bytes what the low one established:
  its result with the carry is the sum or the difference of the low bytes, and
  for a comparison the carry orders them. The lemmas are the arithmetic of
  one byte for each adder. For the overflow flag a word read as signed is its
  high byte so read and its low one, which never takes a sum out of range.

The proofs of `ClockProofs` are about `Safe`, the specification without its
fairness.

**Only model-checked.** Everything live, and the refinements with their
fairness, which are beyond the prover. In decimal on the 65816, the digit loop,
which is a recursive function over the digits, and the wide accumulator.

## 5. Where the code and its documents differ

Two are runs of their own.

- `clocked_cut`. A clock closed on a BRK's last cycle does not leave an NMOS
  part as `step()` does: `close()` raises through `on_cycle` at
  `mos6502.py:406`, `sample_pins` is not reached, and the `_poll_skipped` that
  BRK set makes the *next* instruction's poll be skipped. `README.md:310` says
  "leaves the part as `step()` does, whether it is then closed or not".
- `call_undone`. On a 65816 `irq()` or `nmi()` is accepted at the last cycle of
  an instruction with an abort latched, since `entry_pending`
  (`wdc65816.py:1273`) does not look at the latch; it runs its entry, and
  `step()` then rolls the registers back to the instruction and enters the
  abort. The stack has the interrupt's frame above it, and the interrupt is
  lost. `README.md:310` says such a call "acts at once, as it does between two
  steps".

Others were met while modelling. The models follow the code in each.

- On a 65816 `call()` counts the JSR, JSL, RTS or RTL it has
  read (`wdc65816.py:731`) before `step()` runs it. An abort rolls that back
  (680), the handler's RTI goes back to it, and it is read and counted again: a
  nested RTS aborted once makes `call()` return at an RTS that is not its own, a
  JSR makes it go on past its own. `README.md:80` has `call` step "until the
  matching `RTS`, or `RTL` on the 65816, is next". `CallEndsAtItsReturn` leaves
  such a loop out.
- A jammed NMOS part's held cycle is a read (`mos6502.py:807`),
  which waits for RDY (679) and spends a cycle for each the line is low, where
  `run_for()` counts one (418). `README.md:78` says that a halted part "spends
  one cycle per call to `held_cycle()`" and returns "cycles spent".
  `SliceIsPaid` has such a slice at no more than was spent.
- A hardware interrupt of a 65816 spends what `enter()` does
  (`wdc65816.py:1237`), six cycles and five in emulation. The data sheet's table
  in `conformance/bus-operation.json:3042` prints eight and seven, two before the
  pushes, and neither `step()` nor `sample_pins()` nor `interrupt()` spends
  those; `bus_operation.test.py:22` leaves that row out of its comparison.
  `CyclesAsPrinted` is about instructions, and BRK has its eight and seven.
- An NMOS BRK skips the poll after it (`mos6502.py:695`), and `nmi_seen` is then
  not written: a line that falls and rises again within the BRK is taken for
  one that never fell, though `README.md:104` has every low-to-high change
  interrupt. `NmiAnswered` asks for a line low during an instruction that polls.
- After a failure of the part, `tick()` has set `closed` (`clock.py:64`), so
  that `close()` and the end of the `with` block return at once and the part
  keeps the dead clock's `on_cycle`; `README.md:307` says `close()` restores
  it. `NoStrayCycle` and `CloseEndsTheWorker` are about a `close()` that runs.
- `interrupt()` answers nothing on a stopped 65816, an abort included
  (`wdc65816.py:1224`): an STP aborted in its last cycles is rolled back and
  stays stopped, and its abort is not taken, where `README.md:105` has every
  abort of an instruction taken.
- `abort()` does not ask `refuse_inside` (`wdc65816.py:1294`). Called from
  inside an instruction it clears `_inside` for the rest of it, and `irq()` and
  `nmi()` are then let in, where `README.md:310` has them refused.
- A block move whose budget is no multiple of seven spends the cycles left on
  fetches that leave `pc` up to three bytes past its opcode
  (`wdc65816.py:1334`), where `wdc65816_power.test.py:136` says that a move out
  of cycles "stays on its own opcode" and tests it with seven. `MoveEnds`
  counts that as an end of the move.
- `call()` reads the next opcode in a bus cycle of its own, and `irq()` or
  `nmi()` from that cycle's `on_cycle` is accepted: it enters at once, and what
  was read is no longer what is stepped (`mos6502.py:437`). An RTS read so
  returns at the handler's start, and a JSR read so is counted and counted
  again when the handler has returned to it. `README.md:80` has `call` step
  "until the matching `RTS`". `CallEndsAtItsReturn` leaves such a loop out
  (`"call"` in `departures`).
- The call of `call_undone` at the last cycle of an aborted return has pushed its
  frame over what the return will pull when it is run again: that loop, too, is
  left out.
- JSR (a,x) in emulation with the stack pointer at page one's first byte pushes
  below the page, and its RTS, which stays in the page, does not come back
  (`OPEN-QUESTIONS.md:65`). JSL against RTL is the same near either end: each of
  them counts flat from a pointer that the other has put back in the page.
  `CallsComeBack` leaves these places out (`OffPageOne`), and says of all others
  that the call comes back.
- In emulation an operand indexed past `$FFFF` is at `$01:0000`
  (`wdc65816.py:578`), where a 65C02's is in page zero.
  `EmulationAddressesAlike` says so.
- `run_for()` counts a held cycle as one, although `irq()` or `nmi()` from its
  `on_cycle` ends the wait and spends an entry there (`mos6502.py:418`), where
  `README.md:78` returns "cycles spent". `SliceIsPaid` has it at no more than was
  spent.
- A line raised on a package without its pin makes `step()` raise
  `NoSuchPin`; `README.md:92` and `README.md:151` name `irq()` and `nmi()` only.
- `run_until()` and `call()` raise `RunLimit` after the last instruction
  allowed even if it was the one that was needed (`mos6502.py:428`): the
  predicate is not asked again.

## 6. What is not modelled

- The logic and shift instructions, N and Z of anything but a sum, and the
  data of the undocumented instructions: each is one assignment, and the suites
  of `src/conformance/` compare all of them with recorded hardware.
- The addresses on the bus of a jammed part and of `reset()`; memory that
  raises in the middle of a block move; interrupts between two bytes of one,
  which the code does not allow.
- Two clocks on one part, and a clock around a 65816.
- The catalogue of `models.py` but for its pins and address lines, the opcode
  tables but for sizes, modes and `branch_target`, and the text a disassembler
  prints: data and layout.
- `memory.py`, `doctor.py`, `environment.py` and `src/conformance/`: arrays,
  sequential checks of files, and comparisons with downloaded data.

## 7. The plan

Done: the clock, its abstract specification and its composition with an 8-bit
part; the interrupt machinery of all three cores, on every package; arithmetic;
the 65816's registers, stack and block moves; both buses; the loops that drive a
part. The order was that of what a test reaches least: threads first, then the
order of lines and looks, then data.

Left, models: `ClockedPart` around `SixteenBit`, and two clocks on one part; an
abstract specification of an edge-triggered and of a level-triggered input,
which `EightBit` and `SixteenBit` both implement; a block move whose host goes
on after leftover cycles.

Left, proofs: the 65816's decimal adder, if its digits can be had without
induction over data.

## 8. Running it

```
tlc -workers 2 -config MCEightBit.cfg MCEightBit.tla
tlapm ClockProofs.tla
```

TLC needs the standard modules only; `TLAPS` and the theorem libraries come
with the proof system. No run takes more than a few minutes.
