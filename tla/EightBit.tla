----------------------------- MODULE EightBit -----------------------------
(***************************************************************************)
(* mos65xx/mos6502.py and mos65c02.py: how an 8-bit part spends its        *)
(* cycles, polls its interrupt lines and enters an interrupt.              *)
(*                                                                         *)
(* One action is what the part does from one on_cycle to the next: the     *)
(* rest of the last cycle's work, then the next cycle up to its close.     *)
(* Between two actions on_cycle, or the program that calls the part, may   *)
(* move the lines and call irq() and nmi().  Registers other than the      *)
(* interrupt disable flag, addresses and bytes are left out.               *)
(*                                                                         *)
(* A definition whose comment begins with "Fault:" is not the code: it is  *)
(* the definition after it as a plausible mistake would have it, kept to   *)
(* show which property notices.                                            *)
(***************************************************************************)
EXTENDS Integers, FiniteSets

CONSTANTS
    Models,       \* the parts considered: is each a 65C02, and the interrupt
                  \* lines its package brings out
    Kinds         \* the instructions of the programs considered

\* Instructions by what the interrupt logic tells apart, with their cycles.
Length == [
    nop1   |-> 1,   \* a single-cycle NOP of the CMOS parts
    lda    |-> 2,   \* immediate, and any other two cycles without effect here
    sta    |-> 3,   \* zero page
    cli    |-> 2,
    sei    |-> 2,
    plp    |-> 4,
    rti    |-> 6,
    brk    |-> 7,
    branch |-> 3,   \* taken, inside its page
    cross  |-> 4,   \* taken, to another page
    jam    |-> 5,
    stp    |-> 2,
    wai    |-> 2,
    entry  |-> 7]   \* not an instruction: interrupt()

\* The cycles that write.
Writes == [k \in DOMAIN Length |->
    IF k = "sta" THEN {3} ELSE IF k \in {"brk", "entry"} THEN {3, 4, 5} ELSE {}]

Instructions == DOMAIN Length \ {"entry"}

\* No NMOS package lacks the request line and has the non-maskable one, and no CMOS
\* package lacks either.
Packages == [cmos : {FALSE}, pins : {{}, {"irq"}, {"irq", "nmi"}}]
            \cup [cmos : {TRUE}, pins : {{"irq", "nmi"}}]

ASSUME ModelsAssumption == Models \subseteq Packages
ASSUME KindsAssumption == Kinds \subseteq Instructions

VARIABLES
    model,        \* the part: it never changes
    op,           \* what runs: a key of Length, "idle", or "boundary" while
                  \* on_cycle is being called for an instruction's last cycle
    done,         \* how many cycles of op have been closed
    unsampled,    \* _unsampled
    irq_line, nmi_line, ready_line,
    i,            \* the interrupt disable flag
    nmi_seen,
    polled,       \* _polled: what the last cycle saw as it began
    poll_skipped, \* _poll_skipped
    stopped,      \* stopped, and jammed on an NMOS part
    waiting,
    last,         \* history: the instruction completed last
    edge,         \* history: nmi_line rose and no entry has answered it yet
    low,          \* history: nmi_line low since this instruction began
    quiet,        \* history: low for one whole instruction since the last NMI
    due,          \* history: boundaries passed with an edge after quiet unanswered
    irqHeld       \* history: irq_line asked and i allowed it since this
                  \* instruction began

lines == <<irq_line, nmi_line, ready_line>>
halts == <<stopped, waiting>>
nmiHistory == <<edge, low, quiet, due>>
partVars == <<model, op, done, unsampled, lines, i, nmi_seen, polled, poll_skipped, halts,
          last, nmiHistory, irqHeld>>

MaxDue == 3

PartInit ==
    /\ model \in Models
    /\ op = "idle"
    /\ done = 0
    /\ unsampled = FALSE
    /\ irq_line = FALSE
    /\ nmi_line = FALSE
    /\ ready_line = TRUE
    /\ i \in BOOLEAN
    /\ nmi_seen = FALSE
    /\ polled = [irq |-> FALSE, nmi |-> FALSE, i |-> i]
    /\ poll_skipped = FALSE
    /\ stopped = FALSE
    /\ waiting = FALSE
    /\ last = "none"
    /\ edge = FALSE
    /\ low = FALSE
    /\ quiet = FALSE
    /\ due = 0
    /\ irqHeld = FALSE

-----------------------------------------------------------------------------
(* What the code computes from its state.                                  *)

Cmos == model.cmos

\* The opcodes a part has: the NMOS parts jam, the CMOS parts stop and wait.
Table == Instructions \ IF Cmos THEN {"jam"} ELSE {"nop1", "stp", "wai"}

Now == [irq |-> irq_line, nmi |-> nmi_line, i |-> i]

\* polled(): an NMOS part answers from the cycle's beginning, a CMOS part from now.
Polled == IF Cmos THEN Now ELSE polled

Inside == op \in DOMAIN Length

\* Fault: the line's level interrupts, not its change.
sampled_lineLevel ==
    IF Polled.nmi THEN "nmi" ELSE IF Polled.irq THEN "irq" ELSE "none"

\* Fault: a non-maskable line held high hides the request line.
sampled_lineHides ==
    IF Polled.nmi THEN (IF nmi_seen THEN "none" ELSE "nmi")
    ELSE IF Polled.irq THEN "irq"
    ELSE "none"

sampled_line ==
    IF Polled.nmi /\ ~nmi_seen THEN "nmi"
    ELSE IF Polled.irq THEN "irq"
    ELSE "none"

\* Fault: a masked request counts as pending.
entry_pendingUnmasked ==
    IF ~unsampled \/ poll_skipped THEN "none" ELSE sampled_line

\* What refuse_inside asks before a call is taken at a boundary.
entry_pending ==
    IF ~unsampled \/ poll_skipped \/ (sampled_line = "irq" /\ Polled.i)
    THEN "none"
    ELSE sampled_line

\* Fault: a request on the line is not masked.
take_polled_irqAlways == TRUE

\* take_polled_irq: an NMOS part asks the flag it polled, a CMOS part the flag.
take_polled_irq == IF Cmos THEN ~i ELSE ~polled.i

\* What require() raises for out of sample_pins: a line the package lacks.
Missing == ~poll_skipped /\ sampled_line \notin model.pins \cup {"none"}

\* The entry sample_pins goes on to make.
Taken ==
    IF poll_skipped \/ Missing \/ (sampled_line = "irq" /\ ~take_polled_irq)
    THEN "none"
    ELSE sampled_line

\* Fault: nmi_seen is never taken back.
SeenSticks == nmi_seen \/ Polled.nmi

\* What sample_pins leaves in nmi_seen.
Seen == Polled.nmi

\* Fault: an NMOS BRK polls like any instruction.
skips_poll_after_breakNever == FALSE

skips_poll_after_break == ~Cmos

held == stopped \/ waiting

\* await_ready: a read waits while RDY is down, a write on the CMOS parts only.
Stalls(k, m) == ~ready_line /\ (m \in Writes[k] => Cmos)

nmi_takes_over_break == ~Cmos /\ "nmi" \in model.pins /\ nmi_line /\ ~nmi_seen

\* The values i may have once cycle m of k is made: PLP and RTI pull it.
MaskAfter(k, m) ==
    IF <<k, m>> = <<"cli", 2>> THEN {FALSE}
    ELSE IF <<k, m>> \in {<<"sei", 2>>, <<"brk", 5>>, <<"entry", 5>>} THEN {TRUE}
    ELSE IF <<k, m>> \in {<<"plp", 4>>, <<"rti", 4>>} THEN BOOLEAN
    ELSE {i}

-----------------------------------------------------------------------------
(* The part.                                                               *)

\* spend(): the lines as this cycle begins, unless a branch holds the poll.
Spend(k, m) == polled' = IF k = "branch" /\ m = 3 THEN polled ELSE Now

\* RDY is down: a cycle goes by and the access is still to be made.
Stall(k, m) ==
    /\ Stalls(k, m)
    /\ Spend(k, m)
    /\ op' = k
    /\ done' = m - 1
    /\ UNCHANGED <<model, unsampled, lines, i, nmi_seen, poll_skipped, halts, last,
                   edge, quiet, due>>

\* Where the cycle leaves the part: inside k, at the boundary of an
\* instruction, or back with whoever called irq() or nmi().
Arrive(k, m) ==
    IF m < Length[k]
    THEN op' = k /\ done' = m /\ UNCHANGED <<unsampled, last>>
    ELSE /\ done' = 0
         /\ IF k = "entry"
            THEN /\ op' = IF unsampled THEN "boundary" ELSE "idle"
                 /\ UNCHANGED <<unsampled, last>>
            ELSE op' = "boundary" /\ unsampled' = TRUE /\ last' = k

\* The NMI an NMOS BRK turns into is an entry like another.
EdgeAnswered == edge' = FALSE /\ quiet' = FALSE /\ due' = 0

\* Cycle m of k, and what the code does after its access and before its close.
Make(k, m) ==
    /\ ~Stalls(k, m)
    /\ Spend(k, m)
    /\ i' \in MaskAfter(k, m)
    /\ IF <<k, m>> = <<"brk", 5>> /\ nmi_takes_over_break
       THEN nmi_seen' = TRUE /\ EdgeAnswered
       ELSE UNCHANGED <<nmi_seen, edge, quiet, due>>
    /\ poll_skipped' = IF <<k, m>> = <<"brk", 7>> THEN skips_poll_after_break ELSE poll_skipped
    /\ stopped' = (stopped \/ <<k, m>> \in {<<"jam", 5>>, <<"stp", 2>>})
    /\ waiting' = (waiting \/ <<k, m>> = <<"wai", 2>>)
    /\ Arrive(k, m)
    /\ UNCHANGED <<model, lines>>

\* step(): the first cycle of an instruction, the opcode's fetch.
Begin(k) ==
    /\ op = "idle"
    /\ ~held
    /\ k \in Table
    /\ Stall(k, 1) \/ Make(k, 1)
    /\ low' = ~nmi_line
    /\ irqHeld' = (irq_line /\ ~i)

\* The next cycle of the instruction or of the entry under way.
Continue ==
    /\ Inside
    /\ Stall(op, done + 1) \/ Make(op, done + 1)
    /\ UNCHANGED low
    /\ irqHeld' = (irqHeld /\ ~i')

\* interrupt(): its first cycle, wherever it was called from.
EntryBegins ==
    /\ op' = "entry"
    /\ done' = IF Stalls("entry", 1) THEN 0 ELSE 1
    /\ polled' = Now
    /\ irqHeld' = FALSE
    /\ UNCHANGED <<model, lines, i, stopped, last>>

\* How the non-maskable line stands in the history after a boundary that
\* answered nothing on it.
PassedBy ==
    /\ quiet' = (quiet \/ (low /\ ~poll_skipped))
    /\ due' = IF quiet /\ nmi_line /\ due < MaxDue THEN due + 1 ELSE due
    /\ UNCHANGED <<edge, low>>

\* sample_pins, called by step() once the last cycle is closed.
SampleSkipped ==
    /\ op = "boundary"
    /\ poll_skipped
    /\ poll_skipped' = FALSE
    /\ op' = "idle"
    /\ unsampled' = FALSE
    /\ PassedBy
    /\ UNCHANGED <<model, done, lines, i, nmi_seen, polled, halts, last, irqHeld>>

\* A CMOS irq() ends a wait even when the flag then refuses the entry.  Where a line
\* the package lacks makes step() raise NoSuchPin, the part is left the same.
SampleNothing ==
    /\ op = "boundary"
    /\ ~poll_skipped
    /\ Taken = "none"
    /\ nmi_seen' = Seen
    /\ waiting' = (waiting /\ sampled_line # "irq")
    /\ op' = "idle"
    /\ unsampled' = FALSE
    /\ PassedBy
    /\ UNCHANGED <<model, done, lines, i, polled, poll_skipped, stopped, last, irqHeld>>

SampleEnters ==
    /\ op = "boundary"
    /\ Taken # "none"
    /\ nmi_seen' = Seen
    /\ waiting' = FALSE
    /\ unsampled' = FALSE
    /\ EntryBegins
    /\ IF Taken = "nmi" THEN EdgeAnswered /\ UNCHANGED low ELSE PassedBy
    /\ UNCHANGED poll_skipped

SamplePins == SampleSkipped \/ SampleNothing \/ SampleEnters

\* held_cycle(): one cycle of a halted part, and no look at the pins.
HeldCycle ==
    /\ op = "idle"
    /\ held
    /\ polled' = Now
    /\ UNCHANGED <<model, op, done, unsampled, lines, i, nmi_seen, poll_skipped, halts,
                   last, nmiHistory, irqHeld>>

-----------------------------------------------------------------------------
(* The program that drives the part.                                       *)

\* refuse_inside lets irq() and nmi() through at a boundary nothing is pending at.
MayCall == ~Inside /\ entry_pending = "none"

\* irq(): a masked call enters nothing, and still ends a CMOS part's wait.
IrqMasked ==
    /\ MayCall
    /\ i
    /\ waiting
    /\ waiting' = FALSE
    /\ UNCHANGED <<model, op, done, unsampled, lines, i, nmi_seen, polled, poll_skipped,
                   stopped, last, nmiHistory, irqHeld>>

IrqCall ==
    /\ MayCall
    /\ "irq" \in model.pins
    /\ ~i
    /\ waiting' = FALSE
    /\ EntryBegins
    /\ UNCHANGED <<unsampled, nmi_seen, poll_skipped, nmiHistory>>

NmiCall ==
    /\ MayCall
    /\ "nmi" \in model.pins
    /\ waiting' = FALSE
    /\ EntryBegins
    /\ UNCHANGED <<unsampled, nmi_seen, poll_skipped, nmiHistory>>

SetIrq ==
    /\ irq_line' = ~irq_line
    /\ irqHeld' = FALSE
    /\ UNCHANGED <<model, op, done, unsampled, nmi_line, ready_line, i, nmi_seen, polled,
                   poll_skipped, halts, last, nmiHistory>>

SetNmi ==
    /\ nmi_line' = ~nmi_line
    /\ edge' = (edge \/ nmi_line')
    /\ low' = FALSE
    /\ due' = 0
    /\ UNCHANGED <<model, op, done, unsampled, irq_line, ready_line, i, nmi_seen, polled,
                   poll_skipped, halts, last, quiet, irqHeld>>

SetReady ==
    /\ ready_line' = ~ready_line
    /\ UNCHANGED <<model, op, done, unsampled, irq_line, nmi_line, i, nmi_seen, polled,
                   poll_skipped, halts, last, nmiHistory, irqHeld>>

\* reset() between instructions, as one step: no cycle of it is polled for an
\* entry.  It leaves _poll_skipped and nmi_seen as they are.
Reset ==
    /\ op = "idle"
    /\ i' = TRUE
    /\ stopped' = FALSE
    /\ waiting' = FALSE
    /\ polled' = [Now EXCEPT !.i = TRUE]
    /\ irqHeld' = FALSE
    /\ UNCHANGED <<model, op, done, unsampled, lines, nmi_seen, poll_skipped, last, nmiHistory>>

\* The memory or on_cycle raises: step() or the entry unwinds through its
\* finally clauses, and sample_pins is not reached.
Unwind ==
    /\ op # "idle"
    /\ op' = "idle"
    /\ done' = 0
    /\ unsampled' = FALSE
    /\ UNCHANGED <<model, lines, i, nmi_seen, polled, poll_skipped, halts, last, nmiHistory,
                   irqHeld>>

-----------------------------------------------------------------------------
SetLines == SetIrq \/ SetNmi \/ SetReady

Calls == IrqMasked \/ IrqCall \/ NmiCall

Part ==
    \/ \E k \in Kinds : Begin(k)
    \/ Continue
    \/ SamplePins
    \/ HeldCycle

PartNext == Part \/ SetLines \/ Calls \/ Reset \/ Unwind

PartSpec == PartInit /\ [][PartNext]_partVars

-----------------------------------------------------------------------------
PartTypeOK ==
    /\ model \in Packages
    /\ op \in Instructions \cup {"entry", "idle", "boundary"}
    /\ done \in 0..6
    /\ op \in {"idle", "boundary"} => done = 0
    /\ Inside => done < Length[op]
    /\ unsampled \in BOOLEAN
    /\ op = "boundary" => unsampled
    /\ op = "idle" => ~unsampled
    /\ irq_line \in BOOLEAN
    /\ nmi_line \in BOOLEAN
    /\ ready_line \in BOOLEAN
    /\ i \in BOOLEAN
    /\ nmi_seen \in BOOLEAN
    /\ polled \in [irq : BOOLEAN, nmi : BOOLEAN, i : BOOLEAN]
    /\ poll_skipped \in BOOLEAN
    /\ stopped \in BOOLEAN
    /\ waiting \in BOOLEAN
    /\ last \in Instructions \cup {"none"}
    /\ edge \in BOOLEAN
    /\ low \in BOOLEAN
    /\ quiet \in BOOLEAN
    /\ due \in 0..MaxDue
    /\ irqHeld \in BOOLEAN

\* A low-to-high change of nmi_line interrupts at most once: neither the pins
\* nor a BRK ever enters an NMI that no change since the last one asked for,
\* however long the line is held and whatever irq(), nmi(), reset() or an
\* exception comes between.
NmiOncePerEdge ==
    /\ (op = "boundary" /\ Taken = "nmi") => edge
    /\ (op = "brk" /\ done = 4 /\ nmi_takes_over_break) => edge

\* And, where it is brought out, it interrupts at least once: a line low for a
\* whole instruction, then raised and held, goes unanswered by one boundary at the
\* most.  An NMOS BRK is not such an instruction: the poll after it is skipped, and
\* a line low only while it runs is taken for one that never fell.
NmiAnswered == "nmi" \in model.pins => due <= 1

\* A request asserted and allowed since an instruction began is answered at
\* that instruction's boundary, unless an NMI goes first, a BRK skips the poll or
\* step() raises for a line the package lacks.
IrqHeldIsTaken ==
    (op = "boundary" /\ irqHeld /\ ~poll_skipped /\ ~Missing) => Taken # "none"

\* The pins enter an IRQ with the disable flag set only on an NMOS part, where
\* the instruction just completed set the flag after the part had polled.
IrqMaskRespected ==
    (op = "boundary" /\ Taken = "irq" /\ i) => (~Cmos /\ last \in {"sei", "plp"})

\* irq() and nmi() are refused at a boundary exactly when step() is about to
\* enter an interrupt there, so a refused caller's line is never left waiting
\* and an accepted call never runs ahead of a pending one; where the line pending is
\* one the package lacks, the step raises for it instead.
RefusalIsHonest == op = "boundary" /\ ~Missing => entry_pending = Taken

\* After a BRK an NMOS part runs one instruction of the handler before any
\* line is answered.
BreakRunsItsHandler ==
    (op = "boundary" /\ last = "brk" /\ ~Cmos) => Taken = "none"
=============================================================================
