------------------------------ MODULE Driver ------------------------------
(***************************************************************************)
(* mos65xx/mos6502.py and wdc65816.py: the loops a program drives a part   *)
(* with, call(), run_until() and run_for(), over step() and held_cycle().  *)
(*                                                                         *)
(* One action is the loop's code from one on_cycle the module tells apart  *)
(* to the next: that of the read by which call() looks at the next opcode, *)
(* of an instruction's last cycle, and of a held cycle.  In each on_cycle  *)
(* may call irq() or nmi(), and a 65816's abort(), and the part lets it.   *)
(* A 65816's instruction may be aborted, and a jammed NMOS part's held     *)
(* cycle be held up by RDY; RDY's waits elsewhere are in the costs.        *)
(* Programs return as they were called: every JSR or JSL has its RTS or    *)
(* RTL, and every entry its RTI; they may stop and wait anywhere.          *)
(*                                                                         *)
(* A definition whose comment begins with "Fault:" is not the code.        *)
(***************************************************************************)
EXTENDS Integers, Sequences

CONSTANTS
    Parts,        \* the parts driven: "nmos", "cmos" and "wdc"
    Costs,        \* how many cycles an instruction may take
    EntryCosts,   \* how many an entry may take
    Asked,        \* the cycles asked of run_for()
    Limits,       \* the limits given: a number, or None
    MaxFrames     \* bound: how deep calls and entries nest

None == -1

ASSUME PartsAssumption == Parts \subseteq {"nmos", "cmos", "wdc"}
ASSUME CostsAssumption == Costs \subseteq Nat \ {0}
ASSUME EntryCostsAssumption == EntryCosts \subseteq Nat \ {0}
ASSUME AskedAssumption == Asked \subseteq Nat
ASSUME LimitsAssumption == Limits \subseteq Nat \cup {None}
ASSUME MaxFramesAssumption == MaxFrames \in Nat

VARIABLES
    part,         \* the part: NMOS, CMOS or a 65816
    next,         \* the instruction pc is at
    frames,       \* what the stack holds above what the loop found there: calls
                  \* and entries, and the instructions they go back to
    held,         \* "no", "waiting", or "stopped": stopped or jammed
    loop,         \* the loop under way, or "none"
    at,           \* where it is: at its "head", or in the on_cycle of the
                  \* "peek", of an instruction's "last" cycle or of a "held" one
    mnemonic,     \* call(): the opcode read last
    depth,        \* call(): the calls it has counted
    taken, limit, \* the instructions stepped, where there is a limit, and it
    asked, spent, \* run_for(): what was asked, and what it has counted
    cost,         \* what step() has to return so far
    aborted,      \* whether the instruction at its "last" cycle was aborted:
                  \* "no", "yes", or "called" in, which is undone as well
    outcome,      \* history: how the last loop ended
    elapsed,      \* history: the cycles the part made in this run_for()
    departures    \* history: what this loop has met of
                  \*   "call": a call from on_cycle changed the part in a peek or
                  \*     a held cycle, or overwrote what an aborted return pulls
                  \*   "abort": an instruction call() had counted was aborted
                  \*   "stall": RDY held a held cycle up

program == <<next, frames, held>>
counts == <<mnemonic, depth, taken, limit, asked, spent>>
vars == <<part, program, loop, at, counts, cost, aborted, outcome, elapsed, departures>>

\* What a program may have at pc: the RTS under no frame is call()'s own.
Follows(stack) ==
    {"op", "stp"}
    \cup (IF part = "nmos" THEN {} ELSE {"wai"})
    \cup (IF Len(stack) < MaxFrames THEN {"jsr", "brk"} ELSE {})
    \cup (IF stack = <<>> THEN {"rts"}
          ELSE {IF Head(stack).by = "call" THEN "rts" ELSE "rti"})

Init ==
    /\ part \in Parts
    /\ next = "op" /\ frames = <<>> /\ held = "no"
    /\ loop = "none" /\ at = "head"
    /\ mnemonic = "op" /\ depth = 0
    /\ taken = 0 /\ limit = None
    /\ asked = 0 /\ spent = 0 /\ cost = 0 /\ aborted = "no"
    /\ outcome = "none" /\ elapsed = 0 /\ departures = {}

-----------------------------------------------------------------------------
(* The part.                                                               *)

\* Control goes to a routine or a handler, and is to come back after it.
Goes(by, after) ==
    /\ Len(frames) < MaxFrames
    /\ frames' = <<[by |-> by, after |-> after]>> \o frames
    /\ next' \in Follows(frames')

\* WAI waits; STP stops, and a JAM.
Halts == IF next = "wai" THEN "waiting" ELSE IF next = "stp" THEN "stopped" ELSE held

\* The instruction at pc, as far as pc, the stack and the halts go.
Execute ==
    \/ /\ next \in {"jsr", "brk"}
       /\ \E after \in Follows(frames) : Goes(IF next = "jsr" THEN "call" ELSE "entry", after)
       /\ UNCHANGED held
    \/ /\ next \in {"rts", "rti"} /\ frames # <<>>
       /\ frames' = Tail(frames)
       /\ next' = Head(frames).after
       /\ UNCHANGED held
    \/ /\ next \in {"op", "wai", "stp"} \/ (next = "rts" /\ frames = <<>>)
       /\ held' = Halts
       /\ next' \in Follows(frames)
       /\ UNCHANGED frames

\* interrupt(), by the pins or by a call, and what it costs; one the flag masks
\* only ends a wait.  A stopped 8-bit part enters, and stays stopped.
Interrupt(c) ==
    /\ part = "wdc" => held # "stopped"
    /\ \/ c \in EntryCosts /\ Goes("entry", next)
          /\ held' = IF held = "waiting" THEN "no" ELSE held
       \/ c = 0 /\ held = "waiting" /\ held' = "no" /\ UNCHANGED <<next, frames>>

\* The part's own count of its cycles goes on, in whatever is called.
Spends(c) == elapsed' = IF loop = "slice" THEN elapsed + c ELSE 0

-----------------------------------------------------------------------------
(* The loops.                                                              *)

Starts(which) ==
    /\ loop = "none"
    /\ loop' = which
    /\ next' \in Follows(<<>>)
    /\ outcome' = "none"
    /\ UNCHANGED <<part, frames, held, at, mnemonic, depth, taken, spent, cost, aborted>>
    /\ UNCHANGED <<elapsed, departures>>

CallStarts == Starts("call") /\ limit' \in Limits /\ UNCHANGED asked

UntilStarts == Starts("until") /\ limit' \in Limits /\ UNCHANGED asked

SliceStarts == Starts("slice") /\ asked' \in Asked /\ UNCHANGED limit

\* A loop is over, and what it counted with it; the next starts on another program.
Ends(how) ==
    /\ loop' = "none" /\ at' = "head"
    /\ outcome' = how
    /\ next' = "op" /\ frames' = <<>> /\ held' = "no"
    /\ mnemonic' = "op" /\ depth' = 0
    /\ taken' = 0 /\ limit' = None
    /\ asked' = 0 /\ spent' = 0 /\ cost' = 0 /\ aborted' = "no"
    /\ elapsed' = 0 /\ departures' = {}
    /\ UNCHANGED part

\* call() reads the opcode at pc, in a cycle outside every instruction.
Peek ==
    /\ loop = "call" /\ at = "head"
    /\ mnemonic' = next
    /\ at' = "peek"
    /\ UNCHANGED <<part, program, loop, depth, taken, limit, asked, spent, cost, aborted>>
    /\ UNCHANGED <<outcome, elapsed, departures>>

\* Fault: a routine that calls is not told from one that does not.
CountedFlat == IF mnemonic = "rts" THEN depth - 1 ELSE depth

\* call() counts the instruction before it steps it.
Counted == IF mnemonic = "rts" THEN depth - 1 ELSE IF mnemonic = "jsr" THEN depth + 1 ELSE depth

\* A 65816's instruction with the abort line driven in it: its halt stands, and
\* pc and the stack are rolled back to it, after its last cycle, though nothing
\* but a call from that cycle's on_cycle sees them before.  Bound: one that
\* call() has counted is aborted once a loop.
Aborted ==
    /\ part = "wdc"
    /\ next = "stp" \/ Len(frames) < MaxFrames
    /\ Counted # depth => "abort" \notin departures
    /\ held' = Halts
    /\ aborted' = "yes"
    /\ departures' = IF Counted = depth THEN departures ELSE departures \cup {"abort"}
    /\ UNCHANGED <<next, frames>>

\* step() up to its last close; a part that is held raises Stopped or Waiting at once.
Step ==
    /\ held = "no"
    /\ at' = "last"
    /\ \E c \in Costs : cost' = c /\ Spends(c)
    /\ \/ Execute /\ UNCHANGED <<aborted, departures>>
       \/ Aborted
    /\ UNCHANGED <<part, loop, mnemonic, limit, taken, asked, spent, outcome>>

Raises == held # "no" /\ Ends("raised")

CallReturns ==
    /\ loop = "call" /\ at = "peek"
    /\ mnemonic = "rts" /\ depth = 0
    /\ Ends("returned")

CallSteps ==
    /\ loop = "call" /\ at = "peek"
    /\ ~(mnemonic = "rts" /\ depth = 0)
    /\ Raises \/ (Step /\ depth' = Counted)

\* run_until(): whether its predicate holds is the program's affair.
UntilReturns == loop = "until" /\ at = "head" /\ Ends("returned")

UntilSteps ==
    /\ loop = "until" /\ at = "head"
    /\ Raises \/ (Step /\ UNCHANGED depth)

SliceReturns == loop = "slice" /\ at = "head" /\ spent >= asked /\ Ends("returned")

SliceSteps ==
    /\ loop = "slice" /\ at = "head"
    /\ spent < asked
    /\ Step
    /\ UNCHANGED depth

HeldCycle ==
    /\ loop = "slice" /\ at = "head"
    /\ spent < asked
    /\ held # "no"
    /\ at' = "held"
    /\ Spends(1)
    /\ UNCHANGED <<part, program, loop, counts, cost, aborted, outcome, departures>>

\* A jammed NMOS part's held cycle is a read, and waits for RDY: one cycle more,
\* with its on_cycle.  Bound: once a loop.
HeldStalls ==
    /\ at = "held" /\ part = "nmos"
    /\ "stall" \notin departures
    /\ Spends(1)
    /\ departures' = departures \cup {"stall"}
    /\ UNCHANGED <<part, program, loop, at, counts, cost, aborted, outcome>>

\* held_cycle() counts as one cycle, whatever it spent and on_cycle did in it.
HeldCounts ==
    /\ at = "held"
    /\ at' = "head"
    /\ spent' = spent + 1
    /\ UNCHANGED <<part, program, loop, mnemonic, depth, taken, limit, asked, cost, aborted>>
    /\ UNCHANGED <<outcome, elapsed, departures>>

\* irq() or nmi() from on_cycle, where the part is in no instruction.  Bound: in a
\* peek once a loop.
HostCalls ==
    /\ at \in {"peek", "last", "held"}
    /\ aborted = "no"
    /\ at = "peek" => "call" \notin departures
    /\ \E c \in {0} \cup EntryCosts :
          /\ Interrupt(c)
          /\ Spends(c)
          /\ cost' = IF at = "last" THEN cost + c ELSE cost
    /\ departures' = IF at = "last" THEN departures ELSE departures \cup {"call"}
    /\ UNCHANGED <<part, loop, at, counts, aborted, outcome>>

\* From the last cycle of an aborted instruction: the entry runs and is rolled
\* back, pc and stack, but where the instruction was a return it has overwritten
\* what that will pull.  Bound: once an instruction.  (A masked one changes
\* nothing that the abort does not.)
HostIsUndone ==
    /\ at = "last" /\ aborted = "yes" /\ held # "stopped"
    /\ \E c \in EntryCosts : Spends(c) /\ cost' = cost + c
    /\ aborted' = "called"
    /\ held' = "no"
    /\ \/ /\ next \in {"rts", "rti"} /\ frames # <<>>
          /\ \E after \in Follows(Tail(frames)) :
                frames' = <<[by |-> Head(frames).by, after |-> after]>> \o Tail(frames)
          /\ departures' = departures \cup {"call"}
       \/ /\ next \notin {"rts", "rti"} \/ frames = <<>>
          /\ UNCHANGED <<frames, departures>>
    /\ UNCHANGED <<part, next, loop, at, counts, outcome>>

\* Fault: the cycles of an instruction are known before the pins are sampled.
ReturnedBefore(c) == cost

\* What step() returns when the entry at its end took c more.
Returned(c) == cost + c

\* The end of step(): sample_pins, ...
Sampled(c) ==
    /\ at = "last" /\ aborted = "no"
    /\ Interrupt(c) \/ (c = 0 /\ UNCHANGED program)

\* ... or the abort's entry, which goes back to the instruction.
AbortEnters(c) ==
    /\ at = "last" /\ aborted # "no"
    /\ \/ held = "stopped" /\ c = 0 /\ UNCHANGED program
       \/ held # "stopped" /\ c \in EntryCosts /\ Goes("entry", next) /\ held' = "no"

\* The loop goes round.
StepEnds ==
    /\ limit = None \/ taken + 1 < limit
    /\ \E c \in {0} \cup EntryCosts :
          /\ Sampled(c) \/ AbortEnters(c)
          /\ Spends(c)
          /\ spent' = IF loop = "slice" THEN spent + Returned(c) ELSE 0
    /\ taken' = IF limit = None THEN 0 ELSE taken + 1
    /\ at' = "head"
    /\ cost' = 0 /\ aborted' = "no"
    /\ UNCHANGED <<part, loop, mnemonic, depth, limit, asked, outcome, departures>>

\* RunLimit, whether or not that instruction was the last one needed.
GivesUp ==
    /\ at = "last"
    /\ limit # None /\ taken + 1 >= limit
    /\ Ends("gave up")

-----------------------------------------------------------------------------
Loops ==
    \/ CallStarts \/ Peek \/ CallReturns \/ CallSteps
    \/ UntilStarts \/ UntilReturns \/ UntilSteps
    \/ SliceStarts \/ SliceReturns \/ SliceSteps \/ HeldCycle \/ HeldStalls \/ HeldCounts
    \/ StepEnds \/ GivesUp

Next == Loops \/ HostCalls \/ HostIsUndone

Spec == Init /\ [][Next]_vars

-----------------------------------------------------------------------------
\* call() ends when its own RTS is next, the stack as it found it, and neither
\* before nor after, however calls and entries nest in between and wherever the
\* part enters them, aborted instructions among them: unless one that call() has
\* counted is aborted, which is then stepped, and counted, again, though README.md
\* has call() step "until the matching RTS, or RTL on the 65816, is next"; on_cycle
\* interrupts the very read that looks for the RTS, and what was read is not what
\* is stepped; or an undone call has overwritten what a return pulls.
CallEndsAtItsReturn ==
    [][loop = "call" /\ at = "peek" /\ at' # "peek" /\ departures \cap {"call", "abort"} = {} =>
          (outcome' = "returned" <=> next = "rts" /\ frames = <<>>)]_vars

\* What run_for() has counted, and the debt a host carries into its next slice, is
\* never more than the part has spent, and is what it has spent, entries, aborts
\* and halts included: unless on_cycle ends a wait by a call, or RDY holds a jammed
\* part up, whose cycles the held one does not count, though README.md has run_for()
\* return the "cycles spent".
SliceIsPaid ==
    loop = "slice" /\ at = "head" =>
        /\ spent <= elapsed
        /\ departures \cap {"call", "stall"} = {} => spent = elapsed
=============================================================================
