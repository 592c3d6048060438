----------------------------- MODULE BlockMove -----------------------------
(***************************************************************************)
(* MVN and MVP of mos65xx/wdc65816.py, _block_move and partial_move: a     *)
(* move that a host cuts into slices by cycle_budget and that an abort     *)
(* runs again.                                                             *)
(*                                                                         *)
(* One action begins the instruction, one moves a byte, one ends it.  A    *)
(* cell starts with its own address for a content, so that wherever a byte *)
(* lies the properties know where it came from.                            *)
(*                                                                         *)
(* A definition whose comment begins with "Fault:" is not the code: it is  *)
(* the definition after it as a plausible mistake would have it, kept to   *)
(* show which property notices.                                            *)
(***************************************************************************)
EXTENDS Integers

CONSTANTS
    Bank,       \* how many bytes a bank holds: 65536
    Page,       \* how many an 8-bit index register reaches: 256
    Budgets,    \* the cycle budgets that hosts set, Unlimited for none
    MaxAborts   \* bound: the aborts of one move

Unlimited == -1

ASSUME BankAssumption == Bank \in Nat \ {0}
ASSUME PageAssumption == Page \in 1..Bank
ASSUME BudgetsAssumption == Budgets \subseteq Nat \cup {Unlimited}
ASSUME MaxAbortsAssumption == MaxAborts \in Nat

CYCLES_PER_MOVE == 7

Banks == {0, 1}

Address == Banks \X (0..(Bank - 1))

VARIABLES
    x, y, a,
    db,
    at,          \* pc, from the move's own opcode
    mem,
    x8,
    move,        \* the instruction: its direction and its two banks
    running,     \* the instruction is being executed
    moved,       \* the loop's counter
    whole,       \* how many bytes this execution moves
    remaining,   \* of how many
    budget,      \* cycle_budget as it was read
    before,      \* the registers step() has kept
    start,       \* history: the registers when the move began
    finished,    \* history: the move is over
    aborts,      \* history: how many executions were rolled back
    again        \* history: one of them had moved bytes

program == <<x8, move, start>>
regs == <<x, y, a, db, at>>
loop == <<running, moved, whole, remaining, budget, before>>
vars == <<regs, mem, program, loop, finished, aborts, again>>

Registers == [x |-> x, y |-> y, a |-> a, db |-> db]

\* What the index registers are masked with.
Reach == IF x8 THEN Page ELSE Bank

Init ==
    /\ x8 \in BOOLEAN
    /\ move \in [direction : {1, -1}, source : Banks, destination : Banks]
    /\ x \in 0..(Reach - 1)
    /\ y \in 0..(Reach - 1)
    /\ a \in 0..(Bank - 1)
    /\ db = 0
    /\ at = 0
    /\ mem = [w \in Address |-> w]
    /\ running = FALSE
    /\ moved = 0
    /\ whole = 0
    /\ remaining = 0
    /\ budget = Unlimited
    /\ start = Registers
    /\ before = start
    /\ finished = FALSE
    /\ aborts = 0
    /\ again = FALSE

\* Fault: a at 0xFFFF is no bytes, not all of them.
RemainingNone == (a + 1) % Bank

\* ((a + 1) & 0xFFFF) or 0x10000: a is one less than the bytes left.
Remaining == IF (a + 1) % Bank = 0 THEN Bank ELSE (a + 1) % Bank

Smaller(k, l) == IF k < l THEN k ELSE l

\* step() and the instruction up to its loop, with this for a budget.
Begin(cycle_budget) ==
    /\ ~running
    /\ at = 0
    /\ ~finished
    /\ before' = Registers
    /\ db' = move.destination
    /\ at' = 3
    /\ running' = TRUE
    /\ moved' = 0
    /\ budget' = cycle_budget
    /\ remaining' = Remaining
    /\ whole' = IF budget' = Unlimited THEN remaining'
                ELSE Smaller(remaining', budget' \div CYCLES_PER_MOVE)
    /\ UNCHANGED <<x, y, a, mem, program, finished, aborts, again>>

\* Fault: the counter is left alone.
MoveByteUncounted ==
    /\ running
    /\ moved < whole
    /\ mem' = [mem EXCEPT ![<<move.destination, y>>] = mem[<<move.source, x>>]]
    /\ x' = (x + move.direction) % Reach
    /\ y' = (y + move.direction) % Reach
    /\ moved' = moved + 1
    /\ at' = IF moved + 1 < whole THEN 0 ELSE 3
    /\ UNCHANGED <<a, db, program, running, whole, remaining, budget, before, finished, aborts,
                   again>>

\* One round of the loop; all but the first fetch the instruction again.
MoveByte ==
    /\ running
    /\ moved < whole
    /\ mem' = [mem EXCEPT ![<<move.destination, y>>] = mem[<<move.source, x>>]]
    /\ x' = (x + move.direction) % Reach
    /\ y' = (y + move.direction) % Reach
    /\ a' = (a - 1) % Bank
    /\ moved' = moved + 1
    /\ at' = IF moved + 1 < whole THEN 0 ELSE 3
    /\ UNCHANGED <<db, program, running, whole, remaining, budget, before, finished, aborts,
                   again>>

Done == whole >= remaining

Leftover == budget - whole * CYCLES_PER_MOVE

\* The loop is over: pc is past the instruction, or on its opcode again and past
\* what partial_move fetched with the cycles left.
End ==
    /\ running
    /\ moved = whole
    /\ running' = FALSE
    /\ at' = IF Done THEN 3 ELSE Smaller(Leftover, 3)
    /\ finished' = Done
    /\ UNCHANGED <<x, y, a, db, mem, program, moved, whole, remaining, budget, before, aborts, again>>

\* Fault: the counter is not rolled back.
roll_backPart ==
    /\ x' = before.x
    /\ y' = before.y
    /\ UNCHANGED a

roll_back ==
    /\ x' = before.x
    /\ y' = before.y
    /\ a' = before.a

\* The abort line was held in one of its cycles: the instruction has gone on to
\* the end of its loop, and what it moved stays moved.  The handler returns to
\* where it began, with the data bank of before or, entered in emulation mode, 0.
EndAborted ==
    /\ running
    /\ moved = whole
    /\ aborts < MaxAborts
    /\ aborts' = aborts + 1
    /\ again' = (again \/ moved > 0)
    /\ running' = FALSE
    /\ roll_back
    /\ db' \in {before.db, 0}
    /\ at' = 0
    /\ UNCHANGED <<mem, program, moved, whole, remaining, budget, before, finished>>

Next ==
    \/ \E b \in Budgets : Begin(b)
    \/ MoveByte
    \/ End
    \/ EndAborted

\* A host that slices moves sooner or later gives room for a byte, and its loop
\* goes on.
BeginWithRoom ==
    \E b \in Budgets : (b = Unlimited \/ b >= CYCLES_PER_MOVE) /\ Begin(b)

Fairness == SF_vars(BeginWithRoom) /\ WF_vars(MoveByte) /\ WF_vars(End)

Spec == Init /\ [][Next]_vars /\ Fairness

-----------------------------------------------------------------------------
(* What a move is for.                                                     *)

Count == start.a + 1

From(k) == <<move.source, (start.x + move.direction * k) % Reach>>

To(k) == <<move.destination, (start.y + move.direction * k) % Reach>>

Bytes == 0..(Count - 1)

\* No byte is overwritten before it is moved: the direction suits the overlap,
\* or, for a move some of which was done twice, nothing overlaps.
Suits ==
    /\ \A k, l \in Bytes : (k < l \/ (again /\ k # l)) => To(k) # From(l)
    /\ Count <= Reach

\* However it was sliced and wherever it was aborted, a finished move has each
\* byte in its place and has touched nothing else.
MoveIsExact ==
    (finished /\ Suits) =>
        /\ db = move.destination
        /\ \A w \in Address : mem[w] =
               IF \E k \in Bytes : To(k) = w
               THEN From(CHOOSE k \in Bytes : To(k) = w) ELSE w

\* In and between its slices, and after an abort, the three registers agree on
\* which byte is next, across the ends of banks and pages.
RegistersTell ==
    LET over == finished \/ (running /\ Done /\ moved = whole)
        k == IF over THEN Count ELSE start.a - a
    IN  /\ k \in 0..Count
        /\ <<x, y>> = <<From(k)[2], To(k)[2]>>
        /\ over => a = Bank - 1

\* With room for a byte again and again a move ends, or a budget that is no
\* multiple of a byte's cycles has led pc into it or past it.
MoveEnds == <>(finished \/ (~running /\ at > 0))
=============================================================================
