---------------------------- MODULE SixteenBit ----------------------------
(***************************************************************************)
(* mos65xx/wdc65816.py: how a 65816 spends its cycles, latches an abort,   *)
(* rolls the aborted instruction back and enters interrupts.               *)
(*                                                                         *)
(* As in EightBit one action is what the part does from one on_cycle to    *)
(* the next, and between two actions the host moves the lines and calls    *)
(* irq(), nmi() and abort().  Of the registers the module keeps what an    *)
(* abort gives back or keeps, one of each sort, and the mode, on which the *)
(* shape of the entries, of BRK and of RTI depends.                        *)
(*                                                                         *)
(* A definition whose comment begins with "Fault:" is not the code: it is  *)
(* the definition after it as a plausible mistake would have it, kept to   *)
(* show which property notices.                                            *)
(***************************************************************************)
EXTENDS Integers, FiniteSets

CONSTANTS
    Settings,     \* the programs and hosts considered: the instructions of the
                  \* one, the lines the other moves, the cycles its RDY adds to
                  \* an instruction, and whether it calls abort() inside one
    MaxStall      \* bound: the most cycles RDY adds

\* Instructions by what this machinery tells apart.
Instructions == {
    "lda",   \* immediate: sets flags
    "jml",   \* long: sets the program bank
    "rmw",   \* direct page, 8-bit
    "xce", "cli", "sei", "rti", "stp", "wai",
    "brk"}   \* and COP

\* What makes cycles: an instruction, or enter().
Running == Instructions \cup {"entry"}

AllLines == {"irq", "nmi", "abort"}

ASSUME MaxStallAssumption == MaxStall \in Nat
ASSUME SettingsAssumption ==
    Settings \subseteq [kinds : SUBSET Instructions, lines : SUBSET AllLines,
                        stall : 0..MaxStall, inside : BOOLEAN]

VARIABLES
    setting,      \* the program and its host: they never change
    op,           \* what runs: a key of Length, "idle", or "boundary" while
                  \* on_cycle is being called for an instruction's last cycle
    done,         \* how many cycles of op have been closed
    suspended,    \* the instruction an abort() from inside it holds up
    exposed,      \* an instruction goes on with _inside false
    unsampled,    \* _unsampled
    irq_line, nmi_line, abort_line,
    nmi_seen,
    regs,         \* e: emulation; i: irq_disable; z: any other flag; pb: the
                  \* program bank is not 0; here: pc is at the opcode of the
                  \* instruction begun last
    before,       \* the registers step() keeps while it runs
    watching,     \* _watching_abort
    abort_at,     \* _abort_at
    abort_cycle,  \* _abort_cycle
    abort_after,  \* _abort_after
    abort_keeps,  \* _abort_keeps
    stopped,
    waiting,
    last,         \* history: the instruction completed last
    asserted,     \* history: was the abort line held in a cycle of this
                  \* instruction: "no", "by" the cycle after which something
                  \* is kept, or first "after" it
    called,       \* history: a call entered at this boundary
    edge, low, quiet, due  \* history of nmi_line, as in EightBit

lines == <<irq_line, nmi_line, abort_line>>
latch == <<watching, abort_at, abort_cycle, abort_after, abort_keeps>>
halts == <<stopped, waiting>>
nest == <<suspended, exposed>>
nmiHistory == <<edge, low, quiet, due>>
history == <<last, asserted, called, nmiHistory>>
vars == <<setting, op, done, nest, unsampled, lines, nmi_seen, regs, before, latch,
          halts, history>>

MaxDue == 3

\* Bound: where the count of an instruction's cycles saturates, past its last.
MaxCycle == 8 + MaxStall

Registers == [e : BOOLEAN, i : BOOLEAN, z : BOOLEAN, pb : BOOLEAN, here : BOOLEAN]

Gone == [e |-> FALSE, i |-> FALSE, z |-> FALSE, pb |-> FALSE, here |-> FALSE]

None == <<"none", 0>>

Init ==
    /\ setting \in Settings
    /\ op = "idle"
    /\ done = 0
    /\ suspended = None
    /\ exposed = FALSE
    /\ unsampled = FALSE
    /\ irq_line = FALSE
    /\ nmi_line = FALSE
    /\ abort_line = FALSE
    /\ nmi_seen = FALSE
    /\ regs \in [e : BOOLEAN, i : BOOLEAN, z : {FALSE}, pb : {FALSE}, here : {FALSE}]
    /\ before = Gone
    /\ watching = FALSE
    /\ abort_at = 0
    /\ abort_cycle = 0
    /\ abort_after = 0
    /\ abort_keeps = ""
    /\ stopped = FALSE
    /\ waiting = FALSE
    /\ last = "none"
    /\ asserted = "no"
    /\ called = FALSE
    /\ edge = FALSE
    /\ low = FALSE
    /\ quiet = FALSE
    /\ due = 0

-----------------------------------------------------------------------------
(* What the code computes from its state.                                  *)

held == stopped \/ waiting

\* The cycles of each: native mode has the program bank to push and to pull.
Length(k) ==
    LET bank == IF regs.e THEN 0 ELSE 1
    IN  CASE k \in {"lda", "xce", "cli", "sei"} -> 2
          [] k \in {"stp", "wai"} -> 3
          [] k = "jml" -> 4
          [] k = "rmw" -> 5
          [] k = "rti" -> 6 + bank
          [] k = "brk" -> 7 + bank
          [] k = "entry" -> 5 + bank

\* The cycles with no bus access, which RDY cannot stall.
Internal(k) ==
    CASE k \in {"xce", "cli", "sei"} -> {2}
      [] k \in {"rti", "stp", "wai"} -> {2, 3}
      [] k = "rmw" -> {4}
      [] OTHER -> {}

\* The cycle that pushes the status, after which the mask is set and the bank
\* cleared: the vector's two are left.
StatusPushed(k) == IF k \in {"brk", "entry"} THEN Length(k) - 2 ELSE 0

\* Fault: the line's level interrupts, not its change.
sampled_lineLevel ==
    IF nmi_line THEN "nmi" ELSE IF irq_line THEN "irq" ELSE "none"

sampled_line ==
    IF nmi_line /\ ~nmi_seen THEN "nmi" ELSE IF irq_line THEN "irq" ELSE "none"

masked(kind) == kind = "irq" /\ regs.i

\* What refuse_inside asks before a call is taken at a boundary.
entry_pending ==
    IF ~unsampled \/ stopped \/ masked(sampled_line) THEN "none" ELSE sampled_line

\* Fault: a stopped part still answers.
RefusesMasked(kind) == masked(kind)

\* interrupt() returns False: nothing wakes a stopped part but a reset.
Refuses(kind) == stopped \/ masked(kind)

\* Fault: the cycle of abort_point itself counts as after it.
keepsEarly(what) == abort_keeps = what /\ abort_at >= abort_after

keeps(what) == abort_keeps = what /\ abort_at > abort_after

\* roll_back(): the registers step() kept, but for what abort_point let stand.
Restored ==
    LET status == IF keeps("status") THEN regs ELSE before
    IN  [e |-> before.e, i |-> status.i, z |-> status.z,
         pb |-> before.pb /\ ~keeps("banks"), here |-> before.here]

\* The registers once cycle m of k is made: a choice where they come from memory.
Changed(k, m) ==
    {r \in Registers :
        /\ r.e \in (IF <<k, m>> = <<"xce", 2>> THEN BOOLEAN ELSE {regs.e})
        /\ r.i \in (IF <<k, m>> = <<"cli", 2>> THEN {FALSE}
                    ELSE IF <<k, m>> = <<"sei", 2>> \/ m = StatusPushed(k) THEN {TRUE}
                    ELSE IF k = "rti" /\ m = Length(k) THEN BOOLEAN
                    ELSE {regs.i})
        /\ r.z \in (IF <<k, m>> \in {<<"lda", 2>>, <<"rmw", 4>>} \/ (k = "rti" /\ m = Length(k))
                    THEN BOOLEAN ELSE {regs.z})
        /\ r.pb \in (IF m = StatusPushed(k) THEN {FALSE}
                     ELSE IF <<k, m>> \in {<<"jml", 4>>, <<"rti", 7>>} THEN BOOLEAN
                     ELSE {regs.pb})
        /\ r.here = (k = "entry" /\ m < Length(k) /\ regs.here)}

\* Where an instruction's abort_point stands, and what it keeps from then on.
AbortPoint == [rmw |-> <<4, "status">>, rti |-> <<3, "status">>, brk |-> <<2, "banks">>]

-----------------------------------------------------------------------------
(* One cycle.                                                              *)

\* spend() and close_cycle(): the first cycle closed with the line held is latched.
Tick ==
    /\ abort_cycle' = IF watching /\ abort_cycle < MaxCycle THEN abort_cycle + 1 ELSE abort_cycle
    /\ abort_at' = IF abort_line /\ watching /\ abort_at = 0 THEN abort_cycle' ELSE abort_at

\* The cycle after which an abort keeps something, as the host is told: the
\* modify cycle, the third of RTI, the second of BRK.
KeptFrom == [rmw |-> 4, rti |-> 3, brk |-> 2]

\* The abort line in the history, at a cycle of k with m of its cycles closed.
Assert(k, m) ==
    asserted' =
        IF k = "entry" \/ ~abort_line \/ asserted # "no" THEN asserted
        ELSE IF k \in DOMAIN KeptFrom /\ m >= KeptFrom[k] THEN "after"
        ELSE "by"

\* await_ready(): RDY is down, and a cycle goes by before the access.
Stall ==
    /\ op \in Running
    /\ ~exposed
    /\ done + 1 \notin Internal(op)
    /\ op # "entry" => abort_cycle < done + setting.stall
    /\ Tick
    /\ Assert(op, done)
    /\ UNCHANGED <<op, done, nest, unsampled, lines, nmi_seen, regs, before, watching,
                   abort_after, abort_keeps, halts, last, called, nmiHistory>>

\* Where the cycle leaves the part.
Arrive(k, m) ==
    IF m < Length(k)
    THEN op' = k /\ done' = m /\ UNCHANGED <<nest, unsampled, last>>
    ELSE IF k # "entry"
    THEN op' = "boundary" /\ done' = 0 /\ unsampled' = TRUE /\ last' = k /\ UNCHANGED nest
    ELSE /\ op' = IF suspended # None THEN suspended[1] ELSE IF unsampled THEN "boundary" ELSE "idle"
         /\ done' = suspended[2]
         /\ suspended' = None
         /\ exposed' = (suspended # None)
         /\ UNCHANGED <<unsampled, last>>

\* The next cycle of the instruction or of the entry under way, and what the
\* code does after its access and before its close.
Make ==
    /\ op \in Running
    /\ ~exposed
    /\ Tick
    /\ Assert(op, done)
    /\ regs' \in Changed(op, done + 1)
    /\ IF op \in DOMAIN AbortPoint /\ done + 1 = AbortPoint[op][1]
       THEN abort_after' = abort_cycle' /\ abort_keeps' = AbortPoint[op][2]
       ELSE UNCHANGED <<abort_after, abort_keeps>>
    /\ stopped' = (stopped \/ (op = "stp" /\ done = 2))
    /\ waiting' = (waiting \/ (op = "wai" /\ done = 2))
    /\ Arrive(op, done + 1)
    /\ UNCHANGED <<lines, nmi_seen, before, watching, called, nmiHistory>>

-----------------------------------------------------------------------------
(* The part.                                                               *)

\* Fault: an abort latched once stays latched.
ForgotToReset == abort_at' = abort_at

\* watch_for_abort()
Watch == abort_at' = 0

\* step(), up to its first access.
Begin(k) ==
    /\ op = "idle"
    /\ ~held
    /\ k \in setting.kinds
    /\ op' = k
    /\ regs' = [regs EXCEPT !.here = TRUE]
    /\ before' = regs'
    /\ Watch
    /\ watching' = TRUE
    /\ abort_cycle' = 0
    /\ abort_after' = 0
    /\ abort_keeps' = ""
    /\ asserted' = "no"
    /\ called' = FALSE
    /\ low' = ~nmi_line
    /\ UNCHANGED <<done, nest, unsampled, lines, nmi_seen, halts, last, edge, quiet, due>>

\* interrupt() and enter(), up to the first access.
Enter == op' = "entry" /\ done' = 0 /\ waiting' = FALSE

\* What step() kept for itself is gone, and what the history says of it too.
Forget == before' = Gone /\ last' = "none" /\ asserted' = "no" /\ called' = FALSE

PassedBy ==
    /\ quiet' = (quiet \/ low)
    /\ due' = IF quiet /\ nmi_line /\ due < MaxDue THEN due + 1 ELSE due
    /\ UNCHANGED <<edge, low>>

\* The line whose entry the end of step() makes.
Taken ==
    LET wanted == IF abort_at # 0 THEN "abort" ELSE sampled_line
    IN  IF Refuses(wanted) THEN "none" ELSE wanted

\* step(), once its last cycle is closed.
EndOfStep ==
    /\ op = "boundary"
    /\ unsampled' = FALSE
    /\ watching' = FALSE
    /\ Forget
    /\ IF Taken = "none" THEN op' = "idle" /\ done' = 0 ELSE Enter
    /\ UNCHANGED <<nest, lines, abort_at, abort_cycle, abort_after, abort_keeps, stopped>>

\* An instruction with an abort latched is rolled back and does not look at the pins.
RollBack ==
    /\ EndOfStep
    /\ abort_at # 0
    /\ regs' = Restored
    /\ Taken = "none" => UNCHANGED waiting
    /\ UNCHANGED <<nmi_seen, nmiHistory>>

\* Fault: nmi_seen is never taken back.
SeenSticks == nmi_seen \/ nmi_line

Seen == nmi_line

\* sample_pins(): a request refused by its mask ends a wait all the same.
SamplePins ==
    /\ EndOfStep
    /\ abort_at = 0
    /\ nmi_seen' = Seen
    /\ Taken = "none" => waiting' = (waiting /\ (sampled_line = "none" \/ stopped))
    /\ IF Taken = "nmi" THEN edge' = FALSE /\ quiet' = FALSE /\ due' = 0 /\ UNCHANGED low
       ELSE PassedBy
    /\ UNCHANGED regs

\* held_cycle() is what run_for spends on a halted part: nothing is looked at.
HeldCycle ==
    /\ op = "idle"
    /\ held
    /\ Tick
    /\ UNCHANGED <<op, done, nest, unsampled, lines, nmi_seen, regs, before, watching,
                   abort_after, abort_keeps, halts, history>>

-----------------------------------------------------------------------------
(* The host.                                                               *)

\* refuse_inside lets irq() and nmi() through at a boundary nothing is pending at.
MayCall == (op \notin Running \/ exposed) /\ entry_pending = "none"

\* irq(), nmi() and abort() between instructions.  A stopped part answers
\* nothing; a masked request only ends a wait.
Call(kind) ==
    /\ op \notin Running
    /\ kind # "abort" => MayCall
    /\ ~stopped
    /\ IF masked(kind)
       THEN waiting /\ waiting' = FALSE /\ UNCHANGED <<op, done, called>>
       ELSE Enter /\ called' = unsampled
    /\ UNCHANGED <<nest, unsampled, lines, nmi_seen, regs, before, latch, stopped, last,
                   asserted, nmiHistory>>

\* abort() refuses nothing: called from inside an instruction it enters there,
\* and leaves _inside false to what remains of the instruction.  What that
\* does is not followed further.
CallAbortInside ==
    /\ setting.inside
    /\ op \in Instructions
    /\ ~stopped
    /\ ~exposed
    /\ Enter
    /\ suspended' = <<op, done>>
    /\ UNCHANGED <<exposed, unsampled, lines, nmi_seen, regs, before, latch, stopped, history>>

SetIrq ==
    /\ "irq" \in setting.lines
    /\ irq_line' = ~irq_line
    /\ UNCHANGED <<op, done, nest, unsampled, nmi_line, abort_line, nmi_seen, regs, before,
                   latch, halts, history>>

SetNmi ==
    /\ "nmi" \in setting.lines
    /\ nmi_line' = ~nmi_line
    /\ edge' = (edge \/ nmi_line')
    /\ low' = FALSE
    /\ due' = 0
    /\ UNCHANGED <<op, done, nest, unsampled, irq_line, abort_line, nmi_seen, regs, before,
                   latch, halts, last, asserted, called, quiet>>

SetAbort ==
    /\ "abort" \in setting.lines
    /\ abort_line' = ~abort_line
    /\ UNCHANGED <<op, done, nest, unsampled, irq_line, nmi_line, nmi_seen, regs, before,
                   latch, halts, history>>

\* reset() between instructions, as one step.  It leaves nmi_seen and the
\* abort's latch as they are; the history of the line starts again.
Reset ==
    /\ op = "idle"
    /\ regs' = [regs EXCEPT !.e = TRUE, !.i = TRUE, !.pb = FALSE, !.here = FALSE]
    /\ stopped' = FALSE
    /\ waiting' = FALSE
    /\ quiet' = FALSE
    /\ due' = 0
    /\ UNCHANGED <<op, done, nest, unsampled, lines, nmi_seen, before, latch, last, asserted, called,
                   edge, low>>

\* The memory or on_cycle raises: step() or the entry unwinds through its
\* finally clauses.  From inside an instruction _watching_abort is left set.
Unwind ==
    /\ op # "idle"
    /\ op' = "idle"
    /\ done' = 0
    /\ suspended' = None
    /\ exposed' = FALSE
    /\ unsampled' = FALSE
    /\ watching' = (watching /\ ~unsampled)
    /\ Forget
    /\ UNCHANGED <<lines, nmi_seen, regs, abort_at, abort_cycle, abort_after, abort_keeps,
                   halts, nmiHistory>>

-----------------------------------------------------------------------------
Part ==
    \/ \E k \in Instructions : Begin(k)
    \/ Make
    \/ Stall
    \/ RollBack
    \/ SamplePins
    \/ HeldCycle

Host ==
    \/ \E kind \in AllLines : Call(kind)
    \/ CallAbortInside
    \/ SetIrq
    \/ SetNmi
    \/ SetAbort
    \/ Reset
    \/ Unwind

Next == (Part \/ Host) /\ UNCHANGED setting

Spec == Init /\ [][Next]_vars

-----------------------------------------------------------------------------
TypeOK ==
    /\ setting \in Settings
    /\ op \in Instructions \cup {"entry", "idle", "boundary"}
    /\ done \in 0..7
    /\ IF op \in Running THEN done < Length(op) ELSE done = 0
    /\ suspended \in {None} \cup (Instructions \X (0..7))
    /\ exposed \in BOOLEAN
    /\ unsampled \in BOOLEAN
    /\ op = "boundary" => unsampled
    /\ op \in Instructions \cup {"idle"} => ~unsampled
    /\ irq_line \in BOOLEAN
    /\ nmi_line \in BOOLEAN
    /\ abort_line \in BOOLEAN
    /\ nmi_seen \in BOOLEAN
    /\ regs \in Registers
    /\ before \in Registers
    /\ watching \in BOOLEAN
    /\ op \in Instructions \cup {"boundary"} => watching
    /\ abort_cycle \in 0..MaxCycle
    /\ abort_at \in 0..MaxCycle
    /\ abort_after \in 0..MaxCycle
    /\ abort_keeps \in {"", "status", "banks"}
    /\ stopped \in BOOLEAN
    /\ waiting \in BOOLEAN
    /\ last \in Instructions \cup {"none"}
    /\ asserted \in {"no", "by", "after"}
    /\ called \in BOOLEAN
    /\ edge \in BOOLEAN
    /\ low \in BOOLEAN
    /\ quiet \in BOOLEAN
    /\ due \in 0..MaxDue

\* An instruction reaches its end with an abort latched exactly when the host
\* held the line at the close of one of its own cycles: not of an earlier
\* instruction's, not of an entry's, and whatever exception came between.
\* An entry that a call makes before the step is over is watched too, and
\* left out here.
AbortIffHeld ==
    (op = "boundary" /\ ~called) => (abort_at # 0 <=> asserted # "no")

\* The entry of an abort starts from the registers the instruction found,
\* the opcode's address among them, but for the flags once a modify cycle or
\* RTI's third is over, and the program bank once BRK's second is.
RolledBack ==
    [][(op = "boundary" /\ op' = "entry" /\ ~unsampled' /\ asserted # "no") =>
          LET status == IF last \in {"rmw", "rti"} /\ asserted = "after" THEN regs ELSE before
          IN  /\ regs'.e = before.e
              /\ <<regs'.i, regs'.z>> = <<status.i, status.z>>
              /\ regs'.pb = (before.pb /\ ~(last = "brk" /\ asserted = "after"))
              /\ regs'.here]_vars

\* A stopped part enters nothing and a waiting part has stopped waiting when it
\* does, whichever of the pins and the calls asks and whenever.
HaltedNeverEnters == op = "entry" => ~held

\* A low-to-high change of nmi_line interrupts at most once, aborts between or not.
NmiOncePerEdge == (op = "boundary" /\ Taken = "nmi") => edge

\* And at least once: a line low for a whole instruction that looked at it, then
\* raised and held, goes unanswered by no more than one look: an abort hides it
\* for its own boundary and loses nothing.
NmiAnswered == due <= 1

\* A call that is accepted while a step is at its boundary acts at once, as
\* between two steps: the abort of that step does not undo it.
CallSurvives == (op = "boundary" /\ called) => Taken # "abort"
=============================================================================
