------------------------------- MODULE Clock -------------------------------
(***************************************************************************)
(* mos65xx/clock.py: a Clock runs a part on a worker thread and hands      *)
(* control back and forth across two semaphores, once for every cycle.     *)
(*                                                                         *)
(* One action is one uninterrupted stretch of one thread between two       *)
(* operations on the semaphores.  The part is reduced to what the clock    *)
(* sees of it: a step closes one cycle or more, each through on_cycle,     *)
(* then returns, and it may raise instead.                                 *)
(*                                                                         *)
(* A definition whose comment begins with "Fault:" is not the code: it is  *)
(* the definition after it as a plausible mistake would have it, kept to   *)
(* show which property notices.                                            *)
(***************************************************************************)
EXTENDS Naturals

CONSTANTS
    MaxTicks,       \* bound on the ticks of one behaviour
    Interruptible   \* may a signal (Ctrl-C) break tick()'s wait?

ASSUME MaxTicksAssumption == MaxTicks \in Nat
ASSUME InterruptibleAssumption == Interruptible \in BOOLEAN

VARIABLES
    host,       \* where the host thread is
    worker,     \* where the worker thread is
    resume,     \* the semaphore _resume
    arrived,    \* the semaphore _arrived
    closed,     \* Clock.closed
    failure,    \* is an exception held in Clock._failure?
    cycles,     \* Clock.cycles
    hook,       \* who owns cpu.on_cycle: "clock" or "previous"
    spent,      \* history: cycles closed through the clock's hook
    outcome,    \* history: what the host's last call gave it
    broken      \* history: a signal broke a tick

vars == <<host, worker, resume, arrived, closed, failure, cycles, hook,
          spent, outcome, broken>>

hostVars == <<host, closed, cycles, hook, outcome, broken>>
workerVars == <<worker, spent>>

HostAt == {"idle", "ticking", "leaving", "closing", "joining"}
WorkerAt == {"new", "loop", "started", "within", "paused", "released", "done"}
Outcomes == {"none", "count", "failure", "ClockClosed", "closed"}

InitWith(permits) ==
    /\ host = "idle"
    /\ worker = "new"
    /\ resume = 0
    /\ arrived = permits
    /\ closed = FALSE
    /\ failure = FALSE
    /\ cycles = 0
    /\ hook = "clock"
    /\ spent = 0
    /\ outcome = "none"
    /\ broken = FALSE

\* Fault: _arrived starts with a permit, as a semaphore does by default.
InitPermit == InitWith(1)

\* Clock.__init__: the hook is taken before the worker starts.
Init == InitWith(0)

-----------------------------------------------------------------------------
(* The host thread.                                                        *)

\* tick() on a closed clock raises and touches nothing.
TickRefused ==
    /\ host = "idle"
    /\ closed
    /\ outcome' = "ClockClosed"
    /\ UNCHANGED <<host, closed, cycles, hook, broken, resume, arrived, failure, workerVars>>

\* tick() lets the worker go and waits.
Tick ==
    /\ host = "idle"
    /\ ~closed
    /\ cycles < MaxTicks
    /\ resume' = resume + 1
    /\ host' = "ticking"
    /\ UNCHANGED <<closed, cycles, hook, outcome, broken, arrived, failure, workerVars>>

Raises ==
    /\ failure' = FALSE
    /\ closed' = TRUE
    /\ outcome' = "failure"

Counts ==
    /\ cycles' = cycles + 1
    /\ outcome' = "count"

Answered ==
    /\ host = "ticking"
    /\ arrived' = arrived - 1
    /\ host' = "idle"
    /\ UNCHANGED <<hook, broken, resume, workerVars>>

AnsweredInTurn ==
    /\ Answered
    /\ IF failure THEN Raises /\ UNCHANGED cycles ELSE Counts /\ UNCHANGED <<failure, closed>>

\* Fault: the failure left by the worker is not looked at.
TickReturnsBlind == Answered /\ arrived > 0 /\ Counts /\ UNCHANGED <<failure, closed>>

\* tick() is answered: a count, or the exception the worker left.
TickReturns == arrived > 0 /\ AnsweredInTurn

\* A signal breaks tick()'s wait; the with statement leaves through close().
TickBroken ==
    /\ Interruptible
    /\ host = "ticking"
    /\ host' = "leaving"
    /\ broken' = TRUE
    /\ UNCHANGED <<closed, cycles, hook, outcome, resume, arrived, failure, workerVars>>

\* close() on an open clock, from the host's code or from __exit__.
Close ==
    /\ host \in {"idle", "leaving"}
    /\ ~closed
    /\ closed' = TRUE
    /\ resume' = resume + 1
    /\ host' = "closing"
    /\ UNCHANGED <<cycles, hook, outcome, broken, arrived, failure, workerVars>>

\* close() on a closed clock returns at once.
CloseAgain ==
    /\ host = "idle"
    /\ closed
    /\ outcome' = "closed"
    /\ UNCHANGED <<host, closed, cycles, hook, broken, resume, arrived, failure, workerVars>>

CloseArrives ==
    /\ host = "closing"
    /\ arrived > 0
    /\ arrived' = arrived - 1
    /\ host' = "joining"
    /\ UNCHANGED <<closed, cycles, hook, outcome, broken, resume, failure, workerVars>>

\* The join ends with the worker, or after five seconds without it; either
\* way the part gets its own on_cycle back.
Joined ==
    /\ host = "joining"
    /\ hook' = "previous"
    /\ outcome' = "closed"
    /\ host' = "idle"
    /\ UNCHANGED <<closed, cycles, broken, resume, arrived, failure, workerVars>>

-----------------------------------------------------------------------------
(* The worker thread.                                                      *)

WorkerStarts ==
    /\ worker = "new"
    /\ resume > 0
    /\ resume' = resume - 1
    /\ worker' = "loop"
    /\ UNCHANGED <<spent, hostVars, arrived, failure>>

\* while not closed: step, or held_cycle, from the top.
LoopEnters ==
    /\ worker = "loop"
    /\ ~closed
    /\ worker' = "started"
    /\ UNCHANGED <<spent, hostVars, resume, arrived, failure>>

LoopEnds ==
    /\ worker = "loop"
    /\ closed
    /\ arrived' = arrived + 1
    /\ worker' = "released"
    /\ UNCHANGED <<spent, hostVars, resume, failure>>

ReachedACycleThen(at) ==
    /\ worker \in {"started", "within"}
    /\ hook = "clock"
    /\ arrived' = arrived + 1
    /\ spent' = spent + 1
    /\ worker' = at
    /\ UNCHANGED <<hostVars, resume, failure>>

\* Fault: the hook releases _arrived and does not wait for _resume.
ReachedACycleRunsOn == ReachedACycleThen("within")

\* A cycle closes and calls on_cycle: the clock's hook hands control back.
ReachedACycle == ReachedACycleThen("paused")

StepReturns ==
    /\ worker = "within"
    /\ worker' = "loop"
    /\ UNCHANGED <<spent, hostVars, resume, arrived, failure>>

StepFailsReleasing(permits) ==
    /\ worker \in {"started", "within"}
    /\ failure' = TRUE
    /\ arrived' = arrived + permits
    /\ worker' = "released"
    /\ UNCHANGED <<spent, hostVars, resume>>

\* Fault: the release after the loop is not reached by an exception.
StepFailsSilent == StepFailsReleasing(0)

\* step() raises: the memory, an unknown instruction, a stopped part.
StepFails == StepFailsReleasing(1)

ResumedReleasing(permits) ==
    /\ worker = "paused"
    /\ resume > 0
    /\ resume' = resume - 1
    /\ IF closed
       THEN /\ arrived' = arrived + permits
            /\ worker' = "released"
       ELSE /\ UNCHANGED arrived
            /\ worker' = "within"
    /\ UNCHANGED <<spent, hostVars, failure>>

\* Fault: _Closed ends the thread before it releases _arrived.
ResumedSilent == ResumedReleasing(0)

\* The hook's wait ends: on with the instruction, or out through _Closed.
Resumed == ResumedReleasing(1)

WorkerEnds ==
    /\ worker = "released"
    /\ worker' = "done"
    /\ UNCHANGED <<spent, hostVars, resume, arrived, failure>>

-----------------------------------------------------------------------------
HostFinishes == TickReturns \/ CloseArrives \/ Joined

HostStarts == TickRefused \/ Tick \/ TickBroken \/ Close \/ CloseAgain

Worker ==
    \/ WorkerStarts
    \/ LoopEnters
    \/ LoopEnds
    \/ ReachedACycle
    \/ StepReturns
    \/ StepFails
    \/ Resumed
    \/ WorkerEnds

Next == HostStarts \/ HostFinishes \/ Worker

\* Both threads are scheduled, an instruction is finite, and a with block
\* that a signal broke runs its __exit__.  The host need never tick or close.
Fairness ==
    /\ WF_vars(HostFinishes)
    /\ WF_vars(Worker)
    /\ WF_vars(StepReturns)
    /\ WF_vars(host = "leaving" /\ Close)

Safe == Init /\ [][Next]_vars

Spec == Safe /\ Fairness

-----------------------------------------------------------------------------
TypeOK ==
    /\ host \in HostAt
    /\ worker \in WorkerAt
    /\ resume \in Nat
    /\ arrived \in Nat
    /\ closed \in BOOLEAN
    /\ failure \in BOOLEAN
    /\ cycles \in Nat
    /\ hook \in {"clock", "previous"}
    /\ spent \in Nat
    /\ outcome \in Outcomes
    /\ broken \in BOOLEAN

HostRuns == host \in {"idle", "leaving", "joining"}

WorkerRuns == worker \in {"loop", "started", "within"}

\* The host and the worker never run the part at the same time: a tick hands
\* control over whole, through two semaphores nobody else counts.  A tick
\* broken by a signal leaves the worker running, until close() stops it.
NeverBothRun == ~broken => ~(HostRuns /\ WorkerRuns)

\* Each tick that returned is one cycle of the part, and the part makes no
\* cycle the host has not asked for: what tick() returns is what was spent.
TicksAreCycles ==
    (HostRuns /\ ~broken) => cycles = spent

\* Once close() has given on_cycle back the worker is out of the part for good,
\* signal or not, joined or not, so the part's own on_cycle is never called
\* from another thread.
NoStrayCycle == (hook = "previous") => ~WorkerRuns

\* tick() counts up by one or leaves the count alone, and once a failure or a
\* close has ended the clock the count is final.
CountIsFinal == [][cycles' # cycles => (cycles' = cycles + 1 /\ ~closed /\ ~closed')]_vars

-----------------------------------------------------------------------------
\* The abstract turn the clock is in.
Turn ==
    IF closed \/ worker \in {"released", "done"} THEN "over"
    ELSE IF host # "ticking" THEN "host"
    ELSE IF arrived > 0 THEN "answer"
    ELSE "part"

Lock == INSTANCE LockStep WITH turn <- Turn, ticked <- cycles

LockStepSafe == Lock!Safe

LockStepSpec == Lock!Spec

-----------------------------------------------------------------------------
\* A tick always comes back, with a count or with the part's exception.
TickReturnsAtLast == (host = "ticking") ~> (host # "ticking")

\* close() always comes back, whatever the worker was doing, with on_cycle
\* given back and the worker gone.
CloseEndsTheWorker ==
    (host = "closing") ~> (host = "idle" /\ hook = "previous" /\ worker = "done")

\* An exception inside the part reaches the host's tick, once, unless a signal
\* took that tick away.
FailureReachesTheHost == failure ~> (outcome = "failure" \/ broken)

\* After a signal broke a tick, leaving the with block still ends the worker
\* and gives on_cycle back.
BrokenTickStillCloses == broken ~> (worker = "done" /\ hook = "previous")
=============================================================================
