---------------------------- MODULE ClockedPart ----------------------------
(***************************************************************************)
(* A Clock driving an 8-bit part: the two threads and the semaphores of    *)
(* Clock, with the cycles, lines and interrupt entries of EightBit in the  *)
(* place of the clock's reduced part.  While the worker is paused the host *)
(* moves the lines and calls irq() and nmi(); an entry such a call makes   *)
(* runs on the host's thread, where _reached_a_cycle returns at once.      *)
(***************************************************************************)
EXTENDS Clock, EightBit

VARIABLES
    onHost,     \* is irq() or nmi() running its entry on the host's thread?
    cut         \* history: the part was at a boundary with no entry to make
                \* when close() unwound it

clockedVars == <<vars, partVars, onHost, cut>>

ClockedInit ==
    /\ Init
    /\ PartInit
    /\ onHost = FALSE
    /\ cut = FALSE

-----------------------------------------------------------------------------
(* The host.                                                               *)

HostClock ==
    /\ ~onHost
    /\ HostStarts \/ HostFinishes
    /\ UNCHANGED <<partVars, onHost, cut>>

HostLines ==
    /\ host = "idle"
    /\ ~onHost
    /\ SetLines
    /\ UNCHANGED <<vars, onHost, cut>>

\* With RDY down the entry would wait on the host's thread for a line only the
\* host can raise: the call is made with RDY up.
HostCalls ==
    /\ host = "idle"
    /\ ~onHost
    /\ ready_line
    /\ Calls
    /\ onHost' = (op' = "entry")
    /\ UNCHANGED <<vars, cut>>

\* Fault: the hook does not ask which thread it is on.
HostEntryArrives ==
    /\ onHost
    /\ Continue
    /\ onHost' = (op' = "entry")
    /\ arrived' = arrived + 1
    /\ UNCHANGED <<hostVars, workerVars, resume, failure, cut>>

\* irq() or nmi() goes on with its entry: the hook returns at once.
HostEntry ==
    /\ onHost
    /\ Continue
    /\ onHost' = (op' = "entry")
    /\ UNCHANGED <<vars, cut>>

-----------------------------------------------------------------------------
(* The worker.                                                             *)

\* From one cycle's close to the next, in step(), held_cycle() or an entry.
PartCycle ==
    IF worker = "started"
    THEN HeldCycle \/ \E k \in Kinds : Begin(k)
    ELSE Continue \/ SampleEnters

WorkerCycle ==
    /\ ReachedACycle
    /\ PartCycle
    /\ UNCHANGED <<onHost, cut>>

WorkerReturns ==
    /\ StepReturns
    /\ \/ SampleSkipped
       \/ ~Missing /\ SampleNothing
       \/ op = "idle" /\ UNCHANGED partVars
    /\ UNCHANGED <<onHost, cut>>

\* The memory raises on the next access of the step or the entry under way, or
\* require() does at its end.
WorkerFails ==
    /\ StepFails
    /\ \/ Inside /\ Unwind
       \/ Missing /\ SampleNothing
       \/ op = "idle" /\ worker = "started" /\ UNCHANGED partVars
    /\ UNCHANGED <<onHost, cut>>

\* Fault: _inside is not cleared in a finally clause.
WorkerResumedInside ==
    /\ Resumed
    /\ cut' = FALSE
    /\ UNCHANGED <<partVars, onHost>>

\* A closed clock raises _Closed out of on_cycle, through the part's frames.
WorkerResumed ==
    /\ Resumed
    /\ IF closed /\ op # "idle" THEN Unwind ELSE UNCHANGED partVars
    /\ cut' = (closed /\ op = "boundary" /\ Taken = "none")
    /\ UNCHANGED onHost

WorkerSchedules ==
    /\ WorkerStarts \/ LoopEnters \/ LoopEnds \/ WorkerEnds
    /\ UNCHANGED <<partVars, onHost, cut>>

-----------------------------------------------------------------------------
ClockedWorker ==
    \/ WorkerCycle
    \/ WorkerReturns
    \/ WorkerFails
    \/ WorkerResumed
    \/ WorkerSchedules

ClockedNext == HostClock \/ HostLines \/ HostCalls \/ HostEntry \/ ClockedWorker

ClockedSafe == ClockedInit /\ [][ClockedNext]_clockedVars

\* As in Clock, and a call of irq() or nmi() runs to its end.
ClockedSpec ==
    /\ ClockedSafe
    /\ WF_clockedVars(ClockedWorker)
    /\ WF_clockedVars(HostFinishes /\ HostClock)
    /\ WF_clockedVars(HostEntry)

-----------------------------------------------------------------------------
\* Once close() has returned, or a failure has reached the host, the part is in
\* nobody's hands: outside every instruction and entry, so that step() may be
\* called, and irq() and nmi() are not refused.
ClosedPartIsUsable ==
    (closed /\ host = "idle" /\ ~onHost) => (op = "idle" /\ MayCall)

\* The clock sees of this part only what Clock assumes of any: one cycle or
\* more to a step, each on its own tick, with nothing left waiting for ever.
StillAClock == Spec

\* README.md, "Driving it one cycle at a time": a clock stopped on an
\* instruction's last cycle leaves the part as step() does.  step() leaves no
\* poll to be skipped by the instruction after it.
ClosedAsStepped == cut => ~poll_skipped
=============================================================================
