---------------------------- MODULE ClockProofs ----------------------------
(***************************************************************************)
(* Theorems about Clock, for any number of ticks, with signals or without. *)
(*                                                                         *)
(* The argument is a baton.  The right to run the part is with the host,   *)
(* with the worker, or in one of the two semaphores, and every action      *)
(* passes it on whole; a signal that breaks a tick's wait makes a second.  *)
(*                                                                         *)
(* Then about ClockedPart, for any packages and programs too: that a clock *)
(* on an 8-bit part is still a Clock and the part still an EightBit, so    *)
(* that what is proved of either alone holds of the two together, and that *)
(* a closed clock leaves a part that may be used.                          *)
(*                                                                         *)
(* Last the theorems about EightBit itself, for every part and every set of*)
(* instructions, and with them what a clocked part keeps.                  *)
(***************************************************************************)
EXTENDS ClockedPart, TLAPS

\* The baton's share that is with the host, and with the worker.
HostBaton == IF HostRuns THEN 1 ELSE 0

WorkerBaton == IF WorkerRuns THEN 1 ELSE 0

\* There is one baton, or two once a signal has broken a tick.
Baton == HostBaton + resume + arrived + WorkerBaton = IF broken THEN 2 ELSE 1

\* What the host's place says of the flags it sets.
HostFlags ==
    /\ host = "ticking" => (~closed /\ ~broken)
    /\ (host \in {"closing", "joining"} \/ hook # "clock") => closed
    /\ (broken /\ host = "idle") => closed
    /\ broken => Interruptible
    /\ hook # "clock" => host = "idle"

\* A worker is gone because it failed or because the clock is closed, and a
\* failure is held until the tick that caused it takes it.
WorkerFlags ==
    /\ failure => worker \in {"released", "done"}
    /\ (worker \in {"released", "done"} /\ ~closed) => failure
    /\ (failure /\ ~broken) => host = "ticking"
    /\ worker = "new" => arrived = 0
    /\ (closed /\ ~broken) => worker \notin {"started", "within"}

\* After a broken tick a worker that may still run has not yet arrived, and the
\* host has not got past the wait for it in close().
BrokenFlags ==
    (broken /\ (WorkerRuns \/ worker = "new"))
        => (arrived = 0 /\ host \in {"leaving", "closing"})

\* A cycle is made and the host has yet to be told.
Untold == arrived > 0 /\ worker = "paused"

\* While no tick was broken, clock and part count the same cycles, but for the
\* one the host is about to be told of.
Counted ==
    ~broken => /\ Untold => host = "ticking"
               /\ spent = IF Untold THEN cycles + 1 ELSE cycles

\* The inductive invariant: where the baton is, what each thread's place says of
\* the flags the other reads, and what the two counts say while nothing is broken.
IInv == TypeOK /\ Baton /\ HostFlags /\ WorkerFlags /\ BrokenFlags /\ Counted

-----------------------------------------------------------------------------
\* TypeOK in two parts: the provers that know numbers do not know truth values.
Numbers ==
    /\ resume \in Nat
    /\ arrived \in Nat
    /\ cycles \in Nat
    /\ spent \in Nat

Places ==
    /\ host \in HostAt
    /\ worker \in WorkerAt
    /\ hook \in {"clock", "previous"}
    /\ outcome \in Outcomes

Flags ==
    /\ closed \in BOOLEAN
    /\ failure \in BOOLEAN
    /\ broken \in BOOLEAN

\* A step of the host or of the worker keeps every variable in its type.
LEMMA TypeStep == TypeOK /\ [Next]_vars => TypeOK'
<1> SUFFICES ASSUME Numbers, Places, Flags, [Next]_vars
             PROVE  Numbers' /\ Places' /\ Flags'
  BY DEF TypeOK, Numbers, Places, Flags
<1> USE DEF hostVars, workerVars
<1>1. Numbers'
  BY DEF Numbers, Next, HostStarts, HostFinishes, Worker, vars,
         TickRefused, Tick, TickBroken, Close, CloseAgain,
         TickReturns, AnsweredInTurn, Answered, Raises, Counts, CloseArrives, Joined,
         WorkerStarts, LoopEnters, LoopEnds, ReachedACycle, ReachedACycleThen,
         StepReturns, StepFails, StepFailsReleasing, Resumed, ResumedReleasing, WorkerEnds
<1>2. Places'
  BY DEF Places, HostAt, WorkerAt, Outcomes, Next, HostStarts, HostFinishes, Worker, vars,
         TickRefused, Tick, TickBroken, Close, CloseAgain,
         TickReturns, AnsweredInTurn, Answered, Raises, Counts, CloseArrives, Joined,
         WorkerStarts, LoopEnters, LoopEnds, ReachedACycle, ReachedACycleThen,
         StepReturns, StepFails, StepFailsReleasing, Resumed, ResumedReleasing, WorkerEnds
<1>3. Flags'
  BY Zenon DEF Flags, Next, HostStarts, HostFinishes, Worker, vars,
         TickRefused, Tick, TickBroken, Close, CloseAgain,
         TickReturns, AnsweredInTurn, Answered, Raises, Counts, CloseArrives, Joined,
         WorkerStarts, LoopEnters, LoopEnds, ReachedACycle, ReachedACycleThen,
         StepReturns, StepFails, StepFailsReleasing, Resumed, ResumedReleasing, WorkerEnds
<1> QED
  BY <1>1, <1>2, <1>3

\* A clock just built has every variable in its type.
LEMMA TypeInit == Init => TypeOK
<1> SUFFICES ASSUME Init PROVE Numbers /\ Places /\ Flags
  BY DEF TypeOK, Numbers, Places, Flags
<1> USE DEF Init, InitWith
<1>1. Numbers
  BY DEF Numbers
<1>2. Places
  BY DEF Places, HostAt, WorkerAt, Outcomes
<1>3. Flags
  BY Zenon DEF Flags
<1> QED
  BY <1>1, <1>2, <1>3

\* Every action of either thread passes the baton on.
LEMMA BatonPassed ==
    ASSUME TypeOK, TypeOK', IInv, [Next]_vars
    PROVE  Baton'
<1> USE DEF IInv, Baton, HostBaton, WorkerBaton, HostRuns, WorkerRuns, HostFlags,
            TypeOK, HostAt, WorkerAt, hostVars, workerVars
<1>1. CASE HostStarts
  <2>1. CASE TickRefused \/ CloseAgain
    BY <2>1 DEF TickRefused, CloseAgain
  <2>2. CASE Tick
    BY <2>2 DEF Tick
  <2>3. CASE TickBroken
    BY <2>3 DEF TickBroken
  <2>4. CASE Close
    BY <2>4 DEF Close
  <2> QED
    BY <1>1, <2>1, <2>2, <2>3, <2>4 DEF HostStarts
<1>2. CASE HostFinishes
  <2>1. CASE TickReturns
    BY <2>1 DEF TickReturns, AnsweredInTurn, Answered
  <2>2. CASE CloseArrives
    BY <2>2 DEF CloseArrives
  <2>3. CASE Joined
    BY <2>3 DEF Joined
  <2> QED
    BY <1>2, <2>1, <2>2, <2>3 DEF HostFinishes
<1>3. CASE Worker
  <2>1. CASE WorkerStarts
    BY <2>1 DEF WorkerStarts
  <2>2. CASE LoopEnters \/ StepReturns \/ WorkerEnds
    BY <2>2 DEF LoopEnters, StepReturns, WorkerEnds
  <2>3. CASE LoopEnds
    BY <2>3 DEF LoopEnds
  <2>4. CASE ReachedACycle
    BY <2>4 DEF ReachedACycle, ReachedACycleThen
  <2>5. CASE StepFails
    BY <2>5 DEF StepFails, StepFailsReleasing
  <2>6. CASE Resumed /\ closed
    BY <2>6 DEF Resumed, ResumedReleasing
  <2>7. CASE Resumed /\ ~closed
    BY <2>7 DEF Resumed, ResumedReleasing
  <2> QED
    BY <1>3, <2>1, <2>2, <2>3, <2>4, <2>5, <2>6, <2>7 DEF Worker
<1>4. CASE UNCHANGED vars
  BY <1>4 DEF vars
<1> QED
  BY <1>1, <1>2, <1>3, <1>4 DEF Next

\* Without a broken tick, exactly one of the four has the baton.
OneHolder ==
    \/ HostRuns /\ ~WorkerRuns /\ resume = 0 /\ arrived = 0
    \/ ~HostRuns /\ WorkerRuns /\ resume = 0 /\ arrived = 0
    \/ ~HostRuns /\ ~WorkerRuns /\ resume = 1 /\ arrived = 0
    \/ ~HostRuns /\ ~WorkerRuns /\ resume = 0 /\ arrived = 1

\* With one baton about, one of the four places has it and the others are empty.
LEMMA BatonSays == TypeOK /\ Baton /\ ~broken => OneHolder
  BY DEF TypeOK, Baton, HostBaton, WorkerBaton, OneHolder

\* A step keeps what the host's place says of closed, broken and the hook.
LEMMA FlagsKept ==
    ASSUME TypeOK, TypeOK', IInv, [Next]_vars
    PROVE  HostFlags'
<1> USE DEF IInv, HostFlags, hostVars, workerVars
<1>1. CASE HostStarts
  BY <1>1 DEF HostStarts, TickRefused, Tick, TickBroken, Close, CloseAgain
<1>2. CASE HostFinishes
  BY <1>2 DEF HostFinishes, TickReturns, AnsweredInTurn, Answered, Raises, Counts,
              CloseArrives, Joined
<1>3. CASE Worker
  BY <1>3 DEF Worker, WorkerStarts, LoopEnters, LoopEnds, ReachedACycle, ReachedACycleThen,
              StepReturns, StepFails, StepFailsReleasing, Resumed,
              ResumedReleasing, WorkerEnds
<1>4. CASE UNCHANGED vars
  BY <1>4 DEF vars
<1> QED
  BY <1>1, <1>2, <1>3, <1>4 DEF Next

\* A worker that runs, runs for a tick.
LEMMA RunsForATick ==
    ASSUME IInv, ~broken, worker \in {"started", "within"}
    PROVE  host = "ticking" /\ ~closed /\ arrived = 0 /\ resume = 0
<1>1. OneHolder
  BY BatonSays DEF IInv
<1>2. ~HostRuns /\ arrived = 0 /\ resume = 0
  BY <1>1 DEF OneHolder, HostRuns, WorkerRuns
<1>3. host \in {"ticking", "closing"}
  BY <1>2 DEF HostRuns, IInv, TypeOK, HostAt
<1>4. ~closed
  BY DEF IInv, WorkerFlags
<1> QED
  BY <1>2, <1>3, <1>4 DEF IInv, HostFlags

\* A step keeps what the worker's place says of failure and closed.
LEMMA WorkerKept ==
    ASSUME IInv, [Next]_vars
    PROVE  WorkerFlags'
<1> USE DEF WorkerFlags, hostVars, workerVars
<1>0. WorkerFlags /\ HostFlags /\ TypeOK
  BY DEF IInv
<1>1. CASE HostStarts
  <2>0. (HostRuns /\ ~broken) => ~WorkerRuns /\ arrived = 0
    BY BatonSays DEF IInv, OneHolder
  <2>1. CASE TickRefused \/ CloseAgain
    BY <1>0, <2>1 DEF TickRefused, CloseAgain
  <2>2. CASE Tick
    BY <1>0, <2>2 DEF Tick, HostFlags
  <2>3. CASE TickBroken
    BY <1>0, <2>3 DEF TickBroken
  <2>4. CASE Close
    BY <1>0, <2>0, <2>4 DEF Close, HostRuns, WorkerRuns
  <2> QED
    BY <1>1, <2>1, <2>2, <2>3, <2>4 DEF HostStarts
<1>2. CASE HostFinishes
  <2>1. CASE TickReturns /\ failure
    BY <1>0, <2>1 DEF TickReturns, AnsweredInTurn, Answered, Raises, TypeOK
  <2>2. CASE TickReturns /\ ~failure
    BY <1>0, <2>2 DEF TickReturns, AnsweredInTurn, Answered, Counts, TypeOK
  <2>3. CASE CloseArrives
    BY <1>0, <2>3 DEF CloseArrives, TypeOK
  <2>4. CASE Joined
    BY <1>0, <2>4 DEF Joined
  <2> QED
    BY <1>2, <2>1, <2>2, <2>3, <2>4 DEF HostFinishes
<1>3. CASE Worker
  <2>0. broken \/ worker \notin {"started", "within"} \/ host = "ticking"
    BY RunsForATick
  <2>1. CASE WorkerStarts
    BY <1>0, <2>1 DEF WorkerStarts
  <2>2. CASE LoopEnters \/ StepReturns \/ WorkerEnds
    BY <1>0, <2>2 DEF LoopEnters, StepReturns, WorkerEnds
  <2>3. CASE LoopEnds
    BY <1>0, <2>3 DEF LoopEnds
  <2>4. CASE ReachedACycle
    BY <1>0, <2>4 DEF ReachedACycle, ReachedACycleThen
  <2>5. CASE StepFails
    BY <1>0, <2>0, <2>5 DEF StepFails, StepFailsReleasing
  <2>6. CASE Resumed
    BY <1>0, <2>6 DEF Resumed, ResumedReleasing
  <2> QED
    BY <1>3, <2>1, <2>2, <2>3, <2>4, <2>5, <2>6 DEF Worker
<1>4. CASE UNCHANGED vars
  BY <1>0, <1>4 DEF vars
<1> QED
  BY <1>1, <1>2, <1>3, <1>4 DEF Next

\* A step keeps the two counts together: only the tick that is told counts.
LEMMA CountedKept ==
    ASSUME IInv, [Next]_vars
    PROVE  Counted'
<1> SUFFICES ASSUME ~broken'
             PROVE  /\ Untold' => host' = "ticking"
                    /\ spent' = IF Untold' THEN cycles' + 1 ELSE cycles'
  BY DEF Counted
<1> USE DEF Untold, hostVars, workerVars
<1>0. TypeOK /\ HostFlags /\ WorkerFlags /\ ~broken
  <2>1. TypeOK /\ HostFlags /\ WorkerFlags
    BY DEF IInv
  <2>2. ~broken
    BY <2>1 DEF TypeOK, Next, vars, HostStarts, HostFinishes, Worker,
       TickRefused, Tick, TickBroken, Close, CloseAgain, TickReturns, AnsweredInTurn, Answered,
       CloseArrives, Joined, WorkerStarts, LoopEnters, LoopEnds, ReachedACycle,
       ReachedACycleThen, StepReturns, StepFails, StepFailsReleasing, Resumed,
       ResumedReleasing, WorkerEnds
  <2> QED
    BY <2>1, <2>2
<1>1. Untold => host = "ticking"
  BY <1>0 DEF IInv, Counted
<1>2. spent = IF Untold THEN cycles + 1 ELSE cycles
  BY <1>0 DEF IInv, Counted
<1>4. OneHolder
  BY <1>0, BatonSays DEF IInv
<1>5. worker \in {"started", "within"} => host = "ticking" /\ ~closed /\ arrived = 0
  BY <1>0, RunsForATick
<1>6. CASE HostStarts
  <2>1. CASE TickRefused \/ CloseAgain
    BY <1>1, <1>2, <2>1 DEF TickRefused, CloseAgain
  <2>2. CASE Tick
    BY <1>1, <1>2, <2>2 DEF Tick
  <2>3. CASE TickBroken
    BY <2>3 DEF TickBroken
  <2>4. CASE Close
    BY <1>0, <1>1, <1>2, <2>4 DEF Close
  <2> QED
    BY <1>6, <2>1, <2>2, <2>3, <2>4 DEF HostStarts
<1>7. CASE HostFinishes
  <2>1. CASE TickReturns /\ failure
    <3>1. ~Untold /\ ~Untold'
      BY <1>0, <2>1 DEF TickReturns, AnsweredInTurn, Answered, Raises, WorkerFlags
    <3> QED
      BY <1>2, <2>1, <3>1 DEF TickReturns, AnsweredInTurn, Answered, Raises
  <2>2. CASE TickReturns /\ ~failure
    <3>1. ~closed /\ arrived = 1 /\ ~WorkerRuns
      BY <1>0, <1>4, <2>2 DEF TickReturns, AnsweredInTurn, Answered, HostFlags, OneHolder
    <3>2. worker = "paused"
      BY <1>0, <2>2, <3>1 DEF WorkerRuns, WorkerFlags, TypeOK, WorkerAt
    <3>3. spent = cycles + 1 /\ arrived' = 0
      BY <1>2, <2>2, <3>1, <3>2 DEF TickReturns, AnsweredInTurn, Answered
    <3> QED
      BY <2>2, <3>3 DEF TickReturns, AnsweredInTurn, Answered, Counts
  <2>3. CASE CloseArrives
    <3>1. ~Untold /\ ~Untold'
      BY <1>0, <1>1, <1>4, <2>3 DEF CloseArrives, OneHolder
    <3> QED
      BY <1>2, <2>3, <3>1 DEF CloseArrives
  <2>4. CASE Joined
    BY <1>1, <1>2, <2>4 DEF Joined
  <2> QED
    BY <1>7, <2>1, <2>2, <2>3, <2>4 DEF HostFinishes
<1>8. CASE Worker
  <2>1. CASE WorkerStarts
    BY <1>2, <2>1 DEF WorkerStarts
  <2>2. CASE LoopEnters \/ StepReturns \/ WorkerEnds
    BY <1>2, <2>2 DEF LoopEnters, StepReturns, WorkerEnds
  <2>3. CASE LoopEnds
    BY <1>2, <2>3 DEF LoopEnds
  <2>4. CASE ReachedACycle
    BY <1>0, <1>2, <1>5, <2>4 DEF ReachedACycle, ReachedACycleThen, TypeOK
  <2>6. CASE StepFails
    BY <1>2, <2>6 DEF StepFails, StepFailsReleasing
  <2>7. CASE Resumed
    <3>1. arrived = 0
      BY <1>0, <1>4, <2>7 DEF Resumed, ResumedReleasing, OneHolder
    <3>2. ~Untold /\ ~Untold'
      BY <2>7, <3>1 DEF Resumed, ResumedReleasing
    <3> QED
      BY <1>2, <2>7, <3>2 DEF Resumed, ResumedReleasing
  <2> QED
    BY <1>8, <2>1, <2>2, <2>3, <2>4, <2>6, <2>7 DEF Worker
<1>9. CASE UNCHANGED vars
  BY <1>1, <1>2, <1>9 DEF vars
<1> QED
  BY <1>6, <1>7, <1>8, <1>9 DEF Next

\* After a broken tick, a step keeps a worker that still runs ahead of close().
LEMMA BrokenKept ==
    ASSUME IInv, [Next]_vars
    PROVE  BrokenFlags'
<1> USE DEF BrokenFlags, WorkerRuns, hostVars, workerVars
<1>0. TypeOK /\ HostFlags /\ WorkerFlags /\ BrokenFlags /\ Baton
  BY DEF IInv
<1>1. CASE HostStarts
  <2>1. CASE TickRefused \/ CloseAgain
    BY <1>0, <2>1 DEF TickRefused, CloseAgain
  <2>2. CASE Tick
    BY <1>0, <2>2 DEF Tick, HostFlags
  <2>3. CASE TickBroken
    <3>1. ~broken
      BY <1>0, <2>3 DEF TickBroken, HostFlags
    <3>2. WorkerRuns => arrived = 0
      BY <3>1, <1>0, BatonSays DEF OneHolder
    <3> QED
      BY <1>0, <2>3, <3>2 DEF TickBroken, WorkerFlags
  <2>4. CASE Close
    BY <1>0, <2>4 DEF Close
  <2> QED
    BY <1>1, <2>1, <2>2, <2>3, <2>4 DEF HostStarts
<1>2. CASE HostFinishes
  <2>1. CASE TickReturns
    BY <1>0, <2>1 DEF TickReturns, AnsweredInTurn, Answered, HostFlags
  <2>2. CASE CloseArrives
    BY <1>0, <2>2 DEF CloseArrives
  <2>3. CASE Joined
    BY <1>0, <2>3 DEF Joined
  <2> QED
    BY <1>2, <2>1, <2>2, <2>3 DEF HostFinishes
<1>3. CASE Worker
  <2>1. CASE WorkerStarts \/ LoopEnters \/ StepReturns \/ WorkerEnds
    BY <1>0, <2>1 DEF WorkerStarts, LoopEnters, StepReturns, WorkerEnds
  <2>2. CASE LoopEnds \/ ReachedACycle \/ StepFails
    BY <2>2 DEF LoopEnds, ReachedACycle, ReachedACycleThen, StepFails, StepFailsReleasing
  <2>3. CASE Resumed /\ closed
    BY <2>3 DEF Resumed, ResumedReleasing
  <2>4. CASE Resumed /\ ~closed /\ broken
    <3>1. host = "leaving"
      BY <1>0, <2>4 DEF HostFlags, TypeOK, HostAt
    <3>2. arrived = 0
      BY <1>0, <2>4, <3>1 DEF Resumed, ResumedReleasing, TypeOK, Baton, HostBaton, WorkerBaton,
                              HostRuns
    <3> QED
      BY <2>4, <3>1, <3>2 DEF Resumed, ResumedReleasing
  <2>5. CASE Resumed /\ ~broken
    BY <2>5 DEF Resumed, ResumedReleasing
  <2> QED
    BY <1>3, <2>1, <2>2, <2>3, <2>4, <2>5 DEF Worker
<1>4. CASE UNCHANGED vars
  BY <1>0, <1>4 DEF vars
<1> QED
  BY <1>1, <1>2, <1>3, <1>4 DEF Next

-----------------------------------------------------------------------------
\* The baton argument as one inductive invariant.
THEOREM Inductive == Safe => []IInv
<1>1. Init => IInv
  <2> SUFFICES ASSUME Init PROVE IInv
    OBVIOUS
  <2>1. TypeOK
    BY TypeInit
  <2>2. Baton
    BY DEF Init, InitWith, Baton, HostBaton, WorkerBaton, HostRuns, WorkerRuns
  <2>3. HostFlags /\ WorkerFlags
    BY DEF Init, InitWith, HostFlags, WorkerFlags
  <2>4. BrokenFlags /\ Counted
    BY DEF Init, InitWith, BrokenFlags, Counted, Untold
  <2> QED
    BY <2>1, <2>2, <2>3, <2>4 DEF IInv
<1>2. IInv /\ [Next]_vars => IInv'
  <2> SUFFICES ASSUME IInv, [Next]_vars PROVE IInv'
    OBVIOUS
  <2>1. TypeOK'
    BY TypeStep DEF IInv
  <2>2. Baton'
    BY <2>1, BatonPassed DEF IInv
  <2>3. HostFlags'
    BY <2>1, FlagsKept DEF IInv
  <2>4. WorkerFlags'
    BY WorkerKept
  <2>5. BrokenFlags'
    BY BrokenKept
  <2>6. Counted'
    BY CountedKept
  <2> QED
    BY <2>1, <2>2, <2>3, <2>4, <2>5, <2>6 DEF IInv
<1> QED
  BY <1>1, <1>2, PTL DEF Safe

\* TypeOK holds of every behaviour of the clock, for any bound on its ticks.
THEOREM TypeCorrect == Safe => []TypeOK
<1>1. IInv => TypeOK
  BY DEF IInv
<1> QED
  BY <1>1, Inductive, PTL

\* The two threads never run the part together (NeverBothRun).
THEOREM Exclusion == Safe => []NeverBothRun
<1>1. IInv => NeverBothRun
  BY BatonSays DEF IInv, OneHolder, NeverBothRun
<1> QED
  BY <1>1, Inductive, PTL

\* What tick() returns is the number of cycles the part has made for the
\* clock (TicksAreCycles).
THEOREM Counting == Safe => []TicksAreCycles
<1>1. IInv => TicksAreCycles
  BY DEF IInv, Counted, Untold, HostRuns, TicksAreCycles
<1> QED
  BY <1>1, Inductive, PTL

\* Once on_cycle is given back no worker is inside the part, even after a
\* signal broke a tick and the join gave up (NoStrayCycle).
THEOREM NoStray == Safe => []NoStrayCycle
<1>1. IInv => NoStrayCycle
  <2> SUFFICES ASSUME IInv, hook = "previous" PROVE ~WorkerRuns
    BY DEF NoStrayCycle
  <2>1. host = "idle"
    BY DEF IInv, HostFlags
  <2>2. CASE broken
    BY <2>1, <2>2 DEF IInv, BrokenFlags
  <2>3. CASE ~broken
    BY <2>1, <2>3, BatonSays DEF IInv, OneHolder, HostRuns
  <2> QED
    BY <2>2, <2>3
<1> QED
  BY <1>1, Inductive, PTL

\* Once a clock has ended its count is final, and until then it goes up by
\* one at a time (CountIsFinal).
THEOREM FinalCount == Safe => CountIsFinal
<1>1. IInv /\ [Next]_vars =>
        [cycles' # cycles => (cycles' = cycles + 1 /\ ~closed /\ ~closed')]_vars
  <2> SUFFICES ASSUME IInv, Next, cycles' # cycles
               PROVE  cycles' = cycles + 1 /\ ~closed /\ ~closed'
    BY DEF vars
  <2>1. TickReturns
    BY DEF Next, HostStarts, HostFinishes, Worker, hostVars, TickRefused, Tick, TickBroken,
       Close, CloseAgain, CloseArrives, Joined, WorkerStarts, LoopEnters, LoopEnds,
       ReachedACycle, ReachedACycleThen, StepReturns, StepFails,
       StepFailsReleasing, Resumed, ResumedReleasing, WorkerEnds
  <2>2. ~closed
    BY <2>1 DEF IInv, HostFlags, TickReturns, AnsweredInTurn, Answered
  <2> QED
    BY <2>1, <2>2 DEF TickReturns, AnsweredInTurn, Raises, Counts
<1> QED
  BY <1>1, Inductive, PTL DEF Safe, CountIsFinal

-----------------------------------------------------------------------------
\* How the abstract turn follows from the places of the two threads when no
\* signal breaks a tick.
LEMMA TurnIs ==
    ASSUME IInv, ~broken
    PROVE  /\ (HostRuns /\ ~closed) => Turn = "host"
           /\ (WorkerRuns /\ ~closed) => Turn = "part"
           /\ (host = "ticking" /\ arrived > 0 /\ ~failure) => Turn = "answer"
           /\ failure => Turn = "over"
<1>1. OneHolder
  BY BatonSays DEF IInv
<1>2. TypeOK /\ HostFlags /\ WorkerFlags
  BY DEF IInv
<1>3. (HostRuns /\ ~closed) => Turn = "host"
  BY <1>2 DEF Turn, HostRuns, WorkerFlags
<1>4. (WorkerRuns /\ ~closed) => Turn = "part"
  <2> SUFFICES ASSUME WorkerRuns, ~closed PROVE Turn = "part"
    OBVIOUS
  <2>1. host = "ticking"
    BY <1>1, <1>2 DEF OneHolder, HostRuns, HostFlags, TypeOK, HostAt
  <2>2. arrived = 0
    BY <1>1 DEF OneHolder
  <2> QED
    BY <2>1, <2>2 DEF Turn, WorkerRuns
<1>5. (host = "ticking" /\ arrived > 0 /\ ~failure) => Turn = "answer"
  BY <1>2 DEF Turn, HostFlags, WorkerFlags
<1>6. failure => Turn = "over"
  BY <1>2 DEF Turn, WorkerFlags
<1> QED
  BY <1>3, <1>4, <1>5, <1>6

\* Without signals the two threads implement LockStep: the part makes exactly
\* the cycle it was asked for, one at a time, and nothing after the end.
THEOREM Refinement == (Interruptible = FALSE) => (Safe => LockStepSafe)
<1> SUFFICES ASSUME Interruptible = FALSE PROVE Safe => LockStepSafe
  OBVIOUS
<1>1. Init => Lock!Init
  BY DEF Init, InitWith, Lock!Init, Turn
<1>2. IInv /\ IInv' /\ [Next]_vars => [Lock!Next]_Lock!vars
  <2> SUFFICES ASSUME IInv, IInv', Next PROVE [Lock!Next]_Lock!vars
    BY DEF vars, Lock!vars, Turn
  <2>0. ~broken /\ ~broken'
    BY Zenon DEF IInv, HostFlags
  <2>a. TypeOK /\ HostFlags /\ WorkerFlags /\ OneHolder
    BY <2>0, BatonSays DEF IInv
  <2>b. (HostRuns /\ ~closed) => Turn = "host"
    BY <2>0, TurnIs
  <2>c. (WorkerRuns /\ ~closed) => Turn = "part"
    BY <2>0, TurnIs
  <2>d. (host = "ticking" /\ arrived > 0 /\ ~failure) => Turn = "answer"
    BY <2>0, TurnIs
  <2>e. (failure \/ closed) => Turn = "over"
    BY <2>0, TurnIs DEF Turn
  <2> USE DEF Lock!Next, Lock!vars, hostVars, workerVars
  <2>1. CASE TickRefused \/ CloseAgain
    BY <2>1 DEF TickRefused, CloseAgain, Turn
  <2>2. CASE Tick
    <3>1. Turn = "host"
      BY <2>2, <2>b DEF Tick, HostRuns
    <3>2. Turn' = "part"
      BY <2>0, <2>2, <2>a DEF Tick, Turn, HostRuns, OneHolder, WorkerFlags
    <3> QED
      BY <2>2, <3>1, <3>2 DEF Tick, Lock!Ask
  <2>3. CASE TickBroken
    BY <2>0, <2>3 DEF TickBroken
  <2>4. CASE Close
    <3>1. Turn = "host"
      BY <2>4, <2>b DEF Close, HostRuns
    <3> QED
      BY <2>4, <3>1 DEF Close, Turn, Lock!Stop
  <2>5. CASE TickReturns /\ failure
    BY <2>5, <2>e DEF TickReturns, AnsweredInTurn, Answered, Raises, Turn
  <2>6. CASE TickReturns /\ ~failure
    <3>1. Turn = "answer"
      BY <2>6, <2>d DEF TickReturns, AnsweredInTurn, Answered
    <3>2. ~closed /\ worker \notin {"released", "done"}
      BY <2>6, <2>a DEF TickReturns, AnsweredInTurn, Answered, HostFlags, WorkerFlags
    <3>3. Turn' = "host"
      BY <2>6, <3>2 DEF TickReturns, AnsweredInTurn, Answered, Counts, Turn
    <3> QED
      BY <2>6, <3>1, <3>3 DEF TickReturns, AnsweredInTurn, Answered, Counts, Lock!Answer
  <2>7. CASE CloseArrives \/ Joined
    <3>1. closed
      BY <2>7, <2>a DEF CloseArrives, Joined, HostFlags
    <3> QED
      BY <2>7, <3>1 DEF CloseArrives, Joined, Turn
  <2>8. CASE WorkerStarts \/ LoopEnters \/ StepReturns
    BY <2>8 DEF WorkerStarts, LoopEnters, StepReturns, Turn
  <2>9. CASE LoopEnds
    BY <2>9 DEF LoopEnds, Turn
  <2>10. CASE ReachedACycle
    <3>1. host = "ticking" /\ ~closed /\ arrived = 0
      BY <2>0, <2>10, RunsForATick DEF ReachedACycle, ReachedACycleThen
    <3>2. Turn = "part"
      BY <2>10, <3>1, <2>c DEF ReachedACycle, ReachedACycleThen, WorkerRuns
    <3>3. Turn' = "answer"
      BY <2>10, <3>1 DEF ReachedACycle, ReachedACycleThen, Turn
    <3> QED
      BY <2>10, <3>2, <3>3 DEF ReachedACycle, ReachedACycleThen, Lock!Make
  <2>12. CASE StepFails
    <3>1. ~closed
      BY <2>0, <2>12, RunsForATick DEF StepFails, StepFailsReleasing
    <3>2. Turn = "part"
      BY <2>12, <3>1, <2>c DEF StepFails, StepFailsReleasing, WorkerRuns
    <3> QED
      BY <2>12, <3>2 DEF StepFails, StepFailsReleasing, Turn, Lock!Break
  <2>13. CASE Resumed /\ closed
    BY <2>13 DEF Resumed, ResumedReleasing, Turn
  <2>14. CASE Resumed /\ ~closed
    BY <2>14 DEF Resumed, ResumedReleasing, Turn
  <2>15. CASE WorkerEnds
    BY <2>15 DEF WorkerEnds, Turn
  <2> QED
    BY <2>1, <2>2, <2>3, <2>4, <2>5, <2>6, <2>7, <2>8, <2>9, <2>10, <2>12, <2>13,
       <2>14, <2>15 DEF Next, HostStarts, HostFinishes, Worker
<1> QED
  BY <1>1, <1>2, Inductive, PTL DEF Safe, LockStepSafe, Lock!Safe

-----------------------------------------------------------------------------
(* The composition and its parts.                                          *)

\* Every step of the composition is one of the clock, or none.
LEMMA ClockStep == [ClockedNext]_clockedVars => [Next]_vars
<1> SUFFICES ASSUME [ClockedNext]_clockedVars PROVE [Next]_vars
  OBVIOUS
<1> USE DEF Next, Worker
<1>1. CASE HostClock
  BY <1>1 DEF HostClock
<1>2. CASE HostLines \/ HostCalls \/ HostEntry
  BY <1>2 DEF HostLines, HostCalls, HostEntry
<1>3. CASE WorkerCycle \/ WorkerReturns
  BY <1>3 DEF WorkerCycle, WorkerReturns
<1>4. CASE WorkerFails \/ WorkerResumed
  BY <1>4 DEF WorkerFails, WorkerResumed
<1>5. CASE WorkerSchedules
  BY <1>5 DEF WorkerSchedules
<1>6. CASE UNCHANGED clockedVars
  BY <1>6 DEF clockedVars
<1> QED
  BY <1>1, <1>2, <1>3, <1>4, <1>5, <1>6 DEF ClockedNext, ClockedWorker

\* And one of the part, or none.
LEMMA PartStep == [ClockedNext]_clockedVars => [PartNext]_partVars
<1> SUFFICES ASSUME [ClockedNext]_clockedVars PROVE [PartNext]_partVars
  OBVIOUS
<1>1. CASE HostClock \/ WorkerSchedules
  BY <1>1 DEF HostClock, WorkerSchedules
<1>2. CASE HostLines \/ HostCalls \/ HostEntry
  BY <1>2 DEF HostLines, HostCalls, HostEntry, PartNext, Part
<1>3. CASE WorkerCycle
  BY <1>3 DEF WorkerCycle, PartCycle, PartNext, Part, SamplePins
<1>4. CASE WorkerReturns
  BY <1>4 DEF WorkerReturns, PartNext, Part, SamplePins
<1>5. CASE WorkerFails
  BY <1>5 DEF WorkerFails, PartNext, Part, SamplePins
<1>6. CASE WorkerResumed
  BY <1>6 DEF WorkerResumed, PartNext
<1>7. CASE UNCHANGED clockedVars
  BY <1>7 DEF clockedVars
<1> QED
  BY <1>1, <1>2, <1>3, <1>4, <1>5, <1>6, <1>7 DEF ClockedNext, ClockedWorker

\* A clock on a part that is stalled, interrupted, halted and raised out of is a
\* Clock, and so has its exclusion and its counts.
THEOREM StaysAClock == ClockedSafe => Safe
<1>1. ClockedInit => Init
  BY DEF ClockedInit
<1> QED
  BY <1>1, ClockStep, PTL DEF ClockedSafe, Safe

\* A part whose cycles are asked for one at a time, from another thread, and
\* that is unwound by a close, is still an EightBit.
THEOREM StaysAPart == ClockedSafe => PartSpec
<1>1. ClockedInit => PartInit
  BY DEF ClockedInit
<1> QED
  BY <1>1, PartStep, PTL DEF ClockedSafe, PartSpec

\* Without signals the composition implements LockStep.
THEOREM StaysInStep == (Interruptible = FALSE) => (ClockedSafe => LockStepSafe)
  BY StaysAClock, Refinement, PTL

-----------------------------------------------------------------------------
(* Where the part is when nobody is in it.                                 *)

\* The worker is in the frames of a step.
InStep == worker \in {"within", "paused"}

\* An entry runs on the host's thread, over an instruction whose last cycle is
\* closed or over none; outside a step there is none for it to go back to.
Placed ==
    /\ op = "idle" => ~unsampled
    /\ op = "boundary" => unsampled
    /\ onHost => op = "entry" /\ host = "idle"
    /\ ~InStep => ~unsampled /\ (onHost \/ op = "idle")

\* A close the host has been told of has ended the worker.
Ended == closed /\ (host # "closing" \/ arrived > 0) => worker \in {"released", "done"}

LEMMA EndedStep ==
  ASSUME IInv, ~broken, ~broken', Ended, [Next]_vars
  PROVE  Ended'
<1>1. HostFlags /\ WorkerFlags /\ OneHolder /\ TypeOK
  BY BatonSays DEF IInv
<1> USE <1>1 DEF Ended, hostVars, workerVars, HostFlags, WorkerFlags, OneHolder, HostRuns,
                 WorkerRuns, TypeOK
<1>2. CASE HostStarts
  <2>1. CASE TickRefused \/ CloseAgain
    BY <2>1 DEF TickRefused, CloseAgain
  <2>2. CASE Tick
    BY <2>2 DEF Tick
  <2>3. CASE TickBroken
    BY <2>3 DEF TickBroken
  <2>4. CASE Close
    <3>1. arrived' = 0 /\ host' = "closing"
      BY <2>4 DEF Close
    <3> QED
      BY <3>1
  <2> QED
    BY <1>2, <2>1, <2>2, <2>3, <2>4 DEF HostStarts
<1>3. CASE HostFinishes
  BY <1>3 DEF HostFinishes, TickReturns, AnsweredInTurn, Answered, Raises, Counts,
              CloseArrives, Joined
<1>4. CASE Worker
  BY <1>4 DEF Worker, WorkerStarts, LoopEnters, LoopEnds, ReachedACycle, ReachedACycleThen,
              StepReturns, StepFails, StepFailsReleasing, Resumed, ResumedReleasing, WorkerEnds
<1>5. CASE UNCHANGED vars
  BY <1>5 DEF vars
<1> QED
  BY <1>2, <1>3, <1>4, <1>5 DEF Next

\* Neither place of a part is one of its instructions.
LEMMA Outside == /\ "idle" \notin DOMAIN Length /\ "boundary" \notin DOMAIN Length
                 /\ "entry" \in DOMAIN Length
                 /\ Instructions \subseteq DOMAIN Length \ {"entry"}
  BY DEF Length, Instructions

\* Where a cycle leaves the part.
LEMMA CycleLeads ==
  ASSUME NEW k, NEW m, k \in DOMAIN Length,
         Stall(k, m) \/ Make(k, m)
  PROVE  \/ op' = k /\ unsampled' = unsampled
         \/ op' = "boundary" /\ unsampled' /\ k # "entry"
         \/ /\ k = "entry"
            /\ op' = (IF unsampled THEN "boundary" ELSE "idle")
            /\ unsampled' = unsampled
  BY DEF Stall, Make, Arrive

LEMMA PlacedStep ==
  ASSUME IInv, ~broken, Placed, [ClockedNext]_clockedVars
  PROVE  Placed'
<1>1. OneHolder
  BY BatonSays DEF IInv
<1>2. ASSUME worker \in {"started", "within"} \/ resume > 0 PROVE ~onHost
  BY <1>1, <1>2 DEF Placed, OneHolder, HostRuns, WorkerRuns
<1> USE DEF Placed, InStep
<1>3. CASE HostClock
  <2>1. UNCHANGED worker
    BY <1>3 DEF HostClock, HostStarts, HostFinishes, TickRefused, Tick, TickBroken, Close, CloseAgain,
                TickReturns, AnsweredInTurn, Answered, CloseArrives, Joined, workerVars
  <2> QED
    BY <1>3, <2>1 DEF HostClock, partVars
<1>4. CASE HostLines
  <2>1. UNCHANGED <<op, unsampled, onHost, host, worker>>
    BY <1>4 DEF HostLines, SetLines, SetIrq, SetNmi, SetReady, vars
  <2> QED
    BY <2>1
<1>5. CASE HostCalls
  <2>1. /\ op' = op \/ op' = "entry"
        /\ UNCHANGED <<unsampled, host, worker>>
        /\ host = "idle" /\ ~onHost /\ onHost' = (op' = "entry")
    BY <1>5 DEF HostCalls, Calls, IrqMasked, IrqCall, NmiCall, EntryBegins, vars
  <2>2. op # "entry"
    BY <1>5, Outside DEF HostCalls, Calls, IrqMasked, IrqCall, NmiCall, MayCall, Inside
  <2> QED
    BY <2>1, <2>2
<1>6. CASE HostEntry
  <2>1. op = "entry" /\ onHost' = (op' = "entry") /\ UNCHANGED <<host, worker>> /\ host = "idle"
    BY <1>6 DEF HostEntry, vars
  <2>2. Stall(op, done + 1) \/ Make(op, done + 1)
    BY <1>6 DEF HostEntry, Continue
  <2>3. \/ op' = "entry" /\ unsampled' = unsampled
        \/ op' = (IF unsampled THEN "boundary" ELSE "idle") /\ unsampled' = unsampled
    BY <2>1, <2>2, Outside, CycleLeads
  <2>4. onHost' <=> op' = "entry"
    BY <2>1
  <2> QED
    BY <2>1, <2>3, <2>4, <1>6 DEF HostEntry
<1>7. CASE WorkerCycle
  <2>1. worker' = "paused" /\ ~onHost /\ ~onHost'
    BY <1>2, <1>7 DEF WorkerCycle, ReachedACycle, ReachedACycleThen
  <2>2. (op' = "idle" => ~unsampled') /\ (op' = "boundary" => unsampled')
    <3>1. CASE HeldCycle
      BY <3>1 DEF HeldCycle
    <3>2. ASSUME NEW k \in Kinds, Begin(k)
          PROVE  (op' = "idle" => ~unsampled') /\ (op' = "boundary" => unsampled')
      <4>1. k \in DOMAIN Length /\ k # "entry" /\ (Stall(k, 1) \/ Make(k, 1))
        BY <3>2, Outside DEF Begin, Table
      <4>2. \/ op' = k /\ unsampled' = unsampled
            \/ op' = "boundary" /\ unsampled'
        BY <4>1, CycleLeads
      <4> QED
        BY <4>1, <4>2, Outside
    <3>3. CASE Continue
      <4>1. op \in DOMAIN Length /\ (Stall(op, done + 1) \/ Make(op, done + 1))
        BY <3>3 DEF Continue, Inside
      <4>2. \/ op' = op /\ unsampled' = unsampled
            \/ op' = "boundary" /\ unsampled'
            \/ op' = (IF unsampled THEN "boundary" ELSE "idle") /\ unsampled' = unsampled
        BY <4>1, CycleLeads
      <4> QED
        BY <4>1, <4>2, Outside
    <3>4. CASE SampleEnters
      BY <3>4 DEF SampleEnters, EntryBegins
    <3> QED
      BY <1>7, <3>1, <3>2, <3>3, <3>4 DEF WorkerCycle, PartCycle
  <2> QED
    BY <2>1, <2>2
<1>8. CASE WorkerReturns \/ WorkerFails
  <2>1. ~onHost /\ ~onHost'
    BY <1>2, <1>8 DEF WorkerReturns, WorkerFails, StepReturns, StepFails, StepFailsReleasing
  <2>2. op' = "idle" /\ ~unsampled'
    BY <1>8 DEF WorkerReturns, WorkerFails, SampleSkipped, SampleNothing, Unwind, partVars
  <2> QED
    BY <2>1, <2>2
<1>9. CASE WorkerResumed
  <2>1. /\ worker = "paused" /\ ~onHost /\ ~onHost'
        /\ ~closed => worker' = "within"
    BY <1>2, <1>9 DEF WorkerResumed, Resumed, ResumedReleasing
  <2>2. CASE closed /\ op # "idle"
    BY <1>9, <2>1, <2>2 DEF WorkerResumed, Unwind
  <2>3. CASE ~(closed /\ op # "idle")
    BY <1>9, <2>1, <2>3 DEF WorkerResumed, partVars
  <2> QED
    BY <2>2, <2>3
<1>10. CASE WorkerSchedules
  <2>1. worker \notin {"within", "paused"} /\ UNCHANGED <<host, op, unsampled, onHost>>
    BY <1>10 DEF WorkerSchedules, WorkerStarts, LoopEnters, LoopEnds, WorkerEnds, partVars, hostVars
  <2> QED
    BY <2>1
<1>11. CASE UNCHANGED clockedVars
  BY <1>11 DEF clockedVars, vars, partVars
<1> QED
  BY <1>3, <1>4, <1>5, <1>6, <1>7, <1>8, <1>9, <1>10, <1>11 DEF ClockedNext, ClockedWorker

\* Once close() has returned, or a failure has reached the host, step() may be
\* called on the part and irq() and nmi() are not refused.
THEOREM ClosedIsUsable == (Interruptible = FALSE) => (ClockedSafe => []ClosedPartIsUsable)
<1> SUFFICES ASSUME Interruptible = FALSE PROVE ClockedSafe => []ClosedPartIsUsable
  OBVIOUS
<1>1. IInv => ~broken
  BY DEF IInv, HostFlags
<1>2. ClockedInit => Placed /\ Ended
  BY DEF ClockedInit, Init, InitWith, PartInit, Placed, InStep, Ended
<1>3. IInv /\ IInv' /\ Placed /\ Ended /\ [ClockedNext]_clockedVars => Placed' /\ Ended'
  <2>1. IInv' => ~broken'
    BY DEF IInv, HostFlags
  <2> QED
    BY <1>1, <2>1, ClockStep, PlacedStep, EndedStep
<1>4. IInv /\ Placed /\ Ended => ClosedPartIsUsable
  BY Outside DEF Placed, InStep, Ended, ClosedPartIsUsable, MayCall, Inside, entry_pending
<1>5. ClockedSafe => []IInv
  BY StaysAClock, Inductive, PTL
<1> QED
  BY <1>2, <1>3, <1>4, <1>5, PTL DEF ClockedSafe

-----------------------------------------------------------------------------
(* EightBit, on its own.                                                   *)

\* What the proofs need of the table of lengths.
LEMMA Lengths ==
    /\ \A k \in DOMAIN Length : Length[k] \in 1..7
    /\ "entry" \in DOMAIN Length
    /\ Length["entry"] = 7
    /\ "idle" \notin DOMAIN Length
    /\ "boundary" \notin DOMAIN Length
    /\ Instructions \subseteq DOMAIN Length
    /\ "entry" \notin Instructions
  BY DEF Length, Instructions

-----------------------------------------------------------------------------
(* The part does not change.                                               *)

ModelType == model \in Packages

\* A step of the system is a step of one part.
LEMMA SameModel ==
    ASSUME [PartNext]_partVars
    PROVE  model' = model /\ Cmos' = Cmos
<1>1. model' = model
  BY Zenon DEF PartNext, Part, Begin, Continue, Stall, Make, SamplePins, SampleSkipped,
     SampleNothing, SampleEnters, HeldCycle, EntryBegins, SetLines, SetIrq, SetNmi, SetReady,
     Calls, IrqMasked, IrqCall, NmiCall, Reset, Unwind, partVars
<1> QED
  BY <1>1 DEF Cmos

\* A part is a CMOS one or it is not.
LEMMA CmosType ==
    ASSUME ModelType
    PROVE  Cmos \in BOOLEAN
<1>1. model.cmos = TRUE \/ model.cmos = FALSE
  BY DEF ModelType, Packages
<1> QED
  BY <1>1, Zenon DEF Cmos

-----------------------------------------------------------------------------
(* The types of the variables.                                             *)

\* TypeOK in parts, by the kind of value.
Where ==
    /\ op \in Instructions \cup {"entry", "idle", "boundary"}
    /\ done \in 0..6
    /\ op \in {"idle", "boundary"} => done = 0
    /\ Inside => done < Length[op]
    /\ last \in Instructions \cup {"none"}
    /\ due \in 0..MaxDue

Depth ==
    /\ op = "boundary" => unsampled
    /\ op = "idle" => ~unsampled

Lines == irq_line \in BOOLEAN /\ nmi_line \in BOOLEAN /\ ready_line \in BOOLEAN

PartFlags ==
    /\ unsampled \in BOOLEAN
    /\ i \in BOOLEAN
    /\ nmi_seen \in BOOLEAN
    /\ poll_skipped \in BOOLEAN
    /\ stopped \in BOOLEAN
    /\ waiting \in BOOLEAN
    /\ edge \in BOOLEAN
    /\ low \in BOOLEAN
    /\ quiet \in BOOLEAN
    /\ irqHeld \in BOOLEAN

\* A poll records the two inputs and the flag, and nothing else.
PolledType == polled \in [irq : BOOLEAN, nmi : BOOLEAN, i : BOOLEAN]

\* What a poll would record now has that type.
LEMMA NowType ==
    ASSUME Lines, PartFlags
    PROVE  Now \in [irq : BOOLEAN, nmi : BOOLEAN, i : BOOLEAN]
  BY DEF Now, Lines, PartFlags

\* The flags and lines after one cycle, whichever it is.
CycleFlags ==
    /\ unsampled \in BOOLEAN
    /\ i \in BOOLEAN
    /\ nmi_seen \in BOOLEAN
    /\ poll_skipped \in BOOLEAN
    /\ stopped \in BOOLEAN
    /\ waiting \in BOOLEAN
    /\ edge \in BOOLEAN
    /\ quiet \in BOOLEAN

\* A bus cycle, made or stalled, keeps the lines and the flags Boolean.
LEMMA CycleFlagsKept ==
    ASSUME NEW k, NEW m, Lines, CycleFlags, Cmos \in BOOLEAN, Stall(k, m) \/ Make(k, m)
    PROVE  Lines' /\ CycleFlags'
<1>1. CASE Stall(k, m)
  BY <1>1, Zenon DEF Stall, Lines, CycleFlags, lines, halts
<1>2. CASE Make(k, m)
  <2> USE <1>2 DEF Make, CycleFlags
  <2>1. Lines'
    BY Zenon DEF Lines, lines
  <2>2. i' \in BOOLEAN
    BY Zenon DEF MaskAfter
  <2>3. nmi_seen' \in BOOLEAN /\ edge' \in BOOLEAN /\ quiet' \in BOOLEAN
    BY Zenon DEF EdgeAnswered
  <2>4. poll_skipped' \in BOOLEAN
    BY Zenon DEF skips_poll_after_break
  <2>5. stopped' \in BOOLEAN /\ waiting' \in BOOLEAN
    BY Zenon
  <2>6. unsampled' \in BOOLEAN
    BY Zenon DEF Arrive
  <2> QED
    BY <2>1, <2>2, <2>3, <2>4, <2>5, <2>6 DEF CycleFlags
<1> QED
  BY <1>1, <1>2

\* So does every other step of the part and every move of the program.
LEMMA PartFlagsKept ==
    ASSUME Lines, PartFlags, Cmos \in BOOLEAN, [PartNext]_partVars,
           Seen \in BOOLEAN
    PROVE  Lines' /\ PartFlags'
<1>0. CycleFlags
  BY DEF PartFlags, CycleFlags
<1>1. CASE \E k \in Kinds : Begin(k)
  <2>1. PICK k \in Kinds : Begin(k)
    BY <1>1
  <2>2. Stall(k, 1) \/ Make(k, 1)
    BY <2>1 DEF Begin
  <2>3. Lines' /\ CycleFlags'
    BY <1>0, <2>2, CycleFlagsKept
  <2>4. low' \in BOOLEAN /\ irqHeld' \in BOOLEAN
    BY <2>1, Zenon DEF Begin
  <2> QED
    BY <2>3, <2>4 DEF PartFlags, CycleFlags
<1>2. CASE Continue
  <2>1. Stall(op, done + 1) \/ Make(op, done + 1)
    BY <1>2 DEF Continue
  <2>2. Lines' /\ CycleFlags'
    BY <1>0, <2>1, CycleFlagsKept
  <2>3. low' \in BOOLEAN /\ irqHeld' \in BOOLEAN
    BY <1>2, Zenon DEF Continue, PartFlags
  <2> QED
    BY <2>2, <2>3 DEF PartFlags, CycleFlags
<1>3. CASE SampleSkipped
  BY <1>3, Zenon DEF SampleSkipped, PassedBy, PartFlags, Lines, lines, halts
<1>4. CASE SampleNothing
  BY <1>4, Zenon DEF SampleNothing, PassedBy, PartFlags, Lines, lines
<1>5. CASE SampleEnters
  <2> USE <1>5 DEF SampleEnters
  <2>1. Lines'
    BY Zenon DEF EntryBegins, Lines, lines
  <2>2. edge' \in BOOLEAN /\ quiet' \in BOOLEAN /\ low' \in BOOLEAN
    BY Zenon DEF EdgeAnswered, PassedBy, PartFlags
  <2>3. unsampled' \in BOOLEAN /\ nmi_seen' \in BOOLEAN /\ waiting' \in BOOLEAN
    BY Zenon
  <2>4. i' \in BOOLEAN /\ stopped' \in BOOLEAN /\ poll_skipped' \in BOOLEAN /\ irqHeld' \in BOOLEAN
    BY Zenon DEF EntryBegins, PartFlags
  <2> QED
    BY <2>1, <2>2, <2>3, <2>4 DEF PartFlags
<1>6. CASE HeldCycle
  BY <1>6 DEF HeldCycle, PartFlags, Lines, lines, halts, nmiHistory
<1>6a. CASE IrqMasked
  <2> USE <1>6a DEF IrqMasked
  <2>1. Lines'
    BY Zenon DEF Lines, lines
  <2>2. UNCHANGED <<unsampled, i, nmi_seen, poll_skipped, stopped, edge, low, quiet, irqHeld>>
    BY Zenon DEF nmiHistory
  <2>3. waiting' \in BOOLEAN
    BY Zenon
  <2> QED
    BY <2>1, <2>2, <2>3, Zenon DEF PartFlags
<1>7. CASE IrqCall \/ NmiCall
  <2>1. EntryBegins /\ waiting' = FALSE /\ UNCHANGED <<unsampled, nmi_seen, poll_skipped, nmiHistory>>
    BY <1>7, Zenon DEF IrqCall, NmiCall
  <2>2. Lines'
    BY <2>1, Zenon DEF EntryBegins, Lines, lines
  <2>3. i' \in BOOLEAN /\ stopped' \in BOOLEAN /\ waiting' \in BOOLEAN /\ irqHeld' \in BOOLEAN
    BY <2>1, Zenon DEF EntryBegins, PartFlags
  <2>4. UNCHANGED <<unsampled, nmi_seen, poll_skipped, edge, low, quiet>>
    BY <2>1, Zenon DEF nmiHistory
  <2> QED
    BY <2>2, <2>3, <2>4, Zenon DEF PartFlags
<1>8. CASE SetIrq
  BY <1>8, Zenon DEF SetIrq, PartFlags, Lines, halts, nmiHistory
<1>9. CASE SetNmi
  BY <1>9, Zenon DEF SetNmi, PartFlags, Lines, halts
<1>10. CASE SetReady
  BY <1>10 DEF SetReady, PartFlags, Lines, halts, nmiHistory
<1>11. CASE Reset
  BY <1>11, Zenon DEF Reset, PartFlags, Lines, lines, nmiHistory
<1>12. CASE Unwind
  BY <1>12, ZenonT(40) DEF Unwind, PartFlags, Lines, lines, halts, nmiHistory
<1>13. CASE UNCHANGED partVars
  BY <1>13 DEF partVars, PartFlags, Lines, lines, halts, nmiHistory
<1> QED
  BY <1>1, <1>2, <1>3, <1>4, <1>5, <1>6, <1>6a, <1>7, <1>8, <1>9, <1>10, <1>11, <1>12, <1>13
     DEF PartNext, Part, SamplePins, SetLines, Calls

\* A step leaves the poll as it is, or as one just made.
LEMMA PolledKept ==
    ASSUME Lines, PartFlags, PolledType, [PartNext]_partVars
    PROVE  PolledType'
<1>0. Now \in [irq : BOOLEAN, nmi : BOOLEAN, i : BOOLEAN]
  BY NowType
<1>1. polled' \in {polled, Now, [Now EXCEPT !.i = TRUE]}
  BY Zenon DEF PartNext, Part, Begin, Continue, Stall, Make, Spend, SamplePins, SampleSkipped,
     SampleNothing, SampleEnters, HeldCycle, EntryBegins, SetLines, SetIrq, SetNmi, SetReady,
     Calls, IrqMasked, IrqCall, NmiCall, Reset, Unwind, partVars
<1>2. [Now EXCEPT !.i = TRUE] \in [irq : BOOLEAN, nmi : BOOLEAN, i : BOOLEAN]
  BY <1>0
<1> QED
  BY <1>0, <1>1, <1>2 DEF PolledType

\* One cycle, stalled or made, keeps op and done together.
LEMMA CycleWhere ==
    ASSUME NEW k \in Instructions \cup {"entry"}, NEW m \in 1..Length[k], Where,
           Stall(k, m) \/ Make(k, m)
    PROVE  Where' /\ Depth'
<1> USE Lengths DEF Where, Inside
<1>0. m \in 1..7 /\ Length[k] \in 1..7
  OBVIOUS
<1>1. CASE Stall(k, m)
  <2>1. op' = k /\ done' = m - 1 /\ last' = last /\ due' = due
    BY <1>1 DEF Stall
  <2> QED
    BY <1>0, <2>1 DEF Depth
<1>2. CASE Make(k, m)
  <2>1. due' \in 0..MaxDue
    BY <1>2 DEF Make, EdgeAnswered, MaxDue
  <2>2. CASE m < Length[k]
    <3>1. op' = k /\ done' = m /\ last' = last
      BY <1>2, <2>2 DEF Make, Arrive
    <3> QED
      BY <1>0, <2>1, <2>2, <3>1 DEF Depth
  <2>3. CASE ~(m < Length[k]) /\ k = "entry"
    <3>1. /\ op' = IF unsampled THEN "boundary" ELSE "idle"
          /\ done' = 0 /\ last' = last /\ unsampled' = unsampled
      BY <1>2, <2>3 DEF Make, Arrive
    <3> QED
      BY <2>1, <2>3, <3>1 DEF Depth
  <2>4. CASE ~(m < Length[k]) /\ k # "entry"
    <3>1. op' = "boundary" /\ done' = 0 /\ last' = k /\ unsampled' = TRUE
      BY <1>2, <2>4 DEF Make, Arrive
    <3> QED
      BY <2>1, <2>4, <3>1 DEF Depth
  <2> QED
    BY <2>2, <2>3, <2>4
<1> QED
  BY <1>1, <1>2

\* A step leaves the part between instructions, at a boundary, or at a cycle that
\* its operation has, and never owes more cycles than an instruction skips.
LEMMA WhereKept ==
    ASSUME Where, Depth, KindsAssumption, [PartNext]_partVars
    PROVE  Where' /\ Depth'
<1>1. CASE \E k \in Kinds : Begin(k)
  <2>1. PICK k \in Kinds : Stall(k, 1) \/ Make(k, 1)
    BY <1>1 DEF Begin
  <2>2. k \in Instructions \cup {"entry"} /\ 1 \in 1..Length[k]
    BY Lengths DEF KindsAssumption
  <2> QED
    BY <2>1, <2>2, CycleWhere
<1>2. CASE Continue
  <2>1. op \in Instructions \cup {"entry"} /\ done + 1 \in 1..Length[op]
    BY <1>2, Lengths DEF Continue, Inside, Where
  <2>2. Stall(op, done + 1) \/ Make(op, done + 1)
    BY <1>2 DEF Continue
  <2> QED
    BY <2>1, <2>2, CycleWhere
<1>3. CASE SampleSkipped \/ SampleNothing
  <2>1. op' = "idle" /\ done' = done /\ last' = last /\ unsampled' = FALSE /\ PassedBy
        /\ op = "boundary"
    BY <1>3 DEF SampleSkipped, SampleNothing
  <2> QED
    BY <2>1, Lengths DEF PassedBy, Where, Depth, Inside, MaxDue
<1>4. CASE SampleEnters
  <2>1. EntryBegins /\ (EdgeAnswered \/ PassedBy)
    BY <1>4, Zenon DEF SampleEnters
  <2>2. op' = "entry" /\ done' \in 0..1 /\ last' = last
    BY <2>1 DEF EntryBegins
  <2>3. due' \in 0..MaxDue
    BY <2>1 DEF EdgeAnswered, PassedBy, Where, MaxDue
  <2> QED
    BY <2>2, <2>3, Lengths DEF Where, Depth, Inside
<1>5. CASE IrqCall \/ NmiCall
  <2>1. op' = "entry" /\ done' \in 0..1 /\ last' = last
    BY <1>5 DEF IrqCall, NmiCall, EntryBegins
  <2>2. due' = due
    BY <1>5 DEF IrqCall, NmiCall, nmiHistory
  <2> QED
    BY <2>1, <2>2, Lengths DEF Where, Depth, Inside
<1>6. CASE SetNmi
  BY <1>6 DEF SetNmi, Where, Depth, Inside, MaxDue
<1>7. CASE Unwind
  <2>1. op' = "idle" /\ done' = 0 /\ last' = last /\ unsampled' = FALSE
    BY <1>7 DEF Unwind
  <2>2. due' = due
    BY <1>7 DEF Unwind, nmiHistory
  <2> QED
    BY <2>1, <2>2, Lengths DEF Where, Depth, Inside
<1>8. CASE HeldCycle \/ IrqMasked \/ SetIrq \/ SetReady \/ Reset \/ UNCHANGED partVars
  <2>1. op' = op /\ done' = done /\ last' = last /\ unsampled' = unsampled
    BY <1>8 DEF HeldCycle, IrqMasked, SetIrq, SetReady, Reset, partVars
  <2>2. due' = due
    BY <1>8 DEF HeldCycle, IrqMasked, SetIrq, SetReady, Reset, partVars, nmiHistory
  <2> QED
    BY <2>1, <2>2 DEF Where, Depth, Inside
<1> QED
  BY <1>1, <1>2, <1>3, <1>4, <1>5, <1>6, <1>7, <1>8
     DEF PartNext, Part, SamplePins, SetLines, Calls

-----------------------------------------------------------------------------
\* TypeOK in the parts the lemmas above keep.
LEMMA TypeIs == PartTypeOK <=> ModelType /\ Where /\ Depth /\ Lines /\ PartFlags /\ PolledType
  BY Zenon DEF PartTypeOK, ModelType, Where, Depth, Lines, PartFlags, PolledType

\* Every variable keeps its type, whatever the program runs and whatever the
\* lines and the calls of irq(), nmi() and reset() do.
THEOREM PartTypeCorrect == PartSpec => []PartTypeOK
<1> DEFINE Typed == ModelType /\ Where /\ Depth /\ Lines /\ PartFlags /\ PolledType
<1>1. PartInit => Typed
  <2> SUFFICES ASSUME PartInit PROVE Typed
    OBVIOUS
  <2>1. Where /\ Depth
    BY Lengths DEF PartInit, Where, Depth, Inside, MaxDue
  <2>2. Lines
    BY DEF PartInit, Lines
  <2>3. PartFlags
    BY Zenon DEF PartInit, PartFlags
  <2>4. PolledType
    BY DEF PartInit, PolledType
  <2>5. ModelType
    BY ModelsAssumption DEF PartInit, ModelType
  <2> QED
    BY <2>1, <2>2, <2>3, <2>4, <2>5
<1>2. Typed /\ [PartNext]_partVars => Typed'
  <2> SUFFICES ASSUME Typed, [PartNext]_partVars PROVE Typed'
    OBVIOUS
  <2>1. Seen \in BOOLEAN
    <3>1. CASE Cmos
      BY <3>1, Zenon DEF Seen, Polled, Lines, Now
    <3>2. CASE ~Cmos
      BY <3>2 DEF Seen, Polled, PolledType
    <3> QED
      BY <3>1, <3>2
  <2>2. Lines' /\ PartFlags'
    BY <2>1, PartFlagsKept, CmosType
  <2>3. PolledType'
    BY PolledKept
  <2>4. Where' /\ Depth'
    BY WhereKept, KindsAssumption
  <2>5. ModelType'
    BY SameModel DEF ModelType
  <2> QED
    BY <2>2, <2>3, <2>4, <2>5
<1>3. Typed => PartTypeOK
  BY TypeIs
<1> QED
  BY <1>1, <1>2, <1>3, PTL DEF PartSpec

-----------------------------------------------------------------------------
(* An edge interrupts once.                                                *)

\* A raised line no edge accounts for has been seen, by the flag and, on an
\* NMOS part, through the poll it answers from; and a line the poll has not
\* caught up with is an edge.
Accounted ==
    /\ nmi_line /\ ~edge => nmi_seen
    /\ ~Cmos /\ polled.nmi /\ ~edge => nmi_seen
    /\ nmi_line /\ ~polled.nmi => edge

\* What one step may do to the line, the edge, the flag and the poll.
Unheard ==
    /\ nmi_line' = nmi_line /\ edge' = edge /\ nmi_seen' = nmi_seen
    /\ polled' = polled \/ polled'.nmi = nmi_line

Turned == edge' = (edge \/ nmi_line') /\ nmi_seen' = nmi_seen /\ polled' = polled

TakenOver ==
    /\ nmi_line' = nmi_line /\ ~edge' /\ nmi_seen'
    /\ polled'.nmi = nmi_line

Sampled ==
    /\ nmi_line' = nmi_line
    /\ nmi_seen' = Polled.nmi
    /\ polled' = polled \/ polled'.nmi = nmi_line
    /\ \/ Taken = "nmi" /\ ~edge' /\ polled'.nmi = nmi_line
       \/ Taken # "nmi" /\ edge' = edge

\* A bus cycle leaves the edge alone, but for a BRK's vector fetch taken over.
LEMMA CycleMoves ==
    ASSUME NEW k, NEW m, Stall(k, m) \/ Make(k, m)
    PROVE  Unheard \/ TakenOver
<1>0. Now.nmi = nmi_line
  BY DEF Now
<1>1. CASE Stall(k, m)
  <2>1. nmi_line' = nmi_line /\ edge' = edge /\ nmi_seen' = nmi_seen
    BY <1>1 DEF Stall, lines
  <2>2. polled' = polled \/ polled' = Now
    BY <1>1 DEF Stall, Spend
  <2> QED
    BY <1>0, <2>1, <2>2 DEF Unheard
<1>2. CASE Make(k, m)
  <2>1. nmi_line' = nmi_line
    BY <1>2 DEF Make, lines
  <2>2. Spend(k, m)
    BY <1>2 DEF Make
  <2>3. CASE <<k, m>> = <<"brk", 5>> /\ nmi_takes_over_break
    <3>1. nmi_seen' = TRUE /\ edge' = FALSE
      BY <1>2, <2>3 DEF Make, EdgeAnswered
    <3>2. polled' = Now
      BY <2>2, <2>3 DEF Spend
    <3> QED
      BY <1>0, <2>1, <3>1, <3>2 DEF TakenOver
  <2>4. CASE ~(<<k, m>> = <<"brk", 5>> /\ nmi_takes_over_break)
    <3>1. nmi_seen' = nmi_seen /\ edge' = edge
      BY <1>2, <2>4, Zenon DEF Make
    <3>2. polled' = polled \/ polled' = Now
      BY <2>2 DEF Spend
    <3> QED
      BY <1>0, <2>1, <3>1, <3>2 DEF Unheard
  <2> QED
    BY <2>3, <2>4
<1> QED
  BY <1>1, <1>2

\* Every step of the system does one of four things to the NMI's history.
LEMMA Moves ==
    ASSUME [PartNext]_partVars
    PROVE  Unheard \/ Turned \/ TakenOver \/ Sampled
<1>0. Now.nmi = nmi_line /\ [Now EXCEPT !.i = TRUE].nmi = nmi_line
  BY DEF Now
<1>1. CASE \E k \in Kinds : Begin(k)
  <2>1. PICK k \in Kinds : Stall(k, 1) \/ Make(k, 1)
    BY <1>1 DEF Begin
  <2> QED
    BY <2>1, CycleMoves
<1>2. CASE Continue
  <2>1. Stall(op, done + 1) \/ Make(op, done + 1)
    BY <1>2 DEF Continue
  <2> QED
    BY <2>1, CycleMoves
<1>3. CASE SampleSkipped
  BY <1>3 DEF SampleSkipped, PassedBy, Unheard, lines
<1>4. CASE SampleNothing
  <2>1. Taken = "none" /\ nmi_seen' = Polled.nmi
    BY <1>4 DEF SampleNothing, Seen
  <2>2. nmi_line' = nmi_line /\ polled' = polled /\ edge' = edge
    BY <1>4 DEF SampleNothing, PassedBy, lines
  <2> QED
    BY <2>1, <2>2 DEF Sampled
<1>5. CASE SampleEnters
  <2>1. nmi_seen' = Polled.nmi /\ EntryBegins
    BY <1>5 DEF SampleEnters, Seen
  <2>2. nmi_line' = nmi_line /\ polled' = Now
    BY <2>1 DEF EntryBegins, lines
  <2>3. CASE Taken = "nmi"
    <3>1. edge' = FALSE
      BY <1>5, <2>3 DEF SampleEnters, EdgeAnswered
    <3> QED
      BY <1>0, <2>1, <2>2, <2>3, <3>1 DEF Sampled
  <2>4. CASE Taken # "nmi"
    <3>1. edge' = edge
      BY <1>5, <2>4 DEF SampleEnters, PassedBy
    <3> QED
      BY <1>0, <2>1, <2>2, <2>4, <3>1 DEF Sampled
  <2> QED
    BY <2>3, <2>4
<1>6. CASE IrqCall \/ NmiCall
  <2>1. nmi_line' = nmi_line /\ polled' = Now
    BY <1>6 DEF IrqCall, NmiCall, EntryBegins, lines
  <2>2. nmi_seen' = nmi_seen /\ edge' = edge
    BY <1>6 DEF IrqCall, NmiCall, nmiHistory
  <2> QED
    BY <1>0, <2>1, <2>2 DEF Unheard
<1>7. CASE SetNmi
  BY <1>7 DEF SetNmi, Turned
<1>8. CASE HeldCycle \/ IrqMasked \/ SetIrq \/ SetReady \/ Reset \/ Unwind \/ UNCHANGED partVars
  <2>1. nmi_line' = nmi_line
    BY <1>8 DEF HeldCycle, IrqMasked, SetIrq, SetReady, Reset, Unwind, partVars, lines
  <2>2. edge' = edge
    BY <1>8 DEF HeldCycle, IrqMasked, SetIrq, SetReady, Reset, Unwind, partVars,
           nmiHistory
  <2>3. nmi_seen' = nmi_seen
    BY <1>8 DEF HeldCycle, IrqMasked, SetIrq, SetReady, Reset, Unwind, partVars
  <2>4. polled' \in {polled, Now, [Now EXCEPT !.i = TRUE]}
    BY <1>8 DEF HeldCycle, IrqMasked, SetIrq, SetReady, Reset, Unwind, partVars
  <2> QED
    BY <1>0, <2>1, <2>2, <2>3, <2>4 DEF Unheard
<1> QED
  BY <1>1, <1>2, <1>3, <1>4, <1>5, <1>6, <1>7, <1>8
     DEF PartNext, Part, SamplePins, SetLines, Calls

\* None of the four loses an edge or invents one.
LEMMA AccountKept ==
    ASSUME Accounted, [PartNext]_partVars
    PROVE  Accounted'
<1>0. Cmos' = Cmos
  BY SameModel
<1>1. CASE Unheard
  BY <1>0, <1>1 DEF Unheard, Accounted
<1>2. CASE Turned
  BY <1>0, <1>2 DEF Turned, Accounted
<1>3. CASE TakenOver
  BY <1>0, <1>3 DEF TakenOver, Accounted
<1>4. CASE Sampled
  <2>1. Taken = "nmi" => Polled.nmi
    BY DEF Taken, sampled_line
  <2>2. Polled.nmi = IF Cmos THEN nmi_line ELSE polled.nmi
    BY DEF Polled, Now
  <2> QED
    BY <1>0, <1>4, <2>1, <2>2 DEF Sampled, Accounted
<1> QED
  BY <1>1, <1>2, <1>3, <1>4, Moves

\* A change of the non-maskable line is answered once, for every set of
\* instructions: no poll, no BRK and no call enters an NMI nothing asked for.
THEOREM EdgeInterruptsOnce == PartSpec => []NmiOncePerEdge
<1>1. PartInit => Accounted
  BY DEF PartInit, Accounted
<1>2. Accounted /\ [PartNext]_partVars => Accounted'
  BY AccountKept
<1>3. Accounted => NmiOncePerEdge
  <2> SUFFICES ASSUME Accounted PROVE NmiOncePerEdge
    OBVIOUS
  <2>1. ASSUME Taken = "nmi" PROVE edge
    <3>1. Polled.nmi /\ ~nmi_seen
      BY <2>1 DEF Taken, sampled_line
    <3>2. Polled.nmi = IF Cmos THEN nmi_line ELSE polled.nmi
      BY DEF Polled, Now
    <3> QED
      BY <3>1, <3>2 DEF Accounted
  <2>2. ASSUME nmi_takes_over_break PROVE edge
    BY <2>2 DEF nmi_takes_over_break, Accounted
  <2> QED
    BY <2>1, <2>2 DEF NmiOncePerEdge
<1> QED
  BY <1>1, <1>2, <1>3, PTL DEF PartSpec

-----------------------------------------------------------------------------
(* And is answered.                                                        *)

\* An edge passed over is in the poll of every instruction after it, and a BRK
\* among them has yet to fetch its vector.
Due ==
    /\ due = 1 /\ quiet /\ nmi_line /\ ~Cmos /\ ~poll_skipped
    /\ op # "idle" => polled.nmi
    /\ op = "brk" => done <= 4

Unanswered ==
    /\ low => ~nmi_line /\ ~polled.nmi
    /\ Cmos => ~poll_skipped
    /\ quiet => ~nmi_seen
    /\ due = 0 \/ Due

\* A bus cycle polls the line, and a BRK's fifth answers it.
LEMMA CycleAnswers ==
    ASSUME NEW k \in Instructions \cup {"entry"}, NEW m \in 1..Length[k],
           Stall(k, m) \/ Make(k, m), Unanswered, "nmi" \in model.pins, Cmos' = Cmos,
           low' = low \/ low' = ~nmi_line, m = 1 \/ (low' = low /\ op = k /\ done = m - 1)
    PROVE  Unanswered'
<1>0. Now.nmi = nmi_line
  BY DEF Now
<1>1. k # "idle" /\ m \in 1..7
  BY Lengths
<1>2. nmi_line' = nmi_line
  BY DEF Stall, Make, lines
<1>3. polled' = Now \/ (k = "branch" /\ m = 3 /\ polled' = polled)
  BY DEF Stall, Make, Spend
<1>4. low' => ~nmi_line' /\ ~polled'.nmi
  <2>1. CASE polled' = Now
    <3>1. low' => ~nmi_line
      BY DEF Unanswered
    <3> QED
      BY <1>0, <1>2, <2>1, <3>1
  <2>2. CASE m = 3 /\ polled' = polled
    <3>1. low' = low
      BY <2>2
    <3> QED
      BY <1>2, <2>2, <3>1 DEF Unanswered
  <2> QED
    BY <1>3, <2>1, <2>2
<1>5. due = 0 \/ polled'.nmi
  BY <1>0, <1>1, <1>3 DEF Unanswered, Due
<1>6. CASE Stall(k, m)
  <2>1. UNCHANGED <<poll_skipped, nmi_seen, quiet, due>> /\ op' = k /\ done' = m - 1
    BY <1>6 DEF Stall
  <2>2. due = 0 \/ (k = "brk" => m - 1 <= 4)
    BY <1>1 DEF Unanswered, Due
  <2> QED
    BY <1>2, <1>4, <1>5, <2>1, <2>2 DEF Unanswered, Due
<1>7. CASE Make(k, m) /\ <<k, m>> = <<"brk", 5>> /\ nmi_takes_over_break
  <2>1. quiet' = FALSE /\ due' = 0 /\ poll_skipped' = poll_skipped
    BY <1>7 DEF Make, EdgeAnswered
  <2> QED
    BY <1>4, <2>1 DEF Unanswered
<1>8. CASE Make(k, m) /\ ~(<<k, m>> = <<"brk", 5>> /\ nmi_takes_over_break)
  <2>1. nmi_seen' = nmi_seen /\ quiet' = quiet /\ due' = due
    BY <1>8, Zenon DEF Make
  <2>2. poll_skipped' = IF <<k, m>> = <<"brk", 7>> THEN skips_poll_after_break ELSE poll_skipped
    BY <1>8 DEF Make
  <2>3. Cmos' => ~poll_skipped'
    BY <2>2 DEF skips_poll_after_break, Unanswered
  <2>4. CASE due = 0
    BY <1>4, <2>1, <2>3, <2>4 DEF Unanswered
  <2>5. CASE due # 0
    <3>1. Due
      BY <2>5 DEF Unanswered
    <3>2. nmi_takes_over_break
      BY <3>1 DEF nmi_takes_over_break, Due, Unanswered
    <3>3. k = "brk" => m <= 4
      <4>1. ASSUME k = "brk" PROVE m # 5 /\ (m = 1 \/ m - 1 <= 4)
        BY <1>8, <3>1, <3>2, <4>1 DEF Due
      <4> QED
        BY <1>1, <4>1
    <3>4. poll_skipped' = poll_skipped
      BY <2>2, <3>3
    <3>5. op' = "brk" => k = "brk" /\ done' <= 4
      <4>1. CASE m < Length[k]
        BY <1>8, <3>3, <4>1 DEF Make, Arrive
      <4>2. CASE ~(m < Length[k])
        BY <1>8, <4>2 DEF Make, Arrive
      <4> QED
        BY <4>1, <4>2
    <3> QED
      BY <1>2, <1>4, <1>5, <2>1, <2>3, <3>1, <3>4, <3>5 DEF Unanswered, Due
  <2> QED
    BY <2>4, <2>5
<1> QED
  BY <1>6, <1>7, <1>8

\* A look at the pins that answers nothing on the line has not passed it over before.
LEMMA LookAnswers ==
    ASSUME Unanswered, SamplePins, "nmi" \in model.pins, Cmos' = Cmos
    PROVE  Unanswered'
<1>1. nmi_line' = nmi_line /\ op = "boundary" /\ "boundary" # "idle"
  BY DEF SamplePins, SampleSkipped, SampleNothing, SampleEnters, EntryBegins, lines
<1>2. Polled.nmi = IF Cmos THEN nmi_line ELSE polled.nmi
  BY DEF Polled, Now
<1>3. low => ~nmi_line /\ ~polled.nmi /\ ~Polled.nmi
  BY <1>2 DEF Unanswered
<1>4. polled' = polled \/ polled' = Now
  BY DEF SamplePins, SampleSkipped, SampleNothing, SampleEnters, EntryBegins
<1>5. Now.nmi = nmi_line
  BY DEF Now
<1>6. CASE SampleEnters /\ Taken = "nmi"
  <2>1. due' = 0 /\ quiet' = FALSE /\ low' = low /\ poll_skipped' = poll_skipped
    BY <1>6 DEF SampleEnters, EdgeAnswered
  <2> QED
    BY <1>1, <1>3, <1>4, <1>5, <2>1 DEF Unanswered
<1>7. CASE ~(SampleEnters /\ Taken = "nmi")
  <2>1. PassedBy /\ ~poll_skipped'
    <3>1. Taken # "none" => ~poll_skipped
      BY DEF Taken
    <3>2. CASE SampleEnters
      BY <1>7, <3>1, <3>2 DEF SampleEnters
    <3>3. CASE SampleSkipped
      BY <3>3 DEF SampleSkipped
    <3>4. CASE SampleNothing
      BY <3>4 DEF SampleNothing
    <3> QED
      BY <3>2, <3>3, <3>4 DEF SamplePins
  <2>2. low' = low
    BY <2>1 DEF PassedBy
  <2>3. ASSUME ~poll_skipped, Polled.nmi PROVE ~quiet \/ nmi_seen
    <3>1. ASSUME quiet PROVE FALSE
      <4>1. sampled_line = "nmi"
        BY <2>3, <3>1 DEF sampled_line, Unanswered
      <4>2. Taken = "nmi"
        BY <2>3, <4>1 DEF Taken, Missing
      <4> QED
        BY <1>7, <2>3, <4>2, Zenon DEF SamplePins, SampleSkipped, SampleNothing
    <3> QED
      BY <3>1
  <2>4. nmi_seen' = IF poll_skipped THEN nmi_seen ELSE Polled.nmi
    <3>1. Taken # "none" => ~poll_skipped
      BY DEF Taken
    <3> QED
      BY <3>1, Zenon DEF SamplePins, SampleSkipped, SampleNothing, SampleEnters, Seen
  <2>5. quiet' = (quiet \/ (low /\ ~poll_skipped))
    BY <2>1 DEF PassedBy
  <2>6. quiet' => ~nmi_seen'
    BY <1>3, <2>3, <2>4, <2>5 DEF Unanswered
  <2>7. CASE ~(quiet /\ nmi_line)
    <3>1. due' = due
      BY <2>1, <2>7 DEF PassedBy
    <3>2. due' = 0
      BY <2>7, <3>1 DEF Unanswered, Due
    <3> QED
      BY <1>1, <1>3, <1>4, <1>5, <2>1, <2>2, <2>6, <3>2 DEF Unanswered
  <2>8. CASE quiet /\ nmi_line
    <3>1. poll_skipped \/ ~Polled.nmi
      BY <2>3, <2>8 DEF Unanswered
    <3>2. ~Cmos
      BY <1>2, <2>8, <3>1 DEF Unanswered
    <3>3. due = 0
      BY <1>1, <1>2, <3>1, <3>2 DEF Unanswered, Due
    <3>4. due' = 1
      BY <2>1, <2>8, <3>3 DEF PassedBy, MaxDue
    <3>5. op' = "idle" \/ (op' = "entry" /\ polled' = Now)
      BY Zenon DEF SamplePins, SampleSkipped, SampleNothing, SampleEnters, EntryBegins
    <3> QED
      BY <1>1, <1>3, <1>4, <1>5, <2>1, <2>2, <2>5, <2>6, <2>8, <3>2, <3>4, <3>5 DEF Unanswered, Due
  <2> QED
    BY <2>7, <2>8
<1> QED
  BY <1>6, <1>7

\* Nor does any other step pass the line over.
LEMMA AnswersKept ==
    ASSUME Where, Unanswered, "nmi" \in model.pins, KindsAssumption, [PartNext]_partVars
    PROVE  Unanswered'
<1>0. Cmos' = Cmos /\ Now.nmi = nmi_line /\ [Now EXCEPT !.i = TRUE].nmi = nmi_line
  BY SameModel DEF Now
<1>1. CASE \E k \in Kinds : Begin(k)
  <2>1. PICK k \in Kinds : Begin(k)
    BY <1>1
  <2>2. k \in Instructions \cup {"entry"} /\ 1 \in 1..Length[k]
    BY Lengths DEF KindsAssumption
  <2>3. (Stall(k, 1) \/ Make(k, 1)) /\ low' = ~nmi_line
    BY <2>1 DEF Begin
  <2> QED
    BY <1>0, <2>2, <2>3, CycleAnswers
<1>2. CASE Continue
  <2>1. op \in Instructions \cup {"entry"} /\ done + 1 \in 1..Length[op] /\ done \in 0..6
    BY <1>2, Lengths DEF Continue, Inside, Where
  <2>2. (Stall(op, done + 1) \/ Make(op, done + 1)) /\ low' = low
    BY <1>2 DEF Continue
  <2>3. done = (done + 1) - 1
    BY <2>1
  <2> QED
    BY <1>0, <2>1, <2>2, <2>3, CycleAnswers
<1>3. CASE SamplePins
  BY <1>0, <1>3, LookAnswers
<1>4. CASE IrqCall \/ NmiCall
  <2>1. nmi_line' = nmi_line /\ polled' = Now /\ op' = "entry"
    BY <1>4 DEF IrqCall, NmiCall, EntryBegins, lines
  <2>2. UNCHANGED <<nmi_seen, poll_skipped, low, quiet, due>>
    BY <1>4 DEF IrqCall, NmiCall, nmiHistory
  <2> QED
    BY <1>0, <2>1, <2>2 DEF Unanswered, Due
<1>5. CASE SetNmi
  BY <1>0, <1>5 DEF SetNmi, Unanswered
<1>6. CASE HeldCycle \/ IrqMasked \/ SetIrq \/ SetReady \/ Reset \/ Unwind \/ UNCHANGED partVars
  <2>1. UNCHANGED <<nmi_line, nmi_seen, poll_skipped, low, quiet, due>>
    BY <1>6 DEF HeldCycle, IrqMasked, SetIrq, SetReady, Reset, Unwind, partVars, lines, nmiHistory
  <2>2. polled' \in {polled, Now, [Now EXCEPT !.i = TRUE]}
    BY <1>6 DEF HeldCycle, IrqMasked, SetIrq, SetReady, Reset, Unwind, partVars
  <2>3. (op' = op /\ done' = done) \/ op' = "idle"
    BY <1>6 DEF HeldCycle, IrqMasked, SetIrq, SetReady, Reset, Unwind, partVars
  <2> QED
    BY <1>0, <2>1, <2>2, <2>3 DEF Unanswered, Due
<1> QED
  BY <1>1, <1>2, <1>3, <1>4, <1>5, <1>6 DEF PartNext, Part, SetLines, Calls

\* A line low through an instruction that polls, then raised and held, is answered
\* at the second boundary at the latest, whatever is entered between.
THEOREM EdgeIsAnswered == PartSpec => []NmiAnswered
<1> DEFINE Answers == Where /\ Depth /\ ("nmi" \in model.pins => Unanswered)
<1>1. PartInit => Answers
  <2> SUFFICES ASSUME PartInit PROVE Answers
    OBVIOUS
  <2>1. Where /\ Depth
    BY Lengths DEF PartInit, Where, Depth, Inside, MaxDue
  <2>2. Unanswered
    BY DEF PartInit, Unanswered
  <2> QED
    BY <2>1, <2>2
<1>2. Answers /\ [PartNext]_partVars => Answers'
  <2> SUFFICES ASSUME Answers, [PartNext]_partVars PROVE Answers'
    OBVIOUS
  <2>1. Where' /\ Depth'
    BY WhereKept, KindsAssumption
  <2>2. model' = model
    BY SameModel
  <2>3. "nmi" \in model.pins => Unanswered'
    BY AnswersKept, KindsAssumption
  <2> QED
    BY <2>1, <2>2, <2>3
<1>3. Answers => NmiAnswered
  BY DEF Unanswered, Due, NmiAnswered
<1> QED
  BY <1>1, <1>2, <1>3, PTL DEF PartSpec

-----------------------------------------------------------------------------
(* The request line, the disable flag and a BRK's skipped poll.            *)

\* A request asserted and allowed for an instruction so far is in its poll.
HeldPolled == irqHeld => irq_line /\ ~i /\ (op # "idle" => polled.irq /\ ~polled.i)

\* The poll a boundary answers from knows the flag, but for what sets it last.
FlagPolled ==
    /\ op = "boundary" /\ i /\ ~polled.i => last \in {"sei", "plp"}
    /\ op = "branch" /\ done = 2 => polled.i = i

\* An NMOS BRK that has yet to reach sample_pins skips the poll.
BreakSkips == unsampled /\ last = "brk" /\ ~Cmos => poll_skipped

\* A bus cycle polls the flag as it is, but where a branch skips the poll.
LEMMA CycleRequest ==
    ASSUME NEW k \in Instructions \cup {"entry"}, NEW m \in 1..Length[k],
           Stall(k, m) \/ Make(k, m),
           k = "branch" /\ m = 3 => polled.i = i
    PROVE  FlagPolled'
<1>1. Length[k] \in 1..7 /\ m \in 1..7 /\ k # "idle" /\ k # "boundary"
  BY Lengths
<1>2. CASE Stall(k, m)
  <2>1. i' = i /\ op' = k /\ done' = m - 1
    BY <1>2 DEF Stall
  <2>2. polled' = IF k = "branch" /\ m = 3 THEN polled ELSE Now
    BY <1>2 DEF Stall, Spend
  <2> QED
    BY <1>1, <2>1, <2>2 DEF FlagPolled, Now
<1>3. CASE Make(k, m)
  <2>1. polled' = IF k = "branch" /\ m = 3 THEN polled ELSE Now
    BY <1>3 DEF Make, Spend
  <2>2. polled'.i = i
    BY <2>1 DEF Now
  <2>3. i' = i \/ i' = FALSE \/ <<k, m>> \in {<<"sei", 2>>, <<"brk", 5>>, <<"entry", 5>>,
                                             <<"plp", 4>>, <<"rti", 4>>}
    BY <1>3 DEF Make, MaskAfter
  <2>4. k = "branch" => i' = i
    BY <1>3 DEF Make, MaskAfter
  <2>5. CASE m < Length[k]
    <3>1. op' = k /\ done' = m
      BY <1>3, <2>5 DEF Make, Arrive
    <3> QED
      BY <1>1, <2>2, <2>4, <3>1 DEF FlagPolled
  <2>6. CASE ~(m < Length[k]) /\ k = "entry"
    <3>1. m = 7
      BY <2>6, <1>1, Lengths
    <3>2. i' = i \/ i' = FALSE
      BY <2>3, <3>1, <2>6
    <3>3. op' # "branch"
      BY <1>3, <2>6 DEF Make, Arrive
    <3> QED
      BY <2>2, <3>2, <3>3 DEF FlagPolled
  <2>7. CASE ~(m < Length[k]) /\ k # "entry"
    <3>1. op' = "boundary" /\ last' = k
      BY <1>3, <2>7 DEF Make, Arrive
    <3>2. m = Length[k]
      BY <2>7, <1>1
    <3>3. (k = "brk" => m = 7) /\ (k = "rti" => m = 6)
      BY <3>2 DEF Length
    <3>4. i' = i \/ i' = FALSE \/ k \in {"sei", "plp"}
      BY <2>3, <3>3, <2>7
    <3> QED
      BY <2>2, <3>1, <3>4 DEF FlagPolled
  <2> QED
    BY <2>5, <2>6, <2>7
<1> QED
  BY <1>2, <1>3

\* A BRK ends having marked the poll it skips.
LEMMA CycleSkips ==
    ASSUME NEW k \in Instructions \cup {"entry"}, NEW m \in 1..Length[k],
           Stall(k, m) \/ Make(k, m), BreakSkips, Cmos' = Cmos
    PROVE  BreakSkips'
<1>1. CASE Stall(k, m)
  BY <1>1 DEF Stall, BreakSkips
<1>2. CASE Make(k, m)
  <2>1. CASE k # "brk"
    <3>1. poll_skipped' = poll_skipped
      BY <1>2, <2>1 DEF Make
    <3>2. UNCHANGED <<unsampled, last>> \/ last' = k
      BY <1>2 DEF Make, Arrive
    <3> QED
      BY <2>1, <3>1, <3>2 DEF BreakSkips
  <2>2. CASE k = "brk" /\ m = 7
    BY <1>2, <2>2 DEF Make, BreakSkips, skips_poll_after_break
  <2>3. CASE k = "brk" /\ m # 7
    <3>1. m < Length[k]
      BY <2>3 DEF Length
    <3> QED
      BY <1>2, <2>3, <3>1 DEF Make, Arrive, BreakSkips
  <2> QED
    BY <2>1, <2>2, <2>3
<1> QED
  BY <1>1, <1>2

\* A bus cycle in which a request stays asserted and allowed records it.
LEMMA CycleHeld ==
    ASSUME NEW k, NEW m, Stall(k, m) \/ Make(k, m),
           irqHeld' => irq_line /\ ~i /\ ~i' /\
                       (k = "branch" /\ m = 3 => polled.irq /\ ~polled.i)
    PROVE  HeldPolled'
<1>1. irq_line' = irq_line
  BY DEF Stall, Make, lines
<1>2. polled' = IF k = "branch" /\ m = 3 THEN polled ELSE Now
  BY DEF Stall, Make, Spend
<1> QED
  BY <1>1, <1>2 DEF HeldPolled, Now

\* What every step keeps of a request, the flag and a BRK's skipped poll.
Request == HeldPolled /\ FlagPolled /\ BreakSkips

\* Every step of the system keeps the three.
LEMMA RequestKept ==
    ASSUME Where, Depth, Request, KindsAssumption, [PartNext]_partVars
    PROVE  Request'
<1>0. HeldPolled /\ FlagPolled /\ BreakSkips /\ Cmos' = Cmos
  BY SameModel DEF Request
<1>1. CASE \E k \in Kinds : Begin(k)
  <2>1. PICK k \in Kinds : Begin(k)
    BY <1>1
  <2>2. k \in Instructions \cup {"entry"} /\ 1 \in 1..Length[k]
    BY Lengths DEF KindsAssumption
  <2>3. Stall(k, 1) \/ Make(k, 1)
    BY <2>1 DEF Begin
  <2>4. FlagPolled'
    BY <2>2, <2>3, CycleRequest
  <2>5. BreakSkips'
    BY <1>0, <2>2, <2>3, CycleSkips
  <2>6. i' = i
    BY <2>3 DEF Stall, Make, MaskAfter
  <2>7. irqHeld' => irq_line /\ ~i
    BY <2>1, Zenon DEF Begin
  <2>8. HeldPolled'
    BY <2>3, <2>6, <2>7, CycleHeld
  <2> QED
    BY <2>4, <2>5, <2>8 DEF Request
<1>2. CASE Continue
  <2>1. op \in Instructions \cup {"entry"} /\ done + 1 \in 1..Length[op] /\ done \in 0..6
    BY <1>2, Lengths DEF Continue, Inside, Where
  <2>2. Stall(op, done + 1) \/ Make(op, done + 1)
    BY <1>2 DEF Continue
  <2>3. FlagPolled'
    <3>1. op = "branch" /\ done + 1 = 3 => polled.i = i
      BY <1>0, <2>1 DEF FlagPolled
    <3> QED
      BY <2>1, <2>2, <3>1, CycleRequest
  <2>4. BreakSkips'
    BY <1>0, <2>1, <2>2, CycleSkips
  <2>5. op # "idle"
    BY <1>2, Lengths DEF Continue, Inside
  <2>6. irqHeld' => irqHeld /\ ~i'
    BY <1>2, Zenon DEF Continue
  <2>7. irqHeld => irq_line /\ ~i /\ polled.irq /\ ~polled.i
    BY <1>0, <2>5 DEF HeldPolled
  <2>8. HeldPolled'
    BY <2>2, <2>6, <2>7, CycleHeld
  <2> QED
    BY <2>3, <2>4, <2>8 DEF Request
<1>3. CASE SampleSkipped \/ SampleNothing
  <2>1. op' = "idle" /\ unsampled' = FALSE
    BY <1>3 DEF SampleSkipped, SampleNothing
  <2>2. i' = i /\ irqHeld' = irqHeld /\ irq_line' = irq_line
    BY <1>3 DEF SampleSkipped, SampleNothing, lines
  <2> QED
    BY <1>0, <2>1, <2>2 DEF Request, HeldPolled, FlagPolled, BreakSkips
<1>4. CASE SampleEnters \/ IrqCall \/ NmiCall
  <2>1. EntryBegins
    BY <1>4 DEF SampleEnters, IrqCall, NmiCall
  <2>2. op' = "entry" /\ irqHeld' = FALSE /\ last' = last
    BY <2>1 DEF EntryBegins
  <2>3. poll_skipped' = poll_skipped /\ (unsampled' = unsampled \/ unsampled' = FALSE)
    BY <1>4 DEF SampleEnters, IrqCall, NmiCall
  <2> QED
    BY <1>0, <2>2, <2>3 DEF Request, HeldPolled, FlagPolled, BreakSkips
<1>5. CASE Reset
  <2>1. op' = "idle" /\ irqHeld' = FALSE /\ unsampled' = unsampled /\ op = "idle"
    BY <1>5 DEF Reset
  <2> QED
    BY <2>1 DEF Request, HeldPolled, FlagPolled, BreakSkips, Depth
<1>6. CASE Unwind
  <2>1. op' = "idle" /\ unsampled' = FALSE
    BY <1>6 DEF Unwind
  <2>2. i' = i /\ irqHeld' = irqHeld /\ irq_line' = irq_line
    BY <1>6 DEF Unwind, lines
  <2> QED
    BY <1>0, <2>1, <2>2 DEF Request, HeldPolled, FlagPolled, BreakSkips
<1>7. CASE HeldCycle
  <2>1. op' = "idle" /\ op = "idle" /\ unsampled' = unsampled /\ last' = last
        /\ poll_skipped' = poll_skipped
    BY <1>7 DEF HeldCycle
  <2>2. i' = i /\ irqHeld' = irqHeld /\ irq_line' = irq_line
    BY <1>7 DEF HeldCycle, lines
  <2> QED
    BY <1>0, <2>1, <2>2 DEF Request, HeldPolled, FlagPolled, BreakSkips
<1>8. CASE SetIrq
  <2>1. irqHeld' = FALSE
    BY <1>8 DEF SetIrq
  <2>2. UNCHANGED <<op, done, unsampled, i, polled, poll_skipped, last>>
    BY <1>8 DEF SetIrq
  <2> QED
    BY <1>0, <2>1, <2>2 DEF Request, HeldPolled, FlagPolled, BreakSkips
<1>9. CASE IrqMasked \/ SetNmi \/ SetReady \/ UNCHANGED partVars
  <2>1. UNCHANGED <<op, done, unsampled, i, polled, poll_skipped, last, irqHeld>>
    BY <1>9 DEF IrqMasked, SetNmi, SetReady, partVars
  <2>2. irq_line' = irq_line
    BY <1>9 DEF IrqMasked, SetNmi, SetReady, partVars, lines
  <2> QED
    BY <1>0, <2>1, <2>2 DEF Request, HeldPolled, FlagPolled, BreakSkips
<1> QED
  BY <1>1, <1>2, <1>3, <1>4, <1>5, <1>6, <1>7, <1>8, <1>9
     DEF PartNext, Part, SamplePins, SetLines, Calls

\* The three hold of every state the part reaches.
LEMMA RequestInductive == PartSpec => [](Where /\ Depth /\ Request)
<1>1. PartInit => Where /\ Depth /\ Request
  <2> SUFFICES ASSUME PartInit PROVE Where /\ Depth /\ Request
    OBVIOUS
  <2>1. Where /\ Depth
    BY Lengths DEF PartInit, Where, Depth, Inside, MaxDue
  <2>2. Request
    BY DEF PartInit, Request, HeldPolled, FlagPolled, BreakSkips
  <2> QED
    BY <2>1, <2>2
<1>2. (Where /\ Depth /\ Request) /\ [PartNext]_partVars => (Where /\ Depth /\ Request)'
  BY WhereKept, RequestKept, KindsAssumption
<1> QED
  BY <1>1, <1>2, PTL DEF PartSpec

\* A request held through an instruction is answered at its boundary.
THEOREM HeldRequestTaken == PartSpec => []IrqHeldIsTaken
<1>1. Where /\ Depth /\ Request => IrqHeldIsTaken
  <2> SUFFICES ASSUME Request, op = "boundary", irqHeld, ~poll_skipped, ~Missing
               PROVE  Taken # "none"
    BY DEF IrqHeldIsTaken
  <2>1. irq_line /\ ~i /\ polled.irq /\ ~polled.i
    BY DEF Request, HeldPolled
  <2>2. Polled.irq /\ take_polled_irq
    BY <2>1 DEF Polled, Now, take_polled_irq
  <2> QED
    BY <2>2 DEF Taken, sampled_line
<1> QED
  BY <1>1, RequestInductive, PTL

\* The disable flag masks the request line, but for the NMOS delay of SEI and PLP.
THEOREM MaskRespected == PartSpec => []IrqMaskRespected
<1>1. Where /\ Depth /\ Request => IrqMaskRespected
  <2> SUFFICES ASSUME Request, op = "boundary", Taken = "irq", i
               PROVE  ~Cmos /\ last \in {"sei", "plp"}
    BY DEF IrqMaskRespected
  <2>1. take_polled_irq
    BY DEF Taken
  <2>2. ~Cmos /\ ~polled.i
    BY <2>1 DEF take_polled_irq
  <2> QED
    BY <2>2 DEF Request, FlagPolled
<1> QED
  BY <1>1, RequestInductive, PTL

\* An NMOS part runs an instruction of a BRK's handler before it answers a line.
THEOREM BreakIsSafe == PartSpec => []BreakRunsItsHandler
<1>1. Where /\ Depth /\ Request => BreakRunsItsHandler
  BY DEF Depth, Request, BreakSkips, BreakRunsItsHandler, Taken
<1> QED
  BY <1>1, RequestInductive, PTL

\* What refuse_inside asks is what sample_pins is about to do.
THEOREM RefusalCorrect == PartSpec => []RefusalIsHonest
<1>1. Where /\ Depth /\ Request => RefusalIsHonest
  <2> SUFFICES ASSUME Depth, op = "boundary", ~Missing
               PROVE  entry_pending = Taken
    BY DEF RefusalIsHonest
  <2>1. unsampled
    BY DEF Depth
  <2>2. Polled.i <=> ~take_polled_irq
    BY DEF Polled, Now, take_polled_irq
  <2> QED
    BY <2>1, <2>2 DEF entry_pending, Taken
<1> QED
  BY <1>1, RequestInductive, PTL

-----------------------------------------------------------------------------
(* EightBit, on a clock.                                                   *)

\* A part whose cycles a clock asks for, that irq() and nmi() reach from the host's
\* thread and that close() unwinds answers its lines as a part left alone does.
THEOREM ClockedPartKeeps ==
    ClockedSafe => [](/\ NmiOncePerEdge /\ NmiAnswered /\ IrqHeldIsTaken
                      /\ IrqMaskRespected /\ BreakRunsItsHandler /\ RefusalIsHonest)
  BY StaysAPart, EdgeInterruptsOnce, EdgeIsAnswered, HeldRequestTaken, MaskRespected,
     BreakIsSafe, RefusalCorrect, PTL
=============================================================================
