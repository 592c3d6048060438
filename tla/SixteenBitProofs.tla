-------------------------- MODULE SixteenBitProofs --------------------------
(***************************************************************************)
(* What is proved of SixteenBit, for every set of programs and hosts and   *)
(* every number of cycles RDY may add: that a halted part enters nothing,  *)
(* that a change of nmi_line interrupts once and not twice, that an        *)
(* instruction is aborted exactly when the line was held in a cycle of it, *)
(* and that it then leaves what it found.                                  *)
(***************************************************************************)
EXTENDS SixteenBit, TLAPS

\* An instruction is not an entry, nor is where the part is between two.
LEMMA Apart == /\ {"entry", "idle", "boundary"} \cap Instructions = {}
               /\ Running = Instructions \cup {"entry"}
  BY DEF Instructions, Running

-----------------------------------------------------------------------------
(* Halts.                                                                  *)

\* What an abort() from inside holds up is an instruction.
HeldUp == suspended # None => suspended[1] \in Instructions

\* A stopped part is between instructions or at the end of its last.
Halted ==
    /\ HeldUp
    /\ HaltedNeverEnters
    /\ stopped => op \in {"idle", "boundary"}

LEMMA HaltedStep == Halted /\ [Next]_vars => Halted'
<1> SUFFICES ASSUME Halted, [Next]_vars PROVE Halted'
  OBVIOUS
<1> USE Apart DEF Halted, HeldUp, HaltedNeverEnters, held, halts, nest
<1>1. ASSUME NEW k \in Instructions, Begin(k) PROVE Halted'
  BY <1>1 DEF Begin
<1>2. CASE Make
  <2>1. CASE op = "entry"
    BY <1>2, <2>1 DEF Make, Arrive, halts
  <2>2. CASE op # "entry"
    <3>1. op = "stp" /\ done = 2 => op' = "boundary"
      BY <1>2 DEF Make, Arrive, Length
    <3>2. op \in Instructions /\ ~stopped
      BY <1>2, <2>2 DEF Make, Running, Instructions
    <3>3. op' \in {op, "boundary"} /\ suspended' = suspended
      BY <1>2, <2>2 DEF Make, Arrive
    <3> QED
      BY <1>2, <2>2, <3>1, <3>2, <3>3 DEF Make
  <2> QED
    BY <2>1, <2>2
<1>3. CASE Stall
  BY <1>3 DEF Stall
<1>4. CASE RollBack \/ SamplePins
  <2>1. EndOfStep
    BY <1>4 DEF RollBack, SamplePins
  <2>2. Taken # "none" => ~stopped
    BY DEF Taken, Refuses
  <2> QED
    BY <1>4, <2>1, <2>2 DEF EndOfStep, Enter, RollBack, SamplePins
<1>5. CASE HeldCycle
  BY <1>5 DEF HeldCycle
<1>6. ASSUME NEW kind \in AllLines, Call(kind) PROVE Halted'
  BY <1>6 DEF Call, Enter, Running, MayCall
<1>7. CASE CallAbortInside
  BY <1>7 DEF CallAbortInside, Enter
<1>8. CASE SetIrq \/ SetNmi \/ SetAbort
  BY <1>8 DEF SetIrq, SetNmi, SetAbort
<1>9. CASE Reset
  BY <1>9 DEF Reset
<1>10. CASE Unwind
  BY <1>10 DEF Unwind
<1>11. CASE UNCHANGED vars
  BY <1>11 DEF vars
<1> QED
  BY <1>1, <1>2, <1>3, <1>4, <1>5, <1>6, <1>7, <1>8, <1>9, <1>10, <1>11 DEF Next, Part, Host

\* A stopped part enters nothing, and a waiting one is done waiting when it does.
THEOREM HaltedEntersNothing == Spec => []HaltedNeverEnters
<1>1. Init => Halted
  BY DEF Init, Halted, HeldUp, HaltedNeverEnters
<1>2. Halted => HaltedNeverEnters
  BY DEF Halted
<1> QED
  BY <1>1, <1>2, HaltedStep, PTL DEF Spec

-----------------------------------------------------------------------------
(* The non-maskable line.                                                  *)

\* A level not yet seen is the end of a change not yet answered.
Unseen == nmi_line /\ ~nmi_seen => edge

LEMMA UnseenStep == Unseen /\ [Next]_vars => Unseen'
<1> SUFFICES ASSUME Unseen, [Next]_vars PROVE Unseen'
  OBVIOUS
<1> USE DEF Unseen, lines, nmiHistory, history
<1>1. ASSUME NEW k \in Instructions, Begin(k) PROVE Unseen'
  BY <1>1 DEF Begin
<1>2. CASE Make \/ Stall \/ HeldCycle
  BY <1>2 DEF Make, Stall, HeldCycle
<1>3. CASE RollBack
  BY <1>3 DEF RollBack, EndOfStep
<1>4. CASE SamplePins
  BY <1>4 DEF SamplePins, EndOfStep, Seen
<1>5. ASSUME NEW kind \in AllLines, Call(kind) PROVE Unseen'
  BY <1>5 DEF Call
<1>6. CASE CallAbortInside \/ SetIrq \/ SetNmi \/ SetAbort
  BY <1>6 DEF CallAbortInside, SetIrq, SetNmi, SetAbort
<1>7. CASE Reset \/ Unwind
  BY <1>7 DEF Reset, Unwind
<1>8. CASE UNCHANGED vars
  BY <1>8 DEF vars
<1> QED
  BY <1>1, <1>2, <1>3, <1>4, <1>5, <1>6, <1>7, <1>8 DEF Next, Part, Host

\* No change of nmi_line interrupts twice, aborts and calls between or not.
THEOREM EdgeInterruptsOnce == Spec => []NmiOncePerEdge
<1>1. Init => Unseen
  BY DEF Init, Unseen
<1>2. Unseen => NmiOncePerEdge
  BY DEF Unseen, NmiOncePerEdge, Taken, sampled_line
<1> QED
  BY <1>1, <1>2, UnseenStep, PTL DEF Spec

\* An edge passed over by a stopped part is answered by nothing until a reset;
\* any other still waits to be seen, and is at the next look at the pins.
Kept ==
    /\ low => ~nmi_line
    /\ quiet => ~nmi_seen \/ (stopped /\ op = "idle")
    /\ due = 0 \/ (due = 1 /\ quiet /\ stopped /\ op = "idle")

LEMMA KeptStep == Halted /\ Kept /\ [Next]_vars => Kept'
<1> SUFFICES ASSUME Halted, Kept, [Next]_vars PROVE Kept'
  OBVIOUS
<1> USE Apart DEF Kept, lines, halts, nmiHistory, history
<1>1. ASSUME NEW k \in Instructions, Begin(k) PROVE Kept'
  BY <1>1 DEF Begin, held
<1>2. CASE Make
  <2>1. op # "idle"
    BY <1>2 DEF Make
  <2> QED
    BY <1>2, <2>1 DEF Make
<1>3. CASE Stall \/ HeldCycle
  BY <1>3 DEF Stall, HeldCycle
<1>4. CASE RollBack
  BY <1>4 DEF RollBack, EndOfStep
<1>5. CASE SamplePins
  <2>1. op = "boundary" /\ nmi_seen' = nmi_line /\ UNCHANGED <<lines, stopped>>
    BY <1>5 DEF SamplePins, EndOfStep, Seen
  <2>2. CASE Taken = "nmi"
    BY <1>5, <2>1, <2>2 DEF SamplePins
  <2>3. CASE Taken # "nmi"
    <3>1. PassedBy
      BY <1>5, <2>3 DEF SamplePins
    <3>2. ASSUME quiet, nmi_line PROVE stopped /\ op' = "idle"
      <4>1. abort_at = 0 /\ sampled_line = "nmi"
        BY <1>5, <2>1, <3>2 DEF SamplePins, sampled_line
      <4>2. Taken = "none" /\ stopped
        BY <2>3, <4>1 DEF Taken, Refuses, masked
      <4> QED
        BY <1>5, <4>2 DEF SamplePins, EndOfStep
    <3>3. quiet' => quiet \/ low
      BY <3>1 DEF PassedBy
    <3>4. due = 0 /\ (due' = 0 \/ (due' = 1 /\ quiet /\ nmi_line))
      BY <2>1, <3>1 DEF PassedBy, MaxDue
    <3>5. low' = low /\ nmi_line' = nmi_line /\ stopped' = stopped /\ (quiet => quiet')
      BY <2>1, <3>1 DEF PassedBy
    <3> QED
      BY <2>1, <3>2, <3>3, <3>4, <3>5
  <2> QED
    BY <2>2, <2>3
<1>6. ASSUME NEW kind \in AllLines, Call(kind) PROVE Kept'
  BY <1>6 DEF Call
<1>7. CASE CallAbortInside \/ SetIrq \/ SetAbort \/ Reset \/ Unwind
  BY <1>7 DEF CallAbortInside, SetIrq, SetAbort, Reset, Unwind
<1>8. CASE SetNmi
  BY <1>8 DEF SetNmi
<1>9. CASE UNCHANGED vars
  BY <1>9 DEF vars
<1> QED
  BY <1>1, <1>2, <1>3, <1>4, <1>5, <1>6, <1>7, <1>8, <1>9 DEF Next, Part, Host

\* A line low through an instruction that looked at it, then raised and held, is
\* answered by the next look, and passed over once by a stopped part.
THEOREM EdgeIsAnswered == Spec => []NmiAnswered
<1>1. Init => Halted /\ Kept
  BY DEF Init, Halted, HeldUp, HaltedNeverEnters, Kept
<1>2. Halted /\ Kept /\ [Next]_vars => (Halted /\ Kept)'
  BY HaltedStep, KeptStep
<1>3. Halted /\ Kept => NmiAnswered
  BY DEF Kept, NmiAnswered
<1> QED
  BY <1>1, <1>2, <1>3, PTL DEF Spec

-----------------------------------------------------------------------------
(* The abort.                                                              *)

\* Where the part is watching for an abort, and an entry that is not step()'s own.
Watched ==
    /\ HeldUp
    /\ suspended # None => op = "entry"
    /\ op \in Instructions \cup {"boundary"} => watching
    /\ op \in Running \cup {"idle", "boundary"}
    /\ op \in Instructions \cup {"idle"} => ~unsampled
    /\ op = "boundary" => unsampled
    /\ op = "entry" /\ suspended # None => watching /\ ~unsampled
    /\ op = "entry" /\ unsampled => watching /\ called

LEMMA WatchedStep == Watched /\ [Next]_vars => Watched'
<1> SUFFICES ASSUME Watched, [Next]_vars PROVE Watched'
  OBVIOUS
<1> USE Apart DEF Watched, HeldUp, halts, nest, latch, history
<1>1. ASSUME NEW k \in Instructions, Begin(k) PROVE Watched'
  BY <1>1 DEF Begin
<1>2. CASE Make
  <2>1. watching' = watching /\ called' = called /\ op \in Running
    BY <1>2 DEF Make
  <2>2. CASE op = "entry"
    BY <1>2, <2>1, <2>2 DEF Make, Arrive
  <2>3. CASE op # "entry"
    <3>1. op \in Instructions
      BY <2>1, <2>3 DEF Running
    <3>2. suspended' = suspended
      BY <1>2, <2>3 DEF Make, Arrive
    <3>3. (op' = op /\ unsampled' = unsampled) \/ (op' = "boundary" /\ unsampled')
      BY <1>2, <2>3 DEF Make, Arrive
    <3> QED
      BY <2>1, <2>3, <3>1, <3>2, <3>3
  <2> QED
    BY <2>2, <2>3
<1>3. CASE Stall \/ HeldCycle
  BY <1>3 DEF Stall, HeldCycle
<1>4. CASE RollBack \/ SamplePins
  <2>1. EndOfStep
    BY <1>4 DEF RollBack, SamplePins
  <2> QED
    BY <2>1 DEF EndOfStep, Enter
<1>5. ASSUME NEW kind \in AllLines, Call(kind) PROVE Watched'
  BY <1>5 DEF Call, Enter, Running
<1>6. CASE CallAbortInside
  BY <1>6 DEF CallAbortInside, Enter
<1>7. CASE SetIrq \/ SetNmi \/ SetAbort
  BY <1>7 DEF SetIrq, SetNmi, SetAbort
<1>8. CASE Reset \/ Unwind
  BY <1>8 DEF Reset, Unwind
<1>9. CASE UNCHANGED vars
  BY <1>9 DEF vars
<1> QED
  BY <1>1, <1>2, <1>3, <1>4, <1>5, <1>6, <1>7, <1>8, <1>9 DEF Next, Part, Host

\* A cycle closed with the line held is latched, if it is the first.
LEMMA TickLatches ==
  ASSUME Tick, abort_cycle \in Nat
  PROVE  /\ abort_cycle' \in Nat
         /\ watching => abort_cycle' # 0
         /\ abort_at # 0 => abort_at' = abort_at
         /\ watching => (abort_at' # 0 <=> abort_at # 0 \/ abort_line)
  BY MaxStallAssumption DEF Tick, MaxCycle

LEMMA AssertTells ==
  ASSUME NEW k, NEW m, Assert(k, m)
  PROVE  /\ k = "entry" => asserted' = asserted
         /\ k # "entry" => (asserted' # "no" <=> asserted # "no" \/ abort_line)
  BY DEF Assert

\* The latch holds what the history says of the instruction's own cycles, and what
\* the history says is always in it.
Latched ==
    /\ Watched
    /\ abort_cycle \in Nat
    /\ asserted # "no" => abort_at # 0
    /\ (op \in Instructions /\ ~exposed) \/ (op = "boundary" /\ ~called) =>
          (abort_at # 0 => asserted # "no")

LEMMA LatchedStep == Latched /\ [Next]_vars => Latched'
<1> SUFFICES ASSUME Latched, [Next]_vars PROVE Latched'
  OBVIOUS
<1>w. Watched /\ Watched'
  BY WatchedStep DEF Latched
<1> USE Apart DEF nest, latch, history
<1>1. ASSUME NEW k \in Instructions, Begin(k) PROVE Latched'
  BY <1>1, <1>w DEF Begin, Watch, Latched
<1>2. CASE Make
  <2>1. /\ op \in Running /\ ~exposed /\ Tick /\ Assert(op, done)
        /\ called' = called /\ abort_cycle \in Nat
    BY <1>2 DEF Make, Latched
  <2>2. CASE op = "entry"
    <3>1. asserted' = asserted /\ abort_cycle' \in Nat /\ (abort_at # 0 => abort_at' = abort_at)
      BY <2>1, <2>2, TickLatches, AssertTells
    <3>2. \/ op' = suspended[1] /\ exposed' /\ suspended # None
          \/ op' = "boundary" /\ unsampled /\ op' \notin Instructions
          \/ op' = "idle"
          \/ op' = "entry"
      BY <1>2, <2>2 DEF Make, Arrive
    <3>3. op' = "boundary" => called'
      <4>1. suspended # None => suspended[1] \in Instructions
        BY <1>w DEF Watched, HeldUp
      <4>2. unsampled => called
        BY <1>w, <2>2 DEF Watched
      <4> QED
        BY <2>1, <2>2, <3>2, <4>1, <4>2
    <3> QED
      BY <1>w, <3>1, <3>2, <3>3 DEF Latched
  <2>3. CASE op \in Instructions
    <3>1. watching /\ op # "entry"
      BY <1>w, <2>3 DEF Watched
    <3>2. /\ abort_cycle' \in Nat
          /\ abort_at' # 0 <=> abort_at # 0 \/ abort_line
          /\ asserted' # "no" <=> asserted # "no" \/ abort_line
      BY <2>1, <3>1, TickLatches, AssertTells
    <3> QED
      BY <1>w, <2>1, <2>3, <3>2 DEF Latched
  <2> QED
    BY <2>1, <2>2, <2>3
<1>3. CASE Stall
  <2>1. /\ op \in Running /\ ~exposed /\ Tick /\ Assert(op, done)
        /\ called' = called /\ exposed' = exposed /\ op' = op /\ abort_cycle \in Nat
    BY <1>3 DEF Stall, Latched
  <2>2. CASE op = "entry"
    BY <1>w, <2>1, <2>2, TickLatches, AssertTells DEF Latched
  <2>3. CASE op \in Instructions
    <3>1. watching /\ op # "entry"
      BY <1>w, <2>3 DEF Watched
    <3> QED
      BY <1>w, <2>1, <2>3, <3>1, TickLatches, AssertTells DEF Latched
  <2> QED
    BY <2>1, <2>2, <2>3
<1>4. CASE RollBack \/ SamplePins
  <2>1. EndOfStep
    BY <1>4 DEF RollBack, SamplePins
  <2> QED
    BY <1>w, <2>1 DEF EndOfStep, Enter, Forget, Latched
<1>5. CASE HeldCycle
  <2>1. Tick /\ op' = "idle" /\ asserted' = asserted /\ abort_cycle \in Nat
    BY <1>5 DEF HeldCycle, Latched
  <2> QED
    BY <1>w, <2>1, TickLatches DEF Latched
<1>6. ASSUME NEW kind \in AllLines, Call(kind) PROVE Latched'
  BY <1>6, <1>w DEF Call, Enter, Latched
<1>7. CASE CallAbortInside
  BY <1>7, <1>w DEF CallAbortInside, Enter, Latched
<1>8. CASE SetIrq \/ SetNmi \/ SetAbort
  BY <1>8, <1>w DEF SetIrq, SetNmi, SetAbort, Latched
<1>9. CASE Reset \/ Unwind
  BY <1>9, <1>w DEF Reset, Unwind, Forget, Latched
<1>10. CASE UNCHANGED vars
  BY <1>10, <1>w DEF vars, Latched
<1> QED
  BY <1>1, <1>2, <1>3, <1>4, <1>5, <1>6, <1>7, <1>8, <1>9, <1>10 DEF Next, Part, Host

LEMMA LatchedInit == Init => Latched
<1> SUFFICES ASSUME Init PROVE Latched
  OBVIOUS
<1>1. op = "idle" /\ suspended = None /\ ~unsampled /\ asserted = "no" /\ abort_cycle = 0
  BY DEF Init
<1>2. Watched
  BY <1>1, Apart DEF Watched, HeldUp
<1> QED
  BY <1>1, <1>2, Apart DEF Latched

\* An instruction is aborted exactly when the line was held at the close of one of
\* its own cycles.
THEOREM AbortsWhatWasHeld == Spec => []AbortIffHeld
<1>1. Latched => AbortIffHeld
  BY DEF Latched, AbortIffHeld
<1> QED
  BY <1>1, LatchedInit, LatchedStep, PTL DEF Spec

\* The cycle of k after which an abort keeps something is among its first m.
Passed(k, m) == k \in DOMAIN AbortPoint /\ m >= AbortPoint[k][1]

\* With m cycles of k closed, what an abort would keep is what the host was told.
Pointed(k, m) ==
    IF Passed(k, m)
    THEN /\ abort_keeps = AbortPoint[k][2]
         /\ asserted # "no" => (asserted = "after" <=> abort_at > abort_after)
    ELSE abort_keeps = "" /\ asserted # "after"

Counted ==
    /\ done \in 0..7
    /\ abort_cycle <= done + setting.stall
    /\ abort_at \in Nat /\ abort_at <= abort_cycle
    /\ abort_after \in Nat /\ abort_after <= abort_cycle

Stepping == op = "boundary" \/ (op = "entry" /\ unsampled)

Pointing ==
    /\ setting \in Settings
    /\ regs \in Registers
    /\ op = "idle" => done = 0
    /\ op \in Instructions /\ ~exposed => Pointed(op, done) /\ Counted
    /\ Stepping => Pointed(last, 8) /\ suspended = None
    /\ (op \in Instructions \/ (op = "entry" /\ suspended # None) \/ Stepping) =>
          before \in Registers /\ before.here

LEMMA Points ==
    /\ DOMAIN AbortPoint = {"rmw", "rti", "brk"}
    /\ DOMAIN KeptFrom = DOMAIN AbortPoint
    /\ \A k \in DOMAIN AbortPoint : KeptFrom[k] = AbortPoint[k][1] /\ AbortPoint[k][1] \in 2..4
    /\ AbortPoint["rmw"][2] = "status"
    /\ AbortPoint["rti"][2] = "status"
    /\ AbortPoint["brk"][2] = "banks"
  BY DEF AbortPoint, KeptFrom

LEMMA Lengths ==
    /\ \A k \in Running : Length(k) \in 2..8
    /\ \A k \in DOMAIN AbortPoint : Length(k) >= AbortPoint[k][1]
<1>1. \A k \in Running : Length(k) \in 2..8
  BY DEF Length, Running, Instructions
<1>2. Length("rmw") = 5 /\ Length("rti") \in 6..7 /\ Length("brk") \in 7..8
  BY DEF Length
<1>3. \A k \in DOMAIN AbortPoint : Length(k) >= 5
  BY <1>2, Points
<1> QED
  BY <1>1, <1>2, <1>3, Points

\* While it is watched and counted, each cycle's number is above those before it.
LEMMA TickCounts ==
  ASSUME Tick, watching, setting \in Settings, abort_cycle \in Nat, Counted
  PROVE  /\ abort_cycle' = abort_cycle + 1
         /\ abort_at' = IF abort_line /\ abort_at = 0 THEN abort_cycle + 1 ELSE abort_at
<1>1. setting.stall \in 0..MaxStall
  BY SettingsAssumption
<1>2. abort_cycle < MaxCycle
  BY <1>1, MaxStallAssumption DEF Counted, MaxCycle
<1> QED
  BY <1>2 DEF Tick

\* One more cycle of an instruction keeps the latch in step.
LEMMA PointedCycle ==
  ASSUME Latched, NEW k \in Instructions, NEW m \in 1..8, op = k, m = done + 1, ~exposed,
         setting \in Settings, Tick, Assert(k, done), Pointed(k, done), Counted,
         IF k \in DOMAIN AbortPoint /\ m = AbortPoint[k][1]
         THEN abort_after' = abort_cycle' /\ abort_keeps' = AbortPoint[k][2]
         ELSE UNCHANGED <<abort_after, abort_keeps>>
  PROVE  /\ Pointed(k, m)'
         /\ abort_cycle' = abort_cycle + 1
         /\ abort_at' \in Nat /\ abort_at' <= abort_cycle'
         /\ abort_after' \in Nat /\ abort_after' <= abort_cycle'
<1>1. watching /\ k # "entry" /\ abort_cycle \in Nat /\ (asserted # "no" <=> abort_at # 0)
  BY Apart DEF Latched, Watched
<1>2. /\ abort_cycle' = abort_cycle + 1
      /\ abort_at' = IF abort_line /\ abort_at = 0 THEN abort_cycle + 1 ELSE abort_at
  BY <1>1, TickCounts
<1>3. asserted' = IF ~abort_line \/ asserted # "no" THEN asserted
                  ELSE IF Passed(k, done) THEN "after" ELSE "by"
  BY <1>1, Points DEF Assert, Passed
<1>4. abort_at' \in Nat /\ abort_at' <= abort_cycle' /\ abort_after' \in Nat /\ abort_after' <= abort_cycle'
  BY <1>1, <1>2 DEF Counted
<1>5. CASE Passed(k, done)
  <2>1. Passed(k, m) /\ ~(k \in DOMAIN AbortPoint /\ m = AbortPoint[k][1])
    BY <1>5, Points DEF Passed, Counted
  <2>2. abort_after' = abort_after /\ abort_keeps' = AbortPoint[k][2]
    BY <1>5, <2>1 DEF Pointed
  <2>3. asserted' # "no" => (asserted' = "after" <=> abort_at' > abort_after')
    BY <1>1, <1>2, <1>3, <1>5, <2>2 DEF Pointed, Counted
  <2> QED
    BY <1>2, <1>4, <2>1, <2>2, <2>3 DEF Pointed, Passed
<1>6. CASE ~Passed(k, done) /\ Passed(k, m)
  <2>1. k \in DOMAIN AbortPoint /\ m = AbortPoint[k][1]
    BY <1>6, Points DEF Passed, Counted
  <2>2. abort_after' = abort_cycle' /\ abort_keeps' = AbortPoint[k][2]
    BY <2>1
  <2>3. asserted' # "after"
    BY <1>3, <1>6 DEF Pointed
  <2>4. ~(abort_at' > abort_after')
    <3> HIDE DEF MaxCycle
    <3>1. abort_cycle' \in Nat
      BY <1>1, <1>2
    <3>2. abort_at' <= abort_after'
      BY <1>4, <2>2
    <3> QED
      BY <1>4, <3>2
  <2> QED
    BY <1>2, <1>4, <1>6, <2>2, <2>3, <2>4 DEF Pointed, Passed
<1>7. CASE ~Passed(k, done) /\ ~Passed(k, m)
  <2>1. ~(k \in DOMAIN AbortPoint /\ m = AbortPoint[k][1])
    BY <1>7, Points DEF Passed
  <2>2. abort_keeps' = "" /\ asserted' # "after"
    BY <1>3, <1>7, <2>1 DEF Pointed
  <2> QED
    BY <1>2, <1>4, <1>7, <2>2 DEF Pointed, Passed
<1>8. Passed(k, done) => Passed(k, m)
  BY Points DEF Passed, Counted
<1> QED
  BY <1>5, <1>6, <1>7, <1>8

\* A cycle that RDY adds is counted, and closes none of the instruction's own.
LEMMA PointedStall ==
  ASSUME Latched, NEW k \in Instructions, NEW m \in 0..7, op = k, m = done, ~exposed,
         setting \in Settings, Tick, Assert(k, done), Pointed(k, done), Counted,
         UNCHANGED <<abort_after, abort_keeps>>
  PROVE  /\ Pointed(k, m)'
         /\ abort_cycle' = abort_cycle + 1
         /\ abort_at' \in Nat /\ abort_at' <= abort_cycle'
         /\ abort_after' \in Nat /\ abort_after' <= abort_cycle'
<1>1. watching /\ k # "entry" /\ abort_cycle \in Nat /\ (asserted # "no" <=> abort_at # 0)
  BY Apart DEF Latched, Watched
<1>2. /\ abort_cycle' = abort_cycle + 1
      /\ abort_at' = IF abort_line /\ abort_at = 0 THEN abort_cycle + 1 ELSE abort_at
  BY <1>1, TickCounts
<1>3. asserted' = IF ~abort_line \/ asserted # "no" THEN asserted
                  ELSE IF Passed(k, m) THEN "after" ELSE "by"
  BY <1>1, Points DEF Assert, Passed
<1>4. abort_at' \in Nat /\ abort_at' <= abort_cycle' /\ abort_after' \in Nat /\ abort_after' <= abort_cycle'
  BY <1>1, <1>2 DEF Counted
<1>5. CASE Passed(k, m)
  <2>1. asserted' # "no" => (asserted' = "after" <=> abort_at' > abort_after')
    BY <1>1, <1>2, <1>3, <1>5 DEF Pointed, Counted
  <2> QED
    BY <1>2, <1>4, <1>5, <2>1 DEF Pointed, Passed
<1>6. CASE ~Passed(k, m)
  BY <1>2, <1>3, <1>4, <1>6 DEF Pointed, Passed
<1> QED
  BY <1>5, <1>6

LEMMA PointingStep == Latched /\ Pointing /\ [Next]_vars => Pointing'
<1> SUFFICES ASSUME Latched, Pointing, [Next]_vars PROVE Pointing'
  OBVIOUS
<1>w. Watched
  BY DEF Latched
<1>s. setting' = setting /\ setting \in Settings
  BY DEF Next, vars, Pointing
<1> USE Apart DEF nest, latch, history
<1>1. ASSUME NEW k \in Instructions, Begin(k) PROVE Pointing'
  <2>1. regs' \in Registers /\ regs'.here /\ before' = regs'
    BY <1>1 DEF Begin, Pointing, Registers
  <2>2. /\ op' = k /\ op = "idle" /\ done' = 0 /\ abort_keeps' = "" /\ asserted' = "no"
        /\ abort_at' = 0 /\ abort_cycle' = 0 /\ abort_after' = 0
    BY <1>1 DEF Begin, Watch, Pointing
  <2>3. setting'.stall \in Nat
    BY <1>s, SettingsAssumption, MaxStallAssumption
  <2>4. ~Passed(k, 0)
    BY Points DEF Passed
  <2>5. Counted'
    <3>1. 0 <= 0 + setting'.stall
      BY <2>3
    <3>2. 0 \in 0..7 /\ 0 \in Nat /\ 0 <= 0
      OBVIOUS
    <3> QED
      BY <2>2, <3>1, <3>2, Zenon DEF Counted
  <2>6. Pointed(k, 0)'
    BY <2>2, <2>4 DEF Pointed, Passed
  <2>7. Pointed(op, done)' /\ (setting \in Settings)'
    BY <1>s, <2>2, <2>6 DEF Pointed, Passed
  <2>8. op' # "idle" /\ ~Stepping'
    BY <2>2 DEF Stepping
  <2> QED
    BY <2>1, <2>5, <2>7, <2>8 DEF Pointing
<1>2. CASE Make
  <2>1. /\ op \in Running /\ ~exposed /\ Tick /\ Assert(op, done) /\ Arrive(op, done + 1)
        /\ IF op \in DOMAIN AbortPoint /\ done + 1 = AbortPoint[op][1]
           THEN abort_after' = abort_cycle' /\ abort_keeps' = AbortPoint[op][2]
           ELSE UNCHANGED <<abort_after, abort_keeps>>
        /\ before' = before /\ regs' \in Registers
    BY <1>2 DEF Make, Changed
  <2>2. CASE op = "entry"
    <3>1. UNCHANGED <<abort_after, abort_keeps, asserted>> /\ (abort_at # 0 => abort_at' = abort_at)
      BY <2>1, <2>2, Points, TickLatches, AssertTells DEF Latched
    <3>2. asserted # "no" => abort_at # 0
      BY DEF Latched
    <3>3. unsampled => Pointed(last, 8) /\ suspended = None
      BY <2>2 DEF Pointing, Stepping
    <3>4. unsampled \/ suspended # None => before \in Registers /\ before.here
      BY <2>2 DEF Pointing, Stepping
    <3>5. /\ UNCHANGED <<unsampled, last>>
          /\ \/ op' = "entry" /\ suspended' = suspended
             \/ suspended # None /\ op' = suspended[1] /\ suspended' = None /\ exposed'
             \/ unsampled /\ suspended = None /\ op' = "boundary" /\ suspended' = None
             \/ op' = "idle" /\ done' = 0 /\ suspended' = None /\ ~unsampled
      <4>1. CASE done + 1 < Length(op)
        BY <2>1, <2>2, <4>1 DEF Arrive
      <4>2. CASE ~(done + 1 < Length(op)) /\ suspended # None
        BY <2>1, <2>2, <4>2 DEF Arrive
      <4>3. CASE ~(done + 1 < Length(op)) /\ suspended = None
        <5>1. suspended[2] = 0
          BY <4>3 DEF None
        <5> QED
          BY <2>1, <2>2, <4>3, <5>1 DEF Arrive
      <4> QED
        BY <4>1, <4>2, <4>3
    <3>6. unsampled => Pointed(last, 8)'
      BY <3>1, <3>2, <3>3, <3>5 DEF Pointed, Passed
    <3>7. suspended # None => suspended[1] \in Instructions
      BY <1>w DEF Watched, HeldUp
    <3>8. regs' \in Registers /\ before' = before
      BY <2>1
    <3> QED
      BY <1>s, <3>3, <3>4, <3>5, <3>6, <3>7, <3>8 DEF Pointing, Stepping
  <2>3. ASSUME NEW k \in Instructions, op = k PROVE Pointing'
    <3>1. k # "entry" /\ k # "idle" /\ k # "boundary" /\ k \in Running /\ suspended = None
      BY <1>w, <2>3 DEF Watched
    <3>2. Pointed(k, done) /\ Counted /\ before \in Registers /\ before.here
      BY <2>1, <2>3 DEF Pointing
    <3>3. done + 1 \in 1..8
      BY <3>2 DEF Counted
    <3>4. PICK m \in 1..8 : m = done + 1
      BY <3>3
    <3>5. /\ Assert(k, done) /\ Arrive(k, m)
          /\ IF k \in DOMAIN AbortPoint /\ m = AbortPoint[k][1]
             THEN abort_after' = abort_cycle' /\ abort_keeps' = AbortPoint[k][2]
             ELSE UNCHANGED <<abort_after, abort_keeps>>
      BY <2>1, <2>3, <3>4
    <3>6. /\ Pointed(k, m)'
          /\ abort_cycle' = abort_cycle + 1
          /\ abort_at' \in Nat /\ abort_at' <= abort_cycle'
          /\ abort_after' \in Nat /\ abort_after' <= abort_cycle'
      BY <1>s, <2>1, <2>3, <3>2, <3>4, <3>5, PointedCycle
    <3>7. before' \in Registers /\ before'.here /\ regs' \in Registers /\ (setting \in Settings)'
      BY <1>s, <2>1, <3>2
    <3>8. CASE m < Length(k)
      <4>1. op' = k /\ done' = m /\ UNCHANGED <<suspended, exposed, unsampled, last>>
        BY <3>5, <3>8 DEF Arrive
      <4>2. m \in 0..7
        BY <3>1, <3>8, Lengths
      <4>3. setting.stall \in Nat /\ abort_cycle \in Nat
        BY <1>s, SettingsAssumption, MaxStallAssumption DEF Latched
      <4>4. abort_cycle' <= m + setting.stall
        BY <3>2, <3>4, <3>6, <4>3 DEF Counted
      <4>5. Counted'
        BY <1>s, <3>6, <4>1, <4>2, <4>4 DEF Counted
      <4>6. Pointed(op, done)'
        BY <3>6, <4>1 DEF Pointed, Passed
      <4>7. ~Stepping' /\ op' # "idle"
        BY <3>1, <4>1 DEF Stepping
      <4> QED
        BY <3>7, <4>5, <4>6, <4>7 DEF Pointing
    <3>9. CASE ~(m < Length(k))
      <4>1. op' = "boundary" /\ last' = k /\ suspended' = None
        BY <3>1, <3>5, <3>9 DEF Arrive
      <4>2. Passed(k, m) <=> Passed(k, 8)
        BY <3>1, <3>9, Points, Lengths DEF Passed
      <4>3. Pointed(last, 8)'
        BY <3>6, <4>1, <4>2 DEF Pointed, Passed
      <4> QED
        BY <3>7, <4>1, <4>3 DEF Pointing
    <3> QED
      BY <3>8, <3>9
  <2> QED
    BY <2>1, <2>2, <2>3
<1>3. CASE Stall
  <2>1. /\ op \in Running /\ ~exposed /\ Tick /\ Assert(op, done)
        /\ op' = op /\ done' = done
        /\ UNCHANGED <<suspended, exposed, unsampled, regs, before, abort_after, abort_keeps, last>>
        /\ op # "entry" => abort_cycle < done + setting.stall
    BY <1>3 DEF Stall
  <2>2. CASE op = "entry"
    <3>1. asserted' = asserted /\ (abort_at # 0 => abort_at' = abort_at)
      BY <2>1, <2>2, TickLatches, AssertTells DEF Latched
    <3>2. asserted # "no" => abort_at # 0
      BY DEF Latched
    <3>3. unsampled => Pointed(last, 8)'
      BY <2>1, <2>2, <3>1, <3>2 DEF Pointing, Stepping, Pointed, Passed
    <3> QED
      BY <1>s, <2>1, <2>2, <3>3 DEF Pointing, Stepping
  <2>3. CASE op \in Instructions
    <3>1. op # "entry" /\ op # "idle" /\ op # "boundary"
      BY <2>3
    <3>2. Pointed(op, done) /\ Counted
      BY <2>1, <2>3 DEF Pointing
    <3>3. done \in 0..7
      BY <3>2 DEF Counted
    <3>4. /\ Pointed(op, done)'
          /\ abort_cycle' = abort_cycle + 1
          /\ abort_at' \in Nat /\ abort_at' <= abort_cycle'
          /\ abort_after' \in Nat /\ abort_after' <= abort_cycle'
      BY <1>s, <2>1, <2>3, <3>2, <3>3, PointedStall DEF Pointed, Passed
    <3>5. Counted'
      BY <1>s, <2>1, <3>1, <3>3, <3>4, SettingsAssumption, MaxStallAssumption DEF Counted, Latched
    <3> QED
      BY <1>s, <2>1, <2>3, <3>1, <3>4, <3>5 DEF Pointing, Stepping
  <2> QED
    BY <2>1, <2>2, <2>3
<1>4. CASE RollBack \/ SamplePins
  <2>1. EndOfStep
    BY <1>4 DEF RollBack, SamplePins
  <2>2. op' \in {"idle", "entry"} /\ ~unsampled' /\ (op' = "idle" => done' = 0) /\ suspended' = suspended
    BY <2>1 DEF EndOfStep, Enter
  <2>3. op = "boundary" /\ suspended = None /\ before \in Registers
    BY <2>1 DEF EndOfStep, Pointing, Stepping
  <2>4. regs' \in Registers
    <3>1. regs \in Registers
      BY DEF Pointing
    <3>2. Restored \in Registers
      BY <2>3, <3>1 DEF Restored, Registers
    <3> QED
      BY <1>4, <3>1, <3>2 DEF RollBack, SamplePins
  <2> QED
    BY <1>s, <2>2, <2>3, <2>4 DEF Pointing, Stepping
<1>5. CASE HeldCycle
  BY <1>5, <1>s, <1>w DEF HeldCycle, Pointing, Stepping, Watched
<1>6. ASSUME NEW kind \in AllLines, Call(kind) PROVE Pointing'
  <2>1. /\ op \notin Running
        /\ (op' = op /\ done' = done) \/ op' = "entry"
        /\ UNCHANGED <<suspended, exposed, unsampled, regs, before, abort_at, abort_after, abort_keeps, last, asserted>>
    BY <1>6 DEF Call, Enter
  <2>2. Stepping' => op = "boundary"
    BY <1>w, <2>1 DEF Stepping, Watched
  <2>3. suspended = None
    BY <1>w, <2>1 DEF Watched
  <2> QED
    BY <1>s, <2>1, <2>2, <2>3 DEF Pointing, Stepping, Pointed, Passed
<1>7. CASE CallAbortInside
  <2>1. /\ op \in Instructions /\ op' = "entry" /\ suspended' = <<op, done>>
        /\ UNCHANGED <<exposed, unsampled, regs, before>>
    BY <1>7 DEF CallAbortInside, Enter
  <2>2. ~unsampled
    BY <1>w, <2>1 DEF Watched
  <2>3. ~Stepping' /\ op' \notin Instructions /\ op' # "idle"
    BY <2>1, <2>2 DEF Stepping
  <2>4. before' \in Registers /\ before'.here /\ regs' \in Registers
    BY <2>1 DEF Pointing
  <2> QED
    BY <1>s, <2>3, <2>4 DEF Pointing
<1>8. CASE SetIrq \/ SetNmi \/ SetAbort
  <2>1. UNCHANGED <<op, done, suspended, exposed, unsampled, regs, before, abort_at, abort_cycle,
                    abort_after, abort_keeps, last, asserted>>
    BY <1>8 DEF SetIrq, SetNmi, SetAbort
  <2> QED
    BY <1>s, <2>1 DEF Pointing, Stepping, Pointed, Passed, Counted
<1>9. CASE Reset
  BY <1>9, <1>s DEF Reset, Pointing, Stepping, Registers
<1>10. CASE Unwind
  BY <1>10, <1>s DEF Unwind, Pointing, Stepping
<1>11. CASE UNCHANGED vars
  BY <1>11 DEF vars, Pointing, Stepping, Pointed, Passed, Counted
<1> QED
  BY <1>1, <1>2, <1>3, <1>4, <1>5, <1>6, <1>7, <1>8, <1>9, <1>10, <1>11 DEF Next, Part, Host

\* What the end of an aborted instruction puts back.
LEMMA PutBack ==
  ASSUME Latched, Pointing, op = "boundary", asserted # "no", EndOfStep, RollBack \/ SamplePins
  PROVE  LET status == IF last \in {"rmw", "rti"} /\ asserted = "after" THEN regs ELSE before
         IN  /\ regs'.e = before.e
             /\ <<regs'.i, regs'.z>> = <<status.i, status.z>>
             /\ regs'.pb = (before.pb /\ ~(last = "brk" /\ asserted = "after"))
             /\ regs'.here
<1>1. RollBack /\ abort_at # 0
  BY DEF Latched, SamplePins
<1>2. Pointed(last, 8) /\ before.here
  BY DEF Pointing, Stepping
<1>3. Passed(last, 8) <=> last \in {"rmw", "rti", "brk"}
  BY Points DEF Passed
<1>4. keeps("status") <=> last \in {"rmw", "rti"} /\ asserted = "after"
  BY <1>2, <1>3, Points DEF Pointed, keeps
<1>5. keeps("banks") <=> last = "brk" /\ asserted = "after"
  BY <1>2, <1>3, Points DEF Pointed, keeps
<1> HIDE DEF keeps
<1> QED
  BY <1>1, <1>2, <1>4, <1>5 DEF RollBack, Restored

LEMMA PointingInit == Init => Pointing
  BY SettingsAssumption, Apart DEF Init, Pointing, Stepping, Registers

\* The entry of an abort starts from what the instruction found, the opcode's
\* address among it, but for what its abort_point lets stand.
THEOREM AbortRollsBack == Spec => RolledBack
<1>1. Latched /\ Pointing /\ [Next]_vars =>
        [(op = "boundary" /\ op' = "entry" /\ ~unsampled' /\ asserted # "no") =>
          LET status == IF last \in {"rmw", "rti"} /\ asserted = "after" THEN regs ELSE before
          IN  /\ regs'.e = before.e
              /\ <<regs'.i, regs'.z>> = <<status.i, status.z>>
              /\ regs'.pb = (before.pb /\ ~(last = "brk" /\ asserted = "after"))
              /\ regs'.here]_vars
  <2> SUFFICES ASSUME Latched, Pointing, Next, op = "boundary", op' = "entry", ~unsampled',
                      asserted # "no"
               PROVE  LET status == IF last \in {"rmw", "rti"} /\ asserted = "after"
                                    THEN regs ELSE before
                      IN  /\ regs'.e = before.e
                          /\ <<regs'.i, regs'.z>> = <<status.i, status.z>>
                          /\ regs'.pb = (before.pb /\ ~(last = "brk" /\ asserted = "after"))
                          /\ regs'.here
    OBVIOUS
  <2>1. unsampled
    BY DEF Latched, Watched
  <2>2. RollBack \/ SamplePins
    BY <2>1, Apart DEF Next, Part, Host, Begin, Make, Stall, HeldCycle, Call, CallAbortInside,
       SetIrq, SetNmi, SetAbort, Reset, Unwind
  <2>3. EndOfStep
    BY <2>2 DEF RollBack, SamplePins
  <2> QED
    BY <2>2, <2>3, PutBack
<1> QED
  BY <1>1, LatchedInit, LatchedStep, PointingInit, PointingStep, PTL DEF Spec, RolledBack
=============================================================================
