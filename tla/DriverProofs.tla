---------------------------- MODULE DriverProofs ----------------------------
(***************************************************************************)
(* What is proved of Driver, for any part, costs, limits and depth of the  *)
(* stack: what run_for() counts is never more than the part spends and is  *)
(* that where no cycle escapes it, and call() ends at its routine's return *)
(* and nowhere else where what it counted is what was stepped.             *)
(***************************************************************************)
EXTENDS Driver, SequenceTheorems, TLAPS

\* What a cycle or an entry may cost is a number.
LEMMA Numbers == None = -1 /\ None \notin Nat /\ \A c \in {0} \cup EntryCosts \cup Costs : c \in Nat
  BY CostsAssumption, EntryCostsAssumption DEF None

-----------------------------------------------------------------------------
(* run_for().                                                              *)

\* What is counted, and what is still to be: an instruction's cost, a held cycle.
Due == spent + cost + (IF at = "held" THEN 1 ELSE 0)

\* No cycle has escaped run_for().
Whole == departures \cap {"call", "stall"} = {}

\* What is due is never more than the part has spent, and is that where none escapes.
Paid ==
    /\ spent \in Int /\ elapsed \in Int /\ cost \in Int
    /\ loop = "none" => at = "head" /\ spent = 0 /\ elapsed = 0 /\ cost = 0
    /\ at # "last" => cost = 0
    /\ at = "held" => loop = "slice"
    /\ loop = "slice" => Due <= elapsed /\ (Whole => Due = elapsed)

\* A step that moves what is due by d and what is spent by at least as much, and
\* by no more unless it is told.
LEMMA PaidBy ==
  ASSUME Paid, NEW d \in Int, NEW c \in Nat, d <= c,
         spent' \in Int, cost' \in Int, UNCHANGED loop, loop # "none", loop = "slice" => Due' = Due + d,
         elapsed' = (IF loop = "slice" THEN elapsed + c ELSE 0),
         Whole' => Whole /\ (loop = "slice" => d = c),
         at' # "last" => cost' = 0, at' = "held" => loop = "slice"
  PROVE  Paid'
<1>1. elapsed' \in Int /\ elapsed \in Int
  BY DEF Paid
<1>2. ASSUME loop = "slice" PROVE Due' <= elapsed' /\ (Whole' => Due' = elapsed')
  <2>1. Due \in Int /\ Due <= elapsed /\ (Whole => Due = elapsed)
    BY <1>2 DEF Paid, Due
  <2>2. Due' = Due + d /\ elapsed' = elapsed + c
    BY <1>2
  <2> QED
    BY <1>1, <1>2, <2>1, <2>2
<1> QED
  BY <1>1, <1>2 DEF Paid

LEMMA PaidStep == Paid /\ [Next]_vars => Paid'
<1> SUFFICES ASSUME Paid, [Next]_vars PROVE Paid'
  OBVIOUS
<1> USE DEF counts, program
<1>0. /\ spent \in Int /\ elapsed \in Int /\ cost \in Int
      /\ at # "last" => cost = 0
      /\ at # "head" => loop # "none"
      /\ at = "held" => loop = "slice"
  BY DEF Paid
<1>1. ASSUME NEW which \in {"call", "until", "slice"}, Starts(which) PROVE Paid'
  BY <1>1 DEF Starts, Paid, Due, Whole
<1>2. ASSUME NEW how, Ends(how) PROVE Paid'
  BY <1>2 DEF Ends, Paid
<1>3. CASE Peek
  <2>1. loop = "call" /\ at' = "peek" /\ UNCHANGED <<loop, spent, elapsed, cost>> /\ at = "head"
    BY <1>3 DEF Peek
  <2> QED
    BY <1>0, <2>1 DEF Paid
<1>4. CASE Step /\ loop # "none" /\ at \in {"head", "peek"} /\ (loop = "slice" => at = "head")
  <2>1. PICK c \in Costs : cost' = c /\ Spends(c)
    BY <1>4 DEF Step
  <2>2. c \in Nat
    BY CostsAssumption
  <2>3. at' = "last" /\ UNCHANGED <<loop, spent>> /\ (Whole' => Whole)
    BY <1>4 DEF Step, Aborted, Whole
  <2>4. elapsed' = IF loop = "slice" THEN elapsed + c ELSE 0
    BY <2>1 DEF Spends
  <2>5. Due' = Due + c
    BY <1>0, <1>4, <2>1, <2>2, <2>3 DEF Due
  <2> QED
    BY <1>0, <1>4, <2>1, <2>2, <2>3, <2>4, <2>5, PaidBy
<1>5. CASE HeldCycle
  <2>1. /\ loop = "slice" /\ at = "head" /\ at' = "held" /\ elapsed' = elapsed + 1
        /\ UNCHANGED <<loop, spent, cost>> /\ Whole' = Whole
    BY <1>5 DEF HeldCycle, Spends, Whole
  <2>2. Due' = Due + 1
    BY <1>0, <2>1 DEF Due
  <2> QED
    BY <1>0, <2>1, <2>2, PaidBy
<1>6. CASE HeldStalls
  <2>1. /\ at = "held" /\ elapsed' = (IF loop = "slice" THEN elapsed + 1 ELSE 0)
        /\ UNCHANGED <<loop, at, spent, cost>> /\ ~Whole'
    BY <1>6 DEF HeldStalls, Spends, Whole
  <2>2. Due' = Due + 0
    BY <1>0, <2>1 DEF Due
  <2> QED
    BY <1>0, <2>1, <2>2, PaidBy
<1>7. CASE HeldCounts
  <2>1. /\ at = "held" /\ at' = "head" /\ spent' = spent + 1
        /\ UNCHANGED <<loop, cost, elapsed>> /\ Whole' = Whole
    BY <1>7 DEF HeldCounts, Whole
  <2>2. Due' = Due + 0 /\ elapsed' = elapsed + 0 /\ loop = "slice"
    BY <1>0, <2>1 DEF Due
  <2> QED
    BY <1>0, <2>1, <2>2, PaidBy
<1>8. CASE StepEnds
  <2>1. PICK c \in {0} \cup EntryCosts :
              /\ Sampled(c) \/ AbortEnters(c)
              /\ Spends(c)
              /\ spent' = IF loop = "slice" THEN spent + Returned(c) ELSE 0
    BY <1>8 DEF StepEnds
  <2>2. c \in Nat /\ at = "last" /\ loop # "none"
    BY <1>0, <2>1, Numbers DEF Sampled, AbortEnters
  <2>3. at' = "head" /\ cost' = 0 /\ UNCHANGED loop /\ Whole' = Whole
    BY <1>8 DEF StepEnds, Whole
  <2>4. elapsed' = IF loop = "slice" THEN elapsed + c ELSE 0
    BY <2>1 DEF Spends
  <2>5. spent' = IF loop = "slice" THEN spent + (cost + c) ELSE 0
    BY <2>1 DEF Returned
  <2>6. loop = "slice" => Due' = Due + c
    BY <1>0, <2>2, <2>3, <2>5 DEF Due
  <2>7. spent' \in Int
    BY <1>0, <2>2, <2>5
  <2> QED
    BY <1>0, <2>2, <2>3, <2>4, <2>6, <2>7, PaidBy
<1>9. CASE HostCalls
  <2>1. PICK c \in {0} \cup EntryCosts : Spends(c) /\ cost' = IF at = "last" THEN cost + c ELSE cost
    BY <1>9 DEF HostCalls
  <2>2. c \in Nat
    BY Numbers
  <2>3. /\ UNCHANGED <<loop, at, spent>>
        /\ at \in {"peek", "last", "held"}
        /\ Whole' => Whole /\ at = "last"
    BY <1>9 DEF HostCalls, Whole
  <2>4. elapsed' = IF loop = "slice" THEN elapsed + c ELSE 0
    BY <2>1 DEF Spends
  <2>5. CASE at = "last"
    <3>1. Due' = Due + c /\ cost' \in Int
      BY <1>0, <2>1, <2>2, <2>3, <2>5 DEF Due
    <3> QED
      BY <1>0, <2>2, <2>3, <2>4, <2>5, <3>1, PaidBy
  <2>6. CASE at # "last"
    <3>1. Due' = Due + 0 /\ cost' = cost
      BY <1>0, <2>1, <2>3, <2>6 DEF Due
    <3> QED
      BY <1>0, <2>2, <2>3, <2>4, <2>6, <3>1, PaidBy
  <2> QED
    BY <2>5, <2>6
<1>10. CASE HostIsUndone
  <2>1. PICK c \in EntryCosts : Spends(c) /\ cost' = cost + c
    BY <1>10 DEF HostIsUndone
  <2>2. c \in Nat
    BY Numbers
  <2>3. at = "last" /\ UNCHANGED <<loop, at, spent>> /\ (Whole' => Whole)
    BY <1>10 DEF HostIsUndone, Whole
  <2>4. elapsed' = IF loop = "slice" THEN elapsed + c ELSE 0
    BY <2>1 DEF Spends
  <2>5. Due' = Due + c /\ cost' \in Int
    BY <1>0, <2>1, <2>2, <2>3 DEF Due
  <2> QED
    BY <1>0, <2>2, <2>3, <2>4, <2>5, PaidBy
<1>11. CASE UNCHANGED vars
  BY <1>11 DEF vars, Paid, Due, Whole
<1> QED
  BY <1>1, <1>2, <1>3, <1>4, <1>5, <1>6, <1>7, <1>8, <1>9, <1>10, <1>11
     DEF Next, Loops, CallStarts, UntilStarts, SliceStarts, CallReturns, CallSteps, UntilReturns,
         UntilSteps, SliceReturns, SliceSteps, Raises, GivesUp

\* What run_for() has counted is never more than the part has spent, and is what it
\* has where no call ends a wait and no held cycle stalls.
THEOREM SlicesArePaid == Spec => []SliceIsPaid
<1>1. Init => Paid
  BY DEF Init, Paid
<1>2. Paid => SliceIsPaid
  BY DEF Paid, Due, Whole, SliceIsPaid
<1> QED
  BY <1>1, <1>2, PaidStep, PTL DEF Spec

-----------------------------------------------------------------------------
(* call().                                                                 *)

Frames == [by : {"call", "entry"}, after : {"op", "wai", "stp", "jsr", "brk", "rts", "rti"}]

\* A return at pc goes back through the j-th frame, and is of the frame's sort.
FitsAt(n, s, j) ==
    /\ n = "rts" /\ j <= Len(s) => s[j].by = "call"
    /\ n = "rti" => j <= Len(s) /\ s[j].by = "entry"

\* So is every return on the way down the stack.
Fits(n, s) == FitsAt(n, s, 1) /\ \A j \in 1..Len(s) : FitsAt(s[j].after, s, j + 1)

\* d is the number of calls among the frames of s: below[j] is that under the
\* first j of them.
Calls(d, s) ==
    \E below \in [0..Len(s) -> Nat] :
        /\ below[0] = d
        /\ below[Len(s)] = 0
        /\ \A j \in 1..Len(s) :
              below[j - 1] = below[j] + (IF s[j].by = "call" THEN 1 ELSE 0)

LEMMA Pushed ==
  ASSUME NEW s \in Seq(Frames), NEW f \in Frames
  PROVE  /\ <<f>> \o s \in Seq(Frames)
         /\ Len(<<f>> \o s) = Len(s) + 1
         /\ (<<f>> \o s)[1] = f
         /\ \A j \in 1..Len(s) : (<<f>> \o s)[j + 1] = s[j]
         /\ Len(s) \in Nat
  BY ConcatProperties

LEMMA Popped ==
  ASSUME NEW s \in Seq(Frames), s # <<>>
  PROVE  /\ Tail(s) \in Seq(Frames)
         /\ Len(s) \in Nat /\ Len(s) >= 1
         /\ Len(Tail(s)) = Len(s) - 1
         /\ Head(s) = s[1] /\ s[1] \in Frames
         /\ \A j \in 1..Len(s) - 1 : Tail(s)[j] = s[j + 1]
  BY HeadTailProperties

LEMMA PushFits ==
  ASSUME NEW s \in Seq(Frames), NEW f \in Frames, NEW n, Fits(f.after, s),
         FitsAt(n, <<f>> \o s, 1)
  PROVE  Fits(n, <<f>> \o s)
<1> DEFINE t == <<f>> \o s
<1>1. /\ Len(t) = Len(s) + 1 /\ t[1] = f /\ Len(s) \in Nat
      /\ \A j \in 1..Len(s) : t[j + 1] = s[j]
  BY Pushed
<1> HIDE DEF t
<1>2. FitsAt(f.after, t, 2)
  BY <1>1 DEF Fits, FitsAt
<1>3. ASSUME NEW j \in 1..Len(s) PROVE FitsAt(t[j + 1].after, t, j + 2)
  <2>1. FitsAt(s[j].after, s, j + 1) /\ t[j + 1] = s[j]
    BY <1>1 DEF Fits
  <2>2. j + 1 <= Len(s) => t[j + 2] = s[j + 1]
    BY <1>1
  <2> QED
    BY <1>1, <2>1, <2>2 DEF FitsAt
<1>4. ASSUME NEW j \in 1..Len(t) PROVE FitsAt(t[j].after, t, j + 1)
  <2>1. CASE j = 1
    BY <1>1, <1>2, <2>1
  <2>2. CASE j # 1
    <3>1. j - 1 \in 1..Len(s)
      BY <1>1, <2>2
    <3>2. PICK k \in 1..Len(s) : k = j - 1
      BY <3>1
    <3>3. k + 1 = j /\ k + 2 = j + 1
      BY <3>2
    <3> QED
      BY <1>3, <3>3
  <2> QED
    BY <2>1, <2>2
<1> QED
  BY <1>4 DEF Fits, t

LEMMA PopFits ==
  ASSUME NEW s \in Seq(Frames), s # <<>>, NEW n, Fits(n, s)
  PROVE  Fits(Head(s).after, Tail(s))
<1> DEFINE t == Tail(s)
<1>1. /\ Len(s) \in Nat /\ Len(s) >= 1 /\ Len(t) = Len(s) - 1
      /\ Head(s) = s[1]
      /\ \A j \in 1..Len(s) - 1 : t[j] = s[j + 1]
  BY Popped
<1> HIDE DEF t
<1>2. \A j \in 1..Len(s) : FitsAt(s[j].after, s, j + 1)
  BY DEF Fits
<1>3. FitsAt(Head(s).after, t, 1)
  BY <1>1, <1>2 DEF FitsAt
<1>4. ASSUME NEW j \in 1..Len(t) PROVE FitsAt(t[j].after, t, j + 1)
  <2>1. j + 1 \in 1..Len(s) /\ t[j] = s[j + 1]
    BY <1>1
  <2>2. FitsAt(s[j + 1].after, s, j + 2)
    BY <1>2, <2>1
  <2>3. j + 1 <= Len(t) => t[j + 1] = s[j + 2]
    BY <1>1
  <2> QED
    BY <1>1, <2>1, <2>2, <2>3 DEF FitsAt
<1> QED
  BY <1>3, <1>4 DEF Fits, t

LEMMA PushCalls ==
  ASSUME NEW s \in Seq(Frames), NEW f \in Frames, NEW d, Calls(d, s)
  PROVE  Calls(d + (IF f.by = "call" THEN 1 ELSE 0), <<f>> \o s)
<1> DEFINE t == <<f>> \o s
           up == IF f.by = "call" THEN 1 ELSE 0
<1>1. /\ Len(t) = Len(s) + 1 /\ t[1] = f /\ Len(s) \in Nat
      /\ \A j \in 1..Len(s) : t[j + 1] = s[j]
  BY Pushed
<1>2. PICK below \in [0..Len(s) -> Nat] :
          /\ below[0] = d
          /\ below[Len(s)] = 0
          /\ \A j \in 1..Len(s) :
                below[j - 1] = below[j] + (IF s[j].by = "call" THEN 1 ELSE 0)
  BY DEF Calls
<1>3. up \in Nat /\ up = IF t[1].by = "call" THEN 1 ELSE 0
  BY <1>1
<1>4. d \in Nat
  BY <1>1, <1>2
<1> HIDE DEF t, up
<1> DEFINE under == [j \in 0..Len(t) |-> IF j = 0 THEN d + up ELSE below[j - 1]]
<1>5. under \in [0..Len(t) -> Nat]
  BY <1>1, <1>2, <1>3, <1>4
<1>6. under[0] = d + up /\ under[Len(t)] = 0
  BY <1>1, <1>2
<1>7. ASSUME NEW j \in 1..Len(t)
      PROVE  under[j - 1] = under[j] + (IF t[j].by = "call" THEN 1 ELSE 0)
  <2>1. CASE j = 1
    <3>1. under[0] = d + up /\ under[1] = d
      BY <1>1, <1>2
    <3> QED
      BY <1>3, <2>1, <3>1
  <2>2. CASE j # 1
    <3>1. j - 1 \in 1..Len(s) /\ j - 2 \in 0..Len(s)
      BY <1>1, <2>2
    <3>2. under[j - 1] = below[j - 2] /\ under[j] = below[j - 1]
      BY <1>1, <2>2
    <3>3. PICK k \in 1..Len(s) : k = j - 1
      BY <3>1
    <3>4. t[j] = s[k] /\ j = k + 1
      BY <1>1, <3>3
    <3>5. below[k - 1] = below[k] + (IF s[k].by = "call" THEN 1 ELSE 0)
      BY <1>2
    <3>6. j - 2 = k - 1
      BY <3>3
    <3> HIDE DEF under
    <3> QED
      BY <3>2, <3>3, <3>4, <3>5, <3>6
  <2> QED
    BY <2>1, <2>2
<1> HIDE DEF under
<1> QED
  BY <1>5, <1>6, <1>7 DEF Calls, t, up

LEMMA PopCalls ==
  ASSUME NEW s \in Seq(Frames), s # <<>>, NEW d, Calls(d, s)
  PROVE  /\ d \in Nat
         /\ s[1].by = "call" => d # 0
         /\ Calls(d - (IF s[1].by = "call" THEN 1 ELSE 0), Tail(s))
<1> DEFINE t == Tail(s)
           down == IF s[1].by = "call" THEN 1 ELSE 0
<1>1. /\ Len(s) \in Nat /\ Len(s) >= 1 /\ Len(t) = Len(s) - 1
      /\ \A j \in 1..Len(s) - 1 : t[j] = s[j + 1]
  BY Popped
<1>2. PICK below \in [0..Len(s) -> Nat] :
          /\ below[0] = d
          /\ below[Len(s)] = 0
          /\ \A j \in 1..Len(s) :
                below[j - 1] = below[j] + (IF s[j].by = "call" THEN 1 ELSE 0)
  BY DEF Calls
<1>3. down \in Nat /\ (s[1].by = "call" <=> down = 1)
  OBVIOUS
<1>4. d \in Nat /\ below[1] \in Nat
  BY <1>1, <1>2
<1>5. d = below[1] + down
  <2>1. 1 \in 1..Len(s) /\ 1 - 1 = 0
    BY <1>1
  <2>2. below[1 - 1] = below[1] + down
    BY <1>2, <2>1
  <2> QED
    BY <1>2, <2>1, <2>2
<1> HIDE DEF t, down
<1> DEFINE under == [j \in 0..Len(t) |-> below[j + 1]]
<1>6. under \in [0..Len(t) -> Nat] /\ under[Len(t)] = 0
  BY <1>1, <1>2
<1>7. under[0] = d - down
  BY <1>1, <1>3, <1>4, <1>5
<1>8. ASSUME NEW j \in 1..Len(t)
      PROVE  under[j - 1] = under[j] + (IF t[j].by = "call" THEN 1 ELSE 0)
  <2>1. j + 1 \in 1..Len(s) /\ t[j] = s[j + 1]
    BY <1>1
  <2>2. under[j - 1] = below[j] /\ under[j] = below[j + 1]
    BY <1>1
  <2>3. PICK k \in 1..Len(s) : k = j + 1
    BY <2>1
  <2>4. below[k - 1] = below[k] + (IF s[k].by = "call" THEN 1 ELSE 0)
    BY <1>2
  <2>5. k - 1 = j
    BY <2>3
  <2> HIDE DEF under
  <2> QED
    BY <2>1, <2>2, <2>3, <2>4, <2>5
<1> HIDE DEF under
<1>9. Calls(d - down, t)
  BY <1>6, <1>7, <1>8 DEF Calls
<1> QED
  BY <1>3, <1>4, <1>5, <1>9 DEF t, down

Names == {"op", "wai", "stp", "jsr", "brk", "rts", "rti"}

\* What a program may have at pc fits the stack.
LEMMA FollowsFit ==
  ASSUME NEW s \in Seq(Frames), NEW n \in Follows(s)
  PROVE  n \in Names /\ FitsAt(n, s, 1)
<1>1. CASE s = <<>>
  BY <1>1 DEF Follows, FitsAt, Names
<1>2. CASE s # <<>>
  <2>1. Head(s) = s[1] /\ Len(s) >= 1 /\ s[1].by \in {"call", "entry"}
    BY <1>2, Popped DEF Frames
  <2>2. n = "rts" => s[1].by = "call"
    BY <1>2, <2>1 DEF Follows
  <2>3. n = "rti" => s[1].by = "entry"
    BY <1>2, <2>1 DEF Follows
  <2> QED
    BY <2>1, <2>2, <2>3 DEF Follows, FitsAt, Names
<1> QED
  BY <1>1, <1>2

\* The stack and what is at pc.
Stacked == frames \in Seq(Frames) /\ next \in Names /\ Fits(next, frames)

\* What call() reads is what it steps, and it counts nothing twice.
Sound == departures \cap {"call", "abort"} = {}

\* Where control is while call() looks for its return.
Looking ==
    /\ Stacked
    /\ loop = "none" => at = "head" /\ frames = <<>> /\ depth = 0
    /\ loop # "none" => outcome = "none"
    /\ at = "peek" => loop = "call"
    /\ loop = "call" /\ Sound => Calls(depth, frames)
    /\ at = "peek" /\ Sound => mnemonic = next

LEMMA NoCalls == Calls(0, <<>>)
<1> DEFINE below == [j \in 0..0 |-> 0]
<1>1. below \in [0..Len(<<>>) -> Nat] /\ below[0] = 0 /\ below[Len(<<>>)] = 0
  OBVIOUS
<1>2. 1..Len(<<>>) = {}
  OBVIOUS
<1> HIDE DEF below
<1> QED
  BY <1>1, <1>2 DEF Calls

LEMMA GoesKeeps ==
  ASSUME Stacked, NEW by \in {"call", "entry"}, NEW after \in Names, FitsAt(after, frames, 1),
         Goes(by, after), NEW d
  PROVE  /\ Stacked'
         /\ Calls(d, frames) => Calls(d + (IF by = "call" THEN 1 ELSE 0), frames')
<1> DEFINE f == [by |-> by, after |-> after]
<1>1. f \in Frames /\ f.by = by /\ f.after = after
  BY DEF Frames, Names
<1>2. frames' = <<f>> \o frames /\ next' \in Follows(frames') /\ frames \in Seq(Frames)
  BY DEF Goes, Stacked
<1> HIDE DEF f
<1>3. frames' \in Seq(Frames)
  BY <1>1, <1>2, Pushed
<1>4. next' \in Names /\ FitsAt(next', frames', 1)
  BY <1>2, <1>3, FollowsFit
<1>5. Fits(f.after, frames)
  BY <1>1 DEF Stacked, Fits
<1>6. Fits(next', frames')
  BY <1>1, <1>2, <1>4, <1>5, PushFits
<1> QED
  BY <1>1, <1>2, <1>3, <1>4, <1>6, PushCalls DEF Stacked

\* An entry is made wherever pc is, and is no call.
LEMMA EntryKeeps ==
  ASSUME Stacked, Goes("entry", next)
  PROVE  Stacked' /\ (Calls(depth, frames) => Calls(depth, frames'))
<1>1. next \in Names /\ FitsAt(next, frames, 1)
  BY DEF Stacked, Fits
<1>2. Stacked' /\ (Calls(depth, frames) => Calls(depth + 0, frames'))
  BY <1>1, GoesKeeps
<1>3. ASSUME Calls(depth, frames) PROVE depth + 0 = depth
  BY <1>3 DEF Calls, Stacked
<1> QED
  BY <1>2, <1>3

LEMMA InterruptKeeps ==
  ASSUME Stacked, NEW c, Interrupt(c)
  PROVE  Stacked' /\ (Calls(depth, frames) => Calls(depth, frames'))
<1>1. CASE Goes("entry", next)
  BY <1>1, EntryKeeps
<1>2. CASE UNCHANGED <<next, frames>>
  BY <1>2 DEF Stacked
<1> QED
  BY <1>1, <1>2 DEF Interrupt

\* A call that is undone may change where a return goes, and nothing it is of.
LEMMA UndoneKeeps ==
  ASSUME Stacked, HostIsUndone
  PROVE  Stacked' /\ (Sound' => Sound /\ UNCHANGED frames)
<1>1. CASE UNCHANGED <<frames, departures>>
  BY <1>1 DEF HostIsUndone, Stacked, Sound
<1>2. CASE /\ frames # <<>>
           /\ \E after \in Follows(Tail(frames)) :
                 frames' = <<[by |-> Head(frames).by, after |-> after]>> \o Tail(frames)
           /\ departures' = departures \cup {"call"}
  <2>1. PICK after \in Follows(Tail(frames)) :
            frames' = <<[by |-> Head(frames).by, after |-> after]>> \o Tail(frames)
    BY <1>2
  <2> DEFINE t == Tail(frames)
             f == [by |-> Head(frames).by, after |-> after]
  <2>2. /\ frames \in Seq(Frames) /\ Fits(next, frames) /\ next \in Names /\ next' = next
        /\ t \in Seq(Frames) /\ Head(frames) = frames[1] /\ frames[1] \in Frames /\ Len(frames) \in Nat
        /\ Len(frames) >= 1
    BY <1>2, Popped DEF Stacked, HostIsUndone
  <2>3. after \in Names /\ FitsAt(after, t, 1)
    BY <2>2, FollowsFit
  <2>4. f \in Frames /\ f.after = after /\ f.by = frames[1].by
    BY <2>2, <2>3 DEF Frames, Names
  <2>5. Fits(f.after, t)
    BY <1>2, <2>2, <2>3, <2>4, PopFits DEF Fits
  <2> HIDE DEF f, t
  <2>6. /\ <<f>> \o t \in Seq(Frames) /\ (<<f>> \o t)[1] = f
        /\ Len(<<f>> \o t) = Len(t) + 1 /\ Len(t) \in Nat
    BY <2>2, <2>4, Pushed
  <2>7. FitsAt(next, <<f>> \o t, 1)
    BY <2>2, <2>4, <2>6 DEF Fits, FitsAt
  <2>8. Fits(next, <<f>> \o t)
    BY <2>2, <2>4, <2>5, <2>7, PushFits
  <2>9. frames' = <<f>> \o t
    BY <2>1 DEF f, t
  <2> QED
    BY <1>2, <2>2, <2>6, <2>8, <2>9 DEF Stacked, Sound
<1> QED
  BY <1>1, <1>2 DEF HostIsUndone

\* An instruction that is not call()'s own RTS moves the count with the stack.
LEMMA ExecuteKeeps ==
  ASSUME Stacked, Execute
  PROVE  /\ Stacked'
         /\ Calls(depth, frames) /\ ~(next = "rts" /\ depth = 0) =>
               Calls(IF next = "rts" THEN depth - 1 ELSE IF next = "jsr" THEN depth + 1 ELSE depth,
                     frames')
<1>0. ASSUME Calls(depth, frames) PROVE depth \in Nat /\ (frames = <<>> => depth = 0)
  BY <1>0 DEF Calls, Stacked
<1>1. CASE /\ next \in {"jsr", "brk"}
           /\ \E after \in Follows(frames) : Goes(IF next = "jsr" THEN "call" ELSE "entry", after)
  <2>1. PICK after \in Follows(frames) : Goes(IF next = "jsr" THEN "call" ELSE "entry", after)
    BY <1>1
  <2>2. after \in Names /\ FitsAt(after, frames, 1)
    BY FollowsFit DEF Stacked
  <2>3. CASE next = "jsr"
    <3>1. Goes("call", after)
      BY <2>1, <2>3
    <3> QED
      BY <2>2, <2>3, <3>1, GoesKeeps
  <2>4. CASE next = "brk"
    <3>1. Goes("entry", after)
      BY <2>1, <2>4
    <3>2. Stacked' /\ (Calls(depth, frames) => Calls(depth + 0, frames'))
      BY <2>2, <3>1, GoesKeeps
    <3> QED
      BY <1>0, <2>4, <3>2
  <2> QED
    BY <1>1, <2>3, <2>4
<1>2. CASE /\ next \in {"rts", "rti"} /\ frames # <<>>
           /\ frames' = Tail(frames)
           /\ next' = Head(frames).after
  <2>1. frames \in Seq(Frames) /\ Fits(next, frames)
    BY DEF Stacked
  <2>2. /\ Tail(frames) \in Seq(Frames) /\ Len(frames) >= 1
        /\ Head(frames) = frames[1] /\ frames[1] \in Frames
    BY <1>2, <2>1, Popped
  <2>3. next = "rts" => frames[1].by = "call"
    BY <2>1, <2>2 DEF Fits, FitsAt
  <2>4. next = "rti" => frames[1].by = "entry"
    BY <2>1, <2>2 DEF Fits, FitsAt
  <2>5. Stacked'
    BY <1>2, <2>1, <2>2, PopFits DEF Stacked, Frames, Names
  <2>6. ASSUME Calls(depth, frames)
        PROVE  Calls(depth - (IF frames[1].by = "call" THEN 1 ELSE 0), Tail(frames))
    BY <1>2, <2>1, <2>6, PopCalls
  <2>7. CASE next = "rts"
    BY <1>2, <2>3, <2>5, <2>6, <2>7
  <2>8. CASE next = "rti"
    <3>1. ASSUME Calls(depth, frames) PROVE depth - 0 = depth
      BY <1>0, <3>1
    <3> QED
      BY <1>2, <2>4, <2>5, <2>6, <2>8, <3>1
  <2> QED
    BY <1>2, <2>7, <2>8
<1>3. CASE /\ next \in {"op", "wai", "stp"} \/ (next = "rts" /\ frames = <<>>)
           /\ next' \in Follows(frames)
           /\ UNCHANGED frames
  <2>1. next' \in Names /\ FitsAt(next', frames, 1)
    BY <1>3, FollowsFit DEF Stacked
  <2>2. Stacked'
    BY <1>3, <2>1 DEF Stacked, Fits
  <2> QED
    BY <1>0, <1>3, <2>2
<1> QED
  BY <1>1, <1>2, <1>3 DEF Execute

LEMMA LookingStep == Looking /\ [Next]_vars => Looking'
<1> SUFFICES ASSUME Looking, [Next]_vars PROVE Looking'
  OBVIOUS
<1>s. Stacked
  BY DEF Looking
<1> USE DEF counts, program
<1>1. ASSUME NEW which \in {"call", "until", "slice"}, Starts(which) PROVE Looking'
  <2>1. /\ next' \in Follows(<<>>) /\ frames' = <<>> /\ frames = <<>> /\ depth' = 0
        /\ loop' = which /\ outcome' = "none" /\ at' = "head"
    BY <1>1 DEF Starts, Looking
  <2>2. <<>> \in Seq(Frames) /\ Len(<<>>) = 0
    OBVIOUS
  <2>3. next' \in Names /\ FitsAt(next', <<>>, 1)
    BY <2>1, <2>2, FollowsFit
  <2>4. Stacked'
    BY <2>1, <2>2, <2>3 DEF Stacked, Fits
  <2> QED
    BY <2>1, <2>4, NoCalls DEF Looking
<1>2. ASSUME NEW how, Ends(how) PROVE Looking'
  <2>1. Stacked'
    BY <1>2 DEF Ends, Stacked, Fits, FitsAt, Names
  <2> QED
    BY <1>2, <2>1 DEF Ends, Looking
<1>3. CASE Peek
  BY <1>3 DEF Peek, Looking, Stacked, Sound
<1>4. CASE Step /\ loop # "none" /\ (loop # "call" => UNCHANGED depth)
           /\ (loop = "call" => at = "peek" /\ ~(mnemonic = "rts" /\ depth = 0) /\ depth' = Counted)
  <2>1. at' = "last" /\ UNCHANGED <<loop, outcome, mnemonic>>
    BY <1>4 DEF Step
  <2>2. CASE Execute /\ UNCHANGED departures
    <3>1. Stacked'
      BY <1>s, <2>2, ExecuteKeeps
    <3>2. ASSUME loop = "call", Sound' PROVE Calls(depth', frames')
      <4>1. mnemonic = next /\ Calls(depth, frames)
        BY <1>4, <2>2, <3>2 DEF Looking, Sound
      <4> QED
        BY <1>s, <1>4, <2>2, <3>2, <4>1, ExecuteKeeps DEF Counted
    <3> QED
      BY <1>4, <2>1, <3>1, <3>2 DEF Looking
  <2>3. CASE Aborted
    <3>1. Stacked' /\ frames' = frames
      BY <1>s, <2>3 DEF Aborted, Stacked
    <3>2. ASSUME loop = "call", Sound' PROVE Calls(depth', frames')
      <4>1. Counted = depth /\ Sound
        BY <2>3, <3>2 DEF Aborted, Sound
      <4> QED
        BY <1>4, <3>1, <3>2, <4>1 DEF Looking
    <3> QED
      BY <1>4, <2>1, <3>1, <3>2 DEF Looking
  <2> QED
    BY <1>4, <2>2, <2>3 DEF Step
<1>5. CASE HeldCycle \/ HeldStalls \/ HeldCounts
  <2>1. /\ UNCHANGED <<next, frames, loop, outcome, mnemonic, depth>> /\ (Sound' => Sound)
        /\ at' \in {"held", "head"} /\ (loop = "none" => at' = "head")
    BY <1>5 DEF HeldCycle, HeldStalls, HeldCounts, Looking, Sound
  <2> QED
    BY <2>1 DEF Looking, Stacked
<1>6. CASE StepEnds
  <2>1. PICK c \in {0} \cup EntryCosts : Sampled(c) \/ AbortEnters(c)
    BY <1>6 DEF StepEnds
  <2>2. at' = "head" /\ at = "last" /\ UNCHANGED <<loop, outcome, departures, mnemonic, depth>>
    BY <1>6, <2>1 DEF StepEnds, Sampled, AbortEnters
  <2>3. Stacked' /\ (Calls(depth, frames) => Calls(depth, frames'))
    <3>1. CASE Interrupt(c)
      BY <1>s, <3>1, InterruptKeeps
    <3>2. CASE UNCHANGED program
      BY <1>s, <3>2 DEF Stacked
    <3>3. CASE Goes("entry", next)
      BY <1>s, <3>3, EntryKeeps
    <3> QED
      BY <2>1, <3>1, <3>2, <3>3 DEF Sampled, AbortEnters
  <2> QED
    BY <2>2, <2>3 DEF Looking, Sound
<1>7. CASE HostCalls
  <2>1. PICK c \in {0} \cup EntryCosts : Interrupt(c)
    BY <1>7 DEF HostCalls
  <2>2. /\ UNCHANGED <<loop, at, outcome, mnemonic, depth>>
        /\ (Sound' => Sound /\ at = "last") /\ at \in {"peek", "last", "held"}
    BY <1>7 DEF HostCalls, Sound
  <2>3. Stacked' /\ (Calls(depth, frames) => Calls(depth, frames'))
    BY <1>s, <2>1, InterruptKeeps
  <2> QED
    BY <2>2, <2>3 DEF Looking
<1>8. CASE HostIsUndone
  <2>1. Stacked' /\ (Sound' => Sound /\ UNCHANGED frames)
    BY <1>s, <1>8, UndoneKeeps
  <2>2. UNCHANGED <<loop, at, outcome, mnemonic, depth>> /\ at = "last"
    BY <1>8 DEF HostIsUndone
  <2> QED
    BY <2>1, <2>2 DEF Looking
<1>9. CASE UNCHANGED vars
  BY <1>9 DEF vars, Looking, Stacked, Sound
<1> QED
  BY <1>1, <1>2, <1>3, <1>4, <1>5, <1>6, <1>7, <1>8, <1>9
     DEF Next, Loops, CallStarts, UntilStarts, SliceStarts, CallReturns, CallSteps, UntilReturns,
         UntilSteps, SliceReturns, SliceSteps, Raises, GivesUp

LEMMA LookingInit == Init => Looking
  BY DEF Init, Looking, Stacked, Fits, FitsAt, Names

\* Where call() reads the opcode, its own RTS is the one with no call to come back to.
LEMMA OwnReturn ==
  ASSUME Looking, loop = "call", at = "peek", Sound
  PROVE  mnemonic = "rts" /\ depth = 0 <=> next = "rts" /\ frames = <<>>
<1>1. mnemonic = next /\ Calls(depth, frames) /\ Stacked
  BY DEF Looking
<1>2. CASE frames = <<>>
  BY <1>1, <1>2 DEF Calls
<1>3. CASE frames # <<>>
  <2>1. next = "rts" => frames[1].by = "call"
    BY <1>1, <1>3, Popped DEF Stacked, Fits, FitsAt
  <2>2. frames[1].by = "call" => depth # 0
    BY <1>1, <1>3, PopCalls DEF Stacked
  <2> QED
    BY <1>1, <1>3, <2>1, <2>2
<1> QED
  BY <1>2, <1>3

\* call() returns when its routine does, however deep the routine calls and is
\* interrupted, where what it read is what it stepped and no counted instruction
\* was aborted.
THEOREM CallsEndAtTheirReturn == Spec => CallEndsAtItsReturn
<1>1. Looking /\ [Next]_vars =>
        [loop = "call" /\ at = "peek" /\ at' # "peek" /\ departures \cap {"call", "abort"} = {} =>
            (outcome' = "returned" <=> next = "rts" /\ frames = <<>>)]_vars
  <2> SUFFICES ASSUME Looking, Next, loop = "call", at = "peek", at' # "peek", Sound
               PROVE  outcome' = "returned" <=> next = "rts" /\ frames = <<>>
    BY DEF Sound
  <2>1. mnemonic = "rts" /\ depth = 0 <=> next = "rts" /\ frames = <<>>
    BY OwnReturn
  <2>2. outcome = "none"
    BY DEF Looking
  <2>3. CallReturns \/ CallSteps
    BY DEF Next, Loops, HostCalls, HostIsUndone, CallStarts, UntilStarts, SliceStarts, Starts, Peek,
           UntilReturns, UntilSteps, SliceReturns, SliceSteps, HeldCycle, HeldStalls, HeldCounts,
           StepEnds, Sampled, AbortEnters, GivesUp
  <2>4. CASE CallReturns
    BY <2>1, <2>4 DEF CallReturns, Ends
  <2>5. CASE CallSteps
    BY <2>1, <2>2, <2>5 DEF CallSteps, Raises, Ends, Step
  <2> QED
    BY <2>3, <2>4, <2>5
<1> QED
  BY <1>1, LookingInit, LookingStep, PTL DEF Spec, CallEndsAtItsReturn
=============================================================================
