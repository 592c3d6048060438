-------------------------- MODULE RegistersProofs --------------------------
(***************************************************************************)
(* The widths of a 65816's registers and its stack, for every number of    *)
(* values a byte may have, every data and every depth of stack.            *)
(*                                                                         *)
(* WidthsAgree needs no strengthening: each setter establishes its part    *)
(* whatever it is given, and what bypasses the setters does not change it. *)
(*                                                                         *)
(* For the stack, IInv says where its frames lie.  The addresses of a mode *)
(* make a ring, page one or bank zero, on which a flat access and the      *)
(* setter of s that follows it are where push8 would have been.  The       *)
(* frames pushed in this mode lie on the ring one below the other, from its*)
(* base down to s, and what is in their cells is what their class lays out *)
(* for their value.  That a push overwrites none of them is a count: their *)
(* cells are as many as the ring has places for them, and Push leaves room.*)
(***************************************************************************)
EXTENDS Registers, FiniteSetTheorems, TLAPS

\* What WidthsAgree says after a reset.
Shape ==
    /\ x8 => x.h = 0
    /\ emulation => m8 /\ x8 /\ s.h = 1

\* The setter of s keeps emulation mode's pointer in page one.
LEMMA StackedInPage ==
  ASSUME NEW w, NEW e, e
  PROVE  Stacked(w, e).h = 1
  BY DEF Stacked, PageOne

\* A push leaves emulation mode's pointer in page one, flat or not.
LEMMA PushInPage ==
  ASSUME NEW class, NEW bytes, NEW flat, NEW value,
         Push(class, bytes, flat, value), emulation
  PROVE  s'.h = 1 /\ reset' = reset
<1>1. s' = Stacked(Down(s, Len(bytes), flat), emulation) /\ reset' = reset
  BY DEF Push
<1> QED
  BY <1>1, StackedInPage

\* A pull leaves emulation mode's pointer in page one.
LEMMA PullInPage ==
  ASSUME NEW class, NEW count, NEW flat, NEW value,
         Pull(class, count, flat, value), emulation
  PROVE  s'.h = 1 /\ reset' = reset
<1>1. s' = Stacked(Down(s, -count, flat), emulation) /\ reset' = reset
  BY DEF Pull
<1> QED
  BY <1>1, StackedInPage

\* set_status narrows an index register and emulation mode forces the widths,
\* whatever the status is and wherever it came from.
LEMMA StatusSetsWidths ==
  ASSUME NEW st, NEW index, set_status(st, index)
  PROVE  /\ x8' => x'.h = 0
         /\ emulation => m8' /\ x8'
<1>1. m8' = (st[1] \/ emulation) /\ x8' = (st[2] \/ emulation)
  BY DEF set_status
<1>2. x' = IF x8' THEN Narrow(index) ELSE index
  BY DEF set_status
<1>3. x8' => x'.h = 0
  BY <1>2 DEF Narrow
<1>4. emulation => m8' /\ x8'
  BY <1>1
<1> QED
  BY <1>3, <1>4

\* Reset makes the widths agree, whatever power-on left.
LEMMA ResetShapes == Reset => Shape'
  BY DEF Reset, Shape, Narrow, PageOne

\* An instruction that pushes.
LEMMA PushersKeepShape ==
  ASSUME Shape, Phx \/ PhbPhkPha \/ Pha \/ PushFlat \/ Php \/ Jsr \/ Jsl \/ Enter
  PROVE  Shape' /\ reset' = reset
<1>1. UNCHANGED widths
  BY DEF Phx, PhbPhkPha, Pha, PushFlat, Php, Jsr, Jsl, Enter
<1>2. PICK class, bytes, flat, value : Push(class, bytes, flat, value)
  BY DEF Phx, PhbPhkPha, Pha, PushFlat, Php, Jsr, Jsl, Enter, EnterWith
<1>3. reset' = reset
  BY <1>2 DEF Push
<1>4. emulation => s'.h = 1
  BY <1>2, PushInPage
<1> QED
  BY <1>1, <1>3, <1>4 DEF Shape, widths

\* An instruction that pulls: into an index register as wide as x8 says, into
\* the status, or elsewhere.
LEMMA PullersKeepShape ==
  ASSUME Shape, Plx \/ Pla \/ Plb \/ Pld \/ Plp \/ Rts \/ Rtl \/ Rti
  PROVE  Shape' /\ reset' = reset
<1>1. PICK class, count, flat, value : Pull(class, count, flat, value)
  BY DEF Plx, Pla, Plb, Pld, Plp, Rts, Rtl, Rti
<1>2. reset' = reset
  BY <1>1 DEF Pull
<1>3. emulation => s'.h = 1
  BY <1>1, PullInPage
<1>4. emulation' = emulation
  BY DEF Plx, Pla, Plb, Pld, Plp, Rts, Rtl, Rti, widths
<1>5. CASE Plp \/ Rti
  <2>1. PICK st : set_status(st, x)
    BY <1>5 DEF Plp, Rti
  <2>2. (x8' => x'.h = 0) /\ (emulation => m8' /\ x8')
    BY <2>1, StatusSetsWidths
  <2> QED
    BY <1>2, <1>3, <1>4, <2>2 DEF Shape
<1>6. CASE Plx
  <2>1. m8' = m8 /\ x8' = x8
    BY <1>6 DEF Plx
  <2>2. ASSUME x8 PROVE x'.h = 0
    <3>1. PICK l : x' = [h |-> 0, l |-> l]
      BY <1>6, <2>2, Zenon DEF Plx
    <3> QED
      BY <3>1
  <2> QED
    BY <1>2, <1>3, <1>4, <2>1, <2>2 DEF Shape
<1>7. CASE Pla \/ Plb \/ Pld \/ Rts \/ Rtl
  <2>1. UNCHANGED widths
    BY <1>7 DEF Pla, Plb, Pld, Rts, Rtl
  <2> QED
    BY <1>2, <1>3, <2>1 DEF Shape, widths
<1> QED
  BY <1>5, <1>6, <1>7

\* An aborted instruction, which may keep the status it has pulled.
LEMMA AbortKeepsShape ==
  ASSUME Shape, Abort
  PROVE  Shape' /\ reset' = reset
<1>1. PICK st : set_status(st, x) /\ EnterWith(<<m8', x8' /\ ~emulation>>)
  BY DEF Abort
<1>2. emulation' = emulation
  BY DEF Abort
<1>3. PICK class, bytes, flat, value : Push(class, bytes, flat, value)
  BY <1>1 DEF EnterWith
<1>4. reset' = reset
  BY <1>3 DEF Push
<1>5. emulation => s'.h = 1
  BY <1>3, PushInPage
<1>6. (x8' => x'.h = 0) /\ (emulation => m8' /\ x8')
  BY <1>1, StatusSetsWidths
<1> QED
  BY <1>2, <1>4, <1>5, <1>6 DEF Shape

\* What changes a width, a register or the mode without the stack.
LEMMA OthersKeepShape ==
  ASSUME Shape, LoadIndex \/ Tsx \/ Txs \/ RepSep \/ Xce
  PROVE  Shape' /\ reset' = reset
<1>1. CASE LoadIndex
  BY <1>1 DEF LoadIndex, Shape, stack
<1>2. CASE Tsx
  BY <1>2 DEF Tsx, Shape, Narrow, stack
<1>3. CASE Txs
  BY <1>3 DEF Txs, Shape, PageOne
<1>4. CASE RepSep
  <2>1. PICK st : set_status(st, x)
    BY <1>4 DEF RepSep
  <2>2. (x8' => x'.h = 0) /\ (emulation => m8' /\ x8')
    BY <2>1, StatusSetsWidths
  <2>3. emulation' = emulation /\ s' = s /\ reset' = reset
    BY <1>4 DEF RepSep
  <2> QED
    BY <2>2, <2>3 DEF Shape
<1>5. CASE Xce
  <2>1. PICK carry : set_emulation(carry)
    BY <1>5 DEF Xce
  <2>2. /\ emulation' = carry
        /\ m8' = (m8 \/ carry)
        /\ x8' = (x8 \/ carry)
        /\ x' = IF carry THEN Narrow(x) ELSE x
        /\ s' = Stacked(s, carry)
    BY <2>1 DEF set_emulation
  <2>3. reset' = reset
    BY <1>5 DEF Xce
  <2>4. CASE carry
    <3>1. x'.h = 0
      BY <2>2, <2>4 DEF Narrow
    <3>2. s'.h = 1
      BY <2>2, <2>4, StackedInPage
    <3>3. m8' /\ x8'
      BY <2>2, <2>4
    <3> QED
      BY <2>3, <3>1, <3>2, <3>3 DEF Shape
  <2>5. CASE ~carry
    <3>1. x' = x /\ (x8' <=> x8) /\ ~emulation'
      BY <2>2, <2>5
    <3> QED
      BY <2>3, <3>1 DEF Shape
  <2> QED
    BY <2>4, <2>5
<1> QED
  BY <1>1, <1>2, <1>3, <1>4, <1>5

\* From the first reset on the index registers have no high byte while they are
\* narrow, and emulation mode has its widths and its stack in page one.
THEOREM WidthsAlwaysAgree == Spec => []WidthsAgree
<1>1. Init => WidthsAgree
  BY DEF Init, WidthsAgree
<1>2. WidthsAgree /\ [Next]_vars => WidthsAgree'
  <2> SUFFICES ASSUME WidthsAgree, [Next]_vars
               PROVE  WidthsAgree'
    OBVIOUS
  <2>1. WidthsAgree <=> (reset => Shape)
    BY DEF WidthsAgree, Shape
  <2>2. WidthsAgree' <=> (reset' => Shape')
    BY DEF WidthsAgree, Shape
  <2>3. CASE Reset
    BY <2>2, <2>3, ResetShapes
  <2>4. CASE UNCHANGED vars
    BY <2>4 DEF vars, registers, WidthsAgree
  <2>5. CASE Phx \/ PhbPhkPha \/ Pha \/ PushFlat \/ Php \/ Jsr \/ Jsl \/ Enter
    <3>1. reset' = reset
      BY <2>5 DEF Phx, PhbPhkPha, Pha, PushFlat, Php, Jsr, Jsl, Enter, EnterWith, Push
    <3> QED
      BY <2>1, <2>2, <2>5, <3>1, PushersKeepShape
  <2>6. CASE Plx \/ Pla \/ Plb \/ Pld \/ Plp \/ Rts \/ Rtl \/ Rti
    <3>1. reset' = reset
      BY <2>6 DEF Plx, Pla, Plb, Pld, Plp, Rts, Rtl, Rti, Pull
    <3> QED
      BY <2>1, <2>2, <2>6, <3>1, PullersKeepShape
  <2>7. CASE Abort
    <3>1. reset' = reset
      BY <2>7 DEF Abort, EnterWith, Push
    <3> QED
      BY <2>1, <2>2, <2>7, <3>1, AbortKeepsShape
  <2>8. CASE LoadIndex \/ Tsx \/ Txs \/ RepSep \/ Xce
    <3>1. reset' = reset
      BY <2>8 DEF LoadIndex, Tsx, Txs, RepSep, Xce
    <3> QED
      BY <2>1, <2>2, <2>8, <3>1, OthersKeepShape
  <2> QED
    BY <2>3, <2>4, <2>5, <2>6, <2>7, <2>8 DEF Next
<1> QED
  BY <1>1, <1>2, PTL DEF Spec
-----------------------------------------------------------------------------
(* The stack.  A mode has a ring of addresses, page one or bank zero, and  *)
(* the frames pushed in it lie on that ring one below the other.           *)

Octet == 0..(Byte - 1)

Value == {<<v>> : v \in Octet} \cup (Octet \X Octet) \cup Status
         \cup (Octet \X Octet \X Octet) \cup (Octet \X Octet \X Octet \X Status)

Content == {<<>>} \cup {<<v>> : v \in Octet} \cup Status

Classes == {"byte", "word", "status", "near", "far", "entry"}

Frame == [class : Classes, value : Value, from : Word, flat : BOOLEAN,
          e : BOOLEAN, at : SUBSET Word]

TypeOK ==
    /\ emulation \in BOOLEAN /\ m8 \in BOOLEAN /\ x8 \in BOOLEAN
    /\ x \in Word
    /\ s \in Word /\ (emulation => s.h = 1)
    /\ cells \in [Word -> Content]
    /\ frames \in Seq(Frame)

Ring == IF emulation THEN Byte ELSE Byte * Byte

Index(w) == IF emulation THEN w.l ELSE Byte * w.h + w.l

\* How many bytes an instruction pushes, and the one that goes with it pulls.
Size(class) ==
    CASE class \in {"byte", "status"} -> 1
      [] class \in {"word", "near"} -> 2
      [] class = "far" -> 3
      [] class = "entry" -> IF emulation THEN 3 ELSE 4

\* The bytes that a class pushes for a value.
Layout(class, value, bytes) ==
    CASE class = "byte" -> \E v \in Octet : value = <<v>> /\ bytes = <<<<v>>>>
      [] class = "word" -> \E w \in Word : value = <<w.h, w.l>> /\ bytes = <<<<w.h>>, <<w.l>>>>
      [] class = "status" -> value \in Status /\ bytes = <<value>>
      [] class = "near" -> \E pc \in Word :
            value = <<pc.h, pc.l>> /\ bytes = <<<<Plus(pc, -1).h>>, <<Plus(pc, -1).l>>>>
      [] class = "far" -> \E pc \in Word, pb \in Octet :
            /\ value = <<pb, pc.h, pc.l>>
            /\ bytes = <<<<pb>>, <<Plus(pc, -1).h>>, <<Plus(pc, -1).l>>>>
      [] class = "entry" -> \E pc \in Word, pb \in Octet, st \in Status :
            IF emulation
            THEN value = <<pc.h, pc.l>> /\ bytes = <<<<pc.h>>, <<pc.l>>, st>>
            ELSE value = <<pb, pc.h, pc.l, st>> /\ bytes = <<<<pb>>, <<pc.h>>, <<pc.l>>, st>>

\* The frames that were pushed in this mode.
Live == {i \in DOMAIN frames : frames[i].e = emulation}

SizeAt(i) == Size(frames[i].class)

\* They are the newest, and in emulation mode all.
Layered ==
    /\ \A i \in Live : \A j \in 1..i : j \in Live
    /\ emulation => Live = DOMAIN frames

\* They reach from the base of the ring down to s with no gap and no overlap;
\* below counts the bytes that lie before a frame.
Stands(base, total, below) ==
    /\ Index(s) = (base - total) % Ring
    /\ \A i \in Live : /\ Index(frames[i].from) = (base - below[i]) % Ring
                       /\ emulation => frames[i].from.h = 1
                       /\ below[i] + SizeAt(i) <= total
    /\ \A i, j \in Live : i < j => below[j] + SizeAt(j) <= below[i]
    /\ \A i \in Live : i + 1 \in Live => below[i] = below[i + 1] + SizeAt(i + 1)
    /\ IF 1 \in Live THEN total = below[1] + SizeAt(1) ELSE total = 0
    /\ \A t \in 0..(total - 1) : \E i \in Live : below[i] <= t /\ t < below[i] + SizeAt(i)

Stacks ==
    \E base \in 0..(Ring - 1), total \in 0..Ring, below \in [DOMAIN frames -> 0..Ring] :
        Stands(base, total, below)

\* What lies in the cells of a frame, from the first that was pushed.
Laid(f) ==
    LET size == Size(f.class)
    IN  /\ f.at = {Down(f.from, k - 1, f.flat) : k \in 1..size}
        /\ \E bytes \in [1..size -> Content] :
              /\ Layout(f.class, f.value, bytes)
              /\ \A k \in 1..size : cells[Down(f.from, k - 1, f.flat)] = bytes[k]

IInv ==
    /\ TypeOK
    /\ Layered
    /\ Stacks
    /\ \A i \in Live : Laid(frames[i])
    /\ matched /\ balanced

-----------------------------------------------------------------------------
(* Remainders.                                                             *)

LEMMA Remainder ==
  ASSUME NEW n \in Nat \ {0}, NEW t \in Int
  PROVE  /\ (t % n) \in 0..(n - 1)
         /\ (t \div n) \in Int
         /\ t = n * (t \div n) + (t % n)
  OBVIOUS

LEMMA RemainderIs ==
  ASSUME NEW n \in Nat \ {0}, NEW q \in Int, NEW r \in 0..(n - 1)
  PROVE  ((n * q + r) % n) = r /\ ((n * q + r) \div n) = q
  OBVIOUS

\* A step from a remainder is a step from the number.
LEMMA RemainderPlus ==
  ASSUME NEW n \in Nat \ {0}, NEW t \in Int, NEW d \in Int
  PROVE  (((t % n) + d) % n) = ((t + d) % n)
<1> DEFINE q == t \div n
           p == ((t % n) + d) \div n
           r == ((t % n) + d) % n
<1>1. t = n * q + (t % n) /\ q \in Int /\ (t % n) \in Int
  BY Remainder
<1>2. (t % n) + d \in Int
  BY <1>1
<1>3. (t % n) + d = n * p + r /\ p \in Int /\ r \in 0..(n - 1)
  BY <1>2, Remainder
<1> HIDE DEF q, p, r
<1>4. t + d = n * (q + p) + r
  BY <1>1, <1>3
<1>5. ((n * (q + p) + r) % n) = r
  <2>1. q + p \in Int
    BY <1>1, <1>3
  <2> QED
    BY <1>3, <2>1, RemainderIs
<1> QED
  BY <1>4, <1>5 DEF r

\* Numbers less than n apart have different remainders.
LEMMA RemaindersDiffer ==
  ASSUME NEW n \in Nat \ {0}, NEW t \in Int, NEW u \in Int,
         t < u, u < t + n
  PROVE  (t % n) # (u % n)
<1> DEFINE q == t \div n
           p == u \div n
<1>1. t = n * q + (t % n) /\ q \in Int
  BY Remainder
<1>2. u = n * p + (u % n) /\ p \in Int
  BY Remainder
<1> HIDE DEF q, p
<1>3. SUFFICES ASSUME (t % n) = (u % n) PROVE FALSE
  OBVIOUS
<1>4. (t % n) \in Int
  BY Remainder
<1>5. u - t = n * (p - q)
  BY <1>1, <1>2, <1>3, <1>4
<1>6. p - q >= 1 \/ p - q <= 0
  BY <1>1, <1>2
<1> QED
  BY <1>1, <1>2, <1>5, <1>6

-----------------------------------------------------------------------------
(* Addresses.                                                              *)

LEMMA Sizes ==
  /\ Byte \in Nat \ {0} /\ Byte >= 3
  /\ Byte * Byte \in Nat \ {0} /\ Byte * Byte >= 3 * Byte
  /\ Ring \in Nat \ {0} /\ Ring >= Byte
  BY ByteAssumption DEF Ring

\* A word and its two bytes.
LEMMA WordNumber ==
  ASSUME NEW w \in Word
  PROVE  /\ w.h \in Octet /\ w.l \in Octet
         /\ w = [h |-> w.h, l |-> w.l]
         /\ Byte * w.h + w.l \in 0..(Byte * Byte - 1)
<1>1. w.h \in 0..(Byte - 1) /\ w.l \in 0..(Byte - 1) /\ w = [h |-> w.h, l |-> w.l]
  BY DEF Word
<1>2. Byte * w.h <= Byte * (Byte - 1) /\ Byte * w.h >= 0
  BY <1>1, Sizes
<1> QED
  BY <1>1, <1>2, Sizes DEF Octet

LEMMA NumberWord ==
  ASSUME NEW t \in 0..(Byte * Byte - 1)
  PROVE  /\ [h |-> t \div Byte, l |-> t % Byte] \in Word
         /\ Byte * (t \div Byte) + (t % Byte) = t
<1>1. (t % Byte) \in 0..(Byte - 1) /\ (t \div Byte) \in Int /\ t = Byte * (t \div Byte) + (t % Byte)
  BY Sizes, Remainder
<1>2. (t \div Byte) \in 0..(Byte - 1)
  <2> DEFINE q == t \div Byte
  <2>1. Byte * q <= t /\ t < Byte * q + Byte /\ q \in Int
    BY <1>1, Sizes
  <2> HIDE DEF q
  <2>2. q >= 0
    <3>1. q <= -1 => Byte * q + Byte <= 0
      BY <2>1, Sizes
    <3> QED
      BY <2>1, <3>1, Sizes
  <2>3. q <= Byte - 1
    <3>1. q >= Byte => Byte * q >= Byte * Byte
      BY <2>1, Sizes
    <3> QED
      BY <2>1, <3>1, Sizes
  <2> QED
    BY <2>1, <2>2, <2>3, Sizes DEF q
<1> QED
  BY <1>1, <1>2 DEF Word

LEMMA WordsDiffer ==
  ASSUME NEW v \in Word, NEW w \in Word
  PROVE  /\ Byte * v.h + v.l = Byte * w.h + w.l => v = w
         /\ v.h = w.h /\ v.l = w.l => v = w
<1>1. ((Byte * v.h + v.l) % Byte) = v.l /\ ((Byte * w.h + w.l) % Byte) = w.l
      /\ ((Byte * v.h + v.l) \div Byte) = v.h /\ ((Byte * w.h + w.l) \div Byte) = w.h
  BY WordNumber, RemainderIs, Sizes DEF Octet
<1> QED
  BY <1>1, WordNumber

\* Plus counts round the bank.
LEMMA PlusIs ==
  ASSUME NEW w \in Word, NEW k \in Int
  PROVE  /\ Plus(w, k) \in Word
         /\ Byte * Plus(w, k).h + Plus(w, k).l = (Byte * w.h + w.l + k) % (Byte * Byte)
<1> DEFINE sum == (Byte * w.h + w.l + k) % (Byte * Byte)
<1>1. Byte * w.h + w.l + k \in Int
  BY WordNumber, Sizes
<1>2. sum \in 0..(Byte * Byte - 1)
  BY <1>1, Sizes, Remainder
<1>3. Plus(w, k) = [h |-> sum \div Byte, l |-> sum % Byte]
  BY DEF Plus
<1> HIDE DEF sum
<1>4. [h |-> sum \div Byte, l |-> sum % Byte] \in Word /\ Byte * (sum \div Byte) + (sum % Byte) = sum
  BY <1>2, NumberWord
<1> QED
  BY <1>3, <1>4 DEF sum

\* What Plus takes it gives back.
LEMMA PlusBack ==
  ASSUME NEW w \in Word, NEW k \in Int
  PROVE  Plus(Plus(w, k), -k) = w
<1> DEFINE n == Byte * w.h + w.l
           v == Plus(w, k)
           u == Plus(v, -k)
<1>1. n \in 0..(Byte * Byte - 1) /\ n \in Int
  BY WordNumber
<1>2. v \in Word /\ Byte * v.h + v.l = (n + k) % (Byte * Byte)
  BY PlusIs
<1>3. u \in Word /\ Byte * u.h + u.l = (Byte * v.h + v.l + (-k)) % (Byte * Byte)
  BY <1>2, PlusIs
<1> HIDE DEF n, v, u
<1>4. Byte * u.h + u.l = (((n + k) % (Byte * Byte)) + (-k)) % (Byte * Byte)
  BY <1>2, <1>3
<1>5. Byte * u.h + u.l = ((n + k + (-k)) % (Byte * Byte))
  <2>1. n + k \in Int /\ -k \in Int /\ Byte * Byte \in Nat \ {0}
    BY <1>1, Sizes
  <2> QED
    BY <1>4, <2>1, RemainderPlus
<1>6. ((n + k + (-k)) % (Byte * Byte)) = n
  <2>1. n + k + (-k) = (Byte * Byte) * 0 + n
    BY <1>1, Sizes
  <2> QED
    BY <1>1, <2>1, Sizes, RemainderIs
<1>7. u = w
  BY <1>3, <1>5, <1>6, WordsDiffer DEF n
<1> QED
  BY <1>7 DEF u, v

-----------------------------------------------------------------------------
(* The ring.                                                               *)

\* A pointer of this mode.
Points(w) == w \in Word /\ (emulation => w.h = 1)

\* A pointer is where it is on the ring.
LEMMA PointsAt ==
  ASSUME NEW w, Points(w)
  PROVE  /\ Index(w) \in 0..(Ring - 1)
         /\ \A v : Points(v) /\ Index(v) = Index(w) => v = w
<1>1. Index(w) \in 0..(Ring - 1)
  BY WordNumber DEF Points, Index, Ring, Octet
<1>2. ASSUME NEW v, Points(v), Index(v) = Index(w) PROVE v = w
  BY <1>2, WordsDiffer DEF Points, Index
<1> QED
  BY <1>1, <1>2

\* The cell k down is k down on the ring; it is in page one unless a flat access
\* has left it.
LEMMA DownIs ==
  ASSUME NEW w, Points(w), NEW k \in Int, emulation => k \in (-Byte)..Byte, NEW flat
  PROVE  /\ Down(w, k, flat) \in Word
         /\ Index(Down(w, k, flat)) = (Index(w) - k) % Ring
         /\ emulation /\ (~flat \/ w.l - k \in 0..(Byte - 1)) => Down(w, k, flat).h = 1
<1>0. w \in Word /\ k \in Int /\ -k \in Int
  BY Sizes DEF Points
<1>1. CASE ~emulation
  <2>1. Down(w, k, flat) = Plus(w, -k)
    BY <1>1 DEF Down
  <2>2. /\ Plus(w, -k) \in Word
        /\ Byte * Plus(w, -k).h + Plus(w, -k).l = (Byte * w.h + w.l + (-k)) % (Byte * Byte)
    BY <1>0, PlusIs
  <2>3. Byte * w.h + w.l + (-k) = (Byte * w.h + w.l) - k
    BY <1>0, WordNumber
  <2> QED
    BY <1>1, <2>1, <2>2, <2>3 DEF Index, Ring
<1>2. CASE emulation /\ ~flat
  <2>1. Down(w, k, flat) = [h |-> 1, l |-> (w.l - k) % Byte]
    BY <1>2 DEF Down
  <2>2. w.l - k \in Int
    BY <1>0, WordNumber DEF Octet
  <2>3. ((w.l - k) % Byte) \in 0..(Byte - 1)
    BY <2>2, Sizes, Remainder
  <2> QED
    BY <1>2, <2>1, <2>3, Sizes DEF Index, Ring, Word
<1>3. CASE emulation /\ flat
  <2> DEFINE sum == Byte + w.l - k
  <2>1. w.h = 1 /\ w.l \in 0..(Byte - 1)
    BY <1>0, <1>3, WordNumber DEF Points, Octet
  <2>2. sum \in 0..(Byte * Byte - 1) /\ Byte * w.h + w.l + (-k) = sum
    <3>1. k \in (-Byte)..Byte
      BY <1>3
    <3>2. sum \in Int /\ sum >= 0 /\ sum < 3 * Byte
      BY <2>1, <3>1, Sizes
    <3> QED
      BY <1>0, <2>1, <3>2, Sizes
  <2>3. (sum % (Byte * Byte)) = sum
    BY <2>2, Sizes
  <2>4. Down(w, k, flat) = [h |-> sum \div Byte, l |-> sum % Byte]
    BY <1>3, <2>2, <2>3 DEF Down, Plus
  <2>5. Down(w, k, flat) \in Word
    BY <1>0, <1>3, PlusIs DEF Down
  <2>6. (sum % Byte) = ((w.l - k) % Byte)
    <3>1. w.l - k \in Int /\ ((w.l - k) % Byte) \in 0..(Byte - 1) /\ ((w.l - k) \div Byte) \in Int
          /\ w.l - k = Byte * ((w.l - k) \div Byte) + ((w.l - k) % Byte)
      <4>1. w.l - k \in Int
        BY <1>0, <2>1
      <4> QED
        BY <4>1, Sizes, Remainder
    <3> DEFINE q == (w.l - k) \div Byte
               r == (w.l - k) % Byte
    <3> HIDE DEF q, r
    <3>2. sum = Byte * (q + 1) + r
      BY <1>0, <2>1, <3>1, Sizes DEF q, r
    <3>3. q + 1 \in Int /\ r \in 0..(Byte - 1)
      BY <3>1 DEF q, r
    <3>4. ((Byte * (q + 1) + r) % Byte) = r
      BY <3>3, Sizes, RemainderIs
    <3> QED
      BY <3>2, <3>4 DEF r
  <2>7. w.l - k \in 0..(Byte - 1) => (sum \div Byte) = 1
    <3>1. SUFFICES ASSUME w.l - k \in 0..(Byte - 1) PROVE (sum \div Byte) = 1
      OBVIOUS
    <3> DEFINE r == w.l - k
    <3>2. sum = Byte + r /\ r \in 0..(Byte - 1)
      BY <1>0, <2>1, <3>1, Sizes
    <3> HIDE DEF r, sum
    <3>3. ((Byte + r) \div Byte) = 1
      BY <3>2, Sizes
    <3> QED
      BY <3>2, <3>3
  <2> HIDE DEF sum
  <2>8. Down(w, k, flat).l = ((w.l - k) % Byte) /\ Down(w, k, flat).h = sum \div Byte
    BY <2>4, <2>6
  <2>9. Index(Down(w, k, flat)) = ((Index(w) - k) % Ring)
    BY <1>3, <2>8 DEF Index, Ring
  <2> QED
    BY <1>3, <2>5, <2>7, <2>8, <2>9
<1> QED
  BY <1>1, <1>2, <1>3

\* s after a push or a pull of k bytes.
LEMMA StackedIs ==
  ASSUME NEW w, Points(w), NEW k \in Int, emulation => k \in (-Byte)..Byte, NEW flat,
         emulation \in BOOLEAN
  PROVE  /\ Points(Stacked(Down(w, k, flat), emulation))
         /\ Index(Stacked(Down(w, k, flat), emulation)) = (Index(w) - k) % Ring
<1>1. /\ Down(w, k, flat) \in Word
      /\ Index(Down(w, k, flat)) = (Index(w) - k) % Ring
  BY DownIs
<1>2. Down(w, k, flat).l \in 0..(Byte - 1)
  BY <1>1, WordNumber DEF Octet
<1> QED
  BY <1>1, <1>2, Sizes DEF Stacked, PageOne, Points, Index, Word

\* Two places on the ring, told from a base.
LEMMA RingDiffers ==
  ASSUME NEW base \in Int, NEW t \in Nat, NEW u \in Nat, t < u, u < t + Ring
  PROVE  ((base - t) % Ring) # ((base - u) % Ring)
<1>1. base - u < base - t /\ base - t < (base - u) + Ring /\ base - u \in Int /\ base - t \in Int
  BY Sizes
<1> QED
  BY <1>1, Sizes, RemaindersDiffer

\* Down from a place is further down from the base.
LEMMA RingDown ==
  ASSUME NEW base \in Int, NEW t \in Int, NEW k \in Int
  PROVE  ((((base - t) % Ring) - k) % Ring) = ((base - (t + k)) % Ring)
<1>1. base - t \in Int /\ -k \in Int /\ Ring \in Nat \ {0}
  BY Sizes
<1>2. ((((base - t) % Ring) + (-k)) % Ring) = (((base - t) + (-k)) % Ring)
  BY <1>1, RemainderPlus
<1>3. ((base - t) % Ring) \in Int
  BY <1>1, Remainder
<1>4. ((base - t) % Ring) + (-k) = ((base - t) % Ring) - k /\ (base - t) + (-k) = base - (t + k)
  BY <1>3
<1> QED
  BY <1>2, <1>4

-----------------------------------------------------------------------------
(* Frames.                                                                 *)

LEMMA SizeIs ==
  ASSUME NEW class \in Classes
  PROVE  /\ Size(class) \in 1..4 /\ Size(class) <= Ring
         /\ emulation => Size(class) <= Byte
  BY Sizes DEF Size, Classes, Ring

LEMMA LayoutIs ==
  ASSUME NEW class \in Classes, NEW value, NEW bytes, Layout(class, value, bytes)
  PROVE  /\ Len(bytes) = Size(class) /\ DOMAIN bytes = 1..Size(class)
         /\ bytes \in [1..Size(class) -> Content]
         /\ value \in Value
<1>1. CASE class = "byte"
  <2>1. PICK v \in Octet : value = <<v>> /\ bytes = <<<<v>>>>
    BY <1>1 DEF Layout
  <2> QED
    BY <1>1, <2>1 DEF Size, Value, Content
<1>2. CASE class = "word"
  <2>1. PICK w \in Word : value = <<w.h, w.l>> /\ bytes = <<<<w.h>>, <<w.l>>>>
    BY <1>2 DEF Layout
  <2> QED
    BY <1>2, <2>1, WordNumber DEF Size, Value, Content
<1>3. CASE class = "status"
  BY <1>3 DEF Layout, Size, Value, Content
<1>4. CASE class = "near"
  <2>1. PICK pc \in Word : /\ value = <<pc.h, pc.l>>
                           /\ bytes = <<<<Plus(pc, -1).h>>, <<Plus(pc, -1).l>>>>
    BY <1>4 DEF Layout
  <2>2. Plus(pc, -1) \in Word
    BY PlusIs
  <2> QED
    BY <1>4, <2>1, <2>2, WordNumber DEF Size, Value, Content
<1>5. CASE class = "far"
  <2>1. PICK pc \in Word, pb \in Octet :
            /\ value = <<pb, pc.h, pc.l>>
            /\ bytes = <<<<pb>>, <<Plus(pc, -1).h>>, <<Plus(pc, -1).l>>>>
    BY <1>5 DEF Layout
  <2>2. Plus(pc, -1) \in Word
    BY PlusIs
  <2> QED
    BY <1>5, <2>1, <2>2, WordNumber DEF Size, Value, Content
<1>6. CASE class = "entry"
  <2>1. PICK pc \in Word, pb \in Octet, st \in Status :
            IF emulation
            THEN value = <<pc.h, pc.l>> /\ bytes = <<<<pc.h>>, <<pc.l>>, st>>
            ELSE value = <<pb, pc.h, pc.l, st>> /\ bytes = <<<<pb>>, <<pc.h>>, <<pc.l>>, st>>
    BY <1>6 DEF Layout
  <2>2. CASE emulation
    BY <1>6, <2>1, <2>2, WordNumber DEF Size, Value, Content
  <2>3. CASE ~emulation
    BY <1>6, <2>1, <2>3, WordNumber DEF Size, Value, Content
  <2> QED
    BY <2>2, <2>3
<1> QED
  BY <1>1, <1>2, <1>3, <1>4, <1>5, <1>6 DEF Classes

LEMMA FrameIs ==
  ASSUME TypeOK, NEW i \in DOMAIN frames
  PROVE  /\ frames[i] \in Frame /\ i \in 1..Len(frames) /\ Len(frames) \in Nat
         /\ SizeAt(i) \in 1..4 /\ (emulation => SizeAt(i) <= Byte)
<1>1. frames[i] \in Frame /\ i \in 1..Len(frames) /\ Len(frames) \in Nat
  BY DEF TypeOK
<1> QED
  BY <1>1, SizeIs DEF SizeAt, Frame

\* Where a byte of a frame is.
LEMMA FrameCell ==
  ASSUME TypeOK, NEW base \in 0..(Ring - 1), NEW total \in 0..Ring,
         NEW below \in [DOMAIN frames -> 0..Ring], Stands(base, total, below),
         NEW i \in Live, NEW k \in 1..SizeAt(i)
  PROVE  LET w == Down(frames[i].from, k - 1, frames[i].flat)
             t == below[i] + (k - 1)
         IN  w \in Word /\ Index(w) = (base - t) % Ring /\ t \in 0..(total - 1)
<1> DEFINE from == frames[i].from
           w == Down(from, k - 1, frames[i].flat)
           t == below[i] + (k - 1)
<1>1. i \in DOMAIN frames
  BY DEF Live
<1>2. /\ from \in Word /\ SizeAt(i) \in 1..4 /\ (emulation => SizeAt(i) <= Byte)
      /\ below[i] \in 0..Ring
  BY <1>1, FrameIs DEF Frame
<1>3. /\ Index(from) = (base - below[i]) % Ring
      /\ emulation => from.h = 1
      /\ below[i] + SizeAt(i) <= total
  BY DEF Stands
<1>4. Points(from)
  BY <1>2, <1>3 DEF Points
<1>5. k - 1 \in Int /\ (emulation => k - 1 \in (-Byte)..Byte)
  BY <1>2, Sizes
<1> HIDE DEF from
<1>6. w \in Word /\ Index(w) = (Index(from) - (k - 1)) % Ring
  BY <1>4, <1>5, DownIs
<1>7. ((((base - below[i]) % Ring) - (k - 1)) % Ring) = ((base - t) % Ring)
  <2>1. base \in Int /\ below[i] \in Int
    BY <1>2, Sizes
  <2> QED
    BY <1>5, <2>1, RingDown
<1>8. t \in 0..(total - 1)
  BY <1>2, <1>3, Sizes
<1> QED
  BY <1>3, <1>6, <1>7, <1>8 DEF from

LEMMA WordsFinite == IsFiniteSet(Word)
<1> DEFINE number == [t \in 0..(Byte * Byte - 1) |-> [h |-> t \div Byte, l |-> t % Byte]]
<1>1. IsFiniteSet(0..(Byte * Byte - 1))
  BY Sizes, FS_Interval
<1>2. number \in Surjection(0..(Byte * Byte - 1), Word)
  <2>1. number \in [0..(Byte * Byte - 1) -> Word]
    BY NumberWord
  <2>2. ASSUME NEW w \in Word PROVE \E t \in 0..(Byte * Byte - 1) : number[t] = w
    <3> DEFINE t == Byte * w.h + w.l
    <3>1. t \in 0..(Byte * Byte - 1) /\ w = [h |-> w.h, l |-> w.l]
      BY WordNumber
    <3>2. (t \div Byte) = w.h /\ (t % Byte) = w.l
      BY WordNumber, RemainderIs, Sizes DEF Octet
    <3> HIDE DEF t
    <3> QED
      BY <3>1, <3>2
  <2> QED
    BY <2>1, <2>2 DEF Surjection
<1> QED
  BY <1>1, <1>2, FS_Surjection

\* The cells that are taken are at least as many as the frames of this mode say.
LEMMA Taken ==
  ASSUME TypeOK, NEW base \in 0..(Ring - 1), NEW total \in 0..Ring,
         NEW below \in [DOMAIN frames -> 0..Ring], Stands(base, total, below),
         \A i \in Live : Laid(frames[i])
  PROVE  total <= Pushed /\ Pushed \in Nat
<1> DEFINE U == UNION {frames[i].at : i \in DOMAIN frames}
           cell == [t \in 0..(total - 1) |-> CHOOSE w \in U : Index(w) = (base - t) % Ring]
<1>1. IsFiniteSet(U)
  <2>1. U \subseteq Word
    BY FrameIs DEF Frame
  <2> QED
    BY <2>1, WordsFinite, FS_Subset
<1>2. ASSUME NEW t \in 0..(total - 1)
      PROVE  cell[t] \in U /\ Index(cell[t]) = (base - t) % Ring
  <2>1. PICK i \in Live : below[i] <= t /\ t < below[i] + SizeAt(i)
    BY DEF Stands
  <2>2. i \in DOMAIN frames
    BY <2>1 DEF Live
  <2> DEFINE k == t - below[i] + 1
             w == Down(frames[i].from, k - 1, frames[i].flat)
  <2>3. below[i] \in 0..Ring /\ SizeAt(i) \in 1..4
    BY <2>2, FrameIs
  <2>4. k \in 1..SizeAt(i) /\ below[i] + (k - 1) = t
    BY <2>1, <2>3, Sizes
  <2> HIDE DEF k
  <2>5. Index(w) = (base - t) % Ring
    BY <2>1, <2>4, FrameCell
  <2>6. w \in frames[i].at
    BY <2>1, <2>4 DEF Laid, SizeAt
  <2>7. \E v \in U : Index(v) = (base - t) % Ring
    BY <2>2, <2>5, <2>6
  <2> HIDE DEF U
  <2> QED
    BY <2>7
<1> HIDE DEF U
<1>3. cell \in Injection(0..(total - 1), U)
  <2>1. cell \in [0..(total - 1) -> U]
    BY <1>2
  <2>2. ASSUME NEW t \in 0..(total - 1), NEW u \in 0..(total - 1), t < u
        PROVE  cell[t] # cell[u]
    <3>1. total \in Nat /\ t \in Nat /\ u \in Nat /\ u < t + Ring /\ base \in Int
      BY Sizes
    <3>2. ((base - t) % Ring) # ((base - u) % Ring)
      BY <2>2, <3>1, RingDiffers
    <3>3. Index(cell[t]) = ((base - t) % Ring) /\ Index(cell[u]) = ((base - u) % Ring)
      BY <1>2
    <3> QED
      BY <3>2, <3>3
  <2> HIDE DEF cell
  <2>3. ASSUME NEW t \in 0..(total - 1), NEW u \in 0..(total - 1), cell[t] = cell[u]
        PROVE  t = u
    <3>1. total \in Nat
      BY Sizes
    <3>2. t < u \/ u < t \/ t = u
      BY <3>1
    <3> QED
      BY <2>2, <2>3, <3>2
  <2> QED
    BY <2>1, <2>3 DEF Injection, IsInjective
<1>4. Cardinality(0..(total - 1)) <= Cardinality(U)
  BY <1>1, <1>3, FS_Injection
<1>5. Cardinality(0..(total - 1)) = total
  <2>1. 0 \in Int /\ total - 1 \in Int /\ total \in Nat
    BY Sizes
  <2>2. Cardinality(0..(total - 1)) = IF 0 > total - 1 THEN 0 ELSE (total - 1) - 0 + 1
    BY <2>1, FS_Interval
  <2> QED
    BY <2>1, <2>2
<1>6. Cardinality(U) \in Nat
  BY <1>1, FS_CardinalityType
<1> QED
  BY <1>4, <1>5, <1>6 DEF Pushed, U

-----------------------------------------------------------------------------
(* A step that stays in its mode.                                          *)

\* The frames fs that were pushed in this mode.
LiveOf(fs) == {i \in DOMAIN fs : fs[i].e = emulation}

\* Stands, of the pointer and the frames after a step.
Restands(top, fs, base, total, below) ==
    /\ Index(top) = (base - total) % Ring
    /\ \A i \in LiveOf(fs) : /\ Index(fs[i].from) = (base - below[i]) % Ring
                             /\ emulation => fs[i].from.h = 1
                             /\ below[i] + Size(fs[i].class) <= total
    /\ \A i, j \in LiveOf(fs) : i < j => below[j] + Size(fs[j].class) <= below[i]
    /\ \A i \in LiveOf(fs) : i + 1 \in LiveOf(fs) =>
            below[i] = below[i + 1] + Size(fs[i + 1].class)
    /\ IF 1 \in LiveOf(fs) THEN total = below[1] + Size(fs[1].class) ELSE total = 0
    /\ \A t \in 0..(total - 1) : \E i \in LiveOf(fs) :
            below[i] <= t /\ t < below[i] + Size(fs[i].class)

LEMMA ModeKept ==
  ASSUME emulation' = emulation
  PROVE  /\ Ring' = Ring
         /\ Live' = LiveOf(frames')
         /\ \A base, total, below :
                Restands(s', frames', base, total, below) => Stands(base, total, below)'
<1>1. Ring' = Ring
  BY DEF Ring
<1>2. Live' = LiveOf(frames')
  BY DEF Live, LiveOf
<1>3. \A i : SizeAt(i)' = Size(frames'[i].class)
  BY DEF SizeAt, Size
<1>4. ASSUME NEW base, NEW total, NEW below, Restands(s', frames', base, total, below)
      PROVE  Stands(base, total, below)'
  <2>1. Index(s)' = Index(s') /\ \A i : Index(frames[i].from)' = Index(frames'[i].from)
    BY DEF Index
  <2> QED
    BY <1>1, <1>2, <1>3, <1>4, <2>1, Zenon DEF Stands, Restands
<1> QED
  BY <1>1, <1>2, <1>4

LEMMA LaidNext ==
  ASSUME emulation' = emulation, NEW f,
         f.at = {Down(f.from, k - 1, f.flat) : k \in 1..Size(f.class)},
         NEW bytes \in [1..Size(f.class) -> Content],
         Layout(f.class, f.value, bytes),
         \A k \in 1..Size(f.class) : cells'[Down(f.from, k - 1, f.flat)] = bytes[k]
  PROVE  Laid(f)'
<1>1. Size(f.class)' = Size(f.class)
  BY DEF Size
<1>2. Layout(f.class, f.value, bytes)'
  BY DEF Layout
<1>3. \A k \in 1..Size(f.class) : Down(f.from, k - 1, f.flat)' = Down(f.from, k - 1, f.flat)
  BY DEF Down
<1>4. f.at = {Down(f.from, k - 1, f.flat)' : k \in 1..Size(f.class)}
  BY <1>3
<1>5. \A k \in 1..Size(f.class) : cells'[Down(f.from, k - 1, f.flat)'] = bytes[k]
  BY <1>3
<1> QED
  BY <1>1, <1>2, <1>4, <1>5, Zenon DEF Laid

\* Laid is about the cells of a frame alone.
LEMMA LaidKept ==
  ASSUME emulation' = emulation, NEW f, Laid(f),
         \A k \in 1..Size(f.class) :
            cells'[Down(f.from, k - 1, f.flat)] = cells[Down(f.from, k - 1, f.flat)]
  PROVE  Laid(f)'
<1>1. f.at = {Down(f.from, k - 1, f.flat) : k \in 1..Size(f.class)}
  BY DEF Laid
<1>2. PICK bytes \in [1..Size(f.class) -> Content] :
        /\ Layout(f.class, f.value, bytes)
        /\ \A k \in 1..Size(f.class) : cells[Down(f.from, k - 1, f.flat)] = bytes[k]
  BY DEF Laid
<1> QED
  BY <1>1, <1>2, LaidNext

\* A frame more, on top.
LEMMA OneMore ==
  ASSUME NEW S, NEW seq \in Seq(S), NEW new \in S
  PROVE  /\ <<new>> \o seq \in Seq(S)
         /\ DOMAIN (<<new>> \o seq) = 1..(Len(seq) + 1)
         /\ (<<new>> \o seq)[1] = new
         /\ \A i \in 2..(Len(seq) + 1) : i - 1 \in DOMAIN seq /\ (<<new>> \o seq)[i] = seq[i - 1]
         /\ DOMAIN seq = 1..Len(seq) /\ Len(seq) \in Nat
  OBVIOUS

\* Where a push of a class puts its bytes: below all that is live, and its cells
\* are none of theirs.
LEMMA PushedCells ==
  ASSUME IInv, NEW class \in Classes, NEW flat \in BOOLEAN, NEW value, NEW bytes,
         Push(class, bytes, flat, value), Layout(class, value, bytes),
         NEW base \in 0..(Ring - 1), NEW total \in 0..Ring,
         NEW below \in [DOMAIN frames -> 0..Ring], Stands(base, total, below)
  PROVE  /\ total + Size(class) <= Ring
         /\ Points(s') /\ Index(s') = (base - (total + Size(class))) % Ring
         /\ cells' \in [Word -> Content]
         /\ \A k \in 1..Size(class) : /\ Down(s, k - 1, flat) \in Word
                                      /\ cells'[Down(s, k - 1, flat)] = bytes[k]
         /\ \A i \in Live : \A k \in 1..SizeAt(i) :
              cells'[Down(frames[i].from, k - 1, frames[i].flat)]
                = cells[Down(frames[i].from, k - 1, frames[i].flat)]
<1> DEFINE n == Size(class)
           at == [k \in 1..n |-> Down(s, k - 1, flat)]
<1>1. /\ Len(bytes) = n /\ DOMAIN bytes = 1..n /\ bytes \in [1..n -> Content]
      /\ n \in 1..4 /\ n <= Ring /\ (emulation => n <= Byte)
  BY LayoutIs, SizeIs
<1>2. /\ Pushed + n <= Ring
      /\ cells' = [w \in Word |-> IF \E k \in DOMAIN at : w = at[k]
                                  THEN bytes[CHOOSE k \in DOMAIN at : w = at[k]]
                                  ELSE cells[w]]
      /\ s' = Stacked(Down(s, n, flat), emulation)
  BY <1>1 DEF Push, Ring
<1>3. Points(s) /\ TypeOK /\ emulation \in BOOLEAN /\ cells \in [Word -> Content]
  BY DEF IInv, TypeOK, Points
<1>4. total <= Pushed /\ Pushed \in Nat
  BY Taken DEF IInv
<1> HIDE DEF n
<1>5. total + n <= Ring /\ total \in Nat /\ total \in Int /\ base \in Int /\ Ring \in Nat \ {0}
  BY <1>1, <1>2, <1>4, Sizes
<1>6. Index(s) = (base - total) % Ring
  BY DEF Stands
<1>7. ASSUME NEW k \in 1..n
      PROVE  Down(s, k - 1, flat) \in Word
             /\ Index(Down(s, k - 1, flat)) = (base - (total + (k - 1))) % Ring
  <2>1. k - 1 \in Int /\ (emulation => k - 1 \in (-Byte)..Byte)
    BY <1>1, Sizes
  <2>2. /\ Down(s, k - 1, flat) \in Word
        /\ Index(Down(s, k - 1, flat)) = (Index(s) - (k - 1)) % Ring
    BY <1>3, <2>1, DownIs
  <2>3. ((((base - total) % Ring) - (k - 1)) % Ring) = ((base - (total + (k - 1))) % Ring)
    BY <1>5, <2>1, RingDown
  <2> QED
    BY <1>6, <2>2, <2>3
<1>8. ASSUME NEW k \in 1..n, NEW t \in Nat, t < total + (k - 1), t + Ring > total + (k - 1),
             NEW w, Index(w) = (base - t) % Ring
      PROVE  w # Down(s, k - 1, flat)
  <2>1. total + (k - 1) \in Nat
    BY <1>1, <1>5
  <2>2. ((base - t) % Ring) # ((base - (total + (k - 1))) % Ring)
    BY <1>5, <1>8, <2>1, RingDiffers
  <2> QED
    BY <1>7, <1>8, <2>2
<1>9. ASSUME NEW k \in 1..n, NEW j \in 1..n, j < k PROVE at[j] # at[k]
  <2>1. total + (j - 1) \in Nat /\ total + (j - 1) < total + (k - 1)
        /\ total + (j - 1) + Ring > total + (k - 1)
    BY <1>1, <1>5, <1>9
  <2>2. Index(at[j]) = (base - (total + (j - 1))) % Ring
    BY <1>7
  <2>3. at[j] # Down(s, k - 1, flat)
    BY <1>8, <2>1, <2>2
  <2> QED
    BY <2>3
<1>10. ASSUME NEW k \in 1..n, NEW j \in 1..n, at[j] = at[k] PROVE j = k
  <2>1. j < k \/ k < j \/ j = k
    BY <1>1
  <2> QED
    BY <1>9, <1>10, <2>1
<1>11. ASSUME NEW k \in 1..n PROVE at[k] \in Word /\ at[k] = Down(s, k - 1, flat)
  BY <1>7
<1>12. DOMAIN at = 1..n
  OBVIOUS
<1> HIDE DEF at
<1>13. ASSUME NEW k \in 1..n PROVE cells'[at[k]] = bytes[k]
  <2>1. cells'[at[k]] = bytes[CHOOSE j \in DOMAIN at : at[k] = at[j]]
    BY <1>2, <1>11, <1>12
  <2>2. (CHOOSE j \in DOMAIN at : at[k] = at[j]) = k
    BY <1>10, <1>12
  <2> QED
    BY <2>1, <2>2
<1>14. ASSUME NEW i \in Live, NEW k \in 1..SizeAt(i)
       PROVE  cells'[Down(frames[i].from, k - 1, frames[i].flat)]
                = cells[Down(frames[i].from, k - 1, frames[i].flat)]
  <2> DEFINE w == Down(frames[i].from, k - 1, frames[i].flat)
             t == below[i] + (k - 1)
  <2>1. w \in Word /\ Index(w) = (base - t) % Ring /\ t \in 0..(total - 1)
    BY <1>3, FrameCell
  <2> HIDE DEF w, t
  <2>2. ASSUME NEW j \in 1..n PROVE w # at[j]
    <3>1. t \in Nat /\ t < total + (j - 1) /\ t + Ring > total + (j - 1)
      BY <1>1, <1>5, <2>1
    <3>2. w # Down(s, j - 1, flat)
      BY <1>8, <2>1, <3>1
    <3> QED
      BY <1>11, <3>2
  <2>3. cells'[w] = cells[w]
    BY <1>2, <1>12, <2>1, <2>2
  <2> QED
    BY <2>3 DEF w
<1>15. Points(s') /\ Index(s') = (base - (total + n)) % Ring
  <2>1. n \in Int /\ (emulation => n \in (-Byte)..Byte)
    BY <1>1, Sizes
  <2>2. /\ Points(Stacked(Down(s, n, flat), emulation))
        /\ Index(Stacked(Down(s, n, flat), emulation)) = (Index(s) - n) % Ring
    BY <1>3, <2>1, StackedIs
  <2>3. ((((base - total) % Ring) - n) % Ring) = ((base - (total + n)) % Ring)
    BY <1>5, <2>1, RingDown
  <2> QED
    BY <1>2, <1>6, <2>2, <2>3
<1>16. cells' \in [Word -> Content]
  <2>1. ASSUME NEW w \in Word PROVE cells'[w] \in Content
    <3>1. CASE \E k \in DOMAIN at : w = at[k]
      <4>1. PICK k \in 1..n : w = at[k]
        BY <1>12, <3>1
      <4> QED
        BY <1>1, <1>13, <4>1
    <3>2. CASE ~ \E k \in DOMAIN at : w = at[k]
      BY <1>2, <1>3, <3>2
    <3> QED
      BY <3>1, <3>2
  <2> QED
    BY <1>2, <2>1
<1> QED
  BY <1>5, <1>7, <1>11, <1>13, <1>14, <1>15, <1>16 DEF n

\* A push of what its class lays out keeps the stack in order.
LEMMA PushKeeps ==
  ASSUME IInv, NEW class \in Classes, NEW flat \in BOOLEAN, NEW value, NEW bytes,
         Push(class, bytes, flat, value), Layout(class, value, bytes),
         emulation' = emulation, m8' \in BOOLEAN, x8' \in BOOLEAN, x' \in Word
  PROVE  IInv'
<1> DEFINE n == Size(class)
           new == [class |-> class, value |-> value, from |-> s, flat |-> flat,
                   e |-> emulation, at |-> {Down(s, k - 1, flat) : k \in 1..n}]
           size(i) == Size(frames'[i].class)
<1>1. /\ Len(bytes) = n /\ bytes \in [1..n -> Content] /\ value \in Value
      /\ n \in 1..4
  BY LayoutIs, SizeIs
<1>2. frames' = <<new>> \o frames /\ matched' = matched /\ balanced' = balanced
  <2> DEFINE at == [k \in 1..n |-> Down(s, k - 1, flat)]
  <2>1. /\ frames' = <<[class |-> class, value |-> value, from |-> s, flat |-> flat,
                        e |-> emulation, at |-> {at[k] : k \in DOMAIN at}]>> \o frames
        /\ matched' = matched /\ balanced' = balanced
    BY <1>1 DEF Push
  <2>2. {at[k] : k \in DOMAIN at} = {Down(s, k - 1, flat) : k \in 1..n}
    OBVIOUS
  <2> QED
    BY <2>1, <2>2
<1>3. Points(s) /\ TypeOK /\ emulation \in BOOLEAN /\ s \in Word /\ frames \in Seq(Frame)
  BY DEF IInv, TypeOK, Points
<1>4. PICK base \in 0..(Ring - 1), total \in 0..Ring, below \in [DOMAIN frames -> 0..Ring] :
            Stands(base, total, below)
  BY DEF IInv, Stacks
<1>5. /\ total + n <= Ring
      /\ Points(s') /\ Index(s') = (base - (total + n)) % Ring
      /\ cells' \in [Word -> Content]
      /\ \A k \in 1..n : /\ Down(s, k - 1, flat) \in Word
                         /\ cells'[Down(s, k - 1, flat)] = bytes[k]
      /\ \A i \in Live : \A k \in 1..SizeAt(i) :
            cells'[Down(frames[i].from, k - 1, frames[i].flat)]
              = cells[Down(frames[i].from, k - 1, frames[i].flat)]
  BY <1>4, PushedCells
<1> HIDE DEF n
<1>6. new \in Frame
  BY <1>1, <1>3, <1>5, SMTT(30) DEF Frame
<1>7. new.class = class /\ new.value = value /\ new.from = s /\ new.flat = flat
      /\ new.e = emulation /\ new.at = {Down(s, k - 1, flat) : k \in 1..n}
  OBVIOUS
<1> HIDE DEF new
<1>8. /\ frames' \in Seq(Frame) /\ DOMAIN frames' = 1..(Len(frames) + 1)
      /\ frames'[1] = new
      /\ \A i \in 2..(Len(frames) + 1) : i - 1 \in DOMAIN frames /\ frames'[i] = frames[i - 1]
      /\ DOMAIN frames = 1..Len(frames) /\ Len(frames) \in Nat
  BY <1>2, <1>3, <1>6, OneMore
<1>9. /\ LiveOf(frames') \subseteq 1..(Len(frames) + 1)
      /\ 1 \in LiveOf(frames')
      /\ \A i \in 2..(Len(frames) + 1) : i \in LiveOf(frames') <=> i - 1 \in Live
      /\ Live \subseteq 1..Len(frames)
  <2>1. LiveOf(frames') \subseteq 1..(Len(frames) + 1) /\ Live \subseteq 1..Len(frames)
    BY <1>8 DEF LiveOf, Live
  <2>2. 1 \in LiveOf(frames')
    BY <1>7, <1>8 DEF LiveOf
  <2>3. ASSUME NEW i \in 2..(Len(frames) + 1)
        PROVE  i \in LiveOf(frames') <=> i - 1 \in Live
    BY <1>8 DEF LiveOf, Live
  <2> QED
    BY <2>1, <2>2, <2>3
<1>10. /\ size(1) = n
       /\ \A i \in 2..(Len(frames) + 1) : size(i) = SizeAt(i - 1) /\ SizeAt(i - 1) \in 1..4
  <2>1. size(1) = n
    BY <1>7, <1>8 DEF n
  <2>2. ASSUME NEW i \in 2..(Len(frames) + 1)
        PROVE  size(i) = SizeAt(i - 1) /\ SizeAt(i - 1) \in 1..4
    BY <1>3, <1>8, FrameIs DEF SizeAt
  <2> QED
    BY <2>1, <2>2
<1>11. PICK lower, whole :
         /\ lower \in [1..(Len(frames) + 1) -> 0..Ring] /\ lower[1] = total
         /\ \A i \in 2..(Len(frames) + 1) : lower[i] = below[i - 1] /\ below[i - 1] \in 0..Ring
         /\ whole = total + n /\ whole \in 0..Ring /\ total \in Nat /\ Ring \in Nat
  <2>1. total \in Nat /\ Ring \in Nat /\ total + n \in 0..Ring /\ total \in 0..Ring
    BY <1>1, <1>4, <1>5, Sizes
  <2>2. \A i \in 2..(Len(frames) + 1) : below[i - 1] \in 0..Ring
    BY <1>4, <1>8
  <2> DEFINE low == [i \in 1..(Len(frames) + 1) |-> IF i = 1 THEN total ELSE below[i - 1]]
  <2>3. ASSUME NEW i \in 1..(Len(frames) + 1)
        PROVE  (IF i = 1 THEN total ELSE below[i - 1]) \in 0..Ring
    BY <1>8, <2>1, <2>2
  <2>4. low \in [1..(Len(frames) + 1) -> 0..Ring]
    BY <2>3
  <2>5. low[1] = total /\ \A i \in 2..(Len(frames) + 1) : low[i] = below[i - 1]
    BY <1>8
  <2> HIDE DEF low
  <2> QED
    BY <2>1, <2>2, <2>4, <2>5
<1>12. Restands(s', frames', base, whole, lower)
  <2>1. /\ \A i \in Live : /\ Index(frames[i].from) = (base - below[i]) % Ring
                           /\ emulation => frames[i].from.h = 1
                           /\ below[i] + SizeAt(i) <= total
        /\ \A i, j \in Live : i < j => below[j] + SizeAt(j) <= below[i]
        /\ \A i \in Live : i + 1 \in Live => below[i] = below[i + 1] + SizeAt(i + 1)
        /\ IF 1 \in Live THEN total = below[1] + SizeAt(1) ELSE total = 0
        /\ \A t \in 0..(total - 1) : \E i \in Live : below[i] <= t /\ t < below[i] + SizeAt(i)
        /\ Index(s) = (base - total) % Ring
    BY <1>4 DEF Stands
  <2>2. ASSUME NEW i \in LiveOf(frames')
        PROVE  /\ Index(frames'[i].from) = (base - lower[i]) % Ring
               /\ emulation => frames'[i].from.h = 1
               /\ lower[i] + size(i) <= whole
    <3>1. CASE i = 1
      <4>1. frames'[1].from = s /\ lower[1] = total /\ total + n <= whole /\ size(1) = n
        BY <1>1, <1>7, <1>8, <1>10, <1>11
      <4>2. Index(s) = (base - total) % Ring /\ (emulation => s.h = 1)
        BY <1>3, <2>1 DEF Points
      <4> HIDE DEF size
      <4> QED
        BY <3>1, <4>1, <4>2
    <3>2. CASE i \in 2..(Len(frames) + 1)
      <4>1. i - 1 \in Live
        BY <1>9, <3>2
      <4>2. /\ Index(frames[i - 1].from) = (base - below[i - 1]) % Ring
            /\ emulation => frames[i - 1].from.h = 1
            /\ below[i - 1] + SizeAt(i - 1) <= total
        BY <2>1, <4>1
      <4>3. frames'[i] = frames[i - 1] /\ lower[i] = below[i - 1] /\ size(i) = SizeAt(i - 1)
            /\ SizeAt(i - 1) \in 1..4 /\ below[i - 1] \in 0..Ring
        BY <1>8, <1>10, <1>11, <3>2
      <4>4. lower[i] + size(i) <= whole
        BY <1>1, <1>11, <4>2, <4>3
      <4> HIDE DEF size
      <4> QED
        BY <4>2, <4>3, <4>4
    <3> QED
      BY <1>8, <1>9, <3>1, <3>2
  <2>3. ASSUME NEW i \in LiveOf(frames'), NEW j \in LiveOf(frames'), i < j
        PROVE  lower[j] + size(j) <= lower[i]
    <3>1. j \in 2..(Len(frames) + 1) /\ j - 1 \in Live
      BY <1>8, <1>9, <2>3
    <3>2. lower[j] = below[j - 1] /\ size(j) = SizeAt(j - 1)
      BY <1>10, <1>11, <3>1
    <3>3. CASE i = 1
      BY <1>11, <2>1, <3>1, <3>2, <3>3
    <3>4. CASE i \in 2..(Len(frames) + 1)
      <4>1. i - 1 \in Live /\ i - 1 < j - 1 /\ lower[i] = below[i - 1]
        BY <1>8, <1>9, <1>11, <2>3, <3>1, <3>4
      <4> QED
        BY <2>1, <3>1, <3>2, <4>1
    <3> QED
      BY <1>8, <1>9, <3>3, <3>4
  <2>4. ASSUME NEW i \in LiveOf(frames'), i + 1 \in LiveOf(frames')
        PROVE  lower[i] = lower[i + 1] + size(i + 1)
    <3>1. i + 1 \in 2..(Len(frames) + 1) /\ (i + 1) - 1 = i /\ i \in 1..(Len(frames) + 1)
      BY <1>8, <1>9, <2>4
    <3>2. i \in Live /\ lower[i + 1] = below[i] /\ size(i + 1) = SizeAt(i)
      BY <1>9, <1>10, <1>11, <2>4, <3>1
    <3>3. CASE i = 1
      <4>1. total = below[1] + SizeAt(1)
        BY <2>1, <3>2, <3>3
      <4> QED
        BY <1>11, <3>2, <3>3, <4>1
    <3>4. CASE i \in 2..(Len(frames) + 1)
      <4>1. i - 1 \in Live /\ lower[i] = below[i - 1] /\ (i - 1) + 1 = i
        BY <1>8, <1>9, <1>11, <3>4
      <4>2. below[i - 1] = below[i] + SizeAt(i)
        <5> DEFINE j == i - 1
        <5>1. j \in Live /\ j + 1 \in Live /\ j + 1 = i
          BY <3>2, <4>1
        <5> HIDE DEF j
        <5>2. below[j] = below[j + 1] + SizeAt(j + 1)
          BY <2>1, <5>1
        <5> QED
          BY <5>1, <5>2 DEF j
      <4> QED
        BY <3>2, <4>1, <4>2
    <3> QED
      BY <3>1, <3>3, <3>4
  <2>5. whole = lower[1] + size(1)
    BY <1>10, <1>11
  <2>6. ASSUME NEW t \in 0..(whole - 1)
        PROVE  \E i \in LiveOf(frames') : lower[i] <= t /\ t < lower[i] + size(i)
    <3>1. CASE t < total
      <4>1. PICK i \in Live : below[i] <= t /\ t < below[i] + SizeAt(i)
        BY <1>11, <2>1, <3>1
      <4>2. i + 1 \in 2..(Len(frames) + 1) /\ (i + 1) - 1 = i
        BY <1>8, <1>9
      <4>3. i + 1 \in LiveOf(frames') /\ lower[i + 1] = below[i] /\ size(i + 1) = SizeAt(i)
        BY <1>9, <1>10, <1>11, <4>1, <4>2
      <4> HIDE DEF size
      <4> QED
        BY <4>1, <4>3
    <3>2. CASE t >= total
      BY <1>1, <1>9, <1>10, <1>11, <3>2
    <3> QED
      BY <1>11, <3>1, <3>2
  <2> QED
    BY <1>5, <1>9, <1>11, <2>2, <2>3, <2>4, <2>5, <2>6 DEF Restands
<1>13. Stacks'
  <2>1. Stands(base, whole, lower)'
    BY <1>12, ModeKept
  <2>2. Ring' = Ring
    BY ModeKept
  <2> QED
    BY <1>8, <1>11, <2>1, <2>2 DEF Stacks
<1>14. Layered'
  <2>1. Live' = LiveOf(frames')
    BY ModeKept
  <2>2. /\ \A i \in Live : \A j \in 1..i : j \in Live
        /\ emulation => Live = DOMAIN frames
    BY DEF IInv, Layered
  <2>3. ASSUME NEW i \in LiveOf(frames'), NEW j \in 1..i PROVE j \in LiveOf(frames')
    <3>1. CASE j = 1
      BY <1>9, <3>1
    <3>2. CASE j \in 2..i
      <4>1. i \in 2..(Len(frames) + 1) /\ j \in 2..(Len(frames) + 1) /\ j - 1 \in 1..(i - 1)
        BY <1>8, <1>9, <3>2
      <4>2. i - 1 \in Live
        BY <1>9, <4>1
      <4>3. j - 1 \in Live
        BY <2>2, <4>1, <4>2
      <4> QED
        BY <1>9, <4>1, <4>3
    <3> QED
      BY <1>8, <1>9, <3>1, <3>2
  <2>4. ASSUME emulation PROVE LiveOf(frames') = DOMAIN frames'
    <3>1. ASSUME NEW i \in 1..(Len(frames) + 1) PROVE i \in LiveOf(frames')
      BY <1>8, <1>9, <2>2, <2>4
    <3> QED
      BY <1>8, <1>9, <3>1
  <2> QED
    BY <2>1, <2>3, <2>4 DEF Layered
<1>15. \A i \in Live' : Laid(frames[i])'
  <2>1. ASSUME NEW f, f = new PROVE Laid(f)'
    <3>1. f.class = class /\ f.value = value /\ f.from = s /\ f.flat = flat
          /\ f.at = {Down(s, k - 1, flat) : k \in 1..n}
      BY <1>7, <2>1
    <3>2. f.at = {Down(f.from, k - 1, f.flat) : k \in 1..Size(f.class)}
      BY <3>1 DEF n
    <3>3. bytes \in [1..Size(f.class) -> Content] /\ Layout(f.class, f.value, bytes)
          /\ \A k \in 1..Size(f.class) : cells'[Down(f.from, k - 1, f.flat)] = bytes[k]
      BY <1>1, <1>5, <3>1 DEF n
    <3> QED
      BY <3>2, <3>3, LaidNext
  <2>2. ASSUME NEW i \in Live PROVE Laid(frames[i])
    BY DEF IInv
  <2>3. ASSUME NEW f, NEW i \in Live, f = frames[i] PROVE Laid(f)'
    <3>1. Laid(f)
      BY <2>2, <2>3
    <3>2. \A k \in 1..Size(f.class) :
            cells'[Down(f.from, k - 1, f.flat)] = cells[Down(f.from, k - 1, f.flat)]
      BY <1>5, <2>3 DEF SizeAt
    <3> QED
      BY <3>1, <3>2, LaidKept
  <2>4. ASSUME NEW f, NEW i \in LiveOf(frames'), f = frames'[i] PROVE Laid(f)'
    <3>1. CASE i = 1
      BY <1>8, <2>1, <2>4, <3>1
    <3>2. CASE i \in 2..(Len(frames) + 1)
      BY <1>8, <1>9, <2>3, <2>4, <3>2
    <3> QED
      BY <1>8, <1>9, <3>1, <3>2
  <2>5. Live' = LiveOf(frames')
    BY ModeKept
  <2> QED
    BY <2>4, <2>5
<1>16. TypeOK'
  BY <1>3, <1>5, <1>8 DEF TypeOK, Points
<1>17. matched' /\ balanced'
  BY <1>2 DEF IInv
<1> QED
  BY <1>13, <1>14, <1>15, <1>16, <1>17 DEF IInv

-----------------------------------------------------------------------------
(* A pull.                                                                 *)

\* The stack when nothing on it was pushed in this mode.
Bare ==
    /\ Live = {}
    /\ emulation => frames = <<>>
    /\ matched /\ balanced

LEMMA BareIsOrder == TypeOK /\ Bare => IInv
<1> SUFFICES ASSUME TypeOK, Bare PROVE IInv
  OBVIOUS
<1>1. Layered
  BY DEF Bare, Layered
<1>2. Stacks
  <2> DEFINE base == Index(s)
             below == [i \in DOMAIN frames |-> 0]
  <2>1. Points(s)
    BY DEF TypeOK, Points
  <2>2. base \in 0..(Ring - 1) /\ Ring \in Nat \ {0}
    BY <2>1, PointsAt, Sizes
  <2>3. below \in [DOMAIN frames -> 0..Ring] /\ 0 \in 0..Ring
    BY <2>2
  <2>4. Index(s) = (base - 0) % Ring
    <3>1. base = Ring * 0 + base
      BY <2>2
    <3> HIDE DEF base
    <3>2. ((Ring * 0 + base) % Ring) = base
      BY <2>2, RemainderIs
    <3>3. base - 0 = base
      BY <2>2
    <3>4. (base - 0) % Ring = base
      BY <3>1, <3>2, <3>3
    <3> QED
      BY <3>4 DEF base
  <2> HIDE DEF base, below
  <2>5. Stands(base, 0, below)
    BY <2>4 DEF Stands, Bare
  <2> QED
    BY <2>2, <2>3, <2>5 DEF Stacks
<1> QED
  BY <1>1, <1>2 DEF IInv, Bare

LEMMA BareIsOrderNext == TypeOK' /\ Bare' => IInv'
  BY BareIsOrder, PTL

LEMMA AbandonKeeps ==
  ASSUME IInv, Abandon, emulation' \in BOOLEAN, m8' \in BOOLEAN, x8' \in BOOLEAN,
         x' \in Word, s' \in Word, emulation' => s'.h = 1
  PROVE  IInv'
<1>1. frames' = <<>> /\ matched' = matched /\ balanced' = balanced
      /\ cells' = [w \in Word |-> <<>>]
  BY DEF Abandon, Kept
<1>2. TypeOK'
  BY <1>1 DEF TypeOK, Content
<1>3. Bare'
  BY <1>1 DEF Bare, Live, IInv
<1> QED
  BY <1>2, <1>3, BareIsOrderNext

LEMMA OneLess ==
  ASSUME NEW S, NEW seq \in Seq(S), seq # <<>>
  PROVE  /\ Tail(seq) \in Seq(S) /\ Len(seq) \in Nat \ {0}
         /\ DOMAIN Tail(seq) = 1..(Len(seq) - 1) /\ DOMAIN seq = 1..Len(seq)
         /\ Head(seq) = seq[1] /\ 1 \in DOMAIN seq
         /\ \A i \in 1..(Len(seq) - 1) : Tail(seq)[i] = seq[i + 1]
  OBVIOUS

\* Where the newest frame lies, if it was pushed in this mode.
LEMMA NewestAt ==
  ASSUME IInv, frames # <<>>, Head(frames).e = emulation,
         NEW base \in 0..(Ring - 1), NEW total \in 0..Ring,
         NEW below \in [DOMAIN frames -> 0..Ring], Stands(base, total, below)
  PROVE  /\ 1 \in Live /\ Head(frames) = frames[1] /\ frames[1] \in Frame
         /\ Laid(frames[1])
         /\ Points(frames[1].from)
         /\ SizeAt(1) \in 1..4 /\ (emulation => SizeAt(1) <= Byte)
         /\ total = below[1] + SizeAt(1) /\ below[1] \in 0..Ring
         /\ Index(s) = (base - total) % Ring
         /\ Index(frames[1].from) = (base - below[1]) % Ring
<1>1. TypeOK /\ frames \in Seq(Frame)
  BY DEF IInv, TypeOK
<1>2. Head(frames) = frames[1] /\ 1 \in DOMAIN frames
  BY <1>1, OneLess
<1>3. 1 \in Live
  BY <1>2 DEF Live
<1>4. /\ frames[1] \in Frame /\ SizeAt(1) \in 1..4 /\ (emulation => SizeAt(1) <= Byte)
      /\ below[1] \in 0..Ring
  BY <1>1, <1>2, FrameIs
<1>5. /\ total = below[1] + SizeAt(1) /\ Index(s) = (base - total) % Ring
      /\ Index(frames[1].from) = (base - below[1]) % Ring
      /\ emulation => frames[1].from.h = 1
  BY <1>3 DEF Stands
<1>6. Points(frames[1].from)
  BY <1>4, <1>5 DEF Points, Frame
<1>7. Laid(frames[1])
  BY <1>3 DEF IInv
<1> QED
  BY <1>2, <1>3, <1>4, <1>5, <1>6, <1>7

\* A pull of its size leaves s where it was pushed from.
LEMMA PulledPointer ==
  ASSUME IInv, frames # <<>>, Head(frames).e = emulation, NEW flat,
         s' = Stacked(Down(s, -Size(Head(frames).class), flat), emulation)
  PROVE  s' = Head(frames).from
<1>1. PICK base \in 0..(Ring - 1), total \in 0..Ring, below \in [DOMAIN frames -> 0..Ring] :
            Stands(base, total, below)
  BY DEF IInv, Stacks
<1> DEFINE from == frames[1].from
           n == SizeAt(1)
<1>2. /\ Head(frames) = frames[1] /\ Points(from)
      /\ n \in 1..4 /\ (emulation => n <= Byte)
      /\ total = below[1] + n /\ below[1] \in 0..Ring
      /\ Index(s) = (base - total) % Ring /\ Index(from) = (base - below[1]) % Ring
  BY <1>1, NewestAt
<1>3. s' = Stacked(Down(s, -n, flat), emulation)
  BY <1>2 DEF SizeAt
<1>4. Points(s) /\ emulation \in BOOLEAN
  BY DEF IInv, TypeOK, Points
<1> HIDE DEF n, from
<1>5. -n \in Int /\ (emulation => -n \in (-Byte)..Byte)
  BY <1>2, Sizes, SMTT(30)
<1>6. /\ Points(Stacked(Down(s, -n, flat), emulation))
      /\ Index(Stacked(Down(s, -n, flat), emulation)) = (Index(s) - (-n)) % Ring
  BY <1>4, <1>5, StackedIs
<1>7. ((((base - total) % Ring) - (-n)) % Ring) = ((base - (total + (-n))) % Ring)
  <2>1. base \in Int /\ total \in Int
    BY Sizes
  <2> QED
    BY <1>5, <2>1, RingDown
<1>8. total + (-n) = below[1]
  BY <1>2, Sizes
<1>9. Index(s') = Index(from) /\ Points(s')
  BY <1>2, <1>3, <1>6, <1>7, <1>8
<1>10. s' = from
  BY <1>2, <1>9, PointsAt
<1> QED
  BY <1>2, <1>10 DEF from

\* It reads the bytes of the newest frame, the last pushed first, wherever the
\* frame is promised back.
LEMMA PulledBytes ==
  ASSUME IInv, frames # <<>>, Head(frames).e = emulation, NEW flat \in BOOLEAN,
         Promised(Head(frames), Size(Head(frames).class), flat)
  PROVE  LET n == Size(Head(frames).class)
         IN  \E bytes \in [1..n -> Content] :
                /\ Layout(Head(frames).class, Head(frames).value, bytes)
                /\ \A j \in 1..n : Above(j, flat) = bytes[n + 1 - j]
<1>1. PICK base \in 0..(Ring - 1), total \in 0..Ring, below \in [DOMAIN frames -> 0..Ring] :
            Stands(base, total, below)
  BY DEF IInv, Stacks
<1> DEFINE f == frames[1]
           n == Size(f.class)
<1>2. /\ Head(frames) = f /\ Points(f.from) /\ f \in Frame /\ 1 \in Live
      /\ n \in 1..4 /\ (emulation => n <= Byte)
      /\ total = below[1] + n /\ below[1] \in 0..Ring
      /\ Index(s) = (base - total) % Ring /\ Index(f.from) = (base - below[1]) % Ring
      /\ Laid(f)
  BY <1>1, NewestAt DEF SizeAt
<1>3. Points(s) /\ emulation \in BOOLEAN /\ s \in Word /\ (emulation => s.h = 1)
  BY DEF IInv, TypeOK, Points
<1>4. base \in Int /\ total \in Int /\ below[1] \in Int /\ f.flat \in BOOLEAN /\ f.from \in Word
      /\ s.l \in Octet /\ f.from.l \in Octet
  BY <1>2, <1>3, Sizes, WordNumber DEF Frame
<1> HIDE DEF f
<1>5. PICK bytes \in [1..n -> Content] :
        /\ Layout(f.class, f.value, bytes)
        /\ \A k \in 1..n : cells[Down(f.from, k - 1, f.flat)] = bytes[k]
  BY <1>2 DEF Laid
<1>6. Promised(f, n, flat)
  BY <1>2
<1> HIDE DEF n
<1>7. ASSUME emulation, f.from.l >= n PROVE s.l = f.from.l - n
  <2>1. s.l = (base - total) % Byte /\ f.from.l = (base - below[1]) % Byte
    BY <1>2, <1>7 DEF Index, Ring
  <2>2. base - below[1] \in Int /\ -n \in Int /\ Byte \in Nat \ {0}
    BY <1>2, <1>4, Sizes
  <2>3. ((((base - below[1]) % Byte) + (-n)) % Byte) = (((base - below[1]) + (-n)) % Byte)
    BY <2>2, RemainderPlus
  <2>4. (base - below[1]) + (-n) = base - total
    BY <1>2, <1>4
  <2>5. s.l = (f.from.l + (-n)) % Byte
    BY <2>1, <2>3, <2>4
  <2>6. f.from.l + (-n) \in 0..(Byte - 1)
    <3> DEFINE l == f.from.l
    <3>1. l \in Int /\ n \in Int /\ Byte \in Int /\ l >= n /\ n >= 1 /\ l < Byte
      <4>1. l \in Int /\ l < Byte /\ Byte \in Int
        BY <1>4, Sizes DEF Octet
      <4> QED
        BY <1>2, <1>7, <4>1
    <3> HIDE DEF l
    <3>2. l + (-n) \in 0..(Byte - 1)
      BY <3>1
    <3> QED
      BY <3>2 DEF l
  <2>7. ((f.from.l + (-n)) % Byte) = f.from.l + (-n)
    <3> DEFINE r == f.from.l + (-n)
    <3>1. r \in 0..(Byte - 1)
      BY <2>6
    <3> HIDE DEF r
    <3>2. (r % Byte) = r
      BY <3>1, Sizes
    <3> QED
      BY <3>2 DEF r
  <2> QED
    BY <1>2, <1>4, <2>5, <2>7 DEF Octet
<1>8. ASSUME NEW j \in 1..n
      PROVE  Down(s, -j, flat) = Down(f.from, n - j, f.flat)
  <2>1. /\ -j \in Int /\ (emulation => -j \in (-Byte)..Byte)
        /\ n - j \in Int /\ (emulation => n - j \in (-Byte)..Byte)
    BY <1>2, Sizes, SMTT(30)
  <2> DEFINE w == Down(s, -j, flat)
             v == Down(f.from, n - j, f.flat)
  <2>2. /\ w \in Word /\ Index(w) = (Index(s) - (-j)) % Ring
        /\ emulation /\ (~flat \/ s.l - (-j) \in 0..(Byte - 1)) => w.h = 1
    BY <1>3, <2>1, DownIs
  <2>3. /\ v \in Word /\ Index(v) = (Index(f.from) - (n - j)) % Ring
        /\ emulation /\ (~f.flat \/ f.from.l - (n - j) \in 0..(Byte - 1)) => v.h = 1
    BY <1>2, <2>1, DownIs
  <2> HIDE DEF w, v
  <2>4. Index(w) = Index(v)
    <3>1. ((((base - total) % Ring) - (-j)) % Ring) = ((base - (total + (-j))) % Ring)
      BY <1>4, <2>1, RingDown
    <3>2. ((((base - below[1]) % Ring) - (n - j)) % Ring)
            = ((base - (below[1] + (n - j))) % Ring)
      BY <1>4, <2>1, RingDown
    <3>3. total + (-j) = below[1] + (n - j)
      BY <1>2, <1>4
    <3> QED
      BY <1>2, <2>2, <2>3, <3>1, <3>2, <3>3
  <2>5. emulation => w.h = 1 /\ v.h = 1
    <3>1. SUFFICES ASSUME emulation PROVE w.h = 1 /\ v.h = 1
      OBVIOUS
    <3>2. CASE ~flat /\ ~f.flat
      BY <2>2, <2>3, <3>1, <3>2
    <3>3. CASE f.from.l >= n
      <4>1. s.l - (-j) \in 0..(Byte - 1) /\ f.from.l - (n - j) \in 0..(Byte - 1)
        <5> DEFINE l == f.from.l
        <5>1. l \in Int /\ n \in Int /\ j \in Int /\ Byte \in Int /\ l >= n /\ j <= n /\ j >= 1
              /\ l < Byte /\ s.l = l - n
          BY <1>2, <1>4, <1>7, <3>1, <3>3, Sizes DEF Octet
        <5> HIDE DEF l
        <5>2. s.l - (-j) \in 0..(Byte - 1) /\ l - (n - j) \in 0..(Byte - 1)
          BY <5>1
        <5> QED
          BY <5>2 DEF l
      <4> QED
        BY <2>2, <2>3, <3>1, <4>1
    <3> QED
      BY <1>6, <3>1, <3>2, <3>3 DEF Promised
  <2>6. Points(w) /\ Points(v)
    BY <2>2, <2>3, <2>5 DEF Points
  <2>7. w = v
    BY <2>4, <2>6, PointsAt
  <2> QED
    BY <2>7 DEF w, v
<1>9. ASSUME NEW j \in 1..n PROVE Above(j, flat) = bytes[n + 1 - j]
  <2>1. n + 1 - j \in 1..n /\ (n + 1 - j) - 1 = n - j
    BY <1>2
  <2>2. cells[Down(f.from, n - j, f.flat)] = bytes[n + 1 - j]
    BY <1>5, <2>1
  <2> QED
    BY <1>8, <2>2 DEF Above
<1> QED
  BY <1>2, <1>5, <1>9 DEF n

\* A pull of the newest frame leaves the others in order.
LEMMA PullOfNewestKeeps ==
  ASSUME IInv, frames # <<>>, Head(frames).e = emulation,
         frames' = Tail(frames), cells' = Kept(Tail(frames)), s' = Head(frames).from,
         matched', balanced',
         emulation' = emulation, m8' \in BOOLEAN, x8' \in BOOLEAN, x' \in Word
  PROVE  IInv'
<1> DEFINE len == Len(frames) - 1
           size(i) == Size(frames'[i].class)
<1>1. /\ TypeOK /\ frames \in Seq(Frame) /\ emulation \in BOOLEAN
      /\ cells \in [Word -> Content]
  BY DEF IInv, TypeOK
<1>2. PICK base \in 0..(Ring - 1), total \in 0..Ring, below \in [DOMAIN frames -> 0..Ring] :
            Stands(base, total, below)
  BY DEF IInv, Stacks
<1>3. /\ 1 \in Live /\ Head(frames) = frames[1] /\ Points(frames[1].from)
      /\ Index(frames[1].from) = (base - below[1]) % Ring
      /\ below[1] \in 0..Ring
  BY <1>2, NewestAt
<1>4. /\ frames' \in Seq(Frame) /\ len \in Nat
      /\ DOMAIN frames' = 1..len /\ DOMAIN frames = 1..(len + 1)
      /\ \A i \in 1..len : frames'[i] = frames[i + 1] /\ i + 1 \in DOMAIN frames
  BY <1>1, OneLess
<1> HIDE DEF len
<1>5. /\ LiveOf(frames') \subseteq 1..len /\ Live \subseteq 1..(len + 1)
      /\ \A i \in 1..len : i \in LiveOf(frames') <=> i + 1 \in Live
  BY <1>4 DEF LiveOf, Live
<1>6. \A i \in 1..len : size(i) = SizeAt(i + 1) /\ SizeAt(i + 1) \in 1..4
  BY <1>1, <1>4, FrameIs DEF SizeAt
<1>7. /\ \A i \in Live : \A j \in 1..i : j \in Live
      /\ emulation => Live = DOMAIN frames
  BY DEF IInv, Layered
<1>8. PICK lower : /\ lower \in [1..len -> 0..Ring]
                   /\ \A i \in 1..len : lower[i] = below[i + 1] /\ below[i + 1] \in 0..Ring
  <2> DEFINE low == [i \in 1..len |-> below[i + 1]]
  <2>1. \A i \in 1..len : below[i + 1] \in 0..Ring
    BY <1>2, <1>4
  <2>2. low \in [1..len -> 0..Ring] /\ \A i \in 1..len : low[i] = below[i + 1]
    BY <2>1
  <2> QED
    BY <2>1, <2>2
<1>9. PICK whole \in 0..Ring : whole = below[1]
  BY <1>3
<1>10. /\ \A i \in Live : /\ Index(frames[i].from) = (base - below[i]) % Ring
                          /\ emulation => frames[i].from.h = 1
                          /\ below[i] + SizeAt(i) <= total
       /\ \A i, j \in Live : i < j => below[j] + SizeAt(j) <= below[i]
       /\ \A i \in Live : i + 1 \in Live => below[i] = below[i + 1] + SizeAt(i + 1)
       /\ total = below[1] + SizeAt(1)
       /\ \A t \in 0..(total - 1) : \E i \in Live : below[i] <= t /\ t < below[i] + SizeAt(i)
  BY <1>2, <1>3 DEF Stands
<1>11. SizeAt(1) \in 1..4
  BY <1>1, <1>3, FrameIs DEF Live
<1>12. ASSUME NEW t \in 0..(whole - 1)
       PROVE  \E i \in LiveOf(frames') : lower[i] <= t /\ t < lower[i] + size(i)
  <2>1. t \in 0..(total - 1) /\ t < below[1]
    <3>1. total = whole + SizeAt(1) /\ whole \in Int /\ SizeAt(1) \in 1..4
      BY <1>9, <1>10, <1>11, Sizes
    <3> QED
      BY <1>9, <3>1
  <2>2. PICK i \in Live : below[i] <= t /\ t < below[i] + SizeAt(i)
    BY <1>10, <2>1
  <2>3. i # 1
    BY <1>3, <2>1, <2>2
  <2> DEFINE j == i - 1
  <2>4. j \in 1..len /\ j + 1 = i
    BY <1>4, <1>5, <2>2, <2>3
  <2>5. j \in LiveOf(frames') /\ lower[j] = below[i] /\ size(j) = SizeAt(i)
    BY <1>5, <1>6, <1>8, <2>2, <2>4
  <2> HIDE DEF j, size
  <2> QED
    BY <2>2, <2>5
<1>13. Restands(s', frames', base, whole, lower)
  <2>1. Index(s') = (base - whole) % Ring
    BY <1>3, <1>9
  <2>2. ASSUME NEW i \in LiveOf(frames')
        PROVE  /\ Index(frames'[i].from) = (base - lower[i]) % Ring
               /\ emulation => frames'[i].from.h = 1
               /\ lower[i] + size(i) <= whole
    <3>1. i \in 1..len /\ i + 1 \in Live /\ 1 < i + 1
      BY <1>5
    <3>2. frames'[i] = frames[i + 1] /\ lower[i] = below[i + 1] /\ size(i) = SizeAt(i + 1)
      BY <1>4, <1>6, <1>8, <3>1
    <3>3. /\ Index(frames[i + 1].from) = (base - below[i + 1]) % Ring
          /\ emulation => frames[i + 1].from.h = 1
      BY <1>10, <3>1
    <3>4. below[i + 1] + SizeAt(i + 1) <= below[1]
      BY <1>3, <1>10, <3>1
    <3> HIDE DEF size
    <3> QED
      BY <1>9, <3>2, <3>3, <3>4
  <2>3. ASSUME NEW i \in LiveOf(frames'), NEW j \in LiveOf(frames'), i < j
        PROVE  lower[j] + size(j) <= lower[i]
    <3>1. i \in 1..len /\ i + 1 \in Live /\ j \in 1..len /\ j + 1 \in Live /\ i + 1 < j + 1
      BY <1>5, <2>3
    <3>2. lower[i] = below[i + 1] /\ lower[j] = below[j + 1] /\ size(j) = SizeAt(j + 1)
      BY <1>6, <1>8, <3>1
    <3>3. below[j + 1] + SizeAt(j + 1) <= below[i + 1]
      BY <1>10, <3>1
    <3> HIDE DEF size
    <3> QED
      BY <3>2, <3>3
  <2>4. ASSUME NEW i \in LiveOf(frames'), i + 1 \in LiveOf(frames')
        PROVE  lower[i] = lower[i + 1] + size(i + 1)
    <3> DEFINE j == i + 1
    <3>1. i \in 1..len /\ j \in 1..len /\ j \in Live /\ j + 1 \in Live
      BY <1>5, <2>4
    <3>2. lower[i] = below[j] /\ lower[j] = below[j + 1] /\ size(j) = SizeAt(j + 1)
      BY <1>6, <1>8, <3>1
    <3> HIDE DEF j
    <3>3. below[j] = below[j + 1] + SizeAt(j + 1)
      BY <1>10, <3>1
    <3>4. lower[i] = lower[j] + size(j)
      BY <3>2, <3>3
    <3> QED
      BY <3>4 DEF j
  <2>5. IF 1 \in LiveOf(frames') THEN whole = lower[1] + size(1) ELSE whole = 0
    <3>1. CASE 1 \in LiveOf(frames')
      <4>1. 1 \in 1..len /\ 1 + 1 \in Live
        BY <1>5, <3>1
      <4>2. below[1] = below[1 + 1] + SizeAt(1 + 1)
        BY <1>3, <1>10, <4>1
      <4>3. lower[1] = below[1 + 1] /\ size(1) = SizeAt(1 + 1)
        BY <1>6, <1>8, <4>1
      <4> HIDE DEF size
      <4> QED
        BY <1>9, <3>1, <4>2, <4>3
    <3>2. CASE 1 \notin LiveOf(frames')
      <4>1. ASSUME NEW i \in LiveOf(frames') PROVE FALSE
        <5>1. i \in 1..len /\ i + 1 \in Live
          BY <1>5
        <5>2. 2 \in 1..(i + 1) /\ 1 \in 1..len
          BY <1>4, <5>1
        <5>3. 2 \in Live
          BY <1>7, <5>1, <5>2
        <5>4. 1 \in LiveOf(frames')
          BY <1>5, <5>2, <5>3
        <5> QED
          BY <3>2, <5>4
      <4>2. whole = 0
        <5>1. SUFFICES ASSUME whole # 0 PROVE FALSE
          OBVIOUS
        <5>2. whole - 1 \in 0..(whole - 1)
          BY <1>9, <5>1, Sizes
        <5> QED
          BY <1>12, <4>1, <5>2
      <4> QED
        BY <3>2, <4>2
    <3> QED
      BY <3>1, <3>2
  <2> QED
    BY <1>12, <2>1, <2>2, <2>3, <2>4, <2>5 DEF Restands
<1>14. Stacks'
  <2>1. Stands(base, whole, lower)'
    BY <1>13, ModeKept
  <2>2. Ring' = Ring
    BY ModeKept
  <2> QED
    BY <1>4, <1>8, <1>9, <2>1, <2>2 DEF Stacks
<1>15. Layered'
  <2>1. Live' = LiveOf(frames')
    BY ModeKept
  <2>2. ASSUME NEW i \in LiveOf(frames'), NEW j \in 1..i PROVE j \in LiveOf(frames')
    <3>1. i \in 1..len /\ i + 1 \in Live /\ j \in 1..len /\ j + 1 \in 1..(i + 1)
      BY <1>4, <1>5, SMTT(30)
    <3>2. j + 1 \in Live
      BY <1>7, <3>1
    <3> QED
      BY <1>5, <3>1, <3>2
  <2>3. ASSUME emulation PROVE LiveOf(frames') = DOMAIN frames'
    <3>1. ASSUME NEW i \in 1..len PROVE i \in LiveOf(frames')
      BY <1>4, <1>5, <1>7, <2>3
    <3> QED
      BY <1>4, <1>5, <3>1
  <2> QED
    BY <2>1, <2>2, <2>3 DEF Layered
<1>16. \A i \in Live' : Laid(frames[i])'
  <2>1. ASSUME NEW f, NEW i \in LiveOf(frames'), f = frames'[i] PROVE Laid(f)'
    <3>1. i \in 1..len /\ i + 1 \in Live /\ f = frames[i + 1] /\ f \in Frame
      <4>1. i \in 1..len /\ i + 1 \in Live
        BY <1>5
      <4> QED
        BY <1>1, <1>4, <2>1, <4>1, FrameIs
    <3>2. Laid(f)
      BY <3>1 DEF IInv
    <3>3. ASSUME NEW k \in 1..Size(f.class)
          PROVE  cells'[Down(f.from, k - 1, f.flat)] = cells[Down(f.from, k - 1, f.flat)]
      <4>1. Down(f.from, k - 1, f.flat) \in f.at
        BY <3>2 DEF Laid
      <4>2. Down(f.from, k - 1, f.flat) \in Word
        BY <3>1, <4>1 DEF Frame
      <4>3. i \in DOMAIN Tail(frames) /\ Tail(frames)[i] = f
        BY <1>4, <2>1, <3>1
      <4> QED
        BY <4>1, <4>2, <4>3 DEF Kept
    <3> QED
      BY <3>2, <3>3, LaidKept
  <2>2. Live' = LiveOf(frames')
    BY ModeKept
  <2> QED
    BY <2>1, <2>2
<1>17. TypeOK'
  <2>1. cells' \in [Word -> Content]
    BY <1>1 DEF Kept, Content
  <2>2. s' \in Word /\ (emulation => s'.h = 1)
    BY <1>3 DEF Points
  <2> QED
    BY <1>1, <1>4, <2>1, <2>2 DEF TypeOK
<1> QED
  BY <1>14, <1>15, <1>16, <1>17 DEF IInv

\* The newest frame is promised to a pull of this class.
Owed(class, flat) ==
    /\ frames # <<>> /\ Head(frames).class = class /\ Head(frames).e = emulation
    /\ Promised(Head(frames), Size(class), flat)

\* A pull that gives what it owes keeps the stack in order.
LEMMA PullKeeps ==
  ASSUME IInv, NEW class \in Classes, NEW flat \in BOOLEAN, NEW value,
         Pull(class, Size(class), flat, value), Owed(class, flat) => value = Head(frames).value,
         emulation' = emulation, m8' \in BOOLEAN, x8' \in BOOLEAN, x' \in Word
  PROVE  IInv'
<1> DEFINE n == Size(class)
<1>1. s' = Stacked(Down(s, -n, flat), emulation)
  BY DEF Pull
<1>2. CASE frames # <<>> /\ Head(frames).class = class /\ Head(frames).e = emulation
  <2>1. /\ frames' = Tail(frames) /\ cells' = Kept(Tail(frames))
        /\ matched' = (matched /\ (Promised(Head(frames), n, flat) => value = Head(frames).value))
        /\ balanced' = (balanced /\ s' = Head(frames).from)
    BY <1>2 DEF Pull
  <2>2. s' = Head(frames).from
    BY <1>1, <1>2, PulledPointer
  <2>3. matched'
    BY <1>2, <2>1 DEF IInv, Owed
  <2>4. balanced'
    BY <2>1, <2>2 DEF IInv
  <2> QED
    BY <1>2, <2>1, <2>2, <2>3, <2>4, PullOfNewestKeeps
<1>3. CASE ~(frames # <<>> /\ Head(frames).class = class /\ Head(frames).e = emulation)
  <2>1. Abandon
    BY <1>3 DEF Pull
  <2>2. Points(s) /\ emulation \in BOOLEAN
    BY DEF IInv, TypeOK, Points
  <2>3. n \in 1..4 /\ (emulation => n <= Byte)
    BY SizeIs
  <2> HIDE DEF n
  <2>4. -n \in Int /\ (emulation => -n \in (-Byte)..Byte)
    BY <2>3, Sizes
  <2>5. Points(s')
    BY <1>1, <2>2, <2>4, StackedIs
  <2>6. s' \in Word /\ (emulation' => s'.h = 1)
    BY <2>5 DEF Points
  <2> QED
    BY <2>1, <2>2, <2>6, AbandonKeeps
<1> QED
  BY <1>2, <1>3

\* What a pull reads from a cell.
LEMMA Contents ==
  /\ \A v \in Octet : Len(<<v>>) = 1 /\ <<v>>[1] = v
  /\ \A st \in Status : Len(st) = 2
<1>1. \A v \in Octet : Len(<<v>>) = 1 /\ <<v>>[1] = v
  OBVIOUS
<1>2. ASSUME NEW st \in Status PROVE Len(st) = 2
  <2>1. PICK a \in BOOLEAN, b \in BOOLEAN : st = <<a, b>>
    BY DEF Status
  <2> QED
    BY <2>1
<1> QED
  BY <1>1, <1>2

LEMMA ReadsByte ==
  ASSUME NEW k, NEW flat, NEW v \in Octet, Above(k, flat) = <<v>>
  PROVE  ByteAt(k, flat) = {v}
  BY Contents DEF ByteAt

LEMMA ReadsStatus ==
  ASSUME NEW k, NEW flat, NEW st \in Status, Above(k, flat) = st
  PROVE  StatusAt(k, flat) = {st}
  BY Contents DEF StatusAt

LEMMA ReadsOctet ==
  ASSUME TypeOK, NEW k \in 1..3, NEW flat \in BOOLEAN
  PROVE  ByteAt(k, flat) \subseteq Octet
<1>1. Points(s)
  BY DEF TypeOK, Points
<1>2. -k \in Int /\ (emulation => -k \in (-Byte)..Byte)
  BY Sizes
<1>3. Down(s, -k, flat) \in Word
  BY <1>1, <1>2, DownIs
<1>4. Above(k, flat) \in Content
  BY <1>3 DEF Above, TypeOK
<1>5. ASSUME Len(Above(k, flat)) = 1 PROVE Above(k, flat)[1] \in Octet
  <2>1. Above(k, flat) # <<>>
    BY <1>5
  <2>2. Above(k, flat) \notin Status
    BY <1>5, Contents
  <2>3. PICK v \in Octet : Above(k, flat) = <<v>>
    BY <1>4, <2>1, <2>2 DEF Content
  <2> QED
    BY <2>3
<1>6. Data \subseteq Octet
  BY DataAssumption DEF Octet
<1> QED
  BY <1>5, <1>6 DEF ByteAt

-----------------------------------------------------------------------------
(* What each class gives back.                                             *)

\* The cells of what is owed, the top one last.
LEMMA OwedBytes ==
  ASSUME IInv, NEW class, NEW flat \in BOOLEAN, Owed(class, flat)
  PROVE  \E bytes \in [1..Size(class) -> Content] :
            /\ Layout(class, Head(frames).value, bytes)
            /\ \A j \in 1..Size(class) : Above(j, flat) = bytes[Size(class) + 1 - j]
<1>1. /\ frames # <<>> /\ Head(frames).e = emulation /\ Head(frames).class = class
      /\ Promised(Head(frames), Size(Head(frames).class), flat)
  BY DEF Owed
<1>2. LET n == Size(Head(frames).class)
      IN  \E bytes \in [1..n -> Content] :
             /\ Layout(Head(frames).class, Head(frames).value, bytes)
             /\ \A j \in 1..n : Above(j, flat) = bytes[n + 1 - j]
  BY <1>1, PulledBytes
<1> QED
  BY <1>1, <1>2

LEMMA OwedByte ==
  ASSUME IInv, NEW flat \in BOOLEAN, Owed("byte", flat), NEW l \in ByteAt(1, flat)
  PROVE  <<l>> = Head(frames).value
<1>1. Size("byte") = 1
  BY DEF Size
<1>2. PICK bytes : /\ Layout("byte", Head(frames).value, bytes)
                   /\ \A j \in 1..1 : Above(j, flat) = bytes[1 + 1 - j]
  BY <1>1, OwedBytes
<1>3. PICK v \in Octet : Head(frames).value = <<v>> /\ bytes = <<<<v>>>>
  BY <1>2 DEF Layout
<1>4. Above(1, flat) = <<v>>
  BY <1>2, <1>3
<1> QED
  BY <1>3, <1>4, ReadsByte

LEMMA OwedWord ==
  ASSUME IInv, NEW flat \in BOOLEAN, Owed("word", flat),
         NEW l \in ByteAt(1, flat), NEW h \in ByteAt(2, flat)
  PROVE  <<h, l>> = Head(frames).value
<1>1. Size("word") = 2
  BY DEF Size
<1>2. PICK bytes : /\ Layout("word", Head(frames).value, bytes)
                   /\ \A j \in 1..2 : Above(j, flat) = bytes[2 + 1 - j]
  BY <1>1, OwedBytes
<1>3. PICK w \in Word : Head(frames).value = <<w.h, w.l>> /\ bytes = <<<<w.h>>, <<w.l>>>>
  BY <1>2 DEF Layout
<1>4. Above(1, flat) = <<w.l>> /\ Above(2, flat) = <<w.h>>
  BY <1>2, <1>3
<1>5. l = w.l /\ h = w.h
  BY <1>4, ReadsByte, WordNumber
<1> QED
  BY <1>3, <1>5

LEMMA OwedStatus ==
  ASSUME IInv, NEW flat \in BOOLEAN, Owed("status", flat), NEW st \in StatusAt(1, flat)
  PROVE  st = Head(frames).value
<1>1. Size("status") = 1
  BY DEF Size
<1>2. PICK bytes : /\ Layout("status", Head(frames).value, bytes)
                   /\ \A j \in 1..1 : Above(j, flat) = bytes[1 + 1 - j]
  BY <1>1, OwedBytes
<1>3. Head(frames).value \in Status /\ bytes = <<Head(frames).value>>
  BY <1>2 DEF Layout
<1>4. Above(1, flat) = Head(frames).value
  BY <1>2, <1>3
<1> QED
  BY <1>3, <1>4, ReadsStatus

LEMMA PlusForth ==
  ASSUME NEW w \in Word, NEW k \in Int
  PROVE  Plus(Plus(w, -k), k) = w
<1>1. -k \in Int /\ -(-k) = k
  OBVIOUS
<1>2. Plus(Plus(w, -k), -(-k)) = w
  BY <1>1, PlusBack
<1> QED
  BY <1>1, <1>2

\* A return adds what the call took away.
LEMMA Returns ==
  ASSUME NEW pc \in Word
  PROVE  LET pushed == Plus(pc, -1)
         IN  /\ pushed.h \in Octet /\ pushed.l \in Octet
             /\ Plus([h |-> pushed.h, l |-> pushed.l], 1) = pc
<1> DEFINE pushed == Plus(pc, -1)
<1>1. pushed \in Word
  BY PlusIs
<1>2. Plus(Plus(pc, -1), 1) = pc
  BY PlusForth
<1>3. Plus(pushed, 1) = pc
  BY <1>2
<1> HIDE DEF pushed
<1>4. pushed.h \in Octet /\ pushed.l \in Octet /\ pushed = [h |-> pushed.h, l |-> pushed.l]
  BY <1>1, WordNumber
<1> QED
  BY <1>3, <1>4 DEF pushed

LEMMA OwedNear ==
  ASSUME IInv, NEW flat \in BOOLEAN, Owed("near", flat),
         NEW l \in ByteAt(1, flat), NEW h \in ByteAt(2, flat)
  PROVE  LET pc == Plus([h |-> h, l |-> l], 1)
         IN  <<pc.h, pc.l>> = Head(frames).value
<1>1. Size("near") = 2
  BY DEF Size
<1>2. PICK bytes : /\ Layout("near", Head(frames).value, bytes)
                   /\ \A j \in 1..2 : Above(j, flat) = bytes[2 + 1 - j]
  BY <1>1, OwedBytes
<1>3. PICK pc \in Word : /\ Head(frames).value = <<pc.h, pc.l>>
                         /\ bytes = <<<<Plus(pc, -1).h>>, <<Plus(pc, -1).l>>>>
  BY <1>2 DEF Layout
<1>4. Above(1, flat) = <<Plus(pc, -1).l>> /\ Above(2, flat) = <<Plus(pc, -1).h>>
  BY <1>2, <1>3
<1>5. Plus(pc, -1).l \in Octet /\ Plus(pc, -1).h \in Octet
  BY Returns
<1>6. l = Plus(pc, -1).l /\ h = Plus(pc, -1).h
  BY <1>4, <1>5, ReadsByte
<1>7. Plus([h |-> h, l |-> l], 1) = pc
  BY <1>6, Returns
<1> QED
  BY <1>3, <1>7

LEMMA OwedFar ==
  ASSUME IInv, NEW flat \in BOOLEAN, Owed("far", flat),
         NEW l \in ByteAt(1, flat), NEW h \in ByteAt(2, flat), NEW pb \in ByteAt(3, flat)
  PROVE  LET pc == Plus([h |-> h, l |-> l], 1)
         IN  <<pb, pc.h, pc.l>> = Head(frames).value
<1>1. Size("far") = 3
  BY DEF Size
<1>2. PICK bytes : /\ Layout("far", Head(frames).value, bytes)
                   /\ \A j \in 1..3 : Above(j, flat) = bytes[3 + 1 - j]
  BY <1>1, OwedBytes
<1>3. PICK pc \in Word, b \in Octet :
            /\ Head(frames).value = <<b, pc.h, pc.l>>
            /\ bytes = <<<<b>>, <<Plus(pc, -1).h>>, <<Plus(pc, -1).l>>>>
  BY <1>2 DEF Layout
<1>4. /\ Above(1, flat) = <<Plus(pc, -1).l>> /\ Above(2, flat) = <<Plus(pc, -1).h>>
      /\ Above(3, flat) = <<b>>
  BY <1>2, <1>3
<1>5. Plus(pc, -1).l \in Octet /\ Plus(pc, -1).h \in Octet
  BY Returns
<1>6. l = Plus(pc, -1).l /\ h = Plus(pc, -1).h /\ pb = b
  BY <1>4, <1>5, ReadsByte
<1>7. Plus([h |-> h, l |-> l], 1) = pc
  BY <1>6, Returns
<1> QED
  BY <1>3, <1>6, <1>7

LEMMA OwedEntry ==
  ASSUME IInv, NEW flat \in BOOLEAN, Owed("entry", flat), NEW st \in StatusAt(1, flat),
         NEW l \in ByteAt(2, flat), NEW h \in ByteAt(3, flat)
  PROVE  /\ emulation => <<h, l>> = Head(frames).value
         /\ ~emulation => \A pb \in ByteAt(4, flat) : <<pb, h, l, st>> = Head(frames).value
<1>1. PICK bytes :
        /\ Layout("entry", Head(frames).value, bytes)
        /\ \A j \in 1..Size("entry") : Above(j, flat) = bytes[Size("entry") + 1 - j]
  BY OwedBytes
<1>2. PICK pc \in Word, b \in Octet, p \in Status :
            IF emulation
            THEN /\ Head(frames).value = <<pc.h, pc.l>>
                 /\ bytes = <<<<pc.h>>, <<pc.l>>, p>>
            ELSE /\ Head(frames).value = <<b, pc.h, pc.l, p>>
                 /\ bytes = <<<<b>>, <<pc.h>>, <<pc.l>>, p>>
  BY <1>1 DEF Layout
<1>3. pc.h \in Octet /\ pc.l \in Octet
  BY WordNumber
<1>4. ASSUME emulation PROVE <<h, l>> = Head(frames).value
  <2>1. Size("entry") = 3
    BY <1>4 DEF Size
  <2>2. \A j \in 1..3 : Above(j, flat) = bytes[3 + 1 - j]
    BY <1>1, <2>1
  <2>3. Head(frames).value = <<pc.h, pc.l>> /\ bytes = <<<<pc.h>>, <<pc.l>>, p>>
    BY <1>2, <1>4
  <2>4. Above(2, flat) = <<pc.l>> /\ Above(3, flat) = <<pc.h>>
    <3>1. bytes[1] = <<pc.h>> /\ bytes[2] = <<pc.l>>
      BY <2>3
    <3>2. Above(2, flat) = bytes[2] /\ Above(3, flat) = bytes[1]
      BY <2>2
    <3> QED
      BY <3>1, <3>2
  <2>5. ByteAt(2, flat) = {pc.l}
    BY <1>3, <2>4, ReadsByte
  <2>6. ByteAt(3, flat) = {pc.h}
    BY <1>3, <2>4, ReadsByte
  <2> QED
    BY <2>3, <2>5, <2>6
<1>5. ASSUME ~emulation, NEW pb \in ByteAt(4, flat)
      PROVE  <<pb, h, l, st>> = Head(frames).value
  <2>1. Size("entry") = 4
    BY <1>5 DEF Size
  <2>2. \A j \in 1..4 : Above(j, flat) = bytes[4 + 1 - j]
    BY <1>1, <2>1
  <2>3. /\ Head(frames).value = <<b, pc.h, pc.l, p>>
        /\ bytes = <<<<b>>, <<pc.h>>, <<pc.l>>, p>>
    BY <1>2, <1>5
  <2>4. /\ Above(1, flat) = p /\ Above(2, flat) = <<pc.l>> /\ Above(3, flat) = <<pc.h>>
        /\ Above(4, flat) = <<b>>
    <3>1. bytes[1] = <<b>> /\ bytes[2] = <<pc.h>> /\ bytes[3] = <<pc.l>> /\ bytes[4] = p
      BY <2>3
    <3>2. /\ Above(1, flat) = bytes[4] /\ Above(2, flat) = bytes[3]
          /\ Above(3, flat) = bytes[2] /\ Above(4, flat) = bytes[1]
      BY <2>2
    <3> QED
      BY <3>1, <3>2
  <2>5. ByteAt(2, flat) = {pc.l}
    BY <1>3, <2>4, ReadsByte
  <2>6. ByteAt(3, flat) = {pc.h}
    BY <1>3, <2>4, ReadsByte
  <2>7. ByteAt(4, flat) = {b}
    BY <2>4, ReadsByte
  <2>8. StatusAt(1, flat) = {p}
    BY <2>4, ReadsStatus
  <2> QED
    BY <1>5, <2>3, <2>5, <2>6, <2>7, <2>8
<1> QED
  BY <1>4, <1>5

-----------------------------------------------------------------------------
(* The instructions.                                                       *)

LEMMA Inputs == Data \subseteq Octet /\ Words \subseteq Word
  BY DataAssumption, WordsAssumption DEF Octet, Word

LEMMA Narrows ==
  ASSUME NEW w \in Word
  PROVE  Narrow(w) \in Word /\ PageOne(w) \in Word /\ PageOne(w).h = 1
  BY Sizes DEF Narrow, PageOne, Word

LEMMA InitIsOrder == Init => IInv
<1> SUFFICES ASSUME Init PROVE IInv
  OBVIOUS
<1>1. emulation \in BOOLEAN /\ m8 \in BOOLEAN /\ x8 \in BOOLEAN
  BY DEF Init
<1>2. x \in Word
  <2>1. x \in [h : {0}, l : Data] \/ x \in Words
    BY DEF Init
  <2>2. 0 \in 0..(Byte - 1)
    BY Sizes
  <2> QED
    BY <2>1, <2>2, Inputs DEF Word, Octet
<1>3. PICK w \in Word : s = Stacked(w, emulation)
  BY DEF Init
<1>4. s \in Word /\ (emulation => s.h = 1)
  BY <1>3, Narrows DEF Stacked
<1>5. cells \in [Word -> Content]
  BY DEF Init, Kept, Content
<1>6. frames = <<>> /\ matched /\ balanced
  BY DEF Init
<1>7. TypeOK
  BY <1>1, <1>2, <1>4, <1>5, <1>6 DEF TypeOK
<1>8. Bare
  BY <1>6 DEF Bare, Live
<1> QED
  BY <1>7, <1>8, BareIsOrder

\* Some class is pushed as its layout says.
Pushes ==
    \E class \in Classes, flat \in BOOLEAN : \E value, bytes :
        Push(class, bytes, flat, value) /\ Layout(class, value, bytes)

\* Some class is pulled, and what it owes is given.
Pulls ==
    \E class \in Classes, flat \in BOOLEAN : \E value :
        /\ Pull(class, Size(class), flat, value)
        /\ Owed(class, flat) => value = Head(frames).value

LEMMA PushesByte ==
  ASSUME NEW v \in Octet, NEW flat \in BOOLEAN, Push("byte", <<<<v>>>>, flat, <<v>>)
  PROVE  Pushes
<1>1. Layout("byte", <<v>>, <<<<v>>>>)
  BY DEF Layout
<1> QED
  BY <1>1 DEF Pushes, Classes

LEMMA PushesWord ==
  ASSUME NEW w \in Word, NEW flat \in BOOLEAN,
         Push("word", <<<<w.h>>, <<w.l>>>>, flat, <<w.h, w.l>>)
  PROVE  Pushes
<1>1. Layout("word", <<w.h, w.l>>, <<<<w.h>>, <<w.l>>>>)
  BY DEF Layout
<1> QED
  BY <1>1 DEF Pushes, Classes

LEMMA PushesEntry ==
  ASSUME NEW st \in Status, EnterWith(st)
  PROVE  Pushes
<1>1. PICK pc \in Words, pb \in Data :
        IF emulation
        THEN Push("entry", <<<<pc.h>>, <<pc.l>>, st>>, FALSE, <<pc.h, pc.l>>)
        ELSE Push("entry", <<<<pb>>, <<pc.h>>, <<pc.l>>, st>>, FALSE, <<pb, pc.h, pc.l, st>>)
  BY DEF EnterWith
<1>2. pc \in Word /\ pb \in Octet
  BY Inputs
<1>3. CASE emulation
  <2>1. Layout("entry", <<pc.h, pc.l>>, <<<<pc.h>>, <<pc.l>>, st>>)
    BY <1>2, <1>3 DEF Layout
  <2> QED
    BY <1>1, <1>3, <2>1 DEF Pushes, Classes
<1>4. CASE ~emulation
  <2>1. Layout("entry", <<pb, pc.h, pc.l, st>>, <<<<pb>>, <<pc.h>>, <<pc.l>>, st>>)
    BY <1>2, <1>4 DEF Layout
  <2> QED
    BY <1>1, <1>4, <2>1 DEF Pushes, Classes
<1> QED
  BY <1>3, <1>4

LEMMA StatusIs ==
  ASSUME TypeOK
  PROVE  status \in Status /\ <<m8, FALSE>> \in Status
  BY DEF TypeOK, status, Status

LEMMA PushersPush ==
  ASSUME TypeOK, Phx \/ PhbPhkPha \/ Pha \/ PushFlat \/ Php \/ Jsr \/ Jsl \/ Enter
  PROVE  Pushes
<1>1. CASE Phx
  <2>1. x \in Word /\ x.l \in Octet
    BY WordNumber DEF TypeOK
  <2>2. \/ Push("byte", <<<<x.l>>>>, FALSE, <<x.l>>)
        \/ Push("word", <<<<x.h>>, <<x.l>>>>, FALSE, <<x.h, x.l>>)
    BY <1>1 DEF Phx
  <2> QED
    BY <2>1, <2>2, PushesByte, PushesWord
<1>2. CASE PhbPhkPha
  BY <1>2, PushesByte, Inputs DEF PhbPhkPha
<1>3. CASE Pha
  BY <1>3, PushesWord, Inputs DEF Pha
<1>4. CASE PushFlat
  BY <1>4, PushesWord, Inputs DEF PushFlat
<1>5. CASE Php
  <2>1. Push("status", <<status>>, FALSE, status)
    BY <1>5 DEF Php
  <2>2. Layout("status", status, <<status>>)
    BY StatusIs DEF Layout
  <2> QED
    BY <2>1, <2>2 DEF Pushes, Classes
<1>6. CASE Jsr
  <2>1. PICK pc \in Words, indexed \in BOOLEAN :
            Push("near", <<<<Plus(pc, -1).h>>, <<Plus(pc, -1).l>>>>, indexed, <<pc.h, pc.l>>)
    BY <1>6 DEF Jsr
  <2>2. Layout("near", <<pc.h, pc.l>>, <<<<Plus(pc, -1).h>>, <<Plus(pc, -1).l>>>>)
    BY Inputs DEF Layout
  <2> QED
    BY <2>1, <2>2 DEF Pushes, Classes
<1>7. CASE Jsl
  <2>1. PICK pc \in Words, pb \in Data :
            Push("far", <<<<pb>>, <<Plus(pc, -1).h>>, <<Plus(pc, -1).l>>>>, TRUE,
                 <<pb, pc.h, pc.l>>)
    BY <1>7 DEF Jsl
  <2>2. Layout("far", <<pb, pc.h, pc.l>>,
               <<<<pb>>, <<Plus(pc, -1).h>>, <<Plus(pc, -1).l>>>>)
    BY Inputs DEF Layout
  <2> QED
    BY <2>1, <2>2 DEF Pushes, Classes
<1>8. CASE Enter
  BY <1>8, PushesEntry, StatusIs DEF Enter
<1> QED
  BY <1>1, <1>2, <1>3, <1>4, <1>5, <1>6, <1>7, <1>8

LEMMA PullersPull ==
  ASSUME IInv, Plx \/ Pla \/ Plb \/ Pld \/ Plp \/ Rts \/ Rtl \/ Rti
  PROVE  Pulls
<1>0. Size("byte") = 1 /\ Size("word") = 2 /\ Size("status") = 1 /\ Size("near") = 2
      /\ Size("far") = 3 /\ Size("entry") = IF emulation THEN 3 ELSE 4
  BY DEF Size
<1>1. ASSUME NEW flat \in BOOLEAN, NEW l \in ByteAt(1, flat), Pull("byte", 1, flat, <<l>>)
      PROVE  Pulls
  <2>1. Owed("byte", flat) => <<l>> = Head(frames).value
    BY OwedByte
  <2> QED
    BY <1>0, <1>1, <2>1 DEF Pulls, Classes
<1>2. ASSUME NEW flat \in BOOLEAN, NEW l \in ByteAt(1, flat), NEW h \in ByteAt(2, flat),
             Pull("word", 2, flat, <<h, l>>)
      PROVE  Pulls
  <2>1. Owed("word", flat) => <<h, l>> = Head(frames).value
    BY OwedWord
  <2> QED
    BY <1>0, <1>2, <2>1 DEF Pulls, Classes
<1>3. CASE Plx \/ Pla
  BY <1>1, <1>2, <1>3 DEF Plx, Pla
<1>4. CASE Plb
  BY <1>1, <1>4 DEF Plb
<1>5. CASE Pld
  BY <1>2, <1>5 DEF Pld
<1>6. CASE Plp
  <2>1. PICK flat, st :
            /\ flat \in BOOLEAN /\ st \in StatusAt(1, flat)
            /\ Pull("status", 1, flat, st)
    BY <1>6 DEF Plp
  <2>2. Owed("status", flat) => st = Head(frames).value
    BY <2>1, OwedStatus
  <2> QED
    BY <1>0, <2>1, <2>2 DEF Pulls, Classes
<1>7. CASE Rts
  <2>1. PICK flat, l, h :
            /\ flat \in BOOLEAN /\ l \in ByteAt(1, flat) /\ h \in ByteAt(2, flat)
            /\ Pull("near", 2, flat,
                    <<Plus([h |-> h, l |-> l], 1).h, Plus([h |-> h, l |-> l], 1).l>>)
    BY <1>7 DEF Rts
  <2>2. Owed("near", flat) =>
            <<Plus([h |-> h, l |-> l], 1).h, Plus([h |-> h, l |-> l], 1).l>> = Head(frames).value
    BY <2>1, OwedNear
  <2> QED
    BY <1>0, <2>1, <2>2 DEF Pulls, Classes
<1>8. CASE Rtl
  <2>0. PICK flat \in BOOLEAN :
            \E l \in ByteAt(1, flat), h \in ByteAt(2, flat), pb \in ByteAt(3, flat) :
               Pull("far", 3, flat,
                    <<pb, Plus([h |-> h, l |-> l], 1).h, Plus([h |-> h, l |-> l], 1).l>>)
    BY <1>8 DEF Rtl
  <2>1. PICK l \in ByteAt(1, flat), h \in ByteAt(2, flat), pb \in ByteAt(3, flat) :
            Pull("far", 3, flat,
                 <<pb, Plus([h |-> h, l |-> l], 1).h, Plus([h |-> h, l |-> l], 1).l>>)
    BY <2>0
  <2>2. Owed("far", flat) =>
            <<pb, Plus([h |-> h, l |-> l], 1).h, Plus([h |-> h, l |-> l], 1).l>>
              = Head(frames).value
    BY <2>1, OwedFar
  <2> QED
    BY <1>0, <2>1, <2>2 DEF Pulls, Classes
<1>9. CASE Rti
  <2>0. PICK flat \in BOOLEAN :
            \E st \in StatusAt(1, flat), l \in ByteAt(2, flat), h \in ByteAt(3, flat) :
               IF emulation
               THEN Pull("entry", 3, flat, <<h, l>>)
               ELSE \E pb \in ByteAt(4, flat) : Pull("entry", 4, flat, <<pb, h, l, st>>)
    BY <1>9 DEF Rti
  <2>1. PICK st \in StatusAt(1, flat), l \in ByteAt(2, flat), h \in ByteAt(3, flat) :
            IF emulation
            THEN Pull("entry", 3, flat, <<h, l>>)
            ELSE \E pb \in ByteAt(4, flat) : Pull("entry", 4, flat, <<pb, h, l, st>>)
    BY <2>0
  <2>2. Owed("entry", flat) =>
          /\ emulation => <<h, l>> = Head(frames).value
          /\ ~emulation => \A pb \in ByteAt(4, flat) : <<pb, h, l, st>> = Head(frames).value
    BY <2>1, OwedEntry
  <2>3. CASE emulation
    BY <1>0, <2>1, <2>2, <2>3 DEF Pulls, Classes
  <2>4. CASE ~emulation
    BY <1>0, <2>1, <2>2, <2>4 DEF Pulls, Classes
  <2> QED
    BY <2>3, <2>4
<1> QED
  BY <1>3, <1>4, <1>5, <1>6, <1>7, <1>8, <1>9

-----------------------------------------------------------------------------
(* Every step.                                                             *)

\* What leaves the stack and the mode alone.
LEMMA UnmovedKeeps ==
  ASSUME IInv, UNCHANGED <<emulation, s, stack>>,
         m8' \in BOOLEAN, x8' \in BOOLEAN, x' \in Word
  PROVE  IInv'
<1>1. /\ emulation' = emulation /\ s' = s /\ cells' = cells /\ frames' = frames
      /\ matched' = matched /\ balanced' = balanced
  BY DEF stack
<1>2. TypeOK'
  BY <1>1 DEF IInv, TypeOK
<1>3. LiveOf(frames') = Live /\ Live' = Live
  BY <1>1 DEF LiveOf, Live
<1>4. Layered'
  BY <1>1, <1>3 DEF IInv, Layered
<1>5. Stacks'
  <2>1. PICK base \in 0..(Ring - 1), total \in 0..Ring, below \in [DOMAIN frames -> 0..Ring] :
            Stands(base, total, below)
    BY DEF IInv, Stacks
  <2>2. Restands(s', frames', base, total, below)
    BY <1>1, <1>3, <2>1, Zenon DEF Stands, Restands, SizeAt
  <2>3. Stands(base, total, below)' /\ Ring' = Ring
    BY <1>1, <2>2, ModeKept
  <2> QED
    BY <1>1, <2>1, <2>3 DEF Stacks
<1>6. \A i \in Live' : Laid(frames[i])'
  <2>1. ASSUME NEW f, NEW i \in Live, f = frames[i] PROVE Laid(f)'
    <3>1. Laid(f)
      BY <2>1 DEF IInv
    <3> QED
      BY <1>1, <3>1, LaidKept
  <2> QED
    BY <1>1, <1>3, <2>1
<1> QED
  BY <1>1, <1>2, <1>4, <1>5, <1>6 DEF IInv

LEMMA PushStepKeeps ==
  ASSUME IInv, Pushes, emulation' = emulation,
         m8' \in BOOLEAN, x8' \in BOOLEAN, x' \in Word
  PROVE  IInv'
<1>1. PICK class, flat, value, bytes :
        /\ class \in Classes /\ flat \in BOOLEAN
        /\ Push(class, bytes, flat, value) /\ Layout(class, value, bytes)
  BY DEF Pushes
<1> QED
  BY <1>1, PushKeeps

LEMMA PullStepKeeps ==
  ASSUME IInv, Pulls, emulation' = emulation,
         m8' \in BOOLEAN, x8' \in BOOLEAN, x' \in Word
  PROVE  IInv'
<1>1. PICK class, flat, value :
        /\ class \in Classes /\ flat \in BOOLEAN
        /\ Pull(class, Size(class), flat, value)
        /\ Owed(class, flat) => value = Head(frames).value
  BY DEF Pulls
<1> QED
  BY <1>1, PullKeeps

\* set_status makes booleans and a word, whatever the status.
LEMMA StatusTypes ==
  ASSUME NEW st, NEW index \in Word, set_status(st, index)
  PROVE  m8' \in BOOLEAN /\ x8' \in BOOLEAN /\ x' \in Word
<1>1. m8' \in BOOLEAN /\ x8' \in BOOLEAN
  BY DEF set_status
<1>2. x' \in Word
  BY Narrows DEF set_status
<1> QED
  BY <1>1, <1>2

LEMMA XceKeeps ==
  ASSUME IInv, Xce
  PROVE  IInv'
<1>1. PICK carry \in BOOLEAN :
        /\ set_emulation(carry)
        /\ IF carry THEN Abandon ELSE UNCHANGED stack
  BY DEF Xce
<1>2. /\ emulation' = carry
      /\ m8' = (m8 \/ carry) /\ x8' = (x8 \/ carry)
      /\ x' = IF carry THEN Narrow(x) ELSE x
      /\ s' = Stacked(s, carry)
  BY <1>1 DEF set_emulation
<1>3. x \in Word /\ s \in Word /\ TypeOK
  BY DEF IInv, TypeOK
<1>4. emulation' \in BOOLEAN /\ m8' \in BOOLEAN /\ x8' \in BOOLEAN
  BY <1>2
<1>5. x' \in Word /\ s' \in Word /\ (carry => s'.h = 1)
  BY <1>2, <1>3, Narrows DEF Stacked
<1>6. CASE carry
  BY <1>1, <1>2, <1>4, <1>5, <1>6, AbandonKeeps
<1>7. CASE ~carry /\ ~emulation
  <2>1. UNCHANGED <<emulation, s, stack>>
    BY <1>1, <1>2, <1>3, <1>7 DEF Stacked, TypeOK
  <2> QED
    BY <1>4, <1>5, <2>1, UnmovedKeeps
<1>8. CASE ~carry /\ emulation
  <2>1. UNCHANGED stack /\ emulation' = FALSE
    BY <1>1, <1>2, <1>8
  <2>2. /\ cells' = cells /\ frames' = frames /\ matched' = matched /\ balanced' = balanced
    BY <2>1 DEF stack
  <2>3. ASSUME NEW i \in DOMAIN frames PROVE frames[i].e # FALSE
    BY <1>8 DEF IInv, Layered, Live
  <2>4. Live' = {}
    BY <2>1, <2>2, <2>3 DEF Live
  <2>5. Bare'
    BY <2>1, <2>2, <2>4 DEF Bare, IInv
  <2>6. TypeOK'
    BY <1>3, <1>4, <1>5, <2>1, <2>2 DEF TypeOK
  <2> QED
    BY <2>5, <2>6, BareIsOrderNext
<1> QED
  BY <1>6, <1>7, <1>8

LEMMA AbortKeeps ==
  ASSUME IInv, Abort
  PROVE  IInv'
<1>1. PICK st : set_status(st, x) /\ EnterWith(<<m8', x8' /\ ~emulation>>)
  BY DEF Abort
<1>2. emulation' = emulation /\ x \in Word
  BY DEF Abort, IInv, TypeOK
<1>3. m8' \in BOOLEAN /\ x8' \in BOOLEAN /\ x' \in Word
  BY <1>1, <1>2, StatusTypes
<1>4. <<m8', x8' /\ ~emulation>> \in Status
  BY <1>3 DEF Status
<1>5. PICK pushed : pushed \in Status /\ EnterWith(pushed)
  BY <1>1, <1>4
<1>6. Pushes
  BY <1>5, PushesEntry
<1> QED
  BY <1>2, <1>3, <1>6, PushStepKeeps

LEMMA StepKeepsOrder == IInv /\ [Next]_vars => IInv'
<1> SUFFICES ASSUME IInv, [Next]_vars PROVE IInv'
  OBVIOUS
<1>1. TypeOK /\ x \in Word /\ s \in Word /\ m8 \in BOOLEAN /\ x8 \in BOOLEAN
  BY DEF IInv, TypeOK
<1>2. CASE UNCHANGED vars
  <2>1. UNCHANGED <<emulation, s, stack>> /\ m8' = m8 /\ x8' = x8 /\ x' = x
    BY <1>2 DEF vars, registers
  <2> QED
    BY <1>1, <2>1, UnmovedKeeps
<1>3. CASE Reset
  <2>1. /\ emulation' \in BOOLEAN /\ m8' \in BOOLEAN /\ x8' \in BOOLEAN
        /\ x' \in Word /\ s' \in Word /\ s'.h = 1 /\ Abandon
    BY <1>1, <1>3, Narrows DEF Reset
  <2> QED
    BY <2>1, AbandonKeeps
<1>4. CASE LoadIndex \/ Tsx \/ RepSep
  <2>1. UNCHANGED <<emulation, s, stack>>
    BY <1>4 DEF LoadIndex, Tsx, RepSep
  <2>2. m8' \in BOOLEAN /\ x8' \in BOOLEAN /\ x' \in Word
    <3>1. CASE LoadIndex
      <4>1. x' \in [h : {0}, l : Data] \/ x' \in Words
        BY <3>1 DEF LoadIndex
      <4>2. 0 \in 0..(Byte - 1)
        BY Sizes
      <4>3. x' \in Word
        BY <4>1, <4>2, Inputs DEF Word, Octet
      <4> QED
        BY <1>1, <3>1, <4>3 DEF LoadIndex
    <3>2. CASE Tsx
      BY <1>1, <3>2, Narrows DEF Tsx
    <3>3. CASE RepSep
      BY <1>1, <3>3, StatusTypes DEF RepSep
    <3> QED
      BY <1>4, <3>1, <3>2, <3>3
  <2> QED
    BY <2>1, <2>2, UnmovedKeeps
<1>5. CASE Txs
  <2>1. PICK w \in {x} \cup Words : s' = IF emulation THEN PageOne(w) ELSE w
    BY <1>5 DEF Txs
  <2>2. w \in Word
    BY <1>1, Inputs
  <2>3. s' \in Word /\ (emulation => s'.h = 1)
    BY <2>1, <2>2, Narrows
  <2>4. emulation' = emulation /\ m8' = m8 /\ x8' = x8 /\ x' = x /\ Abandon
    BY <1>5 DEF Txs
  <2> QED
    BY <1>1, <2>3, <2>4, AbandonKeeps DEF TypeOK
<1>6. CASE Xce
  BY <1>6, XceKeeps
<1>7. CASE Phx \/ PhbPhkPha \/ Pha \/ PushFlat \/ Php \/ Jsr \/ Jsl \/ Enter
  <2>1. UNCHANGED widths
    BY <1>7 DEF Phx, PhbPhkPha, Pha, PushFlat, Php, Jsr, Jsl, Enter
  <2>2. Pushes
    BY <1>1, <1>7, PushersPush
  <2> QED
    BY <1>1, <2>1, <2>2, PushStepKeeps DEF widths
<1>8. CASE Plx \/ Pla \/ Plb \/ Pld \/ Plp \/ Rts \/ Rtl \/ Rti
  <2>1. Pulls
    BY <1>8, PullersPull
  <2>2. /\ emulation' = emulation
        /\ m8' \in BOOLEAN /\ x8' \in BOOLEAN /\ x' \in Word
    <3>1. CASE Plx
      <4>1. emulation' = emulation /\ m8' = m8 /\ x8' = x8
        BY <3>1 DEF Plx
      <4>2. ASSUME NEW flat \in BOOLEAN, NEW l \in ByteAt(1, flat)
            PROVE  [h |-> 0, l |-> l] \in Word
                   /\ \A h \in ByteAt(2, flat) : [h |-> h, l |-> l] \in Word
        <5>1. ByteAt(1, flat) \subseteq Octet
          BY <1>1, ReadsOctet
        <5>2. ByteAt(2, flat) \subseteq Octet
          BY <1>1, ReadsOctet
        <5>3. 0 \in Octet
          BY Sizes DEF Octet
        <5> QED
          BY <4>2, <5>1, <5>2, <5>3 DEF Word, Octet
      <4>3. PICK flat, l :
            /\ flat \in BOOLEAN /\ l \in ByteAt(1, flat)
            /\ \/ x' = [h |-> 0, l |-> l]
               \/ \E h \in ByteAt(2, flat) : x' = [h |-> h, l |-> l]
        BY <3>1 DEF Plx
      <4>4. x' \in Word
        BY <4>2, <4>3
      <4> QED
        BY <1>1, <4>1, <4>4
    <3>2. CASE Pla \/ Plb \/ Pld \/ Rts \/ Rtl
      <4>1. UNCHANGED widths
        BY <3>2 DEF Pla, Plb, Pld, Rts, Rtl
      <4> QED
        BY <1>1, <4>1 DEF widths
    <3>3. CASE Plp \/ Rti
      <4>1. emulation' = emulation
        BY <3>3 DEF Plp, Rti
      <4>2. PICK st : set_status(st, x)
        BY <3>3 DEF Plp, Rti
      <4> QED
        BY <1>1, <4>1, <4>2, StatusTypes
    <3> QED
      BY <1>8, <3>1, <3>2, <3>3
  <2> QED
    BY <2>1, <2>2, PullStepKeeps
<1>9. CASE Abort
  BY <1>9, AbortKeeps
<1> QED
  BY <1>2, <1>3, <1>4, <1>5, <1>6, <1>7, <1>8, <1>9 DEF Next

\* Whatever a program pushes and pulls in either way, in either mode and through
\* every change of width, a pull that is owed what a push, a call or an entry
\* left gives it back; and it leaves the stack pointer where its push found it, even
\* where a flat access has left page one.
THEOREM PullsAlwaysMatch == Spec => []PullsMatch
<1>1. IInv => PullsMatch
  BY DEF IInv, PullsMatch
<1> QED
  BY <1>1, InitIsOrder, StepKeepsOrder, PTL DEF Spec

=============================================================================
