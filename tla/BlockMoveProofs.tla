-------------------------- MODULE BlockMoveProofs --------------------------
(***************************************************************************)
(* What is proved of a block move, for banks and pages of any size, any    *)
(* budgets and any number of aborts.                                       *)
(*                                                                         *)
(* Position is how many of the move's bytes are behind the registers.  It  *)
(* goes up with each byte and back with an abort, while the memory only    *)
(* ever holds more of the move: Told relates the one to the registers,     *)
(* Written says how far the other has got.                                 *)
(***************************************************************************)
EXTENDS BlockMove, TLAPS

-----------------------------------------------------------------------------
(* Remainders.                                                             *)

LEMMA Remainder ==
  ASSUME NEW n \in Nat \ {0}, NEW t \in Int
  PROVE  /\ (t % n) \in 0..(n - 1)
         /\ (t \div n) \in Int
         /\ t = n * (t \div n) + (t % n)
  OBVIOUS

LEMMA RemainderIs ==
  ASSUME NEW n \in Nat \ {0}, NEW q \in Int, NEW r \in 0..(n - 1)
  PROVE  ((n * q + r) % n) = r
  OBVIOUS

\* A step from a remainder is a step from the number.
LEMMA RemainderPlus ==
  ASSUME NEW n \in Nat \ {0}, NEW t \in Int, NEW d \in Int
  PROVE  (((t % n) + d) % n) = ((t + d) % n)
<1> DEFINE q == t \div n
           p == ((t % n) + d) \div n
           r == ((t % n) + d) % n
<1>1. t = n * q + (t % n) /\ q \in Int /\ (t % n) \in Int
  BY Remainder
<1>2. (t % n) + d \in Int
  BY <1>1
<1>3. (t % n) + d = n * p + r /\ p \in Int /\ r \in 0..(n - 1)
  BY <1>2, Remainder
<1> HIDE DEF q, p, r
<1>4. t + d = n * (q + p) + r
  BY <1>1, <1>3
<1>5. ((n * (q + p) + r) % n) = r
  <2>1. q + p \in Int
    BY <1>1, <1>3
  <2> QED
    BY <1>3, <2>1, RemainderIs
<1> QED
  BY <1>4, <1>5 DEF r

\* Numbers less than n apart have different remainders.
LEMMA RemaindersDiffer ==
  ASSUME NEW n \in Nat \ {0}, NEW t \in Int, NEW u \in Int,
         t < u, u < t + n
  PROVE  (t % n) # (u % n)
<1> DEFINE q == t \div n
           p == u \div n
<1>1. t = n * q + (t % n) /\ q \in Int
  BY Remainder
<1>2. u = n * p + (u % n) /\ p \in Int
  BY Remainder
<1> HIDE DEF q, p
<1>3. SUFFICES ASSUME (t % n) = (u % n) PROVE FALSE
  OBVIOUS
<1>4. (t % n) \in Int
  BY Remainder
<1>5. u - t = n * (p - q)
  BY <1>1, <1>2, <1>3, <1>4
<1>6. p - q >= 1 \/ p - q <= 0
  BY <1>1, <1>2
<1> QED
  BY <1>1, <1>2, <1>5, <1>6

-----------------------------------------------------------------------------
(* The invariant.                                                          *)

TypeOK ==
    /\ x8 \in BOOLEAN
    /\ move \in [direction : {1, -1}, source : Banks, destination : Banks]
    /\ x \in 0..(Reach - 1)
    /\ y \in 0..(Reach - 1)
    /\ a \in 0..(Bank - 1)
    /\ mem \in [Address -> Address]
    /\ running \in BOOLEAN
    /\ finished \in BOOLEAN
    /\ again \in BOOLEAN
    /\ moved \in Nat
    /\ whole \in Nat
    /\ remaining \in Nat
    /\ start.x \in 0..(Reach - 1)
    /\ start.y \in 0..(Reach - 1)
    /\ start.a \in 0..(Bank - 1)

\* How many of the move's bytes are behind the registers.
Position ==
    IF running THEN start.a - before.a + moved
    ELSE IF finished THEN Count
    ELSE start.a - a

\* The index registers are k bytes past where they began.
Along(k, i, j) ==
    /\ i = (start.x + move.direction * k) % Reach
    /\ j = (start.y + move.direction * k) % Reach

\* What the registers say of Position, and in an execution what step() kept of it.
Told ==
    /\ Along(Position, x, y)
    /\ running =>
          /\ ~finished
          /\ db = move.destination
          /\ before.a \in 0..start.a
          /\ before.x \in 0..(Reach - 1)
          /\ before.y \in 0..(Reach - 1)
          /\ Along(start.a - before.a, before.x, before.y)
          /\ remaining = before.a + 1
          /\ moved <= whole
          /\ whole <= remaining
          /\ a = (before.a - moved) % Bank
    /\ ~running /\ finished => a = Bank - 1 /\ db = move.destination
    /\ ~running /\ ~finished => a <= start.a

\* The first h bytes of the move are in their places, and nothing else has changed.
Holds(m, h) ==
    /\ \A j \in 0..(h - 1) : m[To(j)] = From(j)
    /\ \A w \in Address : (\A j \in 0..(h - 1) : To(j) # w) => m[w] = w

\* The memory holds the move up to Position or, after an abort, further.
Written ==
    Suits => \E h \in Position..Count : Holds(mem, h) /\ (again \/ h = Position)

IInv == TypeOK /\ Told /\ Written

-----------------------------------------------------------------------------
(* Lemmas.                                                                 *)

LEMMA Sizes ==
  ASSUME TypeOK
  PROVE  /\ Bank \in Nat \ {0} /\ Reach \in Nat \ {0} /\ Reach <= Bank
         /\ move.direction \in {1, -1}
         /\ move.source \in Banks /\ move.destination \in Banks
         /\ Count \in 1..Bank /\ start.a \in Nat /\ start.x \in Int /\ start.y \in Int
  BY BankAssumption, PageAssumption DEF TypeOK, Reach, Count

\* Where the registers go from a place they have got to.
LEMMA AlongNext ==
  ASSUME TypeOK, NEW k \in Nat, NEW i, NEW j, Along(k, i, j)
  PROVE  Along(k + 1, (i + move.direction) % Reach, (j + move.direction) % Reach)
<1> DEFINE d == move.direction
<1>1. Reach \in Nat \ {0} /\ d \in Int /\ start.x \in Int /\ start.y \in Int
  BY Sizes
<1>2. d * k \in Int /\ d * (k + 1) = d * k + d
  BY Sizes
<1> HIDE DEF d
<1>3. ASSUME NEW u \in Int
      PROVE  ((((u + d * k) % Reach) + d) % Reach) = ((u + d * (k + 1)) % Reach)
  <2>1. u + d * k \in Int
    BY <1>2
  <2>2. ((((u + d * k) % Reach) + d) % Reach) = ((u + d * k + d) % Reach)
    BY <1>1, <2>1, RemainderPlus
  <2> QED
    BY <1>1, <1>2, <2>2
<1> QED
  BY <1>1, <1>3 DEF Along, d

\* The registers point at the byte that is next, and at where it goes.
LEMMA AlongPoints ==
  ASSUME TypeOK, NEW k \in Nat, Along(k, x, y)
  PROVE  /\ <<move.source, x>> = From(k)
         /\ <<move.destination, y>> = To(k)
         /\ From(k) \in Address /\ To(k) \in Address
<1>1. x \in 0..(Bank - 1) /\ y \in 0..(Bank - 1)
  BY Sizes DEF TypeOK
<1> QED
  BY <1>1, Sizes DEF Along, From, To, Address

\* No two bytes of a move that fits go to one place.
LEMMA ToDiffers ==
  ASSUME TypeOK, Count <= Reach, NEW k \in Bytes, NEW l \in Bytes, k # l
  PROVE  To(k) # To(l)
<1> DEFINE place(m) == start.y + move.direction * m
<1>1. Reach \in Nat \ {0} /\ place(k) \in Int /\ place(l) \in Int
  BY Sizes DEF Bytes
<1>2. place(k) # place(l) /\ place(k) < place(l) + Reach /\ place(l) < place(k) + Reach
  BY Sizes DEF Bytes
<1>3. place(k) < place(l) \/ place(l) < place(k)
  BY <1>1, <1>2
<1> HIDE DEF place
<1>4. (place(k) % Reach) # (place(l) % Reach)
  BY <1>1, <1>2, <1>3, RemaindersDiffer
<1> QED
  BY <1>4 DEF To, place

\* A counter counted down, from the bytes left less one.
LEMMA CountedDown ==
  ASSUME Bank \in Nat \ {0}, NEW from \in 0..(Bank - 1), NEW k \in 0..from
  PROVE  /\ ((from - k) % Bank) = from - k
         /\ (((from - k) - 1) % Bank) = IF k = from THEN Bank - 1 ELSE from - k - 1
<1>1. ASSUME NEW t \in 0..(Bank - 1) PROVE (t % Bank) = t
  BY <1>1
<1>2. ((0 - 1) % Bank) = Bank - 1
  OBVIOUS
<1>3. from - k \in 0..(Bank - 1)
  OBVIOUS
<1>4. CASE k = from
  <2>1. (from - k) - 1 = 0 - 1
    BY <1>4
  <2> QED
    BY <1>1, <1>2, <1>3, <1>4, <2>1
<1>5. CASE k # from
  <2>1. (from - k) - 1 \in 0..(Bank - 1) /\ (from - k) - 1 = from - k - 1
    BY <1>5
  <2> QED
    BY <1>1, <1>3, <1>5, <2>1
<1> QED
  BY <1>4, <1>5

\* The bytes an execution moves: the counter and one more.
LEMMA RemainingIs ==
  ASSUME TypeOK
  PROVE  Remaining = a + 1
<1>1. Bank \in Nat \ {0} /\ a \in 0..(Bank - 1)
  BY Sizes DEF TypeOK
<1>2. CASE a = Bank - 1
  <2>1. ((a + 1) % Bank) = 0
    BY <1>1, <1>2
  <2> QED
    BY <1>1, <1>2, <2>1 DEF Remaining
<1>3. CASE a # Bank - 1
  <2>1. ((a + 1) % Bank) = a + 1 /\ a + 1 # 0
    BY <1>1, <1>3
  <2> QED
    BY <2>1 DEF Remaining
<1> QED
  BY <1>2, <1>3

\* The copy of byte k, into a memory that holds the move up to it or, where
\* nothing overlaps, further.
LEMMA HoldsMore ==
  ASSUME TypeOK, Suits, NEW k \in Bytes, NEW h \in k..Count,
         Holds(mem, h), again \/ h = k
  PROVE  Holds([mem EXCEPT ![To(k)] = mem[From(k)]], IF h = k THEN k + 1 ELSE h)
<1> DEFINE more == IF h = k THEN k + 1 ELSE h
           copy == [mem EXCEPT ![To(k)] = mem[From(k)]]
<1>1. Count \in 1..Bank /\ Bank \in Nat
  BY Sizes
<1>2. \A j \in Bytes : From(j) \in Address /\ To(j) \in Address
  <2>1. ASSUME NEW t \in Int PROVE (t % Reach) \in 0..(Bank - 1)
    <3>1. (t % Reach) \in 0..(Reach - 1)
      BY Sizes, Remainder
    <3> QED
      BY <3>1, Sizes
  <2> QED
    BY <2>1, Sizes DEF From, To, Address, Bytes
<1>3. k \in Nat /\ h \in Nat /\ k < Count /\ h <= Count /\ k <= h
  BY <1>1 DEF Bytes
<1>4. mem[From(k)] = From(k)
  <2>1. CASE \E j \in 0..(h - 1) : To(j) = From(k)
    <3>1. PICK j \in 0..(h - 1) : To(j) = From(k)
      BY <2>1
    <3>2. j \in Bytes /\ j < h
      BY <1>1, <1>3 DEF Bytes
    <3>3. j = k
      <4>1. (j < k \/ (again /\ j # k)) => To(j) # From(k)
        BY <3>2 DEF Suits
      <4> QED
        BY <1>3, <3>1, <3>2, <4>1
    <3> QED
      BY <3>1, <3>3 DEF Holds
  <2>2. CASE \A j \in 0..(h - 1) : To(j) # From(k)
    BY <1>2, <2>2 DEF Holds
  <2> QED
    BY <2>1, <2>2
<1>5. /\ copy[To(k)] = From(k)
      /\ \A w \in Address : w # To(k) => copy[w] = mem[w]
  BY <1>2, <1>4 DEF TypeOK
<1>6. more \in Nat /\ k < more /\ h <= more /\ more <= Count /\ (\A j \in 0..(more - 1) : j = k \/ j \in 0..(h - 1))
  BY <1>1, <1>3
<1> HIDE DEF copy, more
<1>7. \A j \in 0..(more - 1) : copy[To(j)] = From(j)
  <2> SUFFICES ASSUME NEW j \in 0..(more - 1), j # k PROVE copy[To(j)] = From(j)
    BY <1>5
  <2>1. j \in 0..(h - 1) /\ j \in Bytes
    BY <1>1, <1>6 DEF Bytes
  <2>2. To(j) # To(k)
    BY <2>1, ToDiffers DEF Suits
  <2> QED
    BY <1>2, <1>5, <2>1, <2>2 DEF Holds
<1>8. ASSUME NEW w \in Address, \A j \in 0..(more - 1) : To(j) # w
      PROVE  copy[w] = w
  <2>1. k \in 0..(more - 1) /\ \A j \in 0..(h - 1) : j \in 0..(more - 1)
    BY <1>3, <1>6
  <2>2. To(k) # w /\ \A j \in 0..(h - 1) : To(j) # w
    BY <1>8, <2>1
  <2> QED
    BY <1>5, <2>2 DEF Holds
<1>9. Holds(copy, more)
  BY <1>7, <1>8 DEF Holds
<1> QED
  BY <1>9 DEF copy, more

-----------------------------------------------------------------------------
(* The steps.                                                              *)

LEMMA Begins == Init => IInv
<1> SUFFICES ASSUME Init PROVE IInv
  OBVIOUS
<1>1. TypeOK
  BY DEF Init, TypeOK, Registers, Reach, Address
<1>2. start.x = x /\ start.y = y /\ start.a = a /\ ~running /\ ~finished
  BY DEF Init, Registers
<1>3. Position = 0
  BY <1>1, <1>2 DEF Position, TypeOK
<1>4. Along(0, x, y)
  BY <1>1, <1>2, Sizes DEF Along, TypeOK
<1>5. Told
  BY <1>1, <1>2, <1>3, <1>4 DEF Told, TypeOK
<1>6. Holds(mem, 0)
  BY DEF Init, Holds
<1>7. Written
  BY <1>1, <1>3, <1>6, Sizes DEF Written
<1> QED
  BY <1>1, <1>5, <1>7 DEF IInv

\* What a move is for is fixed when it begins.
LEMMA Fixed ==
  ASSUME UNCHANGED program
  PROVE  /\ Reach' = Reach /\ Count' = Count
         /\ \A k : To(k)' = To(k) /\ From(k)' = From(k)
         /\ \A k, i, j : Along(k, i, j)' <=> Along(k, i, j)
         /\ \A m, h : Holds(m, h)' <=> Holds(m, h)
         /\ again' = again => (Suits' <=> Suits)
         /\ Suits' /\ again' => Suits
<1>1. x8' = x8 /\ move' = move /\ start' = start
  BY DEF program
<1>2. Reach' = Reach /\ Count' = Count
  BY <1>1 DEF Reach, Count
<1>3. \A k : To(k)' = To(k) /\ From(k)' = From(k)
  BY <1>1, <1>2 DEF To, From
<1>4. \A k, i, j : Along(k, i, j)' <=> Along(k, i, j)
  BY <1>1, <1>2 DEF Along
<1>5. \A m, h : Holds(m, h)' <=> Holds(m, h)
  BY <1>3 DEF Holds
<1>6. again' = again => (Suits' <=> Suits)
  BY <1>2, <1>3 DEF Suits, Bytes
<1>7. Suits' /\ again' => Suits
  BY <1>2, <1>3 DEF Suits, Bytes
<1> QED
  BY <1>2, <1>3, <1>4, <1>5, <1>6, <1>7

\* A step that moves no byte and leaves Position alone.
LEMMA WrittenKept ==
  ASSUME Written, UNCHANGED program, mem' = mem, again' = again, Position' = Position
  PROVE  Written'
  BY Fixed DEF Written

LEMMA BeginStep ==
  ASSUME IInv, NEW b \in Budgets, Begin(b)
  PROVE  IInv'
<1>0. UNCHANGED program
  BY DEF Begin
<1>1. ~running /\ ~finished /\ running' /\ finished' = finished
      /\ before'.a = a /\ before'.x = x /\ before'.y = y /\ db' = move.destination
      /\ moved' = 0 /\ remaining' = a + 1 /\ UNCHANGED <<x, y, a, mem, again>>
  BY RemainingIs DEF Begin, Registers, IInv
<1>2. a <= start.a /\ Position = start.a - a /\ Along(Position, x, y)
  BY <1>1 DEF IInv, Told, Position
<1>3. a \in 0..(Bank - 1) /\ start.a \in 0..(Bank - 1) /\ Bank \in Nat \ {0}
  BY Sizes DEF IInv, TypeOK
<1>4. whole' \in Nat /\ whole' <= remaining'
  <2>1. CASE b = Unlimited
    BY <1>1, <1>3, <2>1 DEF Begin
  <2>2. CASE b # Unlimited
    <3>1. b \in Nat
      BY <2>2, BudgetsAssumption
    <3>2. (b \div CYCLES_PER_MOVE) \in Nat
      BY <3>1 DEF CYCLES_PER_MOVE
    <3>3. whole' = Smaller(remaining', b \div CYCLES_PER_MOVE)
      BY <2>2 DEF Begin
    <3> QED
      BY <1>1, <1>3, <3>2, <3>3 DEF Smaller
  <2> QED
    BY <2>1, <2>2
<1>5. TypeOK'
  BY <1>0, <1>1, <1>3, <1>4, Fixed DEF IInv, TypeOK, program
<1>6. Position' = Position
  BY <1>0, <1>1, <1>2, <1>3 DEF Position, program
<1>7. Told'
  <2>1. start' = start /\ move' = move
    BY <1>0 DEF program
  <2>2. Along(Position, x, y)'
    BY <1>0, <1>1, <1>2, <1>6, Fixed
  <2>3. Along(start.a - before.a, before.x, before.y)'
    BY <1>0, <1>1, <1>2, <2>1, Fixed
  <2>4. a' = ((before'.a - moved') % Bank)
    BY <1>1, <1>3
  <2> QED
    BY <1>0, <1>1, <1>2, <1>3, <1>4, <1>5, <2>1, <2>2, <2>3, <2>4, Fixed DEF Told, TypeOK, IInv
<1>8. Written'
  BY <1>0, <1>1, <1>6, WrittenKept DEF IInv
<1> QED
  BY <1>5, <1>7, <1>8 DEF IInv

LEMMA MoveByteStep ==
  ASSUME IInv, MoveByte
  PROVE  IInv'
<1> DEFINE k == start.a - before.a + moved
<1>0. UNCHANGED program
  BY DEF MoveByte
<1>1. /\ running /\ running' /\ ~finished /\ finished' = finished
      /\ moved < whole /\ moved' = moved + 1 /\ UNCHANGED <<db, before, whole, remaining, again>>
      /\ x' = (x + move.direction) % Reach
      /\ y' = (y + move.direction) % Reach
      /\ a' = (a - 1) % Bank
      /\ mem' = [mem EXCEPT ![<<move.destination, y>>] = mem[<<move.source, x>>]]
  BY DEF MoveByte, IInv, Told
<1>2. TypeOK /\ Bank \in Nat \ {0} /\ Reach \in Nat \ {0} /\ start.a \in 0..(Bank - 1)
      /\ moved \in Nat /\ whole \in Nat /\ move.direction \in Int /\ x \in Int /\ y \in Int
      /\ Count = start.a + 1
  BY Sizes DEF IInv, TypeOK, Count
<1>3. /\ Along(k, x, y) /\ Position = k
      /\ before.a \in 0..start.a /\ remaining = before.a + 1
      /\ whole <= remaining
      /\ a = (before.a - moved) % Bank
  BY <1>1 DEF IInv, Told, Position
<1>4. k \in Nat /\ k < Count /\ Position' = k + 1
  BY <1>0, <1>1, <1>2, <1>3 DEF Position, program
<1> HIDE DEF k
<1>5. /\ <<move.source, x>> = From(k) /\ <<move.destination, y>> = To(k)
      /\ From(k) \in Address /\ To(k) \in Address
  BY <1>2, <1>3, <1>4, AlongPoints
<1>6. x' \in 0..(Reach - 1) /\ y' \in 0..(Reach - 1)
  BY <1>1, <1>2, Remainder
<1>7. a' \in 0..(Bank - 1) /\ a' = (before'.a - moved') % Bank
  <2>1. before.a \in 0..(Bank - 1) /\ moved \in 0..before.a
    BY <1>1, <1>2, <1>3
  <2>2. /\ ((before.a - moved) % Bank) = before.a - moved
        /\ (((before.a - moved) - 1) % Bank) = IF moved = before.a THEN Bank - 1
                                             ELSE before.a - moved - 1
    BY <1>2, <2>1, CountedDown
  <2>3. a' = ((before.a - moved) - 1) % Bank /\ (before.a - moved) - 1 = before'.a - moved'
    BY <1>1, <1>2, <1>3, <2>1, <2>2
  <2> QED
    BY <1>2, <2>1, <2>2, <2>3
<1>8. TypeOK'
  <2>1. mem' \in [Address -> Address]
    BY <1>1, <1>2, <1>5 DEF TypeOK
  <2> QED
    BY <1>0, <1>1, <1>2, <1>6, <1>7, <2>1, Fixed DEF TypeOK, program
<1>9. Told'
  <2>1. Along(k + 1, x', y')
    BY <1>1, <1>2, <1>3, <1>4, AlongNext
  <2>2. Along(Position, x, y)'
    BY <1>0, <1>4, <2>1, Fixed
  <2>3. Along(start.a - before.a, before.x, before.y)'
    BY <1>0, <1>1, Fixed DEF IInv, Told, program
  <2>4. /\ before'.a \in 0..start'.a /\ remaining' = before'.a + 1
        /\ moved' <= whole' /\ whole' <= remaining' /\ db' = move'.destination
        /\ before'.x \in 0..(Reach' - 1) /\ before'.y \in 0..(Reach' - 1)
    BY <1>0, <1>1, <1>2, <1>3, Fixed DEF IInv, Told, program
  <2> QED
    BY <1>1, <1>7, <2>2, <2>3, <2>4 DEF Told
<1>10. Written'
  <2> SUFFICES ASSUME Suits' PROVE (\E h \in Position..Count : Holds(mem, h) /\ (again \/ h = Position))'
    BY DEF Written
  <2>1. Suits
    BY <1>0, <1>1, Fixed
  <2>2. PICK h \in k..Count : Holds(mem, h) /\ (again \/ h = k)
    BY <1>3, <2>1 DEF IInv, Written
  <2>3. Holds(mem', IF h = k THEN k + 1 ELSE h)
    <3>1. mem' = [mem EXCEPT ![To(k)] = mem[From(k)]]
      BY <1>1, <1>5
    <3>2. k \in Bytes
      BY <1>2, <1>4 DEF Bytes
    <3> QED
      BY <1>2, <2>1, <2>2, <3>1, <3>2, HoldsMore
  <2>4. (IF h = k THEN k + 1 ELSE h) \in (k + 1)..Count
    BY <1>2, <1>4
  <2>5. again \/ (IF h = k THEN k + 1 ELSE h) = k + 1
    BY <2>2
  <2> QED
    BY <1>0, <1>1, <1>4, <2>3, <2>4, <2>5, Fixed
<1> QED
  BY <1>8, <1>9, <1>10 DEF IInv

LEMMA EndStep ==
  ASSUME IInv, End
  PROVE  IInv'
<1>0. UNCHANGED program
  BY DEF End
<1>1. /\ running /\ running' = FALSE /\ moved = whole /\ finished' = Done
      /\ UNCHANGED <<x, y, a, db, mem, moved, whole, remaining, before, again>>
  BY DEF End
<1>2. /\ TypeOK /\ Bank \in Nat \ {0} /\ start.a \in 0..(Bank - 1) /\ moved \in Nat
      /\ Count = start.a + 1
  BY Sizes DEF IInv, TypeOK, Count
<1>3. /\ Along(Position, x, y) /\ Position = start.a - before.a + moved
      /\ before.a \in 0..start.a /\ remaining = before.a + 1
      /\ moved <= remaining
      /\ a = (before.a - moved) % Bank
      /\ db = move.destination
  BY <1>1 DEF IInv, Told, Position
<1>4. TypeOK'
  <2>1. finished' \in BOOLEAN
    BY <1>1 DEF Done
  <2> QED
    BY <1>0, <1>1, <1>2, <2>1, Fixed DEF TypeOK, program
<1>5. /\ Position' = Position
      /\ finished' => a' = Bank - 1
      /\ ~finished' => a' <= start.a
  <2>1. CASE Done
    <3>1. moved = before.a + 1
      BY <1>1, <1>2, <1>3, <2>1 DEF Done
    <3>2. before.a - moved = 0 - 1 /\ ((0 - 1) % Bank) = Bank - 1
      BY <1>2, <1>3, <3>1
    <3> QED
      BY <1>0, <1>1, <1>2, <1>3, <2>1, <3>1, <3>2, Fixed DEF Position
  <2>2. CASE ~Done
    <3>1. moved \in 0..before.a /\ before.a \in 0..(Bank - 1)
      BY <1>1, <1>2, <1>3, <2>2 DEF Done
    <3>2. a = before.a - moved
      BY <1>2, <1>3, <3>1, CountedDown
    <3> QED
      BY <1>0, <1>1, <1>2, <1>3, <2>2, <3>1, <3>2 DEF Position, program
  <2> QED
    BY <2>1, <2>2
<1>6. Told'
  <2>1. Along(Position, x, y)'
    BY <1>0, <1>1, <1>3, <1>5, Fixed
  <2> QED
    BY <1>0, <1>1, <1>3, <1>5, <2>1 DEF Told, program
<1>7. Written'
  BY <1>0, <1>1, <1>5, WrittenKept DEF IInv
<1> QED
  BY <1>4, <1>6, <1>7 DEF IInv

LEMMA EndAbortedStep ==
  ASSUME IInv, EndAborted
  PROVE  IInv'
<1>0. UNCHANGED program
  BY DEF EndAborted
<1>1. /\ running /\ running' = FALSE /\ ~finished /\ finished' = finished
      /\ x' = before.x /\ y' = before.y /\ a' = before.a
      /\ again' = (again \/ moved > 0)
      /\ UNCHANGED <<mem, moved, whole, remaining, before>>
  BY DEF EndAborted, roll_back, IInv, Told
<1>2. /\ TypeOK /\ Bank \in Nat \ {0} /\ start.a \in 0..(Bank - 1) /\ moved \in Nat
      /\ Count = start.a + 1
  BY Sizes DEF IInv, TypeOK, Count
<1>3. /\ Position = start.a - before.a + moved
      /\ before.a \in 0..start.a
      /\ before.x \in 0..(Reach - 1) /\ before.y \in 0..(Reach - 1)
      /\ Along(start.a - before.a, before.x, before.y)
  BY <1>1 DEF IInv, Told, Position
<1>4. TypeOK'
  <2>1. again' \in BOOLEAN
    BY <1>1
  <2>2. a' \in 0..(Bank - 1)
    BY <1>1, <1>2, <1>3
  <2> QED
    BY <1>0, <1>1, <1>2, <1>3, <2>1, <2>2, Fixed DEF TypeOK, program
<1>5. Position' = start.a - before.a /\ Position' \in Nat /\ Position' <= Position
  BY <1>0, <1>1, <1>2, <1>3 DEF Position, program
<1>6. Told'
  <2>1. Along(Position, x, y)'
    BY <1>0, <1>1, <1>3, <1>5, Fixed
  <2> QED
    BY <1>0, <1>1, <1>2, <1>3, <2>1 DEF Told, program
<1>7. Written'
  <2> SUFFICES ASSUME Suits' PROVE (\E h \in Position..Count : Holds(mem, h) /\ (again \/ h = Position))'
    BY DEF Written
  <2>1. Suits
    <3>1. CASE again'
      BY <1>0, <3>1, Fixed
    <3>2. CASE ~again'
      <4>1. again' = again
        BY <1>1, <1>2, <3>2, Zenon DEF TypeOK
      <4> QED
        BY <1>0, <4>1, Fixed
    <3> QED
      BY <3>1, <3>2
  <2>2. PICK h \in Position..Count : Holds(mem, h) /\ (again \/ h = Position)
    BY <2>1 DEF IInv, Written
  <2>3. h \in Position'..Count
    BY <1>2, <1>3, <1>5
  <2>4. again' \/ h = Position'
    <3>1. CASE moved > 0
      BY <1>1, <3>1
    <3>2. CASE ~(moved > 0)
      <4>1. Position' = Position
        BY <1>2, <1>3, <1>5, <3>2
      <4>2. again => again'
        BY <1>1
      <4> QED
        BY <2>2, <4>1, <4>2
    <3> QED
      BY <3>1, <3>2
  <2>5. Holds(mem, h)'
    BY <1>0, <1>1, <2>2, Fixed
  <2>6. Count' = Count
    BY <1>0, Fixed
  <2> QED
    BY <2>3, <2>4, <2>5, <2>6
<1> QED
  BY <1>4, <1>6, <1>7 DEF IInv

-----------------------------------------------------------------------------
(* The theorems.                                                           *)

LEMMA Invariant == Spec => []IInv
<1>1. Init => IInv
  BY Begins
<1>2. IInv /\ [Next]_vars => IInv'
  <2> SUFFICES ASSUME IInv, [Next]_vars PROVE IInv'
    OBVIOUS
  <2>1. CASE UNCHANGED vars
    <3>1. /\ UNCHANGED program
          /\ UNCHANGED <<x, y, a, db, mem, running, moved, whole, remaining, before, finished, again>>
      BY <2>1 DEF vars, regs, loop
    <3>2. TypeOK'
      BY <3>1, Fixed DEF IInv, TypeOK, program
    <3>3. Position' = Position
      BY <3>1, Fixed DEF Position, program
    <3>4. Along(Position, x, y)' /\ (running' => Along(start.a - before.a, before.x, before.y)')
      BY <3>1, <3>3, Fixed DEF IInv, Told, program
    <3>5. Told'
      BY <3>1, <3>4, Fixed DEF IInv, Told, program
    <3>6. Written'
      BY <3>1, <3>3, WrittenKept DEF IInv
    <3> QED
      BY <3>2, <3>5, <3>6 DEF IInv
  <2>2. CASE \E b \in Budgets : Begin(b)
    BY <2>2, BeginStep
  <2>3. CASE MoveByte
    BY <2>3, MoveByteStep
  <2>4. CASE End
    BY <2>4, EndStep
  <2>5. CASE EndAborted
    BY <2>5, EndAbortedStep
  <2> QED
    BY <2>1, <2>2, <2>3, <2>4, <2>5 DEF Next
<1> QED
  BY <1>1, <1>2, PTL DEF Spec

\* In and between its slices, and after an abort, the registers of a block move
\* agree on which byte is next.  (_block_move, partial_move, roll_back)
THEOREM RegistersAlwaysTell == Spec => []RegistersTell
<1>1. IInv => RegistersTell
  <2> SUFFICES ASSUME IInv PROVE RegistersTell
    OBVIOUS
  <2> DEFINE over == finished \/ (running /\ Done /\ moved = whole)
             k == IF over THEN Count ELSE start.a - a
  <2>1. /\ TypeOK /\ Bank \in Nat \ {0} /\ start.a \in 0..(Bank - 1) /\ a \in 0..(Bank - 1)
        /\ moved \in Nat /\ whole \in Nat /\ Count = start.a + 1
    BY Sizes DEF IInv, TypeOK, Count
  <2>2. k = Position /\ k \in 0..Count /\ (over => a = Bank - 1)
    <3>1. CASE running
      <4>1. /\ before.a \in 0..start.a /\ remaining = before.a + 1 /\ ~finished
            /\ moved <= whole /\ whole <= remaining /\ a = (before.a - moved) % Bank
            /\ Position = start.a - before.a + moved
        BY <3>1 DEF IInv, Told, Position
      <4>2. CASE Done /\ moved = whole
        <5>1. moved = before.a + 1
          BY <2>1, <4>1, <4>2 DEF Done
        <5>2. before.a - moved = 0 - 1 /\ ((0 - 1) % Bank) = Bank - 1
          BY <2>1, <4>1, <5>1
        <5> QED
          BY <2>1, <3>1, <4>1, <4>2, <5>1, <5>2
      <4>3. CASE ~(Done /\ moved = whole)
        <5>1. moved \in 0..before.a /\ before.a \in 0..(Bank - 1)
          BY <2>1, <4>1, <4>3 DEF Done
        <5>2. a = before.a - moved
          BY <2>1, <4>1, <5>1, CountedDown
        <5> QED
          BY <2>1, <4>1, <4>3, <5>1, <5>2
      <4> QED
        BY <4>2, <4>3
    <3>2. CASE ~running
      BY <2>1, <3>2 DEF IInv, Told, Position
    <3> QED
      BY <3>1, <3>2
  <2>3. Along(k, x, y)
    BY <2>2 DEF IInv, Told
  <2> HIDE DEF k, over
  <2>4. <<x, y>> = <<From(k)[2], To(k)[2]>>
    BY <2>3 DEF Along, From, To
  <2> QED
    BY <2>2, <2>4 DEF RegistersTell, k, over
<1> QED
  BY <1>1, Invariant, PTL

\* A finished move has each byte in its place and has touched nothing else,
\* however it was sliced and wherever it was aborted.  (_block_move,
\* partial_move, roll_back)
THEOREM MovesAreExact == Spec => []MoveIsExact
<1>1. IInv => MoveIsExact
  <2> SUFFICES ASSUME IInv, finished, Suits
               PROVE  /\ db = move.destination
                      /\ \A w \in Address : mem[w] =
                             IF \E k \in Bytes : To(k) = w
                             THEN From(CHOOSE k \in Bytes : To(k) = w) ELSE w
    BY DEF MoveIsExact
  <2>1. ~running /\ db = move.destination /\ Position = Count
    BY DEF IInv, Told, Position, TypeOK
  <2>2. Holds(mem, Count)
    <3>1. PICK h \in Count..Count : Holds(mem, h)
      BY <2>1 DEF IInv, Written
    <3>2. h = Count
      BY <3>1, Sizes DEF IInv
    <3> QED
      BY <3>1, <3>2
  <2>3. ASSUME NEW w \in Address, \E k \in Bytes : To(k) = w
        PROVE  mem[w] = From(CHOOSE k \in Bytes : To(k) = w)
    <3> DEFINE byte == CHOOSE k \in Bytes : To(k) = w
    <3>1. byte \in Bytes /\ To(byte) = w
      BY <2>3
    <3> HIDE DEF byte
    <3>2. mem[w] = From(byte)
      BY <2>2, <3>1 DEF Holds, Bytes
    <3> QED
      BY <3>2 DEF byte
  <2>4. ASSUME NEW w \in Address, ~\E k \in Bytes : To(k) = w
        PROVE  mem[w] = w
    BY <2>2, <2>4 DEF Holds, Bytes
  <2> QED
    BY <2>1, <2>3, <2>4
<1> QED
  BY <1>1, Invariant, PTL
=============================================================================
