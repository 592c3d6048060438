-------------------------- MODULE AddressingProofs --------------------------
(***************************************************************************)
(* What is proved of the 8-bit parts' instructions, for bytes of any number*)
(* of values from three, packages with any address lines above a whole low *)
(* byte, and programs anywhere.                                            *)
(*                                                                         *)
(* The invariant is a table.  For each instruction and each piece of work  *)
(* it may have ahead, a row says how many cycles are behind it, how many   *)
(* of its bytes, what has been found of those, and what that makes of the  *)
(* byte and the address in the making.  At an address it is a sum: cycles  *)
(* behind and ahead are those printed.  What a call or an interrupt pushed *)
(* is said relative to the pointer; that a push spares it takes a package  *)
(* whose lines tell three neighbours on the stack apart.                   *)
(***************************************************************************)
EXTENDS Addressing, SequenceTheorems, TLAPS

-----------------------------------------------------------------------------
(* Remainders.                                                             *)

\* What a division leaves.
LEMMA Remainder ==
  ASSUME NEW n \in Nat \ {0}, NEW t \in Int
  PROVE  /\ (t % n) \in 0..(n - 1)
         /\ (t \div n) \in Int
         /\ t = n * (t \div n) + (t % n)
  OBVIOUS

\* A number written as quotient and remainder is divided so.
LEMMA RemainderIs ==
  ASSUME NEW n \in Nat \ {0}, NEW q \in Int, NEW r \in 0..(n - 1)
  PROVE  /\ ((n * q + r) % n) = r
         /\ ((n * q + r) \div n) = q
  OBVIOUS

\* A step from a remainder is a step from the number.
LEMMA RemainderPlus ==
  ASSUME NEW n \in Nat \ {0}, NEW t \in Int, NEW d \in Int
  PROVE  (((t % n) + d) % n) = ((t + d) % n)
<1> DEFINE q == t \div n
           p == ((t % n) + d) \div n
           r == ((t % n) + d) % n
<1>1. t = n * q + (t % n) /\ q \in Int /\ (t % n) \in Int
  BY Remainder
<1>2. (t % n) + d \in Int
  BY <1>1
<1>3. (t % n) + d = n * p + r /\ p \in Int /\ r \in 0..(n - 1)
  BY <1>2, Remainder
<1> HIDE DEF q, p, r
<1>4. t + d = n * (q + p) + r
  BY <1>1, <1>3
<1>5. ((n * (q + p) + r) % n) = r
  <2>1. q + p \in Int
    BY <1>1, <1>3
  <2> QED
    BY <1>3, <2>1, RemainderIs
<1> QED
  BY <1>4, <1>5 DEF r

-----------------------------------------------------------------------------
(* Addresses.                                                              *)

\* The addresses a program has.
Address == 0..(B * B - 1)

\* A byte has values, and so has a word.
LEMMA Sizes ==
  /\ B \in Nat \ {0} /\ B >= 3
  /\ B * B \in Nat \ {0}
  /\ 0 \in Byte /\ 0 \in Address /\ Byte \subseteq Address
<1>1. B \in Nat \ {0} /\ B >= 3
  BY ByteAssumption
<1>2. B * B >= B /\ B * B \in Nat
  BY <1>1
<1> QED
  BY <1>1, <1>2 DEF Byte, Address

\* A word is its two bytes.
LEMMA WordOfBytes ==
  ASSUME NEW l \in Byte, NEW h \in Byte
  PROVE  /\ Word(l, h) \in Address
         /\ Low(Word(l, h)) = l
         /\ High(Word(l, h)) = h
<1>1. B \in Nat \ {0} /\ l \in 0..(B - 1) /\ h \in 0..(B - 1)
  BY Sizes DEF Byte
<1>2. Word(l, h) = B * h + l
  BY <1>1 DEF Word
<1>3. ((B * h + l) % B) = l /\ ((B * h + l) \div B) = h
  BY <1>1, RemainderIs
<1>4. B * h + l >= 0 /\ B * h + l <= B * B - 1
  <2>1. h + 1 <= B /\ h + 1 \in Nat
    BY <1>1
  <2>2. B * (h + 1) <= B * B
    BY <1>1, <2>1
  <2>3. B * (h + 1) = B * h + B /\ B * h \in Nat
    BY <1>1
  <2>4. B * B \in Nat
    BY Sizes
  <2> QED
    BY <1>1, <2>2, <2>3, <2>4
<1>5. B * h + l \in Int /\ B * B - 1 \in Int
  BY <1>1, Sizes
<1> QED
  BY <1>2, <1>3, <1>4, <1>5 DEF Address, Low, High

\* An address is the word of its bytes.
LEMMA BytesOfWord ==
  ASSUME NEW a \in Address
  PROVE  /\ Low(a) \in Byte /\ High(a) \in Byte
         /\ a = Word(Low(a), High(a))
<1>1. B \in Nat \ {0} /\ B * B \in Nat
  BY Sizes
<1>2. a \in Int /\ 0 <= a /\ a <= B * B - 1
  BY <1>1 DEF Address
<1>3. /\ (a % B) \in 0..(B - 1) /\ (a \div B) \in Int
      /\ a = B * (a \div B) + (a % B)
  BY <1>1, <1>2, Remainder
<1> DEFINE l == a % B
           h == a \div B
<1>4. l \in 0..(B - 1) /\ h \in Int /\ a = B * h + l
  BY <1>3
<1> HIDE DEF l, h
<1>5. h < B
  <2>1. SUFFICES ASSUME h >= B PROVE FALSE
    BY <1>1, <1>4
  <2>2. B * h >= B * B
    BY <1>1, <1>4, <2>1
  <2> QED
    BY <1>1, <1>2, <1>4, <2>2
<1>6. h >= 0
  <2>1. SUFFICES ASSUME h <= -1 PROVE FALSE
    BY <1>4
  <2>2. B * h <= B * (-1)
    BY <1>1, <1>4, <2>1
  <2>3. B * h <= 0 - B
    BY <1>1, <1>4, <2>2
  <2>4. B * h \in Int
    BY <1>1, <1>4
  <2> QED
    BY <1>1, <1>2, <1>4, <2>3, <2>4
<1>7. l \in Byte /\ h \in Byte
  BY <1>1, <1>4, <1>5, <1>6 DEF Byte
<1>8. a = l + B * h
  BY <1>1, <1>4
<1> QED
  BY <1>7, <1>8 DEF l, h, Low, High, Word

\* Addresses wrap.
LEMMA PlusAddress ==
  ASSUME NEW a \in Int, NEW n \in Int
  PROVE  Plus(a, n) \in Address
<1>1. a + n \in Int
  OBVIOUS
<1> QED
  BY <1>1, Sizes, Remainder DEF Plus, Address

\* Nothing added is nothing changed.
LEMMA PlusNothing ==
  ASSUME NEW a \in Address
  PROVE  Plus(a, 0) = a
<1>1. B * B \in Nat \ {0} /\ a \in 0..(B * B - 1) /\ a \in Int
  BY Sizes DEF Address
<1>2. ((B * B * 0 + a) % (B * B)) = a
  BY <1>1, RemainderIs
<1>3. B * B * 0 + a = a + 0
  BY <1>1
<1> QED
  BY <1>2, <1>3 DEF Plus

\* Two steps are one step, wraps included.
LEMMA PlusPlus ==
  ASSUME NEW a \in Int, NEW m \in Int, NEW n \in Int
  PROVE  Plus(Plus(a, m), n) = Plus(a, m + n)
<1>1. a + m \in Int /\ (a + m) + n = a + (m + n)
  OBVIOUS
<1>2. ((((a + m) % (B * B)) + n) % (B * B)) = (((a + m) + n) % (B * B))
  BY <1>1, Sizes, RemainderPlus
<1> QED
  BY <1>1, <1>2 DEF Plus

\* The stack pointer goes round page one.
LEMMA StackRing ==
  ASSUME NEW p \in Byte, NEW m \in Int, NEW n \in Int
  PROVE  /\ ((p + m) % B) \in Byte
         /\ ((((p + m) % B) + n) % B) = ((p + (m + n)) % B)
         /\ ((p + 0) % B) = p
<1>1. B \in Nat \ {0} /\ p \in 0..(B - 1) /\ p \in Int
  BY Sizes DEF Byte
<1>2. p + m \in Int /\ (p + m) + n = p + (m + n)
  BY <1>1
<1>3. ((p + m) % B) \in 0..(B - 1)
  BY <1>1, <1>2, Remainder
<1>4. ((((p + m) % B) + n) % B) = (((p + m) + n) % B)
  BY <1>1, <1>2, RemainderPlus
<1>5. ((B * 0 + p) % B) = p
  BY <1>1, RemainderIs
<1>6. B * 0 + p = p + 0
  BY <1>1
<1> QED
  BY <1>2, <1>3, <1>4, <1>5, <1>6 DEF Byte

\* Any part's address lines tell the stack's places apart.
LEMMA StackCells ==
  ASSUME reach \in Reaches, NEW p \in Byte, NEW q \in Byte, p # q
  PROVE  Cell(Stack(p)) # Cell(Stack(q))
<1>1. reach \in Nat \ {0} /\ (reach % B) = 0
  <2>1. reach \in 1..B * B /\ (reach % B) = 0
    BY ReachAssumption
  <2> QED
    BY <2>1, Sizes
<1>2. B \in Nat \ {0} /\ p \in Int /\ q \in Int
  BY Sizes DEF Byte
<1> DEFINE j == reach \div B
<1>3. reach = B * j /\ j \in Int
  BY <1>1, <1>2, Remainder
<1> HIDE DEF j
<1>4. ASSUME NEW t \in Byte
      PROVE  (Cell(Stack(t)) % B) = t
  <2> DEFINE w == Stack(t)
             c == w % reach
             k == w \div reach
  <2>1. w = t + B * 1 /\ t \in Int /\ t \in 0..(B - 1) /\ w \in Int
    BY <1>2 DEF Stack, Word, Byte
  <2> HIDE DEF w
  <2>2. w = reach * k + c /\ k \in Int /\ c \in Int
    <3>1. reach \in Nat \ {0} /\ w \in Int
      BY <1>1, <2>1
    <3>2. /\ (w % reach) \in 0..(reach - 1) /\ (w \div reach) \in Int
          /\ w = reach * (w \div reach) + (w % reach)
      BY <3>1, Remainder
    <3>3. \A i \in 0..(reach - 1) : i \in Int
      BY <3>1
    <3> QED
      BY <3>2, <3>3
  <2> HIDE DEF c, k
  <2>3. c = B * (1 - j * k) + t
    <3>1. B * (j * k) = reach * k /\ j * k \in Int
      BY <1>2, <1>3, <2>2
    <3>2. B * (1 - j * k) = B * 1 - B * (j * k)
      BY <1>2, <3>1
    <3>3. B * (j * k) \in Int /\ B * 1 \in Int
      BY <1>2, <3>1
    <3> QED
      BY <2>1, <2>2, <3>1, <3>2, <3>3
  <2>4. 1 - j * k \in Int
    BY <1>3, <2>2
  <2>5. (c % B) = t
    BY <1>2, <2>1, <2>3, <2>4, RemainderIs
  <2> QED
    BY <2>5 DEF c, w, Cell
<1> QED
  BY <1>4

-----------------------------------------------------------------------------
(* Memory.                                                                 *)

\* What the properties compute with is of the sizes it should be.
TypeOK ==
    /\ cmos \in BOOLEAN
    /\ reach \in Reaches
    /\ ins.at \in Address /\ ins.index \in Byte
    /\ pc \in Address /\ base \in Address /\ addr \in Address
    /\ low \in Byte /\ s \in Byte
    /\ cycles \in Nat
    /\ \A c \in DOMAIN mem : mem[c] \in Byte
    /\ \A c \in DOMAIN first : first[c] \in Byte
    /\ DOMAIN first \subseteq DOMAIN mem

\* What is known of memory is what was found there.
Unwritten == \A c \in DOMAIN mem : c \in DOMAIN first /\ first[c] = mem[c]

\* The byte at this address is known, and was found there.
Found(a) == Cell(a) \in DOMAIN first

\* What was found is not forgotten, and what is known is no other.
Remembers == \A c \in DOMAIN first : c \in DOMAIN first' /\ first'[c] = first[c]

Agrees == \A c \in DOMAIN mem : c \in DOMAIN mem' /\ mem'[c] = mem[c]

\* A byte that is read is known, and was found where nothing was written.
LEMMA ReadsKeep ==
  ASSUME TypeOK, NEW a, NEW v \in Byte, Reads(a, v)
  PROVE  /\ Remembers /\ Agrees
         /\ \A c \in DOMAIN mem' : mem'[c] \in Byte
         /\ \A c \in DOMAIN first' : first'[c] \in Byte
         /\ DOMAIN first' \subseteq DOMAIN mem'
         /\ Cell(a) \in DOMAIN mem' /\ mem'[Cell(a)] = v
         /\ Unwritten => Unwritten' /\ Cell(a) \in DOMAIN first' /\ first'[Cell(a)] = v
         /\ bus' = [does |-> "read", at |-> Cell(a)]
         /\ cycles' = cycles + 1 /\ cmos' = cmos /\ reach' = reach /\ ins' = ins
<1> DEFINE c == Cell(a)
<1>1. /\ bus' = [does |-> "read", at |-> c]
      /\ cycles' = cycles + 1 /\ cmos' = cmos /\ reach' = reach /\ ins' = ins
      /\ c \in DOMAIN mem => v = mem[c]
      /\ mem' = Known(mem, c, v)
      /\ first' = IF c \in DOMAIN mem THEN first ELSE Known(first, c, v)
  BY DEF Reads, Cycle, part
<1>2. /\ \A d \in DOMAIN mem : mem[d] \in Byte
      /\ \A d \in DOMAIN first : first[d] \in Byte
      /\ DOMAIN first \subseteq DOMAIN mem
  BY DEF TypeOK
<1> HIDE DEF c
<1>3. /\ DOMAIN mem' = (DOMAIN mem) \cup {c} /\ mem'[c] = v
      /\ \A d \in DOMAIN mem : mem'[d] = mem[d]
  BY <1>1 DEF Known
<1>4. CASE c \in DOMAIN mem
  <2>1. first' = first /\ DOMAIN mem' = DOMAIN mem
    BY <1>1, <1>3, <1>4
  <2> QED
    BY <1>1, <1>2, <1>3, <1>4, <2>1 DEF Remembers, Agrees, Unwritten, c
<1>5. CASE c \notin DOMAIN mem
  <2>1. /\ DOMAIN first' = (DOMAIN first) \cup {c} /\ first'[c] = v
        /\ \A d \in DOMAIN first : first'[d] = first[d]
    BY <1>1, <1>2, <1>5 DEF Known
  <2>2. DOMAIN first' \subseteq DOMAIN mem'
    BY <1>2, <1>3, <2>1
  <2>3. Remembers /\ Agrees
    BY <1>3, <2>1 DEF Remembers, Agrees
  <2>4. /\ \A d \in DOMAIN mem' : mem'[d] \in Byte
        /\ \A d \in DOMAIN first' : first'[d] \in Byte
    BY <1>2, <1>3, <2>1
  <2>5. Unwritten => Unwritten'
    BY <1>3, <2>1 DEF Unwritten
  <2> QED
    BY <1>1, <1>3, <2>1, <2>2, <2>3, <2>4, <2>5 DEF c
<1> QED
  BY <1>4, <1>5

\* A byte that is written is known, and what was found stays as it was.
LEMMA WritesKeep ==
  ASSUME TypeOK, NEW a, NEW v \in Byte, Writes(a, v)
  PROVE  /\ Remembers
         /\ \A c \in DOMAIN mem' : mem'[c] \in Byte
         /\ first' = first
         /\ DOMAIN first' \subseteq DOMAIN mem'
         /\ Cell(a) \in DOMAIN mem' /\ mem'[Cell(a)] = v
         /\ \A c \in DOMAIN mem : c \in DOMAIN mem' /\ (c # Cell(a) => mem'[c] = mem[c])
         /\ bus' = [does |-> "write", at |-> Cell(a)]
         /\ cycles' = cycles + 1 /\ cmos' = cmos /\ reach' = reach /\ ins' = ins
<1> DEFINE c == Cell(a)
<1>1. /\ bus' = [does |-> "write", at |-> c]
      /\ cycles' = cycles + 1 /\ cmos' = cmos /\ reach' = reach /\ ins' = ins
      /\ mem' = Known(mem, c, v)
      /\ first' = first
  BY DEF Writes, Cycle, part
<1>2. /\ \A d \in DOMAIN mem : mem[d] \in Byte
      /\ DOMAIN first \subseteq DOMAIN mem
  BY DEF TypeOK
<1> HIDE DEF c
<1>3. /\ DOMAIN mem' = (DOMAIN mem) \cup {c} /\ mem'[c] = v
      /\ \A d \in DOMAIN mem : d # c => mem'[d] = mem[d]
  BY <1>1 DEF Known
<1> QED
  BY <1>1, <1>2, <1>3 DEF Remembers, c

\* A read whose value does not matter changes nothing that is known.
LEMMA LooksKeep ==
  ASSUME NEW a, Looks(a)
  PROVE  /\ mem' = mem /\ first' = first
         /\ bus' = [does |-> "read", at |-> Cell(a)]
         /\ cycles' = cycles + 1 /\ cmos' = cmos /\ reach' = reach /\ ins' = ins
  BY DEF Looks, Cycle, part, memory

-----------------------------------------------------------------------------
(* Each step keeps the types.                                              *)

\* What a step leaves alone but for memory and the bus.
LEMMA LooksTypes ==
  ASSUME TypeOK, NEW a, Looks(a),
         pc' \in Address, base' \in Address, addr' \in Address, low' \in Byte, s' \in Byte
  PROVE  TypeOK'
<1>1. /\ mem' = mem /\ first' = first
      /\ cycles' = cycles + 1 /\ cmos' = cmos /\ reach' = reach /\ ins' = ins
  BY LooksKeep
<1> QED
  BY <1>1 DEF TypeOK

\* A read knows bytes.
LEMMA ReadsTypes ==
  ASSUME TypeOK, NEW a, NEW v \in Byte, Reads(a, v),
         pc' \in Address, base' \in Address, addr' \in Address, low' \in Byte, s' \in Byte
  PROVE  TypeOK'
<1>1. /\ \A c \in DOMAIN mem' : mem'[c] \in Byte
      /\ \A c \in DOMAIN first' : first'[c] \in Byte
      /\ DOMAIN first' \subseteq DOMAIN mem'
      /\ cycles' = cycles + 1 /\ cmos' = cmos /\ reach' = reach /\ ins' = ins
  BY ReadsKeep
<1> QED
  BY <1>1 DEF TypeOK

\* A write of a byte knows bytes.
LEMMA WritesTypes ==
  ASSUME TypeOK, NEW a, NEW v \in Byte, Writes(a, v),
         pc' \in Address, base' \in Address, addr' \in Address, low' \in Byte, s' \in Byte
  PROVE  TypeOK'
<1>1. /\ \A c \in DOMAIN mem' : mem'[c] \in Byte
      /\ first' = first
      /\ DOMAIN first' \subseteq DOMAIN mem'
      /\ cycles' = cycles + 1 /\ cmos' = cmos /\ reach' = reach /\ ins' = ins
  BY WritesKeep
<1> QED
  BY <1>1 DEF TypeOK

\* A word that has been fetched is an address, and so is what it is indexed to.
LEMMA FormedTypes ==
  ASSUME TypeOK, NEW l \in Byte, NEW h \in Byte, Formed(Word(l, h))
  PROVE  base' \in Address /\ addr' \in Address
<1>1. Word(l, h) \in Address
  BY WordOfBytes
<1>2. Word(l, h) \in Int /\ ins.index \in Int
  BY <1>1, Sizes DEF Address, Byte, TypeOK
<1>3. Plus(Word(l, h), ins.index) \in Address
  BY <1>2, PlusAddress
<1> QED
  BY <1>1, <1>3 DEF Formed

\* Every action keeps the sizes.
LEMMA StepTypes ==
  ASSUME TypeOK, Next
  PROVE  TypeOK'
<1>0. /\ pc \in Address /\ base \in Address /\ addr \in Address /\ low \in Byte /\ s \in Byte
      /\ ins.at \in Address /\ ins.index \in Byte
      /\ pc \in Int /\ addr \in Int /\ low \in Int /\ s \in Int /\ ins.index \in Int
      /\ Byte \subseteq Address /\ 0 \in Byte /\ 0 \in Address
      /\ Plus(pc, 1) \in Address /\ Plus(addr, 1) \in Address /\ Plus(addr, ins.index) \in Address
      /\ ((s + 1) % B) \in Byte /\ ((s - 1) % B) \in Byte /\ ((addr + ins.index) % B) \in Byte
  <2>1. /\ pc \in Address /\ base \in Address /\ addr \in Address /\ low \in Byte /\ s \in Byte
        /\ ins.at \in Address /\ ins.index \in Byte
    BY DEF TypeOK
  <2>2. pc \in Int /\ addr \in Int /\ low \in Int /\ s \in Int /\ ins.index \in Int
    BY <2>1, Sizes DEF Address, Byte
  <2>3. B \in Nat \ {0} /\ s + 1 \in Int /\ s - 1 \in Int /\ addr + ins.index \in Int
    BY <2>2, Sizes
  <2>4. ((s + 1) % B) \in 0..(B - 1) /\ ((s - 1) % B) \in 0..(B - 1)
        /\ ((addr + ins.index) % B) \in 0..(B - 1)
    BY <2>3, Remainder
  <2>5. Plus(pc, 1) \in Address /\ Plus(addr, 1) \in Address /\ Plus(addr, ins.index) \in Address
    BY <2>2, PlusAddress
  <2> QED
    BY <2>1, <2>2, <2>4, <2>5, Sizes DEF Byte
<1>1. ASSUME NEW do, NEW at \in Starts, Start(do, at), pc' \in Address, cycles' \in Nat
      PROVE  TypeOK'
  <2>1. PICK x \in Indices(do), top \in Pointers(do) :
            /\ ins' = [kind |-> do.kind, mode |-> do.mode, at |-> at, index |-> x]
            /\ s' = top
            /\ UNCHANGED <<part, memory, forming>>
    BY <1>1 DEF Start
  <2>2. x \in Byte /\ top \in Byte
    BY <2>1, <1>0 DEF Indices, Pointers
  <2>3. at \in Address
    BY StartsAssumption DEF Address
  <2>4. ins'.at = at /\ ins'.index = x
    BY <2>1
  <2> QED
    BY <1>1, <2>1, <2>2, <2>3, <2>4 DEF TypeOK, part, memory, forming
<1>2. CASE Begin
  <2>1. PICK do \in Instructions(cmos), at \in Starts :
            Start(do, at) /\ pc' = Plus(at, 1) /\ cycles' = 1
    BY <1>2 DEF Begin
  <2>2. at \in Int
    BY StartsAssumption, Sizes
  <2>3. pc' \in Address
    BY <2>1, <2>2, PlusAddress
  <2> QED
    BY <1>1, <2>1, <2>3
<1>3. CASE Enter
  <2>1. PICK do \in Instructions(cmos), at \in Starts :
            Start(do, at) /\ pc' = at /\ cycles' = cycles
    BY <1>3 DEF Enter
  <2>2. pc' \in Address /\ cycles' \in Nat
    BY <2>1, StartsAssumption DEF Address, TypeOK
  <2> QED
    BY <1>1, <2>1, <2>2
<1>4. CASE End
  <2>1. ins'.at = 0 /\ ins'.index = 0 /\ DOMAIN mem' = {} /\ DOMAIN first' = {}
    BY <1>4 DEF End, None
  <2> QED
    BY <1>0, <1>4, <2>1 DEF End, TypeOK, part
<1>5. CASE \/ Dead \/ Signature \/ SpareInPageZero \/ Carry
           \/ PullAside \/ Pulled \/ JumpIndex \/ Branch
  <2>1. \E a : Looks(a)
    BY <1>5 DEF Dead, Signature, SpareInPageZero, Carry, PullAside, Pulled, JumpIndex, Branch
  <2>2. pc' \in {pc, Plus(pc, 1), Plus(addr, 1), addr} /\ s' \in {s, ((s + 1) % B)}
        /\ addr' \in {addr, ((addr + ins.index) % B), Plus(addr, ins.index)}
        /\ base' = base /\ low' = low
    BY <1>5 DEF Dead, Signature, SpareInPageZero, Carry, PullAside, Pulled, JumpIndex, Branch,
                forming
  <2> QED
    BY <1>0, <2>1, <2>2, LooksTypes
<1>6. CASE FetchLow \/ PointerLow \/ Held \/ JumpLow
  <2>1. PICK v \in Byte : (\E a : Reads(a, v)) /\ low' = v /\ addr' \in {v, addr}
    BY <1>6 DEF FetchLow, PointerLow, Held, JumpLow
  <2>2. pc' \in {pc, Plus(pc, 1)} /\ s' = s /\ base' = base
    BY <1>6 DEF FetchLow, PointerLow, Held, JumpLow
  <2> QED
    BY <1>0, <2>1, <2>2, ReadsTypes
<1>7. CASE FetchHigh \/ PointerHigh
  <2>1. PICK v \in Byte : (\E a : Reads(a, v)) /\ Formed(Word(low, v))
    BY <1>7 DEF FetchHigh, PointerHigh
  <2>2. pc' \in {pc, Plus(pc, 1)} /\ s' = s /\ low' = low
    BY <1>7 DEF FetchHigh, PointerHigh
  <2>3. base' \in Address /\ addr' \in Address
    BY <1>0, <2>1, FormedTypes
  <2> QED
    BY <1>0, <2>1, <2>2, <2>3, ReadsTypes
<1>8. CASE Settle \/ Write \/ Store \/ Push
  <2>1. \/ \E a : Looks(a)
        \/ \E a : \E v \in Byte : Writes(a, v)
    <3>1. High(pc) \in Byte /\ Low(pc) \in Byte
      BY <1>0, BytesOfWord
    <3>2. \A it \in DOMAIN Values : Values[it] \subseteq Byte
      BY <3>1 DEF Values
    <3> QED
      BY <1>0, <1>8, <3>2 DEF Settle, Write, Store, Push
  <2>2. /\ pc' = pc /\ low' = low /\ base' = base /\ addr' = addr
        /\ s' \in {s, ((s - 1) % B)}
    BY <1>8 DEF Settle, Write, Store, Push, forming
  <2> QED
    BY <1>0, <2>1, <2>2, LooksTypes, WritesTypes
<1>9. CASE Pull
  <2>1. PICK v \in Byte : /\ Reads(Stack((s + 1) % B), v)
                          /\ low' \in {v, low} /\ addr' \in {addr, Word(low, v)}
                          /\ pc' \in {pc, Word(low, v)}
    BY <1>9 DEF Pull
  <2>2. Word(low, v) \in Address
    BY <1>0, WordOfBytes
  <2>3. s' = (s + 1) % B /\ base' = base
    BY <1>9 DEF Pull
  <2> QED
    BY <1>0, <2>1, <2>2, <2>3, ReadsTypes
<1>10. CASE Vector
  <2>1. PICK v \in Byte, at \in Vectors : Reads(at, v) /\ low' = v /\ addr' = at
    BY <1>10 DEF Vector
  <2>2. at \in Address
    <3>1. B * B >= 9 /\ B * B \in Nat
      <4>1. B \in Nat /\ B >= 3
        BY Sizes
      <4>2. B * B >= 3 * B
        BY <4>1
      <4> QED
        BY <4>1, <4>2
    <3> QED
      BY <2>1, <3>1 DEF Vectors, Address
  <2>3. pc' = pc /\ s' = s /\ base' = base
    BY <1>10 DEF Vector
  <2> QED
    BY <1>0, <2>1, <2>2, <2>3, ReadsTypes
<1>11. CASE Jump
  <2>1. PICK v \in Byte : (\E a : Reads(a, v)) /\ pc' = Word(low, v)
    BY <1>11 DEF Jump
  <2>2. Word(low, v) \in Address
    BY <1>0, WordOfBytes
  <2>3. s' = s /\ base' = base /\ low' = low /\ addr' = addr
    BY <1>11 DEF Jump, forming
  <2> QED
    BY <1>0, <2>1, <2>2, <2>3, ReadsTypes
<1>12. CASE Offset
  <2>1. PICK v \in Byte : Reads(pc, v) /\ addr' \in {addr, Plus(pc', Signed(v))}
    BY <1>12 DEF Offset
  <2>2. pc' = Plus(pc, 1) /\ s' = s /\ base' = base /\ low' = low
    BY <1>12 DEF Offset
  <2>3. Signed(v) \in Int /\ pc' \in Int
    BY <1>0, <2>2, Sizes DEF Signed, Byte, Address
  <2>4. Plus(pc', Signed(v)) \in Address
    BY <2>3, PlusAddress
  <2> QED
    BY <1>0, <2>1, <2>2, <2>4, ReadsTypes
<1> QED
  BY <1>2, <1>3, <1>4, <1>5, <1>6, <1>7, <1>8, <1>9, <1>10, <1>11, <1>12 DEF Next

-----------------------------------------------------------------------------
(* What is ahead.                                                          *)

\* What instructions that have an address do on the way to it, and there.
Work == {"low", "high", "spare", "pointer", "pointerHigh", "index", "carry",
         "look", "write", "held", "settle", "store"}

\* What this instruction does at its address, and from when its word is fetched.
Use == AtAddress[ins.kind]

Last == IF Indexed THEN <<"index">> \o Use ELSE Use

\* What it does before.
Way == [
    zeroPage         |-> <<"low">>,
    zeroPageX        |-> <<"low", "spare">>,
    absolute         |-> <<"low", "high">>,
    absoluteX        |-> <<"low", "high">>,
    indexedIndirectX |-> <<"low", "spare", "pointer", "pointerHigh">>,
    indirectIndexedY |-> <<"low", "pointer", "pointerHigh">>,
    zeroPageIndirect |-> <<"low", "pointer", "pointerHigh">>]

\* Of two pieces of work, the first comes first.
LEMMA HeadOf ==
  ASSUME NEW u \in Seq(Work), u # <<>>, NEW t \in Seq(Work)
  PROVE  /\ u \o t \in Seq(Work) /\ u \o t # <<>>
         /\ Head(u \o t) = Head(u)
         /\ Tail(u \o t) = Tail(u) \o t
<1> DEFINE w == u \o t
           r == Tail(u) \o t
<1>1. Len(u) \in Nat /\ Len(t) \in Nat /\ Len(u) >= 1
  OBVIOUS
<1>2. /\ w \in Seq(Work) /\ Len(w) = Len(u) + Len(t)
      /\ \A i \in 1..Len(u) + Len(t) : w[i] = IF i <= Len(u) THEN u[i] ELSE t[i - Len(u)]
  BY ConcatProperties
<1>3. /\ Tail(u) \in Seq(Work) /\ Len(Tail(u)) = Len(u) - 1
      /\ \A i \in 1..Len(u) - 1 : Tail(u)[i] = u[i + 1]
  BY <1>1, HeadTailProperties
<1>4. /\ r \in Seq(Work) /\ Len(r) = (Len(u) - 1) + Len(t)
      /\ \A i \in 1..(Len(u) - 1) + Len(t) :
            r[i] = IF i <= Len(u) - 1 THEN Tail(u)[i] ELSE t[i - (Len(u) - 1)]
  BY <1>3, ConcatProperties
<1> HIDE DEF w, r
<1>5. w # <<>> /\ Head(w) = Head(u)
  BY <1>1, <1>2
<1>6. /\ Tail(w) \in Seq(Work) /\ Len(Tail(w)) = Len(w) - 1
      /\ \A i \in 1..Len(w) - 1 : Tail(w)[i] = w[i + 1]
  BY <1>2, <1>5, HeadTailProperties
<1>7. \A i \in 1..Len(r) : Tail(w)[i] = r[i]
  <2>1. TAKE i \in 1..Len(r)
  <2>2. i \in 1..Len(w) - 1 /\ i + 1 \in 1..Len(u) + Len(t) /\ Tail(w)[i] = w[i + 1]
    BY <1>1, <1>2, <1>4, <1>6
  <2>0. i \in Int /\ i >= 1 /\ i \in 1..(Len(u) - 1) + Len(t)
    BY <1>1, <1>4
  <2>3. CASE i <= Len(u) - 1
    <3>1. i + 1 <= Len(u) /\ i \in 1..Len(u) - 1
      BY <1>1, <2>0, <2>3
    <3>2. w[i + 1] = u[i + 1]
      BY <1>2, <2>2, <3>1
    <3>3. r[i] = Tail(u)[i]
      BY <1>4, <2>0, <2>3
    <3> QED
      BY <1>3, <2>2, <3>1, <3>2, <3>3
  <2>4. CASE ~(i <= Len(u) - 1)
    <3>1. ~(i + 1 <= Len(u)) /\ (i + 1) - Len(u) = i - (Len(u) - 1)
      BY <1>1, <2>0, <2>4
    <3>2. w[i + 1] = t[(i + 1) - Len(u)]
      BY <1>2, <2>2, <3>1
    <3>3. r[i] = t[i - (Len(u) - 1)]
      BY <1>4, <2>0, <2>4
    <3> QED
      BY <2>2, <3>1, <3>2, <3>3
  <2> QED
    BY <1>1, <2>3, <2>4
<1>8. Tail(w) = r
  BY <1>1, <1>2, <1>4, <1>6, <1>7, SeqEqual
<1> QED
  BY <1>2, <1>5, <1>8 DEF w, r

\* Nothing before a piece of work is that piece.
LEMMA Nothing ==
  ASSUME NEW t \in Seq(Work)
  PROVE  <<>> \o t = t
  BY ConcatEmptySeq

\* The ways, and their ends, are work.
LEMMA SomeWork ==
  /\ <<"index">> \in Seq(Work) /\ <<"carry">> \in Seq(Work) /\ <<"low">> \in Seq(Work)
  /\ <<"high">> \in Seq(Work) /\ <<"spare">> \in Seq(Work) /\ <<"pointerHigh">> \in Seq(Work)
  /\ <<"low", "spare">> \in Seq(Work) /\ <<"low", "high">> \in Seq(Work)
  /\ <<"pointer", "pointerHigh">> \in Seq(Work)
  /\ <<"low", "pointer", "pointerHigh">> \in Seq(Work)
  /\ <<"spare", "pointer", "pointerHigh">> \in Seq(Work)
  /\ <<"low", "spare", "pointer", "pointerHigh">> \in Seq(Work)
<1>1. \A a, b, c, d \in Work : /\ <<a>> \in Seq(Work) /\ <<a, b>> \in Seq(Work)
                               /\ <<a, b, c>> \in Seq(Work) /\ <<a, b, c, d>> \in Seq(Work)
  OBVIOUS
<1>2. {"low", "high", "spare", "pointer", "pointerHigh", "index", "carry"} \subseteq Work
  BY DEF Work
<1> QED
  BY <1>1, <1>2

\* Work at an address is never nothing, and does not begin with the index.
LEMMA Uses ==
  ASSUME NEW k \in DOMAIN AtAddress
  PROVE  /\ AtAddress[k] \in Seq(Work) /\ AtAddress[k] # <<>>
         /\ Head(AtAddress[k]) # "index"
<1>1. \A a, b, c \in Work : /\ <<a>> \in Seq(Work) /\ <<a, b>> \in Seq(Work)
                            /\ <<a, b, c>> \in Seq(Work)
  OBVIOUS
<1>2. {"look", "write", "held", "settle", "store"} \subseteq Work
  BY DEF Work
<1>3. AtAddress[k] \in {<<"look">>, <<"look", "look">>, <<"write">>, <<"store">>,
                        <<"held", "settle", "write">>}
  BY DEF AtAddress
<1>4. /\ <<"look">> \in Seq(Work) /\ <<"look", "look">> \in Seq(Work)
      /\ <<"write">> \in Seq(Work) /\ <<"store">> \in Seq(Work)
      /\ <<"held", "settle", "write">> \in Seq(Work)
  BY <1>1, <1>2
<1>5. AtAddress[k] \in Seq(Work)
  BY <1>3, <1>4, Zenon
<1>6. AtAddress[k] # <<>> /\ Head(AtAddress[k]) # "index"
  BY <1>3
<1> QED
  BY <1>5, <1>6

\* An addressed instruction.
HasAddress == ins.kind \in DOMAIN AtAddress /\ ins.mode \in DOMAIN effective

\* What follows the way to an address.
LEMMA LastIs ==
  ASSUME HasAddress
  PROVE  /\ Use \in Seq(Work) /\ Use # <<>> /\ Head(Use) # "index"
         /\ Last \in Seq(Work) /\ Last # <<>>
         /\ Indexed => Head(Last) = "index" /\ Tail(Last) = Use
         /\ ~Indexed => Last = Use
<1>1. Use \in Seq(Work) /\ Use # <<>> /\ Head(Use) # "index"
  BY Uses DEF Use, HasAddress
<1>2. CASE Indexed
  <2>1. <<"index">> \in Seq(Work) /\ <<"index">> # <<>>
        /\ Head(<<"index">>) = "index" /\ Tail(<<"index">>) = <<>>
    BY SomeWork
  <2>2. Last = <<"index">> \o Use
    BY <1>2 DEF Last
  <2>3. /\ Last \in Seq(Work) /\ Last # <<>> /\ Head(Last) = Head(<<"index">>)
        /\ Tail(Last) = Tail(<<"index">>) \o Use
    BY <1>1, <2>1, <2>2, HeadOf
  <2>4. <<>> \o Use = Use
    BY <1>1, Nothing
  <2> QED
    BY <1>1, <1>2, <2>1, <2>3, <2>4
<1>3. CASE ~Indexed
  BY <1>1, <1>3 DEF Last
<1> QED
  BY <1>2, <1>3

\* The ways of the indexed modes.
LEMMA Indexing ==
  /\ <<"low", "high", "index">> \in Seq(Work)
  /\ <<"low", "pointer", "pointerHigh", "index">> \in Seq(Work)
  /\ <<"low", "high">> \o <<"index">> = <<"low", "high", "index">>
  /\ <<"low", "pointer", "pointerHigh">> \o <<"index">>
       = <<"low", "pointer", "pointerHigh", "index">>
<1>1. \A a, b, c, d \in Work : <<a, b, c>> \in Seq(Work) /\ <<a, b, c, d>> \in Seq(Work)
  OBVIOUS
<1>2. {"low", "high", "pointer", "pointerHigh", "index"} \subseteq Work
  BY DEF Work
<1>3. /\ <<"low", "high", "index">> \in Seq(Work)
      /\ <<"low", "pointer", "pointerHigh", "index">> \in Seq(Work)
  BY <1>1, <1>2
<1> DEFINE u == <<"low", "high">> \o <<"index">>
           w == <<"low", "pointer", "pointerHigh">> \o <<"index">>
<1>4. /\ u \in Seq(Work) /\ Len(u) = 3
      /\ u[1] = "low" /\ u[2] = "high" /\ u[3] = "index"
  BY SomeWork, ConcatProperties
<1>5. /\ w \in Seq(Work) /\ Len(w) = 4
      /\ w[1] = "low" /\ w[2] = "pointer" /\ w[3] = "pointerHigh" /\ w[4] = "index"
  BY SomeWork, ConcatProperties
<1> HIDE DEF u, w
<1>6. u = <<"low", "high", "index">>
  BY <1>3, <1>4, SeqEqual
<1>7. w = <<"low", "pointer", "pointerHigh", "index">>
  BY <1>3, <1>5, SeqEqual
<1> QED
  BY <1>3, <1>6, <1>7 DEF u, w

\* An instruction has its way to go first, and then the rest.
LEMMA WayAndLast ==
  ASSUME NEW k \in DOMAIN AtAddress, NEW m \in DOMAIN effective
  PROVE  effective[m] \o AtAddress[k]
           = Way[m] \o (IF m \in {"absoluteX", "indirectIndexedY"}
                        THEN <<"index">> \o AtAddress[k] ELSE AtAddress[k])
<1> DEFINE use == AtAddress[k]
<1>1. use \in Seq(Work)
  BY Uses
<1> HIDE DEF use
<1>2. CASE m \notin {"absoluteX", "indirectIndexedY"}
  <2>1. effective[m] = Way[m]
    BY <1>2 DEF effective, Way
  <2> QED
    BY <1>2, <2>1
<1>3. CASE m \in {"absoluteX", "indirectIndexedY"}
  <2>1. ASSUME NEW u \in Seq(Work), NEW w \in Seq(Work), u \o <<"index">> = w
        PROVE  w \o use = u \o (<<"index">> \o use)
    <3>1. (u \o <<"index">>) \o use = u \o (<<"index">> \o use)
      BY <1>1, SomeWork, ConcatAssociative
    <3> QED
      BY <2>1, <3>1
  <2>2. effective[m] \o use = Way[m] \o (<<"index">> \o use)
    <3>1. CASE m = "absoluteX"
      <4>1. Way[m] = <<"low", "high">> /\ effective[m] = <<"low", "high", "index">>
        BY <3>1 DEF Way, effective
      <4> QED
        BY <2>1, <4>1, SomeWork, Indexing
    <3>2. CASE m = "indirectIndexedY"
      <4>1. /\ Way[m] = <<"low", "pointer", "pointerHigh">>
            /\ effective[m] = <<"low", "pointer", "pointerHigh", "index">>
        BY <3>2 DEF Way, effective
      <4> QED
        BY <2>1, <4>1, SomeWork, Indexing
    <3> QED
      BY <1>3, <3>1, <3>2
  <2> QED
    BY <1>3, <2>2 DEF use
<1> QED
  BY <1>2, <1>3 DEF use

-----------------------------------------------------------------------------
(* Which action is next.                                                   *)

\* The action that does each piece of work.
LEMMA Acts ==
  ASSUME Next, ins # None, ahead # <<>>
  PROVE  /\ Head(ahead) = "low" => FetchLow
         /\ Head(ahead) = "high" => FetchHigh
         /\ Head(ahead) = "spare" => SpareInPageZero
         /\ Head(ahead) = "pointer" => PointerLow
         /\ Head(ahead) = "pointerHigh" => PointerHigh
         /\ Head(ahead) = "carry" => Carry
         /\ Head(ahead) = "held" => Held
         /\ Head(ahead) = "settle" => Settle
         /\ Head(ahead) = "write" => Write
         /\ Head(ahead) = "store" => Store
         /\ Head(ahead) \in {"push", "pushHigh", "pushLow"} => Push
         /\ Head(ahead) = "pull" => PullAside
         /\ Head(ahead) \in {"pullLow", "pullHigh", "pullTo"} => Pull
         /\ Head(ahead) = "pulled" => Pulled
         /\ Head(ahead) = "vector" => Vector
         /\ Head(ahead) = "jumpIndex" => JumpIndex
         /\ Head(ahead) = "jumpLow" => JumpLow
         /\ Head(ahead) \in {"to", "vectorHigh", "jumpHigh"} => Jump
         /\ Head(ahead) = "offset" => Offset
         /\ Head(ahead) \in {"here", "there"} => Branch
         /\ Head(ahead) = "signature" => Signature
         /\ Head(ahead) \in {"idle", "last", "top", "look", "jumpSpare"} => Dead
<1> DEFINE h == Head(ahead)
<1>1. ~Begin /\ ~Enter /\ ~End
  BY DEF Begin, Enter, Start, End, Over
<1>2. /\ FetchLow => h = "low"
      /\ FetchHigh => h = "high"
      /\ SpareInPageZero => h = "spare"
      /\ PointerLow => h = "pointer"
      /\ PointerHigh => h = "pointerHigh"
      /\ Carry => h = "carry"
      /\ Held => h = "held"
      /\ Settle => h = "settle"
      /\ Write => h = "write"
      /\ Store => h = "store"
  BY DEF FetchLow, FetchHigh, SpareInPageZero, PointerLow, PointerHigh, Carry, Held, Settle,
         Write, Store, Doing
<1>3. /\ Push => h \in {"push", "pushHigh", "pushLow"}
      /\ PullAside => h = "pull"
      /\ Pull => h \in {"pullLow", "pullHigh", "pullTo"}
      /\ Pulled => h = "pulled"
      /\ Vector => h = "vector"
      /\ JumpIndex => h = "jumpIndex"
      /\ JumpLow => h = "jumpLow"
  BY DEF Push, Values, PullAside, Pull, Pulled, Vector, JumpIndex, JumpLow, Doing
<1>4. /\ Jump => h \in {"to", "vectorHigh", "jumpHigh"}
      /\ Offset => h = "offset"
      /\ Branch => h \in {"here", "there"}
      /\ Signature => h = "signature"
      /\ Dead => h \in {"idle", "last", "top", "look", "jumpSpare"}
  BY DEF Jump, HighAt, Offset, Branch, Signature, Dead, DeadAt, Doing
<1> HIDE DEF h
<1>5. \/ h = "low" /\ FetchLow
      \/ h = "high" /\ FetchHigh
      \/ h = "spare" /\ SpareInPageZero
      \/ h = "pointer" /\ PointerLow
      \/ h = "pointerHigh" /\ PointerHigh
      \/ h = "carry" /\ Carry
      \/ h = "held" /\ Held
      \/ h = "settle" /\ Settle
      \/ h = "write" /\ Write
      \/ h = "store" /\ Store
      \/ h \in {"push", "pushHigh", "pushLow"} /\ Push
      \/ h = "pull" /\ PullAside
      \/ h \in {"pullLow", "pullHigh", "pullTo"} /\ Pull
      \/ h = "pulled" /\ Pulled
      \/ h = "vector" /\ Vector
      \/ h = "jumpIndex" /\ JumpIndex
      \/ h = "jumpLow" /\ JumpLow
      \/ h \in {"to", "vectorHigh", "jumpHigh"} /\ Jump
      \/ h = "offset" /\ Offset
      \/ h \in {"here", "there"} /\ Branch
      \/ h = "signature" /\ Signature
      \/ h \in {"idle", "last", "top", "look", "jumpSpare"} /\ Dead
  BY <1>1, <1>2, <1>3, <1>4 DEF Next
<1> QED
  BY <1>5 DEF h

\* All but the beginning and the end of an instruction is done from ahead.
LEMMA EndsOnly ==
  ASSUME Next, ~Begin, ~Enter, ~End
  PROVE  ahead # <<>>
<1>1. SUFFICES ASSUME ahead = <<>> PROVE FALSE
  OBVIOUS
<1>2. /\ ~FetchLow /\ ~FetchHigh /\ ~SpareInPageZero /\ ~PointerLow /\ ~PointerHigh
      /\ ~Carry /\ ~Held /\ ~Settle /\ ~Write /\ ~Store
  BY <1>1 DEF FetchLow, FetchHigh, SpareInPageZero, PointerLow, PointerHigh, Carry, Held,
              Settle, Write, Store, Doing
<1>3. /\ ~Push /\ ~PullAside /\ ~Pull /\ ~Pulled /\ ~Vector /\ ~JumpIndex /\ ~JumpLow
  BY <1>1 DEF Push, PullAside, Pull, Pulled, Vector, JumpIndex, JumpLow, Doing
<1>4. ~Jump /\ ~Offset /\ ~Branch /\ ~Signature /\ ~Dead
  BY <1>1 DEF Jump, Offset, Branch, Signature, Dead, Doing
<1> QED
  BY <1>2, <1>3, <1>4 DEF Next

\* A dead cycle reads where its work says.
LEMMA DeadDoes ==
  ASSUME Dead
  PROVE  /\ ahead' = Tail(ahead) /\ pc' = pc /\ s' = s
         /\ low' = low /\ base' = base /\ addr' = addr
         /\ Head(ahead) = "look" => Looks(addr)
         /\ \E a : Looks(a)
  BY DEF Dead, DeadAt, Doing, Then, forming

-----------------------------------------------------------------------------
(* An instruction on its way to its address, and at it.                    *)

\* How many of the instruction's bytes have been fetched.
At(n) == pc = Plus(ins.at, n)

\* The modes that go through a pointer in page zero, and where it is.
Through == {"indexedIndirectX", "indirectIndexedY", "zeroPageIndirect"}

Zero == IF ins.mode = "indexedIndirectX" THEN (Operand(1) + ins.index) % B ELSE Operand(1)

\* Only the modes that index do what misses its page.
Proper == ins.kind = "unstable" => Indexed

\* Before the operand's low byte is fetched; and before each other piece of work
\* on the way, with what is ahead of it, spent and in the making.
ToLow == ahead = Way[ins.mode] \o Last /\ cycles = 1 /\ At(1)

ToHigh ==
    /\ ins.mode \in {"absolute", "absoluteX"}
    /\ ahead = <<"high">> \o Last /\ cycles = 2 /\ At(2)
    /\ Found(Plus(ins.at, 1)) /\ low = Operand(1)

ToSpare ==
    /\ \/ ins.mode = "zeroPageX" /\ ahead = <<"spare">> \o Last
       \/ ins.mode = "indexedIndirectX" /\ ahead = <<"spare", "pointer", "pointerHigh">> \o Last
    /\ cycles = 2 /\ At(2)
    /\ Found(Plus(ins.at, 1)) /\ addr = Operand(1)

ToPointer ==
    /\ ins.mode \in Through
    /\ ahead = <<"pointer", "pointerHigh">> \o Last
    /\ cycles = (IF ins.mode = "indexedIndirectX" THEN 3 ELSE 2) /\ At(2)
    /\ Found(Plus(ins.at, 1)) /\ addr = Zero

ToPointerHigh ==
    /\ ins.mode \in Through
    /\ ahead = <<"pointerHigh">> \o Last
    /\ cycles = (IF ins.mode = "indexedIndirectX" THEN 4 ELSE 3) /\ At(2)
    /\ Found(Plus(ins.at, 1)) /\ addr = Zero
    /\ Found(Zero) /\ low = first[Cell(Zero)]

Forming ==
    /\ HasAddress /\ Proper /\ Unwritten
    /\ ToLow \/ ToHigh \/ ToSpare \/ ToPointer \/ ToPointerHigh

\* All the bytes its address is made of have been found.
AllFound ==
    /\ Found(Plus(ins.at, 1))
    /\ ins.mode \in {"absolute", "absoluteX"} => Found(Plus(ins.at, 2))
    /\ ins.mode \in Through => Found(Zero) /\ Found((Zero + 1) % B)

\* What is left of its work there when some of it is done.
Partway ==
    \/ ahead = <<>>
    \/ ins.kind = "sum" /\ ahead = <<"look">>
    \/ /\ ins.kind \in {"modify", "shift"} /\ ahead = <<"settle", "write">>
       /\ Unwritten /\ Found(addr) /\ low = first[Cell(addr)]
    \/ ins.kind \in {"modify", "shift"} /\ ahead = <<"write">>

\* At its address, but for the cycle that corrects it, with as many cycles ahead as
\* those printed for it leave.
Reached ==
    /\ HasAddress /\ Proper
    /\ AllFound /\ addr = Named /\ (Indexed => base = Unindexed) /\ At(Size)
    /\ cycles + Len(ahead) = Printed
    /\ \/ Unwritten /\ Indexed /\ ahead = <<"carry">> \o Use
       \/ Unwritten /\ ahead = Use
       \/ Partway

\* A byte that was found keeps what was found.
LEMMA FoundKept ==
  ASSUME Remembers, reach' = reach, NEW a, Found(a)
  PROVE  /\ Cell(a) \in DOMAIN first'
         /\ first'[Cell(a)] = first[Cell(a)]
         /\ (a % reach') = Cell(a)
  BY DEF Remembers, Found, Cell

\* A byte of the instruction stays what was found.
LEMMA OperandKept ==
  ASSUME Remembers, ins' = ins, reach' = reach, NEW n, Found(Plus(ins.at, n))
  PROVE  Found(Plus(ins.at, n))' /\ Operand(n)' = Operand(n)
  BY DEF Remembers, Found, Cell, Operand

\* What an instruction names stays, once all its bytes have been found.
LEMMA NamedKept ==
  ASSUME HasAddress, AllFound, Remembers, ins' = ins, reach' = reach
  PROVE  /\ AllFound' /\ Zero' = Zero /\ Named' = Named
         /\ Indexed => Unindexed' = Unindexed
         /\ Indexed' = Indexed /\ Crosses' = Crosses
<1>1. Found(Plus(ins.at, 1))' /\ Operand(1)' = Operand(1)
  BY OperandKept DEF AllFound
<1>2. ins.mode \in {"absolute", "absoluteX"}
        => Found(Plus(ins.at, 2))' /\ Operand(2)' = Operand(2)
  BY OperandKept DEF AllFound
<1>3. Zero' = Zero
  BY <1>1 DEF Zero
<1>4. ASSUME NEW z, Found(z)
      PROVE  /\ Cell(z) \in DOMAIN first' /\ first'[Cell(z)] = first[Cell(z)]
             /\ Cell(z)' = Cell(z)
  BY <1>4, FoundKept DEF Cell
<1>5. ins.mode \in Through => Pointer(Zero)' = Pointer(Zero)
                              /\ Found(Zero)' /\ Found((Zero + 1) % B)'
  BY <1>3, <1>4 DEF Pointer, AllFound, Found, Cell
<1>6. AllFound'
  BY <1>1, <1>2, <1>3, <1>5 DEF AllFound
<1>7. Indexed' = Indexed
  BY DEF Indexed
<1>8. /\ ins.mode \in {"absolute", "absoluteX", "indirectIndexedY"} => Unindexed' = Unindexed
      /\ Named' = Named
  <2>1. ins.mode \in {"absolute", "absoluteX"} => Unindexed' = Unindexed
    BY <1>1, <1>2 DEF Unindexed
  <2>2. ins.mode = "indirectIndexedY" => Unindexed' = Unindexed
    BY <1>3, <1>5 DEF Unindexed, Zero, Through
  <2>3. CASE ins.mode \in {"zeroPage", "zeroPageX"}
    BY <1>1, <2>3 DEF Named
  <2>4. CASE ins.mode \in {"absolute", "absoluteX", "indirectIndexedY"}
    BY <2>1, <2>2, <2>4 DEF Named, Plus
  <2>5. CASE ins.mode \in {"indexedIndirectX", "zeroPageIndirect"}
    <3>1. Named = Pointer(Zero)
      BY <2>5 DEF Named, Zero
    <3>2. Named' = Pointer(Zero)'
      BY <2>5 DEF Named, Zero
    <3> QED
      BY <1>5, <2>5, <3>1, <3>2 DEF Through
  <2> QED
    BY <2>1, <2>2, <2>3, <2>4, <2>5 DEF HasAddress, effective
<1>9. Crosses' = Crosses
  BY <1>7, <1>8 DEF Crosses, Indexed
<1> QED
  BY <1>3, <1>6, <1>7, <1>8, <1>9 DEF Indexed

\* An address is corrected where its page is not the unindexed one.
LEMMA PageCarry ==
  ASSUME NEW a \in Address, NEW b \in Address
  PROVE  (Uncorrected(a, b) # b) <=> (High(a) # High(b))
<1>1. /\ Low(b) \in Byte /\ High(b) \in Byte /\ High(a) \in Byte
      /\ b = Word(Low(b), High(b))
  BY BytesOfWord
<1>2. High(Word(Low(b), High(a))) = High(a)
  BY <1>1, WordOfBytes
<1> QED
  BY <1>1, <1>2 DEF Uncorrected

\* The cycle an instruction is printed with beside those of its mode and its work.
Costs == IF ins.kind \in READ THEN Crosses ELSE Indexed

\* The cycles printed are those of the mode, of the correction and of the work.
LEMMA PrintedIs ==
  ASSUME HasAddress, ins' = ins, cmos' = cmos
  PROVE  /\ Reading[ins.mode] \in Nat /\ Len(Use) \in Nat
         /\ Printed' = (Reading[ins.mode] - 1) + One(Costs') + Len(Use)
<1> DEFINE mode == Reading[ins.mode]
           crossing == One(Crosses')
           indexing == One(Indexed')
           one == One(Costs')
           len == Len(Use)
<1>1. mode \in Nat
  BY DEF HasAddress, effective, Reading
<1>2. /\ ins.kind \in {"read", "write", "unstable"} => len = 1
      /\ ins.kind = "sum" => len = 2
      /\ ins.kind \in {"modify", "shift"} => len = 3
  BY DEF Use, AtAddress
<1>3. ins.kind \in {"read", "sum", "write", "modify", "shift", "unstable"}
  BY DEF HasAddress, AtAddress
<1>4. one \in {0, 1} /\ crossing \in {0, 1} /\ indexing \in {0, 1}
  BY DEF One
<1>5. /\ ins.kind \in {"read", "sum"} => one = crossing
      /\ ins.kind \in {"write", "unstable", "modify"} => one = indexing
      /\ ins.kind = "shift" => one = IF cmos THEN crossing ELSE indexing
  BY DEF Costs, READ
<1>6. Printed' = (mode - 1) + one + len
  <2>1. CASE ins.kind \in {"read", "sum"}
    <3>1. Printed' = mode + crossing + IF ins.kind = "sum" THEN 1 ELSE 0
      <4>1. /\ ins.kind = "read" => Printed' = mode + crossing
            /\ ins.kind = "sum" => Printed' = mode + crossing + 1
        BY DEF Printed
      <4> HIDE DEF mode, crossing
      <4> QED
        BY <1>1, <1>4, <2>1, <4>1
    <3> HIDE DEF mode, crossing, indexing, one, len
    <3> QED
      BY <1>1, <1>2, <1>4, <1>5, <2>1, <3>1
  <2>2. CASE ins.kind \in {"write", "unstable", "modify"}
    <3>1. Printed' = mode + indexing + IF ins.kind = "modify" THEN 2 ELSE 0
      <4>1. /\ ins.kind \in {"write", "unstable"} => Printed' = mode + indexing
            /\ ins.kind = "modify" => Printed' = mode + indexing + 2
        BY DEF Printed
      <4> HIDE DEF mode, indexing
      <4> QED
        BY <1>1, <1>4, <2>2, <4>1
    <3> HIDE DEF mode, crossing, indexing, one, len
    <3> QED
      BY <1>1, <1>2, <1>4, <1>5, <2>2, <3>1
  <2>3. CASE ins.kind = "shift"
    <3>1. Printed' = mode + One(IF cmos THEN Crosses' ELSE Indexed') + 2
      BY <2>3 DEF Printed
    <3>2. One(IF cmos THEN Crosses' ELSE Indexed') = one
      BY <2>3 DEF Costs, READ, One
    <3> HIDE DEF mode, crossing, indexing, one, len
    <3> QED
      BY <1>1, <1>2, <1>4, <2>3, <3>1, <3>2
  <2> QED
    BY <1>3, <2>1, <2>2, <2>3
<1>7. len \in Nat
  BY <1>2, <1>3
<1> QED
  BY <1>1, <1>6, <1>7

\* With its word fetched an instruction is at its address, but for the carry.
LEMMA FormedReaches ==
  ASSUME TypeOK, HasAddress, Proper, Tail(ahead) = Last, NEW word \in Address, Formed(word),
         ins' = ins, cmos' = cmos, reach' = reach, AllFound', Unwritten',
         Indexed => word = Unindexed', ~Indexed => word = Named',
         At(Size)', cycles' = Reading[ins.mode] - 1
  PROVE  Reached'
<1>1. HasAddress' /\ Proper' /\ Indexed' = Indexed /\ Use' = Use /\ READ' = READ
  BY DEF HasAddress, Proper, Indexed, Use, READ
<1>2. /\ Use \in Seq(Work) /\ Use # <<>> /\ Head(Use) # "index" /\ Last # <<>>
      /\ Indexed => Head(Last) = "index" /\ Tail(Last) = Use
      /\ ~Indexed => Last = Use
  BY LastIs
<1>3. /\ Reading[ins.mode] \in Nat /\ Len(Use) \in Nat
      /\ Printed' = (Reading[ins.mode] - 1) + One(Costs') + Len(Use)
  BY PrintedIs
<1>4. CASE ~Indexed
  <2>1. /\ addr' = word /\ ahead' = Use
    BY <1>2, <1>4 DEF Formed
  <2>2. ~Costs' /\ One(Costs') = 0
    BY <1>1, <1>4 DEF Costs, Crosses, Indexed, One
  <2>3. cycles' + Len(ahead') = Printed'
    BY <1>3, <2>1, <2>2
  <2> QED
    BY <1>1, <1>4, <2>1, <2>3 DEF Reached
<1>5. CASE Indexed
  <2> DEFINE target == Plus(word, ins.index)
             spare == IF takes_spare(word, target) THEN <<"carry">> ELSE <<>>
  <2>1. base' = word /\ addr' = target /\ ahead' = spare \o Use
    BY <1>2, <1>5 DEF Formed
  <2>2. Named' = target
    <3>1. ins.mode \in {"absoluteX", "indirectIndexedY"}
      BY <1>5 DEF Indexed
    <3> QED
      BY <1>5, <3>1 DEF Named
  <2>3. target \in Address
    <3>1. word \in Int /\ ins.index \in Int
      BY Sizes DEF TypeOK, Address, Byte
    <3> QED
      BY <3>1, PlusAddress
  <2>4. takes_spare(word, target) <=> Costs'
    <3>1. (Uncorrected(word, target) # target) <=> (High(word) # High(target))
      BY <2>3, PageCarry
    <3>2. Crosses' <=> (High(word) # High(target))
      BY <1>1, <1>5, <2>2 DEF Crosses
    <3> QED
      BY <1>1, <1>5, <3>1, <3>2 DEF takes_spare, Costs
  <2> HIDE DEF target
  <2>5. CASE takes_spare(word, target)
    <3>1. ahead' = <<"carry">> \o Use /\ One(Costs') = 1
      BY <2>1, <2>4, <2>5 DEF One
    <3>2. Len(<<"carry">> \o Use) = 1 + Len(Use)
      <4>1. Len(<<"carry">>) = 1
        OBVIOUS
      <4> QED
        BY <4>1, <1>2, SomeWork, ConcatProperties
    <3>3. cycles' + Len(ahead') = Printed'
      <4>1. Printed' = (Reading[ins.mode] - 1) + 1 + Len(Use)
        BY <1>3, <3>1
      <4>2. Len(ahead') = 1 + Len(Use)
        BY <3>1, <3>2
      <4> QED
        BY <1>3, <4>1, <4>2
    <3> QED
      BY <1>1, <1>5, <2>1, <2>2, <3>1, <3>3 DEF Reached
  <2>6. CASE ~takes_spare(word, target)
    <3>1. ahead' = Use /\ One(Costs') = 0
      BY <1>2, <2>1, <2>4, <2>6, Nothing DEF One
    <3>2. cycles' + Len(ahead') = Printed'
      BY <1>3, <3>1
    <3> QED
      BY <1>1, <1>5, <2>1, <2>2, <3>1, <3>2 DEF Reached
  <2> QED
    BY <2>5, <2>6
<1> QED
  BY <1>4, <1>5

\* A read of one of its own bytes, or in page zero, is harmless.
LEMMA OwnByte ==
  ASSUME ins' = ins, reach' = reach, NEW n \in 0..MODE_SIZE[ins.mode],
         bus' = [does |-> "read", at |-> Cell(Plus(ins.at, n))]
  PROVE  SparesAreHarmless' /\ WritesAreNamed'
<1>1. Cell(Plus(ins.at, n))' = Cell(Plus(ins.at, n))
  BY DEF Cell
<1>2. bus'.does = "read" /\ bus'.at = Cell(Plus(ins.at, n))
  OBVIOUS
<1>3. \E k \in 0..MODE_SIZE[ins'.mode] : bus'.at = Cell(Plus(ins.at, k))'
  BY <1>1, <1>2
<1> QED
  BY <1>2, <1>3 DEF SparesAreHarmless, WritesAreNamed

\* So is one in page zero, where a mode goes through it.
LEMMA PageZero ==
  ASSUME ins' = ins, reach' = reach, ins.mode \notin {"absolute", "absoluteX"}, NEW z \in Byte,
         bus' = [does |-> "read", at |-> Cell(z)]
  PROVE  SparesAreHarmless' /\ WritesAreNamed'
<1>1. bus'.does = "read" /\ bus'.at = Cell(z)'
  BY DEF Cell
<1> QED
  BY <1>1 DEF SparesAreHarmless, WritesAreNamed

\* The bytes of an instruction are those from its opcode on.
LEMMA Instruction ==
  ASSUME HasAddress
  PROVE  /\ ins # None
         /\ MODE_SIZE[ins.mode] \in {1, 2} /\ Size = 1 + MODE_SIZE[ins.mode]
         /\ MODE_SIZE[ins.mode] = IF ins.mode \in {"absolute", "absoluteX"} THEN 2 ELSE 1
         /\ ins.mode \in Through \/ ins.mode \in {"zeroPage", "zeroPageX", "absolute", "absoluteX"}
         /\ Reading[ins.mode] \in Nat
  BY DEF HasAddress, None, AtAddress, effective, MODE_SIZE, Size, Through, Reading

\* The bytes at pc are next to those that have been fetched.
LEMMA PcNext ==
  ASSUME TypeOK, NEW n \in Int, At(n)
  PROVE  Plus(pc, 1) = Plus(ins.at, n + 1)
<1> DEFINE at == ins.at
<1>1. at \in Int
  BY Sizes DEF TypeOK, Address
<1>2. pc = Plus(at, n)
  BY DEF At
<1> HIDE DEF at
<1>3. Plus(Plus(at, n), 1) = Plus(at, n + 1)
  BY <1>1, PlusPlus
<1> QED
  BY <1>2, <1>3 DEF at

\* What each mode does before.
LEMMA WayIs ==
  /\ Way["zeroPage"] = <<"low">>
  /\ Way["zeroPageX"] = <<"low", "spare">>
  /\ Way["absolute"] = <<"low", "high">> /\ Way["absoluteX"] = <<"low", "high">>
  /\ Way["indexedIndirectX"] = <<"low", "spare", "pointer", "pointerHigh">>
  /\ Way["indirectIndexedY"] = <<"low", "pointer", "pointerHigh">>
  /\ Way["zeroPageIndirect"] = <<"low", "pointer", "pointerHigh">>
  BY DEF Way

\* What is done at the end of the way.
LEMMA Arrived ==
  ASSUME HasAddress, Proper, ins' = ins, cmos' = cmos, ~Indexed,
         ahead' = Last, AllFound', Unwritten', addr' = Named', At(Size)',
         cycles' = Reading[ins.mode] - 1
  PROVE  Reached'
<1>1. HasAddress' /\ Proper' /\ ~Indexed' /\ Use' = Use
  BY DEF HasAddress, Proper, Indexed, Use
<1>2. ahead' = Use
  BY LastIs
<1>3. ~Costs' /\ One(Costs') = 0
  BY <1>1 DEF Costs, Crosses, One
<1> DEFINE mode == Reading[ins.mode]
           len == Len(Use)
<1>4. mode \in Nat /\ len \in Nat /\ Printed' = (mode - 1) + 0 + len
  BY <1>3, PrintedIs
<1>5. cycles' = mode - 1 /\ Len(ahead') = len
  BY <1>2
<1> HIDE DEF mode, len
<1>6. cycles' + Len(ahead') = Printed'
  BY <1>4, <1>5
<1> QED
  BY <1>1, <1>2, <1>6 DEF Reached

\* The byte after the opcode is fetched.
LEMMA LowStep ==
  ASSUME TypeOK, HasAddress, Proper, Unwritten, ToLow, Next
  PROVE  (Forming' \/ Reached') /\ SparesAreHarmless' /\ WritesAreNamed'
<1>1. ins # None /\ Last \in Seq(Work)
  BY Instruction, LastIs
<1>2. /\ Way[ins.mode] \in Seq(Work) /\ Way[ins.mode] # <<>> /\ Head(Way[ins.mode]) = "low"
  <2>1. Way[ins.mode] \in {<<"low">>, <<"low", "spare">>, <<"low", "high">>,
                           <<"low", "spare", "pointer", "pointerHigh">>,
                           <<"low", "pointer", "pointerHigh">>}
    BY Instruction, WayIs DEF Through
  <2>2. /\ Head(<<"low">>) = "low" /\ Head(<<"low", "spare">>) = "low"
        /\ Head(<<"low", "high">>) = "low"
        /\ Head(<<"low", "spare", "pointer", "pointerHigh">>) = "low"
        /\ Head(<<"low", "pointer", "pointerHigh">>) = "low"
    OBVIOUS
  <2>3. /\ <<"low">> # <<>> /\ <<"low", "spare">> # <<>> /\ <<"low", "high">> # <<>>
        /\ <<"low", "spare", "pointer", "pointerHigh">> # <<>>
        /\ <<"low", "pointer", "pointerHigh">> # <<>>
    OBVIOUS
  <2> QED
    BY <2>1, <2>2, <2>3, SomeWork, Zenon
<1>3. ahead # <<>> /\ Head(ahead) = "low" /\ Tail(ahead) = Tail(Way[ins.mode]) \o Last
  BY <1>1, <1>2, HeadOf DEF ToLow
<1>4. FetchLow
  BY <1>1, <1>3, Acts
<1>5. PICK v \in Byte : Reads(pc, v) /\ low' = v /\ addr' = v
  BY <1>4 DEF FetchLow
<1>6. pc' = Plus(ins.at, 2) /\ ahead' = Tail(Way[ins.mode]) \o Last
  <2>1. At(1) /\ pc' = Plus(pc, 1)
    BY <1>4 DEF FetchLow, ToLow
  <2>2. Plus(pc, 1) = Plus(ins.at, 1 + 1)
    BY <2>1, PcNext
  <2>3. ahead' = Tail(ahead)
    BY <1>4 DEF FetchLow, Then
  <2>4. pc' = Plus(ins.at, 2)
    BY <2>1, <2>2
  <2> QED
    BY <1>3, <2>3, <2>4, Zenon
<1>7. /\ Unwritten' /\ Cell(pc) \in DOMAIN first' /\ first'[Cell(pc)] = v
      /\ bus' = [does |-> "read", at |-> Cell(pc)]
      /\ cycles' = cycles + 1 /\ cmos' = cmos /\ reach' = reach /\ ins' = ins
  BY <1>5, ReadsKeep
<1>8. pc = Plus(ins.at, 1) /\ cycles' = 2
  BY <1>7 DEF ToLow, At
<1>9. Found(Plus(ins.at, 1))' /\ Operand(1)' = v
  BY <1>7, <1>8 DEF Found, Operand, Cell
<1>10. SparesAreHarmless' /\ WritesAreNamed'
  <2>1. 1 \in 0..MODE_SIZE[ins.mode]
    BY Instruction
  <2> QED
    BY <1>7, <1>8, <2>1, OwnByte
<1>11. HasAddress' /\ Proper' /\ At(2)' /\ Last' = Last
  BY <1>6, <1>7 DEF HasAddress, Proper, Indexed, At, Last, Use
<1>12. CASE ins.mode = "zeroPage"
  <2>1. Tail(Way[ins.mode]) = <<>> /\ ~Indexed
    BY <1>12 DEF Way, Indexed
  <2>2. ahead' = Last
    BY <1>1, <1>6, <2>1, Nothing
  <2>3. AllFound'
    BY <1>7, <1>9, <1>12 DEF AllFound, Through
  <2>4. addr' = Named'
    BY <1>5, <1>7, <1>9, <1>12 DEF Named
  <2>5. At(Size)' /\ cycles' = Reading[ins.mode] - 1
    BY <1>6, <1>7, <1>8, <1>12 DEF At, Size, MODE_SIZE, Reading
  <2>6. Reached'
    BY <1>7, <2>1, <2>2, <2>3, <2>4, <2>5, Arrived
  <2> QED
    BY <1>10, <2>6
<1>13. CASE ins.mode \in {"absolute", "absoluteX"}
  <2>0. Way[ins.mode] = <<"low", "high">>
    BY <1>13, WayIs
  <2>1. Tail(Way[ins.mode]) = <<"high">>
    BY <2>0
  <2>2. ToHigh'
    BY <1>5, <1>6, <1>7, <1>8, <1>9, <1>11, <1>13, <2>1 DEF ToHigh
  <2> QED
    BY <1>7, <1>10, <1>11, <2>2 DEF Forming
<1>14. CASE ins.mode = "zeroPageX"
  <2>1. Tail(Way[ins.mode]) = <<"spare">>
    BY <1>14, WayIs
  <2>2. ToSpare'
    BY <1>5, <1>6, <1>7, <1>8, <1>9, <1>11, <1>14, <2>1 DEF ToSpare
  <2> QED
    BY <1>7, <1>10, <1>11, <2>2 DEF Forming
<1>15. CASE ins.mode = "indexedIndirectX"
  <2>1. Tail(Way[ins.mode]) = <<"spare", "pointer", "pointerHigh">>
    BY <1>15, WayIs
  <2>2. ToSpare'
    BY <1>5, <1>6, <1>7, <1>8, <1>9, <1>11, <1>15, <2>1 DEF ToSpare
  <2> QED
    BY <1>7, <1>10, <1>11, <2>2 DEF Forming
<1>16. CASE ins.mode \in {"indirectIndexedY", "zeroPageIndirect"}
  <2>0. Way[ins.mode] = <<"low", "pointer", "pointerHigh">>
    BY <1>16, WayIs
  <2>1. Tail(Way[ins.mode]) = <<"pointer", "pointerHigh">>
    BY <2>0
  <2>2. addr' = Zero'
    BY <1>5, <1>7, <1>9, <1>16 DEF Zero
  <2>3. ToPointer'
    BY <1>6, <1>7, <1>8, <1>9, <1>11, <1>16, <2>1, <2>2 DEF ToPointer, Through
  <2> QED
    BY <1>7, <1>10, <1>11, <2>3 DEF Forming
<1> QED
  BY <1>12, <1>13, <1>14, <1>15, <1>16, Instruction DEF Through

\* The high byte of the operand, and the word they make.
LEMMA HighStep ==
  ASSUME TypeOK, HasAddress, Proper, Unwritten, ToHigh, Next
  PROVE  Reached' /\ SparesAreHarmless' /\ WritesAreNamed'
<1>1. ins # None /\ Last \in Seq(Work)
  BY Instruction, LastIs
<1>2. <<"high">> # <<>> /\ Head(<<"high">>) = "high" /\ Tail(<<"high">>) = <<>>
  OBVIOUS
<1>3. ahead # <<>> /\ Head(ahead) = "high" /\ Tail(ahead) = Last
  BY <1>1, <1>2, SomeWork, HeadOf, Nothing DEF ToHigh
<1>4. FetchHigh
  BY <1>1, <1>3, Acts
<1>5. PICK v \in Byte : Reads(pc, v) /\ Formed(Word(low, v))
  BY <1>4 DEF FetchHigh
<1>6. pc' = Plus(ins.at, 3)
  <2>1. At(2) /\ pc' = Plus(pc, 1)
    BY <1>4 DEF FetchHigh, ToHigh
  <2>2. Plus(pc, 1) = Plus(ins.at, 2 + 1)
    BY <2>1, PcNext
  <2> QED
    BY <2>1, <2>2
<1>7. /\ Remembers /\ Unwritten' /\ Cell(pc) \in DOMAIN first' /\ first'[Cell(pc)] = v
      /\ bus' = [does |-> "read", at |-> Cell(pc)]
      /\ cycles' = cycles + 1 /\ cmos' = cmos /\ reach' = reach /\ ins' = ins
  BY <1>5, ReadsKeep
<1>8. pc = Plus(ins.at, 2) /\ cycles' = 3
  BY <1>7 DEF ToHigh, At
<1>9. Found(Plus(ins.at, 2))' /\ Operand(2)' = v
  BY <1>7, <1>8 DEF Found, Operand, Cell
<1>10. Found(Plus(ins.at, 1))' /\ Operand(1)' = low
  BY <1>7, OperandKept DEF ToHigh
<1>11. ins.mode \in {"absolute", "absoluteX"}
  BY DEF ToHigh
<1>12. SparesAreHarmless' /\ WritesAreNamed'
  <2>1. 2 \in 0..MODE_SIZE[ins.mode]
    BY <1>11, Instruction
  <2> QED
    BY <1>7, <1>8, <2>1, OwnByte
<1>13. AllFound'
  BY <1>7, <1>9, <1>10, <1>11 DEF AllFound, Through
<1>14. Word(low, v) = Unindexed' /\ (~Indexed => Word(low, v) = Named')
  BY <1>7, <1>9, <1>10, <1>11 DEF Unindexed, Named, Indexed
<1>15. At(Size)' /\ cycles' = Reading[ins.mode] - 1
  BY <1>6, <1>7, <1>8, <1>11 DEF At, Size, MODE_SIZE, Reading
<1>16. Word(low, v) \in Address
  BY WordOfBytes DEF TypeOK
<1> QED
  BY <1>3, <1>5, <1>7, <1>12, <1>13, <1>14, <1>15, <1>16, FormedReaches

\* An index is added in page zero.
LEMMA SpareStep ==
  ASSUME TypeOK, HasAddress, Proper, Unwritten, ToSpare, Next
  PROVE  (Forming' \/ Reached') /\ SparesAreHarmless' /\ WritesAreNamed'
<1>1. ins # None /\ Last \in Seq(Work)
  BY Instruction, LastIs
<1> DEFINE left == IF ins.mode = "zeroPageX" THEN <<"spare">>
                                            ELSE <<"spare", "pointer", "pointerHigh">>
           then == IF ins.mode = "zeroPageX" THEN <<>> ELSE <<"pointer", "pointerHigh">>
<1>2. /\ left \in Seq(Work) /\ left # <<>> /\ Head(left) = "spare" /\ Tail(left) = then
      /\ ahead = left \o Last
  <2>1. CASE ins.mode = "zeroPageX"
    <3>1. ahead = <<"spare">> \o Last
      BY <2>1 DEF ToSpare
    <3> QED
      BY <2>1, <3>1, SomeWork
  <2>2. CASE ins.mode = "indexedIndirectX"
    <3>1. ahead = <<"spare", "pointer", "pointerHigh">> \o Last
      BY <2>2 DEF ToSpare
    <3> QED
      BY <2>2, <3>1, SomeWork
  <2> QED
    BY <2>1, <2>2 DEF ToSpare
<1> HIDE DEF left
<1>3. ahead # <<>> /\ Head(ahead) = "spare" /\ Tail(ahead) = Tail(left) \o Last
  BY <1>1, <1>2, HeadOf
<1>4. SpareInPageZero
  BY <1>1, <1>3, Acts
<1>5. /\ Looks(addr) /\ addr' = (addr + ins.index) % B
      /\ ahead' = then \o Last /\ pc' = pc
  BY <1>2, <1>3, <1>4 DEF SpareInPageZero, Then
<1>6. /\ mem' = mem /\ first' = first
      /\ bus' = [does |-> "read", at |-> Cell(addr)]
      /\ cycles' = cycles + 1 /\ cmos' = cmos /\ reach' = reach /\ ins' = ins
  BY <1>5, LooksKeep
<1>7. /\ Unwritten' /\ Found(Plus(ins.at, 1))' /\ Operand(1)' = Operand(1) /\ addr = Operand(1)
      /\ pc' = Plus(ins.at, 2) /\ cycles' = 3
      /\ HasAddress' /\ Proper' /\ Last' = Last
  BY <1>5, <1>6 DEF ToSpare, Unwritten, Found, Operand, Cell, At, HasAddress, Proper, Indexed,
                    Last, Use
<1>8. SparesAreHarmless' /\ WritesAreNamed'
  <2>1. addr \in Byte
    BY DEF ToSpare, TypeOK, Operand, Found
  <2>2. ins.mode \notin {"absolute", "absoluteX"}
    BY DEF ToSpare
  <2> QED
    BY <1>6, <2>1, <2>2, PageZero
<1>9. CASE ins.mode = "zeroPageX"
  <2>1. ahead' = Last /\ ~Indexed
    BY <1>1, <1>5, <1>9, Nothing DEF Indexed
  <2>2. AllFound' /\ addr' = Named'
    BY <1>5, <1>6, <1>7, <1>9 DEF AllFound, Through, Named
  <2>3. At(Size)' /\ cycles' = Reading[ins.mode] - 1
    BY <1>6, <1>7, <1>9 DEF At, Size, MODE_SIZE, Reading
  <2> QED
    BY <1>6, <1>7, <1>8, <2>1, <2>2, <2>3, Arrived
<1>10. CASE ins.mode = "indexedIndirectX"
  <2>1. ahead' = <<"pointer", "pointerHigh">> \o Last
    BY <1>5, <1>10
  <2>2. addr' = Zero'
    BY <1>5, <1>6, <1>7, <1>10 DEF Zero
  <2>3. ToPointer'
    BY <1>6, <1>7, <1>10, <2>1, <2>2 DEF ToPointer, Through, At
  <2> QED
    BY <1>7, <1>8, <2>3 DEF Forming
<1> QED
  BY <1>9, <1>10 DEF ToSpare

\* A pointer's byte is one of page zero.
LEMMA ZeroByte ==
  ASSUME TypeOK, Found(Plus(ins.at, 1))
  PROVE  Zero \in Byte /\ ((Zero + 1) % B) \in Byte
<1>1. Operand(1) \in Byte /\ ins.index \in Byte
  BY DEF TypeOK, Operand, Found
<1>2. B \in Nat \ {0} /\ Operand(1) + ins.index \in Int
  BY <1>1, Sizes DEF Byte
<1>3. ((Operand(1) + ins.index) % B) \in 0..(B - 1)
  BY <1>2, Remainder
<1>4. Zero \in Byte
  BY <1>1, <1>3 DEF Zero, Byte
<1> DEFINE z == Zero
<1>5. z + 1 \in Int
  BY <1>2, <1>4 DEF Byte
<1>6. ((z + 1) % B) \in 0..(B - 1)
  BY <1>2, <1>5, Remainder
<1> QED
  BY <1>4, <1>6 DEF Byte

\* The modes through a pointer end with its high byte.
LEMMA ThroughModes ==
  ASSUME ins.mode \in Through
  PROVE  /\ ins.mode \notin {"absolute", "absoluteX"}
         /\ Size = 2 /\ ins.mode \in DOMAIN Reading
  BY DEF Through, Size, MODE_SIZE, Reading

\* The low byte of the pointer is read.
LEMMA PointerStep ==
  ASSUME TypeOK, HasAddress, Proper, Unwritten, ToPointer, Next
  PROVE  Forming' /\ SparesAreHarmless' /\ WritesAreNamed'
<1>1. ins # None /\ Last \in Seq(Work)
  BY Instruction, LastIs
<1>2. /\ <<"pointer", "pointerHigh">> # <<>> /\ Head(<<"pointer", "pointerHigh">>) = "pointer"
      /\ Tail(<<"pointer", "pointerHigh">>) = <<"pointerHigh">>
  OBVIOUS
<1>3. ahead # <<>> /\ Head(ahead) = "pointer" /\ Tail(ahead) = <<"pointerHigh">> \o Last
  BY <1>1, <1>2, SomeWork, HeadOf DEF ToPointer
<1>4. PointerLow
  BY <1>1, <1>3, Acts
<1>5. PICK v \in Byte : Reads(addr, v) /\ low' = v
  BY <1>4 DEF PointerLow
<1>6. ahead' = <<"pointerHigh">> \o Last /\ pc' = pc /\ addr' = addr
  BY <1>3, <1>4 DEF PointerLow, Then
<1>7. /\ Remembers /\ Unwritten' /\ Cell(addr) \in DOMAIN first' /\ first'[Cell(addr)] = v
      /\ bus' = [does |-> "read", at |-> Cell(addr)]
      /\ cycles' = cycles + 1 /\ cmos' = cmos /\ reach' = reach /\ ins' = ins
  BY <1>5, ReadsKeep
<1>8. ins.mode \in Through /\ At(2) /\ Found(Plus(ins.at, 1)) /\ addr = Zero
  BY DEF ToPointer
<1>9. Found(Plus(ins.at, 1))' /\ Operand(1)' = Operand(1)
  BY <1>7, <1>8, OperandKept
<1>10. Zero' = Zero
  BY <1>7, <1>9 DEF Zero
<1>11. Found(Zero)' /\ low' = first'[Cell(Zero)']
  BY <1>5, <1>7, <1>8, <1>10 DEF Found, Cell
<1>12. HasAddress' /\ Proper' /\ At(2)' /\ Last' = Last
  BY <1>6, <1>7, <1>8 DEF HasAddress, Proper, Indexed, At, Last, Use
<1>13. cycles' = IF ins.mode = "indexedIndirectX" THEN 4 ELSE 3
  BY <1>7 DEF ToPointer
<1>14. ToPointerHigh'
  BY <1>6, <1>7, <1>8, <1>9, <1>10, <1>11, <1>12, <1>13 DEF ToPointerHigh
<1>15. SparesAreHarmless' /\ WritesAreNamed'
  BY <1>7, <1>8, ZeroByte, ThroughModes, PageZero
<1> QED
  BY <1>7, <1>12, <1>14, <1>15 DEF Forming

\* The high byte of the pointer, and the address they make.
LEMMA PointerHighStep ==
  ASSUME TypeOK, HasAddress, Proper, Unwritten, ToPointerHigh, Next
  PROVE  Reached' /\ SparesAreHarmless' /\ WritesAreNamed'
<1>1. ins # None /\ Last \in Seq(Work)
  BY Instruction, LastIs
<1>2. /\ <<"pointerHigh">> # <<>> /\ Head(<<"pointerHigh">>) = "pointerHigh"
      /\ Tail(<<"pointerHigh">>) = <<>>
  OBVIOUS
<1>3. ahead # <<>> /\ Head(ahead) = "pointerHigh" /\ Tail(ahead) = Last
  BY <1>1, <1>2, SomeWork, HeadOf, Nothing DEF ToPointerHigh
<1>4. PointerHigh
  BY <1>1, <1>3, Acts
<1>5. PICK v \in Byte : Reads((addr + 1) % B, v) /\ Formed(Word(low, v))
  BY <1>4 DEF PointerHigh
<1>6. pc' = pc
  BY <1>4 DEF PointerHigh
<1> DEFINE z == (Zero + 1) % B
<1>7. /\ ins.mode \in Through /\ At(2) /\ Found(Plus(ins.at, 1)) /\ addr = Zero
      /\ Found(Zero) /\ low = first[Cell(Zero)]
  BY DEF ToPointerHigh
<1>8. Reads(z, v)
  BY <1>5, <1>7
<1> HIDE DEF z
<1>9. /\ Remembers /\ Unwritten' /\ Cell(z) \in DOMAIN first' /\ first'[Cell(z)] = v
      /\ bus' = [does |-> "read", at |-> Cell(z)]
      /\ cycles' = cycles + 1 /\ cmos' = cmos /\ reach' = reach /\ ins' = ins
  BY <1>8, ReadsKeep
<1>10. Found(Plus(ins.at, 1))' /\ Operand(1)' = Operand(1)
  BY <1>7, <1>9, OperandKept
<1>11. Zero' = Zero
  BY <1>9, <1>10 DEF Zero
<1>12. Cell(Zero)' = Cell(Zero) /\ Found(Zero)' /\ first'[Cell(Zero)] = low
  BY <1>7, <1>9, <1>11 DEF Found, Remembers, Cell
<1>13. Found((Zero + 1) % B)' /\ first'[Cell((Zero + 1) % B)'] = v
  BY <1>9, <1>11 DEF Found, Cell, z
<1>14. Pointer(Zero)' = Word(low, v)
  BY <1>11, <1>12, <1>13 DEF Pointer, Word
<1>15. AllFound'
  BY <1>7, <1>9, <1>10, <1>12, <1>13, ThroughModes DEF AllFound
<1>16. /\ Indexed => Word(low, v) = Unindexed'
       /\ ~Indexed => Word(low, v) = Named'
  BY <1>7, <1>9, <1>14 DEF Through, Indexed, Unindexed, Named, Zero
<1>17. At(Size)' /\ cycles' = Reading[ins.mode] - 1
  <2>1. cycles' = IF ins.mode = "indexedIndirectX" THEN 5 ELSE 4
    BY <1>9 DEF ToPointerHigh
  <2>2. Reading[ins.mode] = IF ins.mode = "indexedIndirectX" THEN 6 ELSE 5
    BY <1>7 DEF Through, Reading
  <2>3. Size' = 2
    BY <1>7, <1>9, ThroughModes DEF Size
  <2> QED
    BY <1>6, <1>7, <1>9, <2>1, <2>2, <2>3 DEF At
<1>18. Word(low, v) \in Address
  BY WordOfBytes DEF TypeOK
<1>19. SparesAreHarmless' /\ WritesAreNamed'
  <2>1. z \in Byte
    BY <1>7, ZeroByte DEF z
  <2> QED
    BY <1>7, <1>9, <2>1, ThroughModes, PageZero
<1> QED
  BY <1>3, <1>5, <1>9, <1>15, <1>16, <1>17, <1>18, <1>19, FormedReaches

-----------------------------------------------------------------------------
(* At its address.                                                         *)

\* A cycle at the address that leaves the rest of an instruction as it was.
LEMMA StillReached ==
  ASSUME HasAddress, Reached, Remembers, ins' = ins, cmos' = cmos, reach' = reach,
         pc' = pc, addr' = addr, base' = base, cycles' = cycles + 1, cycles \in Nat,
         NEW len \in Nat, Len(ahead) = len + 1, Len(ahead') = len,
         \/ Unwritten' /\ ahead' = Use
         \/ Partway'
  PROVE  Reached' /\ Named' = Named /\ Crosses' = Crosses
<1>1. /\ AllFound /\ Proper /\ addr = Named /\ (Indexed => base = Unindexed) /\ At(Size)
      /\ cycles + Len(ahead) = Printed
  BY DEF Reached
<1>2. /\ AllFound' /\ Named' = Named /\ (Indexed => Unindexed' = Unindexed)
      /\ Indexed' = Indexed /\ Crosses' = Crosses
  BY <1>1, NamedKept
<1>3. HasAddress' /\ Proper' /\ Use' = Use
  BY <1>1, <1>2 DEF HasAddress, Proper, Use
<1>4. At(Size)'
  BY <1>1 DEF At, Size
<1>5. Printed' = Printed
  BY <1>2 DEF Printed, Indexed
<1>6. cycles' + Len(ahead') = Printed'
  BY <1>1, <1>5
<1> QED
  BY <1>1, <1>2, <1>3, <1>4, <1>6 DEF Reached

\* The cycle in which its address is corrected.
LEMMA CarryStep ==
  ASSUME TypeOK, Reached, Next, Unwritten, Indexed, ahead = <<"carry">> \o Use
  PROVE  Reached' /\ SparesAreHarmless' /\ WritesAreNamed'
<1>0. HasAddress
  BY DEF Reached
<1>1. ins # None /\ Use \in Seq(Work) /\ Len(Use) \in Nat
  BY <1>0, Instruction, LastIs
<1>2. /\ <<"carry">> # <<>> /\ Head(<<"carry">>) = "carry" /\ Tail(<<"carry">>) = <<>>
      /\ Len(<<"carry">>) = 1
  OBVIOUS
<1>3. ahead # <<>> /\ Head(ahead) = "carry" /\ Tail(ahead) = Use
  BY <1>1, <1>2, SomeWork, HeadOf, Nothing
<1>4. Len(ahead) = Len(Use) + 1
  <2>1. Len(ahead) = 1 + Len(Use)
    BY <1>1, <1>2, SomeWork, ConcatProperties
  <2> QED
    BY <1>1, <2>1
<1>5. Carry
  BY <1>1, <1>3, Acts
<1>6. /\ Looks(spare_for_index) /\ ahead' = Use
      /\ pc' = pc /\ low' = low /\ base' = base /\ addr' = addr
  BY <1>3, <1>5 DEF Carry, Then, forming
<1>7. /\ mem' = mem /\ first' = first
      /\ bus' = [does |-> "read", at |-> Cell(spare_for_index)]
      /\ cycles' = cycles + 1 /\ cmos' = cmos /\ reach' = reach /\ ins' = ins
  BY <1>6, LooksKeep
<1>8. Remembers /\ Unwritten' /\ cycles \in Nat
  BY <1>7 DEF Remembers, Unwritten, TypeOK
<1>9. Reached' /\ Named' = Named /\ Crosses' = Crosses
  <2> DEFINE len == Len(Use)
  <2>1. len \in Nat /\ Len(ahead) = len + 1 /\ Len(ahead') = len
    BY <1>1, <1>4, <1>6
  <2> HIDE DEF len
  <2> QED
    BY <1>0, <1>6, <1>7, <1>8, <2>1, StillReached
<1>10. WritesAreNamed'
  BY <1>7 DEF WritesAreNamed
<1>11. /\ AllFound /\ addr = Named /\ base = Unindexed /\ At(Size)
  BY DEF Reached
<1>12. CASE cmos
  <2> DEFINE n == MODE_SIZE[ins.mode]
  <2>1. n \in 0..n /\ n \in Nat /\ pc = Plus(ins.at, 1 + n)
    BY <1>0, <1>11, Instruction DEF At
  <2>2. spare_for_index = Plus(pc, -1)
    BY <1>12 DEF spare_for_index
  <2>3. Plus(pc, -1) = Plus(ins.at, n)
    <3>1. ins.at \in Int /\ 1 + n \in Int
      BY <2>1, Sizes DEF TypeOK, Address
    <3>2. ASSUME NEW k \in Int, k = 0 - 1
          PROVE  Plus(pc, k) = Plus(ins.at, n)
      <4>1. (1 + n) + k = n
        BY <2>1, <3>2
      <4> HIDE DEF n
      <4>2. Plus(Plus(ins.at, 1 + n), k) = Plus(ins.at, (1 + n) + k)
        BY <3>1, <3>2, PlusPlus
      <4> QED
        BY <2>1, <4>1, <4>2
    <3> HIDE DEF n
    <3> QED
      BY <3>2
  <2>4. bus' = [does |-> "read", at |-> Cell(Plus(ins.at, n))] /\ n \in 0..MODE_SIZE[ins.mode]
    BY <1>7, <2>1, <2>2, <2>3
  <2> HIDE DEF n
  <2>5. SparesAreHarmless'
    BY <1>7, <2>4, OwnByte
  <2> QED
    BY <1>9, <1>10, <2>5
<1>13. CASE ~cmos
  <2>1. spare_for_index = Uncorrected(Unindexed, Named)
    BY <1>11, <1>13 DEF spare_for_index
  <2>2. Indexed' /\ Unindexed' = Unindexed /\ Named' = Named
    BY <1>0, <1>7, <1>8, <1>11, NamedKept
  <2>3. bus'.at = Cell(Uncorrected(Unindexed, Named))'
    BY <1>7, <2>1, <2>2 DEF Cell
  <2>4. bus'.does = "read" /\ ~cmos'
    BY <1>7, <1>13
  <2> QED
    BY <1>9, <1>10, <2>2, <2>3, <2>4 DEF SparesAreHarmless
<1> QED
  BY <1>9, <1>10, <1>12, <1>13

\* A read there is harmless, and so is a write.
LEMMA ThereHarmless ==
  ASSUME addr = Named, Named' = Named, reach' = reach, ins' = ins,
         NEW does, bus' = [does |-> does, at |-> Cell(addr)]
  PROVE  /\ SparesAreHarmless'
         /\ bus'.does = does /\ bus'.at = Cell(Named)'
         /\ does # "write" => WritesAreNamed'
<1>1. bus'.does = does /\ bus'.at = Cell(Named)'
  BY DEF Cell
<1> QED
  BY <1>1 DEF SparesAreHarmless, WritesAreNamed

\* It looks at it.
LEMMA LookStep ==
  ASSUME TypeOK, Reached, Next, ahead # <<>>, Head(ahead) = "look",
         NEW len \in Nat, Len(ahead) = len + 1, Len(Tail(ahead)) = len,
         \/ Tail(ahead) = <<>>
         \/ ins.kind = "sum" /\ Tail(ahead) = <<"look">>
  PROVE  Reached' /\ SparesAreHarmless' /\ WritesAreNamed'
<1>0. HasAddress /\ addr = Named
  BY DEF Reached
<1>1. Dead
  BY <1>0, Instruction, Acts
<1>2. /\ Looks(addr) /\ ahead' = Tail(ahead)
      /\ pc' = pc /\ base' = base /\ addr' = addr
  BY <1>1, DeadDoes
<1>3. /\ mem' = mem /\ first' = first
      /\ bus' = [does |-> "read", at |-> Cell(addr)]
      /\ cycles' = cycles + 1 /\ cmos' = cmos /\ reach' = reach /\ ins' = ins
  BY <1>2, LooksKeep
<1>4. Remembers /\ cycles \in Nat
  BY <1>3 DEF Remembers, TypeOK
<1>5. Partway' /\ Len(ahead') = len
  BY <1>2, <1>3 DEF Partway
<1>6. Reached' /\ Named' = Named
  BY <1>0, <1>2, <1>3, <1>4, <1>5, StillReached
<1> QED
  BY <1>0, <1>3, <1>6, ThereHarmless

\* It reads the byte it is to work on.
LEMMA HeldStep ==
  ASSUME TypeOK, Reached, Next, Unwritten, ins.kind \in {"modify", "shift"},
         ahead = <<"held", "settle", "write">>
  PROVE  Reached' /\ SparesAreHarmless' /\ WritesAreNamed'
<1>0. HasAddress /\ addr = Named
  BY DEF Reached
<1>1. Held
  BY <1>0, Instruction, Acts
<1>2. PICK v \in Byte : Reads(addr, v) /\ low' = v
  BY <1>1 DEF Held
<1>3. /\ ahead' = <<"settle", "write">>
      /\ pc' = pc /\ base' = base /\ addr' = addr
  BY <1>1 DEF Held, Then
<1>4. /\ Remembers /\ Unwritten' /\ Cell(addr) \in DOMAIN first' /\ first'[Cell(addr)] = v
      /\ bus' = [does |-> "read", at |-> Cell(addr)]
      /\ cycles' = cycles + 1 /\ cmos' = cmos /\ reach' = reach /\ ins' = ins
  BY <1>2, ReadsKeep
<1>5. Cell(addr)' = Cell(addr) /\ Found(addr)' /\ low' = first'[Cell(addr)]
  BY <1>2, <1>3, <1>4 DEF Found, Cell
<1>6. Partway'
  BY <1>3, <1>4, <1>5 DEF Partway
<1>7. Len(ahead) = 2 + 1 /\ Len(ahead') = 2 /\ cycles \in Nat
  BY <1>3 DEF TypeOK
<1>8. Reached' /\ Named' = Named
  BY <1>0, <1>3, <1>4, <1>6, <1>7, StillReached
<1> QED
  BY <1>0, <1>4, <1>8, ThereHarmless

\* It works on it.
LEMMA SettleStep ==
  ASSUME TypeOK, Reached, Next, ins.kind \in {"modify", "shift"}, ahead = <<"settle", "write">>,
         Unwritten, Found(addr), low = first[Cell(addr)]
  PROVE  Reached' /\ SparesAreHarmless' /\ WritesAreNamed'
<1>0. HasAddress /\ addr = Named /\ low \in Byte /\ cycles \in Nat
  BY DEF Reached, TypeOK
<1>1. Settle
  BY <1>0, Instruction, Acts
<1>2. /\ ahead' = <<"write">>
      /\ pc' = pc /\ base' = base /\ addr' = addr
  BY <1>1 DEF Settle, Then, forming
<1>3. Len(ahead) = 1 + 1 /\ Len(ahead') = 1
  BY <1>2
<1>4. CASE cmos
  <2>1. Looks(addr)
    BY <1>1, <1>4 DEF Settle
  <2>2. /\ mem' = mem /\ first' = first
        /\ bus' = [does |-> "read", at |-> Cell(addr)]
        /\ cycles' = cycles + 1 /\ cmos' = cmos /\ reach' = reach /\ ins' = ins
    BY <2>1, LooksKeep
  <2>3. Remembers /\ Partway'
    BY <1>2, <2>2 DEF Remembers, Partway
  <2>4. Reached' /\ Named' = Named
    BY <1>0, <1>2, <1>3, <2>2, <2>3, StillReached
  <2> QED
    BY <1>0, <2>2, <2>4, ThereHarmless
<1>5. CASE ~cmos
  <2>1. Writes(addr, low)
    BY <1>1, <1>5 DEF Settle
  <2>2. /\ Remembers /\ first' = first /\ mem'[Cell(addr)] = low
        /\ bus' = [does |-> "write", at |-> Cell(addr)]
        /\ cycles' = cycles + 1 /\ cmos' = cmos /\ reach' = reach /\ ins' = ins
    BY <1>0, <2>1, WritesKeep
  <2>3. Partway'
    BY <1>2, <2>2 DEF Partway
  <2>4. Reached' /\ Named' = Named
    BY <1>0, <1>2, <1>3, <2>2, <2>3, StillReached
  <2>5. /\ SparesAreHarmless'
        /\ bus'.does = "write" /\ bus'.at = Cell(Named)' /\ bus'.at = Cell(addr)
    BY <1>0, <2>2, <2>4, ThereHarmless
  <2>6. mem'[bus'.at] = first'[bus'.at]
    BY <2>2, <2>5
  <2> QED
    BY <2>2, <2>4, <2>5, <2>6 DEF WritesAreNamed
<1> QED
  BY <1>4, <1>5

\* It writes what it has made of it, or a register.
LEMMA WriteStep ==
  ASSUME TypeOK, Reached, Next, ins.kind \in {"write", "modify", "shift"}, ahead = <<"write">>
  PROVE  Reached' /\ SparesAreHarmless' /\ WritesAreNamed'
<1>0. HasAddress /\ addr = Named /\ cycles \in Nat
  BY DEF Reached, TypeOK
<1>1. Write
  BY <1>0, Instruction, Acts
<1>2. PICK v \in Byte : Writes(addr, v)
  BY <1>1 DEF Write
<1>3. /\ ahead' = <<>>
      /\ pc' = pc /\ base' = base /\ addr' = addr
  BY <1>1 DEF Write, Then, forming
<1>4. /\ Remembers
      /\ bus' = [does |-> "write", at |-> Cell(addr)]
      /\ cycles' = cycles + 1 /\ cmos' = cmos /\ reach' = reach /\ ins' = ins
  BY <1>2, WritesKeep
<1>5. Partway' /\ Len(ahead) = 0 + 1 /\ Len(ahead') = 0
  BY <1>3 DEF Partway
<1>6. Reached' /\ Named' = Named
  BY <1>0, <1>3, <1>4, <1>5, StillReached
<1>7. /\ SparesAreHarmless'
      /\ bus'.does = "write" /\ bus'.at = Cell(Named)'
  BY <1>0, <1>4, <1>6, ThereHarmless
<1> QED
  BY <1>3, <1>4, <1>6, <1>7 DEF WritesAreNamed

\* An unstable store may write to the page its value names.
LEMMA StoreStep ==
  ASSUME TypeOK, Reached, Next, ins.kind = "unstable", ahead = <<"store">>
  PROVE  Reached' /\ SparesAreHarmless' /\ WritesAreNamed'
<1>0. /\ HasAddress /\ addr = Named /\ cycles \in Nat /\ Indexed /\ base = Unindexed
      /\ addr \in Address
  BY DEF Reached, TypeOK, Proper
<1>1. Store
  BY <1>0, Instruction, Acts
<1>2. PICK v \in Byte, page \in Byte :
          /\ Writes(Word(Low(addr), page), v)
          /\ page = High(addr) \/ High(base) # High(addr)
  BY <1>0, <1>1, BytesOfWord DEF Store
<1>3. /\ ahead' = <<>>
      /\ pc' = pc /\ base' = base /\ addr' = addr
  BY <1>1 DEF Store, Then, forming
<1>4. /\ Remembers
      /\ bus' = [does |-> "write", at |-> Cell(Word(Low(addr), page))]
      /\ cycles' = cycles + 1 /\ cmos' = cmos /\ reach' = reach /\ ins' = ins
  BY <1>2, WritesKeep
<1>5. Partway' /\ Len(ahead) = 0 + 1 /\ Len(ahead') = 0
  BY <1>3 DEF Partway
<1>6. Reached' /\ Named' = Named /\ Crosses' = Crosses
  BY <1>0, <1>3, <1>4, <1>5, StillReached
<1>7. page = High(Named) \/ Crosses
  BY <1>0, <1>2 DEF Crosses
<1>8. bus'.does = "write" /\ bus'.at = Cell(Word(Low(Named), page))'
  BY <1>0, <1>4, <1>6 DEF Cell, Low, Word
<1>9. page = High(Named)' \/ Crosses'
  BY <1>6, <1>7 DEF High
<1> QED
  BY <1>4, <1>6, <1>8, <1>9 DEF WritesAreNamed, SparesAreHarmless

\* Each cycle there is one of those.
LEMMA ReachedStep ==
  ASSUME TypeOK, Reached, Next, ahead # <<>>
  PROVE  Reached' /\ SparesAreHarmless' /\ WritesAreNamed'
<1>1. HasAddress
  BY DEF Reached
<1>2. /\ ins.kind = "read" => Use = <<"look">>
      /\ ins.kind = "sum" => Use = <<"look", "look">>
      /\ ins.kind = "write" => Use = <<"write">>
      /\ ins.kind = "unstable" => Use = <<"store">>
      /\ ins.kind \in {"modify", "shift"} => Use = <<"held", "settle", "write">>
      /\ ins.kind \in {"read", "sum", "write", "modify", "shift", "unstable"}
  BY <1>1 DEF HasAddress, AtAddress, Use
<1>3. CASE Unwritten /\ Indexed /\ ahead = <<"carry">> \o Use
  BY <1>3, CarryStep
<1>4. CASE ahead = <<"look">>
  <2>1. Head(ahead) = "look" /\ Tail(ahead) = <<>> /\ Len(ahead) = 0 + 1 /\ Len(Tail(ahead)) = 0
    BY <1>4
  <2> QED
    BY <2>1, LookStep
<1>5. CASE ins.kind = "sum" /\ ahead = <<"look", "look">>
  <2>1. /\ Head(ahead) = "look" /\ Tail(ahead) = <<"look">> /\ Len(ahead) = 1 + 1
        /\ Len(Tail(ahead)) = 1
    BY <1>5
  <2> QED
    BY <1>5, <2>1, LookStep
<1>6. CASE Unwritten /\ ahead = Use
  BY <1>2, <1>4, <1>5, <1>6, HeldStep, WriteStep, StoreStep
<1>7. CASE Partway
  BY <1>4, <1>7, SettleStep, WriteStep DEF Partway
<1> QED
  BY <1>3, <1>6, <1>7 DEF Reached

-----------------------------------------------------------------------------
(* The other instructions, and interrupts.                                 *)

\* An instruction without an address, in the mode its opcode has in the table.
Elsewhere == ins.kind \in DOMAIN ModeOf /\ ins.mode = ModeOf[ins.kind]

\* The instruction goes on, and a cycle is spent on it.
Onward == ins' = ins /\ cmos' = cmos /\ reach' = reach /\ cycles' = cycles + 1

\* The registers stay as they are.
Rests == pc' = pc /\ s' = s /\ low' = low /\ base' = base /\ addr' = addr

\* The properties of writes and spare reads do not notice.
Unbothered == SparesAreHarmless' /\ WritesAreNamed'

\* No instruction is of both sorts.
LEMMA NotAddressed ==
  ASSUME Elsewhere
  PROVE  ins.kind \notin DOMAIN AtAddress /\ ins # None
  BY DEF Elsewhere, ModeOf, AtAddress, None

\* Their reads are not on the way to an operand.
LEMMA ReadElsewhere ==
  ASSUME Elsewhere, ins' = ins, NEW a, bus' = [does |-> "read", at |-> a]
  PROVE  Unbothered
<1>1. ins'.kind \notin DOMAIN AtAddress /\ bus'.does = "read"
  BY NotAddressed
<1> QED
  BY <1>1 DEF Unbothered, SparesAreHarmless, WritesAreNamed, Addressing

\* A dead cycle changes nothing but what is ahead.
LEMMA DeadStep ==
  ASSUME Elsewhere, Next, ahead # <<>>,
         Head(ahead) \in {"idle", "last", "top", "look", "jumpSpare"}
  PROVE  /\ Onward /\ Rests /\ Unbothered
         /\ mem' = mem /\ first' = first /\ ahead' = Tail(ahead)
<1>1. Dead
  BY NotAddressed, Acts
<1>2. ahead' = Tail(ahead) /\ Rests /\ \E a : Looks(a)
  BY <1>1, DeadDoes DEF Rests
<1>3. PICK a : Looks(a)
  BY <1>2
<1>4. /\ mem' = mem /\ first' = first /\ Onward
      /\ bus' = [does |-> "read", at |-> Cell(a)]
  BY <1>3, LooksKeep DEF Onward
<1>5. Unbothered
  BY <1>4, ReadElsewhere DEF Onward
<1> QED
  BY <1>2, <1>4, <1>5

\* The bytes of the instruction are fetched one after the other.
LEMMA LowFetched ==
  ASSUME TypeOK, Elsewhere, Next, ahead # <<>>, Head(ahead) = "low", NEW n \in Int, At(n)
  PROVE  /\ Onward /\ Unbothered /\ ahead' = Tail(ahead) /\ s' = s
         /\ Remembers /\ Agrees /\ At(n + 1)'
         /\ Unwritten => Unwritten' /\ Found(Plus(ins.at, n))' /\ low' = Operand(n)'
<1>1. FetchLow
  BY NotAddressed, Acts
<1>2. PICK v \in Byte : Reads(pc, v) /\ low' = v
  BY <1>1 DEF FetchLow
<1>3. pc' = Plus(pc, 1) /\ ahead' = Tail(ahead) /\ s' = s /\ pc = Plus(ins.at, n)
  BY <1>1 DEF FetchLow, Then, At
<1>4. /\ Remembers /\ Agrees /\ bus' = [does |-> "read", at |-> Cell(pc)] /\ Onward
      /\ Unwritten => Unwritten' /\ Cell(pc) \in DOMAIN first' /\ first'[Cell(pc)] = v
  BY <1>2, ReadsKeep DEF Onward
<1>5. Unbothered
  BY <1>4, ReadElsewhere DEF Onward
<1>6. At(n + 1)'
  BY <1>3, <1>4, PcNext DEF At, Onward
<1>7. Unwritten => Found(Plus(ins.at, n))' /\ low' = Operand(n)'
  BY <1>2, <1>3, <1>4 DEF Found, Operand, Cell, Onward
<1> QED
  BY <1>3, <1>4, <1>5, <1>6, <1>7

\* And the byte after that, which completes an operand.
LEMMA HighFetched ==
  ASSUME TypeOK, Elsewhere, Next, ahead # <<>>, Head(ahead) = "high", NEW n \in Int, At(n),
         Tail(ahead) = <<>> \/ Head(Tail(ahead)) # "index"
  PROVE  /\ Onward /\ Unbothered /\ ahead' = Tail(ahead) /\ s' = s /\ low' = low
         /\ Remembers /\ Agrees /\ At(n + 1)'
         /\ Unwritten => Unwritten' /\ Found(Plus(ins.at, n))' /\ addr' = Word(low, Operand(n)')
<1>1. FetchHigh
  BY NotAddressed, Acts
<1>2. PICK v \in Byte : Reads(pc, v) /\ Formed(Word(low, v))
  BY <1>1 DEF FetchHigh
<1>3. pc' = Plus(pc, 1) /\ s' = s /\ low' = low /\ pc = Plus(ins.at, n)
  BY <1>1 DEF FetchHigh, At
<1>4. ahead' = Tail(ahead) /\ addr' = Word(low, v)
  BY <1>2 DEF Formed
<1>5. /\ Remembers /\ Agrees /\ bus' = [does |-> "read", at |-> Cell(pc)] /\ Onward
      /\ Unwritten => Unwritten' /\ Cell(pc) \in DOMAIN first' /\ first'[Cell(pc)] = v
  BY <1>2, ReadsKeep DEF Onward
<1>6. Unbothered
  BY <1>5, ReadElsewhere DEF Onward
<1>7. At(n + 1)'
  BY <1>3, <1>5, PcNext DEF At, Onward
<1>8. Unwritten => Found(Plus(ins.at, n))' /\ v = Operand(n)'
  BY <1>3, <1>5 DEF Found, Operand, Cell, Onward
<1> QED
  BY <1>3, <1>4, <1>5, <1>6, <1>7, <1>8

\* A byte is pushed where the stack pointer was, and the pointer steps down.
LEMMA Pushed ==
  ASSUME TypeOK, Elsewhere, Next, ahead # <<>>, Head(ahead) \in {"push", "pushHigh", "pushLow"},
         ins.kind \in {"push", "jsr", "brk", "interrupt"}
  PROVE  /\ Onward /\ Unbothered /\ ahead' = Tail(ahead)
         /\ pc' = pc /\ low' = low /\ addr' = addr /\ s' = ((s - 1) % B) /\ ((s' + 1) % B) = s
         /\ Remembers
         /\ \A c \in DOMAIN mem :
               c \in DOMAIN mem' /\ (c # Cell(Stack(s)) => mem'[c] = mem[c])
         /\ Cell(Stack(s)) \in DOMAIN mem'
         /\ Head(ahead) = "pushHigh" => mem'[Cell(Stack(s))] = High(pc)
         /\ Head(ahead) = "pushLow" => mem'[Cell(Stack(s))] = Low(pc)
<1>1. Push
  BY NotAddressed, Acts
<1>2. High(pc) \in Byte /\ Low(pc) \in Byte /\ s \in Byte
  BY BytesOfWord DEF TypeOK
<1>3. PICK v \in Byte : /\ Writes(Stack(s), v)
                        /\ Head(ahead) = "pushHigh" => v = High(pc)
                        /\ Head(ahead) = "pushLow" => v = Low(pc)
  BY <1>1, <1>2 DEF Push, Values, Doing
<1>4. /\ Remembers /\ Onward
      /\ bus' = [does |-> "write", at |-> Cell(Stack(s))]
      /\ Cell(Stack(s)) \in DOMAIN mem' /\ mem'[Cell(Stack(s))] = v
      /\ \A c \in DOMAIN mem :
            c \in DOMAIN mem' /\ (c # Cell(Stack(s)) => mem'[c] = mem[c])
  BY <1>3, WritesKeep DEF Onward
<1>5. /\ ahead' = Tail(ahead) /\ s' = ((s - 1) % B)
      /\ pc' = pc /\ low' = low /\ addr' = addr
  BY <1>1 DEF Push, Then, forming
<1>6. ((s' + 1) % B) = s
  <2>1. ASSUME NEW k \in Int, k = 0 - 1
        PROVE  ((((s + k) % B) + 1) % B) = s
    <3>1. k + 1 = 0
      BY <2>1
    <3>2. ((((s + k) % B) + 1) % B) = ((s + (k + 1)) % B) /\ ((s + 0) % B) = s
      BY <1>2, <2>1, StackRing
    <3> QED
      BY <3>1, <3>2
  <2>2. \A k \in Int : k = 0 - 1 => s - 1 = s + k
    BY <1>2, Sizes DEF Byte
  <2> QED
    BY <1>5, <2>1, <2>2
<1>7. Unbothered
  <2>1. ins'.kind \notin DOMAIN AtAddress /\ bus'.does = "write"
    BY <1>4, NotAddressed DEF Onward
  <2>2. bus'.at = Cell(Stack((s + 1) % B))'
    BY <1>4, <1>6 DEF Cell, Stack, Word, Onward
  <2> QED
    BY <1>4, <2>1, <2>2 DEF Unbothered, SparesAreHarmless, WritesAreNamed, Addressing, Onward
<1> QED
  BY <1>3, <1>4, <1>5, <1>6, <1>7

-----------------------------------------------------------------------------
(* Those that go nowhere but to the next.                                  *)

\* What is left, what is spent, and how many of its bytes are behind it.
Row(left, spent, n) == ahead = left /\ cycles = spent /\ At(n)

Plain ==
    /\ Elsewhere
    /\ \/ /\ ins.kind = "implied"
          /\ Row(<<"idle">>, 1, 1) \/ Row(<<>>, 2, 1)
       \/ /\ ins.kind = "immediate"
          /\ Row(<<"low">>, 1, 1) \/ Row(<<>>, 2, 2)
       \/ /\ ins.kind = "push"
          /\ Row(<<"idle", "push">>, 1, 1) \/ Row(<<"push">>, 2, 1) \/ Row(<<>>, 3, 1)
       \/ /\ ins.kind = "pull"
          /\ \/ Row(<<"idle", "top", "pull">>, 1, 1) \/ Row(<<"top", "pull">>, 2, 1)
             \/ Row(<<"pull">>, 3, 1) \/ Row(<<>>, 4, 1)
       \/ /\ ins.kind = "nop1"
          /\ Row(<<>>, 1, 1)
       \/ /\ ins.kind = "nop3"
          /\ Row(<<"low", "high">>, 1, 1) \/ Row(<<"high">>, 2, 2) \/ Row(<<>>, 3, 3)
       \/ /\ ins.kind = "nopX"
          /\ \/ Row(<<"low", "high", "last">>, 1, 1) \/ Row(<<"high", "last">>, 2, 2)
             \/ Row(<<"last">>, 3, 3) \/ Row(<<>>, 4, 3)
       \/ /\ ins.kind = "sumImmediate"
          /\ Row(<<"low", "last">>, 1, 1) \/ Row(<<"last">>, 2, 2) \/ Row(<<>>, 3, 2)

\* From one row to the next.
LEMMA RowStep ==
  ASSUME TypeOK, Elsewhere, Next, NEW n \in Int, At(n), ahead # <<>>,
         \/ Head(ahead) \in {"idle", "last", "top", "low", "pull"}
         \/ Head(ahead) = "push" /\ ins.kind = "push"
         \/ Head(ahead) = "high" /\ (Tail(ahead) = <<>> \/ Head(Tail(ahead)) # "index")
  PROVE  /\ Unbothered /\ Onward
         /\ ahead' = Tail(ahead)
         /\ pc' = Plus(ins'.at, IF Head(ahead) \in {"low", "high"} THEN n + 1 ELSE n)
<1>2. CASE Head(ahead) \in {"idle", "last", "top"}
  <2>1. /\ Onward /\ Rests /\ Unbothered /\ ahead' = Tail(ahead)
    BY <1>2, DeadStep
  <2> QED
    BY <1>2, <2>1 DEF Onward, Rests, At
<1>3. CASE Head(ahead) = "low"
  <2>1. /\ Onward /\ Unbothered /\ ahead' = Tail(ahead) /\ At(n + 1)'
    BY <1>3, LowFetched
  <2> QED
    BY <1>3, <2>1 DEF Onward, At
<1>4. CASE Head(ahead) = "high" /\ (Tail(ahead) = <<>> \/ Head(Tail(ahead)) # "index")
  <2>1. /\ Onward /\ Unbothered /\ ahead' = Tail(ahead) /\ At(n + 1)'
    BY <1>4, HighFetched
  <2> QED
    BY <1>4, <2>1 DEF Onward, At
<1>5. CASE Head(ahead) = "push" /\ ins.kind = "push"
  <2>1. /\ Onward /\ Unbothered /\ ahead' = Tail(ahead) /\ pc' = pc
    BY <1>5, Pushed
  <2> QED
    BY <1>5, <2>1 DEF Onward, At
<1>6. CASE Head(ahead) = "pull"
  <2>1. PullAside
    BY <1>6, NotAddressed, Acts
  <2>2. ahead' = Tail(ahead) /\ pc' = pc /\ Looks(Stack((s + 1) % B))
    BY <2>1 DEF PullAside, Then, forming
  <2>3. Onward /\ bus' = [does |-> "read", at |-> Cell(Stack((s + 1) % B))]
    BY <2>2, LooksKeep DEF Onward
  <2>4. Unbothered
    BY <2>3, ReadElsewhere DEF Onward
  <2> QED
    BY <1>6, <2>2, <2>3, <2>4 DEF Onward, At
<1> QED
  BY <1>2, <1>3, <1>4, <1>5, <1>6

\* Each of their cycles.
LEMMA PlainStep ==
  ASSUME TypeOK, Plain, Next, ahead # <<>>
  PROVE  Plain' /\ Unbothered
<1>0. Elsewhere
  BY DEF Plain
<1>1. CASE ins.kind = "implied"
  <2>1. CASE Row(<<"idle">>, 1, 1)
    <3>1. Unbothered /\ Onward /\ Row(<<>>, 2, 1)'
      BY <1>0, <1>1, <2>1, RowStep DEF Row, At, Onward
    <3> QED
      BY <1>0, <1>1, <3>1 DEF Plain, Elsewhere, Onward
  <2> QED
    BY <1>1, <2>1 DEF Plain, Row
<1>2. CASE ins.kind = "immediate"
  <2>1. CASE Row(<<"low">>, 1, 1)
    <3>1. Unbothered /\ Onward /\ Row(<<>>, 2, 2)'
      BY <1>0, <1>2, <2>1, RowStep DEF Row, At, Onward
    <3> QED
      BY <1>0, <1>2, <3>1 DEF Plain, Elsewhere, Onward
  <2> QED
    BY <1>2, <2>1 DEF Plain, Row
<1>3. CASE ins.kind = "push"
  <2>1. CASE Row(<<"idle", "push">>, 1, 1)
    <3>1. Unbothered /\ Onward /\ Row(<<"push">>, 2, 1)'
      BY <1>0, <1>3, <2>1, RowStep DEF Row, At, Onward
    <3> QED
      BY <1>0, <1>3, <3>1 DEF Plain, Elsewhere, Onward
  <2>2. CASE Row(<<"push">>, 2, 1)
    <3>1. Unbothered /\ Onward /\ Row(<<>>, 3, 1)'
      BY <1>0, <1>3, <2>2, RowStep DEF Row, At, Onward
    <3> QED
      BY <1>0, <1>3, <3>1 DEF Plain, Elsewhere, Onward
  <2> QED
    BY <1>3, <2>1, <2>2 DEF Plain, Row
<1>4. CASE ins.kind = "pull"
  <2>1. CASE Row(<<"idle", "top", "pull">>, 1, 1)
    <3>1. Unbothered /\ Onward /\ Row(<<"top", "pull">>, 2, 1)'
      BY <1>0, <1>4, <2>1, RowStep DEF Row, At, Onward
    <3> QED
      BY <1>0, <1>4, <3>1 DEF Plain, Elsewhere, Onward
  <2>2. CASE Row(<<"top", "pull">>, 2, 1)
    <3>1. Unbothered /\ Onward /\ Row(<<"pull">>, 3, 1)'
      BY <1>0, <1>4, <2>2, RowStep DEF Row, At, Onward
    <3> QED
      BY <1>0, <1>4, <3>1 DEF Plain, Elsewhere, Onward
  <2>3. CASE Row(<<"pull">>, 3, 1)
    <3>1. Unbothered /\ Onward /\ Row(<<>>, 4, 1)'
      BY <1>0, <1>4, <2>3, RowStep DEF Row, At, Onward
    <3> QED
      BY <1>0, <1>4, <3>1 DEF Plain, Elsewhere, Onward
  <2> QED
    BY <1>4, <2>1, <2>2, <2>3 DEF Plain, Row
<1>5. CASE ins.kind = "nop3"
  <2>1. CASE Row(<<"low", "high">>, 1, 1)
    <3>1. Unbothered /\ Onward /\ Row(<<"high">>, 2, 2)'
      BY <1>0, <1>5, <2>1, RowStep DEF Row, At, Onward
    <3> QED
      BY <1>0, <1>5, <3>1 DEF Plain, Elsewhere, Onward
  <2>2. CASE Row(<<"high">>, 2, 2)
    <3>1. Unbothered /\ Onward /\ Row(<<>>, 3, 3)'
      BY <1>0, <1>5, <2>2, RowStep DEF Row, At, Onward
    <3> QED
      BY <1>0, <1>5, <3>1 DEF Plain, Elsewhere, Onward
  <2> QED
    BY <1>5, <2>1, <2>2 DEF Plain, Row
<1>6. CASE ins.kind = "nopX"
  <2>1. CASE Row(<<"low", "high", "last">>, 1, 1)
    <3>1. Unbothered /\ Onward /\ Row(<<"high", "last">>, 2, 2)'
      BY <1>0, <1>6, <2>1, RowStep DEF Row, At, Onward
    <3> QED
      BY <1>0, <1>6, <3>1 DEF Plain, Elsewhere, Onward
  <2>2. CASE Row(<<"high", "last">>, 2, 2)
    <3>1. Unbothered /\ Onward /\ Row(<<"last">>, 3, 3)'
      BY <1>0, <1>6, <2>2, RowStep DEF Row, At, Onward
    <3> QED
      BY <1>0, <1>6, <3>1 DEF Plain, Elsewhere, Onward
  <2>3. CASE Row(<<"last">>, 3, 3)
    <3>1. Unbothered /\ Onward /\ Row(<<>>, 4, 3)'
      BY <1>0, <1>6, <2>3, RowStep DEF Row, At, Onward
    <3> QED
      BY <1>0, <1>6, <3>1 DEF Plain, Elsewhere, Onward
  <2> QED
    BY <1>6, <2>1, <2>2, <2>3 DEF Plain, Row
<1>7. CASE ins.kind = "sumImmediate"
  <2>1. CASE Row(<<"low", "last">>, 1, 1)
    <3>1. Unbothered /\ Onward /\ Row(<<"last">>, 2, 2)'
      BY <1>0, <1>7, <2>1, RowStep DEF Row, At, Onward
    <3> QED
      BY <1>0, <1>7, <3>1 DEF Plain, Elsewhere, Onward
  <2>2. CASE Row(<<"last">>, 2, 2)
    <3>1. Unbothered /\ Onward /\ Row(<<>>, 3, 2)'
      BY <1>0, <1>7, <2>2, RowStep DEF Row, At, Onward
    <3> QED
      BY <1>0, <1>7, <3>1 DEF Plain, Elsewhere, Onward
  <2> QED
    BY <1>7, <2>1, <2>2 DEF Plain, Row
<1> QED
  BY <1>1, <1>2, <1>3, <1>4, <1>5, <1>6, <1>7 DEF Plain, Row

\* They cost what is printed and end where the next instruction is.
LEMMA PlainOver ==
  ASSUME Plain, ahead = <<>>
  PROVE  ArrivesWhereDecoded /\ CyclesAsPrinted
<1> DEFINE n == Size
<1>1. /\ ins.kind = "implied" => cycles = 2 /\ n = 1 /\ At(1)
      /\ ins.kind = "immediate" => cycles = 2 /\ n = 2 /\ At(2)
      /\ ins.kind = "push" => cycles = 3 /\ n = 1 /\ At(1)
      /\ ins.kind = "pull" => cycles = 4 /\ n = 1 /\ At(1)
      /\ ins.kind = "nop1" => cycles = 1 /\ n = 1 /\ At(1)
      /\ ins.kind = "nop3" => cycles = 3 /\ n = 3 /\ At(3)
      /\ ins.kind = "nopX" => cycles = 4 /\ n = 3 /\ At(3)
      /\ ins.kind = "sumImmediate" => cycles = 3 /\ n = 2 /\ At(2)
  BY DEF Plain, Elsewhere, Row, Size, MODE_SIZE, ModeOf
<1>2. ins.kind \in {"implied", "immediate", "push", "pull", "nop1", "nop3", "nopX",
                    "sumImmediate"}
  BY DEF Plain
<1>3. pc = After
  <2>1. At(n)
    BY <1>1, <1>2
  <2> QED
    BY <2>1 DEF At, After
<1>4. cycles = Other[ins.kind]
  <2>1. /\ Other["implied"] = 2 /\ Other["immediate"] = 2 /\ Other["push"] = 3
        /\ Other["pull"] = 4 /\ Other["nop1"] = 1 /\ Other["nop3"] = 3 /\ Other["nopX"] = 4
        /\ Other["sumImmediate"] = 3
    BY DEF Other
  <2> HIDE DEF n
  <2> QED
    BY <1>1, <1>2, <2>1
<1>5. Printed = Other[ins.kind]
  BY <1>2 DEF Printed
<1> QED
  BY <1>2, <1>3, <1>4, <1>5 DEF ArrivesWhereDecoded, CyclesAsPrinted

-----------------------------------------------------------------------------
(* Branches.                                                               *)

\* Where a taken branch goes.
Target == Plus(After, Signed(Operand(Size - 1)))

Taken == Found(Plus(ins.at, Size - 1)) /\ addr = Target

Crossing == High(After) # High(addr)

Branching ==
    /\ Elsewhere
    /\ \/ ins.kind = "branch"
       \/ ins.kind = "branchOnBit" /\ cmos
    /\ \/ /\ Unwritten /\ ins.kind = "branchOnBit"
          /\ \/ Row(<<"low", "look", "settle", "offset">>, 1, 1)
             \/ Row(<<"look", "settle", "offset">>, 2, 2)
             \/ Row(<<"settle", "offset">>, 3, 2)
       \/ Unwritten /\ Row(<<"offset">>, Untaken - 1, Size - 1)
       \/ Row(<<>>, Untaken, Size)
       \/ Taken /\ ~Crossing /\ Row(<<"here">>, Untaken, Size)
       \/ Taken /\ Crossing /\ Row(<<"here", "there">>, Untaken, Size)
       \/ Taken /\ Crossing /\ Row(<<"there">>, Untaken + 1, Size)
       \/ /\ Taken /\ ahead = <<>> /\ pc = addr
          /\ cycles = Untaken + 1 + One(Crossing)

\* How long they are, and what the offset is fetched after.
LEMMA BranchSizes ==
  ASSUME Elsewhere, ins.kind \in {"branch", "branchOnBit"}
  PROVE  /\ ins.kind = "branch" => Size = 2 /\ Untaken = 2
         /\ ins.kind = "branchOnBit" => Size = 3 /\ Untaken = 5
         /\ Size \in {2, 3} /\ Size - 1 \in {1, 2} /\ (Size - 1) + 1 = Size
         /\ Untaken \in {2, 5} /\ (Untaken - 1) + 1 = Untaken
  BY DEF Elsewhere, ModeOf, Size, MODE_SIZE, Untaken

\* Where a branch goes does not change on the way there.
LEMMA TargetKept ==
  ASSUME Taken, Remembers, ins' = ins, reach' = reach, addr' = addr
  PROVE  Taken' /\ Target' = Target /\ After' = After /\ Crossing' = Crossing
<1>1. Size' = Size /\ After' = After /\ Untaken' = Untaken
  BY DEF Size, After, Untaken
<1> DEFINE n == Size - 1
<1>2. Found(Plus(ins.at, n))
  BY DEF Taken
<1>3. Found(Plus(ins.at, n))' /\ Operand(n)' = Operand(n)
  BY <1>1, <1>2 DEF Remembers, Found, Cell, Operand
<1>4. Target' = Target
  BY <1>1, <1>3 DEF Target
<1> QED
  BY <1>1, <1>3, <1>4 DEF Taken, Crossing

\* The bit of a byte in page zero is looked at before the offset is fetched.
LEMMA BitStep ==
  ASSUME TypeOK, Branching, Next, Unwritten, ins.kind = "branchOnBit",
         \/ Row(<<"low", "look", "settle", "offset">>, 1, 1)
         \/ Row(<<"look", "settle", "offset">>, 2, 2)
         \/ Row(<<"settle", "offset">>, 3, 2)
  PROVE  Branching' /\ Unbothered
<1>0. Elsewhere /\ cmos
  BY DEF Branching
<1>1. CASE Row(<<"low", "look", "settle", "offset">>, 1, 1)
  <2>1. ahead # <<>> /\ Head(ahead) = "low" /\ At(1) /\ cycles = 1
        /\ Tail(ahead) = <<"look", "settle", "offset">>
    BY <1>1 DEF Row
  <2>2. /\ Onward /\ Unbothered /\ ahead' = Tail(ahead) /\ At(1 + 1)' /\ Unwritten'
    BY <1>0, <2>1, LowFetched
  <2>3. Row(<<"look", "settle", "offset">>, 2, 2)'
    BY <2>1, <2>2 DEF Row, Onward
  <2> QED
    BY <1>0, <2>2, <2>3 DEF Branching, Elsewhere, Onward
<1>2. CASE Row(<<"look", "settle", "offset">>, 2, 2)
  <2>1. ahead # <<>> /\ Head(ahead) = "look" /\ At(2) /\ cycles = 2
        /\ Tail(ahead) = <<"settle", "offset">>
    BY <1>2 DEF Row
  <2>2. /\ Onward /\ Rests /\ Unbothered /\ ahead' = Tail(ahead)
        /\ mem' = mem /\ first' = first
    BY <1>0, <2>1, DeadStep
  <2>3. Row(<<"settle", "offset">>, 3, 2)' /\ Unwritten'
    BY <2>1, <2>2 DEF Row, Onward, Rests, At, Unwritten
  <2> QED
    BY <1>0, <2>2, <2>3 DEF Branching, Elsewhere, Onward
<1>3. CASE Row(<<"settle", "offset">>, 3, 2)
  <2>1. ahead # <<>> /\ Head(ahead) = "settle" /\ At(2) /\ cycles = 3
        /\ Tail(ahead) = <<"offset">>
    BY <1>3 DEF Row
  <2>2. Settle
    BY <1>0, <2>1, NotAddressed, Acts
  <2>3. Looks(addr) /\ ahead' = Tail(ahead) /\ pc' = pc
    BY <1>0, <2>2 DEF Settle, Then, forming
  <2>4. /\ mem' = mem /\ first' = first /\ Onward
        /\ bus' = [does |-> "read", at |-> Cell(addr)]
    BY <2>3, LooksKeep DEF Onward
  <2>5. Unbothered
    BY <1>0, <2>4, ReadElsewhere DEF Onward
  <2>6. Row(<<"offset">>, 4, 2)' /\ Unwritten'
    BY <2>1, <2>3, <2>4 DEF Row, Onward, At, Unwritten
  <2>7. Size' - 1 = 2 /\ Untaken' - 1 = 4
    <3>1. Size' = Size /\ Untaken' = Untaken
      BY <2>4 DEF Size, Untaken, Onward
    <3> QED
      BY <1>0, <3>1, BranchSizes
  <2>8. Row(<<"offset">>, Untaken - 1, Size - 1)'
    BY <2>6, <2>7 DEF Row, At
  <2> QED
    BY <1>0, <2>4, <2>5, <2>6, <2>8 DEF Branching, Elsewhere, Onward
<1> QED
  BY <1>1, <1>2, <1>3

\* The offset is fetched, and the branch is taken or not.
LEMMA OffsetStep ==
  ASSUME TypeOK, Branching, Next, Unwritten, Row(<<"offset">>, Untaken - 1, Size - 1)
  PROVE  Branching' /\ Unbothered
<1>0. Elsewhere /\ ins.kind \in {"branch", "branchOnBit"}
      /\ (ins.kind = "branch" \/ (ins.kind = "branchOnBit" /\ cmos))
  BY DEF Branching
<1> DEFINE size == Size
           n == Size - 1
           untaken == Untaken
<1>1. size \in {2, 3} /\ n \in {1, 2} /\ n + 1 = size /\ untaken \in {2, 5}
      /\ (untaken - 1) + 1 = untaken
  BY <1>0, BranchSizes
<1>2. ahead # <<>> /\ Head(ahead) = "offset" /\ pc = Plus(ins.at, n) /\ cycles = untaken - 1
  BY DEF Row, At
<1>3. Offset
  BY <1>0, <1>2, NotAddressed, Acts
<1>4. PICK v \in Byte :
          /\ Reads(pc, v)
          /\ \/ ahead' = <<>> /\ addr' = addr
             \/ /\ ahead' = IF High(pc') = High(Plus(pc', Signed(v))) THEN <<"here">>
                                                                    ELSE <<"here", "there">>
                /\ addr' = Plus(pc', Signed(v))
  BY <1>3 DEF Offset
<1>5. pc' = Plus(ins.at, size) /\ pc' = After
  <2>1. At(n) /\ n \in Int /\ pc' = Plus(pc, 1)
    BY <1>1, <1>2, <1>3 DEF Offset, At
  <2> HIDE DEF n
  <2>2. Plus(pc, 1) = Plus(ins.at, n + 1)
    BY <2>1, PcNext
  <2> QED
    BY <1>1, <2>1, <2>2 DEF After
<1>6. /\ Remembers /\ bus' = [does |-> "read", at |-> Cell(pc)] /\ Onward
      /\ Cell(pc) \in DOMAIN first' /\ first'[Cell(pc)] = v
  BY <1>4, ReadsKeep DEF Onward
<1>7. Unbothered
  BY <1>0, <1>6, ReadElsewhere DEF Onward
<1>8. Size' = Size /\ Untaken' = Untaken /\ After' = After /\ Elsewhere'
  BY <1>0, <1>6 DEF Size, Untaken, After, Onward, Elsewhere
<1>9. cycles' = untaken
  BY <1>1, <1>2, <1>6 DEF Onward
<1>10. At(Size)' /\ cycles' = Untaken'
  BY <1>5, <1>6, <1>8, <1>9 DEF At, Onward
<1>11. CASE ahead' = <<>>
  <2>1. Row(<<>>, Untaken, Size)'
    BY <1>10, <1>11 DEF Row
  <2> QED
    BY <1>0, <1>6, <1>7, <1>8, <2>1 DEF Branching, Onward
<1>12. CASE /\ ahead' = IF High(pc') = High(Plus(pc', Signed(v))) THEN <<"here">>
                                                                  ELSE <<"here", "there">>
            /\ addr' = Plus(pc', Signed(v))
  <2>1. Found(Plus(ins.at, Size - 1))' /\ Operand(Size - 1)' = v
    BY <1>2, <1>6, <1>8 DEF Found, Operand, Cell, Onward
  <2>2. Taken'
    BY <1>5, <1>8, <1>12, <2>1 DEF Taken, Target
  <2>3. Crossing' <=> High(pc') # High(addr')
    BY <1>5, <1>8 DEF Crossing
  <2>4. \/ ~Crossing' /\ Row(<<"here">>, Untaken, Size)'
        \/ Crossing' /\ Row(<<"here", "there">>, Untaken, Size)'
    BY <1>10, <1>12, <2>3 DEF Row
  <2> QED
    BY <1>0, <1>6, <1>7, <1>8, <2>2, <2>4 DEF Branching, Onward
<1> QED
  BY <1>4, <1>11, <1>12

\* A branch that is taken.
LEMMA TakenStep ==
  ASSUME TypeOK, Branching, Next, Taken,
         \/ ~Crossing /\ Row(<<"here">>, Untaken, Size)
         \/ Crossing /\ Row(<<"here", "there">>, Untaken, Size)
         \/ Crossing /\ Row(<<"there">>, Untaken + 1, Size)
  PROVE  Branching' /\ Unbothered
<1>0. Elsewhere /\ (ins.kind = "branch" \/ (ins.kind = "branchOnBit" /\ cmos))
  BY DEF Branching
<1>1. ahead # <<>> /\ Head(ahead) \in {"here", "there"} /\ At(Size)
  BY DEF Row
<1>2. Branch
  BY <1>0, <1>1, NotAddressed, Acts
<1>3. /\ \E a : Looks(a)
      /\ ahead' = Tail(ahead) /\ addr' = addr
      /\ pc' = IF Len(ahead) = 1 THEN addr ELSE pc
  BY <1>2 DEF Branch, Then, forming
<1>4. PICK a : Looks(a)
  BY <1>3
<1>5. /\ mem' = mem /\ first' = first /\ Onward
      /\ bus' = [does |-> "read", at |-> Cell(a)]
  BY <1>4, LooksKeep DEF Onward
<1>6. Unbothered
  BY <1>0, <1>5, ReadElsewhere DEF Onward
<1>7. Remembers
  BY <1>5 DEF Remembers
<1>8. /\ Taken' /\ After' = After /\ Crossing' = Crossing
  BY <1>3, <1>5, <1>7, TargetKept DEF Onward
<1>9. Size' = Size /\ Untaken' = Untaken /\ Elsewhere' /\ Untaken \in {2, 5}
  BY <1>0, <1>5, BranchSizes DEF Size, Untaken, Onward, Elsewhere
<1> DEFINE untaken == Untaken
<1>10. CASE ~Crossing /\ Row(<<"here">>, Untaken, Size)
  <2>1. ahead' = <<>> /\ pc' = addr' /\ cycles = untaken
    BY <1>3, <1>10 DEF Row
  <2>2. cycles' = untaken + 1 + 0
    BY <1>5, <1>9, <2>1 DEF Onward
  <2>3. One(Crossing)' = 0
    BY <1>8, <1>10 DEF One
  <2>4. cycles' = Untaken' + 1 + One(Crossing)'
    BY <1>9, <2>2, <2>3
  <2> QED
    BY <1>0, <1>5, <1>6, <1>8, <1>9, <2>1, <2>4 DEF Branching, Onward
<1>11. CASE Crossing /\ Row(<<"here", "there">>, Untaken, Size)
  <2>1. ahead' = <<"there">> /\ pc' = pc /\ cycles = untaken
    BY <1>3, <1>11 DEF Row
  <2>2. cycles' = Untaken' + 1
    BY <1>5, <1>9, <2>1 DEF Onward
  <2>3. Row(<<"there">>, Untaken + 1, Size)'
    BY <1>1, <1>5, <1>9, <2>1, <2>2 DEF Row, At, Onward
  <2> QED
    BY <1>0, <1>5, <1>6, <1>8, <1>9, <1>11, <2>3 DEF Branching, Onward
<1>12. CASE Crossing /\ Row(<<"there">>, Untaken + 1, Size)
  <2>1. ahead' = <<>> /\ pc' = addr' /\ cycles = untaken + 1
    BY <1>3, <1>12 DEF Row
  <2>2. cycles' = untaken + 1 + 1
    BY <1>5, <1>9, <2>1 DEF Onward
  <2>3. One(Crossing)' = 1
    BY <1>8, <1>12 DEF One
  <2>4. cycles' = Untaken' + 1 + One(Crossing)'
    BY <1>9, <2>2, <2>3
  <2> QED
    BY <1>0, <1>5, <1>6, <1>8, <1>9, <2>1, <2>4 DEF Branching, Onward
<1> QED
  BY <1>10, <1>11, <1>12

\* Each cycle of a branch.
LEMMA BranchingStep ==
  ASSUME TypeOK, Branching, Next, ahead # <<>>
  PROVE  Branching' /\ Unbothered
<1>1. \/ /\ Unwritten /\ ins.kind = "branchOnBit"
         /\ \/ Row(<<"low", "look", "settle", "offset">>, 1, 1)
            \/ Row(<<"look", "settle", "offset">>, 2, 2)
            \/ Row(<<"settle", "offset">>, 3, 2)
      \/ Unwritten /\ Row(<<"offset">>, Untaken - 1, Size - 1)
      \/ Taken /\ ~Crossing /\ Row(<<"here">>, Untaken, Size)
      \/ Taken /\ Crossing /\ Row(<<"here", "there">>, Untaken, Size)
      \/ Taken /\ Crossing /\ Row(<<"there">>, Untaken + 1, Size)
  <2>1. ~Row(<<>>, Untaken, Size)
    BY DEF Row
  <2> QED
    BY <2>1 DEF Branching
<1> QED
  BY <1>1, BitStep, OffsetStep, TakenStep

\* A branch costs what is printed and ends where it is decoded to go.
LEMMA BranchingOver ==
  ASSUME Branching, ahead = <<>>
  PROVE  ArrivesWhereDecoded /\ CyclesAsPrinted
<1>0. Elsewhere /\ ins.kind \in {"branch", "branchOnBit"}
  BY DEF Branching
<1>1. Untaken \in {2, 5}
  BY <1>0, BranchSizes
<1> DEFINE untaken == Untaken
<1>2. \/ cycles = untaken /\ pc = After
      \/ /\ pc = addr /\ addr = Target
         /\ cycles = untaken + 1 + One(High(pc) # High(After))
  <2>1. \/ Row(<<>>, Untaken, Size)
        \/ Taken /\ pc = addr /\ cycles = Untaken + 1 + One(Crossing)
    <3>1. /\ ~Row(<<"low", "look", "settle", "offset">>, 1, 1)
          /\ ~Row(<<"look", "settle", "offset">>, 2, 2)
          /\ ~Row(<<"settle", "offset">>, 3, 2)
          /\ ~Row(<<"offset">>, Untaken - 1, Size - 1)
          /\ ~Row(<<"here">>, Untaken, Size)
          /\ ~Row(<<"here", "there">>, Untaken, Size)
          /\ ~Row(<<"there">>, Untaken + 1, Size)
      BY DEF Row
    <3> QED
      BY <3>1 DEF Branching
  <2>2. CASE Row(<<>>, Untaken, Size)
    BY <2>2 DEF Row, At, After
  <2>3. CASE Taken /\ pc = addr /\ cycles = Untaken + 1 + One(Crossing)
    <3>1. Crossing <=> High(pc) # High(After)
      BY <2>3 DEF Crossing
    <3>2. One(Crossing) = One(High(pc) # High(After))
      BY <3>1 DEF One
    <3> QED
      BY <2>3, <3>2 DEF Taken
  <2> QED
    BY <2>1, <2>2, <2>3
<1>3. CASE cycles = untaken /\ pc = After
  BY <1>0, <1>3 DEF ArrivesWhereDecoded, CyclesAsPrinted
<1>4. CASE /\ pc = addr /\ addr = Target
           /\ cycles = untaken + 1 + One(High(pc) # High(After))
  <2>1. cycles # Untaken
    BY <1>1, <1>4 DEF One
  <2> QED
    BY <1>0, <1>4, <2>1 DEF ArrivesWhereDecoded, CyclesAsPrinted, Target
<1> QED
  BY <1>2, <1>3, <1>4

-----------------------------------------------------------------------------
(* Jumps.                                                                  *)

\* The high byte of the new program counter is read.
LEMMA JumpStep ==
  ASSUME TypeOK, Elsewhere, Next, ahead # <<>>,
         Head(ahead) \in {"to", "vectorHigh", "jumpHigh"}, NEW a, a = HighAt[Head(ahead)]
  PROVE  /\ Onward /\ Unbothered /\ ahead' = Tail(ahead)
         /\ s' = s /\ addr' = addr /\ low' = low
         /\ Remembers /\ Agrees
         /\ Cell(a) \in DOMAIN mem' /\ pc' = Word(low, mem'[Cell(a)])
         /\ Unwritten => Unwritten' /\ Cell(a) \in DOMAIN first'
                         /\ first'[Cell(a)] = mem'[Cell(a)]
<1>1. Jump
  BY NotAddressed, Acts
<1>2. PICK v \in Byte : Reads(a, v) /\ pc' = Word(low, v)
  BY <1>1 DEF Jump, Doing
<1>3. /\ ahead' = Tail(ahead) /\ s' = s /\ addr' = addr /\ low' = low
  BY <1>1 DEF Jump, Then, forming
<1>4. /\ Remembers /\ Agrees /\ bus' = [does |-> "read", at |-> Cell(a)] /\ Onward
      /\ Cell(a) \in DOMAIN mem' /\ mem'[Cell(a)] = v
      /\ Unwritten => Unwritten' /\ Cell(a) \in DOMAIN first' /\ first'[Cell(a)] = v
  BY <1>2, ReadsKeep DEF Onward
<1>5. Unbothered
  BY <1>4, ReadElsewhere DEF Onward
<1> QED
  BY <1>2, <1>3, <1>4, <1>5

Jumping ==
    /\ Elsewhere /\ ins.kind = "jmp"
    /\ \/ Unwritten /\ Row(<<"low", "to">>, 1, 1)
       \/ /\ Unwritten /\ Row(<<"to">>, 2, 2)
          /\ Found(Plus(ins.at, 1)) /\ low = Operand(1)
       \/ ahead = <<>> /\ cycles = 3 /\ pc = Unindexed

\* Each cycle of a jump.
LEMMA JumpingStep ==
  ASSUME TypeOK, Jumping, Next, ahead # <<>>
  PROVE  Jumping' /\ Unbothered
<1>0. Elsewhere /\ ins.kind = "jmp"
  BY DEF Jumping
<1>1. CASE Unwritten /\ Row(<<"low", "to">>, 1, 1)
  <2>1. ahead # <<>> /\ Head(ahead) = "low" /\ At(1) /\ cycles = 1 /\ Tail(ahead) = <<"to">>
    BY <1>1 DEF Row
  <2>2. /\ Onward /\ Unbothered /\ ahead' = Tail(ahead) /\ At(1 + 1)' /\ Unwritten'
        /\ Found(Plus(ins.at, 1))' /\ low' = Operand(1)'
    BY <1>0, <1>1, <2>1, LowFetched
  <2>3. Row(<<"to">>, 2, 2)'
    BY <2>1, <2>2 DEF Row, Onward
  <2> QED
    BY <1>0, <2>2, <2>3 DEF Jumping, Elsewhere, Onward
<1>2. CASE /\ Unwritten /\ Row(<<"to">>, 2, 2)
           /\ Found(Plus(ins.at, 1)) /\ low = Operand(1)
  <2>1. ahead # <<>> /\ Head(ahead) = "to" /\ cycles = 2 /\ Tail(ahead) = <<>>
        /\ pc = Plus(ins.at, 2) /\ pc = HighAt[Head(ahead)]
    BY <1>2 DEF Row, At, HighAt
  <2>2. /\ Onward /\ Unbothered /\ ahead' = Tail(ahead)
        /\ Remembers /\ pc' = Word(low, mem'[Cell(pc)])
        /\ Cell(pc) \in DOMAIN first' /\ first'[Cell(pc)] = mem'[Cell(pc)]
    BY <1>0, <1>2, <2>1, JumpStep
  <2>3. Operand(1)' = low
    BY <1>2, <2>2, OperandKept DEF Onward
  <2>4. Operand(2)' = mem'[Cell(pc)]
    BY <2>1, <2>2 DEF Operand, Cell, Onward
  <2>5. pc' = Unindexed'
    <3>1. ins'.mode # "indirectIndexedY"
      BY <1>0, <2>2 DEF Elsewhere, ModeOf, Onward
    <3> QED
      BY <2>2, <2>3, <2>4, <3>1 DEF Unindexed, Word
  <2> QED
    BY <1>0, <2>1, <2>2, <2>5 DEF Jumping, Elsewhere, Onward
<1> QED
  BY <1>1, <1>2 DEF Jumping

\* A jump ends at the word it names.
LEMMA JumpingOver ==
  ASSUME Jumping, ahead = <<>>
  PROVE  ArrivesWhereDecoded /\ CyclesAsPrinted
<1>1. ~Row(<<"low", "to">>, 1, 1) /\ ~Row(<<"to">>, 2, 2)
  BY DEF Row
<1>2. ins.kind = "jmp" /\ cycles = 3 /\ pc = Unindexed
  BY <1>1 DEF Jumping
<1>3. Printed = 3
  BY <1>2 DEF Printed, Other
<1> QED
  BY <1>2, <1>3 DEF ArrivesWhereDecoded, CyclesAsPrinted

-----------------------------------------------------------------------------
(* Indirect jumps.                                                         *)

\* What each core does to jump through a word.
Jumps ==
    IF ins.kind = "jmpIndirectX" THEN <<"low", "high", "jumpIndex", "jumpLow", "jumpHigh">>
    ELSE IF cmos THEN <<"low", "high", "jumpLow", "jumpSpare", "jumpHigh">>
                 ELSE <<"low", "high", "jumpLow", "jumpHigh">>

\* Both bytes of its operand have been found.
BothFound == Found(Plus(ins.at, 1)) /\ Found(Plus(ins.at, 2))

\* Where the word to jump to is.
Vectored == IF ins.kind = "jmpIndirectX" THEN Plus(Unindexed, ins.index) ELSE Unindexed

LowRead == addr = Vectored /\ Cell(addr) \in DOMAIN mem /\ low = mem[Cell(addr)]

Indirecting ==
    /\ Elsewhere /\ ins.kind \in {"jmpIndirect", "jmpIndirectX"}
    /\ ins.kind = "jmpIndirectX" => cmos
    /\ \/ Unwritten /\ Row(Jumps, 1, 1)
       \/ /\ Unwritten /\ Row(Tail(Jumps), 2, 2)
          /\ Found(Plus(ins.at, 1)) /\ low = Operand(1)
       \/ BothFound /\ addr = Unindexed /\ Row(Tail(Tail(Jumps)), 3, 3)
       \/ /\ BothFound /\ ins.kind = "jmpIndirectX"
          /\ addr = Vectored /\ Row(<<"jumpLow", "jumpHigh">>, 4, 3)
       \/ /\ BothFound /\ LowRead /\ ins.kind # "jmpIndirectX" /\ cmos
          /\ Row(<<"jumpSpare", "jumpHigh">>, 4, 3)
       \/ BothFound /\ LowRead /\ Row(<<"jumpHigh">>, IF cmos THEN 5 ELSE 4, 3)
       \/ /\ BothFound /\ addr = Vectored
          /\ Fetched(addr, HighAt["jumpHigh"])
          /\ ahead = <<>> /\ cycles = IF cmos THEN 6 ELSE 5

\* What is left after each of its first cycles.
LEMMA JumpsAre ==
  /\ Jumps # <<>> /\ Head(Jumps) = "low"
  /\ Tail(Jumps) # <<>> /\ Head(Tail(Jumps)) = "high"
  /\ Tail(Tail(Jumps)) =
       IF ins.kind = "jmpIndirectX" THEN <<"jumpIndex", "jumpLow", "jumpHigh">>
       ELSE IF cmos THEN <<"jumpLow", "jumpSpare", "jumpHigh">>
                    ELSE <<"jumpLow", "jumpHigh">>
  /\ Tail(Tail(Jumps)) # <<>> /\ Head(Tail(Tail(Jumps))) # "index"
<1>1. CASE ins.kind = "jmpIndirectX"
  BY <1>1 DEF Jumps
<1>2. CASE ins.kind # "jmpIndirectX" /\ cmos
  BY <1>2 DEF Jumps
<1>3. CASE ins.kind # "jmpIndirectX" /\ ~cmos
  BY <1>3 DEF Jumps
<1> QED
  BY <1>1, <1>2, <1>3

\* Where the word is does not change once its own bytes have been found.
LEMMA VectoredKept ==
  ASSUME Elsewhere, ins.kind \in {"jmpIndirect", "jmpIndirectX"}, BothFound, Remembers, Onward
  PROVE  /\ BothFound' /\ Unindexed' = Unindexed /\ Vectored' = Vectored
         /\ Jumps' = Jumps /\ Elsewhere'
<1>1. /\ Found(Plus(ins.at, 1))' /\ Operand(1)' = Operand(1)
      /\ Found(Plus(ins.at, 2))' /\ Operand(2)' = Operand(2)
  BY OperandKept DEF BothFound, Onward
<1>2. ins.mode # "indirectIndexedY"
  BY DEF Elsewhere, ModeOf
<1>3. Unindexed' = Unindexed
  BY <1>1, <1>2 DEF Unindexed, Onward
<1> QED
  BY <1>1, <1>3 DEF BothFound, Vectored, Jumps, Elsewhere, Onward, Plus

\* The low byte of the word is read.
LEMMA JumpLowStep ==
  ASSUME TypeOK, Elsewhere, Next, ahead # <<>>, Head(ahead) = "jumpLow", addr = Vectored,
         ins.kind \in {"jmpIndirect", "jmpIndirectX"}, BothFound
  PROVE  /\ Onward /\ Unbothered /\ ahead' = Tail(ahead) /\ pc' = pc
         /\ BothFound' /\ LowRead' /\ Elsewhere'
<1>1. JumpLow
  BY NotAddressed, Acts
<1>2. PICK v \in Byte : Reads(addr, v) /\ low' = v
  BY <1>1 DEF JumpLow
<1>3. /\ ahead' = Tail(ahead) /\ pc' = pc /\ addr' = addr
  BY <1>1 DEF JumpLow, Then
<1>4. /\ Remembers /\ bus' = [does |-> "read", at |-> Cell(addr)] /\ Onward
      /\ Cell(addr) \in DOMAIN mem' /\ mem'[Cell(addr)] = v
  BY <1>2, ReadsKeep DEF Onward
<1>5. Unbothered
  BY <1>4, ReadElsewhere DEF Onward
<1>6. BothFound' /\ Vectored' = Vectored /\ Elsewhere'
  BY <1>4, VectoredKept
<1>7. LowRead'
  BY <1>2, <1>3, <1>4, <1>6 DEF LowRead, Cell, Onward
<1> QED
  BY <1>3, <1>4, <1>5, <1>6, <1>7

\* The bytes of the instruction are fetched.
LEMMA IndirectFetched ==
  ASSUME TypeOK, Indirecting, Next, Unwritten,
         \/ Row(Jumps, 1, 1)
         \/ Row(Tail(Jumps), 2, 2) /\ Found(Plus(ins.at, 1)) /\ low = Operand(1)
  PROVE  Indirecting' /\ Unbothered
<1>0. /\ Elsewhere /\ ins.kind \in {"jmpIndirect", "jmpIndirectX"}
      /\ ins.kind = "jmpIndirectX" => cmos
  BY DEF Indirecting
<1>1. CASE Row(Jumps, 1, 1)
  <2>1. ahead # <<>> /\ Head(ahead) = "low" /\ At(1) /\ cycles = 1 /\ ahead = Jumps
    BY <1>1, JumpsAre DEF Row
  <2>2. /\ Onward /\ Unbothered /\ ahead' = Tail(ahead) /\ At(1 + 1)' /\ Unwritten'
        /\ Found(Plus(ins.at, 1))' /\ low' = Operand(1)'
    BY <1>0, <2>1, LowFetched
  <2>3. Jumps' = Jumps
    BY <2>2 DEF Jumps, Onward
  <2>4. Row(Tail(Jumps), 2, 2)'
    BY <2>1, <2>2, <2>3 DEF Row, Onward
  <2> QED
    BY <1>0, <2>2, <2>4 DEF Indirecting, Elsewhere, Onward
<1>2. CASE Row(Tail(Jumps), 2, 2) /\ Found(Plus(ins.at, 1)) /\ low = Operand(1)
  <2>1. ahead # <<>> /\ Head(ahead) = "high" /\ At(2) /\ cycles = 2 /\ ahead = Tail(Jumps)
        /\ Tail(ahead) # <<>> /\ Head(Tail(ahead)) # "index"
    BY <1>2, JumpsAre DEF Row
  <2>2. /\ Onward /\ Unbothered /\ ahead' = Tail(ahead) /\ At(2 + 1)' /\ Unwritten'
        /\ Remembers /\ Found(Plus(ins.at, 2))' /\ addr' = Word(low, Operand(2)')
    BY <1>0, <2>1, HighFetched
  <2>3. Found(Plus(ins.at, 1))' /\ Operand(1)' = low
    BY <1>2, <2>2, OperandKept DEF Onward
  <2>4. addr' = Unindexed' /\ BothFound'
    <3>1. ins'.mode # "indirectIndexedY"
      BY <1>0, <2>2 DEF Elsewhere, ModeOf, Onward
    <3> QED
      BY <2>2, <2>3, <3>1 DEF Unindexed, Word, BothFound
  <2>5. Jumps' = Jumps
    BY <2>2 DEF Jumps, Onward
  <2>6. Row(Tail(Tail(Jumps)), 3, 3)'
    BY <2>1, <2>2, <2>5 DEF Row, Onward
  <2> QED
    BY <1>0, <2>2, <2>4, <2>6 DEF Indirecting, Elsewhere, Onward
<1> QED
  BY <1>1, <1>2

\* The index is added to the word.
LEMMA JumpIndexStep ==
  ASSUME TypeOK, Elsewhere, Next, ahead # <<>>, Head(ahead) = "jumpIndex",
         ins.kind = "jmpIndirectX", BothFound, addr = Unindexed
  PROVE  /\ Onward /\ Unbothered /\ ahead' = Tail(ahead) /\ pc' = pc
         /\ BothFound' /\ addr' = Vectored' /\ Elsewhere'
<1>1. JumpIndex
  BY NotAddressed, Acts
<1>2. /\ \E a : Looks(a)
      /\ ahead' = Tail(ahead) /\ pc' = pc /\ addr' = Plus(addr, ins.index)
  BY <1>1 DEF JumpIndex, Then
<1>3. PICK a : Looks(a)
  BY <1>2
<1>4. /\ first' = first /\ bus' = [does |-> "read", at |-> Cell(a)] /\ Onward
  BY <1>3, LooksKeep DEF Onward
<1>5. Unbothered
  BY <1>4, ReadElsewhere DEF Onward
<1>6. Remembers
  BY <1>4 DEF Remembers
<1>7. BothFound' /\ Vectored' = Vectored /\ Elsewhere'
  BY <1>4, <1>6, VectoredKept
<1>8. addr' = Vectored'
  BY <1>2, <1>7 DEF Vectored
<1> QED
  BY <1>2, <1>4, <1>5, <1>7, <1>8

\* Each cycle of an indirect jump.
LEMMA IndirectingStep ==
  ASSUME TypeOK, Indirecting, Next, ahead # <<>>
  PROVE  Indirecting' /\ Unbothered
<1>0. /\ Elsewhere /\ ins.kind \in {"jmpIndirect", "jmpIndirectX"}
      /\ ins.kind = "jmpIndirectX" => cmos
  BY DEF Indirecting
<1>1. CASE /\ Unwritten
           /\ \/ Row(Jumps, 1, 1)
              \/ Row(Tail(Jumps), 2, 2) /\ Found(Plus(ins.at, 1)) /\ low = Operand(1)
  BY <1>1, IndirectFetched
<1>2. CASE BothFound /\ addr = Unindexed /\ Row(Tail(Tail(Jumps)), 3, 3)
  <2>1. ahead = Tail(Tail(Jumps)) /\ At(3) /\ cycles = 3
    BY <1>2 DEF Row
  <2>2. CASE ins.kind = "jmpIndirectX"
    <3>1. ahead = <<"jumpIndex", "jumpLow", "jumpHigh">>
      BY <2>1, <2>2, JumpsAre
    <3>2. /\ Onward /\ Unbothered /\ ahead' = Tail(ahead) /\ pc' = pc
          /\ BothFound' /\ addr' = Vectored' /\ Elsewhere'
      BY <1>0, <1>2, <2>2, <3>1, JumpIndexStep
    <3>3. Row(<<"jumpLow", "jumpHigh">>, 4, 3)'
      BY <2>1, <3>1, <3>2 DEF Row, At, Onward
    <3> QED
      BY <1>0, <2>2, <3>2, <3>3 DEF Indirecting, Onward
  <2>3. CASE ins.kind # "jmpIndirectX"
    <3>1. ahead = IF cmos THEN <<"jumpLow", "jumpSpare", "jumpHigh">>
                          ELSE <<"jumpLow", "jumpHigh">>
      BY <2>1, <2>3, JumpsAre
    <3>2. ahead # <<>> /\ Head(ahead) = "jumpLow" /\ addr = Vectored
          /\ Tail(ahead) = IF cmos THEN <<"jumpSpare", "jumpHigh">> ELSE <<"jumpHigh">>
      BY <1>2, <2>3, <3>1 DEF Vectored
    <3>3. /\ Onward /\ Unbothered /\ ahead' = Tail(ahead) /\ pc' = pc
          /\ BothFound' /\ LowRead' /\ Elsewhere'
      BY <1>0, <1>2, <3>2, JumpLowStep
    <3>4. cycles' = 4 /\ At(3)'
      BY <2>1, <3>3 DEF At, Onward
    <3>5. CASE cmos
      <4>1. Row(<<"jumpSpare", "jumpHigh">>, 4, 3)'
        BY <3>2, <3>3, <3>4, <3>5 DEF Row
      <4> QED
        BY <1>0, <2>3, <3>3, <3>5, <4>1 DEF Indirecting, Onward
    <3>6. CASE ~cmos
      <4>1. Row(<<"jumpHigh">>, 4, 3)'
        BY <3>2, <3>3, <3>4, <3>6 DEF Row
      <4> QED
        BY <1>0, <2>3, <3>3, <3>6, <4>1 DEF Indirecting, Onward
    <3> QED
      BY <3>5, <3>6
  <2> QED
    BY <2>2, <2>3
<1>3. CASE /\ BothFound /\ ins.kind = "jmpIndirectX"
           /\ addr = Vectored /\ Row(<<"jumpLow", "jumpHigh">>, 4, 3)
  <2>1. ahead # <<>> /\ Head(ahead) = "jumpLow" /\ Tail(ahead) = <<"jumpHigh">>
        /\ At(3) /\ cycles = 4
    BY <1>3 DEF Row
  <2>2. /\ Onward /\ Unbothered /\ ahead' = Tail(ahead) /\ pc' = pc
        /\ BothFound' /\ LowRead' /\ Elsewhere'
    BY <1>0, <1>3, <2>1, JumpLowStep
  <2>3. Row(<<"jumpHigh">>, IF cmos THEN 5 ELSE 4, 3)'
    BY <1>0, <1>3, <2>1, <2>2 DEF Row, At, Onward
  <2> QED
    BY <1>0, <2>2, <2>3 DEF Indirecting, Onward
<1>4. CASE /\ BothFound /\ LowRead /\ ins.kind # "jmpIndirectX" /\ cmos
           /\ Row(<<"jumpSpare", "jumpHigh">>, 4, 3)
  <2>1. ahead # <<>> /\ Head(ahead) = "jumpSpare" /\ Tail(ahead) = <<"jumpHigh">>
        /\ At(3) /\ cycles = 4
    BY <1>4 DEF Row
  <2>2. /\ Onward /\ Rests /\ Unbothered
        /\ mem' = mem /\ first' = first /\ ahead' = Tail(ahead)
    BY <1>0, <2>1, DeadStep
  <2>3. Remembers
    BY <2>2 DEF Remembers
  <2>4. BothFound' /\ Vectored' = Vectored /\ Elsewhere'
    BY <1>0, <1>4, <2>2, <2>3, VectoredKept
  <2>5. LowRead'
    BY <1>4, <2>2, <2>4 DEF LowRead, Rests, Cell, Onward
  <2>6. Row(<<"jumpHigh">>, IF cmos THEN 5 ELSE 4, 3)'
    BY <1>4, <2>1, <2>2 DEF Row, At, Onward, Rests
  <2> QED
    BY <1>0, <2>2, <2>4, <2>5, <2>6 DEF Indirecting, Onward
<1>5. CASE BothFound /\ LowRead /\ Row(<<"jumpHigh">>, IF cmos THEN 5 ELSE 4, 3)
  <2> DEFINE a == HighAt["jumpHigh"]
  <2>1. ahead # <<>> /\ Head(ahead) = "jumpHigh" /\ Tail(ahead) = <<>>
        /\ cycles = IF cmos THEN 5 ELSE 4
    BY <1>5 DEF Row
  <2>2. a = HighAt[Head(ahead)]
    BY <2>1
  <2> HIDE DEF a
  <2>3. /\ Onward /\ Unbothered /\ ahead' = Tail(ahead) /\ addr' = addr
        /\ Remembers /\ Agrees
        /\ Cell(a) \in DOMAIN mem' /\ pc' = Word(low, mem'[Cell(a)])
    BY <1>0, <2>1, <2>2, JumpStep
  <2>4. BothFound' /\ Vectored' = Vectored /\ Elsewhere'
    BY <1>0, <1>5, <2>3, VectoredKept
  <2>5. addr' = Vectored' /\ Cell(addr) \in DOMAIN mem' /\ low = mem'[Cell(addr)]
    BY <1>5, <2>3, <2>4 DEF LowRead, Agrees
  <2>6. HighAt["jumpHigh"]' = a
    BY <2>3 DEF HighAt, Onward, a
  <2>7. Fetched(addr, HighAt["jumpHigh"])'
    <3>1. Cell(addr)' = Cell(addr) /\ Cell(HighAt["jumpHigh"])' = Cell(a)
      BY <2>3, <2>6 DEF Cell, Onward
    <3> QED
      BY <2>3, <2>5, <3>1 DEF Fetched
  <2>8. cycles' = IF cmos' THEN 6 ELSE 5
    BY <2>1, <2>3 DEF Onward
  <2> QED
    BY <1>0, <2>1, <2>3, <2>4, <2>5, <2>7, <2>8 DEF Indirecting, Onward
<1> QED
  BY <1>1, <1>2, <1>3, <1>4, <1>5 DEF Indirecting

\* An indirect jump ends at the word it names, with the NMOS parts' page wrap.
LEMMA IndirectingOver ==
  ASSUME TypeOK, Indirecting, ahead = <<>>
  PROVE  ArrivesWhereDecoded /\ CyclesAsPrinted
<1>0. /\ Elsewhere /\ ins.kind \in {"jmpIndirect", "jmpIndirectX"}
      /\ ins.kind = "jmpIndirectX" => cmos
  BY DEF Indirecting
<1>1. /\ BothFound /\ addr = Vectored
      /\ Fetched(addr, HighAt["jumpHigh"])
      /\ cycles = IF cmos THEN 6 ELSE 5
  <2>1. /\ ~Row(Jumps, 1, 1) /\ ~Row(Tail(Jumps), 2, 2) /\ ~Row(Tail(Tail(Jumps)), 3, 3)
    BY JumpsAre DEF Row
  <2>2. /\ ~Row(<<"jumpLow", "jumpHigh">>, 4, 3) /\ ~Row(<<"jumpSpare", "jumpHigh">>, 4, 3)
        /\ ~Row(<<"jumpHigh">>, IF cmos THEN 5 ELSE 4, 3)
    BY DEF Row
  <2> QED
    BY <2>1, <2>2 DEF Indirecting
<1>2. CASE ins.kind = "jmpIndirect"
  <2>1. addr = Unindexed
    BY <1>1, <1>2 DEF Vectored
  <2>2. HighAt["jumpHigh"] = IF cmos THEN Plus(Unindexed, 1) ELSE PlusInPage(Unindexed, 1)
    BY <2>1 DEF HighAt
  <2>3. ArrivesWhereDecoded
    BY <1>1, <1>2, <2>1, <2>2 DEF ArrivesWhereDecoded
  <2>4. Printed = 5 + One(cmos)
    BY <1>2 DEF Printed
  <2> QED
    BY <1>1, <1>2, <2>3, <2>4 DEF CyclesAsPrinted, One
<1>3. CASE ins.kind = "jmpIndirectX"
  <2> DEFINE u == Unindexed
             i == ins.index
  <2>1. addr = Plus(u, i) /\ cmos
    BY <1>0, <1>1, <1>3 DEF Vectored
  <2>2. HighAt["jumpHigh"] = Plus(addr, 1)
    BY <2>1 DEF HighAt
  <2>3. u \in Int /\ i \in Int
    <3>1. Operand(1) \in Byte /\ Operand(2) \in Byte
      BY <1>1 DEF BothFound, Found, Operand, TypeOK
    <3>2. ins.mode # "indirectIndexedY"
      BY <1>0 DEF Elsewhere, ModeOf
    <3>3. u = Word(Operand(1), Operand(2))
      BY <3>2 DEF Unindexed
    <3>4. u \in Address
      BY <3>1, <3>3, WordOfBytes
    <3>5. i \in Byte
      BY DEF TypeOK
    <3> HIDE DEF u, i
    <3> QED
      BY <3>4, <3>5, Sizes DEF Address, Byte
  <2>4. Plus(addr, 1) = Plus(u, i + 1)
    <3> HIDE DEF u, i
    <3> QED
      BY <2>1, <2>3, PlusPlus
  <2>5. Fetched(Plus(Unindexed, ins.index), Plus(Unindexed, ins.index + 1))
    BY <1>1, <2>1, <2>2, <2>4
  <2>6. Printed = 6
    BY <1>3 DEF Printed, Other
  <2> QED
    BY <1>1, <1>3, <2>1, <2>5, <2>6 DEF ArrivesWhereDecoded, CyclesAsPrinted
<1> QED
  BY <1>0, <1>2, <1>3

-----------------------------------------------------------------------------
(* Calls.                                                                  *)

\* The place on the stack that is n above the pointer, and what it holds.
Place(n) == Cell(Stack((s + n) % B))

OnStack(n, v) == Place(n) \in DOMAIN mem /\ mem[Place(n)] = v

\* The places next to a place are others.
LEMMA OtherPlace ==
  ASSUME NEW p \in Byte, NEW n \in {1, 2}
  PROVE  ((p + n) % B) # p /\ ((p + n) % B) \in Byte
<1>1. B \in Nat \ {0} /\ B >= 3 /\ p \in 0..(B - 1) /\ p \in Int
  BY Sizes DEF Byte
<1>2. CASE p + n < B
  <2>1. p + n \in 0..(B - 1)
    BY <1>1, <1>2
  <2>2. ((B * 0 + (p + n)) % B) = p + n
    BY <1>1, <2>1, RemainderIs
  <2>3. B * 0 + (p + n) = p + n
    BY <1>1
  <2> QED
    BY <1>1, <2>1, <2>2, <2>3 DEF Byte
<1>3. CASE ~(p + n < B)
  <2> DEFINE r == (p + n) - B
  <2>1. r \in 0..(B - 1) /\ r # p
    BY <1>1, <1>3
  <2>2. p + n = B * 1 + r
    BY <1>1
  <2> HIDE DEF r
  <2>3. ((B * 1 + r) % B) = r
    BY <1>1, <2>1, RemainderIs
  <2> QED
    BY <2>1, <2>2, <2>3 DEF Byte
<1> QED
  BY <1>2, <1>3

\* What is on the stack is one place farther from the pointer after a push.
LEMMA PushedOver ==
  ASSUME TypeOK, Elsewhere, Next, ahead # <<>>, Head(ahead) \in {"push", "pushHigh", "pushLow"},
         ins.kind \in {"push", "jsr", "brk", "interrupt"}
  PROVE  /\ Place(1)' \in DOMAIN mem'
         /\ Head(ahead) = "pushHigh" => mem'[Place(1)'] = High(pc)
         /\ Head(ahead) = "pushLow" => mem'[Place(1)'] = Low(pc)
         /\ Place(1) \in DOMAIN mem
               => Place(2)' \in DOMAIN mem' /\ mem'[Place(2)'] = mem[Place(1)]
         /\ Place(2) \in DOMAIN mem
               => Place(3)' \in DOMAIN mem' /\ mem'[Place(3)'] = mem[Place(2)]
<1>1. s \in Byte /\ reach \in Reaches
  BY DEF TypeOK
<1>2. /\ Onward /\ s' = ((s - 1) % B) /\ ((s' + 1) % B) = s
      /\ \A c \in DOMAIN mem :
            c \in DOMAIN mem' /\ (c # Cell(Stack(s)) => mem'[c] = mem[c])
      /\ Cell(Stack(s)) \in DOMAIN mem'
      /\ Head(ahead) = "pushHigh" => mem'[Cell(Stack(s))] = High(pc)
      /\ Head(ahead) = "pushLow" => mem'[Cell(Stack(s))] = Low(pc)
  BY Pushed
<1>3. Place(1)' = Cell(Stack(s))
  BY <1>2 DEF Place, Cell, Stack, Word, Onward
<1>4. ASSUME NEW n \in {1, 2}
      PROVE  ((s' + (n + 1)) % B) = ((s + n) % B)
  <2>1. ASSUME NEW k \in Int, k = 0 - 1
        PROVE  ((((s + k) % B) + (n + 1)) % B) = ((s + n) % B)
    <3>1. n + 1 \in Int /\ k + (n + 1) = n
      BY <2>1
    <3> QED
      BY <1>1, <2>1, <3>1, StackRing
  <2>2. \A k \in Int : k = 0 - 1 => s - 1 = s + k
    BY <1>1, Sizes DEF Byte
  <2> QED
    BY <1>2, <2>1, <2>2
<1>5. ASSUME NEW n \in {1, 2}, Place(n) \in DOMAIN mem
      PROVE  Place(n) \in DOMAIN mem' /\ mem'[Place(n)] = mem[Place(n)]
  <2>1. ((s + n) % B) # s /\ ((s + n) % B) \in Byte
    BY <1>1, OtherPlace
  <2>2. Place(n) # Cell(Stack(s))
    BY <1>1, <2>1, StackCells DEF Place
  <2> QED
    BY <1>2, <1>5, <2>2
<1>6. Place(2)' = Place(1) /\ Place(3)' = Place(2)
  <2>1. ((s' + 2) % B) = ((s + 1) % B) /\ ((s' + 3) % B) = ((s + 2) % B)
    BY <1>4
  <2> QED
    BY <1>2, <2>1 DEF Place, Cell, Stack, Word, Onward
<1> QED
  BY <1>2, <1>3, <1>5, <1>6

\* What a call returns to, less one.
Back == Plus(ins.at, 2)

Calling ==
    /\ Elsewhere /\ ins.kind = "jsr"
    /\ \/ /\ Unwritten
          /\ Row(<<"low", "top", "pushHigh", "pushLow", "to">>, 1, 1)
       \/ /\ Found(Plus(ins.at, 1)) /\ low = Operand(1)
          /\ \/ Row(<<"top", "pushHigh", "pushLow", "to">>, 2, 2)
             \/ Row(<<"pushHigh", "pushLow", "to">>, 3, 2)
             \/ Row(<<"pushLow", "to">>, 4, 2) /\ OnStack(1, High(Back))
             \/ /\ Row(<<"to">>, 5, 2)
                /\ OnStack(1, Low(Back)) /\ OnStack(2, High(Back))
       \/ /\ ahead = <<>> /\ cycles = 6
          /\ Cell(Plus(ins.at, 2)) \in DOMAIN mem
          /\ pc = Word(Operand(1), mem[Cell(Plus(ins.at, 2))])
          /\ OnStack(1, Low(Back)) /\ OnStack(2, High(Back))

\* Each cycle of a call.
LEMMA CallingStep ==
  ASSUME TypeOK, Calling, Next, ahead # <<>>
  PROVE  Calling' /\ Unbothered
<1>0. Elsewhere /\ ins.kind = "jsr"
  BY DEF Calling
<1>1. CASE Unwritten /\ Row(<<"low", "top", "pushHigh", "pushLow", "to">>, 1, 1)
  <2>1. ahead # <<>> /\ Head(ahead) = "low" /\ At(1) /\ cycles = 1
        /\ Tail(ahead) = <<"top", "pushHigh", "pushLow", "to">>
    BY <1>1 DEF Row
  <2>2. /\ Onward /\ Unbothered /\ ahead' = Tail(ahead) /\ At(1 + 1)'
        /\ Found(Plus(ins.at, 1))' /\ low' = Operand(1)'
    BY <1>0, <1>1, <2>1, LowFetched
  <2>3. Row(<<"top", "pushHigh", "pushLow", "to">>, 2, 2)'
    BY <2>1, <2>2 DEF Row, Onward
  <2> QED
    BY <1>0, <2>2, <2>3 DEF Calling, Elsewhere, Onward
<1>2. CASE /\ Found(Plus(ins.at, 1)) /\ low = Operand(1)
           /\ Row(<<"top", "pushHigh", "pushLow", "to">>, 2, 2)
  <2>1. ahead # <<>> /\ Head(ahead) = "top" /\ At(2) /\ cycles = 2
        /\ Tail(ahead) = <<"pushHigh", "pushLow", "to">>
    BY <1>2 DEF Row
  <2>2. /\ Onward /\ Rests /\ Unbothered
        /\ mem' = mem /\ first' = first /\ ahead' = Tail(ahead)
    BY <1>0, <2>1, DeadStep
  <2>3. Found(Plus(ins.at, 1))' /\ low' = Operand(1)'
    BY <1>2, <2>2 DEF Found, Operand, Cell, Onward, Rests
  <2>4. Row(<<"pushHigh", "pushLow", "to">>, 3, 2)'
    BY <2>1, <2>2 DEF Row, At, Onward, Rests
  <2> QED
    BY <1>0, <2>2, <2>3, <2>4 DEF Calling, Elsewhere, Onward
<1>3. CASE /\ Found(Plus(ins.at, 1)) /\ low = Operand(1)
           /\ Row(<<"pushHigh", "pushLow", "to">>, 3, 2)
  <2>1. ahead # <<>> /\ Head(ahead) = "pushHigh" /\ At(2) /\ cycles = 3
        /\ Tail(ahead) = <<"pushLow", "to">> /\ pc = Back
    BY <1>3 DEF Row, At, Back
  <2>2. /\ Onward /\ Unbothered /\ ahead' = Tail(ahead)
        /\ pc' = pc /\ low' = low /\ Remembers
    BY <1>0, <2>1, Pushed
  <2>3. Found(Plus(ins.at, 1))' /\ low' = Operand(1)'
    BY <1>3, <2>2, OperandKept DEF Onward
  <2>4. OnStack(1, High(Back))'
    <3>1. Place(1)' \in DOMAIN mem' /\ mem'[Place(1)'] = High(pc)
      BY <1>0, <2>1, PushedOver
    <3>2. High(Back)' = High(pc)
      BY <2>1, <2>2 DEF Back, High, Onward
    <3> QED
      BY <3>1, <3>2 DEF OnStack
  <2>5. Row(<<"pushLow", "to">>, 4, 2)'
    BY <2>1, <2>2 DEF Row, At, Onward
  <2> QED
    BY <1>0, <2>2, <2>3, <2>4, <2>5 DEF Calling, Elsewhere, Onward
<1>4. CASE /\ Found(Plus(ins.at, 1)) /\ low = Operand(1)
           /\ Row(<<"pushLow", "to">>, 4, 2) /\ OnStack(1, High(Back))
  <2>1. ahead # <<>> /\ Head(ahead) = "pushLow" /\ At(2) /\ cycles = 4
        /\ Tail(ahead) = <<"to">> /\ pc = Back
    BY <1>4 DEF Row, At, Back
  <2>2. /\ Onward /\ Unbothered /\ ahead' = Tail(ahead)
        /\ pc' = pc /\ low' = low /\ Remembers
    BY <1>0, <2>1, Pushed
  <2>3. Found(Plus(ins.at, 1))' /\ low' = Operand(1)'
    BY <1>4, <2>2, OperandKept DEF Onward
  <2>4. OnStack(1, Low(Back))' /\ OnStack(2, High(Back))'
    <3>1. /\ Place(1)' \in DOMAIN mem' /\ mem'[Place(1)'] = Low(pc)
          /\ Place(2)' \in DOMAIN mem' /\ mem'[Place(2)'] = High(Back)
      BY <1>0, <1>4, <2>1, PushedOver DEF OnStack
    <3>2. Low(Back)' = Low(pc) /\ High(Back)' = High(Back)
      BY <2>1, <2>2 DEF Back, Low, High, Onward
    <3> QED
      BY <3>1, <3>2 DEF OnStack
  <2>5. Row(<<"to">>, 5, 2)'
    BY <2>1, <2>2 DEF Row, At, Onward
  <2> QED
    BY <1>0, <2>2, <2>3, <2>4, <2>5 DEF Calling, Elsewhere, Onward
<1>5. CASE /\ Found(Plus(ins.at, 1)) /\ low = Operand(1)
           /\ Row(<<"to">>, 5, 2)
           /\ OnStack(1, Low(Back)) /\ OnStack(2, High(Back))
  <2>1. ahead # <<>> /\ Head(ahead) = "to" /\ cycles = 5 /\ Tail(ahead) = <<>>
        /\ pc = Plus(ins.at, 2) /\ pc = HighAt[Head(ahead)]
    BY <1>5 DEF Row, At, HighAt
  <2>2. /\ Onward /\ Unbothered /\ ahead' = Tail(ahead) /\ s' = s
        /\ Remembers /\ Agrees
        /\ Cell(pc) \in DOMAIN mem' /\ pc' = Word(low, mem'[Cell(pc)])
    BY <1>0, <2>1, JumpStep
  <2>3. Operand(1)' = low
    BY <1>5, <2>2, OperandKept DEF Onward
  <2>4. Cell(Plus(ins.at, 2))' = Cell(pc)
    BY <2>1, <2>2 DEF Cell, Onward
  <2>5. OnStack(1, Low(Back))' /\ OnStack(2, High(Back))'
    <3>1. Low(Back)' = Low(Back) /\ High(Back)' = High(Back)
      BY <2>2 DEF Back, Low, High, Onward
    <3> QED
      BY <1>5, <2>2, <3>1 DEF OnStack, Place, Cell, Agrees, Stack, Word, Onward
  <2>6. cycles' = 6
    BY <2>1, <2>2 DEF Onward
  <2>7. pc' = Word(Operand(1), mem[Cell(Plus(ins.at, 2))])'
    BY <2>2, <2>3, <2>4 DEF Word
  <2> QED
    BY <1>0, <2>1, <2>2, <2>4, <2>5, <2>6, <2>7 DEF Calling, Elsewhere, Onward
<1> QED
  BY <1>1, <1>2, <1>3, <1>4, <1>5 DEF Calling

\* The word n above the pointer is the one that was pushed.
LEMMA StackedIs ==
  ASSUME TypeOK, NEW a \in Address, NEW n \in Int, OnStack(n, Low(a)), OnStack(n + 1, High(a))
  PROVE  Stacked(n) = a
<1>1. s \in Int /\ (s + n) + 1 = s + (n + 1)
  BY Sizes DEF TypeOK, Byte
<1>2. Stacked(n) = Word(Low(a), High(a))
  BY <1>1 DEF Stacked, OnStack, Place
<1> QED
  BY <1>2, BytesOfWord

\* A call has pushed what brings a return to the next instruction.
LEMMA CallingOver ==
  ASSUME TypeOK, Calling, ahead = <<>>
  PROVE  ArrivesWhereDecoded /\ CyclesAsPrinted
<1>1. /\ ~Row(<<"low", "top", "pushHigh", "pushLow", "to">>, 1, 1)
      /\ ~Row(<<"top", "pushHigh", "pushLow", "to">>, 2, 2)
      /\ ~Row(<<"pushHigh", "pushLow", "to">>, 3, 2)
      /\ ~Row(<<"pushLow", "to">>, 4, 2) /\ ~Row(<<"to">>, 5, 2)
  BY DEF Row
<1>2. /\ ins.kind = "jsr" /\ Elsewhere /\ cycles = 6
      /\ pc = Word(Operand(1), mem[Cell(Plus(ins.at, 2))])
      /\ OnStack(1, Low(Back)) /\ OnStack(2, High(Back))
  BY <1>1 DEF Calling
<1>3. ins.at \in Int /\ Back \in Address
  <2>1. ins.at \in Int
    BY Sizes DEF TypeOK, Address
  <2> QED
    BY <2>1, PlusAddress DEF Back
<1>4. Stacked(1) = Back
  <2>1. OnStack(1 + 1, High(Back))
    BY <1>2
  <2> QED
    BY <1>2, <1>3, <2>1, StackedIs
<1>5. Plus(Back, 1) = After
  <2>1. Size = 3
    BY <1>2 DEF Elsewhere, ModeOf, Size, MODE_SIZE
  <2>2. Plus(Back, 1) = Plus(ins.at, 3)
    <3>1. ASSUME NEW at \in Int
          PROVE  Plus(Plus(at, 2), 1) = Plus(at, 3)
      <4>1. Plus(Plus(at, 2), 1) = Plus(at, 2 + 1)
        BY PlusPlus
      <4> QED
        BY <4>1
    <3> QED
      BY <1>3, <3>1 DEF Back
  <2> QED
    BY <2>1, <2>2 DEF After
<1>6. Printed = 6
  BY <1>2 DEF Printed, Other
<1> QED
  BY <1>2, <1>4, <1>5, <1>6 DEF ArrivesWhereDecoded, CyclesAsPrinted

-----------------------------------------------------------------------------
(* Returns.                                                                *)

\* The byte where the pointer is, and the one below it.
Top == Cell(Stack(s))

Under == Cell(Stack((s - 1) % B))

Returning ==
    /\ Elsewhere
    /\ \/ /\ ins.kind = "rts"
          /\ \/ ahead = <<"idle", "top", "pullLow", "pullHigh", "pulled">> /\ cycles = 1
             \/ ahead = <<"top", "pullLow", "pullHigh", "pulled">> /\ cycles = 2
             \/ ahead = <<"pullLow", "pullHigh", "pulled">> /\ cycles = 3
             \/ /\ ahead = <<"pullHigh", "pulled">> /\ cycles = 4
                /\ Top \in DOMAIN mem /\ low = mem[Top]
             \/ ahead = <<"pulled">> /\ cycles = 5 /\ addr = Word(mem[Under], mem[Top])
             \/ ahead = <<>> /\ cycles = 6 /\ pc = Plus(Word(mem[Under], mem[Top]), 1)
       \/ /\ ins.kind = "rti"
          /\ \/ ahead = <<"idle", "top", "pull", "pullLow", "pullTo">> /\ cycles = 1
             \/ ahead = <<"top", "pull", "pullLow", "pullTo">> /\ cycles = 2
             \/ ahead = <<"pull", "pullLow", "pullTo">> /\ cycles = 3
             \/ ahead = <<"pullLow", "pullTo">> /\ cycles = 4
             \/ /\ ahead = <<"pullTo">> /\ cycles = 5
                /\ Top \in DOMAIN mem /\ low = mem[Top]
             \/ ahead = <<>> /\ cycles = 6 /\ pc = Word(mem[Under], mem[Top])

\* A byte of the address is pulled, and the pointer steps up to it.
LEMMA PullStep ==
  ASSUME TypeOK, Elsewhere, Next, ahead # <<>>,
         Head(ahead) \in {"pullLow", "pullHigh", "pullTo"}
  PROVE  /\ Onward /\ Unbothered /\ ahead' = Tail(ahead)
         /\ Under' = Top /\ Top' \in DOMAIN mem'
         /\ Top \in DOMAIN mem => mem'[Top] = mem[Top]
         /\ Head(ahead) = "pullLow" => low' = mem'[Top']
         /\ Head(ahead) = "pullHigh" => addr' = Word(low, mem'[Top'])
         /\ Head(ahead) = "pullTo" => pc' = Word(low, mem'[Top'])
<1>1. Pull
  BY NotAddressed, Acts
<1> DEFINE up == ((s + 1) % B)
<1>2. PICK v \in Byte :
          /\ Reads(Stack(up), v)
          /\ Head(ahead) = "pullLow" => low' = v
          /\ Head(ahead) = "pullHigh" => addr' = Word(low, v)
          /\ Head(ahead) = "pullTo" => pc' = Word(low, v)
  BY <1>1 DEF Pull, Doing
<1>3. ahead' = Tail(ahead) /\ s' = up
  BY <1>1 DEF Pull, Then
<1>4. ((up - 1) % B) = s
  <2>1. s \in Byte /\ s \in Int
    BY Sizes DEF TypeOK, Byte
  <2>2. ASSUME NEW k \in Int, k = 0 - 1
        PROVE  ((up + k) % B) = s
    <3>1. 1 + k = 0
      BY <2>2
    <3>2. ((up + k) % B) = ((s + (1 + k)) % B) /\ ((s + 0) % B) = s
      BY <2>1, <2>2, StackRing
    <3> QED
      BY <3>1, <3>2
  <2>3. up \in Byte
    BY <2>1, StackRing
  <2>4. \A k \in Int : k = 0 - 1 => up - 1 = up + k
    <3>1. up \in Int
      BY <2>3, Sizes DEF Byte
    <3> HIDE DEF up
    <3> QED
      BY <3>1
  <2> QED
    BY <2>2, <2>4
<1> HIDE DEF up
<1>5. /\ Agrees /\ bus' = [does |-> "read", at |-> Cell(Stack(up))] /\ Onward
      /\ Cell(Stack(up)) \in DOMAIN mem' /\ mem'[Cell(Stack(up))] = v
  BY <1>2, ReadsKeep DEF Onward
<1>6. Unbothered
  BY <1>5, ReadElsewhere DEF Onward
<1>7. Top' = Cell(Stack(up)) /\ Under' = Top
  BY <1>3, <1>4, <1>5 DEF Top, Under, Cell, Stack, Word, Onward
<1> QED
  BY <1>2, <1>3, <1>5, <1>6, <1>7 DEF Agrees

\* The cycles before the address is pulled.
LEMMA ReturnIdles ==
  ASSUME TypeOK, Elsewhere, Next, ahead # <<>>, Head(ahead) \in {"idle", "top", "pull"}
  PROVE  Onward /\ Unbothered /\ ahead' = Tail(ahead)
<1>1. CASE Head(ahead) \in {"idle", "top"}
  BY <1>1, DeadStep
<1>2. CASE Head(ahead) = "pull"
  <2>1. PullAside
    BY <1>2, NotAddressed, Acts
  <2>2. ahead' = Tail(ahead) /\ Looks(Stack((s + 1) % B))
    BY <2>1 DEF PullAside, Then
  <2>3. Onward /\ bus' = [does |-> "read", at |-> Cell(Stack((s + 1) % B))]
    BY <2>2, LooksKeep DEF Onward
  <2>4. Unbothered
    BY <2>3, ReadElsewhere DEF Onward
  <2> QED
    BY <2>2, <2>3, <2>4
<1> QED
  BY <1>1, <1>2

\* Each cycle of RTS.
LEMMA RtsStep ==
  ASSUME TypeOK, Returning, Next, ahead # <<>>, ins.kind = "rts"
  PROVE  Returning' /\ Unbothered
<1>0. Elsewhere
  BY DEF Returning
<1>1. CASE ahead = <<"idle", "top", "pullLow", "pullHigh", "pulled">> /\ cycles = 1
  <2>1. Head(ahead) = "idle" /\ Tail(ahead) = <<"top", "pullLow", "pullHigh", "pulled">>
    BY <1>1
  <2>2. Onward /\ Unbothered /\ ahead' = Tail(ahead)
    BY <1>0, <2>1, ReturnIdles
  <2> QED
    BY <1>0, <1>1, <2>1, <2>2 DEF Returning, Elsewhere, Onward
<1>2. CASE ahead = <<"top", "pullLow", "pullHigh", "pulled">> /\ cycles = 2
  <2>1. Head(ahead) = "top" /\ Tail(ahead) = <<"pullLow", "pullHigh", "pulled">>
    BY <1>2
  <2>2. Onward /\ Unbothered /\ ahead' = Tail(ahead)
    BY <1>0, <2>1, ReturnIdles
  <2> QED
    BY <1>0, <1>2, <2>1, <2>2 DEF Returning, Elsewhere, Onward
<1>3. CASE ahead = <<"pullLow", "pullHigh", "pulled">> /\ cycles = 3
  <2>1. Head(ahead) = "pullLow" /\ Tail(ahead) = <<"pullHigh", "pulled">>
    BY <1>3
  <2>2. Onward /\ Unbothered /\ ahead' = Tail(ahead)
        /\ Top' \in DOMAIN mem' /\ low' = mem'[Top']
    BY <1>0, <2>1, PullStep
  <2> QED
    BY <1>0, <1>3, <2>1, <2>2 DEF Returning, Elsewhere, Onward
<1>4. CASE /\ ahead = <<"pullHigh", "pulled">> /\ cycles = 4
           /\ Top \in DOMAIN mem /\ low = mem[Top]
  <2>1. Head(ahead) = "pullHigh" /\ Tail(ahead) = <<"pulled">>
    BY <1>4
  <2>2. Onward /\ Unbothered /\ ahead' = Tail(ahead)
        /\ addr' = Word(mem'[Under'], mem'[Top'])
    BY <1>0, <1>4, <2>1, PullStep
  <2> QED
    BY <1>0, <1>4, <2>1, <2>2 DEF Returning, Elsewhere, Onward, Word
<1>5. CASE ahead = <<"pulled">> /\ cycles = 5 /\ addr = Word(mem[Under], mem[Top])
  <2>1. Pulled
    BY <1>0, <1>5, NotAddressed, Acts
  <2>2. /\ Looks(addr) /\ ahead' = <<>> /\ s' = s /\ pc' = Plus(addr, 1)
    BY <1>5, <2>1 DEF Pulled, Then
  <2>3. /\ mem' = mem /\ Onward /\ bus' = [does |-> "read", at |-> Cell(addr)]
    BY <2>2, LooksKeep DEF Onward
  <2>4. Unbothered
    BY <1>0, <2>3, ReadElsewhere DEF Onward
  <2>5. Under' = Under /\ Top' = Top
    BY <2>2, <2>3 DEF Under, Top, Cell, Stack, Word, Onward
  <2> QED
    BY <1>0, <1>5, <2>2, <2>3, <2>4, <2>5 DEF Returning, Elsewhere, Onward, Word, Plus
<1> QED
  BY <1>1, <1>2, <1>3, <1>4, <1>5 DEF Returning

\* Each cycle of RTI.
LEMMA RtiStep ==
  ASSUME TypeOK, Returning, Next, ahead # <<>>, ins.kind = "rti"
  PROVE  Returning' /\ Unbothered
<1>0. Elsewhere
  BY DEF Returning
<1>1. CASE ahead = <<"idle", "top", "pull", "pullLow", "pullTo">> /\ cycles = 1
  <2>1. Head(ahead) = "idle" /\ Tail(ahead) = <<"top", "pull", "pullLow", "pullTo">>
    BY <1>1
  <2>2. Onward /\ Unbothered /\ ahead' = Tail(ahead)
    BY <1>0, <2>1, ReturnIdles
  <2> QED
    BY <1>0, <1>1, <2>1, <2>2 DEF Returning, Elsewhere, Onward
<1>2. CASE ahead = <<"top", "pull", "pullLow", "pullTo">> /\ cycles = 2
  <2>1. Head(ahead) = "top" /\ Tail(ahead) = <<"pull", "pullLow", "pullTo">>
    BY <1>2
  <2>2. Onward /\ Unbothered /\ ahead' = Tail(ahead)
    BY <1>0, <2>1, ReturnIdles
  <2> QED
    BY <1>0, <1>2, <2>1, <2>2 DEF Returning, Elsewhere, Onward
<1>3. CASE ahead = <<"pull", "pullLow", "pullTo">> /\ cycles = 3
  <2>1. Head(ahead) = "pull" /\ Tail(ahead) = <<"pullLow", "pullTo">>
    BY <1>3
  <2>2. Onward /\ Unbothered /\ ahead' = Tail(ahead)
    BY <1>0, <2>1, ReturnIdles
  <2> QED
    BY <1>0, <1>3, <2>1, <2>2 DEF Returning, Elsewhere, Onward
<1>4. CASE ahead = <<"pullLow", "pullTo">> /\ cycles = 4
  <2>1. Head(ahead) = "pullLow" /\ Tail(ahead) = <<"pullTo">>
    BY <1>4
  <2>2. Onward /\ Unbothered /\ ahead' = Tail(ahead)
        /\ Top' \in DOMAIN mem' /\ low' = mem'[Top']
    BY <1>0, <2>1, PullStep
  <2> QED
    BY <1>0, <1>4, <2>1, <2>2 DEF Returning, Elsewhere, Onward
<1>5. CASE ahead = <<"pullTo">> /\ cycles = 5 /\ Top \in DOMAIN mem /\ low = mem[Top]
  <2>1. Head(ahead) = "pullTo" /\ Tail(ahead) = <<>>
    BY <1>5
  <2>2. Onward /\ Unbothered /\ ahead' = Tail(ahead)
        /\ pc' = Word(mem'[Under'], mem'[Top'])
    BY <1>0, <1>5, <2>1, PullStep
  <2> QED
    BY <1>0, <1>5, <2>1, <2>2 DEF Returning, Elsewhere, Onward, Word
<1> QED
  BY <1>1, <1>2, <1>3, <1>4, <1>5 DEF Returning

\* Each cycle of either.
LEMMA ReturningStep ==
  ASSUME TypeOK, Returning, Next, ahead # <<>>
  PROVE  Returning' /\ Unbothered
  BY RtsStep, RtiStep DEF Returning

\* A return ends where the word it pulled says.
LEMMA ReturningOver ==
  ASSUME TypeOK, Returning, ahead = <<>>
  PROVE  ArrivesWhereDecoded /\ CyclesAsPrinted
<1>1. Stacked(-1) = Word(mem[Under], mem[Top])
  <2>1. s \in Byte /\ s \in Int
    BY Sizes DEF TypeOK, Byte
  <2>2. ASSUME NEW k \in Int, k = 0 - 1
        PROVE  Stacked(k) = Word(mem[Under], mem[Top])
    <3>1. s + k = s - 1 /\ (s + k) + 1 = s + 0
      BY <2>1, <2>2
    <3>2. ((s + 0) % B) = s
      BY <2>1, StackRing
    <3> QED
      BY <3>1, <3>2 DEF Stacked, Under, Top
  <2>3. -1 \in Int /\ -1 = 0 - 1
    OBVIOUS
  <2> QED
    BY <2>2, <2>3
<1>2. /\ ins.kind = "rts" => pc = Plus(Word(mem[Under], mem[Top]), 1)
      /\ ins.kind = "rti" => pc = Word(mem[Under], mem[Top])
      /\ ins.kind \in {"rts", "rti"} /\ cycles = 6
  BY DEF Returning
<1>3. Printed = 6
  BY <1>2 DEF Printed, Other
<1> QED
  BY <1>1, <1>2, <1>3 DEF ArrivesWhereDecoded, CyclesAsPrinted

-----------------------------------------------------------------------------
(* BRK and the interrupts.                                                 *)

\* What is returned to from it.
Return == IF ins.kind = "brk" THEN Plus(ins.at, 2) ELSE ins.at

Interrupting ==
    /\ Elsewhere
    /\ \/ /\ ins.kind = "brk"
          /\ Row(<<"signature", "pushHigh", "pushLow", "push", "vector", "vectorHigh">>, 1, 1)
       \/ /\ ins.kind = "interrupt" /\ pc = ins.at
          /\ \/ /\ cycles = 0
                /\ ahead = <<"idle", "idle", "pushHigh", "pushLow", "push", "vector",
                             "vectorHigh">>
             \/ /\ cycles = 1
                /\ ahead = <<"idle", "pushHigh", "pushLow", "push", "vector", "vectorHigh">>
       \/ /\ ins.kind \in {"brk", "interrupt"}
          /\ \/ /\ ahead = <<"pushHigh", "pushLow", "push", "vector", "vectorHigh">>
                /\ cycles = 2 /\ pc = Return
             \/ /\ ahead = <<"pushLow", "push", "vector", "vectorHigh">>
                /\ cycles = 3 /\ pc = Return
                /\ OnStack(1, High(Return))
             \/ /\ ahead = <<"push", "vector", "vectorHigh">> /\ cycles = 4
                /\ OnStack(1, Low(Return)) /\ OnStack(2, High(Return))
             \/ /\ OnStack(2, Low(Return)) /\ OnStack(3, High(Return))
                /\ \/ ahead = <<"vector", "vectorHigh">> /\ cycles = 5
                   \/ /\ ahead = <<"vectorHigh">> /\ cycles = 6
                      /\ addr \in Vectors /\ Cell(addr) \in DOMAIN mem /\ low = mem[Cell(addr)]
                   \/ /\ ahead = <<>> /\ cycles = 7
                      /\ addr \in Vectors /\ Fetched(addr, Plus(addr, 1))

\* The cycles before anything is pushed.
LEMMA EntryStep ==
  ASSUME TypeOK, Interrupting, Next,
         \/ /\ ins.kind = "brk"
            /\ Row(<<"signature", "pushHigh", "pushLow", "push", "vector", "vectorHigh">>, 1, 1)
         \/ /\ ins.kind = "interrupt" /\ pc = ins.at
            /\ \/ /\ cycles = 0
                  /\ ahead = <<"idle", "idle", "pushHigh", "pushLow", "push", "vector",
                               "vectorHigh">>
               \/ /\ cycles = 1
                  /\ ahead = <<"idle", "pushHigh", "pushLow", "push", "vector", "vectorHigh">>
  PROVE  Interrupting' /\ Unbothered
<1>0. Elsewhere
  BY DEF Interrupting
<1>1. CASE /\ ins.kind = "brk"
           /\ Row(<<"signature", "pushHigh", "pushLow", "push", "vector", "vectorHigh">>, 1, 1)
  <2>1. ahead # <<>> /\ Head(ahead) = "signature" /\ cycles = 1 /\ At(1)
        /\ Tail(ahead) = <<"pushHigh", "pushLow", "push", "vector", "vectorHigh">>
    BY <1>1 DEF Row
  <2>2. Signature
    BY <1>0, <2>1, NotAddressed, Acts
  <2>3. Looks(pc) /\ ahead' = Tail(ahead) /\ pc' = Plus(pc, 1)
    BY <2>2 DEF Signature, Then
  <2>4. Onward /\ bus' = [does |-> "read", at |-> Cell(pc)]
    BY <2>3, LooksKeep DEF Onward
  <2>5. Unbothered
    BY <1>0, <2>4, ReadElsewhere DEF Onward
  <2>6. pc' = Return'
    <3>1. Plus(pc, 1) = Plus(ins.at, 1 + 1)
      BY <2>1, PcNext
    <3> QED
      BY <1>1, <2>3, <2>4, <3>1 DEF Return, Onward
  <2>7. cycles' = 2 /\ ins'.kind = "brk" /\ Elsewhere'
    BY <1>0, <1>1, <2>1, <2>4 DEF Onward, Elsewhere
  <2> QED
    BY <2>1, <2>3, <2>5, <2>6, <2>7 DEF Interrupting
<1>2. CASE /\ ins.kind = "interrupt" /\ pc = ins.at /\ cycles = 0
           /\ ahead = <<"idle", "idle", "pushHigh", "pushLow", "push", "vector", "vectorHigh">>
  <2>1. ahead # <<>> /\ Head(ahead) = "idle"
        /\ Tail(ahead) = <<"idle", "pushHigh", "pushLow", "push", "vector", "vectorHigh">>
    BY <1>2
  <2>2. /\ Onward /\ Rests /\ Unbothered /\ ahead' = Tail(ahead)
    BY <1>0, <2>1, DeadStep
  <2>3. cycles' = 1 /\ pc' = ins'.at /\ ins'.kind = "interrupt" /\ Elsewhere'
    BY <1>0, <1>2, <2>2 DEF Onward, Rests, Elsewhere
  <2> QED
    BY <2>1, <2>2, <2>3 DEF Interrupting
<1>3. CASE /\ ins.kind = "interrupt" /\ pc = ins.at /\ cycles = 1
           /\ ahead = <<"idle", "pushHigh", "pushLow", "push", "vector", "vectorHigh">>
  <2>1. ahead # <<>> /\ Head(ahead) = "idle"
        /\ Tail(ahead) = <<"pushHigh", "pushLow", "push", "vector", "vectorHigh">>
    BY <1>3
  <2>2. /\ Onward /\ Rests /\ Unbothered /\ ahead' = Tail(ahead)
    BY <1>0, <2>1, DeadStep
  <2>3. cycles' = 2 /\ pc' = Return' /\ ins'.kind = "interrupt" /\ Elsewhere'
    BY <1>0, <1>3, <2>2 DEF Onward, Rests, Elsewhere, Return
  <2> QED
    BY <2>1, <2>2, <2>3 DEF Interrupting
<1> QED
  BY <1>1, <1>2, <1>3

\* What is returned to does not change on the way.
LEMMA ReturnKept ==
  ASSUME Onward
  PROVE  Return' = Return /\ Low(Return)' = Low(Return) /\ High(Return)' = High(Return)
         /\ Vectors' = Vectors
  BY DEF Onward, Return, Low, High, Vectors, Plus

\* What is pushed.
LEMMA PushingStep ==
  ASSUME TypeOK, Elsewhere, Next, ins.kind \in {"brk", "interrupt"},
         \/ /\ ahead = <<"pushHigh", "pushLow", "push", "vector", "vectorHigh">>
            /\ cycles = 2 /\ pc = Return
         \/ /\ ahead = <<"pushLow", "push", "vector", "vectorHigh">>
            /\ cycles = 3 /\ pc = Return
            /\ OnStack(1, High(Return))
         \/ /\ ahead = <<"push", "vector", "vectorHigh">> /\ cycles = 4
            /\ OnStack(1, Low(Return)) /\ OnStack(2, High(Return))
  PROVE  Interrupting' /\ Unbothered
<1>0. /\ ahead # <<>> /\ Head(ahead) \in {"push", "pushHigh", "pushLow"}
      /\ ins.kind \in {"push", "jsr", "brk", "interrupt"}
  OBVIOUS
<1>1. Onward /\ Unbothered /\ ahead' = Tail(ahead) /\ pc' = pc
  BY <1>0, Pushed
<1>2. /\ Return' = Return /\ Low(Return)' = Low(Return) /\ High(Return)' = High(Return)
      /\ Elsewhere' /\ ins'.kind \in {"brk", "interrupt"}
  BY <1>1, ReturnKept DEF Onward, Elsewhere
<1>3. /\ Place(1)' \in DOMAIN mem'
      /\ Head(ahead) = "pushHigh" => mem'[Place(1)'] = High(pc)
      /\ Head(ahead) = "pushLow" => mem'[Place(1)'] = Low(pc)
      /\ Place(1) \in DOMAIN mem
            => Place(2)' \in DOMAIN mem' /\ mem'[Place(2)'] = mem[Place(1)]
      /\ Place(2) \in DOMAIN mem
            => Place(3)' \in DOMAIN mem' /\ mem'[Place(3)'] = mem[Place(2)]
  BY <1>0, PushedOver
<1>4. CASE /\ ahead = <<"pushHigh", "pushLow", "push", "vector", "vectorHigh">>
           /\ cycles = 2 /\ pc = Return
  <2>1. Head(ahead) = "pushHigh" /\ Tail(ahead) = <<"pushLow", "push", "vector", "vectorHigh">>
    BY <1>4
  <2>2. OnStack(1, High(Return))'
    BY <1>2, <1>3, <1>4, <2>1 DEF OnStack
  <2>3. cycles' = 3 /\ pc' = Return'
    BY <1>1, <1>2, <1>4 DEF Onward
  <2> QED
    BY <1>1, <1>2, <2>1, <2>2, <2>3 DEF Interrupting
<1>5. CASE /\ ahead = <<"pushLow", "push", "vector", "vectorHigh">>
           /\ cycles = 3 /\ pc = Return /\ OnStack(1, High(Return))
  <2>1. Head(ahead) = "pushLow" /\ Tail(ahead) = <<"push", "vector", "vectorHigh">>
    BY <1>5
  <2>2. OnStack(1, Low(Return))' /\ OnStack(2, High(Return))'
    BY <1>2, <1>3, <1>5, <2>1 DEF OnStack
  <2>3. cycles' = 4
    BY <1>1, <1>5 DEF Onward
  <2> QED
    BY <1>1, <1>2, <2>1, <2>2, <2>3 DEF Interrupting
<1>6. CASE /\ ahead = <<"push", "vector", "vectorHigh">> /\ cycles = 4
           /\ OnStack(1, Low(Return)) /\ OnStack(2, High(Return))
  <2>1. Tail(ahead) = <<"vector", "vectorHigh">>
    BY <1>6
  <2>2. OnStack(2, Low(Return))' /\ OnStack(3, High(Return))'
    BY <1>2, <1>3, <1>6 DEF OnStack
  <2>3. cycles' = 5
    BY <1>1, <1>6 DEF Onward
  <2> QED
    BY <1>1, <1>2, <2>1, <2>2, <2>3 DEF Interrupting
<1> QED
  BY <1>4, <1>5, <1>6

\* The vector is read.
LEMMA VectorStep ==
  ASSUME TypeOK, Elsewhere, Next, ins.kind \in {"brk", "interrupt"},
         OnStack(2, Low(Return)), OnStack(3, High(Return)),
         \/ ahead = <<"vector", "vectorHigh">> /\ cycles = 5
         \/ /\ ahead = <<"vectorHigh">> /\ cycles = 6
            /\ addr \in Vectors /\ Cell(addr) \in DOMAIN mem /\ low = mem[Cell(addr)]
  PROVE  Interrupting' /\ Unbothered
<1>1. ASSUME s' = s, Agrees, Onward
      PROVE  OnStack(2, Low(Return))' /\ OnStack(3, High(Return))'
  <2>1. Low(Return)' = Low(Return) /\ High(Return)' = High(Return)
    BY <1>1, ReturnKept
  <2>2. Place(2)' = Place(2) /\ Place(3)' = Place(3)
    BY <1>1 DEF Place, Cell, Stack, Word, Onward
  <2> QED
    BY <1>1, <2>1, <2>2 DEF OnStack, Agrees
<1>2. CASE ahead = <<"vector", "vectorHigh">> /\ cycles = 5
  <2>1. ahead # <<>> /\ Head(ahead) = "vector" /\ Tail(ahead) = <<"vectorHigh">>
    BY <1>2
  <2>2. Vector
    BY <2>1, NotAddressed, Acts
  <2>3. PICK v \in Byte, at \in Vectors : Reads(at, v) /\ low' = v /\ addr' = at
    BY <2>2 DEF Vector
  <2>4. ahead' = Tail(ahead) /\ s' = s
    BY <2>2 DEF Vector, Then
  <2>5. /\ Agrees /\ bus' = [does |-> "read", at |-> Cell(at)] /\ Onward
        /\ Cell(at) \in DOMAIN mem' /\ mem'[Cell(at)] = v
    BY <2>3, ReadsKeep DEF Onward
  <2>6. Unbothered
    BY <2>5, ReadElsewhere DEF Onward
  <2>7. addr' \in Vectors' /\ Cell(addr)' \in DOMAIN mem' /\ low' = mem'[Cell(addr)']
    BY <2>3, <2>5, ReturnKept DEF Cell, Onward
  <2>8. cycles' = 6 /\ Elsewhere' /\ ins'.kind \in {"brk", "interrupt"}
    BY <1>2, <2>5 DEF Onward, Elsewhere
  <2> QED
    BY <1>1, <2>1, <2>4, <2>5, <2>6, <2>7, <2>8 DEF Interrupting
<1>3. CASE /\ ahead = <<"vectorHigh">> /\ cycles = 6
           /\ addr \in Vectors /\ Cell(addr) \in DOMAIN mem /\ low = mem[Cell(addr)]
  <2> DEFINE a == Plus(addr, 1)
  <2>1. ahead # <<>> /\ Head(ahead) = "vectorHigh" /\ Tail(ahead) = <<>>
        /\ a = HighAt[Head(ahead)]
    BY <1>3 DEF HighAt
  <2> HIDE DEF a
  <2>2. /\ Onward /\ Unbothered /\ ahead' = Tail(ahead)
        /\ s' = s /\ addr' = addr /\ Agrees
        /\ Cell(a) \in DOMAIN mem' /\ pc' = Word(low, mem'[Cell(a)])
    BY <2>1, JumpStep
  <2>3. Cell(addr)' = Cell(addr) /\ Cell(Plus(addr, 1))' = Cell(a)
    BY <2>2 DEF Cell, Onward, a
  <2>4. Fetched(addr, Plus(addr, 1))'
    BY <1>3, <2>2, <2>3 DEF Fetched, Agrees
  <2>5. addr' \in Vectors'
    BY <1>3, <2>2, ReturnKept
  <2>6. cycles' = 7 /\ Elsewhere' /\ ins'.kind \in {"brk", "interrupt"}
    BY <1>3, <2>2 DEF Onward, Elsewhere
  <2> QED
    BY <1>1, <2>1, <2>2, <2>4, <2>5, <2>6 DEF Interrupting
<1> QED
  BY <1>2, <1>3

\* Each cycle of an entry.
LEMMA InterruptingStep ==
  ASSUME TypeOK, Interrupting, Next, ahead # <<>>
  PROVE  Interrupting' /\ Unbothered
<1>1. Elsewhere
  BY DEF Interrupting
<1>2. CASE ins.kind = "brk" /\
           Row(<<"signature", "pushHigh", "pushLow", "push", "vector", "vectorHigh">>, 1, 1)
  BY <1>2, EntryStep
<1> QED
  BY <1>1, <1>2, EntryStep, PushingStep, VectorStep DEF Interrupting

\* An entry has pushed what it returns to, and ends where a vector points.
LEMMA InterruptingOver ==
  ASSUME TypeOK, Interrupting, ahead = <<>>
  PROVE  ArrivesWhereDecoded /\ CyclesAsPrinted
<1>0. Elsewhere
  BY DEF Interrupting
<1>1. /\ ins.kind \in {"brk", "interrupt"} /\ cycles = 7
      /\ OnStack(2, Low(Return)) /\ OnStack(3, High(Return))
      /\ addr \in Vectors /\ Fetched(addr, Plus(addr, 1))
  <2>1. ~Row(<<"signature", "pushHigh", "pushLow", "push", "vector", "vectorHigh">>, 1, 1)
    BY DEF Row
  <2> QED
    BY <2>1 DEF Interrupting
<1>2. ins.at \in Int /\ ins.at \in Address /\ Return \in Address
  <2>1. ins.at \in Int /\ ins.at \in Address
    BY Sizes DEF TypeOK, Address
  <2> QED
    BY <2>1, PlusAddress DEF Return
<1>3. Stacked(2) = Return
  <2>1. OnStack(2 + 1, High(Return))
    BY <1>1
  <2> QED
    BY <1>1, <1>2, <2>1, StackedIs
<1>4. ins.kind = "brk" => Plus(After, 1) = Return
  <2>1. Size = 1
    BY <1>0, <1>1 DEF Elsewhere, ModeOf, Size, MODE_SIZE
  <2>2. Plus(Plus(ins.at, 1), 1) = Plus(ins.at, 2)
    <3>1. ASSUME NEW at \in Int
          PROVE  Plus(Plus(at, 1), 1) = Plus(at, 2)
      <4>1. Plus(Plus(at, 1), 1) = Plus(at, 1 + 1)
        BY PlusPlus
      <4> QED
        BY <4>1
    <3> QED
      BY <1>2, <3>1
  <2> QED
    BY <2>1, <2>2 DEF After, Return
<1>5. Stacked(2) = IF ins.kind = "brk" THEN Plus(After, 1) ELSE ins.at
  BY <1>1, <1>3, <1>4 DEF Return
<1>6. Printed = 7
  BY <1>1 DEF Printed, Other
<1> QED
  BY <1>1, <1>5, <1>6 DEF ArrivesWhereDecoded, CyclesAsPrinted

-----------------------------------------------------------------------------
(* The invariant.                                                          *)

\* Nothing is under way.
Idle ==
    /\ ins = None /\ ahead = <<>>
    /\ DOMAIN mem = {} /\ DOMAIN first = {}
    /\ bus.does = "none" /\ cycles = 0

\* One of the other instructions is under way, or an interrupt is.
Handling ==
    \/ Plain \/ Branching \/ Jumping \/ Indirecting
    \/ Calling \/ Returning \/ Interrupting

\* Where an instruction is, and that what it has done so far is harmless.
IInv ==
    /\ TypeOK
    /\ Idle \/ Forming \/ Reached \/ Handling
    /\ WritesAreNamed /\ SparesAreHarmless

\* An instruction on its way has something ahead.
LEMMA FormingAhead ==
  ASSUME Forming
  PROVE  ahead # <<>>
<1>1. HasAddress /\ Last \in Seq(Work)
  BY LastIs DEF Forming
<1>2. \A u \in Seq(Work) : u # <<>> => u \o Last # <<>>
  BY <1>1, HeadOf
<1>3. Way[ins.mode] \in Seq(Work) /\ Way[ins.mode] # <<>>
  <2>1. Way[ins.mode] \in {<<"low">>, <<"low", "spare">>, <<"low", "high">>,
                           <<"low", "spare", "pointer", "pointerHigh">>,
                           <<"low", "pointer", "pointerHigh">>}
    BY <1>1, Instruction, WayIs DEF Through
  <2>2. /\ <<"low">> # <<>> /\ <<"low", "spare">> # <<>> /\ <<"low", "high">> # <<>>
        /\ <<"low", "spare", "pointer", "pointerHigh">> # <<>>
        /\ <<"low", "pointer", "pointerHigh">> # <<>>
    OBVIOUS
  <2> QED
    BY <2>1, <2>2, SomeWork, Zenon
<1>4. /\ <<"high">> # <<>> /\ <<"spare">> # <<>> /\ <<"spare", "pointer", "pointerHigh">> # <<>>
      /\ <<"pointer", "pointerHigh">> # <<>> /\ <<"pointerHigh">> # <<>>
  OBVIOUS
<1>5. /\ ToLow => ahead # <<>>
      /\ ToHigh => ahead # <<>>
      /\ ToSpare => ahead # <<>>
      /\ ToPointer => ahead # <<>>
      /\ ToPointerHigh => ahead # <<>>
  BY <1>2, <1>3, <1>4, SomeWork DEF ToLow, ToHigh, ToSpare, ToPointer, ToPointerHigh
<1> QED
  BY <1>5 DEF Forming

\* At the end of an instruction the invariant is what its end should be.
LEMMA InvariantOver ==
  ASSUME IInv
  PROVE  ArrivesWhereDecoded /\ CyclesAsPrinted
<1>1. CASE ~Over
  BY <1>1 DEF ArrivesWhereDecoded, CyclesAsPrinted
<1>2. CASE Over
  <2>0. ins # None /\ ahead = <<>> /\ TypeOK
    BY <1>2 DEF Over, IInv
  <2>1. Reached \/ Handling
    BY <2>0, FormingAhead DEF IInv, Idle
  <2>2. CASE Reached
    <3>1. ins.kind \in DOMAIN AtAddress /\ pc = Plus(ins.at, Size)
          /\ cycles + Len(ahead) = Printed /\ cycles \in Int
      BY <2>0, <2>2 DEF Reached, HasAddress, At, TypeOK
    <3>2. cycles = Printed
      BY <2>0, <3>1
    <3>3. ins.kind \in {"read", "sum", "write", "modify", "shift", "unstable"}
      BY <3>1 DEF AtAddress
    <3> QED
      BY <3>1, <3>2, <3>3 DEF ArrivesWhereDecoded, CyclesAsPrinted, After
  <2>3. CASE Handling
    BY <2>0, <2>3, PlainOver, BranchingOver, JumpingOver, IndirectingOver, CallingOver,
       ReturningOver, InterruptingOver DEF Handling
  <2> QED
    BY <2>1, <2>2, <2>3
<1> QED
  BY <1>1, <1>2

\* The invariant holds before the first instruction.
LEMMA InvariantInit ==
  ASSUME Init
  PROVE  IInv
<1>1. /\ cmos \in BOOLEAN /\ reach \in Reaches /\ ins = None /\ ahead = <<>>
      /\ DOMAIN mem = {} /\ DOMAIN first = {}
      /\ pc = 0 /\ s = 0 /\ low = 0 /\ base = 0 /\ addr = 0 /\ cycles = 0
      /\ bus.does = "none"
  BY DEF Init
<1>2. ins.at = 0 /\ ins.index = 0
  BY <1>1 DEF None
<1>3. TypeOK
  BY <1>1, <1>2, Sizes DEF TypeOK
<1>4. Idle
  BY <1>1 DEF Idle
<1>5. WritesAreNamed /\ SparesAreHarmless
  BY <1>1 DEF WritesAreNamed, SparesAreHarmless
<1> QED
  BY <1>3, <1>4, <1>5 DEF IInv

\* The opcode of an instruction that has an address is fetched.
LEMMA AddressedBegins ==
  ASSUME Idle, NEW k \in DOMAIN AtAddress, NEW m \in Addressed(cmos)[k], NEW at \in Starts,
         NEW x, ins' = [kind |-> k, mode |-> m, at |-> at, index |-> x],
         ahead' = effective[m] \o AtAddress[k], mem' = mem, first' = first, reach' = reach,
         pc' = Plus(at, 1), bus' = [does |-> "read", at |-> Cell(at)], cycles' = 1
  PROVE  Forming' /\ Unbothered
<1>0. ins'.kind = k /\ ins'.mode = m /\ ins'.at = at
  OBVIOUS
<1>1. m \in DOMAIN effective /\ (k = "unstable" => m \in {"absoluteX", "indirectIndexedY"})
  BY DEF Addressed, AtAddress, Eight, effective
<1>2. HasAddress' /\ Proper' /\ Unwritten'
  BY <1>0, <1>1 DEF HasAddress, Proper, Indexed, Unwritten, Idle
<1>3. ahead' = Way[m] \o (IF m \in {"absoluteX", "indirectIndexedY"}
                          THEN <<"index">> \o AtAddress[k] ELSE AtAddress[k])
  BY <1>1, WayAndLast
<1>4. ToLow'
  BY <1>0, <1>3 DEF ToLow, Last, Indexed, Use, At
<1>5. at \in Address /\ MODE_SIZE[m] \in Nat
  BY <1>1, StartsAssumption DEF effective, MODE_SIZE, Address
<1>6. Unbothered
  <2>1. bus'.does = "read" /\ bus'.at = Cell(at)
    OBVIOUS
  <2>2. Plus(at, 0) = at /\ 0 \in 0..MODE_SIZE[m]
    BY <1>5, PlusNothing
  <2>3. bus'.at = Cell(Plus(ins.at, 0))' /\ 0 \in 0..MODE_SIZE[ins'.mode]
    BY <1>0, <2>1, <2>2 DEF Cell, Plus
  <2> QED
    BY <2>1, <2>3 DEF Unbothered, SparesAreHarmless, WritesAreNamed
<1> QED
  BY <1>2, <1>4, <1>6 DEF Forming

\* The opcode of one that has none is fetched, or an interrupt is taken.
LEMMA HandledBegins ==
  ASSUME Idle, NEW k \in DOMAIN ModeOf, NEW at \in Starts,
         NEW x, ins' = [kind |-> k, mode |-> ModeOf[k], at |-> at, index |-> x],
         mem' = mem, first' = first, cmos' = cmos,
         \/ k \in DOMAIN Handlers /\ ahead' = Handlers[k]
         \/ k \in DOMAIN CmosHandlers /\ cmos /\ ahead' = CmosHandlers[k]
         \/ k \in DOMAIN NmosHandlers /\ ~cmos /\ ahead' = NmosHandlers[k],
         IF k = "interrupt" THEN pc' = at /\ cycles' = 0 ELSE pc' = Plus(at, 1) /\ cycles' = 1
  PROVE  Handling'
<1>0. ins'.kind = k /\ ins'.mode = ModeOf[k] /\ ins'.at = at
  OBVIOUS
<1>1. Elsewhere' /\ Unwritten'
  BY <1>0 DEF Elsewhere, Unwritten, Idle
<1>2. CASE k \in {"implied", "immediate", "push", "pull", "nop1", "nop3", "nopX",
                  "sumImmediate"}
  <2>1. /\ k = "implied" => ahead' = <<"idle">>
        /\ k = "immediate" => ahead' = <<"low">>
        /\ k = "push" => ahead' = <<"idle", "push">>
        /\ k = "pull" => ahead' = <<"idle", "top", "pull">>
        /\ k = "nop1" => ahead' = <<>>
        /\ k = "nop3" => ahead' = <<"low", "high">>
        /\ k = "nopX" => ahead' = <<"low", "high", "last">>
        /\ k = "sumImmediate" => ahead' = <<"low", "last">>
    BY <1>2 DEF Handlers, CmosHandlers, NmosHandlers
  <2>2. pc' = Plus(ins'.at, 1) /\ cycles' = 1
    BY <1>0, <1>2
  <2>3. Plain'
    BY <1>0, <1>1, <1>2, <2>1, <2>2 DEF Plain, Row, At
  <2> QED
    BY <2>3 DEF Handling
<1>3. CASE k \in {"branch", "branchOnBit"}
  <2>1. /\ k = "branch" => ahead' = <<"offset">>
        /\ k = "branchOnBit" => ahead' = <<"low", "look", "settle", "offset">> /\ cmos
    BY <1>3 DEF Handlers, CmosHandlers, NmosHandlers
  <2>2. pc' = Plus(ins'.at, 1) /\ cycles' = 1
    BY <1>0, <1>3
  <2>3. k = "branch" => Size' - 1 = 1 /\ Untaken' - 1 = 1
    BY <1>0 DEF Size, Untaken, ModeOf, MODE_SIZE
  <2>4. k = "branch" => Row(<<"offset">>, Untaken - 1, Size - 1)'
    BY <2>1, <2>2, <2>3 DEF Row, At
  <2>5. k = "branchOnBit" => Row(<<"low", "look", "settle", "offset">>, 1, 1)'
    BY <2>1, <2>2 DEF Row, At
  <2>6. Branching'
    BY <1>0, <1>1, <1>3, <2>1, <2>4, <2>5 DEF Branching
  <2> QED
    BY <2>6 DEF Handling
<1>4. CASE k \in {"jmp", "jsr", "rts", "rti", "brk"}
  <2>1. /\ k = "jmp" => ahead' = <<"low", "to">>
        /\ k = "jsr" => ahead' = <<"low", "top", "pushHigh", "pushLow", "to">>
        /\ k = "rts" => ahead' = <<"idle", "top", "pullLow", "pullHigh", "pulled">>
        /\ k = "rti" => ahead' = <<"idle", "top", "pull", "pullLow", "pullTo">>
        /\ k = "brk" => ahead' = <<"signature", "pushHigh", "pushLow", "push", "vector",
                                   "vectorHigh">>
    BY <1>4 DEF Handlers, CmosHandlers, NmosHandlers
  <2>2. pc' = Plus(ins'.at, 1) /\ cycles' = 1
    BY <1>0, <1>4
  <2>3. /\ k = "jmp" => Jumping'
        /\ k = "jsr" => Calling'
        /\ k \in {"rts", "rti"} => Returning'
        /\ k = "brk" => Interrupting'
    BY <1>0, <1>1, <2>1, <2>2 DEF Jumping, Calling, Returning, Interrupting, Row, At
  <2> QED
    BY <1>4, <2>3 DEF Handling
<1>5. CASE k = "interrupt"
  <2>1. ahead' = <<"idle", "idle", "pushHigh", "pushLow", "push", "vector", "vectorHigh">>
    BY <1>5 DEF Handlers, CmosHandlers, NmosHandlers
  <2>2. Interrupting'
    BY <1>0, <1>1, <1>5, <2>1 DEF Interrupting
  <2> QED
    BY <2>2 DEF Handling
<1>6. CASE k \in {"jmpIndirect", "jmpIndirectX"}
  <2>1. ahead' = Jumps' /\ (k = "jmpIndirectX" => cmos')
    BY <1>0, <1>6 DEF Handlers, CmosHandlers, NmosHandlers, Jumps
  <2>2. pc' = Plus(ins'.at, 1) /\ cycles' = 1
    BY <1>0, <1>6
  <2>3. Row(Jumps, 1, 1)'
    BY <2>1, <2>2 DEF Row, At
  <2>4. Indirecting'
    BY <1>0, <1>1, <1>6, <2>1, <2>3 DEF Indirecting
  <2> QED
    BY <2>4 DEF Handling
<1> QED
  BY <1>2, <1>3, <1>4, <1>5, <1>6 DEF ModeOf

\* An instruction begins.
LEMMA InvariantBegins ==
  ASSUME IInv, Begin \/ Enter
  PROVE  (Forming \/ Handling)' /\ Unbothered
<1>1. PICK do \in Instructions(cmos), at \in Starts :
          /\ Start(do, at)
          /\ IF do.kind = "interrupt"
             THEN pc' = at /\ cycles' = cycles /\ bus' = bus
             ELSE pc' = Plus(at, 1) /\ cycles' = 1 /\ bus' = [does |-> "read", at |-> Cell(at)]
  BY DEF Begin, Enter
<1>2. PICK x \in Indices(do), top \in Pointers(do) :
          /\ ins = None
          /\ ins' = [kind |-> do.kind, mode |-> do.mode, at |-> at, index |-> x]
          /\ ahead' = do.does
          /\ mem' = mem /\ first' = first /\ cmos' = cmos /\ reach' = reach
  BY <1>1 DEF Start, memory, part
<1>3. Idle
  <2>1. ins.kind = "none"
    BY <1>2 DEF None
  <2>2. ~HasAddress /\ ~Elsewhere
    BY <2>1 DEF HasAddress, AtAddress, Elsewhere, ModeOf
  <2>3. ~Forming /\ ~Reached /\ ~Handling
    BY <2>2 DEF Forming, Reached, Handling, Plain, Branching, Jumping, Indirecting, Calling,
                Returning, Interrupting
  <2> QED
    BY <2>3 DEF IInv
<1>4. CASE \E k \in DOMAIN AtAddress : \E m \in Addressed(cmos)[k] :
              do = [kind |-> k, mode |-> m, does |-> effective[m] \o AtAddress[k]]
  <2>0. PICK k \in DOMAIN AtAddress : \E m \in Addressed(cmos)[k] :
            do = [kind |-> k, mode |-> m, does |-> effective[m] \o AtAddress[k]]
    BY <1>4
  <2>1. PICK m \in Addressed(cmos)[k] :
            do = [kind |-> k, mode |-> m, does |-> effective[m] \o AtAddress[k]]
    BY <2>0
  <2>2. do.kind = k /\ do.mode = m /\ do.does = effective[m] \o AtAddress[k]
    BY <2>1
  <2>3. k # "interrupt"
    BY DEF AtAddress
  <2>4. /\ ins' = [kind |-> k, mode |-> m, at |-> at, index |-> x]
        /\ ahead' = effective[m] \o AtAddress[k]
        /\ pc' = Plus(at, 1) /\ cycles' = 1 /\ bus' = [does |-> "read", at |-> Cell(at)]
    BY <1>1, <1>2, <2>2, <2>3
  <2> QED
    BY <1>2, <1>3, <2>4, AddressedBegins
<1>5. ASSUME NEW handlers, NEW k \in DOMAIN handlers, k \in DOMAIN ModeOf,
             do = [kind |-> k, mode |-> ModeOf[k], does |-> handlers[k]],
             \/ handlers = Handlers
             \/ handlers = CmosHandlers /\ cmos
             \/ handlers = NmosHandlers /\ ~cmos
      PROVE  Handling' /\ Unbothered
  <2>1. do.kind = k /\ do.mode = ModeOf[k] /\ do.does = handlers[k]
    BY <1>5
  <2>2. /\ ins' = [kind |-> k, mode |-> ModeOf[k], at |-> at, index |-> x]
        /\ ahead' = handlers[k]
    BY <1>2, <2>1
  <2>3. IF k = "interrupt" THEN pc' = at /\ cycles' = 0 ELSE pc' = Plus(at, 1) /\ cycles' = 1
    BY <1>1, <1>3, <2>1 DEF Idle
  <2>4. Handling'
    BY <1>2, <1>3, <1>5, <2>2, <2>3, HandledBegins
  <2>5. Unbothered
    <3>1. ins'.kind \notin DOMAIN AtAddress
      BY <1>5, <2>2 DEF ModeOf, AtAddress
    <3>2. bus'.does # "write"
      BY <1>1, <1>3 DEF Idle
    <3> QED
      BY <3>1, <3>2 DEF Unbothered, SparesAreHarmless, WritesAreNamed, Addressing
  <2> QED
    BY <2>4, <2>5
<1>6. ASSUME NEW handlers, do \in Handled(handlers)
      PROVE  \E k \in DOMAIN handlers :
                do = [kind |-> k, mode |-> ModeOf[k], does |-> handlers[k]]
  BY <1>6 DEF Handled
<1>7. /\ DOMAIN Handlers \subseteq DOMAIN ModeOf
      /\ DOMAIN CmosHandlers \subseteq DOMAIN ModeOf
      /\ DOMAIN NmosHandlers \subseteq DOMAIN ModeOf
  BY DEF Handlers, CmosHandlers, NmosHandlers, ModeOf
<1>8. CASE do \in Handled(Handlers)
  BY <1>5, <1>6, <1>7, <1>8
<1>9. CASE do \in Handled(CmosHandlers) /\ cmos
  BY <1>5, <1>6, <1>7, <1>9
<1>10. CASE do \in Handled(NmosHandlers) /\ ~cmos
  BY <1>5, <1>6, <1>7, <1>10
<1>11. \/ \E k \in DOMAIN AtAddress : \E m \in Addressed(cmos)[k] :
              do = [kind |-> k, mode |-> m, does |-> effective[m] \o AtAddress[k]]
       \/ do \in Handled(Handlers)
       \/ do \in Handled(CmosHandlers) /\ cmos
       \/ do \in Handled(NmosHandlers) /\ ~cmos
  <2> DEFINE those(k) == {[kind |-> k, mode |-> m, does |-> effective[m] \o AtAddress[k]] :
                          m \in Addressed(cmos)[k]}
             all == {those(k) : k \in DOMAIN AtAddress}
  <2>1. \/ do \in UNION all
        \/ do \in Handled(Handlers)
        \/ do \in IF cmos THEN Handled(CmosHandlers) ELSE Handled(NmosHandlers)
    BY DEF Instructions
  <2>2. ASSUME do \in UNION all
        PROVE  \E k \in DOMAIN AtAddress : do \in those(k)
    <3> HIDE DEF those
    <3> QED
      BY <2>2
  <2>3. \A k \in DOMAIN AtAddress : do \in those(k) =>
            \E m \in Addressed(cmos)[k] :
               do = [kind |-> k, mode |-> m, does |-> effective[m] \o AtAddress[k]]
    OBVIOUS
  <2> HIDE DEF those, all
  <2> QED
    BY <2>1, <2>2, <2>3
<1> QED
  BY <1>4, <1>8, <1>9, <1>10, <1>11

\* Every action keeps the invariant.
LEMMA InvariantStep ==
  ASSUME IInv, Next
  PROVE  IInv'
<1>0. TypeOK /\ TypeOK'
  BY StepTypes DEF IInv
<1>1. CASE Begin \/ Enter
  BY <1>0, <1>1, InvariantBegins DEF IInv, Unbothered
<1>2. CASE End
  <2>1. Idle'
    BY <1>2 DEF End, Over, Idle
  <2>2. WritesAreNamed' /\ SparesAreHarmless'
    BY <1>2 DEF End, WritesAreNamed, SparesAreHarmless
  <2> QED
    BY <1>0, <2>1, <2>2 DEF IInv
<1>3. CASE ~Begin /\ ~Enter /\ ~End
  <2>1. ahead # <<>>
    BY <1>3, EndsOnly
  <2>2. CASE Idle
    BY <2>1, <2>2 DEF Idle
  <2>3. CASE Forming
    <3>1. HasAddress /\ Proper /\ Unwritten
      BY <2>3 DEF Forming
    <3>2. (Forming' \/ Reached') /\ SparesAreHarmless' /\ WritesAreNamed'
      BY <1>0, <2>3, <3>1, LowStep, HighStep, SpareStep, PointerStep, PointerHighStep
         DEF Forming
    <3> QED
      BY <1>0, <3>2 DEF IInv
  <2>4. CASE Reached
    BY <1>0, <2>1, <2>4, ReachedStep DEF IInv
  <2>5. CASE Handling
    <3>1. Handling' /\ Unbothered
      BY <1>0, <2>1, <2>5, PlainStep, BranchingStep, JumpingStep, IndirectingStep, CallingStep,
         ReturningStep, InterruptingStep DEF Handling
    <3> QED
      BY <1>0, <3>1 DEF IInv, Unbothered
  <2> QED
    BY <2>2, <2>3, <2>4, <2>5 DEF IInv
<1> QED
  BY <1>1, <1>2, <1>3

\* Nothing changes.
LEMMA InvariantStutter ==
  ASSUME IInv, UNCHANGED vars
  PROVE  IInv'
<1>1. /\ cmos' = cmos /\ reach' = reach /\ ins' = ins /\ ahead' = ahead
      /\ mem' = mem /\ first' = first /\ pc' = pc /\ s' = s
      /\ low' = low /\ base' = base /\ addr' = addr /\ bus' = bus /\ cycles' = cycles
  BY DEF vars, part, memory, forming
<1>2. TypeOK'
  BY <1>1 DEF IInv, TypeOK
<1>3. ASSUME Idle PROVE Idle'
  BY <1>1, <1>3 DEF Idle
<1>4. ASSUME Forming PROVE Forming'
  <2>1. HasAddress' /\ Proper' /\ Unwritten'
    BY <1>1, <1>4 DEF Forming, HasAddress, Proper, Unwritten, Indexed
  <2>2. /\ Last' = Last /\ Zero' = Zero /\ Way' = Way
        /\ \A a : Found(a)' = Found(a)
    BY <1>1 DEF Last, Use, Indexed, Zero, Operand, Cell, Way, Found
  <2>3. (ToLow \/ ToHigh \/ ToSpare \/ ToPointer \/ ToPointerHigh)'
    BY <1>1, <1>4, <2>2 DEF Forming, ToLow, ToHigh, ToSpare, ToPointer, ToPointerHigh, At,
       Operand, Cell, Found
  <2> QED
    BY <2>1, <2>3 DEF Forming
<1>5. Zero' = Zero /\ Named' = Named /\ Unindexed' = Unindexed /\ Indexed' = Indexed
  BY <1>1 DEF Zero, Named, Unindexed, Indexed, Pointer, Operand, Cell
<1>6. Crosses' = Crosses /\ READ' = READ
  BY <1>1, <1>5 DEF Crosses, READ
<1>7. Printed' = Printed
  BY <1>1, <1>5, <1>6 DEF Printed
<1>8. ASSUME Reached PROVE Reached'
  <2>1. HasAddress' /\ Proper' /\ AllFound' /\ At(Size)' /\ Use' = Use
    BY <1>1, <1>5, <1>8 DEF Reached, HasAddress, Proper, AllFound, Found, Cell, At, Size, Use
  <2>2. Unwritten' = Unwritten /\ (Partway => Partway')
    BY <1>1 DEF Unwritten, Partway, Found, Cell
  <2> QED
    BY <1>1, <1>5, <1>7, <1>8, <2>1, <2>2 DEF Reached
<1>9. Unwritten' = Unwritten /\ Elsewhere' = Elsewhere
  BY <1>1 DEF Unwritten, Elsewhere
<1>10. ASSUME Plain PROVE Plain'
  BY <1>1, <1>9, <1>10 DEF Plain, Row, At
<1>11. ASSUME Branching PROVE Branching'
  <2>1. Taken' = Taken /\ Crossing' = Crossing /\ Untaken' = Untaken /\ Size' = Size
    BY <1>1 DEF Taken, Target, Crossing, After, Untaken, Size, Operand, Found, Cell
  <2> QED
    BY <1>1, <1>9, <1>11, <2>1 DEF Branching, Row, At
<1>12. ASSUME Jumping PROVE Jumping'
  BY <1>1, <1>5, <1>9, <1>12 DEF Jumping, Row, At, Found, Operand, Cell
<1>13. ASSUME Indirecting PROVE Indirecting'
  <2>1. Jumps' = Jumps /\ BothFound' = BothFound /\ LowRead' = LowRead
    BY <1>1, <1>5 DEF Jumps, BothFound, LowRead, Vectored, Found, Cell
  <2>2. Vectored' = Vectored /\ HighAt["jumpHigh"]' = HighAt["jumpHigh"]
    BY <1>1, <1>5 DEF Vectored, HighAt
  <2> QED
    BY <1>1, <1>5, <1>9, <1>13, <2>1, <2>2
       DEF Indirecting, Row, At, Found, Operand, Fetched, Cell
<1>14. ASSUME Calling PROVE Calling'
  BY <1>1, <1>9, <1>14 DEF Calling, Row, At, Found, Operand, OnStack, Place, Back, Cell
<1>15. ASSUME Returning PROVE Returning'
  BY <1>1, <1>9, <1>15 DEF Returning, Top, Under, Cell
<1>16. ASSUME Interrupting PROVE Interrupting'
  BY <1>1, <1>9, <1>16 DEF Interrupting, Row, At, OnStack, Place, Return, Vectors, Fetched, Cell
<1>17. WritesAreNamed'
  BY <1>1, <1>5, <1>6 DEF IInv, WritesAreNamed, Cell
<1>18. SparesAreHarmless'
  BY <1>1, <1>5 DEF IInv, SparesAreHarmless, Addressing, Cell, Uncorrected
<1>19. Idle' \/ Forming' \/ Reached' \/ Handling'
  BY <1>3, <1>4, <1>8, <1>10, <1>11, <1>12, <1>13, <1>14, <1>15, <1>16 DEF IInv, Handling
<1> QED
  BY <1>2, <1>17, <1>18, <1>19 DEF IInv

-----------------------------------------------------------------------------
(* The theorems.                                                           *)

\* The invariant holds of every behaviour.
LEMMA InvariantHolds == Spec => []IInv
<1>1. Init => IInv
  BY InvariantInit
<1>2. IInv /\ [Next]_vars => IInv'
  BY InvariantStep, InvariantStutter
<1> QED
  BY <1>1, <1>2, PTL DEF Spec

\* Whatever its bytes, its index and the way a package folds addresses together, an
\* instruction writes where its bytes name, or to the stack if it pushes; an NMOS
\* part puts there first the byte it read.  (op_sta, read_modify_write, settle,
\* push8, unstable_store)
THEOREM WritesAlwaysNamed == Spec => []WritesAreNamed
<1>1. IInv => WritesAreNamed
  BY DEF IInv
<1> QED
  BY <1>1, InvariantHolds, PTL

\* No spare read of an addressed instruction is outside its own bytes, page zero,
\* the address it names and, on an NMOS part, that address before the carry.
\* (spare_for_index, spare_in_page_zero, settle)
THEOREM SparesAlwaysHarmless == Spec => []SparesAreHarmless
<1>1. IInv => SparesAreHarmless
  BY DEF IInv
<1> QED
  BY <1>1, InvariantHolds, PTL

\* Every instruction leaves the program counter where the disassembler says it
\* goes, and what a call, a BRK or an interrupt pushed is what it comes back to.
\* (op_bra, op_jmp, op_jsr, op_rts, op_rti, op_brk, interrupt)
THEOREM AlwaysArrives == Spec => []ArrivesWhereDecoded
<1>1. IInv => ArrivesWhereDecoded
  BY InvariantOver
<1> QED
  BY <1>1, InvariantHolds, PTL

\* Every instruction costs the cycles printed for it, one more where a page is
\* crossed or a branch taken, whatever the bytes and the pages.
THEOREM CyclesAlwaysPrinted == Spec => []CyclesAsPrinted
<1>1. IInv => CyclesAsPrinted
  BY InvariantOver
<1> QED
  BY <1>1, InvariantHolds, PTL

=============================================================================
