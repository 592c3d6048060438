---------------------- MODULE SixteenAddressingProofs ----------------------
(***************************************************************************)
(* What is proved of the 65816's instructions, for bytes of any number of  *)
(* values from three, both packages, and programs, indexes, data banks and *)
(* direct pages anywhere.                                                  *)
(*                                                                         *)
(* The invariant says where each instruction is in its handler.  On the    *)
(* way to an address it says what of the operand and the pointer has been  *)
(* found, and at the address that it is the one the bytes name; of any     *)
(* other instruction a table's row says what is ahead, how many of its     *)
(* bytes are behind, and what that makes of the registers and the stack.   *)
(* Cycles spent and work ahead always add up to those printed.             *)
(***************************************************************************)
EXTENDS SixteenAddressing, SequenceTheorems, TLAPS

-----------------------------------------------------------------------------
(* Remainders.                                                             *)

\* What a division leaves.
LEMMA Remainder ==
  ASSUME NEW n \in Nat \ {0}, NEW t \in Int
  PROVE  /\ (t % n) \in 0..(n - 1)
         /\ (t \div n) \in Int
         /\ t = n * (t \div n) + (t % n)
  OBVIOUS

\* A number written as quotient and remainder is divided so.
LEMMA RemainderIs ==
  ASSUME NEW n \in Nat \ {0}, NEW q \in Int, NEW r \in 0..(n - 1)
  PROVE  /\ ((n * q + r) % n) = r
         /\ ((n * q + r) \div n) = q
  OBVIOUS

\* A step from a remainder is a step from the number.
LEMMA RemainderPlus ==
  ASSUME NEW n \in Nat \ {0}, NEW t \in Int, NEW d \in Int
  PROVE  (((t % n) + d) % n) = ((t + d) % n)
<1> DEFINE q == t \div n
           p == ((t % n) + d) \div n
           r == ((t % n) + d) % n
<1>1. t = n * q + (t % n) /\ q \in Int /\ (t % n) \in Int
  BY Remainder
<1>2. (t % n) + d \in Int
  BY <1>1
<1>3. (t % n) + d = n * p + r /\ p \in Int /\ r \in 0..(n - 1)
  BY <1>2, Remainder
<1> HIDE DEF q, p, r
<1>4. t + d = n * (q + p) + r
  BY <1>1, <1>3
<1>5. ((n * (q + p) + r) % n) = r
  <2>1. q + p \in Int
    BY <1>1, <1>3
  <2> QED
    BY <1>3, <2>1, RemainderIs
<1> QED
  BY <1>4, <1>5 DEF r

\* A remainder is its own.
LEMMA RemainderSelf ==
  ASSUME NEW n \in Nat \ {0}, NEW r \in 0..(n - 1)
  PROVE  (r % n) = r
<1>1. r \in Int /\ n * 0 + r = r
  OBVIOUS
<1>2. ((n * 0 + r) % n) = r
  BY RemainderIs
<1> QED
  BY <1>1, <1>2

\* The remainder of a remainder, where the one number divides the other.
LEMMA RemainderTwice ==
  ASSUME NEW n \in Nat \ {0}, NEW m \in Nat \ {0}, NEW t \in Int
  PROVE  ((t % (n * m)) % n) = (t % n)
<1> DEFINE k == n * m
<1>1. k \in Nat \ {0} /\ k = n * m
  OBVIOUS
<1> HIDE DEF k
<1> DEFINE q == t \div k
           r == t % k
           p == r \div n
           u == r % n
<1>2. t = k * q + r /\ q \in Int /\ r \in Int
  <2>1. (t % k) \in 0..(k - 1) /\ (t \div k) \in Int /\ t = k * (t \div k) + (t % k)
    BY <1>1, Remainder
  <2> QED
    BY <1>1, <2>1
<1> HIDE DEF q, r
<1>3. r = n * p + u /\ p \in Int /\ u \in 0..(n - 1)
  BY <1>2, Remainder
<1> HIDE DEF p, u
<1>4. t = n * (m * q + p) + u /\ m * q + p \in Int
  <2>1. k * q = n * (m * q) /\ m * q \in Int
    BY <1>1, <1>2
  <2>2. n * (m * q + p) = n * (m * q) + n * p
    BY <1>3, <2>1
  <2>3. n * (m * q) \in Int /\ n * p \in Int /\ u \in Int
    BY <1>3, <2>1
  <2> QED
    BY <1>2, <1>3, <2>1, <2>2, <2>3
<1>5. (t % n) = u
  BY <1>3, <1>4, RemainderIs
<1> QED
  BY <1>5 DEF u, r, k

-----------------------------------------------------------------------------
(* Bytes, words and addresses.                                             *)

\* The addresses there are.
Place == 0..BB * B - 1

\* A byte has values, and so have a word and an address.
LEMMA Sizes ==
  /\ B \in Nat \ {0} /\ B >= 3
  /\ BB \in Nat \ {0} /\ BB >= 9 /\ BB >= B /\ BB = B * B
  /\ BB * B \in Nat \ {0}
  /\ 0 \in Byte /\ 0 \in Wide /\ 0 \in Place
  /\ Byte \subseteq Wide /\ Wide \subseteq Place
  /\ Byte \subseteq Int /\ Wide \subseteq Int /\ Place \subseteq Int
<1>1. B \in Nat \ {0} /\ B >= 3
  BY ByteAssumption
<1>2. B * B >= 3 * B /\ B * B \in Nat
  BY <1>1
<1> DEFINE b == B * B
<1>3. b \in Nat /\ b >= 9 /\ b >= B
  BY <1>1, <1>2
<1> HIDE DEF b
<1>4. b * B >= b * 1 /\ b * B \in Nat
  BY <1>1, <1>3
<1>5. BB = b
  BY DEF BB, b
<1> HIDE DEF b
<1>6. /\ 0 \in 0..B - 1 /\ 0 \in 0..b - 1 /\ 0 \in 0..b * B - 1
      /\ 0..B - 1 \subseteq 0..b - 1 /\ 0..b - 1 \subseteq 0..b * B - 1
      /\ 0..B - 1 \subseteq Int /\ 0..b - 1 \subseteq Int /\ 0..b * B - 1 \subseteq Int
      /\ b * B \in Nat \ {0}
  BY <1>1, <1>3, <1>4
<1> QED
  BY <1>1, <1>3, <1>5, <1>6 DEF Byte, Wide, Place, BB

\* A word is its two bytes.
LEMMA WordOfBytes ==
  ASSUME NEW l \in Byte, NEW h \in Byte
  PROVE  /\ Word(l, h) \in Wide
         /\ Low(Word(l, h)) = l
         /\ High(Word(l, h)) = h
<1>1. B \in Nat \ {0} /\ l \in 0..(B - 1) /\ h \in 0..(B - 1)
  BY Sizes DEF Byte
<1>2. Word(l, h) = B * h + l
  BY <1>1 DEF Word
<1>3. ((B * h + l) % B) = l /\ ((B * h + l) \div B) = h
  BY <1>1, RemainderIs
<1>4. B * h + l >= 0 /\ B * h + l <= B * B - 1
  <2>1. h + 1 <= B /\ h + 1 \in Nat
    BY <1>1
  <2>2. B * (h + 1) <= B * B
    BY <1>1, <2>1
  <2>3. B * (h + 1) = B * h + B /\ B * h \in Nat
    BY <1>1
  <2>4. B * B \in Nat
    BY Sizes
  <2> QED
    BY <1>1, <2>2, <2>3, <2>4
<1>5. B * h + l \in Int /\ B * B - 1 \in Int
  BY <1>1, Sizes
<1>6. (h % B) = h
  BY <1>1, RemainderSelf
<1> QED
  BY <1>2, <1>3, <1>4, <1>5, <1>6 DEF Wide, BB, Low, High

\* A word is the one its bytes make.
LEMMA BytesOfWord ==
  ASSUME NEW a \in Wide
  PROVE  /\ Low(a) \in Byte /\ High(a) \in Byte
         /\ a = Word(Low(a), High(a))
<1>1. B \in Nat \ {0} /\ B * B \in Nat
  BY Sizes
<1>2. a \in Int /\ 0 <= a /\ a <= B * B - 1
  BY <1>1 DEF Wide, BB
<1>3. /\ (a % B) \in 0..(B - 1) /\ (a \div B) \in Int
      /\ a = B * (a \div B) + (a % B)
  BY <1>1, <1>2, Remainder
<1> DEFINE l == a % B
           h == a \div B
<1>4. l \in 0..(B - 1) /\ h \in Int /\ a = B * h + l
  BY <1>3
<1> HIDE DEF l, h
<1>5. h < B
  <2>1. SUFFICES ASSUME h >= B PROVE FALSE
    BY <1>1, <1>4
  <2>2. B * h >= B * B
    BY <1>1, <1>4, <2>1
  <2> QED
    BY <1>1, <1>2, <1>4, <2>2
<1>6. h >= 0
  <2>1. SUFFICES ASSUME h <= -1 PROVE FALSE
    BY <1>4
  <2>2. B * h <= B * (-1)
    BY <1>1, <1>4, <2>1
  <2>3. B * h <= 0 - B
    BY <1>1, <1>4, <2>2
  <2>4. B * h \in Int
    BY <1>1, <1>4
  <2> QED
    BY <1>1, <1>2, <1>4, <2>3, <2>4
<1>7. l \in Byte /\ h \in Byte
  BY <1>1, <1>4, <1>5, <1>6 DEF Byte
<1>8. a = l + B * h
  BY <1>1, <1>4
<1>9. (h % B) = h
  BY <1>1, <1>7, RemainderSelf DEF Byte
<1> QED
  BY <1>7, <1>8, <1>9 DEF l, h, Low, High, Word

\* Words wrap.
LEMMA PlusWide ==
  ASSUME NEW a \in Int, NEW n \in Int
  PROVE  Plus(a, n) \in Wide
<1>1. a + n \in Int
  OBVIOUS
<1> QED
  BY <1>1, Sizes, Remainder DEF Plus, Wide

\* Nothing added is nothing changed.
LEMMA PlusNothing ==
  ASSUME NEW a \in Wide
  PROVE  Plus(a, 0) = a
<1>1. BB \in Nat \ {0} /\ a \in 0..(BB - 1) /\ a \in Int
  BY Sizes DEF Wide
<1>2. ((BB * 0 + a) % BB) = a
  BY <1>1, RemainderIs
<1>3. BB * 0 + a = a + 0
  BY <1>1
<1> QED
  BY <1>2, <1>3 DEF Plus

\* Two steps are one step, wraps included.
LEMMA PlusPlus ==
  ASSUME NEW a \in Int, NEW m \in Int, NEW n \in Int
  PROVE  Plus(Plus(a, m), n) = Plus(a, m + n)
<1>1. a + m \in Int /\ (a + m) + n = a + (m + n)
  OBVIOUS
<1>2. ((((a + m) % BB) + n) % BB) = (((a + m) + n) % BB)
  BY <1>1, Sizes, RemainderPlus
<1> QED
  BY <1>1, <1>2 DEF Plus

\* A word in a bank is a place, and has its parts.
LEMMA LongPlace ==
  ASSUME NEW b \in Byte, NEW w \in Wide
  PROVE  /\ Long(b, w) \in Place
         /\ (Long(b, w) % BB) = w /\ Bank(Long(b, w)) = b
<1>1. B \in Nat \ {0} /\ BB \in Nat \ {0} /\ b \in 0..(B - 1) /\ w \in 0..(BB - 1)
  BY Sizes DEF Byte, Wide
<1>2. b \in Int /\ w \in Int /\ Long(b, w) = BB * b + w
  BY <1>1 DEF Long
<1>3. ((BB * b + w) % BB) = w /\ ((BB * b + w) \div BB) = b
  BY <1>1, <1>2, RemainderIs
<1>4. (b % B) = b
  BY <1>1, RemainderSelf
<1>5. BB * b + w >= 0 /\ BB * b + w <= BB * B - 1 /\ BB * b + w \in Int
  <2>1. b + 1 <= B /\ b + 1 \in Nat
    BY <1>1
  <2>2. BB * (b + 1) <= BB * B
    BY <1>1, <2>1
  <2>3. BB * (b + 1) = BB * b + BB /\ BB * b \in Nat
    BY <1>1
  <2>4. BB * B \in Nat
    BY Sizes
  <2> QED
    BY <1>1, <2>2, <2>3, <2>4
<1> QED
  BY <1>2, <1>3, <1>4, <1>5, Sizes DEF Place, Bank

\* Any number has a bank.
LEMMA BankByte ==
  ASSUME NEW a \in Int
  PROVE  Bank(a) \in Byte /\ (a % BB) \in Wide
<1>1. (a \div BB) \in Int /\ (a % BB) \in 0..(BB - 1)
  BY Sizes, Remainder
<1>2. ((a \div BB) % B) \in 0..(B - 1)
  BY <1>1, Sizes, Remainder
<1> QED
  BY <1>1, <1>2 DEF Bank, Byte, Wide

\* The bytes of any number are bytes.
LEMMA ByteOf ==
  ASSUME NEW a \in Int
  PROVE  Low(a) \in Byte /\ High(a) \in Byte
<1>1. (a \div B) \in Int /\ (a % B) \in 0..(B - 1)
  BY Sizes, Remainder
<1>2. ((a \div B) % B) \in 0..(B - 1)
  BY <1>1, Sizes, Remainder
<1> QED
  BY <1>1, <1>2 DEF Low, High, Byte

\* What is added in a bank, or in a page, is a place.
LEMMA InBankPlace ==
  ASSUME NEW a \in Int, NEW n \in Int
  PROVE  InBank(a, n) \in Place /\ InPage(a, n) \in Place
<1>1. Bank(a) \in Byte /\ (a % BB) \in Wide /\ (a % BB) \in Int
  BY BankByte, Sizes
<1>2. Plus(a % BB, n) \in Wide
  BY <1>1, PlusWide
<1>3. Low(a) \in Byte /\ High(a) \in Byte /\ Low(a) \in Int
  BY ByteOf, Sizes
<1>4. ((Low(a) + n) % B) \in Byte
  <2>1. Low(a) + n \in Int
    BY <1>3
  <2> QED
    BY <2>1, Sizes, Remainder DEF Byte
<1>5. Word((Low(a) + n) % B, High(a)) \in Wide
  BY <1>3, <1>4, WordOfBytes
<1> QED
  BY <1>1, <1>2, <1>5, LongPlace DEF InBank, InPage

\* A displacement is a number.
LEMMA SignedInt ==
  ASSUME NEW v \in Int, NEW size \in Int
  PROVE  Signed(v, size) \in Int
  BY DEF Signed

-----------------------------------------------------------------------------
(* Memory.                                                                 *)

\* The pieces of work a handler is made of.
Work == {"idle", "here", "pointerIdle", "baseIdle", "carry", "step", "signature", "leave",
         "offset", "low", "high", "bank", "pointer", "pointerHigh", "pointerBank",
         "look", "lookHigh", "held", "heldHigh", "write", "writeHigh", "settle",
         "push", "pushHigh", "pushLow", "pushBank",
         "pullAside", "pullLow", "pullHigh", "pullBank", "pulled",
         "vector", "vectorHigh", "jumpLow", "jumpHigh", "to", "jumpBank", "taken"}

\* What the properties compute with is of the sizes it should be.
TypeOK ==
    /\ reach \in Reaches
    /\ ins.at \in Place /\ ins.index \in Wide /\ ins.db \in Byte /\ ins.d \in Wide
    /\ ins.e \in BOOLEAN /\ ins.wide \in BOOLEAN /\ ins.x8 \in BOOLEAN
    /\ pc \in Wide /\ pb \in Byte /\ s \in Wide
    /\ low \in Byte /\ base \in Wide /\ point \in Int /\ addr \in Int
    /\ cycles \in Nat
    /\ ahead \in Seq(Work)
    /\ \A c \in DOMAIN mem : mem[c] \in Byte
    /\ \A c \in DOMAIN first : first[c] \in Byte
    /\ DOMAIN first \subseteq DOMAIN mem

\* The cell of this address is known, or was found as it is.
IsKnown(a) == Cell(a) \in DOMAIN mem

IsFound(a) == Cell(a) \in DOMAIN first

\* What is known of memory is what was found there.
Unwritten == \A c \in DOMAIN mem : c \in DOMAIN first /\ first[c] = mem[c]

\* What was found is not forgotten, and what is known is no other.
Remembers == \A c \in DOMAIN first : c \in DOMAIN first' /\ first'[c] = first[c]

Agrees == \A c \in DOMAIN mem : c \in DOMAIN mem' /\ mem'[c] = mem[c]

\* What memory holds, and was found to hold, are bytes.
HoldsBytes ==
    /\ \A c \in DOMAIN mem : mem[c] \in Byte
    /\ \A c \in DOMAIN first : first[c] \in Byte
    /\ DOMAIN first \subseteq DOMAIN mem

\* A cycle is one cycle, of one instruction, in one package.
OneCycle(does, pins, a) ==
    /\ bus' = [does |-> does, pins |-> pins \cup asserted \cup asserted', at |-> Cell(a)]
    /\ cycles' = cycles + 1 /\ reach' = reach /\ ins' = ins

\* A byte that is read is known, and was found where nothing was written.
LEMMA ReadsKeep ==
  ASSUME TypeOK, NEW does, NEW pins, NEW a, NEW v \in Byte, Reads(does, pins, a, v)
  PROVE  /\ Remembers /\ Agrees /\ HoldsBytes'
         /\ Cell(a) \in DOMAIN mem' /\ mem'[Cell(a)] = v
         /\ Unwritten => Unwritten' /\ Cell(a) \in DOMAIN first' /\ first'[Cell(a)] = v
         /\ Cell(a) \in DOMAIN mem => mem[Cell(a)] = v /\ first' = first
         /\ Cell(a) \notin DOMAIN mem
              => DOMAIN first' = (DOMAIN first) \cup {Cell(a)} /\ first'[Cell(a)] = v
         /\ OneCycle(does, pins, a)
<1> DEFINE c == Cell(a)
<1>1. /\ OneCycle(does, pins, a)
      /\ c \in DOMAIN mem => v = mem[c]
      /\ mem' = Known(mem, c, v)
      /\ first' = IF c \in DOMAIN mem THEN first ELSE Known(first, c, v)
  BY DEF Reads, Cycle, OneCycle
<1>2. /\ \A d \in DOMAIN mem : mem[d] \in Byte
      /\ \A d \in DOMAIN first : first[d] \in Byte
      /\ DOMAIN first \subseteq DOMAIN mem
  BY DEF TypeOK
<1> HIDE DEF c
<1>3. /\ DOMAIN mem' = (DOMAIN mem) \cup {c} /\ mem'[c] = v
      /\ \A d \in DOMAIN mem : mem'[d] = mem[d]
  BY <1>1 DEF Known
<1>4. CASE c \in DOMAIN mem
  <2>1. first' = first /\ DOMAIN mem' = DOMAIN mem
    BY <1>1, <1>3, <1>4
  <2> QED
    BY <1>1, <1>2, <1>3, <1>4, <2>1 DEF Remembers, Agrees, Unwritten, HoldsBytes, c
<1>5. CASE c \notin DOMAIN mem
  <2>1. /\ DOMAIN first' = (DOMAIN first) \cup {c} /\ first'[c] = v
        /\ \A d \in DOMAIN first : first'[d] = first[d]
    BY <1>1, <1>2, <1>5 DEF Known
  <2>2. DOMAIN first' \subseteq DOMAIN mem'
    BY <1>2, <1>3, <2>1
  <2>3. Remembers /\ Agrees
    BY <1>3, <2>1 DEF Remembers, Agrees
  <2>4. /\ \A d \in DOMAIN mem' : mem'[d] \in Byte
        /\ \A d \in DOMAIN first' : first'[d] \in Byte
    BY <1>2, <1>3, <2>1
  <2>5. Unwritten => Unwritten'
    BY <1>3, <2>1 DEF Unwritten
  <2> QED
    BY <1>1, <1>3, <1>5, <2>1, <2>2, <2>3, <2>4, <2>5 DEF HoldsBytes, c
<1> QED
  BY <1>4, <1>5

\* A byte that is written is known, and what was found stays as it was.
LEMMA WritesKeep ==
  ASSUME TypeOK, NEW does, NEW a, NEW v \in Byte, Writes(does, a, v)
  PROVE  /\ Remembers /\ HoldsBytes' /\ first' = first
         /\ Cell(a) \in DOMAIN mem' /\ mem'[Cell(a)] = v
         /\ \A c \in DOMAIN mem : c \in DOMAIN mem' /\ (c # Cell(a) => mem'[c] = mem[c])
         /\ OneCycle(does, {"d", "w"}, a)
<1> DEFINE c == Cell(a)
<1>1. /\ OneCycle(does, {"d", "w"}, a)
      /\ mem' = Known(mem, c, v)
      /\ first' = first
  BY DEF Writes, Cycle, OneCycle
<1>2. /\ \A d \in DOMAIN mem : mem[d] \in Byte
      /\ \A d \in DOMAIN first : first[d] \in Byte
      /\ DOMAIN first \subseteq DOMAIN mem
  BY DEF TypeOK
<1> HIDE DEF c
<1>3. /\ DOMAIN mem' = (DOMAIN mem) \cup {c} /\ mem'[c] = v
      /\ \A d \in DOMAIN mem : d # c => mem'[d] = mem[d]
  BY <1>1 DEF Known
<1> QED
  BY <1>1, <1>2, <1>3 DEF Remembers, HoldsBytes, c

\* A cycle without a transfer that matters changes nothing that is known.
LEMMA InternalKeeps ==
  ASSUME NEW does, NEW pins, NEW a, Internal(does, pins, a) \/ Looks(does, pins, a)
  PROVE  /\ mem' = mem /\ first' = first /\ Remembers /\ Agrees
         /\ Unwritten => Unwritten'
         /\ TypeOK => HoldsBytes'
         /\ OneCycle(does, pins, a)
<1>1. mem' = mem /\ first' = first /\ OneCycle(does, pins, a)
  BY DEF Internal, Looks, Cycle, OneCycle, memory
<1> QED
  BY <1>1 DEF Remembers, Agrees, Unwritten, HoldsBytes, TypeOK

-----------------------------------------------------------------------------
(* Each step keeps the types.                                              *)

\* What a cycle keeps of them whatever it does.
LEMMA CycleTypes ==
  ASSUME TypeOK, NEW does, NEW pins, NEW a, OneCycle(does, pins, a), HoldsBytes',
         pc' \in Wide, pb' \in Byte, s' \in Wide, low' \in Byte, base' \in Wide,
         point' \in Int, addr' \in Int, ahead' \in Seq(Work)
  PROVE  TypeOK'
<1>1. cycles' \in Nat
  BY DEF OneCycle, TypeOK
<1> QED
  BY <1>1 DEF TypeOK, OneCycle, HoldsBytes

\* The registers and what is made of them are numbers.
LEMMA Numbers ==
  ASSUME TypeOK
  PROVE  /\ pc \in Wide /\ pb \in Byte /\ s \in Wide /\ low \in Byte /\ base \in Wide
         /\ point \in Int /\ addr \in Int /\ cycles \in Nat /\ ahead \in Seq(Work)
         /\ pc \in Int /\ pb \in Int /\ s \in Int /\ low \in Int /\ base \in Int
         /\ ins.at \in Int /\ ins.index \in Int /\ ins.db \in Int /\ ins.d \in Int
         /\ ins.at \in Place /\ ins.index \in Wide /\ ins.db \in Byte /\ ins.d \in Wide
         /\ ins.e \in BOOLEAN /\ ins.wide \in BOOLEAN /\ ins.x8 \in BOOLEAN
  BY Sizes DEF TypeOK

\* The stack pointer stays a word in and out of page one.
LEMMA Pointer ==
  ASSUME TypeOK, NEW n \in Int
  PROVE  Moved(n) \in Wide /\ InPageOne(Plus(s, n)) \in Wide /\ Kept(n) \in Wide
<1>1. s \in Int /\ Plus(s, n) \in Wide /\ Plus(s, n) \in Int
  BY Numbers, PlusWide, Sizes
<1>2. Low(Plus(s, n)) \in Byte /\ 1 \in Byte
  BY <1>1, ByteOf, Sizes DEF Byte
<1>3. InPageOne(Plus(s, n)) \in Wide
  BY <1>1, <1>2, WordOfBytes DEF InPageOne
<1> QED
  BY <1>1, <1>3 DEF Moved, Kept

\* A direct page address is a word.
LEMMA DirectWord ==
  ASSUME TypeOK, NEW n \in Int
  PROVE  direct(n) \in Wide /\ direct(n) = OfDirectPage(n)
<1>1. ins.d \in Int /\ (n % B) \in Byte /\ High(ins.d) \in Byte
  BY Numbers, Remainder, Sizes, ByteOf DEF Byte
<1> QED
  BY <1>1, PlusWide, WordOfBytes DEF direct, OfDirectPage

\* What a word forms is of the right sizes.
LEMMA FormedTypes ==
  ASSUME TypeOK, ahead # <<>>, NEW word \in Wide, Formed(word)
  PROVE  /\ base' = word /\ addr' \in Int /\ ahead' \in Seq(Work)
         /\ Tail(ahead) \in Seq(Work)
         /\ ins.mode \notin Carries => ahead' = Tail(ahead)
<1>1. Tail(ahead) \in Seq(Work)
  BY Numbers
<1>2. <<"carry">> \in Seq(Work) /\ <<>> \in Seq(Work)
  BY DEF Work
<1>3. ahead' \in Seq(Work)
  BY <1>1, <1>2, ConcatProperties DEF Formed
<1>4. addr' \in Int
  <2>1. word \in Int /\ ins.db \in Int /\ ins.index \in Int /\ BB \in Int
    BY Numbers, Sizes
  <2> QED
    BY <2>1 DEF Formed, Long, Index
<1>5. ins.mode \notin Carries => ahead' = Tail(ahead)
  BY <1>1, ConcatEmptySeq DEF Formed
<1> QED
  BY <1>1, <1>3, <1>4, <1>5 DEF Formed

\* What is next is done in a cycle, and keeps the sizes.
Working ==
    \/ Idle \/ Step \/ Leave \/ FetchOffset \/ FetchLow \/ FetchHigh \/ FetchBank
    \/ PointerLow \/ PointerHigh \/ PointerBank \/ Operand \/ Settle \/ Push \/ Pull \/ Pulled
    \/ Vector \/ VectorHigh \/ JumpLow \/ JumpHigh \/ JumpBank \/ Branch

Worked ==
    /\ TypeOK' /\ ahead # <<>> /\ Remembers
    /\ \E pins, a : OneCycle(Head(ahead), pins, a)

\* A cycle that transfers nothing that matters, or reads, or writes, has worked, if
\* what it leaves in the registers is of the right sizes.
LEMMA InternalWorks ==
  ASSUME TypeOK, ahead # <<>>, NEW pins, NEW a,
         Internal(Head(ahead), pins, a) \/ Looks(Head(ahead), pins, a),
         pc' \in Wide, pb' \in Byte, s' \in Wide, low' \in Byte, base' \in Wide,
         point' \in Int, addr' \in Int, ahead' \in Seq(Work)
  PROVE  Worked
<1> DEFINE h == Head(ahead)
<1>1. Internal(h, pins, a) \/ Looks(h, pins, a)
  OBVIOUS
<1> HIDE DEF h
<1>2. Remembers /\ HoldsBytes' /\ OneCycle(h, pins, a)
  BY <1>1, InternalKeeps
<1>3. TypeOK'
  BY <1>2, CycleTypes
<1> QED
  BY <1>2, <1>3 DEF Worked, h

LEMMA ReadWorks ==
  ASSUME TypeOK, ahead # <<>>, NEW pins, NEW a, NEW v \in Byte, Reads(Head(ahead), pins, a, v),
         pc' \in Wide, pb' \in Byte, s' \in Wide, low' \in Byte, base' \in Wide,
         point' \in Int, addr' \in Int, ahead' \in Seq(Work)
  PROVE  Worked
<1> DEFINE h == Head(ahead)
<1>1. Reads(h, pins, a, v)
  OBVIOUS
<1> HIDE DEF h
<1>2. Remembers /\ HoldsBytes' /\ OneCycle(h, pins, a)
  BY <1>1, ReadsKeep
<1>3. TypeOK'
  BY <1>2, CycleTypes
<1> QED
  BY <1>2, <1>3 DEF Worked, h

LEMMA WriteWorks ==
  ASSUME TypeOK, ahead # <<>>, NEW a, NEW v \in Byte, Writes(Head(ahead), a, v),
         pc' \in Wide, pb' \in Byte, s' \in Wide, low' \in Byte, base' \in Wide,
         point' \in Int, addr' \in Int, ahead' \in Seq(Work)
  PROVE  Worked
<1> DEFINE h == Head(ahead)
<1>1. Writes(h, a, v)
  OBVIOUS
<1> HIDE DEF h
<1>2. Remembers /\ HoldsBytes' /\ OneCycle(h, {"d", "w"}, a)
  BY <1>1, WritesKeep
<1>3. TypeOK'
  BY <1>2, CycleTypes
<1> QED
  BY <1>2, <1>3 DEF Worked, h

\* Where the next byte is, and where what is left of the handler goes.
LEMMA Ahead ==
  ASSUME TypeOK
  PROVE  /\ ahead # <<>> /\ Then => ahead' \in Seq(Work)
         /\ Plus(pc, 1) \in Wide /\ Plus(pc, 1) \in Int
<1>1. ahead # <<>> => Tail(ahead) \in Seq(Work)
  BY Numbers
<1>2. pc \in Int
  BY Numbers
<1>3. Plus(pc, 1) \in Wide
  BY <1>2, PlusWide
<1>4. Plus(pc, 1) \in Int
  BY <1>3, Sizes
<1> QED
  BY <1>1, <1>3, <1>4 DEF Then

\* The cycles that leave the address alone.
LEMMA PlainWorks ==
  ASSUME TypeOK, Idle \/ Step \/ Operand \/ Settle \/ FetchLow \/ PointerLow
  PROVE  Worked
<1>1. ahead # <<>> /\ Then
  BY DEF Idle, Step, Operand, Settle, FetchLow, PointerLow, Doing
<1>2. ahead' \in Seq(Work) /\ Plus(pc, 1) \in Wide
  BY <1>1, Ahead
<1>3. /\ pb' = pb /\ s' = s /\ base' = base /\ point' = point /\ addr' = addr
      /\ pc' \in {pc, Plus(pc, 1)}
  BY DEF Idle, Step, Operand, Settle, FetchLow, PointerLow, forming
<1>4. /\ pb' \in Byte /\ s' \in Wide /\ base' \in Wide /\ point' \in Int /\ addr' \in Int
      /\ pc' \in Wide
  BY <1>2, <1>3, Numbers
<1>5. CASE Idle \/ Step \/ Settle
  <2>1. PICK pins, a : Internal(Head(ahead), pins, a) \/ Looks(Head(ahead), pins, a)
    BY <1>5 DEF Idle, Step, Settle, Doing
  <2>2. low' = low
    BY <1>5 DEF Idle, Step, Settle, forming
  <2>3. low' \in Byte
    BY <2>2, Numbers
  <2> QED
    BY <1>1, <1>2, <1>4, <2>1, <2>3, InternalWorks
<1>6. CASE FetchLow \/ PointerLow
  <2>1. PICK v \in Byte : (\E pins, a : Reads(Head(ahead), pins, a, v)) /\ low' = v
    BY <1>6 DEF FetchLow, PointerLow, Doing
  <2> QED
    BY <1>1, <1>2, <1>4, <2>1, ReadWorks
<1>7. CASE Operand
  <2>1. \/ \E pins, a : Looks(Head(ahead), pins, a)
        \/ \E a : \E v \in Byte : Writes(Head(ahead), a, v)
    BY <1>7 DEF Operand, Doing
  <2>2. low' = low
    BY <1>7 DEF Operand, forming
  <2>3. low' \in Byte
    BY <2>2, Numbers
  <2> QED
    BY <1>1, <1>2, <1>4, <2>1, <2>3, InternalWorks, WriteWorks
<1> QED
  BY <1>5, <1>6, <1>7

\* Those that form it.
LEMMA FormingWorks ==
  ASSUME TypeOK, FetchOffset \/ FetchHigh \/ FetchBank \/ PointerHigh \/ PointerBank
  PROVE  Worked
<1>1. ahead # <<>>
  BY DEF FetchOffset, FetchHigh, FetchBank, PointerHigh, PointerBank, Doing
<1>2. Then => ahead' \in Seq(Work)
  BY <1>1, Ahead
<1>3. Plus(pc, 1) \in Wide /\ Plus(pc, 1) \in Int
  BY Ahead
<1>4. CASE FetchOffset
  <2>1. PICK v \in Byte : LET target == IF ins.mode \in {"stack", "stackIndirect"} THEN Plus(s, v)
                        ELSE direct(v + IF ins.mode \in {"directX", "indexedIndirectX"}
                                        THEN ins.index ELSE 0)
                  IN Reads("offset", {"p"}, Long(pb, pc), v) /\ point' = target /\ addr' = target
    BY <1>4 DEF FetchOffset
  <2>2. v \in Int /\ v + 0 \in Int /\ v + ins.index \in Int
    BY Numbers, Sizes
  <2>3. Plus(s, v) \in Wide /\ direct(v + 0) \in Wide /\ direct(v + ins.index) \in Wide
    BY <2>2, Numbers, PlusWide, DirectWord
  <2>4. point' \in Int /\ addr' \in Int
    BY <2>1, <2>3, Sizes
  <2>5. Reads(Head(ahead), {"p"}, Long(pb, pc), v)
    BY <1>4, <2>1 DEF FetchOffset, Doing
  <2>6. pc' = Plus(pc, 1) /\ pb' = pb /\ s' = s /\ low' = low /\ base' = base /\ Then
    BY <1>4 DEF FetchOffset
  <2>7. /\ pc' \in Wide /\ pb' \in Byte /\ s' \in Wide /\ low' \in Byte /\ base' \in Wide
        /\ ahead' \in Seq(Work)
    BY <1>2, <1>3, <2>6, Numbers
  <2> QED
    BY <1>1, <2>4, <2>5, <2>7, ReadWorks
<1>5. CASE FetchHigh
  <2>1. PICK v \in Byte :
            /\ Reads("high", {"p"}, Long(pb, pc), v)
            /\ IF ins.kind = "brl"
               THEN /\ base' = Word(low, v) /\ Then
                    /\ addr' = Plus(Plus(pc, 1), Signed(Word(low, v), BB))
               ELSE Formed(Word(low, v))
            /\ point' = IF ins.mode = "indirectX" THEN Long(pb, Plus(Word(low, v), ins.index))
                                                  ELSE Word(low, v)
    BY <1>5 DEF FetchHigh
  <2>2. Word(low, v) \in Wide /\ Word(low, v) \in Int
    BY Numbers, WordOfBytes, Sizes
  <2>3. Plus(Plus(pc, 1), Signed(Word(low, v), BB)) \in Int
    <3>1. BB \in Int
      BY Sizes
    <3>2. Signed(Word(low, v), BB) \in Int
      BY <2>2, <3>1, SignedInt
    <3>3. Plus(Plus(pc, 1), Signed(Word(low, v), BB)) \in Wide
      BY <1>3, <3>2, PlusWide
    <3> QED
      BY <3>3, Sizes
  <2>4. base' \in Wide /\ addr' \in Int /\ ahead' \in Seq(Work)
    BY <1>1, <1>2, <2>1, <2>2, <2>3, FormedTypes
  <2>5. point' \in Int
    <3>1. Plus(Word(low, v), ins.index) \in Wide
      BY <2>2, Numbers, PlusWide
    <3>2. Long(pb, Plus(Word(low, v), ins.index)) \in Int
      BY <3>1, Numbers, LongPlace, Sizes
    <3> QED
      BY <2>1, <2>2, <3>2
  <2>6. Reads(Head(ahead), {"p"}, Long(pb, pc), v)
    BY <1>5, <2>1 DEF FetchHigh, Doing
  <2>7. pc' = Plus(pc, 1) /\ pb' = pb /\ s' = s /\ low' = low
    BY <1>5 DEF FetchHigh
  <2>8. pc' \in Wide /\ pb' \in Byte /\ s' \in Wide /\ low' \in Byte
    BY <1>3, <2>7, Numbers
  <2> QED
    BY <1>1, <2>4, <2>5, <2>6, <2>8, ReadWorks
<1>6. CASE FetchBank \/ PointerBank
  <2>1. PICK v \in Byte : /\ \E pins, a : Reads(Head(ahead), pins, a, v)
                          /\ addr' = Long(v, base) + Index
                          /\ pb' \in {v, pb}
    BY <1>6 DEF FetchBank, PointerBank, Doing
  <2>2. addr' \in Int
    <3>1. Long(v, base) \in Int /\ Index \in Int
      BY Numbers, LongPlace, Sizes DEF Index
    <3> QED
      BY <2>1, <3>1
  <2>3. /\ pc' \in {pc, base, Plus(pc, 1)} /\ s' = s /\ low' = low /\ base' = base
        /\ point' = point /\ Then
    BY <1>6 DEF FetchBank, PointerBank
  <2>4. /\ pc' \in Wide /\ pb' \in Byte /\ s' \in Wide /\ low' \in Byte /\ base' \in Wide
        /\ point' \in Int /\ ahead' \in Seq(Work)
    BY <1>2, <1>3, <2>1, <2>3, Numbers
  <2> QED
    BY <1>1, <2>1, <2>2, <2>4, ReadWorks
<1>7. CASE PointerHigh
  <2>1. PICK v \in Byte : (\E pins, a : Reads(Head(ahead), pins, a, v)) /\ Formed(Word(low, v))
    BY <1>7 DEF PointerHigh, Doing
  <2>2. Word(low, v) \in Wide
    BY Numbers, WordOfBytes
  <2>3. base' \in Wide /\ addr' \in Int /\ ahead' \in Seq(Work)
    BY <1>1, <2>1, <2>2, FormedTypes
  <2>4. pc' = pc /\ pb' = pb /\ s' = s /\ low' = low /\ point' = point
    BY <1>7 DEF PointerHigh
  <2>5. pc' \in Wide /\ pb' \in Byte /\ s' \in Wide /\ low' \in Byte /\ point' \in Int
    BY <2>4, Numbers
  <2> QED
    BY <1>1, <2>1, <2>3, <2>5, ReadWorks
<1> QED
  BY <1>4, <1>5, <1>6, <1>7

\* Those that move the stack pointer.
LEMMA StackWorks ==
  ASSUME TypeOK, Push \/ Pull \/ Pulled
  PROVE  Worked
<1>1. ahead # <<>> /\ Then
  BY DEF Push, Pull, Pulled, Doing
<1>2. ahead' \in Seq(Work)
  BY <1>1, Ahead
<1>3. point' = point /\ addr' = addr
  BY DEF Push, Pull, Pulled, forming
<1>4. point' \in Int /\ addr' \in Int
  BY <1>3, Numbers
<1>5. CASE Push
  <2>1. PICK it \in Pushing : Doing(it) /\ \E v \in Values[it] : Writes(it, s, v)
    BY <1>5 DEF Push
  <2>2. Values[it] \subseteq Byte
    <3>1. PushedWord \in Int
      <4>1. Signed(base, BB) \in Int
        BY Numbers, SignedInt, Sizes
      <4> DEFINE k == 0 - 1
      <4>2. k \in Int /\ -1 = k
        OBVIOUS
      <4> HIDE DEF k
      <4>3. Plus(pc, Signed(base, BB)) \in Wide /\ Plus(pc, k) \in Wide
        BY <4>1, <4>2, Numbers, PlusWide
      <4>4. Plus(pc, Signed(base, BB)) \in Int /\ Plus(pc, -1) \in Int /\ pc \in Int /\ base \in Int
        BY <4>2, <4>3, Numbers, Sizes
      <4> QED
        BY <4>4 DEF PushedWord
    <3>2. High(PushedWord) \in Byte /\ Low(PushedWord) \in Byte /\ pb \in Byte
      BY <3>1, ByteOf, Numbers
    <3> QED
      BY <3>2 DEF Values, Pushing
  <2>3. PICK v \in Byte : Writes(Head(ahead), s, v)
    BY <2>1, <2>2 DEF Doing
  <2>4. s' = Kept(-1) /\ pc' \in {pc, base} /\ pb' \in {pb, Bank(addr)}
        /\ low' = low /\ base' = base
    BY <1>5 DEF Push, forming
  <2>5. s' \in Wide
    BY <2>4, Pointer
  <2>6. pc' \in Wide /\ pb' \in Byte /\ low' \in Byte /\ base' \in Wide
    BY <2>4, Numbers, BankByte
  <2> QED
    BY <1>1, <1>2, <1>4, <2>3, <2>5, <2>6, WriteWorks
<1>6. CASE Pull
  <2>1. PICK v \in Byte :
          \/ Doing("pullAside") /\ Looks("pullAside", {"d"}, Moved(1)) /\ v = 0
             /\ UNCHANGED <<low, base, pc, pb>>
          \/ Doing("pullLow") /\ Reads("pullLow", {"d"}, Moved(1), v)
             /\ low' = v /\ UNCHANGED <<base, pc, pb>>
          \/ Doing("pullHigh") /\ Reads("pullHigh", {"d"}, Moved(1), v)
             /\ base' = Word(low, v) /\ UNCHANGED <<low, pb>>
             /\ pc' = IF ins.kind = "rti" THEN base' ELSE pc
          \/ Doing("pullBank") /\ Reads("pullBank", {"d"}, Moved(1), v)
             /\ pb' = v /\ UNCHANGED <<low, base>>
             /\ pc' = IF ins.kind = "rtl" THEN Plus(base, 1) ELSE pc
    BY <1>6 DEF Pull
  <2>2. /\ \/ Looks(Head(ahead), {"d"}, Moved(1))
           \/ Reads(Head(ahead), {"d"}, Moved(1), v)
        /\ low' \in {v, low} /\ base' \in {base, Word(low, v)} /\ pb' \in {v, pb}
        /\ pc' \in {pc, Word(low, v), Plus(base, 1)}
    BY <2>1 DEF Doing
  <2>3. Word(low, v) \in Wide /\ Plus(base, 1) \in Wide
    BY Numbers, WordOfBytes, PlusWide
  <2>4. low' \in Byte /\ base' \in Wide /\ pb' \in Byte /\ pc' \in Wide
    BY <2>2, <2>3, Numbers
  <2>5. s' \in Wide
    <3>1. s' = Kept(1)
      BY <1>6 DEF Pull
    <3> QED
      BY <3>1, Pointer
  <2> QED
    BY <1>1, <1>2, <1>4, <2>2, <2>4, <2>5, InternalWorks, ReadWorks
<1>7. CASE Pulled
  <2>1. Internal(Head(ahead), {}, s)
    BY <1>7 DEF Pulled, Doing
  <2>2. pc' = Plus(base, 1) /\ pb' = pb /\ s' = s /\ low' = low /\ base' = base
    BY <1>7 DEF Pulled, forming
  <2>3. pc' \in Wide /\ pb' \in Byte /\ s' \in Wide /\ low' \in Byte /\ base' \in Wide
    BY <2>2, Numbers, PlusWide
  <2> QED
    BY <1>1, <1>2, <1>4, <2>1, <2>3, InternalWorks
<1> QED
  BY <1>5, <1>6, <1>7

\* The vectors are words.
LEMMA VectorWords ==
  ASSUME NEW at \in Vectors
  PROVE  at \in Wide /\ at + 1 \in Wide /\ at \in Int
<1> DEFINE bb == BB
<1>1. bb \in Nat /\ bb >= 9
  BY Sizes
<1>2. at \in {bb - 2, bb - 4}
  BY DEF Vectors
<1> HIDE DEF bb
<1>3. at \in 0..bb - 1 /\ at + 1 \in 0..bb - 1 /\ at \in Int
  BY <1>1, <1>2
<1> QED
  BY <1>3 DEF Wide, bb

\* Those that jump.
LEMMA JumpWorks ==
  ASSUME TypeOK,
         Leave \/ Vector \/ VectorHigh \/ JumpLow \/ JumpHigh \/ JumpBank \/ Branch,
         Leave => addr \in Wide
  PROVE  Worked
<1>1. ahead # <<>>
  BY DEF Leave, Vector, VectorHigh, JumpLow, JumpHigh, JumpBank, Branch, Doing
<1>2. Then => ahead' \in Seq(Work)
  BY <1>1, Ahead
<1>3. Plus(pc, 1) \in Wide /\ Plus(pc, 1) \in Int
  BY Ahead
<1>4. CASE VectorHigh \/ JumpHigh
  <2>1. PICK v \in Byte : (\E pins, a : Reads(Head(ahead), pins, a, v)) /\ pc' = Word(low, v)
    BY <1>4 DEF VectorHigh, JumpHigh, Doing
  <2>2. /\ pb' = pb /\ s' = s /\ low' = low /\ base' = base /\ point' = point /\ addr' = addr
        /\ Then
    BY <1>4 DEF VectorHigh, JumpHigh, forming
  <2>3. pc' \in Wide
    BY <2>1, Numbers, WordOfBytes
  <2>4. /\ pb' \in Byte /\ s' \in Wide /\ low' \in Byte /\ base' \in Wide /\ point' \in Int
        /\ addr' \in Int /\ ahead' \in Seq(Work)
    BY <1>2, <2>2, Numbers
  <2> QED
    BY <1>1, <2>1, <2>3, <2>4, ReadWorks
<1>5. CASE Vector \/ JumpLow \/ JumpBank
  <2>1. PICK v \in Byte :
            /\ \E pins, a : Reads(Head(ahead), pins, a, v)
            /\ low' \in {v, low} /\ pb' \in {v, pb, 0} /\ point' \in Vectors \cup {point}
    BY <1>5 DEF Vector, JumpLow, JumpBank, Doing, forming
  <2>2. pc' = pc /\ s' = s /\ base' = base /\ addr' = addr /\ Then
    BY <1>5 DEF Vector, JumpLow, JumpBank, forming
  <2>3. low' \in Byte /\ pb' \in Byte /\ point' \in Int
    BY <2>1, Numbers, VectorWords, Sizes
  <2>4. pc' \in Wide /\ s' \in Wide /\ base' \in Wide /\ addr' \in Int /\ ahead' \in Seq(Work)
    BY <1>2, <2>2, Numbers
  <2> QED
    BY <1>1, <2>1, <2>3, <2>4, ReadWorks
<1>6. CASE Leave
  <2>1. \E pins, a : Internal(Head(ahead), pins, a)
    BY <1>6 DEF Leave, Doing
  <2>2. pc' = addr /\ pb' = pb /\ s' = s /\ low' = low /\ base' = base /\ point' = point
        /\ addr' = addr /\ Then
    BY <1>6 DEF Leave, forming
  <2>3. /\ pc' \in Wide /\ pb' \in Byte /\ s' \in Wide /\ low' \in Byte /\ base' \in Wide
        /\ point' \in Int /\ addr' \in Int /\ ahead' \in Seq(Work)
    BY <1>2, <1>6, <2>2, Numbers
  <2> QED
    BY <1>1, <2>1, <2>3, InternalWorks
<1>7. CASE Branch
  <2>1. pc' = Plus(pc, 1)
    BY <1>7 DEF Branch
  <2>2. PICK v \in Byte :
            /\ Reads("taken", {"p"}, Long(pb, pc), v)
            /\ \/ ahead' = <<>> /\ UNCHANGED addr
               \/ /\ ahead' \in {<<"here", "leave">>, <<"leave">>}
                  /\ addr' = Plus(pc', Signed(v, B))
    <3>1. ASSUME NEW c PROVE (IF c THEN <<"here", "leave">> ELSE <<"leave">>)
                               \in {<<"here", "leave">>, <<"leave">>}
      OBVIOUS
    <3> QED
      BY <1>7, <3>1 DEF Branch
  <2>3. Signed(v, B) \in Int
    BY SignedInt, Sizes
  <2>4. pc' \in Int /\ pc' \in Wide
    BY <1>3, <2>1
  <2>5. Plus(pc', Signed(v, B)) \in Wide
    BY <2>3, <2>4, PlusWide
  <2>6. addr' \in Int
    BY <2>2, <2>5, Numbers, Sizes
  <2>7. ahead' \in Seq(Work)
    <3>1. <<>> \in Seq(Work) /\ <<"leave">> \in Seq(Work) /\ <<"here", "leave">> \in Seq(Work)
      BY DEF Work
    <3> QED
      BY <2>2, <3>1
  <2>8. Reads(Head(ahead), {"p"}, Long(pb, pc), v)
    BY <1>7, <2>2 DEF Branch, Doing
  <2>9. pb' = pb /\ s' = s /\ low' = low /\ base' = base /\ point' = point
    BY <1>7 DEF Branch
  <2>10. pb' \in Byte /\ s' \in Wide /\ low' \in Byte /\ base' \in Wide /\ point' \in Int
    BY <2>9, Numbers
  <2> QED
    BY <1>1, <2>4, <2>6, <2>7, <2>8, <2>10, ReadWorks
<1> QED
  BY <1>4, <1>5, <1>6, <1>7

\* All that is done of a handler.
LEMMA StepWorks ==
  ASSUME TypeOK, Working, Leave => addr \in Wide
  PROVE  Worked
  BY PlainWorks, FormingWorks, StackWorks, JumpWorks DEF Working

-----------------------------------------------------------------------------
(* What is ahead, and which action is next.                                *)

\* Of two pieces of work, the first comes first.
LEMMA HeadOf ==
  ASSUME NEW u \in Seq(Work), u # <<>>, NEW t \in Seq(Work)
  PROVE  /\ u \o t \in Seq(Work) /\ u \o t # <<>>
         /\ Head(u \o t) = Head(u)
         /\ Tail(u \o t) = Tail(u) \o t
<1> DEFINE w == u \o t
           r == Tail(u) \o t
<1>1. Len(u) \in Nat /\ Len(t) \in Nat /\ Len(u) >= 1
  OBVIOUS
<1>2. /\ w \in Seq(Work) /\ Len(w) = Len(u) + Len(t)
      /\ \A i \in 1..Len(u) + Len(t) : w[i] = IF i <= Len(u) THEN u[i] ELSE t[i - Len(u)]
  BY ConcatProperties
<1>3. /\ Tail(u) \in Seq(Work) /\ Len(Tail(u)) = Len(u) - 1
      /\ \A i \in 1..Len(u) - 1 : Tail(u)[i] = u[i + 1]
  BY <1>1, HeadTailProperties
<1>4. /\ r \in Seq(Work) /\ Len(r) = (Len(u) - 1) + Len(t)
      /\ \A i \in 1..(Len(u) - 1) + Len(t) :
            r[i] = IF i <= Len(u) - 1 THEN Tail(u)[i] ELSE t[i - (Len(u) - 1)]
  BY <1>3, ConcatProperties
<1> HIDE DEF w, r
<1>5. w # <<>> /\ Head(w) = Head(u)
  BY <1>1, <1>2
<1>6. /\ Tail(w) \in Seq(Work) /\ Len(Tail(w)) = Len(w) - 1
      /\ \A i \in 1..Len(w) - 1 : Tail(w)[i] = w[i + 1]
  BY <1>2, <1>5, HeadTailProperties
<1>7. \A i \in 1..Len(r) : Tail(w)[i] = r[i]
  <2>1. TAKE i \in 1..Len(r)
  <2>2. i \in 1..Len(w) - 1 /\ i + 1 \in 1..Len(u) + Len(t) /\ Tail(w)[i] = w[i + 1]
    BY <1>1, <1>2, <1>4, <1>6
  <2>0. i \in Int /\ i >= 1 /\ i \in 1..(Len(u) - 1) + Len(t)
    BY <1>1, <1>4
  <2>3. CASE i <= Len(u) - 1
    <3>1. i + 1 <= Len(u) /\ i \in 1..Len(u) - 1
      BY <1>1, <2>0, <2>3
    <3>2. w[i + 1] = u[i + 1]
      BY <1>2, <2>2, <3>1
    <3>3. r[i] = Tail(u)[i]
      BY <1>4, <2>0, <2>3
    <3> QED
      BY <1>3, <2>2, <3>1, <3>2, <3>3
  <2>4. CASE ~(i <= Len(u) - 1)
    <3>1. ~(i + 1 <= Len(u)) /\ (i + 1) - Len(u) = i - (Len(u) - 1)
      BY <1>1, <2>0, <2>4
    <3>2. w[i + 1] = t[(i + 1) - Len(u)]
      BY <1>2, <2>2, <3>1
    <3>3. r[i] = t[i - (Len(u) - 1)]
      BY <1>4, <2>0, <2>4
    <3> QED
      BY <2>2, <3>1, <3>2, <3>3
  <2> QED
    BY <1>1, <2>3, <2>4
<1>8. Tail(w) = r
  BY <1>1, <1>2, <1>4, <1>6, <1>7, SeqEqual
<1> QED
  BY <1>2, <1>5, <1>8 DEF w, r

\* Nothing before a piece of work is that piece.
LEMMA Nothing ==
  ASSUME NEW t \in Seq(Work)
  PROVE  <<>> \o t = t
  BY ConcatEmptySeq

\* The action that does each piece of work.
LEMMA Acts ==
  ASSUME Next, ~Fail, ins # None, ahead # <<>>
  PROVE  /\ Working /\ Head(ahead) \in Work
         /\ Head(ahead) \in {"idle", "here", "pointerIdle", "baseIdle", "carry"} => Idle
         /\ Head(ahead) \in {"step", "signature"} => Step
         /\ Head(ahead) = "leave" => Leave
         /\ Head(ahead) = "offset" => FetchOffset
         /\ Head(ahead) = "low" => FetchLow
         /\ Head(ahead) = "high" => FetchHigh
         /\ Head(ahead) = "bank" => FetchBank
         /\ Head(ahead) = "pointer" => PointerLow
         /\ Head(ahead) = "pointerHigh" => PointerHigh
         /\ Head(ahead) = "pointerBank" => PointerBank
         /\ Head(ahead) \in {"look", "lookHigh", "held", "heldHigh", "write", "writeHigh"} => Operand
         /\ Head(ahead) = "settle" => Settle
         /\ Head(ahead) \in {"push", "pushHigh", "pushLow", "pushBank"} => Push
         /\ Head(ahead) \in {"pullAside", "pullLow", "pullHigh", "pullBank"} => Pull
         /\ Head(ahead) = "pulled" => Pulled
         /\ Head(ahead) = "vector" => Vector
         /\ Head(ahead) = "vectorHigh" => VectorHigh
         /\ Head(ahead) = "jumpLow" => JumpLow
         /\ Head(ahead) \in {"to", "jumpHigh"} => JumpHigh
         /\ Head(ahead) = "jumpBank" => JumpBank
         /\ Head(ahead) = "taken" => Branch
<1> DEFINE h == Head(ahead)
<1>1. ~Begin /\ ~Enter /\ ~End
  BY DEF Begin, Enter, End, Over
<1>2. /\ Idle => h \in {"idle", "here", "pointerIdle", "baseIdle", "carry"}
      /\ Step => h \in {"step", "signature"}
      /\ Leave => h = "leave"
      /\ FetchOffset => h = "offset"
      /\ FetchLow => h = "low"
      /\ FetchHigh => h = "high"
      /\ FetchBank => h = "bank"
  BY DEF Idle, Step, Leave, FetchOffset, FetchLow, FetchHigh, FetchBank, IdleAt, Doing
<1>3. /\ PointerLow => h = "pointer"
      /\ PointerHigh => h = "pointerHigh"
      /\ PointerBank => h = "pointerBank"
      /\ Operand => h \in {"look", "lookHigh", "held", "heldHigh", "write", "writeHigh"}
      /\ Settle => h = "settle"
  BY DEF PointerLow, PointerHigh, PointerBank, Operand, Settle, DataAt, Doing
<1>4. /\ Push => h \in {"push", "pushHigh", "pushLow", "pushBank"}
      /\ Pull => h \in {"pullAside", "pullLow", "pullHigh", "pullBank"}
      /\ Pulled => h = "pulled"
      /\ Vector => h = "vector"
      /\ VectorHigh => h = "vectorHigh"
  BY DEF Push, Pull, Pulled, Vector, VectorHigh, Pushing, Doing
<1>5. /\ JumpLow => h = "jumpLow"
      /\ JumpHigh => h \in {"to", "jumpHigh"}
      /\ JumpBank => h = "jumpBank"
      /\ Branch => h = "taken"
  BY DEF JumpLow, JumpHigh, JumpBank, Branch, Doing
<1> HIDE DEF h
<1>6. \/ h \in {"idle", "here", "pointerIdle", "baseIdle", "carry"} /\ Idle
      \/ h \in {"step", "signature"} /\ Step
      \/ h = "leave" /\ Leave
      \/ h = "offset" /\ FetchOffset
      \/ h = "low" /\ FetchLow
      \/ h = "high" /\ FetchHigh
      \/ h = "bank" /\ FetchBank
      \/ h = "pointer" /\ PointerLow
      \/ h = "pointerHigh" /\ PointerHigh
      \/ h = "pointerBank" /\ PointerBank
      \/ h \in {"look", "lookHigh", "held", "heldHigh", "write", "writeHigh"} /\ Operand
      \/ h = "settle" /\ Settle
      \/ h \in {"push", "pushHigh", "pushLow", "pushBank"} /\ Push
      \/ h \in {"pullAside", "pullLow", "pullHigh", "pullBank"} /\ Pull
      \/ h = "pulled" /\ Pulled
      \/ h = "vector" /\ Vector
      \/ h = "vectorHigh" /\ VectorHigh
      \/ h = "jumpLow" /\ JumpLow
      \/ h \in {"to", "jumpHigh"} /\ JumpHigh
      \/ h = "jumpBank" /\ JumpBank
      \/ h = "taken" /\ Branch
  BY <1>1, <1>2, <1>3, <1>4, <1>5 DEF Next
<1>7. Working
  BY <1>6 DEF Working
<1> QED
  BY <1>6, <1>7 DEF h, Work

\* All but the beginning and the end of an instruction is done from ahead.
LEMMA NextIs ==
  ASSUME Next
  PROVE  Begin \/ Enter \/ End \/ Fail \/ Working
  BY DEF Next, Working

-----------------------------------------------------------------------------
(* An instruction on its way to its address, and at it.                    *)

\* An instruction with an address, and any other.
HasAddress == ins.kind \in DOMAIN Modes /\ ins.mode \in Modes[ins.kind]

Handled == ins.kind \in DOMAIN Handlers(TRUE, FALSE) /\ ins.mode = ModeOf(ins.kind)

Decoded ==
    /\ HasAddress \/ Handled
    /\ ins.wide => ins.kind \in DOMAIN Modes \cup {"immediate", "push", "pull"}
    /\ ins.e => ~ins.wide /\ ins.x8 /\ ins.index \in Byte

\* How many of the instruction's bytes have been fetched.
Behind(n) == pc = Plus(ins.at % BB, n) /\ pb = Bank(ins.at)

Use == AtAddress(ins.wide)[ins.kind]

Waits == {<<>>, <<"here">>, <<"here", "here">>}

\* The modes with an offset, and what they do when they have waited for its place.
Rest == [
    direct |-> <<>>, directX |-> <<>>, stack |-> <<>>,
    indirect |-> <<"pointer", "pointerHigh">>,
    indexedIndirectX |-> <<"pointer", "pointerHigh">>,
    indirectIndexedY |-> <<"pointer", "pointerHigh">>,
    indirectLong |-> <<"pointer", "pointerHigh", "pointerBank">>,
    indirectLongY |-> <<"pointer", "pointerHigh", "pointerBank">>,
    stackIndirect |-> <<"pointer", "pointerHigh", "pointerIdle">>]

Direct == {"direct", "directX", "stack"}
Longs == {"indirectLong", "indirectLongY"}
Pointers == {"indirect", "indexedIndirectX", "indirectIndexedY", "stackIndirect"} \cup Longs

\* The modes whose operand is an address.
FarWords == {"absoluteLong", "absoluteLongX"}
Words == {"absolute", "absoluteX"} \cup FarWords

\* Where an offset leads.
Aim == CASE ins.mode \in {"stack", "stackIndirect"} -> Plus(s, Found(1))
         [] ins.mode \in {"directX", "indexedIndirectX"} -> OfDirectPage(Found(1) + ins.index)
         [] OTHER -> OfDirectPage(Found(1))

\* The second byte of a pointer there.
Beyond == IF pointer_wraps THEN InPage(Aim, 1) ELSE Plus(Aim, 1)

\* Before the offset; with it, while its place is waited for; and at each byte of a
\* pointer after the first.
ToOffset ==
    /\ ins.mode \in DOMAIN Rest /\ Behind(1)
    /\ \E w \in Waits : ahead = <<"offset">> \o (w \o (Rest[ins.mode] \o Use))

ToPlace ==
    /\ ins.mode \in DOMAIN Rest /\ Behind(2) /\ IsFound(Own(1))
    /\ point = Aim /\ addr = Aim
    /\ \E w \in Waits : /\ ins.mode \in Direct => w # <<>>
                        /\ ahead = w \o (Rest[ins.mode] \o Use)

ToPointerHigh ==
    /\ ins.mode \in Pointers /\ Behind(2) /\ IsFound(Own(1))
    /\ point = Aim /\ IsFound(Aim) /\ low = first[Cell(Aim)]
    /\ ahead = Tail(Rest[ins.mode]) \o Use

ToPointerBank ==
    /\ ins.mode \in Longs /\ Behind(2) /\ IsFound(Own(1))
    /\ point = Aim /\ IsFound(Aim) /\ IsFound(Beyond) /\ base = Pointed(Aim, FALSE)
    /\ ahead = <<"pointerBank">> \o Use

\* Before each byte of an address.
ToLow == ins.mode \in Words /\ Behind(1) /\ ahead = effective[ins.mode] \o Use

ToHigh ==
    /\ ins.mode \in Words /\ Behind(2) /\ IsFound(Own(1)) /\ low = Found(1)
    /\ ahead = Tail(effective[ins.mode]) \o Use

ToBank ==
    /\ ins.mode \in FarWords /\ Behind(3) /\ IsFound(Own(1)) /\ IsFound(Own(2))
    /\ base = FoundWord
    /\ ahead = <<"bank">> \o Use

\* What the mode costs and its work, an index apart.
Basic == 1 + Len(effective[ins.mode]) + Len(unaligned(ins)) + Len(Use)

Forming ==
    /\ HasAddress /\ Unwritten
    /\ cycles + Len(ahead) = Basic
    /\ ToOffset \/ ToPlace \/ ToPointerHigh \/ ToPointerBank \/ ToLow \/ ToHigh \/ ToBank

\* All the bytes its address is made of have been found.
AllFound ==
    /\ IsFound(Own(1))
    /\ ins.mode \in Words => IsFound(Own(2))
    /\ ins.mode \in FarWords => IsFound(Own(3))
    /\ ins.mode \in Pointers => IsFound(Aim) /\ IsFound(Beyond)
    /\ ins.mode \in Longs => IsFound(Plus(Aim, 2))

\* What is left of the work at an address when some of it is done.
Partway ==
    \/ ahead = <<>>
    \/ ins.kind = "read" /\ ahead = <<"lookHigh">>
    \/ ins.kind = "write" /\ ahead = <<"writeHigh">>
    \/ /\ ins.kind = "modify"
       /\ ahead \in {<<"heldHigh", "settle", "writeHigh", "write">>,
                     <<"settle", "writeHigh", "write">>, <<"writeHigh", "write">>,
                     <<"settle", "write">>, <<"write">>}

Reached ==
    /\ HasAddress /\ AllFound
    /\ addr = Named /\ (ins.mode \in Carries => base = Unindexed)
    /\ Behind(1 + MODE_SIZE[ins.mode])
    /\ cycles + Len(ahead) = Basic + One(Indexing)
    /\ \/ ins.mode \in Carries /\ ahead = <<"carry">> \o Use
       \/ ins.mode = "stackIndirect" /\ ahead = <<"pointerIdle">> \o Use
       \/ ahead = Use
       \/ Partway

-----------------------------------------------------------------------------
(* The outputs.                                                            *)

\* The outputs held: while a modification is under way, and within a vector.
Holding == {"heldHigh", "settle", "writeHigh", "write"}

Asserts ==
    asserted = IF ahead # <<>> /\ ins.kind = "modify" /\ Head(ahead) \in Holding THEN {"l"}
               ELSE IF ahead # <<>> /\ Head(ahead) = "vectorHigh" THEN {"v"} ELSE {}

\* What the last cycle did at an address it did at the one the instruction names.
BusTells == OutputsTell /\ DataIsNamed /\ (bus.does \in DOMAIN DataAt => Reached)

\* The work done at an address, and all that drives an output of its own.
AtData == {"look", "lookHigh", "held", "heldHigh", "write", "writeHigh"}

Telling == AtData \cup {"settle", "vector", "vectorHigh"}

LEMMA DataWork == DOMAIN DataAt = AtData
  BY DEF DataAt, AtData

\* The other work holds no output, and drives none but those of its cycle.
LEMMA QuietPins ==
  ASSUME Next, ~Fail, ins # None, ahead # <<>>, Head(ahead) \notin Telling
  PROVE  /\ asserted' = asserted
         /\ \E pins, a : /\ pins \in {{}, {"p"}, {"d"}, {"d", "w"}}
                          /\ OneCycle(Head(ahead), pins, a)
<1> DEFINE h == Head(ahead)
           Tells(does, pins) == \E a : OneCycle(does, pins, a)
<1>1. ASSUME NEW does, NEW pins, NEW a, Internal(does, pins, a) \/ Looks(does, pins, a)
      PROVE  Tells(does, pins)
  BY <1>1, InternalKeeps
<1>2. ASSUME NEW does, NEW pins, NEW a, NEW v, Reads(does, pins, a, v)
      PROVE  Tells(does, pins)
  BY <1>2 DEF Reads, Cycle, OneCycle
<1>3. ASSUME NEW does, NEW a, NEW v, Writes(does, a, v)
      PROVE  Tells(does, {"d", "w"})
  BY <1>3 DEF Writes, Cycle, OneCycle
<1>4. \/ Idle \/ Step \/ Leave \/ FetchOffset \/ FetchLow \/ FetchHigh \/ FetchBank
      \/ PointerLow \/ PointerHigh \/ PointerBank \/ Push \/ Pull \/ Pulled
      \/ JumpLow \/ JumpHigh \/ JumpBank \/ Branch
  BY Acts DEF Working, Telling, AtData, Operand, Settle, Vector, VectorHigh, DataAt, Doing
<1> HIDE DEF Tells
<1>5. asserted' = asserted
  BY <1>4 DEF Idle, Step, Leave, FetchOffset, FetchLow, FetchHigh, FetchBank, PointerLow,
              PointerHigh, PointerBank, Push, Pull, Pulled, JumpLow, JumpHigh, JumpBank, Branch,
              Free
<1>6. CASE Idle \/ Step \/ Leave \/ Pulled
  <2>1. Tells(h, {}) \/ Tells(h, {"p"})
    BY <1>1, <1>6 DEF Idle, Step, Leave, Pulled, Doing
  <2> QED
    BY <1>5, <2>1 DEF Tells
<1>7. CASE FetchOffset \/ FetchLow \/ FetchHigh \/ FetchBank \/ JumpHigh \/ Branch
  <2>1. Tells(h, {"p"}) \/ Tells(h, {"d"})
    BY <1>2, <1>7 DEF FetchOffset, FetchLow, FetchHigh, FetchBank, JumpHigh, Branch, Doing
  <2> QED
    BY <1>5, <2>1 DEF Tells
<1>8. CASE PointerLow \/ PointerHigh \/ PointerBank \/ JumpLow \/ JumpBank
  <2>1. Tells(h, {"d"})
    BY <1>2, <1>8 DEF PointerLow, PointerHigh, PointerBank, JumpLow, JumpBank, Doing
  <2> QED
    BY <1>5, <2>1 DEF Tells
<1>9. CASE Push \/ Pull
  <2>1. Tells(h, {"d", "w"}) \/ Tells(h, {"d"})
    BY <1>1, <1>2, <1>3, <1>9 DEF Push, Pull, Doing
  <2> QED
    BY <1>5, <2>1 DEF Tells
<1> QED
  BY <1>4, <1>6, <1>7, <1>8, <1>9

\* So the outputs tell what they should, if what is next holds none either.
Calm == ahead # <<>> => /\ Head(ahead) # "vectorHigh"
                        /\ ins.kind = "modify" => Head(ahead) \notin Holding

LEMMA Quiet ==
  ASSUME Asserts, Next, ~Fail, ins # None, ahead # <<>>, Head(ahead) \notin Telling, Calm'
  PROVE  asserted' = {} /\ Asserts' /\ BusTells'
<1>1. PICK pins, a : /\ pins \in {{}, {"p"}, {"d"}, {"d", "w"}}
                     /\ asserted' = asserted /\ OneCycle(Head(ahead), pins, a)
  BY QuietPins
<1>2. Head(ahead) \notin Holding /\ Head(ahead) # "vectorHigh"
  BY DEF Telling, AtData, Holding
<1>3. asserted = {} /\ asserted' = {}
  BY <1>1, <1>2 DEF Asserts
<1>4. Asserts'
  BY <1>3 DEF Asserts, Calm
<1>5. bus'.does = Head(ahead) /\ bus'.pins = pins
  BY <1>1, <1>3 DEF OneCycle
<1>6. bus'.does \notin AtData \cup {"settle", "vector", "vectorHigh"}
  BY <1>5 DEF Telling
<1>7. DOMAIN DataAt' = AtData
  BY DEF DataAt, AtData
<1>8. "l" \notin bus'.pins /\ "v" \notin bus'.pins /\ ("w" \in bus'.pins => "d" \in bus'.pins)
  BY <1>1, <1>5
<1>9. OutputsTell'
  BY <1>6, <1>7, <1>8 DEF OutputsTell
<1>10. DataIsNamed'
  BY <1>6, <1>7 DEF DataIsNamed
<1> QED
  BY <1>3, <1>4, <1>6, <1>7, <1>9, <1>10 DEF BusTells

-----------------------------------------------------------------------------
(* On the way to an address.                                               *)

\* What was found of an address stays found.
LEMMA FoundKept ==
  ASSUME Remembers, reach' = reach, NEW a, IsFound(a)
  PROVE  /\ Cell(a) \in DOMAIN first'
         /\ first'[Cell(a)] = first[Cell(a)]
         /\ (a % reach') = Cell(a)
  BY DEF Remembers, IsFound, Cell

\* So does a byte of the instruction.
LEMMA OwnKept ==
  ASSUME Remembers, ins' = ins, reach' = reach, NEW n, IsFound(Own(n))
  PROVE  IsFound(Own(n))' /\ Found(n)' = Found(n)
<1>1. /\ Cell(Own(n)) \in DOMAIN first' /\ first'[Cell(Own(n))] = first[Cell(Own(n))]
      /\ (Own(n) % reach') = Cell(Own(n))
  BY FoundKept
<1>2. Own(n)' = Own(n)
  BY DEF Own
<1> QED
  BY <1>1, <1>2 DEF IsFound, Found, Cell

\* And where an offset leads.
LEMMA AimKept ==
  ASSUME Remembers, ins' = ins, reach' = reach, s' = s, IsFound(Own(1))
  PROVE  /\ IsFound(Own(1))' /\ Found(1)' = Found(1)
         /\ Aim' = Aim /\ Beyond' = Beyond /\ pointer_wraps' = pointer_wraps
<1>1. IsFound(Own(1))' /\ Found(1)' = Found(1)
  BY OwnKept
<1>2. pointer_wraps' = pointer_wraps
  BY DEF pointer_wraps, page_wraps
<1>3. Aim' = Aim
  <2>1. ASSUME NEW n PROVE OfDirectPage(n)' = OfDirectPage(n)
    BY DEF OfDirectPage, page_wraps
  <2> QED
    BY <1>1, <2>1 DEF Aim, OfDirectPage, page_wraps
<1> QED
  BY <1>1, <1>2, <1>3 DEF Beyond

\* The word a pointer holds.
Pointee == Word(first[Cell(Aim)], first[Cell(Beyond)])

\* What each mode names, with its pointer where the offset leads.
ByMode ==
    /\ ins.mode \in Direct => Named = Aim
    /\ ins.mode = "absolute" => Named = Long(ins.db, FoundWord)
    /\ ins.mode = "absoluteX"
         => Unindexed = FoundWord /\ Named = Long(ins.db, FoundWord) + ins.index
    /\ ins.mode = "absoluteLong" => Named = Long(Found(3), FoundWord)
    /\ ins.mode = "absoluteLongX" => Named = Long(Found(3), FoundWord) + ins.index
    /\ ins.mode \in {"indirect", "indexedIndirectX"} => Named = Long(ins.db, Pointee)
    /\ ins.mode \in {"indirectIndexedY", "stackIndirect"}
         => Unindexed = Pointee /\ Named = Long(ins.db, Pointee) + ins.index
    /\ ins.mode \in Longs => /\ Pointed(Aim, FALSE) = Pointee
                             /\ Named = Long(first[Cell(Plus(Aim, 2))], Pointee) + Index

LEMMA NamedIs == TypeOK /\ HasAddress => ByMode
<1> SUFFICES ASSUME TypeOK, HasAddress PROVE ByMode
  OBVIOUS
<1>1. ins.kind # "pei" /\ ins.mode \in DOMAIN effective
  BY DEF HasAddress, Modes, effective
<1>2. /\ pointer_wraps \in BOOLEAN /\ page_wraps \in BOOLEAN /\ ins.e \in BOOLEAN
      /\ ins.mode \in {"indirect", "indirectIndexedY"} => pointer_wraps = page_wraps
      /\ ins.mode = "indexedIndirectX" => pointer_wraps = ins.e
      /\ ins.mode \in Longs \cup {"stackIndirect"} => pointer_wraps = FALSE
  BY <1>1 DEF pointer_wraps, page_wraps, Longs, TypeOK
<1>3. Pointed(Aim, pointer_wraps) = Pointee
  BY DEF Pointed, Byte3, Pointee, Beyond
<1>4. ASSUME ins.mode \in Direct PROVE Named = Aim
  <2>1. CASE ins.mode = "direct"
    BY <2>1 DEF Named, Aim, Carries
  <2>2. CASE ins.mode = "directX"
    BY <2>2 DEF Named, Aim, Carries
  <2>3. CASE ins.mode = "stack"
    BY <2>3 DEF Named, Aim, Carries
  <2> QED
    BY <1>4, <2>1, <2>2, <2>3 DEF Direct
<1>5. ASSUME ins.mode = "absolute" PROVE Named = Long(ins.db, FoundWord)
  BY <1>5 DEF Named, Carries
<1>6. ASSUME ins.mode = "absoluteX"
      PROVE  Unindexed = FoundWord /\ Named = Long(ins.db, FoundWord) + ins.index
  <2>1. Unindexed = FoundWord
    BY <1>6 DEF Unindexed, Carries, ZeroModes
  <2> QED
    BY <1>6, <2>1 DEF Named, Carries
<1>7. /\ ins.mode = "absoluteLong" => Named = Long(Found(3), FoundWord)
      /\ ins.mode = "absoluteLongX" => Named = Long(Found(3), FoundWord) + ins.index
  BY DEF Named, Carries
<1>8. ASSUME ins.mode \in {"indirect", "indexedIndirectX"}
      PROVE  Named = Long(ins.db, Pointee)
  <2>1. CASE ins.mode = "indirect"
    <3>1. Aim = OfDirectPage(Found(1)) /\ Named = Long(ins.db, Pointed(Aim, page_wraps))
      BY <2>1 DEF Named, Aim, Carries
    <3> QED
      BY <1>2, <1>3, <2>1, <3>1
  <2>2. CASE ins.mode = "indexedIndirectX"
    <3>1. Aim = OfDirectPage(Found(1) + ins.index) /\ Named = Long(ins.db, Pointed(Aim, ins.e))
      BY <2>2 DEF Named, Aim, Carries
    <3> QED
      BY <1>2, <1>3, <2>2, <3>1
  <2> QED
    BY <1>8, <2>1, <2>2
<1>9. ASSUME ins.mode \in {"indirectIndexedY", "stackIndirect"}
      PROVE  Unindexed = Pointee /\ Named = Long(ins.db, Pointee) + ins.index
  <2>1. CASE ins.mode = "indirectIndexedY"
    <3>1. Aim = OfDirectPage(Found(1)) /\ Unindexed = Pointed(Aim, page_wraps)
      BY <2>1 DEF Unindexed, Aim, Carries, ZeroModes
    <3>2. Unindexed = Pointee
      BY <1>2, <1>3, <2>1, <3>1
    <3> QED
      BY <2>1, <3>2 DEF Named, Carries
  <2>2. CASE ins.mode = "stackIndirect"
    <3>1. Aim = Plus(s, Found(1)) /\ Unindexed = Pointed(Aim, FALSE)
      BY <2>2 DEF Unindexed, Aim, Carries, ZeroModes
    <3>2. Unindexed = Pointee
      BY <1>2, <1>3, <2>2, <3>1
    <3> QED
      BY <2>2, <3>2 DEF Named, Carries
  <2> QED
    BY <1>9, <2>1, <2>2
<1>10. ASSUME ins.mode \in Longs
       PROVE  /\ Pointed(Aim, FALSE) = Pointee
              /\ Named = Long(first[Cell(Plus(Aim, 2))], Pointee) + Index
  <2>1. Pointed(Aim, FALSE) = Pointee
    BY <1>2, <1>3, <1>10
  <2>2. Aim = OfDirectPage(Found(1))
    BY <1>10 DEF Aim, Longs
  <2> DEFINE wide == [indirectLong |-> 0, indirectLongY |-> ins.index]
  <2>3. Named = Long(first[Cell(Plus(Aim, 2))], Pointed(Aim, FALSE)) + wide[ins.mode]
    BY <1>10, <2>2 DEF Named, Longs, Carries
  <2>4. wide[ins.mode] = Index
    BY <1>10 DEF Longs, Index, Indexes, Carries
  <2> QED
    BY <2>1, <2>3, <2>4
<1> QED
  BY <1>4, <1>5, <1>6, <1>7, <1>8, <1>9, <1>10 DEF ByMode

\* A word found there is a word.
LEMMA FoundByte ==
  ASSUME TypeOK, NEW a, IsFound(a)
  PROVE  first[Cell(a)] \in Byte
  BY DEF TypeOK, IsFound

LEMMA OwnByte ==
  ASSUME TypeOK, NEW n, IsFound(Own(n))
  PROVE  Found(n) \in Byte /\ Found(n) \in Int
<1>1. first[Cell(Own(n))] \in Byte
  BY FoundByte
<1>2. Found(n) \in Byte
  BY <1>1 DEF Found
<1> QED
  BY <1>2, Sizes

\* The next byte of an instruction is the one pc is at.
LEMMA PcNext ==
  ASSUME TypeOK, NEW n \in Int, Behind(n)
  PROVE  /\ Long(pb, pc) = Own(n)
         /\ Plus(pc, 1) = Plus(ins.at % BB, n + 1)
<1> DEFINE at == ins.at % BB
<1>1. at \in Int
  BY Numbers, BankByte, Sizes
<1>2. pc = Plus(at, n) /\ pb = Bank(ins.at)
  BY DEF Behind
<1> HIDE DEF at
<1>3. Plus(Plus(at, n), 1) = Plus(at, n + 1)
  BY <1>1, PlusPlus
<1>4. Plus(pc, 1) = Plus(at, n + 1)
  BY <1>2, <1>3
<1>5. Long(pb, pc) = Long(Bank(ins.at), Plus(at, n))
  BY <1>2
<1> QED
  BY <1>4, <1>5 DEF at, Own, InBank

\* The bytes fetched, when one more has been.
LEMMA BehindNext ==
  ASSUME TypeOK, NEW n \in Int, Behind(n), ins' = ins, pb' = pb, pc' = Plus(pc, 1)
  PROVE  Behind(n + 1)'
  BY PcNext DEF Behind

\* The pieces of work of which the ways to an address are made.
LEMMA Ways ==
  /\ <<>> \in Seq(Work) /\ <<"here">> \in Seq(Work) /\ <<"here", "here">> \in Seq(Work)
  /\ <<"offset">> \in Seq(Work) /\ <<"carry">> \in Seq(Work) /\ <<"pointerIdle">> \in Seq(Work)
  /\ <<"pointer", "pointerHigh">> \in Seq(Work) /\ <<"pointerHigh">> \in Seq(Work)
  /\ <<"pointer", "pointerHigh", "pointerBank">> \in Seq(Work)
  /\ <<"pointerHigh", "pointerBank">> \in Seq(Work) /\ <<"pointerBank">> \in Seq(Work)
  /\ <<"pointer", "pointerHigh", "pointerIdle">> \in Seq(Work)
  /\ <<"pointerHigh", "pointerIdle">> \in Seq(Work)
  /\ <<"low", "high">> \in Seq(Work) /\ <<"low", "high", "bank">> \in Seq(Work)
  /\ <<"high">> \in Seq(Work) /\ <<"high", "bank">> \in Seq(Work) /\ <<"bank">> \in Seq(Work)
<1>1. \A a, b, c \in Work : /\ <<a>> \in Seq(Work) /\ <<a, b>> \in Seq(Work)
                            /\ <<a, b, c>> \in Seq(Work)
  OBVIOUS
<1>2. {"here", "offset", "carry", "pointerIdle", "pointer", "pointerHigh", "pointerBank", "low",
       "high", "bank"} \subseteq Work
  BY DEF Work
<1>3. <<>> \in Seq(Work)
  OBVIOUS
<1> QED
  BY <1>1, <1>2, <1>3

\* What an instruction waits for its place with, and reads a pointer with.
LEMMA WaitsAre ==
  ASSUME NEW w \in Waits
  PROVE  /\ w \in Seq(Work)
         /\ w # <<>> => Head(w) = "here" /\ Tail(w) \in Waits
<1>1. /\ Head(<<"here">>) = "here" /\ Tail(<<"here">>) = <<>>
      /\ Head(<<"here", "here">>) = "here" /\ Tail(<<"here", "here">>) = <<"here">>
  OBVIOUS
<1>2. w \in {<<>>, <<"here">>, <<"here", "here">>}
  BY DEF Waits
<1>3. w \in Seq(Work)
  BY <1>2, Ways
<1>4. CASE w = <<>>
  BY <1>3, <1>4
<1>5. CASE w = <<"here">>
  <2>1. Head(w) = "here" /\ Tail(w) = <<>>
    BY <1>1, <1>5
  <2> QED
    BY <1>3, <2>1 DEF Waits
<1>6. CASE w = <<"here", "here">>
  <2>1. Head(w) = "here" /\ Tail(w) = <<"here">>
    BY <1>1, <1>6
  <2> QED
    BY <1>3, <2>1 DEF Waits
<1> QED
  BY <1>2, <1>4, <1>5, <1>6

LEMMA RestIs ==
  ASSUME NEW m \in DOMAIN Rest
  PROVE  /\ Rest[m] \in Seq(Work)
         /\ m \in Direct => Rest[m] = <<>>
         /\ m \notin Direct
              => /\ m \in Pointers /\ Rest[m] # <<>> /\ Head(Rest[m]) = "pointer"
                 /\ Tail(Rest[m]) \in Seq(Work) /\ Tail(Rest[m]) # <<>>
                 /\ Head(Tail(Rest[m])) = "pointerHigh"
         /\ m \in {"indirect", "indexedIndirectX", "indirectIndexedY"}
              => Tail(Tail(Rest[m])) = <<>>
         /\ m \in Longs => Tail(Tail(Rest[m])) = <<"pointerBank">>
         /\ m = "stackIndirect" => Tail(Tail(Rest[m])) = <<"pointerIdle">>
<1>1. m \in Direct \/ m \in {"indirect", "indexedIndirectX", "indirectIndexedY"}
      \/ m \in Longs \/ m = "stackIndirect"
  BY DEF Rest, Direct, Longs
<1>2. CASE m \in Direct
  <2>1. Rest[m] = <<>> /\ m \notin Longs /\ m # "stackIndirect"
        /\ m \notin {"indirect", "indexedIndirectX", "indirectIndexedY"}
    BY <1>2 DEF Rest, Direct, Longs
  <2> QED
    BY <1>2, <2>1, Ways
<1>3. CASE m \in {"indirect", "indexedIndirectX", "indirectIndexedY"}
  <2>1. Rest[m] = <<"pointer", "pointerHigh">> /\ m \notin Direct /\ m \in Pointers
        /\ m \notin Longs /\ m # "stackIndirect"
    BY <1>3 DEF Rest, Direct, Longs, Pointers
  <2> HIDE DEF Rest
  <2>2. /\ Tail(<<"pointer", "pointerHigh">>) = <<"pointerHigh">>
        /\ Head(<<"pointer", "pointerHigh">>) = "pointer" /\ <<"pointer", "pointerHigh">> # <<>>
        /\ Tail(<<"pointerHigh">>) = <<>> /\ Head(<<"pointerHigh">>) = "pointerHigh"
        /\ <<"pointerHigh">> # <<>>
    OBVIOUS
  <2> QED
    BY <2>1, <2>2, Ways
<1>4. CASE m \in Longs
  <2>1. Rest[m] = <<"pointer", "pointerHigh", "pointerBank">> /\ m \notin Direct /\ m \in Pointers
        /\ m \notin {"indirect", "indexedIndirectX", "indirectIndexedY"} /\ m # "stackIndirect"
    BY <1>4 DEF Rest, Direct, Longs, Pointers
  <2>2. /\ Tail(<<"pointer", "pointerHigh", "pointerBank">>) = <<"pointerHigh", "pointerBank">>
        /\ Head(<<"pointer", "pointerHigh", "pointerBank">>) = "pointer"
        /\ <<"pointer", "pointerHigh", "pointerBank">> # <<>>
        /\ Tail(<<"pointerHigh", "pointerBank">>) = <<"pointerBank">>
        /\ Head(<<"pointerHigh", "pointerBank">>) = "pointerHigh"
        /\ <<"pointerHigh", "pointerBank">> # <<>>
    OBVIOUS
  <2> QED
    BY <2>1, <2>2, Ways
<1>5. CASE m = "stackIndirect"
  <2>1. Rest[m] = <<"pointer", "pointerHigh", "pointerIdle">> /\ m \notin Direct /\ m \in Pointers
        /\ m \notin {"indirect", "indexedIndirectX", "indirectIndexedY"} /\ m \notin Longs
    BY <1>5 DEF Rest, Direct, Longs, Pointers
  <2>2. /\ Tail(<<"pointer", "pointerHigh", "pointerIdle">>) = <<"pointerHigh", "pointerIdle">>
        /\ Head(<<"pointer", "pointerHigh", "pointerIdle">>) = "pointer"
        /\ <<"pointer", "pointerHigh", "pointerIdle">> # <<>>
        /\ Tail(<<"pointerHigh", "pointerIdle">>) = <<"pointerIdle">>
        /\ Head(<<"pointerHigh", "pointerIdle">>) = "pointerHigh"
        /\ <<"pointerHigh", "pointerIdle">> # <<>>
    OBVIOUS
  <2> QED
    BY <2>1, <2>2, Ways
<1> QED
  BY <1>1, <1>2, <1>3, <1>4, <1>5

\* What it does at its address.
LEMMA Uses ==
  ASSUME HasAddress
  PROVE  /\ Use \in Seq(Work) /\ Use # <<>>
         /\ Head(Use) \in {"look", "held", "write"}
         /\ ins.kind = "modify" <=> Head(Use) = "held"
         /\ ins.kind = "read" <=> Head(Use) = "look"
         /\ ins.kind = "read" => Use = IF ins.wide THEN <<"look", "lookHigh">> ELSE <<"look">>
         /\ ins.kind = "write" => Use = IF ins.wide THEN <<"write", "writeHigh">> ELSE <<"write">>
         /\ ins.kind = "modify"
              => Use = IF ins.wide THEN <<"held", "heldHigh", "settle", "writeHigh", "write">>
                                   ELSE <<"held", "settle", "write">>
         /\ ins.kind \in {"read", "write", "modify"}
<1>1. \A a, b, c, d, e \in Work : /\ <<a>> \in Seq(Work) /\ <<a, b>> \in Seq(Work)
                                  /\ <<a, b, c>> \in Seq(Work) /\ <<a, b, c, d, e>> \in Seq(Work)
  OBVIOUS
<1>2. {"look", "lookHigh", "held", "heldHigh", "settle", "writeHigh", "write"} \subseteq Work
  BY DEF Work
<1>3. /\ <<"look">> \in Seq(Work) /\ <<"look", "lookHigh">> \in Seq(Work)
      /\ <<"write">> \in Seq(Work) /\ <<"write", "writeHigh">> \in Seq(Work)
      /\ <<"held", "settle", "write">> \in Seq(Work)
      /\ <<"held", "heldHigh", "settle", "writeHigh", "write">> \in Seq(Work)
  BY <1>1, <1>2
<1>4. ins.kind \in {"read", "write", "modify"}
  BY DEF HasAddress, Modes
<1>5. /\ ins.kind = "read" => Use = IF ins.wide THEN <<"look", "lookHigh">> ELSE <<"look">>
      /\ ins.kind = "write" => Use = IF ins.wide THEN <<"write", "writeHigh">> ELSE <<"write">>
      /\ ins.kind = "modify"
           => Use = IF ins.wide THEN <<"held", "heldHigh", "settle", "writeHigh", "write">>
                                ELSE <<"held", "settle", "write">>
  BY <1>4 DEF Use, AtAddress
<1>6. /\ Head(<<"look">>) = "look" /\ Head(<<"look", "lookHigh">>) = "look"
      /\ Head(<<"write">>) = "write" /\ Head(<<"write", "writeHigh">>) = "write"
      /\ Head(<<"held", "settle", "write">>) = "held"
      /\ Head(<<"held", "heldHigh", "settle", "writeHigh", "write">>) = "held"
      /\ <<"look">> # <<>> /\ <<"look", "lookHigh">> # <<>> /\ <<"write">> # <<>>
      /\ <<"write", "writeHigh">> # <<>> /\ <<"held", "settle", "write">> # <<>>
      /\ <<"held", "heldHigh", "settle", "writeHigh", "write">> # <<>>
  OBVIOUS
<1>7. CASE ins.kind = "read"
  BY <1>3, <1>5, <1>6, <1>7
<1>8. CASE ins.kind = "write"
  BY <1>3, <1>5, <1>6, <1>8
<1>9. CASE ins.kind = "modify"
  BY <1>3, <1>5, <1>6, <1>9
<1> QED
  BY <1>4, <1>5, <1>7, <1>8, <1>9

\* An instruction with an address is one, and stays it.
LEMMA Addressed ==
  ASSUME TypeOK, HasAddress
  PROVE  /\ ins # None /\ ins.kind \notin {"brl", "pei"} /\ Addressing
         /\ ins.mode \in DOMAIN Rest \/ ins.mode \in Words
         /\ ins.mode \in DOMAIN Rest => ins.mode \notin Words
         /\ ins' = ins => HasAddress' /\ Use' = Use /\ Basic' = Basic
<1>1. ins.kind \in {"read", "write", "modify"} /\ ins.mode \in DOMAIN effective
  BY DEF HasAddress, Modes, effective
<1>2. ins # None /\ ins.kind \notin {"brl", "pei"} /\ Addressing
  BY <1>1 DEF None, Addressing, Modes
<1>3. /\ ins.mode \in DOMAIN Rest \/ ins.mode \in Words
      /\ ins.mode \in DOMAIN Rest => ins.mode \notin Words
  BY <1>1 DEF effective, Rest, Words, FarWords
<1>4. ins' = ins => HasAddress' /\ Use' = Use /\ Basic' = Basic
  BY DEF HasAddress, Use, Basic, unaligned
<1> QED
  BY <1>2, <1>3, <1>4

\* What any cycle does of what is ahead that drives no output of its own.
Goes ==
    /\ TypeOK' /\ Remembers /\ ins' = ins /\ reach' = reach /\ cycles' = cycles + 1
    /\ Calm' => Asserts' /\ BusTells'

LEMMA Underway ==
  ASSUME TypeOK, Asserts, Next, ~Fail, ins # None, ahead # <<>>,
         Head(ahead) \notin Telling, Head(ahead) # "leave"
  PROVE  Goes
<1>1. Working /\ ~Leave
  BY Acts DEF Leave, Doing
<1>2. Worked
  BY <1>1, StepWorks
<1>3. ins' = ins /\ reach' = reach /\ cycles' = cycles + 1
  BY <1>2 DEF Worked, OneCycle
<1>4. Calm' => Asserts' /\ BusTells'
  BY Quiet
<1> QED
  BY <1>2, <1>3, <1>4 DEF Worked, Goes

\* The cycles behind and ahead add up to as many, but for the carry's.
LEMMA Sum ==
  ASSUME TypeOK, ahead # <<>>, cycles' = cycles + 1
  PROVE  /\ Len(ahead) \in Nat /\ Len(Tail(ahead)) \in Nat /\ cycles \in Nat
         /\ Len(Tail(ahead)) = Len(ahead) - 1
         /\ cycles' + Len(Tail(ahead)) = cycles + Len(ahead)
         /\ cycles' + Len(<<"carry">> \o Tail(ahead)) = cycles + Len(ahead) + 1
<1>1. ahead \in Seq(Work) /\ cycles \in Nat
  BY Numbers
<1>2. /\ Tail(ahead) \in Seq(Work) /\ Len(ahead) \in Nat
      /\ Len(Tail(ahead)) = Len(ahead) - 1 /\ Len(Tail(ahead)) \in Nat
  BY <1>1
<1>3. Len(<<"carry">> \o Tail(ahead)) = 1 + Len(Tail(ahead))
  <2>1. <<"carry">> \in Seq(Work) /\ Len(<<"carry">>) = 1
    BY Ways
  <2> QED
    BY <1>2, <2>1, ConcatProperties
<1> QED
  BY <1>1, <1>2, <1>3

\* Where a step on the way leads.
Went == (Forming' \/ Reached') /\ Asserts' /\ BusTells'

\* On its way it waits for its place, or is at it.
LEMMA Placed ==
  ASSUME TypeOK, TypeOK', HasAddress, ins' = ins, ins.mode \in DOMAIN Rest,
         Unwritten', IsFound(Own(1))', Behind(2)', point' = Aim', addr' = Aim',
         cycles' + Len(ahead') = Basic', Calm' => Asserts' /\ BusTells',
         NEW w \in Waits, ahead' = w \o (Rest[ins.mode] \o Use)
  PROVE  Went
<1>1. /\ ins.mode \notin Words /\ HasAddress' /\ Use' = Use
      /\ ins.kind = "modify" => Head(Use) = "held"
      /\ Use \in Seq(Work) /\ Use # <<>> /\ Head(Use) \in {"look", "held", "write"}
  BY Addressed, Uses
<1>2. /\ Rest[ins.mode] \in Seq(Work)
      /\ ins.mode \in Direct => Rest[ins.mode] = <<>>
      /\ ins.mode \notin Direct => Rest[ins.mode] # <<>> /\ Head(Rest[ins.mode]) = "pointer"
  BY RestIs
<1>3. w \in Seq(Work) /\ (w # <<>> => Head(w) = "here")
  BY WaitsAre
<1> DEFINE left == Rest[ins.mode] \o Use
<1>4. left \in Seq(Work)
  BY <1>1, <1>2, ConcatProperties
<1>5. CASE ins.mode \in Direct /\ w = <<>>
  <2>1. ahead' = Use
    BY <1>1, <1>2, <1>4, <1>5, Nothing
  <2>2. ByMode'
    BY <1>1, NamedIs, PTL
  <2>3. addr' = Named'
    BY <1>5, <2>2 DEF ByMode
  <2>4. ins.mode \notin Carries \cup Pointers \cup Longs \cup FarWords /\ MODE_SIZE[ins.mode] = 1
    BY <1>5 DEF Direct, Carries, Pointers, Longs, FarWords, MODE_SIZE
  <2>5. AllFound'
    BY <1>1, <2>4 DEF AllFound
  <2>6. cycles' + Len(ahead') = Basic' + One(Indexing)'
    <3>1. One(Indexing)' = 0
      BY <2>4 DEF One, Indexing
    <3>2. Basic' \in Int
      <4>1. cycles' \in Nat /\ ahead' \in Seq(Work)
        BY DEF TypeOK
      <4>2. Len(ahead') \in Nat
        BY <4>1
      <4> QED
        BY <4>1, <4>2
    <3> QED
      BY <3>1, <3>2
  <2>7. Behind(1 + MODE_SIZE[ins.mode])'
    <3>1. 1 + MODE_SIZE[ins.mode] = 2 /\ 1 + MODE_SIZE[ins'.mode] = 2
      BY <2>4
    <3> QED
      BY <3>1 DEF Behind
  <2>8. Reached'
    BY <1>1, <2>1, <2>3, <2>4, <2>5, <2>6, <2>7 DEF Reached
  <2>9. Calm'
    BY <1>1, <2>1 DEF Calm, Holding
  <2> QED
    BY <2>8, <2>9 DEF Went
<1>6. CASE ~(ins.mode \in Direct /\ w = <<>>)
  <2>1. ToPlace'
    <3>1. ins'.mode \in DOMAIN Rest /\ (ins'.mode \in Direct => w # <<>>)
          /\ ahead' = w \o (Rest[ins'.mode] \o Use')
      BY <1>1, <1>6
    <3> QED
      BY <3>1 DEF ToPlace
  <2>2. Forming'
    BY <1>1, <2>1 DEF Forming
  <2>3. ahead' # <<>> /\ Head(ahead') \in {"here", "pointer"}
    <3>0. ahead' = w \o left
      OBVIOUS
    <3>1. CASE w # <<>>
      <4> HIDE DEF left
      <4>1. w \o left # <<>> /\ Head(w \o left) = Head(w)
        BY <1>3, <1>4, <3>1, HeadOf
      <4> QED
        BY <1>3, <3>0, <3>1, <4>1
    <3>2. CASE w = <<>>
      <4>1. ahead' = left
        BY <1>4, <3>2, Nothing
      <4>2. left # <<>> /\ Head(left) = "pointer"
        BY <1>1, <1>2, <1>6, <3>2, HeadOf
      <4> QED
        BY <4>1, <4>2
    <3> QED
      BY <3>1, <3>2
  <2>4. Calm'
    BY <2>3 DEF Calm, Holding
  <2> QED
    BY <2>2, <2>4 DEF Went
<1> QED
  BY <1>5, <1>6

\* The offset is fetched.
LEMMA OffsetStep ==
  ASSUME TypeOK, HasAddress, Unwritten, cycles + Len(ahead) = Basic, Asserts, ToOffset,
         Next, ~Fail
  PROVE  Went
<1>1. PICK w \in Waits : ahead = <<"offset">> \o (w \o (Rest[ins.mode] \o Use))
  BY DEF ToOffset
<1> DEFINE left == w \o (Rest[ins.mode] \o Use)
<1>2. ins.mode \in DOMAIN Rest /\ Behind(1) /\ ins # None /\ ins.kind \notin {"brl", "pei"}
  BY Addressed DEF ToOffset
<1>3. left \in Seq(Work)
  <2>1. Use \in Seq(Work) /\ Rest[ins.mode] \in Seq(Work) /\ w \in Seq(Work)
    BY <1>2, Uses, RestIs, WaitsAre
  <2> QED
    BY <2>1, ConcatProperties
<1>4. ahead = <<"offset">> \o left
  BY <1>1
<1> HIDE DEF left
<1>5. ahead # <<>> /\ Head(ahead) = "offset" /\ Tail(ahead) = left
  <2>1. <<"offset">> # <<>> /\ Head(<<"offset">>) = "offset" /\ Tail(<<"offset">>) = <<>>
    OBVIOUS
  <2> QED
    BY <1>3, <1>4, <2>1, Ways, HeadOf, Nothing
<1>6. FetchOffset /\ Goes
  <2>1. Head(ahead) \notin Telling /\ Head(ahead) # "leave"
    BY <1>5 DEF Telling, AtData
  <2> QED
    BY <1>2, <1>5, <2>1, Acts, Underway
<1>7. PICK v \in Byte :
        LET target == IF ins.mode \in {"stack", "stackIndirect"} THEN Plus(s, v)
                      ELSE direct(v + IF ins.mode \in {"directX", "indexedIndirectX"}
                                      THEN ins.index ELSE 0)
        IN  Reads("offset", {"p"}, Long(pb, pc), v) /\ point' = target /\ addr' = target
  BY <1>6 DEF FetchOffset
<1>8. pc' = Plus(pc, 1) /\ ahead' = left /\ pb' = pb /\ s' = s
  BY <1>5, <1>6 DEF FetchOffset, Then
<1>9. Long(pb, pc) = Own(1)
  BY <1>2, PcNext
<1>10. Unwritten' /\ Cell(Own(1)) \in DOMAIN first' /\ first'[Cell(Own(1))] = v
  BY <1>7, <1>9, ReadsKeep
<1>11. ins' = ins /\ reach' = reach /\ TypeOK' /\ cycles' = cycles + 1
  BY <1>6 DEF Goes
<1>12. IsFound(Own(1))' /\ Found(1)' = v
  BY <1>10, <1>11 DEF IsFound, Found, Cell, Own
<1>13. point' = Aim' /\ addr' = Aim'
  <2>1. v + 0 = v
    BY Sizes
  <2>3. CASE ins.mode \in {"stack", "stackIndirect"}
    <3>1. point' = Plus(s, v) /\ addr' = Plus(s, v)
      BY <1>7, <2>3
    <3> QED
      BY <1>8, <1>11, <1>12, <2>3, <3>1 DEF Aim
  <2>4. CASE ins.mode \in {"directX", "indexedIndirectX"}
    <3>1. point' = direct(v + ins.index) /\ addr' = direct(v + ins.index)
      BY <1>7, <2>4
    <3>2. Aim' = direct(v + ins.index)
      BY <1>11, <1>12, <2>4 DEF Aim, OfDirectPage, page_wraps, direct
    <3> QED
      BY <3>1, <3>2
  <2>5. CASE ins.mode \notin {"stack", "stackIndirect", "directX", "indexedIndirectX"}
    <3>1. point' = direct(v) /\ addr' = direct(v)
      BY <1>7, <2>1, <2>5
    <3>2. Aim' = direct(v)
      BY <1>11, <1>12, <2>5 DEF Aim, OfDirectPage, page_wraps, direct
    <3> QED
      BY <3>1, <3>2
  <2> QED
    BY <2>3, <2>4, <2>5
<1>14. Behind(2)'
  <2>1. Behind(1 + 1)'
    BY <1>2, <1>8, <1>11, BehindNext
  <2> QED
    BY <2>1 DEF Behind
<1>15. cycles' + Len(ahead') = Basic'
  BY <1>5, <1>8, <1>11, Sum, Addressed
<1>16. Calm' => Asserts' /\ BusTells'
  BY <1>6 DEF Goes
<1> QED
  BY <1>2, <1>8, <1>10, <1>11, <1>12, <1>13, <1>14, <1>15, <1>16, Placed DEF left

\* A cycle is spent before the place is read.
LEMMA PlaceStep ==
  ASSUME TypeOK, HasAddress, Unwritten, cycles + Len(ahead) = Basic, Asserts,
         ins.mode \in DOMAIN Rest, Behind(2), IsFound(Own(1)), point = Aim, addr = Aim,
         NEW w \in Waits, w # <<>>, ahead = w \o (Rest[ins.mode] \o Use), Next, ~Fail
  PROVE  Went
<1> DEFINE left == Rest[ins.mode] \o Use
<1>1. ins # None
  BY Addressed
<1>2. left \in Seq(Work) /\ w \in Seq(Work) /\ Head(w) = "here" /\ Tail(w) \in Waits
  <2>1. Use \in Seq(Work) /\ Rest[ins.mode] \in Seq(Work)
    BY Uses, RestIs
  <2> QED
    BY <2>1, WaitsAre, ConcatProperties
<1>3. ahead = w \o left
  OBVIOUS
<1> HIDE DEF left
<1>4. ahead # <<>> /\ Head(ahead) = "here" /\ Tail(ahead) = Tail(w) \o left
  BY <1>2, <1>3, HeadOf
<1>5. Idle /\ Goes
  <2>1. Head(ahead) \notin Telling /\ Head(ahead) # "leave"
    BY <1>4 DEF Telling, AtData
  <2> QED
    BY <1>1, <1>4, <2>1, Acts, Underway
<1>6. /\ ahead' = Tail(w) \o left /\ pc' = pc /\ pb' = pb /\ s' = s
      /\ point' = point /\ addr' = addr
      /\ first' = first /\ Unwritten'
  <2>1. PICK it, a : Internal(it, {}, a)
    BY <1>5 DEF Idle
  <2>2. first' = first /\ Unwritten'
    BY <2>1, InternalKeeps
  <2> QED
    BY <1>4, <1>5, <2>2 DEF Idle, Then, forming
<1>7. ins' = ins /\ reach' = reach /\ TypeOK' /\ cycles' = cycles + 1 /\ Remembers
  BY <1>5 DEF Goes
<1>8. IsFound(Own(1))' /\ Aim' = Aim
  BY <1>6, <1>7, AimKept
<1>9. Behind(2)'
  BY <1>6, <1>7 DEF Behind
<1>10. cycles' + Len(ahead') = Basic'
  BY <1>4, <1>6, <1>7, Sum, Addressed
<1>11. Calm' => Asserts' /\ BusTells'
  BY <1>5 DEF Goes
<1> QED
  BY <1>2, <1>6, <1>7, <1>8, <1>9, <1>10, <1>11, Placed DEF left

\* The pointer's low byte is read.
LEMMA PointerStep ==
  ASSUME TypeOK, HasAddress, Unwritten, cycles + Len(ahead) = Basic, Asserts,
         ins.mode \in DOMAIN Rest, ins.mode \notin Direct, Behind(2), IsFound(Own(1)),
         point = Aim, ahead = Rest[ins.mode] \o Use, Next, ~Fail
  PROVE  Went
<1> DEFINE left == Tail(Rest[ins.mode]) \o Use
<1>1. ins # None /\ Use \in Seq(Work)
  BY Addressed, Uses
<1>2. /\ Rest[ins.mode] \in Seq(Work) /\ Rest[ins.mode] # <<>> /\ Head(Rest[ins.mode]) = "pointer"
      /\ Tail(Rest[ins.mode]) \in Seq(Work) /\ Tail(Rest[ins.mode]) # <<>>
      /\ Head(Tail(Rest[ins.mode])) = "pointerHigh" /\ ins.mode \in Pointers
  BY RestIs
<1>3. ahead # <<>> /\ Head(ahead) = "pointer" /\ Tail(ahead) = left
  BY <1>1, <1>2, HeadOf
<1>4. left # <<>> /\ Head(left) = "pointerHigh"
  BY <1>1, <1>2, HeadOf
<1> HIDE DEF left
<1>5. PointerLow /\ Goes
  <2>1. Head(ahead) \notin Telling /\ Head(ahead) # "leave"
    BY <1>3 DEF Telling, AtData
  <2> QED
    BY <1>1, <1>3, <2>1, Acts, Underway
<1>6. PICK v \in Byte : Reads("pointer", {"d"}, point, v) /\ low' = v
  BY <1>5 DEF PointerLow
<1>7. ahead' = left /\ pc' = pc /\ pb' = pb /\ s' = s /\ point' = point
  BY <1>3, <1>5 DEF PointerLow, Then
<1>8. ins' = ins /\ reach' = reach /\ TypeOK' /\ cycles' = cycles + 1 /\ Remembers
  BY <1>5 DEF Goes
<1>9. Unwritten' /\ Cell(Aim) \in DOMAIN first' /\ first'[Cell(Aim)] = v
  BY <1>6, ReadsKeep
<1>10. IsFound(Own(1))' /\ Aim' = Aim
  BY <1>7, <1>8, AimKept
<1>11. IsFound(Aim)' /\ low' = first'[Cell(Aim)']
  BY <1>6, <1>8, <1>9, <1>10 DEF IsFound, Cell
<1>12. Behind(2)'
  BY <1>7, <1>8 DEF Behind
<1>13. HasAddress' /\ Use' = Use /\ cycles' + Len(ahead') = Basic'
  BY <1>3, <1>7, <1>8, Sum, Addressed
<1>14. ToPointerHigh'
  <2>1. ahead' = Tail(Rest[ins'.mode]) \o Use'
    BY <1>7, <1>8, <1>13 DEF left
  <2> QED
    BY <1>2, <1>7, <1>8, <1>10, <1>11, <1>12, <2>1 DEF ToPointerHigh
<1>15. Forming' /\ Calm'
  BY <1>4, <1>7, <1>9, <1>13, <1>14 DEF Forming, Calm, Holding
<1> QED
  BY <1>5, <1>15 DEF Went, Goes

\* With its address formed, an instruction is at it.
LEMMA Arrived ==
  ASSUME TypeOK, TypeOK', HasAddress, ins' = ins, ins.mode \notin Carries,
         \/ ahead' = Use
         \/ ins.mode = "stackIndirect" /\ ahead' = <<"pointerIdle">> \o Use,
         AllFound', addr' = Named', Behind(1 + MODE_SIZE[ins.mode])',
         cycles' + Len(ahead') = Basic', Calm' => Asserts' /\ BusTells'
  PROVE  Went
<1>1. /\ HasAddress' /\ Use' = Use
      /\ ins.kind = "modify" => Head(Use) = "held"
      /\ Use \in Seq(Work) /\ Use # <<>> /\ Head(Use) \in {"look", "held", "write"}
  BY Addressed, Uses
<1>2. cycles' + Len(ahead') = Basic' + One(Indexing)'
  <2>1. One(Indexing)' = 0
    BY DEF One, Indexing
  <2>2. Basic' \in Int
    <3>1. cycles' \in Nat /\ ahead' \in Seq(Work)
      BY DEF TypeOK
    <3>2. Len(ahead') \in Nat
      BY <3>1
    <3> QED
      BY <3>1, <3>2
  <2> QED
    BY <2>1, <2>2
<1>3. Reached'
  BY <1>1, <1>2 DEF Reached
<1>4. Calm'
  <2>1. CASE ahead' = Use
    BY <1>1, <2>1 DEF Calm, Holding
  <2>2. CASE ahead' = <<"pointerIdle">> \o Use
    <3>1. Head(<<"pointerIdle">>) = "pointerIdle" /\ <<"pointerIdle">> # <<>>
      OBVIOUS
    <3>2. Head(ahead') = "pointerIdle"
      BY <1>1, <2>2, <3>1, Ways, HeadOf
    <3> QED
      BY <3>2 DEF Calm, Holding
  <2> QED
    BY <2>1, <2>2
<1> QED
  BY <1>3, <1>4 DEF Went

\* With its word formed an indexed instruction is too, but for the carry.
LEMMA CarryArrived ==
  ASSUME TypeOK, TypeOK', HasAddress, ins' = ins, ins.mode \in Carries,
         ahead # <<>>, Tail(ahead) = Use, cycles' = cycles + 1, cycles + Len(ahead) = Basic,
         NEW word, Formed(word), word = Unindexed', addr' = Named',
         AllFound', Behind(1 + MODE_SIZE[ins.mode])', Calm' => Asserts' /\ BusTells'
  PROVE  Went
<1>1. /\ HasAddress' /\ Use' = Use /\ Basic' = Basic
      /\ ins.kind = "modify" => Head(Use) = "held"
      /\ Use \in Seq(Work) /\ Use # <<>> /\ Head(Use) \in {"look", "held", "write"}
      /\ ins.kind \in {"read", "write", "modify"}
  BY Addressed, Uses
<1>2. Indexing' <=> takes_carry(word)
  BY <1>1 DEF Indexing, takes_carry
<1>3. base' = word
  BY DEF Formed
<1>4. /\ cycles' + Len(Use) = Basic /\ cycles' + Len(<<"carry">> \o Use) = Basic + 1
      /\ Basic \in Int
  <2>1. /\ Len(ahead) \in Nat /\ Len(Tail(ahead)) \in Nat /\ cycles \in Nat
        /\ cycles' + Len(Tail(ahead)) = cycles + Len(ahead)
        /\ cycles' + Len(<<"carry">> \o Tail(ahead)) = cycles + Len(ahead) + 1
    BY Sum
  <2> QED
    BY <2>1
<1>5. CASE takes_carry(word)
  <2>1. ahead' = <<"carry">> \o Use
    BY <1>5 DEF Formed
  <2>2. One(Indexing)' = 1
    BY <1>2, <1>5 DEF One
  <2>3. cycles' + Len(ahead') = Basic' + One(Indexing)'
    BY <1>1, <1>4, <2>1, <2>2
  <2>4. Reached'
    BY <1>1, <1>3, <2>1, <2>3 DEF Reached
  <2>5. Head(ahead') = "carry"
    <3>1. Head(<<"carry">>) = "carry" /\ <<"carry">> # <<>>
      OBVIOUS
    <3> QED
      BY <1>1, <2>1, <3>1, Ways, HeadOf
  <2> QED
    BY <2>4, <2>5 DEF Went, Calm, Holding
<1>6. CASE ~takes_carry(word)
  <2>1. ahead' = Use
    <3>1. ahead' = <<>> \o Use
      BY <1>6 DEF Formed
    <3> QED
      BY <1>1, <3>1, Nothing
  <2>2. One(Indexing)' = 0
    BY <1>2, <1>6 DEF One
  <2>3. cycles' + Len(ahead') = Basic' + One(Indexing)'
    BY <1>1, <1>4, <2>1, <2>2
  <2>4. Reached'
    BY <1>1, <1>3, <2>1, <2>3 DEF Reached
  <2>5. Calm'
    BY <1>1, <2>1 DEF Calm, Holding
  <2> QED
    BY <2>4, <2>5 DEF Went
<1> QED
  BY <1>5, <1>6

\* The pointer's high byte is read.
LEMMA PointerHighStep ==
  ASSUME TypeOK, HasAddress, Unwritten, cycles + Len(ahead) = Basic, Asserts, ToPointerHigh,
         Next, ~Fail
  PROVE  Went
<1> DEFINE rest == Tail(Tail(Rest[ins.mode]))
<1>1. /\ ins # None /\ Use \in Seq(Work) /\ Use # <<>>
      /\ ins.mode \in DOMAIN Rest /\ ins.mode \notin Direct /\ ins.mode \notin Words
      /\ ins.mode \notin FarWords /\ ins.mode \in Pointers
  <2>1. ins.mode \in Pointers
    BY DEF ToPointerHigh
  <2>2. ins.mode \in DOMAIN Rest /\ ins.mode \notin Direct /\ ins.mode \notin FarWords
    BY <2>1 DEF Pointers, Longs, Rest, Direct, FarWords
  <2> QED
    BY <2>1, <2>2, Addressed, Uses
<1>2. /\ Tail(Rest[ins.mode]) \in Seq(Work) /\ Tail(Rest[ins.mode]) # <<>>
      /\ Head(Tail(Rest[ins.mode])) = "pointerHigh"
  BY <1>1, RestIs
<1>3. ahead # <<>> /\ Head(ahead) = "pointerHigh" /\ Tail(ahead) = rest \o Use
  BY <1>1, <1>2, HeadOf DEF ToPointerHigh
<1>4. PointerHigh /\ Goes
  <2>1. Head(ahead) \notin Telling /\ Head(ahead) # "leave"
    BY <1>3 DEF Telling, AtData
  <2> QED
    BY <1>1, <1>3, <2>1, Acts, Underway
<1>5. /\ point = Aim /\ Behind(2) /\ IsFound(Own(1)) /\ IsFound(Aim) /\ low = first[Cell(Aim)]
  BY DEF ToPointerHigh
<1>6. PICK v \in Byte : Reads("pointerHigh", {"d"}, Beyond, v) /\ Formed(Word(low, v))
  BY <1>4, <1>5 DEF PointerHigh, Beyond
<1>7. pc' = pc /\ pb' = pb /\ s' = s /\ point' = point
  BY <1>4 DEF PointerHigh
<1>8. ins' = ins /\ reach' = reach /\ TypeOK' /\ cycles' = cycles + 1 /\ Remembers
  BY <1>4 DEF Goes
<1>9. Unwritten' /\ Cell(Beyond) \in DOMAIN first' /\ first'[Cell(Beyond)] = v
  BY <1>6, ReadsKeep
<1>10. IsFound(Own(1))' /\ Aim' = Aim /\ Beyond' = Beyond
  BY <1>5, <1>7, <1>8, AimKept
<1>11. /\ Cell(Aim) \in DOMAIN first' /\ first'[Cell(Aim)] = low
  BY <1>5, <1>8, FoundKept
<1>12. IsFound(Aim)' /\ IsFound(Beyond)' /\ Pointee' = Word(low, v)
  BY <1>8, <1>9, <1>10, <1>11 DEF IsFound, Cell, Pointee
<1>13. Word(low, v) \in Wide
  BY Numbers, WordOfBytes
<1>14. /\ base' = Word(low, v) /\ addr' = Long(ins.db, Word(low, v)) + Index
       /\ ins.mode \notin Carries => ahead' = rest \o Use
  BY <1>3, <1>6, <1>13, FormedTypes DEF Formed
<1>15. ByMode'
  <2>1. HasAddress'
    BY <1>8, Addressed
  <2> QED
    BY <1>8, <2>1, NamedIs, PTL
<1>16. Behind(1 + MODE_SIZE[ins.mode])' /\ Behind(2)'
  <2>1. 1 + MODE_SIZE[ins.mode] = 2 /\ 1 + MODE_SIZE[ins'.mode] = 2
    BY <1>1, <1>8 DEF Pointers, Longs, MODE_SIZE
  <2> QED
    BY <1>5, <1>7, <1>8, <2>1 DEF Behind
<1>17. ahead' = Tail(ahead) => cycles' + Len(ahead') = Basic'
  BY <1>3, <1>8, Sum, Addressed
<1>18. Calm' => Asserts' /\ BusTells'
  BY <1>4 DEF Goes
<1>19. ins.mode \notin Longs => AllFound'
  BY <1>1, <1>8, <1>10, <1>12 DEF AllFound
<1>20. CASE ins.mode \in Longs
  <2>1. ins.mode \notin Carries /\ rest = <<"pointerBank">>
    BY <1>1, <1>20, RestIs DEF Longs, Carries
  <2>2. ahead' = <<"pointerBank">> \o Use
    BY <1>14, <2>1
  <2>3. base' = Pointed(Aim, FALSE)'
    BY <1>8, <1>12, <1>14, <1>15, <1>20 DEF ByMode
  <2>4. HasAddress' /\ Use' = Use
    BY <1>8, Addressed
  <2>5. ToPointerBank'
    BY <1>5, <1>7, <1>8, <1>10, <1>12, <1>16, <1>20, <2>2, <2>3, <2>4 DEF ToPointerBank
  <2>6. Forming'
    BY <1>3, <1>9, <1>17, <2>1, <2>2, <2>4, <2>5 DEF Forming
  <2>7. Calm'
    <3>1. Head(<<"pointerBank">>) = "pointerBank" /\ <<"pointerBank">> # <<>>
      OBVIOUS
    <3>2. Head(ahead') = "pointerBank"
      BY <1>1, <2>2, <3>1, Ways, HeadOf
    <3> QED
      BY <3>2 DEF Calm, Holding
  <2> QED
    BY <1>18, <2>6, <2>7 DEF Went
<1>21. CASE ins.mode \in {"indirect", "indexedIndirectX"}
  <2>1. ins.mode \notin Carries /\ rest = <<>> /\ ins.mode \notin Longs /\ Index = 0
    BY <1>1, <1>21, RestIs DEF Longs, Carries, Index, Indexes
  <2>2. ahead' = Use
    BY <1>1, <1>14, <2>1, Nothing
  <2>3. addr' = Named'
    <3>1. Long(ins.db, Word(low, v)) \in Int
      BY <1>13, Numbers, LongPlace, Sizes
    <3>2. addr' = Long(ins.db, Word(low, v))
      BY <1>14, <2>1, <3>1
    <3> QED
      BY <1>8, <1>12, <1>15, <1>21, <3>2 DEF ByMode
  <2>4. cycles' + Len(ahead') = Basic'
    BY <1>3, <1>14, <1>17, <2>1
  <2> QED
    BY <1>8, <1>16, <1>18, <1>19, <2>1, <2>2, <2>3, <2>4, Arrived
<1>22. CASE ins.mode = "stackIndirect"
  <2>1. /\ ins.mode \notin Carries /\ rest = <<"pointerIdle">> /\ ins.mode \notin Longs
        /\ Index = ins.index
    BY <1>1, <1>22, RestIs DEF Longs, Carries, Index, Indexes
  <2>2. ahead' = <<"pointerIdle">> \o Use
    BY <1>14, <2>1
  <2>3. addr' = Named'
    BY <1>8, <1>12, <1>14, <1>15, <1>22, <2>1 DEF ByMode
  <2>4. cycles' + Len(ahead') = Basic'
    BY <1>3, <1>14, <1>17, <2>1
  <2> QED
    BY <1>8, <1>16, <1>18, <1>19, <1>22, <2>1, <2>2, <2>3, <2>4, Arrived
<1>23. CASE ins.mode = "indirectIndexedY"
  <2>1. /\ ins.mode \in Carries /\ rest = <<>> /\ ins.mode \notin Longs /\ Index = ins.index
    BY <1>1, <1>23, RestIs DEF Longs, Carries, Index, Indexes
  <2>2. Tail(ahead) = Use
    BY <1>1, <1>3, <2>1, Nothing
  <2>3. Word(low, v) = Unindexed' /\ addr' = Named'
    BY <1>8, <1>12, <1>14, <1>15, <1>23, <2>1 DEF ByMode
  <2> QED
    BY <1>3, <1>6, <1>8, <1>16, <1>18, <1>19, <2>1, <2>2, <2>3, CarryArrived
<1> QED
  BY <1>1, <1>20, <1>21, <1>22, <1>23 DEF Pointers

\* And its bank.
LEMMA PointerBankStep ==
  ASSUME TypeOK, HasAddress, Unwritten, cycles + Len(ahead) = Basic, Asserts, ToPointerBank,
         Next, ~Fail
  PROVE  Went
<1>1. /\ ins # None /\ Use \in Seq(Work) /\ ins.mode \in Longs /\ ins.mode \notin Carries
      /\ ins.mode \notin Words /\ ins.mode \notin FarWords /\ MODE_SIZE[ins.mode] = 1
  <2>1. ins.mode \in Longs
    BY DEF ToPointerBank
  <2>2. ins.mode \notin Carries /\ ins.mode \notin Words /\ ins.mode \notin FarWords
        /\ MODE_SIZE[ins.mode] = 1
    BY <2>1 DEF Longs, Carries, Words, FarWords, MODE_SIZE
  <2> QED
    BY <2>1, <2>2, Addressed, Uses
<1>2. ahead # <<>> /\ Head(ahead) = "pointerBank" /\ Tail(ahead) = Use
  <2>1. <<"pointerBank">> # <<>> /\ Head(<<"pointerBank">>) = "pointerBank"
        /\ Tail(<<"pointerBank">>) = <<>>
    OBVIOUS
  <2> QED
    BY <1>1, <2>1, Ways, HeadOf, Nothing DEF ToPointerBank
<1>3. PointerBank /\ Goes
  <2>1. Head(ahead) \notin Telling /\ Head(ahead) # "leave"
    BY <1>2 DEF Telling, AtData
  <2> QED
    BY <1>1, <1>2, <2>1, Acts, Underway
<1>4. /\ point = Aim /\ Behind(2) /\ IsFound(Own(1)) /\ IsFound(Aim) /\ IsFound(Beyond)
      /\ base = Pointed(Aim, FALSE)
  BY DEF ToPointerBank
<1>5. PICK v \in Byte : /\ Reads("pointerBank", {"d"}, Plus(Aim, 2), v)
                        /\ addr' = Long(v, base) + Index
  BY <1>3, <1>4 DEF PointerBank
<1>6. ahead' = Use /\ pc' = pc /\ pb' = pb /\ s' = s /\ point' = point /\ base' = base
  BY <1>2, <1>3 DEF PointerBank, Then
<1>7. ins' = ins /\ reach' = reach /\ TypeOK' /\ cycles' = cycles + 1 /\ Remembers
  BY <1>3 DEF Goes
<1>8. Cell(Plus(Aim, 2)) \in DOMAIN first' /\ first'[Cell(Plus(Aim, 2))] = v
  BY <1>5, ReadsKeep
<1>9. IsFound(Own(1))' /\ Aim' = Aim /\ Beyond' = Beyond
  BY <1>4, <1>6, <1>7, AimKept
<1>10. /\ Cell(Aim) \in DOMAIN first' /\ first'[Cell(Aim)] = first[Cell(Aim)]
       /\ Cell(Beyond) \in DOMAIN first' /\ first'[Cell(Beyond)] = first[Cell(Beyond)]
  BY <1>4, <1>7, FoundKept
<1>11. /\ IsFound(Aim)' /\ IsFound(Beyond)' /\ Pointee' = Pointee /\ IsFound(Plus(Aim, 2))'
       /\ first'[Cell(Plus(Aim, 2))'] = v
  BY <1>7, <1>8, <1>9, <1>10 DEF IsFound, Cell, Pointee
<1>12. AllFound'
  BY <1>1, <1>7, <1>9, <1>11 DEF AllFound
<1>13. ByMode /\ ByMode'
  <2>1. HasAddress'
    BY <1>7, Addressed
  <2>2. ByMode'
    BY <1>7, <2>1, NamedIs, PTL
  <2> QED
    BY <2>2, NamedIs
<1>14. addr' = Named'
  <2>1. base = Pointee
    BY <1>1, <1>4, <1>13 DEF ByMode
  <2>2. Index' = Index
    BY <1>7 DEF Index
  <2>3. Named' = Long(v, Pointee) + Index
    BY <1>1, <1>7, <1>11, <1>13, <2>2 DEF ByMode
  <2> QED
    BY <1>5, <2>1, <2>3
<1>15. Behind(1 + MODE_SIZE[ins.mode])'
  <2>1. 1 + MODE_SIZE[ins.mode] = 2 /\ 1 + MODE_SIZE[ins'.mode] = 2
    BY <1>1, <1>7
  <2> QED
    BY <1>4, <1>6, <1>7, <2>1 DEF Behind
<1>16. cycles' + Len(ahead') = Basic'
  BY <1>2, <1>6, <1>7, Sum, Addressed
<1>17. Calm' => Asserts' /\ BusTells'
  BY <1>3 DEF Goes
<1> QED
  BY <1>1, <1>6, <1>7, <1>12, <1>14, <1>15, <1>16, <1>17, Arrived

\* What the modes read their word with.
LEMMA WordsAre ==
  ASSUME NEW m \in Words
  PROVE  /\ effective[m] \in Seq(Work) /\ effective[m] # <<>> /\ Head(effective[m]) = "low"
         /\ Tail(effective[m]) \in Seq(Work) /\ Tail(effective[m]) # <<>>
         /\ Head(Tail(effective[m])) = "high"
         /\ Tail(Tail(effective[m])) = IF m \in FarWords THEN <<"bank">> ELSE <<>>
         /\ MODE_SIZE[m] = IF m \in FarWords THEN 3 ELSE 2
         /\ m \notin DOMAIN Rest /\ m \notin Pointers /\ m \notin Longs
         /\ m \in FarWords => m \notin Carries
<1>1. CASE m \in FarWords
  <2>1. /\ effective[m] = <<"low", "high", "bank">> /\ MODE_SIZE[m] = 3
        /\ m \notin DOMAIN Rest /\ m \notin Pointers /\ m \notin Longs /\ m \notin Carries
    BY <1>1 DEF FarWords, effective, MODE_SIZE, Rest, Pointers, Longs, Carries
  <2>2. /\ Head(<<"low", "high", "bank">>) = "low" /\ <<"low", "high", "bank">> # <<>>
        /\ Tail(<<"low", "high", "bank">>) = <<"high", "bank">>
        /\ Head(<<"high", "bank">>) = "high" /\ <<"high", "bank">> # <<>>
        /\ Tail(<<"high", "bank">>) = <<"bank">>
    OBVIOUS
  <2> QED
    BY <1>1, <2>1, <2>2, Ways
<1>2. CASE m \in {"absolute", "absoluteX"}
  <2>1. /\ effective[m] = <<"low", "high">> /\ MODE_SIZE[m] = 2
        /\ m \notin DOMAIN Rest /\ m \notin Pointers /\ m \notin Longs /\ m \notin FarWords
    BY <1>2 DEF FarWords, effective, MODE_SIZE, Rest, Pointers, Longs
  <2>2. /\ Head(<<"low", "high">>) = "low" /\ <<"low", "high">> # <<>>
        /\ Tail(<<"low", "high">>) = <<"high">>
        /\ Head(<<"high">>) = "high" /\ <<"high">> # <<>> /\ Tail(<<"high">>) = <<>>
    OBVIOUS
  <2> QED
    BY <1>2, <2>1, <2>2, Ways
<1> QED
  BY <1>1, <1>2 DEF Words

\* The operand's low byte is fetched.
LEMMA LowStep ==
  ASSUME TypeOK, HasAddress, Unwritten, cycles + Len(ahead) = Basic, Asserts, ToLow,
         Next, ~Fail
  PROVE  Went
<1> DEFINE left == Tail(effective[ins.mode]) \o Use
<1>1. ins # None /\ ins.mode \in Words /\ Use \in Seq(Work)
  BY Addressed, Uses DEF ToLow
<1>2. /\ effective[ins.mode] \in Seq(Work) /\ effective[ins.mode] # <<>>
      /\ Head(effective[ins.mode]) = "low"
      /\ Tail(effective[ins.mode]) \in Seq(Work) /\ Tail(effective[ins.mode]) # <<>>
      /\ Head(Tail(effective[ins.mode])) = "high"
  BY <1>1, WordsAre
<1>3. ahead # <<>> /\ Head(ahead) = "low" /\ Tail(ahead) = left
  BY <1>1, <1>2, HeadOf DEF ToLow
<1>4. left # <<>> /\ Head(left) = "high"
  BY <1>1, <1>2, HeadOf
<1> HIDE DEF left
<1>5. FetchLow /\ Goes
  <2>1. Head(ahead) \notin Telling /\ Head(ahead) # "leave"
    BY <1>3 DEF Telling, AtData
  <2> QED
    BY <1>1, <1>3, <2>1, Acts, Underway
<1>6. Behind(1) /\ Long(pb, pc) = Own(1)
  BY PcNext DEF ToLow
<1>7. PICK v \in Byte : Reads("low", {"p"}, Own(1), v) /\ low' = v
  BY <1>5, <1>6 DEF FetchLow
<1>8. ahead' = left /\ pc' = Plus(pc, 1) /\ pb' = pb
  BY <1>3, <1>5 DEF FetchLow, Then
<1>9. ins' = ins /\ reach' = reach /\ TypeOK' /\ cycles' = cycles + 1
  BY <1>5 DEF Goes
<1>10. Unwritten' /\ Cell(Own(1)) \in DOMAIN first' /\ first'[Cell(Own(1))] = v
  BY <1>7, ReadsKeep
<1>11. IsFound(Own(1))' /\ low' = Found(1)'
  BY <1>7, <1>9, <1>10 DEF IsFound, Found, Cell, Own
<1>12. Behind(2)'
  <2>1. Behind(1 + 1)'
    BY <1>6, <1>8, <1>9, BehindNext
  <2> QED
    BY <2>1 DEF Behind
<1>13. HasAddress' /\ Use' = Use /\ cycles' + Len(ahead') = Basic'
  BY <1>3, <1>8, <1>9, Sum, Addressed
<1>14. ToHigh'
  <2>1. ahead' = Tail(effective[ins'.mode]) \o Use'
    BY <1>8, <1>9, <1>13 DEF left
  <2> QED
    BY <1>1, <1>9, <1>11, <1>12, <2>1 DEF ToHigh
<1>15. Forming' /\ Calm'
  BY <1>4, <1>8, <1>10, <1>13, <1>14 DEF Forming, Calm, Holding
<1> QED
  BY <1>5, <1>15 DEF Went, Goes

\* Its high byte is.
LEMMA HighStep ==
  ASSUME TypeOK, HasAddress, Unwritten, cycles + Len(ahead) = Basic, Asserts, ToHigh,
         Next, ~Fail
  PROVE  Went
<1> DEFINE rest == Tail(Tail(effective[ins.mode]))
<1>1. /\ ins # None /\ ins.mode \in Words /\ Use \in Seq(Work) /\ ins.kind # "brl"
  BY Addressed, Uses DEF ToHigh
<1>2. /\ Tail(effective[ins.mode]) \in Seq(Work) /\ Tail(effective[ins.mode]) # <<>>
      /\ Head(Tail(effective[ins.mode])) = "high"
      /\ rest = IF ins.mode \in FarWords THEN <<"bank">> ELSE <<>>
      /\ MODE_SIZE[ins.mode] = IF ins.mode \in FarWords THEN 3 ELSE 2
      /\ ins.mode \notin Pointers /\ ins.mode \notin Longs
      /\ ins.mode \in FarWords => ins.mode \notin Carries
  BY <1>1, WordsAre
<1>3. ahead # <<>> /\ Head(ahead) = "high" /\ Tail(ahead) = rest \o Use
  BY <1>1, <1>2, HeadOf DEF ToHigh
<1> HIDE DEF rest
<1>4. FetchHigh /\ Goes
  <2>1. Head(ahead) \notin Telling /\ Head(ahead) # "leave"
    BY <1>3 DEF Telling, AtData
  <2> QED
    BY <1>1, <1>3, <2>1, Acts, Underway
<1>5. Behind(2) /\ Long(pb, pc) = Own(2) /\ IsFound(Own(1)) /\ low = Found(1)
  BY PcNext DEF ToHigh
<1>6. PICK v \in Byte : Reads("high", {"p"}, Own(2), v) /\ Formed(Word(low, v))
  BY <1>1, <1>4, <1>5 DEF FetchHigh
<1>7. pc' = Plus(pc, 1) /\ pb' = pb
  BY <1>4 DEF FetchHigh
<1>8. ins' = ins /\ reach' = reach /\ TypeOK' /\ cycles' = cycles + 1 /\ Remembers
  BY <1>4 DEF Goes
<1>9. Unwritten' /\ Cell(Own(2)) \in DOMAIN first' /\ first'[Cell(Own(2))] = v
  BY <1>6, ReadsKeep
<1>10. IsFound(Own(1))' /\ Found(1)' = low
  BY <1>5, <1>8, OwnKept
<1>11. IsFound(Own(2))' /\ Found(2)' = v
  BY <1>8, <1>9 DEF IsFound, Found, Cell, Own
<1>12. FoundWord' = Word(low, v)
  BY <1>10, <1>11 DEF FoundWord
<1>13. Word(low, v) \in Wide
  BY Numbers, WordOfBytes
<1>14. /\ base' = Word(low, v) /\ addr' = Long(ins.db, Word(low, v)) + Index
       /\ ins.mode \notin Carries => ahead' = rest \o Use
  BY <1>3, <1>6, <1>13, FormedTypes DEF Formed
<1>15. Behind(3)'
  <2>1. Behind(2 + 1)'
    BY <1>5, <1>7, <1>8, BehindNext
  <2> QED
    BY <2>1 DEF Behind
<1>16. ByMode'
  <2>1. HasAddress'
    BY <1>8, Addressed
  <2> QED
    BY <1>8, <2>1, NamedIs, PTL
<1>17. ahead' = Tail(ahead) => cycles' + Len(ahead') = Basic'
  BY <1>3, <1>8, Sum, Addressed
<1>18. Calm' => Asserts' /\ BusTells'
  BY <1>4 DEF Goes
<1>19. HasAddress' /\ Use' = Use
  BY <1>8, Addressed
<1>20. CASE ins.mode \in FarWords
  <2>1. ahead' = <<"bank">> \o Use
    BY <1>2, <1>14, <1>20
  <2>2. ToBank'
    BY <1>8, <1>10, <1>11, <1>12, <1>14, <1>15, <1>19, <1>20, <2>1 DEF ToBank
  <2>3. Forming'
    BY <1>2, <1>3, <1>9, <1>14, <1>17, <1>19, <1>20, <2>2 DEF Forming
  <2>4. Calm'
    <3>1. Head(<<"bank">>) = "bank" /\ <<"bank">> # <<>>
      OBVIOUS
    <3>2. Head(ahead') = "bank"
      BY <1>1, <2>1, <3>1, Ways, HeadOf
    <3> QED
      BY <3>2 DEF Calm, Holding
  <2> QED
    BY <1>18, <2>3, <2>4 DEF Went
<1>21. CASE ins.mode \notin FarWords
  <2>1. ins.mode \in {"absolute", "absoluteX"} /\ rest = <<>>
    BY <1>1, <1>2, <1>21 DEF Words
  <2>2. AllFound'
    BY <1>2, <1>8, <1>10, <1>11, <1>21 DEF AllFound
  <2>3. Behind(1 + MODE_SIZE[ins.mode])'
    <3>1. 1 + MODE_SIZE[ins.mode] = 3 /\ 1 + MODE_SIZE[ins'.mode] = 3
      BY <1>2, <1>8, <1>21
    <3> QED
      BY <1>15, <3>1 DEF Behind
  <2>4. CASE ins.mode = "absolute"
    <3>1. Index = 0 /\ ins.mode \notin Carries
      BY <2>4 DEF Index, Indexes, Carries
    <3>2. ahead' = Use
      BY <1>1, <1>14, <2>1, <3>1, Nothing
    <3>3. addr' = Named'
      <4>1. Long(ins.db, Word(low, v)) \in Int
        BY <1>13, Numbers, LongPlace, Sizes
      <4>2. addr' = Long(ins.db, Word(low, v))
        BY <1>14, <3>1, <4>1
      <4> QED
        BY <1>8, <1>12, <1>16, <2>4, <4>2 DEF ByMode
    <3>4. cycles' + Len(ahead') = Basic'
      BY <1>3, <1>14, <1>17, <3>1
    <3> QED
      BY <1>8, <1>18, <2>2, <2>3, <3>1, <3>2, <3>3, <3>4, Arrived
  <2>5. CASE ins.mode = "absoluteX"
    <3>1. Index = ins.index /\ ins.mode \in Carries
      BY <2>5 DEF Index, Indexes, Carries
    <3>2. Tail(ahead) = Use
      BY <1>1, <1>3, <2>1, Nothing
    <3>3. Word(low, v) = Unindexed' /\ addr' = Named'
      BY <1>8, <1>12, <1>14, <1>16, <2>5, <3>1 DEF ByMode
    <3> QED
      BY <1>3, <1>6, <1>8, <1>18, <2>2, <2>3, <3>1, <3>2, <3>3, CarryArrived
  <2> QED
    BY <2>1, <2>4, <2>5
<1> QED
  BY <1>20, <1>21

\* Its bank is.
LEMMA BankStep ==
  ASSUME TypeOK, HasAddress, Unwritten, cycles + Len(ahead) = Basic, Asserts, ToBank,
         Next, ~Fail
  PROVE  Went
<1>1. /\ ins # None /\ ins.mode \in FarWords /\ ins.mode \in Words
      /\ Use \in Seq(Work) /\ Use # <<>>
  BY Addressed, Uses DEF ToBank, Words
<1>2. /\ MODE_SIZE[ins.mode] = 3 /\ ins.mode \notin Carries
      /\ ins.mode \notin Pointers /\ ins.mode \notin Longs
  BY <1>1, WordsAre
<1>3. ahead # <<>> /\ Head(ahead) = "bank" /\ Tail(ahead) = Use /\ Len(ahead) # 1
  <2>1. <<"bank">> # <<>> /\ Head(<<"bank">>) = "bank" /\ Tail(<<"bank">>) = <<>>
    OBVIOUS
  <2>2. ahead # <<>> /\ Head(ahead) = "bank" /\ Tail(ahead) = Use
    BY <1>1, <2>1, Ways, HeadOf, Nothing DEF ToBank
  <2>3. ahead \in Seq(Work)
    BY Numbers
  <2> QED
    BY <1>1, <2>2, <2>3
<1>4. FetchBank /\ Goes
  <2>1. Head(ahead) \notin Telling /\ Head(ahead) # "leave"
    BY <1>3 DEF Telling, AtData
  <2> QED
    BY <1>1, <1>3, <2>1, Acts, Underway
<1>5. /\ Behind(3) /\ Long(pb, pc) = Own(3) /\ IsFound(Own(1)) /\ IsFound(Own(2))
      /\ base = FoundWord
  BY PcNext DEF ToBank
<1>6. PICK v \in Byte : Reads("bank", {"p"}, Own(3), v) /\ addr' = Long(v, base) + Index
  BY <1>4, <1>5 DEF FetchBank
<1>7. ahead' = Use /\ pc' = Plus(pc, 1) /\ pb' = pb
  <2>1. pb' \in {pb} /\ pc' \in {Plus(pc, 1)}
    BY <1>3, <1>4 DEF FetchBank, Last
  <2> QED
    BY <1>3, <1>4, <2>1 DEF FetchBank, Then
<1>8. ins' = ins /\ reach' = reach /\ TypeOK' /\ cycles' = cycles + 1 /\ Remembers
  BY <1>4 DEF Goes
<1>9. Cell(Own(3)) \in DOMAIN first' /\ first'[Cell(Own(3))] = v
  BY <1>6, ReadsKeep
<1>10. /\ IsFound(Own(1))' /\ Found(1)' = Found(1)
       /\ IsFound(Own(2))' /\ Found(2)' = Found(2)
  BY <1>5, <1>8, OwnKept
<1>11. IsFound(Own(3))' /\ Found(3)' = v
  BY <1>8, <1>9 DEF IsFound, Found, Cell, Own
<1>12. AllFound' /\ FoundWord' = base
  BY <1>2, <1>5, <1>8, <1>10, <1>11 DEF AllFound, FoundWord
<1>13. ByMode'
  <2>1. HasAddress'
    BY <1>8, Addressed
  <2> QED
    BY <1>8, <2>1, NamedIs, PTL
<1>14. addr' = Named'
  <2>1. CASE ins.mode = "absoluteLong"
    <3>1. Index = 0
      BY <2>1 DEF Index, Indexes, Carries
    <3>2. Long(v, base) \in Int
      BY Numbers, LongPlace, Sizes
    <3>3. addr' = Long(v, base)
      BY <1>6, <3>1, <3>2
    <3> QED
      BY <1>8, <1>11, <1>12, <1>13, <2>1, <3>3 DEF ByMode
  <2>2. CASE ins.mode = "absoluteLongX"
    <3>1. Index = ins.index
      BY <2>2 DEF Index, Indexes
    <3> QED
      BY <1>6, <1>8, <1>11, <1>12, <1>13, <2>2, <3>1 DEF ByMode
  <2> QED
    BY <1>1, <2>1, <2>2 DEF FarWords
<1>15. Behind(1 + MODE_SIZE[ins.mode])'
  <2>1. Behind(3 + 1)'
    BY <1>5, <1>7, <1>8, BehindNext
  <2>2. 1 + MODE_SIZE[ins.mode] = 3 + 1 /\ 1 + MODE_SIZE[ins'.mode] = 3 + 1
    BY <1>2, <1>8
  <2> QED
    BY <2>1, <2>2 DEF Behind
<1>16. cycles' + Len(ahead') = Basic'
  BY <1>3, <1>7, <1>8, Sum, Addressed
<1>17. Calm' => Asserts' /\ BusTells'
  BY <1>4 DEF Goes
<1> QED
  BY <1>2, <1>7, <1>8, <1>12, <1>14, <1>15, <1>16, <1>17, Arrived

\* An instruction on its way stays on it, or arrives.
LEMMA FormingStep ==
  ASSUME TypeOK, Forming, Asserts, Next, ~Fail
  PROVE  Went
<1>1. HasAddress /\ Unwritten /\ cycles + Len(ahead) = Basic
  BY DEF Forming
<1>2. CASE ToPlace
  <2>1. PICK w \in Waits : /\ ins.mode \in Direct => w # <<>>
                           /\ ahead = w \o (Rest[ins.mode] \o Use)
    BY <1>2 DEF ToPlace
  <2>2. /\ ins.mode \in DOMAIN Rest /\ Behind(2) /\ IsFound(Own(1))
        /\ point = Aim /\ addr = Aim
    BY <1>2 DEF ToPlace
  <2>3. CASE w # <<>>
    BY <1>1, <2>1, <2>2, <2>3, PlaceStep
  <2>4. CASE w = <<>>
    <3>1. Rest[ins.mode] \o Use \in Seq(Work)
      BY <1>1, <2>2, Uses, RestIs, ConcatProperties
    <3>2. ahead = Rest[ins.mode] \o Use
      BY <2>1, <2>4, <3>1, Nothing
    <3> QED
      BY <1>1, <2>1, <2>2, <2>4, <3>2, PointerStep
  <2> QED
    BY <2>3, <2>4
<1> QED
  BY <1>1, <1>2, OffsetStep, PointerHighStep, PointerBankStep, LowStep, HighStep, BankStep
     DEF Forming

-----------------------------------------------------------------------------
(* At the address.                                                         *)

\* What an instruction names depends on nothing that is changed there.
LEMMA NamedKept ==
  ASSUME ins' = ins, reach' = reach, first' = first, s' = s
  PROVE  /\ Named' = Named /\ Unindexed' = Unindexed /\ Indexing' = Indexing
         /\ AllFound => AllFound'
<1>1. ASSUME NEW n PROVE Found(n)' = Found(n) /\ IsFound(Own(n))' = IsFound(Own(n))
  BY DEF Found, IsFound, Cell, Own, InBank
<1>2. ASSUME NEW n PROVE OfDirectPage(n)' = OfDirectPage(n)
  BY DEF OfDirectPage, page_wraps
<1>3. FoundWord' = FoundWord /\ page_wraps' = page_wraps /\ pointer_wraps' = pointer_wraps
  BY <1>1 DEF FoundWord, page_wraps, pointer_wraps
<1>4. ASSUME NEW a, NEW w PROVE Pointed(a, w)' = Pointed(a, w)
  BY DEF Pointed, Byte3, Cell
<1>5. Unindexed' = Unindexed
  BY <1>1, <1>2, <1>3, <1>4 DEF Unindexed
<1>6. Indexing' = Indexing
  BY <1>5 DEF Indexing
<1>7. Named' = Named
  BY SMTT(30) DEF Named, Unindexed, Found, FoundWord, Pointed, Byte3, OfDirectPage, page_wraps, Own,
         InBank, Cell
<1>8. Aim' = Aim
  BY <1>1, <1>2 DEF Aim
<1>9. Beyond' = Beyond
  BY <1>3, <1>8 DEF Beyond
<1>10. ASSUME NEW a PROVE IsFound(a)' = IsFound(a)
  BY DEF IsFound, Cell
<1>11. AllFound => AllFound'
  BY <1>1, <1>8, <1>9, <1>10 DEF AllFound
<1> QED
  BY <1>5, <1>6, <1>7, <1>11

\* What is next at the address, and what it leaves.
LEMMA Parts ==
  ASSUME TypeOK, HasAddress, ahead = Use \/ Partway, ahead # <<>>
  PROVE  /\ Head(ahead) \in AtData \cup {"settle"}
         /\ Last <=> Tail(ahead) = <<>>
         /\ ins.kind = "read"
              => Head(ahead) \in {"look", "lookHigh"} /\ Tail(ahead) \in {<<>>, <<"lookHigh">>}
         /\ ins.kind = "write"
              => /\ Head(ahead) \in {"write", "writeHigh"} /\ Tail(ahead) \in {<<>>, <<"writeHigh">>}
                 /\ Head(ahead) = "write" /\ ins.wide => Tail(ahead) # <<>>
         /\ ins.kind = "modify"
              => /\ Head(ahead) \in Holding \cup {"held"}
                 /\ Tail(ahead) \in {<<>>, <<"heldHigh", "settle", "writeHigh", "write">>,
                                     <<"settle", "writeHigh", "write">>, <<"writeHigh", "write">>,
                                     <<"settle", "write">>, <<"write">>}
                 /\ Head(ahead) = "write" => Tail(ahead) = <<>>
                 /\ Tail(ahead) # <<>> => Head(Tail(ahead)) \in Holding
                 /\ Tail(ahead) = <<>> => Head(ahead) = "write"
         /\ Tail(ahead) # <<>> => Head(Tail(ahead)) # "vectorHigh"
<1>1. ins.kind \in {"read", "write", "modify"}
  BY Uses
<1>2. CASE ins.kind = "read"
  <2>1. ahead \in {<<"look">>, <<"look", "lookHigh">>, <<"lookHigh">>}
    BY <1>2, Uses DEF Partway
  <2>2. CASE ahead = <<"look">>
    <3>1. Len(ahead) = 1 /\ Head(ahead) = "look" /\ Tail(ahead) = <<>>
      BY <2>2
    <3> QED
      BY <1>2, <3>1 DEF Last, AtData
  <2>3. CASE ahead = <<"look", "lookHigh">>
    <3>1. Len(ahead) = 2 /\ Head(ahead) = "look" /\ Tail(ahead) = <<"lookHigh">>
          /\ <<"lookHigh">> # <<>> /\ Head(Tail(ahead)) = "lookHigh"
      BY <2>3
    <3> QED
      BY <1>2, <3>1 DEF Last, AtData
  <2>4. CASE ahead = <<"lookHigh">>
    <3>1. Len(ahead) = 1 /\ Head(ahead) = "lookHigh" /\ Tail(ahead) = <<>>
      BY <2>4
    <3> QED
      BY <1>2, <3>1 DEF Last, AtData
  <2> QED
    BY <2>1, <2>2, <2>3, <2>4
<1>3. CASE ins.kind = "write"
  <2>1. /\ ahead \in {<<"write">>, <<"write", "writeHigh">>, <<"writeHigh">>}
        /\ ins.wide => ahead # <<"write">>
    <3>1. <<"write">> # <<"write", "writeHigh">> /\ <<"write">> # <<"writeHigh">>
      OBVIOUS
    <3> QED
      BY <1>3, <3>1, Uses DEF Partway
  <2>2. CASE ahead = <<"write">>
    <3>1. Len(ahead) = 1 /\ Head(ahead) = "write" /\ Tail(ahead) = <<>>
      BY <2>2
    <3> QED
      BY <1>3, <2>1, <2>2, <3>1 DEF Last, AtData
  <2>3. CASE ahead = <<"write", "writeHigh">>
    <3>1. Len(ahead) = 2 /\ Head(ahead) = "write" /\ Tail(ahead) = <<"writeHigh">>
          /\ <<"writeHigh">> # <<>> /\ Head(Tail(ahead)) = "writeHigh"
      BY <2>3
    <3> QED
      BY <1>3, <3>1 DEF Last, AtData
  <2>4. CASE ahead = <<"writeHigh">>
    <3>1. Len(ahead) = 1 /\ Head(ahead) = "writeHigh" /\ Tail(ahead) = <<>>
      BY <2>4
    <3> QED
      BY <1>3, <3>1 DEF Last, AtData
  <2> QED
    BY <2>1, <2>2, <2>3, <2>4
<1>4. CASE ins.kind = "modify"
  <2>1. ahead \in {<<"held", "settle", "write">>,
                   <<"held", "heldHigh", "settle", "writeHigh", "write">>,
                   <<"heldHigh", "settle", "writeHigh", "write">>,
                   <<"settle", "writeHigh", "write">>, <<"writeHigh", "write">>,
                   <<"settle", "write">>, <<"write">>}
    BY <1>4, Uses DEF Partway
  <2> DEFINE Piece(left, head, tail) ==
               left # <<>> /\ Head(left) = head /\ Tail(left) = tail
  <2>2. /\ Piece(<<"held", "settle", "write">>, "held", <<"settle", "write">>)
        /\ Piece(<<"held", "heldHigh", "settle", "writeHigh", "write">>, "held",
                 <<"heldHigh", "settle", "writeHigh", "write">>)
        /\ Piece(<<"heldHigh", "settle", "writeHigh", "write">>, "heldHigh",
                 <<"settle", "writeHigh", "write">>)
        /\ Piece(<<"settle", "writeHigh", "write">>, "settle", <<"writeHigh", "write">>)
        /\ Piece(<<"writeHigh", "write">>, "writeHigh", <<"write">>)
        /\ Piece(<<"settle", "write">>, "settle", <<"write">>)
        /\ Piece(<<"write">>, "write", <<>>)
    OBVIOUS
  <2>3. /\ Head(<<"settle", "write">>) = "settle" /\ <<"settle", "write">> # <<>>
        /\ Head(<<"heldHigh", "settle", "writeHigh", "write">>) = "heldHigh"
        /\ <<"heldHigh", "settle", "writeHigh", "write">> # <<>>
        /\ Head(<<"settle", "writeHigh", "write">>) = "settle"
        /\ <<"settle", "writeHigh", "write">> # <<>>
        /\ Head(<<"writeHigh", "write">>) = "writeHigh" /\ <<"writeHigh", "write">> # <<>>
        /\ Head(<<"write">>) = "write" /\ <<"write">> # <<>>
        /\ Len(<<"held", "settle", "write">>) = 3
        /\ Len(<<"held", "heldHigh", "settle", "writeHigh", "write">>) = 5
        /\ Len(<<"heldHigh", "settle", "writeHigh", "write">>) = 4
        /\ Len(<<"settle", "writeHigh", "write">>) = 3 /\ Len(<<"writeHigh", "write">>) = 2
        /\ Len(<<"settle", "write">>) = 2 /\ Len(<<"write">>) = 1
    OBVIOUS
  <2>4. /\ Head(ahead) \in Holding \cup {"held"}
        /\ Tail(ahead) \in {<<>>, <<"heldHigh", "settle", "writeHigh", "write">>,
                            <<"settle", "writeHigh", "write">>, <<"writeHigh", "write">>,
                            <<"settle", "write">>, <<"write">>}
    BY <2>1, <2>2, Zenon DEF Holding
  <2>5. /\ Head(ahead) = "write" => Tail(ahead) = <<>>
        /\ Tail(ahead) = <<>> => Head(ahead) = "write"
        /\ Last <=> Tail(ahead) = <<>>
    <3>1. Last <=> Tail(ahead) = <<>>
      <4> DEFINE r == Tail(ahead)
      <4>1. ahead \in Seq(Work) /\ Len(ahead) \in Nat
        BY Numbers
      <4>2. r \in Seq(Work) /\ Len(r) = Len(ahead) - 1
        BY <4>1, HeadTailProperties
      <4> HIDE DEF r
      <4>3. r = <<>> <=> Len(r) = 0
        BY <4>2, EmptySeq
      <4> QED
        BY <4>1, <4>2, <4>3 DEF Last, r
    <3>2. (Head(ahead) = "write" /\ Tail(ahead) = <<>>)
          \/ (Head(ahead) # "write" /\ Tail(ahead) # <<>>)
      BY <2>1, <2>2, <2>3, ZenonT(30)
    <3> QED
      BY <3>1, <3>2
  <2> HIDE DEF Piece
  <2>6. Tail(ahead) # <<>> => Head(Tail(ahead)) \in Holding
    BY <2>3, <2>4 DEF Holding
  <2>7. Head(ahead) \in AtData \cup {"settle"}
    BY <2>4 DEF Holding, AtData
  <2> QED
    BY <1>4, <2>4, <2>5, <2>6, <2>7 DEF Holding
<1> QED
  BY <1>1, <1>2, <1>3, <1>4

\* A cycle at the address leaves it reached.
LEMMA StillReached ==
  ASSUME TypeOK, Reached, ahead # <<>>, ins' = ins, reach' = reach, cycles' = cycles + 1,
         first' = first, s' = s, pc' = pc, pb' = pb, base' = base, addr' = addr,
         ahead' = Tail(ahead), ahead' = Use \/ Partway'
  PROVE  Reached'
<1>1. HasAddress /\ HasAddress' /\ Use' = Use /\ Basic' = Basic
  BY Addressed DEF Reached
<1>2. AllFound' /\ Named' = Named /\ Unindexed' = Unindexed /\ Indexing' = Indexing
  BY NamedKept DEF Reached
<1>3. addr' = Named' /\ (ins'.mode \in Carries => base' = Unindexed')
  BY <1>2 DEF Reached
<1>4. Behind(1 + MODE_SIZE[ins.mode])'
  BY DEF Behind, Reached
<1>5. cycles' + Len(ahead') = Basic' + One(Indexing)'
  <2>1. cycles + Len(ahead) = Basic + One(Indexing)
    BY DEF Reached
  <2>2. cycles' + Len(ahead') = cycles + Len(ahead)
    BY Sum
  <2> QED
    BY <1>1, <1>2, <2>1, <2>2 DEF One
<1> QED
  BY <1>1, <1>2, <1>3, <1>4, <1>5 DEF Reached

\* The cycles spent there before the operand's.
LEMMA SpentStep ==
  ASSUME TypeOK, Reached, Asserts, Next, ~Fail, NEW it \in {"carry", "pointerIdle"},
         ahead = <<it>> \o Use
  PROVE  TypeOK' /\ Reached' /\ Asserts' /\ BusTells'
<1>1. /\ HasAddress /\ ins # None /\ Use \in Seq(Work) /\ Use # <<>>
      /\ Head(Use) \in {"look", "held", "write"} /\ (ins.kind = "modify" => Head(Use) = "held")
  BY Addressed, Uses DEF Reached
<1>2. ahead # <<>> /\ Head(ahead) = it /\ Tail(ahead) = Use
  <2>1. <<it>> # <<>> /\ Head(<<it>>) = it /\ Tail(<<it>>) = <<>> /\ <<it>> \in Seq(Work)
    BY Ways
  <2> QED
    BY <1>1, <2>1, HeadOf, Nothing
<1>3. Idle /\ Goes
  <2>1. Head(ahead) \notin Telling /\ Head(ahead) # "leave"
    BY <1>2 DEF Telling, AtData
  <2> QED
    BY <1>1, <1>2, <2>1, Acts, Underway
<1>4. ins' = ins /\ reach' = reach /\ TypeOK' /\ cycles' = cycles + 1
  BY <1>3 DEF Goes
<1>5. first' = first
  BY <1>3, InternalKeeps DEF Idle
<1>6. /\ s' = s /\ pc' = pc /\ pb' = pb /\ base' = base /\ addr' = addr
      /\ ahead' = Tail(ahead)
  BY <1>3 DEF Idle, Then, forming
<1>7. Reached'
  BY <1>2, <1>4, <1>5, <1>6, StillReached
<1>8. Calm'
  BY <1>1, <1>2, <1>4, <1>6 DEF Calm, Holding
<1> QED
  BY <1>3, <1>4, <1>7, <1>8 DEF Goes

\* What a cycle of the operand's shows, and holds.
LEMMA OperandStep ==
  ASSUME TypeOK, Reached, Asserts, Next, ~Fail, ahead = Use \/ Partway, ahead # <<>>
  PROVE  TypeOK' /\ Reached' /\ Asserts' /\ BusTells'
<1>1. HasAddress /\ ins # None /\ ins.kind \in {"read", "write", "modify"} /\ Addressing
  BY Addressed, Uses DEF Reached
<1>2. Operand \/ Settle
  BY <1>1, Parts, Acts DEF AtData
<1>3. Worked
  <2>1. Working /\ ~Leave
    BY <1>2 DEF Working, Leave, Operand, Settle, Doing, DataAt
  <2> QED
    BY <2>1, StepWorks
<1>4. ins' = ins /\ reach' = reach /\ TypeOK' /\ cycles' = cycles + 1
  BY <1>3 DEF Worked, OneCycle
<1>5. first' = first
  <2>1. CASE Settle
    BY <2>1, InternalKeeps DEF Settle
  <2>2. CASE Operand
    BY <2>2 DEF Operand, Looks, Internal, Writes, memory
  <2> QED
    BY <1>2, <2>1, <2>2
<1>6. /\ s' = s /\ pc' = pc /\ pb' = pb /\ base' = base /\ addr' = addr
      /\ ahead' = Tail(ahead)
  BY <1>2 DEF Operand, Settle, Then, forming
<1>7. Reached'
  <2>1. Partway'
    BY <1>1, <1>4, <1>6, Parts DEF Partway
  <2> QED
    BY <1>4, <1>5, <1>6, <2>1, StillReached
<1>8. asserted' = IF ins.kind = "modify" /\ Tail(ahead) # <<>> THEN {"l"} ELSE {}
  <2>1. CASE Operand
    BY <1>1, <2>1, Parts DEF Operand
  <2>2. CASE Settle
    <3>1. Head(ahead) = "settle" /\ asserted' = asserted
      BY <2>2 DEF Settle, Doing, Free
    <3>2. ins.kind = "modify" /\ Tail(ahead) # <<>>
      BY <1>1, <3>1, Parts DEF Holding
    <3> QED
      BY <3>1, <3>2 DEF Asserts, Holding
  <2> QED
    BY <1>2, <2>1, <2>2
<1>9. Asserts'
  BY <1>1, <1>4, <1>6, <1>8, Parts DEF Asserts, Holding
<1>10. asserted = IF ins.kind = "modify" /\ Head(ahead) # "held" THEN {"l"} ELSE {}
  BY <1>1, Parts DEF Asserts, Holding, AtData
<1>11. DOMAIN DataAt' = AtData /\ Addressing'
  BY <1>1, <1>4 DEF DataAt, AtData, Addressing
<1>12. "l" \in asserted \cup asserted' <=> ins.kind = "modify"
  BY <1>1, <1>8, <1>10, Parts DEF Holding
<1>13. Named' = Named /\ addr = Named /\ addr' = Named'
  BY <1>4, <1>5, <1>6, NamedKept DEF Reached
<1>14. Beside(Named)' = next_byte(addr)
  BY <1>4, <1>13 DEF Beside, next_byte, BANK_ZERO_MODES
<1>15. asserted \cup asserted' \subseteq {"l"}
  BY <1>8, <1>10
<1>16. CASE Operand
  <2>1. PICK it \in AtData, pins \in {{"d"}, {"d", "w"}} :
            /\ Doing(it)
            /\ bus' = [does |-> it, pins |-> pins \cup asserted \cup asserted', at |-> Cell(DataAt[it])]
    BY <1>16, DataWork DEF Operand, Looks, Internal, Writes, Cycle
  <2>2. bus'.does = it /\ bus'.pins = pins \cup asserted \cup asserted' /\ Head(ahead) = it
    BY <2>1 DEF Doing
  <2>3. OutputsTell'
    <3>1. "d" \in bus'.pins /\ "v" \notin bus'.pins /\ ("l" \in bus'.pins <=> ins.kind = "modify")
      BY <1>12, <1>15, <2>2
    <3> QED
      BY <1>4, <1>11, <2>2, <3>1 DEF OutputsTell, AtData
  <2>4. bus'.at = Cell(DataAt[it])
    BY <2>1
  <2>5. /\ it \in {"look", "held", "write"} => bus'.at = Cell(Named)'
        /\ it \in {"lookHigh", "heldHigh", "writeHigh"} => bus'.at = Cell(Beside(Named))'
    <3>1. /\ it \in {"look", "held", "write"} => DataAt[it] = addr
          /\ it \in {"lookHigh", "heldHigh", "writeHigh"} => DataAt[it] = next_byte(addr)
      BY DEF DataAt
    <3> QED
      BY <1>4, <1>13, <1>14, <2>4, <3>1 DEF Cell
  <2>6. bus'.does = "write" /\ ins.wide => (Tail(ahead) = <<>>) = (ins.kind = "modify")
    BY <1>1, <2>2, Parts
  <2>7. DataIsNamed'
    BY <1>4, <1>6, <2>2, <2>5, <2>6 DEF DataIsNamed
  <2> QED
    BY <1>4, <1>7, <1>9, <2>3, <2>7 DEF BusTells
<1>17. CASE Settle
  <2>1. /\ bus'.does = "settle"
        /\ bus'.pins = (IF ins.e THEN {"w"} ELSE {}) \cup asserted \cup asserted'
        /\ Head(ahead) = "settle"
    BY <1>17 DEF Settle, Internal, Cycle, Doing
  <2>2. ins.kind = "modify"
    BY <1>1, <2>1, Parts
  <2>3. OutputsTell'
    <3>1. "l" \in bus'.pins /\ "v" \notin bus'.pins /\ ("w" \in bus'.pins => ins.e)
      BY <1>12, <1>15, <2>1, <2>2
    <3> QED
      BY <1>4, <1>11, <2>1, <2>2, <3>1 DEF OutputsTell, AtData
  <2>4. DataIsNamed'
    BY <1>11, <2>1 DEF DataIsNamed, AtData
  <2> QED
    BY <1>4, <1>7, <1>9, <2>3, <2>4 DEF BusTells
<1> QED
  BY <1>2, <1>16, <1>17

\* So an instruction at its address stays there until it is over.
LEMMA ReachedStep ==
  ASSUME TypeOK, Reached, Asserts, Next, ~Fail, ahead # <<>>
  PROVE  TypeOK' /\ Reached' /\ Asserts' /\ BusTells'
  BY SpentStep, OperandStep DEF Reached

-----------------------------------------------------------------------------
(* The other instructions: what each of their cycles leaves.               *)

\* They have no address, no index's cycle, and stay what they are.
LEMMA HandledIs ==
  ASSUME Handled
  PROVE  /\ ins # None /\ ~Addressing /\ ins.kind \notin {"read", "write", "modify"}
         /\ ins.mode \notin Carries
         /\ ins' = ins => Handled'
<1>1. ins.kind \notin {"none", "read", "write", "modify"}
  BY DEF Handled, Handlers
<1>2. ins.mode \notin Carries
  BY DEF Handled, ModeOf, Carries
<1>3. ins' = ins => Handled'
  BY DEF Handled
<1> QED
  BY <1>1, <1>2, <1>3 DEF None, Addressing, Modes

\* The instruction after one of them is at a word.
LEMMA AfterWide ==
  ASSUME TypeOK, Handled
  PROVE  operand_size \in Int /\ After \in Wide /\ After \in Int
<1>1. operand_size \in Int
  <2>1. ins.mode = ModeOf(ins.kind)
    BY DEF Handled
  <2>2. ModeOf(ins.kind) \in DOMAIN MODE_SIZE
    BY DEF ModeOf, MODE_SIZE
  <2>3. \A x \in DOMAIN MODE_SIZE : MODE_SIZE[x] \in Int
    BY DEF MODE_SIZE
  <2> QED
    BY <2>1, <2>2, <2>3 DEF operand_size
<1>2. ins.at % BB \in Int /\ 1 + operand_size \in Int
  <2>1. ins.at \in Int
    BY Numbers
  <2>2. (ins.at % BB) \in Wide /\ (\A w \in Wide : w \in Int)
    BY <2>1, BankByte, Sizes
  <2>3. ins.at % BB \in Int
    BY <2>2, Zenon
  <2>4. 1 + operand_size \in Int
    BY <1>1
  <2> QED
    BY <2>3, <2>4
<1>3. After \in Wide
  BY <1>2, PlusWide DEF After
<1> QED
  BY <1>1, <1>3, Sizes

\* A cycle that fetches and transfers nothing.
LEMMA IdleRun ==
  ASSUME TypeOK, Asserts, Handled, Next, ~Fail, ahead # <<>>,
         Head(ahead) \in {"idle", "here", "baseIdle"}
  PROVE  /\ Goes /\ ahead' = Tail(ahead)
         /\ pc' = pc /\ pb' = pb /\ s' = s /\ low' = low /\ base' = base
         /\ point' = point /\ addr' = addr /\ mem' = mem /\ first' = first
         /\ Unwritten => Unwritten'
<1>1. Idle /\ Goes
  <2>1. Head(ahead) \notin Telling /\ Head(ahead) # "leave"
    BY DEF Telling, AtData
  <2> QED
    BY <2>1, HandledIs, Acts, Underway
<1>2. mem' = mem /\ first' = first /\ (Unwritten => Unwritten')
  BY <1>1, InternalKeeps DEF Idle
<1> QED
  BY <1>1, <1>2 DEF Idle, Then, forming

\* WDM's second byte, and BRK's.
LEMMA StepRun ==
  ASSUME TypeOK, Asserts, Handled, Next, ~Fail, ahead # <<>>,
         Head(ahead) \in {"step", "signature"}
  PROVE  /\ Goes /\ ahead' = Tail(ahead)
         /\ pc' = Plus(pc, 1) /\ pb' = pb /\ s' = s /\ mem' = mem
<1>1. Step /\ Goes
  <2>1. Head(ahead) \notin Telling /\ Head(ahead) # "leave"
    BY DEF Telling, AtData
  <2> QED
    BY <2>1, HandledIs, Acts, Underway
<1>2. mem' = mem
  BY <1>1, InternalKeeps DEF Step
<1> QED
  BY <1>1, <1>2 DEF Step, Then

\* What a byte read is found to be, and known to be.
ReadAt(a, v) ==
    /\ Remembers /\ Agrees
    /\ Cell(a) \in DOMAIN mem' /\ mem'[Cell(a)] = v
    /\ Unwritten => Unwritten' /\ Cell(a) \in DOMAIN first' /\ first'[Cell(a)] = v
    /\ IsKnown(a) => mem[Cell(a)] = v /\ first' = first
    /\ ~IsKnown(a) => DOMAIN first' = (DOMAIN first) \cup {Cell(a)} /\ first'[Cell(a)] = v

LEMMA ReadIs ==
  ASSUME TypeOK, NEW does, NEW pins, NEW a, NEW v \in Byte, Reads(does, pins, a, v)
  PROVE  ReadAt(a, v)
  BY ReadsKeep DEF ReadAt, IsKnown, IsFound

\* The operand's first byte, or low one.
LEMMA LowRun ==
  ASSUME TypeOK, Asserts, Handled, Next, ~Fail, ahead # <<>>, Head(ahead) = "low",
         NEW n \in Int, Behind(n)
  PROVE  /\ Goes /\ ahead' = Tail(ahead) /\ Behind(n + 1)'
         /\ pb' = pb /\ s' = s /\ base' = base /\ point' = point /\ addr' = addr
         /\ low' \in Byte /\ ReadAt(Own(n), low')
<1>1. FetchLow /\ Goes
  <2>1. Head(ahead) \notin Telling /\ Head(ahead) # "leave"
    BY DEF Telling, AtData
  <2> QED
    BY <2>1, HandledIs, Acts, Underway
<1>2. PICK v \in Byte : Reads("low", {"p"}, Own(n), v) /\ low' = v
  BY <1>1, PcNext DEF FetchLow
<1>3. ReadAt(Own(n), v)
  BY <1>2, ReadIs
<1>4. pc' = Plus(pc, 1) /\ pb' = pb
  BY <1>1 DEF FetchLow
<1>5. Behind(n + 1)'
  BY <1>1, <1>4, BehindNext DEF Goes
<1> QED
  BY <1>1, <1>2, <1>3, <1>5 DEF FetchLow, Then

\* Its second byte.
LEMMA HighRun ==
  ASSUME TypeOK, Asserts, Handled, Next, ~Fail, ahead # <<>>, Head(ahead) = "high",
         NEW n \in Int, Behind(n)
  PROVE  /\ Goes /\ ahead' = Tail(ahead) /\ Behind(n + 1)'
         /\ pb' = pb /\ s' = s /\ low' = low
         /\ \E v \in Byte :
               /\ ReadAt(Own(n), v) /\ base' = Word(low, v) /\ Word(low, v) \in Wide
               /\ point' = IF ins.mode = "indirectX" THEN Long(pb, Plus(Word(low, v), ins.index))
                                                     ELSE Word(low, v)
               /\ ins.kind = "brl"
                    => addr' = Plus(Plus(pc, 1), Signed(Word(low, v), BB)) /\ addr' \in Wide
<1>1. FetchHigh /\ Goes
  <2>1. Head(ahead) \notin Telling /\ Head(ahead) # "leave"
    BY DEF Telling, AtData
  <2> QED
    BY <2>1, HandledIs, Acts, Underway
<1>2. PICK v \in Byte :
          LET word == Word(low, v)
          IN  /\ Reads("high", {"p"}, Own(n), v)
              /\ IF ins.kind = "brl"
                 THEN base' = word /\ addr' = Plus(Plus(pc, 1), Signed(word, BB)) /\ Then
                 ELSE Formed(word)
              /\ point' = IF ins.mode = "indirectX" THEN Long(pb, Plus(word, ins.index)) ELSE word
  BY <1>1, PcNext DEF FetchHigh
<1>3. ReadAt(Own(n), v)
  BY <1>2, ReadIs
<1>4. pc' = Plus(pc, 1) /\ pb' = pb /\ s' = s /\ low' = low
  BY <1>1 DEF FetchHigh
<1>5. Behind(n + 1)'
  BY <1>1, <1>4, BehindNext DEF Goes
<1>6. Word(low, v) \in Wide
  BY Numbers, WordOfBytes
<1>7. base' = Word(low, v) /\ ahead' = Tail(ahead)
  <2>1. CASE ins.kind = "brl"
    BY <1>2, <2>1 DEF Then
  <2>2. CASE ins.kind # "brl"
    BY <1>2, <1>6, <2>2, HandledIs, FormedTypes
  <2> QED
    BY <2>1, <2>2
<1>8. ins.kind = "brl" => addr' = Plus(Plus(pc, 1), Signed(Word(low, v), BB)) /\ addr' \in Wide
  <2>0. Word(low, v) \in Int /\ BB \in Int
    <3>1. \A w \in Wide : w \in Int
      BY Sizes
    <3>2. BB \in Int
      BY Sizes
    <3> QED
      BY <1>6, <3>1, <3>2, Zenon
  <2>1. Signed(Word(low, v), BB) \in Int
    BY <2>0, SignedInt
  <2>2. Plus(pc, 1) \in Int
    BY Ahead
  <2>3. Plus(Plus(pc, 1), Signed(Word(low, v), BB)) \in Wide
    BY <2>1, <2>2, PlusWide
  <2> QED
    BY <1>2, <2>3
<1> QED
  BY <1>1, <1>2, <1>3, <1>4, <1>5, <1>6, <1>7, <1>8

-----------------------------------------------------------------------------
(* Those that go nowhere but to the next instruction.                      *)

PlainKinds == {"implied", "xba", "wdm", "immediate", "rep", "push", "pull", "phd", "plb", "pld",
               "pea", "pei", "per"}

\* What they do, and what of it fetches a byte.
Fetching == {"low", "high", "offset", "step"}

PlainWork == Fetching \cup {"idle", "here", "push", "pushHigh", "pushLow", "pullLow", "pullHigh",
                            "pointer", "pointerHigh"}

\* What they fetch comes first, and is one byte or two.
FetchesFirst(left) ==
    \A i \in 1..Len(left) :
        /\ left[i] \in PlainWork
        /\ left[i] \in Fetching => i = 1 \/ (i = 2 /\ left[1] \in Fetching)

Bytes(left) == IF left = <<>> \/ Head(left) \notin Fetching THEN 0
               ELSE IF Len(left) > 1 /\ left[2] \in Fetching THEN 2 ELSE 1

Plain ==
    /\ ins.kind \in PlainKinds
    /\ FetchesFirst(ahead)
    /\ Behind(1 + operand_size - Bytes(ahead))

LEMMA PlainRun ==
  ASSUME TypeOK, Asserts, Handled, ins.kind \notin {"jsr", "jsl", "rti", "rtl"}, Next, ~Fail,
         ahead # <<>>, Head(ahead) \in PlainWork, NEW n \in Int, Behind(n)
  PROVE  /\ Goes /\ ahead' = Tail(ahead)
         /\ Head(ahead) \in Fetching => Behind(n + 1)'
         /\ Head(ahead) \notin Fetching => Behind(n)'
<1>1. ins # None /\ ins.mode \notin Carries /\ ins' = ins => Handled'
  BY HandledIs
<1>2. Working /\ Goes
  <2>1. Head(ahead) \notin Telling /\ Head(ahead) # "leave"
    BY DEF Telling, AtData, PlainWork, Fetching
  <2> QED
    BY <1>1, <2>1, HandledIs, Acts, Underway
<1>3. ins' = ins
  BY <1>2 DEF Goes
<1>4. CASE Head(ahead) \in Fetching
  <2>1. FetchLow \/ FetchHigh \/ FetchOffset \/ Step
    BY <1>4, HandledIs, Acts DEF Fetching
  <2>2. pc' = Plus(pc, 1) /\ pb' = pb
    BY <2>1 DEF FetchLow, FetchHigh, FetchOffset, Step
  <2>3. ahead' = Tail(ahead)
    <3>1. CASE Head(ahead) = "high"
      BY <3>1, HighRun
    <3>2. CASE FetchLow \/ FetchOffset \/ Step
      BY <3>2 DEF FetchLow, FetchOffset, Step, Then
    <3> QED
      BY <2>1, <3>1, <3>2 DEF FetchHigh, Doing
  <2>4. Behind(n + 1)'
    BY <1>3, <2>2, BehindNext
  <2> QED
    BY <1>2, <1>4, <2>3, <2>4
<1>5. CASE Head(ahead) \notin Fetching
  <2>1. Idle \/ PointerLow \/ PointerHigh \/ Push \/ (Pull /\ ~Doing("pullBank"))
    <3>1. Head(ahead) # "pullBank"
      BY DEF PlainWork, Fetching
    <3> QED
      BY <1>5, <3>1, HandledIs, Acts DEF PlainWork, Doing
  <2>2. pc' = pc /\ pb' = pb
    <3>1. CASE Idle \/ PointerLow \/ PointerHigh
      BY <3>1 DEF Idle, PointerLow, PointerHigh
    <3>2. CASE Push
      BY <3>2 DEF Push
    <3>3. CASE Pull /\ ~Doing("pullBank")
      BY <3>3 DEF Pull
    <3> QED
      BY <2>1, <3>1, <3>2, <3>3
  <2>3. ahead' = Tail(ahead)
    <3>1. CASE Idle \/ PointerLow \/ Push \/ Pull
      BY <3>1 DEF Idle, PointerLow, Push, Pull, Then
    <3>2. CASE PointerHigh
      <4>1. PICK v \in Byte : Formed(Word(low, v))
        BY <3>2 DEF PointerHigh
      <4>2. Word(low, v) \in Wide
        BY Numbers, WordOfBytes
      <4> QED
        BY <1>1, <4>1, <4>2, HandledIs, FormedTypes
    <3> QED
      BY <2>1, <3>1, <3>2
  <2>4. Behind(n)'
    BY <1>3, <2>2 DEF Behind
  <2> QED
    BY <1>2, <1>5, <2>3, <2>4
<1> QED
  BY <1>4, <1>5

\* So it does once one is behind.
LEMMA FetchedFirst ==
  ASSUME NEW left \in Seq(Work), left # <<>>, FetchesFirst(left)
  PROVE  /\ FetchesFirst(Tail(left)) /\ Head(left) \in PlainWork
         /\ Bytes(left) \in 0..2 /\ Bytes(Tail(left)) \in 0..2
         /\ Head(left) \in Fetching => Bytes(left) = Bytes(Tail(left)) + 1
         /\ Head(left) \notin Fetching => Bytes(left) = Bytes(Tail(left))
<1> DEFINE r == Tail(left)
<1>1. /\ Len(left) \in Nat /\ Len(left) >= 1 /\ Head(left) = left[1]
      /\ r \in Seq(Work) /\ Len(r) = Len(left) - 1
      /\ \A i \in 1..Len(r) : r[i] = left[i + 1]
  <2>1. Len(left) \in Nat /\ Len(left) >= 1
    BY EmptySeq
  <2> QED
    BY <2>1, HeadTailProperties
<1>2. /\ left[1] \in PlainWork
      /\ Len(left) >= 2 => left[2] \in PlainWork /\ (left[2] \in Fetching => left[1] \in Fetching)
      /\ Len(left) >= 3 => left[3] \notin Fetching
  <2>1. 1 \in 1..Len(left) /\ (Len(left) >= 2 => 2 \in 1..Len(left))
        /\ (Len(left) >= 3 => 3 \in 1..Len(left))
    BY <1>1
  <2> QED
    BY <2>1 DEF FetchesFirst
<1>3. /\ Len(left) = 1 <=> r = <<>>
      /\ Len(left) >= 2 => Head(r) = left[2] /\ r # <<>>
      /\ Len(left) >= 3 => r[2] = left[3] /\ Len(r) > 1
      /\ Len(left) = 2 => ~(Len(r) > 1)
  <2>1. r = <<>> <=> Len(r) = 0
    BY <1>1, EmptySeq
  <2>2. Len(left) >= 2 => Head(r) = left[2]
    <3>1. ASSUME Len(left) >= 2 PROVE r # <<>> /\ 1 \in 1..Len(r)
      BY <1>1, <2>1, <3>1
    <3>2. r # <<>> => Head(r) = r[1]
      BY <1>1, HeadTailProperties
    <3> HIDE DEF r
    <3> QED
      BY <1>1, <3>1, <3>2
  <2> HIDE DEF r
  <2>3. Len(left) >= 3 => r[2] = left[3] /\ Len(r) > 1
    <3>1. Len(left) >= 3 => 2 \in 1..Len(r)
      BY <1>1
    <3> QED
      BY <1>1, <3>1
  <2> QED
    BY <1>1, <2>1, <2>2, <2>3
<1> HIDE DEF r
<1>4. FetchesFirst(r)
  <2> SUFFICES ASSUME NEW i \in 1..Len(r)
               PROVE  r[i] \in PlainWork /\ (r[i] \in Fetching => i = 1)
    BY DEF FetchesFirst
  <2>1. i + 1 \in 1..Len(left) /\ r[i] = left[i + 1] /\ i + 1 # 1 /\ (i + 1 = 2 => i = 1)
    BY <1>1
  <2> QED
    BY <2>1 DEF FetchesFirst
<1>5. CASE Len(left) = 1
  <2>1. Bytes(r) = 0
    BY <1>3, <1>5 DEF Bytes
  <2>2. Bytes(left) = IF left[1] \in Fetching THEN 1 ELSE 0
    BY <1>1, <1>5 DEF Bytes
  <2> QED
    BY <1>1, <1>2, <1>4, <2>1, <2>2 DEF r
<1>6. CASE Len(left) >= 2
  <2>1. Bytes(r) = IF left[2] \in Fetching THEN 1 ELSE 0
    <3>1. CASE Len(left) = 2
      BY <1>3, <1>6, <3>1 DEF Bytes
    <3>2. CASE Len(left) >= 3
      BY <1>2, <1>3, <1>6, <3>2 DEF Bytes
    <3> QED
      BY <1>1, <1>6, <3>1, <3>2
  <2>2. Bytes(left) = IF left[1] \in Fetching THEN IF left[2] \in Fetching THEN 2 ELSE 1 ELSE 0
    BY <1>1, <1>6 DEF Bytes
  <2> QED
    BY <1>1, <1>2, <1>4, <1>6, <2>1, <2>2 DEF r
<1> QED
  BY <1>1, <1>5, <1>6

\* Each of their cycles.
LEMMA PlainStep ==
  ASSUME TypeOK, Asserts, Handled, Plain, Next, ~Fail, ahead # <<>>
  PROVE  Goes /\ ahead' = Tail(ahead) /\ Plain' /\ Calm'
<1> DEFINE n == 1 + operand_size - Bytes(ahead)
           m == 1 + operand_size - Bytes(Tail(ahead))
<1>1. ahead \in Seq(Work) /\ FetchesFirst(ahead) /\ Behind(n)
  BY Numbers DEF Plain
<1>2. operand_size \in Int
  BY AfterWide
<1>3. /\ FetchesFirst(Tail(ahead)) /\ Head(ahead) \in PlainWork
      /\ n \in Int /\ m \in Int
      /\ Head(ahead) \in Fetching => n + 1 = m
      /\ Head(ahead) \notin Fetching => n = m
  <2>1. /\ Bytes(ahead) \in 0..2 /\ Bytes(Tail(ahead)) \in 0..2
        /\ Head(ahead) \in Fetching => Bytes(ahead) = Bytes(Tail(ahead)) + 1
        /\ Head(ahead) \notin Fetching => Bytes(ahead) = Bytes(Tail(ahead))
        /\ FetchesFirst(Tail(ahead)) /\ Head(ahead) \in PlainWork
    BY <1>1, FetchedFirst
  <2> QED
    BY <1>2, <2>1
<1>4. ins.kind \notin {"jsr", "jsl", "rti", "rtl"} /\ ins.kind # "modify"
  BY HandledIs DEF Plain, PlainKinds
<1>5. PICK k \in Int, j \in Int : k = n /\ j = m
  BY <1>3
<1> HIDE DEF n, m
<1>6. /\ Goes /\ ahead' = Tail(ahead)
      /\ Head(ahead) \in Fetching => Behind(k + 1)'
      /\ Head(ahead) \notin Fetching => Behind(k)'
  BY <1>1, <1>3, <1>4, <1>5, PlainRun DEF Behind
<1>7. Behind(j)' /\ ins' = ins
  BY <1>3, <1>5, <1>6 DEF Goes
<1>8. (1 + operand_size - Bytes(ahead))' = j
  BY <1>5, <1>6, <1>7 DEF m, operand_size
<1>9. Plain'
  BY <1>3, <1>6, <1>7, <1>8 DEF Plain, Behind
<1>10. Calm'
  <2> DEFINE r == Tail(ahead)
  <2>0. r \in Seq(Work) /\ FetchesFirst(r)
    BY <1>1, <1>3, HeadTailProperties
  <2> HIDE DEF r
  <2>1. ahead' # <<>> => Head(ahead') \in PlainWork
    <3>1. r # <<>> => Head(r) \in PlainWork
      BY <2>0, FetchedFirst
    <3> QED
      BY <1>6, <3>1 DEF r
  <2> QED
    BY <1>4, <1>7, <2>1 DEF Calm, PlainWork, Fetching
<1> QED
  BY <1>6, <1>9, <1>10

-----------------------------------------------------------------------------
(* Branches.                                                               *)

\* What is left, and how many bytes are behind it.
Row(left, n) == ahead = left /\ Behind(n)

\* Where a taken branch goes.
Target == branch_target(Found(1), B)

Crossing == ins.e /\ High(After) # High(Target)

Branching ==
    /\ ins.kind = "branch" /\ Unwritten
    /\ \/ Row(<<"taken">>, 1) /\ cycles = 1
       \/ Row(<<>>, 2) /\ cycles = 2
       \/ /\ IsFound(Own(1)) /\ addr = Target
          /\ \/ Row(<<"leave">>, 2) /\ ~Crossing /\ cycles = 2
             \/ Row(<<"here", "leave">>, 2) /\ Crossing /\ cycles = 2
             \/ Row(<<"leave">>, 2) /\ Crossing /\ cycles = 3
             \/ /\ ahead = <<>> /\ pc = Target /\ pb = Bank(ins.at)
                /\ cycles = 3 + One(Crossing)

\* What is gone to is gone to in a cycle.
LEMMA LeaveRun ==
  ASSUME TypeOK, Asserts, Handled, Next, ~Fail, ahead # <<>>, Head(ahead) = "leave", addr \in Wide
  PROVE  /\ Goes /\ ahead' = Tail(ahead)
         /\ pc' = addr /\ pb' = pb /\ base' = base /\ addr' = addr /\ first' = first
         /\ Unwritten => Unwritten'
<1>1. Leave /\ Working
  BY HandledIs, Acts
<1>2. Worked
  BY <1>1, StepWorks
<1>3. ins' = ins /\ reach' = reach /\ cycles' = cycles + 1
  BY <1>2 DEF Worked, OneCycle
<1>4. Calm' => Asserts' /\ BusTells'
  <2>1. Head(ahead) \notin Telling
    BY DEF Telling, AtData
  <2> QED
    BY <2>1, HandledIs, Quiet
<1>5. first' = first /\ (Unwritten => Unwritten')
  BY <1>1, InternalKeeps DEF Leave
<1> QED
  BY <1>1, <1>2, <1>3, <1>4, <1>5 DEF Worked, Goes, Leave, Then, forming

\* The branches' operand is a byte.
LEMMA BranchAfter ==
  ASSUME Handled, ins.kind = "branch", ins' = ins
  PROVE  /\ After = Plus(ins.at % BB, 2) /\ After' = After
         /\ operand_size = 1
<1>1. ins.mode = "relative"
  BY DEF Handled, ModeOf
<1>2. operand_size = 1
  BY <1>1 DEF operand_size, MODE_SIZE
<1>3. After' = After
  BY DEF After, operand_size
<1> QED
  BY <1>2, <1>3 DEF After

\* Where it goes does not change on the way there.
LEMMA TargetKept ==
  ASSUME Remembers, ins' = ins, reach' = reach, IsFound(Own(1)), Handled, ins.kind = "branch"
  PROVE  IsFound(Own(1))' /\ Target' = Target /\ Crossing' = Crossing
<1>1. IsFound(Own(1))' /\ Found(1)' = Found(1)
  BY OwnKept
<1>2. After' = After
  BY BranchAfter
<1>3. Target' = Target
  BY <1>1, <1>2 DEF Target, branch_target
<1> QED
  BY <1>1, <1>2, <1>3 DEF Crossing

\* A target is a word.
LEMMA TargetWide ==
  ASSUME TypeOK, Handled, NEW v \in Int, NEW size \in Int
  PROVE  branch_target(v, size) \in Wide
<1>1. Signed(v, size) \in Int /\ After \in Int
  BY SignedInt, AfterWide
<1> QED
  BY <1>1, PlusWide DEF branch_target

\* The displacement is fetched, and the branch is taken or not.
LEMMA BranchRun ==
  ASSUME TypeOK, Asserts, Handled, Next, ~Fail, ins.kind = "branch", Unwritten,
         Row(<<"taken">>, 1), cycles = 1
  PROVE  Goes /\ Branching' /\ Calm'
<1>1. ahead # <<>> /\ Head(ahead) = "taken" /\ Behind(1)
  BY DEF Row
<1>2. Branch /\ Goes
  <2>1. Head(ahead) \notin Telling /\ Head(ahead) # "leave"
    BY <1>1 DEF Telling, AtData
  <2> QED
    BY <1>1, <2>1, HandledIs, Acts, Underway
<1>3. ins' = ins /\ reach' = reach /\ cycles' = 2 /\ ins'.kind = "branch"
  BY <1>2 DEF Goes
<1>4. PICK v \in Byte :
        LET target == Plus(pc', Signed(v, B))
        IN  /\ Reads("taken", {"p"}, Own(1), v)
            /\ \/ ahead' = <<>> /\ UNCHANGED addr
               \/ /\ ahead' = IF ins.e /\ High(pc') # High(target) THEN <<"here", "leave">>
                                                                   ELSE <<"leave">>
                  /\ addr' = target
  BY <1>1, <1>2, PcNext DEF Branch
<1>5. ReadAt(Own(1), v)
  BY <1>4, ReadIs
<1>6. Unwritten' /\ IsFound(Own(1))' /\ Found(1)' = v
  BY <1>3, <1>5 DEF ReadAt, IsFound, Found, Cell, Own
<1>7. Behind(2)'
  <2>1. pc' = Plus(pc, 1) /\ pb' = pb
    BY <1>2 DEF Branch
  <2>2. Behind(1 + 1)'
    BY <1>1, <1>3, <2>1, BehindNext
  <2> QED
    BY <2>2 DEF Behind
<1>8. pc' = After'
  BY <1>3, <1>7, BranchAfter DEF Behind
<1>9. CASE ahead' = <<>>
  BY <1>2, <1>3, <1>6, <1>7, <1>9 DEF Branching, Row, Calm
<1>10. CASE /\ ahead' = IF ins.e /\ High(pc') # High(Plus(pc', Signed(v, B)))
                        THEN <<"here", "leave">> ELSE <<"leave">>
            /\ addr' = Plus(pc', Signed(v, B))
  <2>1. addr' = Target'
    BY <1>6, <1>8, <1>10 DEF Target, branch_target
  <2>2. Crossing' <=> ins.e /\ High(pc') # High(addr')
    BY <1>3, <1>8, <2>1 DEF Crossing
  <2>3. \/ ahead' = <<"leave">> /\ ~Crossing'
        \/ ahead' = <<"here", "leave">> /\ Crossing'
    BY <1>10, <2>2
  <2>4. Head(<<"leave">>) = "leave" /\ Head(<<"here", "leave">>) = "here"
    OBVIOUS
  <2>5. Calm'
    BY <1>3, <2>3, <2>4 DEF Calm
  <2> QED
    BY <1>2, <1>3, <1>6, <1>7, <2>1, <2>3, <2>5 DEF Branching, Row
<1> QED
  BY <1>4, <1>9, <1>10

\* Each cycle of a branch.
LEMMA BranchingStep ==
  ASSUME TypeOK, Asserts, Handled, Branching, Next, ~Fail, ahead # <<>>
  PROVE  Goes /\ Branching' /\ Calm'
<1>1. ins.kind = "branch" /\ Unwritten
  BY DEF Branching
<1>2. CASE Row(<<"taken">>, 1) /\ cycles = 1
  BY <1>1, <1>2, BranchRun
<1>3. CASE /\ IsFound(Own(1)) /\ addr = Target
           /\ Row(<<"here", "leave">>, 2) /\ Crossing /\ cycles = 2
  <2>1. ahead # <<>> /\ Head(ahead) = "here" /\ Tail(ahead) = <<"leave">>
    BY <1>3 DEF Row
  <2>2. /\ Goes /\ ahead' = <<"leave">> /\ pc' = pc /\ pb' = pb /\ addr' = addr /\ Unwritten'
    BY <1>1, <2>1, IdleRun
  <2>3. ins' = ins /\ reach' = reach /\ Remembers /\ cycles' = 3
    BY <1>3, <2>2 DEF Goes
  <2>4. IsFound(Own(1))' /\ Target' = Target /\ Crossing'
    BY <1>1, <1>3, <2>3, TargetKept
  <2>5. Row(<<"leave">>, 2)'
    BY <1>3, <2>2, <2>3 DEF Row, Behind
  <2>6. Calm'
    <3>1. Head(<<"leave">>) = "leave"
      OBVIOUS
    <3> QED
      BY <1>1, <2>2, <2>3, <3>1 DEF Calm
  <2> QED
    BY <1>1, <1>3, <2>2, <2>3, <2>4, <2>5, <2>6 DEF Branching
<1>4. CASE /\ IsFound(Own(1)) /\ addr = Target
           /\ Row(<<"leave">>, 2) /\ cycles = 2 + One(Crossing)
  <2>1. ahead # <<>> /\ Head(ahead) = "leave" /\ Tail(ahead) = <<>> /\ pb = Bank(ins.at)
    BY <1>4 DEF Row, Behind
  <2>2. addr \in Wide
    <3>1. Found(1) \in Int /\ B \in Int
      BY <1>4, OwnByte, Sizes
    <3> QED
      BY <1>4, <3>1, TargetWide DEF Target
  <2>3. /\ Goes /\ ahead' = <<>> /\ pc' = addr /\ pb' = pb /\ addr' = addr /\ Unwritten'
    BY <1>1, <2>1, <2>2, LeaveRun
  <2>4. ins' = ins /\ reach' = reach /\ Remembers /\ cycles' = cycles + 1
    BY <2>3 DEF Goes
  <2>5. IsFound(Own(1))' /\ Target' = Target /\ Crossing' = Crossing
    BY <1>1, <1>4, <2>4, TargetKept
  <2>6. cycles' = 3 + One(Crossing)'
    BY <1>4, <2>4, <2>5 DEF One
  <2>7. Calm'
    BY <2>3 DEF Calm
  <2> QED
    BY <1>1, <1>4, <2>1, <2>3, <2>4, <2>5, <2>6, <2>7 DEF Branching
<1>5. CASE Row(<<>>, 2)
  BY <1>5 DEF Row
<1> QED
  BY <1>2, <1>3, <1>4, <1>5 DEF Branching, One

-----------------------------------------------------------------------------
(* Jumps to what the instruction names.                                    *)

\* The operand's low byte, and its word, have been found.
LowFound == IsFound(Own(1)) /\ low = Found(1)

WordFound == IsFound(Own(1)) /\ IsFound(Own(2)) /\ base = FoundWord

\* A jump to what the instruction names.
Jumping ==
    /\ Unwritten
    /\ \/ /\ ins.kind = "brl"
          /\ \/ Row(<<"low", "high", "leave">>, 1)
             \/ Row(<<"high", "leave">>, 2) /\ LowFound
             \/ Row(<<"leave">>, 3) /\ WordFound /\ addr = branch_target(FoundWord, BB)
             \/ /\ ahead = <<>> /\ WordFound
                /\ pc = branch_target(FoundWord, BB) /\ pb = Bank(ins.at)
       \/ /\ ins.kind = "jmp"
          /\ \/ Row(<<"low", "to">>, 1)
             \/ Row(<<"to">>, 2) /\ LowFound
             \/ ahead = <<>> /\ At(Own(1), Own(2), Bank(ins.at))
       \/ /\ ins.kind = "jml"
          /\ \/ Row(<<"low", "high", "bank">>, 1)
             \/ Row(<<"high", "bank">>, 2) /\ LowFound
             \/ Row(<<"bank">>, 3) /\ WordFound
             \/ ahead = <<>> /\ IsFound(Own(3)) /\ At(Own(1), Own(2), Found(3))

\* What is found is known.
LEMMA FoundKnown ==
  ASSUME TypeOK, Unwritten, NEW a, IsFound(a)
  PROVE  Cell(a) \in DOMAIN mem /\ mem[Cell(a)] = first[Cell(a)]
  BY DEF TypeOK, Unwritten, IsFound

\* So the operand's word, when it is, is where a jump may go.
LEMMA OwnWord ==
  TypeOK /\ Unwritten /\ WordFound
     => /\ {Cell(Own(1)), Cell(Own(2))} \subseteq DOMAIN mem
        /\ base = Word(mem[Cell(Own(1))], mem[Cell(Own(2))])
<1> SUFFICES ASSUME TypeOK, Unwritten, WordFound
             PROVE  /\ {Cell(Own(1)), Cell(Own(2))} \subseteq DOMAIN mem
                    /\ base = Word(mem[Cell(Own(1))], mem[Cell(Own(2))])
  OBVIOUS
<1>1. /\ Cell(Own(1)) \in DOMAIN mem /\ mem[Cell(Own(1))] = Found(1)
      /\ Cell(Own(2)) \in DOMAIN mem /\ mem[Cell(Own(2))] = Found(2)
  BY FoundKnown DEF WordFound, Found
<1> QED
  BY <1>1 DEF WordFound, FoundWord

\* The operand's word is one.
LEMMA FoundWide ==
  TypeOK /\ WordFound => FoundWord \in Wide /\ FoundWord \in Int /\ base \in Wide
<1> SUFFICES ASSUME TypeOK, WordFound
             PROVE  FoundWord \in Wide /\ FoundWord \in Int /\ base \in Wide
  OBVIOUS
<1>1. Found(1) \in Byte /\ Found(2) \in Byte
  BY OwnByte DEF WordFound
<1>2. FoundWord \in Wide
  BY <1>1, WordOfBytes DEF FoundWord
<1> QED
  BY <1>2, Sizes DEF WordFound

\* They stay found.
LEMMA LowKept ==
  ASSUME Remembers, ins' = ins, reach' = reach, LowFound, low' = low
  PROVE  LowFound' /\ Found(1)' = Found(1)
  BY OwnKept DEF LowFound

LEMMA WordKept ==
  ASSUME Remembers, ins' = ins, reach' = reach, WordFound, base' = base
  PROVE  WordFound' /\ FoundWord' = FoundWord
<1>1. /\ IsFound(Own(1))' /\ Found(1)' = Found(1)
      /\ IsFound(Own(2))' /\ Found(2)' = Found(2)
  BY OwnKept DEF WordFound
<1> QED
  BY <1>1 DEF WordFound, FoundWord

\* The operand's low byte is fetched.
LEMMA LowFetched ==
  ASSUME TypeOK, Asserts, Handled, Next, ~Fail, ahead # <<>>, Head(ahead) = "low", Behind(1),
         Unwritten
  PROVE  /\ Goes /\ ahead' = Tail(ahead) /\ Behind(2)' /\ LowFound' /\ Unwritten'
         /\ s' = s /\ point' = point /\ addr' = addr
         /\ DOMAIN first' = (DOMAIN first) \cup {Cell(Own(1))}
<1>1. /\ Goes /\ ahead' = Tail(ahead) /\ Behind(1 + 1)' /\ s' = s /\ point' = point /\ addr' = addr
      /\ ReadAt(Own(1), low')
  BY LowRun
<1>2. ins' = ins /\ reach' = reach
  BY <1>1 DEF Goes
<1>3. Unwritten' /\ Cell(Own(1)) \in DOMAIN first' /\ first'[Cell(Own(1))] = low'
  BY <1>1 DEF ReadAt
<1>4. LowFound'
  BY <1>2, <1>3 DEF LowFound, IsFound, Found, Cell, Own
<1>5. DOMAIN first' = (DOMAIN first) \cup {Cell(Own(1))}
  <2>1. IsKnown(Own(1)) => Cell(Own(1)) \in DOMAIN first
    BY DEF IsKnown, Unwritten
  <2> QED
    BY <1>1, <2>1 DEF ReadAt
<1>6. Behind(2)'
  BY <1>1 DEF Behind
<1> QED
  BY <1>1, <1>3, <1>4, <1>5, <1>6

\* And the high one.
LEMMA HighFetched ==
  ASSUME TypeOK, Asserts, Handled, Next, ~Fail, ahead # <<>>, Head(ahead) = "high", Behind(2),
         Unwritten, LowFound
  PROVE  /\ Goes /\ ahead' = Tail(ahead) /\ Behind(3)' /\ WordFound' /\ Unwritten'
         /\ s' = s
         /\ ins.mode # "indirectX" => point' = base'
         /\ ins.mode = "indirectX" => point' = Long(Bank(ins.at), Plus(base', ins.index))
         /\ ins.kind = "brl" => addr' = Plus(pc', Signed(base', BB))
         /\ DOMAIN first' = (DOMAIN first) \cup {Cell(Own(2))}
<1>1. /\ Goes /\ ahead' = Tail(ahead) /\ Behind(2 + 1)' /\ s' = s /\ pb' = pb
  BY HighRun
<1>2. PICK v \in Byte :
        /\ ReadAt(Own(2), v) /\ base' = Word(low, v)
        /\ point' = IF ins.mode = "indirectX" THEN Long(pb, Plus(Word(low, v), ins.index))
                                              ELSE Word(low, v)
        /\ ins.kind = "brl" => addr' = Plus(Plus(pc, 1), Signed(Word(low, v), BB))
  BY HighRun
<1>3. ins' = ins /\ reach' = reach /\ Remembers
  BY <1>1 DEF Goes
<1>4. Unwritten' /\ Cell(Own(2)) \in DOMAIN first' /\ first'[Cell(Own(2))] = v
  BY <1>2 DEF ReadAt
<1>5. IsFound(Own(2))' /\ Found(2)' = v
  BY <1>3, <1>4 DEF IsFound, Found, Cell, Own
<1>6. IsFound(Own(1))' /\ Found(1)' = low
  BY <1>3, OwnKept DEF LowFound
<1>7. WordFound'
  BY <1>2, <1>5, <1>6 DEF WordFound, FoundWord
<1>8. DOMAIN first' = (DOMAIN first) \cup {Cell(Own(2))}
  <2>1. IsKnown(Own(2)) => Cell(Own(2)) \in DOMAIN first
    BY DEF IsKnown, Unwritten
  <2> QED
    BY <1>2, <2>1 DEF ReadAt
<1>9. pb = Bank(ins.at) /\ Behind(3)'
  BY <1>1 DEF Behind
<1>10. pc' = Plus(pc, 1)
  <2>1. pc' = Plus(ins.at % BB, 2 + 1)
    BY <1>1, <1>3 DEF Behind
  <2> QED
    BY <2>1, PcNext
<1> QED
  BY <1>1, <1>2, <1>4, <1>7, <1>8, <1>9, <1>10

\* A bank is fetched, and is gone to if it is the last of a jump.
LEMMA BankRun ==
  ASSUME TypeOK, Asserts, Handled, Next, ~Fail, ahead # <<>>, Head(ahead) = "bank",
         NEW n \in Int, Behind(n)
  PROVE  /\ Goes /\ ahead' = Tail(ahead) /\ s' = s /\ low' = low /\ base' = base
         /\ \E v \in Byte :
               /\ ReadAt(Own(n), v)
               /\ Bank(addr') = v
               /\ Last => pc' = base /\ pb' = v
               /\ ~Last => Behind(n + 1)'
<1>1. FetchBank /\ Goes
  <2>1. Head(ahead) \notin Telling /\ Head(ahead) # "leave"
    BY DEF Telling, AtData
  <2> QED
    BY <2>1, HandledIs, Acts, Underway
<1>2. PICK v \in Byte : /\ Reads("bank", {"p"}, Own(n), v) /\ addr' = Long(v, base) + Index
                        /\ pb' = IF Last THEN v ELSE pb
  BY <1>1, PcNext DEF FetchBank
<1>3. ReadAt(Own(n), v)
  BY <1>2, ReadIs
<1>4. Bank(addr') = v
  <2>1. ins.mode \notin Indexes
    BY DEF Handled, ModeOf, Indexes, Carries
  <2>2. Long(v, base) \in Int /\ Bank(Long(v, base)) = v
    BY Numbers, LongPlace, Sizes
  <2>3. addr' = Long(v, base)
    <3> DEFINE a == Long(v, base)
    <3>1. a \in Int /\ Index = 0 /\ addr' = a + Index
      BY <1>2, <2>1, <2>2 DEF Index
    <3> HIDE DEF a
    <3>2. addr' = a
      BY <3>1
    <3> QED
      BY <3>2 DEF a
  <2> QED
    BY <2>2, <2>3
<1>5. Last => pc' = base /\ pb' = v
  BY <1>1, <1>2 DEF FetchBank
<1>6. ~Last => Behind(n + 1)'
  <2> SUFFICES ASSUME ~Last PROVE Behind(n + 1)'
    OBVIOUS
  <2>1. pc' = Plus(pc, 1) /\ pb' = pb
    BY <1>1, <1>2 DEF FetchBank
  <2> QED
    BY <1>1, <2>1, BehindNext DEF Goes
<1> QED
  BY <1>1, <1>2, <1>3, <1>4, <1>5, <1>6 DEF FetchBank, Then

\* A jump goes to the word it has read.
LEMMA ToRun ==
  ASSUME TypeOK, Asserts, Handled, Next, ~Fail, ahead # <<>>, Head(ahead) = "to",
         NEW n \in Int, Behind(n)
  PROVE  /\ Goes /\ ahead' = Tail(ahead) /\ pb' = pb
         /\ \E v \in Byte : ReadAt(Own(n), v) /\ pc' = Word(low, v)
<1>1. JumpHigh /\ Goes
  <2>1. Head(ahead) \notin Telling /\ Head(ahead) # "leave"
    BY DEF Telling, AtData
  <2> QED
    BY <2>1, HandledIs, Acts, Underway
<1>2. PICK v \in Byte : Reads("to", {"p"}, Own(n), v) /\ pc' = Word(low, v)
  BY <1>1, PcNext DEF JumpHigh, Doing
<1>3. ReadAt(Own(n), v)
  BY <1>2, ReadIs
<1> QED
  BY <1>1, <1>2, <1>3 DEF JumpHigh, Then

\* The bytes of a pointer that is jumped through.
LEMMA JumpLowRun ==
  ASSUME TypeOK, Asserts, Handled, Next, ~Fail, ahead # <<>>, Head(ahead) = "jumpLow"
  PROVE  /\ Goes /\ ahead' = Tail(ahead)
         /\ pc' = pc /\ pb' = pb /\ s' = s /\ base' = base /\ point' = point
         /\ low' \in Byte /\ ReadAt(point, low')
<1>1. JumpLow /\ Goes
  <2>1. Head(ahead) \notin Telling /\ Head(ahead) # "leave"
    BY DEF Telling, AtData
  <2> QED
    BY <2>1, HandledIs, Acts, Underway
<1>2. PICK v \in Byte : Reads("jumpLow", {"d"}, point, v) /\ low' = v
  BY <1>1 DEF JumpLow
<1>3. ReadAt(point, v)
  BY <1>2, ReadIs
<1> QED
  BY <1>1, <1>2, <1>3 DEF JumpLow, Then

LEMMA JumpHighRun ==
  ASSUME TypeOK, Asserts, Handled, Next, ~Fail, ahead # <<>>, Head(ahead) = "jumpHigh"
  PROVE  /\ Goes /\ ahead' = Tail(ahead)
         /\ pb' = pb /\ s' = s /\ base' = base /\ point' = point /\ addr' = addr
         /\ \E v \in Byte : ReadAt(InBank(point, 1), v) /\ pc' = Word(low, v)
<1>1. JumpHigh /\ Goes
  <2>1. Head(ahead) \notin Telling /\ Head(ahead) # "leave"
    BY DEF Telling, AtData
  <2> QED
    BY <2>1, HandledIs, Acts, Underway
<1>2. PICK v \in Byte : Reads("jumpHigh", {"d"}, InBank(point, 1), v) /\ pc' = Word(low, v)
  BY <1>1 DEF JumpHigh, Doing
<1>3. ReadAt(InBank(point, 1), v)
  BY <1>2, ReadIs
<1> QED
  BY <1>1, <1>2, <1>3 DEF JumpHigh, Then, forming

LEMMA JumpBankRun ==
  ASSUME TypeOK, Asserts, Handled, Next, ~Fail, ahead # <<>>, Head(ahead) = "jumpBank"
  PROVE  /\ Goes /\ ahead' = Tail(ahead) /\ pc' = pc /\ base' = base
         /\ pb' \in Byte /\ ReadAt(InBank(point, 2), pb')
<1>1. JumpBank /\ Goes
  <2>1. Head(ahead) \notin Telling /\ Head(ahead) # "leave"
    BY DEF Telling, AtData
  <2> QED
    BY <2>1, HandledIs, Acts, Underway
<1>2. PICK v \in Byte : Reads("jumpBank", {"d"}, InBank(point, 2), v) /\ pb' = v
  BY <1>1 DEF JumpBank
<1>3. ReadAt(InBank(point, 2), v)
  BY <1>2, ReadIs
<1> QED
  BY <1>1, <1>2, <1>3 DEF JumpBank, Then, forming

\* Each cycle of BRL, and of JMP and JML absolute.
LEMMA BrlStep ==
  ASSUME TypeOK, Asserts, Handled, Jumping, Next, ~Fail, ahead # <<>>, ins.kind = "brl"
  PROVE  Goes /\ ahead' = Tail(ahead) /\ Jumping' /\ Calm'
<1>1. Unwritten /\ operand_size = 2 /\ ins.mode = "relativeWord"
  BY DEF Jumping, Handled, ModeOf, operand_size, MODE_SIZE
<1>2. CASE Row(<<"low", "high", "leave">>, 1)
  <2>1. ahead # <<>> /\ Head(ahead) = "low" /\ Tail(ahead) = <<"high", "leave">> /\ Behind(1)
    BY <1>2 DEF Row
  <2>2. Goes /\ ahead' = Tail(ahead) /\ Behind(2)' /\ LowFound' /\ Unwritten' /\ ins' = ins
    BY <1>1, <2>1, LowFetched DEF Goes
  <2>3. Head(<<"high", "leave">>) = "high"
    OBVIOUS
  <2> QED
    BY <2>1, <2>2, <2>3 DEF Jumping, Row, Calm
<1>3. CASE Row(<<"high", "leave">>, 2) /\ LowFound
  <2>1. ahead # <<>> /\ Head(ahead) = "high" /\ Tail(ahead) = <<"leave">> /\ Behind(2)
    BY <1>3 DEF Row
  <2>2. /\ Goes /\ ahead' = Tail(ahead) /\ Behind(3)' /\ WordFound' /\ Unwritten' /\ ins' = ins
        /\ addr' = Plus(pc', Signed(base', BB))
    BY <1>1, <1>3, <2>1, HighFetched DEF Goes
  <2>3. pc' = After'
    BY <1>1, <2>2 DEF Behind, After, operand_size
  <2>4. addr' = branch_target(FoundWord, BB)'
    BY <2>2, <2>3 DEF branch_target, WordFound
  <2>5. Head(<<"leave">>) = "leave"
    OBVIOUS
  <2> QED
    BY <2>1, <2>2, <2>4, <2>5 DEF Jumping, Row, Calm
<1>4. CASE Row(<<"leave">>, 3) /\ WordFound /\ addr = branch_target(FoundWord, BB)
  <2>1. ahead # <<>> /\ Head(ahead) = "leave" /\ Tail(ahead) = <<>> /\ pb = Bank(ins.at)
    BY <1>4 DEF Row, Behind
  <2>2. addr \in Wide
    <3>1. FoundWord \in Int /\ BB \in Int
      BY <1>4, FoundWide, Sizes
    <3> QED
      BY <1>4, <3>1, TargetWide
  <2>3. /\ Goes /\ ahead' = <<>> /\ pc' = addr /\ pb' = pb /\ base' = base /\ Unwritten'
    BY <1>1, <2>1, <2>2, LeaveRun
  <2>4. ins' = ins /\ reach' = reach /\ Remembers
    BY <2>3 DEF Goes
  <2>5. WordFound' /\ FoundWord' = FoundWord
    BY <1>4, <2>3, <2>4, WordKept
  <2>6. After' = After
    BY <2>4 DEF After, operand_size
  <2>7. branch_target(FoundWord, BB)' = branch_target(FoundWord, BB)
    BY <2>5, <2>6 DEF branch_target
  <2> QED
    BY <1>4, <2>1, <2>3, <2>4, <2>5, <2>7 DEF Jumping, Calm
<1> QED
  BY <1>2, <1>3, <1>4 DEF Jumping

LEMMA JmpStep ==
  ASSUME TypeOK, Asserts, Handled, Jumping, Next, ~Fail, ahead # <<>>, ins.kind = "jmp"
  PROVE  Goes /\ ahead' = Tail(ahead) /\ Jumping' /\ Calm'
<1>1. Unwritten
  BY DEF Jumping
<1>2. CASE Row(<<"low", "to">>, 1)
  <2>1. ahead # <<>> /\ Head(ahead) = "low" /\ Tail(ahead) = <<"to">> /\ Behind(1)
    BY <1>2 DEF Row
  <2>2. Goes /\ ahead' = Tail(ahead) /\ Behind(2)' /\ LowFound' /\ Unwritten' /\ ins' = ins
    BY <1>1, <2>1, LowFetched DEF Goes
  <2>3. Head(<<"to">>) = "to"
    OBVIOUS
  <2> QED
    BY <2>1, <2>2, <2>3 DEF Jumping, Row, Calm
<1>3. CASE Row(<<"to">>, 2) /\ LowFound
  <2>1. ahead # <<>> /\ Head(ahead) = "to" /\ Tail(ahead) = <<>> /\ Behind(2)
    BY <1>3 DEF Row
  <2>2. PICK v \in Byte : ReadAt(Own(2), v) /\ pc' = Word(low, v)
    BY <2>1, ToRun
  <2>3. Goes /\ ahead' = <<>> /\ pb' = Bank(ins.at)
    <3>1. pb = Bank(ins.at)
      BY <2>1 DEF Behind
    <3> QED
      BY <2>1, <3>1, ToRun, SMTT(30)
  <2>4. /\ ins' = ins /\ reach' = reach /\ Unwritten' /\ Agrees
        /\ Cell(Own(2)) \in DOMAIN mem' /\ mem'[Cell(Own(2))] = v
    BY <1>1, <2>2, <2>3 DEF Goes, ReadAt
  <2>5. Cell(Own(1)) \in DOMAIN mem' /\ mem'[Cell(Own(1))] = low
    <3>1. Cell(Own(1)) \in DOMAIN mem /\ mem[Cell(Own(1))] = low
      BY <1>1, <1>3, FoundKnown DEF LowFound, Found
    <3> QED
      BY <2>4, <3>1 DEF Agrees
  <2>6. Cell(Own(1))' = Cell(Own(1)) /\ Cell(Own(2))' = Cell(Own(2))
    BY <2>4 DEF Cell, Own
  <2>7. At(Own(1), Own(2), Bank(ins.at))'
    BY <2>2, <2>3, <2>4, <2>5, <2>6 DEF At
  <2> QED
    BY <2>1, <2>3, <2>4, <2>7 DEF Jumping, Calm
<1> QED
  BY <1>2, <1>3 DEF Jumping

LEMMA JmlStep ==
  ASSUME TypeOK, Asserts, Handled, Jumping, Next, ~Fail, ahead # <<>>, ins.kind = "jml"
  PROVE  Goes /\ ahead' = Tail(ahead) /\ Jumping' /\ Calm'
<1>1. Unwritten
  BY DEF Jumping
<1>2. CASE Row(<<"low", "high", "bank">>, 1)
  <2>1. ahead # <<>> /\ Head(ahead) = "low" /\ Tail(ahead) = <<"high", "bank">> /\ Behind(1)
    BY <1>2 DEF Row
  <2>2. Goes /\ ahead' = Tail(ahead) /\ Behind(2)' /\ LowFound' /\ Unwritten' /\ ins' = ins
    BY <1>1, <2>1, LowFetched DEF Goes
  <2>3. Head(<<"high", "bank">>) = "high"
    OBVIOUS
  <2> QED
    BY <2>1, <2>2, <2>3 DEF Jumping, Row, Calm
<1>3. CASE Row(<<"high", "bank">>, 2) /\ LowFound
  <2>1. ahead # <<>> /\ Head(ahead) = "high" /\ Tail(ahead) = <<"bank">> /\ Behind(2)
    BY <1>3 DEF Row
  <2>2. Goes /\ ahead' = Tail(ahead) /\ Behind(3)' /\ WordFound' /\ Unwritten' /\ ins' = ins
    BY <1>1, <1>3, <2>1, HighFetched DEF Goes
  <2>3. Head(<<"bank">>) = "bank"
    OBVIOUS
  <2> QED
    BY <2>1, <2>2, <2>3 DEF Jumping, Row, Calm
<1>4. CASE Row(<<"bank">>, 3) /\ WordFound
  <2>1. ahead # <<>> /\ Head(ahead) = "bank" /\ Tail(ahead) = <<>> /\ Last /\ Behind(3)
    BY <1>4 DEF Row, Last
  <2>2. PICK v \in Byte : ReadAt(Own(3), v) /\ pc' = base /\ pb' = v
    BY <2>1, BankRun
  <2>3. Goes /\ ahead' = <<>> /\ base' = base
    <3>1. Goes /\ ahead' = Tail(ahead) /\ base' = base
      BY <2>1, BankRun
    <3> QED
      BY <2>1, <3>1
  <2>4. /\ ins' = ins /\ reach' = reach /\ Unwritten' /\ Remembers /\ TypeOK'
        /\ Cell(Own(3)) \in DOMAIN first' /\ first'[Cell(Own(3))] = v
    BY <1>1, <2>2, <2>3 DEF Goes, ReadAt
  <2>5. IsFound(Own(3))' /\ Found(3)' = v
    BY <2>4 DEF IsFound, Found, Cell, Own
  <2>6. WordFound'
    BY <1>4, <2>3, <2>4, WordKept
  <2>7. At(Own(1), Own(2), Found(3))'
    <3>1. (/\ {Cell(Own(1)), Cell(Own(2))} \subseteq DOMAIN mem
           /\ base = Word(mem[Cell(Own(1))], mem[Cell(Own(2))]))'
      BY <2>4, <2>6, OwnWord, PTL
    <3> QED
      BY <2>2, <2>3, <2>5, <3>1 DEF At
  <2> QED
    BY <2>1, <2>3, <2>4, <2>5, <2>7 DEF Jumping, Calm
<1> QED
  BY <1>2, <1>3, <1>4 DEF Jumping

LEMMA JumpingStep ==
  ASSUME TypeOK, Asserts, Handled, Jumping, Next, ~Fail, ahead # <<>>
  PROVE  Goes /\ ahead' = Tail(ahead) /\ Jumping' /\ Calm'
  BY BrlStep, JmpStep, JmlStep DEF Jumping

-----------------------------------------------------------------------------
(* Jumps through a pointer.                                                *)

Indexed == Long(Bank(ins.at), Plus(FoundWord, ins.index))

Indirecting ==
    /\ Unwritten
    /\ \/ /\ ins.kind = "jmpIndirect"
          /\ \/ Row(<<"low", "high", "jumpLow", "jumpHigh">>, 1)
             \/ Row(<<"high", "jumpLow", "jumpHigh">>, 2) /\ LowFound
             \/ Row(<<"jumpLow", "jumpHigh">>, 3) /\ WordFound /\ point = FoundWord
             \/ /\ Row(<<"jumpHigh">>, 3) /\ WordFound /\ point = FoundWord
                /\ IsFound(point) /\ low = first[Cell(point)]
             \/ /\ ahead = <<>> /\ WordFound
                /\ At(FoundWord, Plus(FoundWord, 1), Bank(ins.at))
       \/ /\ ins.kind = "jmlIndirect"
          /\ \/ Row(<<"low", "high", "jumpLow", "jumpHigh", "jumpBank">>, 1)
             \/ Row(<<"high", "jumpLow", "jumpHigh", "jumpBank">>, 2) /\ LowFound
             \/ Row(<<"jumpLow", "jumpHigh", "jumpBank">>, 3) /\ WordFound /\ point = FoundWord
             \/ /\ Row(<<"jumpHigh", "jumpBank">>, 3) /\ WordFound /\ point = FoundWord
                /\ IsFound(point) /\ low = first[Cell(point)]
             \/ /\ ahead = <<"jumpBank">> /\ WordFound /\ point = FoundWord
                /\ At(FoundWord, Plus(FoundWord, 1), Bank(ins.at))
             \/ /\ ahead = <<>> /\ WordFound /\ IsKnown(Plus(FoundWord, 2))
                /\ At(FoundWord, Plus(FoundWord, 1), mem[Cell(Plus(FoundWord, 2))])
       \/ /\ ins.kind = "jmpIndirectX"
          /\ \/ Row(<<"low", "high", "here", "jumpLow", "jumpHigh">>, 1)
             \/ Row(<<"high", "here", "jumpLow", "jumpHigh">>, 2) /\ LowFound
             \/ Row(<<"here", "jumpLow", "jumpHigh">>, 3) /\ WordFound /\ point = Indexed
             \/ Row(<<"jumpLow", "jumpHigh">>, 3) /\ WordFound /\ point = Indexed
             \/ /\ Row(<<"jumpHigh">>, 3) /\ WordFound /\ point = Indexed
                /\ IsFound(point) /\ low = first[Cell(point)]
             \/ /\ ahead = <<>> /\ WordFound
                /\ At(Indexed, InBank(Indexed, 1), Bank(ins.at))

\* In bank zero, what is beside a word is the next word.
LEMMA InBankZero ==
  ASSUME NEW w \in Wide, NEW n \in Int
  PROVE  InBank(w, n) = Plus(w, n)
<1>1. ASSUME NEW x \in Wide PROVE Long(0, x) = x
  <2>1. x \in Int /\ BB \in Int
    BY Sizes
  <2> QED
    BY <2>1 DEF Long
<1>2. (w % BB) = w /\ Bank(w) = 0
  BY <1>1, LongPlace, Sizes
<1>3. Plus(w, n) \in Wide
  BY PlusWide, Sizes
<1> QED
  BY <1>1, <1>2, <1>3 DEF InBank

\* The low byte is read where the pointer is.
LEMMA JumpLowFetched ==
  ASSUME TypeOK, Asserts, Handled, Next, ~Fail, ahead # <<>>, Head(ahead) = "jumpLow",
         Unwritten, WordFound, Behind(3)
  PROVE  /\ Goes /\ ahead' = Tail(ahead) /\ Behind(3)'
         /\ WordFound' /\ FoundWord' = FoundWord /\ Unwritten' /\ point' = point
         /\ IsFound(point)' /\ low' = (first[Cell(point)])'
<1>1. /\ Goes /\ ahead' = Tail(ahead) /\ pc' = pc /\ pb' = pb /\ base' = base /\ point' = point
      /\ ReadAt(point, low')
  BY JumpLowRun
<1>2. ins' = ins /\ reach' = reach /\ Remembers
  BY <1>1 DEF Goes
<1>3. Unwritten' /\ Cell(point) \in DOMAIN first' /\ first'[Cell(point)] = low'
  BY <1>1 DEF ReadAt
<1>4. Behind(3)'
  BY <1>1, <1>2 DEF Behind
<1>5. IsFound(point)' /\ low' = (first[Cell(point)])'
  BY <1>1, <1>2, <1>3 DEF IsFound, Cell
<1> QED
  BY <1>1, <1>2, <1>3, <1>4, <1>5, WordKept

\* And the high one beside it.
LEMMA JumpHighFetched ==
  ASSUME TypeOK, Asserts, Handled, Next, ~Fail, ahead # <<>>, Head(ahead) = "jumpHigh",
         Unwritten, WordFound, Behind(3), IsFound(point), low = first[Cell(point)]
  PROVE  /\ Goes /\ ahead' = Tail(ahead)
         /\ WordFound' /\ FoundWord' = FoundWord /\ Unwritten' /\ point' = point
         /\ At(point, InBank(point, 1), Bank(ins.at))'
<1>1. Goes /\ ahead' = Tail(ahead) /\ pb' = pb /\ base' = base /\ point' = point
  BY JumpHighRun
<1>2. PICK v \in Byte : ReadAt(InBank(point, 1), v) /\ pc' = Word(low, v)
  BY JumpHighRun
<1>3. ins' = ins /\ reach' = reach /\ Remembers
  BY <1>1 DEF Goes
<1>4. /\ Unwritten' /\ Agrees
      /\ Cell(InBank(point, 1)) \in DOMAIN mem' /\ mem'[Cell(InBank(point, 1))] = v
  BY <1>2 DEF ReadAt
<1>5. Cell(point) \in DOMAIN mem' /\ mem'[Cell(point)] = low
  <2>1. Cell(point) \in DOMAIN mem /\ mem[Cell(point)] = low
    BY FoundKnown
  <2> QED
    BY <1>4, <2>1 DEF Agrees
<1>6. Cell(point)' = Cell(point) /\ Cell(InBank(point, 1))' = Cell(InBank(point, 1))
  BY <1>1, <1>3 DEF Cell, InBank
<1>7. pb' = Bank(ins'.at)
  BY <1>1, <1>3 DEF Behind
<1>8. At(point, InBank(point, 1), Bank(ins.at))'
  BY <1>2, <1>4, <1>5, <1>6, <1>7 DEF At
<1> QED
  BY <1>1, <1>3, <1>4, <1>8, WordKept

\* The operand that says where the pointer is.
LEMMA PointerFetched ==
  ASSUME TypeOK, Asserts, Handled, Next, ~Fail, ahead # <<>>, Head(ahead) = "high", Behind(2),
         Unwritten, LowFound, ins.kind \in {"jmpIndirect", "jmlIndirect", "jmpIndirectX"}
  PROVE  /\ Goes /\ ahead' = Tail(ahead) /\ Behind(3)' /\ WordFound' /\ Unwritten'
         /\ ins.kind = "jmpIndirectX" => point' = Indexed'
         /\ ins.kind # "jmpIndirectX" => point' = FoundWord'
<1>1. /\ Goes /\ ahead' = Tail(ahead) /\ Behind(3)' /\ WordFound' /\ Unwritten'
      /\ ins.mode # "indirectX" => point' = base'
      /\ ins.mode = "indirectX" => point' = Long(Bank(ins.at), Plus(base', ins.index))
  BY HighFetched
<1>2. ins.mode = "indirectX" <=> ins.kind = "jmpIndirectX"
  BY DEF Handled, ModeOf
<1>3. ins' = ins /\ base' = FoundWord'
  BY <1>1 DEF Goes, WordFound
<1> QED
  BY <1>1, <1>2, <1>3 DEF Indexed

LEMMA JmpIndirectStep ==
  ASSUME TypeOK, Asserts, Handled, Indirecting, Next, ~Fail, ahead # <<>>,
         ins.kind = "jmpIndirect"
  PROVE  Goes /\ ahead' = Tail(ahead) /\ Indirecting' /\ Calm'
<1>1. Unwritten
  BY DEF Indirecting
<1>2. CASE Row(<<"low", "high", "jumpLow", "jumpHigh">>, 1)
  <2>1. ahead # <<>> /\ Head(ahead) = "low" /\ Behind(1)
        /\ Tail(ahead) = <<"high", "jumpLow", "jumpHigh">>
    BY <1>2 DEF Row
  <2>2. Goes /\ ahead' = Tail(ahead) /\ Behind(2)' /\ LowFound' /\ Unwritten' /\ ins' = ins
    BY <1>1, <2>1, LowFetched DEF Goes
  <2>3. Head(<<"high", "jumpLow", "jumpHigh">>) = "high"
    OBVIOUS
  <2> QED
    BY <2>1, <2>2, <2>3 DEF Indirecting, Row, Calm
<1>3. CASE Row(<<"high", "jumpLow", "jumpHigh">>, 2) /\ LowFound
  <2>1. ahead # <<>> /\ Head(ahead) = "high" /\ Behind(2)
        /\ Tail(ahead) = <<"jumpLow", "jumpHigh">>
    BY <1>3 DEF Row
  <2>2. /\ Goes /\ ahead' = Tail(ahead) /\ Behind(3)' /\ WordFound' /\ Unwritten' /\ ins' = ins
        /\ point' = FoundWord'
    BY <1>1, <1>3, <2>1, PointerFetched DEF Goes
  <2>3. Head(<<"jumpLow", "jumpHigh">>) = "jumpLow"
    OBVIOUS
  <2> QED
    BY <2>1, <2>2, <2>3 DEF Indirecting, Row, Calm
<1>4. CASE Row(<<"jumpLow", "jumpHigh">>, 3) /\ WordFound /\ point = FoundWord
  <2>1. ahead # <<>> /\ Head(ahead) = "jumpLow" /\ Behind(3) /\ Tail(ahead) = <<"jumpHigh">>
    BY <1>4 DEF Row
  <2>2. /\ Goes /\ ahead' = Tail(ahead) /\ Behind(3)' /\ WordFound' /\ Unwritten' /\ ins' = ins
        /\ point' = FoundWord' /\ IsFound(point)' /\ low' = (first[Cell(point)])'
    BY <1>1, <1>4, <2>1, JumpLowFetched DEF Goes
  <2>3. Head(<<"jumpHigh">>) = "jumpHigh"
    OBVIOUS
  <2> QED
    BY <2>1, <2>2, <2>3 DEF Indirecting, Row, Calm
<1>5. CASE /\ Row(<<"jumpHigh">>, 3) /\ WordFound /\ point = FoundWord
           /\ IsFound(point) /\ low = first[Cell(point)]
  <2>1. ahead # <<>> /\ Head(ahead) = "jumpHigh" /\ Behind(3) /\ Tail(ahead) = <<>>
    BY <1>5 DEF Row
  <2>2. /\ Goes /\ ahead' = Tail(ahead) /\ WordFound' /\ Unwritten' /\ ins' = ins
        /\ point' = FoundWord' /\ At(point, InBank(point, 1), Bank(ins.at))'
    BY <1>1, <1>5, <2>1, JumpHighFetched DEF Goes
  <2>3. InBank(FoundWord', 1) = Plus(FoundWord', 1)
    <3>1. TypeOK' /\ WordFound'
      BY <2>2 DEF Goes
    <3>2. (FoundWord \in Wide)'
      BY <3>1, FoundWide, PTL
    <3> QED
      BY <3>2, InBankZero
  <2>4. At(FoundWord, Plus(FoundWord, 1), Bank(ins.at))'
    BY <2>2, <2>3 DEF At, Cell, InBank
  <2> QED
    BY <2>1, <2>2, <2>4 DEF Indirecting, Calm
<1> QED
  BY <1>2, <1>3, <1>4, <1>5 DEF Indirecting, Row

LEMMA JmlIndirectStep ==
  ASSUME TypeOK, Asserts, Handled, Indirecting, Next, ~Fail, ahead # <<>>,
         ins.kind = "jmlIndirect"
  PROVE  Goes /\ ahead' = Tail(ahead) /\ Indirecting' /\ Calm'
<1>1. Unwritten
  BY DEF Indirecting
<1>2. CASE Row(<<"low", "high", "jumpLow", "jumpHigh", "jumpBank">>, 1)
  <2>1. ahead # <<>> /\ Head(ahead) = "low" /\ Behind(1)
        /\ Tail(ahead) = <<"high", "jumpLow", "jumpHigh", "jumpBank">>
    BY <1>2 DEF Row
  <2>2. Goes /\ ahead' = Tail(ahead) /\ Behind(2)' /\ LowFound' /\ Unwritten' /\ ins' = ins
    BY <1>1, <2>1, LowFetched DEF Goes
  <2>3. Head(<<"high", "jumpLow", "jumpHigh", "jumpBank">>) = "high"
    OBVIOUS
  <2> QED
    BY <2>1, <2>2, <2>3 DEF Indirecting, Row, Calm
<1>3. CASE Row(<<"high", "jumpLow", "jumpHigh", "jumpBank">>, 2) /\ LowFound
  <2>1. ahead # <<>> /\ Head(ahead) = "high" /\ Behind(2)
        /\ Tail(ahead) = <<"jumpLow", "jumpHigh", "jumpBank">>
    BY <1>3 DEF Row
  <2>2. /\ Goes /\ ahead' = Tail(ahead) /\ Behind(3)' /\ WordFound' /\ Unwritten' /\ ins' = ins
        /\ point' = FoundWord'
    BY <1>1, <1>3, <2>1, PointerFetched DEF Goes
  <2>3. Head(<<"jumpLow", "jumpHigh", "jumpBank">>) = "jumpLow"
    OBVIOUS
  <2> QED
    BY <2>1, <2>2, <2>3 DEF Indirecting, Row, Calm
<1>4. CASE Row(<<"jumpLow", "jumpHigh", "jumpBank">>, 3) /\ WordFound /\ point = FoundWord
  <2>1. ahead # <<>> /\ Head(ahead) = "jumpLow" /\ Behind(3)
        /\ Tail(ahead) = <<"jumpHigh", "jumpBank">>
    BY <1>4 DEF Row
  <2>2. /\ Goes /\ ahead' = Tail(ahead) /\ Behind(3)' /\ WordFound' /\ Unwritten' /\ ins' = ins
        /\ point' = FoundWord' /\ IsFound(point)' /\ low' = (first[Cell(point)])'
    BY <1>1, <1>4, <2>1, JumpLowFetched DEF Goes
  <2>3. Head(<<"jumpHigh", "jumpBank">>) = "jumpHigh"
    OBVIOUS
  <2> QED
    BY <2>1, <2>2, <2>3 DEF Indirecting, Row, Calm
<1>5. CASE /\ Row(<<"jumpHigh", "jumpBank">>, 3) /\ WordFound /\ point = FoundWord
           /\ IsFound(point) /\ low = first[Cell(point)]
  <2>1. ahead # <<>> /\ Head(ahead) = "jumpHigh" /\ Behind(3) /\ Tail(ahead) = <<"jumpBank">>
    BY <1>5 DEF Row
  <2>2. /\ Goes /\ ahead' = Tail(ahead) /\ WordFound' /\ Unwritten' /\ ins' = ins
        /\ point' = FoundWord' /\ At(point, InBank(point, 1), Bank(ins.at))'
    BY <1>1, <1>5, <2>1, JumpHighFetched DEF Goes
  <2>3. InBank(FoundWord', 1) = Plus(FoundWord', 1)
    <3>1. TypeOK' /\ WordFound'
      BY <2>2 DEF Goes
    <3>2. (FoundWord \in Wide)'
      BY <3>1, FoundWide, PTL
    <3> QED
      BY <3>2, InBankZero
  <2>4. At(FoundWord, Plus(FoundWord, 1), Bank(ins.at))'
    BY <2>2, <2>3 DEF At, Cell, InBank
  <2>5. Head(<<"jumpBank">>) = "jumpBank"
    OBVIOUS
  <2> QED
    BY <2>1, <2>2, <2>4, <2>5 DEF Indirecting, Calm
<1>6. CASE /\ ahead = <<"jumpBank">> /\ WordFound /\ point = FoundWord
           /\ At(FoundWord, Plus(FoundWord, 1), Bank(ins.at))
  <2>1. ahead # <<>> /\ Head(ahead) = "jumpBank" /\ Tail(ahead) = <<>>
    BY <1>6
  <2>2. /\ Goes /\ ahead' = <<>> /\ pc' = pc /\ base' = base /\ pb' \in Byte
        /\ ReadAt(InBank(point, 2), pb')
    BY <2>1, JumpBankRun
  <2>3. ins' = ins /\ reach' = reach /\ Remembers
    BY <2>2 DEF Goes
  <2>4. WordFound' /\ FoundWord' = FoundWord
    BY <1>6, <2>2, <2>3, WordKept
  <2>5. InBank(point, 2) = Plus(FoundWord, 2)
    BY <1>6, FoundWide, InBankZero
  <2>6. /\ Unwritten' /\ Agrees
        /\ Cell(Plus(FoundWord, 2)) \in DOMAIN mem' /\ mem'[Cell(Plus(FoundWord, 2))] = pb'
    BY <1>1, <2>2, <2>5 DEF ReadAt
  <2>7. At(FoundWord, Plus(FoundWord, 1), mem[Cell(Plus(FoundWord, 2))])'
    <3> DEFINE a == Cell(FoundWord)
               b == Cell(Plus(FoundWord, 1))
               c == Cell(Plus(FoundWord, 2))
    <3>1. Cell(FoundWord)' = a /\ Cell(Plus(FoundWord, 1))' = b /\ Cell(Plus(FoundWord, 2))' = c
      BY <2>3, <2>4 DEF Cell
    <3>2. /\ a \in DOMAIN mem /\ b \in DOMAIN mem /\ pc = Word(mem[a], mem[b])
      BY <1>6 DEF At
    <3>3. /\ a \in DOMAIN mem' /\ b \in DOMAIN mem' /\ mem'[a] = mem[a] /\ mem'[b] = mem[b]
          /\ mem'[c] = pb'
      BY <2>6, <3>2 DEF Agrees
    <3> HIDE DEF a, b, c
    <3> QED
      BY <2>2, <3>1, <3>2, <3>3 DEF At
  <2>8. IsKnown(Plus(FoundWord, 2))'
    BY <2>3, <2>4, <2>6 DEF IsKnown, Cell
  <2> QED
    BY <1>6, <2>2, <2>3, <2>4, <2>6, <2>7, <2>8 DEF Indirecting, Calm
<1> QED
  BY <1>2, <1>3, <1>4, <1>5, <1>6 DEF Indirecting, Row

LEMMA JmpIndirectXStep ==
  ASSUME TypeOK, Asserts, Handled, Indirecting, Next, ~Fail, ahead # <<>>,
         ins.kind = "jmpIndirectX"
  PROVE  Goes /\ ahead' = Tail(ahead) /\ Indirecting' /\ Calm'
<1>1. Unwritten
  BY DEF Indirecting
<1>2. CASE Row(<<"low", "high", "here", "jumpLow", "jumpHigh">>, 1)
  <2>1. ahead # <<>> /\ Head(ahead) = "low" /\ Behind(1)
        /\ Tail(ahead) = <<"high", "here", "jumpLow", "jumpHigh">>
    BY <1>2 DEF Row
  <2>2. Goes /\ ahead' = Tail(ahead) /\ Behind(2)' /\ LowFound' /\ Unwritten' /\ ins' = ins
    BY <1>1, <2>1, LowFetched DEF Goes
  <2>3. Head(<<"high", "here", "jumpLow", "jumpHigh">>) = "high"
    OBVIOUS
  <2> QED
    BY <2>1, <2>2, <2>3 DEF Indirecting, Row, Calm
<1>3. CASE Row(<<"high", "here", "jumpLow", "jumpHigh">>, 2) /\ LowFound
  <2>1. ahead # <<>> /\ Head(ahead) = "high" /\ Behind(2)
        /\ Tail(ahead) = <<"here", "jumpLow", "jumpHigh">>
    BY <1>3 DEF Row
  <2>2. /\ Goes /\ ahead' = Tail(ahead) /\ Behind(3)' /\ WordFound' /\ Unwritten' /\ ins' = ins
        /\ point' = Indexed'
    BY <1>1, <1>3, <2>1, PointerFetched DEF Goes
  <2>3. Head(<<"here", "jumpLow", "jumpHigh">>) = "here"
    OBVIOUS
  <2> QED
    BY <2>1, <2>2, <2>3 DEF Indirecting, Row, Calm
<1>4. CASE Row(<<"here", "jumpLow", "jumpHigh">>, 3) /\ WordFound /\ point = Indexed
  <2>1. ahead # <<>> /\ Head(ahead) = "here" /\ Behind(3)
        /\ Tail(ahead) = <<"jumpLow", "jumpHigh">>
    BY <1>4 DEF Row
  <2>2. /\ Goes /\ ahead' = Tail(ahead) /\ Unwritten' /\ pc' = pc /\ pb' = pb
        /\ base' = base /\ point' = point
    BY <1>1, <2>1, IdleRun
  <2>3. ins' = ins /\ reach' = reach /\ Remembers
    BY <2>2 DEF Goes
  <2>4. WordFound' /\ FoundWord' = FoundWord
    BY <1>4, <2>2, <2>3, WordKept
  <2>5. Behind(3)' /\ point' = Indexed'
    BY <1>4, <2>1, <2>2, <2>3, <2>4 DEF Behind, Indexed
  <2>6. Head(<<"jumpLow", "jumpHigh">>) = "jumpLow"
    OBVIOUS
  <2> QED
    BY <2>1, <2>2, <2>3, <2>4, <2>5, <2>6 DEF Indirecting, Row, Calm
<1>5. CASE Row(<<"jumpLow", "jumpHigh">>, 3) /\ WordFound /\ point = Indexed
  <2>1. ahead # <<>> /\ Head(ahead) = "jumpLow" /\ Behind(3) /\ Tail(ahead) = <<"jumpHigh">>
    BY <1>5 DEF Row
  <2>2. /\ Goes /\ ahead' = Tail(ahead) /\ Behind(3)' /\ WordFound' /\ Unwritten' /\ ins' = ins
        /\ FoundWord' = FoundWord /\ point' = point
        /\ IsFound(point)' /\ low' = (first[Cell(point)])'
    BY <1>1, <1>5, <2>1, JumpLowFetched DEF Goes
  <2>3. point' = Indexed'
    BY <1>5, <2>2 DEF Indexed
  <2>4. Head(<<"jumpHigh">>) = "jumpHigh"
    OBVIOUS
  <2> QED
    BY <2>1, <2>2, <2>3, <2>4 DEF Indirecting, Row, Calm
<1>6. CASE /\ Row(<<"jumpHigh">>, 3) /\ WordFound /\ point = Indexed
           /\ IsFound(point) /\ low = first[Cell(point)]
  <2>1. ahead # <<>> /\ Head(ahead) = "jumpHigh" /\ Behind(3) /\ Tail(ahead) = <<>>
    BY <1>6 DEF Row
  <2>2. /\ Goes /\ ahead' = Tail(ahead) /\ WordFound' /\ Unwritten' /\ ins' = ins
        /\ FoundWord' = FoundWord /\ point' = point
        /\ At(point, InBank(point, 1), Bank(ins.at))'
    BY <1>1, <1>6, <2>1, JumpHighFetched DEF Goes
  <2>3. point' = Indexed'
    BY <1>6, <2>2 DEF Indexed
  <2>4. At(Indexed, InBank(Indexed, 1), Bank(ins.at))'
    BY <2>2, <2>3 DEF At, Cell, InBank
  <2> QED
    BY <2>1, <2>2, <2>4 DEF Indirecting, Calm
<1> QED
  BY <1>2, <1>3, <1>4, <1>5, <1>6 DEF Indirecting, Row

LEMMA IndirectingStep ==
  ASSUME TypeOK, Asserts, Handled, Indirecting, Next, ~Fail, ahead # <<>>
  PROVE  Goes /\ ahead' = Tail(ahead) /\ Indirecting' /\ Calm'
  BY JmpIndirectStep, JmlIndirectStep, JmpIndirectXStep DEF Indirecting

-----------------------------------------------------------------------------
(* The stack.                                                              *)

\* The place n above another: below it, if n is negative.
Around(p, n) == IF ins.kind \in Flat THEN Plus(p, n) ELSE InPageOne(Plus(p, n))

\* Where an instruction may find its stack pointer.
Tops == {p \in Wide : ins.e => p = Word(Low(p), 1)}

\* The byte pushed after n others, from p down.
Down(p, n) == Cell(Around(p, 0 - n))

Laid(p, n, v) == Down(p, n) \in DOMAIN mem /\ mem[Down(p, n)] = v

\* The return address is on the stack after n other bytes.
Return(p, n, w) == Laid(p, n, High(w)) /\ Laid(p, n + 1, Low(w))

\* The pointer, n bytes from where it was, with more to go and with none.
Below(p, n) == s = Around(p, 0 - n)

Settled(p, n) == s = InPageOne(Plus(p, n))

\* What a call returns to: the byte before the next instruction.
Calls == Plus(After, -1)

\* Numbers nearer than n have different remainders.
LEMMA RemainderApart ==
  ASSUME NEW n \in Nat \ {0}, NEW t \in Int, NEW u \in Int, (t % n) = (u % n), t - u < n, u - t < n
  PROVE  t = u
<1> DEFINE q == t \div n
           p == u \div n
           r == t % n
<1>1. t = n * q + r /\ u = n * p + r /\ q \in Int /\ p \in Int /\ r \in Int
  BY Remainder
<1> HIDE DEF q, p, r
<1>2. t - u = n * (q - p) /\ q - p \in Int
  <2>1. n * (q - p) = n * q - n * p
    BY <1>1
  <2>2. n * q \in Int /\ n * p \in Int
    BY <1>1
  <2> QED
    BY <1>1, <2>1, <2>2
<1>3. PICK d \in Int : d = q - p
  BY <1>2
<1>4. ~(d >= 1)
  <2>1. d >= 1 => n * d >= n
    OBVIOUS
  <2> QED
    BY <1>2, <1>3, <2>1
<1>5. ~(d <= -1)
  <2>1. d <= -1 => n * d <= 0 - n
    OBVIOUS
  <2> QED
    BY <1>2, <1>3, <2>1
<1>6. d = 0 /\ n * 0 = 0
  BY <1>4, <1>5
<1> QED
  BY <1>2, <1>3, <1>6

\* Words of one cell are one word.
LEMMA CellWord ==
  ASSUME TypeOK, NEW a \in Int
  PROVE  (Cell(a) % BB) = (a % BB)
<1> DEFINE bb == BB
<1>1. bb \in Nat \ {0} /\ B \in Nat \ {0} /\ reach \in {bb, bb * B}
  BY Sizes, ReachAssumption DEF TypeOK, BB
<1> HIDE DEF bb
<1>2. ((a % (bb * B)) % bb) = (a % bb)
  BY <1>1, RemainderTwice
<1>3. ((a % bb) % bb) = (a % bb)
  <2>1. (a % bb) \in 0..(bb - 1)
    BY <1>1, Remainder
  <2> QED
    BY <1>1, <2>1, RemainderSelf
<1>4. ((a % reach) % bb) = (a % bb)
  BY <1>1, <1>2, <1>3
<1> QED
  BY <1>4 DEF Cell, bb

\* Low bytes add up, whatever is carried out of them.
LEMMA LowPlus ==
  ASSUME NEW w \in Int, NEW n \in Int
  PROVE  Low(Plus(w, n)) = ((Low(w) + n) % B) /\ Low(Plus(w, n)) = ((w + n) % B)
<1>1. B \in Nat \ {0} /\ w + n \in Int
  BY Sizes
<1>2. (((w + n) % (B * B)) % B) = ((w + n) % B)
  BY <1>1, RemainderTwice
<1>3. (((w % B) + n) % B) = ((w + n) % B)
  BY <1>1, RemainderPlus
<1> QED
  BY <1>2, <1>3 DEF Low, Plus, BB

\* The stack pointer moves within its page as it would without one.
LEMMA InPageOnePlus ==
  ASSUME TypeOK, NEW w \in Int, NEW n \in Int
  PROVE  /\ InPageOne(w) \in Int
         /\ InPageOne(Plus(InPageOne(w), n)) = InPageOne(Plus(w, n))
<1>1. CASE ins.e
  <2>1. Low(w) \in Byte /\ 1 \in Byte
    <3>1. B >= 3 /\ B \in Nat
      BY Sizes
    <3> QED
      BY <3>1, ByteOf DEF Byte
  <2> DEFINE x == Word(Low(w), 1)
  <2>2. x \in Wide /\ Low(x) = Low(w)
    BY <2>1, WordOfBytes
  <2> HIDE DEF x
  <2>3. x \in Int
    BY <2>2, Sizes
  <2>4. Low(Plus(x, n)) = Low(Plus(w, n))
    BY <2>2, <2>3, LowPlus
  <2>5. InPageOne(w) = x
    BY <1>1 DEF InPageOne, x
  <2> QED
    BY <1>1, <2>3, <2>4, <2>5 DEF InPageOne
<1>2. CASE ~ins.e
  BY <1>2 DEF InPageOne
<1> QED
  BY <1>1, <1>2

\* A place around another is a word.
LEMMA AroundWide ==
  ASSUME TypeOK, NEW p \in Int, NEW n \in Int
  PROVE  Around(p, n) \in Wide /\ Around(p, n) \in Int
<1>1. Plus(p, n) \in Wide /\ (\A w \in Wide : w \in Int)
  BY PlusWide, Sizes
<1>2. Around(p, n) \in Wide
  <2>1. CASE ins.e /\ ins.kind \notin Flat
    <3>1. Plus(p, n) \in Int
      BY <1>1, Zenon
    <3>2. Low(Plus(p, n)) \in Byte /\ 1 \in Byte
      <4>1. B >= 3 /\ B \in Nat
        BY Sizes
      <4> QED
        BY <3>1, <4>1, ByteOf DEF Byte
    <3>3. Word(Low(Plus(p, n)), 1) \in Wide
      BY <3>2, WordOfBytes
    <3> QED
      BY <2>1, <3>3 DEF Around, InPageOne
  <2>2. CASE ~(ins.e /\ ins.kind \notin Flat)
    BY <1>1, <2>2 DEF Around, InPageOne
  <2> QED
    BY <2>1, <2>2
<1> QED
  BY <1>1, <1>2

\* The pointer moves on from where it has moved to.
LEMMA MovedOn ==
  ASSUME TypeOK, NEW p \in Int, NEW m \in Int, NEW n \in Int, s = Around(p, m)
  PROVE  /\ Moved(n) = Around(p, m + n)
         /\ Kept(n) = IF More THEN Around(p, m + n) ELSE InPageOne(Plus(p, m + n))
<1>1. Plus(p, m) \in Int
  <2>1. Plus(p, m) \in Wide /\ (\A w \in Wide : w \in Int)
    BY PlusWide, Sizes
  <2> QED
    BY <2>1, Zenon
<1>2. Plus(Plus(p, m), n) = Plus(p, m + n)
  BY PlusPlus
<1>3. InPageOne(Plus(InPageOne(Plus(p, m)), n)) = InPageOne(Plus(p, m + n))
  BY <1>1, <1>2, InPageOnePlus
<1>4. InPageOne(Plus(s, n)) = InPageOne(Plus(p, m + n))
  BY <1>2, <1>3 DEF Around
<1>5. Moved(n) = Around(p, m + n)
  BY <1>2, <1>4 DEF Moved, Around
<1> QED
  BY <1>4, <1>5 DEF Kept

\* What is pushed is pushed apart.
LEMMA Apart ==
  ASSUME TypeOK, NEW p \in Int, NEW m \in Int, NEW n \in Int, m # n,
         m - n < 4, n - m < 4,
         ins.e /\ ins.kind \notin Flat => m - n < 3 /\ n - m < 3
  PROVE  Down(p, m) # Down(p, n)
<1> SUFFICES ASSUME Down(p, m) = Down(p, n) PROVE FALSE
  OBVIOUS
<1> DEFINE a == Around(p, 0 - m)
           b == Around(p, 0 - n)
<1>1. a \in Wide /\ b \in Wide /\ a \in Int /\ b \in Int
  <2>1. 0 - m \in Int /\ 0 - n \in Int
    OBVIOUS
  <2> QED
    BY <2>1, AroundWide
<1>2. a = b
  <2>1. (a % BB) = (b % BB)
    <3>1. Cell(a) = Cell(b)
      BY DEF Down
    <3>2. (Cell(a) % BB) = (a % BB) /\ (Cell(b) % BB) = (b % BB)
      BY <1>1, CellWord
    <3> QED
      BY <3>1, <3>2
  <2>2. (a % BB) = a /\ (b % BB) = b
    <3> HIDE DEF a, b
    <3> QED
      BY <1>1, Sizes, RemainderSelf DEF Wide
  <2> QED
    BY <2>1, <2>2
<1>3. /\ p - m \in Int /\ p - n \in Int /\ p + (0 - m) = p - m /\ p + (0 - n) = p - n
      /\ (p - m) - (p - n) = n - m /\ (p - n) - (p - m) = m - n
  OBVIOUS
<1>4. CASE ins.e /\ ins.kind \notin Flat
  <2>1. Low(Plus(p, 0 - m)) = Low(Plus(p, 0 - n))
    <3>1. /\ Plus(p, 0 - m) \in Wide /\ Plus(p, 0 - n) \in Wide
          /\ \A w \in Wide : w \in Int
      BY PlusWide, Sizes
    <3>2. Plus(p, 0 - m) \in Int /\ Plus(p, 0 - n) \in Int
      BY <3>1, Zenon
    <3>3. Low(Plus(p, 0 - m)) \in Byte /\ Low(Plus(p, 0 - n)) \in Byte /\ 1 \in Byte
      <4>1. B >= 3 /\ B \in Nat
        BY Sizes
      <4> QED
        BY <3>2, <4>1, ByteOf DEF Byte
    <3>4. Word(Low(Plus(p, 0 - m)), 1) = Word(Low(Plus(p, 0 - n)), 1)
      BY <1>2, <1>4 DEF Around, InPageOne
    <3> QED
      BY <3>3, <3>4, WordOfBytes
  <2>2. ((p - m) % B) = ((p - n) % B)
    BY <1>3, <2>1, LowPlus
  <2>3. B \in Nat \ {0} /\ B >= 3
    BY Sizes
  <2>4. p - m = p - n
    <3>1. (p - m) - (p - n) < B /\ (p - n) - (p - m) < B
      BY <1>3, <1>4, <2>3
    <3> QED
      BY <1>3, <2>2, <2>3, <3>1, RemainderApart
  <2> QED
    BY <2>4
<1>5. CASE ~(ins.e /\ ins.kind \notin Flat)
  <2>1. Plus(p, 0 - m) = Plus(p, 0 - n)
    BY <1>2, <1>5 DEF Around, InPageOne
  <2>2. ((p - m) % BB) = ((p - n) % BB)
    BY <1>3, <2>1 DEF Plus
  <2> DEFINE bb == BB
  <2>3. bb \in Nat \ {0} /\ bb >= 9 /\ ((p - m) % bb) = ((p - n) % bb)
    BY <2>2, Sizes
  <2> HIDE DEF bb
  <2>4. p - m = p - n
    <3>1. (p - m) - (p - n) < bb /\ (p - n) - (p - m) < bb
      BY <1>3, <2>3
    <3> QED
      BY <1>3, <2>3, <3>1, RemainderApart
  <2> QED
    BY <2>4
<1> QED
  BY <1>4, <1>5

\* At the top, nothing has moved.
LEMMA AtTop ==
  ASSUME TypeOK, NEW p \in Tops
  PROVE  p \in Wide /\ p \in Int /\ Around(p, 0) = p /\ (Below(p, 0) <=> s = p)
<1>1. p \in Wide /\ p \in Int /\ (ins.e => p = Word(Low(p), 1))
  BY Sizes DEF Tops
<1>2. Plus(p, 0) = p
  BY <1>1, PlusNothing
<1>3. Around(p, 0) = p
  BY <1>1, <1>2 DEF Around, InPageOne
<1>4. 0 - 0 = 0
  OBVIOUS
<1> QED
  BY <1>1, <1>3, <1>4 DEF Below

\* Where things are stays where it is.
LEMMA DownKept ==
  ASSUME ins' = ins, reach' = reach
  PROVE  /\ \A p, n : Down(p, n)' = Down(p, n) /\ Around(p, n)' = Around(p, n)
         /\ Tops' = Tops
<1>1. \A p, n : Around(p, n)' = Around(p, n)
  BY DEF Around, InPageOne
<1>2. \A p, n : Down(p, n)' = Down(p, n)
  BY DEF Around, InPageOne, Down, Cell
<1>3. Tops' = Tops
  BY DEF Tops
<1> QED
  BY <1>1, <1>2, <1>3

\* And a call returns where it did.
LEMMA CallsAre ==
  ASSUME TypeOK, Handled
  PROVE  /\ ins' = ins => Calls' = Calls /\ After' = After
         /\ ins.kind = "jsr" /\ Behind(3) => PushedWord = Calls
         /\ ins.kind = "jsl" /\ Behind(4) => PushedWord = Calls
         /\ ins.kind = "jsrIndirectX" /\ Behind(2) => PushedWord = Calls
         /\ Calls \in Wide
<1>1. ins' = ins => Calls' = Calls /\ After' = After
  BY DEF Calls, After, operand_size
<1>2. ins.kind \in {"jsr", "jsrIndirectX"} => operand_size = 2
  BY DEF Handled, ModeOf, operand_size, MODE_SIZE
<1>3. ins.kind = "jsl" => operand_size = 3
  BY DEF Handled, ModeOf, operand_size, MODE_SIZE
<1> DEFINE at == ins.at % BB
           k == 0 - 1
<1>4. at \in Wide /\ at \in Int /\ k \in Int /\ -1 = k
  <2>1. ins.at \in Int
    BY Numbers
  <2>2. at \in Wide
    BY <2>1, BankByte
  <2>3. at \in Int
    BY <2>2, Sizes
  <2>4. k \in Int /\ -1 = k
    OBVIOUS
  <2> QED
    BY <2>2, <2>3, <2>4
<1> HIDE DEF k
<1>5. ins.kind = "jsr" /\ Behind(3) => PushedWord = Calls
  BY <1>2 DEF Behind, PushedWord, Calls, After
<1>6. ins.kind = "jsl" /\ Behind(4) => PushedWord = Calls
  BY <1>3 DEF Behind, PushedWord, Calls, After
<1>7. ins.kind = "jsrIndirectX" /\ Behind(2) => PushedWord = Calls
  <2> SUFFICES ASSUME ins.kind = "jsrIndirectX", Behind(2) PROVE PushedWord = Calls
    OBVIOUS
  <2>1. PushedWord = Plus(at, 2) /\ After = Plus(at, 3)
    BY <1>2 DEF Behind, PushedWord, After
  <2>2. Calls = Plus(Plus(at, 3), k)
    BY <1>4, <2>1 DEF Calls
  <2> HIDE DEF at
  <2>3. Plus(Plus(at, 3), k) = Plus(at, 3 + k) /\ 3 + k = 2
    <3>1. 3 + k = 2
      BY <1>4
    <3> QED
      BY <1>4, <3>1, PlusPlus
  <2> QED
    BY <2>1, <2>2, <2>3
<1>8. Calls \in Wide
  BY <1>4, AfterWide, PlusWide DEF Calls
<1> QED
  BY <1>1, <1>5, <1>6, <1>7, <1>8

\* What a byte written is known to be.
WroteAt(c, v) ==
    /\ c \in DOMAIN mem' /\ mem'[c] = v
    /\ \A d \in DOMAIN mem : d \in DOMAIN mem' /\ (d # c => mem'[d] = mem[d])

\* The pointer goes down a byte at a time, and up.
LEMMA MovedDown ==
  ASSUME TypeOK, NEW p \in Int, NEW k \in Int, NEW n \in Int, n = k + 1, Below(p, k)
  PROVE  Kept(-1) = IF More THEN Around(p, 0 - n) ELSE InPageOne(Plus(p, 0 - n))
<1>1. PICK a \in Int, b \in Int, c \in Int : a = 0 - k /\ b = -1 /\ c = 0 - n
  <2>1. 0 - k \in Int /\ -1 \in Int /\ 0 - n \in Int
    OBVIOUS
  <2> QED
    BY <2>1, Zenon
<1>2. c = a + b
  BY <1>1
<1>3. s = Around(p, a)
  BY <1>1 DEF Below
<1>4. Kept(b) = IF More THEN Around(p, c) ELSE InPageOne(Plus(p, c))
  BY <1>2, <1>3, MovedOn, ZenonT(40)
<1> QED
  BY <1>1, <1>4

\* A byte is pushed, after k others.
LEMMA PushRun ==
  ASSUME TypeOK, Asserts, Handled, Next, ~Fail, ahead # <<>>, Head(ahead) \in Pushing,
         NEW p \in Int, NEW k \in Int, NEW n \in Int, n = k + 1, Below(p, k)
  PROVE  /\ Goes /\ ahead' = Tail(ahead) /\ first' = first
         /\ low' = low /\ base' = base /\ point' = point /\ addr' = addr
         /\ pc' = IF Last /\ ins.kind \in {"jsr", "jsl"} THEN base ELSE pc
         /\ pb' = IF Last /\ ins.kind = "jsl" THEN Bank(addr) ELSE pb
         /\ More => Below(p, n)'
         /\ ~More => Settled(p, 0 - n)'
         /\ \E v \in Values[Head(ahead)] : WroteAt(Down(p, k), v)
<1>1. Push /\ Goes
  <2>1. Head(ahead) \notin Telling /\ Head(ahead) # "leave"
    BY DEF Telling, AtData, Pushing
  <2> QED
    BY <2>1, HandledIs, Acts, Underway DEF Pushing
<1>2. PICK v \in Values[Head(ahead)] : Writes(Head(ahead), s, v)
  BY <1>1 DEF Push, Doing
<1>3. Values[Head(ahead)] \subseteq Byte
  <2>1. PushedWord \in Int
    <3>1. Signed(base, BB) \in Int
      BY Numbers, SignedInt, Sizes
    <3> DEFINE j == 0 - 1
    <3>2. j \in Int /\ -1 = j
      OBVIOUS
    <3> HIDE DEF j
    <3>3. Plus(pc, Signed(base, BB)) \in Wide /\ Plus(pc, j) \in Wide
      BY <3>1, <3>2, Numbers, PlusWide
    <3>4. Plus(pc, Signed(base, BB)) \in Int /\ Plus(pc, -1) \in Int /\ pc \in Int /\ base \in Int
      BY <3>2, <3>3, Numbers, Sizes
    <3> QED
      BY <3>4 DEF PushedWord
  <2>2. High(PushedWord) \in Byte /\ Low(PushedWord) \in Byte /\ pb \in Byte
    BY <2>1, ByteOf, Numbers
  <2> QED
    BY <2>2 DEF Values, Pushing
<1>4. WroteAt(Down(p, k), v) /\ first' = first
  <2>1. s = Around(p, 0 - k)
    BY DEF Below
  <2>2. v \in Byte
    BY <1>2, <1>3
  <2>3. /\ first' = first
        /\ Cell(s) \in DOMAIN mem' /\ mem'[Cell(s)] = v
        /\ \A c \in DOMAIN mem : c \in DOMAIN mem' /\ (c # Cell(s) => mem'[c] = mem[c])
    BY <1>2, <2>2, WritesKeep
  <2>4. Cell(s) = Down(p, k)
    BY <2>1 DEF Down
  <2> QED
    BY <2>3, <2>4 DEF WroteAt
<1>5. s' = IF More THEN Around(p, 0 - n) ELSE InPageOne(Plus(p, 0 - n))
  BY <1>1, MovedDown DEF Push
<1>6. (More => Below(p, n)') /\ (~More => Settled(p, 0 - n)')
  <2>1. ins' = ins /\ reach' = reach
    BY <1>1 DEF Goes
  <2>2. Around(p, 0 - n)' = Around(p, 0 - n)
    BY <2>1 DEF Around, InPageOne
  <2>3. InPageOne(Plus(p, 0 - n))' = InPageOne(Plus(p, 0 - n))
    BY <2>1 DEF InPageOne
  <2> QED
    BY <1>5, <2>2, <2>3 DEF Below, Settled
<1> QED
  BY <1>1, <1>2, <1>4, <1>6 DEF Push, Then, forming

\* What is pushed leaves what was, and what is read leaves it too.
LEMMA LaidKept ==
  ASSUME TypeOK, ins' = ins, reach' = reach, NEW p \in Int, NEW m \in Int, NEW n \in Int, NEW v,
         WroteAt(Down(p, n), v), m # n, m - n < 4, n - m < 4,
         ins.e /\ ins.kind \notin Flat => m - n < 3 /\ n - m < 3,
         Down(p, m) \in DOMAIN mem
  PROVE  (Down(p, m) \in DOMAIN mem)' /\ (mem[Down(p, m)])' = mem[Down(p, m)]
<1>1. Down(p, m) # Down(p, n)
  BY Apart
<1>2. Down(p, m) \in DOMAIN mem' /\ mem'[Down(p, m)] = mem[Down(p, m)]
  BY <1>1 DEF WroteAt
<1>3. Down(p, m)' = Down(p, m)
  BY DownKept
<1> QED
  BY <1>2, <1>3

LEMMA LaidRead ==
  ASSUME ins' = ins, reach' = reach, Agrees, NEW p, NEW m, Down(p, m) \in DOMAIN mem
  PROVE  (Down(p, m) \in DOMAIN mem)' /\ (mem[Down(p, m)])' = mem[Down(p, m)]
<1>1. Down(p, m) \in DOMAIN mem' /\ mem'[Down(p, m)] = mem[Down(p, m)]
  BY DEF Agrees
<1>2. Down(p, m)' = Down(p, m)
  BY DownKept
<1> QED
  BY <1>1, <1>2

-----------------------------------------------------------------------------
(* Calls.                                                                  *)

JsrRows ==
    /\ ins.kind = "jsr"
    /\ \/ Unwritten /\ Row(<<"low", "high", "here", "pushHigh", "pushLow">>, 1) /\ s \in Tops
       \/ Unwritten /\ Row(<<"high", "here", "pushHigh", "pushLow">>, 2) /\ LowFound /\ s \in Tops
       \/ Unwritten /\ Row(<<"here", "pushHigh", "pushLow">>, 3) /\ WordFound /\ s \in Tops
       \/ Unwritten /\ Row(<<"pushHigh", "pushLow">>, 3) /\ WordFound /\ s \in Tops
       \/ \E p \in Tops : /\ Row(<<"pushLow">>, 3) /\ WordFound /\ Below(p, 1)
                          /\ Laid(p, 0, High(Calls))
       \/ \E p \in Tops : /\ ahead = <<>> /\ WordFound /\ pc = base /\ pb = Bank(ins.at)
                          /\ Settled(p, 0 - 2) /\ Return(p, 0, Calls)

\* Each cycle of JSR absolute.
LEMMA JsrStep ==
  ASSUME TypeOK, Asserts, Handled, JsrRows, Next, ~Fail, ahead # <<>>
  PROVE  Goes /\ ahead' = Tail(ahead) /\ JsrRows' /\ Calm'
<1>0. ins.kind = "jsr" /\ ins.mode # "indirectX"
  BY DEF JsrRows, Handled, ModeOf
<1>1. CASE Unwritten /\ Row(<<"low", "high", "here", "pushHigh", "pushLow">>, 1) /\ s \in Tops
  <2>1. ahead # <<>> /\ Head(ahead) = "low" /\ Behind(1)
        /\ Tail(ahead) = <<"high", "here", "pushHigh", "pushLow">>
    BY <1>1 DEF Row
  <2>2. /\ Goes /\ ahead' = Tail(ahead) /\ Behind(2)' /\ LowFound' /\ Unwritten' /\ s' = s
        /\ ins' = ins /\ reach' = reach
    BY <1>1, <2>1, LowFetched DEF Goes
  <2>3. Head(<<"high", "here", "pushHigh", "pushLow">>) = "high"
    OBVIOUS
  <2>4. (s \in Tops)'
    BY <1>1, <2>2, DownKept
  <2> QED
    BY <1>0, <2>1, <2>2, <2>3, <2>4 DEF JsrRows, Row, Calm
<1>2. CASE /\ Unwritten /\ Row(<<"high", "here", "pushHigh", "pushLow">>, 2) /\ LowFound
           /\ s \in Tops
  <2>1. ahead # <<>> /\ Head(ahead) = "high" /\ Behind(2)
        /\ Tail(ahead) = <<"here", "pushHigh", "pushLow">>
    BY <1>2 DEF Row
  <2>2. /\ Goes /\ ahead' = Tail(ahead) /\ Behind(3)' /\ WordFound' /\ Unwritten' /\ s' = s
        /\ ins' = ins /\ reach' = reach
    BY <1>2, <2>1, HighFetched DEF Goes
  <2>3. Head(<<"here", "pushHigh", "pushLow">>) = "here"
    OBVIOUS
  <2>4. (s \in Tops)'
    BY <1>2, <2>2, DownKept
  <2> QED
    BY <1>0, <2>1, <2>2, <2>3, <2>4 DEF JsrRows, Row, Calm
<1>3. CASE Unwritten /\ Row(<<"here", "pushHigh", "pushLow">>, 3) /\ WordFound /\ s \in Tops
  <2>1. ahead # <<>> /\ Head(ahead) = "here" /\ Behind(3)
        /\ Tail(ahead) = <<"pushHigh", "pushLow">>
    BY <1>3 DEF Row
  <2>2. /\ Goes /\ ahead' = Tail(ahead) /\ Unwritten' /\ pc' = pc /\ pb' = pb
        /\ base' = base /\ s' = s /\ ins' = ins /\ reach' = reach /\ Remembers
    BY <1>3, <2>1, IdleRun DEF Goes
  <2>3. Head(<<"pushHigh", "pushLow">>) = "pushHigh"
    OBVIOUS
  <2>4. (s \in Tops)' /\ WordFound' /\ Behind(3)'
    BY <1>3, <2>1, <2>2, DownKept, WordKept DEF Behind
  <2> QED
    BY <1>0, <2>1, <2>2, <2>3, <2>4 DEF JsrRows, Row, Calm
<1>4. CASE Unwritten /\ Row(<<"pushHigh", "pushLow">>, 3) /\ WordFound /\ s \in Tops
  <2>1. ahead # <<>> /\ Head(ahead) = "pushHigh" /\ Behind(3) /\ Tail(ahead) = <<"pushLow">>
        /\ ~Last /\ More
    BY <1>4 DEF Row, Last, More, Pushing
  <2>2. PICK p \in Tops : s = p
    BY <1>4
  <2>3. p \in Int /\ Below(p, 0) /\ Head(ahead) \in Pushing
    BY <2>1, <2>2, AtTop DEF Pushing
  <2>4. /\ Goes /\ ahead' = Tail(ahead) /\ first' = first /\ base' = base /\ pc' = pc /\ pb' = pb
        /\ Below(p, 1)'
        /\ \E v \in Values[Head(ahead)] : WroteAt(Down(p, 0), v)
    <3>1. 1 = 0 + 1 /\ 0 \in Int /\ 1 \in Int
      OBVIOUS
    <3> QED
      BY <1>0, <2>1, <2>3, <3>1, PushRun
  <2>5. ins' = ins /\ reach' = reach /\ Remembers
    BY <2>4 DEF Goes
  <2>6. WroteAt(Down(p, 0), High(Calls))
    <3>1. PushedWord = Calls
      BY <1>0, <2>1, CallsAre
    <3> QED
      BY <2>1, <2>4, <3>1 DEF Values
  <2>7. Laid(p, 0, High(Calls))'
    BY <2>5, <2>6, CallsAre, DownKept DEF Laid, WroteAt
  <2>8. WordFound' /\ Behind(3)' /\ p \in Tops'
    BY <1>4, <2>1, <2>2, <2>4, <2>5, DownKept, WordKept DEF Behind
  <2>9. Head(<<"pushLow">>) = "pushLow"
    OBVIOUS
  <2> QED
    BY <1>0, <2>1, <2>4, <2>5, <2>7, <2>8, <2>9 DEF JsrRows, Row, Calm
<1>5. ASSUME NEW p \in Tops, Row(<<"pushLow">>, 3), WordFound, Below(p, 1),
             Laid(p, 0, High(Calls))
      PROVE  Goes /\ ahead' = Tail(ahead) /\ JsrRows' /\ Calm'
  <2>1. ahead # <<>> /\ Head(ahead) = "pushLow" /\ Behind(3) /\ Tail(ahead) = <<>>
        /\ Last /\ ~More
    BY <1>5 DEF Row, Last, More
  <2>2. p \in Int /\ Head(ahead) \in Pushing
    BY <2>1, AtTop DEF Pushing
  <2>3. /\ Goes /\ ahead' = Tail(ahead) /\ first' = first /\ base' = base /\ pc' = base
        /\ pb' = pb /\ Settled(p, 0 - 2)'
        /\ \E v \in Values[Head(ahead)] : WroteAt(Down(p, 1), v)
    <3>1. 2 = 1 + 1 /\ 1 \in Int /\ 2 \in Int
      OBVIOUS
    <3> QED
      BY <1>0, <1>5, <2>1, <2>2, <3>1, PushRun
  <2>4. ins' = ins /\ reach' = reach /\ Remembers
    BY <2>3 DEF Goes
  <2>5. WroteAt(Down(p, 1), Low(Calls))
    <3>1. PushedWord = Calls
      BY <1>0, <2>1, CallsAre
    <3> QED
      BY <2>1, <2>3, <3>1 DEF Values
  <2>6. Laid(p, 1, Low(Calls))'
    BY <2>4, <2>5, CallsAre, DownKept DEF Laid, WroteAt
  <2>7. Laid(p, 0, High(Calls))'
    BY <1>5, <2>2, <2>4, <2>5, CallsAre, LaidKept DEF Laid
  <2>8. WordFound' /\ p \in Tops' /\ pb' = Bank(ins'.at)
    BY <1>5, <2>1, <2>3, <2>4, DownKept, WordKept DEF Behind
  <2>9. Settled(p, 0 - 2)' /\ Return(p, 0, Calls)'
    BY <2>3, <2>6, <2>7 DEF Settled, Return, Laid
  <2> QED
    BY <1>0, <2>1, <2>3, <2>4, <2>8, <2>9 DEF JsrRows, Calm
<1> QED
  BY <1>1, <1>2, <1>3, <1>4, <1>5 DEF JsrRows, Row

\* The bank is the only byte a cell of its own has been read from between pushes.
JslRows ==
    /\ ins.kind = "jsl"
    /\ \/ /\ Unwritten /\ s \in Tops /\ DOMAIN first = {}
          /\ Row(<<"low", "high", "pushBank", "baseIdle", "bank", "pushHigh", "pushLow">>, 1)
       \/ /\ Unwritten /\ s \in Tops /\ LowFound /\ DOMAIN first = {Cell(Own(1))}
          /\ Row(<<"high", "pushBank", "baseIdle", "bank", "pushHigh", "pushLow">>, 2)
       \/ /\ Unwritten /\ s \in Tops /\ WordFound /\ DOMAIN first = {Cell(Own(1)), Cell(Own(2))}
          /\ Row(<<"pushBank", "baseIdle", "bank", "pushHigh", "pushLow">>, 3)
       \/ \E p \in Tops :
             /\ \/ Row(<<"baseIdle", "bank", "pushHigh", "pushLow">>, 3)
                \/ Row(<<"bank", "pushHigh", "pushLow">>, 3)
             /\ WordFound /\ DOMAIN first = {Cell(Own(1)), Cell(Own(2))} /\ Below(p, 1)
             /\ Laid(p, 0, Bank(ins.at))
       \/ \E p \in Tops :
             /\ \/ Row(<<"pushHigh", "pushLow">>, 4) /\ Below(p, 1)
                \/ Row(<<"pushLow">>, 4) /\ Below(p, 2) /\ Laid(p, 1, High(Calls))
             /\ WordFound /\ Laid(p, 0, Bank(ins.at))
             /\ IsFound(Own(3)) => Bank(addr) = Found(3)
       \/ \E p \in Tops :
             /\ ahead = <<>> /\ WordFound /\ pc = base
             /\ Settled(p, 0 - 3) /\ Return(p, 1, Calls) /\ Laid(p, 0, Bank(ins.at))
             /\ IsFound(Own(3)) => pb = Found(3)

\* The third byte of an operand is neither of the others.
LEMMA OwnApart ==
  ASSUME TypeOK
  PROVE  Cell(Own(3)) \notin {Cell(Own(1)), Cell(Own(2))}
<1> DEFINE w == ins.at % BB
           bb == BB
<1>1. ins.at \in Int
  BY Numbers
<1>2. w \in Wide /\ Bank(ins.at) \in Byte
  BY <1>1, BankByte
<1>3. w \in Int
  BY <1>2, Sizes
<1> HIDE DEF w
<1>4. ASSUME NEW n \in Int PROVE (Cell(Own(n)) % bb) = ((w + n) % bb)
  <2>1. Plus(w, n) \in Wide
    BY <1>3, PlusWide
  <2>2. Long(Bank(ins.at), Plus(w, n)) \in Int /\ (Long(Bank(ins.at), Plus(w, n)) % BB) = Plus(w, n)
    BY <1>2, <2>1, LongPlace, Sizes
  <2>3. Own(n) = Long(Bank(ins.at), Plus(w, n))
    BY DEF Own, InBank, w
  <2>4. (Cell(Own(n)) % BB) = (Own(n) % BB)
    BY <2>2, <2>3, CellWord
  <2> QED
    BY <2>2, <2>3, <2>4 DEF Plus
<1>5. bb \in Nat \ {0} /\ bb >= 9
  BY Sizes
<1> HIDE DEF bb
<1>6. ((w + 3) % bb) # ((w + 1) % bb) /\ ((w + 3) % bb) # ((w + 2) % bb)
  <2>1. w + 1 \in Int /\ w + 2 \in Int /\ w + 3 \in Int /\ w + 3 # w + 1 /\ w + 3 # w + 2
        /\ (w + 3) - (w + 1) < bb /\ (w + 1) - (w + 3) < bb
        /\ (w + 3) - (w + 2) < bb /\ (w + 2) - (w + 3) < bb
    BY <1>3, <1>5
  <2>2. ((w + 3) % bb) # ((w + 1) % bb)
    BY <1>5, <2>1, RemainderApart
  <2>3. ((w + 3) % bb) # ((w + 2) % bb)
    BY <1>5, <2>1, RemainderApart
  <2> QED
    BY <2>2, <2>3
<1> QED
  BY <1>4, <1>6

\* Each cycle of JSL: before anything is pushed, until the bank is read, and then.
LEMMA JslStarts ==
  ASSUME TypeOK, Asserts, Handled, JslRows, Next, ~Fail, ahead # <<>>, Unwritten, s \in Tops,
         \/ /\ Row(<<"low", "high", "pushBank", "baseIdle", "bank", "pushHigh", "pushLow">>, 1)
            /\ DOMAIN first = {}
         \/ /\ Row(<<"high", "pushBank", "baseIdle", "bank", "pushHigh", "pushLow">>, 2)
            /\ LowFound /\ DOMAIN first = {Cell(Own(1))}
         \/ /\ Row(<<"pushBank", "baseIdle", "bank", "pushHigh", "pushLow">>, 3)
            /\ WordFound /\ DOMAIN first = {Cell(Own(1)), Cell(Own(2))}
  PROVE  Goes /\ ahead' = Tail(ahead) /\ JslRows' /\ Calm'
<1>0. ins.kind = "jsl"
  BY DEF JslRows
<1>c. ins' = ins /\ reach' = reach
       => /\ Cell(Own(1))' = Cell(Own(1)) /\ Cell(Own(2))' = Cell(Own(2)) /\ Tops' = Tops
  BY DEF Cell, Own, Tops
<1>1. CASE /\ Row(<<"low", "high", "pushBank", "baseIdle", "bank", "pushHigh", "pushLow">>, 1)
           /\ DOMAIN first = {}
  <2>1. ahead # <<>> /\ Head(ahead) = "low" /\ Behind(1)
        /\ Tail(ahead) = <<"high", "pushBank", "baseIdle", "bank", "pushHigh", "pushLow">>
    BY <1>1 DEF Row
  <2>2. /\ Goes /\ ahead' = Tail(ahead) /\ Behind(2)' /\ LowFound' /\ Unwritten' /\ s' = s
        /\ ins' = ins /\ reach' = reach /\ DOMAIN first' = (DOMAIN first) \cup {Cell(Own(1))}
    BY <1>1, <2>1, LowFetched DEF Goes
  <2>3. Head(<<"high", "pushBank", "baseIdle", "bank", "pushHigh", "pushLow">>) = "high"
    OBVIOUS
  <2>4. DOMAIN first' = {Cell(Own(1))'} /\ s' \in Tops'
    BY <1>1, <1>c, <2>2
  <2> QED
    BY <1>0, <2>1, <2>2, <2>3, <2>4 DEF JslRows, Row, Calm
<1>2. CASE /\ Row(<<"high", "pushBank", "baseIdle", "bank", "pushHigh", "pushLow">>, 2)
           /\ LowFound /\ DOMAIN first = {Cell(Own(1))}
  <2>1. ahead # <<>> /\ Head(ahead) = "high" /\ Behind(2)
        /\ Tail(ahead) = <<"pushBank", "baseIdle", "bank", "pushHigh", "pushLow">>
    BY <1>2 DEF Row
  <2>2. /\ Goes /\ ahead' = Tail(ahead) /\ Behind(3)' /\ WordFound' /\ Unwritten' /\ s' = s
        /\ ins' = ins /\ reach' = reach /\ DOMAIN first' = (DOMAIN first) \cup {Cell(Own(2))}
    BY <1>2, <2>1, HighFetched DEF Goes
  <2>3. Head(<<"pushBank", "baseIdle", "bank", "pushHigh", "pushLow">>) = "pushBank"
    OBVIOUS
  <2>4. DOMAIN first' = {Cell(Own(1))', Cell(Own(2))'} /\ s' \in Tops'
    BY <1>2, <1>c, <2>2
  <2> QED
    BY <1>0, <2>1, <2>2, <2>3, <2>4 DEF JslRows, Row, Calm
<1>3. CASE /\ Row(<<"pushBank", "baseIdle", "bank", "pushHigh", "pushLow">>, 3)
           /\ WordFound /\ DOMAIN first = {Cell(Own(1)), Cell(Own(2))}
  <2>1. ahead # <<>> /\ Head(ahead) = "pushBank" /\ Behind(3) /\ ~Last
        /\ Tail(ahead) = <<"baseIdle", "bank", "pushHigh", "pushLow">>
    BY <1>3 DEF Row, Last
  <2>2. More
    <3>1. Len(ahead) = 5 /\ ahead[4] = "pushHigh"
      BY <1>3 DEF Row
    <3> QED
      BY <3>1 DEF More, Pushing
  <2>3. PICK p \in Tops : s = p
    OBVIOUS
  <2>4. p \in Int /\ Below(p, 0) /\ Head(ahead) \in Pushing
    BY <2>1, <2>3, AtTop DEF Pushing
  <2>5. /\ Goes /\ ahead' = Tail(ahead) /\ first' = first /\ base' = base /\ pc' = pc /\ pb' = pb
        /\ Below(p, 1)'
        /\ \E v \in Values[Head(ahead)] : WroteAt(Down(p, 0), v)
    <3>1. 1 = 0 + 1 /\ 0 \in Int /\ 1 \in Int
      OBVIOUS
    <3> QED
      BY <2>1, <2>2, <2>4, <3>1, PushRun
  <2>6. ins' = ins /\ reach' = reach /\ Remembers
    BY <2>5 DEF Goes
  <2>9. Laid(p, 0, Bank(ins.at))'
    <3>1. WroteAt(Down(p, 0), Bank(ins.at))
      BY <2>1, <2>5 DEF Values, Behind
    <3> QED
      BY <2>6, <3>1, DownKept DEF Laid, WroteAt
  <2>7. WordFound' /\ Behind(3)' /\ p \in Tops' /\ DOMAIN first' = {Cell(Own(1))', Cell(Own(2))'}
    BY <1>3, <1>c, <2>1, <2>3, <2>5, <2>6, WordKept DEF Behind
  <2>8. Head(<<"baseIdle", "bank", "pushHigh", "pushLow">>) = "baseIdle"
    OBVIOUS
  <2> QED
    BY <1>0, <2>1, <2>5, <2>6, <2>7, <2>8, <2>9 DEF JslRows, Row, Calm
<1> QED
  BY <1>1, <1>2, <1>3

LEMMA JslBanks ==
  ASSUME TypeOK, Asserts, Handled, JslRows, Next, ~Fail, ahead # <<>>, NEW p \in Tops,
         \/ Row(<<"baseIdle", "bank", "pushHigh", "pushLow">>, 3)
         \/ Row(<<"bank", "pushHigh", "pushLow">>, 3),
         WordFound, DOMAIN first = {Cell(Own(1)), Cell(Own(2))}, Below(p, 1),
         Laid(p, 0, Bank(ins.at))
  PROVE  Goes /\ ahead' = Tail(ahead) /\ JslRows' /\ Calm'
<1>0. ins.kind = "jsl"
  BY DEF JslRows
<1>c. ins' = ins /\ reach' = reach
       => /\ Cell(Own(1))' = Cell(Own(1)) /\ Cell(Own(2))' = Cell(Own(2))
          /\ Cell(Own(3))' = Cell(Own(3)) /\ Tops' = Tops
          /\ (s' = s => Below(p, 1)')
  BY DEF Cell, Own, Tops, Below, Around, InPageOne
<1>1. CASE Row(<<"baseIdle", "bank", "pushHigh", "pushLow">>, 3)
  <2>1. ahead # <<>> /\ Head(ahead) = "baseIdle" /\ Behind(3)
        /\ Tail(ahead) = <<"bank", "pushHigh", "pushLow">>
    BY <1>1 DEF Row
  <2>2. /\ Goes /\ ahead' = Tail(ahead) /\ pc' = pc /\ pb' = pb /\ base' = base /\ s' = s
        /\ mem' = mem /\ first' = first /\ ins' = ins /\ reach' = reach /\ Remembers
    BY <2>1, IdleRun DEF Goes
  <2>3. Head(<<"bank", "pushHigh", "pushLow">>) = "bank"
    OBVIOUS
  <2>4. /\ WordFound' /\ Behind(3)' /\ p \in Tops' /\ Below(p, 1)'
        /\ DOMAIN first' = {Cell(Own(1))', Cell(Own(2))'}
    BY <1>c, <2>1, <2>2, WordKept DEF Behind
  <2>5. Laid(p, 0, Bank(ins.at))'
    BY <2>2, DownKept DEF Laid
  <2> QED
    BY <1>0, <2>1, <2>2, <2>3, <2>4, <2>5 DEF JslRows, Row, Calm
<1>2. CASE Row(<<"bank", "pushHigh", "pushLow">>, 3)
  <2>1. ahead # <<>> /\ Head(ahead) = "bank" /\ Behind(3) /\ ~Last
        /\ Tail(ahead) = <<"pushHigh", "pushLow">>
    BY <1>2 DEF Row, Last
  <2>2. PICK v \in Byte : ReadAt(Own(3), v) /\ Bank(addr') = v /\ Behind(3 + 1)'
    BY <2>1, BankRun
  <2>3. Goes /\ ahead' = Tail(ahead) /\ s' = s /\ base' = base
    BY <2>1, BankRun
  <2>4. ins' = ins /\ reach' = reach /\ Remembers
    BY <2>3 DEF Goes
  <2>5. IsFound(Own(3))' => Bank(addr') = Found(3)'
    <3>1. CASE IsKnown(Own(3))
      <4>1. first' = first
        BY <2>2, <3>1 DEF ReadAt
      <4>2. ~IsFound(Own(3))'
        BY <1>c, <2>4, <4>1, OwnApart DEF IsFound
      <4> QED
        BY <4>2
    <3>2. CASE ~IsKnown(Own(3))
      <4>1. first'[Cell(Own(3))] = v
        BY <2>2, <3>2 DEF ReadAt
      <4> QED
        BY <1>c, <2>2, <2>4, <4>1 DEF Found
    <3> QED
      BY <3>1, <3>2
  <2>6. Head(<<"pushHigh", "pushLow">>) = "pushHigh"
    OBVIOUS
  <2>7. WordFound' /\ Behind(4)' /\ p \in Tops' /\ Below(p, 1)'
    BY <1>c, <2>2, <2>3, <2>4, WordKept DEF Behind
  <2>8. Laid(p, 0, Bank(ins.at))'
    <3>1. Agrees
      BY <2>2 DEF ReadAt
    <3> QED
      BY <2>4, <3>1, LaidRead DEF Laid
  <2> QED
    BY <1>0, <2>1, <2>3, <2>4, <2>5, <2>6, <2>7, <2>8 DEF JslRows, Row, Calm
<1> QED
  BY <1>1, <1>2

LEMMA JslPushes ==
  ASSUME TypeOK, Asserts, Handled, JslRows, Next, ~Fail, ahead # <<>>, NEW p \in Tops,
         \/ Row(<<"pushHigh", "pushLow">>, 4) /\ Below(p, 1)
         \/ Row(<<"pushLow">>, 4) /\ Below(p, 2) /\ Laid(p, 1, High(Calls)),
         WordFound, Laid(p, 0, Bank(ins.at)), IsFound(Own(3)) => Bank(addr) = Found(3)
  PROVE  Goes /\ ahead' = Tail(ahead) /\ JslRows' /\ Calm'
<1>0. ins.kind = "jsl" /\ p \in Int
  BY AtTop DEF JslRows
<1>1. PushedWord = Calls
  BY <1>0, CallsAre DEF Row
<1>2. ins' = ins /\ reach' = reach /\ first' = first
        => /\ IsFound(Own(3))' = IsFound(Own(3)) /\ Found(3)' = Found(3) /\ Tops' = Tops
  BY DEF IsFound, Found, Cell, Own, Tops
<1>3. CASE Row(<<"pushHigh", "pushLow">>, 4) /\ Below(p, 1)
  <2>1. ahead # <<>> /\ Head(ahead) = "pushHigh" /\ Behind(4) /\ Tail(ahead) = <<"pushLow">>
        /\ ~Last /\ More
    BY <1>3 DEF Row, Last, More, Pushing
  <2>2. /\ Goes /\ ahead' = Tail(ahead) /\ first' = first /\ base' = base /\ addr' = addr
        /\ pc' = pc /\ pb' = pb /\ Below(p, 2)'
        /\ \E v \in Values[Head(ahead)] : WroteAt(Down(p, 1), v)
    <3>1. 2 = 1 + 1 /\ 1 \in Int /\ 2 \in Int /\ Head(ahead) \in Pushing
      BY <2>1 DEF Pushing
    <3> QED
      BY <1>0, <1>3, <2>1, <3>1, PushRun
  <2>3. ins' = ins /\ reach' = reach /\ Remembers
    BY <2>2 DEF Goes
  <2>4. Laid(p, 1, High(Calls))'
    <3>1. WroteAt(Down(p, 1), High(Calls))
      BY <1>1, <2>1, <2>2 DEF Values
    <3> QED
      BY <2>3, <3>1, CallsAre, DownKept DEF Laid, WroteAt
  <2>5. WordFound' /\ Behind(4)' /\ p \in Tops' /\ (IsFound(Own(3))' => Bank(addr') = Found(3)')
    BY <1>2, <2>1, <2>2, <2>3, WordKept DEF Behind
  <2>6. Head(<<"pushLow">>) = "pushLow"
    OBVIOUS
  <2>7. Laid(p, 0, Bank(ins.at))'
    BY <1>0, <2>2, <2>3, LaidKept DEF Laid
  <2> QED
    BY <1>0, <2>1, <2>2, <2>3, <2>4, <2>5, <2>6, <2>7 DEF JslRows, Row, Calm
<1>4. CASE Row(<<"pushLow">>, 4) /\ Below(p, 2) /\ Laid(p, 1, High(Calls))
  <2>1. ahead # <<>> /\ Head(ahead) = "pushLow" /\ Behind(4) /\ Tail(ahead) = <<>>
        /\ Last /\ ~More
    BY <1>4 DEF Row, Last, More
  <2>2. /\ Goes /\ ahead' = Tail(ahead) /\ first' = first /\ base' = base
        /\ pc' = base /\ pb' = Bank(addr) /\ Settled(p, 0 - 3)'
        /\ \E v \in Values[Head(ahead)] : WroteAt(Down(p, 2), v)
    <3>1. 3 = 2 + 1 /\ 2 \in Int /\ 3 \in Int /\ Head(ahead) \in Pushing
      BY <2>1 DEF Pushing
    <3> QED
      BY <1>0, <1>4, <2>1, <3>1, PushRun
  <2>3. ins' = ins /\ reach' = reach /\ Remembers
    BY <2>2 DEF Goes
  <2>4. WroteAt(Down(p, 2), Low(Calls))
    BY <1>1, <2>1, <2>2 DEF Values
  <2>5. Laid(p, 2, Low(Calls))'
    BY <2>3, <2>4, CallsAre, DownKept DEF Laid, WroteAt
  <2>6. Laid(p, 1, High(Calls))'
    BY <1>0, <1>4, <2>3, <2>4, CallsAre, LaidKept DEF Laid
  <2>7. WordFound' /\ p \in Tops' /\ (IsFound(Own(3))' => pb' = Found(3)')
    BY <1>2, <2>2, <2>3, WordKept
  <2>8. Return(p, 1, Calls)'
    <3>1. 1 + 1 = 2
      OBVIOUS
    <3> QED
      BY <2>5, <2>6, <3>1 DEF Return
  <2>9. Laid(p, 0, Bank(ins.at))'
    BY <1>0, <2>3, <2>4, LaidKept DEF Laid
  <2> QED
    BY <1>0, <2>1, <2>2, <2>3, <2>7, <2>8, <2>9 DEF JslRows, Calm
<1> QED
  BY <1>3, <1>4

LEMMA JslStep ==
  ASSUME TypeOK, Asserts, Handled, JslRows, Next, ~Fail, ahead # <<>>
  PROVE  Goes /\ ahead' = Tail(ahead) /\ JslRows' /\ Calm'
  BY JslStarts, JslBanks, JslPushes DEF JslRows

\* JSR (abs,X) reads its operand's second byte when it has written to the stack, and
\* its pointer's after it.
HighKnown == IsKnown(Own(2)) /\ IsFound(Own(1)) /\ base = Word(Found(1), mem[Cell(Own(2))])

Through == Long(Bank(ins.at), Plus(Word(Found(1), mem[Cell(Own(2))]), ins.index))

Called(p) == Settled(p, 0 - 2) /\ Return(p, 0, Calls)

JsrIndirectRows ==
    /\ ins.kind = "jsrIndirectX"
    /\ \/ /\ Unwritten /\ s \in Tops
          /\ Row(<<"low", "pushHigh", "pushLow", "high", "here", "jumpLow", "jumpHigh">>, 1)
       \/ /\ s \in Tops /\ LowFound
          /\ Row(<<"pushHigh", "pushLow", "high", "here", "jumpLow", "jumpHigh">>, 2)
       \/ \E p \in Tops :
             /\ LowFound /\ Below(p, 1) /\ Laid(p, 0, High(Calls))
             /\ Row(<<"pushLow", "high", "here", "jumpLow", "jumpHigh">>, 2)
       \/ \E p \in Tops :
             /\ Called(p)
             /\ \/ LowFound /\ Row(<<"high", "here", "jumpLow", "jumpHigh">>, 2)
                \/ HighKnown /\ point = Through /\ Row(<<"here", "jumpLow", "jumpHigh">>, 3)
                \/ HighKnown /\ point = Through /\ Row(<<"jumpLow", "jumpHigh">>, 3)
                \/ /\ HighKnown /\ point = Through /\ Row(<<"jumpHigh">>, 3)
                   /\ IsKnown(point) /\ low = mem[Cell(point)]
                \/ /\ HighKnown /\ ahead = <<>>
                   /\ At(Through, InBank(Through, 1), Bank(ins.at))

\* What is known stays known in a cycle that writes nothing.
LEMMA HighKept ==
  ASSUME Agrees, Remembers, ins' = ins, reach' = reach, HighKnown, base' = base
  PROVE  HighKnown' /\ Through' = Through
<1>1. IsFound(Own(1))' /\ Found(1)' = Found(1)
  BY OwnKept DEF HighKnown
<1>2. Cell(Own(2))' = Cell(Own(2))
  BY DEF Cell, Own
<1>3. Cell(Own(2)) \in DOMAIN mem' /\ mem'[Cell(Own(2))] = mem[Cell(Own(2))]
  BY DEF Agrees, HighKnown, IsKnown
<1> QED
  BY <1>1, <1>2, <1>3 DEF HighKnown, IsKnown, Through

LEMMA CalledKept ==
  ASSUME TypeOK, Handled, Agrees, ins' = ins, reach' = reach, s' = s, NEW p \in Tops, Called(p)
  PROVE  Called(p)' /\ p \in Tops'
<1>1. 0 + 1 = 1
  OBVIOUS
<1>2. Calls' = Calls
  BY CallsAre
<1>3. /\ Down(p, 0) \in DOMAIN mem /\ mem[Down(p, 0)] = High(Calls)
      /\ Down(p, 1) \in DOMAIN mem /\ mem[Down(p, 1)] = Low(Calls)
  BY <1>1 DEF Called, Return, Laid
<1>4. /\ (Down(p, 0) \in DOMAIN mem)' /\ (mem[Down(p, 0)])' = mem[Down(p, 0)]
      /\ (Down(p, 1) \in DOMAIN mem)' /\ (mem[Down(p, 1)])' = mem[Down(p, 1)]
  BY <1>3, LaidRead
<1>5. Return(p, 0, Calls)'
  BY <1>1, <1>2, <1>3, <1>4 DEF Return, Laid
<1>6. Settled(p, 0 - 2)'
  BY DEF Called, Settled, InPageOne
<1> QED
  BY <1>5, <1>6, DownKept DEF Called

\* Each of its cycles: until its return address is pushed, and then.
LEMMA JsrIndirectPushes ==
  ASSUME TypeOK, Asserts, Handled, JsrIndirectRows, Next, ~Fail, ahead # <<>>,
         Head(ahead) \in {"low", "pushHigh", "pushLow"}
  PROVE  Goes /\ ahead' = Tail(ahead) /\ JsrIndirectRows' /\ Calm'
<1>0. ins.kind = "jsrIndirectX"
  BY DEF JsrIndirectRows
<1>1. CASE /\ Unwritten /\ s \in Tops
           /\ Row(<<"low", "pushHigh", "pushLow", "high", "here", "jumpLow", "jumpHigh">>, 1)
  <2>1. ahead # <<>> /\ Head(ahead) = "low" /\ Behind(1)
        /\ Tail(ahead) = <<"pushHigh", "pushLow", "high", "here", "jumpLow", "jumpHigh">>
    BY <1>1 DEF Row
  <2>2. /\ Goes /\ ahead' = Tail(ahead) /\ Behind(2)' /\ LowFound' /\ s' = s
        /\ ins' = ins /\ reach' = reach
    BY <1>1, <2>1, LowFetched DEF Goes
  <2>3. Head(<<"pushHigh", "pushLow", "high", "here", "jumpLow", "jumpHigh">>) = "pushHigh"
    OBVIOUS
  <2>4. s' \in Tops'
    BY <1>1, <2>2, DownKept
  <2> QED
    BY <1>0, <2>1, <2>2, <2>3, <2>4 DEF JsrIndirectRows, Row, Calm
<1>2. CASE /\ s \in Tops /\ LowFound
           /\ Row(<<"pushHigh", "pushLow", "high", "here", "jumpLow", "jumpHigh">>, 2)
  <2>1. ahead # <<>> /\ Head(ahead) = "pushHigh" /\ Behind(2)
        /\ Tail(ahead) = <<"pushLow", "high", "here", "jumpLow", "jumpHigh">>
    BY <1>2 DEF Row
  <2>2. ~Last /\ More
    <3>1. Len(ahead) = 6 /\ ahead[2] = "pushLow"
      BY <1>2 DEF Row
    <3> QED
      BY <3>1 DEF Last, More, Pushing
  <2>3. PICK p \in Tops : s = p
    BY <1>2
  <2>4. p \in Int /\ Below(p, 0) /\ Head(ahead) \in Pushing
    BY <2>1, <2>3, AtTop DEF Pushing
  <2>5. /\ Goes /\ ahead' = Tail(ahead) /\ first' = first /\ low' = low /\ pc' = pc /\ pb' = pb
        /\ Below(p, 1)'
        /\ \E v \in Values[Head(ahead)] : WroteAt(Down(p, 0), v)
    <3>1. 1 = 0 + 1 /\ 0 \in Int /\ 1 \in Int
      OBVIOUS
    <3> QED
      BY <2>2, <2>4, <3>1, PushRun
  <2>6. ins' = ins /\ reach' = reach /\ Remembers
    BY <2>5 DEF Goes
  <2>7. Laid(p, 0, High(Calls))'
    <3>1. PushedWord = Calls
      BY <1>0, <2>1, CallsAre
    <3>2. WroteAt(Down(p, 0), High(Calls))
      BY <2>1, <2>5, <3>1 DEF Values
    <3> QED
      BY <2>6, <3>2, CallsAre, DownKept DEF Laid, WroteAt
  <2>8. LowFound' /\ Behind(2)' /\ p \in Tops'
    BY <1>2, <2>1, <2>3, <2>5, <2>6, DownKept, LowKept DEF Behind
  <2>9. Head(<<"pushLow", "high", "here", "jumpLow", "jumpHigh">>) = "pushLow"
    OBVIOUS
  <2> QED
    BY <1>0, <2>1, <2>5, <2>6, <2>7, <2>8, <2>9 DEF JsrIndirectRows, Row, Calm
<1>3. ASSUME NEW p \in Tops, LowFound, Below(p, 1), Laid(p, 0, High(Calls)),
             Row(<<"pushLow", "high", "here", "jumpLow", "jumpHigh">>, 2)
      PROVE  Goes /\ ahead' = Tail(ahead) /\ JsrIndirectRows' /\ Calm'
  <2>1. ahead # <<>> /\ Head(ahead) = "pushLow" /\ Behind(2)
        /\ Tail(ahead) = <<"high", "here", "jumpLow", "jumpHigh">>
    BY <1>3 DEF Row
  <2>2. ~Last /\ ~More
    <3>1. Len(ahead) = 5 /\ ahead[2] = "high" /\ ahead[3] = "here" /\ ahead[4] = "jumpLow"
          /\ ahead[5] = "jumpHigh"
      BY <1>3 DEF Row
    <3> QED
      BY <3>1 DEF Last, More, Pushing, Pulling
  <2>3. p \in Int /\ Head(ahead) \in Pushing
    BY <2>1, AtTop DEF Pushing
  <2>4. /\ Goes /\ ahead' = Tail(ahead) /\ first' = first /\ low' = low /\ pc' = pc
        /\ pb' = pb /\ Settled(p, 0 - 2)'
        /\ \E v \in Values[Head(ahead)] : WroteAt(Down(p, 1), v)
    <3>1. 2 = 1 + 1 /\ 1 \in Int /\ 2 \in Int
      OBVIOUS
    <3> QED
      BY <1>3, <2>2, <2>3, <3>1, PushRun
  <2>5. ins' = ins /\ reach' = reach /\ Remembers
    BY <2>4 DEF Goes
  <2>6. WroteAt(Down(p, 1), Low(Calls))
    <3>1. PushedWord = Calls
      BY <1>0, <2>1, CallsAre
    <3> QED
      BY <2>1, <2>4, <3>1 DEF Values
  <2>7. Laid(p, 1, Low(Calls))'
    BY <2>5, <2>6, CallsAre, DownKept DEF Laid, WroteAt
  <2>8. Laid(p, 0, High(Calls))'
    BY <1>3, <2>3, <2>5, <2>6, CallsAre, LaidKept DEF Laid
  <2>9. LowFound' /\ Behind(2)' /\ p \in Tops'
    BY <1>3, <2>1, <2>4, <2>5, DownKept, LowKept DEF Behind
  <2>10. Called(p)'
    <3>1. 0 + 1 = 1
      OBVIOUS
    <3> QED
      BY <2>4, <2>7, <2>8, <3>1 DEF Called, Return
  <2>11. Head(<<"high", "here", "jumpLow", "jumpHigh">>) = "high"
    OBVIOUS
  <2> QED
    BY <1>0, <2>1, <2>4, <2>5, <2>9, <2>10, <2>11 DEF JsrIndirectRows, Row, Calm
<1> QED
  BY <1>1, <1>2, <1>3 DEF JsrIndirectRows, Row

LEMMA JsrIndirectJumps ==
  ASSUME TypeOK, Asserts, Handled, JsrIndirectRows, Next, ~Fail, ahead # <<>>,
         NEW p \in Tops, Called(p),
         \/ LowFound /\ Row(<<"high", "here", "jumpLow", "jumpHigh">>, 2)
         \/ HighKnown /\ point = Through /\ Row(<<"here", "jumpLow", "jumpHigh">>, 3)
         \/ HighKnown /\ point = Through /\ Row(<<"jumpLow", "jumpHigh">>, 3)
         \/ /\ HighKnown /\ point = Through /\ Row(<<"jumpHigh">>, 3)
            /\ IsKnown(point) /\ low = mem[Cell(point)]
  PROVE  Goes /\ ahead' = Tail(ahead) /\ JsrIndirectRows' /\ Calm'
<1>0. ins.kind = "jsrIndirectX" /\ ins.mode = "indirectX"
  BY DEF JsrIndirectRows, Handled, ModeOf
<1>1. CASE LowFound /\ Row(<<"high", "here", "jumpLow", "jumpHigh">>, 2)
  <2>1. ahead # <<>> /\ Head(ahead) = "high" /\ Behind(2) /\ pb = Bank(ins.at)
        /\ Tail(ahead) = <<"here", "jumpLow", "jumpHigh">>
    BY <1>1 DEF Row, Behind
  <2>2. PICK v \in Byte :
          /\ ReadAt(Own(2), v) /\ base' = Word(low, v)
          /\ point' = Long(pb, Plus(Word(low, v), ins.index))
    BY <1>0, <2>1, HighRun
  <2>3. Goes /\ ahead' = Tail(ahead) /\ Behind(2 + 1)' /\ s' = s
    BY <2>1, HighRun
  <2>4. ins' = ins /\ reach' = reach /\ Remembers /\ Agrees
    BY <2>2, <2>3 DEF Goes, ReadAt
  <2>5. LowFound /\ IsFound(Own(1))' /\ Found(1)' = low
    BY <1>1, <2>4, OwnKept DEF LowFound
  <2>6. IsKnown(Own(2))' /\ (mem[Cell(Own(2))])' = v
    <3>1. Cell(Own(2))' = Cell(Own(2))
      BY <2>4 DEF Cell, Own
    <3> QED
      BY <2>2, <3>1 DEF ReadAt, IsKnown
  <2>7. HighKnown' /\ point' = Through'
    BY <2>1, <2>2, <2>4, <2>5, <2>6 DEF HighKnown, Through
  <2>8. Called(p)' /\ p \in Tops' /\ Behind(3)'
    BY <2>3, <2>4, CalledKept DEF Behind
  <2>9. Head(<<"here", "jumpLow", "jumpHigh">>) = "here"
    OBVIOUS
  <2> QED
    BY <1>0, <2>1, <2>3, <2>4, <2>7, <2>8, <2>9 DEF JsrIndirectRows, Row, Calm
<1>2. CASE HighKnown /\ point = Through /\ Row(<<"here", "jumpLow", "jumpHigh">>, 3)
  <2>1. ahead # <<>> /\ Head(ahead) = "here" /\ Behind(3) /\ Tail(ahead) = <<"jumpLow", "jumpHigh">>
    BY <1>2 DEF Row
  <2>2. /\ Goes /\ ahead' = Tail(ahead) /\ pc' = pc /\ pb' = pb /\ s' = s /\ base' = base
        /\ point' = point /\ mem' = mem
    BY <2>1, IdleRun
  <2>3. ins' = ins /\ reach' = reach /\ Remembers /\ Agrees
    BY <2>2 DEF Goes, Agrees
  <2>4. HighKnown' /\ point' = Through' /\ Called(p)' /\ p \in Tops' /\ Behind(3)'
    BY <1>2, <2>1, <2>2, <2>3, HighKept, CalledKept DEF Behind
  <2>5. Head(<<"jumpLow", "jumpHigh">>) = "jumpLow"
    OBVIOUS
  <2> QED
    BY <1>0, <2>1, <2>2, <2>3, <2>4, <2>5 DEF JsrIndirectRows, Row, Calm
<1>3. CASE HighKnown /\ point = Through /\ Row(<<"jumpLow", "jumpHigh">>, 3)
  <2>1. ahead # <<>> /\ Head(ahead) = "jumpLow" /\ Behind(3) /\ Tail(ahead) = <<"jumpHigh">>
    BY <1>3 DEF Row
  <2>2. /\ Goes /\ ahead' = Tail(ahead) /\ pc' = pc /\ pb' = pb /\ s' = s /\ base' = base
        /\ point' = point /\ ReadAt(point, low')
    BY <2>1, JumpLowRun
  <2>3. ins' = ins /\ reach' = reach /\ Remembers /\ Agrees
    BY <2>2 DEF Goes, ReadAt
  <2>4. HighKnown' /\ point' = Through' /\ Called(p)' /\ p \in Tops' /\ Behind(3)'
    BY <1>3, <2>1, <2>2, <2>3, HighKept, CalledKept DEF Behind
  <2>5. IsKnown(point)' /\ low' = (mem[Cell(point)])'
    <3>1. Cell(point)' = Cell(point)
      BY <2>2, <2>3 DEF Cell
    <3> QED
      BY <2>2, <3>1 DEF ReadAt, IsKnown
  <2>6. Head(<<"jumpHigh">>) = "jumpHigh"
    OBVIOUS
  <2> QED
    BY <1>0, <2>1, <2>2, <2>3, <2>4, <2>5, <2>6 DEF JsrIndirectRows, Row, Calm
<1>4. CASE /\ HighKnown /\ point = Through /\ Row(<<"jumpHigh">>, 3)
           /\ IsKnown(point) /\ low = mem[Cell(point)]
  <2>1. ahead # <<>> /\ Head(ahead) = "jumpHigh" /\ pb = Bank(ins.at) /\ Tail(ahead) = <<>>
    BY <1>4 DEF Row, Behind
  <2>2. Goes /\ ahead' = <<>> /\ pb' = pb /\ s' = s /\ base' = base /\ point' = point
    <3>1. Goes /\ ahead' = Tail(ahead) /\ pb' = pb /\ s' = s /\ base' = base /\ point' = point
      BY <2>1, JumpHighRun
    <3> QED
      BY <2>1, <3>1
  <2>3. PICK v \in Byte : ReadAt(InBank(point, 1), v) /\ pc' = Word(low, v)
    BY <2>1, JumpHighRun
  <2>4. ins' = ins /\ reach' = reach /\ Remembers /\ Agrees
    BY <2>2, <2>3 DEF Goes, ReadAt
  <2>5. HighKnown' /\ Through' = Through /\ Called(p)' /\ p \in Tops'
    BY <1>4, <2>2, <2>4, HighKept, CalledKept
  <2>6. At(Through, InBank(Through, 1), Bank(ins.at))'
    <3> DEFINE a == Cell(point)
               b == Cell(InBank(point, 1))
    <3>1. Cell(Through)' = a /\ Cell(InBank(Through, 1))' = b
      BY <1>4, <2>4, <2>5 DEF Cell, InBank
    <3>2. /\ a \in DOMAIN mem' /\ mem'[a] = low
      BY <1>4, <2>4 DEF Agrees, IsKnown
    <3>3. /\ b \in DOMAIN mem' /\ mem'[b] = v
      BY <2>3 DEF ReadAt
    <3> HIDE DEF a, b
    <3> QED
      BY <2>1, <2>2, <2>3, <2>4, <3>1, <3>2, <3>3 DEF At
  <2> QED
    BY <1>0, <2>1, <2>2, <2>4, <2>5, <2>6 DEF JsrIndirectRows, Calm
<1> QED
  BY <1>1, <1>2, <1>3, <1>4

LEMMA JsrIndirectStep ==
  ASSUME TypeOK, Asserts, Handled, JsrIndirectRows, Next, ~Fail, ahead # <<>>
  PROVE  Goes /\ ahead' = Tail(ahead) /\ JsrIndirectRows' /\ Calm'
<1>1. CASE Head(ahead) \in {"low", "pushHigh", "pushLow"}
  BY <1>1, JsrIndirectPushes
<1>2. ASSUME NEW p \in Tops, Called(p),
             \/ LowFound /\ Row(<<"high", "here", "jumpLow", "jumpHigh">>, 2)
             \/ HighKnown /\ point = Through /\ Row(<<"here", "jumpLow", "jumpHigh">>, 3)
             \/ HighKnown /\ point = Through /\ Row(<<"jumpLow", "jumpHigh">>, 3)
             \/ /\ HighKnown /\ point = Through /\ Row(<<"jumpHigh">>, 3)
                /\ IsKnown(point) /\ low = mem[Cell(point)]
      PROVE  Goes /\ ahead' = Tail(ahead) /\ JsrIndirectRows' /\ Calm'
  BY <1>2, JsrIndirectJumps
<1>3. \/ Head(ahead) \in {"low", "pushHigh", "pushLow"}
      \/ \E p \in Tops :
           /\ Called(p)
           /\ \/ LowFound /\ Row(<<"high", "here", "jumpLow", "jumpHigh">>, 2)
              \/ HighKnown /\ point = Through /\ Row(<<"here", "jumpLow", "jumpHigh">>, 3)
              \/ HighKnown /\ point = Through /\ Row(<<"jumpLow", "jumpHigh">>, 3)
              \/ /\ HighKnown /\ point = Through /\ Row(<<"jumpHigh">>, 3)
                 /\ IsKnown(point) /\ low = mem[Cell(point)]
  BY DEF JsrIndirectRows, Row
<1> QED
  BY <1>1, <1>2, <1>3

-----------------------------------------------------------------------------
(* Returns.                                                                *)

\* The byte pulled as the nth, from p up.
Up(p, n) == Cell(Around(p, n))

Drawn(p, n, v) == Up(p, n) \in DOMAIN mem /\ mem[Up(p, n)] = v

\* A word pulled, its low byte first.
WordDrawn(p, n, w) == Drawn(p, n, Low(w)) /\ Drawn(p, n + 1, High(w))

Above(p, n) == s = Around(p, n)

Returning ==
    \E p \in Tops :
       \/ /\ ins.kind = "rts"
          /\ \/ s = p /\ Row(<<"idle", "idle", "pullLow", "pullHigh", "pulled">>, 1)
             \/ s = p /\ Row(<<"idle", "pullLow", "pullHigh", "pulled">>, 1)
             \/ s = p /\ Row(<<"pullLow", "pullHigh", "pulled">>, 1)
             \/ Above(p, 1) /\ Row(<<"pullHigh", "pulled">>, 1) /\ Drawn(p, 1, low)
             \/ Settled(p, 2) /\ Row(<<"pulled">>, 1) /\ WordDrawn(p, 1, base)
             \/ /\ Settled(p, 2) /\ ahead = <<>> /\ pb = Bank(ins.at) /\ pc = Plus(base, 1)
                /\ WordDrawn(p, 1, base)
       \/ /\ ins.kind = "rtl"
          /\ \/ s = p /\ Row(<<"idle", "idle", "pullLow", "pullHigh", "pullBank">>, 1)
             \/ s = p /\ Row(<<"idle", "pullLow", "pullHigh", "pullBank">>, 1)
             \/ s = p /\ Row(<<"pullLow", "pullHigh", "pullBank">>, 1)
             \/ Above(p, 1) /\ Row(<<"pullHigh", "pullBank">>, 1) /\ Drawn(p, 1, low)
             \/ Above(p, 2) /\ Row(<<"pullBank">>, 1) /\ WordDrawn(p, 1, base)
             \/ /\ Settled(p, 3) /\ ahead = <<>> /\ Drawn(p, 3, pb) /\ pc = Plus(base, 1)
                /\ WordDrawn(p, 1, base)
       \/ /\ ins.kind = "rti" /\ ins.e
          /\ \/ s = p /\ Row(<<"idle", "idle", "pullAside", "pullLow", "pullHigh">>, 1)
             \/ s = p /\ Row(<<"idle", "pullAside", "pullLow", "pullHigh">>, 1)
             \/ s = p /\ Row(<<"pullAside", "pullLow", "pullHigh">>, 1)
             \/ Above(p, 1) /\ Row(<<"pullLow", "pullHigh">>, 1)
             \/ Above(p, 2) /\ Row(<<"pullHigh">>, 1) /\ Drawn(p, 2, low)
             \/ Settled(p, 3) /\ ahead = <<>> /\ pb = Bank(ins.at) /\ WordDrawn(p, 2, pc)
       \/ /\ ins.kind = "rti" /\ ~ins.e
          /\ \/ s = p /\ Row(<<"idle", "idle", "pullAside", "pullLow", "pullHigh", "pullBank">>, 1)
             \/ s = p /\ Row(<<"idle", "pullAside", "pullLow", "pullHigh", "pullBank">>, 1)
             \/ s = p /\ Row(<<"pullAside", "pullLow", "pullHigh", "pullBank">>, 1)
             \/ Above(p, 1) /\ Row(<<"pullLow", "pullHigh", "pullBank">>, 1)
             \/ Above(p, 2) /\ Row(<<"pullHigh", "pullBank">>, 1) /\ Drawn(p, 2, low)
             \/ Above(p, 3) /\ ahead = <<"pullBank">> /\ WordDrawn(p, 2, pc)
             \/ Settled(p, 4) /\ ahead = <<>> /\ Drawn(p, 4, pb) /\ WordDrawn(p, 2, pc)

\* What has been pulled is still on the stack.
LEMMA DrawnKept ==
  ASSUME ins' = ins, reach' = reach, Agrees
  PROVE  /\ \A p, n : /\ Around(p, n)' = Around(p, n)
                      /\ Up(p, n) \in DOMAIN mem
                         => (Up(p, n) \in DOMAIN mem)' /\ (mem[Up(p, n)])' = mem[Up(p, n)]
         /\ Tops' = Tops
<1>1. \A p, n : Up(p, n)' = Up(p, n) /\ Around(p, n)' = Around(p, n)
  BY DEF Around, InPageOne, Up, Cell
<1>2. \A c \in DOMAIN mem : c \in DOMAIN mem' /\ mem'[c] = mem[c]
  BY DEF Agrees
<1> QED
  BY <1>1, <1>2, DownKept

\* A byte is pulled, above k others.
LEMMA MovedUp ==
  ASSUME TypeOK, NEW p \in Int, NEW k \in Int, NEW n \in Int, n = k + 1, Above(p, k)
  PROVE  /\ Moved(1) = Around(p, n)
         /\ Kept(1) = IF More THEN Around(p, n) ELSE InPageOne(Plus(p, n))
<1>1. s = Around(p, k) /\ 1 \in Int
  BY DEF Above
<1>2. /\ Moved(1) = Around(p, k + 1)
      /\ Kept(1) = IF More THEN Around(p, k + 1) ELSE InPageOne(Plus(p, k + 1))
  BY <1>1, MovedOn
<1> QED
  BY <1>2

LEMMA PullRun ==
  ASSUME TypeOK, Asserts, Handled, Next, ~Fail, ahead # <<>>, Head(ahead) \in Pulling,
         NEW p \in Int, NEW k \in Int, NEW n \in Int, n = k + 1, Above(p, k)
  PROVE  /\ Goes /\ ahead' = Tail(ahead) /\ Agrees
         /\ More => Above(p, n)'
         /\ ~More => Settled(p, n)'
         /\ Head(ahead) = "pullAside" => pc' = pc /\ pb' = pb /\ low' = low /\ base' = base
         /\ Head(ahead) # "pullAside" => \E v \in Byte :
               /\ Drawn(p, n, v)'
               /\ Head(ahead) = "pullLow" => low' = v /\ base' = base /\ pc' = pc /\ pb' = pb
               /\ Head(ahead) = "pullHigh" =>
                     /\ base' = Word(low, v) /\ pb' = pb
                     /\ pc' = IF ins.kind = "rti" THEN Word(low, v) ELSE pc
               /\ Head(ahead) = "pullBank" =>
                     /\ base' = base /\ pb' = v
                     /\ pc' = IF ins.kind = "rtl" THEN Plus(base, 1) ELSE pc
<1>1. Pull /\ Goes
  <2>1. Head(ahead) \notin Telling /\ Head(ahead) # "leave"
    BY DEF Telling, AtData, Pulling
  <2> QED
    BY <2>1, HandledIs, Acts, Underway DEF Pulling
<1>2. ins' = ins /\ reach' = reach
  BY <1>1 DEF Goes
<1>3. (More => Above(p, n)') /\ (~More => Settled(p, n)')
  <2>1. s' = IF More THEN Around(p, n) ELSE InPageOne(Plus(p, n))
    BY <1>1, MovedUp DEF Pull
  <2>2. Around(p, n)' = Around(p, n) /\ InPageOne(Plus(p, n))' = InPageOne(Plus(p, n))
    BY <1>2 DEF Around, InPageOne
  <2> QED
    BY <2>1, <2>2 DEF Above, Settled
<1>4. ASSUME NEW v \in Byte, ReadAt(Moved(1), v) PROVE Drawn(p, n, v)' /\ Agrees
  <2>1. ReadAt(Around(p, n), v)
    BY <1>4, MovedUp
  <2>2. Up(p, n)' = Cell(Around(p, n))
    BY <1>2 DEF Up, Around, InPageOne, Cell
  <2> QED
    BY <2>1, <2>2 DEF ReadAt, Drawn
<1>5. CASE Head(ahead) = "pullAside"
  <2>1. /\ pc' = pc /\ pb' = pb /\ low' = low /\ base' = base
        /\ Looks("pullAside", {"d"}, Moved(1))
    BY <1>1, <1>5 DEF Pull, Doing
  <2>2. Agrees
    BY <2>1 DEF Looks, Internal, memory, Agrees
  <2> QED
    BY <1>1, <1>3, <1>5, <2>1, <2>2 DEF Pull, Then
<1>6. CASE Head(ahead) # "pullAside"
  <2>1. PICK v \in Byte :
          \/ Doing("pullLow") /\ Reads("pullLow", {"d"}, Moved(1), v)
             /\ low' = v /\ UNCHANGED <<base, pc, pb>>
          \/ Doing("pullHigh") /\ Reads("pullHigh", {"d"}, Moved(1), v)
             /\ base' = Word(low, v) /\ UNCHANGED <<low, pb>>
             /\ pc' = IF ins.kind = "rti" THEN base' ELSE pc
          \/ Doing("pullBank") /\ Reads("pullBank", {"d"}, Moved(1), v)
             /\ pb' = v /\ UNCHANGED <<low, base>>
             /\ pc' = IF ins.kind = "rtl" THEN Plus(base, 1) ELSE pc
    BY <1>1, <1>6 DEF Pull, Doing
  <2>2. ReadAt(Moved(1), v)
    BY <2>1, ReadIs
  <2>3. Drawn(p, n, v)' /\ Agrees
    BY <1>4, <2>2
  <2>4. /\ Head(ahead) = "pullLow" => low' = v /\ base' = base /\ pc' = pc /\ pb' = pb
        /\ Head(ahead) = "pullHigh" =>
              /\ base' = Word(low, v) /\ pb' = pb
              /\ pc' = IF ins.kind = "rti" THEN Word(low, v) ELSE pc
        /\ Head(ahead) = "pullBank" =>
              /\ base' = base /\ pb' = v
              /\ pc' = IF ins.kind = "rtl" THEN Plus(base, 1) ELSE pc
    BY <2>1 DEF Doing
  <2>5. ahead' = Tail(ahead)
    BY <1>1 DEF Pull, Then
  <2> QED
    BY <1>1, <1>3, <1>6, <2>3, <2>4, <2>5
<1> QED
  BY <1>5, <1>6

\* A word is pulled in two cycles.
LEMMA LowPulled ==
  ASSUME TypeOK, Asserts, Handled, Next, ~Fail, ahead # <<>>, Head(ahead) = "pullLow", More,
         NEW p \in Tops, NEW k \in Int, NEW n \in Int, n = k + 1, Above(p, k)
  PROVE  /\ Goes /\ ahead' = Tail(ahead) /\ pc' = pc /\ pb' = pb
         /\ Above(p, n)' /\ Drawn(p, n, low)' /\ p \in Tops'
<1>1. p \in Int /\ Head(ahead) \in Pulling /\ Head(ahead) # "pullAside"
  BY AtTop DEF Pulling
<1>2. /\ Goes /\ ahead' = Tail(ahead) /\ Agrees /\ Above(p, n)'
      /\ \E v \in Byte : /\ Drawn(p, n, v)'
                         /\ low' = v /\ base' = base /\ pc' = pc /\ pb' = pb
  BY <1>1, PullRun
<1>3. ins' = ins /\ reach' = reach
  BY <1>2 DEF Goes
<1> QED
  BY <1>2, <1>3, DownKept DEF Drawn

LEMMA HighPulled ==
  ASSUME TypeOK, Asserts, Handled, Next, ~Fail, ahead # <<>>, Head(ahead) = "pullHigh",
         NEW p \in Tops, NEW k \in Int, NEW n \in Int, n = k + 1, Above(p, k), Drawn(p, k, low)
  PROVE  /\ Goes /\ ahead' = Tail(ahead) /\ p \in Tops' /\ pb' = pb
         /\ pc' = IF ins.kind = "rti" THEN base' ELSE pc
         /\ More => Above(p, n)'
         /\ ~More => Settled(p, n)'
         /\ WordDrawn(p, k, base)'
<1>1. p \in Int /\ Head(ahead) \in Pulling /\ Head(ahead) # "pullAside"
  BY AtTop DEF Pulling
<1>2. /\ Goes /\ ahead' = Tail(ahead) /\ Agrees
      /\ More => Above(p, n)'
      /\ ~More => Settled(p, n)'
  BY <1>1, PullRun
<1>3. PICK v \in Byte : /\ Drawn(p, n, v)' /\ base' = Word(low, v) /\ pb' = pb
                        /\ pc' = IF ins.kind = "rti" THEN Word(low, v) ELSE pc
  BY <1>1, PullRun
<1>4. ins' = ins /\ reach' = reach
  BY <1>2 DEF Goes
<1>5. Low(base') = low /\ High(base') = v
  BY <1>3, Numbers, WordOfBytes
<1>6. (Up(p, k) \in DOMAIN mem)' /\ (mem[Up(p, k)])' = low
  BY <1>2, <1>4, DrawnKept DEF Drawn
<1>7. WordDrawn(p, k, base)'
  BY <1>3, <1>5, <1>6 DEF WordDrawn, Drawn
<1> QED
  BY <1>2, <1>3, <1>4, <1>7, DownKept

LEMMA PulledRun ==
  ASSUME TypeOK, Asserts, Handled, Next, ~Fail, ahead # <<>>, Head(ahead) = "pulled"
  PROVE  /\ Goes /\ ahead' = Tail(ahead) /\ Agrees
         /\ pc' = Plus(base, 1) /\ pb' = pb /\ s' = s /\ base' = base
<1>1. Pulled /\ Goes
  <2>1. Head(ahead) \notin Telling /\ Head(ahead) # "leave"
    BY DEF Telling, AtData
  <2> QED
    BY <2>1, HandledIs, Acts, Underway
<1>2. Agrees
  BY <1>1 DEF Pulled, Internal, memory, Agrees
<1> QED
  BY <1>1, <1>2 DEF Pulled, Then, forming

\* The cycles before anything is pulled.
LEMMA IdleBefore ==
  ASSUME TypeOK, Asserts, Handled, Next, ~Fail, ahead # <<>>, Head(ahead) = "idle", Behind(1),
         NEW p \in Tops, s = p
  PROVE  Goes /\ ahead' = Tail(ahead) /\ Behind(1)' /\ s' = p /\ p \in Tops' /\ ins' = ins
<1>1. Goes /\ ahead' = Tail(ahead) /\ pc' = pc /\ pb' = pb /\ s' = s
  BY IdleRun
<1> QED
  BY <1>1, DownKept DEF Goes, Behind

\* Each cycle of RTS, of RTL and of RTI.
LEMMA RtsStep ==
  ASSUME TypeOK, Asserts, Handled, Returning, Next, ~Fail, ahead # <<>>, ins.kind = "rts"
  PROVE  Goes /\ ahead' = Tail(ahead) /\ Returning' /\ Calm'
<1>0. ins.kind = "rts"
  OBVIOUS
<1>1. ASSUME NEW p \in Tops, s = p, Row(<<"idle", "idle", "pullLow", "pullHigh", "pulled">>, 1)
      PROVE  Goes /\ ahead' = Tail(ahead) /\ Returning' /\ Calm'
  <2>1. ahead # <<>> /\ Head(ahead) = "idle" /\ Behind(1)
        /\ Tail(ahead) = <<"idle", "pullLow", "pullHigh", "pulled">>
    BY <1>1 DEF Row
  <2>2. Goes /\ ahead' = Tail(ahead) /\ Behind(1)' /\ s' = p /\ p \in Tops' /\ ins' = ins
    BY <1>1, <2>1, IdleBefore
  <2>3. Head(<<"idle", "pullLow", "pullHigh", "pulled">>) = "idle"
    OBVIOUS
  <2> QED
    BY <1>0, <2>1, <2>2, <2>3 DEF Returning, Row, Calm
<1>2. ASSUME NEW p \in Tops, s = p, Row(<<"idle", "pullLow", "pullHigh", "pulled">>, 1)
      PROVE  Goes /\ ahead' = Tail(ahead) /\ Returning' /\ Calm'
  <2>1. ahead # <<>> /\ Head(ahead) = "idle" /\ Behind(1)
        /\ Tail(ahead) = <<"pullLow", "pullHigh", "pulled">>
    BY <1>2 DEF Row
  <2>2. Goes /\ ahead' = Tail(ahead) /\ Behind(1)' /\ s' = p /\ p \in Tops' /\ ins' = ins
    BY <1>2, <2>1, IdleBefore
  <2>3. Head(<<"pullLow", "pullHigh", "pulled">>) = "pullLow"
    OBVIOUS
  <2> QED
    BY <1>0, <2>1, <2>2, <2>3 DEF Returning, Row, Calm
<1>3. ASSUME NEW p \in Tops, s = p, Row(<<"pullLow", "pullHigh", "pulled">>, 1)
      PROVE  Goes /\ ahead' = Tail(ahead) /\ Returning' /\ Calm'
  <2>1. ahead # <<>> /\ Head(ahead) = "pullLow" /\ Behind(1) /\ More
        /\ Tail(ahead) = <<"pullHigh", "pulled">>
    <3>1. Len(ahead) = 3 /\ ahead[2] = "pullHigh"
      BY <1>3 DEF Row
    <3> QED
      BY <1>3, <3>1 DEF Row, More, Pulling
  <2>2. Above(p, 0) /\ 1 = 0 + 1 /\ 0 \in Int /\ 1 \in Int
    BY <1>3, AtTop DEF Above
  <2>3. /\ Goes /\ ahead' = Tail(ahead) /\ pc' = pc /\ pb' = pb
        /\ Above(p, 1)' /\ Drawn(p, 1, low)' /\ p \in Tops'
    BY <2>1, <2>2, LowPulled
  <2>4. ins' = ins /\ Behind(1)'
    BY <2>1, <2>3 DEF Goes, Behind
  <2>5. Head(<<"pullHigh", "pulled">>) = "pullHigh"
    OBVIOUS
  <2> QED
    BY <1>0, <2>1, <2>3, <2>4, <2>5 DEF Returning, Row, Calm
<1>4. ASSUME NEW p \in Tops, Above(p, 1), Row(<<"pullHigh", "pulled">>, 1), Drawn(p, 1, low)
      PROVE  Goes /\ ahead' = Tail(ahead) /\ Returning' /\ Calm'
  <2>1. ahead # <<>> /\ Head(ahead) = "pullHigh" /\ Behind(1) /\ ~More
        /\ Tail(ahead) = <<"pulled">>
    <3>1. Len(ahead) = 2 /\ ahead[2] = "pulled"
      BY <1>4 DEF Row
    <3> QED
      BY <1>4, <3>1 DEF Row, More, Pulling, Pushing
  <2>2. 2 = 1 + 1 /\ 1 \in Int /\ 2 \in Int
    OBVIOUS
  <2>3. /\ Goes /\ ahead' = Tail(ahead) /\ p \in Tops' /\ pb' = pb
        /\ pc' = IF ins.kind = "rti" THEN base' ELSE pc
        /\ Settled(p, 2)' /\ WordDrawn(p, 1, base)'
    BY <1>4, <2>1, <2>2, HighPulled
  <2>4. ins' = ins /\ Behind(1)'
    BY <1>0, <2>1, <2>3 DEF Goes, Behind
  <2>5. Head(<<"pulled">>) = "pulled"
    OBVIOUS
  <2> QED
    BY <1>0, <2>1, <2>3, <2>4, <2>5 DEF Returning, Row, Calm
<1>5. ASSUME NEW p \in Tops, Settled(p, 2), Row(<<"pulled">>, 1), WordDrawn(p, 1, base)
      PROVE  Goes /\ ahead' = Tail(ahead) /\ Returning' /\ Calm'
  <2>1. ahead # <<>> /\ Head(ahead) = "pulled" /\ pb = Bank(ins.at) /\ Tail(ahead) = <<>>
    BY <1>5 DEF Row, Behind
  <2>2. /\ Goes /\ ahead' = Tail(ahead) /\ Agrees
        /\ pc' = Plus(base, 1) /\ pb' = pb /\ s' = s /\ base' = base
    BY <2>1, PulledRun
  <2>3. ins' = ins /\ reach' = reach
    BY <2>2 DEF Goes
  <2>4. WordDrawn(p, 1, base)'
    BY <1>5, <2>2, <2>3, DrawnKept DEF WordDrawn, Drawn
  <2>5. Settled(p, 2)' /\ p \in Tops'
    BY <1>5, <2>2, <2>3, DownKept DEF Settled, InPageOne
  <2> QED
    BY <1>0, <2>1, <2>2, <2>3, <2>4, <2>5 DEF Returning, Calm
<1> QED
  BY <1>0, <1>1, <1>2, <1>3, <1>4, <1>5 DEF Returning, Row

LEMMA RtlStep ==
  ASSUME TypeOK, Asserts, Handled, Returning, Next, ~Fail, ahead # <<>>, ins.kind = "rtl"
  PROVE  Goes /\ ahead' = Tail(ahead) /\ Returning' /\ Calm'
<1>0. ins.kind = "rtl"
  OBVIOUS
<1>1. ASSUME NEW p \in Tops, s = p, Row(<<"idle", "idle", "pullLow", "pullHigh", "pullBank">>, 1)
      PROVE  Goes /\ ahead' = Tail(ahead) /\ Returning' /\ Calm'
  <2>1. ahead # <<>> /\ Head(ahead) = "idle" /\ Behind(1)
        /\ Tail(ahead) = <<"idle", "pullLow", "pullHigh", "pullBank">>
    BY <1>1 DEF Row
  <2>2. Goes /\ ahead' = Tail(ahead) /\ Behind(1)' /\ s' = p /\ p \in Tops' /\ ins' = ins
    BY <1>1, <2>1, IdleBefore
  <2>3. Head(<<"idle", "pullLow", "pullHigh", "pullBank">>) = "idle"
    OBVIOUS
  <2> QED
    BY <1>0, <2>1, <2>2, <2>3 DEF Returning, Row, Calm
<1>2. ASSUME NEW p \in Tops, s = p, Row(<<"idle", "pullLow", "pullHigh", "pullBank">>, 1)
      PROVE  Goes /\ ahead' = Tail(ahead) /\ Returning' /\ Calm'
  <2>1. ahead # <<>> /\ Head(ahead) = "idle" /\ Behind(1)
        /\ Tail(ahead) = <<"pullLow", "pullHigh", "pullBank">>
    BY <1>2 DEF Row
  <2>2. Goes /\ ahead' = Tail(ahead) /\ Behind(1)' /\ s' = p /\ p \in Tops' /\ ins' = ins
    BY <1>2, <2>1, IdleBefore
  <2>3. Head(<<"pullLow", "pullHigh", "pullBank">>) = "pullLow"
    OBVIOUS
  <2> QED
    BY <1>0, <2>1, <2>2, <2>3 DEF Returning, Row, Calm
<1>3. ASSUME NEW p \in Tops, s = p, Row(<<"pullLow", "pullHigh", "pullBank">>, 1)
      PROVE  Goes /\ ahead' = Tail(ahead) /\ Returning' /\ Calm'
  <2>1. ahead # <<>> /\ Head(ahead) = "pullLow" /\ Behind(1) /\ More
        /\ Tail(ahead) = <<"pullHigh", "pullBank">>
    <3>1. Len(ahead) = 3 /\ ahead[2] = "pullHigh"
      BY <1>3 DEF Row
    <3> QED
      BY <1>3, <3>1 DEF Row, More, Pulling
  <2>2. Above(p, 0) /\ 1 = 0 + 1 /\ 0 \in Int /\ 1 \in Int
    BY <1>3, AtTop DEF Above
  <2>3. /\ Goes /\ ahead' = Tail(ahead) /\ pc' = pc /\ pb' = pb
        /\ Above(p, 1)' /\ Drawn(p, 1, low)' /\ p \in Tops'
    BY <2>1, <2>2, LowPulled
  <2>4. ins' = ins /\ Behind(1)'
    BY <2>1, <2>3 DEF Goes, Behind
  <2>5. Head(<<"pullHigh", "pullBank">>) = "pullHigh"
    OBVIOUS
  <2> QED
    BY <1>0, <2>1, <2>3, <2>4, <2>5 DEF Returning, Row, Calm
<1>4. ASSUME NEW p \in Tops, Above(p, 1), Row(<<"pullHigh", "pullBank">>, 1), Drawn(p, 1, low)
      PROVE  Goes /\ ahead' = Tail(ahead) /\ Returning' /\ Calm'
  <2>1. ahead # <<>> /\ Head(ahead) = "pullHigh" /\ Behind(1) /\ More
        /\ Tail(ahead) = <<"pullBank">>
    <3>1. Len(ahead) = 2 /\ ahead[2] = "pullBank"
      BY <1>4 DEF Row
    <3> QED
      BY <1>4, <3>1 DEF Row, More, Pulling
  <2>2. 2 = 1 + 1 /\ 1 \in Int /\ 2 \in Int
    OBVIOUS
  <2>3. /\ Goes /\ ahead' = Tail(ahead) /\ p \in Tops' /\ pb' = pb
        /\ pc' = IF ins.kind = "rti" THEN base' ELSE pc
        /\ Above(p, 2)' /\ WordDrawn(p, 1, base)'
    BY <1>4, <2>1, <2>2, HighPulled
  <2>4. ins' = ins /\ Behind(1)'
    BY <1>0, <2>1, <2>3 DEF Goes, Behind
  <2>5. Head(<<"pullBank">>) = "pullBank"
    OBVIOUS
  <2> QED
    BY <1>0, <2>1, <2>3, <2>4, <2>5 DEF Returning, Row, Calm
<1>5. ASSUME NEW p \in Tops, Above(p, 2), Row(<<"pullBank">>, 1), WordDrawn(p, 1, base)
      PROVE  Goes /\ ahead' = Tail(ahead) /\ Returning' /\ Calm'
  <2>1. ahead # <<>> /\ Head(ahead) = "pullBank" /\ Tail(ahead) = <<>> /\ ~More
    BY <1>5 DEF Row, More
  <2>2. /\ p \in Int /\ Head(ahead) \in Pulling /\ Head(ahead) # "pullAside"
        /\ 3 = 2 + 1 /\ 2 \in Int /\ 3 \in Int
    BY <2>1, AtTop DEF Pulling
  <2>3. /\ Goes /\ ahead' = Tail(ahead) /\ Agrees /\ Settled(p, 3)'
        /\ \E v \in Byte : /\ Drawn(p, 3, v)' /\ base' = base /\ pb' = v
                           /\ pc' = IF ins.kind = "rtl" THEN Plus(base, 1) ELSE pc
    BY <1>5, <2>1, <2>2, PullRun
  <2>4. ins' = ins /\ reach' = reach
    BY <2>3 DEF Goes
  <2>5. Drawn(p, 3, pb)' /\ pc' = Plus(base, 1) /\ base' = base /\ p \in Tops'
    BY <1>0, <2>3, <2>4, DownKept DEF Drawn
  <2>6. WordDrawn(p, 1, base)'
    BY <1>5, <2>3, <2>4, <2>5, DrawnKept DEF WordDrawn, Drawn
  <2> QED
    BY <1>0, <2>1, <2>3, <2>4, <2>5, <2>6 DEF Returning, Calm
<1> QED
  BY <1>0, <1>1, <1>2, <1>3, <1>4, <1>5 DEF Returning, Row

LEMMA RtiStep ==
  ASSUME TypeOK, Asserts, Handled, Returning, Next, ~Fail, ahead # <<>>, ins.kind = "rti", ins.e
  PROVE  Goes /\ ahead' = Tail(ahead) /\ Returning' /\ Calm'
<1>0. ins.kind = "rti" /\ ins.e
  OBVIOUS
<1>1. ASSUME NEW p \in Tops, s = p, Row(<<"idle", "idle", "pullAside", "pullLow", "pullHigh">>, 1)
      PROVE  Goes /\ ahead' = Tail(ahead) /\ Returning' /\ Calm'
  <2>1. ahead # <<>> /\ Head(ahead) = "idle" /\ Behind(1)
        /\ Tail(ahead) = <<"idle", "pullAside", "pullLow", "pullHigh">>
    BY <1>1 DEF Row
  <2>2. Goes /\ ahead' = Tail(ahead) /\ Behind(1)' /\ s' = p /\ p \in Tops' /\ ins' = ins
    BY <1>1, <2>1, IdleBefore
  <2>3. Head(<<"idle", "pullAside", "pullLow", "pullHigh">>) = "idle"
    OBVIOUS
  <2> QED
    BY <1>0, <2>1, <2>2, <2>3 DEF Returning, Row, Calm
<1>2. ASSUME NEW p \in Tops, s = p, Row(<<"idle", "pullAside", "pullLow", "pullHigh">>, 1)
      PROVE  Goes /\ ahead' = Tail(ahead) /\ Returning' /\ Calm'
  <2>1. ahead # <<>> /\ Head(ahead) = "idle" /\ Behind(1)
        /\ Tail(ahead) = <<"pullAside", "pullLow", "pullHigh">>
    BY <1>2 DEF Row
  <2>2. Goes /\ ahead' = Tail(ahead) /\ Behind(1)' /\ s' = p /\ p \in Tops' /\ ins' = ins
    BY <1>2, <2>1, IdleBefore
  <2>3. Head(<<"pullAside", "pullLow", "pullHigh">>) = "pullAside"
    OBVIOUS
  <2> QED
    BY <1>0, <2>1, <2>2, <2>3 DEF Returning, Row, Calm
<1>3. ASSUME NEW p \in Tops, s = p, Row(<<"pullAside", "pullLow", "pullHigh">>, 1)
      PROVE  Goes /\ ahead' = Tail(ahead) /\ Returning' /\ Calm'
  <2>1. ahead # <<>> /\ Head(ahead) = "pullAside" /\ Behind(1) /\ More
        /\ Tail(ahead) = <<"pullLow", "pullHigh">>
    <3>1. Len(ahead) = 3 /\ ahead[2] = "pullLow"
      BY <1>3 DEF Row
    <3> QED
      BY <1>3, <3>1 DEF Row, More, Pulling
  <2>2. /\ p \in Int /\ Above(p, 0) /\ Head(ahead) \in Pulling
        /\ 1 = 0 + 1 /\ 0 \in Int /\ 1 \in Int
    BY <1>3, <2>1, AtTop DEF Pulling, Above
  <2>3. Goes /\ ahead' = Tail(ahead) /\ Above(p, 1)' /\ pc' = pc /\ pb' = pb
    BY <2>1, <2>2, PullRun
  <2>4. ins' = ins /\ p \in Tops' /\ Behind(1)'
    BY <2>1, <2>3, DownKept DEF Goes, Behind
  <2>5. Head(<<"pullLow", "pullHigh">>) = "pullLow"
    OBVIOUS
  <2> QED
    BY <1>0, <2>1, <2>3, <2>4, <2>5 DEF Returning, Row, Calm
<1>4. ASSUME NEW p \in Tops, Above(p, 1), Row(<<"pullLow", "pullHigh">>, 1)
      PROVE  Goes /\ ahead' = Tail(ahead) /\ Returning' /\ Calm'
  <2>1. ahead # <<>> /\ Head(ahead) = "pullLow" /\ Behind(1) /\ More
        /\ Tail(ahead) = <<"pullHigh">>
    <3>1. Len(ahead) = 2 /\ ahead[2] = "pullHigh"
      BY <1>4 DEF Row
    <3> QED
      BY <1>4, <3>1 DEF Row, More, Pulling
  <2>2. Above(p, 1) /\ 2 = 1 + 1 /\ 1 \in Int /\ 2 \in Int
    BY <1>4 DEF Above
  <2>3. /\ Goes /\ ahead' = Tail(ahead) /\ pc' = pc /\ pb' = pb
        /\ Above(p, 2)' /\ Drawn(p, 2, low)' /\ p \in Tops'
    BY <2>1, <2>2, LowPulled
  <2>4. ins' = ins /\ Behind(1)'
    BY <2>1, <2>3 DEF Goes, Behind
  <2>5. Head(<<"pullHigh">>) = "pullHigh"
    OBVIOUS
  <2> QED
    BY <1>0, <2>1, <2>3, <2>4, <2>5 DEF Returning, Row, Calm
<1>5. ASSUME NEW p \in Tops, Above(p, 2), Row(<<"pullHigh">>, 1), Drawn(p, 2, low)
      PROVE  Goes /\ ahead' = Tail(ahead) /\ Returning' /\ Calm'
  <2>1. ahead # <<>> /\ Head(ahead) = "pullHigh" /\ Behind(1) /\ ~More
        /\ Tail(ahead) = <<>>
    BY <1>5 DEF Row, More
  <2>2. 3 = 2 + 1 /\ 2 \in Int /\ 3 \in Int
    OBVIOUS
  <2>3. /\ Goes /\ ahead' = Tail(ahead) /\ p \in Tops' /\ pb' = pb
        /\ pc' = IF ins.kind = "rti" THEN base' ELSE pc
        /\ Settled(p, 3)' /\ WordDrawn(p, 2, base)'
    BY <1>5, <2>1, <2>2, HighPulled
  <2>4. ins' = ins /\ pb' = Bank(ins.at) /\ WordDrawn(p, 2, pc)'
    BY <1>0, <2>1, <2>3 DEF Goes, Behind, WordDrawn
  <2> QED
    BY <1>0, <2>1, <2>3, <2>4 DEF Returning, Row, Calm
<1> QED
  BY <1>0, <1>1, <1>2, <1>3, <1>4, <1>5 DEF Returning, Row

LEMMA RtiNativeStep ==
  ASSUME TypeOK, Asserts, Handled, Returning, Next, ~Fail, ahead # <<>>, ins.kind = "rti", ~ins.e
  PROVE  Goes /\ ahead' = Tail(ahead) /\ Returning' /\ Calm'
<1>0. ins.kind = "rti" /\ ~ins.e
  OBVIOUS
<1>1. ASSUME NEW p \in Tops, s = p, Row(<<"idle", "idle", "pullAside", "pullLow", "pullHigh", "pullBank">>, 1)
      PROVE  Goes /\ ahead' = Tail(ahead) /\ Returning' /\ Calm'
  <2>1. ahead # <<>> /\ Head(ahead) = "idle" /\ Behind(1)
        /\ Tail(ahead) = <<"idle", "pullAside", "pullLow", "pullHigh", "pullBank">>
    BY <1>1 DEF Row
  <2>2. Goes /\ ahead' = Tail(ahead) /\ Behind(1)' /\ s' = p /\ p \in Tops' /\ ins' = ins
    BY <1>1, <2>1, IdleBefore
  <2>3. Head(<<"idle", "pullAside", "pullLow", "pullHigh", "pullBank">>) = "idle"
    OBVIOUS
  <2> QED
    BY <1>0, <2>1, <2>2, <2>3 DEF Returning, Row, Calm
<1>2. ASSUME NEW p \in Tops, s = p, Row(<<"idle", "pullAside", "pullLow", "pullHigh", "pullBank">>, 1)
      PROVE  Goes /\ ahead' = Tail(ahead) /\ Returning' /\ Calm'
  <2>1. ahead # <<>> /\ Head(ahead) = "idle" /\ Behind(1)
        /\ Tail(ahead) = <<"pullAside", "pullLow", "pullHigh", "pullBank">>
    BY <1>2 DEF Row
  <2>2. Goes /\ ahead' = Tail(ahead) /\ Behind(1)' /\ s' = p /\ p \in Tops' /\ ins' = ins
    BY <1>2, <2>1, IdleBefore
  <2>3. Head(<<"pullAside", "pullLow", "pullHigh", "pullBank">>) = "pullAside"
    OBVIOUS
  <2> QED
    BY <1>0, <2>1, <2>2, <2>3 DEF Returning, Row, Calm
<1>3. ASSUME NEW p \in Tops, s = p, Row(<<"pullAside", "pullLow", "pullHigh", "pullBank">>, 1)
      PROVE  Goes /\ ahead' = Tail(ahead) /\ Returning' /\ Calm'
  <2>1. ahead # <<>> /\ Head(ahead) = "pullAside" /\ Behind(1) /\ More
        /\ Tail(ahead) = <<"pullLow", "pullHigh", "pullBank">>
    <3>1. Len(ahead) = 4 /\ ahead[2] = "pullLow"
      BY <1>3 DEF Row
    <3> QED
      BY <1>3, <3>1 DEF Row, More, Pulling
  <2>2. /\ p \in Int /\ Above(p, 0) /\ Head(ahead) \in Pulling
        /\ 1 = 0 + 1 /\ 0 \in Int /\ 1 \in Int
    BY <1>3, <2>1, AtTop DEF Pulling, Above
  <2>3. Goes /\ ahead' = Tail(ahead) /\ Above(p, 1)' /\ pc' = pc /\ pb' = pb
    BY <2>1, <2>2, PullRun
  <2>4. ins' = ins /\ p \in Tops' /\ Behind(1)'
    BY <2>1, <2>3, DownKept DEF Goes, Behind
  <2>5. Head(<<"pullLow", "pullHigh", "pullBank">>) = "pullLow"
    OBVIOUS
  <2> QED
    BY <1>0, <2>1, <2>3, <2>4, <2>5 DEF Returning, Row, Calm
<1>4. ASSUME NEW p \in Tops, Above(p, 1), Row(<<"pullLow", "pullHigh", "pullBank">>, 1)
      PROVE  Goes /\ ahead' = Tail(ahead) /\ Returning' /\ Calm'
  <2>1. ahead # <<>> /\ Head(ahead) = "pullLow" /\ Behind(1) /\ More
        /\ Tail(ahead) = <<"pullHigh", "pullBank">>
    <3>1. Len(ahead) = 3 /\ ahead[2] = "pullHigh"
      BY <1>4 DEF Row
    <3> QED
      BY <1>4, <3>1 DEF Row, More, Pulling
  <2>2. Above(p, 1) /\ 2 = 1 + 1 /\ 1 \in Int /\ 2 \in Int
    BY <1>4 DEF Above
  <2>3. /\ Goes /\ ahead' = Tail(ahead) /\ pc' = pc /\ pb' = pb
        /\ Above(p, 2)' /\ Drawn(p, 2, low)' /\ p \in Tops'
    BY <2>1, <2>2, LowPulled
  <2>4. ins' = ins /\ Behind(1)'
    BY <2>1, <2>3 DEF Goes, Behind
  <2>5. Head(<<"pullHigh", "pullBank">>) = "pullHigh"
    OBVIOUS
  <2> QED
    BY <1>0, <2>1, <2>3, <2>4, <2>5 DEF Returning, Row, Calm
<1>5. ASSUME NEW p \in Tops, Above(p, 2), Row(<<"pullHigh", "pullBank">>, 1), Drawn(p, 2, low)
      PROVE  Goes /\ ahead' = Tail(ahead) /\ Returning' /\ Calm'
  <2>1. ahead # <<>> /\ Head(ahead) = "pullHigh" /\ Behind(1) /\ More
        /\ Tail(ahead) = <<"pullBank">>
    <3>1. Len(ahead) = 2 /\ ahead[2] = "pullBank"
      BY <1>5 DEF Row
    <3> QED
      BY <1>5, <3>1 DEF Row, More, Pulling
  <2>2. 3 = 2 + 1 /\ 2 \in Int /\ 3 \in Int
    OBVIOUS
  <2>3. /\ Goes /\ ahead' = Tail(ahead) /\ p \in Tops' /\ pb' = pb
        /\ pc' = IF ins.kind = "rti" THEN base' ELSE pc
        /\ Above(p, 3)' /\ WordDrawn(p, 2, base)'
    BY <1>5, <2>1, <2>2, HighPulled
  <2>4. ins' = ins /\ pb' = Bank(ins.at) /\ WordDrawn(p, 2, pc)'
    BY <1>0, <2>1, <2>3 DEF Goes, Behind, WordDrawn
  <2>5. Head(<<"pullBank">>) = "pullBank"
    OBVIOUS
  <2> QED
    BY <1>0, <2>1, <2>3, <2>4, <2>5 DEF Returning, Row, Calm
<1>6. ASSUME NEW p \in Tops, Above(p, 3), ahead = <<"pullBank">>, WordDrawn(p, 2, pc)
      PROVE  Goes /\ ahead' = Tail(ahead) /\ Returning' /\ Calm'
  <2>1. ahead # <<>> /\ Head(ahead) = "pullBank" /\ Tail(ahead) = <<>> /\ ~More
    BY <1>6 DEF Row, More
  <2>2. /\ p \in Int /\ Head(ahead) \in Pulling /\ Head(ahead) # "pullAside"
        /\ 4 = 3 + 1 /\ 3 \in Int /\ 4 \in Int
    BY <2>1, AtTop DEF Pulling
  <2>3. /\ Goes /\ ahead' = Tail(ahead) /\ Agrees /\ Settled(p, 4)'
        /\ \E v \in Byte : /\ Drawn(p, 4, v)' /\ base' = base /\ pb' = v
                           /\ pc' = IF ins.kind = "rtl" THEN Plus(base, 1) ELSE pc
    BY <1>6, <2>1, <2>2, PullRun
  <2>4. ins' = ins /\ reach' = reach
    BY <2>3 DEF Goes
  <2>5. Drawn(p, 4, pb)' /\ pc' = pc /\ base' = base /\ p \in Tops'
    BY <1>0, <2>3, <2>4, DownKept DEF Drawn
  <2>6. WordDrawn(p, 2, pc)'
    BY <1>6, <2>3, <2>4, <2>5, DrawnKept DEF WordDrawn, Drawn
  <2> QED
    BY <1>0, <2>1, <2>3, <2>4, <2>5, <2>6 DEF Returning, Calm
<1> QED
  BY <1>0, <1>1, <1>2, <1>3, <1>4, <1>5, <1>6 DEF Returning, Row

LEMMA ReturningStep ==
  ASSUME TypeOK, Asserts, Handled, Returning, Next, ~Fail, ahead # <<>>
  PROVE  Goes /\ ahead' = Tail(ahead) /\ Returning' /\ Calm'
  BY RtsStep, RtlStep, RtiStep, RtiNativeStep DEF Returning

-----------------------------------------------------------------------------
(* Entries: BRK, and an interrupt.                                         *)

\* Where an entry resumes, and how many bytes it pushes before that.
Resumes == IF ins.kind = "brk" THEN After ELSE ins.at % BB

Native == IF ins.e THEN 0 ELSE 1

BankLaid(p) == ~ins.e => Laid(p, 0, Bank(ins.at))

\* What it has pushed, n bytes down from p, and what is left.
Entering(p, n) ==
    \/ /\ Below(p, n) /\ pc = Resumes
       /\ ahead = <<"pushHigh", "pushLow", "push", "vector", "vectorHigh">>
    \/ /\ Below(p, n + 1) /\ pc = Resumes /\ Laid(p, n, High(Resumes))
       /\ ahead = <<"pushLow", "push", "vector", "vectorHigh">>
    \/ /\ Below(p, n + 2) /\ Return(p, n, Resumes)
       /\ ahead = <<"push", "vector", "vectorHigh">>
    \/ /\ Settled(p, 0 - (n + 3)) /\ Return(p, n, Resumes)
       /\ \/ ahead = <<"vector", "vectorHigh">>
          \/ /\ ahead = <<"vectorHigh">> /\ pb = 0
             /\ \E at \in Vectors : point = at /\ IsKnown(at) /\ low = mem[Cell(at)]
          \/ ahead = <<>> /\ \E at \in Vectors : At(at, at + 1, 0)

Interrupting ==
    /\ ins.kind \in {"brk", "interrupt"}
    /\ \E p \in Tops :
       \/ /\ s = p /\ ins.kind = "brk" /\ ins.e
          /\ Row(<<"signature", "pushHigh", "pushLow", "push", "vector", "vectorHigh">>, 1)
       \/ /\ s = p /\ ins.kind = "brk" /\ ~ins.e
          /\ Row(<<"signature", "pushBank", "pushHigh", "pushLow", "push", "vector",
                   "vectorHigh">>, 1)
       \/ /\ s = p /\ ~ins.e /\ pc = Resumes /\ pb = Bank(ins.at)
          /\ ahead = <<"pushBank", "pushHigh", "pushLow", "push", "vector", "vectorHigh">>
       \/ BankLaid(p) /\ \E n \in {0, 1} : n = Native /\ Entering(p, n)

\* Where a cycle leads that may hold an output.
Moves ==
    /\ TypeOK' /\ ins' = ins /\ reach' = reach /\ cycles' = cycles + 1
    /\ Asserts' /\ BusTells'

LEMMA ResumesIs ==
  ASSUME TypeOK, Handled
  PROVE  /\ ins.kind = "brk" => Resumes = Plus(ins.at % BB, 2)
         /\ Resumes \in Wide
         /\ ins' = ins => Resumes' = Resumes /\ Native' = Native
<1>1. ins.kind = "brk" => Resumes = Plus(ins.at % BB, 2)
  <2>1. ins.kind = "brk" => operand_size = 1
    BY DEF Handled, ModeOf, operand_size, MODE_SIZE
  <2>2. 1 + 1 = 2
    OBVIOUS
  <2> QED
    BY <2>1, <2>2 DEF Resumes, After
<1>2. Resumes \in Wide
  BY AfterWide, Numbers, BankByte DEF Resumes
<1>3. ins' = ins => Resumes' = Resumes /\ Native' = Native
  BY DEF Resumes, After, operand_size, Native
<1> QED
  BY <1>1, <1>2, <1>3

\* The bank stays where it was laid, whatever is pushed after it, and read.
LEMMA BankKept ==
  ASSUME TypeOK, ins' = ins, reach' = reach, NEW p \in Int, BankLaid(p),
         NEW m \in {0, 1}, m = Native, NEW i \in 0..2, NEW v, WroteAt(Down(p, m + i), v)
  PROVE  BankLaid(p)'
<1> SUFFICES ASSUME ~ins.e PROVE Laid(p, 0, Bank(ins.at))'
  BY DEF BankLaid
<1>1. m = 1 /\ Laid(p, 0, Bank(ins.at))
  BY DEF Native, BankLaid
<1>2. PICK n \in Int : n = m + i
  OBVIOUS
<1>3. 0 # n /\ 0 - n < 4 /\ n - 0 < 4 /\ 0 \in Int
  BY <1>1, <1>2
<1>4. (Down(p, 0) \in DOMAIN mem)' /\ (mem[Down(p, 0)])' = mem[Down(p, 0)]
  BY <1>1, <1>2, <1>3, LaidKept DEF Laid
<1> QED
  BY <1>1, <1>4 DEF Laid

\* BRK's second byte, and the bank, of a native part.
LEMMA EntryBegun ==
  ASSUME TypeOK, Asserts, Handled, ins.kind \in {"brk", "interrupt"}, Next, ~Fail, ahead # <<>>,
         NEW p \in Tops, s = p,
         \/ /\ ins.kind = "brk" /\ ins.e
            /\ Row(<<"signature", "pushHigh", "pushLow", "push", "vector", "vectorHigh">>, 1)
         \/ /\ ins.kind = "brk" /\ ~ins.e
            /\ Row(<<"signature", "pushBank", "pushHigh", "pushLow", "push", "vector",
                     "vectorHigh">>, 1)
         \/ /\ ~ins.e /\ pc = Resumes /\ pb = Bank(ins.at)
            /\ ahead = <<"pushBank", "pushHigh", "pushLow", "push", "vector", "vectorHigh">>
  PROVE  Goes /\ ahead' = Tail(ahead) /\ Interrupting' /\ Calm'
<1>0. p \in Int /\ Below(p, 0)
  BY AtTop
<1>1. CASE Head(ahead) = "signature"
  <2>1. ins.kind = "brk" /\ Behind(1)
    BY <1>1 DEF Row
  <2>2. Goes /\ ahead' = Tail(ahead) /\ pc' = Plus(pc, 1) /\ pb' = pb /\ s' = s
    BY <1>1, StepRun
  <2>3. ins' = ins /\ reach' = reach /\ TypeOK'
    BY <2>2 DEF Goes
  <2>4. pc' = Resumes' /\ pb' = Bank(ins'.at)
    <3>1. 1 \in Int /\ 1 + 1 = 2
      OBVIOUS
    <3>2. Behind(1 + 1)'
      BY <2>1, <2>2, <2>3, <3>1, BehindNext
    <3>3. Resumes = Plus(ins.at % BB, 2) /\ Resumes' = Resumes
      BY <2>1, <2>3, ResumesIs
    <3> QED
      BY <2>3, <3>1, <3>2, <3>3 DEF Behind
  <2>5. p \in Tops' /\ s' = p
    BY <2>2, <2>3, DownKept
  <2>6. CASE ins.e
    <3>1. ahead' = <<"pushHigh", "pushLow", "push", "vector", "vectorHigh">>
      <4>1. \/ ahead = <<"signature", "pushHigh", "pushLow", "push", "vector", "vectorHigh">>
            \/ ahead = <<"pushBank", "pushHigh", "pushLow", "push", "vector", "vectorHigh">>
        BY <2>6 DEF Row
      <4>2. ahead = <<"signature", "pushHigh", "pushLow", "push", "vector", "vectorHigh">>
        BY <1>1, <4>1
      <4> QED
        BY <2>2, <4>2
    <3>2. Head(ahead') = "pushHigh"
      BY <3>1
    <3>3. Below(p, 0)' /\ BankLaid(p)' /\ 0 = Native'
      <4>1. Below(p, 0)'
        BY <2>3, <2>5, <1>0 DEF Below, Around, InPageOne
      <4> QED
        BY <2>3, <2>6, <4>1 DEF BankLaid, Native
    <3> QED
      BY <2>1, <2>2, <2>3, <2>4, <2>5, <3>1, <3>2, <3>3 DEF Interrupting, Entering, Calm
  <2>7. CASE ~ins.e
    <3>1. ahead' = <<"pushBank", "pushHigh", "pushLow", "push", "vector", "vectorHigh">>
      <4>1. \/ ahead = <<"signature", "pushBank", "pushHigh", "pushLow", "push", "vector",
                         "vectorHigh">>
            \/ ahead = <<"pushBank", "pushHigh", "pushLow", "push", "vector", "vectorHigh">>
        BY <2>7 DEF Row
      <4>2. ahead = <<"signature", "pushBank", "pushHigh", "pushLow", "push", "vector",
                      "vectorHigh">>
        BY <1>1, <4>1
      <4> QED
        BY <2>2, <4>2
    <3>2. Head(ahead') = "pushBank"
      BY <3>1
    <3> QED
      BY <2>1, <2>2, <2>3, <2>4, <2>5, <2>7, <3>1, <3>2 DEF Interrupting, Calm
  <2> QED
    BY <2>6, <2>7
<1>2. CASE Head(ahead) # "signature"
  <2>1. /\ ~ins.e /\ pc = Resumes /\ pb = Bank(ins.at)
        /\ ahead = <<"pushBank", "pushHigh", "pushLow", "push", "vector", "vectorHigh">>
    BY <1>2 DEF Row
  <2>2. /\ Head(ahead) = "pushBank" /\ Head(ahead) \in Pushing
        /\ Tail(ahead) = <<"pushHigh", "pushLow", "push", "vector", "vectorHigh">>
    BY <2>1 DEF Pushing
  <2>3. More
    <3>1. Len(ahead) = 6 /\ ahead[2] = "pushHigh"
      BY <2>1
    <3> QED
      BY <3>1 DEF More, Pushing
  <2>4. /\ Goes /\ ahead' = Tail(ahead) /\ pc' = pc /\ Below(p, 1)'
        /\ \E v \in Values[Head(ahead)] : WroteAt(Down(p, 0), v)
    <3>1. 1 = 0 + 1 /\ 0 \in Int /\ 1 \in Int
      OBVIOUS
    <3> QED
      BY <1>0, <2>2, <2>3, <3>1, PushRun
  <2>5. ins' = ins /\ reach' = reach /\ Resumes' = Resumes /\ p \in Tops'
    BY <2>4, ResumesIs, DownKept DEF Goes
  <2>6. Laid(p, 0, Bank(ins.at))'
    <3>1. WroteAt(Down(p, 0), Bank(ins.at))
      BY <2>1, <2>2, <2>4 DEF Values
    <3> QED
      BY <2>5, <3>1, DownKept DEF Laid, WroteAt
  <2>7. BankLaid(p)' /\ 1 = Native'
    BY <2>1, <2>5, <2>6 DEF BankLaid, Native
  <2>8. Head(<<"pushHigh", "pushLow", "push", "vector", "vectorHigh">>) = "pushHigh"
    OBVIOUS
  <2> QED
    BY <2>1, <2>2, <2>4, <2>5, <2>7, <2>8 DEF Interrupting, Entering, Calm
<1> QED
  BY <1>1, <1>2

\* What it resumes at, and its status.
LEMMA EntryPushes ==
  ASSUME TypeOK, Asserts, Handled, ins.kind \in {"brk", "interrupt"}, Next, ~Fail, ahead # <<>>,
         NEW p \in Tops, NEW n \in {0, 1}, n = Native, BankLaid(p), Entering(p, n),
         Head(ahead) \in Pushing
  PROVE  Goes /\ ahead' = Tail(ahead) /\ Interrupting' /\ Calm'
<1>0. p \in Int /\ n \in Int /\ ins.kind \notin {"jsr", "jsl"}
      /\ ins.kind \notin Flat /\ (ins.e => n = 0)
  BY AtTop DEF Native, Flat
<1>1. PICK j \in Int, k \in Int, m \in Int : j = n + 1 /\ k = n + 2 /\ m = n + 3
  BY <1>0
<1>2. k = j + 1 /\ m = k + 1 /\ j = n + 1
  BY <1>0, <1>1
<1>3. CASE /\ Below(p, n) /\ pc = Resumes
           /\ ahead = <<"pushHigh", "pushLow", "push", "vector", "vectorHigh">>
  <2>1. /\ Head(ahead) = "pushHigh"
        /\ Tail(ahead) = <<"pushLow", "push", "vector", "vectorHigh">> /\ More
    <3>1. Len(ahead) = 5 /\ ahead[2] = "pushLow"
      BY <1>3
    <3> QED
      BY <1>3, <3>1 DEF More, Pushing
  <2>2. /\ Goes /\ ahead' = Tail(ahead) /\ pc' = pc /\ Below(p, j)'
        /\ \E v \in Values[Head(ahead)] : WroteAt(Down(p, n), v)
    BY <1>0, <1>2, <1>3, <2>1, PushRun
  <2>3. ins' = ins /\ reach' = reach /\ Resumes' = Resumes /\ p \in Tops' /\ Native' = n
    BY <2>2, ResumesIs, DownKept DEF Goes
  <2>4. WroteAt(Down(p, n), High(Resumes))
    <3>1. PushedWord = Resumes
      BY <1>0, <1>3 DEF PushedWord
    <3> QED
      BY <2>1, <2>2, <3>1 DEF Values
  <2>5. Laid(p, n, High(Resumes))'
    BY <2>3, <2>4, DownKept DEF Laid, WroteAt
  <2>6. BankLaid(p)'
    <3>1. 0 \in 0..2 /\ n + 0 = n
      BY <1>0
    <3> QED
      BY <1>0, <2>3, <2>4, <3>1, BankKept
  <2>7. Entering(p, n)'
    BY <1>1, <1>3, <2>1, <2>2, <2>3, <2>5 DEF Entering
  <2>8. Head(<<"pushLow", "push", "vector", "vectorHigh">>) = "pushLow"
    OBVIOUS
  <2> QED
    BY <2>1, <2>2, <2>3, <2>6, <2>7, <2>8 DEF Interrupting, Calm
<1>4. CASE /\ Below(p, n + 1) /\ pc = Resumes /\ Laid(p, n, High(Resumes))
           /\ ahead = <<"pushLow", "push", "vector", "vectorHigh">>
  <2>1. /\ Head(ahead) = "pushLow"
        /\ Tail(ahead) = <<"push", "vector", "vectorHigh">> /\ More
    <3>1. Len(ahead) = 4 /\ ahead[2] = "push"
      BY <1>4
    <3> QED
      BY <1>4, <3>1 DEF More, Pushing
  <2>2. /\ Goes /\ ahead' = Tail(ahead) /\ Below(p, k)'
        /\ \E v \in Values[Head(ahead)] : WroteAt(Down(p, j), v)
    BY <1>0, <1>1, <1>2, <1>4, <2>1, PushRun
  <2>3. ins' = ins /\ reach' = reach /\ Resumes' = Resumes /\ p \in Tops' /\ Native' = n
    BY <2>2, ResumesIs, DownKept DEF Goes
  <2>4. WroteAt(Down(p, j), Low(Resumes))
    <3>1. PushedWord = Resumes
      BY <1>0, <1>4 DEF PushedWord
    <3> QED
      BY <2>1, <2>2, <3>1 DEF Values
  <2>5. Laid(p, j, Low(Resumes))'
    BY <2>3, <2>4, DownKept DEF Laid, WroteAt
  <2>6. Laid(p, n, High(Resumes))'
    <3>1. n # j /\ n - j < 3 /\ j - n < 3 /\ n - j < 4 /\ j - n < 4
      BY <1>0, <1>2
    <3>2. (Down(p, n) \in DOMAIN mem)' /\ (mem[Down(p, n)])' = mem[Down(p, n)]
      BY <1>0, <1>4, <2>3, <2>4, <3>1, LaidKept DEF Laid
    <3> QED
      BY <1>4, <2>3, <3>2 DEF Laid
  <2>7. BankLaid(p)'
    <3>1. 1 \in 0..2
      OBVIOUS
    <3> QED
      BY <1>0, <1>1, <2>3, <2>4, <3>1, BankKept
  <2>8. Return(p, n, Resumes)'
    BY <1>1, <2>5, <2>6 DEF Return, Laid
  <2>9. Entering(p, n)'
    BY <1>1, <2>1, <2>2, <2>8 DEF Entering
  <2>10. Head(<<"push", "vector", "vectorHigh">>) = "push"
    OBVIOUS
  <2> QED
    BY <2>1, <2>2, <2>3, <2>7, <2>9, <2>10 DEF Interrupting, Calm
<1>5. CASE /\ Below(p, n + 2) /\ Return(p, n, Resumes)
           /\ ahead = <<"push", "vector", "vectorHigh">>
  <2>1. Head(ahead) = "push" /\ Tail(ahead) = <<"vector", "vectorHigh">> /\ ~More
    <3>1. Len(ahead) = 3 /\ ahead[2] = "vector" /\ ahead[3] = "vectorHigh"
      BY <1>5
    <3>2. \A i \in 2..3 : i = 2 \/ i = 3
      OBVIOUS
    <3> QED
      BY <1>5, <3>1, <3>2 DEF More, Pushing, Pulling
  <2>2. /\ Goes /\ ahead' = Tail(ahead) /\ Settled(p, 0 - m)'
        /\ \E v \in Values[Head(ahead)] : WroteAt(Down(p, k), v)
    BY <1>0, <1>1, <1>2, <1>5, <2>1, PushRun
  <2>3. ins' = ins /\ reach' = reach /\ Resumes' = Resumes /\ p \in Tops' /\ Native' = n
    BY <2>2, ResumesIs, DownKept DEF Goes
  <2>4. PICK v \in Values[Head(ahead)] : WroteAt(Down(p, k), v)
    BY <2>2
  <2>5. Laid(p, n, High(Resumes)) /\ Laid(p, j, Low(Resumes))
    BY <1>1, <1>5 DEF Return
  <2>6. Laid(p, n, High(Resumes))'
    <3>1. n # k /\ n - k < 3 /\ k - n < 3 /\ n - k < 4 /\ k - n < 4
      BY <1>0, <1>1
    <3>2. (Down(p, n) \in DOMAIN mem)' /\ (mem[Down(p, n)])' = mem[Down(p, n)]
      BY <1>0, <2>3, <2>4, <2>5, <3>1, LaidKept DEF Laid
    <3> QED
      BY <2>3, <2>5, <3>2 DEF Laid
  <2>7. Laid(p, j, Low(Resumes))'
    <3>1. j # k /\ j - k < 3 /\ k - j < 3 /\ j - k < 4 /\ k - j < 4
      BY <1>0, <1>1
    <3>2. (Down(p, j) \in DOMAIN mem)' /\ (mem[Down(p, j)])' = mem[Down(p, j)]
      BY <1>0, <2>3, <2>4, <2>5, <3>1, LaidKept DEF Laid
    <3> QED
      BY <2>3, <2>5, <3>2 DEF Laid
  <2>8. BankLaid(p)'
    <3>1. 2 \in 0..2
      OBVIOUS
    <3> QED
      BY <1>0, <1>1, <2>3, <2>4, <3>1, BankKept
  <2>9. Return(p, n, Resumes)'
    BY <1>1, <2>6, <2>7 DEF Return, Laid
  <2>10. Entering(p, n)'
    BY <1>1, <2>1, <2>2, <2>9 DEF Entering
  <2>11. Head(<<"vector", "vectorHigh">>) = "vector"
    OBVIOUS
  <2>12. ins'.kind \in {"brk", "interrupt"} /\ ahead' = <<"vector", "vectorHigh">>
    BY <2>1, <2>2, <2>3
  <2>13. Interrupting'
    BY <2>3, <2>8, <2>10, <2>12 DEF Interrupting
  <2>14. Calm'
    BY <2>11, <2>12 DEF Calm, Holding
  <2> QED
    BY <2>2, <2>13, <2>14
<1>6. Head(ahead) \notin {"vector", "vectorHigh"}
  BY DEF Pushing
<1>7. CASE ahead = <<"vector", "vectorHigh">> \/ ahead = <<"vectorHigh">>
  BY <1>6, <1>7
<1> QED
  BY <1>3, <1>4, <1>5, <1>7 DEF Entering

\* The cycles of a vector hold an output, and are the only ones that drive it.
LEMMA VectorTells ==
  ASSUME TypeOK, Asserts, Handled, Next, ~Fail, ahead # <<>>,
         \/ Head(ahead) = "vector" /\ Tail(ahead) = <<"vectorHigh">>
         \/ Head(ahead) = "vectorHigh" /\ Tail(ahead) = <<>>
  PROVE  /\ Moves /\ ahead' = Tail(ahead) /\ s' = s
         /\ Head(ahead) = "vector" => Vector
         /\ Head(ahead) = "vectorHigh" => VectorHigh
<1> DEFINE h == Head(ahead)
           r == Tail(ahead)
<1>1. /\ ins # None /\ ~Addressing /\ ins.kind # "modify"
      /\ h \in {"vector", "vectorHigh"}
      /\ r \in {<<>>, <<"vectorHigh">>}
  BY HandledIs
<1>2. /\ Working /\ (h = "vector" => Vector) /\ (h = "vectorHigh" => VectorHigh)
  BY <1>1, Acts
<1>3. Worked /\ ahead' = r /\ s' = s
  <2>1. ~Leave
    BY <1>1 DEF Leave, Doing
  <2> QED
    BY <1>1, <1>2, <2>1, StepWorks DEF Vector, VectorHigh, Then
<1>4. ins' = ins /\ reach' = reach /\ TypeOK' /\ cycles' = cycles + 1
  BY <1>3 DEF Worked, OneCycle
<1>5. asserted = (IF h = "vectorHigh" THEN {"v"} ELSE {})
  BY <1>1 DEF Asserts
<1>6. asserted' = (IF h = "vector" THEN {"v"} ELSE {})
  BY <1>1, <1>2 DEF Vector, VectorHigh
<1>7. Asserts'
  <2>1. CASE h = "vector"
    <3>1. ahead' = <<"vectorHigh">> /\ <<"vectorHigh">> # <<>> /\ Head(<<"vectorHigh">>) = "vectorHigh"
      BY <1>3, <2>1
    <3> QED
      BY <1>1, <1>4, <1>6, <2>1, <3>1 DEF Asserts
  <2>2. CASE h = "vectorHigh"
    <3>1. ahead' = <<>>
      BY <1>3, <2>2
    <3> QED
      BY <1>6, <2>2, <3>1 DEF Asserts
  <2> QED
    BY <1>1, <2>1, <2>2
<1>8. bus'.does = h /\ bus'.pins = {"d"} \cup asserted \cup asserted'
  <2>1. \E a, v : Reads(h, {"d"}, a, v)
    BY <1>1, <1>2 DEF Vector, VectorHigh
  <2> QED
    BY <2>1 DEF Reads, Cycle
<1>9. DOMAIN DataAt' = AtData /\ bus'.does \notin AtData \cup {"settle"}
  BY <1>1, <1>8 DEF DataAt, AtData
<1>10. OutputsTell'
  <2>1. bus'.pins = {"d", "v"}
    BY <1>1, <1>5, <1>6, <1>8
  <2> QED
    BY <1>1, <1>8, <1>9, <2>1 DEF OutputsTell
<1>11. BusTells'
  BY <1>9, <1>10 DEF BusTells, DataIsNamed
<1> QED
  BY <1>2, <1>3, <1>4, <1>7, <1>11 DEF Moves

\* What was pushed stays under a read.
LEMMA EntryKept ==
  ASSUME TypeOK, Handled, ins' = ins, reach' = reach, s' = s, Agrees,
         NEW p \in Tops, NEW n \in {0, 1}, n = Native, BankLaid(p),
         Settled(p, 0 - (n + 3)), Return(p, n, Resumes)
  PROVE  /\ (p \in Tops)' /\ n = Native' /\ BankLaid(p)'
         /\ Settled(p, 0 - (n + 3))' /\ Return(p, n, Resumes)'
<1>1. (p \in Tops)' /\ n = Native' /\ Resumes' = Resumes
  BY DownKept, ResumesIs
<1>2. ASSUME NEW m, NEW v, Laid(p, m, v) PROVE (Down(p, m) \in DOMAIN mem)' /\ (mem[Down(p, m)])' = v
  BY <1>2, LaidRead DEF Laid
<1>3. Return(p, n, Resumes)'
  BY <1>1, <1>2 DEF Return, Laid
<1>4. BankLaid(p)'
  BY <1>2 DEF BankLaid, Laid
<1>5. Settled(p, 0 - (n + 3))'
  BY DEF Settled, InPageOne
<1> QED
  BY <1>1, <1>3, <1>4, <1>5

LEMMA EntryVectors ==
  ASSUME TypeOK, Asserts, Handled, ins.kind \in {"brk", "interrupt"}, Next, ~Fail, ahead # <<>>,
         NEW p \in Tops, NEW n \in {0, 1}, n = Native, BankLaid(p), Entering(p, n),
         Head(ahead) \notin Pushing
  PROVE  Moves /\ ahead' = Tail(ahead) /\ Interrupting'
<1>1. /\ Settled(p, 0 - (n + 3)) /\ Return(p, n, Resumes)
      /\ \/ ahead = <<"vector", "vectorHigh">>
         \/ /\ ahead = <<"vectorHigh">> /\ pb = 0
            /\ \E at \in Vectors : point = at /\ IsKnown(at) /\ low = mem[Cell(at)]
  BY DEF Entering, Pushing
<1>2. CASE ahead = <<"vector", "vectorHigh">>
  <2>1. Head(ahead) = "vector" /\ Tail(ahead) = <<"vectorHigh">>
    BY <1>2
  <2>2. Moves /\ ahead' = Tail(ahead) /\ s' = s /\ Vector
    BY <2>1, VectorTells
  <2>3. PICK v \in Byte, at \in Vectors :
            Reads("vector", {"d"}, at, v) /\ low' = v /\ point' = at
    BY <2>2 DEF Vector
  <2>4. ins' = ins /\ reach' = reach /\ ReadAt(at, v) /\ pb' = 0
    BY <2>2, <2>3, ReadIs DEF Moves, Vector
  <2>5. Agrees /\ IsKnown(at)' /\ low' = mem'[Cell(at)']
    BY <2>3, <2>4 DEF ReadAt, IsKnown, Cell
  <2>6. /\ (p \in Tops)' /\ n = Native' /\ BankLaid(p)'
        /\ Settled(p, 0 - (n + 3))' /\ Return(p, n, Resumes)'
    BY <1>1, <2>2, <2>4, <2>5, EntryKept
  <2>7. Entering(p, n)'
    BY <2>1, <2>2, <2>3, <2>4, <2>5, <2>6 DEF Entering
  <2> QED
    BY <2>2, <2>4, <2>6, <2>7 DEF Interrupting
<1>3. CASE ahead = <<"vectorHigh">>
  <2>1. Head(ahead) = "vectorHigh" /\ Tail(ahead) = <<>> /\ ahead # <<"vector", "vectorHigh">>
    BY <1>3
  <2>2. Moves /\ ahead' = Tail(ahead) /\ s' = s /\ VectorHigh
    BY <2>1, VectorTells
  <2>3. PICK at \in Vectors : point = at /\ IsKnown(at) /\ low = mem[Cell(at)]
    BY <1>1, <2>1
  <2>4. PICK v \in Byte : Reads("vectorHigh", {"d"}, at + 1, v) /\ pc' = Word(low, v)
    BY <2>2, <2>3 DEF VectorHigh
  <2>5. ins' = ins /\ reach' = reach /\ ReadAt(at + 1, v) /\ pb' = 0
    BY <1>1, <2>1, <2>2, <2>4, ReadIs DEF Moves, VectorHigh
  <2>6. Agrees /\ Cell(at)' = Cell(at) /\ Cell(at + 1)' = Cell(at + 1)
    BY <2>5 DEF ReadAt, Cell
  <2>7. At(at, at + 1, 0)'
    <3>1. Cell(at + 1) \in DOMAIN mem' /\ mem'[Cell(at + 1)] = v
      BY <2>5 DEF ReadAt
    <3>2. Cell(at) \in DOMAIN mem' /\ mem'[Cell(at)] = low
      BY <2>3, <2>6 DEF Agrees, IsKnown
    <3> QED
      BY <2>4, <2>5, <2>6, <3>1, <3>2 DEF At
  <2>8. /\ (p \in Tops)' /\ n = Native' /\ BankLaid(p)'
        /\ Settled(p, 0 - (n + 3))' /\ Return(p, n, Resumes)'
    BY <1>1, <2>2, <2>5, <2>6, EntryKept
  <2>9. Entering(p, n)'
    BY <2>1, <2>2, <2>7, <2>8 DEF Entering
  <2> QED
    BY <2>2, <2>5, <2>8, <2>9 DEF Interrupting
<1> QED
  BY <1>1, <1>2, <1>3

\* Each cycle of an entry.
LEMMA InterruptingStep ==
  ASSUME TypeOK, Asserts, Handled, Interrupting, Next, ~Fail, ahead # <<>>
  PROVE  Moves /\ ahead' = Tail(ahead) /\ Interrupting'
<1>1. Goes /\ Calm' => Moves
  BY DEF Goes, Moves
<1> QED
  BY <1>1, EntryBegun, EntryPushes, EntryVectors DEF Interrupting

-----------------------------------------------------------------------------
(* Where an instruction begins.                                            *)

\* What an instruction is to do, piece by piece.
LEMMA Joined ==
  ASSUME NEW it \in Work, NEW u \in Seq(Work), NEW w \in Seq(Work),
         Len(w) = Len(u) + 1, w[1] = it, \A i \in 1..Len(u) : w[i + 1] = u[i]
  PROVE  <<it>> \o u = w
<1>1. <<it>> \in Seq(Work) /\ Len(<<it>>) = 1 /\ <<it>>[1] = it /\ Len(u) \in Nat
  OBVIOUS
<1>2. /\ <<it>> \o u \in Seq(Work) /\ Len(<<it>> \o u) = 1 + Len(u)
      /\ \A i \in 1..1 + Len(u) : (<<it>> \o u)[i] = IF i <= 1 THEN <<it>>[i] ELSE u[i - 1]
  BY <1>1, ConcatProperties
<1> DEFINE z == <<it>> \o u
<1> HIDE DEF z
<1>3. z \in Seq(Work) /\ Len(z) = Len(w)
  BY <1>1, <1>2 DEF z
<1>4. \A i \in 1..Len(w) : z[i] = w[i]
  <2>1. TAKE i \in 1..Len(w)
  <2>2. i \in 1..1 + Len(u) /\ i \in Int
    BY <1>1
  <2>3. CASE i = 1
    BY <1>1, <1>2, <2>2, <2>3 DEF z
  <2>4. CASE i # 1
    <3>1. i - 1 \in 1..Len(u) /\ (i - 1) + 1 = i
      BY <1>1, <2>2, <2>4
    <3>2. w[i] = u[i - 1]
      BY <3>1
    <3> QED
      BY <1>2, <2>2, <2>4, <3>2 DEF z
  <2> QED
    BY <2>3, <2>4
<1> QED
  BY <1>3, <1>4, SeqEqual DEF z

LEMMA EffectiveIs ==
  ASSUME NEW m \in DOMAIN effective
  PROVE  /\ effective[m] \in Seq(Work) /\ effective[m] # <<>>
         /\ m \in DOMAIN Rest =>
               /\ Head(effective[m]) = "offset"
               /\ \/ Tail(effective[m]) = Rest[m]
                  \/ Tail(effective[m]) = <<"here">> \o Rest[m]
         /\ m \in DOMAIN Rest \/ m \in Words
<1>0. /\ {"offset", "here", "pointer", "pointerHigh", "pointerBank", "pointerIdle"} \subseteq Work
      /\ {"low", "high", "bank"} \subseteq Work
  BY DEF Work
<1>1. CASE m \in {"direct", "indirect", "indirectIndexedY", "indirectLong", "indirectLongY"}
  <2>1. /\ m = "direct" => effective[m] = <<"offset">> /\ Rest[m] = <<>>
        /\ m \in {"indirect", "indirectIndexedY"}
             => /\ effective[m] = <<"offset", "pointer", "pointerHigh">>
                /\ Rest[m] = <<"pointer", "pointerHigh">>
        /\ m \in {"indirectLong", "indirectLongY"}
             => /\ effective[m] = <<"offset", "pointer", "pointerHigh", "pointerBank">>
                /\ Rest[m] = <<"pointer", "pointerHigh", "pointerBank">>
    BY <1>1 DEF effective, Rest
  <2>2. /\ <<"offset">> # <<>> /\ Head(<<"offset">>) = "offset" /\ Tail(<<"offset">>) = <<>>
        /\ <<"offset", "pointer", "pointerHigh">> # <<>>
        /\ Head(<<"offset", "pointer", "pointerHigh">>) = "offset"
        /\ Tail(<<"offset", "pointer", "pointerHigh">>) = <<"pointer", "pointerHigh">>
        /\ <<"offset", "pointer", "pointerHigh", "pointerBank">> # <<>>
        /\ Head(<<"offset", "pointer", "pointerHigh", "pointerBank">>) = "offset"
        /\ Tail(<<"offset", "pointer", "pointerHigh", "pointerBank">>)
             = <<"pointer", "pointerHigh", "pointerBank">>
    OBVIOUS
  <2>3. /\ <<"offset">> \in Seq(Work) /\ <<"offset", "pointer", "pointerHigh">> \in Seq(Work)
        /\ <<"offset", "pointer", "pointerHigh", "pointerBank">> \in Seq(Work)
    BY <1>0
  <2>4. m \in DOMAIN Rest
    BY <1>1 DEF Rest
  <2>5. CASE m = "direct"
    BY <2>1, <2>2, <2>3, <2>4, <2>5
  <2>6. CASE m \in {"indirect", "indirectIndexedY"}
    BY <2>1, <2>2, <2>3, <2>4, <2>6
  <2>7. CASE m \in {"indirectLong", "indirectLongY"}
    BY <2>1, <2>2, <2>3, <2>4, <2>7
  <2> QED
    BY <1>1, <2>5, <2>6, <2>7
<1>2. CASE m \in {"directX", "stack", "indexedIndirectX", "stackIndirect"}
  <2>1. m \in {"directX", "stack"} => effective[m] = <<"offset", "here">> /\ Rest[m] = <<>>
    BY <1>2 DEF effective, Rest
  <2>2. m = "indexedIndirectX" => /\ effective[m] = <<"offset", "here", "pointer", "pointerHigh">>
                                  /\ Rest[m] = <<"pointer", "pointerHigh">>
    BY <1>2 DEF effective, Rest
  <2>3. m = "stackIndirect"
          => /\ effective[m] = <<"offset", "here", "pointer", "pointerHigh", "pointerIdle">>
             /\ Rest[m] = <<"pointer", "pointerHigh", "pointerIdle">>
    BY <1>2 DEF effective, Rest
  <2>4. m \in DOMAIN Rest
    BY <1>2 DEF Rest
  <2>5. CASE m \in {"directX", "stack"}
    <3>1. /\ <<"offset", "here">> \in Seq(Work) /\ <<"offset", "here">> # <<>>
          /\ Head(<<"offset", "here">>) = "offset" /\ Tail(<<"offset", "here">>) = <<"here">>
      BY <1>0
    <3>2. <<"here">> \o <<>> = <<"here">>
      BY Ways, ConcatEmptySeq
    <3> QED
      BY <2>1, <2>4, <2>5, <3>1, <3>2
  <2>6. CASE m = "indexedIndirectX"
    <3>1. <<"offset", "here", "pointer", "pointerHigh">> \in Seq(Work)
      BY <1>0
    <3>2. /\ <<"offset", "here", "pointer", "pointerHigh">> # <<>>
          /\ Head(<<"offset", "here", "pointer", "pointerHigh">>) = "offset"
          /\ Tail(<<"offset", "here", "pointer", "pointerHigh">>)
               = <<"here", "pointer", "pointerHigh">>
      OBVIOUS
    <3>3. <<"here">> \o <<"pointer", "pointerHigh">> = <<"here", "pointer", "pointerHigh">>
      <4> DEFINE u == <<"pointer", "pointerHigh">>
                 w == <<"here", "pointer", "pointerHigh">>
      <4>1. u \in Seq(Work) /\ w \in Seq(Work) /\ Len(w) = Len(u) + 1 /\ w[1] = "here"
            /\ Len(u) = 2 /\ w[2] = u[1] /\ w[3] = u[2] /\ "here" \in Work
        BY <1>0
      <4>2. \A i \in 1..Len(u) : w[i + 1] = u[i]
        BY <4>1
      <4> HIDE DEF u, w
      <4>3. <<"here">> \o u = w
        BY <4>1, <4>2, Joined
      <4> QED
        BY <4>3 DEF u, w
    <3> QED
      BY <2>2, <2>4, <2>6, <3>1, <3>2, <3>3
  <2>7. CASE m = "stackIndirect"
    <3>1. <<"offset", "here", "pointer", "pointerHigh", "pointerIdle">> \in Seq(Work)
      BY <1>0
    <3>2. /\ <<"offset", "here", "pointer", "pointerHigh", "pointerIdle">> # <<>>
          /\ Head(<<"offset", "here", "pointer", "pointerHigh", "pointerIdle">>) = "offset"
          /\ Tail(<<"offset", "here", "pointer", "pointerHigh", "pointerIdle">>)
               = <<"here", "pointer", "pointerHigh", "pointerIdle">>
      OBVIOUS
    <3>3. <<"here">> \o <<"pointer", "pointerHigh", "pointerIdle">>
            = <<"here", "pointer", "pointerHigh", "pointerIdle">>
      <4> DEFINE u == <<"pointer", "pointerHigh", "pointerIdle">>
                 w == <<"here", "pointer", "pointerHigh", "pointerIdle">>
      <4>1. u \in Seq(Work) /\ w \in Seq(Work) /\ Len(w) = Len(u) + 1 /\ w[1] = "here"
            /\ Len(u) = 3 /\ w[2] = u[1] /\ w[3] = u[2] /\ w[4] = u[3] /\ "here" \in Work
        BY <1>0
      <4>2. \A i \in 1..Len(u) : w[i + 1] = u[i]
        BY <4>1
      <4> HIDE DEF u, w
      <4>3. <<"here">> \o u = w
        BY <4>1, <4>2, Joined
      <4> QED
        BY <4>3 DEF u, w
    <3> QED
      BY <2>3, <2>4, <2>7, <3>1, <3>2, <3>3
  <2> QED
    BY <1>2, <2>5, <2>6, <2>7
<1>3. CASE m \in Words
  <2>1. m \notin DOMAIN Rest
    BY <1>3 DEF Rest, Words, FarWords
  <2>2. effective[m] = <<"low", "high">> \/ effective[m] = <<"low", "high", "bank">>
    BY <1>3 DEF effective, Words, FarWords
  <2>3. <<"low", "high">> # <<>> /\ <<"low", "high", "bank">> # <<>>
    OBVIOUS
  <2> QED
    BY <1>3, <2>1, <2>2, <2>3, Ways
<1>4. \/ m \in {"direct", "indirect", "indirectIndexedY", "indirectLong", "indirectLongY"}
      \/ m \in {"directX", "stack", "indexedIndirectX", "stackIndirect"}
      \/ m \in Words
  BY DEF effective, Words, FarWords
<1> QED
  BY <1>1, <1>2, <1>3, <1>4

\* What the handlers do that fetch, push and pull, and those that jump.
LEMMA PlainHandlers ==
  ASSUME NEW e, NEW wide
  PROVE  /\ Handlers(e, wide)["implied"] = <<"idle">>
         /\ Handlers(e, wide)["xba"] = <<"idle", "idle">>
         /\ Handlers(e, wide)["wdm"] = <<"step">>
         /\ Handlers(e, wide)["immediate"] = IF wide THEN <<"low", "high">> ELSE <<"low">>
         /\ Handlers(e, wide)["rep"] = <<"low", "here">>
         /\ Handlers(e, wide)["push"] = IF wide THEN <<"idle", "push", "push">>
                                                ELSE <<"idle", "push">>
         /\ Handlers(e, wide)["pull"] = IF wide THEN <<"idle", "idle", "pullLow", "pullHigh">>
                                                ELSE <<"idle", "idle", "pullLow">>
         /\ Handlers(e, wide)["phd"] = <<"idle", "push", "push">>
         /\ Handlers(e, wide)["plb"] = <<"idle", "idle", "pullLow">>
         /\ Handlers(e, wide)["pld"] = <<"idle", "idle", "pullLow", "pullHigh">>
         /\ Handlers(e, wide)["pea"] = <<"low", "high", "pushHigh", "pushLow">>
         /\ Handlers(e, wide)["pei"] = <<"offset", "pointer", "pointerHigh", "pushHigh", "pushLow">>
         /\ Handlers(e, wide)["per"] = <<"low", "high", "here", "pushHigh", "pushLow">>
  BY DEF Handlers

LEMMA JumpHandlers ==
  ASSUME NEW e, NEW wide
  PROVE  /\ Handlers(e, wide)["branch"] = <<"taken">>
         /\ Handlers(e, wide)["brl"] = <<"low", "high", "leave">>
         /\ Handlers(e, wide)["jmp"] = <<"low", "to">>
         /\ Handlers(e, wide)["jmpIndirect"] = <<"low", "high", "jumpLow", "jumpHigh">>
         /\ Handlers(e, wide)["jmpIndirectX"] = <<"low", "high", "here", "jumpLow", "jumpHigh">>
         /\ Handlers(e, wide)["jml"] = <<"low", "high", "bank">>
         /\ Handlers(e, wide)["jmlIndirect"] = <<"low", "high", "jumpLow", "jumpHigh", "jumpBank">>
         /\ Handlers(e, wide)["jsr"] = <<"low", "high", "here", "pushHigh", "pushLow">>
         /\ Handlers(e, wide)["jsrIndirectX"]
              = <<"low", "pushHigh", "pushLow", "high", "here", "jumpLow", "jumpHigh">>
         /\ Handlers(e, wide)["jsl"]
              = <<"low", "high", "pushBank", "baseIdle", "bank", "pushHigh", "pushLow">>
  BY DEF Handlers

LEMMA StackHandlers ==
  ASSUME NEW e, NEW wide
  PROVE  /\ Handlers(e, wide)["rts"] = <<"idle", "idle", "pullLow", "pullHigh", "pulled">>
         /\ Handlers(e, wide)["rtl"] = <<"idle", "idle", "pullLow", "pullHigh", "pullBank">>
         /\ e => Handlers(e, wide)["rti"] = <<"idle", "idle", "pullAside", "pullLow", "pullHigh">>
         /\ ~e => Handlers(e, wide)["rti"]
                    = <<"idle", "idle", "pullAside", "pullLow", "pullHigh", "pullBank">>
         /\ e => /\ Handlers(e, wide)["brk"] = <<"signature", "pushHigh", "pushLow", "push",
                                                 "vector", "vectorHigh">>
                 /\ Handlers(e, wide)["interrupt"] = <<"pushHigh", "pushLow", "push", "vector",
                                                       "vectorHigh">>
         /\ ~e => /\ Handlers(e, wide)["brk"] = <<"signature", "pushBank", "pushHigh", "pushLow",
                                                  "push", "vector", "vectorHigh">>
                  /\ Handlers(e, wide)["interrupt"] = <<"pushBank", "pushHigh", "pushLow", "push",
                                                        "vector", "vectorHigh">>
<1> DEFINE short == <<"pushHigh", "pushLow", "push", "vector", "vectorHigh">>
           long == <<"pushBank", "pushHigh", "pushLow", "push", "vector", "vectorHigh">>
           entry == IF e THEN short ELSE long
<1>1. /\ Handlers(e, wide)["rts"] = <<"idle", "idle", "pullLow", "pullHigh", "pulled">>
      /\ Handlers(e, wide)["rtl"] = <<"idle", "idle", "pullLow", "pullHigh", "pullBank">>
      /\ e => Handlers(e, wide)["rti"] = <<"idle", "idle", "pullAside", "pullLow", "pullHigh">>
      /\ ~e => Handlers(e, wide)["rti"]
                 = <<"idle", "idle", "pullAside", "pullLow", "pullHigh", "pullBank">>
  BY DEF Handlers
<1>2. /\ Handlers(e, wide)["brk"] = <<"signature">> \o entry
      /\ Handlers(e, wide)["interrupt"] = entry
  BY DEF Handlers
<1>3. /\ {"signature", "pushBank", "pushHigh", "pushLow", "push"} \subseteq Work
      /\ {"vector", "vectorHigh"} \subseteq Work
  BY DEF Work
<1>4. <<"signature">> \o short
        = <<"signature", "pushHigh", "pushLow", "push", "vector", "vectorHigh">>
  <2> DEFINE w == <<"signature", "pushHigh", "pushLow", "push", "vector", "vectorHigh">>
  <2>1. /\ short \in Seq(Work) /\ w \in Seq(Work) /\ Len(w) = Len(short) + 1 /\ Len(short) = 5
        /\ w[1] = "signature" /\ "signature" \in Work
        /\ w[2] = short[1] /\ w[3] = short[2] /\ w[4] = short[3] /\ w[5] = short[4]
        /\ w[6] = short[5]
    BY <1>3
  <2>2. \A i \in 1..Len(short) : w[i + 1] = short[i]
    BY <2>1
  <2> HIDE DEF short, w
  <2>3. <<"signature">> \o short = w
    BY <2>1, <2>2, Joined
  <2> QED
    BY <2>3 DEF w
<1>5. <<"signature">> \o long
        = <<"signature", "pushBank", "pushHigh", "pushLow", "push", "vector", "vectorHigh">>
  <2> DEFINE w == <<"signature", "pushBank", "pushHigh", "pushLow", "push", "vector", "vectorHigh">>
  <2>1. /\ long \in Seq(Work) /\ w \in Seq(Work) /\ Len(w) = Len(long) + 1 /\ Len(long) = 6
        /\ w[1] = "signature" /\ "signature" \in Work
        /\ w[2] = long[1] /\ w[3] = long[2] /\ w[4] = long[3] /\ w[5] = long[4]
        /\ w[6] = long[5] /\ w[7] = long[6]
    BY <1>3
  <2>2. \A i \in 1..Len(long) : w[i + 1] = long[i]
    BY <2>1
  <2> HIDE DEF long, w
  <2>3. <<"signature">> \o long = w
    BY <2>1, <2>2, Joined
  <2> QED
    BY <2>3 DEF w
<1> HIDE DEF Handlers
<1> QED
  BY <1>1, <1>2, <1>4, <1>5, Zenon

\* One that has no address waits for no place, PEI apart, and a word is only of a few.
LEMMA DoesIs ==
  ASSUME Handled, Decoded
  PROVE  /\ ins.kind \notin DOMAIN Modes
         /\ ins.wide => ins.kind \in {"immediate", "push", "pull"}
         /\ ins.kind # "pei" => /\ Does(ins) = Handlers(ins.e, ins.wide)[ins.kind]
                                /\ unaligned(ins) = <<>>
         /\ ins.kind = "pei"
              => Does(ins) = (<<"offset">> \o unaligned(ins))
                             \o <<"pointer", "pointerHigh", "pushHigh", "pushLow">>
<1>1. ins.kind \notin DOMAIN Modes
  BY HandledIs DEF Addressing
<1>2. ins.wide => ins.kind \in {"immediate", "push", "pull"}
  BY <1>1 DEF Decoded
<1>3. ins.kind # "pei" => unaligned(ins) = <<>>
  BY DEF Handled, ModeOf, unaligned, ZeroModes
<1>4. ins.kind # "pei" => Does(ins) = Handlers(ins.e, ins.wide)[ins.kind]
  BY <1>1 DEF Does
<1>5. ASSUME ins.kind = "pei"
      PROVE  Does(ins) = (<<"offset">> \o unaligned(ins))
                         \o <<"pointer", "pointerHigh", "pushHigh", "pushLow">>
  <2> DEFINE w == <<"offset", "pointer", "pointerHigh", "pushHigh", "pushLow">>
  <2>1. Handlers(ins.e, ins.wide)["pei"] = w
    BY PlainHandlers
  <2>2. Head(w) = "offset" /\ Tail(w) = <<"pointer", "pointerHigh", "pushHigh", "pushLow">>
    OBVIOUS
  <2> HIDE DEF w
  <2>3. Does(ins) = <<Head(w)>> \o unaligned(ins) \o Tail(w)
    BY <1>1, <1>5, <2>1 DEF Does
  <2> QED
    BY <2>2, <2>3
<1> QED
  BY <1>1, <1>2, <1>3, <1>4, <1>5

\* Before any of it is done, when memory is unknown.
Beginning ==
    /\ mem = <<>> /\ first = <<>> /\ ahead = Does(ins)
    /\ ins.kind \in Stacks => s \in Tops
    /\ IF ins.kind = "interrupt" THEN Behind(0) /\ cycles = 0 ELSE Behind(1) /\ cycles = 1

LEMMA UnalignedIs ==
  /\ unaligned(ins) \in {<<>>, <<"here">>} /\ unaligned(ins) \in Seq(Work)
  /\ ins.mode \notin ZeroModes => unaligned(ins) = <<>>
<1>1. unaligned(ins) \in {<<>>, <<"here">>}
  BY DEF unaligned
<1> QED
  BY <1>1, Ways DEF unaligned

\* Pieces of work, one after the other.
LEMMA Chained ==
  ASSUME NEW x \in Seq(Work), NEW y \in Seq(Work)
  PROVE  /\ x \o y \in Seq(Work) /\ Len(x \o y) = Len(x) + Len(y)
         /\ x \o <<>> = x /\ <<>> \o x = x
<1>1. x \o y \in Seq(Work) /\ Len(x \o y) = Len(x) + Len(y)
  BY ConcatProperties
<1>2. x \o <<>> = x /\ <<>> \o x = x
  BY ConcatEmptySeq
<1> QED
  BY <1>1, <1>2

LEMMA Regrouped == \A x, y, z \in Seq(Work) : (x \o y) \o z = x \o (y \o z)
  BY ConcatAssociative

\* An instruction that has an address is on its way.
LEMMA AddressedDoes ==
  ASSUME HasAddress
  PROVE  /\ Does(ins) \in Seq(Work)
         /\ Len(Does(ins)) + 1 = Basic
         /\ ins.mode \in Words => Does(ins) = effective[ins.mode] \o Use
         /\ ins.mode \in DOMAIN Rest
              => \E w \in Waits : Does(ins) = <<"offset">> \o (w \o (Rest[ins.mode] \o Use))
<1> DEFINE m == ins.mode
           e == effective[m]
           n == unaligned(ins)
           r == Rest[m]
<1>1. m \in DOMAIN effective /\ ins.kind \in DOMAIN Modes
  BY DEF HasAddress, Modes, effective
<1>2. /\ e \in Seq(Work) /\ e # <<>> /\ Use \in Seq(Work) /\ n \in Seq(Work)
      /\ n \in {<<>>, <<"here">>} /\ (m \in DOMAIN Rest \/ m \in Words)
      /\ m \in DOMAIN Rest => /\ Head(e) = "offset"
                              /\ Tail(e) = r \/ Tail(e) = <<"here">> \o r
  BY <1>1, EffectiveIs, UnalignedIs, Uses
<1>3. Does(ins) = ((<<Head(e)>> \o n) \o Tail(e)) \o Use
  BY <1>1 DEF Does, Use
<1>4. m \in Words => n = <<>>
  BY UnalignedIs DEF Words, FarWords, ZeroModes
<1>5. /\ Head(e) \in Work /\ Tail(e) \in Seq(Work) /\ Len(e) \in Nat
      /\ Len(Tail(e)) + 1 = Len(e) /\ e = <<Head(e)>> \o Tail(e)
  <2>1. Len(e) \in Nat /\ Len(e) > 0
    BY <1>2, EmptySeq
  <2> HIDE DEF e
  <2>2. /\ Head(e) \in Work /\ Tail(e) \in Seq(Work) /\ Len(Tail(e)) = Len(e) - 1
        /\ Head(e) = e[1] /\ \A i \in 1..Len(e) - 1 : Tail(e)[i] = e[i + 1]
    BY <1>2, <2>1, HeadTailProperties
  <2>3. Len(Tail(e)) + 1 = Len(e)
    BY <2>1, <2>2
  <2>4. \A i \in 1..Len(Tail(e)) : e[i + 1] = Tail(e)[i]
    BY <2>2
  <2>5. <<Head(e)>> \o Tail(e) = e
    BY <1>2, <2>2, <2>3, <2>4, Joined
  <2> QED
    BY <2>1, <2>2, <2>3, <2>5
<1> DEFINE h == <<Head(e)>>
           t == Tail(e)
           u == Use
<1>6. /\ h \in Seq(Work) /\ Len(h) = 1 /\ t \in Seq(Work) /\ n \in Seq(Work) /\ u \in Seq(Work)
      /\ Does(ins) = ((h \o n) \o t) \o u /\ e = h \o t
      /\ Len(t) + 1 = Len(e) /\ Basic = 1 + Len(e) + Len(n) + Len(u)
  BY <1>2, <1>3, <1>5 DEF Basic
<1> HIDE DEF e, h, t, n, u
<1> DEFINE hn == h \o n
           hnt == hn \o t
<1>7. hn \in Seq(Work) /\ Len(hn) = 1 + Len(n)
  BY <1>6, Chained
<1>8. Does(ins) = hnt \o u
  BY <1>6
<1> HIDE DEF hn
<1>9. hnt \in Seq(Work) /\ Len(hnt) = (1 + Len(n)) + Len(t)
  BY <1>6, <1>7, Chained
<1> HIDE DEF hnt
<1>10. Does(ins) \in Seq(Work) /\ Len(Does(ins)) + 1 = Basic
  <2>1. Len(n) \in Nat /\ Len(t) \in Nat /\ Len(u) \in Nat
    BY <1>6
  <2>2. Basic = 1 + (Len(t) + 1) + Len(n) + Len(u)
    BY <1>6
  <2>3. Does(ins) \in Seq(Work) /\ Len(Does(ins)) = ((1 + Len(n)) + Len(t)) + Len(u)
    <3>1. u \in Seq(Work)
      BY <1>6
    <3>2. hnt \o u \in Seq(Work) /\ Len(hnt \o u) = Len(hnt) + Len(u)
      BY <1>9, <3>1, Chained
    <3> QED
      BY <1>8, <1>9, <3>2
  <2> QED
    BY <2>1, <2>2, <2>3
<1>11. m \in Words => Does(ins) = effective[m] \o Use
  <2>1. h \o <<>> = h
    BY <1>6, ConcatEmptySeq
  <2> QED
    BY <1>4, <1>6, <2>1 DEF e, u
<1>12. ASSUME m \in DOMAIN Rest
       PROVE  \E w \in Waits : Does(ins) = <<"offset">> \o (w \o (Rest[m] \o Use))
  <2>1. h = <<"offset">> /\ r \in Seq(Work) /\ (t = r \/ t = <<"here">> \o r)
    BY <1>2, <1>12, RestIs DEF h, t
  <2> DEFINE q == <<"here">>
             p == <<>>
  <2>2. /\ q \in Seq(Work) /\ p \in Seq(Work) /\ (n = p \/ n = q) /\ p \in Waits /\ q \in Waits
        /\ q \o q \in Waits /\ q \o q \in Seq(Work)
    <3>1. q \o q = <<"here", "here">>
      <4>0. "here" \in Work
        BY DEF Work
      <4> DEFINE z == <<"here", "here">>
      <4>1. q \in Seq(Work) /\ Len(q) = 1 /\ z \in Seq(Work) /\ Len(z) = Len(q) + 1
            /\ z[1] = "here" /\ z[2] = q[1]
        BY <4>0
      <4>2. \A i \in 1..Len(q) : z[i + 1] = q[i]
        BY <4>1
      <4> HIDE DEF z
      <4>3. <<"here">> \o q = z
        BY <4>0, <4>1, <4>2, Joined
      <4> QED
        BY <4>3 DEF z
    <3> QED
      BY <1>2, <3>1, Ways DEF Waits, n
  <2> HIDE DEF r, q, p
  <2>3. ASSUME NEW w \in Seq(Work), n \o t = w \o r, w \in Waits
        PROVE  \E x \in Waits : Does(ins) = <<"offset">> \o (x \o (r \o u))
    <3> DEFINE nt == n \o t
               ru == r \o u
    <3>1. ru \in Seq(Work) /\ nt \in Seq(Work)
      BY <1>6, <2>1, Chained
    <3>0. h \in Seq(Work) /\ n \in Seq(Work) /\ t \in Seq(Work) /\ u \in Seq(Work)
      BY <1>6
    <3>2. hnt = h \o nt
      BY <3>0, Regrouped, SMTT(30) DEF hnt, hn
    <3>3. nt \o u = w \o ru
      <4>1. (w \o r) \o u = w \o ru
        BY <2>1, <2>3, <3>0, Regrouped
      <4> QED
        BY <2>3, <4>1
    <3> HIDE DEF nt, ru
    <3>4. hnt \o u = h \o (nt \o u)
      <4>1. \A y \in Seq(Work) : (h \o y) \o u = h \o (y \o u)
        BY <3>0, Regrouped, ZenonT(40)
      <4>2. nt \in Seq(Work)
        BY <3>1
      <4>3. (h \o nt) \o u = h \o (nt \o u)
        BY <4>1, <4>2, Zenon
      <4> QED
        BY <3>2, <4>3, Zenon
    <3>5. Does(ins) = h \o (w \o ru)
      BY <1>8, <3>3, <3>4
    <3> QED
      BY <2>1, <2>3, <3>5 DEF ru
  <2>4. t = r \/ t = q \o r
    BY <2>1 DEF q
  <2>5. \E w \in Waits : w \in Seq(Work) /\ n \o t = w \o r
    <3>1. CASE t = r
      BY <1>6, <2>2, <3>1
    <3>2. CASE t = q \o r
      <4>1. n = p => n \o t = q \o r
        <5>1. t \in Seq(Work) /\ <<>> \o t = t
          BY <1>6, Chained
        <5> QED
          BY <3>2, <5>1 DEF p
      <4>2. n = q => n \o t = (q \o q) \o r
        <5>1. (q \o q) \o r = q \o (q \o r)
          BY <2>1, <2>2, Regrouped
        <5> QED
          BY <3>2, <5>1
      <4> QED
        BY <2>2, <4>1, <4>2
    <3> QED
      BY <2>4, <3>1, <3>2
  <2>6. \E x \in Waits : Does(ins) = <<"offset">> \o (x \o (r \o u))
    BY <2>3, <2>5
  <2> QED
    BY <2>6 DEF r, u
<1> QED
  BY <1>2, <1>10, <1>11, <1>12

LEMMA FormingBegins == HasAddress /\ Beginning => Forming
<1> SUFFICES ASSUME HasAddress, Beginning PROVE Forming
  OBVIOUS
<1>1. ins.kind # "interrupt"
  BY DEF HasAddress, Modes
<1>2. Unwritten /\ Behind(1) /\ cycles = 1 /\ ahead = Does(ins)
  BY <1>1 DEF Beginning, Unwritten
<1>3. cycles + Len(ahead) = Basic
  <2>1. Len(Does(ins)) \in Nat /\ Len(Does(ins)) + 1 = Basic
    BY AddressedDoes
  <2> QED
    BY <1>2, <2>1
<1>4. ToOffset \/ ToLow
  <2>1. ins.mode \in DOMAIN Rest \/ ins.mode \in Words
    <3>1. ins.mode \in DOMAIN effective
      BY DEF HasAddress, Modes, effective
    <3> QED
      BY <3>1, EffectiveIs
  <2> QED
    BY <1>2, <2>1, AddressedDoes DEF ToOffset, ToLow
<1> QED
  BY <1>2, <1>3, <1>4 DEF Forming

\* Work that is fetched first, of so many pieces and bytes.
Fits(w, n, k) == w \in Seq(Work) /\ Len(w) = n /\ FetchesFirst(w) /\ Bytes(w) = k

LEMMA ShortFits ==
  /\ Fits(<<"idle">>, 1, 0) /\ Fits(<<"step">>, 1, 1) /\ Fits(<<"low">>, 1, 1)
  /\ Fits(<<"idle", "idle">>, 2, 0) /\ Fits(<<"idle", "push">>, 2, 0)
  /\ Fits(<<"low", "here">>, 2, 1) /\ Fits(<<"low", "high">>, 2, 2)
  /\ Fits(<<"idle", "push", "push">>, 3, 0) /\ Fits(<<"idle", "idle", "pullLow">>, 3, 0)
<1>1. {"idle", "step", "low", "push", "here", "high", "pullLow"} \subseteq Work \cap PlainWork
  BY DEF Work, PlainWork, Fetching
<1>2. /\ {"step", "low", "high"} \subseteq Fetching
      /\ {"idle", "push", "here", "pullLow"} \cap Fetching = {}
  BY DEF Fetching
<1>3. Fits(<<"idle">>, 1, 0)
  BY <1>1, <1>2 DEF Fits, FetchesFirst, Bytes
<1>4. Fits(<<"step">>, 1, 1)
  BY <1>1, <1>2 DEF Fits, FetchesFirst, Bytes
<1>5. Fits(<<"low">>, 1, 1)
  BY <1>1, <1>2 DEF Fits, FetchesFirst, Bytes
<1>6. Fits(<<"idle", "idle">>, 2, 0)
  BY <1>1, <1>2 DEF Fits, FetchesFirst, Bytes
<1>7. Fits(<<"idle", "push">>, 2, 0)
  BY <1>1, <1>2 DEF Fits, FetchesFirst, Bytes
<1>8. Fits(<<"low", "here">>, 2, 1)
  BY <1>1, <1>2 DEF Fits, FetchesFirst, Bytes
<1>9. Fits(<<"low", "high">>, 2, 2)
  BY <1>1, <1>2 DEF Fits, FetchesFirst, Bytes
<1>10. Fits(<<"idle", "push", "push">>, 3, 0)
  BY <1>1, <1>2 DEF Fits, FetchesFirst, Bytes
<1>11. Fits(<<"idle", "idle", "pullLow">>, 3, 0)
  BY <1>1, <1>2 DEF Fits, FetchesFirst, Bytes
<1> QED
  BY <1>3, <1>4, <1>5, <1>6, <1>7, <1>8, <1>9, <1>10, <1>11

LEMMA LongFits ==
  /\ Fits(<<"idle", "idle", "pullLow", "pullHigh">>, 4, 0)
  /\ Fits(<<"low", "high", "pushHigh", "pushLow">>, 4, 2)
  /\ Fits(<<"low", "high", "here", "pushHigh", "pushLow">>, 5, 2)
  /\ Fits(<<"offset", "pointer", "pointerHigh", "pushHigh", "pushLow">>, 5, 1)
  /\ Fits(<<"offset", "here", "pointer", "pointerHigh", "pushHigh", "pushLow">>, 6, 1)
<1>1. /\ {"idle", "low", "here", "high", "pullLow", "pullHigh"} \subseteq Work \cap PlainWork
      /\ {"offset", "pointer", "pointerHigh", "pushHigh", "pushLow"} \subseteq Work \cap PlainWork
  BY DEF Work, PlainWork, Fetching
<1>2. /\ {"low", "high", "offset"} \subseteq Fetching
      /\ {"idle", "pullLow", "pullHigh", "pushHigh", "pushLow", "here"} \cap Fetching = {}
      /\ {"pointer", "pointerHigh"} \cap Fetching = {}
  BY DEF Fetching
<1>3. Fits(<<"idle", "idle", "pullLow", "pullHigh">>, 4, 0)
  BY <1>1, <1>2 DEF Fits, FetchesFirst, Bytes
<1>4. Fits(<<"low", "high", "pushHigh", "pushLow">>, 4, 2)
  BY <1>1, <1>2 DEF Fits, FetchesFirst, Bytes
<1>5. Fits(<<"low", "high", "here", "pushHigh", "pushLow">>, 5, 2)
  BY <1>1, <1>2 DEF Fits, FetchesFirst, Bytes
<1>6. Fits(<<"offset", "pointer", "pointerHigh", "pushHigh", "pushLow">>, 5, 1)
  BY <1>1, <1>2 DEF Fits, FetchesFirst, Bytes
<1>7. Fits(<<"offset", "here", "pointer", "pointerHigh", "pushHigh", "pushLow">>, 6, 1)
  BY <1>1, <1>2 DEF Fits, FetchesFirst, Bytes
<1> QED
  BY <1>3, <1>4, <1>5, <1>6, <1>7

\* What the handlers of those without an address spend, and enter().
Takes == [implied |-> 2, xba |-> 3, wdm |-> 2, immediate |-> 2, rep |-> 3, push |-> 3, pull |-> 4,
          phd |-> 4, plb |-> 4, pld |-> 5, pea |-> 5, pei |-> 6, per |-> 6, brl |-> 4, jmp |-> 3,
          jmpIndirect |-> 5, jmpIndirectX |-> 6, jml |-> 4, jmlIndirect |-> 6, jsr |-> 6,
          jsrIndirectX |-> 8, jsl |-> 8, rts |-> 6, rtl |-> 6, rti |-> 7, brk |-> 8, interrupt |-> 6]

\* What the instructions without an address cost, branches apart.
Cost == Takes[ins.kind] + One(ins.wide) + Len(unaligned(ins))
        - One(ins.e /\ ins.kind \in {"rti", "brk", "interrupt"})

LEMMA CostIs ==
  ASSUME Handled, Decoded, ins.kind # "branch"
  PROVE  /\ ins.kind \notin {"immediate", "push", "pull", "pei", "rti", "brk", "interrupt"}
              => Cost = Takes[ins.kind]
         /\ ins.kind \in {"immediate", "push", "pull"}
              => Cost = IF ins.wide THEN Takes[ins.kind] + 1 ELSE Takes[ins.kind]
         /\ ins.kind = "pei" => Cost = Takes["pei"] + Len(unaligned(ins))
         /\ ins.kind \in {"rti", "brk", "interrupt"}
              => Cost = IF ins.e THEN Takes[ins.kind] - 1 ELSE Takes[ins.kind]
<1>1. ins.kind \in DOMAIN Takes /\ \A k \in DOMAIN Takes : Takes[k] \in Nat
  BY DEF Handled, Handlers, Takes
<1>2. One(TRUE) = 1 /\ One(FALSE) = 0
  BY DEF One
<1>3. /\ ins.wide => ins.kind \in {"immediate", "push", "pull"}
      /\ ins.kind # "pei" => unaligned(ins) = <<>>
  BY DoesIs
<1>4. Len(<<>>) = 0 /\ Len(unaligned(ins)) \in Nat
  BY UnalignedIs
<1>5. One(ins.wide) = IF ins.wide THEN 1 ELSE 0
  BY DEF One
<1>6. One(ins.e /\ ins.kind \in {"rti", "brk", "interrupt"})
        = IF ins.e /\ ins.kind \in {"rti", "brk", "interrupt"} THEN 1 ELSE 0
  BY DEF One
<1>7. Takes[ins.kind] \in Nat
  BY <1>1
<1> QED
  BY <1>3, <1>4, <1>5, <1>6, <1>7 DEF Cost

\* Those that go nowhere but to the next instruction begin so, PEI where its direct
\* page is.
LEMMA PeiDoes ==
  ASSUME Handled, Decoded, ins.kind = "pei"
  PROVE  \/ /\ unaligned(ins) = <<>>
            /\ Does(ins) = <<"offset", "pointer", "pointerHigh", "pushHigh", "pushLow">>
         \/ /\ unaligned(ins) = <<"here">>
            /\ Does(ins) = <<"offset", "here", "pointer", "pointerHigh", "pushHigh", "pushLow">>
<1> DEFINE t == <<"pointer", "pointerHigh", "pushHigh", "pushLow">>
           v == <<"here", "pointer", "pointerHigh", "pushHigh", "pushLow">>
           w == <<"offset", "pointer", "pointerHigh", "pushHigh", "pushLow">>
           x == <<"offset", "here", "pointer", "pointerHigh", "pushHigh", "pushLow">>
           o == <<"offset">>
           h == <<"here">>
<1>0. {"offset", "here", "pointer", "pointerHigh", "pushHigh", "pushLow"} \subseteq Work
  BY DEF Work
<1>1. /\ t \in Seq(Work) /\ Len(t) = 4 /\ w \in Seq(Work) /\ Len(w) = Len(t) + 1
      /\ w[1] = "offset" /\ "offset" \in Work
      /\ w[2] = t[1] /\ w[3] = t[2] /\ w[4] = t[3] /\ w[5] = t[4]
  BY <1>0
<1>2. \A i \in 1..Len(t) : w[i + 1] = t[i]
  BY <1>1
<1>3. /\ v \in Seq(Work) /\ Len(v) = Len(t) + 1 /\ v[1] = "here" /\ "here" \in Work
      /\ v[2] = t[1] /\ v[3] = t[2] /\ v[4] = t[3] /\ v[5] = t[4]
  BY <1>0
<1>4. \A i \in 1..Len(t) : v[i + 1] = t[i]
  BY <1>1, <1>3
<1>5. /\ x \in Seq(Work) /\ Len(x) = Len(v) + 1 /\ Len(v) = 5 /\ x[1] = "offset"
      /\ x[2] = v[1] /\ x[3] = v[2] /\ x[4] = v[3] /\ x[5] = v[4] /\ x[6] = v[5]
  BY <1>0
<1>6. \A i \in 1..Len(v) : x[i + 1] = v[i]
  BY <1>5
<1>7. o \in Seq(Work) /\ h \in Seq(Work)
  BY <1>0
<1>8. Does(ins) = (o \o unaligned(ins)) \o t
  BY DoesIs
<1> HIDE DEF t, v, w, x
<1>9. o \o t = w /\ h \o t = v /\ o \o v = x
  BY <1>1, <1>2, <1>3, <1>4, <1>5, <1>6, Joined
<1> HIDE DEF o, h
<1>10. o \o <<>> = o
  BY <1>7, Chained
<1>11. (o \o h) \o t = o \o (h \o t)
  BY <1>1, <1>7, Regrouped
<1>12. unaligned(ins) = <<>> => Does(ins) = w
  BY <1>8, <1>9, <1>10
<1>13. unaligned(ins) = h => Does(ins) = x
  BY <1>8, <1>9, <1>11
<1> QED
  BY <1>12, <1>13, UnalignedIs DEF w, x, h

LEMMA PlainDoes ==
  ASSUME Handled, Decoded, ins.kind \in PlainKinds
  PROVE  \E n \in Nat : Fits(Does(ins), n, operand_size) /\ Cost = n + 1
<1>1. ins.kind \notin {"branch", "rti", "brk", "interrupt"}
  BY DEF PlainKinds
<1>2. /\ ins.kind \notin {"immediate", "push", "pull", "pei"} => Cost = Takes[ins.kind]
      /\ ins.kind \in {"immediate", "push", "pull"}
           => Cost = IF ins.wide THEN Takes[ins.kind] + 1 ELSE Takes[ins.kind]
      /\ ins.kind = "pei" => Cost = Takes["pei"] + Len(unaligned(ins))
      /\ ins.kind # "pei" => Does(ins) = Handlers(ins.e, ins.wide)[ins.kind]
      /\ ins.wide => ins.kind \in {"immediate", "push", "pull"}
  BY <1>1, CostIs, DoesIs
<1>3. operand_size = IF ins.kind = "immediate" /\ ins.wide THEN 2 ELSE MODE_SIZE[ModeOf(ins.kind)]
  BY DEF operand_size, Handled
<1>4. /\ ins.kind \in {"implied", "xba", "push", "pull", "phd", "plb", "pld"} => operand_size = 0
      /\ ins.kind \in {"wdm", "rep", "pei"} => operand_size = 1
      /\ ins.kind = "immediate" => operand_size = IF ins.wide THEN 2 ELSE 1
      /\ ins.kind \in {"pea", "per"} => operand_size = 2
  BY <1>3 DEF ModeOf, MODE_SIZE
<1>5. CASE ins.kind \in {"implied", "xba", "wdm", "rep"}
  <2>1. \/ Does(ins) = <<"idle">> /\ Cost = 2 /\ operand_size = 0
        \/ Does(ins) = <<"idle", "idle">> /\ Cost = 3 /\ operand_size = 0
        \/ Does(ins) = <<"step">> /\ Cost = 2 /\ operand_size = 1
        \/ Does(ins) = <<"low", "here">> /\ Cost = 3 /\ operand_size = 1
    BY <1>2, <1>4, <1>5, PlainHandlers DEF Takes
  <2> QED
    BY <2>1, ShortFits
<1>6. CASE ins.kind = "immediate"
  <2>1. Cost = (IF ins.wide THEN 3 ELSE 2)
    BY <1>2, <1>6 DEF Takes
  <2>2. \/ Does(ins) = <<"low", "high">> /\ Cost = 3 /\ operand_size = 2
        \/ Does(ins) = <<"low">> /\ Cost = 2 /\ operand_size = 1
    BY <1>2, <1>4, <1>6, <2>1, PlainHandlers
  <2> QED
    BY <2>2, ShortFits
<1>7. CASE ins.kind \in {"push", "pull"}
  <2>1. Cost = IF ins.kind = "push" THEN IF ins.wide THEN 4 ELSE 3 ELSE IF ins.wide THEN 5 ELSE 4
    BY <1>2, <1>7 DEF Takes
  <2>2. CASE ins.kind = "push"
    <3>1. \/ Does(ins) = <<"idle", "push", "push">> /\ Cost = 4 /\ operand_size = 0
          \/ Does(ins) = <<"idle", "push">> /\ Cost = 3 /\ operand_size = 0
      BY <1>2, <1>4, <2>1, <2>2, PlainHandlers
    <3> QED
      BY <3>1, ShortFits
  <2>3. CASE ins.kind = "pull"
    <3>1. \/ Does(ins) = <<"idle", "idle", "pullLow", "pullHigh">> /\ Cost = 5 /\ operand_size = 0
          \/ Does(ins) = <<"idle", "idle", "pullLow">> /\ Cost = 4 /\ operand_size = 0
      BY <1>2, <1>4, <2>1, <2>3, PlainHandlers
    <3> QED
      BY <3>1, ShortFits, LongFits
  <2> QED
    BY <1>7, <2>2, <2>3
<1>8. CASE ins.kind \in {"phd", "plb", "pld"}
  <2>1. \/ Does(ins) = <<"idle", "push", "push">> /\ Cost = 4 /\ operand_size = 0
        \/ Does(ins) = <<"idle", "idle", "pullLow">> /\ Cost = 4 /\ operand_size = 0
        \/ Does(ins) = <<"idle", "idle", "pullLow", "pullHigh">> /\ Cost = 5 /\ operand_size = 0
    <3>1. /\ ins.kind = "phd" => Does(ins) = <<"idle", "push", "push">>
          /\ ins.kind = "plb" => Does(ins) = <<"idle", "idle", "pullLow">>
          /\ ins.kind = "pld" => Does(ins) = <<"idle", "idle", "pullLow", "pullHigh">>
      BY <1>2, PlainHandlers
    <3>2. Cost = IF ins.kind = "pld" THEN 5 ELSE 4
      BY <1>2, <1>8 DEF Takes
    <3> QED
      BY <1>4, <1>8, <3>1, <3>2
  <2> QED
    BY <2>1, ShortFits, LongFits
<1>9. CASE ins.kind \in {"pea", "per"}
  <2>1. \/ /\ Does(ins) = <<"low", "high", "pushHigh", "pushLow">> /\ Cost = 5
           /\ operand_size = 2
        \/ /\ Does(ins) = <<"low", "high", "here", "pushHigh", "pushLow">> /\ Cost = 6
           /\ operand_size = 2
    <3>1. /\ ins.kind = "pea" => Does(ins) = <<"low", "high", "pushHigh", "pushLow">>
          /\ ins.kind = "per" => Does(ins) = <<"low", "high", "here", "pushHigh", "pushLow">>
      <4>1. /\ Handlers(ins.e, ins.wide)["pea"] = <<"low", "high", "pushHigh", "pushLow">>
            /\ Handlers(ins.e, ins.wide)["per"]
                 = <<"low", "high", "here", "pushHigh", "pushLow">>
        BY PlainHandlers
      <4>2. Does(ins) = Handlers(ins.e, ins.wide)[ins.kind]
        BY <1>2, <1>9
      <4> QED
        BY <4>1, <4>2, Zenon
    <3>2. Cost = IF ins.kind = "pea" THEN 5 ELSE 6
      BY <1>2, <1>9 DEF Takes
    <3> QED
      BY <1>4, <1>9, <3>1, <3>2
  <2> QED
    BY <2>1, LongFits
<1>10. CASE ins.kind = "pei"
  <2>1. Cost = 6 + Len(unaligned(ins)) /\ operand_size = 1
    BY <1>2, <1>4, <1>10 DEF Takes
  <2>2. Len(<<>>) = 0 /\ Len(<<"here">>) = 1
    OBVIOUS
  <2> DEFINE w == <<"offset", "pointer", "pointerHigh", "pushHigh", "pushLow">>
             x == <<"offset", "here", "pointer", "pointerHigh", "pushHigh", "pushLow">>
  <2>3. Fits(w, 5, 1) /\ Fits(x, 6, 1)
    BY LongFits
  <2>4. \/ unaligned(ins) = <<>> /\ Does(ins) = w
        \/ unaligned(ins) = <<"here">> /\ Does(ins) = x
    BY <1>10, PeiDoes
  <2> HIDE DEF w, x
  <2>5. \/ Does(ins) = w /\ Cost = 6
        \/ Does(ins) = x /\ Cost = 7
    <3>1. unaligned(ins) = <<>> => Cost = 6
      BY <2>1, <2>2
    <3>2. unaligned(ins) = <<"here">> => Cost = 7
      BY <2>1, <2>2
    <3> QED
      BY <2>4, <3>1, <3>2
  <2> QED
    BY <2>1, <2>3, <2>5
<1> QED
  BY <1>5, <1>6, <1>7, <1>8, <1>9, <1>10 DEF PlainKinds

\* The others begin with this much work, the end of a vector's not the first of it.
Counts(w, n) == w \in Seq(Work) /\ Len(w) = n /\ w[1] # "vectorHigh"

LEMMA JumpDoes ==
  ASSUME Handled, Decoded, ins.kind \in {"brl", "jmp", "jml", "jmpIndirect", "jmpIndirectX",
                                         "jmlIndirect", "jsr", "jsrIndirectX", "jsl"}
  PROVE  \E n \in Nat : Counts(Does(ins), n) /\ Cost = n + 1
<1> DEFINE h == Handlers(ins.e, ins.wide)
<1>1. Does(ins) = h[ins.kind] /\ Cost = Takes[ins.kind]
  BY DoesIs, CostIs
<1>2. /\ {"low", "high", "here", "bank", "leave", "to"} \subseteq Work
      /\ {"jumpLow", "jumpHigh", "jumpBank", "baseIdle"} \subseteq Work
      /\ {"pushBank", "pushHigh", "pushLow"} \subseteq Work
  BY DEF Work
<1>3. /\ h["brl"] = <<"low", "high", "leave">> /\ h["jmp"] = <<"low", "to">>
      /\ h["jml"] = <<"low", "high", "bank">>
      /\ h["jmpIndirect"] = <<"low", "high", "jumpLow", "jumpHigh">>
      /\ h["jmpIndirectX"] = <<"low", "high", "here", "jumpLow", "jumpHigh">>
      /\ h["jmlIndirect"] = <<"low", "high", "jumpLow", "jumpHigh", "jumpBank">>
      /\ h["jsr"] = <<"low", "high", "here", "pushHigh", "pushLow">>
      /\ h["jsrIndirectX"] = <<"low", "pushHigh", "pushLow", "high", "here", "jumpLow", "jumpHigh">>
      /\ h["jsl"] = <<"low", "high", "pushBank", "baseIdle", "bank", "pushHigh", "pushLow">>
  BY JumpHandlers
<1>4. /\ Takes["brl"] = 4 /\ Takes["jmp"] = 3 /\ Takes["jml"] = 4
      /\ Takes["jmpIndirect"] = 5 /\ Takes["jmpIndirectX"] = 6 /\ Takes["jmlIndirect"] = 6
      /\ Takes["jsr"] = 6 /\ Takes["jsrIndirectX"] = 8 /\ Takes["jsl"] = 8
  BY DEF Takes
<1>5. /\ Counts(<<"low", "high", "leave">>, 3) /\ Counts(<<"low", "to">>, 2)
      /\ Counts(<<"low", "high", "bank">>, 3)
  BY <1>2 DEF Counts
<1>6. /\ Counts(<<"low", "high", "jumpLow", "jumpHigh">>, 4)
      /\ Counts(<<"low", "high", "here", "jumpLow", "jumpHigh">>, 5)
      /\ Counts(<<"low", "high", "jumpLow", "jumpHigh", "jumpBank">>, 5)
  BY <1>2 DEF Counts
<1>7. /\ Counts(<<"low", "high", "here", "pushHigh", "pushLow">>, 5)
      /\ Counts(<<"low", "pushHigh", "pushLow", "high", "here", "jumpLow", "jumpHigh">>, 7)
  BY <1>2 DEF Counts
<1>8. Counts(<<"low", "high", "pushBank", "baseIdle", "bank", "pushHigh", "pushLow">>, 7)
  BY <1>2 DEF Counts
<1> HIDE DEF h
<1>9. CASE ins.kind \in {"brl", "jmp", "jml"}
  <2>1. \E n \in {2, 3} : Counts(Does(ins), n) /\ Cost = n + 1
    BY <1>1, <1>3, <1>4, <1>5, <1>9
  <2> QED
    BY <2>1
<1>10. CASE ins.kind \in {"jmpIndirect", "jmpIndirectX", "jmlIndirect"}
  <2>1. \E n \in {4, 5} : Counts(Does(ins), n) /\ Cost = n + 1
    BY <1>1, <1>3, <1>4, <1>6, <1>10
  <2> QED
    BY <2>1
<1>11. CASE ins.kind \in {"jsr", "jsrIndirectX", "jsl"}
  <2>1. \E n \in {5, 7} : Counts(Does(ins), n) /\ Cost = n + 1
    BY <1>1, <1>3, <1>4, <1>7, <1>8, <1>11
  <2> QED
    BY <2>1
<1> QED
  BY <1>9, <1>10, <1>11

LEMMA StackDoes ==
  ASSUME Handled, Decoded, ins.kind \in {"rts", "rtl", "rti", "brk", "interrupt"}
  PROVE  \E n \in Nat : /\ Counts(Does(ins), n)
                        /\ Cost = IF ins.kind = "interrupt" THEN n ELSE n + 1
<1> DEFINE h == Handlers(ins.e, ins.wide)
<1>1. /\ Does(ins) = h[ins.kind]
      /\ ins.kind \in {"rts", "rtl"} => Cost = Takes[ins.kind]
      /\ ins.kind \in {"rti", "brk", "interrupt"}
           => Cost = IF ins.e THEN Takes[ins.kind] - 1 ELSE Takes[ins.kind]
  BY DoesIs, CostIs
<1>2. /\ {"idle", "pullAside", "pullLow", "pullHigh", "pullBank", "pulled"} \subseteq Work
      /\ {"signature", "pushBank", "pushHigh", "pushLow", "push"} \subseteq Work
      /\ {"vector", "vectorHigh"} \subseteq Work
  BY DEF Work
<1>3. Takes["rts"] = 6 /\ Takes["rtl"] = 6 /\ Takes["rti"] = 7 /\ Takes["brk"] = 8
      /\ Takes["interrupt"] = 6
  BY DEF Takes
<1>4. CASE ins.kind \in {"rts", "rtl"}
  <2>1. /\ Counts(<<"idle", "idle", "pullLow", "pullHigh", "pulled">>, 5)
        /\ Counts(<<"idle", "idle", "pullLow", "pullHigh", "pullBank">>, 5)
    BY <1>2 DEF Counts
  <2>2. /\ h["rts"] = <<"idle", "idle", "pullLow", "pullHigh", "pulled">>
        /\ h["rtl"] = <<"idle", "idle", "pullLow", "pullHigh", "pullBank">>
    BY StackHandlers
  <2> HIDE DEF h
  <2>3. Counts(Does(ins), 5) /\ Cost = 5 + 1
    BY <1>1, <1>3, <1>4, <2>1, <2>2
  <2> QED
    BY <1>4, <2>3
<1>5. CASE ins.kind = "rti"
  <2>1. /\ Counts(<<"idle", "idle", "pullAside", "pullLow", "pullHigh">>, 5)
        /\ Counts(<<"idle", "idle", "pullAside", "pullLow", "pullHigh", "pullBank">>, 6)
    BY <1>2 DEF Counts
  <2>2. /\ ins.e => h["rti"] = <<"idle", "idle", "pullAside", "pullLow", "pullHigh">>
        /\ ~ins.e => h["rti"] = <<"idle", "idle", "pullAside", "pullLow", "pullHigh", "pullBank">>
    BY StackHandlers
  <2> HIDE DEF h
  <2>3. \/ Counts(Does(ins), 5) /\ Cost = 5 + 1
        \/ Counts(Does(ins), 6) /\ Cost = 6 + 1
    BY <1>1, <1>3, <1>5, <2>1, <2>2
  <2> QED
    BY <1>5, <2>3
<1>6. CASE ins.kind = "brk"
  <2>1. Counts(<<"signature", "pushHigh", "pushLow", "push", "vector", "vectorHigh">>, 6)
    BY <1>2 DEF Counts
  <2>2. Counts(<<"signature", "pushBank", "pushHigh", "pushLow", "push", "vector",
                 "vectorHigh">>, 7)
    BY <1>2 DEF Counts
  <2>3. /\ ins.e => h["brk"] = <<"signature", "pushHigh", "pushLow", "push", "vector",
                                 "vectorHigh">>
        /\ ~ins.e => h["brk"] = <<"signature", "pushBank", "pushHigh", "pushLow", "push", "vector",
                                  "vectorHigh">>
    BY StackHandlers
  <2> HIDE DEF h
  <2>4. \/ Counts(Does(ins), 6) /\ Cost = 6 + 1
        \/ Counts(Does(ins), 7) /\ Cost = 7 + 1
    BY <1>1, <1>3, <1>6, <2>1, <2>2, <2>3
  <2> QED
    BY <1>6, <2>4
<1>7. CASE ins.kind = "interrupt"
  <2>1. Counts(<<"pushHigh", "pushLow", "push", "vector", "vectorHigh">>, 5)
    BY <1>2 DEF Counts
  <2>2. Counts(<<"pushBank", "pushHigh", "pushLow", "push", "vector", "vectorHigh">>, 6)
    BY <1>2 DEF Counts
  <2>3. /\ ins.e => h["interrupt"] = <<"pushHigh", "pushLow", "push", "vector", "vectorHigh">>
        /\ ~ins.e => h["interrupt"] = <<"pushBank", "pushHigh", "pushLow", "push", "vector",
                                        "vectorHigh">>
    BY StackHandlers
  <2> HIDE DEF h
  <2>4. \/ Counts(Does(ins), 5) /\ Cost = 5
        \/ Counts(Does(ins), 6) /\ Cost = 6
    BY <1>1, <1>3, <1>7, <2>1, <2>2, <2>3
  <2> QED
    BY <1>7, <2>4
<1> QED
  BY <1>4, <1>5, <1>6, <1>7

\* Every one without an address has its work, and what it costs.
LEMMA HandledDoes ==
  ASSUME Handled, Decoded
  PROVE  /\ Does(ins) \in Seq(Work)
         /\ Does(ins) # <<>> => Head(Does(ins)) # "vectorHigh"
         /\ ins.kind # "branch"
              => \E n \in Nat : /\ Len(Does(ins)) = n
                                /\ Cost = IF ins.kind = "interrupt" THEN n ELSE n + 1
<1>1. \/ ins.kind \in PlainKinds \/ ins.kind = "branch"
      \/ ins.kind \in {"brl", "jmp", "jml", "jmpIndirect", "jmpIndirectX", "jmlIndirect", "jsr",
                       "jsrIndirectX", "jsl"}
      \/ ins.kind \in {"rts", "rtl", "rti", "brk", "interrupt"}
  BY DEF Handled, Handlers, PlainKinds
<1>0. \A w \in Seq(Work) : w # <<>> => Head(w) = w[1] /\ 1 \in 1..Len(w)
  BY EmptySeq
<1>2. CASE ins.kind \in PlainKinds
  <2>1. PICK n \in Nat : Fits(Does(ins), n, operand_size) /\ Cost = n + 1
    BY <1>2, PlainDoes
  <2>2. Does(ins) # <<>> => Head(Does(ins)) \in PlainWork
    BY <1>0, <2>1 DEF Fits, FetchesFirst
  <2>3. "vectorHigh" \notin PlainWork
    BY DEF PlainWork, Fetching
  <2> QED
    BY <1>2, <2>1, <2>2, <2>3 DEF Fits, PlainKinds
<1>3. CASE ins.kind = "branch"
  <2>1. Does(ins) = <<"taken">>
    <3>1. Handlers(ins.e, ins.wide)["branch"] = <<"taken">>
      BY JumpHandlers
    <3>2. Does(ins) = Handlers(ins.e, ins.wide)[ins.kind]
      BY <1>3, DoesIs
    <3> QED
      BY <1>3, <3>1, <3>2
  <2>2. "taken" \in Work /\ Head(<<"taken">>) # "vectorHigh"
    BY DEF Work
  <2> QED
    BY <1>3, <2>1, <2>2
<1>4. CASE ins.kind \in {"brl", "jmp", "jml", "jmpIndirect", "jmpIndirectX", "jmlIndirect", "jsr",
                         "jsrIndirectX", "jsl"}
  <2>1. PICK n \in Nat : Counts(Does(ins), n) /\ Cost = n + 1
    BY <1>4, JumpDoes
  <2> QED
    BY <1>0, <1>4, <2>1 DEF Counts
<1>5. CASE ins.kind \in {"rts", "rtl", "rti", "brk", "interrupt"}
  <2>1. PICK n \in Nat : /\ Counts(Does(ins), n)
                         /\ Cost = IF ins.kind = "interrupt" THEN n ELSE n + 1
    BY <1>5, StackDoes
  <2> QED
    BY <1>0, <1>5, <2>1 DEF Counts
<1> QED
  BY <1>1, <1>2, <1>3, <1>4, <1>5

\* One without an address is somewhere in its rows, and its cycles add up.
Handling ==
    /\ Handled
    /\ ins.kind # "branch" => cycles + Len(ahead) = Cost
    /\ \/ Plain \/ Branching \/ Jumping \/ Indirecting \/ JsrRows \/ JslRows \/ JsrIndirectRows
       \/ Returning \/ Interrupting

LEMMA EntryBegins ==
  ASSUME TypeOK, Handled, Decoded, Beginning, ins.kind \in {"brk", "interrupt"}
  PROVE  Interrupting
<1>1. s \in Tops /\ ahead = Handlers(ins.e, ins.wide)[ins.kind]
  BY DoesIs DEF Beginning, Stacks
<1>2. CASE ins.kind = "brk"
  <2>1. Behind(1)
    BY <1>2 DEF Beginning
  <2>2. /\ ins.e => Handlers(ins.e, ins.wide)["brk"]
                      = <<"signature", "pushHigh", "pushLow", "push", "vector", "vectorHigh">>
        /\ ~ins.e => Handlers(ins.e, ins.wide)["brk"]
                       = <<"signature", "pushBank", "pushHigh", "pushLow", "push", "vector",
                           "vectorHigh">>
    BY StackHandlers
  <2> HIDE DEF Handlers
  <2> QED
    BY <1>1, <1>2, <2>1, <2>2 DEF Interrupting, Row
<1>3. CASE ins.kind = "interrupt"
  <2>1. Behind(0)
    BY <1>3 DEF Beginning
  <2>2. /\ ins.e => Handlers(ins.e, ins.wide)["interrupt"]
                      = <<"pushHigh", "pushLow", "push", "vector", "vectorHigh">>
        /\ ~ins.e => Handlers(ins.e, ins.wide)["interrupt"]
                       = <<"pushBank", "pushHigh", "pushLow", "push", "vector", "vectorHigh">>
    BY StackHandlers
  <2>3. pc = Resumes /\ pb = Bank(ins.at)
    <3>1. ins.at % BB \in Wide
      BY Numbers, BankByte
    <3>2. Plus(ins.at % BB, 0) = ins.at % BB
      BY <3>1, PlusNothing
    <3> QED
      BY <1>3, <2>1, <3>2 DEF Behind, Resumes
  <2>4. Below(s, 0)
    BY <1>1, AtTop
  <2>5. ins.e => BankLaid(s) /\ Native = 0
    BY DEF BankLaid, Native
  <2> HIDE DEF Handlers
  <2>6. ASSUME ins.e PROVE Interrupting
    <3>1. Entering(s, 0)
      BY <1>1, <1>3, <2>2, <2>3, <2>4, <2>6 DEF Entering
    <3> QED
      BY <1>1, <1>3, <2>5, <2>6, <3>1 DEF Interrupting
  <2>7. ASSUME ~ins.e PROVE Interrupting
    BY <1>1, <1>3, <2>2, <2>3, <2>7 DEF Interrupting
  <2> QED
    BY <2>6, <2>7
<1> QED
  BY <1>2, <1>3

LEMMA ReturnBegins ==
  ASSUME Handled, Decoded, Beginning, ins.kind \in {"rts", "rtl", "rti"}
  PROVE  Returning
<1> DEFINE h == Handlers(ins.e, ins.wide)
<1>1. s \in Tops /\ ahead = h[ins.kind] /\ Behind(1)
  BY DoesIs DEF Beginning, Stacks, Flat
<1>2. /\ h["rts"] = <<"idle", "idle", "pullLow", "pullHigh", "pulled">>
      /\ h["rtl"] = <<"idle", "idle", "pullLow", "pullHigh", "pullBank">>
      /\ ins.e => h["rti"] = <<"idle", "idle", "pullAside", "pullLow", "pullHigh">>
      /\ ~ins.e => h["rti"]
                     = <<"idle", "idle", "pullAside", "pullLow", "pullHigh", "pullBank">>
  BY StackHandlers
<1> HIDE DEF h
<1>3. CASE ins.kind = "rts"
  BY <1>1, <1>2, <1>3 DEF Returning, Row
<1>4. CASE ins.kind = "rtl"
  BY <1>1, <1>2, <1>4 DEF Returning, Row
<1>5. CASE ins.kind = "rti"
  BY <1>1, <1>2, <1>5 DEF Returning, Row
<1> QED
  BY <1>3, <1>4, <1>5

LEMMA JumpBegins ==
  ASSUME Handled, Decoded, Beginning,
         ins.kind \in {"branch", "brl", "jmp", "jml", "jmpIndirect", "jmpIndirectX",
                       "jmlIndirect", "jsr", "jsrIndirectX", "jsl"}
  PROVE  Branching \/ Jumping \/ Indirecting \/ JsrRows \/ JslRows \/ JsrIndirectRows
<1> DEFINE h == Handlers(ins.e, ins.wide)
<1>1. /\ ahead = h[ins.kind] /\ Behind(1) /\ cycles = 1
      /\ ins.kind \in {"jsr", "jsrIndirectX", "jsl"} => s \in Tops
  BY DoesIs DEF Beginning, Stacks, Flat
<1>2. Unwritten /\ DOMAIN first = {}
  BY DEF Beginning, Unwritten
<1>3. /\ h["branch"] = <<"taken">>
      /\ h["brl"] = <<"low", "high", "leave">> /\ h["jmp"] = <<"low", "to">>
      /\ h["jml"] = <<"low", "high", "bank">>
      /\ h["jmpIndirect"] = <<"low", "high", "jumpLow", "jumpHigh">>
      /\ h["jmpIndirectX"] = <<"low", "high", "here", "jumpLow", "jumpHigh">>
      /\ h["jmlIndirect"] = <<"low", "high", "jumpLow", "jumpHigh", "jumpBank">>
      /\ h["jsr"] = <<"low", "high", "here", "pushHigh", "pushLow">>
      /\ h["jsrIndirectX"] = <<"low", "pushHigh", "pushLow", "high", "here", "jumpLow", "jumpHigh">>
      /\ h["jsl"] = <<"low", "high", "pushBank", "baseIdle", "bank", "pushHigh", "pushLow">>
  BY JumpHandlers
<1> HIDE DEF h
<1>4. CASE ins.kind = "branch"
  <2>1. ahead = <<"taken">>
    BY <1>1, <1>3, <1>4
  <2> QED
    BY <1>1, <1>2, <1>4, <2>1 DEF Branching, Row
<1>5. CASE ins.kind \in {"brl", "jmp", "jml"}
  BY <1>1, <1>2, <1>3, <1>5 DEF Jumping, Row
<1>6. CASE ins.kind \in {"jmpIndirect", "jmpIndirectX", "jmlIndirect"}
  BY <1>1, <1>2, <1>3, <1>6 DEF Indirecting, Row
<1>7. CASE ins.kind = "jsr"
  BY <1>1, <1>2, <1>3, <1>7 DEF JsrRows, Row
<1>8. CASE ins.kind = "jsl"
  BY <1>1, <1>2, <1>3, <1>8 DEF JslRows, Row
<1>9. CASE ins.kind = "jsrIndirectX"
  BY <1>1, <1>2, <1>3, <1>9 DEF JsrIndirectRows, Row
<1> QED
  BY <1>4, <1>5, <1>6, <1>7, <1>8, <1>9

LEMMA HandledBegins == TypeOK /\ Handled /\ Decoded /\ Beginning => Handling
<1> SUFFICES ASSUME TypeOK, Handled, Decoded, Beginning PROVE Handling
  OBVIOUS
<1>1. ins.kind # "branch" => cycles + Len(ahead) = Cost
  <2> HAVE ins.kind # "branch"
  <2>1. PICK n \in Nat : /\ Len(Does(ins)) = n
                         /\ Cost = IF ins.kind = "interrupt" THEN n ELSE n + 1
    BY HandledDoes
  <2>2. ahead = Does(ins) /\ cycles = IF ins.kind = "interrupt" THEN 0 ELSE 1
    BY DEF Beginning
  <2> QED
    BY <2>1, <2>2
<1>2. ASSUME ins.kind \in PlainKinds PROVE Plain
  <2>1. PICK n \in Nat : Fits(Does(ins), n, operand_size)
    BY <1>2, PlainDoes
  <2>2. ahead = Does(ins) /\ Behind(1)
    BY <1>2 DEF Beginning, PlainKinds
  <2>3. FetchesFirst(ahead) /\ Bytes(ahead) = operand_size
    BY <2>1, <2>2 DEF Fits
  <2>4. operand_size \in Int
    BY AfterWide
  <2>5. 1 + operand_size - Bytes(ahead) = 1
    BY <2>3, <2>4
  <2> QED
    BY <1>2, <2>2, <2>3, <2>5 DEF Plain
<1>3. \/ ins.kind \in PlainKinds
      \/ ins.kind \in {"branch", "brl", "jmp", "jml", "jmpIndirect", "jmpIndirectX",
                       "jmlIndirect", "jsr", "jsrIndirectX", "jsl"}
      \/ ins.kind \in {"rts", "rtl", "rti"} \/ ins.kind \in {"brk", "interrupt"}
  BY DEF Handled, Handlers, PlainKinds
<1> QED
  BY <1>1, <1>2, <1>3, EntryBegins, ReturnBegins, JumpBegins DEF Handling

\* So it goes on, a cycle at a time.
LEMMA HandlingStep ==
  ASSUME TypeOK, Asserts, Handling, Next, ~Fail, ahead # <<>>
  PROVE  Moves /\ Handling'
<1>1. Handled /\ (ins.kind # "branch" => cycles + Len(ahead) = Cost)
  BY DEF Handling
<1>2. Goes /\ Calm' => Moves
  BY DEF Goes, Moves
<1>3. ASSUME Branching PROVE Moves /\ Branching' /\ ins.kind = "branch"
  <2>1. ins.kind = "branch"
    BY <1>3 DEF Branching
  <2> QED
    BY <1>1, <1>2, <1>3, <2>1, BranchingStep
<1>4. ASSUME Plain \/ Jumping \/ Indirecting \/ JsrRows \/ JslRows \/ JsrIndirectRows
             \/ Returning \/ Interrupting
      PROVE  /\ Moves /\ ahead' = Tail(ahead)
             /\ Plain' \/ Jumping' \/ Indirecting' \/ JsrRows' \/ JslRows' \/ JsrIndirectRows'
                \/ Returning' \/ Interrupting'
  BY <1>1, <1>2, <1>4, PlainStep, JumpingStep, IndirectingStep, JsrStep, JslStep,
     JsrIndirectStep, ReturningStep, InterruptingStep
<1>5. Moves => Handled' /\ Cost' = Cost /\ ins'.kind = ins.kind
  BY <1>1, HandledIs DEF Moves, Cost, unaligned
<1>6. CASE Branching
  BY <1>3, <1>5, <1>6 DEF Handling
<1>7. CASE ~Branching
  <2>1. Moves /\ ahead' = Tail(ahead)
    BY <1>4, <1>7 DEF Handling
  <2>2. ins.kind # "branch" => cycles' + Len(ahead') = Cost'
    BY <1>1, <1>5, <2>1, Sum DEF Moves
  <2> QED
    BY <1>4, <1>5, <1>7, <2>1, <2>2 DEF Handling
<1> QED
  BY <1>6, <1>7

-----------------------------------------------------------------------------
(* The invariant.                                                          *)

\* Between two instructions nothing is ahead, and nothing known.
Resting ==
    /\ ahead = <<>> /\ mem = <<>> /\ first = <<>> /\ cycles = 0
    /\ bus = [does |-> "none", pins |-> {}, at |-> 0]

\* An instruction is on its way to its address, at it, or somewhere in its rows.
Arriving == Forming \/ Reached \/ Handling

IInv ==
    /\ TypeOK
    /\ ins = None => Resting
    /\ ins # None => Decoded /\ Arriving
    /\ Asserts /\ BusTells

\* A bus on which nothing has been done tells nothing.
LEMMA RestingTells ==
  bus = [does |-> "none", pins |-> {}, at |-> 0] /\ asserted = {} /\ ahead = <<>>
    => Asserts /\ BusTells
<1> SUFFICES ASSUME bus = [does |-> "none", pins |-> {}, at |-> 0], asserted = {}, ahead = <<>>
             PROVE  Asserts /\ BusTells
  OBVIOUS
<1>1. bus.does = "none" /\ bus.pins = {}
  OBVIOUS
<1>2. "none" \notin AtData
  BY DEF AtData
<1>3. OutputsTell /\ DataIsNamed
  BY <1>1, <1>2, DataWork DEF OutputsTell, DataIsNamed
<1> QED
  BY <1>1, <1>2, <1>3, DataWork DEF Asserts, BusTells

\* Nothing is typed as nothing should be.
LEMMA NoneTypes == 
  /\ None.at \in Place /\ None.index \in Wide /\ None.db \in Byte /\ None.d \in Wide
  /\ None.e \in BOOLEAN /\ None.wide \in BOOLEAN /\ None.x8 \in BOOLEAN
  BY Sizes DEF None

LEMMA InitHolds == Init => IInv
<1> SUFFICES ASSUME Init PROVE IInv
  OBVIOUS
<1>1. TypeOK
  <2>1. /\ reach \in Reaches /\ ins = None /\ ahead = <<>> /\ mem = <<>> /\ first = <<>>
        /\ pc = 0 /\ pb = 0 /\ s = 0 /\ low = 0 /\ base = 0 /\ point = 0 /\ addr = 0 /\ cycles = 0
    BY DEF Init
  <2>2. DOMAIN mem = {} /\ DOMAIN first = {} /\ ahead \in Seq(Work)
    BY <2>1
  <2> QED
    BY <2>1, <2>2, NoneTypes, Sizes DEF TypeOK
<1>2. ins = None /\ Resting
  BY DEF Init, Resting
<1>3. Asserts /\ BusTells
  <2>1. bus = [does |-> "none", pins |-> {}, at |-> 0] /\ asserted = {} /\ ahead = <<>>
    BY DEF Init
  <2> QED
    BY <2>1, RestingTells
<1> QED
  BY <1>1, <1>2, <1>3 DEF IInv

\* What the instruction before left is forgotten.
LEMMA ForgetHolds ==
  ASSUME IInv, Forget, asserted' = {}
  PROVE  IInv'
<1>1. TypeOK'
  <2>1. /\ reach' = reach /\ ins' = None /\ ahead' = <<>> /\ mem' = <<>> /\ first' = <<>>
        /\ pc' = 0 /\ pb' = 0 /\ s' = 0 /\ low' = 0 /\ base' = 0 /\ point' = 0 /\ addr' = 0
        /\ cycles' = 0
    BY DEF Forget
  <2>2. DOMAIN mem' = {} /\ DOMAIN first' = {} /\ ahead' \in Seq(Work) /\ reach' \in Reaches
    BY <2>1 DEF IInv, TypeOK
  <2> QED
    BY <2>1, <2>2, NoneTypes, Sizes DEF TypeOK
<1>2. ins' = None /\ Resting'
  BY DEF Forget, Resting
<1>3. Asserts' /\ BusTells'
  <2>1. (bus = [does |-> "none", pins |-> {}, at |-> 0] /\ asserted = {} /\ ahead = <<>>)'
    BY DEF Forget
  <2> QED
    BY <2>1, RestingTells, PTL
<1>4. None' = None
  BY DEF None
<1> QED
  BY <1>1, <1>2, <1>3, <1>4 DEF IInv

\* On the way to its address an instruction fetches, reads a pointer or waits.
OnTheWay == {"offset", "here", "pointer", "pointerHigh", "pointerBank", "low", "high", "bank"}

LEMMA FormingHead == Forming => ahead # <<>> /\ Head(ahead) \in OnTheWay
<1> SUFFICES ASSUME Forming PROVE ahead # <<>> /\ Head(ahead) \in OnTheWay
  OBVIOUS
<1>1. HasAddress /\ Use \in Seq(Work)
  BY Uses DEF Forming
<1>2. ASSUME NEW u \in Seq(Work), NEW t \in Seq(Work), u # <<>>, Head(u) \in OnTheWay,
             ahead = u \o t
      PROVE  ahead # <<>> /\ Head(ahead) \in OnTheWay
  BY <1>2, HeadOf
<1>3. CASE ToOffset \/ ToPlace
  <2>1. ins.mode \in DOMAIN Rest
    BY <1>3 DEF ToOffset, ToPlace
  <2> DEFINE left == Rest[ins.mode] \o Use
  <2>2. left \in Seq(Work) /\ \A w \in Waits : w \o left \in Seq(Work)
    <3>1. Rest[ins.mode] \in Seq(Work)
      BY <2>1, RestIs
    <3> QED
      BY <1>1, <3>1, WaitsAre, Chained
  <2>3. CASE ToOffset
    <3>1. PICK w \in Waits : ahead = <<"offset">> \o (w \o left)
      BY <2>3 DEF ToOffset
    <3>2. /\ <<"offset">> \in Seq(Work) /\ <<"offset">> # <<>> /\ Head(<<"offset">>) = "offset"
          /\ "offset" \in OnTheWay
      BY Ways DEF OnTheWay
    <3> QED
      BY <1>2, <2>2, <3>1, <3>2
  <2>4. CASE ToPlace
    <3>1. PICK w \in Waits : (ins.mode \in Direct => w # <<>>) /\ ahead = w \o left
      BY <2>4 DEF ToPlace
    <3>2. CASE w # <<>>
      BY <1>2, <2>2, <3>1, <3>2, WaitsAre DEF OnTheWay
    <3>3. CASE w = <<>>
      <4>1. Rest[ins.mode] # <<>> /\ Head(Rest[ins.mode]) = "pointer" /\ Rest[ins.mode] \in Seq(Work)
        BY <2>1, <3>1, <3>3, RestIs
      <4>2. ahead = Rest[ins.mode] \o Use
        BY <2>2, <3>1, <3>3, Nothing
      <4> QED
        BY <1>1, <1>2, <4>1, <4>2 DEF OnTheWay
    <3> QED
      BY <3>2, <3>3
  <2> QED
    BY <1>3, <2>3, <2>4
<1>4. CASE ToPointerHigh
  <2>1. ins.mode \in DOMAIN Rest /\ ins.mode \notin Direct
    BY <1>4 DEF ToPointerHigh, Pointers, Longs, Rest, Direct
  <2>2. /\ Tail(Rest[ins.mode]) \in Seq(Work) /\ Tail(Rest[ins.mode]) # <<>>
        /\ Head(Tail(Rest[ins.mode])) = "pointerHigh"
    BY <2>1, RestIs
  <2> QED
    BY <1>1, <1>2, <1>4, <2>2 DEF ToPointerHigh, OnTheWay
<1>5. CASE ToPointerBank \/ ToBank
  <2>1. /\ <<"pointerBank">> \in Seq(Work) /\ <<"pointerBank">> # <<>>
        /\ Head(<<"pointerBank">>) = "pointerBank"
        /\ <<"bank">> \in Seq(Work) /\ <<"bank">> # <<>> /\ Head(<<"bank">>) = "bank"
    BY Ways
  <2> QED
    BY <1>1, <1>2, <1>5, <2>1 DEF ToPointerBank, ToBank, OnTheWay
<1>6. CASE ToLow \/ ToHigh
  <2>1. /\ effective[ins.mode] \in Seq(Work) /\ effective[ins.mode] # <<>>
        /\ Head(effective[ins.mode]) = "low"
        /\ Tail(effective[ins.mode]) \in Seq(Work) /\ Tail(effective[ins.mode]) # <<>>
        /\ Head(Tail(effective[ins.mode])) = "high"
    BY <1>6, WordsAre DEF ToLow, ToHigh
  <2> QED
    BY <1>1, <1>2, <1>6, <2>1 DEF ToLow, ToHigh, OnTheWay
<1> QED
  BY <1>3, <1>4, <1>5, <1>6 DEF Forming

\* What an instruction is to do is work, and holds no output to begin with.
LEMMA DoesWork == Decoded => Does(ins) \in Seq(Work)
  BY AddressedDoes, HandledDoes DEF Decoded

LEMMA BeginsCalm == Decoded /\ Beginning => Calm
<1> SUFFICES ASSUME Decoded, Beginning, ahead # <<>>
             PROVE  Head(ahead) # "vectorHigh" /\ (ins.kind = "modify" => Head(ahead) \notin Holding)
  BY DEF Calm
<1>1. CASE HasAddress
  BY <1>1, FormingBegins, FormingHead DEF OnTheWay, Holding
<1>2. CASE Handled
  BY <1>2, HandledDoes, HandledIs DEF Beginning
<1> QED
  BY <1>1, <1>2 DEF Decoded

\* An instruction begun is on its way.
LEMMA Begun == TypeOK /\ Decoded /\ Beginning => Arriving
  BY FormingBegins, HandledBegins DEF Arriving, Decoded

\* A cycle that drives no output of its own, when none is held.
LEMMA Untold == bus.does \notin Telling /\ bus.pins \subseteq {"d", "p"} => BusTells
<1> SUFFICES ASSUME bus.does \notin Telling, bus.pins \subseteq {"d", "p"} PROVE BusTells
  OBVIOUS
<1>1. bus.does \notin AtData /\ bus.does \notin {"settle", "vector", "vectorHigh"}
  BY DEF Telling
<1>2. "l" \notin bus.pins /\ "v" \notin bus.pins /\ "w" \notin bus.pins
  OBVIOUS
<1> QED
  BY <1>1, <1>2, DataWork DEF BusTells, OutputsTell, DataIsNamed

LEMMA CalmAsserts == Calm /\ asserted = {} => Asserts
  BY DEF Calm, Asserts

\* The registers an instruction is given.
LEMMA RegistersAre ==
  ASSUME NEW do \in OPCODES, NEW at \in Starts, NEW i \in Registers(do, at)
  PROVE  /\ i.kind = do.kind /\ i.mode = do.mode /\ i.at = at
         /\ i.at \in Place /\ i.index \in Wide /\ i.db \in Byte /\ i.d \in Wide
         /\ i.e \in BOOLEAN /\ i.wide \in BOOLEAN /\ i.x8 \in BOOLEAN
         /\ i.wide => do.kind \in DOMAIN Modes \cup {"immediate", "push", "pull"}
         /\ i.e => ~i.wide /\ i.x8 /\ i.index \in Byte
<1> DEFINE w == IF do.kind \in DOMAIN Modes \cup {"immediate", "push", "pull"}
                THEN BOOLEAN ELSE {FALSE}
           x == IF do.mode \in Carries THEN BOOLEAN ELSE {TRUE}
           n == Only(do.mode \in Indexes \cup {"directX", "indexedIndirectX", "indirectX"},
                     IndexValues)
           b == Only(do.kind \in DOMAIN Modes /\ do.mode \notin BANK_ZERO_MODES, Banks)
           d == Only(do.mode \in ZeroModes, DirectPages)
<1>1. /\ w \subseteq BOOLEAN /\ x \subseteq BOOLEAN
      /\ TRUE \in w => do.kind \in DOMAIN Modes \cup {"immediate", "push", "pull"}
  OBVIOUS
<1>2. n \subseteq Wide
  BY PlacesAssumption, Sizes DEF Only
<1>3. b \subseteq Byte /\ d \subseteq Wide
  BY PlacesAssumption, Sizes DEF Only
<1>4. at \in Place
  BY PlacesAssumption DEF Place
<1>5. i \in [kind : {do.kind}, mode : {do.mode}, e : BOOLEAN, at : {at}, wide : w, x8 : x,
             index : n, db : b, d : d]
      /\ (i.e => ~i.wide /\ i.x8) /\ (i.x8 /\ (i.e \/ do.mode \in Carries) => i.index \in Byte)
  BY DEF Registers
<1> HIDE DEF w, x, n, b, d
<1>6. /\ i.kind = do.kind /\ i.mode = do.mode /\ i.at = at /\ i.e \in BOOLEAN /\ i.wide \in w
      /\ i.x8 \in x /\ i.index \in n /\ i.db \in b /\ i.d \in d
  BY <1>5
<1> QED
  BY <1>1, <1>2, <1>3, <1>4, <1>5, <1>6

\* An opcode is of an instruction that has an address, or of one that has none.
LEMMA OpcodeIs ==
  ASSUME NEW do \in OPCODES
  PROVE  \/ do.kind \in DOMAIN Modes /\ do.mode \in Modes[do.kind]
         \/ do.kind \in DOMAIN Handlers(TRUE, FALSE) /\ do.mode = ModeOf(do.kind)
<1>1. CASE do \in UNION {{[kind |-> k, mode |-> m] : m \in Modes[k]} : k \in DOMAIN Modes}
  <2>1. PICK k \in DOMAIN Modes : \E m \in Modes[k] : do = [kind |-> k, mode |-> m]
    BY <1>1
  <2>2. PICK m \in Modes[k] : do = [kind |-> k, mode |-> m]
    BY <2>1
  <2>3. do.kind = k /\ do.mode = m
    BY <2>2
  <2> QED
    BY <2>3
<1>2. CASE do \in {[kind |-> k, mode |-> ModeOf(k)] : k \in DOMAIN Handlers(TRUE, FALSE)}
  <2>1. PICK k \in DOMAIN Handlers(TRUE, FALSE) : do = [kind |-> k, mode |-> ModeOf(k)]
    BY <1>2
  <2>2. do.kind = k /\ do.mode = ModeOf(k)
    BY <2>1
  <2> QED
    BY <2>1, <2>2
<1> QED
  BY <1>1, <1>2 DEF OPCODES

\* Once it is decoded, or the interrupt taken, it is at its beginning.
LEMMA StartHolds ==
  ASSUME IInv, ins = None, NEW do \in OPCODES, NEW at \in Starts, Start(do, at),
         \/ /\ do.kind # "interrupt" /\ pc' = Plus(at % BB, 1) /\ cycles' = 1
            /\ bus' = [does |-> "opcode", pins |-> {"d", "p"} \cup asserted, at |-> Cell(at)]
         \/ do.kind = "interrupt" /\ pc' = at % BB /\ bus' = bus /\ cycles' = cycles
  PROVE  IInv'
<1>1. PICK i \in Registers(do, at) :
        /\ ins' = i /\ ahead' = Does(i)
        /\ s' \in Only(do.kind \in Stacks \/ do.mode \in {"stack", "stackIndirect"},
                       IF i.e THEN {Word(v, 1) : v \in Byte} ELSE Wide)
  BY DEF Start
<1>2. /\ reach' = reach /\ mem' = <<>> /\ first' = <<>> /\ asserted' = {} /\ cycles \in Nat
      /\ low' = low /\ base' = base /\ point' = point /\ addr' = addr /\ pb' = Bank(at)
      /\ bus = [does |-> "none", pins |-> {}, at |-> 0] /\ asserted = {} /\ cycles = 0
  <2>1. Resting /\ TypeOK /\ asserted = {}
    BY DEF IInv, Resting, Asserts
  <2> QED
    BY <2>1 DEF Resting, Start, memory, forming, TypeOK
<1>3. /\ ins'.kind = do.kind /\ ins'.mode = do.mode /\ ins'.at = at
      /\ ins'.at \in Place /\ ins'.index \in Wide /\ ins'.db \in Byte /\ ins'.d \in Wide
      /\ ins'.e \in BOOLEAN /\ ins'.wide \in BOOLEAN /\ ins'.x8 \in BOOLEAN
      /\ ins'.wide => do.kind \in DOMAIN Modes \cup {"immediate", "push", "pull"}
      /\ ins'.e => ~ins'.wide /\ ins'.x8 /\ ins'.index \in Byte
  BY <1>1, RegistersAre
<1>4. Decoded'
  <2>1. HasAddress' \/ Handled'
    BY <1>3, OpcodeIs DEF HasAddress, Handled
  <2> QED
    BY <1>3, <2>1 DEF Decoded
<1>5. (Does(ins) \in Seq(Work))'
  BY <1>4, DoesWork, PTL
<1>6. ahead' = Does(ins')
  BY <1>1
<1>7. s' \in Wide /\ (do.kind \in Stacks => (s \in Tops)')
  <2>1. 1 \in Byte
    BY Sizes DEF Byte
  <2>2. ASSUME NEW v \in Byte
        PROVE  Word(v, 1) \in Wide /\ Word(v, 1) = Word(Low(Word(v, 1)), 1)
    BY <2>1, WordOfBytes
  <2>3. s' \in Wide
    BY <1>1, <2>2, Sizes DEF Only
  <2>4. ASSUME do.kind \in Stacks, ins'.e PROVE s' = Word(Low(s'), 1)
    <3>1. s' \in {Word(v, 1) : v \in Byte}
      BY <1>1, <2>4 DEF Only
    <3> QED
      BY <2>2, <3>1
  <2> QED
    BY <2>3, <2>4 DEF Tops
<1>8. at \in Place /\ at \in Int /\ (at % BB) \in Wide /\ (at % BB) \in Int /\ Bank(at) \in Byte
  <2>1. at \in Place /\ at \in Int
    BY <1>3, Sizes
  <2>2. (at % BB) \in Wide /\ Bank(at) \in Byte
    BY <2>1, BankByte
  <2> QED
    BY <2>1, <2>2, Sizes
<1>9. TypeOK'
  <2>1. pc' \in Wide
    BY <1>8, PlusWide
  <2>2. cycles' \in Nat
    BY <1>2
  <2>3. DOMAIN mem' = {} /\ DOMAIN first' = {}
    BY <1>2
  <2>4. ahead' \in Seq(Work)
    BY <1>5, <1>6
  <2>5. /\ reach' \in Reaches /\ low' \in Byte /\ base' \in Wide /\ point' \in Int /\ addr' \in Int
        /\ pb' \in Byte
    BY <1>2, <1>8 DEF IInv, TypeOK
  <2> QED
    BY <1>3, <1>7, <2>1, <2>2, <2>3, <2>4, <2>5 DEF TypeOK
<1>10. Beginning'
  <2>1. do.kind # "interrupt" => Behind(1)' /\ cycles' = 1
    BY <1>2, <1>3 DEF Behind
  <2>2. do.kind = "interrupt" => Behind(0)' /\ cycles' = 0
    <3>1. Plus(at % BB, 0) = at % BB
      BY <1>8, PlusNothing
    <3> QED
      BY <1>2, <1>3, <3>1 DEF Behind
  <2>3. (ahead = Does(ins))'
    BY <1>6
  <2> QED
    BY <1>2, <1>3, <1>7, <2>1, <2>2, <2>3 DEF Beginning
<1>11. Arriving'
  BY <1>4, <1>9, <1>10, Begun, PTL
<1>12. Asserts'
  <2>1. Calm'
    BY <1>4, <1>10, BeginsCalm, PTL
  <2>2. (asserted = {})'
    BY <1>2
  <2> QED
    BY <2>1, <2>2, CalmAsserts, PTL
<1>13. BusTells'
  <2>1. (bus.does \notin Telling)'
    BY <1>2 DEF Telling, AtData
  <2>2. (bus.pins \subseteq {"d", "p"})'
    BY <1>2
  <2> QED
    BY <2>1, <2>2, Untold, PTL
<1>14. ins' # None
  <2>1. do.kind # "none"
    BY OpcodeIs DEF Modes, Handlers
  <2> QED
    BY <1>3, <2>1 DEF None
<1> QED
  BY <1>4, <1>9, <1>11, <1>12, <1>13, <1>14 DEF IInv

LEMMA BeginHolds ==
  ASSUME IInv, Begin \/ Enter
  PROVE  IInv'
<1>1. CASE Begin
  BY <1>1, StartHolds DEF Begin
<1>2. CASE Enter
  BY <1>2, StartHolds DEF Enter
<1> QED
  BY <1>1, <1>2

\* At its address an instruction goes nowhere else.
LEMMA ReachedHead ==
  ASSUME TypeOK, Reached, ahead # <<>>
  PROVE  Head(ahead) # "leave"
<1>1. HasAddress /\ Use \in Seq(Work)
  BY Uses DEF Reached
<1>2. CASE ahead = <<"carry">> \o Use \/ ahead = <<"pointerIdle">> \o Use
  <2>1. /\ <<"carry">> # <<>> /\ Head(<<"carry">>) = "carry" /\ <<"carry">> \in Seq(Work)
        /\ <<"pointerIdle">> # <<>> /\ Head(<<"pointerIdle">>) = "pointerIdle"
        /\ <<"pointerIdle">> \in Seq(Work)
    BY Ways
  <2>2. Head(ahead) = "carry" \/ Head(ahead) = "pointerIdle"
    BY <1>1, <1>2, <2>1, HeadOf
  <2> QED
    BY <2>2
<1>3. CASE ahead = Use \/ Partway
  BY <1>1, <1>3, Parts DEF AtData
<1> QED
  BY <1>2, <1>3 DEF Reached

\* Whatever is ahead of it, a step of the handler keeps the invariant.
LEMMA WorkingHolds ==
  ASSUME IInv, Next, ~Fail, ahead # <<>>
  PROVE  IInv'
<1>1. /\ TypeOK /\ ins # None /\ Decoded /\ Asserts /\ BusTells
      /\ Forming \/ Reached \/ Handling
  BY DEF IInv, Resting, Arriving
<1>2. ins' = ins /\ TypeOK'
  <2>1. CASE Forming \/ Reached
    <3>1. Working
      BY <1>1, Acts
    <3>2. ~Leave
      <4>1. Forming => Head(ahead) # "leave"
        BY FormingHead DEF OnTheWay
      <4>2. Reached => Head(ahead) # "leave"
        BY <1>1, ReachedHead
      <4> QED
        BY <2>1, <4>1, <4>2 DEF Leave, Doing
    <3> QED
      BY <1>1, <3>1, <3>2, StepWorks DEF Worked, OneCycle
  <2>2. CASE Handling
    BY <1>1, <2>2, HandlingStep DEF Moves
  <2> QED
    BY <1>1, <2>1, <2>2
<1>3. Arriving' /\ Asserts' /\ BusTells'
  <2>1. CASE Forming
    BY <1>1, <2>1, FormingStep DEF Went, Arriving
  <2>2. CASE Reached
    BY <1>1, <2>2, ReachedStep DEF Arriving
  <2>3. CASE Handling
    BY <1>1, <2>3, HandlingStep DEF Moves, Arriving
  <2> QED
    BY <1>1, <2>1, <2>2, <2>3
<1>4. Decoded' /\ ins' # None'
  BY <1>1, <1>2 DEF Decoded, HasAddress, Handled, None
<1> QED
  BY <1>2, <1>3, <1>4 DEF IInv

LEMMA InvariantStep ==
  ASSUME IInv, Next
  PROVE  IInv'
<1>1. CASE Begin \/ Enter
  BY <1>1, BeginHolds
<1>2. CASE End
  <2>1. asserted' = {}
    BY <1>2 DEF End, Over, Free, IInv, Asserts
  <2> QED
    BY <1>2, <2>1, ForgetHolds DEF End
<1>3. CASE Fail
  BY <1>3, ForgetHolds DEF Fail
<1>4. CASE Working /\ ~Fail
  <2>1. ahead # <<>>
    BY <1>4 DEF Working, Idle, Step, Leave, FetchOffset, FetchLow, FetchHigh, FetchBank,
                PointerLow, PointerHigh, PointerBank, Operand, Settle, Push, Pull, Pulled,
                Vector, VectorHigh, JumpLow, JumpHigh, JumpBank, Branch, Doing
  <2> QED
    BY <1>4, <2>1, WorkingHolds
<1> QED
  BY <1>1, <1>2, <1>3, <1>4, NextIs

\* Nothing changes.
LEMMA InvariantStutter ==
  ASSUME IInv, UNCHANGED vars
  PROVE  IInv'
<1>1. /\ reach' = reach /\ ins' = ins /\ ahead' = ahead /\ mem' = mem /\ first' = first
      /\ pc' = pc /\ pb' = pb /\ s' = s /\ low' = low /\ base' = base /\ point' = point
      /\ addr' = addr /\ asserted' = asserted /\ bus' = bus /\ cycles' = cycles
  BY DEF vars, memory, forming
<1>2. TypeOK' /\ (ins' = None' => Resting') /\ Asserts'
  BY <1>1 DEF IInv, TypeOK, Resting, Asserts, None
<1>3. Decoded => Decoded'
  BY <1>1 DEF Decoded, HasAddress, Handled
<1>4. (Unwritten => Unwritten') /\ (HasAddress => HasAddress') /\ (Handled => Handled')
  BY <1>1 DEF Unwritten, HasAddress, Handled
<1>5. Forming => Forming'
  BY <1>1, <1>4 DEF Forming, Basic, Use, unaligned, ToOffset, ToPlace, ToPointerHigh,
     ToPointerBank, ToLow, ToHigh, ToBank, IsFound, Own, Found, FoundWord, Cell, Aim, Beyond,
     pointer_wraps, OfDirectPage, page_wraps, Pointed, Byte3, Behind
<1>6. Reached => Reached'
  <2>1. Aim' = Aim /\ Beyond' = Beyond
    BY <1>1 DEF Aim, Beyond, Own, Found, Cell, pointer_wraps, OfDirectPage, page_wraps
  <2>2. AllFound => AllFound'
    BY <1>1, <2>1 DEF AllFound, IsFound, Own, Cell
  <2>3. Unindexed' = Unindexed
    BY <1>1 DEF Unindexed, Pointed, Byte3, Own, Found, FoundWord, Cell, OfDirectPage, page_wraps
  <2>4. Named' = Named
    BY <1>1, <2>3 DEF Named, Pointed, Byte3, Own, Found, FoundWord, Cell, OfDirectPage, page_wraps
  <2>5. (Partway => Partway') /\ Use' = Use /\ Indexing' = Indexing /\ Basic' = Basic
    BY <1>1, <2>3 DEF Partway, Use, Indexing, Basic, unaligned
  <2> QED
    BY <1>1, <1>4, <2>2, <2>3, <2>4, <2>5 DEF Reached, Behind
<1>7. BusTells'
  <2>1. Named' = Named
    BY <1>1 DEF Named, Unindexed, Own, Found, FoundWord, Cell, OfDirectPage, page_wraps,
       Pointed, Byte3
  <2>2. Beside(Named)' = Beside(Named)
    BY <1>1, <2>1 DEF Beside
  <2>3. DOMAIN DataAt = AtData /\ (DOMAIN DataAt)' = AtData
    BY DEF DataAt, AtData
  <2>4. OutputsTell'
    BY <1>1, <2>3 DEF IInv, BusTells, OutputsTell
  <2>5. Addressing' = Addressing /\ Cell(Named)' = Cell(Named)
        /\ Cell(Beside(Named))' = Cell(Beside(Named))
    BY <1>1, <2>1, <2>2 DEF Addressing, Cell
  <2>6. DataIsNamed'
    BY <1>1, <2>3, <2>5 DEF IInv, BusTells, DataIsNamed
  <2> QED
    BY <1>1, <1>6, <2>3, <2>4, <2>6 DEF IInv, BusTells
<1>8. Plain => Plain'
  BY <1>1 DEF Plain, Behind, operand_size
<1>9. Branching => Branching'
  BY <1>1, <1>4 DEF Branching, Row, Behind, IsFound, Own, Found, Cell, Target, branch_target,
     Crossing, After, operand_size
<1>10. Jumping => Jumping'
  BY <1>1, <1>4 DEF Jumping, Row, Behind, LowFound, WordFound, IsFound, Own, Found, FoundWord,
     Cell, branch_target, After, operand_size, At
<1>11. Indirecting => Indirecting'
  BY <1>1, <1>4 DEF Indirecting, Row, Behind, LowFound, WordFound, IsFound, IsKnown, Own, Found,
     FoundWord, Cell, Indexed, At
<1>12. JsrRows => JsrRows'
  BY <1>1, <1>4, SMTT(30)
     DEF JsrRows, Row, Behind, LowFound, WordFound, IsFound, Own, Found, FoundWord,
     Cell, Tops, Below, Settled, Around, InPageOne, Laid, Down, Return, Calls, After, operand_size
<1>13. JslRows => JslRows'
  BY <1>1, <1>4, ZenonT(40) DEF JslRows, Row, Behind, LowFound, WordFound, IsFound, Own, Found, FoundWord,
     Cell, Tops, Below, Settled, Around, InPageOne, Laid, Down, Return, Calls, After, operand_size
<1>14. JsrIndirectRows => JsrIndirectRows'
  BY <1>1, <1>4, ZenonT(40) DEF JsrIndirectRows, Row, Behind, LowFound, HighKnown, Through,
     Called, IsFound, IsKnown, Own, Found, Cell, Tops, Below, Settled, Around, InPageOne, Laid, Down, Return,
     Calls, After, operand_size, At
<1>15. Returning => Returning'
  <2>1. Tops' = Tops
    BY <1>1 DEF Tops
  <2>2. \A p, n : Up(p, n)' = Up(p, n) /\ Above(p, n)' = Above(p, n)
                  /\ Settled(p, n)' = Settled(p, n)
    BY <1>1 DEF Above, Settled, Around, InPageOne, Up, Cell
  <2> QED
    BY <1>1, <2>1, <2>2, SMTT(30) DEF Returning, Row, Behind, Drawn, WordDrawn
<1>16. Interrupting => Interrupting'
  <2>1. Tops' = Tops
    BY <1>1 DEF Tops
  <2>2. Resumes' = Resumes /\ Native' = Native
    BY <1>1 DEF Resumes, Native, After, operand_size
  <2>3. ASSUME NEW p, BankLaid(p) PROVE BankLaid(p)'
    BY <1>1, <2>3 DEF BankLaid, Laid, Down, Around, InPageOne, Cell
  <2>4. ASSUME NEW p, NEW n, Entering(p, n) PROVE Entering(p, n)'
    BY <1>1, <2>2, <2>4 DEF Entering, Below, Settled, Return, Laid, Down, Around, InPageOne,
       IsKnown, Cell, At
  <2> QED
    BY <1>1, <2>1, <2>2, <2>3, <2>4 DEF Interrupting, Row, Behind
<1>17. Handling => Handling'
  <2>1. Cost' = Cost
    BY <1>1 DEF Cost, unaligned
  <2> QED
    BY <1>1, <1>4, <1>8, <1>9, <1>10, <1>11, <1>12, <1>13, <1>14, <1>15, <1>16, <2>1 DEF Handling
<1>18. None' = None
  BY DEF None
<1> QED
  BY <1>1, <1>2, <1>3, <1>5, <1>6, <1>7, <1>17, <1>18 DEF IInv, Arriving

-----------------------------------------------------------------------------
(* When an instruction is over.                                            *)

\* A read takes its opcode, the way there and a cycle.
LEMMA ModesTake ==
  ASSUME NEW m \in DOMAIN effective
  PROVE  Reading[m] = 2 + Len(effective[m]) /\ Len(effective[m]) \in Nat
<1>1. /\ \A a : Len(<<a>>) = 1
      /\ \A a, b : Len(<<a, b>>) = 2
      /\ \A a, b, c : Len(<<a, b, c>>) = 3
      /\ \A a, b, c, d : Len(<<a, b, c, d>>) = 4
      /\ \A a, b, c, d, e : Len(<<a, b, c, d, e>>) = 5
  OBVIOUS
<1>2. m \in DOMAIN effective
  OBVIOUS
<1>3. CASE m = "direct"
  <2>1. effective[m] = <<"offset">>
    BY <1>3 DEF effective
  <2>2. Reading[m] = 3
    BY <1>3 DEF Reading
  <2> QED
    BY <1>1, <2>1, <2>2
<1>4. CASE m \in {"directX", "absolute", "absoluteX", "stack"}
  <2>1. \/ effective[m] = <<"offset", "here">>
       \/ effective[m] = <<"low", "high">>
    BY <1>4 DEF effective
  <2>2. Reading[m] = 4
    BY <1>4 DEF Reading
  <2>3. Len(effective[m]) = 2
    BY <1>1, <2>1, Zenon
  <2> QED
    BY <2>2, <2>3
<1>5. CASE m \in {"absoluteLong", "absoluteLongX", "indirect", "indirectIndexedY"}
  <2>1. \/ effective[m] = <<"low", "high", "bank">>
       \/ effective[m] = <<"offset", "pointer", "pointerHigh">>
    BY <1>5 DEF effective
  <2>2. Reading[m] = 5
    BY <1>5 DEF Reading
  <2>3. Len(effective[m]) = 3
    BY <1>1, <2>1, Zenon
  <2> QED
    BY <2>2, <2>3
<1>6. CASE m \in {"indexedIndirectX", "indirectLong", "indirectLongY"}
  <2>1. \/ effective[m] = <<"offset", "here", "pointer", "pointerHigh">>
       \/ effective[m] = <<"offset", "pointer", "pointerHigh", "pointerBank">>
    BY <1>6 DEF effective
  <2>2. Reading[m] = 6
    BY <1>6 DEF Reading
  <2>3. Len(effective[m]) = 4
    BY <1>1, <2>1, Zenon
  <2> QED
    BY <2>2, <2>3
<1>7. CASE m = "stackIndirect"
  <2>1. effective[m] = <<"offset", "here", "pointer", "pointerHigh", "pointerIdle">>
    BY <1>7 DEF effective
  <2>2. Reading[m] = 7
    BY <1>7 DEF Reading
  <2> QED
    BY <1>1, <2>1, <2>2
<1> QED
  BY <1>2, <1>3, <1>4, <1>5, <1>6, <1>7 DEF effective

\* What a mode costs is what its way and its work come to.
LEMMA ModesCost ==
  ASSUME HasAddress, Decoded
  PROVE  Basic + One(Indexing) = Printed + One(ins.mode \in ZeroModes /\ Low(ins.d) # 0)
<1>1. Reading[ins.mode] = 2 + Len(effective[ins.mode]) /\ Len(effective[ins.mode]) \in Nat
  <2>1. ins.mode \in DOMAIN effective
    BY DEF HasAddress, Modes, effective
  <2> QED
    BY <2>1, ModesTake
<1>2. Len(Use) = 1 + IF ins.kind = "modify" THEN 2 + 2 * One(ins.wide) ELSE One(ins.wide)
  BY Uses DEF One
<1>3. Len(unaligned(ins)) = One(ins.mode \in ZeroModes /\ Low(ins.d) # 0)
  BY DEF unaligned, One
<1>4. \A c : One(c) \in {0, 1}
  BY DEF One
<1>5. Addressing
  BY DEF HasAddress, Addressing
<1> DEFINE n == Len(effective[ins.mode])
           u == IF ins.kind = "modify" THEN 2 + 2 * One(ins.wide) ELSE One(ins.wide)
           z == One(ins.mode \in ZeroModes /\ Low(ins.d) # 0)
           x == One(Indexing)
<1>6. Basic = 1 + n + z + (1 + u) /\ Printed = (2 + n) + x + u
  BY <1>1, <1>2, <1>3, <1>5 DEF Basic, Printed
<1>7. n \in Nat /\ u \in Nat /\ z \in Nat /\ x \in Nat
  <2>1. One(ins.wide) \in Nat /\ z \in Nat /\ x \in Nat
    BY <1>4
  <2> QED
    BY <1>1, <2>1
<1> HIDE DEF n, u, z, x
<1>8. Basic + x = Printed + z
  BY <1>6, <1>7
<1> QED
  BY <1>8 DEF x, z

\* The cycles add up when nothing is ahead.
LEMMA OverCycles ==
  ASSUME IInv, Over
  PROVE  CyclesAsPrinted
<1>1. /\ TypeOK /\ Decoded /\ ahead = <<>> /\ cycles \in Nat
      /\ Forming \/ Reached \/ Handling
  BY Numbers DEF IInv, Over, Arriving
<1>2. ~Forming
  BY <1>1, FormingHead
<1>3. Len(ahead) = 0 /\ cycles + 0 = cycles
  BY <1>1
<1>4. CASE Reached
  <2>1. HasAddress /\ ins.kind # "branch"
    BY <1>4 DEF Reached, HasAddress, Modes
  <2>2. cycles = Basic + One(Indexing)
    BY <1>3, <1>4 DEF Reached
  <2> QED
    BY <1>1, <2>1, <2>2, ModesCost DEF CyclesAsPrinted
<1>5. CASE Handling /\ ins.kind = "branch"
  <2>1. Handled /\ Branching
    BY <1>5 DEF Handling, Plain, PlainKinds, Jumping, Indirecting, JsrRows, JslRows,
                JsrIndirectRows, Returning, Interrupting
  <2>2. After = Plus(ins.at % BB, 2)
    <3>1. ins.mode = "relative"
      BY <1>5, <2>1 DEF Handled, ModeOf
    <3>2. operand_size = 1
      BY <1>5, <3>1 DEF operand_size, MODE_SIZE
    <3> QED
      BY <3>2 DEF After
  <2>3. \/ pc = Plus(ins.at % BB, 2) /\ cycles = 2
        \/ pc = Target /\ cycles = 3 + One(Crossing)
    BY <1>1, <2>1 DEF Branching, Row, Behind
  <2>4. CASE pc = Plus(ins.at % BB, 2) /\ cycles = 2
    BY <1>5, <2>2, <2>4 DEF CyclesAsPrinted, Untaken
  <2>5. CASE pc = Target /\ cycles = 3 + One(Crossing)
    <3>1. 2 + 1 = 3
      OBVIOUS
    <3>2. One(Crossing) = One(ins.e /\ High(pc) # High(After))
      BY <2>5 DEF Crossing, One
    <3> QED
      BY <1>5, <2>5, <3>1, <3>2 DEF CyclesAsPrinted, Untaken
  <2> QED
    BY <2>3, <2>4, <2>5
<1>6. CASE Handling /\ ins.kind # "branch"
  <2>1. Handled /\ ~Addressing
    BY <1>6, HandledIs DEF Handling
  <2>2. cycles = Cost
    BY <1>3, <1>6 DEF Handling
  <2>3. ASSUME ins.kind # "interrupt"
        PROVE  Cost = Printed + One(ins.mode \in ZeroModes /\ Low(ins.d) # 0)
    <3>1. Len(unaligned(ins)) = One(ins.mode \in ZeroModes /\ Low(ins.d) # 0)
      BY DEF unaligned, One
    <3>2. \A c : One(c) \in {0, 1}
      BY DEF One
    <3>3. Other[ins.kind] \in Nat /\ Takes[ins.kind] = Other[ins.kind]
      <4>1. ins.kind \in DOMAIN Other
        BY <1>6, <2>1, <2>3 DEF Handled, Handlers, Other
      <4>2. \A k \in DOMAIN Other : Other[k] \in Nat
        BY DEF Other
      <4>3. \A k \in DOMAIN Other : Takes[k] = Other[k]
        BY DEF Other, Takes
      <4> QED
        BY <4>1, <4>2, <4>3
    <3> DEFINE o == Other[ins.kind]
               w == One(ins.wide)
               z == One(ins.mode \in ZeroModes /\ Low(ins.d) # 0)
               m == One(ins.e /\ ins.kind \in {"rti", "brk"})
    <3>4. Cost = o + w + z - m /\ Printed = o + w - m
      <4>1. (ins.e /\ ins.kind \in {"rti", "brk", "interrupt"}) = (ins.e /\ ins.kind \in {"rti", "brk"})
        BY <2>3
      <4> QED
        BY <2>1, <3>1, <3>3, <4>1 DEF Cost, Printed
    <3>5. o \in Nat /\ w \in Nat /\ z \in Nat /\ m \in Nat
      BY <3>2, <3>3
    <3> HIDE DEF o, w, z, m
    <3>6. Cost = Printed + z
      BY <3>4, <3>5
    <3> QED
      BY <3>6 DEF z
  <2> QED
    BY <1>6, <2>2, <2>3 DEF CyclesAsPrinted
<1> QED
  BY <1>1, <1>2, <1>4, <1>5, <1>6

\* Where the stack pointer came from.
LEMMA TopIs ==
  ASSUME TypeOK, NEW p \in Tops, NEW m \in Int, NEW t \in Int, m + t = 0, Settled(p, m)
  PROVE  (IF ins.e THEN Word((Low(s) + t) % B, 1) ELSE Plus(s, t)) = p
<1>1. p \in Wide /\ p \in Int /\ (ins.e => p = Word(Low(p), 1))
  BY AtTop DEF Tops
<1>2. CASE ins.e
  <2>1. B \in Nat \ {0} /\ 1 \in Byte
    <3>1. B >= 3 /\ B \in Nat
      BY Sizes
    <3> QED
      BY <3>1 DEF Byte
  <2>2. Plus(p, m) \in Int
    <3>1. Plus(p, m) \in Wide /\ (\A w \in Wide : w \in Int)
      BY <1>1, PlusWide, Sizes
    <3> QED
      BY <3>1, Zenon
  <2>3. Low(s) = Low(Plus(p, m))
    <3>1. Low(Plus(p, m)) \in Byte
      BY <2>2, ByteOf
    <3> QED
      BY <1>2, <2>1, <3>1, WordOfBytes DEF Settled, InPageOne
  <2>4. Low(s) = ((p + m) % B)
    BY <1>1, <2>3, LowPlus
  <2>5. ((((p + m) % B) + t) % B) = (((p + m) + t) % B)
    <3>1. p + m \in Int
      BY <1>1
    <3> QED
      BY <2>1, <3>1, RemainderPlus
  <2>6. (p + m) + t = p
    BY <1>1
  <2>7. ((Low(s) + t) % B) = Low(p)
    BY <2>4, <2>5, <2>6 DEF Low
  <2> QED
    BY <1>1, <1>2, <2>7
<1>3. CASE ~ins.e
  <2>1. s = Plus(p, m)
    BY <1>3 DEF Settled, InPageOne
  <2>2. Plus(Plus(p, m), t) = Plus(p, m + t)
    BY <1>1, PlusPlus
  <2>3. Plus(p, 0) = p
    BY <1>1, PlusNothing
  <2> QED
    BY <1>3, <2>1, <2>2, <2>3
<1> QED
  BY <1>2, <1>3

\* A byte pushed is where it was laid, and one pulled where it was drawn.
LEMMA PushedIs ==
  ASSUME TypeOK, NEW p \in Tops, NEW t \in Int, NEW n \in Int, Settled(p, 0 - t)
  PROVE  Pushed(t, n) = mem[Down(p, n)]
<1>1. 0 - t \in Int /\ (0 - t) + t = 0
  OBVIOUS
<1>2. (IF ins.e THEN Word((Low(s) + t) % B, 1) ELSE Plus(s, t)) = p
  BY <1>1, TopIs
<1> QED
  BY <1>2 DEF Pushed, Down, Around

LEMMA PulledIs ==
  ASSUME TypeOK, NEW p \in Tops, NEW t \in Int, NEW n \in Int, Settled(p, t)
  PROVE  PulledByte(t, n) = mem[Up(p, n)]
<1>1. 0 - t \in Int /\ t + (0 - t) = 0
  OBVIOUS
<1>2. (IF ins.e THEN Word((Low(s) + (0 - t)) % B, 1) ELSE Plus(s, 0 - t)) = p
  BY <1>1, TopIs
<1>3. Low(s) + (0 - t) = Low(s) - t
  <2>1. s \in Int
    BY Numbers
  <2>2. Low(s) \in Int
    BY <2>1, ByteOf, Sizes
  <2> QED
    BY <2>2
<1> QED
  BY <1>2, <1>3 DEF PulledByte, Up, Around

\* So a word laid is the one pushed, and a word drawn the one pulled.
LEMMA WordPushed ==
  ASSUME TypeOK, NEW p \in Tops, NEW t \in Int, NEW n \in Int, NEW w \in Wide,
         Settled(p, 0 - t), Return(p, n, w)
  PROVE  PushedPc(t, n) = w
<1>1. Pushed(t, n) = mem[Down(p, n)] /\ Pushed(t, n + 1) = mem[Down(p, n + 1)]
  <2>1. n + 1 \in Int
    OBVIOUS
  <2> QED
    BY <2>1, PushedIs
<1>2. mem[Down(p, n)] = High(w) /\ mem[Down(p, n + 1)] = Low(w)
  BY DEF Return, Laid
<1> QED
  BY <1>1, <1>2, BytesOfWord DEF PushedPc

LEMMA WordPulled ==
  ASSUME TypeOK, NEW p \in Tops, NEW t \in Int, NEW n \in Int, NEW w \in Wide,
         Settled(p, t), WordDrawn(p, n, w)
  PROVE  Word(PulledByte(t, n), PulledByte(t, n + 1)) = w
<1>1. PulledByte(t, n) = mem[Up(p, n)] /\ PulledByte(t, n + 1) = mem[Up(p, n + 1)]
  <2>1. n + 1 \in Int
    OBVIOUS
  <2> QED
    BY <2>1, PulledIs
<1>2. mem[Up(p, n)] = Low(w) /\ mem[Up(p, n + 1)] = High(w)
  BY DEF WordDrawn, Drawn
<1> QED
  BY <1>1, <1>2, BytesOfWord

\* The instructions that go on have gone on to the next.
LEMMA OverPlain ==
  ASSUME TypeOK, ahead = <<>>, (Reached \/ (Handled /\ Plain))
  PROVE  ArrivesWhereDecoded
<1> DEFINE goers == {"branch", "brl", "jmp", "jml", "jmpIndirect", "jmlIndirect", "jmpIndirectX",
                     "jsrIndirectX", "jsr", "jsl", "rts", "rtl", "rti", "brk", "interrupt"}
<1>1. ins.kind \notin goers
  BY DEF Reached, HasAddress, Modes, Plain, PlainKinds
<1>2. pc = After /\ pb = Bank(ins.at)
  <2>1. CASE Reached
    <3>1. operand_size = MODE_SIZE[ins.mode]
      BY <2>1 DEF Reached, HasAddress, Modes, operand_size
    <3> QED
      BY <2>1, <3>1 DEF Reached, Behind, After
  <2>2. CASE Handled /\ Plain
    <3>1. Bytes(ahead) = 0
      BY DEF Bytes
    <3>2. operand_size \in Int
      BY <2>2, AfterWide
    <3>3. 1 + operand_size - 0 = 1 + operand_size
      BY <3>2
    <3> QED
      BY <2>2, <3>1, <3>3 DEF Plain, Behind, After
  <2> QED
    BY <2>1, <2>2
<1> QED
  BY <1>1, <1>2 DEF ArrivesWhereDecoded

\* A branch is where it goes, or has gone on.
LEMMA OverBranch ==
  ASSUME TypeOK, Handled, ahead = <<>>, Branching
  PROVE  ArrivesWhereDecoded
<1>1. ins.kind = "branch"
  BY DEF Branching
<1>2. After = Plus(ins.at % BB, 2)
  <2>1. ins.mode = "relative"
    BY <1>1 DEF Handled, ModeOf
  <2>2. operand_size = 1
    BY <1>1, <2>1 DEF operand_size, MODE_SIZE
  <2> QED
    BY <2>2 DEF After
<1>3. /\ pb = Bank(ins.at)
      /\ \/ pc = Plus(ins.at % BB, 2) /\ cycles = 2
         \/ pc = Target /\ cycles = 3 + One(Crossing)
  BY DEF Branching, Row, Behind
<1>4. 3 + One(Crossing) # 2
  BY DEF One
<1>5. pc = IF cycles = Untaken THEN After ELSE branch_target(Found(1), B)
  BY <1>2, <1>3, <1>4 DEF Untaken, Target
<1> QED
  BY <1>1, <1>3, <1>5 DEF ArrivesWhereDecoded

\* A jump is where it names.
LEMMA OverJump ==
  ASSUME TypeOK, ahead = <<>>, Jumping \/ Indirecting
  PROVE  ArrivesWhereDecoded
<1>1. \/ /\ ins.kind = "brl" /\ pc = branch_target(FoundWord, BB) /\ pb = Bank(ins.at)
      \/ ins.kind = "jmp" /\ At(Own(1), Own(2), Bank(ins.at))
      \/ ins.kind = "jml" /\ At(Own(1), Own(2), Found(3))
      \/ ins.kind = "jmpIndirect" /\ At(FoundWord, Plus(FoundWord, 1), Bank(ins.at))
      \/ /\ ins.kind = "jmlIndirect"
         /\ At(FoundWord, Plus(FoundWord, 1), mem[Cell(Plus(FoundWord, 2))])
      \/ /\ ins.kind = "jmpIndirectX" /\ Unwritten /\ WordFound
         /\ At(Indexed, InBank(Indexed, 1), Bank(ins.at))
  BY DEF Jumping, Indirecting, Row
<1>2. CASE ins.kind = "brl"
  BY <1>1, <1>2 DEF ArrivesWhereDecoded
<1>3. CASE ins.kind = "jmp"
  BY <1>1, <1>3 DEF ArrivesWhereDecoded
<1>4. CASE ins.kind = "jml"
  BY <1>1, <1>4 DEF ArrivesWhereDecoded
<1>5. CASE ins.kind = "jmpIndirect"
  BY <1>1, <1>5 DEF ArrivesWhereDecoded
<1>6. CASE ins.kind = "jmlIndirect"
  BY <1>1, <1>6 DEF ArrivesWhereDecoded
<1>7. CASE ins.kind = "jmpIndirectX"
  <2>1. mem[Cell(Own(2))] = Found(2)
    BY <1>1, <1>7, FoundKnown DEF WordFound, Found
  <2>2. Indexed = Long(Bank(ins.at), Plus(Word(Found(1), mem[Cell(Own(2))]), ins.index))
    BY <2>1 DEF Indexed, FoundWord
  <2> QED
    BY <1>1, <1>7, <2>2 DEF ArrivesWhereDecoded
<1> QED
  BY <1>1, <1>2, <1>3, <1>4, <1>5, <1>6, <1>7

\* A call is where it names, and has pushed where it returns to.
LEMMA OverCall ==
  ASSUME TypeOK, Handled, ahead = <<>>, JsrRows \/ JslRows \/ JsrIndirectRows
  PROVE  ArrivesWhereDecoded
<1>1. Calls \in Wide
  BY CallsAre
<1>2. CASE JsrRows
  <2>1. PICK p \in Tops : /\ WordFound /\ pc = base /\ pb = Bank(ins.at)
                          /\ Settled(p, 0 - 2) /\ Return(p, 0, Calls)
    BY <1>2 DEF JsrRows, Row
  <2>2. PushedPc(2, 0) = Calls
    BY <1>1, <2>1, WordPushed
  <2>3. ins.kind = "jsr"
    BY <1>2 DEF JsrRows
  <2> QED
    BY <2>1, <2>2, <2>3 DEF ArrivesWhereDecoded, WordFound, Calls
<1>3. CASE JslRows
  <2>1. PICK p \in Tops : /\ WordFound /\ pc = base /\ Settled(p, 0 - 3) /\ Return(p, 1, Calls)
                          /\ IsFound(Own(3)) => pb = Found(3)
    BY <1>3 DEF JslRows, Row
  <2>2. PushedPc(3, 1) = Calls
    BY <1>1, <2>1, WordPushed
  <2>3. ins.kind = "jsl"
    BY <1>3 DEF JslRows
  <2> QED
    BY <2>1, <2>2, <2>3 DEF ArrivesWhereDecoded, WordFound, Calls, IsFound
<1>4. CASE JsrIndirectRows
  <2>1. PICK p \in Tops : Called(p) /\ At(Through, InBank(Through, 1), Bank(ins.at))
    BY <1>4 DEF JsrIndirectRows, Row
  <2>2. PushedPc(2, 0) = Calls
    BY <1>1, <2>1, WordPushed DEF Called
  <2>3. ins.kind = "jsrIndirectX"
    BY <1>4 DEF JsrIndirectRows
  <2> QED
    BY <2>1, <2>2, <2>3 DEF ArrivesWhereDecoded, Through, Calls
<1> QED
  BY <1>2, <1>3, <1>4

\* A return is where it pulled.
LEMMA OverReturn ==
  ASSUME TypeOK, ahead = <<>>, Returning
  PROVE  ArrivesWhereDecoded
<1>1. pc \in Wide /\ base \in Wide
  BY Numbers
<1>2. PICK p \in Tops :
         \/ /\ ins.kind = "rts" /\ Settled(p, 2) /\ pb = Bank(ins.at) /\ pc = Plus(base, 1)
            /\ WordDrawn(p, 1, base)
         \/ /\ ins.kind = "rtl" /\ Settled(p, 3) /\ Drawn(p, 3, pb) /\ pc = Plus(base, 1)
            /\ WordDrawn(p, 1, base)
         \/ /\ ins.kind = "rti" /\ ins.e /\ Settled(p, 3) /\ pb = Bank(ins.at)
            /\ WordDrawn(p, 2, pc)
         \/ /\ ins.kind = "rti" /\ ~ins.e /\ Settled(p, 4) /\ Drawn(p, 4, pb)
            /\ WordDrawn(p, 2, pc)
  BY DEF Returning, Row
<1>3. CASE ins.kind = "rts"
  <2>1. Word(PulledByte(2, 1), PulledByte(2, 1 + 1)) = base
    BY <1>1, <1>2, <1>3, WordPulled
  <2>2. 1 + 1 = 2
    OBVIOUS
  <2> QED
    BY <1>2, <1>3, <2>1, <2>2 DEF ArrivesWhereDecoded
<1>4. CASE ins.kind = "rtl"
  <2>1. Word(PulledByte(3, 1), PulledByte(3, 1 + 1)) = base
    BY <1>1, <1>2, <1>4, WordPulled
  <2>2. 1 + 1 = 2
    OBVIOUS
  <2>3. PulledByte(3, 3) = pb
    BY <1>2, <1>4, PulledIs DEF Drawn
  <2> QED
    BY <1>2, <1>4, <2>1, <2>2, <2>3 DEF ArrivesWhereDecoded
<1>5. CASE ins.kind = "rti" /\ ins.e
  <2>1. Word(PulledByte(3, 2), PulledByte(3, 2 + 1)) = pc
    BY <1>1, <1>2, <1>5, WordPulled
  <2>2. 2 + 1 = 3 /\ 3 + 0 = 3
    OBVIOUS
  <2> QED
    BY <1>2, <1>5, <2>1, <2>2 DEF ArrivesWhereDecoded
<1>6. CASE ins.kind = "rti" /\ ~ins.e
  <2>1. Word(PulledByte(4, 2), PulledByte(4, 2 + 1)) = pc
    BY <1>1, <1>2, <1>6, WordPulled
  <2>2. 2 + 1 = 3 /\ 3 + 1 = 4
    OBVIOUS
  <2>3. PulledByte(4, 4) = pb
    BY <1>2, <1>6, PulledIs DEF Drawn
  <2> QED
    BY <1>2, <1>6, <2>1, <2>2, <2>3 DEF ArrivesWhereDecoded
<1> QED
  BY <1>2, <1>3, <1>4, <1>5, <1>6

\* An interrupt, or BRK, is where a vector points, and has pushed where it came from.
LEMMA OverEntry ==
  ASSUME TypeOK, Handled, ahead = <<>>, Interrupting
  PROVE  ArrivesWhereDecoded
<1>1. Resumes \in Wide /\ ins.kind \in {"brk", "interrupt"}
  BY ResumesIs DEF Interrupting
<1>2. PICK p \in Tops : BankLaid(p) /\ \E n \in {0, 1} : n = Native /\ Entering(p, n)
  BY DEF Interrupting, Row
<1>3. PICK n \in {0, 1} : n = Native /\ Entering(p, n)
  BY <1>2
<1>4. /\ Settled(p, 0 - (n + 3)) /\ Return(p, n, Resumes)
      /\ \E at \in Vectors : At(at, at + 1, 0)
  BY <1>3 DEF Entering
<1> DEFINE t == 3 + n
<1>5. t \in Int /\ n + 3 = t /\ n \in Int
  OBVIOUS
<1> HIDE DEF t
<1>6. PushedPc(t, n) = Resumes
  BY <1>1, <1>4, <1>5, WordPushed
<1>7. ~ins.e => Pushed(t, 0) = Bank(ins.at)
  BY <1>2, <1>4, <1>5, PushedIs DEF BankLaid, Laid
<1>8. PushedPc(t, n) = IF ins.kind = "brk" THEN After ELSE ins.at % BB
  BY <1>6 DEF Resumes
<1>9. n = IF ins.e THEN 0 ELSE 1
  BY <1>3 DEF Native
<1>10. t = 3 + IF ins.e THEN 0 ELSE 1
  BY <1>9 DEF t
<1>11. CASE ins.kind = "brk"
  BY <1>4, <1>7, <1>8, <1>9, <1>10, <1>11 DEF ArrivesWhereDecoded
<1>12. CASE ins.kind = "interrupt"
  BY <1>4, <1>7, <1>8, <1>9, <1>10, <1>12 DEF ArrivesWhereDecoded
<1> QED
  BY <1>1, <1>11, <1>12

LEMMA OverArrives ==
  ASSUME IInv, Over
  PROVE  ArrivesWhereDecoded
<1>1. /\ TypeOK /\ ahead = <<>>
      /\ Forming \/ Reached \/ Handling
  BY DEF IInv, Over, Arriving
<1>2. ~Forming
  BY <1>1, FormingHead
<1> QED
  BY <1>1, <1>2, OverPlain, OverBranch, OverJump, OverCall, OverReturn, OverEntry DEF Handling

\* A byte of page one that stays in it is where it would be without a page.
LEMMA Within ==
  ASSUME TypeOK, NEW l \in Byte, NEW k \in Int, l + k \in Byte
  PROVE  InPageOne(Plus(Word(l, 1), k)) = Plus(Word(l, 1), k)
<1>1. 1 \in Byte /\ B \in Nat /\ l \in Int
  <2>1. B >= 3 /\ B \in Nat
    BY Sizes
  <2> QED
    BY <2>1 DEF Byte
<1>2. Word(l + k, 1) \in Wide /\ Low(Word(l + k, 1)) = l + k
  BY <1>1, WordOfBytes
<1>3. Word(l, 1) + k = Word(l + k, 1)
  BY <1>1 DEF Word
<1>4. Plus(Word(l, 1), k) = Word(l + k, 1)
  <2> DEFINE bb == BB
             w == Word(l + k, 1)
  <2>1. bb \in Nat \ {0} /\ w \in 0..(bb - 1)
    BY <1>2, Sizes DEF Wide
  <2> HIDE DEF w, bb
  <2>2. (w % bb) = w
    BY <2>1, RemainderSelf
  <2> QED
    BY <1>3, <2>2 DEF w, bb, Plus
<1> QED
  BY <1>2, <1>4 DEF InPageOne

\* What was laid n down from the top is found t - n up from where the pointer was
\* left, unless one of the two went off page one.
LEMMA FoundBack ==
  ASSUME TypeOK, NEW by, NEW p \in Tops, NEW t \in 2..4, NEW n \in Nat, n < t,
         t = Pulls(by), Settled(p, 0 - t), ~OffPageOne(by)
  PROVE  Back(by, t - n) = Down(p, n)
<1> DEFINE a == 0 - t
           k == t - n
           d == 0 - n
<1>1. a \in Int /\ k \in Int /\ d \in Int /\ a + k = d /\ a + t = 0 /\ t \in Int
      /\ 0 <= k /\ k <= t /\ 0 - d <= t - 1 /\ d <= 0
  OBVIOUS
<1> HIDE DEF a, k, d
<1>2. p \in Wide /\ p \in Int /\ (ins.e => p = Word(Low(p), 1)) /\ s \in Int
  BY AtTop, Numbers DEF Tops
<1>3. s = InPageOne(Plus(p, a))
  BY DEF Settled, a
<1>4. InPageOne(Plus(s, k)) = InPageOne(Plus(p, d))
  <2>1. Plus(p, a) \in Int
    <3>1. Plus(p, a) \in Wide /\ (\A w \in Wide : w \in Int)
      BY <1>1, <1>2, PlusWide, Sizes
    <3> QED
      BY <3>1, Zenon
  <2>2. InPageOne(Plus(InPageOne(Plus(p, a)), k)) = InPageOne(Plus(Plus(p, a), k))
    BY <1>1, <2>1, InPageOnePlus
  <2>3. Plus(Plus(p, a), k) = Plus(p, a + k)
    BY <1>1, <1>2, PlusPlus
  <2> QED
    BY <1>1, <1>3, <2>2, <2>3
<1>5. Low(p) \in Byte /\ Low(s) \in Byte /\ B \in Nat /\ Byte = 0..(B - 1)
  BY <1>2, ByteOf, Sizes DEF Byte
<1>6. ins.kind \in Flat => InPageOne(Plus(p, d)) = Plus(p, d)
  <2>1. CASE ins.e /\ ins.kind \in Flat
    <3>1. ((Low(s) + t) % B) = Low(p)
      <4>1. Settled(p, a)
        BY DEF a
      <4>2. Word((Low(s) + t) % B, 1) = p
        BY <1>1, <2>1, <4>1, TopIs
      <4>3. ((Low(s) + t) % B) \in Byte /\ 1 \in Byte
        <5> DEFINE u == Low(s) + t
        <5>1. u \in Int /\ B \in Nat \ {0} /\ B >= 3
          BY <1>1, <1>5, Sizes
        <5> HIDE DEF u
        <5>2. (u % B) \in 0..(B - 1)
          BY <5>1, Remainder
        <5> QED
          BY <1>5, <5>1, <5>2 DEF u
      <4> QED
        BY <4>2, <4>3, WordOfBytes
    <3>2. Low(p) >= t - 1
      <4>1. ~(Low(p) < t - 1)
        BY <2>1, <3>1 DEF OffPageOne
      <4> QED
        BY <1>1, <1>5, <4>1
    <3>3. Low(p) + d \in Byte
      <4> DEFINE l == Low(p)
      <4>1. l \in 0..(B - 1) /\ l >= t - 1
        BY <1>5, <3>2
      <4> HIDE DEF l
      <4>2. l + d \in 0..(B - 1)
        BY <1>1, <1>5, <4>1
      <4> QED
        BY <1>5, <4>2 DEF l
    <3>4. p = Word(Low(p), 1)
      BY <1>2, <2>1
    <3> QED
      BY <1>1, <1>5, <3>3, <3>4, Within
  <2>2. CASE ~ins.e
    BY <2>2 DEF InPageOne
  <2> QED
    BY <2>1, <2>2
<1>7. by \in Flat => InPageOne(Plus(s, k)) = Plus(s, k)
  <2>1. CASE ins.e /\ by \in Flat
    <3>1. ~(Low(s) + t >= B)
      BY <2>1 DEF OffPageOne
    <3>2. Low(s) + k \in Byte
      <4> DEFINE l == Low(s)
      <4>1. l \in 0..(B - 1) /\ ~(l + t >= B)
        BY <1>5, <3>1
      <4> HIDE DEF l
      <4>2. l + k \in 0..(B - 1)
        BY <1>1, <1>5, <4>1
      <4> QED
        BY <1>5, <4>2 DEF l
    <3>3. s = Word(Low(s), 1)
      <4>1. Low(Plus(p, a)) \in Byte /\ 1 \in Byte
        <5>1. Plus(p, a) \in Wide /\ B >= 3
          BY <1>1, <1>2, PlusWide, Sizes
        <5> QED
          BY <1>5, <5>1, BytesOfWord
      <4> QED
        BY <1>3, <2>1, <4>1, WordOfBytes DEF InPageOne
    <3> QED
      BY <1>1, <1>5, <3>2, <3>3, Within
  <2>2. CASE ~ins.e
    BY <2>2 DEF InPageOne
  <2> QED
    BY <2>1, <2>2
<1> QED
  BY <1>4, <1>6, <1>7 DEF Back, Down, Around, k, d

\* So the word laid is the one found, and what was laid above it is found above it.
LEMMA WordBack ==
  ASSUME TypeOK, NEW by, NEW p \in Tops, NEW t \in 2..4, NEW n \in {0, 1}, NEW status \in {0, 1},
         t = status + 2 + n, t = Pulls(by), Settled(p, 0 - t), ~OffPageOne(by),
         NEW w \in Wide, Return(p, n, w)
  PROVE  /\ {Back(by, status + 1), Back(by, status + 2)} \subseteq DOMAIN mem
         /\ Word(mem[Back(by, status + 1)], mem[Back(by, status + 2)]) = w
         /\ \A b : n = 1 /\ Laid(p, 0, b) =>
               Back(by, status + 3) \in DOMAIN mem /\ mem[Back(by, status + 3)] = b
<1>1. /\ n \in Nat /\ n + 1 \in Nat /\ n + 1 < t /\ n < t /\ 0 \in Nat /\ 0 < t
      /\ t - n = status + 2 /\ t - (n + 1) = status + 1 /\ (n = 1 => t - 0 = status + 3)
  OBVIOUS
<1>2. /\ Back(by, status + 2) = Down(p, n) /\ Back(by, status + 1) = Down(p, n + 1)
      /\ n = 1 => Back(by, status + 3) = Down(p, 0)
  <2>1. Back(by, t - n) = Down(p, n)
    BY <1>1, FoundBack
  <2>2. Back(by, t - (n + 1)) = Down(p, n + 1)
    BY <1>1, FoundBack
  <2>3. Back(by, t - 0) = Down(p, 0)
    BY <1>1, FoundBack
  <2> QED
    BY <1>1, <2>1, <2>2, <2>3
<1>3. Word(Low(w), High(w)) = w
  BY BytesOfWord
<1> QED
  BY <1>2, <1>3 DEF Return, Laid

\* A call, a BRK or an interrupt has left on the stack where its return comes back to.
LEMMA OverComesBack ==
  ASSUME IInv, Over
  PROVE  CallsComeBack
<1> DEFINE by == ReturnOf[ins.kind]
<1> SUFFICES ASSUME ins.kind \in DOMAIN ReturnOf, ~OffPageOne(by) PROVE CallsComeBack
  BY DEF CallsComeBack
<1>1. TypeOK /\ ahead = <<>> /\ Decoded /\ (Forming \/ Reached \/ Handling)
  BY DEF IInv, Over, Arriving
<1>2. Handled /\ ins.kind \in {"jsr", "jsrIndirectX", "jsl", "brk", "interrupt"}
      /\ (JsrRows \/ JslRows \/ JsrIndirectRows \/ Interrupting)
  <2>1. ins.kind \in {"jsr", "jsrIndirectX", "jsl", "brk", "interrupt"}
    BY DEF ReturnOf
  <2>2. ~Forming /\ ~Reached
    BY <1>1, <2>1, FormingHead DEF Reached, HasAddress, Modes
  <2> QED
    BY <1>1, <2>1, <2>2 DEF Handling, Plain, PlainKinds, Branching, Jumping, Indirecting, Returning
<1>3. Calls \in Wide /\ Resumes \in Wide
  BY <1>1, <1>2, CallsAre, ResumesIs
<1>4. Plus(Calls, 1) = After
  <2> DEFINE j == 0 - 1
  <2>1. j \in Int /\ -1 = j /\ j + 1 = 0
    OBVIOUS
  <2>2. After \in Wide /\ After \in Int
    BY <1>1, <1>2, AfterWide
  <2>3. Calls = Plus(After, j)
    BY <2>1 DEF Calls
  <2> HIDE DEF j
  <2>4. Plus(Plus(After, j), 1) = Plus(After, j + 1)
    BY <2>1, <2>2, PlusPlus
  <2> QED
    BY <2>1, <2>2, <2>3, <2>4, PlusNothing
<1>5. CASE JsrRows \/ JsrIndirectRows
  <2>1. ins.kind \in {"jsr", "jsrIndirectX"} /\ by = "rts" /\ Pulls(by) = 2
    BY <1>5 DEF JsrRows, JsrIndirectRows, ReturnOf, Pulls
  <2>2. PICK p \in Tops : Settled(p, 0 - 2) /\ Return(p, 0, Calls)
    BY <1>1, <1>5 DEF JsrRows, JsrIndirectRows, Row, Called
  <2>3. 2 = 0 + 2 + 0 /\ 2 \in 2..4 /\ 0 \in {0, 1} /\ 1 - 0 = 1
    OBVIOUS
  <2>4. /\ {Back(by, 0 + 1), Back(by, 0 + 2)} \subseteq DOMAIN mem
        /\ Word(mem[Back(by, 0 + 1)], mem[Back(by, 0 + 2)]) = Calls
    BY <1>1, <1>3, <2>1, <2>2, <2>3, WordBack
  <2> QED
    BY <1>4, <2>1, <2>3, <2>4 DEF CallsComeBack
<1>6. CASE JslRows
  <2>1. ins.kind = "jsl" /\ by = "rtl" /\ Pulls(by) = 3
    BY <1>6 DEF JslRows, ReturnOf, Pulls
  <2>2. PICK p \in Tops : Settled(p, 0 - 3) /\ Return(p, 1, Calls) /\ Laid(p, 0, Bank(ins.at))
    BY <1>1, <1>6 DEF JslRows, Row
  <2>3. 3 = 0 + 2 + 1 /\ 3 \in 2..4 /\ 0 \in {0, 1} /\ 1 \in {0, 1} /\ 1 - 0 = 1
    OBVIOUS
  <2>4. /\ {Back(by, 0 + 1), Back(by, 0 + 2)} \subseteq DOMAIN mem
        /\ Word(mem[Back(by, 0 + 1)], mem[Back(by, 0 + 2)]) = Calls
        /\ Back(by, 0 + 3) \in DOMAIN mem /\ mem[Back(by, 0 + 3)] = Bank(ins.at)
    BY <1>1, <1>3, <2>1, <2>2, <2>3, WordBack
  <2> QED
    BY <1>4, <2>1, <2>3, <2>4 DEF CallsComeBack
<1>7. CASE Interrupting
  <2>1. ins.kind \in {"brk", "interrupt"} /\ by = "rti" /\ Pulls(by) = IF ins.e THEN 3 ELSE 4
    BY <1>7 DEF Interrupting, ReturnOf, Pulls
  <2>2. PICK p \in Tops : BankLaid(p) /\ \E n \in {0, 1} : n = Native /\ Entering(p, n)
    BY <1>1, <1>7 DEF Interrupting, Row
  <2>3. PICK n \in {0, 1} : n = Native /\ Entering(p, n)
    BY <2>2
  <2>4. Settled(p, 0 - (n + 3)) /\ Return(p, n, Resumes)
    BY <1>1, <2>3 DEF Entering
  <2>5. PICK t \in 2..4 : t = 1 + 2 + n /\ n + 3 = t
    OBVIOUS
  <2>6. Pulls(by) = t /\ (~ins.e => n = 1)
    BY <2>1, <2>3, <2>5 DEF Native
  <2>7. /\ {Back(by, 1 + 1), Back(by, 1 + 2)} \subseteq DOMAIN mem
        /\ Word(mem[Back(by, 1 + 1)], mem[Back(by, 1 + 2)]) = Resumes
        /\ ~ins.e => /\ Back(by, 1 + 3) \in DOMAIN mem
                     /\ mem[Back(by, 1 + 3)] = Bank(ins.at)
    BY <1>1, <1>3, <2>2, <2>4, <2>5, <2>6, WordBack DEF BankLaid
  <2>8. Plus(Resumes, 0) = Resumes /\ 1 - 1 = 0
    BY <1>3, PlusNothing
  <2>9. Resumes = IF ins.kind = "interrupt" THEN ins.at % BB ELSE After
    BY <2>1 DEF Resumes
  <2> QED
    BY <2>1, <2>7, <2>8, <2>9 DEF CallsComeBack
<1> QED
  BY <1>2, <1>5, <1>6, <1>7

\* In bank zero a word is its own cell, and beside a byte in its page is the next one.
LEMMA ZeroCells ==
  ASSUME TypeOK
  PROVE  /\ \A w \in Wide : Cell(w) = w /\ (w % BB) = w /\ Bank(w) = 0
         /\ \A b \in Byte : InPage(b, 1) = ((b + 1) % B) /\ ((b + 1) % B) \in Byte
<1> DEFINE bb == BB
<1>1. /\ B \in Nat \ {0} /\ B >= 3 /\ bb \in Nat \ {0} /\ bb >= B /\ bb * B \in Nat \ {0}
      /\ reach \in {bb, bb * B}
  BY Sizes, ReachAssumption DEF TypeOK, BB
<1>2. ASSUME NEW w \in Wide PROVE Cell(w) = w /\ (w % BB) = w /\ Bank(w) = 0
  <2>1. w \in 0..(bb - 1)
    BY <1>2 DEF Wide
  <2> HIDE DEF bb
  <2>2. bb * B >= bb
    BY <1>1
  <2>3. reach \in Nat \ {0} /\ w \in 0..(reach - 1)
    BY <1>1, <2>1, <2>2
  <2>4. (w % reach) = w /\ (w % bb) = w
    BY <1>1, <2>1, <2>3, RemainderSelf
  <2>5. Long(0, w) = w
    BY <1>1, <2>1 DEF Long, bb
  <2>6. Bank(w) = 0
    BY <1>2, <2>5, LongPlace, Sizes
  <2> QED
    BY <2>4, <2>6 DEF Cell, bb
<1>3. ASSUME NEW b \in Byte PROVE InPage(b, 1) = ((b + 1) % B) /\ ((b + 1) % B) \in Byte
  <2>1. b \in 0..(B - 1) /\ b \in Wide /\ 0 \in Byte
    BY Sizes, <1>3 DEF Byte
  <2>2. Word(b, 0) = b
    BY <1>1, <2>1 DEF Word
  <2>3. Low(b) = b /\ High(b) = 0
    BY <2>1, <2>2, WordOfBytes
  <2> DEFINE n == (b + 1) % B
  <2>4. n \in Byte
    <3>1. b + 1 \in Int
      BY <2>1
    <3> QED
      BY <1>1, <3>1, Remainder DEF Byte
  <2> HIDE DEF n
  <2>5. n \in Int /\ Word(n, 0) = n /\ Long(0, n) = n
    <3>1. n \in Int
      BY <2>4, Sizes
    <3>2. bb \in Int
      BY <1>1
    <3> QED
      BY <1>1, <3>1, <3>2 DEF Word, Long, bb
  <2>6. Bank(b) = 0
    BY <1>2, <2>1
  <2>7. InPage(b, 1) = Long(Bank(b), Word(n, High(b)))
    BY <2>3 DEF InPage, n
  <2> QED
    BY <2>3, <2>4, <2>5, <2>6, <2>7 DEF n
<1> QED
  BY <1>2, <1>3

\* An instruction in bank zero is found where an 8-bit part finds it.
LEMMA ZeroOperands ==
  ASSUME TypeOK, Bank(ins.at) = 0, NEW n \in {1, 2}
  PROVE  Found(n) = EightBit!Operand(n)
<1> DEFINE a == ins.at % BB
           bb == BB
<1>1. ins.at \in Int /\ ins.at \in Place
  BY Numbers
<1>2. a \in Wide
  BY <1>1, BankByte
<1>3. ins.at = a
  <2>1. /\ bb \in Nat \ {0} /\ B \in Nat \ {0} /\ bb * B \in Nat
        /\ ins.at \in 0..(bb * B - 1)
    BY <1>1, Sizes DEF Place
  <2> DEFINE t == ins.at
             q == t \div bb
             r == t % bb
  <2>2. t = bb * q + r /\ q \in Int /\ r \in 0..(bb - 1) /\ t \in 0..(bb * B - 1)
    BY <1>1, <2>1, Remainder
  <2>3. (q % B) = 0
    BY DEF Bank
  <2> HIDE DEF bb, q, r, t
  <2>4. q < B
    <3>1. SUFFICES ASSUME q >= B PROVE FALSE
      BY <2>1, <2>2
    <3>2. bb * q >= bb * B
      BY <2>1, <2>2, <3>1
    <3> QED
      BY <2>1, <2>2, <3>2
  <2>5. q >= 0
    <3>1. SUFFICES ASSUME q <= -1 PROVE FALSE
      BY <2>2
    <3>2. bb * q <= bb * (-1)
      BY <2>1, <2>2, <3>1
    <3>3. bb * (-1) = 0 - bb /\ bb * q \in Int
      BY <2>1, <2>2
    <3> QED
      BY <2>1, <2>2, <3>2, <3>3
  <2>6. q \in 0..(B - 1)
    BY <2>1, <2>2, <2>4, <2>5
  <2>7. (q % B) = q
    BY <2>1, <2>6, RemainderSelf
  <2>8. q = 0 /\ t = r
    BY <2>1, <2>2, <2>3, <2>7
  <2> QED
    BY <2>8 DEF t, r, bb
<1>4. Own(n) = Plus(a, n) /\ Plus(a, n) \in Wide
  <2>1. n \in Int /\ a \in Int
    <3> HIDE DEF a
    <3> QED
      BY <1>2, Sizes
  <2>2. InBank(a, n) = Plus(a, n)
    BY <1>2, <2>1, InBankZero
  <2> QED
    BY <1>3, <2>1, <2>2, PlusWide DEF Own
<1>5. Cell(Plus(a, n)) = Plus(a, n) /\ (Plus(a, n) % BB) = Plus(a, n)
  BY <1>4, ZeroCells
<1>6. EightBit!Operand(n) = first[Plus(a, n) % BB]
  BY <1>3 DEF EightBit!Operand, EightBit!Cell, EightBit!Plus, Plus, BB
<1> QED
  BY <1>4, <1>5, <1>6 DEF Found

LEMMA ZeroNames ==
  ASSUME TypeOK, HasAddress, AllFound, ins.e, ins.d = 0, ins.db = 0, Bank(ins.at) = 0,
         ins.mode \in {"direct", "directX", "indirect"} \cup DOMAIN EightBit!effective
  PROVE  (Named % BB) = EightBit!Named
<1>1. ASSUME NEW x \in Int PROVE OfDirectPage(x) = (x % B) /\ (x % B) \in Byte
  <2>1. B \in Nat \ {0} /\ 0 \in Byte
    BY Sizes
  <2>2. Word(0, 0) = 0
    BY <2>1 DEF Word
  <2>3. Low(0) = 0 /\ High(0) = 0
    BY <2>1, <2>2, WordOfBytes
  <2> DEFINE l == x % B
  <2>4. l \in Byte
    BY <1>1, <2>1, Remainder DEF Byte
  <2>5. OfDirectPage(x) = Word(l, 0)
    BY <2>3 DEF OfDirectPage, page_wraps
  <2> HIDE DEF l
  <2>6. l \in Int
    BY <2>4, Sizes
  <2>7. Word(l, 0) = l
    BY <2>1, <2>6 DEF Word
  <2> QED
    BY <2>4, <2>5, <2>7 DEF l
<1>2. page_wraps
  <2>1. B \in Nat \ {0} /\ 0 \in Byte
    BY Sizes
  <2>2. Word(0, 0) = 0
    BY <2>1 DEF Word
  <2>3. Low(0) = 0
    BY <2>1, <2>2, WordOfBytes
  <2> QED
    BY <2>3 DEF page_wraps
<1>3. /\ ins.mode \in {"direct", "directX", "absolute", "absoluteX", "indirect",
                       "indexedIndirectX", "indirectIndexedY"}
      /\ ins.kind # "pei"
  BY DEF HasAddress, Modes, effective, EightBit!effective
<1>4. /\ Found(1) = EightBit!Operand(1) /\ Found(1) \in Byte
      /\ Found(1) \in Int /\ (Found(1) % B) = Found(1)
  <2>1. Found(1) \in Byte
    BY DEF AllFound, IsFound, Found, TypeOK
  <2>2. Found(1) = EightBit!Operand(1)
    BY ZeroOperands
  <2> DEFINE v == Found(1)
  <2>3. v \in Byte
    BY <2>1
  <2> HIDE DEF v
  <2>4. v \in Int /\ (v % B) = v
    BY <2>3, Sizes, RemainderSelf DEF Byte
  <2> QED
    BY <2>1, <2>2, <2>4 DEF v
<1>5. ins.index \in Int /\ ins.index \in Wide
  BY Numbers
<1>6. ASSUME NEW w \in Wide PROVE Long(ins.db, w) = w /\ w \in Int /\ (w % BB) = w
  <2>1. w \in Int /\ BB \in Int /\ ins.db = 0
    BY Sizes
  <2> QED
    BY <2>1, ZeroCells DEF Long
<1>7. ByMode
  BY NamedIs
<1>8. CASE ins.mode = "direct"
  <2>1. Named = Found(1)
    BY <1>1, <1>4, <1>7, <1>8 DEF ByMode, Direct, Aim
  <2>2. EightBit!Named = EightBit!Operand(1)
    BY <1>8 DEF EightBit!Named
  <2> QED
    BY <1>4, <1>6, <2>1, <2>2, Sizes
<1>9. CASE ins.mode = "directX"
  <2>1. Named = ((Found(1) + ins.index) % B) /\ Named \in Byte
    <3>1. Found(1) + ins.index \in Int
      BY <1>4, <1>5
    <3> QED
      BY <1>1, <1>7, <1>9, <3>1 DEF ByMode, Direct, Aim
  <2>2. EightBit!Named = ((EightBit!Operand(1) + ins.index) % B)
    BY <1>9 DEF EightBit!Named
  <2> QED
    BY <1>4, <1>6, <2>1, <2>2, Sizes
<1>10. CASE ins.mode \in {"absolute", "absoluteX"}
  <2>1. Found(2) = EightBit!Operand(2) /\ Found(2) \in Byte
    <3>1. Found(2) \in Byte
      BY <1>10 DEF AllFound, Words, IsFound, Found, TypeOK
    <3> QED
      BY <3>1, ZeroOperands
  <2>2. FoundWord \in Wide /\ FoundWord = EightBit!Word(EightBit!Operand(1), EightBit!Operand(2))
    <3>1. FoundWord \in Wide
      BY <1>4, <2>1, WordOfBytes DEF FoundWord
    <3>2. EightBit!Word(Found(1), Found(2)) = Word(Found(1), Found(2))
      BY DEF EightBit!Word, Word
    <3> QED
      BY <1>4, <2>1, <3>1, <3>2 DEF FoundWord
  <2>3. EightBit!Unindexed = FoundWord
    BY <1>10, <2>2 DEF EightBit!Unindexed
  <2>4. CASE ins.mode = "absolute"
    <3>1. Named = Long(ins.db, FoundWord)
      BY <1>7, <2>4 DEF ByMode
    <3>2. EightBit!Named = FoundWord
      BY <2>3, <2>4 DEF EightBit!Named
    <3> QED
      BY <1>6, <2>2, <3>1, <3>2
  <2>5. CASE ins.mode = "absoluteX"
    <3>1. Named = FoundWord + ins.index
      BY <1>6, <1>7, <2>2, <2>5 DEF ByMode
    <3>2. EightBit!Named = EightBit!Plus(FoundWord, ins.index)
      BY <2>3, <2>5 DEF EightBit!Named
    <3> QED
      BY <3>1, <3>2 DEF EightBit!Plus, BB
  <2> QED
    BY <1>10, <2>4, <2>5
<1>11. CASE ins.mode \in {"indirect", "indexedIndirectX", "indirectIndexedY"}
  <2>1. /\ Aim \in Byte
        /\ Aim = IF ins.mode = "indexedIndirectX" THEN (Found(1) + ins.index) % B ELSE Found(1)
    <3>1. Found(1) + ins.index \in Int
      BY <1>4, <1>5
    <3> QED
      BY <1>1, <1>4, <1>11, <3>1 DEF Aim
  <2>2. pointer_wraps
    BY <1>2, <1>3, <1>11 DEF pointer_wraps
  <2>3. Beyond = ((Aim + 1) % B) /\ Beyond \in Byte
    BY <2>1, <2>2, ZeroCells DEF Beyond
  <2>4. /\ Cell(Aim) = Aim /\ (Aim % BB) = Aim
        /\ Cell(Beyond) = Beyond /\ (Beyond % BB) = Beyond
    BY <2>1, <2>3, ZeroCells, Sizes
  <2>5. first[Cell(Aim)] \in Byte /\ first[Cell(Beyond)] \in Byte
    BY <1>11 DEF AllFound, Pointers, IsFound, TypeOK
  <2>6. Pointee \in Wide
    BY <2>5, WordOfBytes DEF Pointee
  <2>7. EightBit!Pointer(Aim) = Pointee
    <3>1. EightBit!Pointer(Aim) = EightBit!Word(first[Aim % BB], first[((Aim + 1) % B) % BB])
      BY DEF EightBit!Pointer, EightBit!Cell
    <3>2. EightBit!Pointer(Aim) = EightBit!Word(first[Aim], first[Beyond])
      BY <2>3, <2>4, <3>1
    <3> QED
      BY <2>4, <3>2 DEF EightBit!Word, Word, Pointee
  <2>8. CASE ins.mode = "indirect"
    <3>1. Named = Pointee
      BY <1>6, <1>7, <2>6, <2>8 DEF ByMode
    <3>2. EightBit!Named = EightBit!Pointer(EightBit!Operand(1))
      BY <2>8 DEF EightBit!Named
    <3> QED
      BY <1>4, <1>6, <2>1, <2>6, <2>7, <2>8, <3>1, <3>2
  <2>9. CASE ins.mode = "indexedIndirectX"
    <3>1. Named = Pointee
      BY <1>6, <1>7, <2>6, <2>9 DEF ByMode
    <3>2. EightBit!Named = EightBit!Pointer((EightBit!Operand(1) + ins.index) % B)
      BY <2>9 DEF EightBit!Named
    <3> QED
      BY <1>4, <1>6, <2>1, <2>6, <2>7, <2>9, <3>1, <3>2
  <2>10. CASE ins.mode = "indirectIndexedY"
    <3>1. Named = Pointee + ins.index
      BY <1>6, <1>7, <2>6, <2>10 DEF ByMode
    <3>2. EightBit!Named = EightBit!Plus(EightBit!Unindexed, ins.index)
      BY <2>10 DEF EightBit!Named
    <3>3. EightBit!Unindexed = Pointee
      <4>1. EightBit!Unindexed = EightBit!Pointer(EightBit!Operand(1))
        BY <2>10 DEF EightBit!Unindexed
      <4> QED
        BY <1>4, <2>1, <2>7, <2>10, <4>1
    <3> QED
      BY <3>1, <3>2, <3>3 DEF EightBit!Plus, BB
  <2> QED
    BY <1>11, <2>8, <2>9, <2>10
<1> QED
  BY <1>3, <1>8, <1>9, <1>10, <1>11

\* It is in bank zero, but for the index.
LEMMA ZeroReach ==
  ASSUME TypeOK, HasAddress, AllFound, ins.e, ins.d = 0, ins.db = 0, Bank(ins.at) = 0,
         ins.mode \in {"direct", "directX", "indirect"} \cup DOMAIN EightBit!effective
  PROVE  /\ ins.mode \in Carries => Unindexed \in Wide /\ Named = Unindexed + ins.index
         /\ ins.mode \notin Carries => Named \in Wide
<1>1. ins.mode \in {"direct", "directX", "absolute", "absoluteX", "indirect",
                    "indexedIndirectX", "indirectIndexedY"}
  BY DEF HasAddress, Modes, effective, EightBit!effective
<1>2. ByMode
  BY NamedIs
<1>3. ASSUME NEW w \in Wide PROVE Long(ins.db, w) = w
  <2>1. w \in Int /\ BB \in Int /\ ins.db = 0
    BY Sizes
  <2> QED
    BY <2>1 DEF Long
<1>4. Found(1) \in Byte
  BY DEF AllFound, IsFound, Found, TypeOK
<1>5. CASE ins.mode \in {"absolute", "absoluteX"}
  <2>1. Found(2) \in Byte
    BY <1>5 DEF AllFound, Words, IsFound, Found, TypeOK
  <2>2. FoundWord \in Wide
    BY <1>4, <2>1, WordOfBytes DEF FoundWord
  <2> QED
    BY <1>2, <1>3, <1>5, <2>2 DEF ByMode, Carries
<1>6. CASE ins.mode \in {"indirect", "indexedIndirectX", "indirectIndexedY"}
  <2>1. first[Cell(Aim)] \in Byte /\ first[Cell(Beyond)] \in Byte
    BY <1>6 DEF AllFound, Pointers, IsFound, TypeOK
  <2>2. Pointee \in Wide
    BY <2>1, WordOfBytes DEF Pointee
  <2> QED
    BY <1>2, <1>3, <1>6, <2>2 DEF ByMode, Carries
<1>7. CASE ins.mode \in {"direct", "directX"}
  <2>1. Named = Aim /\ ins.mode \notin Carries
    BY <1>2, <1>7 DEF ByMode, Direct, Carries
  <2>2. Aim \in Wide
    <3>1. /\ Found(1) \in Int /\ Found(1) + ins.index \in Int
          /\ \E x \in {Found(1), Found(1) + ins.index} : Aim = OfDirectPage(x)
      <4>1. Found(1) \in Int /\ ins.index \in Int
        BY <1>4, Numbers, Sizes
      <4> QED
        BY <1>7, <4>1 DEF Aim
    <3> QED
      BY <3>1, DirectWord
  <2> QED
    BY <2>1, <2>2
<1> QED
  BY <1>1, <1>5, <1>6, <1>7

LEMMA EmulationAlike ==
  ASSUME IInv
  PROVE  EmulationAddressesAlike
<1> SUFFICES ASSUME ins.e, ins.d = 0, ins.db = 0, Bank(ins.at) = 0,
                    ins.mode \in {"direct", "directX", "indirect"} \cup DOMAIN EightBit!effective,
                    bus.does \in {"look", "held", "write"}
             PROVE  bus.at = Cell(EightBit!Named + IF PastBank THEN BB ELSE 0)
  BY DEF EmulationAddressesAlike
<1>1. Reached /\ DataIsNamed /\ TypeOK /\ bus.does \in DOMAIN DataAt
  BY DataWork DEF IInv, BusTells, AtData
<1>2. HasAddress /\ AllFound /\ addr = Named
  BY <1>1 DEF Reached
<1>3. bus.at = Cell(Named)
  BY <1>1, <1>2 DEF DataIsNamed, Addressing, HasAddress
<1>4. Named \in Int
  BY <1>1, <1>2, Numbers
<1>5. (Named % BB) = EightBit!Named
  BY <1>1, <1>2, ZeroNames
<1>6. /\ ins.mode \in Carries => Unindexed \in Wide /\ Named = Unindexed + ins.index
      /\ ins.mode \notin Carries => Named \in Wide
  BY <1>1, <1>2, ZeroReach
<1>7. ins.index \in Wide
  BY <1>1, Numbers
<1> DEFINE bb == BB
           m == Named
           u == Unindexed
           i == ins.index
<1>8. bb \in Nat \ {0} /\ Wide = 0..(bb - 1)
  BY Sizes DEF Wide
<1>9. CASE PastBank
  <2>1. m = u + i /\ u \in 0..(bb - 1) /\ i \in 0..(bb - 1) /\ m >= bb /\ m \in Int
    BY <1>4, <1>6, <1>7, <1>8, <1>9 DEF PastBank
  <2> HIDE DEF m, u, i, bb
  <2>2. PICK r \in 0..(bb - 1) : r = m - bb
    BY <1>8, <2>1
  <2>3. bb * 1 + r = m /\ 1 \in Int
    BY <1>8, <2>1, <2>2
  <2>4. ((bb * 1 + r) % bb) = r
    BY <1>8, <2>3, RemainderIs
  <2>5. (m % bb) = r
    BY <2>3, <2>4
  <2>6. (m % bb) + bb = m
    BY <1>8, <2>1, <2>2, <2>5
  <2> QED
    BY <1>3, <1>5, <1>9, <2>6 DEF m, bb
<1>10. CASE ~PastBank
  <2>1. m \in 0..(bb - 1)
    <3>1. CASE ins.mode \in Carries
      <4>1. m = u + i /\ u \in 0..(bb - 1) /\ i \in 0..(bb - 1) /\ ~(u + i >= bb)
        BY <1>6, <1>7, <1>8, <1>10, <3>1 DEF PastBank
      <4> HIDE DEF m, u, i, bb
      <4> QED
        BY <1>8, <4>1
    <3>2. CASE ins.mode \notin Carries
      BY <1>6, <1>8, <3>2
    <3> QED
      BY <3>1, <3>2
  <2> HIDE DEF m, bb
  <2>2. (m % bb) = m /\ m + 0 = m
    BY <1>8, <2>1, RemainderSelf
  <2> QED
    BY <1>3, <1>5, <1>10, <2>2 DEF m, bb
<1> QED
  BY <1>9, <1>10

-----------------------------------------------------------------------------
(* The theorems.                                                           *)

\* The invariant holds of every behaviour.
LEMMA InvariantHolds == Spec => []IInv
<1>1. IInv /\ [Next]_vars => IInv'
  BY InvariantStep, InvariantStutter
<1> QED
  BY <1>1, InitHolds, PTL DEF Spec

\* MLB is driven from the first read of what is modified to the last write and on no
\* other cycle, VPB on the two reads of a vector alone, even after an instruction that
\* raised; and RWB goes low for nothing written only while an emulated part modifies.
\* (_read_modify_write, vector16, internal)
THEOREM OutputsAlwaysTell == Spec => []OutputsTell
<1>1. IInv => OutputsTell
  BY DEF IInv, BusTells
<1> QED
  BY <1>1, InvariantHolds, PTL

\* Whatever its mode and its width, and wherever its pointer lay, an instruction reads
\* and writes the bytes it names and no others, and what it modifies high byte first.
\* (effective, read_pointer, read_indexed_pointer, next_byte, write_value)
THEOREM DataAlwaysNamed == Spec => []DataIsNamed
<1>1. IInv => DataIsNamed
  BY DEF IInv, BusTells
<1> QED
  BY <1>1, InvariantHolds, PTL

\* In emulation, with its direct page and its banks at zero, a 65816 finds the operand
\* of a 65C02's instruction where a 65C02 does, but for one indexed past the end of
\* bank zero, which is in bank one. (effective() of wdc65816.py against that of
\* mos6502.py)
THEOREM EmulationAlwaysAlike == Spec => []EmulationAddressesAlike
<1>1. IInv => EmulationAddressesAlike
  BY EmulationAlike
<1> QED
  BY <1>1, InvariantHolds, PTL

\* The core goes on where decode() and branch_target() say the next instruction is, a
\* jump where it names and a return where the stack says; and a call, a BRK or an
\* interrupt pushes what it resumes at, each byte below the last, whatever the stack
\* pointer and the widths.
\* (op_bra, op_jmp, op_jsr, op_jsl, op_rts, op_rtl, op_rti, op_brk, interrupt)
THEOREM AlwaysArrives == Spec => []ArrivesWhereDecoded
<1>1. ~Over => ArrivesWhereDecoded
  BY DEF ArrivesWhereDecoded
<1>2. IInv => ArrivesWhereDecoded
  BY <1>1, OverArrives
<1> QED
  BY <1>2, InvariantHolds, PTL

\* The RTS, RTL or RTI that ends a routine or a handler comes back to the instruction
\* after its call or BRK, or to the one interrupted, and to its bank, wherever the
\* stack is: in emulation, unless one of the two goes off page one with the whole stack
\* pointer. (op_jsr, op_jsl, op_brk, interrupt, enter against op_rts, op_rtl, op_rti)
THEOREM CallsAlwaysComeBack == Spec => []CallsComeBack
<1>1. ~Over => CallsComeBack
  BY DEF CallsComeBack
<1>2. IInv => CallsComeBack
  BY <1>1, OverComesBack
<1> QED
  BY <1>2, InvariantHolds, PTL

\* Every instruction, the entry of an interrupt apart, costs the cycles the data sheet
\* prints for its mode, with those its notes add or take away.
\* (conformance/bus-operation.json: notes 1 to 7)
THEOREM CyclesAlwaysPrinted == Spec => []CyclesAsPrinted
<1>1. ~Over => CyclesAsPrinted
  BY DEF CyclesAsPrinted
<1>2. IInv => CyclesAsPrinted
  BY <1>1, OverCycles
<1> QED
  BY <1>2, InvariantHolds, PTL

=============================================================================
