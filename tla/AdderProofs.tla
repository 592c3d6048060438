---------------------------- MODULE AdderProofs ----------------------------
(***************************************************************************)
(* What ADC, SBC and CMP compute for every two numbers, as theorems of     *)
(* Adder: binary on every part a byte at a time, decimal on the 8-bit      *)
(* cores.                                                                  *)
(*                                                                         *)
(* First what one instruction does to one byte, then the program's two     *)
(* bytes: the invariant IInv says what the carry between them stands for.  *)
(***************************************************************************)
EXTENDS Adder, TLAPS

-----------------------------------------------------------------------------
(* Arithmetic modulo a byte.                                               *)

\* A remainder by 2^8, over each range a sum or a difference falls in.
LEMMA ByteRemainders ==
    /\ \A t \in 0..255 : (t % 256) = t
    /\ \A t \in 256..511 : (t % 256) = t - 256
    /\ \A t \in (-256)..(-1) : (t % 256) = t + 256
<1>1. \A t \in 0..255 : (t % 256) = t
  BY SMTT(10)
<1>2. \A t \in 256..511 : (t % 256) = t - 256
  BY SMTT(10)
<1>3. \A t \in (-256)..(-1) : (t % 256) = t + 256
  BY SMTT(10)
<1> QED
  BY <1>1, <1>2, <1>3

\* The carry out of eight bits is what the remainder leaves out of a sum.
LEMMA ByteSum ==
  ASSUME NEW t \in 0..511
  PROVE  /\ (t % 256) \in 0..255
         /\ Bit(t > 255) \in 0..1
         /\ (t % 256) = t - 256 * Bit(t > 255)
<1>1. CASE t > 255
  <2>1. t \in 256..511
    BY <1>1
  <2>2. (t % 256) = t - 256
    BY <2>1, ByteRemainders
  <2>3. Bit(t > 255) = 1
    BY <1>1 DEF Bit
  <2> QED
    BY <2>1, <2>2, <2>3
<1>2. CASE ~(t > 255)
  <2>1. t \in 0..255
    BY <1>2
  <2>2. (t % 256) = t
    BY <2>1, ByteRemainders
  <2>3. Bit(t > 255) = 0
    BY <1>2 DEF Bit
  <2> QED
    BY <2>1, <2>2, <2>3
<1> QED
  BY <1>1, <1>2

\* And of a difference, where a clear carry is a borrow.
LEMMA ByteDifference ==
  ASSUME NEW t \in (-256)..255
  PROVE  /\ (t % 256) \in 0..255
         /\ Bit(t >= 0) \in 0..1
         /\ Bit(t >= 0) = 1 <=> t >= 0
         /\ (t % 256) = t + 256 * (1 - Bit(t >= 0))
<1>1. CASE t >= 0
  <2>1. t \in 0..255
    BY <1>1
  <2>2. (t % 256) = t
    BY <2>1, ByteRemainders
  <2>3. Bit(t >= 0) = 1
    BY <1>1 DEF Bit
  <2> QED
    BY <2>1, <2>2, <2>3
<1>2. CASE ~(t >= 0)
  <2>1. t \in (-256)..(-1)
    BY <1>2
  <2>2. (t % 256) = t + 256
    BY <2>1, ByteRemainders
  <2>3. Bit(t >= 0) = 0
    BY <1>2 DEF Bit
  <2> QED
    BY <2>1, <2>2, <2>3
<1> QED
  BY <1>1, <1>2

\* A byte is its two digits.
LEMMA Nibbles ==
  ASSUME NEW b \in 0..255
  PROVE  Low(b) \in 0..15 /\ High(b) \in 0..15 /\ b = 16 * High(b) + Low(b)
  BY DEF Low, High

\* Two digits put together are the byte that has them.
LEMMA JoinNibbles ==
  ASSUME NEW h \in 0..15, NEW l \in 0..15
  PROVE  16 * h + l \in 0..255 /\ Low(16 * h + l) = l /\ High(16 * h + l) = h
  BY DEF Low, High

\* A byte's digits spell an integer.
LEMMA ByteValueType ==
  ASSUME NEW b \in 0..255
  PROVE  ByteValue(b) \in 0..165
  BY Nibbles, SMTT(30) DEF ByteValue

\* The numbers of sixteen bits.
Word == {w \in Int : w >= 0 /\ w < 65536}

\* A word is its two bytes.
LEMMA Bytes ==
  ASSUME NEW w \in Word
  PROVE  (w % 256) \in 0..255 /\ (w \div 256) \in 0..255 /\ w = 256 * (w \div 256) + (w % 256)
  BY SMTT(60) DEF Word

\* Two bytes put together are the word that has them.
LEMMA JoinBytes ==
  ASSUME NEW h \in 0..255, NEW l \in 0..255
  PROVE  /\ l + 256 * h \in Word
         /\ ((l + 256 * h) % 256) = l
         /\ ((l + 256 * h) \div 256) = h
  BY SMTT(60) DEF Word

\* Masking a byte drops what its high digit has beyond a digit.
LEMMA MaskHigh ==
  ASSUME NEW h \in -31..31, NEW l \in 0..15
  PROVE  ((16 * h + l) % 256) = 16 * Low(h) + l
  BY SMTT(60) DEF Low

-----------------------------------------------------------------------------
(* One instruction on one byte.                                            *)

\* Byte s.a and carry s.c are the sum of two bytes and a carry.
IsSum(s, l, w, k) ==
    /\ s.a \in 0..255
    /\ s.c \in 0..1
    /\ s.a = l + w + k - 256 * s.c

IsDifference(s, l, w, k) ==
    /\ s.a \in 0..255
    /\ s.c \in 0..1
    /\ s.c = 1 <=> l - w - (1 - k) >= 0
    /\ s.a = l - w - (1 - k) + 256 * (1 - s.c)

\* The same of decimal bytes; of others, only that the result is a byte.
IsDecimalSum(s, l, w, k) ==
    /\ s.a \in 0..255
    /\ s.c \in 0..1
    /\ (IsDecimalByte(l) /\ IsDecimalByte(w)) =>
           /\ IsDecimalByte(s.a)
           /\ ByteValue(s.a) = ByteValue(l) + ByteValue(w) + k - 100 * s.c

IsDecimalDifference(s, l, w, k) ==
    /\ s.a \in 0..255
    /\ s.c \in 0..1
    /\ s.c = 1 <=> l - w - (1 - k) >= 0
    /\ (IsDecimalByte(l) /\ IsDecimalByte(w)) =>
           /\ IsDecimalByte(s.a)
           /\ ByteValue(s.a) = ByteValue(l) - ByteValue(w) - (1 - k) + 100 * (1 - s.c)

\* The byte's range, from the weight of its sign bit.
LEMMA Twice == 2 * 128 = 256 /\ 2 * 128 - 1 = 255
  OBVIOUS

\* ADC in binary, mos6502.py and wdc65816.py with an 8-bit accumulator.
LEMMA BinaryAddRight ==
  ASSUME NEW l \in 0..255, NEW w \in 0..255, NEW k \in 0..1
  PROVE  IsSum(BinaryAdd(l, w, k, 128), l, w, k)
<1> DEFINE total == l + w + k
<1>1. total \in 0..511
  OBVIOUS
<1>2. /\ BinaryAdd(l, w, k, 128).a = total % (2 * 128)
      /\ BinaryAdd(l, w, k, 128).c = Bit(total > 2 * 128 - 1)
  BY Zenon DEF BinaryAdd
<1>3. /\ BinaryAdd(l, w, k, 128).a = (total % 256)
      /\ BinaryAdd(l, w, k, 128).c = Bit(total > 255)
  BY <1>2, Twice
<1>4. /\ (total % 256) \in 0..255
      /\ Bit(total > 255) \in 0..1
      /\ (total % 256) = total - 256 * Bit(total > 255)
  BY <1>1, ByteSum
<1> DEFINE carry == Bit(total > 255)
           a == total % 256
<1>5. /\ BinaryAdd(l, w, k, 128).a = a
      /\ BinaryAdd(l, w, k, 128).c = carry
  BY <1>3
<1>6. a \in 0..255 /\ carry \in 0..1 /\ a = l + w + k - 256 * carry
  BY <1>4
<1> HIDE DEF a, carry
<1> QED
  BY <1>5, <1>6 DEF IsSum

\* SBC in binary, on the same cores.
LEMMA BinarySubtractRight ==
  ASSUME NEW l \in 0..255, NEW w \in 0..255, NEW k \in 0..1
  PROVE  /\ IsDifference(BinarySubtract(l, w, k, 128), l, w, k)
         /\ BinarySubtract(l, w, k, 128).c = Bit(l - w - (1 - k) >= 0)
<1> DEFINE plain == l - w - (1 - k)
<1>1. plain \in (-256)..255
  OBVIOUS
<1>2. /\ BinarySubtract(l, w, k, 128).a = plain % (2 * 128)
      /\ BinarySubtract(l, w, k, 128).c = Bit(plain >= 0)
  BY Zenon DEF BinarySubtract
<1>3. BinarySubtract(l, w, k, 128).a = (plain % 256)
  BY <1>2, Twice
<1>4. /\ (plain % 256) \in 0..255
      /\ Bit(plain >= 0) \in 0..1
      /\ Bit(plain >= 0) = 1 <=> plain >= 0
      /\ (plain % 256) = plain + 256 * (1 - Bit(plain >= 0))
  BY <1>1, ByteDifference
<1> DEFINE carry == Bit(plain >= 0)
           a == plain % 256
<1>5. /\ BinarySubtract(l, w, k, 128).a = a
      /\ BinarySubtract(l, w, k, 128).c = carry
  BY <1>2, <1>3
<1>6. /\ a \in 0..255 /\ carry \in 0..1
      /\ carry = 1 <=> l - w - (1 - k) >= 0
      /\ a = l - w - (1 - k) + 256 * (1 - carry)
  BY <1>4
<1>7. BinarySubtract(l, w, k, 128).c = Bit(l - w - (1 - k) >= 0)
  BY <1>2
<1> HIDE DEF a, carry
<1>8. IsDifference(BinarySubtract(l, w, k, 128), l, w, k)
  BY <1>5, <1>6 DEF IsDifference
<1> QED
  BY <1>7, <1>8

\* One digit of a decimal sum and its carry.
LEMMA DigitSum ==
  ASSUME NEW l \in 0..9, NEW w \in 0..9, NEW k \in 0..1
  PROVE  LET s == Corrected(l + w + k)
         IN  /\ s \in 0..31
             /\ Bit(s > 15) \in 0..1
             /\ Low(s) \in 0..9
             /\ Low(s) + 10 * Bit(s > 15) = l + w + k
  BY DEF Corrected, Bit, Low

\* ADC in decimal, mos6502.py and mos65c02.py.
LEMMA DecimalAddRight ==
  ASSUME NEW l \in 0..255, NEW w \in 0..255, NEW k \in 0..1
  PROVE  IsDecimalSum(DecimalAdd(l, w, k), l, w, k)
<1> DEFINE low == Corrected(Low(l) + Low(w) + k)
           t == Bit(low > 15)
           high == Corrected(High(l) + High(w) + t)
           carry == Bit(high > 15)
           a == (16 * high + Low(low)) % 256
<1>1. DecimalAdd(l, w, k).a = a /\ DecimalAdd(l, w, k).c = carry
  BY DEF DecimalAdd
<1>2. a \in 0..255 /\ carry \in 0..1
  <2>1. Low(l) + Low(w) + k \in Int /\ High(l) + High(w) \in Int
    BY DEF Low, High
  <2>2. low \in Int /\ t \in 0..1
    BY <2>1 DEF Corrected, Bit
  <2>3. high \in Int /\ Low(low) \in Int
    BY <2>1, <2>2 DEF Corrected, Low
  <2> HIDE DEF low, high
  <2> QED
    BY <2>3 DEF Bit
<1>3. ASSUME IsDecimalByte(l), IsDecimalByte(w)
      PROVE  IsDecimalByte(a) /\ ByteValue(a) = ByteValue(l) + ByteValue(w) + k - 100 * carry
  <2>1. /\ Low(l) \in 0..9 /\ High(l) \in 0..9
        /\ Low(w) \in 0..9 /\ High(w) \in 0..9
    BY <1>3 DEF IsDecimalByte
  <2>2. /\ low \in 0..31 /\ t \in 0..1 /\ Low(low) \in 0..9
        /\ Low(low) + 10 * t = Low(l) + Low(w) + k
    BY <2>1, DigitSum
  <2>3. /\ high \in 0..31 /\ carry \in 0..1 /\ Low(high) \in 0..9
        /\ Low(high) + 10 * carry = High(l) + High(w) + t
    BY <2>1, <2>2, DigitSum
  <2> HIDE DEF low, t, high, carry
  <2>4. a = 16 * Low(high) + Low(low)
    BY <2>2, <2>3, MaskHigh
  <2> HIDE DEF a
  <2>5. Low(a) = Low(low) /\ High(a) = Low(high)
    BY <2>2, <2>3, <2>4, JoinNibbles
  <2>6. IsDecimalByte(a)
    BY <2>2, <2>3, <2>5 DEF IsDecimalByte
  <2> DEFINE l0 == Low(l)  l1 == High(l)  w0 == Low(w)  w1 == High(w)
             s0 == Low(low)  s1 == Low(high)
  <2>7. /\ ByteValue(l) = 10 * l1 + l0
        /\ ByteValue(w) = 10 * w1 + w0
        /\ ByteValue(a) = 10 * s1 + s0
    BY <2>5 DEF ByteValue
  <2>8. /\ l0 \in 0..9 /\ l1 \in 0..9 /\ w0 \in 0..9 /\ w1 \in 0..9
        /\ s0 \in 0..9 /\ s1 \in 0..9 /\ t \in 0..1 /\ carry \in 0..1
        /\ s0 + 10 * t = l0 + w0 + k
        /\ s1 + 10 * carry = l1 + w1 + t
    BY <2>1, <2>2, <2>3
  <2> HIDE DEF l0, l1, w0, w1, s0, s1
  <2>9. 10 * s1 + s0 = (10 * l1 + l0) + (10 * w1 + w0) + k - 100 * carry
    BY <2>8
  <2> QED
    BY <2>6, <2>7, <2>9, Zenon
<1> HIDE DEF a, carry
<1> QED
  BY <1>1, <1>2, <1>3, Zenon DEF IsDecimalSum

\* One digit of a decimal difference and its borrow.
LEMMA DigitDifference ==
  ASSUME NEW s \in (-10)..9
  PROVE  /\ (s \div 16) % 2 = 1 <=> s < 0
         /\ s < 0 => Low(s - 6) = s + 10
         /\ s >= 0 => Low(s) = s
  BY DEF Low

\* SBC in decimal, mos6502.py: the digits are corrected one by one.
LEMMA NmosSubtractRight ==
  ASSUME NEW l \in 0..255, NEW w \in 0..255, NEW k \in 0..1
  PROVE  IsDecimalDifference(NmosSubtract(l, w, k), l, w, k)
<1> DEFINE borrows(m) == (m \div 16) % 2 = 1
           digit(m) == IF borrows(m) THEN m - 6 ELSE m
           low == Low(l) - Low(w) - (1 - k)
           t == Bit(borrows(low))
           high == High(l) - High(w) - t
           a == (16 * digit(high) + Low(digit(low))) % 256
           carry == BinarySubtract(l, w, k, 128).c
<1>1. NmosSubtract(l, w, k).a = a /\ NmosSubtract(l, w, k).c = carry
  BY Zenon DEF NmosSubtract, BinarySubtract
<1>2. carry \in 0..1 /\ (carry = 1 <=> l - w - (1 - k) >= 0)
  BY BinarySubtractRight, ZenonT(40) DEF IsDifference
<1>3. a \in 0..255
  <2>1. low \in Int /\ High(l) - High(w) \in Int
    BY DEF Low, High
  <2>2. t \in 0..1 /\ digit(low) \in Int
    BY <2>1 DEF Bit
  <2>3. high \in Int
    BY <2>1, <2>2 DEF High
  <2> HIDE DEF low, high
  <2>4. digit(high) \in Int
    BY <2>3
  <2> HIDE DEF digit
  <2>5. Low(digit(low)) \in Int
    BY <2>2 DEF Low
  <2> QED
    BY <2>4, <2>5
<1>4. ASSUME IsDecimalByte(l), IsDecimalByte(w)
      PROVE  /\ IsDecimalByte(a)
             /\ ByteValue(a) = ByteValue(l) - ByteValue(w) - (1 - k) + 100 * (1 - carry)
  <2>1. /\ Low(l) \in 0..9 /\ High(l) \in 0..9
        /\ Low(w) \in 0..9 /\ High(w) \in 0..9
    BY <1>4 DEF IsDecimalByte
  <2>2. /\ low \in (-10)..9 /\ t \in 0..1
        /\ t = 1 <=> low < 0
        /\ Low(digit(low)) = low + 10 * t
    <3>1. low \in (-10)..9
      BY <2>1
    <3> HIDE DEF low
    <3> QED
      BY <3>1, DigitDifference DEF Bit
  <2> DEFINE u == Bit(high < 0)
  <2>3. /\ high \in (-10)..9 /\ u \in 0..1
        /\ u = 1 <=> high < 0
        /\ Low(digit(high)) = high + 10 * u
        /\ digit(high) \in (-16)..9
    <3> HIDE DEF t
    <3>1. high \in (-10)..9
      BY <2>1, <2>2
    <3> HIDE DEF high
    <3> QED
      BY <3>1, DigitDifference DEF Bit
  <2> DEFINE l0 == Low(l)  l1 == High(l)  w0 == Low(w)  w1 == High(w)
             s0 == Low(digit(low))  s1 == Low(digit(high))  q == 1 - k
  <2>4. /\ l0 \in 0..9 /\ l1 \in 0..9 /\ w0 \in 0..9 /\ w1 \in 0..9 /\ q \in 0..1
        /\ t \in 0..1 /\ (t = 1 <=> l0 - w0 - q < 0)
        /\ u \in 0..1 /\ (u = 1 <=> l1 - w1 - t < 0)
        /\ s0 = l0 - w0 - q + 10 * t
        /\ s1 = l1 - w1 - t + 10 * u
    BY <2>1, <2>2, <2>3
  <2>5. a = (16 * digit(high) + s0) % 256
    OBVIOUS
  <2>6. l = 16 * l1 + l0 /\ w = 16 * w1 + w0
    BY Nibbles
  <2>7. /\ ByteValue(l) = 10 * l1 + l0
        /\ ByteValue(w) = 10 * w1 + w0
        /\ ByteValue(a) = 10 * High(a) + Low(a)
    BY DEF ByteValue
  <2> HIDE DEF t, u, l0, l1, w0, w1, s0, q, low, high, digit, carry
  <2>8. /\ s0 \in 0..9 /\ s1 \in 0..9
        /\ 10 * s1 + s0 = (10 * l1 + l0) - (10 * w1 + w0) - q + 100 * u
        /\ u = 1 <=> (16 * l1 + l0) - (16 * w1 + w0) - q < 0
    <3> HIDE DEF s1
    <3>1. s0 \in 0..9 /\ s1 \in 0..9
      BY <2>4
    <3>2. 10 * s1 + s0 = (10 * l1 + l0) - (10 * w1 + w0) - q + 100 * u
      BY <2>4
    <3>3. (16 * l1 + l0) - (16 * w1 + w0) - q = 16 * (l1 - w1 - t) + s0 + 6 * t
      BY <2>4
    <3>4. u = 1 <=> (16 * l1 + l0) - (16 * w1 + w0) - q < 0
      BY <2>4, <3>1, <3>3
    <3> QED
      BY <3>1, <3>2, <3>4
  <2>9. a = 16 * s1 + s0
    BY <2>3, <2>5, <2>8, MaskHigh
  <2> HIDE DEF a, s1
  <2>10. Low(a) = s0 /\ High(a) = s1
    BY <2>8, <2>9, JoinNibbles
  <2>11. u = 1 - carry
    BY <2>4, <2>6, <2>8, <1>2 DEF q
  <2>12. IsDecimalByte(a)
    BY <2>8, <2>10 DEF IsDecimalByte
  <2> QED
    BY <2>7, <2>8, <2>10, <2>11, <2>12 DEF q
<1> HIDE DEF a, carry
<1> QED
  BY <1>1, <1>2, <1>3, <1>4 DEF IsDecimalDifference

\* SBC in decimal, mos65c02.py: the binary difference is corrected as a whole.
LEMMA CmosSubtractRight ==
  ASSUME NEW l \in 0..255, NEW w \in 0..255, NEW k \in 0..1
  PROVE  IsDecimalDifference(CmosSubtract(l, w, k), l, w, k)
<1> DEFINE plain == l - w - (1 - k)
           t == Bit(Low(l) - (1 - k) < Low(w))
           u == Bit(plain < 0)
           a == (plain - 96 * u - 6 * t) % 256
           carry == BinarySubtract(l, w, k, 128).c
<1>1. CmosSubtract(l, w, k).a = a /\ CmosSubtract(l, w, k).c = carry
  BY Zenon DEF CmosSubtract, BinarySubtract
<1>2. carry \in 0..1 /\ (carry = 1 <=> l - w - (1 - k) >= 0)
  BY BinarySubtractRight, ZenonT(40) DEF IsDifference
<1>3. /\ t \in 0..1 /\ (t = 1 <=> Low(l) - (1 - k) < Low(w))
      /\ u \in 0..1 /\ (u = 1 <=> plain < 0)
  BY DEF Bit
<1>4. a \in 0..255
  <2>1. plain \in Int
    OBVIOUS
  <2> HIDE DEF plain, t, u
  <2> QED
    BY <2>1, <1>3
<1>5. ASSUME IsDecimalByte(l), IsDecimalByte(w)
      PROVE  /\ IsDecimalByte(a)
             /\ ByteValue(a) = ByteValue(l) - ByteValue(w) - (1 - k) + 100 * (1 - carry)
  <2> DEFINE l0 == Low(l)  l1 == High(l)  w0 == Low(w)  w1 == High(w)  q == 1 - k
             low == l0 - w0 - q
             high == l1 - w1 - t
             s0 == low + 10 * t
             s1 == high + 10 * u
  <2>1. /\ l0 \in 0..9 /\ l1 \in 0..9 /\ w0 \in 0..9 /\ w1 \in 0..9 /\ q \in 0..1
        /\ l = 16 * l1 + l0 /\ w = 16 * w1 + w0
        /\ t \in 0..1 /\ (t = 1 <=> l0 - q < w0)
        /\ u \in 0..1 /\ (u = 1 <=> plain < 0)
        /\ plain = l - w - q
    BY <1>3, <1>5, Nibbles, SMTT(30) DEF IsDecimalByte
  <2>2. /\ ByteValue(l) = 10 * l1 + l0
        /\ ByteValue(w) = 10 * w1 + w0
        /\ ByteValue(a) = 10 * High(a) + Low(a)
    BY DEF ByteValue
  <2>3. a = (plain - 96 * u - 6 * t) % 256
    OBVIOUS
  <2> HIDE DEF plain, t, u, a, l0, l1, w0, w1, q
  <2>4. s0 \in 0..9 /\ high \in (-10)..9 /\ plain = 16 * high + s0 + 6 * t
    BY <2>1
  <2>5. u = 1 <=> high < 0
    <3> HIDE DEF s0, high
    <3> QED
      BY <2>1, <2>4
  <2>6. s1 \in 0..9 /\ Low(high - 6 * u) = s1 /\ high - 6 * u \in (-16)..9
    <3> HIDE DEF high
    <3>1. CASE u = 1
      BY <2>4, <2>5, <3>1, DigitDifference
    <3>2. CASE u = 0
      BY <2>4, <2>5, <3>2, DigitDifference
    <3> QED
      BY <2>1, <3>1, <3>2
  <2>7. 10 * s1 + s0 = (10 * l1 + l0) - (10 * w1 + w0) - q + 100 * u
    BY <2>1
  <2> HIDE DEF s0, s1, high
  <2>8. plain - 96 * u - 6 * t = 16 * (high - 6 * u) + s0
    BY <2>1, <2>4
  <2>9. a = 16 * s1 + s0
    BY <2>3, <2>4, <2>6, <2>8, MaskHigh
  <2>10. Low(a) = s0 /\ High(a) = s1
    BY <2>4, <2>6, <2>9, JoinNibbles
  <2>11. u = 1 - carry /\ q = 1 - k
    BY <2>1, <1>2 DEF q, plain
  <2>12. IsDecimalByte(a)
    BY <2>4, <2>6, <2>10 DEF IsDecimalByte
  <2> HIDE DEF carry
  <2> QED
    BY <2>1, <2>2, <2>7, <2>10, <2>11, <2>12
<1> HIDE DEF a, carry
<1> QED
  BY <1>1, <1>2, <1>4, <1>5 DEF IsDecimalDifference

-----------------------------------------------------------------------------
(* The program.                                                            *)

\* What the theorems are about: a program that goes byte by byte, on a part
\* that does not add decimal numbers digit by digit.
Bytewise == part # "wide" /\ (Decimal => part \in {"6502", "65c02"})

\* What a program has stored and left in the carry, half way through its bytes.
HalfRight(l, w, byte, carry) ==
    /\ (op = "add" /\ ~Decimal) => byte = l + w - 256 * carry
    /\ (op = "subtract" /\ ~Decimal) => byte = l - w + 256 * (1 - carry)
    /\ (op = "add" /\ Decimal /\ IsDecimalByte(l) /\ IsDecimalByte(w)) =>
           /\ IsDecimalByte(byte)
           /\ ByteValue(byte) = ByteValue(l) + ByteValue(w) - 100 * carry
    /\ (op = "subtract" /\ Decimal /\ IsDecimalByte(l) /\ IsDecimalByte(w)) =>
           /\ IsDecimalByte(byte)
           /\ ByteValue(byte) = ByteValue(l) - ByteValue(w) + 100 * (1 - carry)
    /\ op = "compare" => (carry = 1 <=> l >= w)

LowDone == r \in 0..255 /\ HalfRight(x % 256, y % 256, r, c)

OperandsOK ==
    /\ op \in {"add", "subtract", "compare"}
    /\ x \in Word
    /\ y \in Word
    /\ r \in Word
    /\ c \in 0..1
    /\ at \in 0..2

\* The carry a byte is about to be given is the program's, or stands for what
\* the byte below left; and what is done is right.
IInv ==
    /\ OperandsOK
    /\ at = 0 => c = CarryFor(op)
    /\ at = 1 => LowDone
    /\ ResultIsRight
    /\ CompareOrders

\* What the two instructions do to a byte on the parts the theorems are about.
LEMMA AddRight ==
  ASSUME Bytewise, NEW l \in 0..255, NEW w \in 0..255, c \in 0..1
  PROVE  IF Decimal THEN IsDecimalSum(add_with_carry(l, w, 128), l, w, c)
         ELSE IsSum(add_with_carry(l, w, 128), l, w, c)
<1>1. CASE Decimal
  <2>1. part \in {"6502", "65c02"}
    BY <1>1 DEF Bytewise
  <2>2. add_with_carry(l, w, 128) = DecimalAdd(l, w, c)
    BY <1>1, <2>1 DEF add_with_carry
  <2> QED
    BY <1>1, <2>2, DecimalAddRight
<1>2. CASE ~Decimal
  <2>1. add_with_carry(l, w, 128) = BinaryAdd(l, w, c, 128)
    BY <1>2 DEF add_with_carry
  <2> QED
    BY <1>2, <2>1, BinaryAddRight
<1> QED
  BY <1>1, <1>2

\* SBC, for the mode and the part: op_sbc and what it calls.
LEMMA SubtractRight ==
  ASSUME Bytewise, NEW l \in 0..255, NEW w \in 0..255, c \in 0..1
  PROVE  IF Decimal THEN IsDecimalDifference(subtract_with_carry(l, w, 128), l, w, c)
         ELSE IsDifference(subtract_with_carry(l, w, 128), l, w, c)
<1>1. CASE Decimal /\ part = "6502"
  <2>1. subtract_with_carry(l, w, 128) = NmosSubtract(l, w, c)
    BY <1>1 DEF subtract_with_carry
  <2> QED
    BY <1>1, <2>1, NmosSubtractRight
<1>2. CASE Decimal /\ part = "65c02"
  <2>1. subtract_with_carry(l, w, 128) = CmosSubtract(l, w, c)
    BY <1>2 DEF subtract_with_carry
  <2> QED
    BY <1>2, <2>1, CmosSubtractRight
<1>3. CASE ~Decimal
  <2>1. subtract_with_carry(l, w, 128) = BinarySubtract(l, w, c, 128)
    BY <1>3 DEF subtract_with_carry
  <2> QED
    BY <1>3, <2>1, BinarySubtractRight
<1> QED
  BY <1>1, <1>2, <1>3 DEF Bytewise

\* A comparison's carry on every part.
LEMMA SubtractOrders ==
  ASSUME Bytewise, NEW l \in 0..255, NEW w \in 0..255, c \in 0..1
  PROVE  /\ subtract_with_carry(l, w, 128).a \in 0..255
         /\ subtract_with_carry(l, w, 128).c \in 0..1
         /\ subtract_with_carry(l, w, 128).c = 1 <=> l - w - (1 - c) >= 0
<1>1. CASE Decimal
  BY <1>1, SubtractRight, ZenonT(40) DEF IsDecimalDifference
<1>2. CASE ~Decimal
  BY <1>2, SubtractRight, ZenonT(40) DEF IsDifference
<1> QED
  BY <1>1, <1>2

\* What the instructions are given.
LEMMA Operands ==
  ASSUME IInv
  PROVE  /\ op \in {"add", "subtract", "compare"}
         /\ c \in 0..1
         /\ (x % 256) \in 0..255 /\ (x \div 256) \in 0..255
         /\ (y % 256) \in 0..255 /\ (y \div 256) \in 0..255
<1>1. op \in {"add", "subtract", "compare"} /\ c \in 0..1
  BY DEF IInv, OperandsOK
<1>2. x \in Word /\ y \in Word
  BY DEF IInv, OperandsOK
<1>3. (x % 256) \in 0..255 /\ (x \div 256) \in 0..255
  BY <1>2, Bytes
<1>4. (y % 256) \in 0..255 /\ (y \div 256) \in 0..255
  BY <1>2, Bytes
<1> QED
  BY <1>1, <1>3, <1>4

\* The low byte of a program leaves what LowDone says.
LEMMA LowByteRight ==
  ASSUME IInv, Bytewise, LowByte
  PROVE  c' \in 0..1 /\ LowDone'
<1> DEFINE l == x % 256
           w == y % 256
           s == Result(0, l, w, 128)
<1>1. /\ at = 0 /\ r' = s.a /\ c' = s.c /\ x' = x /\ y' = y /\ op' = op
      /\ d' = d /\ part' = part
  BY DEF LowByte, Flags
<1>2. /\ l \in 0..255 /\ w \in 0..255 /\ c \in 0..1 /\ c = CarryFor(op)
      /\ op \in {"add", "subtract", "compare"}
  <2>1. at = 0
    BY DEF LowByte
  <2>2. c = CarryFor(op)
    BY <2>1 DEF IInv
  <2> QED
    BY <2>2, Operands
<1> HIDE DEF l, w
<1> SUFFICES s.a \in 0..255 /\ s.c \in 0..1 /\ HalfRight(l, w, s.a, s.c)
  <2> HIDE DEF s
  <2>1. LowDone' <=> r' \in 0..255 /\ HalfRight(l, w, r', c')
    BY <1>1 DEF LowDone, HalfRight, Decimal, l, w
  <2> QED
    BY <1>1, <2>1
<1>3. CASE op = "add"
  <2>1. s = add_with_carry(l, w, 128) /\ c = 0
    BY <1>2, <1>3 DEF Result, CarryFor, Bit
  <2> HIDE DEF s
  <2>2. CASE Decimal
    <3>1. IsDecimalSum(s, l, w, 0)
      BY <1>2, <2>1, <2>2, AddRight
    <3>2. s.a \in 0..255 /\ s.c \in 0..1
      BY <3>1 DEF IsDecimalSum
    <3>3. ASSUME IsDecimalByte(l), IsDecimalByte(w)
          PROVE  /\ IsDecimalByte(s.a)
                 /\ ByteValue(s.a) = ByteValue(l) + ByteValue(w) - 100 * s.c
      <4>1. ByteValue(l) \in 0..165 /\ ByteValue(w) \in 0..165
        BY <1>2, ByteValueType
      <4>2. /\ IsDecimalByte(s.a)
            /\ ByteValue(s.a) = ByteValue(l) + ByteValue(w) + 0 - 100 * s.c
        BY <3>1, <3>3, Zenon DEF IsDecimalSum
      <4> DEFINE b == ByteValue(s.a)  bl == ByteValue(l)  bw == ByteValue(w)  k == s.c
      <4>3. b = bl + bw + 0 - 100 * k /\ bl \in 0..165 /\ bw \in 0..165 /\ k \in 0..1
        BY <3>2, <4>1, <4>2
      <4> HIDE DEF b, bl, bw, k
      <4>4. b = bl + bw - 100 * k
        BY <4>3
      <4> QED
        BY <4>2, <4>4 DEF b, bl, bw, k
    <3> QED
      BY <1>3, <2>2, <3>2, <3>3 DEF HalfRight
  <2>3. CASE ~Decimal
    <3>1. IsSum(s, l, w, 0)
      BY <1>2, <2>1, <2>3, AddRight
    <3> QED
      BY <1>2, <1>3, <2>3, <3>1 DEF HalfRight, IsSum
  <2> QED
    BY <2>2, <2>3
<1>4. CASE op = "subtract"
  <2>1. s = subtract_with_carry(l, w, 128) /\ c = 1
    BY <1>2, <1>4 DEF Result, CarryFor, Bit
  <2> HIDE DEF s
  <2>2. CASE Decimal
    <3>1. IsDecimalDifference(s, l, w, 1)
      BY <1>2, <2>1, <2>2, SubtractRight
    <3>2. s.a \in 0..255 /\ s.c \in 0..1
      BY <3>1 DEF IsDecimalDifference
    <3>3. ASSUME IsDecimalByte(l), IsDecimalByte(w)
          PROVE  /\ IsDecimalByte(s.a)
                 /\ ByteValue(s.a) = ByteValue(l) - ByteValue(w) + 100 * (1 - s.c)
      <4>1. ByteValue(l) \in 0..165 /\ ByteValue(w) \in 0..165
        BY <1>2, ByteValueType
      <4> QED
        BY <3>1, <3>2, <3>3, <4>1 DEF IsDecimalDifference
    <3> QED
      BY <1>4, <2>2, <3>2, <3>3 DEF HalfRight
  <2>3. CASE ~Decimal
    <3>1. IsDifference(s, l, w, 1)
      BY <1>2, <2>1, <2>3, SubtractRight
    <3> QED
      BY <1>2, <1>4, <2>3, <3>1 DEF HalfRight, IsDifference
  <2> QED
    BY <2>2, <2>3
<1>5. CASE op = "compare"
  <2>1. s.a = l /\ s.c = Bit(l >= w)
    BY <1>2, <1>5 DEF Result, compare
  <2> HIDE DEF s
  <2> QED
    BY <1>2, <1>5, <2>1 DEF HalfRight, Bit
<1> QED
  BY <1>2, <1>3, <1>4, <1>5

\* Two bytes of a decimal number, one above the other.
LEMMA JoinDecimal ==
  ASSUME NEW h \in 0..255, NEW l \in 0..255
  PROVE  /\ DecimalValue(l + 256 * h) = 100 * ByteValue(h) + ByteValue(l)
         /\ IsDecimal(l + 256 * h) <=> IsDecimalByte(h) /\ IsDecimalByte(l)
<1> DEFINE word == l + 256 * h
<1>1. (word \div 256) = h /\ (word % 256) = l
  BY JoinBytes
<1> HIDE DEF word
<1>2. /\ DecimalValue(word) = 100 * ByteValue(h) + ByteValue(l)
      /\ IsDecimal(word) <=> IsDecimalByte(h) /\ IsDecimalByte(l)
  BY <1>1 DEF DecimalValue, IsDecimal
<1> QED
  BY <1>2 DEF word

\* The high byte completes what the low one began.
LEMMA HighByteRight ==
  ASSUME IInv, Bytewise, HighByte
  PROVE  r' \in Word /\ c' \in 0..1 /\ ResultIsRight' /\ CompareOrders'
<1> DEFINE l0 == x % 256  l1 == x \div 256
           w0 == y % 256  w1 == y \div 256
           s == Result(1, l1, w1, 128)
<1>1. /\ r' = r + 256 * s.a /\ c' = s.c /\ x' = x /\ y' = y /\ op' = op
      /\ d' = d /\ part' = part
  BY DEF HighByte, Flags
<1>2. /\ l0 \in 0..255 /\ l1 \in 0..255 /\ w0 \in 0..255 /\ w1 \in 0..255
      /\ c \in 0..1 /\ op \in {"add", "subtract", "compare"}
  BY Operands
<1>3. x = 256 * l1 + l0 /\ y = 256 * w1 + w0
  BY Bytes DEF IInv, OperandsOK
<1>4. r \in 0..255 /\ HalfRight(l0, w0, r, c)
  <2>1. at = 1
    BY DEF HighByte
  <2> QED
    BY <2>1 DEF IInv, LowDone
<1> HIDE DEF l0, l1, w0, w1
<1>5. /\ DecimalValue(x) = 100 * ByteValue(l1) + ByteValue(l0)
      /\ IsDecimal(x) <=> IsDecimalByte(l1) /\ IsDecimalByte(l0)
      /\ DecimalValue(y) = 100 * ByteValue(w1) + ByteValue(w0)
      /\ IsDecimal(y) <=> IsDecimalByte(w1) /\ IsDecimalByte(w0)
  BY DEF DecimalValue, IsDecimal, l0, l1, w0, w1
<1>6. CASE op = "add"
  <2>1. s = add_with_carry(l1, w1, 128)
    BY <1>6 DEF Result
  <2> HIDE DEF s
  <2>2. CASE Decimal
    <3>1. IsDecimalSum(s, l1, w1, c)
      BY <1>2, <2>1, <2>2, AddRight
    <3>2. s.a \in 0..255 /\ s.c \in 0..1
      BY <3>1 DEF IsDecimalSum
    <3>3. ASSUME IsDecimal(x), IsDecimal(y)
          PROVE  /\ IsDecimal(r')
                 /\ DecimalValue(r') = DecimalValue(x) + DecimalValue(y) - 10000 * s.c
      <4>1. /\ IsDecimalByte(s.a) /\ IsDecimalByte(r)
            /\ ByteValue(s.a) = ByteValue(l1) + ByteValue(w1) + c - 100 * s.c
            /\ ByteValue(r) = ByteValue(l0) + ByteValue(w0) - 100 * c
        BY <1>4, <1>5, <1>6, <2>2, <3>1, <3>3 DEF IsDecimalSum, HalfRight
      <4>2. /\ IsDecimal(r')
            /\ DecimalValue(r') = 100 * ByteValue(s.a) + ByteValue(r)
        BY <1>1, <1>4, <3>2, <4>1, JoinDecimal, ZenonT(40)
      <4>3. /\ ByteValue(l0) \in 0..165 /\ ByteValue(w0) \in 0..165
            /\ ByteValue(l1) \in 0..165 /\ ByteValue(w1) \in 0..165
        BY <1>2, ByteValueType
      <4> DEFINE b0 == ByteValue(r)   b1 == ByteValue(s.a)  q == s.c
                 l0v == ByteValue(l0)  l1v == ByteValue(l1)
                 w0v == ByteValue(w0)  w1v == ByteValue(w1)
      <4>4. /\ l0v \in 0..165 /\ l1v \in 0..165 /\ w0v \in 0..165 /\ w1v \in 0..165
            /\ c \in 0..1 /\ q \in 0..1
            /\ b0 = l0v + w0v - 100 * c
            /\ b1 = l1v + w1v + c - 100 * q
        BY <1>2, <3>2, <4>1, <4>3
      <4> HIDE DEF b0, b1, q, l0v, l1v, w0v, w1v
      <4>5. 100 * b1 + b0 = (100 * l1v + l0v) + (100 * w1v + w0v) - 10000 * q
        BY <4>4
      <4>6. /\ DecimalValue(x) = 100 * l1v + l0v
            /\ DecimalValue(y) = 100 * w1v + w0v
            /\ DecimalValue(r') = 100 * b1 + b0
            /\ s.c = q
        BY <1>5, <4>2 DEF b0, b1, q, l0v, l1v, w0v, w1v
      <4> QED
        BY <4>2, <4>5, <4>6
    <3>4. r' \in Word
      BY <1>1, <1>4, <3>2, JoinBytes
    <3>5. ResultIsRight'
      BY <1>1, <1>6, <2>2, <3>3 DEF ResultIsRight, Decimal
    <3> QED
      BY <1>1, <1>6, <3>2, <3>4, <3>5 DEF CompareOrders
  <2>3. CASE ~Decimal
    <3>1. IsSum(s, l1, w1, c)
      BY <1>2, <2>1, <2>3, AddRight
    <3>2. s.a \in 0..255 /\ s.c \in 0..1 /\ s.a = l1 + w1 + c - 256 * s.c
      BY <3>1 DEF IsSum
    <3>3. r = l0 + w0 - 256 * c
      BY <1>4, <1>6, <2>3 DEF HalfRight
    <3>4. r' = x + y - 65536 * s.c
      BY <1>1, <1>2, <1>3, <3>2, <3>3
    <3>5. r' \in Word
      BY <1>1, <1>4, <3>2, JoinBytes
    <3>6. ResultIsRight'
      BY <1>1, <1>6, <2>3, <3>4 DEF ResultIsRight, Decimal
    <3> QED
      BY <1>1, <1>6, <3>2, <3>5, <3>6 DEF CompareOrders
  <2> QED
    BY <2>2, <2>3
<1>7. CASE op = "subtract"
  <2>1. s = subtract_with_carry(l1, w1, 128)
    BY <1>7 DEF Result
  <2> HIDE DEF s
  <2>2. CASE Decimal
    <3>1. IsDecimalDifference(s, l1, w1, c)
      BY <1>2, <2>1, <2>2, SubtractRight
    <3>2. s.a \in 0..255 /\ s.c \in 0..1
      BY <3>1 DEF IsDecimalDifference
    <3>3. ASSUME IsDecimal(x), IsDecimal(y)
          PROVE  /\ IsDecimal(r')
                 /\ DecimalValue(r') = DecimalValue(x) - DecimalValue(y) + 10000 * (1 - s.c)
      <4>1. /\ IsDecimalByte(s.a) /\ IsDecimalByte(r)
            /\ ByteValue(s.a) = ByteValue(l1) - ByteValue(w1) - (1 - c) + 100 * (1 - s.c)
            /\ ByteValue(r) = ByteValue(l0) - ByteValue(w0) + 100 * (1 - c)
        BY <1>4, <1>5, <1>7, <2>2, <3>1, <3>3 DEF IsDecimalDifference, HalfRight
      <4>2. /\ IsDecimal(r')
            /\ DecimalValue(r') = 100 * ByteValue(s.a) + ByteValue(r)
        BY <1>1, <1>4, <3>2, <4>1, JoinDecimal, ZenonT(40)
      <4>3. /\ ByteValue(l0) \in 0..165 /\ ByteValue(w0) \in 0..165
            /\ ByteValue(l1) \in 0..165 /\ ByteValue(w1) \in 0..165
        BY <1>2, ByteValueType
      <4> DEFINE b0 == ByteValue(r)   b1 == ByteValue(s.a)  q == s.c
                 l0v == ByteValue(l0)  l1v == ByteValue(l1)
                 w0v == ByteValue(w0)  w1v == ByteValue(w1)
      <4>4. /\ l0v \in 0..165 /\ l1v \in 0..165 /\ w0v \in 0..165 /\ w1v \in 0..165
            /\ c \in 0..1 /\ q \in 0..1
            /\ b0 = l0v - w0v + 100 * (1 - c)
            /\ b1 = l1v - w1v - (1 - c) + 100 * (1 - q)
        BY <1>2, <3>2, <4>1, <4>3
      <4> HIDE DEF b0, b1, q, l0v, l1v, w0v, w1v
      <4>5. 100 * b1 + b0 = (100 * l1v + l0v) - (100 * w1v + w0v) + 10000 * (1 - q)
        BY <4>4
      <4>6. /\ DecimalValue(x) = 100 * l1v + l0v
            /\ DecimalValue(y) = 100 * w1v + w0v
            /\ DecimalValue(r') = 100 * b1 + b0
            /\ s.c = q
        BY <1>5, <4>2 DEF b0, b1, q, l0v, l1v, w0v, w1v
      <4> QED
        BY <4>2, <4>5, <4>6
    <3>4. r' \in Word
      BY <1>1, <1>4, <3>2, JoinBytes
    <3>5. ResultIsRight'
      BY <1>1, <1>7, <2>2, <3>3 DEF ResultIsRight, Decimal
    <3> QED
      BY <1>1, <1>7, <3>2, <3>4, <3>5 DEF CompareOrders
  <2>3. CASE ~Decimal
    <3>1. IsDifference(s, l1, w1, c)
      BY <1>2, <2>1, <2>3, SubtractRight
    <3>2. s.a \in 0..255 /\ s.c \in 0..1 /\ s.a = l1 - w1 - (1 - c) + 256 * (1 - s.c)
      BY <3>1 DEF IsDifference
    <3>3. r = l0 - w0 + 256 * (1 - c)
      BY <1>4, <1>7, <2>3 DEF HalfRight
    <3>4. r' = x - y + 65536 * (1 - s.c)
      BY <1>1, <1>2, <1>3, <3>2, <3>3
    <3>5. r' \in Word
      BY <1>1, <1>4, <3>2, JoinBytes
    <3>6. ResultIsRight'
      BY <1>1, <1>7, <2>3, <3>4 DEF ResultIsRight, Decimal
    <3> QED
      BY <1>1, <1>7, <3>2, <3>5, <3>6 DEF CompareOrders
  <2> QED
    BY <2>2, <2>3
<1>8. CASE op = "compare"
  <2>1. s = subtract_with_carry(l1, w1, 128)
    BY <1>8 DEF Result
  <2> HIDE DEF s
  <2>2. s.a \in 0..255 /\ s.c \in 0..1 /\ (s.c = 1 <=> l1 - w1 - (1 - c) >= 0)
    BY <1>2, <2>1, SubtractOrders, ZenonT(40)
  <2>3. c = 1 <=> l0 >= w0
    BY <1>4, <1>8 DEF HalfRight
  <2>4. s.c = 1 <=> x >= y
    BY <1>2, <1>3, <2>2, <2>3
  <2>5. r' \in Word
    BY <1>1, <1>4, <2>2, JoinBytes
  <2>6. ResultIsRight' /\ CompareOrders'
    BY <1>1, <1>8, <2>4 DEF ResultIsRight, CompareOrders
  <2> QED
    BY <1>1, <2>2, <2>5, <2>6
<1> QED
  BY <1>2, <1>6, <1>7, <1>8

\* The invariant begins: CLC or SEC is what the program starts with.
LEMMA InitIInv == Init => IInv
<1> SUFFICES ASSUME Init PROVE IInv
  OBVIOUS
<1>1. x \in Word /\ y \in Word
  BY NumbersAssumption DEF Init, Word
<1>2. OperandsOK
  BY <1>1 DEF Init, OperandsOK, Word, CarryFor, Bit
<1> QED
  BY <1>2 DEF Init, IInv, ResultIsRight, CompareOrders

\* And every step keeps it, on the parts the theorems are about.
LEMMA StepIInv == IInv /\ Bytewise /\ [Next]_vars => IInv' /\ Bytewise'
<1> SUFFICES ASSUME IInv, Bytewise, [Next]_vars
             PROVE  IInv' /\ Bytewise'
  OBVIOUS
<1>1. CASE LowByte
  <2>1. c' \in 0..1 /\ LowDone'
    BY <1>1, LowByteRight
  <2>2. at' = 1 /\ op' = op /\ x' = x /\ y' = y /\ d' = d /\ part' = part
    BY <1>1 DEF LowByte
  <2>3. OperandsOK'
    BY <2>1, <2>2 DEF IInv, OperandsOK, LowDone, Word
  <2> QED
    BY <2>1, <2>2, <2>3 DEF IInv, ResultIsRight, CompareOrders, Bytewise, Decimal
<1>2. CASE HighByte
  <2>1. r' \in Word /\ c' \in 0..1 /\ ResultIsRight' /\ CompareOrders'
    BY <1>2, HighByteRight
  <2>2. at' = 2 /\ op' = op /\ x' = x /\ y' = y /\ d' = d /\ part' = part
    BY <1>2 DEF HighByte
  <2>3. OperandsOK'
    BY <2>1, <2>2 DEF IInv, OperandsOK
  <2> QED
    BY <2>1, <2>2, <2>3 DEF IInv, Bytewise, Decimal
<1>3. CASE UNCHANGED vars
  BY <1>3 DEF vars, IInv, OperandsOK, LowDone, HalfRight, ResultIsRight, CompareOrders,
              Bytewise, Decimal, CarryFor
<1> QED
  BY <1>1, <1>2, <1>3 DEF Next, BothBytes, Bytewise

\* Whatever the numbers, ADC and SBC a byte at a time through the carry give
\* the sum and the difference: in binary on every core, in decimal on the NMOS
\* and CMOS ones.
THEOREM BytewiseResultIsRight == Spec => [](Bytewise => ResultIsRight)
<1>1. Init => (Bytewise => IInv)
  BY InitIInv
<1>2. (Bytewise => IInv) /\ [Next]_vars => (Bytewise => IInv)'
  <2>1. ASSUME ~Bytewise, [Next]_vars
        PROVE  ~Bytewise'
    BY <2>1 DEF Bytewise, Decimal, Next, LowByte, HighByte, BothBytes, vars
  <2> QED
    BY <2>1, StepIInv
<1>3. (Bytewise => IInv) => (Bytewise => ResultIsRight)
  BY DEF IInv
<1> QED
  BY <1>1, <1>2, <1>3, PTL DEF Spec

\* And CMP of the low bytes followed by SBC of the high ones orders them.
THEOREM BytewiseCompareOrders == Spec => [](Bytewise => CompareOrders)
<1>1. Init => (Bytewise => IInv)
  BY InitIInv
<1>2. (Bytewise => IInv) /\ [Next]_vars => (Bytewise => IInv)'
  <2>1. ASSUME ~Bytewise, [Next]_vars
        PROVE  ~Bytewise'
    BY <2>1 DEF Bytewise, Decimal, Next, LowByte, HighByte, BothBytes, vars
  <2> QED
    BY <2>1, StepIInv
<1>3. (Bytewise => IInv) => (Bytewise => CompareOrders)
  BY DEF IInv
<1> QED
  BY <1>1, <1>2, <1>3, PTL DEF Spec

-----------------------------------------------------------------------------
(* Overflow.                                                               *)

\* A byte read as signed, and a number that is no such byte or no such word.
SignedByte(byte) == IF byte >= 128 THEN byte - 256 ELSE byte

OutOfByte(h) == h < -128 \/ h > 127

OutOfWord(h) == h < -32768 \/ h > 32767

LEMMA OutOfRange ==
  ASSUME NEW h \in Int
  PROVE  OutOfWord(h) <=> h \notin SignedWords
<1> DEFINE a == -32768  b == 32767
<1>1. a \in Int /\ b \in Int
  OBVIOUS
<1>2. OutOfWord(h) <=> ~(h >= a /\ h <= b)
  BY DEF OutOfWord
<1> HIDE DEF a, b
<1>3. OutOfWord(h) <=> h \notin a..b
  BY <1>1, <1>2
<1> QED
  BY <1>3, SMTT(30) DEF a, b, SignedWords

LEMMA SignOfByte ==
  ASSUME NEW k \in 0..255
  PROVE  Sign(k, 128) = IF k >= 128 THEN 1 ELSE 0
<1>1. CASE k >= 128
  <2>1. k \div 128 = 1
    BY <1>1, SMTT(60)
  <2> QED
    BY <1>1, <2>1 DEF Sign
<1>2. CASE k < 128
  <2>1. k \div 128 = 0
    BY <1>2, SMTT(60)
  <2> QED
    BY <1>2, <2>1 DEF Sign
<1> QED
  BY <1>1, <1>2

\* The sum of two bytes and a carry is looked at with its ninth bit in place.
LEMMA SignOfSum ==
  ASSUME NEW k \in 0..511
  PROVE  Sign(k, 128) = IF k \in 128..255 \/ k >= 384 THEN 1 ELSE 0
<1>1. CASE k < 256
  BY <1>1, SignOfByte
<1>2. CASE k >= 256 /\ k < 384
  <2>1. k \div 128 = 2
    BY <1>2, SMTT(60)
  <2> QED
    BY <1>2, <2>1 DEF Sign
<1>3. CASE k >= 384
  <2>1. k \div 128 = 3
    BY <1>3, SMTT(60)
  <2> QED
    BY <1>3, <2>1 DEF Sign
<1> QED
  BY <1>1, <1>2, <1>3

\* What the flags of the high byte of a binary sum tell of its bytes.
LEMMA SumFlags ==
  ASSUME NEW l \in 0..255, NEW w \in 0..255, NEW k \in 0..1
  PROVE  /\ BinaryAdd(l, w, k, 128).v = 1
               <=> OutOfByte(SignedByte(l) + SignedByte(w) + k)
         /\ BinaryAdd(l, w, k, 128).signs = BinaryAdd(l, w, k, 128).a
<1> DEFINE s == BinaryAdd(l, w, k, 128)
           t == l + w + k
<1>1. t \in 0..511
  OBVIOUS
<1>2. /\ s.v = Bit(Sign(l, 128) = Sign(w, 128) /\ Sign(l, 128) # Sign(t, 128))
      /\ s.signs = s.a
  BY Zenon DEF BinaryAdd, SumOverflows
<1>3. /\ Sign(l, 128) = IF l >= 128 THEN 1 ELSE 0
      /\ Sign(w, 128) = IF w >= 128 THEN 1 ELSE 0
  BY SignOfByte
<1>4. Sign(t, 128) = IF t \in 128..255 \/ t >= 384 THEN 1 ELSE 0
  BY <1>1, SignOfSum
<1> QED
  BY <1>1, <1>2, <1>3, <1>4 DEF Bit, SignedByte, OutOfByte

LEMMA DifferenceFlags ==
  ASSUME NEW l \in 0..255, NEW w \in 0..255, NEW k \in 0..1
  PROVE  /\ BinarySubtract(l, w, k, 128).v = 1
               <=> OutOfByte(SignedByte(l) - SignedByte(w) - (1 - k))
         /\ BinarySubtract(l, w, k, 128).signs = BinarySubtract(l, w, k, 128).a
<1> DEFINE s == BinarySubtract(l, w, k, 128)
<1>1. /\ s.v = Bit(Sign(l, 128) # Sign(w, 128) /\ Sign(l, 128) # Sign(s.a, 128))
      /\ s.signs = s.a
  BY Zenon DEF BinarySubtract, DifferenceOverflows
<1>2. IsDifference(s, l, w, k)
  BY BinarySubtractRight
<1>3. /\ s.a \in 0..255 /\ s.c \in 0..1
      /\ s.c = 1 <=> l - w - (1 - k) >= 0
      /\ s.a = l - w - (1 - k) + 256 * (1 - s.c)
  BY <1>2 DEF IsDifference
<1>4. /\ Sign(l, 128) = IF l >= 128 THEN 1 ELSE 0
      /\ Sign(w, 128) = IF w >= 128 THEN 1 ELSE 0
      /\ Sign(s.a, 128) = IF s.a >= 128 THEN 1 ELSE 0
  BY <1>3, SignOfByte
<1>5. s.v = 1 <=> OutOfByte(SignedByte(l) - SignedByte(w) - (1 - k))
  <2> DEFINE a == s.a  b == s.c
  <2>1. /\ a \in 0..255 /\ b \in 0..1
        /\ b = 1 <=> l - w - (1 - k) >= 0
        /\ a = l - w - (1 - k) + 256 * (1 - b)
        /\ Sign(a, 128) = IF a >= 128 THEN 1 ELSE 0
    BY <1>3, <1>4
  <2>2. s.v = Bit(Sign(l, 128) # Sign(w, 128) /\ Sign(l, 128) # Sign(a, 128))
    BY <1>1
  <2> HIDE DEF a, b, s
  <2> QED
    BY <1>4, <2>1, <2>2 DEF Bit, SignedByte, OutOfByte
<1> QED
  BY <1>1, <1>5

\* In decimal the flag of a difference is the binary one's on both cores.
LEMMA DecimalDifferenceFlags ==
  ASSUME NEW l \in 0..255, NEW w \in 0..255, NEW k \in 0..1
  PROVE  /\ NmosSubtract(l, w, k).v = BinarySubtract(l, w, k, 128).v
         /\ CmosSubtract(l, w, k).v = BinarySubtract(l, w, k, 128).v
<1>1. BinarySubtract(l, w, k, 128) \in [a : {BinarySubtract(l, w, k, 128).a},
                                        c : {BinarySubtract(l, w, k, 128).c},
                                        v : {BinarySubtract(l, w, k, 128).v},
                                        signs : {BinarySubtract(l, w, k, 128).signs},
                                        zero : {BinarySubtract(l, w, k, 128).zero}]
  BY DEF BinarySubtract
<1> QED
  BY <1>1 DEF NmosSubtract, CmosSubtract

\* A word read as signed is its high byte so read, and its low one.
LEMMA SignedWord ==
  ASSUME NEW w \in Word
  PROVE  Signed(w) = 256 * SignedByte(w \div 256) + (w % 256)
<1>1. (w % 256) \in 0..255 /\ (w \div 256) \in 0..255 /\ w = 256 * (w \div 256) + (w % 256)
  BY Bytes
<1> QED
  BY <1>1 DEF Signed, SignedByte, Word

\* The low byte of a sum or a difference does not take it out of range.
LEMMA HighDecides ==
  ASSUME NEW h \in Int, NEW m \in 0..255
  PROVE  OutOfWord(256 * h + m) <=> OutOfByte(h)
  BY DEF OutOfWord, OutOfByte

\* The carry a difference leaves half way is a borrow that was not needed, in
\* decimal and of bytes that are no decimal ones too.
Borrowed == at = 1 /\ op = "subtract" => (c = 1 <=> x % 256 >= y % 256)

Flagged == IInv /\ Borrowed /\ OverflowIsSigned

LEMMA LowByteFlagged ==
  ASSUME Flagged, Bytewise, LowByte
  PROVE  Borrowed' /\ OverflowIsSigned'
<1> DEFINE l == x % 256
           w == y % 256
<1>1. l \in 0..255 /\ w \in 0..255 /\ c \in 0..1
  BY Operands DEF Flagged
<1>2. at' = 1 /\ op' = op /\ x' = x /\ y' = y /\ c = CarryFor(op)
  BY DEF LowByte, Flagged, IInv
<1>3. c' = Result(0, l, w, 128).c
  BY DEF LowByte, Flags
<1>4. ASSUME op = "subtract" PROVE c' = 1 <=> l >= w
  <2>1. Result(0, l, w, 128) = subtract_with_carry(l, w, 128)
    BY <1>4 DEF Result
  <2>2. c = 1
    BY <1>2, <1>4 DEF CarryFor, Bit
  <2> HIDE DEF l, w
  <2>3. subtract_with_carry(l, w, 128).c = 1 <=> l - w - (1 - c) >= 0
    BY <1>1, SubtractOrders
  <2> QED
    BY <1>1, <1>3, <2>1, <2>2, <2>3
<1> QED
  BY <1>2, <1>4 DEF Borrowed, OverflowIsSigned

LEMMA HighByteFlagged ==
  ASSUME Flagged, Bytewise, HighByte
  PROVE  OverflowIsSigned'
<1> DEFINE l0 == x % 256  l1 == x \div 256
           w0 == y % 256  w1 == y \div 256
           s == Result(1, l1, w1, 128)
           exact == IF op = "add" THEN Signed(x) + Signed(y) ELSE Signed(x) - Signed(y)
<1>1. /\ r' = r + 256 * s.a /\ v' = s.v /\ n' = Sign(s.signs, 128)
      /\ x' = x /\ y' = y /\ op' = op /\ d' = d /\ part' = part /\ at = 1
  BY DEF HighByte, Flags
<1>2. /\ l0 \in 0..255 /\ l1 \in 0..255 /\ w0 \in 0..255 /\ w1 \in 0..255 /\ c \in 0..1
  BY Operands DEF Flagged
<1>3. Signed(x) = 256 * SignedByte(l1) + l0 /\ Signed(y) = 256 * SignedByte(w1) + w0
  BY SignedWord DEF Flagged, IInv, OperandsOK
<1>4. r \in 0..255 /\ HalfRight(l0, w0, r, c)
  BY <1>1 DEF Flagged, IInv, LowDone
<1>5. op = "subtract" => (c = 1 <=> l0 >= w0)
  BY <1>1 DEF Flagged, Borrowed
<1>6. SignedByte(l1) \in Int /\ SignedByte(w1) \in Int
  BY <1>2 DEF SignedByte
<1> HIDE DEF l0, l1, w0, w1
<1>7. ASSUME s.signs = s.a, s.a \in 0..255
      PROVE  n' = 1 <=> r' >= 32768
  <2>1. Sign(s.a, 128) = IF s.a >= 128 THEN 1 ELSE 0
    BY <1>7, SignOfByte
  <2> HIDE DEF s
  <2> QED
    BY <1>1, <1>4, <1>7, <2>1
<1>8. ASSUME op = "add", ~Decimal
      PROVE  (v' = 1 <=> OutOfWord(exact)) /\ (n' = 1 <=> r' >= 32768)
  <2>1. s = BinaryAdd(l1, w1, c, 128)
    BY <1>8 DEF Result, add_with_carry
  <2> HIDE DEF s
  <2>2. /\ s.v = 1 <=> OutOfByte(SignedByte(l1) + SignedByte(w1) + c)
        /\ s.signs = s.a
    BY <1>2, <2>1, SumFlags, ZenonT(40)
  <2>3. s.a \in 0..255
    BY <1>2, <2>1, BinaryAddRight, ZenonT(40) DEF IsSum
  <2>4. r = l0 + w0 - 256 * c
    BY <1>4, <1>8 DEF HalfRight
  <2> DEFINE h == SignedByte(l1) + SignedByte(w1) + c
  <2>5. h \in Int /\ exact = 256 * h + r
    <3> DEFINE p == SignedByte(l1)  q == SignedByte(w1)
    <3>1. p \in Int /\ q \in Int /\ h = p + q + c /\ exact = (256 * p + l0) + (256 * q + w0)
      BY <1>3, <1>6, <1>8
    <3> HIDE DEF p, q, h, exact
    <3> QED
      BY <1>2, <2>4, <3>1
  <2>6. v' = 1 <=> OutOfByte(h)
    BY <1>1, <2>2
  <2> HIDE DEF h, exact
  <2>7. v' = 1 <=> OutOfWord(exact)
    BY <1>4, <2>5, <2>6, HighDecides
  <2> QED
    BY <1>7, <1>8, <2>2, <2>3, <2>7
<1>9. ASSUME op = "subtract"
      PROVE  /\ v' = 1 <=> OutOfWord(exact)
             /\ ~Decimal => (n' = 1 <=> r' >= 32768)
  <2>1. s = subtract_with_carry(l1, w1, 128)
    BY <1>9 DEF Result
  <2>2. s.v = BinarySubtract(l1, w1, c, 128).v
    <3>1. CASE ~Decimal
      BY <2>1, <3>1 DEF subtract_with_carry
    <3>2. CASE Decimal
      <4>1. s = NmosSubtract(l1, w1, c) \/ s = CmosSubtract(l1, w1, c)
        BY <2>1, <3>2 DEF subtract_with_carry, Bytewise
      <4>2. /\ NmosSubtract(l1, w1, c).v = BinarySubtract(l1, w1, c, 128).v
            /\ CmosSubtract(l1, w1, c).v = BinarySubtract(l1, w1, c, 128).v
        BY <1>2, DecimalDifferenceFlags
      <4> HIDE DEF s
      <4> QED
        BY <4>1, <4>2, Zenon
    <3> QED
      BY <3>1, <3>2
  <2>3. ASSUME ~Decimal PROVE s.signs = s.a /\ s.a \in 0..255
    <3>1. s = BinarySubtract(l1, w1, c, 128)
      BY <2>1, <2>3 DEF subtract_with_carry
    <3> QED
      <4> HIDE DEF s
      <4>1. IsDifference(s, l1, w1, c) /\ s.signs = s.a
        BY <1>2, <3>1, DifferenceFlags, BinarySubtractRight, ZenonT(40)
      <4> QED
        BY <4>1 DEF IsDifference
  <2> DEFINE h == SignedByte(l1) - SignedByte(w1) - (1 - c)
             low == l0 - w0 + 256 * (1 - c)
  <2> HIDE DEF s
  <2>4. v' = 1 <=> OutOfByte(h)
    BY <1>1, <1>2, <2>2, DifferenceFlags, ZenonT(40)
  <2>5. c = 1 <=> l0 >= w0
    BY <1>5, <1>9
  <2>6. low \in 0..255
    BY <1>2, <2>5
  <2>7. h \in Int /\ exact = 256 * h + low
    <3> DEFINE p == SignedByte(l1)  q == SignedByte(w1)
    <3>1. /\ p \in Int /\ q \in Int /\ h = p - q - (1 - c)
          /\ exact = (256 * p + l0) - (256 * q + w0)
      BY <1>3, <1>6, <1>9
    <3> HIDE DEF p, q, h, exact
    <3> QED
      BY <1>2, <3>1
  <2> HIDE DEF h, low, exact
  <2>8. v' = 1 <=> OutOfWord(exact)
    BY <2>4, <2>6, <2>7, HighDecides
  <2> QED
    BY <1>7, <1>9, <2>3, <2>8
<1>10. ASSUME (op = "add" /\ ~Decimal) \/ op = "subtract"
       PROVE  /\ v' = 1 <=> OutOfWord(exact)
              /\ ~Decimal => (n' = 1 <=> r' >= 32768)
  BY <1>8, <1>9, <1>10
<1>11. exact' = exact
  BY <1>1 DEF exact
<1> HIDE DEF exact
<1>12. op' # "compare" /\ (~Decimal \/ op = "subtract") => (op = "add" /\ ~Decimal) \/ op = "subtract"
  BY <1>1, Operands DEF Flagged
<1>13. exact \in Int
  <2>1. Signed(x) \in Int /\ Signed(y) \in Int
    BY <1>2, <1>3, <1>6
  <2> QED
    BY <2>1 DEF exact
<1>14. OutOfWord(exact) <=> exact \notin SignedWords
  BY <1>13, OutOfRange
<1> QED
  BY <1>1, <1>10, <1>11, <1>12, <1>14 DEF OverflowIsSigned, Decimal, exact

LEMMA FlaggedStep == Flagged /\ Bytewise /\ [Next]_vars => Flagged' /\ Bytewise'
<1> SUFFICES ASSUME Flagged, Bytewise, [Next]_vars
             PROVE  Flagged' /\ Bytewise'
  OBVIOUS
<1>1. IInv' /\ Bytewise'
  BY StepIInv DEF Flagged
<1>2. CASE LowByte
  BY <1>1, <1>2, LowByteFlagged DEF Flagged
<1>3. CASE HighByte
  <2>1. OverflowIsSigned'
    BY <1>3, HighByteFlagged
  <2>2. at' = 2
    BY <1>3 DEF HighByte
  <2> QED
    BY <1>1, <2>1, <2>2 DEF Flagged, Borrowed
<1>4. CASE UNCHANGED vars
  <2>1. Borrowed'
    BY <1>4 DEF vars, Flagged, Borrowed
  <2>2. OverflowIsSigned'
    BY <1>4 DEF vars, Flagged, OverflowIsSigned, Decimal
  <2> QED
    BY <1>1, <2>1, <2>2 DEF Flagged
<1> QED
  BY <1>2, <1>3, <1>4 DEF Next, BothBytes, Bytewise

\* The overflow flag the high byte leaves says whether the two numbers, read as
\* signed, have a sum or a difference out of range, and n that one's sign; in
\* decimal the flag of a difference still does.
THEOREM BytewiseOverflowIsSigned == Spec => [](Bytewise => OverflowIsSigned)
<1>1. Init => (Bytewise => Flagged)
  BY InitIInv DEF Init, Flagged, Borrowed, OverflowIsSigned
<1>2. (Bytewise => Flagged) /\ [Next]_vars => (Bytewise => Flagged)'
  <2>1. ASSUME ~Bytewise, [Next]_vars
        PROVE  ~Bytewise'
    BY <2>1 DEF Bytewise, Decimal, Next, LowByte, HighByte, BothBytes, vars
  <2> QED
    BY <2>1, FlaggedStep
<1>3. (Bytewise => Flagged) => (Bytewise => OverflowIsSigned)
  BY DEF Flagged
<1> QED
  BY <1>1, <1>2, <1>3, PTL DEF Spec
=============================================================================
