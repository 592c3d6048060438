------------------------------- MODULE Adder -------------------------------
(***************************************************************************)
(* ADC, SBC and CMP of mos65xx/mos6502.py, mos65c02.py and wdc65816.py,    *)
(* binary and decimal, under the programs they exist for: two numbers of   *)
(* sixteen bits are added, subtracted or compared, a byte at a time        *)
(* through the carry or, on a 65816 with a wide accumulator, at once.      *)
(*                                                                         *)
(* A flag is a bit, 0 or 1, where the code has a bool; z and n are kept    *)
(* for the last byte, as they stand when the program ends.                 *)
(*                                                                         *)
(* A definition whose comment begins with "Fault:" is not the code: it is  *)
(* the definition after it as a plausible mistake would have it, kept to   *)
(* show which property notices.                                            *)
(***************************************************************************)
EXTENDS Integers

CONSTANT Numbers   \* the numbers computed with

ASSUME NumbersAssumption == \A w \in Numbers : w \in Nat /\ w < 65536

\* The cores, the NMOS one with and without a decimal adder, and the 65816's
\* with either width of accumulator.
Parts == {"6502", "2a03", "65c02", "65816", "wide"}

VARIABLES
    part,
    d,        \* the decimal flag
    op,       \* what the program computes: "add", "subtract" or "compare"
    x, y,     \* its operands
    r,        \* its result, as far as it is stored
    at,       \* how many of the two bytes are done
    c, v, n, z

vars == <<part, d, op, x, y, r, at, c, v, n, z>>

Bit(b) == IF b THEN 1 ELSE 0

Low(value) == value % 16

High(value) == value \div 16

\* Does this part add in decimal now?
Decimal == d /\ part # "2a03"

-----------------------------------------------------------------------------
(* The arithmetic.  A result is a record: a, what set_acc is given, c, v,  *)
(* and what set_nz is given, signs for n and zero for z.                   *)

\* The sign of a byte, or of a word when top is 32768: a test of one bit.
Sign(value, top) == (value \div top) % 2

\* Fault: the operands' signs are taken to differ, as a subtraction's would.
SumOverflowsUnlike(left, value, total, top) ==
    Bit(Sign(left, top) # Sign(value, top) /\ Sign(left, top) # Sign(total, top))

\* ~(left ^ value) & (left ^ total) & sign, and the subtraction's without the ~.
SumOverflows(left, value, total, top) ==
    Bit(Sign(left, top) = Sign(value, top) /\ Sign(left, top) # Sign(total, top))

DifferenceOverflows(left, value, result, top) ==
    Bit(Sign(left, top) # Sign(value, top) /\ Sign(left, top) # Sign(result, top))

BinaryAdd(left, value, carry, top) ==
    LET total == left + value + carry
        a == total % (2 * top)
    IN  [a |-> a, c |-> Bit(total > 2 * top - 1),
         v |-> SumOverflows(left, value, total, top), signs |-> a, zero |-> a]

BinarySubtract(left, value, carry, top) ==
    LET plain == left - value - (1 - carry)
        a == plain % (2 * top)
    IN  [a |-> a, c |-> Bit(plain >= 0),
         v |-> DifferenceOverflows(left, value, a, top), signs |-> a, zero |-> a]

\* Fault: a digit of ten is not corrected.
CorrectedLate(digit) == IF digit > 10 THEN digit + 6 ELSE digit

\* A decimal digit that ran over skips the six codes after nine.
Corrected(digit) == IF digit > 9 THEN digit + 6 ELSE digit

\* The decimal sum of two bytes: the NMOS core takes z from the binary sum and
\* n before the high digit's correction, the CMOS core both from the result.
DecimalAdd(left, value, carry) ==
    LET low == Corrected(Low(left) + Low(value) + carry)
        sum == High(left) + High(value) + Bit(low > 15)
        high == Corrected(sum)
        a == (16 * high + Low(low)) % 256
    IN  [a |-> a, c |-> Bit(high > 15), v |-> SumOverflows(left, value, 16 * sum, 128),
         signs |-> IF part = "6502" THEN 16 * sum ELSE a,
         zero |-> IF part = "6502" THEN (left + value + carry) % 256 ELSE a]

\* Every flag is the binary difference's; only the result is corrected.
NmosSubtract(left, value, carry) ==
    LET binary == BinarySubtract(left, value, carry, 128)
        borrows(k) == (k \div 16) % 2 = 1
        low == Low(left) - Low(value) - (1 - carry)
        high == High(left) - High(value) - Bit(borrows(low))
        digit(k) == IF borrows(k) THEN k - 6 ELSE k
    IN  [binary EXCEPT !.a = (16 * digit(high) + Low(digit(low))) % 256]

\* The binary difference is corrected by a whole byte at a time.
CmosSubtract(left, value, carry) ==
    LET binary == BinarySubtract(left, value, carry, 128)
        plain == left - value - (1 - carry)
        a == (plain - 96 * Bit(plain < 0)
                    - 6 * Bit(Low(left) - (1 - carry) < Low(value))) % 256
    IN  [binary EXCEPT !.a = a, !.signs = a, !.zero = a]

\* The 65816 goes digit by digit, two of them or four.
Weight == [k \in 0..3 |-> IF k = 0 THEN 1 ELSE IF k = 1 THEN 16 ELSE IF k = 2 THEN 256 ELSE 4096]

Digit(value, k) == (value \div Weight[k]) % 16

Digits(top) == IF top = 128 THEN 2 ELSE 4

Places(f, top) == IF top = 128 THEN f[0] + 16 * f[1]
                  ELSE f[0] + 16 * f[1] + 256 * f[2] + 4096 * f[3]

WdcAdd(left, value, carry, top) ==
    LET last == Digits(top) - 1
        digit[k \in 0..last] ==
            Digit(left, k) + Digit(value, k)
            + (IF k = 0 THEN carry ELSE Bit(digit[k - 1] > 9))
        a == Places([k \in 0..last |-> Corrected(digit[k]) % 16], top)
    IN  [a |-> a, c |-> Bit(digit[last] > 9),
         v |-> SumOverflows(left, value, digit[last] * Weight[last], top), signs |-> a, zero |-> a]

WdcSubtract(left, value, carry, top) ==
    LET last == Digits(top) - 1
        digit[k \in 0..last] ==
            Digit(left, k) - Digit(value, k)
            - (IF k = 0 THEN 1 - carry ELSE Bit(digit[k - 1] < 0))
        a == Places([k \in 0..last |-> (digit[k] - 6 * Bit(digit[k] < 0)) % 16], top)
    IN  [a |-> a, c |-> Bit(digit[last] >= 0),
         v |-> BinarySubtract(left, value, carry, top).v, signs |-> a, zero |-> a]

-----------------------------------------------------------------------------
(* The instructions.                                                       *)

add_with_carry(left, value, top) ==
    CASE ~Decimal -> BinaryAdd(left, value, c, top)
      [] Decimal /\ part \in {"6502", "65c02"} -> DecimalAdd(left, value, c)
      [] Decimal /\ part \in {"65816", "wide"} -> WdcAdd(left, value, c, top)

subtract_with_carry(left, value, top) ==
    CASE ~Decimal -> BinarySubtract(left, value, c, top)
      [] Decimal /\ part = "6502" -> NmosSubtract(left, value, c)
      [] Decimal /\ part = "65c02" -> CmosSubtract(left, value, c)
      [] Decimal /\ part \in {"65816", "wide"} -> WdcSubtract(left, value, c, top)

\* Fault: equal is not enough for the carry.
compareAbove(register, value, top) ==
    LET a == (register - value) % (2 * top)
    IN  [a |-> register, c |-> Bit(register > value), v |-> v, signs |-> a, zero |-> a]

compare(register, value, top) ==
    LET a == (register - value) % (2 * top)
    IN  [a |-> register, c |-> Bit(register >= value), v |-> v, signs |-> a, zero |-> a]

\* The instruction a program runs on its operands' byte k, or on all of them.
\* A comparison of two bytes compares the low one and subtracts the high one.
Result(k, left, value, top) ==
    CASE op = "add" -> add_with_carry(left, value, top)
      [] op = "subtract" \/ (op = "compare" /\ k = 1) -> subtract_with_carry(left, value, top)
      [] op = "compare" /\ k = 0 -> compare(left, value, top)

Flags(result, top) ==
    /\ c' = result.c
    /\ v' = result.v
    /\ n' = Sign(result.signs, top)
    /\ z' = Bit(result.zero % (2 * top) = 0)

\* CLC before a sum, SEC before a difference.
CarryFor(what) == Bit(what = "subtract")

Init ==
    /\ part \in Parts
    /\ d \in BOOLEAN
    /\ op \in {"add", "subtract", "compare"}
    /\ x \in Numbers
    /\ y \in Numbers
    /\ r = 0
    /\ at = 0
    /\ c = CarryFor(op)
    /\ v = 0
    /\ n = 0
    /\ z = 0

LowByte ==
    /\ part # "wide"
    /\ at = 0
    /\ LET result == Result(0, x % 256, y % 256, 128)
       IN  r' = result.a /\ Flags(result, 128)
    /\ at' = 1
    /\ UNCHANGED <<part, d, op, x, y>>

HighByte ==
    /\ part # "wide"
    /\ at = 1
    /\ LET result == Result(1, x \div 256, y \div 256, 128)
       IN  r' = r + 256 * result.a /\ Flags(result, 128)
    /\ at' = 2
    /\ UNCHANGED <<part, d, op, x, y>>

BothBytes ==
    /\ part = "wide"
    /\ at = 0
    /\ LET result == Result(0, x, y, 32768)
       IN  r' = result.a /\ Flags(result, 32768)
    /\ at' = 2
    /\ UNCHANGED <<part, d, op, x, y>>

Next == LowByte \/ HighByte \/ BothBytes

Spec == Init /\ [][Next]_vars

-----------------------------------------------------------------------------
\* The decimal number that the digits of a byte, or of a word, spell.
ByteValue(byte) == 10 * High(byte) + Low(byte)

DecimalValue(word) == 100 * ByteValue(word \div 256) + ByteValue(word % 256)

IsDecimalByte(byte) == Low(byte) \in 0..9 /\ High(byte) \in 0..9

IsDecimal(word) == IsDecimalByte(word \div 256) /\ IsDecimalByte(word % 256)

Signed(word) == IF word >= 32768 THEN word - 65536 ELSE word

SignedWords == -32768..32767

\* On every part the two bytes and the carry are the sum or the difference of
\* the two numbers: of any two in binary, of any two decimal ones in decimal.
ResultIsRight ==
    (at = 2 /\ op # "compare") =>
        IF Decimal
        THEN (IsDecimal(x) /\ IsDecimal(y)) =>
                 /\ IsDecimal(r)
                 /\ DecimalValue(r) =
                        IF op = "add" THEN DecimalValue(x) + DecimalValue(y) - 10000 * c
                        ELSE DecimalValue(x) - DecimalValue(y) + 10000 * (1 - c)
        ELSE r = IF op = "add" THEN x + y - 65536 * c
                 ELSE x - y + 65536 * (1 - c)

\* In binary the overflow flag of the high byte tells whether the numbers, read
\* as signed, have a sum or difference out of range, and n the result's sign.
\* In decimal too the flag of a difference is the binary difference's.
OverflowIsSigned ==
    (at = 2 /\ op # "compare" /\ (~Decimal \/ op = "subtract")) =>
        LET exact == IF op = "add" THEN Signed(x) + Signed(y) ELSE Signed(x) - Signed(y)
        IN  /\ (v = 1 <=> exact \notin SignedWords)
            /\ ~Decimal => (n = 1 <=> r >= 32768)

\* A comparison of two numbers, CMP of the low bytes and SBC of the high ones,
\* leaves the carry set exactly when the first is not below the second: with
\* the decimal flag set as well, and for bytes that are no decimal numbers.
CompareOrders == (at = 2 /\ op = "compare") => (c = 1 <=> x >= y)
=============================================================================
