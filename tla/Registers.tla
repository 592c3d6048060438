----------------------------- MODULE Registers -----------------------------
(***************************************************************************)
(* mos65xx/wdc65816.py: the widths of a 65816's registers and its stack,   *)
(* through every instruction, interrupt and abort that can disturb them.   *)
(*                                                                         *)
(* One action is one instruction, or one entry.  Of the registers the      *)
(* module keeps an index register, x, which y is like, and the stack       *)
(* pointer; what comes from the others, from memory, the program counter   *)
(* or the carry is any value.  The memory it keeps is the cells that hold  *)
(* what the program has pushed and not pulled yet: any other holds any     *)
(* value.                                                                  *)
(*                                                                         *)
(* The code pushes in two ways: through push8, which in emulation mode     *)
(* stays in page one, and flat, for the instructions the 6502 did not      *)
(* have, which leaves the page and sets the pointer after the last byte.   *)
(*                                                                         *)
(* A definition whose comment begins with "Fault:" is not the code: it is  *)
(* the definition after it as a plausible mistake would have it, kept to   *)
(* show which property notices.                                            *)
(***************************************************************************)
EXTENDS Integers, Sequences, FiniteSets

CONSTANTS
    Byte,     \* how many values a byte has: 256
    Data,     \* the bytes that programs load, push, and find in memory
    Words,    \* the words they do
    MaxFrames \* bound: how much a program pushes before it pulls

ASSUME ByteAssumption == Byte \in Nat /\ Byte > 2
ASSUME DataAssumption == Data \subseteq 0..(Byte - 1) /\ Data # {}
ASSUME WordsAssumption == Words \subseteq [h : 0..(Byte - 1), l : 0..(Byte - 1)]
ASSUME MaxFramesAssumption == MaxFrames \in Nat

VARIABLES
    emulation, m8, x8,
    x,        \* an index register
    s,        \* _s
    cells,    \* the memory of bank 0
    frames,   \* history: what has been pushed and not pulled, the newest first
    matched,  \* history: every pull has given what its push promised it
    balanced, \* history: every pull has left s where its push found it
    reset     \* history: reset() has been called

registers == <<emulation, m8, x8, x, s>>
stack == <<cells, frames, matched, balanced>>
vars == <<registers, stack, reset>>

\* A word is its two bytes; a cell a byte, a status, or <<>> for any of them.
Word == [h : 0..(Byte - 1), l : 0..(Byte - 1)]

Status == BOOLEAN \X BOOLEAN   \* m8 and x8; the rest is left out

Plus(w, k) ==
    LET sum == (Byte * w.h + w.l + k) % (Byte * Byte)
    IN  [h |-> sum \div Byte, l |-> sum % Byte]

PageOne(w) == [h |-> 1, l |-> w.l]

Narrow(w) == [h |-> 0, l |-> w.l]

-----------------------------------------------------------------------------
(* The setters.  Each takes what is to be stored and says what is.         *)

\* s.setter
Stacked(w, e) == IF e THEN PageOne(w) ELSE w

\* Fault: an index register keeps its high byte.
set_statusKeeps(st, index) ==
    /\ m8' = (st[1] \/ emulation)
    /\ x8' = (st[2] \/ emulation)
    /\ x' = index

\* set_status, on an index register that is about to hold index.
set_status(st, index) ==
    /\ m8' = (st[1] \/ emulation)
    /\ x8' = (st[2] \/ emulation)
    /\ x' = IF x8' THEN Narrow(index) ELSE index

status == <<m8, x8>>

\* set_emulation, and emulation.setter.
set_emulation(e) ==
    /\ emulation' = e
    /\ m8' = (m8 \/ e)
    /\ x8' = (x8 \/ e)
    /\ x' = IF e THEN Narrow(x) ELSE x
    /\ s' = Stacked(s, e)

-----------------------------------------------------------------------------
(* The stack.                                                              *)

\* The pointer k bytes down, or up when k is negative.
Down(w, k, flat) ==
    IF emulation /\ ~flat THEN [h |-> 1, l |-> (w.l - k) % Byte] ELSE Plus(w, -k)

Pushed == Cardinality(UNION {frames[i].at : i \in DOMAIN frames})

\* Bytes pushed that a pull of this class should turn into value again.
Push(class, bytes, flat, value) ==
    LET at == [k \in 1..Len(bytes) |-> Down(s, k - 1, flat)]
    IN  /\ Len(frames) < MaxFrames
        /\ Pushed + Len(bytes) <= IF emulation THEN Byte ELSE Byte * Byte
        /\ cells' = [w \in Word |-> IF \E k \in DOMAIN at : w = at[k]
                                    THEN bytes[CHOOSE k \in DOMAIN at : w = at[k]]
                                    ELSE cells[w]]
        /\ s' = Stacked(Down(s, Len(bytes), flat), emulation)
        /\ frames' = <<[class |-> class, value |-> value, from |-> s, flat |-> flat,
                        e |-> emulation, at |-> {at[k] : k \in DOMAIN at}]>> \o frames
        /\ UNCHANGED <<matched, balanced, reset>>

\* Cells that hold nothing of these frames are forgotten.
Kept(left) ==
    [w \in Word |-> IF \E i \in DOMAIN left : w \in left[i].at THEN cells[w] ELSE <<>>]

\* The program gives its frames up.
Abandon ==
    /\ frames' = <<>>
    /\ cells' = Kept(<<>>)
    /\ UNCHANGED <<matched, balanced>>

\* The k-th cell that is pulled, and what is read from it.
Above(k, flat) == cells[Down(s, -k, flat)]

ByteAt(k, flat) == IF Len(Above(k, flat)) = 1 THEN {Above(k, flat)[1]} ELSE Data

StatusAt(k, flat) == IF Len(Above(k, flat)) = 2 THEN {Above(k, flat)} ELSE Status

\* A frame is promised back unless push or pull is flat at the edge of page one.
Promised(frame, count, flat) ==
    ~emulation \/ (~flat /\ ~frame.flat) \/ frame.from.l >= count

\* A pull of count bytes made value of them.  The newest frame is what it pulls
\* if it is of its class and was pushed in this mode.
Pull(class, count, flat, value) ==
    /\ s' = Stacked(Down(s, -count, flat), emulation)
    /\ IF frames # <<>> /\ Head(frames).class = class /\ Head(frames).e = emulation
       THEN /\ frames' = Tail(frames)
            /\ cells' = Kept(Tail(frames))
            /\ matched' = (matched /\ (Promised(Head(frames), count, flat)
                                           => value = Head(frames).value))
            /\ balanced' = (balanced /\ s' = Head(frames).from)
       ELSE Abandon
    /\ UNCHANGED reset

-----------------------------------------------------------------------------
(* The instructions.                                                       *)

Init ==   \* power_on
    /\ emulation \in BOOLEAN
    /\ m8 \in IF emulation THEN {TRUE} ELSE BOOLEAN
    /\ x8 \in IF emulation THEN {TRUE} ELSE BOOLEAN
    /\ x \in IF emulation THEN [h : {0}, l : Data] ELSE Words
    /\ s \in {Stacked(w, emulation) : w \in Word}
    /\ cells = Kept(<<>>)
    /\ frames = <<>>
    /\ matched = TRUE
    /\ balanced = TRUE
    /\ reset = FALSE

Reset ==
    /\ emulation' = TRUE
    /\ m8' = TRUE
    /\ x8' = TRUE
    /\ x' = Narrow(x)
    /\ s' = PageOne(s)
    /\ Abandon
    /\ reset' = TRUE

\* LDX, TAX, INX and the others that compute an index register.
LoadIndex ==
    /\ x' \in IF x8 THEN [h : {0}, l : Data] ELSE Words
    /\ UNCHANGED <<emulation, m8, x8, s, stack, reset>>

Tsx ==
    /\ x' = IF x8 THEN Narrow(s) ELSE s
    /\ UNCHANGED <<emulation, m8, x8, s, stack, reset>>

\* TXS, and TAS with any accumulator.
Txs ==
    /\ \E w \in {x} \cup Words : s' = IF emulation THEN PageOne(w) ELSE w
    /\ Abandon
    /\ UNCHANGED <<emulation, m8, x8, x, reset>>

\* REP and SEP, of any flags.
RepSep ==
    /\ \E st \in Status : set_status(st, x)
    /\ UNCHANGED <<emulation, s, stack, reset>>

\* A program that goes to emulation mode moves its stack.
Xce ==
    /\ \E carry \in BOOLEAN :
          /\ set_emulation(carry)
          /\ IF carry THEN Abandon ELSE UNCHANGED stack
    /\ UNCHANGED reset

widths == <<emulation, m8, x8, x>>

\* PHX and PHY.
Phx ==
    /\ IF x8 THEN Push("byte", <<<<x.l>>>>, FALSE, <<x.l>>)
             ELSE Push("word", <<<<x.h>>, <<x.l>>>>, FALSE, <<x.h, x.l>>)
    /\ UNCHANGED widths

\* PHB and PHK, and PHA of a narrow accumulator.
PhbPhkPha ==
    /\ \E v \in Data : Push("byte", <<<<v>>>>, FALSE, <<v>>)
    /\ UNCHANGED widths

\* PHA of a wide accumulator.
Pha ==
    /\ ~m8
    /\ \E w \in Words : Push("word", <<<<w.h>>, <<w.l>>>>, FALSE, <<w.h, w.l>>)
    /\ UNCHANGED widths

\* PHD, PEA, PEI and PER.
PushFlat ==
    /\ \E w \in Words : Push("word", <<<<w.h>>, <<w.l>>>>, TRUE, <<w.h, w.l>>)
    /\ UNCHANGED widths

Php ==
    /\ Push("status", <<status>>, FALSE, status)
    /\ UNCHANGED widths

\* Where an instruction is called from: pc is at the next one, or one short of it.
Jsr ==
    /\ \E pc \in Words, indexed \in BOOLEAN :
          LET pushed == Plus(pc, -1)
          IN  Push("near", <<<<pushed.h>>, <<pushed.l>>>>, indexed, <<pc.h, pc.l>>)
    /\ UNCHANGED widths

\* Fault: the return address is the instruction's own last byte but one.
JslEarly ==
    /\ \E pc \in Words, pb \in Data :
          LET pushed == Plus(pc, -2)
          IN  Push("far", <<<<pb>>, <<pushed.h>>, <<pushed.l>>>>, TRUE, <<pb, pc.h, pc.l>>)
    /\ UNCHANGED widths

Jsl ==
    /\ \E pc \in Words, pb \in Data :
          LET pushed == Plus(pc, -1)
          IN  Push("far", <<<<pb>>, <<pushed.h>>, <<pushed.l>>>>, TRUE, <<pb, pc.h, pc.l>>)
    /\ UNCHANGED widths

\* What an entry pushes with the status st.
EnterWith(st) ==
    \E pc \in Words, pb \in Data :
        IF emulation
        THEN Push("entry", <<<<pc.h>>, <<pc.l>>, st>>, FALSE, <<pc.h, pc.l>>)
        ELSE Push("entry", <<<<pb>>, <<pc.h>>, <<pc.l>>, st>>, FALSE, <<pb, pc.h, pc.l, st>>)

\* enter(), which in emulation mode clears the break flag, in x8's place, and
\* BRK and COP, which do not.
Enter ==
    /\ EnterWith(status) \/ (emulation /\ EnterWith(<<m8, FALSE>>))
    /\ UNCHANGED widths

\* PLX and PLY.
Plx ==
    /\ IF x8
       THEN \E l \in ByteAt(1, FALSE) :
                x' = [h |-> 0, l |-> l] /\ Pull("byte", 1, FALSE, <<l>>)
       ELSE \E l \in ByteAt(1, FALSE), h \in ByteAt(2, FALSE) :
                x' = [h |-> h, l |-> l] /\ Pull("word", 2, FALSE, <<h, l>>)
    /\ UNCHANGED <<emulation, m8, x8>>

Pla ==
    /\ IF m8
       THEN \E l \in ByteAt(1, FALSE) : Pull("byte", 1, FALSE, <<l>>)
       ELSE \E l \in ByteAt(1, FALSE), h \in ByteAt(2, FALSE) : Pull("word", 2, FALSE, <<h, l>>)
    /\ UNCHANGED widths

Plb ==
    /\ \E l \in ByteAt(1, TRUE) : Pull("byte", 1, TRUE, <<l>>)
    /\ UNCHANGED widths

Pld ==
    /\ \E l \in ByteAt(1, TRUE), h \in ByteAt(2, TRUE) : Pull("word", 2, TRUE, <<h, l>>)
    /\ UNCHANGED widths

Plp ==
    /\ \E st \in StatusAt(1, FALSE) : set_status(st, x) /\ Pull("status", 1, FALSE, st)
    /\ UNCHANGED emulation

Rts ==
    /\ \E l \in ByteAt(1, FALSE), h \in ByteAt(2, FALSE) :
          LET pc == Plus([h |-> h, l |-> l], 1)
          IN  Pull("near", 2, FALSE, <<pc.h, pc.l>>)
    /\ UNCHANGED widths

Rtl ==
    /\ \E l \in ByteAt(1, TRUE), h \in ByteAt(2, TRUE), pb \in ByteAt(3, TRUE) :
          LET pc == Plus([h |-> h, l |-> l], 1)
          IN  Pull("far", 3, TRUE, <<pb, pc.h, pc.l>>)
    /\ UNCHANGED widths

Rti ==
    /\ \E st \in StatusAt(1, FALSE), l \in ByteAt(2, FALSE), h \in ByteAt(3, FALSE) :
          /\ set_status(st, x)
          /\ IF emulation
             THEN Pull("entry", 3, FALSE, <<h, l>>)
             ELSE \E pb \in ByteAt(4, FALSE) : Pull("entry", 4, FALSE, <<pb, h, l, st>>)
    /\ UNCHANGED emulation

\* An aborted instruction is rolled back, but for the status that an RTI has
\* pulled, and the abort entered.
Abort ==
    /\ \E st \in StatusAt(1, FALSE) \cup {status} :
          /\ set_status(st, x)
          /\ EnterWith(<<m8', x8' /\ ~emulation>>)
    /\ UNCHANGED emulation

Next ==
    \/ Reset \/ LoadIndex \/ Tsx \/ Txs \/ RepSep \/ Xce
    \/ Phx \/ PhbPhkPha \/ Pha \/ PushFlat \/ Php \/ Jsr \/ Jsl \/ Enter
    \/ Plx \/ Pla \/ Plb \/ Pld \/ Plp \/ Rts \/ Rtl \/ Rti \/ Abort

Spec == Init /\ [][Next]_vars

-----------------------------------------------------------------------------
\* After one reset an 8-bit index register has no high byte, and emulation mode
\* has 8-bit registers and its stack pointer in page one, however the program
\* changes mode and widths, and whatever an abort rolls back.
WidthsAgree ==
    reset =>
        /\ x8 => x.h = 0
        /\ emulation => m8 /\ x8 /\ s.h = 1

\* A pull, a return or an RTI gives what its push, call or entry left there,
\* through all that was pushed and pulled between in either of the two ways,
\* except where one of them is flat and they meet the edge of page one; and it
\* leaves the stack pointer where it was before, even there.
PullsMatch == matched /\ balanced
=============================================================================
