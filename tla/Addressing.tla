----------------------------- MODULE Addressing -----------------------------
(***************************************************************************)
(* mos65xx/mos6502.py and mos65c02.py: what an instruction of an 8-bit     *)
(* part puts on the bus, cycle by cycle, and where it leaves the program   *)
(* counter, the stack pointer and memory.                                  *)
(*                                                                         *)
(* `ahead` is what the handler has still to do.  A cell holds any byte     *)
(* until it is looked at for one: `mem` is what the instruction knows of   *)
(* memory, `first` the part of that it found there.  A byte no address,    *)
(* return or write depends on is never chosen.  X and Y are one index, and *)
(* the zeroPageY and absoluteY modes are their X namesakes.                *)
(*                                                                         *)
(* A definition whose comment begins with "Fault:" is not the code: it is  *)
(* the definition after it as a plausible mistake would have it, kept to   *)
(* show which property notices.                                            *)
(***************************************************************************)
EXTENDS Integers, Sequences

CONSTANTS
    B,            \* how many values a byte has, and cells a page
    Reaches,      \* how many cells a package's address lines tell apart
    Starts        \* the addresses programs have instructions at

ASSUME ByteAssumption == B \in Nat /\ B >= 3
\* Every package brings out a whole low byte, and as many lines more.
ASSUME ReachAssumption ==
    \A r \in Reaches : r \in 1..B * B /\ (r % B) = 0 /\ ((B * B) % r) = 0

ASSUME StartsAssumption == Starts \subseteq 0..B * B - 1

Byte == 0..B - 1

Word(low, high) == low + B * high
Low(a) == a % B
High(a) == a \div B
Plus(a, n) == ((a + n) % (B * B))
PlusInPage(a, n) == Word(((Low(a) + n) % B), High(a))
Signed(byte) == IF 2 * byte >= B THEN byte - B ELSE byte

MODE_SIZE == [
    implied |-> 0, accumulator |-> 0,
    immediate |-> 1, zeroPage |-> 1, zeroPageX |-> 1, relative |-> 1,
    indexedIndirectX |-> 1, indirectIndexedY |-> 1, zeroPageIndirect |-> 1,
    absolute |-> 2, absoluteX |-> 2, indirect |-> 2, indirectX |-> 2, relativeBit |-> 2]

\* What effective() does for each mode it takes.
effective == [
    zeroPage         |-> <<"low">>,
    zeroPageX        |-> <<"low", "spare">>,
    absolute         |-> <<"low", "high">>,
    absoluteX        |-> <<"low", "high", "index">>,
    indexedIndirectX |-> <<"low", "spare", "pointer", "pointerHigh">>,
    indirectIndexedY |-> <<"low", "pointer", "pointerHigh", "index">>,
    zeroPageIndirect |-> <<"low", "pointer", "pointerHigh">>]

\* What an instruction does at the address it is given.
AtAddress == [
    read   |-> <<"look">>,
    sum    |-> <<"look", "look">>,
    write  |-> <<"write">>,
    modify |-> <<"held", "settle", "write">>,
    shift  |-> <<"held", "settle", "write">>,
    unstable |-> <<"store">>]

Eight == {"zeroPage", "zeroPageX", "absolute", "absoluteX", "indexedIndirectX", "indirectIndexedY"}

\* The modes of the instructions that have an address.  "sum" is an addition by a
\* CMOS part in decimal, "shift" what its modify_kind tells from a "modify".
Addressed(cmos) == [
    read     |-> IF cmos THEN DOMAIN effective ELSE Eight,
    sum      |-> IF cmos THEN DOMAIN effective ELSE {},
    write    |-> IF cmos THEN DOMAIN effective ELSE Eight,
    modify   |-> Eight \ IF cmos THEN {"indexedIndirectX", "indirectIndexedY"} ELSE {},
    shift    |-> Eight \ {"indexedIndirectX", "indirectIndexedY"},
    unstable |-> IF cmos THEN {} ELSE {"absoluteX", "indirectIndexedY"}]

\* The handlers of the other instructions, and interrupt(), after the opcode.
Handlers ==
    [implied |-> <<"idle">>, immediate |-> <<"low">>,
     push |-> <<"idle", "push">>, pull |-> <<"idle", "top", "pull">>,
     branch |-> <<"offset">>,
     jmp |-> <<"low", "to">>,
     jsr |-> <<"low", "top", "pushHigh", "pushLow", "to">>,
     rts |-> <<"idle", "top", "pullLow", "pullHigh", "pulled">>,
     rti |-> <<"idle", "top", "pull", "pullLow", "pullTo">>,
     brk |-> <<"signature", "pushHigh", "pushLow", "push", "vector", "vectorHigh">>,
     interrupt |-> <<"idle", "idle", "pushHigh", "pushLow", "push", "vector", "vectorHigh">>]

\* Those each core has of its own.
NmosHandlers == [jmpIndirect |-> <<"low", "high", "jumpLow", "jumpHigh">>]

CmosHandlers ==
    [nop1 |-> <<>>, nop3 |-> <<"low", "high">>, nopX |-> <<"low", "high", "last">>,
     sumImmediate |-> <<"low", "last">>,
     jmpIndirect |-> <<"low", "high", "jumpLow", "jumpSpare", "jumpHigh">>,
     jmpIndirectX |-> <<"low", "high", "jumpIndex", "jumpLow", "jumpHigh">>,
     branchOnBit |-> <<"low", "look", "settle", "offset">>]

\* The mode a handler's instruction has in the opcode table.
ModeOf == [
    implied |-> "implied", immediate |-> "immediate", push |-> "implied", pull |-> "implied",
    branch |-> "relative", jmp |-> "absolute", jsr |-> "absolute", rts |-> "implied",
    rti |-> "implied", brk |-> "implied", interrupt |-> "implied", nop1 |-> "implied",
    nop3 |-> "absolute", nopX |-> "absoluteX", sumImmediate |-> "immediate",
    jmpIndirect |-> "indirect", jmpIndirectX |-> "indirectX", branchOnBit |-> "relativeBit"]

Handled(handlers) ==
    {[kind |-> k, mode |-> ModeOf[k], does |-> handlers[k]] : k \in DOMAIN handlers}

Instructions(cmos) ==
    (UNION {{[kind |-> k, mode |-> m, does |-> effective[m] \o AtAddress[k]] :
             m \in Addressed(cmos)[k]} : k \in DOMAIN AtAddress})
    \cup Handled(Handlers)
    \cup IF cmos THEN Handled(CmosHandlers) ELSE Handled(NmosHandlers)

VARIABLES
    cmos, reach,  \* the part and its package
    ins,          \* the instruction, the address of its opcode, and what it began with
    ahead,        \* what its handler has still to do
    mem, first,   \* memory as far as it is known, and as it was found
    pc, s,
    low, base, addr,  \* the byte, the unindexed and the final address in the making
    bus,          \* the last cycle: what it did and where
    cycles        \* how many the instruction has spent

part == <<cmos, reach>>
memory == <<mem, first>>
forming == <<low, base, addr>>
vars == <<part, ins, ahead, memory, pc, s, forming, bus, cycles>>

\* Every address line is brought out.  No package of a CMOS part has fewer; some
\* of an NMOS part have, with interrupt pins or without.
Whole == reach = B * B

None == [kind |-> "none", mode |-> "implied", at |-> 0, index |-> 0]

Init ==
    /\ cmos \in BOOLEAN
    /\ reach \in Reaches
    /\ cmos => Whole
    /\ ins = None
    /\ ahead = <<>>
    /\ mem = <<>> /\ first = <<>>
    /\ pc = 0 /\ s = 0
    /\ low = 0 /\ base = 0 /\ addr = 0
    /\ bus = [does |-> "none", at |-> 0]
    /\ cycles = 0

-----------------------------------------------------------------------------
(* One bus cycle.                                                          *)

Cell(a) == a % reach

Stack(pointer) == Word(pointer, 1)

Cycle(does, a) ==
    /\ bus' = [does |-> does, at |-> Cell(a)]
    /\ cycles' = cycles + 1
    /\ UNCHANGED <<part, ins>>

\* A read whose value no address, return or write depends on.
Looks(a) == Cycle("read", a) /\ UNCHANGED memory

\* What is known of memory when v has been found in, or put into, a cell.
Known(m, cell, v) == [c \in (DOMAIN m) \cup {cell} |-> IF c = cell THEN v ELSE m[c]]

Reads(a, v) ==
    /\ Cycle("read", a)
    /\ Cell(a) \in DOMAIN mem => v = mem[Cell(a)]
    /\ mem' = Known(mem, Cell(a), v)
    /\ first' = IF Cell(a) \in DOMAIN mem THEN first ELSE Known(first, Cell(a), v)

Writes(a, v) ==
    /\ Cycle("write", a)
    /\ mem' = Known(mem, Cell(a), v)
    /\ UNCHANGED first

Doing(it) == ahead # <<>> /\ Head(ahead) = it

Then == ahead' = Tail(ahead)

-----------------------------------------------------------------------------
(* The opcode, and reads at an address already known.                      *)

\* The registers an instruction may find, where they matter to it.
Indices(do) == IF do.mode \in {"zeroPageX", "absoluteX", "indexedIndirectX",
                               "indirectIndexedY", "indirectX"} THEN Byte ELSE {0}

Pointers(do) == IF do.kind \in {"push", "pull", "jsr", "rts", "rti", "brk", "interrupt"}
                THEN Byte ELSE {0}

Start(do, at) ==
    \E x \in Indices(do), top \in Pointers(do) :
        /\ ins = None
        /\ ins' = [kind |-> do.kind, mode |-> do.mode, at |-> at, index |-> x]
        /\ ahead' = do.does
        /\ s' = top
        /\ UNCHANGED <<part, memory, forming>>

Begin ==
    \E do \in Instructions(cmos), at \in Starts :
        /\ do.kind # "interrupt"
        /\ Start(do, at)
        /\ pc' = Plus(at, 1)
        /\ bus' = [does |-> "read", at |-> Cell(at)]
        /\ cycles' = 1

Enter ==
    \E do \in Instructions(cmos), at \in Starts :
        /\ do.kind = "interrupt"
        /\ Start(do, at)
        /\ pc' = at
        /\ UNCHANGED <<bus, cycles>>

DeadAt == [idle |-> pc, last |-> Plus(pc, -1), top |-> Stack(s), look |-> addr,
           jumpSpare |-> PlusInPage(addr, 1)]

Dead ==
    /\ \E it \in DOMAIN DeadAt : Doing(it) /\ Looks(DeadAt[it])
    /\ Then
    /\ UNCHANGED <<pc, s, forming>>

\* BRK steps over the byte after its opcode.
Signature ==
    /\ Doing("signature")
    /\ Looks(pc)
    /\ pc' = Plus(pc, 1)
    /\ Then
    /\ UNCHANGED <<s, forming>>

-----------------------------------------------------------------------------
(* effective(), read_modify_write() and the stores.                        *)

Uncorrected(from, target) == Word(Low(target), High(from))

READ == {"read", "sum"} \cup IF cmos THEN {"shift"} ELSE {}

\* Fault: a store does without the cycle in which its address is corrected.
takes_spareByPage(from, target) == Uncorrected(from, target) # target

takes_spare(from, target) == ins.kind \notin READ \/ Uncorrected(from, target) # target

\* A word has been fetched: index it, or have it as the address.
Formed(word) ==
    LET rest == Tail(ahead)
        target == Plus(word, ins.index)
    IN  IF rest # <<>> /\ Head(rest) = "index"
        THEN /\ base' = word
             /\ addr' = target
             /\ ahead' = (IF takes_spare(word, target) THEN <<"carry">> ELSE <<>>) \o Tail(rest)
        ELSE /\ base' = word
             /\ addr' = word
             /\ ahead' = rest

FetchLow ==
    /\ Doing("low")
    /\ \E v \in Byte : Reads(pc, v) /\ low' = v /\ addr' = v
    /\ pc' = Plus(pc, 1)
    /\ Then
    /\ UNCHANGED <<s, base>>

FetchHigh ==
    /\ Doing("high")
    /\ \E v \in Byte : Reads(pc, v) /\ Formed(Word(low, v))
    /\ pc' = Plus(pc, 1)
    /\ UNCHANGED <<s, low>>

SpareInPageZero ==
    /\ Doing("spare")
    /\ Looks(addr)
    /\ addr' = (addr + ins.index) % B
    /\ Then
    /\ UNCHANGED <<pc, s, low, base>>

PointerLow ==
    /\ Doing("pointer")
    /\ \E v \in Byte : Reads(addr, v) /\ low' = v
    /\ Then
    /\ UNCHANGED <<pc, s, base, addr>>

PointerHigh ==
    /\ Doing("pointerHigh")
    /\ \E v \in Byte : Reads((addr + 1) % B, v) /\ Formed(Word(low, v))
    /\ UNCHANGED <<pc, s, low>>

\* Fault: a CMOS part inherits the NMOS parts' wrong page.
spare_for_indexNmos == Uncorrected(base, addr)

spare_for_index == IF cmos THEN Plus(pc, -1) ELSE Uncorrected(base, addr)

Carry ==
    /\ Doing("carry")
    /\ Looks(spare_for_index)
    /\ Then
    /\ UNCHANGED <<pc, s, forming>>

Held ==
    /\ Doing("held")
    /\ \E v \in Byte : Reads(addr, v) /\ low' = v
    /\ Then
    /\ UNCHANGED <<pc, s, base, addr>>

\* Fault: an NMOS part writes its result a cycle early.
SettleEarly ==
    /\ Doing("settle")
    /\ IF cmos THEN Looks(addr) ELSE \E v \in Byte : Writes(addr, v)
    /\ Then
    /\ UNCHANGED <<pc, s, forming>>

Settle ==
    /\ Doing("settle")
    /\ IF cmos THEN Looks(addr) ELSE Writes(addr, low)
    /\ Then
    /\ UNCHANGED <<pc, s, forming>>

Write ==
    /\ Doing("write")
    /\ \E v \in Byte : Writes(addr, v)
    /\ Then
    /\ UNCHANGED <<pc, s, forming>>

\* Can v be some register ANDed with m?
Masks(m, v) == \A bit \in {2 ^ n : n \in 0..7} : (v \div bit) % 2 <= (m \div bit) % 2

\* What unstable_store writes is ANDed with the page above, and is the page it
\* goes to where the index crosses one.
Store ==
    /\ Doing("store")
    /\ \E v \in Byte :
          LET page == IF High(base) = High(addr) THEN High(addr) ELSE v
          IN  /\ Masks((High(base) + 1) % B, v)
              /\ Writes(Word(Low(addr), page), v)
    /\ Then
    /\ UNCHANGED <<pc, s, forming>>

-----------------------------------------------------------------------------
(* The stack, jumps and branches.                                          *)

Values == [push |-> Byte, pushHigh |-> {High(pc)}, pushLow |-> {Low(pc)}]

Push ==
    /\ \E it \in DOMAIN Values : Doing(it) /\ \E v \in Values[it] : Writes(Stack(s), v)
    /\ s' = (s - 1) % B
    /\ Then
    /\ UNCHANGED <<pc, forming>>

PullAside ==
    /\ Doing("pull")
    /\ Looks(Stack((s + 1) % B))
    /\ s' = (s + 1) % B
    /\ Then
    /\ UNCHANGED <<pc, forming>>

\* RTS and RTI: the low byte, then the high byte, of an address.
Pull ==
    /\ \E v \in Byte :
          /\ Reads(Stack((s + 1) % B), v)
          /\ \/ Doing("pullLow") /\ low' = v /\ UNCHANGED <<pc, addr>>
             \/ Doing("pullHigh") /\ addr' = Word(low, v) /\ UNCHANGED <<pc, low>>
             \/ Doing("pullTo") /\ pc' = Word(low, v) /\ UNCHANGED <<low, addr>>
    /\ s' = (s + 1) % B
    /\ Then
    /\ UNCHANGED base

Pulled ==
    /\ Doing("pulled")
    /\ Looks(addr)
    /\ pc' = Plus(addr, 1)
    /\ Then
    /\ UNCHANGED <<s, forming>>

\* BREAK_VECTOR or IRQ_VECTOR, and NMI_VECTOR where an NMI can take a BRK over.
Vectors ==
    {B * B - 2} \cup IF cmos /\ ins.kind = "brk" THEN {} ELSE {B * B - 6}

Vector ==
    /\ Doing("vector")
    /\ \E v \in Byte, at \in Vectors : Reads(at, v) /\ low' = v /\ addr' = at
    /\ Then
    /\ UNCHANGED <<pc, s, base>>

JumpIndex ==
    /\ Doing("jumpIndex")
    /\ Looks(Plus(pc, -2))
    /\ addr' = Plus(addr, ins.index)
    /\ Then
    /\ UNCHANGED <<pc, s, low, base>>

JumpLow ==
    /\ Doing("jumpLow")
    /\ \E v \in Byte : Reads(addr, v) /\ low' = v
    /\ Then
    /\ UNCHANGED <<pc, s, base, addr>>

\* Fault: a CMOS part inherits the NMOS parts' page wrap.
HighAtInPage == [to |-> pc, vectorHigh |-> Plus(addr, 1), jumpHigh |-> PlusInPage(addr, 1)]

\* Where the high byte of the new program counter is.
HighAt == [to |-> pc, vectorHigh |-> Plus(addr, 1),
           jumpHigh |-> IF cmos THEN Plus(addr, 1) ELSE PlusInPage(addr, 1)]

Jump ==
    /\ \E it \in DOMAIN HighAt :
          Doing(it) /\ \E v \in Byte : Reads(HighAt[it], v) /\ pc' = Word(low, v)
    /\ Then
    /\ UNCHANGED <<s, forming>>

\* The offset of a branch, which its flag or its bit lets be taken or not.
Offset ==
    /\ Doing("offset")
    /\ pc' = Plus(pc, 1)
    /\ \E v \in Byte :
          LET target == Plus(pc', Signed(v))
          IN  /\ Reads(pc, v)
              /\ \/ ahead' = <<>> /\ UNCHANGED addr
                 \/ /\ ahead' = IF High(pc') = High(target) THEN <<"here">>
                                                            ELSE <<"here", "there">>
                    /\ addr' = target
    /\ UNCHANGED <<s, low, base>>

Branch ==
    /\ \/ Doing("here") /\ Looks(pc)
       \/ Doing("there") /\ Looks(IF ins.kind = "branch" THEN Uncorrected(pc, addr) ELSE pc)
    /\ Then
    /\ pc' = IF Len(ahead) = 1 THEN addr ELSE pc
    /\ UNCHANGED <<s, forming>>

-----------------------------------------------------------------------------
\* The instruction is over, and whatever it left may be changed before the next.
Over == ins # None /\ ahead = <<>>

End ==
    /\ Over
    /\ ins' = None
    /\ mem' = <<>> /\ first' = <<>>
    /\ pc' = 0 /\ s' = 0
    /\ low' = 0 /\ base' = 0 /\ addr' = 0
    /\ bus' = [does |-> "none", at |-> 0]
    /\ cycles' = 0
    /\ UNCHANGED <<part, ahead>>

Next ==
    \/ Begin \/ Enter \/ Dead \/ Signature \/ End
    \/ FetchLow \/ FetchHigh \/ SpareInPageZero \/ PointerLow \/ PointerHigh \/ Carry
    \/ Held \/ Settle \/ Write \/ Store
    \/ Push \/ PullAside \/ Pull \/ Pulled
    \/ Vector \/ JumpIndex \/ JumpLow \/ Jump \/ Offset \/ Branch

Spec == Init /\ [][Next]_vars

-----------------------------------------------------------------------------
(* What an instruction should do, from the bytes found at its address, its *)
(* mode in the opcode table and the index it began with.                   *)

Operand(n) == first[Cell(Plus(ins.at, n))]

Pointer(z) == Word(first[Cell(z)], first[Cell((z + 1) % B)])

\* The program counter is the word whose bytes are at these two addresses.
Fetched(lowAt, highAt) ==
    /\ {Cell(lowAt), Cell(highAt)} \subseteq DOMAIN mem
    /\ pc = Word(mem[Cell(lowAt)], mem[Cell(highAt)])

Stacked(n) == Word(mem[Cell(Stack((s + n) % B))], mem[Cell(Stack((s + n + 1) % B))])

Unindexed == IF ins.mode = "indirectIndexedY" THEN Pointer(Operand(1))
                                              ELSE Word(Operand(1), Operand(2))

Named ==
    CASE ins.mode = "zeroPage" -> Operand(1)
      [] ins.mode = "zeroPageX" -> (Operand(1) + ins.index) % B
      [] ins.mode = "absolute" -> Unindexed
      [] ins.mode \in {"absoluteX", "indirectIndexedY"} -> Plus(Unindexed, ins.index)
      [] ins.mode = "indexedIndirectX" -> Pointer((Operand(1) + ins.index) % B)
      [] ins.mode = "zeroPageIndirect" -> Pointer(Operand(1))

Indexed == ins.mode \in {"absoluteX", "indirectIndexedY"}

Crosses == Indexed /\ High(Unindexed) # High(Named)

Addressing == ins.kind \in DOMAIN AtAddress

\* An instruction writes to the stack, if it pushes, or to the address its bytes
\* name, whatever the carry; and what an NMOS part writes there first, while it
\* works on a byte it read, is that byte.  Only an unstable store may miss its
\* page.  (op_sta and the other stores, read_modify_write, settle, push8,
\* unstable_store)
WritesAreNamed ==
    bus.does = "write" =>
        \/ ins.kind \in {"push", "jsr", "brk", "interrupt"} /\ bus.at = Cell(Stack((s + 1) % B))
        \/ /\ ins.kind \in {"write", "modify", "shift"}
           /\ bus.at = Cell(Named)
           /\ ahead # <<>> => mem[bus.at] = first[bus.at]
        \/ /\ ins.kind = "unstable"
           /\ \E page \in Byte :
                 /\ bus.at = Cell(Word(Low(Named), page))
                 /\ page = High(Named) \/ Crosses

\* No read on the way to an operand touches what the instruction does not name:
\* its own bytes, page zero where its mode goes through it, and the address it
\* ends at.  An NMOS part reads besides the address before the carry; a CMOS
\* part never does.  (spare_for_index, spare_in_page_zero, settle; the table
\* OPEN-QUESTIONS.md follows)
SparesAreHarmless ==
    Addressing /\ bus.does = "read" =>
        \/ \E n \in 0..MODE_SIZE[ins.mode] : bus.at = Cell(Plus(ins.at, n))
        \/ ins.mode \notin {"absolute", "absoluteX"} /\ \E z \in Byte : bus.at = Cell(z)
        \/ bus.at = Cell(Named)
        \/ ~cmos /\ Indexed /\ bus.at = Cell(Uncorrected(Unindexed, Named))

Size == 1 + MODE_SIZE[ins.mode]

After == Plus(ins.at, Size)

\* A branch not taken costs this.
Untaken == IF ins.kind = "branch" THEN 2 ELSE 5

\* The core goes on where the disassembler's decode() and branch_target() say the
\* next instruction is, wherever in a page the last one lay; a jump goes to the
\* word it names, with the NMOS parts' page wrap where they have one; and what a
\* call, a BRK or an interrupt pushes brings RTS or RTI back: after the call,
\* two bytes after the BRK, to the instruction interrupted.
ArrivesWhereDecoded ==
    Over =>
        CASE ins.kind \in {"branch", "branchOnBit"} ->
                pc = IF cycles = Untaken THEN After ELSE Plus(After, Signed(Operand(Size - 1)))
          [] ins.kind = "jmp" -> pc = Unindexed
          [] ins.kind = "jmpIndirect" ->
                Fetched(Unindexed, IF cmos THEN Plus(Unindexed, 1) ELSE PlusInPage(Unindexed, 1))
          [] ins.kind = "jmpIndirectX" ->
                Fetched(Plus(Unindexed, ins.index), Plus(Unindexed, ins.index + 1))
          [] ins.kind = "jsr" -> /\ pc = Word(Operand(1), mem[Cell(Plus(ins.at, 2))])
                                 /\ Plus(Stacked(1), 1) = After
          [] ins.kind = "rts" -> pc = Plus(Stacked(-1), 1)
          [] ins.kind = "rti" -> pc = Stacked(-1)
          [] ins.kind \in {"brk", "interrupt"} ->
                /\ \E at \in Vectors : Fetched(at, Plus(at, 1))
                /\ Stacked(2) = IF ins.kind = "brk" THEN Plus(After, 1) ELSE ins.at
          [] OTHER -> pc = After

Reading == [zeroPage |-> 3, zeroPageX |-> 4, absolute |-> 4, absoluteX |-> 4,
            indexedIndirectX |-> 6, indirectIndexedY |-> 5, zeroPageIndirect |-> 5]

Other == [implied |-> 2, immediate |-> 2, push |-> 3, pull |-> 4, jmp |-> 3, jsr |-> 6,
          rts |-> 6, rti |-> 6, brk |-> 7, interrupt |-> 7, nop1 |-> 1, nop3 |-> 3,
          nopX |-> 4, sumImmediate |-> 3, jmpIndirect |-> 5, jmpIndirectX |-> 6]

One(condition) == IF condition THEN 1 ELSE 0

Printed ==
    CASE ins.kind = "read" -> Reading[ins.mode] + One(Crosses)
      [] ins.kind = "sum" -> Reading[ins.mode] + One(Crosses) + 1
      [] ins.kind \in {"write", "unstable"} -> Reading[ins.mode] + One(Indexed)
      [] ins.kind = "modify" -> Reading[ins.mode] + One(Indexed) + 2
      [] ins.kind = "shift" -> Reading[ins.mode] + One(IF cmos THEN Crosses ELSE Indexed) + 2
      [] ins.kind = "jmpIndirect" -> 5 + One(cmos)
      [] OTHER -> Other[ins.kind]

\* Every instruction costs the cycles printed for its mode, one more where a read
\* crosses a page, where a branch is taken, where it leaves its page, and where a
\* CMOS part adds in decimal.  (conformance/addressing-cycles.json from the
\* MCS6500 manual, and OPEN-QUESTIONS.md for the CMOS parts)
CyclesAsPrinted ==
    Over =>
        IF ins.kind \in {"branch", "branchOnBit"}
        THEN \/ cycles = Untaken /\ pc = After
             \/ cycles = Untaken + 1 + One(High(pc) # High(After))
        ELSE cycles = Printed
=============================================================================
