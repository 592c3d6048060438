-------------------------- MODULE SixteenAddressing --------------------------
(***************************************************************************)
(* mos65xx/wdc65816.py: what an instruction of the 65816 puts on the bus,  *)
(* cycle by cycle, which of its outputs it drives with it, and where it    *)
(* leaves the program counter, its bank, the stack pointer and memory.     *)
(*                                                                         *)
(* As in Addressing, `ahead` is what the handler has still to do and a     *)
(* cell holds any byte until it is looked at for one.  X and Y are one     *)
(* index, and the directY and absoluteY modes are their X namesakes.  The  *)
(* block moves are BlockMove's.                                            *)
(*                                                                         *)
(* A definition whose comment begins with "Fault:" is not the code.        *)
(***************************************************************************)
EXTENDS Integers, Sequences

CONSTANTS
    B,            \* how many values a byte has
    Reaches,      \* how many cells a package's address lines tell apart
    Starts,       \* the addresses programs have instructions at
    IndexValues,  \* what an index register may hold
    Banks,        \* what the data bank register may hold
    DirectPages   \* what the direct register may hold

ASSUME ByteAssumption == B \in Nat /\ B >= 3
ASSUME ReachAssumption == Reaches \subseteq {B * B, B * B * B}

Byte == 0..B - 1
BB == B * B
Wide == 0..BB - 1

ASSUME PlacesAssumption ==
    /\ Starts \subseteq 0..BB * B - 1 /\ IndexValues \subseteq Wide
    /\ Banks \subseteq Byte /\ DirectPages \subseteq Wide

Word(low, high) == low + B * high
Low(w) == w % B
High(w) == (w \div B) % B
Long(bank, w) == BB * bank + w
Bank(a) == (a \div BB) % B
Plus(w, n) == ((w + n) % BB)
InBank(a, n) == Long(Bank(a), Plus(a % BB, n))
InPage(a, n) == Long(Bank(a), Word((Low(a) + n) % B, High(a)))
Signed(v, size) == IF 2 * v >= size THEN v - size ELSE v

VARIABLES
    reach,        \* the package: a 65802 brings out no bank
    ins,          \* the instruction, its mode, where it is and the registers it reads
    ahead,        \* what its handler has still to do
    mem, first,   \* memory as far as it is known, and as it was found
    pc, pb, s,
    low, base,    \* the low byte, and the word, in the making
    point, addr,  \* the address of the pointer, and of the operand
    asserted,     \* `locked` and `pulling`: the outputs a handler holds
    bus,          \* the last cycle: what it was for, its outputs, and where
    cycles        \* how many the instruction has spent

memory == <<mem, first>>
forming == <<low, base, point, addr>>
vars == <<reach, ins, ahead, memory, pc, pb, s, forming, asserted, bus, cycles>>

-----------------------------------------------------------------------------
(* The instructions: what effective() does, and then the handler.          *)

ZeroModes == {"direct", "directX", "indirect", "indexedIndirectX", "indirectIndexedY",
              "indirectLong", "indirectLongY"}
BANK_ZERO_MODES == {"direct", "directX", "stack"}
Carries == {"absoluteX", "indirectIndexedY"}
Indexes == Carries \cup {"absoluteLongX", "indirectLongY", "stackIndirect"}

effective == [
    direct |-> <<"offset">>,
    directX |-> <<"offset", "here">>,
    absolute |-> <<"low", "high">>,
    absoluteX |-> <<"low", "high">>,
    absoluteLong |-> <<"low", "high", "bank">>,
    absoluteLongX |-> <<"low", "high", "bank">>,
    indirect |-> <<"offset", "pointer", "pointerHigh">>,
    indexedIndirectX |-> <<"offset", "here", "pointer", "pointerHigh">>,
    indirectIndexedY |-> <<"offset", "pointer", "pointerHigh">>,
    indirectLong |-> <<"offset", "pointer", "pointerHigh", "pointerBank">>,
    indirectLongY |-> <<"offset", "pointer", "pointerHigh", "pointerBank">>,
    stack |-> <<"offset", "here">>,
    stackIndirect |-> <<"offset", "here", "pointer", "pointerHigh", "pointerIdle">>]

AtAddress(wide) ==
    IF wide THEN [read |-> <<"look", "lookHigh">>, write |-> <<"write", "writeHigh">>,
                  modify |-> <<"held", "heldHigh", "settle", "writeHigh", "write">>]
            ELSE [read |-> <<"look">>, write |-> <<"write">>,
                  modify |-> <<"held", "settle", "write">>]

Modes == [read |-> DOMAIN effective, write |-> DOMAIN effective,
          modify |-> {"direct", "directX", "absolute", "absoluteX"}]

\* The other instructions, by what their handlers do: PHA, PLA and their like, and
\* interrupt(), under these names.
Handlers(e, wide) ==
    LET entry == IF e THEN <<"pushHigh", "pushLow", "push", "vector", "vectorHigh">>
                 ELSE <<"pushBank", "pushHigh", "pushLow", "push", "vector", "vectorHigh">>
    IN  [implied |-> <<"idle">>, xba |-> <<"idle", "idle">>, wdm |-> <<"step">>,
         immediate |-> IF wide THEN <<"low", "high">> ELSE <<"low">>,
         rep |-> <<"low", "here">>,
         push |-> IF wide THEN <<"idle", "push", "push">> ELSE <<"idle", "push">>,
         pull |-> IF wide THEN <<"idle", "idle", "pullLow", "pullHigh">>
                          ELSE <<"idle", "idle", "pullLow">>,
         phd |-> <<"idle", "push", "push">>,
         plb |-> <<"idle", "idle", "pullLow">>,
         pld |-> <<"idle", "idle", "pullLow", "pullHigh">>,
         pea |-> <<"low", "high", "pushHigh", "pushLow">>,
         pei |-> <<"offset", "pointer", "pointerHigh", "pushHigh", "pushLow">>,
         per |-> <<"low", "high", "here", "pushHigh", "pushLow">>,
         branch |-> <<"taken">>,
         brl |-> <<"low", "high", "leave">>,
         jmp |-> <<"low", "to">>,
         jmpIndirect |-> <<"low", "high", "jumpLow", "jumpHigh">>,
         jmpIndirectX |-> <<"low", "high", "here", "jumpLow", "jumpHigh">>,
         jml |-> <<"low", "high", "bank">>,
         jmlIndirect |-> <<"low", "high", "jumpLow", "jumpHigh", "jumpBank">>,
         jsr |-> <<"low", "high", "here", "pushHigh", "pushLow">>,
         jsrIndirectX |-> <<"low", "pushHigh", "pushLow", "high", "here", "jumpLow", "jumpHigh">>,
         jsl |-> <<"low", "high", "pushBank", "baseIdle", "bank", "pushHigh", "pushLow">>,
         rts |-> <<"idle", "idle", "pullLow", "pullHigh", "pulled">>,
         rtl |-> <<"idle", "idle", "pullLow", "pullHigh", "pullBank">>,
         rti |-> IF e THEN <<"idle", "idle", "pullAside", "pullLow", "pullHigh">>
                 ELSE <<"idle", "idle", "pullAside", "pullLow", "pullHigh", "pullBank">>,
         brk |-> <<"signature">> \o entry,
         interrupt |-> entry]

ModeOf(kind) ==
    CASE kind \in {"immediate", "rep", "wdm", "brk"} -> "immediate"
      [] kind \in {"pea", "per"} -> "absolute"
      [] kind = "pei" -> "indirect"
      [] kind = "branch" -> "relative"
      [] kind = "brl" -> "relativeWord"
      [] kind \in {"jmp", "jsr"} -> "absolutePC"
      [] kind = "jmpIndirect" -> "indirectPC"
      [] kind \in {"jmpIndirectX", "jsrIndirectX"} -> "indirectX"
      [] kind \in {"jml", "jsl"} -> "absoluteLong"
      [] kind = "jmlIndirect" -> "indirectLongPC"
      [] OTHER -> "implied"

OPCODES == (UNION {{[kind |-> k, mode |-> m] : m \in Modes[k]} : k \in DOMAIN Modes})
           \cup {[kind |-> k, mode |-> ModeOf(k)] : k \in DOMAIN Handlers(TRUE, FALSE)}

\* These work from the whole stack pointer, whatever the page, and put it back in
\* page one when they are done.
Flat == {"phd", "plb", "pld", "pea", "pei", "per", "jsrIndirectX", "jsl", "rtl"}

Stacks == Flat \cup {"push", "pull", "jsr", "rts", "rti", "brk", "interrupt"}

-----------------------------------------------------------------------------
(* One bus cycle.                                                          *)

Cell(a) == a % reach

Cycle(does, pins, a) ==
    /\ bus' = [does |-> does, pins |-> pins \cup asserted \cup asserted', at |-> Cell(a)]
    /\ cycles' = cycles + 1
    /\ UNCHANGED <<reach, ins>>

Internal(does, pins, a) == Cycle(does, pins, a) /\ UNCHANGED memory

\* A read whose value no address, return or write depends on.
Looks(does, pins, a) == Internal(does, pins, a)

\* What is known of memory when v has been found in, or put into, a cell.
Known(m, cell, v) == [c \in (DOMAIN m) \cup {cell} |-> IF c = cell THEN v ELSE m[c]]

Reads(does, pins, a, v) ==
    /\ Cycle(does, pins, a)
    /\ Cell(a) \in DOMAIN mem => v = mem[Cell(a)]
    /\ mem' = Known(mem, Cell(a), v)
    /\ first' = IF Cell(a) \in DOMAIN mem THEN first ELSE Known(first, Cell(a), v)

Writes(does, a, v) ==
    /\ Cycle(does, {"d", "w"}, a)
    /\ mem' = Known(mem, Cell(a), v)
    /\ UNCHANGED first

Doing(it) == ahead # <<>> /\ Head(ahead) = it
Then == ahead' = Tail(ahead)
Last == Len(ahead) = 1

Free == UNCHANGED asserted

-----------------------------------------------------------------------------
(* The opcode, and the registers an instruction finds: those it reads.     *)

None == [kind |-> "none", mode |-> "implied", e |-> FALSE, wide |-> FALSE, x8 |-> FALSE,
         at |-> 0, index |-> 0, db |-> 0, d |-> 0]

Init ==
    /\ reach \in Reaches
    /\ ins = None
    /\ ahead = <<>> /\ mem = <<>> /\ first = <<>>
    /\ pc = 0 /\ pb = 0 /\ s = 0
    /\ low = 0 /\ base = 0 /\ point = 0 /\ addr = 0
    /\ asserted = {}
    /\ bus = [does |-> "none", pins |-> {}, at |-> 0]
    /\ cycles = 0

Only(condition, values) == IF condition THEN values ELSE {0}

\* An index of eight bits is the wider one's special case, except where the index
\* register's width has cycles of its own.
Registers(do, at) ==
    {i \in [kind : {do.kind}, mode : {do.mode}, e : BOOLEAN, at : {at},
            wide : IF do.kind \in DOMAIN Modes \cup {"immediate", "push", "pull"}
                   THEN BOOLEAN ELSE {FALSE},
            x8 : IF do.mode \in Carries THEN BOOLEAN ELSE {TRUE},
            index : Only(do.mode \in Indexes \cup {"directX", "indexedIndirectX", "indirectX"},
                         IndexValues),
            db : Only(do.kind \in DOMAIN Modes /\ do.mode \notin BANK_ZERO_MODES, Banks),
            d : Only(do.mode \in ZeroModes, DirectPages)] :
     /\ i.e => ~i.wide /\ i.x8
     /\ i.x8 /\ (i.e \/ do.mode \in Carries) => i.index \in Byte}

unaligned(i) == IF i.mode \in ZeroModes /\ Low(i.d) # 0 THEN <<"here">> ELSE <<>>

Does(i) ==
    IF i.kind \in DOMAIN Modes
    THEN <<Head(effective[i.mode])>> \o unaligned(i) \o Tail(effective[i.mode])
         \o AtAddress(i.wide)[i.kind]
    ELSE LET does == Handlers(i.e, i.wide)[i.kind]
         IN  IF i.kind = "pei" THEN <<Head(does)>> \o unaligned(i) \o Tail(does) ELSE does

Start(do, at) ==
    \E i \in Registers(do, at) :
        /\ ins' = i
        /\ ahead' = Does(i)
        /\ s' \in Only(do.kind \in Stacks \/ do.mode \in {"stack", "stackIndirect"},
                       IF i.e THEN {Word(v, 1) : v \in Byte} ELSE Wide)
        /\ pb' = Bank(at)
        /\ UNCHANGED <<reach, memory, forming, asserted>>

Begin ==
    ins = None /\ \E do \in OPCODES, at \in Starts :
        /\ do.kind # "interrupt"
        /\ Start(do, at)
        /\ pc' = Plus(at % BB, 1)
        /\ bus' = [does |-> "opcode", pins |-> {"d", "p"} \cup asserted, at |-> Cell(at)]
        /\ cycles' = 1

Enter ==
    ins = None /\ \E do \in OPCODES, at \in Starts :
        /\ do.kind = "interrupt"
        /\ Start(do, at)
        /\ pc' = at % BB
        /\ UNCHANGED <<bus, cycles>>

-----------------------------------------------------------------------------
(* Cycles with no transfer, and reads at an address already known.         *)

IdleAt == [idle |-> Long(pb, pc), here |-> Long(pb, Plus(pc, -1)), pointerIdle |-> Plus(point, 1),
           baseIdle |-> Plus(s, 1),
           carry |-> Long(ins.db, Word((Low(base) + ins.index) % B, High(base)))]

Idle ==
    /\ Free
    /\ \E it \in DOMAIN IdleAt : Doing(it) /\ Internal(it, {}, IdleAt[it])
    /\ Then
    /\ UNCHANGED <<pc, pb, s, forming>>

\* WDM's second byte is stepped over unread, that of BRK and COP read.
Step ==
    /\ Free
    /\ \/ Doing("step") /\ Internal("step", {}, Long(pb, pc))
       \/ Doing("signature") /\ Looks("signature", {"p"}, Long(pb, pc))
    /\ pc' = Plus(pc, 1)
    /\ Then
    /\ UNCHANGED <<pb, s, forming>>

Leave ==
    /\ Free
    /\ Doing("leave")
    /\ Internal("leave", {}, Long(pb, Plus(pc, -1)))
    /\ pc' = addr
    /\ Then
    /\ UNCHANGED <<pb, s, forming>>

-----------------------------------------------------------------------------
(* effective().                                                            *)

page_wraps == ins.e /\ Low(ins.d) = 0

\* Fault: the direct page never wraps.
directNoWrap(offset) == Plus(ins.d, offset)

direct(offset) == IF page_wraps THEN Word(offset % B, High(ins.d)) ELSE Plus(ins.d, offset)

FetchOffset ==
    /\ Free
    /\ Doing("offset")
    /\ \E v \in Byte :
          LET target == IF ins.mode \in {"stack", "stackIndirect"} THEN Plus(s, v)
                        ELSE direct(v + IF ins.mode \in {"directX", "indexedIndirectX"}
                                        THEN ins.index ELSE 0)
          IN  /\ Reads("offset", {"p"}, Long(pb, pc), v)
              /\ point' = target
              /\ addr' = target
    /\ pc' = Plus(pc, 1)
    /\ Then
    /\ UNCHANGED <<pb, s, low, base>>

FetchLow ==
    /\ Free
    /\ Doing("low")
    /\ \E v \in Byte : Reads("low", {"p"}, Long(pb, pc), v) /\ low' = v
    /\ pc' = Plus(pc, 1)
    /\ Then
    /\ UNCHANGED <<pb, s, base, point, addr>>

\* Fault: sixteen bit indexes take the corrected cycle only across a page.
takes_carryByPage(word) ==
    ins.kind \in {"write", "modify"} \/ High(word) # High(Plus(word, ins.index))

takes_carry(word) ==
    \/ ins.kind \in {"write", "modify"}
    \/ ~ins.x8
    \/ High(word) # High(Plus(word, ins.index))

Index == IF ins.mode \in Indexes THEN ins.index ELSE 0

\* A word has been read: it is in the data bank, until a bank is read for it.
Formed(word) ==
    /\ base' = word
    /\ addr' = Long(ins.db, word) + Index
    /\ ahead' = (IF ins.mode \in Carries /\ takes_carry(word) THEN <<"carry">> ELSE <<>>)
                \o Tail(ahead)

FetchHigh ==
    /\ Free
    /\ Doing("high")
    /\ \E v \in Byte :
          LET word == Word(low, v)
          IN  /\ Reads("high", {"p"}, Long(pb, pc), v)
              /\ IF ins.kind = "brl"
                 THEN base' = word /\ addr' = Plus(Plus(pc, 1), Signed(word, BB)) /\ Then
                 ELSE Formed(word)
              /\ point' = IF ins.mode = "indirectX" THEN Long(pb, Plus(word, ins.index)) ELSE word
    /\ pc' = Plus(pc, 1)
    /\ UNCHANGED <<pb, s, low>>

\* The bank of an address, or of a jump that goes there at once.
FetchBank ==
    /\ Free
    /\ Doing("bank")
    /\ \E v \in Byte :
          /\ Reads("bank", {"p"}, Long(pb, pc), v)
          /\ addr' = Long(v, base) + Index
          /\ pb' = IF Last THEN v ELSE pb
    /\ pc' = IF Last THEN base ELSE Plus(pc, 1)
    /\ Then
    /\ UNCHANGED <<s, low, base, point>>

\* Where the bytes of a pointer after the first are: in its page, in emulation, if
\* it is an indexed one or an aligned direct page holds it; else in its bank.
pointer_wraps ==
    \/ ins.mode = "indexedIndirectX" /\ ins.e
    \/ ins.kind # "pei" /\ ins.mode \in {"indirect", "indirectIndexedY"} /\ page_wraps

PointerLow ==
    /\ Free
    /\ Doing("pointer")
    /\ \E v \in Byte : Reads("pointer", {"d"}, point, v) /\ low' = v
    /\ Then
    /\ UNCHANGED <<pc, pb, s, base, point, addr>>

PointerHigh ==
    /\ Free
    /\ Doing("pointerHigh")
    /\ \E v \in Byte :
          /\ Reads("pointerHigh", {"d"}, IF pointer_wraps THEN InPage(point, 1) ELSE Plus(point, 1), v)
          /\ Formed(Word(low, v))
    /\ UNCHANGED <<pc, pb, s, low, point>>

PointerBank ==
    /\ Free
    /\ Doing("pointerBank")
    /\ \E v \in Byte :
          Reads("pointerBank", {"d"}, Plus(point, 2), v) /\ addr' = Long(v, base) + Index
    /\ Then
    /\ UNCHANGED <<pc, pb, s, low, base, point>>

-----------------------------------------------------------------------------
(* The operand.                                                            *)

\* Fault: the second byte of every operand stays in the first one's bank.
next_byteInBank(a) == InBank(a, 1)

next_byte(a) == IF ins.mode \in BANK_ZERO_MODES THEN InBank(a, 1) ELSE a + 1

DataAt == [look |-> addr, lookHigh |-> next_byte(addr), held |-> addr,
           heldHigh |-> next_byte(addr), write |-> addr, writeHigh |-> next_byte(addr)]

\* The bus is held from the first read of what is modified to the last write.
Operand ==
    /\ \E it \in DOMAIN DataAt :
          /\ Doing(it)
          /\ asserted' = IF ins.kind = "modify" /\ ~Last THEN {"l"} ELSE {}
          /\ IF it \in {"write", "writeHigh"} THEN \E v \in Byte : Writes(it, DataAt[it], v)
                                              ELSE Looks(it, {"d"}, DataAt[it])
    /\ Then
    /\ UNCHANGED <<pc, pb, s, forming>>

\* Emulation drives RWB low here, and nothing is written.
Settle ==
    /\ Free
    /\ Doing("settle")
    /\ Internal("settle", IF ins.e THEN {"w"} ELSE {},
                IF ins.wide THEN next_byte(addr) ELSE addr)
    /\ Then
    /\ UNCHANGED <<pc, pb, s, forming>>

-----------------------------------------------------------------------------
(* The stack.                                                              *)

Pushing == {"push", "pushHigh", "pushLow", "pushBank"}
Pulling == {"pullAside", "pullLow", "pullHigh", "pullBank"}

InPageOne(w) == IF ins.e THEN Word(Low(w), 1) ELSE w

More == \E n \in 2..Len(ahead) : ahead[n] \in Pushing \cup Pulling

\* Fault: the pointer is put back in page one only when an instruction is done.
KeptUnfolded(n) == IF More THEN Plus(s, n) ELSE InPageOne(Plus(s, n))

\* Where the pointer goes next, and what is left in the register.
Moved(n) == IF ins.kind \in Flat THEN Plus(s, n) ELSE InPageOne(Plus(s, n))

Kept(n) == IF More THEN Moved(n) ELSE InPageOne(Plus(s, n))

\* Fault: JSL pushes where it goes on, and RTL adds one.
PushedWordAfter ==
    CASE ins.kind \in {"pea", "pei"} -> base
      [] ins.kind = "per" -> Plus(pc, Signed(base, BB))
      [] ins.kind = "jsr" -> Plus(pc, -1)
      [] OTHER -> pc

PushedWord ==
    CASE ins.kind \in {"pea", "pei"} -> base
      [] ins.kind = "per" -> Plus(pc, Signed(base, BB))
      [] ins.kind \in {"jsr", "jsl"} -> Plus(pc, -1)
      [] OTHER -> pc

Values == [push |-> Byte, pushHigh |-> {High(PushedWord)}, pushLow |-> {Low(PushedWord)},
           pushBank |-> {pb}]

\* JSR and JSL are at their target once their return address is pushed.
Push ==
    /\ Free
    /\ \E it \in Pushing : Doing(it) /\ \E v \in Values[it] : Writes(it, s, v)
    /\ s' = Kept(-1)
    /\ pc' = IF Last /\ ins.kind \in {"jsr", "jsl"} THEN base ELSE pc
    /\ pb' = IF Last /\ ins.kind = "jsl" THEN Bank(addr) ELSE pb
    /\ Then
    /\ UNCHANGED forming

Pull ==
    /\ Free
    /\ \E v \in Byte :
          \/ Doing("pullAside") /\ Looks("pullAside", {"d"}, Moved(1)) /\ v = 0
             /\ UNCHANGED <<low, base, pc, pb>>
          \/ Doing("pullLow") /\ Reads("pullLow", {"d"}, Moved(1), v)
             /\ low' = v /\ UNCHANGED <<base, pc, pb>>
          \/ Doing("pullHigh") /\ Reads("pullHigh", {"d"}, Moved(1), v)
             /\ base' = Word(low, v) /\ UNCHANGED <<low, pb>>
             /\ pc' = IF ins.kind = "rti" THEN base' ELSE pc
          \/ Doing("pullBank") /\ Reads("pullBank", {"d"}, Moved(1), v)
             /\ pb' = v /\ UNCHANGED <<low, base>>
             /\ pc' = IF ins.kind = "rtl" THEN Plus(base, 1) ELSE pc
    /\ s' = Kept(1)
    /\ Then
    /\ UNCHANGED <<point, addr>>

Pulled ==
    /\ Free
    /\ Doing("pulled")
    /\ Internal("pulled", {}, s)
    /\ pc' = Plus(base, 1)
    /\ Then
    /\ UNCHANGED <<pb, s, forming>>

-----------------------------------------------------------------------------
(* Vectors, jumps and branches.                                            *)

\* The vectors of BRK and COP, of an interrupt, and of an abort, in one mode or the
\* other: each its own word, where this memory has room for two.
Vectors == {BB - 2, BB - 4}

Vector ==
    /\ Doing("vector")
    /\ asserted' = {"v"}
    /\ \E v \in Byte, at \in Vectors :
          Reads("vector", {"d"}, at, v) /\ low' = v /\ point' = at
    /\ pb' = 0
    /\ Then
    /\ UNCHANGED <<pc, s, base, addr>>

VectorHigh ==
    /\ Doing("vectorHigh")
    /\ asserted' = {}
    /\ \E v \in Byte : Reads("vectorHigh", {"d"}, point + 1, v) /\ pc' = Word(low, v)
    /\ Then
    /\ UNCHANGED <<pb, s, forming>>

JumpLow ==
    /\ Free
    /\ Doing("jumpLow")
    /\ \E v \in Byte : Reads("jumpLow", {"d"}, point, v) /\ low' = v
    /\ Then
    /\ UNCHANGED <<pc, pb, s, base, point, addr>>

JumpHigh ==
    /\ Free
    /\ \/ /\ Doing("to")
          /\ \E v \in Byte : Reads("to", {"p"}, Long(pb, pc), v) /\ pc' = Word(low, v)
       \/ /\ Doing("jumpHigh")
          /\ \E v \in Byte : Reads("jumpHigh", {"d"}, InBank(point, 1), v) /\ pc' = Word(low, v)
    /\ Then
    /\ UNCHANGED <<pb, s, forming>>

JumpBank ==
    /\ Free
    /\ Doing("jumpBank")
    /\ \E v \in Byte : Reads("jumpBank", {"d"}, InBank(point, 2), v) /\ pb' = v
    /\ Then
    /\ UNCHANGED <<pc, s, forming>>

\* A branch its flag lets be taken or not.
Branch ==
    /\ Free
    /\ Doing("taken")
    /\ pc' = Plus(pc, 1)
    /\ \E v \in Byte :
          LET target == Plus(pc', Signed(v, B))
          IN  /\ Reads("taken", {"p"}, Long(pb, pc), v)
              /\ \/ ahead' = <<>> /\ UNCHANGED addr
                 \/ /\ ahead' = IF ins.e /\ High(pc') # High(target) THEN <<"here", "leave">>
                                                                     ELSE <<"leave">>
                    /\ addr' = target
    /\ UNCHANGED <<pb, s, low, base, point>>

-----------------------------------------------------------------------------
\* The instruction is over, and whatever it left may be changed before the next;
\* or memory, or what on_cycle calls, has raised before it was.
Over == ins # None /\ ahead = <<>>

Forget ==
    /\ ins' = None
    /\ ahead' = <<>> /\ mem' = <<>> /\ first' = <<>>
    /\ pc' = 0 /\ pb' = 0 /\ s' = 0
    /\ low' = 0 /\ base' = 0 /\ point' = 0 /\ addr' = 0
    /\ bus' = [does |-> "none", pins |-> {}, at |-> 0]
    /\ cycles' = 0
    /\ UNCHANGED reach

End == Over /\ Forget /\ Free

\* Fault: what raises inside a handler leaves its outputs as it held them.
FailHolding == ahead # <<>> /\ Forget /\ Free

Fail == ahead # <<>> /\ Forget /\ asserted' = {}

Next ==
    \/ Begin \/ Enter \/ Idle \/ Step \/ Leave \/ End \/ Fail
    \/ FetchOffset \/ FetchLow \/ FetchHigh \/ FetchBank
    \/ PointerLow \/ PointerHigh \/ PointerBank
    \/ Operand \/ Settle \/ Push \/ Pull \/ Pulled
    \/ Vector \/ VectorHigh \/ JumpLow \/ JumpHigh \/ JumpBank \/ Branch

Spec == Init /\ [][Next]_vars

-----------------------------------------------------------------------------
(* What an instruction should do, from the bytes found at its address, its *)
(* mode in the opcode table and the registers it began with.               *)

Own(n) == InBank(ins.at, n)

Found(n) == first[Cell(Own(n))]

FoundWord == Word(Found(1), Found(2))

OfDirectPage(offset) == IF page_wraps THEN Word(offset % B, High(ins.d)) ELSE Plus(ins.d, offset)

\* The bytes of a pointer that wraps in its page, or in bank zero.
Byte3(a, wraps) ==
    <<first[Cell(a)], first[Cell(IF wraps THEN InPage(a, 1) ELSE Plus(a, 1))]>>

Pointed(a, wraps) == LET bytes == Byte3(a, wraps) IN Word(bytes[1], bytes[2])

Unindexed ==
    CASE ins.mode \in Carries \cap ZeroModes -> Pointed(OfDirectPage(Found(1)), page_wraps)
      [] ins.mode = "stackIndirect" -> Pointed(Plus(s, Found(1)), FALSE)
      [] OTHER -> FoundWord

Named ==
    LET wide == [indirectLong |-> 0, indirectLongY |-> ins.index]
    IN  CASE ins.mode = "direct" -> OfDirectPage(Found(1))
          [] ins.mode = "directX" -> OfDirectPage(Found(1) + ins.index)
          [] ins.mode = "stack" -> Plus(s, Found(1))
          [] ins.mode = "absolute" -> Long(ins.db, FoundWord)
          [] ins.mode \in Carries \cup {"stackIndirect"} -> Long(ins.db, Unindexed) + ins.index
          [] ins.mode = "absoluteLong" -> Long(Found(3), FoundWord)
          [] ins.mode = "absoluteLongX" -> Long(Found(3), FoundWord) + ins.index
          [] ins.mode = "indirect" -> Long(ins.db, Pointed(OfDirectPage(Found(1)), page_wraps))
          [] ins.mode = "indexedIndirectX" ->
                Long(ins.db, Pointed(OfDirectPage(Found(1) + ins.index), ins.e))
          [] OTHER -> LET at == OfDirectPage(Found(1))
                      IN  Long(first[Cell(Plus(at, 2))], Pointed(at, FALSE)) + wide[ins.mode]

\* The second byte of a word in the direct page or on the stack stays in bank zero;
\* any other goes on into the next bank.
Beside(a) == IF ins.mode \in {"direct", "directX", "stack"} THEN InBank(a, 1) ELSE a + 1

Addressing == ins.kind \in DOMAIN Modes

\* Whatever its mode and its width, and wherever its pointer lay, an instruction
\* reads and writes the bytes it names and no others: the first where its address
\* is, the second beside it.  What it modifies is written high byte first.
\* (effective, read_pointer, read_indexed_pointer, next_byte, write_value)
DataIsNamed ==
    Addressing /\ bus.does \in DOMAIN DataAt =>
        /\ bus.does \in {"look", "held", "write"} => bus.at = Cell(Named)
        /\ bus.does \in {"lookHigh", "heldHigh", "writeHigh"} => bus.at = Cell(Beside(Named))
        /\ bus.does = "write" /\ ins.wide => (ahead = <<>>) = (ins.kind = "modify")

EightBit == INSTANCE Addressing WITH
    cmos <- TRUE, reach <- BB, Reaches <- {BB}, Starts <- {0},
    ins <- [kind |-> ins.kind, at |-> ins.at, index |-> ins.index,
            mode |-> CASE ins.mode = "direct" -> "zeroPage"
                       [] ins.mode = "directX" -> "zeroPageX"
                       [] ins.mode = "indirect" -> "zeroPageIndirect"
                       [] OTHER -> ins.mode]

\* The operand is indexed past the end of bank zero.
PastBank == ins.mode \in Carries /\ Unindexed + ins.index >= BB

\* In emulation, with its direct page and its banks at zero, a 65816 finds the
\* operand of a 65C02's instruction where a 65C02 does; but that one indexed past
\* the last address is in bank one, where a 65C02's is in page zero.  (README.md:
\* "emulation mode"; effective() of wdc65816.py against that of mos6502.py)
EmulationAddressesAlike ==
    /\ ins.e /\ ins.d = 0 /\ ins.db = 0 /\ Bank(ins.at) = 0
    /\ ins.mode \in {"direct", "directX", "indirect"} \cup DOMAIN EightBit!effective
    /\ bus.does \in {"look", "held", "write"}
    => bus.at = Cell(EightBit!Named + IF PastBank THEN BB ELSE 0)

\* MLB is driven from the first read of what is modified to the last write and on
\* no other cycle, VPB on the two reads of a vector alone, even after an instruction
\* that raised; and RWB goes low for nothing written only while an emulated part
\* modifies.  (_read_modify_write, vector16, internal)
OutputsTell ==
    /\ ("l" \in bus.pins) = (ins.kind = "modify" /\ bus.does \in DOMAIN DataAt \cup {"settle"})
    /\ ("v" \in bus.pins) = (bus.does \in {"vector", "vectorHigh"})
    /\ "w" \in bus.pins /\ "d" \notin bus.pins => ins.e /\ "l" \in bus.pins

MODE_SIZE == [
    implied |-> 0, immediate |-> 1, relative |-> 1, direct |-> 1, directX |-> 1, indirect |-> 1,
    indexedIndirectX |-> 1, indirectIndexedY |-> 1, indirectLong |-> 1, indirectLongY |-> 1,
    stack |-> 1, stackIndirect |-> 1, absolute |-> 2, absoluteX |-> 2, absolutePC |-> 2,
    indirectPC |-> 2, indirectX |-> 2, indirectLongPC |-> 2, relativeWord |-> 2,
    absoluteLong |-> 3, absoluteLongX |-> 3]

operand_size == IF ins.kind = "immediate" /\ ins.wide THEN 2 ELSE MODE_SIZE[ins.mode]

After == Plus(ins.at % BB, 1 + operand_size)

branch_target(operand, size) == Plus(After, Signed(operand, size))

\* The byte pushed after n others, of the t an instruction pushed; and the nth byte
\* it pulled, of t.
Pushed(t, n) ==
    LET at == Plus(IF ins.e THEN Word((Low(s) + t) % B, 1) ELSE Plus(s, t), 0 - n)
    IN  mem[Cell(IF ins.kind \in Flat THEN at ELSE InPageOne(at))]

PulledByte(t, n) ==
    LET at == Plus(IF ins.e THEN Word((Low(s) - t) % B, 1) ELSE Plus(s, 0 - t), n)
    IN  mem[Cell(IF ins.kind \in Flat THEN at ELSE InPageOne(at))]

PushedPc(t, n) == Word(Pushed(t, n + 1), Pushed(t, n))

\* The program counter is the word whose bytes are there, and its bank as given.
At(lowAt, highAt, bank) ==
    /\ {Cell(lowAt), Cell(highAt)} \subseteq DOMAIN mem
    /\ pc = Word(mem[Cell(lowAt)], mem[Cell(highAt)])
    /\ pb = bank

Untaken == 2

\* The core goes on where decode() and branch_target() say the next instruction
\* is, in the bank the last one was in; a jump goes where it names, its pointer in
\* bank zero or its own bank; a return goes to what it finds on the stack; and a
\* call, a BRK or an interrupt leaves on the stack, each byte below the last, the
\* byte before the next instruction, the instruction after BRK, or the one
\* interrupted, and, if native, its bank.  (Whether the one's pushes are what the
\* other pulls is CallsComeBack's.)
ArrivesWhereDecoded ==
    Over =>
    LET bank == Bank(ins.at)
        native == IF ins.e THEN 0 ELSE 1
        x == Long(bank, Plus(Word(Found(1), mem[Cell(Own(2))]), ins.index))
    IN
    CASE ins.kind = "branch" ->
            pb = bank /\ pc = IF cycles = Untaken THEN After ELSE branch_target(Found(1), B)
      [] ins.kind = "brl" -> pb = bank /\ pc = branch_target(FoundWord, BB)
      [] ins.kind = "jmp" -> At(Own(1), Own(2), bank)
      [] ins.kind = "jml" -> At(Own(1), Own(2), Found(3))
      [] ins.kind = "jmpIndirect" -> At(FoundWord, Plus(FoundWord, 1), bank)
      [] ins.kind = "jmlIndirect" ->
            At(FoundWord, Plus(FoundWord, 1), mem[Cell(Plus(FoundWord, 2))])
      [] ins.kind = "jmpIndirectX" -> At(x, InBank(x, 1), bank)
      [] ins.kind = "jsrIndirectX" -> At(x, InBank(x, 1), bank) /\ PushedPc(2, 0) = Plus(After, -1)
      [] ins.kind = "jsr" ->
            pb = bank /\ pc = FoundWord /\ PushedPc(2, 0) = Plus(After, -1)
      [] ins.kind = "jsl" -> /\ pc = FoundWord
                             /\ PushedPc(3, 1) = Plus(After, -1)
                             /\ Cell(Own(3)) \notin DOMAIN first \/ pb = Found(3)
      [] ins.kind = "rts" -> pb = bank /\ pc = Plus(Word(PulledByte(2, 1), PulledByte(2, 2)), 1)
      [] ins.kind = "rtl" -> /\ pb = PulledByte(3, 3)
                             /\ pc = Plus(Word(PulledByte(3, 1), PulledByte(3, 2)), 1)
      [] ins.kind = "rti" -> LET t == 3 + native IN
                             /\ pb = IF ins.e THEN bank ELSE PulledByte(t, 4)
                             /\ pc = Word(PulledByte(t, 2), PulledByte(t, 3))
      [] ins.kind \in {"brk", "interrupt"} -> LET t == 3 + native IN
            /\ \E at \in Vectors : At(at, at + 1, 0)
            /\ PushedPc(t, native) = IF ins.kind = "brk" THEN After ELSE ins.at % BB
            /\ ~ins.e => Pushed(t, 0) = bank
      [] OTHER -> pc = After /\ pb = bank

ReturnOf == [jsr |-> "rts", jsrIndirectX |-> "rts", jsl |-> "rtl", brk |-> "rti",
             interrupt |-> "rti"]

\* How many bytes it pulls, and where it finds the nth of them.
Pulls(by) == CASE by = "rts" -> 2 [] by = "rtl" -> 3 [] by = "rti" -> IF ins.e THEN 3 ELSE 4

Back(by, n) == Cell(IF by \in Flat THEN Plus(s, n) ELSE InPageOne(Plus(s, n)))

\* In emulation, the call's pushes or the return's pulls go on past an end of page
\* one: the one's below it, the other's above.
OffPageOne(by) ==
    /\ ins.e
    /\ \/ ins.kind \in Flat /\ (Low(s) + Pulls(by)) % B < Pulls(by) - 1
       \/ by \in Flat /\ Low(s) + Pulls(by) >= B

\* The RTS, RTL or RTI that ends a routine, or a handler, which leaves the stack as
\* it found it, comes back to the instruction after the call or BRK, or to the one
\* interrupted, and to its bank: in emulation, unless one of the two works from the
\* whole stack pointer and goes off page one, as JSR (a,x) does at its first byte
\* (OPEN-QUESTIONS.md:65) and JSL or RTL at its first three.  (op_jsr, op_jsl,
\* op_brk, interrupt, enter against op_rts, op_rtl, op_rti)
CallsComeBack ==
    Over /\ ins.kind \in DOMAIN ReturnOf =>
    LET by == ReturnOf[ins.kind]
        status == IF by = "rti" THEN 1 ELSE 0
        place == IF ins.kind = "interrupt" THEN ins.at % BB ELSE After
    IN  \/ OffPageOne(by)
        \/ /\ {Back(by, status + 1), Back(by, status + 2)} \subseteq DOMAIN mem
           /\ Plus(Word(mem[Back(by, status + 1)], mem[Back(by, status + 2)]), 1 - status) = place
           /\ by = "rtl" \/ (by = "rti" /\ ~ins.e) =>
                 /\ Back(by, status + 3) \in DOMAIN mem
                 /\ mem[Back(by, status + 3)] = Bank(ins.at)

One(condition) == IF condition THEN 1 ELSE 0

Reading == [direct |-> 3, directX |-> 4, absolute |-> 4, absoluteX |-> 4, absoluteLong |-> 5,
            absoluteLongX |-> 5, indirect |-> 5, indexedIndirectX |-> 6, indirectIndexedY |-> 5,
            indirectLong |-> 6, indirectLongY |-> 6, stack |-> 4, stackIndirect |-> 7]

Other == [implied |-> 2, xba |-> 3, wdm |-> 2, immediate |-> 2, rep |-> 3, push |-> 3, pull |-> 4,
          phd |-> 4, plb |-> 4, pld |-> 5, pea |-> 5, pei |-> 6, per |-> 6, brl |-> 4, jmp |-> 3,
          jmpIndirect |-> 5, jmpIndirectX |-> 6, jml |-> 4, jmlIndirect |-> 6, jsr |-> 6,
          jsrIndirectX |-> 8, jsl |-> 8, rts |-> 6, rtl |-> 6, rti |-> 7, brk |-> 8]

Indexing ==
    /\ ins.mode \in Carries
    /\ ins.kind # "read" \/ ~ins.x8 \/ High(Unindexed) # High(Plus(Unindexed, ins.index))

Printed ==
    IF Addressing
    THEN Reading[ins.mode] + One(Indexing)
         + IF ins.kind = "modify" THEN 2 + 2 * One(ins.wide) ELSE One(ins.wide)
    ELSE Other[ins.kind] + One(ins.wide)
         - One(ins.e /\ ins.kind \in {"rti", "brk"})

\* Every instruction costs the cycles the data sheet prints for its mode: one more
\* for a word (two to modify one), where the direct register is not at a page's
\* start, where an index crosses a page, is sixteen bits or is stored through,
\* where a branch is taken and where, in emulation, it leaves its page; one fewer
\* in emulation for what moves the program bank.  (conformance/bus-operation.json:
\* notes 1 to 7.)  Not an interrupt's entry, for which that file prints 8 and 7, two
\* before its pushes: enter() begins with the pushes, and nothing spends those two.
CyclesAsPrinted ==
    Over /\ ins.kind # "interrupt" =>
        IF ins.kind = "branch"
        THEN \/ cycles = Untaken /\ pc = After
             \/ cycles = Untaken + 1 + One(ins.e /\ High(pc) # High(After))
        ELSE cycles = Printed + One(ins.mode \in ZeroModes /\ Low(ins.d) # 0)
=============================================================================
