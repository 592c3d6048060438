--------------------------- MODULE MCClockedPart ---------------------------
(***************************************************************************)
(* Model checking of ClockedPart with programs of a few instructions, in a *)
(* package that brings both interrupt lines out and in one with neither.   *)
(***************************************************************************)
EXTENDS ClockedPart

Boards == [cmos : {FALSE}, pins : {{"irq", "nmi"}, {}}]

NmosProgram == {"sta", "brk", "jam"}
=============================================================================
