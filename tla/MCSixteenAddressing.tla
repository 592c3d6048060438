------------------------- MODULE MCSixteenAddressing -------------------------
(***************************************************************************)
(* Model checking of SixteenAddressing: bytes of four values, so that a    *)
(* bank has pages besides zero's, the stack's and the vectors', and a page *)
(* room for what a call pushes; and a package that brings every address    *)
(* line out or no bank.                                                    *)
(* Instructions begin in bank zero, across the end of a bank and across    *)
(* that of memory.  The direct register is at the start of page zero,      *)
(* inside it, at the start of the last page and at the end of bank zero.   *)
(***************************************************************************)
EXTENDS SixteenAddressing

Packages == {B * B, B * B * B}
Edges == {0, 2 * BB - 2, B * BB - 1}
IndexEdges == {0, 1, B - 1, BB - 1}
DataBanks == {0, B - 1}
Directs == {0, 1, BB - B, BB - 1}
=============================================================================
