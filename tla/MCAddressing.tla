---------------------------- MODULE MCAddressing ----------------------------
(***************************************************************************)
(* Model checking of Addressing: bytes of four values, so that memory has  *)
(* page zero, the stack's page, one more and the vectors', and a package   *)
(* that brings every address line out or one less.                         *)
(* Instructions begin in page zero, across the first two edges of a page,  *)
(* just before the vectors and across the end of memory.                   *)
(***************************************************************************)
EXTENDS Addressing

Packages == {B * B, (B * B) \div 2}
Edges == {0, 3, 6, 13, 15}
=============================================================================
