---------------------------- MODULE MCBlockMove ----------------------------
(***************************************************************************)
(* Model checking of BlockMove: banks of four bytes and pages of two, with *)
(* budgets for none, one and two bytes, and for parts of one.              *)
(***************************************************************************)
EXTENDS BlockMove

SliceBudgets == {Unlimited, 0, 5, 7, 8, 14}
=============================================================================
