----------------------------- MODULE MCDriver -----------------------------
(***************************************************************************)
(* Model checking of Driver: the shortest instruction and a longer one, an *)
(* entry of seven cycles, slices of nothing, one cycle and several         *)
(* instructions.                                                           *)
(***************************************************************************)
EXTENDS Driver

Lengths == {1, 3}
Entries == {7}
Slices == {0, 1, 8}
Bounds == {None, 0, 3}
=============================================================================
