---------------------------- MODULE MCRegisters ----------------------------
(***************************************************************************)
(* Model checking of Registers: three values of a byte, so that page one   *)
(* has a page on each side and room for the longest frame of its mode.     *)
(***************************************************************************)
EXTENDS Registers

Edges == {0, 2}

EdgeWords == {[h |-> 2, l |-> 0]}
=============================================================================
