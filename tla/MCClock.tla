------------------------------ MODULE MCClock ------------------------------
(***************************************************************************)
(* Model checking of Clock: the constants are given in the configurations. *)
(***************************************************************************)
EXTENDS Clock
=============================================================================
