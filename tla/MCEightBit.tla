----------------------------- MODULE MCEightBit -----------------------------
(***************************************************************************)
(* Model checking of EightBit: an NMOS part in each kind of package, and a *)
(* CMOS part.                                                              *)
(***************************************************************************)
EXTENDS EightBit

Programs == Instructions
=============================================================================
