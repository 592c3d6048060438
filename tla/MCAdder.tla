------------------------------ MODULE MCAdder ------------------------------
(***************************************************************************)
(* Model checking of Adder: every two-byte number of these bytes, which    *)
(* hold each digit that is first or last of something and both signs.      *)
(***************************************************************************)
EXTENDS Adder

EdgeBytes == {0, 1, 9, 16, 25, 79, 80, 127, 128, 153, 250, 255}

EdgeNumbers == {256 * high + low : high \in EdgeBytes, low \in EdgeBytes}
=============================================================================
