--------------------------- MODULE MCSixteenBit ---------------------------
(***************************************************************************)
(* Model checking of SixteenBit: the programs and hosts of the runs.       *)
(***************************************************************************)
EXTENDS SixteenBit

AbortKinds == {"lda", "jml", "rmw", "xce", "rti", "brk", "cli", "stp", "wai"}

PinKinds == {"lda", "cli", "sei", "brk", "stp", "wai"}

\* The abort line under every instruction with something to give back, and all
\* three lines under those that mask, wait and stop.
Aborted == [kinds |-> AbortKinds, lines |-> {"abort"}, stall |-> 2, inside |-> TRUE]

Interrupted == [kinds |-> PinKinds, lines |-> AllLines, stall |-> 1, inside |-> FALSE]

Each == {Aborted, Interrupted}

Simplest == {[Aborted EXCEPT !.stall = 0, !.inside = FALSE]}
=============================================================================
