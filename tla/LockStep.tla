------------------------------ MODULE LockStep ------------------------------
(***************************************************************************)
(* What a Clock promises, without its thread and its two semaphores: the   *)
(* host asks for one cycle, the part makes exactly one, the host is        *)
(* answered.  The part never runs unasked and never runs ahead.            *)
(***************************************************************************)
EXTENDS Naturals

VARIABLES
    turn,     \* who may move: "host", "part", "answer" or, at the end, "over"
    spent,    \* cycles the part has made for the clock
    ticked    \* cycles the host has been told of

vars == <<turn, spent, ticked>>

Init ==
    /\ turn = "host"
    /\ spent = 0
    /\ ticked = 0

\* The host asks for a cycle.
Ask ==
    /\ turn = "host"
    /\ turn' = "part"
    /\ UNCHANGED <<spent, ticked>>

\* The part makes it.
Make ==
    /\ turn = "part"
    /\ turn' = "answer"
    /\ spent' = spent + 1
    /\ UNCHANGED ticked

\* The host learns that it was made.
Answer ==
    /\ turn = "answer"
    /\ turn' = "host"
    /\ ticked' = ticked + 1
    /\ UNCHANGED spent

\* The part fails instead of making the cycle it was asked for.
Break ==
    /\ turn = "part"
    /\ turn' = "over"
    /\ UNCHANGED <<spent, ticked>>

\* The host stops asking.
Stop ==
    /\ turn = "host"
    /\ turn' = "over"
    /\ UNCHANGED <<spent, ticked>>

Next == Ask \/ Make \/ Answer \/ Break \/ Stop

\* Safety alone: what TLAPS shows the clock to implement.
Safe == Init /\ [][Next]_vars

\* With the part and the answer never withheld for ever.
Spec == Safe /\ WF_vars(Make \/ Break) /\ WF_vars(Answer)
=============================================================================
