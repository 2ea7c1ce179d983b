------------------------------ MODULE ArcFunnel ------------------------------
(***************************************************************************)
(* What the funnel counts of legal_arc_funnel promise: of the direct legal *)
(* arcs some are admitted, and from then on every layer (corridor, slots,  *)
(* road) only loses arcs.  The patch passes when none of those admitted    *)
(* was lost.                                                               *)
(***************************************************************************)
EXTENDS Naturals

CONSTANT Arcs

VARIABLES
    level,      \* layers passed: 1 entry, 2 corridor, 3 slots, 4 road, 5 gate
    alive,      \* the arcs that passed all of them
    admitted,   \* the arcs that entered
    pass        \* the verdict

vars == <<level, alive, admitted, pass>>

Init == level = 0 /\ alive = Arcs /\ admitted = {} /\ pass = FALSE

Admit ==
    /\ level = 0 /\ level' = 1
    /\ alive' \in SUBSET Arcs /\ admitted' = alive'
    /\ UNCHANGED pass

Narrow ==
    /\ level \in 1..3 /\ level' = level + 1
    /\ alive' \in SUBSET alive
    /\ UNCHANGED <<admitted, pass>>

Judge ==
    /\ level = 4 /\ level' = 5
    /\ pass' = (alive = admitted /\ admitted # {})
    /\ UNCHANGED <<alive, admitted>>

Next == Admit \/ Narrow \/ Judge

Spec == Init /\ [][Next]_vars
=============================================================================
