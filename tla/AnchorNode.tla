----------------------------- MODULE AnchorNode -----------------------------
(***************************************************************************)
(* What evaluating one node promises to the run (runner.py of              *)
(* t04_rc_sw_anchor, _evaluate_node as its caller sees it).                *)
(*                                                                         *)
(* Positions are signed steps along the scan direction of the node.  A     *)
(* value that may be missing (None in the code) is a set of at most one    *)
(* element.                                                                *)
(***************************************************************************)
EXTENDS Integers, FiniteSets

CONSTANTS
    Back,    \* how far behind the node a line may be placed, in steps
    Ahead    \* how far in front of it

ASSUME NodeAssumption == Back \in Nat /\ Ahead \in Nat

KindBits == {"merge", "diverge", "k16"}
Positions == -Back..Ahead

(* A line of a diverge lies behind the node on the chain, one of a merge   *)
(* in front of it, so the sign turns.                                      *)
AbsS(kind, offset, s) ==
    {IF "diverge" \in kind THEN o + s ELSE o - s : o \in {p \in offset : kind # {"k16"}}}

Failed == [fate |-> "fail", abs |-> {}]
Placed(abs) == [fate |-> "placed", abs |-> abs]

Exceeds(abs, required) == \A a \in abs, r \in required : a > r

(* The verdicts a node of these kind bits may get, with this offset in its *)
(* chain (none outside the chains) and this position of its predecessors   *)
(* to exceed.  A node without exactly one usable kind always fails; a      *)
(* tollgate node (bit 16) has no position on the chain.                    *)
Verdicts(kind, offset, required) ==
    {Failed} \cup
    (IF kind \in {{"merge"}, {"diverge"}}
     THEN {Placed(abs) : abs \in
             {a \in {AbsS(kind, offset, s) : s \in Positions} : Exceeds(a, required)}}
     ELSE IF kind = {"k16"} THEN {Placed({})} ELSE {})
=============================================================================
