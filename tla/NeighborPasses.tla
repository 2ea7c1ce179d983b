--------------------------- MODULE NeighborPasses ---------------------------
(***************************************************************************)
(* What the legacy t05 run (t05_topology_between_rc/pipeline.py) does with *)
(* its two neighbor passes, and which of the supported pairs it goes on    *)
(* with.  CrossingSearch is one pass; here a pass is its result:           *)
(*   events   for each supported pair the number of its events             *)
(*   hits     for each source the events that found something              *)
(*   open     for each source the events that found nothing                *)
(*   stitch   the stitches that were accepted                              *)
(*   ins, outs  how many trajectories enter and leave a node               *)
(* A trajectory supports a pair once, and an event votes for the pair it   *)
(* supports.  An event without an answer is a candidate too, so that the   *)
(* signal the dense trigger asks for is there when events are open.        *)
(***************************************************************************)
EXTENDS Integers, FiniteSets, FiniteSetsExt, Functions, Sequences

CONSTANTS
    MinOpen,    \* PASS2_UNRESOLVED_MIN_COUNT
    PerPair,    \* PASS2_UNRESOLVED_PER_SUPPORT
    Dense,      \* PASS2_UNRESOLVED_RATIO_TRIGGER
    FewOpen,    \* the larger of 5 and half of MinOpen
    ForceZero,  \* PASS2_FORCE_WHEN_STITCH_ACCEPT_ZERO
    Share       \* STEP1_NODE_VOTE_MIN_RATIO, in percent

ASSUME PassAssumption ==
    /\ {MinOpen, PerPair, Dense, FewOpen, Share} \subseteq Nat
    /\ ForceZero \in BOOLEAN

Total(f, S) == FoldFunctionOnSet(+, 0, f, S)
Pairs(r) == DOMAIN r.events
Of(r, s) == {p \in Pairs(r) : p[1] = s}
Found(r) == Cardinality(Pairs(r))
Open(r) == Total(r.open, DOMAIN r.open)

AtLeast(n, a, b) == n >= a /\ n >= b

TryAgain(r) ==
    \/ Found(r) = 0
    \/ AtLeast(Open(r), MinOpen, Dense * Found(r))
    \/ /\ ForceZero /\ r.stitch = 0
       /\ \/ AtLeast(Open(r), MinOpen, PerPair * Found(r))
          \/ Found(r) <= 1 /\ Open(r) >= FewOpen

(* The sources of the second pass; none stands for all of them.            *)
Focus(r, requested) ==
    LET left == {s \in DOMAIN r.open : r.open[s] > 0}
    IN  IF Found(r) = 0 THEN requested
        ELSE IF requested = {} THEN left
        ELSE IF left \cap requested = {} THEN requested ELSE left \cap requested
-----------------------------------------------------------------------------
Beats(a, b) ==
    \E i \in DOMAIN a : a[i] > b[i] /\ \A j \in 1..(i - 1) : a[j] = b[j]

Quality(r) == <<Found(r), Total(r.events, Pairs(r)), r.stitch, -Open(r)>>

QualityOf(r, s) ==
    <<Cardinality(Of(r, s)), Total(r.events, Of(r, s)), r.hits[s], -r.open[s]>>

ImprovedAll(p, q, focus) == \* mutant: what the pass looked for is taken over
    focus

Improved(p, q, focus) ==
    {s \in focus : Beats(QualityOf(q, s), QualityOf(p, s))}

(* The nodes whose degrees come from the second pass: the sources that     *)
(* improved and where they lead.  What other sources contribute to them is *)
(* not in a pass that did not look at those.                               *)
Touched(q, S) == S \cup {d[2] : d \in {e \in Pairs(q) : e[1] \in S}}

Merged(p, q, S) ==
    LET pairs == {d \in Pairs(p) : d[1] \notin S} \cup {d \in Pairs(q) : d[1] \in S}
        pick(f, g, T) == [n \in DOMAIN f |-> IF n \in T THEN g[n] ELSE f[n]]
    IN [events |-> [d \in pairs |-> IF d[1] \in S THEN q.events[d] ELSE p.events[d]],
        hits |-> pick(p.hits, q.hits, S), open |-> pick(p.open, q.open, S),
        stitch |-> IF p.stitch > q.stitch THEN p.stitch ELSE q.stitch,
        ins |-> pick(p.ins, q.ins, Touched(q, S)),
        outs |-> pick(p.outs, q.outs, Touched(q, S))]

(* Which pass counts: "first", "second" or "merged".                       *)
Decision(p, q, focus) ==
    IF Found(p) = 0 \/ Beats(Quality(q), Quality(p)) THEN "second"
    ELSE IF Improved(p, q, focus) # {} THEN "merged" ELSE "first"

Outcome(p, q, focus) ==
    CASE Decision(p, q, focus) = "second" -> q
      [] Decision(p, q, focus) = "merged" -> Merged(p, q, Improved(p, q, focus))
      [] OTHER -> p
-----------------------------------------------------------------------------
(* Without topology the events vote.  A source with several destinations   *)
(* is hard, unless one of them has its share of the votes.                 *)
Votes(r, s) == {r.events[p] : p \in Of(r, s)}

Main(r, s) ==
    LET most == {p[2] : p \in {q \in Of(r, s) : r.events[q] = Max(Votes(r, s))}}
    IN  Min(most)

Ambiguous(r) ==
    {s \in {p[1] : p \in Pairs(r)} :
        /\ Cardinality(Of(r, s)) > 1
        /\ Share >= 100 \/ 100 * Max(Votes(r, s)) < Share * Total(r.events, Of(r, s))}

VotedPairs(r) ==
    {p \in Pairs(r) : p[1] \notin Ambiguous(r) /\ p[2] = Main(r, p[1])}

(* The type of a node, by its kind if that is known.                       *)
NodeType(r, n, kinds) ==
    IF n \in DOMAIN kinds THEN kinds[n]
    ELSE IF r.outs[n] > 1 /\ r.ins[n] <= 1 THEN "diverge"
    ELSE IF r.ins[n] > 1 /\ r.outs[n] <= 1 THEN "merge" ELSE "unknown"
=============================================================================
