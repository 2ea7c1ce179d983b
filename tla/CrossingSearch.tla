---- MODULE CrossingSearch ----
(* One neighbor pass of the legacy t05 run over its forward graph          *)
(* (t05_topology_between_rc/geometry.py): extract_crossing_events,         *)
(* _build_forward_graph, build_pair_supports with _search_next_crossing.   *)
(* A drive w is a record                                                   *)
(*   len    len[t] is the length of trajectory t, samples[t] its sampled   *)
(*          stations, 0 and len[t] among them                              *)
(*   hits   where a trajectory comes near a cross section: records         *)
(*          [t, at, node, gap, off], gap the distance between them and off *)
(*          that of the hit from the middle of the cross section           *)
(*   near   pairs of samples of two trajectories: records [from, to, dist, *)
(*          dot, turn], dot how far "to" lies ahead of "from"              *)
(*   srcAlias, dstAlias  the member of a shared intersection that stands   *)
(*                       for a cross section as source and as target       *)
(*   topology, pairs     whether pairs were accepted, and which            *)
(*   hasPrior, prior     where the prior roads lead from some sources      *)
(*   nonRc               the crossings of no road change                   *)
(* and par holds what one of the two passes asks for.  Lengths are counted *)
(* in the least weight an edge may have (0.05 m).                          *)
(*                                                                         *)
(* From each crossing event a search of the graph looks for the crossings  *)
(* that traffic meets next.  With topology pairs it looks for one target   *)
(* at a time and may pass other crossings on the way, up to Limit of them, *)
(* a step without such a crossing counting less than any distance; without *)
(* them every crossing it may stop at ends the search there.               *)
(* A crossing that the search passes close by (_record_allowed_proximity_  *)
(* hits) is left out: it is reported, and makes no support.                *)
EXTENDS Integers, FiniteSets, FiniteSetsExt, TLC

CONSTANTS
    NearEnd,        \* how near its end a trajectory is stitched from
    MinAdvance,  \* how far a trajectory must go on to be stitched to
    MaxTurn,     \* the greatest angle between the two
    Penalty,     \* what a metre of a stitch counts
    TopK         \* stitches from one sample

Least(S) == CHOOSE x \in S : \A y \in S : x <= y
Greatest(S) == CHOOSE x \in S : \A y \in S : x >= y

Near(w, par) == {h \in w.hits : h.gap <= par.buffer}

(* A trajectory meets a cross section once, where it is nearest to the     *)
(* middle: a second way through the crossing leaves no event.              *)
Deduped(w, par) ==
    {h \in Near(w, par) : \A g \in Near(w, par) :
        g.t = h.t /\ g.node = h.node =>
            h.off < g.off \/ (h.off = g.off /\ h.at <= g.at)}

Event(h) == [t |-> h.t, at |-> h.at, node |-> h.node]
Sample(t, s) == [t |-> t, at |-> s, node |-> 0]

Events(w, par) == {Event(h) : h \in Deduped(w, par)}
SampleNodes(w) == UNION {{Sample(t, s) : s \in w.samples[t]} : t \in DOMAIN w.len}
GraphNodes(w, par) == SampleNodes(w) \cup Events(w, par)

(* Along a trajectory a sample comes before a crossing at its station.     *)
Precedes(a, b) ==
    /\ a.t = b.t
    /\ \/ a.at < b.at
       \/ a.at = b.at /\ a.node < b.node

TrajEdges(w, par) ==
    {[from |-> a, to |-> b, kind |-> "traj",
      weight |-> IF b.at = a.at THEN 1 ELSE b.at - a.at] :
        <<a, b>> \in {p \in GraphNodes(w, par) \X GraphNodes(w, par) :
            /\ Precedes(p[1], p[2])
            /\ ~\E c \in GraphNodes(w, par) : Precedes(p[1], c) /\ Precedes(c, p[2])}}

(* What the end of a trajectory may be stitched to within a radius.        *)
Within(w, par, a, radius) ==
    {c \in w.near :
        /\ c.from = a /\ c.dist <= radius
        /\ w.len[c.to.t] - c.to.at >= MinAdvance
        /\ c.dot > par.dotMin /\ c.turn <= MaxTurn}

Nearer(c, d) ==
    \/ c.dist < d.dist
    \/ c.dist = d.dist /\ c.turn < d.turn
    \/ c.dist = d.dist /\ c.turn = d.turn /\ c.to.t < d.to.t
    \/ c.dist = d.dist /\ c.turn = d.turn /\ c.to.t = d.to.t /\ c.to.at < d.to.at

(* The least radius that reaches anything decides, and its foremost few    *)
(* are taken.                                                              *)
Stitches(w, par, a) ==
    LET met == {r \in par.levels : Within(w, par, a, r) # {}}
    IN IF met = {} THEN {}
       ELSE LET cands == Within(w, par, a, Least(met))
            IN {c \in cands : Cardinality({d \in cands : Nearer(d, c)}) < TopK}

StitchEdges(w, par) ==
    {[from |-> c.from, to |-> c.to, kind |-> "stitch",
      weight |-> Greatest({1, c.dist * Penalty})] :
        c \in UNION {Stitches(w, par, a) :
                        a \in {b \in SampleNodes(w) : w.len[b.t] - b.at <= NearEnd}}}

Edges(w, par) == TrajEdges(w, par) \cup StitchEdges(w, par)

-----------------------------------------------------------------------------
CONSTANTS
    Drives, Passes,
    Limit,      \* STEP1_PAIR_TARGET_MAX_INTERMEDIATE_XSECS
    Margin,     \* STEP1_UNIQUE_DST_DIST_EPS_M
    Early,      \* STEP1_UNIQUE_DST_EARLY_STOP
    Single,     \* STEP1_SINGLE_SUPPORT_PER_PAIR
    Skip        \* STEP1_SKIP_SEARCH_AFTER_PAIR_RESOLVED

VARIABLES
    drive, par,  \* the drive, and what the pass asks for
    edges,       \* the forward graph
    pc,          \* "graph", "event", "target", "search", "conclude", "done"
    todo,        \* the events not yet looked at
    event,       \* the one at hand, as a set
    targets,     \* the targets still to look for from there
    filter,      \* the crossings the search may stop at; none: at any
    best, prev,  \* the label of a node, and the edge it was reached by
    heap,        \* what is to be expanded: <<label, node>>
    hits,        \* for a crossing, where and how it was first reached
    supports,    \* what was found: an event of a pair and how it was reached
    open,        \* events (and targets) without an answer
    unclear      \* events with several answers

given == <<drive, par>>
search == <<filter, best, prev, heap, hits>>
answers == <<supports, open, unclear>>
vars == <<given, edges, pc, todo, event, targets, search, answers>>

Idle ==
    /\ edges = {} /\ pc = "graph" /\ todo = {} /\ event = {} /\ targets = {}
    /\ filter = {} /\ best = <<>> /\ prev = <<>> /\ heap = {} /\ hits = <<>>
    /\ supports = {} /\ open = {} /\ unclear = {}

Init == drive \in Drives /\ par \in Passes /\ Idle

BuildGraph ==
    /\ pc = "graph" /\ pc' = "event"
    /\ edges' = Edges(drive, par) /\ todo' = Events(drive, par)
    /\ UNCHANGED <<given, event, targets, search, answers>>
-----------------------------------------------------------------------------
(* What may follow a source.                                               *)
Src(e) == drive.srcAlias[e.node]
Canonical(n) == drive.dstAlias[n]
PairTargets(s) == {p[2] : p \in {q \in drive.pairs : q[1] = s}}
PriorOf(s) == IF drive.hasPrior /\ s \in DOMAIN drive.prior THEN {drive.prior[s]} ELSE {}

Allowed(s) ==
    IF ~drive.topology THEN PriorOf(s)
    ELSE IF PriorOf(s) = {} THEN {PairTargets(s)}
    ELSE {d \cap PairTargets(s) : d \in PriorOf(s)}

Considered(e) ==
    /\ par.focus # {} => Src(e) \in par.focus
    /\ drive.topology => PairTargets(Src(e)) # {}
    /\ Allowed(Src(e)) # {{}}

(* Either member of a shared intersection may be met.                      *)
Expand(S) ==
    S \cup UNION {{r, Canonical(r)} :
                    r \in {q \in DOMAIN drive.dstAlias : q \in S \/ Canonical(q) \in S}}

Wanted(s) ==
    IF drive.topology \/ (\E d \in Allowed(s) : Cardinality(d) = 1)
    THEN UNION Allowed(s) ELSE {}

Earlier(e, f) ==
    \/ e.t < f.t
    \/ Precedes(e, f)

NextEvent ==
    /\ pc = "event"
    /\ IF todo = {} THEN pc' = "done" /\ UNCHANGED <<todo, event, targets>>
       ELSE \E e \in todo :
            /\ ~\E f \in todo : Earlier(f, e)
            /\ todo' = todo \ {e}
            /\ IF Considered(e)
               THEN event' = {e} /\ targets' = Wanted(Src(e)) /\ pc' = "target"
               ELSE UNCHANGED <<event, targets, pc>>
    /\ UNCHANGED <<given, edges, search, answers>>

The == CHOOSE e \in event : TRUE
Targeted == Wanted(Src(The)) # {}
Supported(s, d) == \E x \in supports : x.src = s /\ x.dst = d

Begin(stops) ==
    /\ filter' = stops
    /\ best' = (The :> <<0, 0, 0>>) /\ prev' = <<>> /\ heap' = {<<<<0, 0, 0>>, The>>}
    /\ hits' = <<>>
    /\ pc' = "search"

(* The targets of an event by number, then the next event.                 *)
NextTarget ==
    /\ pc = "target"
    /\ IF ~Targeted THEN /\ Begin(UNION {Expand(d) : d \in Allowed(Src(The))})
                         /\ UNCHANGED targets
       ELSE IF targets = {} THEN pc' = "event" /\ UNCHANGED <<targets, search>>
       ELSE IF Skip /\ Supported(Src(The), Least(targets))
       THEN targets' = targets \ {Least(targets)} /\ UNCHANGED <<pc, search>>
       ELSE Begin(Expand({Least(targets)})) /\ UNCHANGED targets
    /\ UNCHANGED <<given, edges, todo, event, answers>>
-----------------------------------------------------------------------------
Less(a, b) ==
    \/ a[1] < b[1]
    \/ a[1] = b[1] /\ a[2] < b[2]
    \/ a[1] = b[1] /\ a[2] = b[2] /\ a[3] < b[3]

MayStop(k) == k.node # 0 /\ k.node # The.node /\ (filter = {} \/ k.node \in filter)

PassedUncounted(k, label) == \* mutant: the limit is never met
    label

(* The label with which a node is left: a crossing that is passed on the   *)
(* way to a target counts.                                                 *)
Passed(k, label) ==
    IF Targeted /\ k.node # 0 /\ k.node # The.node
    THEN <<label[1] + 1, label[2], label[3]>> ELSE label

Along(label, x) ==
    <<label[1], label[2] + x.weight, label[3] + (IF x.kind = "stitch" THEN 1 ELSE 0)>>

(* The edges out of a node that lead on to a better label.                 *)
Leading(k, label) ==
    {x \in edges :
        /\ x.from = k /\ label[1] <= Limit /\ label[2] + x.weight <= par.maxDist
        /\ x.to \in DOMAIN best => Less(Along(label, x), best[x.to])}

Relax(k, label) ==
    LET out == Leading(k, label)
        into == [n \in {x.to : x \in out} |-> CHOOSE x \in out : x.to = n]
    IN /\ best' = [n \in DOMAIN into |-> Along(label, into[n])] @@ best
       /\ prev' = into @@ prev
       /\ heap' = (heap \ {<<best[k], k>>}) \cup {<<Along(label, x), x.to>> : x \in out}

(* A crossing met again by another trajectory counts if it is nearer.      *)
Meet(k, label) ==
    IF k.node \in DOMAIN hits
       /\ (hits[k.node].dist < label[2]
           \/ (hits[k.node].dist = label[2] /\ hits[k.node].hops <= label[3]))
    THEN hits
    ELSE (k.node :> [at |-> k, dist |-> label[2], hops |-> label[3]]) @@ hits

(* Equal labels leave the heap by the spelling of their nodes, here in any *)
(* order.  Where the search may stop it does not go on.                    *)
Visit ==
    /\ pc = "search"
    /\ \E h \in heap :
        /\ ~\E g \in heap : Less(g[1], h[1])
        /\ LET label == h[1]
               k == h[2]
           IN \/ /\ Less(best[k], label)
                 /\ heap' = heap \ {h} /\ UNCHANGED <<best, prev, hits, pc>>
              \/ /\ ~Less(best[k], label) /\ MayStop(k)
                 /\ hits' = Meet(k, label) /\ heap' = heap \ {h}
                 /\ pc' = IF Targeted \/ (Early /\ Cardinality(DOMAIN hits') >= 2)
                          THEN "conclude" ELSE "search"
                 /\ UNCHANGED <<best, prev>>
              \/ /\ ~Less(best[k], label) /\ ~MayStop(k)
                 /\ Relax(k, Passed(k, label)) /\ UNCHANGED <<hits, pc>>
    /\ UNCHANGED <<given, edges, todo, event, targets, filter, answers>>

Exhaust ==
    /\ pc = "search" /\ heap = {} /\ pc' = "conclude"
    /\ UNCHANGED <<given, edges, todo, event, targets, search, answers>>
-----------------------------------------------------------------------------
(* What is made of a search.                                               *)
Ancestors[k \in GraphNodes(drive, par)] ==
    IF k \notin DOMAIN prev THEN {k} ELSE {k} \cup Ancestors[prev[k].from]

Way(k) == {prev[n] : n \in Ancestors[k] \ {The}}

(* Stitches are only topological: the geometry is that of trajectories.    *)
HasGeometry(k) == \E x \in Way(k) : x.kind = "traj" /\ x.to.at > x.from.at

Tainted(k, d) ==
    d \in drive.nonRc \/ \E n \in Ancestors[k] : n.node \in drive.nonRc \ {Src(The)}

(* _record_resolved_support.                                               *)
Record(d, hit) ==
    /\ UNCHANGED unclear
    /\ IF d = Src(The) \/ (Single /\ Supported(Src(The), d)) THEN UNCHANGED <<supports, open>>
       ELSE IF ~HasGeometry(hit.at)
       THEN open' = open \cup {[ev |-> The, dst |-> d]} /\ UNCHANGED supports
       ELSE /\ supports' = supports \cup
                    {[ev |-> The, src |-> Src(The), dst |-> d, dist |-> hit.dist,
                      hops |-> hit.hops, way |-> Way(hit.at), tainted |-> Tainted(hit.at, d)]}
            /\ UNCHANGED open

Leave(d) == open' = open \cup {[ev |-> The, dst |-> d]} /\ UNCHANGED <<supports, unclear>>

ConcludeTarget ==
    /\ pc = "conclude" /\ Targeted
    /\ LET d == Least(targets) IN
       /\ IF hits = <<>> THEN Leave(d)
          ELSE \E n \in DOMAIN hits : Record(d, hits[n])
       /\ targets' = targets \ {d}
    /\ pc' = "target"
    /\ UNCHANGED <<given, edges, todo, event, search>>

Before(m, n) ==
    \/ hits[m].dist < hits[n].dist
    \/ hits[m].dist = hits[n].dist /\ hits[m].hops < hits[n].hops
    \/ hits[m].dist = hits[n].dist /\ hits[m].hops = hits[n].hops /\ m < n

(* The crossings met, one for each that they stand for.                    *)
Candidates ==
    {n \in DOMAIN hits :
        /\ Canonical(n) # Src(The)
        /\ \A d \in Allowed(Src(The)) : Canonical(n) \in d
        /\ \A m \in DOMAIN hits : Canonical(m) = Canonical(n) => ~Before(m, n)}

Foremost(S) == CHOOSE n \in S : \A m \in S : ~Before(m, n)

StandsOutEqual(n, others) == \* mutant: a margin of nothing is enough
    \A m \in others : hits[m].dist > hits[n].dist
(* The nearest is taken if the next one is farther by more than the margin. *)
StandsOut(n, others) ==
    \A m \in others : hits[m].dist - hits[n].dist > Margin

(* The crossing a support is booked for is the first that the search met,  *)
(* which among shared intersections need not be the candidate chosen.      *)
ConcludeNext ==
    /\ pc = "conclude" /\ ~Targeted
    /\ IF Candidates = {} THEN Leave(0)
       ELSE LET n == Foremost(Candidates) IN
            IF StandsOut(n, Candidates \ {n})
            THEN Record(Canonical(Foremost(DOMAIN hits)), hits[n])
            ELSE unclear' = unclear \cup {The} /\ UNCHANGED <<supports, open>>
    /\ pc' = "event"
    /\ UNCHANGED <<given, edges, todo, event, targets, search>>

Next ==
    \/ BuildGraph \/ NextEvent \/ NextTarget \/ Visit \/ Exhaust
    \/ ConcludeTarget \/ ConcludeNext

Spec == Init /\ [][Next]_vars
-----------------------------------------------------------------------------
Label == Nat \X Nat \X Nat

TypeOK ==
    /\ pc \in {"graph", "event", "target", "search", "conclude", "done"}
    /\ todo \subseteq Events(drive, par) /\ event \subseteq Events(drive, par)
    /\ Cardinality(event) <= 1
    /\ \A k \in DOMAIN best : best[k] \in Label /\ best[k][1] <= Limit + 1
    /\ \A k \in DOMAIN prev : prev[k] \in edges /\ prev[k].to = k
    /\ \A h \in heap : h[2] \in DOMAIN best /\ h[1][2] <= par.maxDist
    /\ {x.ev : x \in open} \cup unclear \subseteq Events(drive, par)

(* Where a search from an event ends, when it is for target d.             *)
Ends(e, d) ==
    {k \in Events(drive, par) :
        /\ k.node # e.node
        /\ IF Wanted(Src(e)) # {} THEN k.node \in Expand({d})
           ELSE \A a \in Allowed(Src(e)) : k.node \in Expand(a)}

(* Everywhere traffic can get from an event, as far as the pass asks for:  *)
(* where, how far, past how many crossings, and whether along a trajectory *)
(* for any stretch.                                                        *)
Ways(e, ends) ==
    LET start == [at |-> e, dist |-> 0, past |-> 0, drawn |-> FALSE]
        on(r, x) == [at |-> x.to, dist |-> r.dist + x.weight,
                     past |-> r.past + (IF r.at.node \in {0, e.node} THEN 0 ELSE 1),
                     drawn |-> r.drawn \/ (x.kind = "traj" /\ x.to.at > x.from.at)]
        further(R) == R \cup UNION {{on(r, x) : x \in {y \in edges :
                                        y.from = r.at /\ r.dist + y.weight <= par.maxDist}} :
                                     r \in {q \in R : q.at \notin ends}}
        reach[n \in Nat] == IF n = 0 THEN {start} ELSE further(reach[n - 1])
    IN reach[par.maxDist]

Arrivals(e, d) == {r \in Ways(e, Ends(e, d)) : r.at \in Ends(e, d)}

Plain == \A n \in DOMAIN drive.dstAlias : drive.dstAlias[n] = n /\ drive.srcAlias[n] = n

(* Whatever a pass finds is there: the way of a support is traffic from    *)
(* its event to a crossing of its target, as long as it says, past no      *)
(* crossing where the search may stop and no more than Limit others.       *)
SupportsAreReal ==
    /\ TypeOK
    /\ pc = "done" /\ (drive.topology \/ Plain) => \A x \in supports :
        /\ x.src = Src(x.ev) /\ x.dst # x.src
        /\ MapThenSumSet(LAMBDA y : y.weight, x.way) = x.dist
        /\ \E r \in Arrivals(x.ev, x.dst) :
            /\ r.dist = x.dist /\ Canonical(r.at.node) \in {x.dst, Canonical(x.dst)}
            /\ Wanted(x.src) # {} => r.past <= Limit

Answered(e, d) ==
    \/ \E x \in supports : x.ev = e /\ x.dst = d
    \/ (Single \/ Skip) /\ Supported(Src(e), d)
    \/ d = Src(e)

Nearest(R) == {r \in R : \A q \in R : r.dist <= q.dist}

(* A target that can be reached past no other crossing is found, by the    *)
(* shortest such way.  Without targets the nearest crossing is found where *)
(* it stands out by the margin, and an event is unclear or open exactly    *)
(* where several or none can be reached.                                   *)
AnswersAreExact ==
    pc = "done" => \A e \in {f \in Events(drive, par) : Considered(f)} :
        /\ \A d \in Wanted(Src(e)) :
            LET direct == {r \in Arrivals(e, d) : r.past = 0} IN
            /\ direct # {} => \/ Answered(e, d)
                              \/ \E r \in Nearest(direct) : ~r.drawn
            /\ \A x \in supports : x.ev = e /\ x.dst = d /\ direct # {} =>
                    x.dist = Least({r.dist : r \in direct})
            /\ Answered(e, d) \/ [ev |-> e, dst |-> d] \in open
        /\ Wanted(Src(e)) = {} /\ Plain =>
            LET all == Arrivals(e, 0)
                close == {r.at.node : r \in {q \in all : \A m \in all : q.dist <= m.dist + Margin}}
            IN /\ (e \in unclear) = (Cardinality(close) >= 2)
               /\ Cardinality(close) = 1 => \A d \in close :
                    \/ Answered(e, d)
                    \/ [ev |-> e, dst |-> d] \in open /\ \E r \in Nearest(all) : ~r.drawn
               /\ ([ev |-> e, dst |-> 0] \in open) = (all = {})
=============================================================================
