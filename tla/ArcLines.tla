------------------------------- MODULE ArcLines -------------------------------
(***************************************************************************)
(* How step 3 draws the line of an arc (step3_arc_evidence.py and          *)
(* xsec_endpoint_interval.py): the supports that trajectories give, the    *)
(* one an arc gets, the intervals of the cross sections that are allotted  *)
(* to the arcs, and the line that steps 4 to 6 work with.  ArcFlow takes   *)
(* the supports as given; here they are found.                             *)
(*                                                                         *)
(* An arc runs over the cells 1..Cells, from its src section at the first  *)
(* to its dst section at the last.  A line is a function from cells to     *)
(* lateral positions, in units of 5 cm.  A scene has                       *)
(*   line, hint   by arc: its line, that of its step-2 segment or NoLine   *)
(*   shared       the arcs with an aliased or shared cross section         *)
(*   trips        by id: source, line, the sections src and dst that it    *)
(*                crosses at the ends of the grid (or None), and unclean,  *)
(*                the ends where it crosses another section as well        *)
(*   off          stretches [cell, from, to] that are no drivable surface  *)
(*   surface      by section: its drivable intervals <<from, to>>, in order*)
(***************************************************************************)
EXTENDS EndpointIntervals

CONSTANTS
    Arcs,           \* the direct legal arcs, numbers in the order of the rows
    Src, Dst,       \* their cross sections
    Scenes,
    Cells, Cell,    \* cells of an arc and the length of one
    Reach,          \* ARC_EVIDENCE_BUFFER_M
    Margin,         \* ARC_SUPPORT_COMPETING_ARC_MIN_MARGIN_M
    MinCluster,     \* ARC_TRUSTED_FULL_XSEC_SINGLE_CLUSTER_MIN_COUNT
    TopK,           \* STEP3_SAME_PAIR_SUPPORT_DECONFLICT_TOPK
    Buffer,         \* XSEC_ENDPOINT_CORRIDOR_BUFFER_M
    Tolerance       \* STEP5_SLOT_ANCHOR_TOL_M

Ends == {"src", "dst"}
NoLine == <<>>
None == "none"

VARIABLES
    scene,      \* what the patch looks like
    turn,       \* what step 3 does next
    row,        \* by arc: the support_* fields of its row
    entered,    \* entered_main_flow
    seed,       \* by arc: its provisional line
    slot,       \* by end and arc: assigned_endpoint_intervals
    made        \* by arc: its production working segment

lineVars == <<scene, turn, row, entered, seed, slot, made>>

Far == 100000000
Ranked(S, key) == \* in the order of their keys
    [k \in 1..Cardinality(S) |->
        CHOOSE x \in S : Cardinality({y \in S : Precedes(key[y], key[x])}) = k - 1]

Siblings(a) == {b \in Arcs : Src[b] = Src[a] /\ Dst[b] = Dst[a]}
Section(a, end) == IF end = "src" THEN Src[a] ELSE Dst[a]
EndCell(end) == IF end = "src" THEN 1 ELSE Cells
Edge(S, end) == IF end = "src" THEN Min(S) ELSE Max(S)
LatAt(line, end) == line[Edge(DOMAIN line, end)]

OnSurface(line) ==
    {c \in DOMAIN line : ~\E s \in scene.off : s.cell = c /\ line[c] \in s.from..s.to}
Sound(line) == OnSurface(line) = DOMAIN line

Crosses(t, x, end) == (IF end = "src" THEN t.src ELSE t.dst) = x

(* What a patch may look like: a line covers some of the cells, a          *)
(* trajectory that crosses a section covers the cell of that section, and  *)
(* the pieces of a surface lie on the section.                             *)
Positions == 0..SectionLength
WholeLines == [1..Cells -> Positions]
IsLine(f) == DOMAIN f # {} /\ DOMAIN f \subseteq 1..Cells /\ f \in [DOMAIN f -> Positions]

SceneFits(s) ==
    /\ \A a \in Arcs : s.line[a] \in WholeLines /\ s.hint[a] \in WholeLines \cup {NoLine}
    /\ DOMAIN s.trips \subseteq Nat /\ IsFiniteSet(DOMAIN s.trips)
    /\ \A i \in DOMAIN s.trips :
           /\ IsLine(s.trips[i].line)
           /\ \A a \in Arcs, e \in Ends :
                  Crosses(s.trips[i], Section(a, e), e) => EndCell(e) \in DOMAIN s.trips[i].line
    /\ \A a \in Arcs, e \in Ends :
           LET surface == s.surface[Section(a, e)]
           IN  /\ surface \in Seq(Positions \X Positions)
               /\ \A k \in DOMAIN surface : surface[k][1] < surface[k][2]

LinesFit ==
    /\ SectionLength \in Nat /\ SectionLength < Far /\ Width \in 2..SectionLength
    /\ Cells \in Nat /\ Cells >= 2 /\ Cell \in Nat /\ Cell * Cells < Far
    /\ {Gap, Margin, MinCluster, Tolerance} \subseteq Nat /\ TopK \in Nat \ {0}
    /\ Arcs \subseteq Nat /\ IsFiniteSet(Arcs)
    /\ \A s \in Scenes : SceneFits(s)

Init ==
    /\ scene \in Scenes
    /\ turn = "attach"
    /\ row = <<>> /\ entered = {} /\ seed = <<>> /\ slot = <<>> /\ made = <<>>
-----------------------------------------------------------------------------
(* What one trajectory gives an arc: _support_type_for_arc, its loop.      *)

(* The stretches on which it stays near the arc.                           *)
Spans(a, t) ==
    LET near == {c \in DOMAIN t.line : Dist(t.line[c], scene.line[a][c]) <= Reach}
        starts == {c \in near : c - 1 \notin near}
    IN  {{d \in near : d >= c /\ c..d \subseteq near} : c \in starts}

Part(t, cells) == [c \in cells |-> t.line[c]]

(* The ends where the span begins or ends on the arc's own cross section.  *)
Touches(a, t, cells) ==
    {e \in Ends : EndCell(e) \in cells /\ Crosses(t, Section(a, e), e)}

(* Hausdorff distance, in the maximum norm.                                *)
Apart(line, other) ==
    Max({Dist(line[c], other[c]) : c \in DOMAIN line}
        \cup {Cell * (Min(DOMAIN line) - 1), Cell * (Cells - Max(DOMAIN line))})

Rivals(a) == {b \in Arcs \ {a} : Src[b] = Src[a]}

(* _best_support_reference_coords, of segments [trip, order, line].        *)
Best(segments) ==
    LET Key(s) == <<0 - Cardinality(DOMAIN s.line), s.trip, s.order>>
    IN  (CHOOSE s \in segments : \A u \in segments \ {s} : Precedes(Key(s), Key(u))).line

(* All spans of a trajectory, as segments in the order it drives them.     *)
Pieces(a, i) ==
    LET t == scene.trips[i]
        spans == Spans(a, t)
    IN  {[trip |-> i, order |-> Cardinality({r \in spans : Min(r) < Min(s)}),
          line |-> Part(t, s), ends |-> Touches(a, t, s)] : s \in spans}

Candidate(a, i) ==
    LET t == scene.trips[i]
        pieces == Pieces(a, i)
        good == {s \in pieces : Sound(s.line)}
        through == Crosses(t, Src[a], "src") /\ Crosses(t, Dst[a], "dst")
        terminal == through /\ Sound(t.line) /\ Spans(a, t) # {}
        segments == IF terminal THEN {[trip |-> i, order |-> 0, line |-> t.line, ends |-> Ends]}
                    ELSE good
        cells == UNION {DOMAIN s.line : s \in segments}
        ends == UNION {s.ends : s \in segments}
        full == \/ terminal
                \/ /\ ends = Ends /\ Cardinality(segments) <= 2
                   /\ 100 * Cardinality(cells) >= 72 * Cells
        own == Min({Apart(s.line, scene.line[a]) : s \in segments})
        rival == Min({Far} \cup {Apart(s.line, scene.line[b]) : s \in segments, b \in Rivals(a)})
    IN  IF segments = {} THEN [trip |-> i, kind |-> "no_support"]
        ELSE [trip |-> i, source |-> t.source,
              kind |-> IF terminal THEN "terminal_crossing_support" ELSE "partial_arc_support",
              segments |-> segments, ref |-> Best(segments), cov |-> Cardinality(cells),
              from |-> <<Min(cells), t.line[Min(cells)]>>,
              to |-> <<Max(cells), t.line[Max(cells)]>>,
              ends |-> ends, full |-> full, dist |-> own, rival |-> rival,
              prefers |-> rival = Far \/ rival - own >= Margin,
              sound |-> Cardinality(good) + (IF terminal THEN 1 ELSE 0),
              trusted |-> FALSE, dominant |-> FALSE, voices |-> 0]
-----------------------------------------------------------------------------
(* The pieces that lie near an arc, stitched.  A piece counts whatever its *)
(* trajectory gave, and the anchors are those of the pieces that come      *)
(* first and last in the order of their trajectories' own points.          *)
Stitched(a) ==
    LET all == UNION {Pieces(a, i) : i \in DOMAIN scene.trips}
        cells == UNION {DOMAIN s.line : s \in all}
        ready == /\ Cardinality(all) >= 2
                 /\ {1, Cells} \subseteq cells
                 /\ UNION {s.ends : s \in all} = Ends
                 /\ 100 * Cardinality(cells) >= 72 * Cells
        Index(s, c) == c - Min(DOMAIN scene.trips[s.trip].line)
        key == [s \in all |-> <<s.order, Index(s, Min(DOMAIN s.line)),
                                Index(s, Max(DOMAIN s.line)), s.trip>>]
        queue == Ranked(all, key)
        first == queue[1].line
        last == queue[Len(queue)].line
    IN  IF ready /\ \A s \in all : Sound(s.line)
        THEN [usable |-> TRUE, segments |-> all, ref |-> Best(all), cov |-> Cardinality(cells),
              from |-> <<Min(DOMAIN first), first[Min(DOMAIN first)]>>,
              to |-> <<Max(DOMAIN last), last[Max(DOMAIN last)]>>]
        ELSE [usable |-> FALSE, ref |-> NoLine, from |-> None, to |-> None]

-----------------------------------------------------------------------------
(* Clusters, trust and rank of the candidates of an arc.                   *)

Bucket(x, w) == (x + w \div 2) \div w

(* Where a support runs, to the given resolution.                          *)
Place(c, mid, anchor) ==
    LET middle == (Min(DOMAIN c.ref) + Max(DOMAIN c.ref)) \div 2
    IN  <<middle, Bucket(c.ref[middle], mid), c.from[1], Bucket(c.from[2], anchor),
          c.to[1], Bucket(c.to[2], anchor)>>

(* 8 m and 12 m for a full crossing, 2 m and 4 m otherwise, but never more *)
(* than a fifth of the section.                                            *)
ClusterKey(c) ==
    LET AtMost(w) == Min({w, SectionLength \div 5})
    IN  IF c.full THEN <<c.kind>> \o Place(c, AtMost(160), AtMost(240))
        ELSE <<"corridor_side">> \o Place(c, AtMost(40), AtMost(80))

(* The sources in the cluster of c; if some candidate crosses both         *)
(* sections, only those that do are counted.                               *)
Voices(c, all) ==
    LET full == {d \in all : d.full}
        pool == IF full = {} THEN all ELSE full
    IN  Cardinality({d.source : d \in {e \in pool : ClusterKey(e) = ClusterKey(c)}})

Dominant(c, all) ==
    /\ Voices(c, all) > 0
    /\ \A d \in all : Voices(d, all) <= Voices(c, all)

(* 8 m, or 15 percent of the section.                                      *)
SameAnchor(p, q) ==
    p[1] = q[1] /\ Dist(p[2], q[2]) <= Min({160, (15 * SectionLength) \div 100})

Trusted(c, all, stitched) ==
    /\ c.full /\ c.prefers /\ Dominant(c, all)
    /\ \/ Voices(c, all) >= MinCluster
       \/ stitched.usable /\ SameAnchor(c.from, stitched.from) /\ SameAnchor(c.to, stitched.to)

Judged(c, all, stitched) ==
    [c EXCEPT !.trusted = Trusted(c, all, stitched), !.dominant = Dominant(c, all),
              !.voices = Voices(c, all)]

(* _support_selection_key.  A margin of zero counts as none.               *)
SelectionKey(c) ==
    LET margin == IF c.rival = Far \/ c.rival = c.dist THEN 0 - Far ELSE c.rival - c.dist
        No(p) == IF p THEN 0 ELSE 1
    IN  <<No(c.prefers), No(c.trusted), No(c.full), No(c.dominant), 0 - c.voices,
          0 - margin, c.dist, 0 - c.cov, 0 - c.sound, c.trip>>

Options(a) ==
    LET found == {Candidate(a, i) : i \in DOMAIN scene.trips}
        all == {c \in found : c.kind # "no_support"}
        judged == {Judged(c, all, Stitched(a)) : c \in all}
    IN  Ranked(judged, [c \in judged |-> SelectionKey(c)])
-----------------------------------------------------------------------------
(* The support of an arc, and what build_arc_evidence_attach keeps of it:  *)
(* the ends it is anchored at and whether it prefers a competing arc are   *)
(* not among the fields it copies, and read as {} and TRUE.                *)

Bare(a) ==
    [kind |-> "no_support", segments |-> {}, ref |-> NoLine, cov |-> 0, from |-> None, to |-> None,
     ends |-> {}, full |-> FALSE, dominant |-> FALSE, prefers |-> TRUE, trusted |-> FALSE,
     reference |-> None, dist |-> Far, stitched |-> Stitched(a), options |-> Options(a)]

FromCandidate(r, c) ==
    [r EXCEPT !.kind = c.kind, !.segments = c.segments, !.ref = c.ref, !.cov = c.cov,
              !.from = c.from, !.to = c.to, !.full = c.full, !.dominant = c.dominant,
              !.trusted = c.trusted, !.dist = c.dist,
              !.reference = IF c.trusted THEN "selected_support" ELSE None]

FromStitched(r, s) ==
    [r EXCEPT !.kind = "stitched_arc_support", !.segments = s.segments, !.ref = s.ref,
              !.cov = s.cov, !.from = s.from, !.to = s.to, !.full = TRUE, !.dominant = TRUE,
              !.reference = "stitched_support"]

(* The best trusted candidate, or the stitched support, or the best        *)
(* candidate there is.                                                     *)
Supported(r) ==
    LET trusted == {k \in DOMAIN r.options : r.options[k].trusted}
    IN  IF trusted # {} THEN FromCandidate(r, r.options[Min(trusted)])
        ELSE IF r.stitched.usable THEN FromStitched(r, r.stitched)
        ELSE IF r.options # <<>> THEN FromCandidate(r, r.options[1])
        ELSE r

Attach ==
    /\ turn = "attach" /\ turn' = "deconflict"
    /\ row' = [a \in Arcs |-> Supported(Bare(a))]
    /\ UNCHANGED <<scene, entered, seed, slot, made>>
-----------------------------------------------------------------------------
(* _same_pair_support_deconflict, for the arcs of one pair.                *)

ConflictKey(c) ==
    IF c.full THEN <<"family">> \o Place(c, 60, 120) ELSE ClusterKey(c)

(* The candidates of an arc, in their order.  An arc that has a support    *)
(* has candidates.                                                         *)
Contenders(r) == SubSeq(r.options, 1, Min({TopK, Len(r.options)}))

NoChoice == [served |-> 0, rank |-> TopK + 10, dist |-> 20000000, cov |-> 0, keys |-> {}]
ChoiceOf(c, rank) ==
    [served |-> 1, rank |-> rank, dist |-> c.dist, cov |-> c.cov, keys |-> {ConflictKey(c)}]

Add(p, a, k, choice) ==
    [pick |-> [b \in DOMAIN p.pick |-> IF b = a THEN k ELSE p.pick[b]],
     served |-> p.served + choice.served,
     rank |-> p.rank + choice.rank, dist |-> p.dist + choice.dist,
     cov |-> p.cov + choice.cov, keys |-> p.keys \cup choice.keys]

(* All ways to go on with arc a.                                           *)
Extended(p, a) ==
    LET choices == Contenders(row[a])
        free == {k \in DOMAIN choices : ConflictKey(choices[k]) \notin p.keys}
    IN  {Add(p, a, 0, NoChoice)} \cup {Add(p, a, k, ChoiceOf(choices[k], k)) : k \in free}

\* Wrong: near candidates before good ones.
ScoreByDistance(p) == <<0 - p.served, p.dist, p.rank, 0 - p.cov>>

Score(p) == <<0 - p.served, p.rank, p.dist, 0 - p.cov>>

(* The best assignment; of several the one the search meets first, which   *)
(* tries arc by arc to do without a support, then its candidates in order. *)
Assigned(group) ==
    LET Size(a) == IF Contenders(row[a]) = <<>> THEN TopK + 10 ELSE Len(Contenders(row[a]))
        order == Ranked(group, [a \in group |-> <<Size(a), a>>])
        start == [pick |-> [a \in group |-> 0], served |-> 0, rank |-> 0, dist |-> 0,
                  cov |-> 0, keys |-> {}]
        leaves[n \in 0..Cardinality(group)] ==
            IF n = 0 THEN {start} ELSE UNION {Extended(p, order[n]) : p \in leaves[n - 1]}
        Turn(p) == Score(p) \o [n \in 1..Cardinality(group) |-> p.pick[order[n]]]
        all == leaves[Cardinality(group)]
    IN  (CHOOSE p \in all : \A q \in all \ {p} : Precedes(Turn(p), Turn(q))).pick

(* A sibling that gets none keeps the stitched support it might have had.  *)
Stripped(r) ==
    [r EXCEPT !.kind = "no_support", !.segments = {}, !.ref = NoLine, !.cov = 0, !.from = None,
              !.to = None, !.ends = {}, !.full = FALSE, !.dominant = FALSE, !.trusted = FALSE,
              !.reference = None]

\* Wrong: the preference is not copied here either.
GivenWithout(r, c) == [FromCandidate(r, c) EXCEPT !.ends = c.ends]

Given(r, c) == [FromCandidate(r, c) EXCEPT !.ends = c.ends, !.prefers = c.prefers]

Deconflict ==
    /\ turn = "deconflict" /\ turn' = "enter"
    /\ row' = [a \in Arcs |->
                  IF Siblings(a) = {a} THEN row[a]
                  ELSE LET k == Assigned(Siblings(a))[a]
                       IN  IF k = 0 THEN Stripped(row[a]) ELSE Given(row[a], Contenders(row[a])[k])]
    /\ UNCHANGED <<scene, entered, seed, slot, made>>

(* Which arcs enter the main flow is the subject of ArcFlow.               *)
Enter ==
    /\ turn = "enter" /\ turn' = "seed"
    /\ entered' \in SUBSET Arcs
    /\ UNCHANGED <<scene, row, seed, slot, made>>
-----------------------------------------------------------------------------
(* build_production_working_segment.                                       *)

(* _preferred_support_geometry: the geometry that the row refers to first. *)
Geometry(r) ==
    LET selected == [source |-> "selected_support", ref |-> r.ref, from |-> r.from, to |-> r.to]
        stitched == [source |-> "stitched_support", ref |-> r.stitched.ref,
                     from |-> r.stitched.from, to |-> r.stitched.to]
        first == IF r.reference = "stitched_support" THEN stitched ELSE selected
        second == IF r.reference = "stitched_support" THEN selected ELSE stitched
    IN  IF first.ref # NoLine THEN first
        ELSE IF second.ref # NoLine THEN second
        ELSE [source |-> None, ref |-> NoLine, from |-> None, to |-> None]

(* _support_binding_state.                                                 *)
Bound(a) ==
    LET r == row[a]
        source == Geometry(r).source
    IN  /\ source # None /\ r.kind # "no_support" /\ r.prefers
        /\ \/ a \notin scene.shared
           \/ /\ r.ends = Ends
              /\ \/ r.reference = source
                 \/ r.full /\ r.dominant

(* _anchor_point_on_xsec_interval, without an allotted interval: in the    *)
(* part of the surface that holds the reference, or in the nearest.        *)
OwnAnchor(a, end) ==
    LET g == Geometry(row[a])
    IN  IF end \in row[a].ends /\ g.ref # NoLine
        THEN (IF end = "src" THEN g.from ELSE g.to)[2]
        ELSE LatAt(scene.line[a], end)

OnNearest(intervals, s) ==
    LET Key(i) == IF i[1] - Tolerance <= s /\ s <= i[2] + Tolerance THEN <<0, 0>>
                  ELSE <<1, Dist(i[1] + i[2], 2 * s)>>
        i == FirstBest(intervals, [k \in DOMAIN intervals |-> Key(intervals[k])])
    IN  IF intervals = <<>> THEN s ELSE Clamp(s, i[1], i[2])

(* _build_support_fused_line: the pieces of the support in their order     *)
(* along the arc, and the arc itself between them.                         *)
Fused(a) ==
    [c \in 1..Cells |->
        LET over == {s \in row[a].segments : c \in DOMAIN s.line}
            Key(s) == <<Min(DOMAIN s.line), s.order, s.trip>>
        IN  IF over = {} THEN scene.line[a][c]
            ELSE (CHOOSE s \in over : \A u \in over \ {s} : Precedes(Key(u), Key(s))).line[c]]

(* What a line offers when it is drawn from one anchor point to the other. *)
Drawn(line, at) == [line EXCEPT ![1] = at["src"], ![Cells] = at["dst"]]
Fit(line) == Cardinality(OnSurface(line))

(* The candidate that is chosen: the support if it may be used and stays   *)
(* on the surface, then the arc, then the hint, then the one that leaves   *)
(* the surface least.                                                      *)
Driver(a, at) ==
    LET r == row[a]
        offered == Geometry(r).ref # NoLine /\ r.kind # "no_support"
        weak == offered /\ r.kind = "partial_arc_support" /\ ~r.full
        hinted == scene.hint[a] # NoLine
        support == Drawn(Fused(a), at)
        arc == Drawn(scene.line[a], at)
        hint == Drawn(scene.hint[a], at)
    IN  IF offered /\ ~Bound(a) THEN "arc"
        ELSE IF offered /\ Sound(support) THEN "support"
        ELSE IF weak \/ Sound(arc) THEN "arc"
        ELSE IF hinted /\ Sound(hint) THEN "hint"
        ELSE IF offered /\ Fit(support) >= Max({Fit(arc)} \cup IF hinted THEN {Fit(hint)} ELSE {})
        THEN "support"
        ELSE IF hinted /\ Fit(hint) > Fit(arc) THEN "hint"
        ELSE "arc"

Segment(a, at) ==
    LET driver == Driver(a, at)
    IN  [driver |-> driver,
         line |-> Drawn(CASE driver = "support" -> Fused(a)
                          [] driver = "hint" -> scene.hint[a]
                          [] driver = "arc" -> scene.line[a], at)]

(* The provisional lines, before any interval is allotted.                 *)
Seed ==
    /\ turn = "seed" /\ turn' = "allot"
    /\ seed' = [a \in entered |->
                   Segment(a, [end \in Ends |->
                       OnNearest(scene.surface[Section(a, end)], OwnAnchor(a, end))])]
    /\ UNCHANGED <<scene, row, entered, slot, made>>
-----------------------------------------------------------------------------
(* build_endpoint_intervals.                                               *)

Group(x, end) == {a \in Arcs : Section(a, end) = x}
Sections(end) == {Section(a, end) : a \in Arcs}

(* _support_corridor_line.                                                 *)
Corridors(a) ==
    LET r == row[a] IN IF r.ref # NoLine THEN r.ref ELSE r.stitched.ref

(* The point that comes after a crossing of a src section, or before one   *)
(* of a dst section.                                                       *)
Inner(line, end) ==
    LET next == IF end = "src" THEN 2 ELSE Cells - 1
    IN  IF next \in DOMAIN line THEN next ELSE EndCell(end)

Off(line, other, c) == IF c \in DOMAIN other THEN Dist(line[c], other[c]) ELSE Far

(* _ownership_for_crossing.                                                *)
Hits(t, x, end, lines) ==
    {a \in Group(x, end) \cap DOMAIN lines :
        Off(t.line, lines[a], Inner(t.line, end)) <= Buffer}

Closest(t, end, arcs, lines) ==
    CHOOSE a \in arcs : \A b \in arcs \ {a} :
        Precedes(<<Off(t.line, lines[a], Inner(t.line, end)), a>>,
                 <<Off(t.line, lines[b], Inner(t.line, end)), b>>)

Owner(t, x, end) ==
    LET supports == [a \in Arcs |-> Corridors(a)]
        drawn == [a \in entered |-> seed[a].line]
    IN  IF Hits(t, x, end, supports) # {}
        THEN Closest(t, end, Hits(t, x, end, supports), supports)
        ELSE IF Hits(t, x, end, drawn) # {}
        THEN Closest(t, end, Hits(t, x, end, drawn), drawn)
        ELSE Closest(t, end, Group(x, end), scene.line)

(* The last resort compares the rows themselves when an arc is exactly as  *)
(* near as the nearest of the arcs before it, and rows have no order.      *)
Undecided(t, x, end) ==
    LET drawn == [a \in entered |-> seed[a].line]
        away == [a \in Group(x, end) |-> Off(t.line, scene.line[a], Inner(t.line, end))]
    IN  /\ Hits(t, x, end, [a \in Arcs |-> Corridors(a)]) = {}
        /\ Hits(t, x, end, drawn) = {}
        /\ \E a, b \in Group(x, end) :
               /\ a < b /\ away[a] = away[b]
               /\ \A d \in Group(x, end) : d < b => away[a] <= away[d]

Through(x, end) == {i \in DOMAIN scene.trips : Crosses(scene.trips[i], x, end)}

(* Where no trajectory crosses the section, the line drawn so far leads.   *)
Projection(a, end) ==
    IF Corridors(a) # NoLine THEN {LatAt(Corridors(a), end)}
    ELSE IF a \in entered THEN {LatAt(seed[a].line, end)}
    ELSE {}

RawOf(a, end) ==
    LET x == Section(a, end)
        mine == {i \in Through(x, end) : Owner(scene.trips[i], x, end) = a}
    IN  Raw({[trip |-> i, at |-> scene.trips[i].line[EndCell(end)],
              clean |-> end \notin scene.trips[i].unclean] : i \in mine},
            Projection(a, end), Cardinality({b \in Group(x, end) : b <= a}),
            Cardinality(Group(x, end)), scene.surface[x])

(* The arcs of a section from one side to the other, and the shares they   *)
(* get.                                                                    *)
Allotted(x, end) ==
    LET of == {[arc |-> a, raw |-> RawOf(a, end)] : a \in Group(x, end)}
        order == Ranked(of, [r \in of |-> <<Mid(r.raw), r.arc>>])
        raw == [k \in DOMAIN order |-> order[k].raw]
        share == Allocation(raw)
    IN  {[arc |-> order[k].arc, raw |-> raw[k], to |-> share[k], ok |-> InOrder(share, k)] :
            k \in DOMAIN order}

Allot ==
    /\ turn = "allot"
    /\ ~\E end \in Ends : \E x \in Sections(end), i \in DOMAIN scene.trips :
           i \in Through(x, end) /\ Undecided(scene.trips[i], x, end)
    /\ slot' = [end \in Ends |->
                   LET all == UNION {Allotted(x, end) : x \in Sections(end)}
                   IN  [a \in Arcs |-> CHOOSE r \in all : r.arc = a]]
    /\ turn' = "make"
    /\ UNCHANGED <<scene, row, entered, seed, made>>

FailToAllot ==
    /\ turn = "allot"
    /\ \E end \in Ends : \E x \in Sections(end), i \in DOMAIN scene.trips :
           i \in Through(x, end) /\ Undecided(scene.trips[i], x, end)
    /\ turn' = "failed"
    /\ UNCHANGED <<scene, row, entered, seed, slot, made>>

(* The lines for the steps that follow.                                    *)
Make ==
    /\ turn = "make" /\ turn' = "done"
    /\ made' = [a \in entered |->
                   Segment(a, [end \in Ends |->
                       Clamp(OwnAnchor(a, end), slot[end][a].to[1], slot[end][a].to[2])])]
    /\ UNCHANGED <<scene, row, entered, seed, slot>>

Next == Attach \/ Deconflict \/ Enter \/ Seed \/ Allot \/ FailToAllot \/ Make
Spec == Init /\ [][Next]_lineVars
-----------------------------------------------------------------------------
(* An arc is allotted a stretch of its cross section, and that stretch     *)
(* lies in one piece of the drivable surface, whatever trajectories, lines *)
(* and neighbours made of it.  Where no surface is known it may reach half *)
(* the width of a trajectory beyond the far end of the section             *)
(* (_surface_clip_interval, _allocate_group_intervals).                    *)
SlotsAreLegal ==
    slot # <<>> => \A end \in Ends, a \in Arcs :
        LET to == slot[end][a].to
            surface == scene.surface[Section(a, end)]
        IN  /\ 0 <= to[1] /\ to[1] < to[2] /\ to[2] <= SectionLength + Width \div 2
            /\ surface = <<>> \/ \E k \in DOMAIN surface :
                                     surface[k][1] <= to[1] /\ to[2] <= surface[k][2]

(* If no arc of a section is reported as out of order, the arcs have it to *)
(* themselves: their stretches do not overlap, though each was compared    *)
(* with the one before it only, and their lines end in the order of the    *)
(* stretches (relative_order_satisfied).                                   *)
LiesBefore(a, b, end) ==
    /\ slot[end][a].to[2] <= slot[end][b].to[1]
    /\ {a, b} \subseteq DOMAIN made => LatAt(made[a].line, end) <= LatAt(made[b].line, end)

SlotsKeepApart ==
    slot # <<>> => \A end \in Ends : \A x \in Sections(end) :
        (\A a \in Group(x, end) : slot[end][a].ok) =>
            \A a, b \in Group(x, end) :
                a = b \/ LiesBefore(a, b, end) \/ LiesBefore(b, a, end)

(* What is allotted is legal, and in order.                                *)
SlotsAreSound == SlotsAreLegal /\ SlotsKeepApart

(* The line of an arc with siblings is only drawn by trajectories that run *)
(* nearer to the arc, by the margin, than to any other arc from its cross  *)
(* section (support_competing_arc_preferred, _support_binding_state).      *)
Own(a) ==
    LET to(b) == Min({Apart(s.line, scene.line[b]) : s \in row[a].segments})
    IN  \A b \in Rivals(a) : to(b) - to(a) >= Margin

SiblingsFollowTheirOwn ==
    \A a \in DOMAIN made :
        made[a].driver = "support" /\ Siblings(a) # {a} => Own(a)

(* The same of an arc without siblings that has the support of a single    *)
(* trajectory: test_t05v2_pipeline.py:2177 has a segment of such an arc    *)
(* reject the support that prefers a competing arc.                        *)
SingleArcsFollowTheirOwn ==
    \A a \in DOMAIN made :
        /\ made[a].driver = "support" /\ Siblings(a) = {a}
        /\ row[a].kind # "stitched_arc_support"
        => Own(a)

(* Siblings share their supports out as well as can be: no two of them     *)
(* follow the same corridor, no other choice serves more of them, and none *)
(* that serves as many is made of better candidates on the whole           *)
(* (_same_pair_support_deconflict).                                        *)
Assignments(group) ==
    {f \in [group -> 0..TopK] :
        /\ \A a \in group : f[a] <= Len(row[a].options)
        /\ \A a, b \in group : a # b /\ f[a] # 0 /\ f[b] # 0 =>
               ConflictKey(row[a].options[f[a]]) # ConflictKey(row[b].options[f[b]])}

Served(f) == Cardinality({a \in DOMAIN f : f[a] # 0})
RankSum(f) == SumFunction(f)

Chosen(group) ==
    [a \in group |->
        IF row[a].kind = "no_support" THEN 0
        ELSE CHOOSE k \in DOMAIN row[a].options : row[a].options[k].segments = row[a].segments]

DeconflictionIsBest ==
    turn = "enter" => \A group \in {Siblings(a) : a \in Arcs} :
        Cardinality(group) > 1 =>
            /\ Chosen(group) \in Assignments(group)
            /\ \A f \in Assignments(group) :
                   \/ Served(f) < Served(Chosen(group))
                   \/ Served(f) = Served(Chosen(group)) /\ RankSum(f) >= RankSum(Chosen(group))
=============================================================================
