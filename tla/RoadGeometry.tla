------------------------------ MODULE RoadGeometry ------------------------------
(***************************************************************************)
(* From the working segment of an arc to its final road: the witness cut,  *)
(* the corridor, the slot at either cross-section, the anchors in the      *)
(* slots, the queue of candidate lines, the first line of the queue that   *)
(* fits the ground, and the refinement of the road built from it           *)
(* (step3_corridor_identity.py and step5_conservative_road.py).  What the  *)
(* steps before found out about the arc is a scene: its ground, the lines  *)
(* that lie about it and what is known of them.                            *)
(***************************************************************************)
EXTENDS LineGrid

CONSTANTS
    Scenes,
    Cuts,         \* WITNESS_SAMPLE_POSITIONS, a sequence of stations
    Breadth,      \* the length of a cross-section, in eighths of a metre
    HalfCut,      \* WITNESS_HALF_LENGTH_M, in eighths
    NoAnchor      \* an offset no anchor has

VARIABLES
    scene,        \* the arc under work
    phase,        \* the last step done
    witness,      \* the chosen cut
    slot,         \* of each end, its interval and how it was found
    anchor,       \* of each end, its anchor and where it comes from
    queue,        \* the candidate lines in the order they are tried
    road,         \* the line chosen, NoLine while there is none
    mode,         \* the kind of the line chosen
    reason,       \* why there is no road
    refined       \* the road after its refinement

vars == <<scene, phase, witness, slot, anchor, queue, road, mode, reason, refined>>

Ends == {"src", "dst"}
At(e) == IF e = "src" THEN 0 ELSE Finish
NoSlot == [lo |-> 1, hi |-> 0]
NoWitness == [cut |-> Cuts[(Len(Cuts) + 1) \div 2], ivs |-> <<>>, rank |-> 0, exclusive |-> FALSE, chosen |-> FALSE]
Unmapped == [e \in Ends |-> [iv |-> NoSlot, method |-> "unresolved"]]
Unanchored == [e \in Ends |-> [at |-> NoAnchor, known |-> FALSE, used |-> FALSE]]

Safe == Surface(scene.ground)

---------------------------------------------------------------------------
(* The witness and the corridor.                                          *)

\* The interval chosen: the wanted rank, the first that contains the
\* reference, else the nearest.
ChooseInterval(ivs, ref, rank) ==
    LET holds == {n \in DOMAIN ivs : Within(ref, ivs[n])}
        apart(n) == Size(Centre(ivs[n]) - ref)
        nearest == {n \in DOMAIN ivs : \A k \in DOMAIN ivs : apart(n) <= apart(k)}
    IN IF rank \in DOMAIN ivs THEN rank ELSE Min(IF holds # {} THEN holds ELSE nearest)

\* What one cut sees: its intervals and the one at the segment.
Seen(c) ==
    LET ivs == Intervals(Safe[c])
        n == IF ivs = <<>> THEN 0 ELSE ChooseInterval(ivs, scene.segment[c], 0)
        gap(k) == Min({Size(ivs[n].lo - ivs[k].hi), Size(ivs[k].lo - ivs[n].hi)})
    IN [cut |-> c, ivs |-> ivs, rank |-> n,
        exclusive |-> n # 0 /\ \A k \in DOMAIN ivs \ {n} : gap(k) >= 8]

\* The cut whose interval most other cuts confirm; a stable one is chosen.
Witness ==
    LET seen == [n \in DOMAIN Cuts |-> Seen(Cuts[n])]
        found == {n \in DOMAIN Cuts : seen[n].rank # 0}
        centre(n) == Centre(seen[n].ivs[seen[n].rank]) - scene.segment[Cuts[n]]
        votes(n) == Cardinality({k \in found \ {n} : seen[k].rank = seen[n].rank /\ Size(centre(k) - centre(n)) <= 24})
        score(n) == (70 * votes(n)) \div (Len(Cuts) - 1) + (IF seen[n].exclusive THEN 30 ELSE 0)
        best == {n \in found : \A k \in found : score(k) <= score(n)}
    IN IF found = {} THEN NoWitness
       ELSE [cut |-> Cuts[Min(best)], ivs |-> seen[Min(best)].ivs, rank |-> seen[Min(best)].rank,
             exclusive |-> seen[Min(best)].exclusive, chosen |-> score(Min(best)) >= 55]

\* The corridor of the arc: its support or its own witness, else a prior.
State ==
    IF scene.supported \/ (witness.chosen /\ witness.exclusive) THEN "witness_based"
    ELSE IF scene.prior # NoLine THEN "prior_based" ELSE "unresolved"

---------------------------------------------------------------------------
(* The slots.                                                             *)

\* The anchors of an arc's supports at one end, the trusted ones or all.
TrustedSources ==
    LET row == scene.support
        swap == row.preferred = "stitched" /\ row.stitched.trusted
    IN SelectSeq(IF swap THEN <<row.stitched, row.selected>> ELSE <<row.selected, row.stitched>>,
                 LAMBDA s : s.trusted)

AnySources ==
    LET row == scene.support
        stitchedFirst == row.available /\ ~(row.full /\ row.dominant /\ row.selected.trusted)
    IN IF stitchedFirst THEN <<row.stitched, row.selected>> ELSE <<row.selected, row.stitched>>

AnchorsAt(sources, e) ==
    SelectSeq([n \in DOMAIN sources |-> IF e = "src" THEN sources[n].src ELSE sources[n].dst], LAMBDA o : o # NoAnchor)

\* The first interval the first of some anchors falls on, 0 when none does.
\* (An interval whose centre is as near as that contains the anchor.)
OnAnchor(ivs, anchors) ==
    LET on(o) == {n \in DOMAIN ivs : ivs[n].lo - 6 <= o /\ o <= ivs[n].hi + 6}
        hit == {k \in DOMAIN anchors : on(anchors[k]) # {}}
    IN IF hit = {} THEN 0 ELSE Min(on(anchors[Min(hit)]))

\* The interval that lies where the witness's lies on its own cut.
ByWitness(ivs) ==
    LET seenAt == Centre(witness.ivs[witness.rank]) - scene.segment[witness.cut] + HalfCut
        off(n) == Size(Centre(ivs[n]) * 2 * HalfCut - seenAt * Breadth)
    IN IF Len(ivs) = Len(witness.ivs) THEN <<witness.rank, "rank">>
       ELSE IF Len(ivs) > 1 THEN <<Min({n \in DOMAIN ivs : \A k \in DOMAIN ivs : off(n) <= off(k)}), "fraction_match">>
       ELSE <<0, "unresolved">>

\* The slot at one end of the segment.
BuildSlot(e) ==
    LET ivs == Intervals(Safe[At(e)])
        many == Len(ivs) > 1
        trusted == IF many THEN OnAnchor(ivs, AnchorsAt(TrustedSources, e)) ELSE 0
        seen == IF State = "witness_based" /\ witness.rank # 0 /\ ivs # <<>> THEN ByWitness(ivs) ELSE <<0, "unresolved">>
        any == IF many THEN OnAnchor(ivs, AnchorsAt(AnySources, e)) ELSE 0
        rank == IF State = "witness_based" THEN witness.rank ELSE 0
        found(n, how) == [iv |-> ivs[n], method |-> how]
    IN CASE State = "unresolved" -> [iv |-> NoSlot, method |-> "unresolved"]
         [] State # "unresolved" /\ scene.assigned[e] # NoSlot -> [iv |-> scene.assigned[e], method |-> "assigned_interval"]
         [] State # "unresolved" /\ scene.assigned[e] = NoSlot ->
              IF trusted # 0 THEN found(trusted, "anchor")
              ELSE IF seen[1] # 0 THEN found(seen[1], seen[2])
              ELSE IF any # 0 THEN found(any, "anchor")
              ELSE IF ivs = <<>> THEN [iv |-> NoSlot, method |-> "unresolved"]
              ELSE found(ChooseInterval(ivs, scene.segment[At(e)], rank), "reference")

---------------------------------------------------------------------------
(* The anchors.                                                           *)

\* The longest part of a slot that is safe, the slot itself when none is.
SafePart(e) ==
    LET iv == slot[e].iv
        parts == {[lo |-> Max({iv.lo, 8 * r[1]}), hi |-> Min({iv.hi, 8 * r[2] + 7})] : r \in RunsOf(Safe[At(e)])}
        good == {p \in parts : p.lo < p.hi}
    IN IF good = {} THEN iv
       ELSE CHOOSE p \in good : \A q \in good : Length(q) < Length(p) \/ (Length(q) = Length(p) /\ p.lo <= q.lo)

\* The point of a part of the slot nearest to a reference, and the middle of
\* a slot that was matched by its place alone.
SurfaceAnchor(e, part, o) == IF slot[e].method = "fraction_match" THEN Centre(part) ELSE Near(part, o)

Snap == 24   \* GEOMETRY_REFINE_ANCHOR_MAX_SNAP_DIST_M

\* The anchor step 3 gave for an end, drawn onto the slot, or the slot's own.
ResolveAnchor(e) ==
    LET own == SurfaceAnchor(e, SafePart(e), scene.segment[At(e)])
        given == scene.anchors[e]
        drawn == Near(SafePart(e), given)
    IN IF given = NoAnchor THEN [at |-> own, known |-> FALSE, used |-> FALSE]
       ELSE IF Size(given - drawn) <= Snap THEN [at |-> drawn, known |-> TRUE, used |-> TRUE]
       ELSE [at |-> own, known |-> TRUE, used |-> FALSE]

Own(e, o) == IF anchor[e].known THEN anchor[e].at ELSE o

\* The two anchors of a line: at each end the one from step 3, else its own.
PairFor(b) ==
    <<Own("src", SurfaceAnchor("src", SafePart("src"), b[First(b)])),
      Own("dst", SurfaceAnchor("dst", SafePart("dst"), b[Final(b)]))>>

\* A line led to the slots; an anchor from step 3 is used when both are known.
ToSlots(b, ref, part) ==
    IF anchor["src"].known /\ anchor["dst"].known THEN AnchorAlong(b, anchor["src"].at, anchor["dst"].at)
    ELSE AnchorAlong(b, SurfaceAnchor("src", part["src"], ref[First(ref)]), SurfaceAnchor("dst", part["dst"], ref[Final(ref)]))

SafeParts == [e \in Ends |-> SafePart(e)]
Projected(b) == ToSlots(b, b, [e \in Ends |-> slot[e].iv])
Anchored(b) == ToSlots(b, b, SafeParts)

\* The safe core of a line, led to the slots.
Envelope(b) ==
    LET core == IF b = NoLine THEN NoLine ELSE CoreIn(b, Safe)
        ends == PairFor(core)
    IN IF core = NoLine THEN NoLine ELSE AnchorAlong(core, ends[1], ends[2])

\* A line, or its safe core, prolonged to the slots in its own direction.
Trended(b, core) ==
    LET c == IF core THEN CoreIn(b, Safe) ELSE b
    IN IF c = NoLine THEN NoLine
       ELSE AnchorAlong(c, Own("src", Near(SafePart("src"), Prolonged(c, TRUE))),
                           Own("dst", Near(SafePart("dst"), Prolonged(c, FALSE))))

---------------------------------------------------------------------------
(* The candidate lines.                                                   *)

\* From one offset to the other along the cut of the witness.
AcrossCut(a, z) == [s \in Stations |-> IF s < witness.cut THEN a ELSE z]

\* A step-3 segment's own geometry is preferred to any other reference; the
\* others follow their trusted support, the witness's cut, or their base.
ShapeRef ==
    LET base == IF State = "prior_based" THEN [line |-> scene.prior, mode |-> "prior"]
                ELSE [line |-> scene.segment, mode |-> "segment"]
        trusted == SelectSeq(TrustedSources, LAMBDA s : s.line # NoLine)
        led == ToSlots(base.line, base.line, SafeParts)
    IN IF scene.production THEN [line |-> Anchored(scene.segment), mode |-> "segment"]
       ELSE IF trusted # <<>> THEN [line |-> Anchored(trusted[1].line), mode |-> "trusted"]
       ELSE IF State = "witness_based"
            THEN [line |-> AcrossCut(led[0], led[Finish]), mode |-> "witness"]
       ELSE [line |-> led, mode |-> base.mode]

Offer(b, kind, place) == <<[line |-> b, mode |-> kind, place |-> place, side |-> FALSE]>>
Early(yes) == IF yes THEN "second" ELSE "back"

\* A line moved sideways towards its anchors, by the full shift first.
Sides(b, kind, ends, early) ==
    LET moved == SelectSeq([n \in 1..4 |-> IF b = NoLine THEN NoLine ELSE Moved(b, ends[1], ends[2], <<4, 3, 5, 6>>[n])],
                           LAMBDA m : m # NoLine)
    IN [n \in DOMAIN moved |-> [line |-> moved[n], mode |-> kind, place |-> Early(early /\ n = 1), side |-> TRUE]]

\* A line whose ends are drawn anew, unless that changes nothing.
Transition(b, kind, place) ==
    LET bent == AnchorAlong(Trimmed(b), PairFor(b)[1], PairFor(b)[2])
    IN IF bent = b THEN <<>> ELSE Offer(bent, kind, place)

FitOffers ==
    LET fit == AnchorAlong(scene.fit, anchor["src"].at, anchor["dst"].at)
    IN IF scene.fit = NoLine THEN <<>> ELSE Offer(fit, "fit", "front") \o Offer(Envelope(fit), "fit", "second")

BentPlaceBold(shape) == IF shape.mode = "segment" THEN "front" ELSE "back"

\* Where the bent form of a production line goes: before it, unless a fit leads.
BentPlace(shape) == IF shape.mode = "segment" /\ scene.fit = NoLine THEN "front" ELSE "back"

ShapeOffers(shape) ==
    Offer(shape.line, shape.mode, "back") \o Transition(shape.line, shape.mode, BentPlace(shape))
        \o Offer(Envelope(shape.line), shape.mode, "second") \o Sides(shape.line, shape.mode, PairFor(shape.line), TRUE)

\* Straight from the slots to the middle of the witness's interval.  The cut
\* runs beside the slot: the points nearest to it are the slot's lower ends.
WitnessOffers ==
    LET low(e) == Own(e, SurfaceAnchor(e, SafePart(e), scene.segment[witness.cut] - HalfCut))
        middle == AnchorAlong([s \in {witness.cut} |-> Centre(witness.ivs[witness.rank])], low("src"), low("dst"))
    IN IF State # "witness_based" \/ witness.rank = 0 THEN <<>>
       ELSE Offer(middle, "witness", "back") \o Offer(Envelope(middle), "witness", "back")
                \o Sides(middle, "witness", <<low("src"), low("dst")>>, FALSE)

\* A terminal gap that was let in may follow what its partial support shows.
FollowsTrend == scene.enters /\ scene.support.partial /\ ~scene.support.full

SupportOffers ==
    LET ref == scene.support.selected.line
        place == Early(FollowsTrend)
    IN IF ref = NoLine \/ (scene.production /\ scene.fellBack) THEN <<>>
       ELSE Offer(Trended(ref, TRUE), "support", place) \o Offer(Trended(ref, FALSE), "support", place)
                \o Offer(Anchored(ref), "support", "back") \o Offer(Envelope(Anchored(ref)), "support", "back")
                \o Sides(Anchored(ref), "support", PairFor(Anchored(ref)), FALSE)

SegmentOffers(shape) ==
    LET led == Projected(scene.segment)
        drawn == Anchored(scene.segment)
    IN Offer(led, "segment", "back") \o Offer(Envelope(led), "segment", "back") \o Sides(led, "segment", PairFor(led), FALSE)
          \o IF drawn = shape.line THEN <<>>
             ELSE Transition(drawn, "segment", BentPlace(shape)) \o Offer(drawn, "segment", "back")
                      \o Offer(Envelope(drawn), "segment", "back")

PriorOffers ==
    LET led == Projected(scene.prior)
        drawn == Anchored(scene.prior)
        leads == State = "prior_based"
    IN IF scene.prior = NoLine THEN <<>>
       ELSE Offer(led, "prior", Early(leads)) \o Offer(Envelope(led), "prior", Early(leads))
                \o Sides(led, "prior", PairFor(led), leads)
                \o Offer(drawn, "prior", Early(leads)) \o Offer(Envelope(drawn), "prior", Early(leads))

ArcOffers ==
    LET led == Projected(scene.arc)
        place == Early(FollowsTrend)
    IN IF scene.arc = NoLine THEN <<>>
       ELSE Offer(Trended(scene.arc, TRUE), "arc", place) \o Offer(Trended(scene.arc, FALSE), "arc", place)
                \o Offer(led, "arc", place) \o Offer(Envelope(led), "arc", place)

RoadOffers ==
    LET base == IF scene.arc # NoLine THEN scene.arc ELSE IF scene.prior # NoLine THEN scene.prior ELSE scene.segment
        safe == Offer(Trended(base, TRUE), "rcsdroad", Early(scene.smallGap))
        whole == Offer(Trended(base, FALSE), "rcsdroad", Early(scene.smallGap))
    IN IF scene.smallGap THEN whole \o safe ELSE safe \o whole

Offers ==
    LET shape == ShapeRef
    IN FitOffers \o ShapeOffers(shape) \o WitnessOffers \o SupportOffers \o SegmentOffers(shape)
          \o PriorOffers \o ArcOffers \o RoadOffers

\* An offer without a line, or with the line of an earlier one, is dropped.
Queued(q, o) ==
    LET line == \E n \in DOMAIN q : q[n].line = o.line
    IN IF o.line = NoLine \/ line THEN q
       ELSE IF o.place = "front" THEN <<o>> \o q
       ELSE IF o.place = "second" /\ q # <<>> THEN InsertAt(q, 2, o)
       ELSE Append(q, o)

---------------------------------------------------------------------------
(* The choice of a line.                                                  *)

\* What the ground says of a line.
Verdict(b) ==
    [cross |-> Crosses(b, scene.ground.strip), under |-> Share(b, scene.ground.strip), share |-> Share(b, scene.ground.zone)]

\* The share of a line that has to lie in the drivable zone.
Needed(o) ==
    IF scene.smallGap /\ scene.enters /\ o.mode \in {"support", "arc", "rcsdroad"} /\ ~o.side THEN 65 ELSE 85

Fits(o) == ~Verdict(o.line).cross /\ Verdict(o.line).share >= Needed(o)
FallsBackAcross(o) == o.mode = "rcsdroad" /\ Verdict(o.line).share >= 65
FallsBack(o) == o.mode = "rcsdroad" /\ ~Verdict(o.line).cross /\ Verdict(o.line).share >= 65

\* The first line that fits, else the best one that may be fallen back to.
Selected ==
    LET fit == {n \in DOMAIN queue : Fits(queue[n])}
        back == {n \in DOMAIN queue : FallsBack(queue[n])}
        worth(n) == 101 * Verdict(queue[n].line).share + (100 - Verdict(queue[n].line).under)
    IN IF fit # {} THEN Min(fit)
       ELSE IF back # {} THEN Min({n \in back : \A k \in back : worth(k) <= worth(n)})
       ELSE 0

\* Why no line was taken, told by the best of them.
Refusal ==
    IF \A n \in DOMAIN queue : Verdict(queue[n].line).cross
    THEN IF \E n \in DOMAIN queue : queue[n].side THEN "road_crosses_divstrip_after_side_constrained_generation"
         ELSE "road_crosses_divstrip"
    ELSE "road_outside_drivezone"

---------------------------------------------------------------------------
(* The refinement of a built road.                                        *)

\* The score of a distance, in thousandths, half of it at the scale.
Score(d, scale) == (1000 * scale) \div (scale + d)
Sharp(n, top) == IF n > top THEN top ELSE n

Mid == Finish \div 2

\* The quality of a pair of lane boundaries as a guide for a line: it lies
\* near, its width varies little and is near six metres.
PairQuality(p, b) ==
    LET width(s) == p[2][s] - p[1][s]
        widths == {width(s) : s \in Stations}
        apart == Mean([s \in Stations |-> Size((p[1][s] + p[2][s]) \div 2 - b[s])])
        worth == 1000 - (1000 * apart) \div 96 - Sharp((1000 * (Max(widths) - Min(widths))) \div 144, 450)
                      - Sharp((1000 * Size(Mean([s \in Stations |-> width(s)]) - 48)) \div 144, 250)
    IN IF worth < 0 THEN 0 ELSE worth

\* The middle of the best pair of lane boundaries about a line.
LaneCentre(b) ==
    LET near == {l \in scene.lanes : Size(l[Mid] - b[Mid]) <= 96}
        middle(p) == [s \in Stations |-> (p[1][s] + p[2][s]) \div 2]
        pairs == {p \in near \X near : /\ \A s \in Stations : p[2][s] - p[1][s] \in 12..144
                                      /\ Share(middle(p), Safe) >= 75}
        best == CHOOSE p \in pairs : \A q \in pairs : PairQuality(q, b) <= PairQuality(p, b)
    IN IF pairs = {} THEN [line |-> NoLine, quality |-> 0]
       ELSE [line |-> middle(best), quality |-> PairQuality(best, b)]

HardShare == 93   \* GEOMETRY_REFINE_HARD_MIN_DRIVEZONE_RATIO
GoodLane == 450   \* GEOMETRY_REFINE_LANE_BOUNDARY_MIN_QUALITY_SCORE

\* What a road is refined after, and how far that is to be trusted.
RefineSource(lane) ==
    LET a == SurfaceAnchor("src", SafePart("src"), road[0])
        z == SurfaceAnchor("dst", SafePart("dst"), road[Finish])
        trusted == SelectSeq(TrustedSources, LAMBDA s : s.line # NoLine)
        from(b, family) == [line |-> AnchorAlong(b, a, z), family |-> family]
    IN IF scene.production THEN from(IF mode = "segment" THEN road ELSE scene.segment, "traj")
       ELSE IF trusted # <<>> THEN from(trusted[1].line, "traj")
       ELSE IF lane.quality >= GoodLane THEN from(lane.line, "lane")
       ELSE IF State = "witness_based" THEN [line |-> AcrossCut(a, z), family |-> "witness"]
       ELSE IF State = "prior_based" /\ scene.prior # NoLine THEN from(scene.prior, "prior")
       ELSE IF mode # "support" THEN from(road, "reference")
       ELSE [line |-> NoLine, family |-> "none"]

\* A road along a support nobody trusts is left alone, unless lanes guide it.
Dirty(source) == mode = "support" /\ TrustedSources = <<>> /\ source.family # "lane"

RefineAnchorAnew(e, source) == [at |-> SurfaceAnchor(e, SafePart(e), source.line[At(e)]), sure |-> 980]

\* The anchor of a refined road at one end and the confidence in it.
RefineAnchor(e, source) ==
    LET part == SafePart(e)
        given == IF ~anchor[e].known THEN road[At(e)] ELSE IF anchor[e].used THEN anchor[e].at ELSE NoAnchor
        supports == AnchorsAt(AnySources, e)
        first == SelectSeq(AnySources, LAMBDA s : (IF e = "src" THEN s.src ELSE s.dst) # NoAnchor)[1]
    IN CASE given # NoAnchor -> [at |-> Near(part, given), sure |-> 995]
         [] given = NoAnchor /\ source.family = "traj" ->
              [at |-> SurfaceAnchor(e, part, source.line[At(e)]), sure |-> 980]
         [] given = NoAnchor /\ source.family # "traj" ->
              IF supports # <<>>
              THEN [at |-> Near(part, supports[1]), sure |-> IF first = scene.support.selected THEN 900 ELSE 840]
              ELSE [at |-> SurfaceAnchor(e, part, scene.segment[witness.cut] - HalfCut), sure |-> 720]

\* The source between its anchors; lanes of quality draw it to their middle.
\* (The corridor about the source, which holds it, clips as the surface does.)
RefinedCore(source, lane, a, z) ==
    LET led == AnchorAlong(source.line, a, z)
        guide == AnchorAlong(lane.line, a, z)
        weight == Max({80, (lane.quality * 32) \div 100})
        blend == [s \in Stations |-> (led[s] * (1000 - weight) + guide[s] * weight) \div 1000]
        core == IF source.family = "traj" /\ lane.quality >= GoodLane THEN AnchorAlong(blend, a, z) ELSE led
    IN IF CoreIn(core, Safe) = NoLine THEN core ELSE CoreIn(core, Safe)

\* The worth of a line as the refined road, in thousandths.
Worth(b, a, z, led, guide) ==
    LET geometry == Score(Offset(b, led), 48)
        centring == IF guide = NoLine THEN geometry ELSE Score(Offset(b, guide), 32)
        fit == Score((Size(b[0] - a.at) + Size(b[Finish] - z.at)) \div 2, 24)
        anchored == (55 * fit + 45 * ((a.sure + z.sure) \div 2)) \div 100
        smooth == IF 16 * Turn(b) > 1000 THEN 0 ELSE 1000 - 16 * Turn(b)
        onZone == IF Verdict(b).share < HardShare THEN 0 ELSE (1000 * (Verdict(b).share - HardShare)) \div (100 - HardShare)
    IN (3 * (6 * geometry + 4 * centring) + 22 * anchored + 18 * centring + 16 * smooth + 14 * onZone) \div 100

\* The refined road, its smoothed form first; either has to be clearly
\* better than what is there, and to keep to the ground.
Refined(source, lane) ==
    LET a == RefineAnchor("src", source)
        z == RefineAnchor("dst", source)
        led == AnchorAlong(source.line, a.at, z.at)
        guide == IF lane.line = NoLine THEN NoLine ELSE AnchorAlong(lane.line, a.at, z.at)
        drawn == AnchorAlong(Trimmed(RefinedCore(source, lane, a.at, z.at)), a.at, z.at)
        worth(b) == Worth(b, a, z, led, guide)
        better(b, c) == /\ ~Verdict(b).cross
                        /\ Verdict(b).share >= HardShare
                        /\ worth(b) > worth(c) + 30
        smoothed == IF better(Smooth(drawn), road) THEN Smooth(drawn) ELSE road
    IN IF better(drawn, smoothed) THEN drawn ELSE smoothed

---------------------------------------------------------------------------
(* The steps of one arc.                                                  *)

Init ==
    /\ scene \in Scenes
    /\ phase = "segment" /\ witness = NoWitness
    /\ slot = Unmapped /\ anchor = Unanchored
    /\ queue = <<>> /\ road = NoLine /\ refined = NoLine
    /\ mode = "" /\ reason = ""

Identify ==
    /\ phase = "segment"
    /\ phase' = "corridor"
    /\ witness' = Witness
    /\ UNCHANGED <<scene, slot, anchor, queue, road, mode, reason, refined>>

MapSlots ==
    /\ phase = "corridor"
    /\ phase' = "slots"
    /\ slot' = [e \in Ends |-> BuildSlot(e)]
    /\ UNCHANGED <<scene, witness, anchor, queue, road, mode, reason, refined>>

Mapped == \A e \in Ends : slot[e].iv # NoSlot

\* An arc without a corridor, or without a slot, ends here.
Refuse ==
    /\ phase = "slots"
    /\ State = "unresolved" \/ ~Mapped
    /\ phase' = "done"
    /\ reason' = IF State = "unresolved" THEN "corridor_unresolved" ELSE "slot_unresolved"
    /\ UNCHANGED <<scene, witness, slot, anchor, queue, road, mode, refined>>

Anchor ==
    /\ phase = "slots"
    /\ State # "unresolved" /\ Mapped
    /\ phase' = "anchored"
    /\ anchor' = [e \in Ends |-> ResolveAnchor(e)]
    /\ UNCHANGED <<scene, witness, slot, queue, road, mode, reason, refined>>

OfferLines ==
    /\ phase = "anchored"
    /\ phase' = "offered"
    /\ queue' = FoldLeft(Queued, <<>>, Offers)
    /\ UNCHANGED <<scene, witness, slot, anchor, road, mode, reason, refined>>

BuildFinalRoad ==
    /\ phase = "offered"
    /\ Selected # 0
    /\ phase' = "built"
    /\ road' = queue[Selected].line
    /\ mode' = queue[Selected].mode
    /\ reason' = "built"
    /\ UNCHANGED <<scene, witness, slot, anchor, queue, refined>>

RefuseLines ==
    /\ phase = "offered"
    /\ Selected = 0
    /\ phase' = "done"
    /\ reason' = Refusal
    /\ UNCHANGED <<scene, witness, slot, anchor, queue, road, mode, refined>>

\* A fitted line is final; a road without a source to follow, or along an
\* untrusted support, stays as it was built.
RefineRoad ==
    /\ phase = "built"
    /\ phase' = "done"
    /\ LET lane == LaneCentre(road)
           source == RefineSource(lane)
       IN refined' = IF mode = "fit" \/ source.line = NoLine \/ Dirty(source) THEN road
                     ELSE Refined(source, lane)
    /\ UNCHANGED <<scene, witness, slot, anchor, queue, road, mode, reason>>

Next == Identify \/ MapSlots \/ Refuse \/ Anchor \/ OfferLines \/ BuildFinalRoad \/ RefuseLines \/ RefineRoad

Spec == Init /\ [][Next]_vars

---------------------------------------------------------------------------
(* What a built road is.                                                  *)

\* Whatever line was taken and however it was bent, drawn sideways or
\* refined, the road begins in the slot of its first cross-section and ends
\* in the slot of its second, at the anchors of step 3 where there are two
\* that lie at their slots (_candidate_anchor_pair, _select_refine_anchor_point);
\* it never meets the dividing strip, and as much of it as the arc's case
\* demands lies in the drivable zone.  An arc is refused for the zone only if
\* one of its lines passed beside the strip.
RoadIsSound ==
    LET meets(b) == \E s \in Stations : Lane(b[s]) \in scene.ground.strip[s]
        inside(b) == Cardinality({s \in Stations : Lane(b[s]) \in scene.ground.zone[s]})
        needed == IF mode = "rcsdroad" \/ (scene.smallGap /\ scene.enters) THEN 65 ELSE 85
    IN /\ \A b \in {road, refined} \ {NoLine} :
             /\ \A e \in Ends : Within(b[At(e)], slot[e].iv)
             /\ (\A k \in Ends : anchor[k].used) => \A e \in Ends : b[At(e)] = anchor[e].at
             /\ ~meets(b) /\ 100 * inside(b) >= needed * Cardinality(Stations)
       /\ reason = "road_outside_drivezone" => \E n \in DOMAIN queue : ~meets(queue[n].line)

\* A fitted line that the ground admits is the road, to the end, whatever is
\* put before or after it in the queue (_append_candidate_line).
FitLeads ==
    scene.fit # NoLine /\ phase = "done" /\ anchor # Unanchored =>
        LET fit == AnchorAlong(scene.fit, anchor["src"].at, anchor["dst"].at)
        IN ~Crosses(fit, scene.ground.strip) /\ Share(fit, scene.ground.zone) >= 85 => refined = fit
=============================================================================
