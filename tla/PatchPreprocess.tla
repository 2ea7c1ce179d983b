---------------------------- MODULE PatchPreprocess ----------------------------
(***************************************************************************)
(* t06_patch_preprocess (pipeline.py, geom.py, io.py): roads whose nodes   *)
(* are missing from a patch are clipped to the drive zone and get nodes of *)
(* their own, and the patch is written anew into the directory of a run.   *)
(* A directory may be used by several runs, and a run may die.             *)
(*                                                                         *)
(* Everything lies on a line marked every five metres, the default width   *)
(* of the clip buffer, so that points within the tolerances (5 cm) are the *)
(* same point.  Metres i to i + 1 are cell i.  The parts of a road are     *)
(* pairs <<from, to>>.  A patch w is a record                              *)
(*   vector, globals   the node and road files in its Vector directory,    *)
(*                     and how many directories "global" have both         *)
(*   override, named, compat   the zone: an override that is "none",       *)
(*                     "there" or "missing", whether DriveZone.geojson is  *)
(*                     there, and the files that may stand for it          *)
(*   crs               those of nodes, roads and zone; "" is none          *)
(*   fields            whether the id fields of nodes and roads are found  *)
(*   nodes             the nodes [id, at] in their order; NoId is no id    *)
(*   roads             the roads [key, s, e, parts] in their order         *)
(*   zone              the cells of the drive zone                         *)
(* No road names the virtual node of another one: the code looks such an   *)
(* id up among the nodes of the input, where it is not.                    *)
(***************************************************************************)
EXTENDS Integers, Sequences, SequencesExt, FiniteSetsExt

CONSTANTS
    Plans           \* what the patch is in each run into the directory

(* Identifiers are sequences: those of the input are of length one, or     *)
(* empty where there is none; generated ones are longer.                   *)
NoId == <<>>
Virtual(id) == Len(id) > 1

IsSeq(s) == s \in Seq(ToSet(s))
NodesFit(w) ==
    IsSeq(w.nodes) /\ \A n \in ToSet(w.nodes) : ~Virtual(n.id) /\ n.at \in Int
RoadsFit(w) ==
    /\ IsSeq(w.roads)
    /\ \A road \in ToSet(w.roads) :
          /\ ~Virtual(road.s) /\ ~Virtual(road.e)
          /\ IsSeq(road.parts)
          /\ \A l \in ToSet(road.parts) : l \in Int \X Int /\ l[1] # l[2]
PlansFit ==
    \A p \in Plans : IsSeq(p) /\ \A w \in ToSet(p) : NodesFit(w) /\ RoadsFit(w)
ASSUME PlansAssumption == PlansFit

VARIABLES
    plan,       \* one of the plans: it bounds the runs
    place,
    next,       \* the road it is at
    ids,        \* the ids in use
    kept,       \* the roads so far
    created,    \* their virtual nodes
    dropped,    \* the roads that were dropped
    made,       \* the nodes and roads to write
    files,      \* those of the directory: nodes, roads, report
    cut,        \* whether a run has begun to delete them and none has ended that since
    runs,       \* the runs so far: whether they overwrite
    exit        \* what the last run returned

repairVars == <<plan, place, next, ids, kept, created, dropped, made, files, cut, runs, exit>>

NotWhole == [run |-> 0, data |-> {}]   \* absent or torn
NoOutput == [nodes |-> {}, roads |-> {}]
Empty == [nodes |-> NotWhole, roads |-> NotWhole, report |-> NotWhole]

patch == plan[Len(runs)]

FreshRepair(p) ==
    /\ plan = p /\ place = "idle" /\ next = 1 /\ ids = {} /\ kept = {} /\ created = <<>>
    /\ dropped = {} /\ made = NoOutput /\ files = Empty /\ cut = FALSE
    /\ runs = <<>> /\ exit = "none"

RepairInit == \E p \in Plans : FreshRepair(p)

-----------------------------------------------------------------------------
(* Which files are read (load_inputs).  Nodes and roads come from one      *)
(* place, under their new or their old names.                              *)

FromPatch(w) ==
    /\ w.vector \cap {"RCSDNode", "Node"} # {}
    /\ w.vector \cap {"RCSDRoad", "Road"} # {}
Located(w) == FromPatch(w) \/ w.globals = 1

ZoneFound(w) ==
    \/ w.override = "there"
    \/ w.override = "none" /\ (w.named \/ w.compat = {"geojson"})

CrsKnown(w) == w.crs[1] # "" /\ w.crs[2] # "" /\ (w.crs[3] # "" \/ w.crs[1] = w.crs[2])

Loadable(w) == Located(w) /\ ZoneFound(w) /\ CrsKnown(w) /\ w.nodes # <<>> /\ w.roads # <<>>

(* Of the nodes of an id the first counts.                                 *)
IdsOf(nodes) == {n.id : n \in ToSet(nodes)} \ {NoId}
First(nodes, id) == nodes[Min({i \in DOMAIN nodes : nodes[i].id = id})]

Ids(w) == IdsOf(w.nodes)
At(w, id) == First(w.nodes, id).at
-----------------------------------------------------------------------------
(* The repair of a road (geom.py).                                         *)

Gap(a, b) == IF a < b THEN b - a ELSE a - b
Length(l) == Gap(l[1], l[2])
Flip(l) == <<l[2], l[1]>>
CellsOf(l) == IF l[1] < l[2] THEN l[1] .. (l[2] - 1) ELSE l[2] .. (l[1] - 1)

Clip(w) == UNION {(c - 1) .. (c + 1) : c \in w.zone}

(* extract_linear_segments of the intersection: what of the parts lies in  *)
(* the clip, in runs as long as possible.                                  *)
RunsOf(l, clip) ==
    LET in == CellsOf(l) \cap clip
        pieces == {p \in in \X {c + 1 : c \in in} :
                      p[1] < p[2] /\ CellsOf(p) \subseteq in /\ p[1] - 1 \notin in /\ p[2] \notin in}
    IN  IF l[1] < l[2] THEN pieces ELSE {Flip(p) : p \in pieces}
Segments(w, road) == UNION {RunsOf(l, Clip(w)) : l \in ToSet(road.parts)}

(* choose_reference_line: the longest part, any of those if there are      *)
(* several, as the order of their texts decides.                           *)
ReferenceLines(road) ==
    {l \in ToSet(road.parts) : \A m \in ToSet(road.parts) : Length(m) <= Length(l)}

(* A line as it runs from the source side to the destination side: by two  *)
(* points of reference, or as the nodes that exist say, at most one of     *)
(* which is there (assign_by_references, assign_original_sides).           *)
ByReferences(l, s, d) ==
    IF Gap(s, l[1]) + Gap(d, l[2]) <= Gap(s, l[2]) + Gap(d, l[1])
    THEN l ELSE Flip(l)

AsDigitised(l, s, d) == l \* mutant: the nodes that exist are not looked at

OriginalSides(l, s, d) ==
    IF \/ \E p \in s : Gap(p, l[2]) < Gap(p, l[1])
       \/ \E p \in d : Gap(p, l[1]) < Gap(p, l[2])
    THEN Flip(l) ELSE l

(* choose_segment: one that reaches the node that exists, then the longest *)
(* one, then the nearest.                                                  *)
ToNode(l, at) == IF at = {} THEN 0 ELSE Min({Gap(p, l[i]) : p \in at, i \in 1..2})
Connects(l, at) == \E p \in at : p \in {l[1], l[2]}

Longer(l, m, at) == Length(l) > Length(m) \* mutant: connection comes last

Better(l, m, at) ==
    \/ Connects(l, at) /\ ~Connects(m, at)
    \/ /\ Connects(l, at) = Connects(m, at)
       /\ \/ Length(l) > Length(m)
          \/ Length(l) = Length(m) /\ ToNode(l, at) < ToNode(m, at)

BestSegments(segments, at) == {l \in segments : ~\E m \in segments : Better(m, l, at)}

(* generate_stable_node_id: the hash of a road, a side and a point, with   *)
(* the first salt that gives a new id.                                     *)
AnyId(key, side, p, inUse) == <<key, side, p, 0>> \* mutant: ids in use are not looked at

NewId(key, side, p, inUse) ==
    LET Taken(salt) == <<key, side, p, salt>> \in inUse
    IN  <<key, side, p, CHOOSE n \in 0..Cardinality(inUse) :
                            ~Taken(n) /\ \A m \in 0..(n - 1) : Taken(m)>>
-----------------------------------------------------------------------------
StartRun ==
    /\ place = "idle" /\ Len(runs) < Len(plan)
    /\ \E overwrite \in BOOLEAN : runs' = Append(runs, overwrite)
    /\ IF Loadable(plan[Len(runs) + 1]) THEN place' = "clear" /\ UNCHANGED exit
                      ELSE place' = "idle" /\ exit' = "refused"
    /\ UNCHANGED <<plan, next, ids, kept, created, dropped, made, files, cut>>

(* What lies in the directory goes before the patch is looked at closely,  *)
(* one file after the other as the directory lists them (rmtree): the run  *)
(* may die when some are gone and some are not.                            *)
ClearFile ==
    /\ place = "clear" /\ Last(runs) /\ cut' = TRUE
    /\ \E f \in DOMAIN files :
          files[f] # NotWhole /\ files' = [files EXCEPT ![f] = NotWhole]
    /\ UNCHANGED <<plan, place, next, ids, kept, created, dropped, made, runs, exit>>

ClearedNever == TRUE \* mutant: what lies there stays
Cleared == Last(runs) => files = Empty

Prepared(w) == w.fields /\ Ids(w) # {} /\ w.zone # {}

Prepare ==
    /\ place = "clear" /\ Cleared /\ cut' = (cut /\ ~Last(runs))
    /\ IF Prepared(patch)
       THEN place' = "repair" /\ ids' = Ids(patch) /\ UNCHANGED exit
       ELSE place' = "idle" /\ exit' = "refused" /\ UNCHANGED ids
    /\ next' = 1 /\ kept' = {} /\ created' = <<>> /\ dropped' = {} /\ made' = NoOutput
    /\ UNCHANGED <<plan, files, runs>>

Road == patch.roads[next]
AtRoad == place = "repair" /\ next <= Len(patch.roads)
SrcKnown == Road.s \in ids
DstKnown == Road.e \in ids
NodeAt(id) == IF id \in ids THEN {At(patch, id)} ELSE {}

Output(s, e, parts, fixed) ==
    kept' = kept \cup {[of |-> next, s |-> s, e |-> e, parts |-> parts, fixed |-> fixed]}

KeepRoad ==
    /\ AtRoad /\ SrcKnown /\ DstKnown /\ Output(Road.s, Road.e, Road.parts, FALSE)
    /\ next' = next + 1
    /\ UNCHANGED <<plan, place, ids, created, dropped, made, files, cut, runs, exit>>

DropRoad ==
    /\ AtRoad /\ ~(SrcKnown /\ DstKnown) /\ Segments(patch, Road) = {}
    /\ dropped' = dropped \cup {next} /\ next' = next + 1
    /\ UNCHANGED <<plan, place, ids, kept, created, made, files, cut, runs, exit>>

RepairRoad ==
    /\ AtRoad /\ ~(SrcKnown /\ DstKnown)
    /\ \E ref \in ReferenceLines(Road),
          segment \in BestSegments(Segments(patch, Road), NodeAt(Road.s) \cup NodeAt(Road.e)) :
          LET before == OriginalSides(ref, NodeAt(Road.s), NodeAt(Road.e))
              From(id, p) == IF id \in ids THEN At(patch, id) ELSE p
              after == ByReferences(segment, From(Road.s, before[1]), From(Road.e, before[2]))
              newSrc == before[1] # after[1] \/ ~SrcKnown
              newDst == before[2] # after[2] \/ ~DstKnown
              s == IF newSrc THEN NewId(Road.key, "src", after[1], ids) ELSE Road.s
              withSrc == ids \cup {s}
              e == IF newDst THEN NewId(Road.key, "dst", after[2], withSrc) ELSE Road.e
          IN  /\ Output(s, e, <<segment>>, TRUE)
              /\ ids' = withSrc \cup {e}
              /\ created' = created \o (IF newSrc THEN <<[id |-> s, at |-> after[1]]>> ELSE <<>>)
                                    \o (IF newDst THEN <<[id |-> e, at |-> after[2]]>> ELSE <<>>)
    /\ next' = next + 1
    /\ UNCHANGED <<plan, place, dropped, made, files, cut, runs, exit>>

(* The nodes of the input and the virtual ones, the first of each id; the  *)
(* roads whose nodes are among them.                                       *)
Collect ==
    /\ place = "repair" /\ next > Len(patch.roads)
    /\ LET all == patch.nodes \o created
           nodes == {First(all, id) : id \in IdsOf(all)}
           named == {n.id : n \in nodes}
       IN  made' = [nodes |-> nodes, roads |-> {r \in kept : r.s \in named /\ r.e \in named}]
    /\ place' = "open" /\ next' = 1
    /\ UNCHANGED <<plan, ids, kept, created, dropped, files, cut, runs, exit>>
-----------------------------------------------------------------------------
(* The files of a run are written in place, one after the other, the many  *)
(* reports being one file.                                                 *)

RoadsFirst == <<"roads", "nodes", "report">> \* mutant: the roads are written first
Order == <<"nodes", "roads", "report">>

Content(f) == [run |-> Len(runs), data |-> IF f = "report" THEN {} ELSE made[f]]

OpenFile ==
    /\ place = "open" /\ files' = [files EXCEPT ![Order[next]] = NotWhole] /\ place' = "fill"
    /\ UNCHANGED <<plan, next, ids, kept, created, dropped, made, cut, runs, exit>>

FillFile ==
    /\ place = "fill" /\ files' = [files EXCEPT ![Order[next]] = Content(Order[next])]
    /\ IF next = Len(Order) THEN place' = "idle" /\ next' = 1 /\ exit' = "ok"
                            ELSE place' = "open" /\ next' = next + 1 /\ UNCHANGED exit
    /\ UNCHANGED <<plan, ids, kept, created, dropped, made, cut, runs>>

Die ==
    /\ place # "idle" /\ place' = "idle" /\ exit' = "crashed" /\ next' = 1
    /\ UNCHANGED <<plan, ids, kept, created, dropped, made, files, cut, runs>>

RepairNext ==
    \/ StartRun \/ ClearFile \/ Prepare \/ KeepRoad \/ DropRoad \/ RepairRoad \/ Collect
    \/ OpenFile \/ FillFile \/ Die

RepairSpec == RepairInit /\ [][RepairNext]_repairVars
-----------------------------------------------------------------------------
(* Properties.                                                             *)

InputRoad(r) == patch.roads[r.of]
VirtualAt(id) == (CHOOSE n \in made.nodes : n.id = id).at

(* Every road of the patch is there once, as it was if both its nodes are, *)
(* or was dropped because nothing of it lies in the clip.                  *)
NoRoadIsLost ==
    \A i \in DOMAIN patch.roads :
        LET road == patch.roads[i]
            out == {r \in made.roads : r.of = i}
        IN  /\ Cardinality(out) = (IF i \in dropped THEN 0 ELSE 1)
            /\ i \in dropped => Segments(patch, road) = {}
            /\ {road.s, road.e} \subseteq Ids(patch) =>
                   \A r \in out : r.s = road.s /\ r.e = road.e /\ r.parts = road.parts

(* A repaired road lies in the clip.  Its ends can be told apart so that a *)
(* virtual node lies at its end and belongs to this road alone, and an end *)
(* that keeps its node has not moved.                                      *)
EndsAreAtTheirNodes ==
    \A r \in {x \in made.roads : x.fixed} :
        LET line == r.parts[1]
            Sits(id, p) ==
                IF Virtual(id)
                THEN VirtualAt(id) = p /\ \A x \in made.roads : id \in {x.s, x.e} => x = r
                ELSE \E l \in ReferenceLines(InputRoad(r)) : p \in {l[1], l[2]}
        IN  /\ CellsOf(line) \subseteq Clip(patch) /\ r.s # r.e
            /\ (Sits(r.s, line[1]) /\ Sits(r.e, line[2])) \/ (Sits(r.s, line[2]) /\ Sits(r.e, line[1]))

(* A road of one part keeps a node that lies at one of its ends, if the    *)
(* clip holds the road there.                                              *)
AttachedEndStays ==
    \A r \in {x \in made.roads : x.fixed /\ Len(InputRoad(x).parts) = 1} :
        LET road == InputRoad(r)
            line == road.parts[1]
            Holds(p) == \E c \in CellsOf(line) \cap Clip(patch) : p \in {c, c + 1}
            Stays(id) == id \in Ids(patch) /\ At(patch, id) \in ToSet(line) /\ Holds(At(patch, id))
        IN  (Stays(road.s) => r.s = road.s) /\ (Stays(road.e) => r.e = road.e)

(* When a patch has been worked through, its roads are accounted for, end  *)
(* at nodes they name, and have lost no node that they reach.              *)
RepairIsSound ==
    place = "open" /\ next = 1 => NoRoadIsLost /\ EndsAreAtTheirNodes /\ AttachedEndStays

RoadsNameNodes ==
    \A r \in files.roads.data : {r.s, r.e} \subseteq {n.id : n \in files.nodes.data}

(* After a run that returned, the directory holds what that run wrote, and *)
(* its roads name nodes that are there.  As long as every run overwrites,  *)
(* the whole files are those of one run whatever died or was refused, its  *)
(* roads name its nodes, and roads are not without nodes or the report     *)
(* without roads unless a run died while it deleted the files.             *)
PublishedIsClosed ==
    LET Whole == {f \in DOMAIN files : files[f].run # 0}
    IN  /\ place = "idle" /\ exit = "ok" =>
               (\A f \in DOMAIN files : files[f].run = Len(runs)) /\ RoadsNameNodes
        /\ (\A i \in DOMAIN runs : runs[i]) =>
               /\ \A f, g \in Whole : files[f].run = files[g].run
               /\ {"nodes", "roads"} \subseteq Whole => RoadsNameNodes
               /\ ~cut => /\ "roads" \in Whole => "nodes" \in Whole
                          /\ "report" \in Whole => "roads" \in Whole
=============================================================================
