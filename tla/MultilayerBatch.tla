---------------------------- MODULE MultilayerBatch ----------------------------
(***************************************************************************)
(* batch_multilayer_clean_and_classify.py of t02_ground_seg_qc: for every  *)
(* patch of a data root the height of the road, the layers that interfere  *)
(* with it (bridges above, roads below), and a copy of the cloud without   *)
(* them, with a copy beside it in which they are tagged.  Batches into one *)
(* directory resume each other; they may die, and a patch may fail.        *)
(*                                                                         *)
(* The grid cells of a patch lie on a line, heights are in units of 5 cm,  *)
(* and a cloud is a sequence of runs [cell, z, n] of n points, each read   *)
(* as a chunk of its own.  A patch is a record                             *)
(*   cloud, there   its points, and whether there is a file of them        *)
(*   trips          its trajectories, sequences of [cell, z]               *)
(*   mixed          whether points or trajectories, and only one of them,  *)
(*                  have degrees for metres                                *)
(***************************************************************************)
EXTENDS Integers, Sequences, SequencesExt, FiniteSetsExt, Functions

CONSTANTS
    DataSets,       \* what there may be: the patches, and how many batches
    Requests,       \* [format, tagged, resume, mode] of a batch
    Radius,         \* of the corridor, in cells
    MaxSamples,     \* heights kept for a cell
    MinTotal,       \* points of a cell, before they are adapted to the density
    MinSupport,     \* points of the interfering layer, likewise
    MinCells        \* cells of a cluster, likewise

Bin == 4            \* 0.2 m
GroundBand == 6     \* 0.3 m
LayerBand == 40     \* 2 m
SepGate == 60       \* 3 m
Switch == 10        \* smooth_lambda, 0.5

NoFile == [format |-> "none"]
HalfFile == [format |-> "torn"]
Formats == {"laz", "las"}
Copies == {"clean", "full"} \X Formats

(* The requests and the data sets there may be.                            *)
TripModes == {"auto", "force_traj_z", "force_degraded"}
RequestsFit ==
    /\ Requests # {}
    /\ Requests \subseteq [format : Formats, tagged : BOOLEAN, resume : BOOLEAN, mode : TripModes]
DataFits ==
    \A d \in DataSets : Len(d.patches) \in Nat /\ DOMAIN d.patches = 1..Len(d.patches)

ASSUME CleaningAssumption == RequestsFit /\ DataFits

VARIABLES
    data,       \* the patches, and how many batches there may be
    phase,
    job,        \* what the batch was asked for
    at,         \* the patch it is at
    format,     \* the format it writes now
    peaks,      \* by cell: the two most frequent heights, and all its points
    roadZ,      \* by cell: the height of the road
    layers,     \* high and low: by cell the height of the layer to remove
    copy,       \* by patch: the copies
    stats,      \* by patch: patch_stats.json
    table,       \* the rows of the batch
    asked       \* what batches were asked for so far

cleaningVars == <<data, phase, job, at, format, peaks, roadZ, layers, copy, stats, table, asked>>

Patch == data.patches[at]
Nowhere == [c \in {} |-> 0]
NoLayers == [high |-> Nowhere, low |-> Nowhere]

FreshBatch(d) ==
    /\ data = d /\ phase = "idle" /\ at = 1 /\ format = "laz"
    /\ job = CHOOSE r \in Requests : TRUE
    /\ peaks = Nowhere /\ roadZ = Nowhere /\ layers = NoLayers
    /\ copy = [p \in DOMAIN d.patches |-> [c \in Copies |-> NoFile]]
    /\ stats = [p \in DOMAIN d.patches |-> NoFile]
    /\ table = {} /\ asked = <<>>

CleaningInit == \E d \in DataSets : FreshBatch(d)

Launch ==
    /\ phase = "idle" /\ Len(asked) < data.batches
    /\ \E r \in Requests :
          /\ job' = r
          /\ asked' = Append(asked, [format |-> r.format, tagged |-> r.tagged,
                                    resume |-> r.resume, cut |-> FALSE])
    /\ phase' = "patch" /\ at' = 1 /\ table' = {}
    /\ UNCHANGED <<data, format, peaks, roadZ, layers, copy, stats>>
-----------------------------------------------------------------------------
(* The patches one after the other (_process_patch).                       *)

Row(p, s) == [patch |-> p, pass |-> TRUE, format |-> s.format, tagged |-> job.tagged /\ s.tagged]
FailRow(p) == [patch |-> p, pass |-> FALSE, format |-> "none", tagged |-> FALSE]

EndPatch(row) ==
    /\ table' = table \cup {row} /\ at' = at + 1 /\ phase' = "patch"
    /\ peaks' = Nowhere /\ roadZ' = Nowhere /\ layers' = NoLayers /\ format' = "laz"
    /\ UNCHANGED <<data, job>>

AtPatch == phase = "patch" /\ at <= Len(data.patches)

Stated(p) == job.resume /\ stats[p] \notin {NoFile, HalfFile}
DoneOnceClean(p) == \* mutant: the tagged copy is not looked for
    Stated(p) /\ copy[p][<<"clean", job.format>>] # NoFile
Done(p) ==
    /\ Stated(p) /\ copy[p][<<"clean", job.format>>] # NoFile
    /\ job.tagged => copy[p][<<"full", job.format>>] # NoFile

Resume == AtPatch /\ Done(at) /\ EndPatch(Row(at, stats[at])) /\ UNCHANGED <<copy, stats, asked>>

(* There are no points, or they cannot be read, or the trajectories do not *)
(* agree in their coordinates.                                             *)
PatchFails ==
    /\ AtPatch /\ ~Done(at) /\ EndPatch(FailRow(at)) /\ UNCHANGED <<copy, stats, asked>>

(* Anything else that goes wrong before the copies ends the batch.         *)
BatchRaises ==
    /\ (AtPatch /\ ~Done(at)) \/ phase \in {"road", "layers"}
    /\ phase' = "idle" /\ table' = {}
    /\ UNCHANGED <<data, job, at, format, peaks, roadZ, layers, copy, stats, asked>>
-----------------------------------------------------------------------------
(* The heights of the cells in the corridor.                               *)

Cells(p) == {r.cell : r \in ToSet(p.cloud)}
TripCells(p) == UNION {{s.cell : s \in ToSet(t)} : t \in ToSet(p.trips)}
TripCorridor(p) == UNION {(c - Radius) .. (c + Radius) : c \in TripCells(p)}

(* _append_with_cap: too many samples are thinned out evenly.              *)
Thinned(s) ==
    LET step == (Len(s) + MaxSamples - 1) \div MaxSamples
    IN  IF Len(s) <= MaxSamples THEN s
        ELSE [i \in 1 .. ((Len(s) + step - 1) \div step) |-> s[(i - 1) * step + 1]]

OfCell(p, c) == SelectSeq(p.cloud, LAMBDA r : r.cell = c)
Samples(p, c) == FoldLeft(LAMBDA s, r : Thinned(s \o [i \in 1..r.n |-> r.z]), <<>>, OfCell(p, c))

(* build_cell_z_peaks_from_pointcloud: the heights in bins above the       *)
(* lowest one, the two fullest bins first.  Bins equally full go from high *)
(* to low.                                                                 *)
PeaksOf(p, c) ==
    LET samples == Samples(p, c)
        lowest == Min(ToSet(samples))
        InBin(z) == (z - lowest) \div Bin
        Count(b) == Len(SelectSeq(samples, LAMBDA z : InBin(z) = b))
        Fuller(a, b) == Count(a) > Count(b) \/ (Count(a) = Count(b) /\ a > b)
        top == SetToSortSeq({InBin(z) : z \in ToSet(samples)}, Fuller)
    IN  [tops |-> [i \in 1..Min({2, Len(top)}) |->
                      [z |-> lowest + Bin * top[i] + Bin \div 2, n |-> Count(top[i])]],
         total |-> FoldLeft(LAMBDA n, r : n + r.n, 0, OfCell(p, c))]

(* A corridor that meets no points is given up for all cells, if it may be *)
(* that the coordinates do not fit.                                        *)
Astray(p) == TripCells(p) # {} /\ TripCorridor(p) \cap Cells(p) = {} /\ p.mixed
InCorridor(p) == IF Astray(p) THEN Cells(p) ELSE TripCorridor(p)

FindPeaks ==
    /\ AtPatch /\ ~Done(at) /\ Patch.there
    /\ peaks' = [c \in Cells(Patch) \cap InCorridor(Patch) |-> PeaksOf(Patch, c)]
    /\ phase' = "road"
    /\ UNCHANGED <<data, job, at, format, roadZ, layers, copy, stats, table, asked>>
-----------------------------------------------------------------------------
(* The height of the road: from the heights of the trajectories, or, where *)
(* these have none, along the trajectories over the peaks.                 *)

Median(s) ==
    LET t == SortSeq(s, <)
        n == Len(t)
    IN  (t[(n + 1) \div 2] + t[n \div 2 + 1]) \div 2

Concat(ss) == FoldLeft(LAMBDA a, b : a \o b, <<>>, ss)

FromTrips(p) ==
    LET Of(c) == SelectSeq(Concat(p.trips), LAMBDA s : s.cell = c)
    IN  [c \in TripCells(p) |-> Median([i \in DOMAIN Of(c) |-> Of(c)[i].z])]

(* check_traj_z: all heights are zero, or there are none.                  *)
Flat(p) == \A t \in ToSet(p.trips) : \A s \in ToSet(t) : s.z = 0
Degraded(p) ==
    Astray(p) \/ job.mode = "force_degraded" \/ (job.mode = "auto" /\ Flat(p))

(* The cells with peaks that a trajectory enters, one after the other.     *)
Entered(trip) ==
    LET cells == [i \in DOMAIN trip |-> trip[i].cell]
        first == SelectSeq([i \in DOMAIN cells |-> i],
                           LAMBDA i : (i = 1 \/ cells[i - 1] # cells[i]) /\ cells[i] \in DOMAIN peaks)
    IN  [k \in DOMAIN first |-> cells[first[k]]]

Ways(cells) ==
    {f \in [DOMAIN cells -> 1..2] : \A i \in DOMAIN cells : f[i] <= Len(peaks[cells[i]].tops)}

Height(cells, f, i) == peaks[cells[i]].tops[f[i]].z
Distance(a, b) == IF a < b THEN b - a ELSE a - b

SwitchesOnly(cells, f) == \* mutant: the heights do not count
    FoldLeft(+, 0, [i \in 1..(Len(cells) - 1) |-> IF f[i] # f[i + 1] THEN Switch ELSE 0])
Cost(cells, f) ==
    FoldLeft(+, 0, [i \in 1..(Len(cells) - 1) |->
        Distance(Height(cells, f, i), Height(cells, f, i + 1)) + (IF f[i] # f[i + 1] THEN Switch ELSE 0)])

(* choose_road_z_by_traj_direction: the cheapest way over the peaks; of    *)
(* several, from its end on, the one over the fuller peaks.                *)
Way(cells) ==
    LET least == Min({Cost(cells, f) : f \in Ways(cells)})
        cheapest == {f \in Ways(cells) : Cost(cells, f) = least}
        Before(f, g) == \E i \in DOMAIN cells :
            f[i] < g[i] /\ \A j \in (i + 1)..Len(cells) : f[j] = g[j]
    IN  CHOOSE f \in cheapest : \A g \in cheapest \ {f} : Before(f, g)

Votes(trip) ==
    LET cells == Entered(trip)
        way == Way(cells)
    IN  [i \in DOMAIN cells |-> [cell |-> cells[i], z |-> Height(cells, way, i)]]

AlongTrips(p) ==
    LET all == Concat([t \in DOMAIN p.trips |-> Votes(p.trips[t])])
        Of(c) == SelectSeq(all, LAMBDA v : v.cell = c)
    IN  [c \in DOMAIN peaks |->
            IF Of(c) = <<>> THEN peaks[c].tops[1].z
            ELSE Median([i \in DOMAIN Of(c) |-> Of(c)[i].z])]

FindRoad ==
    /\ phase = "road" /\ phase' = "layers"
    /\ roadZ' = IF TripCells(Patch) = {} THEN Nowhere
                ELSE IF Degraded(Patch) THEN AlongTrips(Patch) ELSE FromTrips(Patch)
    /\ UNCHANGED <<data, job, at, format, peaks, layers, copy, stats, table, asked>>
-----------------------------------------------------------------------------
(* The layers that interfere (detect_overlap_cells): of the two peaks the  *)
(* one farther from the road, if it is far enough and has enough points    *)
(* for the density of the cloud, where enough such cells lie together.     *)

Clamp(x, lo, hi) == Max({lo, Min({hi, x})})
Rounded(n) == \* thousandths, a half to the even number
    LET q == n \div 1000
    IN  IF n % 1000 > 500 \/ (n % 1000 = 500 /\ q % 2 = 1) THEN q + 1 ELSE q

(* The median of the points of a cell, over 500, in thousandths.           *)
Density ==
    LET totals == SetToSortSeq({<<peaks[c].total, c>> : c \in DOMAIN peaks}, LAMBDA a, b :
                                   a[1] < b[1] \/ (a[1] = b[1] /\ a[2] < b[2]))
        n == Len(totals)
    IN  IF n = 0 THEN 200
        ELSE Clamp(totals[(n + 1) \div 2][1] + totals[n \div 2 + 1][1], 200, 3000)

Nearer(c) == IF Distance(peaks[c].tops[1].z, roadZ[c]) <= Distance(peaks[c].tops[2].z, roadZ[c])
             THEN 1 ELSE 2
Interfering(c) == peaks[c].tops[3 - Nearer(c)]

Overlaps(c) ==
    LET scale == Density
        layer == Interfering(c)
    IN  /\ peaks[c].total >= Max({10, Rounded(MinTotal * scale)})
        /\ Distance(layer.z, roadZ[c]) >= SepGate
        /\ layer.n >= Max({5, Rounded(MinSupport * scale)})
        /\ 10 * layer.n >= peaks[c].total

TwoPeaks == {c \in DOMAIN peaks \cap DOMAIN roadZ : Len(peaks[c].tops) = 2}

(* Cells that lie together, on the line.                                   *)
Clustered(cells) ==
    LET least == Max({1, Rounded(MinCells * Clamp(Density, 500, 2000))})
    IN  {c \in cells : \E a \in cells : a <= c /\ c <= a + least - 1 /\ (a .. (a + least - 1)) \subseteq cells}

FindLayers ==
    /\ phase = "layers" /\ phase' = "open"
    /\ LET cells == {c \in TwoPeaks : Overlaps(c)}
           Above(c) == Interfering(c).z > roadZ[c]
           Heights(cs) == [c \in cs |-> Interfering(c).z]
       IN  layers' = [high |-> Heights(Clustered({c \in cells : Above(c)})),
                      low |-> Heights(Clustered({c \in cells : ~Above(c)}))]
    /\ format' = job.format
    /\ UNCHANGED <<data, job, at, peaks, roadZ, copy, stats, table, asked>>
-----------------------------------------------------------------------------
(* What becomes of a run of points (_write_outputs).                       *)

OnRoad(r) == r.cell \in DOMAIN roadZ
Ground(r) == OnRoad(r) /\ Distance(r.z, roadZ[r.cell]) <= GroundBand

Removed(r) ==
    \/ /\ r.cell \in DOMAIN layers.high
       /\ Distance(r.z, layers.high[r.cell]) <= LayerBand /\ r.z > roadZ[r.cell] + GroundBand
    \/ /\ r.cell \in DOMAIN layers.low
       /\ Distance(r.z, layers.low[r.cell]) <= LayerBand /\ r.z < roadZ[r.cell] - GroundBand

Runs == ToSet(Patch.cloud)
Whole == [format |-> format, ground |-> {r \in Runs : Ground(r)}, removed |-> {r \in Runs : Removed(r)}]

(* Both copies are opened, and are whole once they are closed.             *)
Written == {c \in Copies : c[2] = format /\ (c[1] = "clean" \/ job.tagged)}
Put(cs, content) ==
    copy' = [copy EXCEPT ![at] = [c \in Copies |-> IF c \in cs THEN content ELSE @[c]]]

Open ==
    /\ phase = "open" /\ phase' = "close" /\ Put(Written, HalfFile)
    /\ UNCHANGED <<data, job, at, format, peaks, roadZ, layers, stats, table, asked>>

Close ==
    /\ phase = "close" /\ phase' = "note" /\ Put(Written, Whole)
    /\ UNCHANGED <<data, job, at, format, peaks, roadZ, layers, stats, table, asked>>

(* There is nothing that writes laz: las is written in its stead.          *)
FallBack ==
    /\ phase = "close" /\ format = "laz" /\ phase' = "open" /\ format' = "las"
    /\ Put({c \in Copies : c[2] = "laz"}, NoFile)
    /\ UNCHANGED <<data, job, at, peaks, roadZ, layers, stats, table, asked>>

(* Any other error, also of a copy that does not hold when it is verified. *)
Spoilt == asked' = [asked EXCEPT ![Len(asked)].cut = TRUE]

WriteFails ==
    /\ phase = "close" /\ EndPatch(FailRow(at)) /\ Spoilt /\ UNCHANGED <<copy, stats>>

OpenStats ==
    /\ phase = "note" /\ phase' = "pass" /\ stats' = [stats EXCEPT ![at] = HalfFile]
    /\ UNCHANGED <<data, job, at, format, peaks, roadZ, layers, copy, table, asked>>

PatchPasses ==
    /\ phase = "pass"
    /\ LET s == [format |-> format, tagged |-> job.tagged]
       IN  stats' = [stats EXCEPT ![at] = s] /\ EndPatch(Row(at, s))
    /\ UNCHANGED <<copy, asked>>

EndBatch ==
    /\ phase = "patch" /\ at > Len(data.patches) /\ phase' = "idle"
    /\ UNCHANGED <<data, job, at, format, peaks, roadZ, layers, copy, stats, table, asked>>

Crash ==
    /\ phase # "idle" /\ phase' = "idle" /\ table' = {} /\ Spoilt
    /\ peaks' = Nowhere /\ roadZ' = Nowhere /\ layers' = NoLayers /\ format' = "laz"
    /\ UNCHANGED <<data, job, at, copy, stats>>

CleaningNext ==
    \/ Launch \/ Resume \/ PatchFails \/ BatchRaises
    \/ FindPeaks \/ FindRoad \/ FindLayers
    \/ Open \/ Close \/ FallBack \/ WriteFails \/ OpenStats \/ PatchPasses
    \/ EndBatch \/ Crash

CleaningSpec == CleaningInit /\ [][CleaningNext]_cleaningVars
-----------------------------------------------------------------------------
(* Properties.                                                             *)

(* Batches that resume each other and write one format: the copies that a  *)
(* passing row names are whole, with the tagged one if the batch asked for *)
(* it, as long as none of them was cut short; and even then, if all ask    *)
(* for the same, unless laz could not be written.                          *)
RowsStandForWholeClouds ==
    \A row \in {r \in table : r.pass} :
        /\ \A a \in ToSet(asked) : a.resume /\ a.format = job.format
        /\ \/ \A a \in ToSet(asked) : ~a.cut
           \/ row.format = job.format /\ \A a \in ToSet(asked) : a.tagged = job.tagged
        => /\ copy[row.patch][<<"clean", row.format>>] \notin {NoFile, HalfFile}
           /\ job.tagged => /\ row.tagged
                            /\ copy[row.patch][<<"full", row.format>>] =
                                   copy[row.patch][<<"clean", row.format>>]

(* The heights are not those of the trajectories.  A single trajectory     *)
(* follows the one height that all its cells have, past layers that some   *)
(* of them lack, also where these have more points, and no point of that   *)
(* height is removed or taken for something else.                          *)
LevelRoadIsFollowed ==
    phase = "open" /\ Degraded(Patch) /\ Len(Patch.trips) = 1 =>
        LET cells == ToSet(Entered(Patch.trips[1]))
            Top(c, z) == \E t \in ToSet(peaks[c].tops) : Distance(t.z, z) <= Bin \div 2
            Apart(c, z) == \A t \in ToSet(peaks[c].tops) :
                Distance(t.z, z) <= Bin \div 2 \/ Distance(t.z, z) >= SepGate
            Level(z) == \A c \in cells : Top(c, z) /\ Apart(c, z)
            Alone(z) == \E c \in cells : Len(peaks[c].tops) = 1
        IN  \A z \in {r.z : r \in Runs} : Level(z) /\ Alone(z) =>
                \A r \in Runs : r.cell \in cells /\ r.z = z => Ground(r) /\ ~Removed(r)
=============================================================================
