----------------------------- MODULE GroundCache -----------------------------
(***************************************************************************)
(* batch_ground_cache.py of t02_ground_seg_qc: one batch labels the points *)
(* of every patch of a data root and keeps the labels in a directory per   *)
(* patch, so that a later batch can resume.  A crash may end a batch at    *)
(* any step; patches may be added between batches.                         *)
(*                                                                         *)
(* A cloud is a sequence of points, written in chunks of one; Truth says   *)
(* which of them a configuration labels as ground (1).  ground_idx.npy and *)
(* the classified copy are written and never read.                         *)
(***************************************************************************)
EXTENDS Integers, FiniteSets, Sequences

CONSTANTS
    Patches,        \* the patch directories, numbered in path order
    Name, Rel,      \* their names, and their paths below the root, as keys
    Later,          \* the patches that are added later
    Cfgs,           \* grid size and margin
    Truth,          \* Truth[p][c]: the labels of the points of p under c
    Resumes,        \* the values of --resume in use
    Absent, Torn,   \* a file that does not exist; one that does not parse
    MaxLaunches     \* bound on the number of launches

ASSUME PatchesAssumption ==
    /\ IsFiniteSet(Patches) /\ Patches \subseteq Nat /\ Later \subseteq Patches
    /\ Later # Patches
    /\ \A p \in Patches, c \in Cfgs : Truth[p][c] \in Seq({0, 1})
    /\ \A p \in Patches, c, d \in Cfgs : Len(Truth[p][c]) = Len(Truth[p][d])
    /\ \A p \in Patches : Rel[p] \in Seq(STRING)
    /\ \A p, q \in Patches : Rel[p] = Rel[q] => p = q
ASSUME FileAssumption == Absent \notin Seq({0, 1}) /\ Absent # Torn
ASSUME LaunchAssumption == Resumes \subseteq BOOLEAN /\ MaxLaunches \in Nat

VARIABLES
    present,    \* the patches under the root
    label,      \* label[k]: ground_label.npy in the directory of key k
    stats,      \* stats[k]: ground_stats.json
    manifest,   \* the rows of ground_cache_manifest.jsonl, or Absent
    pc,         \* where the running program is
    job,        \* its options
    left,       \* the patches it has still to process
    at,         \* the next point to label
    rows,       \* the rows it has made
    launches,   \* launches so far
    asked       \* the options that batches were given so far

files == <<label, stats, manifest>>
vars == <<present, label, stats, manifest, pc, job, left, at, rows, launches, asked>>

Ended == {"idle", "done", "aborted", "crashed"}
Working == {"patch", "label", "stats", "fill", "manifest"}

Points(p) == Len(Truth[p][CHOOSE c \in Cfgs : TRUE])
Ground(labels) == Cardinality({i \in DOMAIN labels : labels[i] = 1})

-----------------------------------------------------------------------------
(* discover_patches: every patch gets the first key that is free, going    *)
(* through them in path order.  A batch takes the patches in the order of  *)
(* their keys; the model goes on in path order, as no patch reads what     *)
(* another one writes.                                                     *)

FreeKeyByName(p, used) == Name[p] \* mutant: keys in use are not looked at

FreeKey(p, used) ==
    IF Name[p] \notin used THEN Name[p]
    ELSE IF Rel[p] \notin used THEN Rel[p]
    ELSE LET free == {i \in 2..(Cardinality(used) + 2) : Append(Rel[p], i) \notin used}
         IN  Append(Rel[p], CHOOSE i \in free : \A j \in free : i <= j)

KeyIn(p, patches) ==
    LET key[q \in patches] == FreeKey(q, {key[r] : r \in {s \in patches : s < q}})
    IN  key[p]

Key(p) == KeyIn(p, present)
Keys == UNION {{KeyIn(p, s) : p \in s} : s \in SUBSET Patches}

Init ==
    /\ present = Patches \ Later
    /\ label = [k \in Keys |-> Absent] /\ stats = [k \in Keys |-> Absent]
    /\ manifest = Absent /\ rows = {} /\ left = {} /\ at = 1
    /\ pc = "idle" /\ launches = 0 /\ asked = {}
    /\ \E c \in Cfgs : job = [resume |-> TRUE, cfg |-> c, verify |-> FALSE]

AddPatch ==
    /\ pc \in Ended
    /\ \E p \in Later \ present : present' = present \cup {p}
    /\ UNCHANGED <<files, pc, job, left, at, rows, launches, asked>>

StartBatch ==
    /\ pc \in Ended /\ launches < MaxLaunches
    /\ pc' = "patch" /\ left' = present /\ rows' = {} /\ launches' = launches + 1
    /\ \E r \in Resumes, c \in Cfgs :
          job' = [resume |-> r, cfg |-> c, verify |-> FALSE]
    /\ asked' = asked \cup {job'}
    /\ UNCHANGED <<present, files, at>>

-----------------------------------------------------------------------------
(* _process_patch.                                                         *)

Gate(points, ground) ==
    /\ 0 < ground /\ ground < points
    /\ 100 * ground >= points /\ 100 * ground <= 99 * points

StatsRow(p, s) ==
    [key |-> Key(p), patch |-> p, points |-> s.points, ground |-> s.ground, pass |-> s.pass]
FailRow(p) == [key |-> Key(p), patch |-> p, points |-> 0, ground |-> 0, pass |-> FALSE]

Current == CHOOSE p \in left : \A q \in left : p <= q

EndPatch(row) ==
    /\ rows' = rows \cup {row} /\ left' = left \ {Current} /\ pc' = "patch"
    /\ UNCHANGED <<present, manifest, job, launches, asked>>

CachedAnyway(k) == \* mutant: whether the batch resumes is not looked at
    label[k] # Absent /\ stats[k] # Absent
CachedNever(k) == FALSE \* mutant: nothing is resumed
Cached(k) == job.resume /\ label[k] # Absent /\ stats[k] # Absent

(* _manifest_row_from_cached.  The statistics are parsed outside any try:  *)
(* a torn file ends the whole batch.                                       *)
TakeCached ==
    /\ pc = "patch" /\ left # {} /\ Cached(Key(Current))
    /\ UNCHANGED <<label, stats, at>>
    /\ LET s == stats[Key(Current)] IN
       IF s = Torn
       THEN /\ pc' = "aborted" /\ left' = {} /\ rows' = {}
            /\ UNCHANGED <<present, manifest, job, launches, asked>>
       ELSE EndPatch(StatsRow(Current, s))

(* The label file is made anew at full size and filled with zeros.         *)
OpenLabel ==
    /\ pc = "patch" /\ left # {} /\ ~Cached(Key(Current))
    /\ label' = [label EXCEPT ![Key(Current)] = [i \in 1..Points(Current) |-> 0]]
    /\ at' = 1 /\ pc' = "label"
    /\ UNCHANGED <<present, stats, manifest, job, left, rows, launches, asked>>

LabelPoint ==
    /\ pc = "label" /\ at <= Points(Current)
    /\ label' = [label EXCEPT ![Key(Current)][at] = Truth[Current][job.cfg][at]]
    /\ at' = at + 1
    /\ UNCHANGED <<present, stats, manifest, pc, job, left, rows, launches, asked>>

(* The points cannot be read, or no longer: caught, and the label stays    *)
(* as it is.                                                               *)
LabelRaises ==
    /\ \/ pc = "patch" /\ left # {} /\ ~Cached(Key(Current))
       \/ pc = "label" /\ at <= Points(Current)
    /\ EndPatch(FailRow(Current)) /\ at' = 1
    /\ UNCHANGED <<label, stats>>

(* The index and the classified copy; what they raise is not caught.       *)
WriteIndex ==
    /\ pc = "label" /\ at > Points(Current) /\ at' = 1
    /\ \/ pc' = "stats" /\ UNCHANGED <<left, rows>>
       \/ pc' = "aborted" /\ left' = {} /\ rows' = {}
    /\ UNCHANGED <<present, files, job, launches, asked>>

OpenStats ==
    /\ pc = "stats" /\ pc' = "fill"
    /\ stats' = [stats EXCEPT ![Key(Current)] = Torn]
    /\ UNCHANGED <<present, label, manifest, job, left, at, rows, launches, asked>>

FillStats ==
    /\ pc = "fill"
    /\ LET n == Points(Current)
           g == Ground(Truth[Current][job.cfg])
           s == [of |-> Current, cfg |-> job.cfg, points |-> n, ground |-> g, pass |-> Gate(n, g)]
       IN  /\ stats' = [stats EXCEPT ![Key(Current)] = s]
           /\ EndPatch(StatsRow(Current, s))
    /\ UNCHANGED <<label, at>>

-----------------------------------------------------------------------------
(* The manifest is written in place, row by row.                           *)

OpenManifest ==
    /\ pc = "patch" /\ left = {}
    /\ pc' = "manifest" /\ manifest' = {}
    /\ UNCHANGED <<present, label, stats, job, left, at, rows, launches, asked>>

WriteManifest ==
    /\ pc = "manifest"
    /\ \/ /\ manifest # rows /\ UNCHANGED pc
          /\ manifest' = manifest \cup {CHOOSE r \in rows \ manifest : TRUE}
          /\ UNCHANGED rows
       \/ manifest = rows /\ pc' = "done" /\ rows' = {} /\ UNCHANGED manifest
    /\ UNCHANGED <<present, label, stats, job, left, at, launches, asked>>

Crash ==
    /\ pc \in Working /\ pc' = "crashed"
    /\ left' = {} /\ rows' = {} /\ at' = 1
    /\ UNCHANGED <<present, files, job, launches, asked>>

Batch ==
    \/ AddPatch \/ StartBatch
    \/ TakeCached \/ OpenLabel \/ LabelPoint \/ LabelRaises
    \/ WriteIndex \/ OpenStats \/ FillStats
    \/ OpenManifest \/ WriteManifest \/ Crash

Spec == Init /\ [][Batch]_vars

-----------------------------------------------------------------------------
(* Properties.                                                             *)

(* The files hold what the programs write, and labelling stays within the  *)
(* points of the cloud.                                                    *)
TypeOK ==
    /\ present \subseteq Patches /\ left \subseteq present
    /\ \A k \in Keys : label[k] # Absent => label[k] \in Seq({0, 1})
    /\ \A k \in Keys : stats[k] \notin {Absent, Torn} => stats[k].pass \in BOOLEAN
    /\ pc \in Working => \A r \in rows : r.key \in Keys /\ r.patch \in present
    /\ pc = "label" => at \in 1..(Points(Current) + 1)

Forced == \E j \in asked : ~j.resume

Told(k) == stats[k] \notin {Absent, Torn}

LabelsAreTrue ==
    \A k \in Keys : Told(k) =>
        /\ label[k] = Truth[stats[k].of][stats[k].cfg]
        /\ stats[k].points = Len(label[k]) /\ stats[k].ground = Ground(label[k])

(* While every batch resumes, statistics that parse lie beside the whole   *)
(* label of the cloud and the configuration they were made from, whatever  *)
(* crashed, was added or was given other parameters since.                 *)
CacheIsWhole == ~Forced => LabelsAreTrue

(* While every batch resumes, what is in the cache is final.               *)
CachedIsFinal ==
    [][~Forced' => \A k \in Keys : Told(k) =>
          label'[k] = label[k] /\ stats'[k] = stats[k]]_vars

(* A batch that ends by itself has one row for every patch it found, and   *)
(* no two patches share a directory.                                       *)
NothingLost ==
    pc = "manifest" =>
        /\ {r.patch : r \in rows} = present
        /\ \A q, r \in rows : q.key = r.key => q = r

(* After a batch that did not resume, every row that passes stands for the *)
(* whole label under its own configuration, whatever lay there before.     *)
ForcedBatchIsFresh ==
    (pc = "manifest" /\ ~job.resume) =>
        \A r \in rows : r.pass => label[r.key] = Truth[r.patch][job.cfg]
=============================================================================
