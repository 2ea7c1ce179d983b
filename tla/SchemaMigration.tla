---------------------------- MODULE SchemaMigration ----------------------------
(***************************************************************************)
(* The three migrations of a data set (tools/): v2 renames the zones of    *)
(* dividers and makes sure of the node and intersection layers, v3 brings  *)
(* in the roads and the tiles, v4 renames nodes and roads.  Each finds the *)
(* patches, works through them file by file, and rewrites the manifest or  *)
(* leaves a rollback manifest.  A step may fail, which the code notes and  *)
(* goes on, and a run may die at any step; runs follow each other in any   *)
(* order, dry or with --apply.                                             *)
(*                                                                         *)
(* A patch directory is a patch id and "top" or "nested" (below patches/). *)
(* The contents of a file are an id of data, Empty for a collection or     *)
(* directory without members, HalfFile, or NoFile.                             *)
(***************************************************************************)
EXTENDS Integers, Sequences, SequencesExt

CONSTANTS
    DirOrder,       \* all patch directories, in the order of their paths
    Worlds,         \* what the data set looks like at first
    MaxRuns,        \* bound: runs of a script
    MaxFaults       \* bound: steps that fail and runs that die

Scripts == {"v2", "v3", "v4"}
Files == {"gore", "DivStripZone", "intersection_l", "Node", "RCSDNode", "Road", "RCSDRoad", "Tiles"}
Empty == <<"empty">>
HalfFile == <<"torn">>
NoFile == <<>>
TheManifest == <<"manifest">>

Dirs == ToSet(DirOrder)

ASSUME DirsAssumption ==
    /\ DirOrder \in Seq(Dirs) /\ TheManifest \notin Dirs
    /\ \A w \in Worlds :
          /\ DOMAIN w.disk = Dirs
          /\ \A d \in Dirs : DOMAIN w.disk[d] = {"there", "patch", "vector", "files"}
          /\ \A d \in Dirs : DOMAIN w.disk[d].files = Files
          /\ \A n \in w.manifest.names : DOMAIN n = {"rcsd", "base"}
          /\ DOMAIN w.manifest = {"state", "ids", "names"}

VARIABLES
    disk,       \* by directory: whether it is there, is a patch, has Vector, and its files
    patchManifest, \* its state, "whole", "torn" or "none", its ids and names
    saved,      \* what the backups hold: the run, the place and the contents
    rollback,   \* the operations of the last rollback manifest
    inside,     \* whether the data set lies in the repository
    migration,        \* the run that goes on
    report,     \* what the last run that ended says of it
    runs, faults

migrationVars == <<disk, patchManifest, saved, rollback, inside, migration, report, runs, faults>>

Idle == [script |-> "none"]

MigrationInit ==
    /\ \E w \in Worlds : disk = w.disk /\ patchManifest = w.manifest /\ inside = w.inside
    /\ saved = {}
    /\ rollback = {} /\ migration = Idle /\ report = Idle /\ runs = 0 /\ faults = 0
-----------------------------------------------------------------------------
(* Which patches a run works on, and whether it misses one.                *)

Is(d, f) == disk[d].files[f] # NoFile
There(d) == disk[d].there
Scanned == {d \in Dirs : There(d) /\ disk[d].vector /\ disk[d].patch}
Siblings(id) == {d \in Dirs : There(d) /\ d[1] = id}
Earliest(dirs) ==
    DirOrder[CHOOSE i \in DOMAIN DirOrder :
                 DirOrder[i] \in dirs /\ \A j \in DOMAIN DirOrder : DirOrder[j] \in dirs => i <= j]
Listed(ids) == {Earliest(Siblings(id)) : id \in {i \in ids : Siblings(i) # {}}}
Readable == patchManifest.state = "whole"
Ids == IF Readable THEN patchManifest.ids ELSE {}

(* discover_datasets; v3 does not scan when the manifest lists patches of  *)
(* which none is there (discover_records_for_root).                        *)
Found(script) ==
    IF (script = "v3" /\ Ids # {}) \/ Listed(Ids) # {} THEN Listed(Ids) ELSE Scanned

(* Whether the run has an error to report, by its exit code or its report, *)
(* about what it found; v4 only asks whether there is anything at all.     *)
Missed(script) ==
    \/ patchManifest.state = "torn" \/ \E id \in Ids : Siblings(id) = {}
    \/ Found(script) = {} /\ (script = "v4" => patchManifest.state = "none")
-----------------------------------------------------------------------------
(* What a script plans for a patch: process_patch_dir and process_patch.   *)

Op(op, file, to) == [op |-> op, file |-> file, to |-> to]
When(p, seq) == IF p THEN seq ELSE <<>>

Renames(d, old, new) == Is(d, old) /\ ~Is(d, new)
Deletes(d, old, new) == Is(d, old) /\ Is(d, new)
Creates(d, old, new) == ~Is(d, old) /\ ~Is(d, new)

MovesUnsaved(d, old, new) == \* mutant: what is deleted has no backup
    When(Renames(d, old, new), <<Op("backup", old, ""), Op("rename", old, new)>>)
        \o When(Deletes(d, old, new), <<Op("delete", old, "")>>)

Moves(d, old, new) ==
    When(Renames(d, old, new), <<Op("backup", old, ""), Op("rename", old, new)>>)
        \o When(Deletes(d, old, new), <<Op("backup", old, ""), Op("delete", old, "")>>)
Create(file) == <<Op("create", file, "")>>

PlanV2(d) ==
    LET plan == Moves(d, "gore", "DivStripZone")
                    \o When(Creates(d, "gore", "DivStripZone"), Create("DivStripZone"))
                    \o When(~Is(d, "RCSDNode"), Create("RCSDNode"))
                    \o When(~Is(d, "intersection_l"), Create("intersection_l"))
    IN  When(plan # <<>>, plan \o <<Op("sweep", "gore", "")>>)

(* find_tiles_source.                                                      *)
TilesBeside(d) ==
    LET with == {e \in Siblings(d[1]) \ {d} : Is(e, "Tiles")}
    IN  IF with = {} THEN Empty ELSE disk[Earliest(with)].files["Tiles"]

PlanV3(d, copy) ==
    When(Renames(d, "Road", "RCSDRoad"), <<Op("rename", "Road", "RCSDRoad")>>)
        \o When(Deletes(d, "Road", "RCSDRoad"), <<Op("delete", "Road", "")>>)
        \o When(Creates(d, "Road", "RCSDRoad"), Create("RCSDRoad"))
        \o When(~Is(d, "Tiles"), <<Op("tiles", "Tiles", IF copy THEN TilesBeside(d) ELSE Empty)>>)

PlanV4(d) ==
    Moves(d, "Node", "RCSDNode") \o Moves(d, "Road", "RCSDRoad")
        \o When(Creates(d, "Node", "RCSDNode"), Create("RCSDNode"))
        \o When(Creates(d, "Road", "RCSDRoad"), Create("RCSDRoad"))

Plan(script, d, copy) ==
    IF script = "v2" THEN PlanV2(d) ELSE IF script = "v3" THEN PlanV3(d, copy) ELSE PlanV4(d)

(* A name in the manifest is [rcsd, base]: v4 replaces text, and the new   *)
(* name ends in the old one.                                               *)
Rewritten(script, n) ==
    IF script = "v2" THEN IF n.base = "gore" THEN [n EXCEPT !.base = "DivStripZone"] ELSE n
    ELSE IF script = "v4" THEN IF n.base \in {"Node", "Road"} THEN [n EXCEPT !.rcsd = @ + 1] ELSE n
    ELSE n

NewNames(script) == {Rewritten(script, n) : n \in patchManifest.names}
-----------------------------------------------------------------------------
Start(script, apply, copy) ==
    /\ migration = Idle /\ runs < MaxRuns /\ runs' = runs + 1
    /\ migration' = [script |-> script, apply |-> apply, copy |-> copy, todo |-> Found(script),
               at |-> <<>>, ops |-> <<>>, errors |-> Missed(script),
               modify |-> {}, undo |-> <<>>, step |-> "patches"]
    /\ UNCHANGED <<disk, patchManifest, saved, rollback, inside, report, faults>>

(* The next patch; with --apply its plan is carried out.                   *)
NextPatch ==
    /\ migration # Idle /\ migration.step = "patches" /\ migration.ops = <<>> /\ migration.todo # {}
    /\ LET d == Earliest(migration.todo)
           plan == IF disk[d].vector THEN Plan(migration.script, d, migration.copy) ELSE <<>>
       IN  migration' = [migration EXCEPT !.todo = @ \ {d}, !.at = d,
                              !.ops = IF migration.apply THEN plan ELSE <<>>,
                              !.errors = @ \/ ~disk[d].vector,
                              !.modify = IF plan = <<>> THEN @ ELSE @ \cup {d}]
    /\ UNCHANGED <<disk, patchManifest, saved, rollback, inside, report, runs, faults>>

(* The backup of this run has one place for each file of the repository;   *)
(* of a file elsewhere it only has the name.                               *)
Place(f, d) == IF inside THEN <<runs, f, d>> ELSE <<runs, f>>
Contents(f, d) == IF d = TheManifest THEN <<"names">> ELSE disk[d].files[f]
BackUp(f, d) ==
    {s \in saved : s.place # Place(f, d)} \cup
        {[place |-> Place(f, d), file |-> f, data |-> Contents(f, d)]}
Put(d, f, x) == [disk EXCEPT ![d].files[f] = x]

(* What v3 notes for a rollback, once the step has succeeded.              *)
Undo(o) ==
    CASE o.op = "rename" -> <<[op |-> "rename_file", at |-> migration.at, file |-> o.to]>>
      [] o.op = "delete" -> <<[op |-> "restore_file_from_backup", at |-> migration.at, file |-> o.file]>>
      [] o.op = "create" -> <<[op |-> "remove_file", at |-> migration.at, file |-> o.file]>>
      [] o.op = "tiles" -> <<[op |-> "remove_dir", at |-> migration.at, file |-> o.file]>>

DoneByCopy(o) == \* mutant: a rename leaves the old file
    \/ o.op = "rename" /\ disk' = Put(migration.at, o.to, disk[migration.at].files[o.file])
    \/ o.op \in {"delete", "sweep"} /\ disk' = Put(migration.at, o.file, NoFile)
    \/ o.op = "create" /\ disk' = Put(migration.at, o.file, Empty)
    \/ o.op = "tiles" /\ disk' = Put(migration.at, o.file, o.to)
    \/ o.op \in {"backup", "write"} /\ UNCHANGED disk

Done(o) ==
    \/ /\ o.op = "rename"
       /\ disk' = [disk EXCEPT ![migration.at].files[o.to] = disk[migration.at].files[o.file],
                               ![migration.at].files[o.file] = NoFile]
    \/ o.op \in {"delete", "sweep"} /\ disk' = Put(migration.at, o.file, NoFile)
    \/ o.op = "create" /\ disk' = Put(migration.at, o.file, Empty)
    \/ o.op = "tiles" /\ disk' = Put(migration.at, o.file, o.to)
    \/ o.op \in {"backup", "write"} /\ UNCHANGED disk

Step ==
    /\ migration # Idle /\ migration.ops # <<>>
    /\ LET o == Head(migration.ops) IN
       /\ Done(o)
       /\ saved' = IF o.op = "backup" THEN BackUp(o.file, migration.at) ELSE saved
       /\ patchManifest' = IF o.op = "write" THEN [patchManifest EXCEPT !.names = NewNames(migration.script)] ELSE patchManifest
       /\ migration' = [migration EXCEPT !.ops = Tail(@), !.undo = IF migration.script = "v3" THEN @ \o Undo(o) ELSE @]
    /\ UNCHANGED <<rollback, inside, report, runs, faults>>

(* What a step leaves that fails or during which the run dies: half a file *)
(* or directory where the program writes, and no change elsewhere.         *)
Broken(o) ==
    \/ /\ o.op \in {"create", "tiles"} /\ UNCHANGED patchManifest
       /\ disk' \in {disk, Put(migration.at, o.file, HalfFile)}
    \/ /\ o.op = "write" /\ UNCHANGED disk
       /\ patchManifest' \in {patchManifest, [patchManifest EXCEPT !.state = "torn"]}
    \/ o.op \in {"backup", "rename", "delete", "sweep"} /\ UNCHANGED <<disk, patchManifest>>

StepFails ==
    /\ migration # Idle /\ migration.ops # <<>> /\ faults < MaxFaults /\ faults' = faults + 1
    /\ Head(migration.ops).op = "sweep" => Is(migration.at, "gore")
    /\ Broken(Head(migration.ops))
    /\ migration' = [migration EXCEPT !.ops = Tail(@), !.errors = TRUE]
    /\ UNCHANGED <<saved, rollback, inside, report, runs>>

(* Whether a script finds an old name in the manifest: v2 wants to parse   *)
(* it, v4 takes it as text, and in what is left of a torn one it may be.   *)
Mentions(script) ==
    IF patchManifest.state = "whole" THEN {NewNames(script) # patchManifest.names}
    ELSE IF patchManifest.state = "torn" /\ script = "v4" THEN BOOLEAN
    ELSE {FALSE}

(* process_manifest_file, process_manifest: after the patches.             *)
Manifest ==
    /\ migration # Idle /\ migration.step = "patches" /\ migration.ops = <<>> /\ migration.todo = {}
    /\ \E changed \in Mentions(migration.script) :
        migration' = [migration EXCEPT !.step = "end", !.at = TheManifest,
                           !.modify = IF changed THEN @ \cup {TheManifest} ELSE @,
                           !.ops = When(changed /\ migration.apply,
                                        <<Op("backup", "manifest", ""), Op("write", "manifest", "")>>)]
    /\ UNCHANGED <<disk, patchManifest, saved, rollback, inside, report, runs, faults>>

(* write_rollback_manifest and write_reports.                              *)
Finish ==
    /\ migration # Idle /\ migration.step = "end" /\ migration.ops = <<>>
    /\ rollback' = IF migration.script = "v3" /\ migration.apply THEN ToSet(migration.undo) ELSE rollback
    /\ report' = [script |-> migration.script, apply |-> migration.apply, errors |-> migration.errors,
                  modify |-> migration.modify]
    /\ migration' = Idle
    /\ UNCHANGED <<disk, patchManifest, saved, inside, runs, faults>>

(* A run that dies leaves no report and no rollback manifest.              *)
Die ==
    /\ migration # Idle /\ migration.apply /\ faults < MaxFaults /\ faults' = faults + 1
    /\ IF migration.ops = <<>> THEN UNCHANGED <<disk, patchManifest>> ELSE Broken(Head(migration.ops))
    /\ migration' = Idle /\ report' = Idle
    /\ UNCHANGED <<saved, rollback, inside, runs>>

MigrationNext ==
    \/ \E script \in Scripts, apply, copy \in BOOLEAN : (copy => script = "v3") /\ Start(script, apply, copy)
    \/ NextPatch \/ Step \/ StepFails \/ Manifest \/ Finish \/ Die

MigrationSpec == MigrationInit /\ [][MigrationNext]_migrationVars
-----------------------------------------------------------------------------
(* What the data set still has, on the disk or in a backup.                *)
Kept == (UNION {Range(disk[d].files) : d \in Dirs}) \cup {s.data : s \in saved}

(***************************************************************************)
(* No contents go away for good, neither in a step, nor in one that fails, *)
(* nor when the run dies, unless that run has an error to report: v2 and   *)
(* v4 delete what they have backed up, and renaming moves.  (v3 deletes    *)
(* the old road without a backup, and two patches outside of the           *)
(* repository share one place in it.)                                      *)
(***************************************************************************)
LossIsReported ==
    [][inside /\ migration # Idle /\ migration.script # "v3" /\ ~migration.errors => Kept \ {HalfFile, Empty, NoFile} \subseteq Kept']_migrationVars

(***************************************************************************)
(* A run of v2 or v3 that follows, dry or not, a successful run with       *)
(* --apply of the same script finds nothing to modify and no error,        *)
(* whatever failed before: "The script is idempotent".                     *)
(***************************************************************************)
SecondRunIsQuiet ==
    [][/\ migration # Idle /\ migration.script \in {"v2", "v3"}
       /\ report # Idle /\ report.script = migration.script /\ report.apply /\ ~report.errors
       => migration'.script = "none" \/ (migration'.modify = {} /\ ~migration'.errors)]_migrationVars

(***************************************************************************)
(* What the rollback manifest says can be restored from the backup is in   *)
(* a backup.                                                               *)
(***************************************************************************)
RollbackIsPossible ==
    \A u \in rollback : u.op = "restore_file_from_backup" => \E s \in saved : s.file = u.file

MigrationTypeOK ==
    /\ \A d \in Dirs : DOMAIN disk[d].files = Files
    /\ runs \in 0 .. MaxRuns /\ faults \in 0 .. MaxFaults /\ inside \in BOOLEAN
=============================================================================
