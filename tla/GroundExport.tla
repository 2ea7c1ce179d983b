---------------------------- MODULE GroundExport ----------------------------
(***************************************************************************)
(* export_classified_cloud.py on the cache of GroundCache: for every row   *)
(* of the manifest a copy of the cloud with the labels as classes.  A copy *)
(* that exists is kept when the export resumes, and is checked against the *)
(* counts of the manifest if --verify.                                     *)
(*                                                                         *)
(* One program runs at a time, as the manifest of the one is the input of  *)
(* the other.  A copy is a sequence of classes like the labels; its writer *)
(* leaves a header that counts no points until it is closed ("Torn").      *)
(* classified_manifest.jsonl is written last and never read.               *)
(***************************************************************************)
EXTENDS GroundCache

CONSTANT Verifies  \* the values of --verify in use

VARIABLES
    copy,       \* copy[k][f]: merged_classified.laz and .las for key k
    items,      \* the manifest rows still to export
    buf,        \* the points written for the one at hand
    fmt         \* the format they are written in

exportVars == <<copy, items, buf, fmt>>
allVars == <<vars, exportVars>>

Formats == {"laz", "las"}
Exporting == {"item", "write"}

ExportInit ==
    /\ Init
    /\ copy = [k \in Keys |-> [f \in Formats |-> Absent]]
    /\ items = {} /\ buf = <<>> /\ fmt = "laz"

StartExport ==
    /\ pc \in Ended /\ launches < MaxLaunches
    /\ launches' = launches + 1
    /\ \E r \in Resumes, v \in Verifies :
          job' = [resume |-> r, cfg |-> job.cfg, verify |-> v]
    /\ IF manifest \in {Absent, {}}
       THEN pc' = "aborted" /\ items' = {}
       ELSE pc' = "item" /\ items' = manifest
    /\ rows' = {} /\ buf' = <<>> /\ fmt' = "laz"
    /\ UNCHANGED <<present, files, left, at, asked, copy>>

-----------------------------------------------------------------------------
(* _process_item.                                                          *)

Item == CHOOSE i \in items : TRUE

EndItem(pass) ==
    /\ rows' = rows \cup {[item |-> Item, pass |-> pass, verified |-> job.verify]}
    /\ items' = items \ {Item} /\ pc' = "item"
    /\ UNCHANGED <<present, files, job, left, at, launches, asked>>

(* _resolve_existing_output: the preferred format is laz.                  *)
Existing(k) == IF copy[k]["laz"] # Absent THEN copy[k]["laz"] ELSE copy[k]["las"]
Reused(k) == job.resume /\ Existing(k) # Absent

(* _verify_existing_export: without --verify anything that exists passes.  *)
ReuseCopy ==
    /\ pc = "item" /\ items # {} /\ Reused(Item.key)
    /\ LET kept == IF Existing(Item.key) = Torn THEN <<>> ELSE Existing(Item.key)
       IN  EndItem(job.verify => Len(kept) = Item.points /\ Ground(kept) = Item.ground)
    /\ UNCHANGED <<copy, buf, fmt>>

LabelFits ==
    LET l == label[Item.key]
    IN  l # Absent /\ Len(l) = Item.points /\ Len(l) = Points(Item.patch)

RefuseItem ==
    /\ pc = "item" /\ items # {} /\ ~Reused(Item.key) /\ ~LabelFits
    /\ EndItem(FALSE)
    /\ UNCHANGED <<copy, buf, fmt>>

OpenCopy ==
    /\ pc = "item" /\ items # {} /\ ~Reused(Item.key) /\ LabelFits
    /\ copy' = [copy EXCEPT ![Item.key]["laz"] = Torn]
    /\ buf' = <<>> /\ fmt' = "laz" /\ pc' = "write"
    /\ UNCHANGED <<present, files, job, left, at, rows, launches, asked, items>>

WritePoint ==
    /\ pc = "write" /\ Len(buf) < Len(label[Item.key])
    /\ buf' = Append(buf, label[Item.key][Len(buf) + 1])
    /\ UNCHANGED <<vars, copy, items, fmt>>

(* A writer that raises is closed on the way out and leaves what it has;   *)
(* a failure of the laz backend takes the laz away and starts with las.    *)
WriterRaises ==
    /\ pc = "write"
    /\ \/ /\ copy' = [copy EXCEPT ![Item.key][fmt] = buf]
          /\ EndItem(FALSE) /\ buf' = <<>> /\ fmt' = "laz"
       \/ /\ fmt = "laz" /\ fmt' = "las" /\ buf' = <<>>
          /\ copy' = [copy EXCEPT ![Item.key] = [laz |-> Absent, las |-> Torn]]
          /\ UNCHANGED <<vars, items>>

CloseCopyByLength == \* mutant: only the number of points is verified
    /\ pc = "write" /\ Len(buf) = Len(label[Item.key])
    /\ copy' = [copy EXCEPT ![Item.key][fmt] = buf]
    /\ EndItem(Len(buf) = Item.points)
    /\ buf' = <<>> /\ fmt' = "laz"

(* _verify_written_export: the ground points written are compared with the *)
(* manifest, with and without --verify.                                    *)
CloseCopy ==
    /\ pc = "write" /\ Len(buf) = Len(label[Item.key])
    /\ copy' = [copy EXCEPT ![Item.key][fmt] = buf]
    /\ EndItem(Len(buf) = Item.points /\ Ground(buf) = Item.ground)
    /\ buf' = <<>> /\ fmt' = "laz"

PublishExport ==
    /\ pc = "item" /\ items = {}
    /\ pc' = "done" /\ rows' = {}
    /\ UNCHANGED <<present, files, job, left, at, launches, asked, copy, items, buf, fmt>>

ExportCrash ==
    /\ pc \in Exporting /\ pc' = "crashed"
    /\ rows' = {} /\ items' = {} /\ buf' = <<>> /\ fmt' = "laz"
    /\ UNCHANGED <<present, files, job, left, at, launches, asked, copy>>

Export ==
    \/ StartExport \/ ReuseCopy \/ RefuseItem \/ OpenCopy
    \/ WritePoint \/ WriterRaises \/ CloseCopy \/ PublishExport \/ ExportCrash

ExportNext == (Batch /\ UNCHANGED exportVars) \/ Export

ExportSpec == ExportInit /\ [][ExportNext]_allVars

-----------------------------------------------------------------------------
(* Properties.                                                             *)

(* While batches were given one configuration and no patch was added, an   *)
(* exported row that passes, was verified and stands for a patch that      *)
(* passed its gate comes with a copy that is the whole cloud with its true *)
(* labels, whatever batches and exports crashed, failed or were forced     *)
(* before.                                                                 *)
ExportIsTruth ==
    (pc = "item" /\ items = {} /\ present \cap Later = {}) =>
        \A r \in rows :
            (r.pass /\ r.verified /\ r.item.pass) =>
                \A c \in Cfgs : (\A j \in asked : j.cfg = c) =>
                    Existing(r.item.key) = Truth[r.item.patch][c]
=============================================================================
