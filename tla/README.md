# Verification of Highway_Topo_Poc

TLA+ models of the stateful and decision-making parts of this repository, TLC runs over small instances, and
TLAPS proofs for all instances. Paths are relative to the repository root (`src/` here); `V2` stands for
`src/src/highway_topo_poc/modules/t05_topology_between_rc_v2`, `V1` for `.../modules/t05_topology_between_rc`,
`T04` for `.../modules/t04_rc_sw_anchor`, `T02` for `.../modules/t02_ground_seg_qc`, `T06` for
`.../modules/t06_patch_preprocess`. `PROJECT.json` gives, for every definition, the lines it models.

- [1 The system](#1-the-system)
- [2 Modules](#2-modules)
- [3 Runs](#3-runs)
- [4 Proofs](#4-proofs)
- [5 Disagreements between code and documents](#5-disagreements-between-code-and-documents)
- [6 What is not modelled](#6-what-is-not-modelled)
- [7 Plan](#7-plan)

## 1 The system

The repository turns patches (point clouds, trajectories, vector layers of one stretch of highway) into
road geometry between cross sections ("RC"). It is a collection of batch programs that exchange files; there
is no server, no lock and no database. Every program is started by a person or by a shell script, reads a
patch directory, and leaves files that the next one reads. What is hard is therefore not message passing but
the states a directory can be left in, and long chains of decisions spread over several files.

The lifecycle documents call t04, t05 v2 and t06 active, t05 legacy, t02, t03, t07 and t10 retired; t00 and t01
are support.

### Components

| component | state it keeps | operations | hard behaviour | what makes it correct |
|---|---|---|---|---|
| t05v2 stage runner (`V2/runner.py`, `run.py`, `io.py`, the stage shell scripts) | per patch: an artifact and a `step_state.json` for each of six stages, `Road.geojson`, `gate.json` | full run, one stage, resume script; each with or without `--force` | processes killed anywhere, failing stages, torn files, two processes in one directory, changed parameters | "ok" means a whole artifact made from what lies there; success means completeness; completed stages are final; a forced full run repairs anything; no stage computes from half a file |
| t05v2 step 2 topology (`V2/pipeline.py`) | compressed road graph, direct arcs, traces, owners of terminals | compression, three bounded searches, gates on candidate pairs | searches that run out of budget, parallel roads, order of expansion | arcs are the corridors of the roads; a search within budget is exact; reasons are true; one owner per terminal |
| t05v2 step 2 segments (`V2/pipeline.py`) | candidates, clusters, the selected segments and the reasons of the others | collect, filter, assign to an arc, cluster, select | priors and trajectories under aliases, exceptions for lines that cross another cross section, clusters that merge | a segment runs along one arc of its pair; evidence gets a segment; an arc belongs to its own prior roads |
| t05v2 legal arcs, steps 2 to 6 (`V2/step2_arc_registry.py`, `arc_selection_rules.py`, `step3_*.py`, `step5_conservative_road.py`) | one registry row per direct arc, corridors, slots, roads, metrics, gate | register, attach evidence, resolve corridor, map slots, build, report | one decision repeated in several layers, rules that look at sibling arcs, deconfliction of supports | entry has a reason; layers agree with one another; nothing disappears without a reason; the gate is honest |
| t05v2 lines of arcs (`V2/step3_arc_evidence.py`, `xsec_endpoint_interval.py`) | supports of each arc, intervals of its two cross sections, its working segment | find and stitch supports, deconflict siblings, allot intervals, draw | several trajectories, arcs that share a cross section, drivable surfaces with holes | stretches are legal and apart; siblings follow supports of their own; supports are shared out as well as can be |
| t05v2 geometry (`V2/step3_corridor_identity.py`, `step5_conservative_road.py`, `step5_global_geometry_fit.py`) | witness, slots, anchors, candidate lines, the road | cut, map slots, queue lines, take the first that fits, refine | thresholds met exactly, fallbacks behind fallbacks | a road keeps its ends and to the drivable zone; refinement never makes it worse |
| t05v2 audit and reviews (`V2/audit_acceptance.py`, `witness_review.py`) | none: reports on finished runs | legality, coverage, acceptance, reviews of competing arcs | tests of legality written a third time, on files instead of objects | the audit condemns exactly what the gate refuses; what is said of a pair is true of its arcs |
| t04 anchors (`T04/runner.py`, `continuous_chain.py`, `k16_ops.py`, `multibranch_ops.py`, `metrics_breakpoints.py`) | seed nodes, chains of close crossings, a verdict and a line per node, merges | seed, chain, evaluate each node, order pass, merge pass, gates | nodes asked to exceed predecessors that are placed later, cycles, merging of two lines into one, a dozen ways to fail | order along a chain; a verdict the run may rely on; failures are loud; at most one merge per node |
| t06 preprocessing (`T06/pipeline.py`, `geom.py`, `io.py`) | nodes and roads of a patch, the repaired files of a run | choose files, clip, make nodes, write | roads in several parts, clips that cut a road in two, runs repeated in one directory, deaths between files | no road is lost, a repaired one ends at nodes it names, published files belong together |
| legacy t05 (`V1/pipeline.py`, `geometry.py`) | sections and pairs of steps 0 and 1; neighbor supports of two passes; per pair a corridor, candidates, roads, breakpoints | gate sections, search pairs and crossings, choose the pass and the pairs, build and check candidates, select, report | a search whose order is not its measure, two passes that replace one another, checks before the line is replaced | a support is real traffic; a pair follows the roads; a second pass costs nothing; no pair is lost in silence; a clean road has been checked |
| t02 ground cache and export (`T02/batch_ground_cache.py`, `export_classified_cloud.py`) | label, statistics and copy per patch, two manifests | batch, export; resumed or forced, verified or not | crashes, failing reads, patches added between batches, name collisions | cached statistics stand for a whole and true label; nothing lost; a verified copy is true |
| t02 cleaning of layers (`T02/batch_multilayer_clean_and_classify.py`) | a cleaned and a tagged copy of each cloud, statistics, a manifest | batch, resumed or not | torn copies taken for done, thresholds that depend on sampling | a row that passes stands for whole copies; a level road is neither removed nor left |
| schema migrations (`src/tools/migrate_patch_schema_v2/v3/v4`) | the directories of a data set, backups, rollback manifest | find patches, plan, apply, report | steps that fail and are noted, deaths, repeats | what is lost is reported; a repeat after a success finds nothing to do |
| command line, text bundle, size guard, t00, t01, t10, scripts | reports and files of one pass | one pass each | - | section 6 |

### How they interact

- The shell scripts (`scripts/t05v2_resume.sh`, `t05v2_step_common.sh`) look at `step_state.json` and start
  `run.py`; `run.py` calls `run_stage` or `run_full_pipeline`; `run_stage` looks at the state file again, calls
  the function of the stage and writes the state file. The two readers judge an unreadable state file
  differently (section 5).
- Inside a patch, the artifact of a stage is the only channel to later stages. `StagePipeline` models which
  stage reads which; `TopologySearch`, `SegmentSelection`, `ArcFlow`, `ArcLines` and `RoadGeometry` what steps 2
  to 6 decide from what they read. What `ArcFlow` takes as given (supports, slot fates, candidate lines) is
  found in `ArcLines` and `RoadGeometry`; what it leaves is read again by `ArcAudit`.
- In t04 the evaluation of a node and the run over the nodes meet in one record per node: a verdict, and the
  position along the chain. `AnchorNode` is that contract; `AnchorEvaluation` is proved to keep it and
  `AnchorRun` uses nothing else.
- In legacy t05 the sections and pairs of `TopologyPairs` limit what a neighbor pass looks for; a pass hands the
  pairs with their supports to the run over pairs. `CrossingSearch` is one pass, `NeighborPasses` what is made of
  two, `RoadRun` the run.
- The manifest of a ground-cache batch is the input of the export; both have a resume of their own.
- t06 and the migrations write the vector layers that everything else reads; they share no state with it.

## 2 Modules

| module | what it is |
|---|---|
| `StagePipeline` | the stage runner: files, state files, processes, crashes |
| `StageLedger` | abstract specification: a write-once ledger of stage results |
| `RoadGraph` | pure operators of step 2: compression, arcs, terminals |
| `TopologySearch` | the bounded searches of step 2, one stack entry per step, and the gates |
| `SegmentSelection` | the rest of step 2 on top of `TopologySearch`: candidates, clusters, segments |
| `ArcSelection` | pure rules: arc structure, deconfliction, gap control, corridor |
| `ArcFlow` | steps 2 to 6 as decisions on the rows of the arc registry |
| `ArcFunnel` | abstract specification: what the funnel counts promise |
| `ArcAudit` | on `ArcFlow`: the audit of legality, acceptance, the reviews of competing arcs |
| `EndpointIntervals`, `ArcLines`, `ArcLineScenes` | operators of endpoint intervals; step 3 from trajectories to working segments; its scenes |
| `LineGrid`, `RoadGeometry`, `RoadScenes` | lines on a grid of stations; steps 4 to 6 from a working segment to a road; its scenes |
| `GroundCache`, `GroundExport` | the label batches; the exports on that cache |
| `SchemaMigration` | the three migrations |
| `AnchorChains` | pure operators of t04: seed nodes, corridors, chain edges, offsets |
| `AnchorNode` | what evaluating a node promises to the run |
| `AnchorEvaluation` | the evaluation of one node |
| `AnchorRun` | a run of t04 over a patch, on the contract of `AnchorNode` |
| `PatchPreprocess` | the runs of t06 |
| `MultilayerBatch` | the batches that clean clouds of layers |
| `SectionGate`, `TopologyPairs` | steps 0 and 1 of legacy t05: what a cross section may be used for; pairs along the prior roads |
| `CrossingSearch` | one neighbor pass: crossing events, stitches, the forward graph and the searches on it |
| `NeighborPasses` | what the run makes of one or two passes, and which pairs it goes on with |
| `RoadCandidate`, `RoadRun` | the corridor of a pair, one candidate, its checks and what replaces its line; a run over the pairs |
| `...Proofs` (8 modules) | theorems |
| `MC...` | instances for TLC; `MCArcs`, `MCDataTools`, `MCPatchTools` and `MCLegacy` run several models beside one another, each at rest while another goes on |

### StagePipeline

*State.* `file[f]` is the artifact of stage `f` (and the two published files of stage 6), `state[s]` its
`step_state.json`; a file is `Absent`, `Torn` or a value. Per process: `pc`, `job` (entry point, `--force`,
configuration), `stage`, `last`, `seen` (the artifacts it has loaded) and `target` (the file it writes next).

*Actions.* `Launch` is a command line. `Probe` is `run_if_needed` of the shell scripts; `Check`, `Require` are
the tests of `run_stage` before its `try`; `Load` and `Computed` are `_load_stage_payload` and the body of the
stage, reduced to the function `Build` of configuration and inputs; `OpenFile`/`FillFile` and
`OpenState`/`CommitOk`/`CommitFailed` are `Path.write_text`, which truncates and then fills; `StageRaises` is any
exception in a stage; `Crash` the death of the process. With two processes, `FillFile` may leave the tail of a
longer text. `forced` is a history variable for the properties: whether `--force` was ever given.

*Abstraction.* What a stage computes is `Build(s, c, in)`. In the TLC instances a value records the
configurations it was made from, so that two artifacts are equal only if they were made alike. The artifacts the
six stages of the code read are in `MCStagePipeline`.

### RoadGraph and TopologySearch

`RoadGraph` translates `_compress_topology_graph` and the helpers of `_build_directed_topology`. A node counts as
passing on when it has one *neighbour* behind and ahead, while the chain through it needs one *road* ahead; the
difference shows with parallel roads and is kept. `TopologySearch` pushes and pops one entry per step
(`Begin`, `Visit`, `Conclude`), forward for traces and backward for owners, with the budget tested before every
edge as in the code. Roads arrive with aliases and direction applied; lines are left out. The history variable
`cut` says that a forward search ran out of budget, which the code writes nowhere.

### SegmentSelection

One action per phase of the code, on the finished topology: `_segment_candidates` (from trajectories, from prior
roads), the filters, the assignment to an arc, `_cluster_segments`, `_select_segments_same_pair`. A line is a
record of what the rules compare. What a reader should know of the code and finds in the model:

- a pair of the bridge gate that is a direct arc is refused as `pair_not_direct_legal_arc`;
- candidates from prior roads ignore `direction`: a reversed road becomes a candidate of the reverse pair;
- a prior road of an aliased source that is not anchored competes under its raw id;
- a segment counts the crossings of the best member of its cluster and draws the line of another, the
  representative (`V2/pipeline.py:2832`);
- `STEP2_CROSS1_REQUIRE_NO_CROSS0_BETTER` is modelled at its default 1.

### ArcSelection and ArcFlow

A row of `full_legal_arc_registry` is spread over one function per field. One action per step: `RegisterArcs`
(`build_full_legal_arc_registry`), `AttachEvidence` (`build_arc_evidence_attach`), `ResolveCorridors`, `MapSlots`,
`BuildRoads` (`build_final_road`, `_apply_geometry_refine`), `WriteOutputs` (`_finalize_full_legal_arc_registry`,
`classify_segment_outcome`, the gate). The actions are as large as the code's: a step decides for all rows at
once, and nothing is written in between. What trajectories, surfaces and priors yield is chosen from small sets
when the step that reads it runs. A support is a kind, a coverage, the ends it anchors and where, a trajectory
and a corridor cluster, which is all the rules compare; two supports are the same to the merge rule if they differ
in coverage only (`_support_signature`). A road keeps the mode of the candidate it was made from. Every row is a
direct legal arc, so tests of legality never fire and are left out; and so is `final_gate_hard_blocked`, since no
step writes the `hard_block_reason` of a segment, which is not that of its row.

### ArcAudit

`audit_acceptance.py` reads the registry and the roads of finished runs and repeats the tests of legality;
`witness_review.py` sorts gap-controlled arcs. Neither keeps state, so the module is operators on the state of
`ArcFlow`, at every point where a report may be asked for. An arc is taken to be 100 m long and a support to be
one trajectory. In the code as it is, and in the model:

- reviews read `step3/witness.json` (`witness_review.py:345,776`, `audit_acceptance.py:1302`) but step 3 writes
  `witnesses.json` (`V2/pipeline.py:226`); only a fixture of the tests writes the other name
  (`tests/test_t05v2_pipeline.py:6635`);
- a gap-controlled pair that needed no decision of gap control and is built is registered as one that must remain
  blocked; the property asks only about pairs with a gap decision;
- the merge review runs over all rows while step 3 runs over targets, so a merge with an arc outside gap control
  may be "confirmed" though it was never let in for it; `ReviewsAreTrue` asks that the peers are gap-controlled;
- of three rivals for a node several may lose to the same one;
- several functions of `audit_acceptance.py` are defined twice, and the later one counts; branches after
  `score_gap >= 2.0` are never reached; `audit_summary_inconsistent` never holds;
- the gap review keeps the last row of a pair; a selected sibling of a pair always "violates"
  `all_selected_segments_direct_unique`; the process-wide `_PATCH_JSON_CACHE` is never refreshed, so a second
  report in one process may speak of files that are gone.

### EndpointIntervals and ArcLines

`ArcLines` follows step 3 for all arcs together: `Attach` (`_support_type_for_arc`: candidates, clusters, trust,
stitching, the chosen support), `Deconflict` (`_same_pair_support_deconflict`), `Enter`, `Seed` (provisional
lines), `Allot` (crossings, their owners, raw intervals and their allotment, which is `EndpointIntervals`),
`FailToAllot` and `Make` (`build_production_working_segment`). A line gives each cell its lateral position in
units of 5 cm, and the Hausdorff distance of the code is taken in the maximum norm. In the code as it is, and in
the model:

- the last resort of `_ownership_for_crossing` compares pairs of a distance and a row (`xsec_endpoint_interval.py:318`);
  two arcs at exactly one distance compare the rows, which are dictionaries, and the step ends in a TypeError:
  `FailToAllot`;
- the anchors of a stitched support may lie in the middle of its arc;
- deconfliction may replace a stitched support by the best single candidate, and a sibling that is stripped of
  its support keeps the stitched line as the reference that decides whose crossing is whose;
- arcs whose slots are out of order on a section are flagged, and nothing else happens;
- what a candidate says about a competing arc is lost for an arc without siblings (section 5).

### LineGrid and RoadGeometry

`RoadGeometry` follows one arc from its working segment to the refined road: `Identify` (witness cuts, corridor),
`MapSlots`, `Refuse`, `Anchor`, `OfferLines` (the queue of candidate lines), `BuildFinalRoad` (the first that fits),
`RefuseLines`, `RefineRoad` (`_apply_geometry_refine`). Ten stations lie along the arc, lateral positions are in
eighths of a metre on cross-sections of 12 m; connectors and curves are straight between stations. The line
fitted by `step5_global_geometry_fit.py` is an input, and the local envelope of the refinement is the drivable
surface. On the checked scenes 5946 arcs are built (818 of them refined), 716 end for an unresolved slot, 686
outside the drive zone, 60 across a divider and 48 without a corridor. In the code as it is, and in the model:

- lines offered twice are dropped by equality, so that a mode with relaxed limits is lost when the same line was
  offered earlier under a strict one;
- with one step-3 anchor only, `_anchor_line_to_slot_intervals` ignores it though the trace says it is used;
- the witness is a perpendicular cut, so a line that follows it jumps at the cut and starts at the lower edge of
  its slot;
- the reason `road_crosses_divstrip_after_side_constrained_generation` is not among those
  `classify_segment_outcome` knows, and such an arc is told as one that should have no geometry;
- the branch of `_resolve_interval_from_anchor` for the nearest interval and the midpoint fallback of
  `_stabilize_slot_anchor_point` can not apply.

### GroundCache and GroundExport

*State.* `label[k]`, `stats[k]` are the files under key `k`; `manifest` and `exported` the manifests; `copy[k]`
the classified copies. A cloud is a sequence of points that are written in chunks of one.

*Actions.* `StartBatch`, then for every patch either `TakeCached` or `OpenLabel`, `LabelPoint`..., `WriteIndex`,
`OpenStats`, `FillStats`, with `LabelRaises` for the caught exceptions; at the end `OpenManifest`,
`WriteManifest`. `StartExport`, `ReuseCopy`/`RefuseItem`/`OpenCopy`, `WritePoint`, `WriterRaises` (which also is the
fall-back from laz to las), `CloseCopy`, `PublishExport`. `AddPatch` adds a patch between batches: keys are
computed anew from the patches present (`FreeKey`), so a key can change hands. Which points are ground
(`Truth`) is data.

### SchemaMigration

*State.* `disk[d]` says of each patch directory which files it has and with which contents; beside it the patch
manifest, the backups, the rollback manifest, the run in progress (its steps, and the patch it is at) and the
report. A step of the plan is one step of the model: back up, move, write, delete. It may fail, which the scripts
note and go on; the run may die. Scripts follow one another in any order. In the code as it is, and in the model:

- the replacement of names in the manifest by v4 also matches inside `RCSDNode.geojson`, so that a repeat makes
  `RCSDRCSDNode`; v4 always exits 0;
- v2 makes an empty `RCSDNode` where there is none; v4 then deletes the real `Node` as a duplicate, and only the
  backup has it;
- backups of a data set outside the repository are named by the bare file name, so that those of two patches
  collide (`LossIsReported` is about data sets inside);
- a failed backup does not stop the deletion; files created half and `Tiles` copied in part are taken for done
  later; the sweep of v2 after a failed renaming deletes the old file that was backed up;
- v3 given patch ids that are listed but missing does not look for others.

### AnchorChains, AnchorNode, AnchorEvaluation, AnchorRun

*AnchorRun.* `results[n]` is the verdict of a node (its fate and its position along the chain), `edges` the chain
edges, `required` what a node was asked to exceed when it was evaluated, `merged` the merges. Actions follow
`run_from_runtime`: load, seed, chain, evaluate one node after the other by offset, the order pass edge by edge,
the merge pass edge by edge, the gates. Evaluating is `AnchorNode`'s promise: fail, or a place that the code
compares with the predecessors known so far. Whether two lines are near enough to be one is geometry and free.
Roads are finite in number with unique ids and natural lengths, as the indexes of the code have them.

*AnchorEvaluation.* One node from its kind bits to its line: the gates, the forward scan, the search behind the
node, the reference, the window round it, the probes, the way back. What a scan or a probe meets is chosen, one
position is one scan step; the tollgates (K16) are a branch of their own. `VerdictIsSound` compares the result
with `AnchorNode` and asks that no line lies across the node from its reference.

### PatchPreprocess

A run reads the files of a patch (vector directory, else the one global directory), finds the zone, works through
the roads one by one (`RepairRoad`: clip, choose a segment, assign its ends, make virtual nodes), and writes
nodes, roads and report in that order. Runs may be repeated in one directory, refused, or die; an overwriting run
first deletes what it finds, one file at a time in any order (`ClearFile`), and may die in between. Everything lies
on a line marked every five metres, the default width of the clip buffer. In the code as it is, and in the model:

- roads that share a missing node each get a virtual node of their own, so that their connection is lost;
- an overwriting run clears the old output before it validates, so that a refused run leaves nothing;
- the drop `unresolved_endpoint_reference` is never reached and `missing_endpoint_refs_out` is always 0, so the
  metric "ok" is always true; the "both nodes exist" branches are never reached in a repair;
- a road in several parts may get a virtual node on top of the node it reaches, since sides are those of its
  longest part;
- nodes without id and duplicates are dropped, though the contract calls the node file a copy; a road naming a
  virtual id made earlier would end in a KeyError; mixed new and old file names are accepted.

### MultilayerBatch

A batch goes from patch to patch: take what an earlier batch left, or find the height of the road from the
trajectories, the cells with peaks beside it, the clusters of such cells, and write the cleaned and the tagged copy
and the statistics. A batch may die, a patch fail, laz fall back to las. In the code as it is, and in the model:

- the statistics are not removed before copies are written again, so that after a crash a resumed batch with
  another `--write_full_tagged` or `--out_format` passes torn copies; resuming ignores the parameters;
- an error outside the two `try` blocks ends the batch without a manifest; a patch without trajectories passes
  with nothing removed; a las copy that replaced a laz one is never resumed;
- support is counted in at most 512 samples of a cell while the share divides by all its points, so dense cells can
  never be overlap cells, and with the defaults only cells of ten times the median density come into question;
- two trajectories at different levels in one cell give the median between them, and there is no ground there.

Cells lie on a line, heights are in units of 5 cm, a failing verification counts as a failing write, and the data
does not change between batches.

### SectionGate and TopologyPairs

Step 0 keeps of each cross section the part that may be used (`_truncate_cross_sections_for_crossing`), step 1
searches the prior roads from one section to the next, depth first, one stack entry per step
(`GateSections`, `BuildGraph`, `TakeAnchor`, `Meet`, `Expand`, `Decide`, `Conclude`). In the code as it is, and in the model:

- a search that overflowed with one destination found is accepted as unique;
- a pass-through node with two parallel roads to its one successor ends its chain and hides what lies behind;
- a section that step 0 rejects is no node any more, so topology searches straight through its crossing; the mode
  "audit" lets everything pass, though its comment says it rejects, and the checks for repaired sections in the
  lite mode are unreachable;
- a part of the zone wholly under the divider is kept without a flag; a march passes dividers thinner than
  `XSEC_TRUNC_NONPASS_K` steps;
- a first edge that loops back to its source lets an anchor find destinations of the other edges of the source;
- nodes that share a line borrow the edges of one another, and pairs of siblings are filtered;
- reverse anchors exist for sinks only, and the decision of such a node lists its predecessor as a destination.

### CrossingSearch, NeighborPasses

`CrossingSearch` makes the crossing events and the forward graph of one drive and takes one label from the heap per
step, in the order of the code: crossings passed, then distance, with a limit on both. That order is not the
measure of the answer, so only direct targets are certain to be found; `PassIsHonest` says that and no more.
`NeighborPasses` gives the trigger of the second pass, the way its result replaces the first or is merged into it,
and the choice of a destination by votes. In the code as it is, and in the model:

- a crossing that the search passes close by is reported and never becomes a support, and is left out;
- `dedup_gap_m` is accepted and ignored;
- a focused second pass that replaces the first takes over the supports of the sources it looked at and loses
  those of others unless it is merged; degrees of touched nodes come from it.

### RoadCandidate, RoadRun

`RoadRun` follows a run: passes, pairs, then for each pair the corridor (`_build_step1_corridor_for_pair`), the
candidates (clusters of the support, branches, the line along the topology), `_evaluate_candidate_road` for each,
the selection, breakpoints. A candidate keeps which of its lines is published and which line each check saw.
Rankings are any order with lines first, then feasible ones; the selection is any set of kept candidates in which
every dropped one has a kept one before it, since which lines are in each other's way is geometry. In
the code as it is, and in the model: an accepted pair without any support leaves no trace; branches of a chained
pair are dropped without one; a run of nothing but pairs inside an intersection passes with zero roads; a
candidate without geometry is reported as crossing a divider; the branch of `step1_post_filter_empty` cannot be
reached; the line by which a road outside the corridor is rescued is not checked for dividers again.

A pair supported by its prior road alone has no clusters: if that road is no longer than a metre, it is enough to
support the pair but none to the corridor, and the pair ends as `cluster_candidate_empty`.

## 3 Runs

All runs switch deadlock checking off: every one of these programs ends.

| run | question | bounds, and why they are enough |
|---|---|---|
| `pipeline_resume` | is what is recorded ok current, the directory a ledger until `--force` is given, and a forced full run that exits 0 a repair? | the code's six stages and their real inputs, two configurations, three launches of any entry point with or without `--force`. Two launches make any mixture, the third reads or repairs it |
| `pipeline_pair` | two processes at once: is every file that parses that of a clean run, and does every launch end? | three stages, the last reading both others; two launches, each of any entry point, forced or not. One configuration, since with two the mixture is the user's. Checked under fairness |
| `segment_selection` | arcs, searches and gates against definitions by ways of the road graph; segments against the arcs and the evidence | every patch of up to four roads on three cross sections and two nodes, parallel roads, and larger patches round two hubs; a budget of three, so that searches both finish and run out. Fourteen of the patches are driven on with every choice of lines from a few, with aliases, reversed and unanchored roads, exceptions and bridge pairs |
| `arcs_fan` | who enters the main flow when arcs compete, is a road earned at every layer, are the arcs a funnel, and what do audit and reviews make of it? | four gap-controlled arcs into one node, two of one pair and two single ones that meet downstream: three rivals at one node. Supports collide in trajectory or corridor and lie on both sides of each threshold. Each layer loses some of the arcs: a corridor without a witness, a missing slot, a line near the drive zone where the gap is not small, a fallback that crosses a divider. That a corridor rests on a prior road is left to the proof |
| `arcs_lines` | are lines, stretches and roads sound? | `ArcLines`: two siblings round an island and a third arc that leaves their section, four cells of 30 m, a grid of 5 cm, up to three of eleven trajectories, four surfaces: a sibling has one support, several, a stitched one, a rival's or none. `RoadGeometry`: eight grounds, ten stations; each mode, outcome and fallback that can be reached is |
| `data_tools` | batches and exports, resumed or forced, verified or not; migrations in any order | three patches, two of one directory name, one whose name is the key the other would get, one added later; two configurations; three launches: a batch, one that dies, and one that reads what they left. Five data sets (mixed, outside the repository, without vectors, with a wrong list, without a list), three runs of the scripts and two faults: one run that is broken, one that repairs, one that repeats |
| `patch_tools` | anchors over a patch and one by one, the repair of a patch, the cleaning of clouds | three crossings: lines, fans, cycles, self loops, corridors at the limits, parallel corridors, dropped duplicates; a late predecessor and one that is not need three. Windows of one or two steps round the node: each bound met, passed and missed. Patches of two roads repaired once, or twice in one directory. Clouds of six cells, three batches: a torn copy, one who overlooks it, one who resumes |
| `legacy` | does a second pass cost anything, is a pair lost in silence, is a clean road checked; are supports traffic and pairs roads? | three pairs of two sources and two destinations, candidates of all kinds where a pair has one, of few where it has several; three trajectories past four crossings with any subset of the hits and stitches named there; maps of up to nine prior roads, four cross sections of many kinds, and a budget of seven, so that searches finish and run out |
| `finding_torn_state`, `finding_refused_pair`, `finding_competing_support`, `finding_rollback` | section 5 | the instances above, or parts of them |

*Fairness.* Only `pipeline_pair` assumes any: weak fairness of `RunStep(p)`, the steps of a running process
other than its crash. The operating system runs a process that has something to do, and no step of the code
waits for another process. Launches and crashes are not fair: nobody has to start or to kill anything.

Some properties need their scope read with them:

- `OkIsCurrent` and `ImplementsLedger` are about a directory in which `--force` has not been given yet. With
  `--force`, an early stage that is run again alone leaves later stages ok that were made from its old artifact;
  `ForcedFullIsFresh` says what does repair that.
- `CacheIsWhole` and `NothingLost` are about batches that resume; after a forced one, `ForcedBatchIsFresh`.
  `CacheIsWhole` says of which cloud and configuration the statistics are; that a resumed batch takes them for
  another configuration, or for a patch that has taken over the key, is the code's behaviour.
- `ExportIsTruth` is about rows that were verified, as long as all batches had one configuration and no patch was
  added: without `--verify` an existing copy is passed unread, and after `AddPatch` a key may stand for another
  patch than the copy was made for.
- `LossIsReported` sets aside the old road that v3 deletes (`finding_rollback`) and data sets outside of the
  repository, where backups collide. `SecondRunIsQuiet` is about v2 and v3, whose documentation promises it; v4 is
  not idempotent (section 2).
- `RowsStandForWholeClouds` is about batches that resume each other in one format.
- `PublishedIsClosed` says for all runs that what a run returned with belongs together, and for runs that overwrite
  that files of two runs never lie side by side, whatever dies. A run that dies inside the deletion of an old
  directory (`shutil.rmtree`, in the order in which the directory lists its files) may leave roads without nodes or
  a report without roads, until a later run has ended the deletion; the property says so.
- `LevelRoadIsFollowed` is about a single trajectory on one height: with several the height is a median.
- `EvidenceGetsASegment` is about evidence that no rule may object to; its last part names the one gate that looks
  at candidates one by one.
- `SiblingsFollowTheirOwn` is about arcs of one pair; for arcs without siblings the code does otherwise
  (`finding_competing_support`).
- `OnlyLateCausesDisorder` says what `OrderHolds` needs the order pass for: a predecessor that is visited later.
- `PassIsHonest` says that a support is traffic from source to target of the length it tells; a search in topology
  mode may pass other crossings on the way.
- `TopologyIsHonest` says an accepted pair follows the roads past no other section, and asks a search for all it
  should find only if it was not cut short.
- `CleanRoadsAreChecked` is about the reasons the code gives; the flags `endpoint_in_drivezone` are those of the
  line before it is replaced and are not modelled.
- `TracesAreTrue` leaves out parallel roads and searches that were cut off, where the code's reason is only
  about what it found.

## 4 Proofs

Eight modules hold theorems; each holds for every value of the constants that meets the named assumptions of the
modules it extends. The assumptions say what the data may look like (finitely many arcs with symmetric relations,
patches with distinct paths, roads with unique ids, plans and requests of the right form, windows within the range
of positions) and exclude no behaviour of the programs. `SingleWriter` (one process at a time) is a hypothesis of
those theorems about the stage pipeline that need it, and is part of their statement, as `LinesFit` is of those about
`ArcLines`; the others hold for any
number of processes.

### StagePipelineProofs

- `TypeCorrect`: the type invariant.
- `CoherentAlways` (single writer, no `--force` yet): `Coherent` is invariant. It strengthens `OkIsCurrent`,
  which is not inductive: the step that writes "ok" must know that the process holds the result of what lies in
  the directory (`Attempt`: what is below the stage at hand is complete, what was loaded is what lies there,
  what was written is the result), and a step that touches a file must know that no completed stage reads it
  (`OkIsPrefix`, and `ReadsAssumption`: a stage reads earlier stages only). `OkStagesAreCurrent` and, as an action
  property, `CompletedStaysFinal` follow; `SuccessMeansComplete` also holds with `--force`, by the weaker
  `Orderly`.
- `DirectoryIsLedger`: refinement of `StageLedger`, under the mapping that reads the artifact of an ok stage.
  Every step maps to a ledger entry or to a stutter.
- `FreshRecursion`: the clean run `Fresh`, a recursive function over the stages, satisfies its equation. That
  such a function exists is shown by a least stage up to which there is none. With it `WholeFilesAreFresh`: any
  number of processes, any `--force`, one configuration: every artifact that parses is that of a clean run.
- `ForcedRunIsFresh` (single writer): a forced full run that exits 0 leaves exactly a clean run. Its invariant
  `Renewing` says how far the run has got: all it has passed is fresh, what it has loaded is fresh, and what
  lies beyond, which may be anything, has not been read.

### TopologySearchProofs

- `TerminalsHaveOneOwner`: for any roads and any budget, at most one cross section passes the production gate
  into a terminal. The invariant is that the arcs are those of the roads (`GraphStays`), and no trace opens the
  gate.
- `ReverseOwnersAgree`: where the backward searches are sure of an owner, it is the source of the direct arcs into
  the terminal. `Searched` says for every reversed edge of a terminal that it is still to do, at work or answered,
  and of every answer that it is the end of a way back; a single answer to all of them is therefore the one source.
- `ArcsStayCorridors`: the direct arcs are exactly the corridors of the uncompressed roads: from a cross section
  through nodes that only pass on to another one. `Chain` is a recursive function; its equation needs that such a
  function exists, and that it comes to the end of a corridor within as many steps as there are roads needs that it
  meets no node twice (pigeonholes by least counterexamples).
- `TracesStayTrue`: without parallel roads and as long as no search was cut off, a trace leads from a source to
  another exactly when roads do, past no other cross section. `Searching` says of the search at work that what it
  visited and what it stacked are entries of the tree of the source, and that an entry it visited has its
  children among them: when nothing is stacked the whole tree was visited. `Booked` keeps for every launch that it
  waits, runs or has its rows. Between trees and roads go lemmas about walks: a walk of least length meets no node
  twice (`Cut` takes a return out), a way through the roads keeps to the compressed edges, and a child that is
  never visited is refuted at the first such node of a way.
- `EvidenceIsKept`: every candidate that passed the filters is part of one segment; an arc with a candidate that
  crosses no other cross section gets a segment, and the candidates of an arc share their fate at the gate of the
  owners. `SelectionInv` holds by phase what is known of candidates and their arcs. The clusters of an arc are a
  recursive function over its candidates in their order: each step puts one candidate in one cluster
  (`SharedOut`), so none is lost or counted twice. What a segment keeps of its members (`others`, sums of zones and
  offsets) follows by least counterexamples over prefixes. `SegmentAssumption` says that lines carry numbers, that a
  trajectory meets a cross section once and that ids of candidates are unique.

### ArcFlowProofs

For any finite set of arcs, any supports, priors, slot fates and candidate lines.

- `IInv` follows a row through the steps. What the entry decision relies on is known before it (`Registered`: the
  only hard blocked arcs are those of a pair of several, and gap control has said nothing yet); what it leaves to
  later steps is `Admitted`; every later layer holds only what the one before let through (`Layered`); what is
  outside has a stage and a reason (`Outside`), and what step 6 reports agrees with the layers (`Reported`).
  `EntryIsJustified` alone is not inductive: that gap control never lets in an arc of a pair of several needs
  that its targets are arcs with a pair of their own and that no hard block was set on one of those.
- `EntryHasReason`, `EntryIsFinal`, `SiblingsKeepApart`, `MergesKeepApart`: who enters the main flow.
  `RoadsAreEarned`, `LayersAlwaysAgree`, `NoArcIsSilent`, `GateTellsTheTruth`: what the later layers and the
  reports make of it. That no hard block is ever set on a unique arc is what `finding_refused_pair` shows; the proof
  says what holds of the code as it is.
- `RegistryIsFunnel`: refinement of `ArcFunnel`. Evidence and the steps that only prepare a layer are stutters.
- `AuditMeetsGate`: the audit of legality, a third copy of the entry rules on the files, condemns exactly what the
  gate refused. `ReviewsTellTheTruth`: the row that stands for a pair, the coverage and the accepted patch are true
  of the arcs. `ObligationsHold`: what must stay blocked is no road, what must be built entered, of rivals never
  two are selected and not all lack a slot. These follow from `IInv`, with lemmas that pick the best row of a pair
  and the strongest of finitely many rivals.

### ArcLinesProofs

Hypothesis `LinesFit`: a line covers some cells with positions on its section, a trajectory that crosses a section
covers the cell of that section, the pieces of a surface lie on the section and are not empty, a trajectory is
at least two units wide and no wider than a section, and the arcs are finitely many. TLC evaluates it on the
instance of the run (`ASSUME` of `MCArcs`); how many arcs, cells, trajectories and pieces there are is open.

- `SlotsSoundAlways`: what is allotted lies in one piece of the surface, and if no arc of a section is reported as
  out of order the stretches do not overlap and the lines end in their order. The centers are pushed apart and
  back by a recursive function, of which only that its values are numbers is needed (`PushedIs`): each share lies
  within the raw interval of its arc whatever the centers are (`ShareWithin`), and each raw interval in one piece
  (`RawLegal`). That every two stretches are apart though each is only compared with the one before goes along the
  list of the arcs (`KeepApart`), which needs that `Ranked` lists every arc once (`KeysRank`: the key is one of a
  kind, the ranks are then all numbers up to the size of the set).
- `SiblingsFollowAlways`: `CandidateFits` says of a candidate that prefers its arc that it runs nearer to it by the
  margin, `SharesHonest` that this is so of the rows once siblings have shared them out, and `MadeFits` that a line
  is drawn by a support only if its row prefers it. It rests on the deconfliction: that a sibling is given one of
  its own candidates needs that the search ends with an assignment (`AssignedIs`).
- `DeconflictionIsBestAlways`: no assignment of candidates serves more siblings, and none that serves as many has a
  lower sum of ranks. The search tries arc by arc; `LevelFits` says that after j arcs there is exactly one branch
  for every allowed choice for them, with the families it uses, the number of arcs it serves and the rank that it
  has by then. The levels are a recursive function whose existence and equation are shown by induction on the
  number of arcs (`RecursionExists`, `HandedOn`); ranks are sums by `SumFunction`, which depend on the summands
  only (`SumChange`, by least bad subsets). The segments of a candidate tell which one it is
  (`OptionBySegments`), so the row that is left shows what was assigned.
- `IInv` says by turn which of rows, seeds, slots and lines are there and what is known of them.

### AnchorProofs

- `EvaluationKeepsContract`: for any windows, scans and probes, an evaluation gives a verdict that `AnchorNode`
  allows. The invariant has one part per phase: what the gates let through (`Admitted`), where the reference may
  lie and which side of the node it is on (`Referred`), that every probe lies in the window and which of them was
  one piece (`Probed`), on which side a line was picked (`Sided`), the tollgate branch (`Gates16`), and the
  verdict (`Ruled`). `VerdictIsSound` looks at the last only and is far from inductive.
- `OrderPassIsEnough`: when the passes are over, no two placed neighbours of a chain are out of order. The
  invariant follows the order pass along the edges it has looked at; a node it fails stays failed.
  `FailuresAreTold`, `MergesAreDisjoint` (by way of the set of nodes used), `PassingIsClean`.
- `DisorderIsLate`: out of order come only nodes that were judged before a predecessor. `Timely` says that the
  offsets are numbers and the order of evaluation is by component and offset, `Judged` that whoever was judged in
  its turn exceeds its placed predecessors.
- `ChainsFollowRoads`: an edge joins two seeds exactly when driven roads lead from one to the other through nodes
  that only pass on, within the limit, and is as long as the shortest such way. The code follows a corridor hop by
  hop, the property speaks of trails of roads; lemmas by least counterexamples on the number of hops show that each
  hop is a road and each trail a sequence of hops. `Linked` carries it through the run.

### RoadRunProofs

- `RunsAreAccounted`: a pair that was done has a road or a breakpoint, a passing run a road for each pair outside
  intersections and each source. `InRun` follows sources and pairs through the run: every source found is in a pair
  or told, every pair not to do is built, inner or told. That the ranking has a best candidate and a source a best
  destination needs least elements of finite sets.
- `RoadsAreChecked`: what is known of a candidate's published line after each check and replacement
  (`LinesChecked`), whatever its facts.
- `SourcesKeepTheirs`: a merge takes nothing from a source, and no outcome has fewer pairs, or as many with fewer
  events, than the first pass. Sums over finite sets of sources are compared by least counterexamples over the
  sources that differ.

### PatchToolsProofs

- `RepairsAreSound`: `Mended` says of every road come past that it is kept as it was, repaired with ends at nodes
  of its own or where its node was, or dropped for lack of a clip, and that virtual ids are of one road each. That a
  road of one part loses no node it reaches rests on the existence of a segment of the clip up to that end and on
  the order in which segments are chosen.
- `PublishedStaysClosed`: `Publishing` says which files are of this run, by the order they are written in and
  cleared. A deletion takes whole files away one at a time; what it leaves is still of one run, and whole roads
  still fit whole nodes, but `cut` remembers that it may have left roads without nodes. After a run that returned,
  the three files are its own whether or not it cleared the directory.
- `PassingRowsAreWhole`: `Booked` ties the statistics of a patch to its copies: they are whole unless one was cut
  short after they had been written, which `Uncut` and `Uniform` exclude in the two ways the property names.

### DataToolsProofs

- `KeysDiffer`: the keys of a set of patches differ, however names and paths collide. `FreeKey` is a recursive
  function over the patches in their order; its existence and its equation are shown by least counterexamples.
- `NoPatchIsLost`, `ForcedBatchRelabels`: by `Steady` (the label at hand is true up to the next point, a batch has
  a row for each patch come past, what a batch that does not resume passed is its own label).
- `CacheStaysWhole`, `CacheIsFinal`, while every batch resumes: `Whole` adds the order of the writes: no
  statistics without a label (`Ordered`), a patch that is being labelled has no statistics and one whose
  statistics are open has a complete label (`Pending`). A forced batch that dies leaves new half-labels beside old
  statistics; the invariant says so and stops there.
- `ExportsAreTrue`: `Truthful` adds to `Steady` that copies are sequences of points (`Shapes`), and for the one
  configuration in use that a manifest, a label that a passing row names and a copy that was counted agree
  (`Agrees`).
- `LossIsAlwaysReported`: `NoLossInv` numbers the steps of a run (`Numbered`) and knows of those to come
  (`Careful`): a file is deleted only after it is in a backup, nothing is written over what is there, and no backup
  of a run goes over another.
- `SecondRunsAreQuiet`: a successful run takes away all it looks for and makes all it misses. `QuietInv` says of
  the steps to come that they lead there (`OnTheWay`), and after the report that every directory of the data set is
  there already (`Quiet`); a run that failed is not successful, and a run that died reports nothing.

### What stays with TLC

- *Liveness*: `EveryLaunchEnds`, since temporal proofs with fairness and ENABLED are beyond the prover.
- *Roads of one arc*: `RoadIsSound` and `FitLeads`. The smoothing and the candidate lines of `RoadGeometry` are
  folds over stations, whose results only an induction over the sequence gives.
- *Heights*: `LevelRoadIsFollowed` holds of the trajectories of the run and not of all: heights are rounded to bins,
  and over a long trajectory the roundings can add up to the gap that separates layers.
- *Searches of legacy t05*: `PassIsHonest`, since peaks and stitches are folds over hits, and `TopologyIsHonest`,
  since `TopologyPairs` declares a RECURSIVE operator (`Spread`).
- The four findings, which are counterexamples.

Every property that is proved was checked on a run first, and the inductive invariants were checked on the runs'
instances before they were proved; that of `ArcLinesProofs` was not, as it quantifies over lists of any length. `CompletedIsFinal`, `SuccessIsComplete`, `NoLateLegalityRejection`,
`MergeSupportsDiffer`, `LayersAgree`, `NothingSilent`, `GateIsHonest`, `OneOwnerPerTerminal`, `CachedIsFinal`,
`FailureIsLoud`, `OneLinePerGroup` and `PassIsClean` are proved and are no longer part of a run.

## 5 Disagreements between code and documents

- `finding_torn_state`: `run_stage` parses the state file of its own stage before it looks at `--force` and
  outside its `try`. A crash while that file is written stops every later launch with a JSON error, though the
  architecture promises that the resume script goes on from the states it finds, and the script itself counts an
  unreadable state as not ok.
- `finding_refused_pair`: rows of `segment_should_not_exist` carry no `pair_id`, which is the key the arc
  registry looks them up by. The block is never found, and a unique arc of a refused pair enters the main flow.
- `finding_competing_support`: the row of an arc without siblings never gets `support_competing_arc_preferred`, so
  its line follows a support that lies nearer to a competing arc. A test asserts the opposite of a row into which it
  wrote the field by hand.
- `finding_rollback`: v3 deletes an old road file that lies beside a new one without a backup, and writes a
  rollback manifest that restores it from one.

## 6 What is not modelled

- *Numeric fits*: the minimisation of `V2/step5_global_geometry_fit.py` and the fitting of lines in `geometry.py` of
  legacy t05 are arithmetic on real coordinates; their results are inputs of `RoadGeometry` and `RoadCandidate`. So
  is what the scans and probes of t04 meet. The final gate on a refined road is in `ArcFlow`.
- *Loading*: coordinate systems, fields, dataclasses of t05 v2 and `io.py` of legacy t05 are the data the steps
  read. `write_json`, `write_step_state` and `make_run_id` are part of `StagePipeline`.
- *Renderings*: debug layers, bundles of finished reports, run times, the drawings of witnesses; of step 2 and of the
  topology of legacy t05 the audits, node decisions and counters.
- *Single passes without state*: t01, the scoring of one trajectory against a cloud in t02 (`run.py`,
  `autotune.py`), the synthetic data of t00, `run.py` of legacy t05 (a command line over one patch that writes
  `params.json`, runs the patch in a `try` and reports RUNTIME_EXCEPTION) and `step_utils.py` (indexes of points by
  radius).
- *Text*: the bundle and its size guard format and cut one report that nothing reads; the command line parses
  arguments.
- *t10*: a retired prototype whose reviews are tables edited by hand between passes.
- *Scripts* other than the resume scripts, and the quality runner, call the modules.
- Of the ground cache, `failed_patches.txt`, summaries and the index are written and never read; `--workers` is
  accepted and ignored, so there are no concurrent batches. Of t06 the many reports are one file.

## 7 Plan

Done: the models of section 2, the runs of section 3, the theorems of section 4. Left, in this order:

1. A refinement of the contract between `ArcLines`/`RoadGeometry` and the inputs of `ArcFlow`, which are now chosen
   freely from sets that hold what those two find.
