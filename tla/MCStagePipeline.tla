-------------------------- MODULE MCStagePipeline --------------------------
(***************************************************************************)
(* StagePipeline with the six stages of the code, which load these earlier *)
(* artifacts.  Steps 1 and 2 read the patch data only, so the artifact of  *)
(* step 1 has no reader; the runner still demands that it exists before    *)
(* step 2.  A file holds the configuration its stage ran with and all      *)
(* those its inputs came from.                                             *)
(***************************************************************************)
EXTENDS StagePipeline

Step1Reads == {}
Step2Reads == {}
Step3Reads == {2}
Step4Reads == {3}
Step5Reads == {3, 4}
Step6Reads == {2, 3, 4, 5}

StageReads(s) ==
    <<Step1Reads, Step2Reads, Step3Reads, Step4Reads, Step5Reads, Step6Reads>>[s]

MCValue == [cfg : Configs, from : SUBSET Configs]

MCBuild(s, c, in) ==
    [cfg |-> c,
     from |-> UNION {v.from \cup {v.cfg} :
                        v \in {in[r] : r \in DOMAIN in} \ {Absent}}]
-----------------------------------------------------------------------------
(* With three stages, for several processes at once: the last stage reads  *)
(* both others, as stages 5 and 6 of the code read more than one.  A file  *)
(* also holds the stage that wrote it.                                     *)

AllBefore(s) == 1..(s - 1)

SignedValue == [by : Stages, cfg : Configs, from : SUBSET Configs]

SignedBuild(s, c, in) ==
    [by |-> s, cfg |-> c,
     from |-> UNION {v.from \cup {v.cfg} :
                        v \in {in[r] : r \in DOMAIN in} \ {Absent}}]
=============================================================================
