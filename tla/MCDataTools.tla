----------------------------- MODULE MCDataTools -----------------------------
(***************************************************************************)
(* The tools that work over a whole data set in one run: the ground cache  *)
(* and its export (GroundExport), and the migrations of the schema         *)
(* (SchemaMigration).  While one of them goes on the other rests.          *)
(***************************************************************************)
EXTENDS GroundExport, SchemaMigration, TLC

(* The cache has three patches: two directories named a, of which the one  *)
(* in the tree r is found last and the other is added later, and one named *)
(* so that it has the key the other would get.  Under each of two          *)
(* configurations a cloud of two points passes its gate and one of one     *)
(* point does not.                                                         *)
MCName == <<<<"a">>, <<"r", "a">>, <<"a">>>>
MCRel == <<<<"p", "a">>, <<"p", "r", "a">>, <<"r", "a">>>>

\* the labels of each patch under each of two configurations
First == CHOOSE c \in Cfgs : TRUE
Either(l, m) == [c \in Cfgs |-> IF c = First THEN l ELSE m]
MCTruth == <<Either(<<1, 0>>, <<0, 1>>), Either(<<1>>, <<0>>),
             Either(<<0, 1>>, <<1, 0>>)>>

-----------------------------------------------------------------------------
(* The migrations meet five data sets: a mixed one with a patch in two     *)
(* places, one outside of the repository that lists no patch, one with a   *)
(* listed patch that lacks its vectors, one whose list names a patch that  *)
(* is not there, and one without a list.                                   *)
DirsInOrder == << <<"p1", "top">>, <<"p2", "nested">>, <<"p1", "nested">> >>

NoFiles == [f \in Files |-> <<>>]
(* The contents of a file at first are the file and the directory.         *)
With(names, d) == [f \in Files |-> IF f \in names THEN <<f, d>> ELSE <<>>]
IsPatch(names, d) == [there |-> TRUE, patch |-> TRUE, vector |-> TRUE, files |-> With(names, d)]
NotThere == [there |-> FALSE, patch |-> FALSE, vector |-> FALSE, files |-> NoFiles]
Bare == [there |-> TRUE, patch |-> FALSE, vector |-> FALSE, files |-> NoFiles]

Old == {"gore", "Node", "Road"}
Mixed == {"gore", "DivStripZone", "Node", "RCSDNode", "Road", "RCSDRoad"}
Lists(ids) == [state |-> "whole", ids |-> ids, names |-> {[rcsd |-> 0, base |-> "gore"], [rcsd |-> 0, base |-> "Node"]}]

World(first, second, sibling, known, in) ==
    [disk |-> (DirsInOrder[1] :> first) @@ (DirsInOrder[2] :> second) @@ (DirsInOrder[3] :> sibling),
     manifest |-> known, inside |-> in]

SomeWorlds ==
    {World(IsPatch({"Node", "Tiles"}, 1), IsPatch({"Road"}, 2), NotThere, [Lists({}) EXCEPT !.state = "none"], TRUE),
     World(IsPatch(Old, 1), IsPatch(Mixed, 2), IsPatch({"Tiles"}, 3), Lists({"p1", "p2"}), TRUE),
     World(IsPatch({"gore", "RCSDNode"}, 1), IsPatch(Mixed, 2), Bare, [Lists({}) EXCEPT !.state = "none"], FALSE),
     World(IsPatch({"Tiles"}, 1), NotThere, NotThere, Lists({"p1", "p2"}), TRUE),
     World(Bare, IsPatch(Old, 2), NotThere, Lists({"p3"}), TRUE)}
-----------------------------------------------------------------------------
VARIABLE program

BothInit ==
    /\ ExportInit /\ MigrationInit
    /\ \/ program = "migration" /\ job.cfg = First
       \/ program = "ground" /\ inside /\ disk[DirOrder[3]].there

BothNext ==
    /\ UNCHANGED program
    /\ \/ program = "ground" /\ ExportNext /\ UNCHANGED migrationVars
       \/ program = "migration" /\ MigrationNext /\ UNCHANGED allVars

BothSpec == BothInit /\ [][BothNext]_<<program, allVars, migrationVars>>
=============================================================================
