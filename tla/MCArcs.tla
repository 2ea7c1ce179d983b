-------------------------------- MODULE MCArcs --------------------------------
(***************************************************************************)
(* How the lines of the arcs of a patch are drawn (ArcLines, with up to    *)
(* three trajectories) and how a road is built of one (RoadGeometry), in   *)
(* one run.  While one of them goes on the other rests.                    *)
(***************************************************************************)
EXTENDS ArcLines

CONSTANTS Finish, MinLength, Breadth, HalfCut

VARIABLES program, arc, step, witness, roadSlot, anchor, queue, built, mode,
          verdict, refined

roadVars == <<arc, step, witness, roadSlot, anchor, queue, built, mode, verdict, refined>>

S == INSTANCE ArcLineScenes
MCScenes == S!ScenesOf(3)
MCSrc == S!LineSrc
MCDst == S!LineDst

R == INSTANCE RoadScenes

G == INSTANCE RoadGeometry WITH
    Scenes <- R!RoadsOnGrounds, Cuts <- <<3, 5, 6>>, NoAnchor <- R!NoAnchor,
    scene <- arc, phase <- step, slot <- roadSlot, reason <- verdict,
    road <- built

ASSUME LinesFit

LinesRest ==
    /\ scene = S!Plain /\ turn = "attach" /\ row = <<>> /\ entered = {}
    /\ seed = <<>> /\ slot = <<>> /\ made = <<>>

RoadRests ==
    /\ arc = R!Plain /\ step = "segment" /\ witness = G!NoWitness
    /\ roadSlot = G!Unmapped /\ anchor = G!Unanchored /\ queue = <<>>
    /\ built = <<>> /\ refined = <<>> /\ mode = "" /\ verdict = ""

BothInit ==
    \/ program = "lines" /\ Init /\ RoadRests
    \/ program = "road" /\ LinesRest /\ G!Init

BothNext ==
    /\ UNCHANGED program
    /\ \/ program = "lines" /\ Next /\ UNCHANGED roadVars
       \/ program = "road" /\ G!Next /\ UNCHANGED lineVars

BothSpec == BothInit /\ [][BothNext]_<<program, lineVars, roadVars>>

\* What RoadGeometry states of the roads.
RoadIsSound == G!RoadIsSound
FitLeads == G!FitLeads
=============================================================================
