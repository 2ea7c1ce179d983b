------------------------------ MODULE MCArcLines ------------------------------
(* ArcLines alone, with at most two trajectories.                          *)
EXTENDS ArcLines

S == INSTANCE ArcLineScenes
MCScenes == S!ScenesOf(2)
MCSrc == S!LineSrc
MCDst == S!LineDst
=============================================================================
