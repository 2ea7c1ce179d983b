----------------------------- MODULE ArcLineScenes -----------------------------
(***************************************************************************)
(* Scenes for ArcLines: two sibling arcs around an island and a third one  *)
(* that leaves their cross section for another, with some trajectories out *)
(* of a pool that follow one of them, stay in between, stop half way, come *)
(* in late or leave for a while.                                           *)
(***************************************************************************)
EXTENDS Integers, FiniteSetsExt

Along == <<<<300, 220, 220, 300>>, <<300, 380, 380, 300>>, <<300, 300, 360, 480>>>>

(* A trajectory beside arc a on the given cells.                           *)
Trip(of, a, cells, shift, from, to, spoilt) ==
    [source |-> of, line |-> [c \in cells |-> Along[a][c] + shift],
     src |-> from, dst |-> to, unclean |-> spoilt]

Pool == <<
    Trip("p", 1, 1..4, 10, "S", "D1", {}),
    Trip("q", 1, 1..4, -10, "S", "D1", {"src"}),
    Trip("q", 2, 1..4, 0, "S", "D1", {}),
    Trip("p", 2, 1..4, 80, "S", "D1", {"dst"}),
    Trip("p", 1, 1..4, 80, "S", "D1", {}),
    Trip("q", 3, 1..4, 0, "S", "D2", {}),
    Trip("p", 1, 1..2, 0, "S", "none", {}),
    Trip("q", 2, 2..4, 20, "none", "D1", {}),
    Trip("p", 3, 1..3, 10, "S", "none", {}),
    Trip("q", 3, 1..4, 110, "S", "D2", {}),
    [Trip("r", 1, 1..4, 20, "S", "D1", {}) EXCEPT !.line[3] = 385]>>

LineSrc == <<"S", "S", "S">>
LineDst == <<"D1", "D1", "D2">>

Everywhere(i) == [x \in {"S", "D1", "D2"} |-> i]

(* An open surface, two surfaces with an island, and one without sections. *)
Grounds == {
    [off |-> {}, surface |-> Everywhere(<<<<100, 540>>>>)],
    [off |-> {[cell |-> 2, from |-> 290, to |-> 310]},
     surface |-> Everywhere(<<<<200, 300>>, <<330, 400>>>>)],
    [off |-> {[cell |-> 2, from |-> 200, to |-> 230], [cell |-> 3, from |-> 370, to |-> 390]},
     surface |-> Everywhere(<<<<260, 285>>, <<290, 400>>>>)],
    [off |-> {[cell |-> 3, from |-> 350, to |-> 400], [cell |-> 3, from |-> 215, to |-> 225]},
     surface |-> Everywhere(<<>>)]}

Small(most) == UNION {kSubset(k, DOMAIN Pool) : k \in 0..most}

Scene(ids, ground, aliased) ==
    [line |-> Along, trips |-> [i \in ids |-> Pool[i]], off |-> ground.off,
     surface |-> ground.surface, shared |-> IF aliased THEN {1, 2} ELSE {},
     hint |-> IF aliased THEN <<<<300, 240, 240, 300>>, <<>>, Along[3]>>
              ELSE <<<<>>, <<>>, <<>>>>]

Plain == Scene({}, [off |-> {}, surface |-> Everywhere(<<<<100, 540>>>>)], FALSE)

ScenesOf(most) == {Scene(ids, ground, aliased) :
                    ids \in Small(most), ground \in Grounds, aliased \in BOOLEAN}
=============================================================================
