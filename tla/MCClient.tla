------------------------------ MODULE MCClient ------------------------------
(* Situations of three sorts: one client that is shown one chunk, for every  *)
(* content of five cells, a row, a neighbour beside and one above it; one    *)
(* that is sent two chunks, one of them twice, and edits them; and two that  *)
(* use the same cache directory.                                             *)
EXTENDS Client, TLC

CONSTANTS c1, c2, air, stone, grass, flower, unknown

MCBlocky == (stone :> [sides |-> "stone", top |-> "stone", bottom |-> "stone"])
         @@ (grass :> [sides |-> "side", top |-> "turf", bottom |-> "earth"])
MCCrossed == flower :> "petals"

Here == <<0, 0, 0>>
There == <<Size, 0, 0>>
Empty == [c \in Cells |-> air]
Row == {<<0, 0, 0>>, <<0, 1, 0>>, <<0, 2, 0>>, <<1, 1, 0>>, <<0, 1, 1>>}
Chunk(p, content) == [pos |-> p, chunk |-> content]
One(b) == [Empty EXCEPT ![<<2, 0, 0>>] = b]

Alone(x) == [c \in Clients |-> IF c = c1 THEN x ELSE << >>]

Shown == {[account |-> [c \in Clients |-> "right"], cached |-> Blobs, kills |-> 0, edits |-> 0,
           feed |-> Alone(<<Chunk(Here, f @@ Empty)>>)] :
          f \in [Row -> {air, stone, grass, flower, unknown}]}
Edited == {[account |-> [c \in Clients |-> "none"], cached |-> {}, kills |-> 0, edits |-> 1,
            feed |-> Alone(<<Chunk(Here, One(stone)), Chunk(There, Empty), Chunk(Here, One(grass))>>)]}
Shared == {[account |-> a, cached |-> {}, kills |-> 1, edits |-> 0,
            feed |-> [c \in Clients |-> <<Chunk(Here, One(b))>>]] :
           a \in {[c \in Clients |-> "right"], (c1 :> "right" @@ c2 :> "wrong")}, b \in {stone}}

MCSituations == Shown \cup Edited \cup Shared
MCAims == {[selected |-> <<2, 0, 0>>, before |-> <<1, 0, 0>>],
           [selected |-> <<2, 0, 0>>, before |-> <<3, 0, 0>>]}
=============================================================================
