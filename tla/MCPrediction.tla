---------------------------- MODULE MCPrediction ----------------------------
(***************************************************************************)
(* A player with few stacks, recipes of one cell and of four, and one for  *)
(* nothing.                                                                *)
(***************************************************************************)
EXTENDS Prediction, TLC

St(item, count) == [item |-> item, count |-> count]

MCRecipes ==
    << [inputs |-> <<"wood", "wood", NoItem, "wood">>, output |-> St("chest", 1)],
       [inputs |-> <<"tree">>, output |-> St("wood", 2)],
       [inputs |-> <<"wood">>, output |-> Empty] >>

Inv(selection, main, craft) ==
    [selection |-> selection,
     stacks |-> [s \in Slots |-> IF s \in MainSlots THEN main[s[2]] ELSE craft[s[2]]]]

\* A tree to be sawn, the four cells of a chest, one cell too many, and a
\* stack above the limit, as /gime makes them.
MCStart ==
    { Inv(0, <<Empty, Empty>>, <<St("tree", 1), Empty, Empty, Empty>>),
      Inv(1, <<St("wood", 2), St("tree", 1)>>, <<Empty, St("tree", 2), Empty, Empty>>),
      Inv(2, <<St("wood", 3), St("wood", 1)>>,
             <<St("wood", 1), St("wood", 2), Empty, St("wood", 1)>>),
      Inv(1, <<St("chest", 1), Empty>>,
             <<St("tree", 1), Empty, Empty, St("wood", 1)>>) }

MCClickable == {<<"main", 1>>, <<"main", 2>>, <<"craft", 1>>}
MCDrops == {Empty, St("wood", 1)}
MCGifts == {St("tree", 3)}
=============================================================================
