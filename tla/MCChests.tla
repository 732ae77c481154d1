------------------------------ MODULE MCChests ------------------------------
(***************************************************************************)
(* Two players, a chest and a place beside it.                             *)
(***************************************************************************)
EXTENDS Chests, TLC

CONSTANTS ann, bob

MCRecipes == << >>
MCPack(st) == [selection |-> 1, stacks |-> [s \in MainSlots |-> st]]
MCStart == {MCPack(With("stone", 2)), MCPack(With("chest", 1))}
MCStartBlocks == {("p" :> b) : b \in {"chest", Air}}
MCStartChests == {[s \in ChestSlots |-> st] : st \in {Empty, With("stone", 1)}}
MCSymmetry == Permutations(Players)
=============================================================================
