------------------------------ MODULE MCMapgen ------------------------------
(***************************************************************************)
(* Three overlapping areas; every chunk's trees grow into both neighbours. *)
(***************************************************************************)
EXTENDS Mapgen, TLC

MCChunks == 1..8
MCAreas == {[min |-> 3, max |-> 4], [min |-> 4, max |-> 5], [min |-> 5, max |-> 6]}
MCReach == [q \in MCChunks |-> ((q - 1)..(q + 1)) \cap MCChunks]
=============================================================================
