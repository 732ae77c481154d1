------------------------------ MODULE MCMapSync ------------------------------
(* Two players on a line of chunks *)
EXTENDS MapSync

MCChunks == 0..2
MCPlaces == {0, 2}
=============================================================================
