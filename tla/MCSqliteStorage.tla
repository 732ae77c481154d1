--------------------------- MODULE MCSqliteStorage ---------------------------
(***************************************************************************)
(* A database of one chunk, one global key and one player key.             *)
(***************************************************************************)
EXTENDS SqliteStorage

CONSTANTS chunk, nameIdMap, inventory, v1, v2
=============================================================================
