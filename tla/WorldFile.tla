------------------------------ MODULE WorldFile ------------------------------
(***************************************************************************)
(* Opening a world and running on it, across crashes and restarts with     *)
(* another configuration and other game parameters.  A chunk is stored as  *)
(* block ids; what an id means is the name id map's business, and which    *)
(* terrain lies next to a stored chunk is the seed's.  Both are rows of    *)
(* the same database (mapgen_meta and name_id_map in the table kvstore),   *)
(* written when the server starts, before any chunk.                       *)
(***************************************************************************)
EXTENDS Integers, Sequences, FiniteSets

CONSTANTS
    Seeds,        \* what config.mapgen_seed can be, from one start to the next
    Names,        \* block names
    Builtin,      \* NameIdMap::builtin_name_list, ids 1..Len(Builtin)
    ParamFiles,   \* the names of a game-params file, in its order
    ReservedCount,\* the number of names that is refused on loading (255)
    Chunks, NoValue, WritesPerTransaction, MaxWrites

ASSUME WorldAssumption ==
    /\ Builtin \in Seq(Names)
    /\ ParamFiles \subseteq Seq(Names)
    /\ ReservedCount \in Nat
    /\ WritesPerTransaction \in Nat

\* A chunk is its seed, one representative block id, and (history) the name
\* of the block that was put there.
ChunkData == [seed : Seeds, id : 1..ReservedCount, name : Names]

VARIABLES disk, table, open, ctr, writing, log, durable,
          phase,   \* where Server::new and the running server are
          seed,    \* config.mapgen_seed
          names    \* the name id map in memory: id |-> name

MetaRow == "mapgen_meta"
NamesRow == "name_id_map"

\* The rows of kvstore are not chunks, and a row that is there is not one that
\* is not.
ASSUME RowsAssumption ==
    /\ Chunks \cap {MetaRow, NamesRow} = {}
    /\ NoValue \notin [meta : Seeds] \cup [list : Seq(Names)]

Backend == INSTANCE SqliteStorage WITH
    ChunkKeys <- Chunks,
    GlobalKeys <- {MetaRow, NamesRow},
    PlayerKeys <- {},
    Values <- ChunkData
              \cup [meta : Seeds]
              \cup [list : Seq(Names)]

backendVars == <<disk, table, open, ctr, writing, log, durable>>
worldVars == <<disk, table, open, ctr, writing, log, durable,
               phase, seed, names>>

WorldInit ==
    /\ Backend!BackendInit
    /\ phase = "stopped"
    /\ seed \in Seeds
    /\ names = << >>

idle == writing = Backend!NoWrite

-----------------------------------------------------------------------------
\* backends_from_config: a configuration is read and the database opened.
OpenDatabase ==
    /\ phase = "stopped"
    /\ seed' \in Seeds
    /\ phase' = "meta"
    /\ UNCHANGED <<backendVars, names>>

\* Mutant: the configured seed wins.
MetaFromConfig ==
    /\ phase = "meta"
    /\ phase' = "names"
    /\ Backend!SetGlobalKv(MetaRow, [meta |-> seed])
    /\ UNCHANGED <<seed, names>>

\* manage_mapgen_meta_toml: a stored seed wins over the configured one; a new
\* database gets the configured one.
ManageMapgenMeta ==
    /\ phase = "meta"
    /\ phase' = "names"
    /\ IF Backend!Get(MetaRow) # NoValue
       THEN /\ seed' = Backend!Get(MetaRow).meta
            /\ UNCHANGED backendVars
       ELSE /\ Backend!SetGlobalKv(MetaRow, [meta |-> seed])
            /\ UNCHANGED seed
    /\ UNCHANGED names

Kth(S, k) == CHOOSE i \in S : Cardinality({j \in S : j <= i}) = k

Known(nm, name) == \E i \in DOMAIN nm : nm[i] = name

\* The names of the file that are not known yet, each at its first place.
NewNames(nm, file) ==
    LET new == {i \in DOMAIN file : /\ ~Known(nm, file[i])
                                    /\ \A j \in 1..(i - 1) : file[j] # file[i]}
    IN [k \in 1..Cardinality(new) |-> file[Kth(new, k)]]

\* Mutant: ids are given out anew at every start.
ExtendAnew(nm, file) == Builtin \o NewNames(Builtin, file)

\* get_or_extend, for every name of the game params: known names keep their
\* id, new ones get the next free id.
Extend(nm, file) == nm \o NewNames(nm, file)

\* Mutant: nothing is said about the number of names.
LoadNamesUnchecked ==
    /\ phase = "names" /\ idle
    /\ LET stored == Backend!Get(NamesRow)
           known  == IF stored = NoValue THEN Builtin ELSE stored.list
       IN  \E file \in ParamFiles : names' = Extend(known, file)
    /\ phase' = "save"
    /\ UNCHANGED <<backendVars, seed>>

\* load_name_id_map, then the game params extend the map.  A stored map of
\* ReservedCount names or more is refused, and so is a new name once the u8 id
\* counter is exhausted: the server does not start.
LoadNames ==
    /\ phase = "names" /\ idle
    /\ LET stored == Backend!Get(NamesRow)
           known  == IF stored = NoValue THEN Builtin ELSE stored.list
       IN  \/ /\ stored # NoValue
              /\ Len(known) >= ReservedCount
              /\ phase' = "refused"
              /\ UNCHANGED names
           \/ /\ stored = NoValue \/ Len(known) < ReservedCount
              /\ \E file \in ParamFiles :
                    LET nm == Extend(known, file) IN
                    \/ /\ Len(nm) > ReservedCount
                       /\ phase' = "exhausted"
                       /\ UNCHANGED names
                    \/ /\ Len(nm) <= ReservedCount
                       /\ phase' = "save"
                       /\ names' = nm
    /\ UNCHANGED <<backendVars, seed>>

\* save_name_id_map: the map thread only starts after it.
SaveNames ==
    /\ phase = "save"
    /\ Backend!SetGlobalKv(NamesRow, [list |-> names])
    /\ phase' = "running"
    /\ UNCHANGED <<seed, names>>

\* MapgenMsg::ChunkChanged: a generated chunk, or one loaded and edited.  A
\* chunk that is in the database is loaded and not generated again.
StoreChunk(pos) ==
    /\ phase = "running" /\ idle
    /\ \E id \in 1..Len(names) :
          Backend!StoreChunk(pos,
              [seed |-> IF Backend!Get(pos) = NoValue
                        THEN seed ELSE Backend!Get(pos).seed,
               id |-> id, name |-> names[id]])
    /\ UNCHANGED <<phase, seed, names>>

Insert ==
    /\ Backend!Insert
    /\ UNCHANGED <<phase, seed, names>>

Tick ==
    /\ phase = "running"
    /\ Backend!Tick
    /\ UNCHANGED <<phase, seed, names>>

\* The process ends, at any point of the start or later; what it wrote since
\* the last commit is lost.
Crash ==
    /\ phase # "stopped"
    /\ Backend!Crash
    /\ phase' = "stopped"
    /\ names' = << >>
    /\ UNCHANGED seed

WorldNext ==
    \/ OpenDatabase
    \/ ManageMapgenMeta
    \/ LoadNames
    \/ SaveNames
    \/ \E pos \in Chunks : StoreChunk(pos)
    \/ Insert
    \/ Tick
    \/ Crash

WorldSpec == WorldInit /\ [][WorldNext]_worldVars

-----------------------------------------------------------------------------
Phases == {"stopped", "meta", "names", "save", "running",
           "refused", "exhausted"}

WorldTypeOK ==
    /\ phase \in Phases
    /\ seed \in Seeds
    /\ names \in Seq(Names)
    /\ Len(names) <= ReservedCount
    /\ open \in BOOLEAN
    /\ ctr \in 0..WritesPerTransaction
    /\ durable \in 0..Len(log)

StoredChunks(t) == {t[pos] : pos \in {p \in Chunks : t[p] # NoValue}}

\* All chunks of the database come from the seed the server runs with, also
\* when the configured seed changed or the process died while it created the
\* database (manage_mapgen_meta_toml, store_chunk).
OneSeed ==
    /\ phase = "running" => \A c \in StoredChunks(table) : c.seed = seed
    /\ \A c \in StoredChunks(disk) :
          disk[MetaRow] # NoValue /\ disk[MetaRow].meta = c.seed

\* Every id stored in a chunk is valid for load_chunk and still stands for the
\* block it stood for when it was stored, whatever names later game params add
\* or drop, and whichever writes a crash undid.
BlocksKeepTheirNames ==
    /\ phase = "running" =>
          \A c \in StoredChunks(table) :
             c.id \in 1..Len(names) /\ names[c.id] = c.name
    /\ \A c \in StoredChunks(disk) :
          /\ disk[NamesRow] # NoValue
          /\ c.id \in 1..Len(disk[NamesRow].list)
          /\ disk[NamesRow].list[c.id] = c.name
=============================================================================
