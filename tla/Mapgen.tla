------------------------------- MODULE Mapgen -------------------------------
(***************************************************************************)
(* The mapgen thread, the storage behind it and the server's map before    *)
(* it, across crashes.  The thread serves one request after the other:     *)
(* an area to generate, or a chunk the server has edited.  The server      *)
(* takes the chunks that come back at its next tick.                       *)
(*                                                                         *)
(* Chunks lie on a line; the code does the same on each of three axes.  A  *)
(* chunk's data are the chunks whose trees have grown into it and the last *)
(* edit made to it; terrain, plants and ores are left out.                 *)
(***************************************************************************)
EXTENDS Integers, Sequences, FiniteSets, SequencesExt

CONSTANTS
    Chunks,       \* positions on the line
    Areas,        \* the areas the server asks for: [min, max]
    Reach,        \* Reach[q]: the chunks that the trees of q grow into
    Absent,
    QueueBound,   \* bound: requests under way
    MaxEdits,     \* bound: edits
    MaxCrashes    \* bound: crashes

ASSUME MapgenAssumption ==
    /\ Chunks \subseteq Int
    /\ Areas \subseteq [min : Chunks, max : Chunks]
    /\ \A a \in Areas : a.min <= a.max /\ (a.min - 2)..(a.max + 2) \subseteq Chunks
    /\ Reach \in [Chunks -> SUBSET Chunks]
    /\ \A q \in Chunks : Reach[q] \subseteq (q - 1)..(q + 1)
    /\ {QueueBound, MaxEdits, MaxCrashes} \subseteq Nat

VARIABLES
    chunks,     \* MapgenMap::chunks: a function on the positions present
    disk,       \* the chunks that a crash leaves
    unsaved,    \* the chunks stored since, in order, as <<position, data>>
    requests,   \* channel to the mapgen thread
    results,    \* channel back, as <<position, data>>
    world,      \* Map::chunks of the server
    panic,      \* spawn_schematic_mapgen has unwrapped a missing chunk
    last,       \* history: the last edit of each chunk that a crash has not undone
    served,     \* history: the areas served since the start
    edits, crashes

vars == <<chunks, disk, unsaved, requests, results, world, panic, last, served,
          edits, crashes>>

Data == [grown : SUBSET Chunks, edit : 0..MaxEdits]

\* No chunk is not one.
ASSUME AbsentAssumption == Absent \notin Data

\* GenerationPhase: 1, 2 and 3 for PhaseOne, PhaseTwo and Done.  A chunk that
\* came from the storage has lost its tree_spawn_points.
Done == 3
GenArea == [area : Areas]
ChunkChanged == [pos : Chunks, data : Data]

Phase(cs, p) == IF p \in DOMAIN cs THEN cs[p].phase ELSE 0

Around(area, n) == (area.min - n)..(area.max + n)

\* The check whether there is anything to generate looks at a half-open area.
Looked(area) == area.min..(area.max - 1)

Init ==
    /\ chunks = [p \in {} |-> Absent]
    /\ disk = [p \in Chunks |-> Absent] /\ world = disk
    /\ unsaved = << >> /\ requests = << >> /\ results = << >>
    /\ panic = FALSE
    /\ last = [p \in Chunks |-> 0]
    /\ served = {}
    /\ edits = 0 /\ crashes = 0

\* What load_chunk finds: a stored chunk, committed or not.
Stored(p) ==
    LET i == SelectLastInSeq(unsaved, LAMBDA w : w[1] = p)
    IN IF i = 0 THEN disk[p] ELSE unsaved[i][2]

-----------------------------------------------------------------------------
\* gen_chunks_in_area, one loop after the other.

Loadable(area) == {p \in Around(area, 2) \ DOMAIN chunks : Stored(p) # Absent}

Load(area) ==
    [p \in DOMAIN chunks \cup Loadable(area) |->
        IF p \in DOMAIN chunks THEN chunks[p]
        ELSE [data |-> Stored(p), phase |-> Done, loaded |-> TRUE]]

\* Mutant: a chunk that is there is taken to be finished.
SomethingIsAbsent(cs, area) == ~(Looked(area) \subseteq DOMAIN cs)

SomethingToGenerate(cs, area) ==
    \E p \in Looked(area) : Phase(cs, p) # Done

Fresh == [data |-> [grown |-> {}, edit |-> 0], phase |-> 1, loaded |-> FALSE]

\* Mutant: one chunk around the area, as for phase two.
PhaseOneTooNear(cs, area) ==
    [p \in DOMAIN cs \cup Around(area, 1) |-> IF p \in DOMAIN cs THEN cs[p] ELSE Fresh]

PhaseOne(cs, area) ==
    [p \in DOMAIN cs \cup Around(area, 2) |-> IF p \in DOMAIN cs THEN cs[p] ELSE Fresh]

\* Mutant: only the chunks of the area itself.
GrowingInside(cs, area) == {q \in Around(area, 0) : Phase(cs, q) < 2}

Growing(cs, area) == {q \in Around(area, 1) : Phase(cs, q) < 2}

PhaseTwo(cs, growing) ==
    [p \in DOMAIN cs |->
        [cs[p] EXCEPT !.phase = IF p \in growing THEN 2 ELSE @,
                      !.data.grown = @ \cup {q \in growing : p \in Reach[q]}]]

Finish(cs, finished) ==
    [p \in DOMAIN cs |-> IF p \in finished THEN [cs[p] EXCEPT !.phase = Done] ELSE cs[p]]

\* Mutant: every chunk of the area is stored and sent.
FinishedAll(cs, area) == Around(area, 0)

Finished(cs, area) == {p \in Around(area, 0) : Phase(cs, p) # Done}

\* The k-th of the chunks ps, in the order in which the loops meet them.
Kth(ps, k) == CHOOSE p \in ps : Cardinality({q \in ps : q <= p}) = k

InOrder(cs, ps) == [k \in 1..Cardinality(ps) |-> <<Kth(ps, k), cs[Kth(ps, k)].data>>]

ServeArea ==
    /\ requests # << >> /\ Head(requests) \in GenArea
    /\ LET area == Head(requests).area
           loaded == Load(area)
           sent == InOrder(loaded, Loadable(area))
           one == PhaseOne(loaded, area)
           growing == Growing(one, area)
           two == PhaseTwo(one, growing)
           finished == Finished(two, area)
       IN /\ served' = served \cup {area}
          /\ \/ /\ ~SomethingToGenerate(loaded, area)
                /\ chunks' = loaded
                /\ results' = results \o sent
                /\ UNCHANGED <<unsaved, panic>>
             \/ /\ SomethingToGenerate(loaded, area)
                /\ chunks' = Finish(two, finished)
                /\ unsaved' = unsaved \o InOrder(two, finished)
                /\ results' = results \o sent \o InOrder(two, finished)
                /\ panic' = (\E q \in growing : ~(Reach[q] \subseteq DOMAIN one))
    /\ requests' = Tail(requests)
    /\ UNCHANGED <<disk, world, last, edits, crashes>>

\* The thread's own copy is not touched.
ServeChanged ==
    /\ requests # << >> /\ Head(requests) \in ChunkChanged
    /\ unsaved' = Append(unsaved, <<Head(requests).pos, Head(requests).data>>)
    /\ requests' = Tail(requests)
    /\ UNCHANGED <<chunks, disk, results, world, panic, last, served, edits, crashes>>

\* The storage ends its transaction, by count or by MapgenMsg::Tick: some of
\* the writes, in order, are safe.
Commit ==
    /\ \E n \in 1..Len(unsaved) :
        /\ disk' = [p \in Chunks |->
              LET i == SelectLastInSubSeq(unsaved, 1, n, LAMBDA w : w[1] = p)
              IN IF i = 0 THEN disk[p] ELSE unsaved[i][2]]
        /\ unsaved' = SubSeq(unsaved, n + 1, Len(unsaved))
    /\ UNCHANGED <<chunks, requests, results, world, panic, last, served, edits, crashes>>

-----------------------------------------------------------------------------
\* Server::tick, when a player has come to another chunk.
RequestArea ==
    /\ Len(requests) < QueueBound
    /\ \E area \in Areas : requests' = Append(requests, [area |-> area])
    /\ UNCHANGED <<chunks, disk, unsaved, results, world, panic, last, served,
                   edits, crashes>>

\* Map::tick, for one chunk.
MapTick ==
    /\ results # << >>
    /\ world' = [world EXCEPT ![Head(results)[1]] = Head(results)[2]]
    /\ results' = Tail(results)
    /\ UNCHANGED <<chunks, disk, unsaved, requests, panic, last, served, edits, crashes>>

\* Mutant: get_blk_mut_no_upd instead of get_blk_mut.
EditNoUpdate(p) ==
    /\ world[p] # Absent
    /\ edits < MaxEdits /\ Len(requests) < QueueBound
    /\ edits' = edits + 1
    /\ world' = [world EXCEPT ![p].edit = edits']
    /\ last' = [last EXCEPT ![p] = edits']
    /\ UNCHANGED <<chunks, disk, unsaved, requests, results, panic, served, crashes>>

\* MapBlockHandle::set, MetadataHandle::set and clear: the whole chunk goes to
\* the mapgen thread.
Edit(p) ==
    /\ world[p] # Absent
    /\ edits < MaxEdits /\ Len(requests) < QueueBound
    /\ edits' = edits + 1
    /\ world' = [world EXCEPT ![p].edit = edits']
    /\ requests' = Append(requests, [pos |-> p, data |-> world'[p]])
    /\ last' = [last EXCEPT ![p] = edits']
    /\ UNCHANGED <<chunks, disk, unsaved, results, panic, served, crashes>>

\* The process dies and a new one starts on the same world.
Crash ==
    /\ crashes < MaxCrashes
    /\ crashes' = crashes + 1
    /\ chunks' = [p \in {} |-> Absent]
    /\ world' = [p \in Chunks |-> Absent]
    /\ unsaved' = << >> /\ requests' = << >> /\ results' = << >>
    /\ last' = [p \in Chunks |-> IF disk[p] = Absent THEN 0 ELSE disk[p].edit]
    /\ served' = {}
    /\ UNCHANGED <<disk, panic, edits>>

MapgenStep == ServeArea \/ ServeChanged \/ Commit
ServerStep == RequestArea \/ MapTick \/ \E p \in Chunks : Edit(p)

Next == ~panic /\ (MapgenStep \/ ServerStep \/ Crash)
Spec == Init /\ [][Next]_vars

-----------------------------------------------------------------------------
\* A tree finds the chunks it grows into: phase two never reaches further than
\* phase one went before (the unwrap in spawn_schematic_mapgen).
SchematicsFindTheirChunks == ~panic

\* A chunk that was finished, stored and sent in this run is never grown into
\* again, and has got all the trees of its neighbours that were not loaded as
\* finished themselves (gen_chunks_in_area's margins of two and one).
TreesGrowWhole ==
    \A p \in DOMAIN chunks :
       (chunks[p].phase = Done /\ ~chunks[p].loaded) =>
          \A q \in Chunks : p \in Reach[q] =>
             /\ Phase(chunks, q) >= 2
             /\ q \in chunks[p].data.grown \/ chunks[q].loaded

\* What the server shows of a chunk is its last edit: no chunk that comes from
\* the mapgen thread later undoes it, and after a restart the last one that was
\* committed is there (Map::tick inserts whatever comes).
EditsSurvive == \A p \in Chunks : world[p] # Absent => world[p].edit = last[p]

\* Once the mapgen thread has read all that was sent to it, the storage holds
\* every chunk as the server has it (chunk_changed after each edit).
StoredIsCurrent ==
    requests = << >> => \A p \in Chunks : world[p] # Absent => Stored(p) = world[p]

\* The chunks of an area that was served are on the server or on their way,
\* whatever was generated, loaded or left half done before by requests for
\* other areas.
AreasArrive ==
    \A area \in served : \A p \in Looked(area) :
        \/ world[p] # Absent
        \/ \E i \in DOMAIN results : results[i][1] = p
=============================================================================
