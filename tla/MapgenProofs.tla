---------------------------- MODULE MapgenProofs ----------------------------
(***************************************************************************)
(* For every line of chunks, every areas with their margins, and all trees *)
(* that grow into neighbours at most: a tree always finds the chunks it    *)
(* grows into, and a finished chunk is whole.  That the margins of the     *)
(* loops, two and one, are enough is what the first proofs rest on.        *)
(*                                                                         *)
(* Then, for queues, edits and crashes of any number: a chunk is away, on  *)
(* its way to the server as it is stored, or there as it was last edited,  *)
(* and then the storage has it or a request on its way brings it there.    *)
(***************************************************************************)
EXTENDS Mapgen, SequenceTheorems, FiniteSetTheorems, WellFoundedInduction, TLAPS

\* Only what was stored, and so finished, is loaded.
Shaped(cs) ==
    /\ DOMAIN cs \subseteq Chunks
    /\ \A p \in DOMAIN cs :
          /\ cs[p] = [data |-> cs[p].data, phase |-> cs[p].phase, loaded |-> cs[p].loaded]
          /\ cs[p].phase \in 1..Done
          /\ cs[p].loaded \in BOOLEAN
          /\ cs[p].loaded => cs[p].phase = Done
          /\ ~cs[p].loaded => cs[p].data \in Data

\* The trees of a chunk in phase two are wherever they reach, but for what was
\* loaded.
Grown(cs) ==
    \A q \in DOMAIN cs :
       (cs[q].phase >= 2 /\ ~cs[q].loaded) =>
          \A p \in Reach[q] :
             p \in DOMAIN cs /\ (cs[p].loaded \/ q \in cs[p].data.grown)

\* Whatever reaches into a chunk finished in this run is in phase two.
Surrounded(cs) ==
    \A p \in DOMAIN cs :
       (cs[p].phase = Done /\ ~cs[p].loaded) =>
          \A q \in Chunks : p \in Reach[q] => Phase(cs, q) >= 2

Good(cs) == Shaped(cs) /\ Grown(cs) /\ Surrounded(cs)

MapgenInv == Good(chunks) /\ ~panic

-----------------------------------------------------------------------------
\* The margins of an area lie on the line.
LEMMA Margins ==
    ASSUME NEW area \in Areas
    PROVE  /\ Around(area, 2) \subseteq Chunks
           /\ Around(area, 1) \subseteq Around(area, 2)
           /\ Around(area, 0) \subseteq Around(area, 1)
           /\ \A q \in Around(area, 1) : Reach[q] \subseteq Around(area, 2)
           /\ \A p \in Around(area, 0), q \in Chunks :
                 p \in Reach[q] => q \in Around(area, 1)
  <1>1. area.min \in Int /\ area.max \in Int
    BY MapgenAssumption
  <1>2. \A q \in Chunks : q \in Int /\ Reach[q] \subseteq (q - 1)..(q + 1)
    BY MapgenAssumption
  <1>3. Around(area, 2) \subseteq Chunks
    BY MapgenAssumption DEF Around
  <1>4. \A q \in Around(area, 1) : q \in Chunks
    BY <1>1, <1>3 DEF Around
  <1> QED
    BY <1>1, <1>2, <1>3, <1>4 DEF Around

\* Loading adds finished chunks and touches none that are there.
LEMMA LoadKeeps ==
    ASSUME Good(chunks), NEW area \in Areas
    PROVE  Good(Load(area))
  <1> DEFINE l == Load(area)
  <1>1. /\ DOMAIN chunks \subseteq DOMAIN l
        /\ DOMAIN l \subseteq Chunks
        /\ \A p \in DOMAIN chunks : l[p] = chunks[p]
        /\ \A p \in DOMAIN l \ DOMAIN chunks :
              l[p] = [data |-> Stored(p), phase |-> Done, loaded |-> TRUE]
    BY Margins DEF Load, Loadable, Good, Shaped
  <1> HIDE DEF l
  <1>2. Shaped(l)
    <2> SUFFICES ASSUME NEW p \in DOMAIN l
                 PROVE  /\ l[p] = [data |-> l[p].data, phase |-> l[p].phase,
                                   loaded |-> l[p].loaded]
                        /\ l[p].phase \in 1..Done
                        /\ l[p].loaded \in BOOLEAN
                        /\ l[p].loaded => l[p].phase = Done
                        /\ ~l[p].loaded => l[p].data \in Data
      BY <1>1 DEF Shaped
    <2>1. CASE p \in DOMAIN chunks
      BY <2>1, <1>1 DEF Good, Shaped
    <2>2. CASE p \notin DOMAIN chunks
      <3>1. l[p].data = Stored(p) /\ l[p].phase = Done /\ l[p].loaded = TRUE
        BY <2>2, <1>1
      <3>2. l[p] = [data |-> l[p].data, phase |-> l[p].phase, loaded |-> l[p].loaded]
        BY <3>1, <2>2, <1>1, Zenon
      <3>3. l[p].phase \in 1..Done
        BY <3>1 DEF Done
      <3> QED
        BY <3>1, <3>2, <3>3, Zenon
    <2> QED
      BY <2>1, <2>2
  <1>3. Grown(l)
    BY <1>1 DEF Good, Grown, Done
  <1>4. \A p \in DOMAIN chunks : Phase(l, p) = Phase(chunks, p)
    BY <1>1 DEF Phase
  <1>5. \A q : Phase(chunks, q) >= 2 => Phase(l, q) >= 2
    BY <1>4, <1>1 DEF Phase
  <1>6. Surrounded(l)
    BY <1>1, <1>5 DEF Good, Surrounded, Done
  <1> QED
    BY <1>2, <1>3, <1>6 DEF Good, l

\* Phase one fills the area and two chunks around it.
LEMMA PhaseOneKeeps ==
    ASSUME NEW cs, Good(cs), NEW area \in Areas
    PROVE  Good(PhaseOne(cs, area)) /\ Around(area, 2) \subseteq DOMAIN PhaseOne(cs, area)
  <1> DEFINE one == PhaseOne(cs, area)
  <1>1. /\ DOMAIN one = DOMAIN cs \cup Around(area, 2)
        /\ DOMAIN one \subseteq Chunks
        /\ \A p \in DOMAIN cs : one[p] = cs[p]
        /\ \A p \in DOMAIN one \ DOMAIN cs : one[p] = Fresh
    BY Margins DEF PhaseOne, Good, Shaped
  <1>2. /\ Fresh = [data |-> Fresh.data, phase |-> Fresh.phase, loaded |-> Fresh.loaded]
        /\ Fresh.phase = 1 /\ Fresh.loaded = FALSE
        /\ Fresh.data \in Data
    BY MapgenAssumption DEF Fresh, Data
  <1> HIDE DEF one
  <1>3. Shaped(one)
    <2> SUFFICES ASSUME NEW p \in DOMAIN one
                 PROVE  /\ one[p] = [data |-> one[p].data, phase |-> one[p].phase,
                                     loaded |-> one[p].loaded]
                        /\ one[p].phase \in 1..Done
                        /\ one[p].loaded \in BOOLEAN
                        /\ one[p].loaded => one[p].phase = Done
                        /\ ~one[p].loaded => one[p].data \in Data
      BY <1>1 DEF Shaped
    <2>1. CASE p \in DOMAIN cs
      BY <2>1, <1>1 DEF Good, Shaped
    <2>2. CASE p \notin DOMAIN cs
      <3>1. one[p] = Fresh
        BY <2>2, <1>1
      <3>2. Fresh.phase \in 1..Done
        BY <1>2 DEF Done
      <3> QED
        BY <3>1, <3>2, <1>2, Zenon
    <2> QED
      BY <2>1, <2>2
  <1>4. Grown(one)
    BY <1>1, <1>2 DEF Good, Grown
  <1>5. \A q : Phase(cs, q) >= 2 => Phase(one, q) >= 2
    BY <1>1 DEF Phase
  <1>6. Surrounded(one)
    BY <1>1, <1>2, <1>5 DEF Good, Surrounded, Done
  <1> QED
    BY <1>1, <1>3, <1>4, <1>6 DEF Good, one

\* Phase two, with phase one done around it, leaves the area and one chunk
\* around it with their trees grown.
LEMMA PhaseTwoKeeps ==
    ASSUME NEW cs, Good(cs), NEW area \in Areas, Around(area, 2) \subseteq DOMAIN cs
    PROVE  LET two == PhaseTwo(cs, Growing(cs, area))
           IN Good(two) /\ \A q \in Around(area, 1) : Phase(two, q) >= 2
  <1> DEFINE growing == Growing(cs, area)
             two == PhaseTwo(cs, growing)
  <1>1. /\ growing \subseteq DOMAIN cs
        /\ \A q \in growing : q \in Around(area, 1) /\ cs[q].phase < 2
        /\ \A q \in Around(area, 1) \ growing : q \in DOMAIN cs /\ ~(cs[q].phase < 2)
    BY Margins DEF Growing, Phase
  <1> HIDE DEF growing
  <1>2. /\ DOMAIN two = DOMAIN cs
        /\ \A p \in DOMAIN cs :
              /\ two[p] = [data |-> two[p].data, phase |-> two[p].phase,
                           loaded |-> two[p].loaded]
              /\ two[p].loaded = cs[p].loaded
              /\ two[p].phase = IF p \in growing THEN 2 ELSE cs[p].phase
              /\ ~cs[p].loaded =>
                    /\ two[p].data \in Data
                    /\ two[p].data.grown =
                          cs[p].data.grown \cup {q \in growing : p \in Reach[q]}
    <2> SUFFICES ASSUME NEW p \in DOMAIN cs
                 PROVE  /\ two[p] = [data |-> two[p].data, phase |-> two[p].phase,
                                     loaded |-> two[p].loaded]
                        /\ two[p].loaded = cs[p].loaded
                        /\ two[p].phase = IF p \in growing THEN 2 ELSE cs[p].phase
                        /\ ~cs[p].loaded =>
                              /\ two[p].data \in Data
                              /\ two[p].data.grown =
                                    cs[p].data.grown \cup {q \in growing : p \in Reach[q]}
      BY DEF PhaseTwo
    <2>1. cs[p] = [data |-> cs[p].data, phase |-> cs[p].phase, loaded |-> cs[p].loaded]
      BY DEF Good, Shaped
    <2>2. two[p] = [data |-> [cs[p].data EXCEPT !.grown = @ \cup {q \in growing : p \in Reach[q]}],
                    phase |-> IF p \in growing THEN 2 ELSE cs[p].phase,
                    loaded |-> cs[p].loaded]
      BY <2>1 DEF PhaseTwo
    <2>3. growing \subseteq Chunks
      BY <1>1 DEF Good, Shaped
    <2>4. ~cs[p].loaded => cs[p].data \in Data
      BY DEF Good, Shaped
    <2> HIDE DEF two
    <2> QED
      BY <2>2, <2>3, <2>4 DEF Data
  <1> HIDE DEF two
  <1>3. \A q \in growing : ~cs[q].loaded
    BY <1>1 DEF Good, Shaped, Done
  <1>4. Shaped(two)
    BY <1>2, <1>3 DEF Good, Shaped, Done
  <1>5. \A q \in growing : Reach[q] \subseteq DOMAIN cs
    BY <1>1, Margins
  <1>6. Grown(two)
    <2> SUFFICES ASSUME NEW q \in DOMAIN cs, two[q].phase >= 2, ~cs[q].loaded,
                        NEW p \in Reach[q]
                 PROVE  p \in DOMAIN cs /\ (cs[p].loaded \/ q \in two[p].data.grown)
      BY <1>2 DEF Grown
    <2>1. CASE q \in growing
      BY <2>1, <1>2, <1>5
    <2>2. CASE q \notin growing
      <3>1. cs[q].phase >= 2
        BY <2>2, <1>2
      <3> QED
        BY <3>1, <1>2 DEF Good, Grown
    <2> QED
      BY <2>1, <2>2
  <1>7. \A q \in DOMAIN cs : Phase(cs, q) >= 2 => Phase(two, q) >= 2
    BY <1>2 DEF Phase
  <1>8. Surrounded(two)
    <2> SUFFICES ASSUME NEW p \in DOMAIN cs, two[p].phase = Done, ~cs[p].loaded,
                        NEW q \in Chunks, p \in Reach[q]
                 PROVE  Phase(two, q) >= 2
      BY <1>2 DEF Surrounded
    <2>1. cs[p].phase = Done
      BY <1>2 DEF Done
    <2>2. Phase(cs, q) >= 2
      BY <2>1 DEF Good, Surrounded
    <2>3. q \in DOMAIN cs
      BY <2>2 DEF Phase
    <2> QED
      BY <2>2, <2>3, <1>7
  <1>9. \A q \in Around(area, 1) : Phase(two, q) >= 2
    <2> SUFFICES ASSUME NEW q \in Around(area, 1)
                 PROVE  Phase(two, q) >= 2
      OBVIOUS
    <2>1. q \in DOMAIN cs /\ cs[q].phase \in 1..Done
      BY Margins DEF Good, Shaped
    <2> QED
      BY <2>1, <1>1, <1>2 DEF Phase, Done
  <1> QED
    BY <1>4, <1>6, <1>8, <1>9 DEF Good, two, growing

\* What is finished is surrounded by chunks in phase two.
LEMMA FinishKeeps ==
    ASSUME NEW cs, Good(cs), NEW area \in Areas,
           \A q \in Around(area, 1) : Phase(cs, q) >= 2
    PROVE  Good(Finish(cs, Finished(cs, area)))
  <1> DEFINE finished == Finished(cs, area)
             f == Finish(cs, finished)
  <1>1. finished \subseteq Around(area, 0)
    BY DEF Finished
  <1>2. \A p \in finished : p \in DOMAIN cs /\ cs[p].phase >= 2
    BY <1>1, Margins DEF Phase
  <1> HIDE DEF finished
  <1>3. /\ DOMAIN f = DOMAIN cs
        /\ \A p \in DOMAIN cs :
              f[p] = [data |-> cs[p].data,
                      phase |-> IF p \in finished THEN Done ELSE cs[p].phase,
                      loaded |-> cs[p].loaded]
    BY DEF Finish, Good, Shaped
  <1> HIDE DEF f
  <1>4. Shaped(f)
    BY <1>3 DEF Good, Shaped, Done
  <1>5. Grown(f)
    BY <1>2, <1>3 DEF Good, Grown, Done
  <1>6. \A q : Phase(cs, q) >= 2 => Phase(f, q) >= 2
    BY <1>3 DEF Phase, Done
  <1>7. Surrounded(f)
    <2> SUFFICES ASSUME NEW p \in DOMAIN cs, f[p].phase = Done, ~cs[p].loaded,
                        NEW q \in Chunks, p \in Reach[q]
                 PROVE  Phase(cs, q) >= 2
      BY <1>3, <1>6 DEF Surrounded
    <2>1. CASE p \in finished
      BY <2>1, <1>1, Margins
    <2>2. CASE p \notin finished
      BY <2>2, <1>3 DEF Good, Surrounded
    <2> QED
      BY <2>1, <2>2
  <1> QED
    BY <1>4, <1>5, <1>7 DEF Good, f, finished

-----------------------------------------------------------------------------
LEMMA InitMapgenInv == Init => MapgenInv
  BY DEF Init, MapgenInv, Good, Shaped, Grown, Surrounded

LEMMA ServeAreaKeeps ==
    ASSUME MapgenInv, ServeArea, \A m \in GenArea : m.area \in Areas
    PROVE  MapgenInv'
  <1> DEFINE area == Head(requests).area
             loaded == Load(area)
             one == PhaseOne(loaded, area)
             growing == Growing(one, area)
             two == PhaseTwo(one, growing)
             finished == Finished(two, area)
  <1>1. area \in Areas
    BY DEF ServeArea
  <1> HIDE DEF area
  <1>2. Good(loaded)
    BY <1>1, LoadKeeps DEF MapgenInv
  <1> HIDE DEF loaded
  <1>3. Good(one) /\ Around(area, 2) \subseteq DOMAIN one
    BY <1>1, <1>2, PhaseOneKeeps
  <1> HIDE DEF one
  <1>4. Good(two) /\ \A q \in Around(area, 1) : Phase(two, q) >= 2
    BY <1>1, <1>3, PhaseTwoKeeps
  <1>5. growing \subseteq Around(area, 1)
    BY DEF Growing
  <1>6. \A q \in growing : Reach[q] \subseteq DOMAIN one
    BY <1>1, <1>3, <1>5, Margins
  <1> HIDE DEF growing, two
  <1>7. Good(Finish(two, finished))
    BY <1>1, <1>4, FinishKeeps
  <1> HIDE DEF finished
  <1>8. CASE chunks' = loaded /\ UNCHANGED panic
    BY <1>8, <1>2 DEF MapgenInv, Good, Shaped, Grown, Surrounded, Phase
  <1>9. CASE /\ chunks' = Finish(two, finished)
             /\ panic' = (\E q \in growing : ~(Reach[q] \subseteq DOMAIN one))
    <2>1. panic' = FALSE
      BY <1>6, <1>9
    <2> QED
      BY <2>1, <1>9, <1>7 DEF MapgenInv, Good, Shaped, Grown, Surrounded, Phase
  <1> QED
    BY <1>8, <1>9 DEF ServeArea, area, loaded, one, growing, two, finished

LEMMA NextMapgenInv ==
    ASSUME MapgenInv, [Next]_vars
    PROVE  MapgenInv'
  <1>1. CASE ServeArea
    BY <1>1, ServeAreaKeeps DEF GenArea
  <1>2. CASE UNCHANGED <<chunks, panic>>
    BY <1>2 DEF MapgenInv, Good, Shaped, Grown, Surrounded, Phase
  <1>3. CASE Crash
    BY <1>3 DEF Crash, MapgenInv, Good, Shaped, Grown, Surrounded
  <1> QED
    BY <1>1, <1>2, <1>3 DEF Next, vars, MapgenStep, ServerStep, ServeChanged, Commit,
       RequestArea, MapTick, Edit

LEMMA MapgenInvImplies ==
    ASSUME MapgenInv
    PROVE  SchematicsFindTheirChunks /\ TreesGrowWhole
  <1>1. TreesGrowWhole
    <2> SUFFICES ASSUME NEW p \in DOMAIN chunks, chunks[p].phase = Done,
                        ~chunks[p].loaded, NEW q \in Chunks, p \in Reach[q]
                 PROVE  /\ Phase(chunks, q) >= 2
                        /\ q \in chunks[p].data.grown \/ chunks[q].loaded
      BY DEF TreesGrowWhole
    <2>1. Phase(chunks, q) >= 2
      BY DEF MapgenInv, Good, Surrounded
    <2>2. q \in DOMAIN chunks /\ chunks[q].phase >= 2
      BY <2>1 DEF Phase
    <2> QED
      BY <2>1, <2>2 DEF MapgenInv, Good, Grown
  <1> QED
    BY <1>1 DEF MapgenInv, SchematicsFindTheirChunks

\* spawn_schematic_mapgen never unwraps a missing chunk, however areas overlap
\* and whatever is loaded.
THEOREM SchematicsSafe == Spec => []SchematicsFindTheirChunks
  <1>1. Init => MapgenInv
    BY InitMapgenInv
  <1>2. MapgenInv /\ [Next]_vars => MapgenInv'
    BY NextMapgenInv
  <1>3. MapgenInv => SchematicsFindTheirChunks
    BY MapgenInvImplies
  <1> QED
    BY <1>1, <1>2, <1>3, PTL DEF Spec

\* A chunk that was finished, and so stored and sent, in this run has the trees
\* of all its neighbours, but for those that were loaded as finished.
THEOREM TreesWhole == Spec => []TreesGrowWhole
  <1>1. Init => MapgenInv
    BY InitMapgenInv
  <1>2. MapgenInv /\ [Next]_vars => MapgenInv'
    BY NextMapgenInv
  <1>3. MapgenInv => TreesGrowWhole
    BY MapgenInvImplies
  <1> QED
    BY <1>1, <1>2, <1>3, PTL DEF Spec

-----------------------------------------------------------------------------
(* Chunks in order. *)

LEMMA Smallest ==
    ASSUME NEW T, T \subseteq Nat, T # {}
    PROVE  \E m \in T : \A y \in T : m <= y
  <1>1. PICK m \in T : \A y \in T : ~(<<y, m>> \in OpToRel(<, Nat))
    BY NatLessThanWellFounded, WFMin
  <1>2. ASSUME NEW y \in T PROVE m <= y
    <2>1. m \in Nat /\ y \in Nat
      OBVIOUS
    <2>2. ~(y < m)
      BY <1>1, <2>1 DEF OpToRel
    <2> QED
      BY <2>1, <2>2
  <1> QED
    BY <1>2

LEMMA Largest ==
    ASSUME NEW n \in Nat, NEW S \in SUBSET (1..n), S # {}
    PROVE  \E x \in S : \A y \in S : y <= x
  <1> DEFINE T == {m \in Nat : \E x \in S : m = n - x}
  <1>1. \A x \in S : x \in 1..n
    OBVIOUS
  <1>2. \A x \in S : n - x \in T
    BY <1>1
  <1>3. T \subseteq Nat /\ T # {}
    BY <1>2
  <1>4. PICK m \in T : \A y \in T : m <= y
    <2> HIDE DEF T
    <2> QED
      BY <1>3, Smallest
  <1>5. PICK x \in S : m = n - x
    BY <1>4
  <1>6. \A y \in S : m <= n - y
    BY <1>2, <1>4
  <1> QED
    BY <1>1, <1>5, <1>6

\* The chunks ps lie from a to b.
Between(ps, a, b) == \A p \in ps : p \in a..b

LEMMA IntervalParts ==
    ASSUME NEW a \in Int, NEW b \in Int, NEW ps, Between(ps, a, b)
    PROVE  /\ IsFiniteSet(ps) /\ Cardinality(ps) \in Nat /\ ps \in SUBSET Int
           /\ \A p \in ps : p \in Int /\ a <= p /\ p <= b
  <1>1. IsFiniteSet(a..b)
    BY FS_Interval
  <1>2. IsFiniteSet(ps)
    <2>1. ps \in SUBSET (a..b)
      BY DEF Between
    <2> QED
      BY <1>1, <2>1, FS_Subset
  <1>3. Cardinality(ps) \in Nat
    BY <1>2, FS_CardinalityType
  <1>4. \A p \in ps : p \in a..b
    BY DEF Between
  <1>5. \A p \in ps : p \in Int /\ a <= p /\ p <= b
    BY <1>4
  <1> QED
    BY <1>2, <1>3, <1>5

UpTo(ps, m) == {q \in ps : q <= m}

LEMMA UpToCounts ==
    ASSUME NEW ps \in SUBSET Int, IsFiniteSet(ps), NEW m \in Int
    PROVE  /\ Cardinality(UpTo(ps, m)) \in Nat
           /\ Cardinality(UpTo(ps, m)) <= Cardinality(ps)
           /\ Cardinality(UpTo(ps, m + 1)) =
                 Cardinality(UpTo(ps, m)) + (IF m + 1 \in ps THEN 1 ELSE 0)
  <1>1. UpTo(ps, m) \in SUBSET ps
    BY DEF UpTo
  <1>2. /\ IsFiniteSet(UpTo(ps, m)) /\ Cardinality(UpTo(ps, m)) \in Nat
        /\ Cardinality(UpTo(ps, m)) <= Cardinality(ps)
    BY <1>1, FS_Subset, FS_CardinalityType
  <1>3. \A q \in ps : q <= m + 1 <=> q <= m \/ q = m + 1
    OBVIOUS
  <1>4. CASE m + 1 \in ps
    <2>1. UpTo(ps, m + 1) = UpTo(ps, m) \cup {m + 1} /\ m + 1 \notin UpTo(ps, m)
      <3>1. ~(m + 1 <= m)
        OBVIOUS
      <3> QED
        BY <1>4, <1>3, <3>1 DEF UpTo
    <2> QED
      BY <1>2, <1>4, <2>1, FS_AddElement
  <1>5. CASE m + 1 \notin ps
    <2>1. UpTo(ps, m + 1) = UpTo(ps, m)
      BY <1>5, <1>3 DEF UpTo
    <2> QED
      BY <1>2, <1>5, <2>1
  <1> QED
    BY <1>2, <1>4, <1>5

\* There is a k-th chunk: the first one up to which there are k.
LEMMA KthExists ==
    ASSUME NEW a \in Int, NEW b \in Int, NEW ps, Between(ps, a, b)
    PROVE  \A k \in 1..Cardinality(ps) : \E p \in ps : Cardinality(UpTo(ps, p)) = k
  <1> TAKE k \in 1..Cardinality(ps)
  <1>1. /\ IsFiniteSet(ps) /\ ps \in SUBSET Int /\ Cardinality(ps) \in Nat
        /\ \A p \in ps : p \in Int /\ a <= p /\ p <= b
    BY IntervalParts
  <1> DEFINE T == {m \in Nat : Cardinality(UpTo(ps, a - 1 + m)) >= k}
  <1>2. ps # {}
    BY <1>1, FS_EmptySet
  <1>3. b - a + 1 \in T
    <2>1. UpTo(ps, b) = ps
      BY <1>1 DEF UpTo
    <2>2. PICK p \in ps : p \in Int /\ a <= p /\ p <= b
      BY <1>1, <1>2
    <2>3. a <= b /\ a - 1 + (b - a + 1) = b /\ b - a + 1 \in Nat
      BY <2>2
    <2> QED
      BY <1>1, <2>1, <2>3
  <1>4. PICK m \in T : \A y \in T : m <= y
    <2>1. T \subseteq Nat /\ T # {}
      BY <1>3
    <2> HIDE DEF T
    <2> QED
      BY <2>1, Smallest
  <1>5. m \in Nat /\ Cardinality(UpTo(ps, a - 1 + m)) >= k
    BY <1>4
  <1>6. m # 0
    <2>1. UpTo(ps, a - 1 + 0) = {}
      <3>1. \A p \in ps : ~(p <= a - 1 + 0)
        BY <1>1
      <3> QED
        BY <3>1 DEF UpTo
    <2> QED
      BY <1>1, <1>5, <2>1, FS_EmptySet
  <1>7. m - 1 \in Nat /\ m - 1 \notin T
    <2>1. m - 1 \in Nat /\ ~(m <= m - 1)
      BY <1>5, <1>6
    <2> HIDE DEF T
    <2> QED
      BY <1>4, <2>1
  <1> DEFINE l == a - 1 + (m - 1)
  <1>8. l \in Int /\ l + 1 = a - 1 + m /\ ~(Cardinality(UpTo(ps, l)) >= k)
    BY <1>5, <1>7
  <1> HIDE DEF l, T
  <1>9. /\ Cardinality(UpTo(ps, l)) \in Nat
        /\ Cardinality(UpTo(ps, l + 1)) =
              Cardinality(UpTo(ps, l)) + (IF l + 1 \in ps THEN 1 ELSE 0)
    BY <1>1, <1>8, UpToCounts
  <1>10. Cardinality(UpTo(ps, l + 1)) >= k
    BY <1>5, <1>8
  <1> QED
    BY <1>1, <1>8, <1>9, <1>10

\* The chunks after p are counted later.
LEMMA UpToGrows ==
    ASSUME NEW ps \in SUBSET Int, IsFiniteSet(ps), NEW p \in ps, NEW q \in ps,
           Cardinality(UpTo(ps, p)) = Cardinality(UpTo(ps, q))
    PROVE  p = q
  <1>1. ASSUME NEW x \in ps, NEW y \in ps, x < y,
               Cardinality(UpTo(ps, x)) = Cardinality(UpTo(ps, y))
        PROVE  FALSE
    <2>1. UpTo(ps, y) \in SUBSET ps /\ UpTo(ps, x) \in SUBSET UpTo(ps, y)
      <3>1. \A z \in ps : z <= x => z <= y
        BY <1>1
      <3> QED
        BY <3>1 DEF UpTo
    <2>2. IsFiniteSet(UpTo(ps, y))
      BY <2>1, FS_Subset
    <2>3. UpTo(ps, x) = UpTo(ps, y)
      BY <1>1, <2>1, <2>2, FS_Subset
    <2> QED
      BY <1>1, <2>3 DEF UpTo
  <1>2. p \in Int /\ q \in Int
    OBVIOUS
  <1> QED
    BY <1>1, <1>2

\* The sequence s lists what cs holds of the chunks ps, each once.
Lists(s, cs, ps) ==
    /\ Len(s) \in Nat /\ DOMAIN s = 1..Len(s)
    /\ \A i \in 1..Len(s) : s[i][1] \in ps /\ s[i] = <<s[i][1], cs[s[i][1]].data>>
    /\ \A p \in ps : \E i \in 1..Len(s) : s[i][1] = p
    /\ \A i, j \in 1..Len(s) : s[i][1] = s[j][1] => i = j

LEMMA InOrderLists ==
    ASSUME NEW a \in Int, NEW b \in Int, NEW ps, Between(ps, a, b), NEW cs,
           \A p \in ps : p \in Chunks /\ cs[p].data \in Data
    PROVE  Lists(InOrder(cs, ps), cs, ps) /\ InOrder(cs, ps) \in Seq(Chunks \X Data)
  <1> DEFINE n == Cardinality(ps)
             s == InOrder(cs, ps)
  <1>1. \A k \in 1..n : \E p \in ps : Cardinality(UpTo(ps, p)) = k
    BY KthExists
  <1>2. IsFiniteSet(ps) /\ ps \in SUBSET Int /\ n \in Nat
    BY IntervalParts
  <1>3. ASSUME NEW k \in 1..n
        PROVE  Kth(ps, k) \in ps /\ Cardinality(UpTo(ps, Kth(ps, k))) = k
    <2>1. \E p \in ps : Cardinality(UpTo(ps, p)) = k
      BY <1>1
    <2>2. Kth(ps, k) = CHOOSE p \in ps : Cardinality(UpTo(ps, p)) = k
      BY DEF Kth, UpTo
    <2> QED
      BY <2>1, <2>2
  <1>4. s = [k \in 1..n |-> <<Kth(ps, k), cs[Kth(ps, k)].data>>]
    BY DEF InOrder
  <1> HIDE DEF n, s
  <1>5. s \in Seq(Chunks \X Data) /\ Len(s) = n /\ DOMAIN s = 1..n
    <2>1. \A k \in 1..n : <<Kth(ps, k), cs[Kth(ps, k)].data>> \in Chunks \X Data
      BY <1>3
    <2> QED
      BY <1>2, <1>4, <2>1
  <1>6. \A i \in 1..n : s[i] = <<Kth(ps, i), cs[Kth(ps, i)].data>> /\ s[i][1] = Kth(ps, i)
    BY <1>4
  <1>7. ASSUME NEW p \in ps PROVE \E i \in 1..n : s[i][1] = p
    <2> DEFINE k == Cardinality(UpTo(ps, p))
    <2>1. k \in Nat /\ k <= n
      BY <1>2, UpToCounts DEF n
    <2>2. k # 0
      <3>1. p \in UpTo(ps, p) /\ UpTo(ps, p) \in SUBSET ps
        BY <1>2 DEF UpTo
      <3> QED
        BY <1>2, <3>1, FS_EmptySet, FS_Subset
    <2>3. k \in 1..n
      BY <1>2, <2>1, <2>2
    <2> HIDE DEF k
    <2>4. Kth(ps, k) = p
      <3>1. PICK q \in ps : q = Kth(ps, k)
        BY <1>3, <2>3
      <3>2. Cardinality(UpTo(ps, q)) = Cardinality(UpTo(ps, p))
        BY <1>3, <2>3, <3>1 DEF k
      <3>3. q = p
        BY <1>2, <3>2, UpToGrows
      <3> QED
        BY <3>1, <3>3
    <2> QED
      BY <1>6, <2>3, <2>4
  <1>8. \A i, j \in 1..n : Kth(ps, i) = Kth(ps, j) => i = j
    BY <1>3
  <1> QED
    BY <1>2, <1>3, <1>5, <1>6, <1>7, <1>8 DEF Lists, s

-----------------------------------------------------------------------------
(* What load_chunk finds. *)

Writes(ws, p) == {i \in 1..Len(ws) : ws[i][1] = p}

IsLatest(ws, p, i) == i \in Writes(ws, p) /\ \A j \in Writes(ws, p) : j <= i

\* The last of the writes ws to p, else what is on the disk d.
Found(ws, d, p, v) ==
    \/ Writes(ws, p) = {} /\ v = d[p]
    \/ \E i \in 1..Len(ws) : IsLatest(ws, p, i) /\ v = ws[i][2]

FoundIn(ws, d, p) ==
    IF Writes(ws, p) = {} THEN d[p]
    ELSE ws[CHOOSE i \in Writes(ws, p) : \A j \in Writes(ws, p) : j <= i][2]

LEMMA FoundIs ==
    ASSUME NEW ws, Len(ws) \in Nat, NEW d, NEW p
    PROVE  /\ Found(ws, d, p, FoundIn(ws, d, p))
           /\ \A v : Found(ws, d, p, v) => v = FoundIn(ws, d, p)
  <1> DEFINE W == Writes(ws, p)
             l == CHOOSE i \in W : \A j \in W : j <= i
  <1>1. W \in SUBSET (1..Len(ws))
    BY DEF Writes
  <1>2. W # {} => l \in W /\ \A j \in W : j <= l
    BY <1>1, Largest
  <1>3. \A i \in W : (\A j \in W : j <= i) => i = l
    <2> SUFFICES ASSUME NEW i \in W, \A j \in W : j <= i PROVE i = l
      OBVIOUS
    <2>1. l \in W /\ i <= l /\ l <= i
      BY <1>2
    <2>2. \A j \in W : j \in Nat
      BY <1>1
    <2> HIDE DEF l, W
    <2> QED
      BY <2>1, <2>2
  <1>4. FoundIn(ws, d, p) = IF W = {} THEN d[p] ELSE ws[l][2]
    BY DEF FoundIn
  <1>5. \A i : IsLatest(ws, p, i) <=> i \in W /\ \A j \in W : j <= i
    BY DEF IsLatest
  <1>6. \A v : Found(ws, d, p, v) <=>
           \/ W = {} /\ v = d[p]
           \/ \E i \in 1..Len(ws) : IsLatest(ws, p, i) /\ v = ws[i][2]
    BY DEF Found
  <1> HIDE DEF l, W
  <1> QED
    BY <1>1, <1>2, <1>3, <1>4, <1>5, <1>6

StoredIn(ws, d, p) ==
    LET i == SelectLastInSeq(ws, LAMBDA w : w[1] = p)
    IN IF i = 0 THEN d[p] ELSE ws[i][2]

LEMMA StoredIsFoundIn ==
    ASSUME NEW ws, Len(ws) \in Nat, NEW d, NEW p
    PROVE  StoredIn(ws, d, p) = FoundIn(ws, d, p)
  <1> DEFINE W == Writes(ws, p)
             l == CHOOSE i \in W : \A j \in W : j <= i
  <1>1. StoredIn(ws, d, p) =
           LET i == IF W # {} THEN l ELSE 0 IN IF i = 0 THEN d[p] ELSE ws[i][2]
    BY DEF StoredIn, SelectLastInSeq, Max, Writes
  <1>2. W \in SUBSET (1..Len(ws))
    BY DEF Writes
  <1>3. W # {} => l \in W
    BY <1>2, Largest
  <1>4. W # {} => l # 0
    <2>1. \A j \in W : j # 0
      BY <1>2
    <2> QED
      BY <1>3, <2>1
  <1>5. FoundIn(ws, d, p) = IF W = {} THEN d[p] ELSE ws[l][2]
    BY DEF FoundIn
  <1> HIDE DEF W, l
  <1> QED
    BY <1>1, <1>4, <1>5

LEMMA StoredIsFound ==
    ASSUME Len(unsaved) \in Nat, NEW p
    PROVE  Stored(p) = FoundIn(unsaved, disk, p)
  <1>1. Stored(p) = StoredIn(unsaved, disk, p)
    BY DEF Stored, StoredIn, SelectLastInSeq, Max
  <1> QED
    BY <1>1, StoredIsFoundIn

LEMMA FoundAppend ==
    ASSUME NEW S, NEW ws \in Seq(S), NEW w \in S, NEW d, NEW p
    PROVE  FoundIn(Append(ws, w), d, p) = IF w[1] = p THEN w[2] ELSE FoundIn(ws, d, p)
  <1> DEFINE t == Append(ws, w)
             n == Len(ws)
  <1>1. /\ n \in Nat /\ Len(t) = n + 1
        /\ \A i \in 1..n : t[i] = ws[i]
        /\ t[n + 1] = w
    BY AppendProperties
  <1> HIDE DEF t, n
  <1>2. Writes(ws, p) \subseteq 1..n
    BY DEF Writes, n
  <1>3. CASE w[1] = p
    <2>1. IsLatest(t, p, n + 1)
      BY <1>1, <1>3 DEF IsLatest, Writes
    <2>2. Found(t, d, p, w[2])
      BY <1>1, <2>1 DEF Found
    <2>3. FoundIn(t, d, p) = w[2]
      BY <1>1, <2>2, FoundIs
    <2> QED
      BY <1>3, <2>3 DEF t
  <1>4. CASE w[1] # p
    <2>1. Writes(t, p) = Writes(ws, p)
      BY <1>1, <1>4 DEF Writes, n
    <2>2. \A i \in 1..n : IsLatest(t, p, i) <=> IsLatest(ws, p, i)
      BY <2>1 DEF IsLatest
    <2>3. \A v : Found(ws, d, p, v) => Found(t, d, p, v)
      BY <1>1, <2>1, <2>2 DEF Found, n
    <2>4. Found(ws, d, p, FoundIn(ws, d, p))
      BY <1>1, FoundIs DEF n
    <2>5. FoundIn(t, d, p) = FoundIn(ws, d, p)
      BY <1>1, <2>3, <2>4, FoundIs
    <2> QED
      BY <1>4, <2>5 DEF t
  <1> QED
    BY <1>3, <1>4

\* The chunks of ps are written, the others are as they were.
LEMMA FoundConcat ==
    ASSUME NEW S, NEW ws \in Seq(S), NEW s \in Seq(S), NEW cs, NEW ps,
           Lists(s, cs, ps), NEW d, NEW p
    PROVE  FoundIn(ws \o s, d, p) = IF p \in ps THEN cs[p].data ELSE FoundIn(ws, d, p)
  <1> DEFINE t == ws \o s
             n == Len(ws)
             m == Len(s)
  <1>1. /\ n \in Nat /\ m \in Nat /\ Len(t) = n + m
        /\ \A i \in 1..(n + m) : t[i] = IF i <= n THEN ws[i] ELSE s[i - n]
    BY ConcatProperties
  <1> HIDE DEF t, n, m
  <1>2. CASE p \in ps
    <2>1. PICK i \in 1..m : s[i][1] = p
      BY <1>2 DEF Lists, m
    <2>2. s[i][2] = cs[p].data
      BY <2>1 DEF Lists, m
    <2>3. n + i \in 1..(n + m) /\ t[n + i] = s[i]
      BY <1>1
    <2>4. ASSUME NEW j \in 1..(n + m), t[j][1] = p PROVE j <= n + i
      <3>1. CASE j <= n
        BY <3>1, <1>1
      <3>2. CASE ~(j <= n)
        <4>1. j - n \in 1..m /\ s[j - n][1] = p
          BY <1>1, <2>4, <3>2
        <4>2. j - n = i
          BY <2>1, <4>1 DEF Lists, m
        <4> QED
          BY <1>1, <4>2
      <3> QED
        BY <3>1, <3>2
    <2>5. IsLatest(t, p, n + i)
      BY <1>1, <2>1, <2>3, <2>4 DEF IsLatest, Writes
    <2>6. Found(t, d, p, cs[p].data)
      BY <1>1, <2>2, <2>3, <2>5 DEF Found
    <2>7. FoundIn(t, d, p) = cs[p].data
      BY <1>1, <2>6, FoundIs
    <2> QED
      BY <1>2, <2>7 DEF t
  <1>3. CASE p \notin ps
    <2>1. \A i \in 1..m : s[i][1] # p
      BY <1>3 DEF Lists, m
    <2>2. Writes(t, p) = Writes(ws, p)
      <3>1. \A i \in 1..(n + m) : t[i][1] = p => i \in 1..n /\ ws[i][1] = p
        <4> SUFFICES ASSUME NEW i \in 1..(n + m), t[i][1] = p PROVE i <= n
          BY <1>1
        <4>1. CASE ~(i <= n)
          <5>1. i - n \in 1..m /\ t[i] = s[i - n]
            BY <1>1, <4>1
          <5> QED
            BY <2>1, <5>1
        <4> QED
          BY <4>1
      <3>2. \A i \in 1..n : i \in 1..(n + m) /\ t[i] = ws[i]
        BY <1>1
      <3> QED
        BY <1>1, <3>1, <3>2 DEF Writes, n
    <2>3. \A i \in 1..n : /\ IsLatest(t, p, i) <=> IsLatest(ws, p, i)
                          /\ i \in 1..(n + m) /\ t[i] = ws[i]
      BY <1>1, <2>2 DEF IsLatest
    <2>4. \A v : Found(ws, d, p, v) => Found(t, d, p, v)
      BY <1>1, <2>2, <2>3 DEF Found, n
    <2>5. Found(ws, d, p, FoundIn(ws, d, p))
      BY <1>1, FoundIs DEF n
    <2>6. FoundIn(t, d, p) = FoundIn(ws, d, p)
      BY <1>1, <2>4, <2>5, FoundIs
    <2> QED
      BY <1>3, <2>6 DEF t
  <1> QED
    BY <1>2, <1>3

\* What the disk has of p with the first n of the writes.
Committed(ws, n, d, p) ==
    LET i == SelectLastInSubSeq(ws, 1, n, LAMBDA w : w[1] = p)
    IN IF i = 0 THEN d[p] ELSE ws[i][2]

\* What is committed is found on the disk, what is not yet among the writes.
LEMMA FoundCommit ==
    ASSUME NEW S, NEW ws \in Seq(S), NEW n \in 1..Len(ws), NEW d, NEW p, NEW dp,
           dp[p] = Committed(ws, n, d, p)
    PROVE  FoundIn(SubSeq(ws, n + 1, Len(ws)), dp, p) = FoundIn(ws, d, p)
  <1> DEFINE t == SubSeq(ws, n + 1, Len(ws))
             m == Len(ws)
             I == {i \in 1..n : ws[i][1] = p}
             l == CHOOSE i \in I : \A j \in I : j <= i
  <1>1. /\ m \in Nat /\ n \in 1..m /\ Len(t) = m - n /\ Len(t) \in Nat
        /\ \A i \in 1..(m - n) : t[i] = ws[n + i]
    <2>1. m \in Nat /\ \A i \in (n + 1)..m : ws[i] \in S
      BY ElementOfSeq
    <2>2. /\ Len(t) = IF n + 1 <= m THEN m - (n + 1) + 1 ELSE 0
          /\ \A i \in 1..(m - (n + 1) + 1) : t[i] = ws[n + 1 + i - 1]
      BY <2>1, SubSeqProperties
    <2> HIDE DEF t
    <2> QED
      BY <2>1, <2>2
  <1>2. dp[p] = LET i == IF I # {} THEN l ELSE 0 IN IF i = 0 THEN d[p] ELSE ws[i][2]
    BY DEF Committed, SelectLastInSubSeq, Max
  <1>3. I # {} => l \in I /\ \A j \in I : j <= l
    <2>1. n \in Nat
      BY <1>1
    <2>2. I \in SUBSET (1..n)
      OBVIOUS
    <2> HIDE DEF I
    <2> QED
      BY <2>1, <2>2, Largest
  <1>4. \A i \in I : i \in 1..n /\ i # 0
    OBVIOUS
  <1>5. dp[p] = IF I = {} THEN d[p] ELSE ws[l][2]
    <2> HIDE DEF I, l
    <2> QED
      BY <1>2, <1>3, <1>4
  <1>6. \A i : i \in I <=> i \in 1..n /\ ws[i][1] = p
    OBVIOUS
  <1> HIDE DEF t, m, I, l
  <1>7. Found(t, dp, p, FoundIn(t, dp, p))
    BY <1>1, FoundIs
  <1>8. CASE Writes(t, p) = {}
    <2>1. FoundIn(t, dp, p) = dp[p]
      BY <1>8 DEF FoundIn
    <2>2. \A i \in 1..m : ws[i][1] = p => i \in 1..n
      <3> SUFFICES ASSUME NEW i \in 1..m, ws[i][1] = p, ~(i <= n) PROVE FALSE
        BY <1>1
      <3>1. PICK k \in Int : k = i - n /\ i = n + k
        BY <1>1
      <3>2. k \in 1..(m - n) /\ t[k] = ws[i]
        BY <1>1, <3>1
      <3> QED
        BY <1>1, <1>8, <3>2 DEF Writes
    <2>3. Writes(ws, p) = I
      BY <1>1, <1>6, <2>2 DEF Writes, m
    <2>4. Found(ws, d, p, dp[p])
      <3>1. CASE I = {}
        BY <1>5, <2>3, <3>1 DEF Found
      <3>2. CASE I # {}
        <4>1. IsLatest(ws, p, l) /\ l \in 1..m
          BY <1>1, <1>3, <1>4, <2>3, <3>2 DEF IsLatest
        <4> QED
          BY <1>5, <3>2, <4>1 DEF Found, m
      <3> QED
        BY <3>1, <3>2
    <2> QED
      BY <1>1, <2>1, <2>4, FoundIs DEF t, m
  <1>9. CASE Writes(t, p) # {}
    <2>1. PICK i \in 1..(m - n) : IsLatest(t, p, i) /\ FoundIn(t, dp, p) = t[i][2]
      BY <1>1, <1>7, <1>9 DEF Found
    <2>2. n + i \in 1..m /\ ws[n + i] = t[i] /\ t[i][1] = p
      BY <1>1, <2>1 DEF IsLatest, Writes
    <2>3. ASSUME NEW j \in 1..m, ws[j][1] = p PROVE j <= n + i
      <3>1. CASE j <= n
        BY <1>1, <3>1
      <3>2. CASE ~(j <= n)
        <4>1. PICK k \in Int : k = j - n /\ j = n + k
          BY <1>1
        <4>2. k \in 1..(m - n) /\ t[k] = ws[j]
          BY <1>1, <3>2, <4>1
        <4>3. k <= i
          BY <1>1, <2>1, <2>3, <4>2 DEF IsLatest, Writes
        <4> QED
          BY <1>1, <4>1, <4>3
      <3> QED
        BY <3>1, <3>2
    <2>4. IsLatest(ws, p, n + i)
      BY <2>2, <2>3 DEF IsLatest, Writes, m
    <2>5. Found(ws, d, p, t[i][2])
      BY <2>2, <2>4 DEF Found, m
    <2> QED
      BY <1>1, <2>1, <2>5, FoundIs DEF t, m
  <1> QED
    BY <1>8, <1>9 DEF t

-----------------------------------------------------------------------------
(* The channels. *)

Requests == GenArea \cup ChunkChanged

\* The changes of p that the mapgen thread has not read yet.
Changes(q, p) == {i \in 1..Len(q) : q[i] \in ChunkChanged /\ q[i].pos = p}

LastChange(q, p, v) ==
    \E i \in Changes(q, p) : q[i].data = v /\ \A j \in Changes(q, p) : j <= i

LEMMA ChangesTail ==
    ASSUME NEW q \in Seq(Requests), q # << >>, NEW p
    PROVE  /\ 1 \notin Changes(q, p) =>
                 /\ Changes(q, p) = {} => Changes(Tail(q), p) = {}
                 /\ \A v : LastChange(q, p, v) => LastChange(Tail(q), p, v)
           /\ 1 \in Changes(q, p) =>
                 \A v : LastChange(q, p, v) =>
                    \/ LastChange(Tail(q), p, v)
                    \/ Changes(Tail(q), p) = {} /\ q[1].data = v
  <1> DEFINE t == Tail(q)
             n == Len(q)
  <1>1. /\ n \in Nat /\ n # 0 /\ Len(t) = n - 1
        /\ \A i \in 1..(n - 1) : t[i] = q[i + 1]
    BY HeadTailProperties, EmptySeq
  <1> HIDE DEF t, n
  <1>2. \A i : i \in Changes(q, p) <=> i \in 1..n /\ q[i] \in ChunkChanged /\ q[i].pos = p
    BY DEF Changes, n
  <1>3. \A i : i \in Changes(t, p) <=>
           i \in 1..(n - 1) /\ q[i + 1] \in ChunkChanged /\ q[i + 1].pos = p
    BY <1>1 DEF Changes
  <1>4. \A i \in Changes(t, p) : i + 1 \in Changes(q, p)
    BY <1>1, <1>2, <1>3
  <1>5. ASSUME NEW i \in Changes(q, p), i # 1
        PROVE  i \in Nat /\ i - 1 \in Changes(t, p) /\ t[i - 1] = q[i]
    <2>1. i \in 1..n /\ q[i] \in ChunkChanged /\ q[i].pos = p
      BY <1>2
    <2>2. PICK k \in Int : k = i - 1 /\ k + 1 = i
      BY <2>1
    <2>3. k \in 1..(n - 1)
      BY <1>1, <1>5, <2>1, <2>2
    <2>4. t[k] = q[i]
      BY <1>1, <2>2, <2>3
    <2>5. k \in Changes(t, p)
      BY <1>3, <2>1, <2>2, <2>3
    <2> QED
      BY <2>1, <2>2, <2>4, <2>5
  <1>6. ASSUME NEW v, NEW i \in Changes(q, p), q[i].data = v, i # 1,
               \A j \in Changes(q, p) : j <= i
        PROVE  LastChange(t, p, v)
    <2>1. i - 1 \in Changes(t, p) /\ t[i - 1].data = v
      BY <1>5, <1>6
    <2>2. ASSUME NEW j \in Changes(t, p) PROVE j <= i - 1
      BY <1>2, <1>3, <1>4, <1>6
    <2> QED
      BY <2>1, <2>2 DEF LastChange
  <1>7. ASSUME NEW v, 1 \in Changes(q, p), q[1].data = v, \A j \in Changes(q, p) : j <= 1
        PROVE  Changes(t, p) = {}
    <2>1. \A i \in Changes(t, p) : i \in Nat /\ i + 1 <= 1 /\ i # 0
      BY <1>1, <1>3, <1>4, <1>7
    <2> QED
      BY <2>1
  <1>8. \A v : LastChange(q, p, v) =>
           \/ LastChange(t, p, v)
           \/ 1 \in Changes(q, p) /\ Changes(t, p) = {} /\ q[1].data = v
    BY <1>6, <1>7 DEF LastChange
  <1>9. Changes(q, p) = {} => Changes(t, p) = {}
    BY <1>4
  <1> QED
    BY <1>8, <1>9 DEF t

LEMMA ChangesAppend ==
    ASSUME NEW q \in Seq(Requests), NEW m \in Requests, NEW p
    PROVE  /\ ~(m \in ChunkChanged /\ m.pos = p) =>
                 /\ Changes(Append(q, m), p) = Changes(q, p)
                 /\ \A v : LastChange(q, p, v) => LastChange(Append(q, m), p, v)
           /\ m \in ChunkChanged /\ m.pos = p => LastChange(Append(q, m), p, m.data)
  <1> DEFINE t == Append(q, m)
             n == Len(q)
  <1>1. /\ n \in Nat /\ Len(t) = n + 1
        /\ \A i \in 1..n : t[i] = q[i]
        /\ t[n + 1] = m
    BY AppendProperties
  <1> HIDE DEF t, n
  <1>2. \A i : i \in Changes(q, p) <=> i \in 1..n /\ q[i] \in ChunkChanged /\ q[i].pos = p
    BY DEF Changes, n
  <1>3. \A i : i \in Changes(t, p) <=>
           i \in 1..(n + 1) /\ t[i] \in ChunkChanged /\ t[i].pos = p
    BY <1>1 DEF Changes
  <1>4. CASE ~(m \in ChunkChanged /\ m.pos = p)
    <2>1. Changes(t, p) = Changes(q, p)
      <3>1. ASSUME NEW i \in Changes(t, p) PROVE i \in Changes(q, p)
        <4>1. i # n + 1
          BY <1>1, <1>3, <1>4
        <4>2. i \in 1..n
          BY <1>1, <1>3, <4>1
        <4> QED
          BY <1>1, <1>2, <1>3, <4>2
      <3>2. ASSUME NEW i \in Changes(q, p) PROVE i \in Changes(t, p)
        <4>1. i \in 1..n /\ i \in 1..(n + 1)
          BY <1>1, <1>2
        <4> QED
          BY <1>1, <1>2, <1>3, <4>1
      <3> QED
        BY <3>1, <3>2
    <2>2. \A i \in Changes(q, p) : t[i] = q[i]
      BY <1>1, <1>2
    <2> QED
      BY <1>4, <2>1, <2>2 DEF LastChange, t
  <1>5. CASE m \in ChunkChanged /\ m.pos = p
    <2>1. n + 1 \in Changes(t, p) /\ t[n + 1].data = m.data
      BY <1>1, <1>3, <1>5
    <2>2. \A j \in Changes(t, p) : j <= n + 1
      BY <1>1, <1>3
    <2> QED
      BY <1>5, <2>1, <2>2 DEF LastChange, t
  <1> QED
    BY <1>4, <1>5 DEF t


-----------------------------------------------------------------------------
(* Chunks on their way. *)

NoneComes(rs, p) == \A i \in 1..Len(rs) : rs[i][1] # p

\* One result brings p, as v.
Comes(rs, p, v) ==
    \E i \in 1..Len(rs) :
        /\ rs[i][1] = p /\ rs[i][2] = v
        /\ \A j \in 1..Len(rs) : rs[j][1] = p => j = i

LEMMA ComesConcat ==
    ASSUME NEW S, NEW rs \in Seq(S), NEW s \in Seq(S), NEW cs, NEW ps,
           Lists(s, cs, ps), NEW p
    PROVE  /\ p \in ps /\ NoneComes(rs, p) => Comes(rs \o s, p, cs[p].data)
           /\ p \notin ps => /\ NoneComes(rs, p) => NoneComes(rs \o s, p)
                             /\ \A v : Comes(rs, p, v) => Comes(rs \o s, p, v)
  <1> DEFINE t == rs \o s
             n == Len(rs)
             m == Len(s)
  <1>1. /\ n \in Nat /\ m \in Nat /\ Len(t) = n + m
        /\ \A i \in 1..(n + m) : t[i] = IF i <= n THEN rs[i] ELSE s[i - n]
    BY ConcatProperties
  <1> HIDE DEF t, n, m
  <1>2. /\ \A i \in 1..n : i \in 1..(n + m) /\ t[i] = rs[i]
        /\ \A i \in 1..m : n + i \in 1..(n + m) /\ t[n + i] = s[i]
    BY <1>1
  <1>3. \A j \in 1..(n + m) : j \in 1..n \/ \E i \in 1..m : j = n + i
    <2> SUFFICES ASSUME NEW j \in 1..(n + m), ~(j <= n) PROVE \E i \in 1..m : j = n + i
      BY <1>1
    <2>1. PICK i \in Int : i = j - n /\ j = n + i
      BY <1>1
    <2> QED
      BY <1>1, <2>1
  <1>4. CASE p \in ps /\ NoneComes(rs, p)
    <2>1. PICK i \in 1..m : s[i][1] = p /\ s[i][2] = cs[p].data
      BY <1>4 DEF Lists, m
    <2>2. ASSUME NEW j \in 1..(n + m), t[j][1] = p PROVE j = n + i
      <3>1. j \notin 1..n
        BY <1>2, <1>4, <2>2 DEF NoneComes, n
      <3>2. PICK k \in 1..m : j = n + k
        BY <1>3, <3>1
      <3>3. s[k][1] = p
        BY <1>2, <2>2, <3>2
      <3>4. k = i
        BY <2>1, <3>3 DEF Lists, m
      <3> QED
        BY <3>2, <3>4
    <2>3. n + i \in 1..Len(t) /\ t[n + i][1] = p /\ t[n + i][2] = cs[p].data
      BY <1>1, <1>2, <2>1
    <2>4. \A j \in 1..Len(t) : t[j][1] = p => j = n + i
      BY <1>1, <2>2
    <2>5. Comes(t, p, cs[p].data)
      BY <2>3, <2>4 DEF Comes
    <2> QED
      BY <1>4, <2>5 DEF t
  <1>5. CASE p \notin ps
    <2>1. \A i \in 1..m : s[i][1] # p
      BY <1>5 DEF Lists, m
    <2>2. \A j \in 1..(n + m) : t[j][1] = p => j \in 1..n
      BY <1>2, <1>3, <2>1
    <2>3. NoneComes(rs, p) => NoneComes(t, p)
      BY <1>1, <1>2, <2>2 DEF NoneComes, n
    <2>4. \A v : Comes(rs, p, v) => Comes(t, p, v)
      <3> SUFFICES ASSUME NEW v, NEW i \in 1..n, rs[i][1] = p, rs[i][2] = v,
                          \A j \in 1..n : rs[j][1] = p => j = i
                   PROVE  Comes(t, p, v)
        BY DEF Comes, n
      <3>1. i \in 1..Len(t) /\ t[i] = rs[i]
        BY <1>1, <1>2
      <3>2. \A j \in 1..Len(t) : t[j][1] = p => j = i
        BY <1>1, <1>2, <2>2
      <3> QED
        BY <3>1, <3>2 DEF Comes
    <2> QED
      BY <1>5, <2>3, <2>4 DEF t
  <1> QED
    BY <1>4, <1>5

LEMMA ComesTail ==
    ASSUME NEW S, NEW rs \in Seq(S), rs # << >>, NEW p
    PROVE  /\ NoneComes(rs, p) => NoneComes(Tail(rs), p) /\ Head(rs)[1] # p
           /\ \A v : Comes(rs, p, v) =>
                 IF Head(rs)[1] = p THEN NoneComes(Tail(rs), p) /\ Head(rs)[2] = v
                                    ELSE Comes(Tail(rs), p, v)
  <1> DEFINE t == Tail(rs)
             n == Len(rs)
  <1>1. /\ n \in Nat /\ n # 0 /\ Len(t) = n - 1
        /\ \A i \in 1..(n - 1) : t[i] = rs[i + 1]
        /\ Head(rs) = rs[1]
    BY HeadTailProperties, EmptySeq
  <1> HIDE DEF t, n
  <1>2. 1 \in 1..n /\ \A i \in 1..(n - 1) : i + 1 \in 1..n /\ i + 1 # 1
    BY <1>1
  <1>3. NoneComes(rs, p) => NoneComes(t, p) /\ Head(rs)[1] # p
    BY <1>1, <1>2 DEF NoneComes, n
  <1>4. ASSUME NEW v, NEW i \in 1..n, rs[i][1] = p, rs[i][2] = v,
               \A j \in 1..n : rs[j][1] = p => j = i
        PROVE  IF Head(rs)[1] = p THEN NoneComes(t, p) /\ Head(rs)[2] = v
                                  ELSE Comes(t, p, v)
    <2>1. CASE Head(rs)[1] = p
      <3>1. i = 1
        BY <1>1, <1>2, <1>4, <2>1
      <3>2. NoneComes(t, p)
        BY <1>1, <1>2, <1>4, <3>1 DEF NoneComes
      <3> QED
        BY <1>1, <1>4, <2>1, <3>1, <3>2
    <2>2. CASE Head(rs)[1] # p
      <3>1. i # 1
        BY <1>1, <1>4, <2>2
      <3>2. PICK k \in Int : k = i - 1 /\ k + 1 = i
        BY <1>1
      <3>3. k \in 1..(n - 1) /\ t[k] = rs[i]
        BY <1>1, <3>1, <3>2
      <3>4. \A j \in 1..(n - 1) : t[j][1] = p => j = k
        BY <1>1, <1>2, <1>4, <3>2
      <3> QED
        BY <1>1, <1>4, <2>2, <3>3, <3>4 DEF Comes
    <2> QED
      BY <2>1, <2>2
  <1> QED
    BY <1>3, <1>4 DEF Comes, t, n

-----------------------------------------------------------------------------
(* The invariant: where a chunk is.  A chunk the mapgen thread has not       *)
(* finished is nowhere else; one that it has is on its way, as it is stored, *)
(* or the server has it.                                                     *)

MapgenTypes ==
    /\ unsaved \in Seq(Chunks \X Data)
    /\ results \in Seq(Chunks \X Data)
    /\ requests \in Seq(Requests)
    /\ disk \in [Chunks -> Data \cup {Absent}]
    /\ world \in [Chunks -> Data \cup {Absent}]
    /\ last \in [Chunks -> 0..MaxEdits]
    /\ served \subseteq Areas
    /\ edits \in 0..MaxEdits

EditOf(v) == IF v = Absent THEN 0 ELSE v.edit

\* st is what is stored of p, w what the server has of it, l the last edit.
Away(cs, st, rs, qs, w, l, p) ==
    /\ Phase(cs, p) # Done /\ w = Absent /\ NoneComes(rs, p)
    /\ Changes(qs, p) = {} /\ l = EditOf(st)
    /\ p \in DOMAIN cs => st = Absent /\ cs[p].data.edit = 0

Coming(cs, st, rs, qs, w, l, p) ==
    /\ Phase(cs, p) = Done /\ w = Absent /\ Comes(rs, p, st)
    /\ Changes(qs, p) = {} /\ l = EditOf(st)

\* The storage has it as the server has it, or will have when the mapgen
\* thread has read the last change.
There(cs, st, rs, qs, w, l, p) ==
    /\ Phase(cs, p) = Done /\ w # Absent /\ NoneComes(rs, p)
    /\ w.edit = l
    /\ (Changes(qs, p) = {} /\ st = w) \/ LastChange(qs, p, w)

Placed(cs, st, rs, qs, w, l, p) ==
    \/ Away(cs, st, rs, qs, w, l, p)
    \/ Coming(cs, st, rs, qs, w, l, p)
    \/ There(cs, st, rs, qs, w, l, p)

ServedAreDone == \A area \in served : \A p \in Looked(area) : Phase(chunks, p) = Done

DeliveryInv ==
    /\ MapgenTypes
    /\ MapgenInv
    /\ \A p \in Chunks :
          Placed(chunks, FoundIn(unsaved, disk, p), results, requests, world[p], last[p], p)
    /\ ServedAreDone

LEMMA DeliveryInvImplies ==
    ASSUME DeliveryInv
    PROVE  EditsSurvive /\ StoredIsCurrent /\ AreasArrive
  <1>1. Len(unsaved) \in Nat /\ Len(results) \in Nat /\ DOMAIN results = 1..Len(results)
    BY LenProperties DEF DeliveryInv, MapgenTypes
  <1> DEFINE st(p) == FoundIn(unsaved, disk, p)
  <1>2. ASSUME NEW p \in Chunks
        PROVE  Placed(chunks, st(p), results, requests, world[p], last[p], p)
    BY DEF DeliveryInv
  <1> HIDE DEF st
  <1>3. EditsSurvive
    BY <1>2 DEF EditsSurvive, Placed, Away, Coming, There
  <1>4. ASSUME requests = << >>, NEW p \in Chunks, world[p] # Absent
        PROVE  Stored(p) = world[p]
    <2>1. Changes(requests, p) = {}
      BY <1>4 DEF Changes
    <2>2. st(p) = world[p]
      BY <1>2, <1>4, <2>1 DEF Placed, Away, Coming, There, LastChange
    <2>3. Stored(p) = FoundIn(unsaved, disk, p)
      BY <1>1, StoredIsFound
    <2> QED
      BY <2>2, <2>3 DEF st
  <1>5. ASSUME NEW area \in served, NEW p \in Looked(area)
        PROVE  \/ world[p] # Absent
               \/ \E i \in DOMAIN results : results[i][1] = p
    <2>1. area \in Areas /\ Phase(chunks, p) = Done
      BY DEF DeliveryInv, MapgenTypes, ServedAreDone
    <2>2. p \in Chunks
      BY <2>1 DEF Phase, Done, DeliveryInv, MapgenInv, Good, Shaped
    <2> QED
      BY <1>1, <1>2, <2>1, <2>2 DEF Placed, Away, Coming, There, Comes
  <1> QED
    BY <1>3, <1>4, <1>5 DEF StoredIsCurrent, AreasArrive

-----------------------------------------------------------------------------
(* The steps. *)

LEMMA InitDelivery == Init => DeliveryInv
  <1> SUFFICES ASSUME Init PROVE DeliveryInv
    OBVIOUS
  <1>1. 0 \in 0..MaxEdits
    BY MapgenAssumption
  <1>2. MapgenTypes
    BY <1>1 DEF Init, MapgenTypes
  <1>3. MapgenInv
    BY InitMapgenInv
  <1>4. ASSUME NEW p \in Chunks
        PROVE  Away(chunks, FoundIn(unsaved, disk, p), results, requests, world[p], last[p], p)
    <2>1. Len(unsaved) = 0 /\ Len(requests) = 0 /\ Len(results) = 0
      BY DEF Init
    <2>2. FoundIn(unsaved, disk, p) = Absent
      BY <2>1 DEF FoundIn, Writes, Init
    <2> QED
      BY <2>1, <2>2 DEF Init, Away, Phase, Done, NoneComes, Changes, EditOf
  <1> QED
    BY <1>2, <1>3, <1>4 DEF DeliveryInv, Placed, ServedAreDone, Init

\* What is stored is a chunk's data, or the chunk is absent.
LEMMA FoundInData ==
    ASSUME MapgenTypes, NEW p \in Chunks
    PROVE  FoundIn(unsaved, disk, p) \in Data \cup {Absent}
  <1>1. Len(unsaved) \in Nat /\ \A i \in 1..Len(unsaved) : unsaved[i] \in Chunks \X Data
    BY ElementOfSeq DEF MapgenTypes
  <1>2. Found(unsaved, disk, p, FoundIn(unsaved, disk, p))
    BY <1>1, FoundIs
  <1> QED
    BY <1>1, <1>2 DEF Found, MapgenTypes

\* What an area's request leaves of the chunks, and which of them it sends:
\* one that was loaded, or was done, is not generated, and what is generated
\* was not stored and has not been edited.
LEMMA ServeGenerates ==
    ASSUME MapgenTypes, MapgenInv, NEW area \in Areas, NEW one, NEW two, NEW finished,
           one = PhaseOne(Load(area), area),
           two = PhaseTwo(one, Growing(one, area)),
           finished = Finished(two, area), NEW p \in Chunks
    PROVE  /\ p \in Loadable(area) => /\ Phase(chunks, p) # Done
                                      /\ Load(area)[p].data = Stored(p)
                                      /\ Stored(p) # Absent
                                      /\ Phase(Load(area), p) = Done
           /\ p \notin Loadable(area) => /\ Phase(Load(area), p) = Phase(chunks, p)
                                         /\ p \in DOMAIN Load(area) <=> p \in DOMAIN chunks
                                         /\ p \in DOMAIN chunks => Load(area)[p] = chunks[p]
           /\ Phase(Load(area), p) = Done => Phase(two, p) = Done /\ p \notin finished
           /\ Phase(Load(area), p) # Done /\ p \in DOMAIN two =>
                 /\ Phase(two, p) # Done
                 /\ p \in DOMAIN chunks => two[p].data.edit = chunks[p].data.edit
                 /\ p \notin DOMAIN chunks => Stored(p) = Absent /\ two[p].data.edit = 0
           /\ p \in finished => p \in DOMAIN two /\ two[p].data \in Data
  <1> DEFINE loaded == Load(area)
             growing == Growing(one, area)
  <1>1. Good(chunks) /\ Good(loaded)
    BY LoadKeeps DEF MapgenInv
  <1>2. Good(one) /\ Around(area, 2) \subseteq DOMAIN one
    BY <1>1, PhaseOneKeeps
  <1>3. Good(two) /\ \A q \in Around(area, 1) : Phase(two, q) >= 2
    BY <1>2, PhaseTwoKeeps
  <1>4. /\ DOMAIN loaded = DOMAIN chunks \cup Loadable(area)
        /\ \A q \in DOMAIN chunks : q \notin Loadable(area) /\ loaded[q] = chunks[q]
        /\ \A q \in Loadable(area) :
              /\ loaded[q] = [data |-> Stored(q), phase |-> Done, loaded |-> TRUE]
              /\ q \in Around(area, 2) /\ Stored(q) # Absent
        /\ \A q \in Around(area, 2) : q \in DOMAIN loaded \/ Stored(q) = Absent
    BY DEF Load, Loadable
  <1>5. /\ DOMAIN one = DOMAIN loaded \cup Around(area, 2)
        /\ \A q \in DOMAIN one : one[q] = IF q \in DOMAIN loaded THEN loaded[q] ELSE Fresh
    BY DEF PhaseOne
  <1>6. /\ DOMAIN two = DOMAIN one
        /\ \A q \in DOMAIN one :
              two[q] = [one[q] EXCEPT !.phase = IF q \in growing THEN 2 ELSE @,
                                      !.data.grown = @ \cup {r \in growing : q \in Reach[r]}]
    BY DEF PhaseTwo
  <1>7. \A q \in growing : q \in DOMAIN one /\ one[q].phase < 2
    BY <1>2, Margins DEF Growing, Phase
  <1>8. \A q \in finished : q \in Around(area, 0) /\ Phase(two, q) # Done
    BY DEF Finished
  <1>9. finished \subseteq DOMAIN two
    BY <1>2, <1>6, <1>8, Margins
  <1> HIDE DEF loaded, growing
  <1>10. p \in Loadable(area) => /\ Phase(chunks, p) # Done
                                 /\ loaded[p].data = Stored(p)
                                 /\ Stored(p) # Absent
                                 /\ Phase(loaded, p) = Done
    BY <1>4 DEF Phase, Done
  <1>11. p \notin Loadable(area) => /\ Phase(loaded, p) = Phase(chunks, p)
                                    /\ p \in DOMAIN loaded <=> p \in DOMAIN chunks
                                    /\ p \in DOMAIN chunks => loaded[p] = chunks[p]
    BY <1>4 DEF Phase
  <1>12. ASSUME NEW q \in DOMAIN one
         PROVE  /\ two[q].phase = IF q \in growing THEN 2 ELSE one[q].phase
                /\ ~one[q].loaded => two[q].data.edit = one[q].data.edit
    <2>1. one[q] = [data |-> one[q].data, phase |-> one[q].phase, loaded |-> one[q].loaded]
      BY <1>2 DEF Good, Shaped
    <2>2. ~one[q].loaded => one[q].data \in Data
      BY <1>2 DEF Good, Shaped
    <2>3. two[q] = [data |-> [one[q].data EXCEPT !.grown = @ \cup {r \in growing : q \in Reach[r]}],
                    phase |-> IF q \in growing THEN 2 ELSE one[q].phase,
                    loaded |-> one[q].loaded]
      <3>1. two[q] = [one[q] EXCEPT !.phase = IF q \in growing THEN 2 ELSE @,
                                    !.data.grown = @ \cup {r \in growing : q \in Reach[r]}]
        BY <1>6
      <3> QED
        BY <2>1, <3>1
    <2> QED
      BY <2>2, <2>3 DEF Data
  <1>13. ASSUME Phase(loaded, p) = Done
         PROVE  Phase(two, p) = Done /\ p \notin finished
    <2>1. p \in DOMAIN loaded /\ loaded[p].phase = Done
      BY <1>13 DEF Phase, Done
    <2>2. p \in DOMAIN one /\ one[p].phase = Done
      BY <1>5, <2>1
    <2>3. p \notin growing
      BY <1>7, <2>2 DEF Done
    <2>4. Phase(two, p) = Done
      BY <1>6, <1>12, <2>2, <2>3 DEF Phase
    <2> QED
      BY <1>8, <2>4
  <1>14. ASSUME Phase(loaded, p) # Done, p \in DOMAIN two
         PROVE  /\ Phase(two, p) # Done
                /\ p \in DOMAIN chunks => two[p].data.edit = chunks[p].data.edit
                /\ p \notin DOMAIN chunks => Stored(p) = Absent /\ two[p].data.edit = 0
    <2>1. p \in DOMAIN one
      BY <1>6, <1>14
    <2>2. one[p].phase # Done
      <3>1. p \in DOMAIN loaded => loaded[p].phase # Done
        BY <1>14 DEF Phase
      <3>2. Fresh.phase # Done
        BY DEF Fresh, Done
      <3> QED
        BY <1>5, <2>1, <3>1, <3>2
    <2>3. Phase(two, p) # Done
      <3>1. two[p].phase # Done
        BY <1>12, <2>2, <2>1 DEF Done
      <3> QED
        BY <1>14, <3>1 DEF Phase
    <2>4. ~one[p].loaded
      BY <1>2, <2>2, <2>1 DEF Good, Shaped
    <2>5. two[p].data.edit = one[p].data.edit
      BY <1>12, <2>4, <2>1
    <2>6. CASE p \in DOMAIN chunks
      BY <1>4, <1>5, <1>6, <1>14, <2>3, <2>5, <2>6
    <2>7. CASE p \notin DOMAIN chunks
      <3>1. p \notin Loadable(area)
        BY <1>10, <1>14
      <3>2. p \notin DOMAIN loaded
        BY <1>4, <2>7, <3>1
      <3>3. one[p] = Fresh /\ p \in Around(area, 2) /\ Stored(p) = Absent
        BY <1>4, <1>5, <1>6, <1>14, <3>2
      <3> QED
        BY <2>3, <2>5, <2>7, <3>3 DEF Fresh
    <2> QED
      BY <2>6, <2>7
  <1>15. p \in finished => p \in DOMAIN two /\ two[p].data \in Data
    <2> SUFFICES ASSUME p \in finished PROVE p \in DOMAIN two /\ two[p].data \in Data
      OBVIOUS
    <2>1. p \in DOMAIN two /\ two[p].phase # Done
      BY <1>8, <1>9 DEF Phase
    <2> QED
      BY <1>3, <2>1 DEF Good, Shaped
  <1> QED
    BY <1>10, <1>11, <1>13, <1>14, <1>15 DEF loaded

LEMMA ServeLists ==
    ASSUME MapgenTypes, MapgenInv, NEW area \in Areas, NEW one, NEW two, NEW finished,
           one = PhaseOne(Load(area), area),
           two = PhaseTwo(one, Growing(one, area)),
           finished = Finished(two, area)
    PROVE  /\ Lists(InOrder(Load(area), Loadable(area)), Load(area), Loadable(area))
           /\ InOrder(Load(area), Loadable(area)) \in Seq(Chunks \X Data)
           /\ Lists(InOrder(two, finished), two, finished)
           /\ InOrder(two, finished) \in Seq(Chunks \X Data)
  <1> DEFINE loaded == Load(area)
             ps == Loadable(area)
  <1>1. area.min \in Int /\ area.max \in Int
    BY MapgenAssumption
  <1>2. Between(ps, area.min - 2, area.max + 2)
    BY DEF Loadable, Around, Between
  <1>3. Between(finished, area.min - 0, area.max + 0)
    BY DEF Finished, Around, Between
  <1>4. \A p \in Chunks : Stored(p) \in Data \cup {Absent}
    <2>1. Len(unsaved) \in Nat
      BY LenProperties DEF MapgenTypes
    <2> QED
      BY <2>1, FoundInData, StoredIsFound
  <1>5. \A p \in ps : p \in Chunks /\ loaded[p].data \in Data
    <2> SUFFICES ASSUME NEW p \in ps PROVE p \in Chunks /\ loaded[p].data \in Data
      OBVIOUS
    <2>1. p \in Chunks
      BY Margins DEF Loadable
    <2>2. loaded[p].data = Stored(p) /\ Stored(p) # Absent
      BY <2>1, ServeGenerates
    <2> QED
      BY <1>4, <2>1, <2>2
  <1>6. \A p \in finished : p \in Chunks /\ two[p].data \in Data
    <2> SUFFICES ASSUME NEW p \in finished PROVE p \in Chunks /\ two[p].data \in Data
      OBVIOUS
    <2>1. p \in Chunks
      BY Margins DEF Finished
    <2> QED
      BY <2>1, ServeGenerates
  <1>7. area.min - 2 \in Int /\ area.max + 2 \in Int /\ area.min - 0 \in Int /\ area.max + 0 \in Int
    BY <1>1
  <1> HIDE DEF loaded, ps
  <1>8. Lists(InOrder(loaded, ps), loaded, ps) /\ InOrder(loaded, ps) \in Seq(Chunks \X Data)
    BY <1>2, <1>5, <1>7, InOrderLists
  <1>9. Lists(InOrder(two, finished), two, finished) /\ InOrder(two, finished) \in Seq(Chunks \X Data)
    BY <1>3, <1>6, <1>7, InOrderLists
  <1> QED
    BY <1>8, <1>9 DEF loaded, ps

LEMMA NoAreaIsAChange == GenArea \cap ChunkChanged = {}
  <1>1. \A r \in GenArea : DOMAIN r = {"area"}
    BY DEF GenArea
  <1>2. \A r \in ChunkChanged : DOMAIN r = {"pos", "data"}
    BY DEF ChunkChanged
  <1> QED
    BY <1>1, <1>2

LEMMA HeadIsFirst ==
    ASSUME NEW S, NEW q \in Seq(S), q # << >>
    PROVE  /\ q[1] = Head(q) /\ Head(q) \in S /\ 1 \in 1..Len(q) /\ Tail(q) \in Seq(S)
  BY HeadTailProperties, EmptySeq

\* Where one chunk is after a request for an area.
LEMMA ServePlaces ==
    ASSUME DeliveryInv, NEW area \in Areas, NEW one, NEW two, NEW finished,
           one = PhaseOne(Load(area), area),
           two = PhaseTwo(one, Growing(one, area)),
           finished = Finished(two, area), NEW p \in Chunks,
           NEW loaded, loaded = Load(area),
           NEW sent, sent = InOrder(loaded, Loadable(area)),
           NEW fin, fin = InOrder(two, finished), NEW st, st = FoundIn(unsaved, disk, p),
           NEW qs, Changes(requests, p) = {} => Changes(qs, p) = {},
           \A v : LastChange(requests, p, v) => LastChange(qs, p, v)
    PROVE  /\ Placed(loaded, st, results \o sent, qs, world[p], last[p], p)
           /\ Placed(Finish(two, finished), FoundIn(unsaved \o fin, disk, p),
                     results \o sent \o fin, qs, world[p], last[p], p)
  <1> DEFINE ps == Loadable(area)
             rs == results \o sent
             cs == Finish(two, finished)
             w == world[p]
             l == last[p]
  <1>1. /\ results \in Seq(Chunks \X Data) /\ sent \in Seq(Chunks \X Data)
        /\ fin \in Seq(Chunks \X Data) /\ unsaved \in Seq(Chunks \X Data)
        /\ Lists(sent, loaded, ps) /\ Lists(fin, two, finished)
    BY ServeLists DEF DeliveryInv, MapgenTypes
  <1>2. /\ Stored(p) = st /\ Placed(chunks, st, results, requests, w, l, p)
    <2>1. Len(unsaved) \in Nat
      BY <1>1, LenProperties
    <2> QED
      BY <2>1, StoredIsFound DEF DeliveryInv
  <1>3. /\ p \in ps => /\ Phase(chunks, p) # Done /\ loaded[p].data = st
                       /\ st # Absent /\ Phase(loaded, p) = Done
        /\ p \notin ps => /\ Phase(loaded, p) = Phase(chunks, p)
                          /\ p \in DOMAIN loaded <=> p \in DOMAIN chunks
                          /\ p \in DOMAIN chunks => loaded[p] = chunks[p]
        /\ Phase(loaded, p) = Done => Phase(two, p) = Done /\ p \notin finished
        /\ Phase(loaded, p) # Done /\ p \in DOMAIN two =>
              /\ Phase(two, p) # Done
              /\ p \in DOMAIN chunks => two[p].data.edit = chunks[p].data.edit
              /\ p \notin DOMAIN chunks => st = Absent /\ two[p].data.edit = 0
        /\ p \in finished => p \in DOMAIN two /\ two[p].data \in Data
    BY <1>2, ServeGenerates DEF DeliveryInv
  <1>4. rs \in Seq(Chunks \X Data)
    BY <1>1, ConcatProperties
  <1> HIDE DEF ps, w, l
  <1>5. /\ p \in ps /\ NoneComes(results, p) => Comes(rs, p, loaded[p].data)
        /\ p \notin ps => /\ NoneComes(results, p) => NoneComes(rs, p)
                          /\ \A v : Comes(results, p, v) => Comes(rs, p, v)
    BY <1>1, ComesConcat
  <1> HIDE DEF rs
  <1>6. /\ p \in finished /\ NoneComes(rs, p) => Comes(rs \o fin, p, two[p].data)
        /\ p \notin finished => /\ NoneComes(rs, p) => NoneComes(rs \o fin, p)
                                /\ \A v : Comes(rs, p, v) => Comes(rs \o fin, p, v)
    BY <1>1, <1>4, ComesConcat
  <1>7. FoundIn(unsaved \o fin, disk, p) = IF p \in finished THEN two[p].data ELSE st
    BY <1>1, FoundConcat
  <1> DEFINE ts == rs \o fin
             su == FoundIn(unsaved \o fin, disk, p)
  <1> HIDE DEF ts, su
  <1>8. Placed(loaded, st, rs, qs, w, l, p)
    <2>1. CASE Away(chunks, st, results, requests, w, l, p)
      <3>1. CASE p \in ps
        <4>1. Coming(loaded, st, rs, qs, w, l, p)
          BY <1>3, <1>5, <2>1, <3>1 DEF Away, Coming
        <4> QED
          BY <4>1 DEF Placed
      <3>2. CASE p \notin ps
        <4>1. Away(loaded, st, rs, qs, w, l, p)
          BY <1>3, <1>5, <2>1, <3>2 DEF Away
        <4> QED
          BY <4>1 DEF Placed
      <3> QED
        BY <3>1, <3>2
    <2>2. CASE Coming(chunks, st, results, requests, w, l, p)
      <3>1. Coming(loaded, st, rs, qs, w, l, p)
        BY <1>3, <1>5, <2>2 DEF Coming
      <3> QED
        BY <3>1 DEF Placed
    <2>3. CASE There(chunks, st, results, requests, w, l, p)
      <3>1. There(loaded, st, rs, qs, w, l, p)
        BY <1>3, <1>5, <2>3 DEF There
      <3> QED
        BY <3>1 DEF Placed
    <2> QED
      BY <1>2, <2>1, <2>2, <2>3 DEF Placed
  <1>9. /\ DOMAIN cs = DOMAIN two
        /\ p \in DOMAIN two => cs[p].data = two[p].data
        /\ p \in finished /\ p \in DOMAIN two => Phase(cs, p) = Done
        /\ p \notin finished => Phase(cs, p) = Phase(two, p)
    <2>1. DOMAIN cs = DOMAIN two
      BY DEF Finish
    <2>2. p \in DOMAIN two => cs[p] = IF p \in finished THEN [two[p] EXCEPT !.phase = Done] ELSE two[p]
      BY DEF Finish
    <2>3. p \in DOMAIN two => two[p] = [data |-> two[p].data, phase |-> two[p].phase, loaded |-> two[p].loaded]
      <3>1. Good(Load(area))
        BY LoadKeeps DEF DeliveryInv, MapgenInv
      <3>2. Good(one) /\ Around(area, 2) \subseteq DOMAIN one
        BY <3>1, PhaseOneKeeps
      <3>3. Good(two)
        BY <3>2, PhaseTwoKeeps
      <3> QED
        BY <3>3 DEF Good, Shaped
    <2> HIDE DEF cs
    <2> QED
      BY <2>1, <2>2, <2>3 DEF Phase
  <1> HIDE DEF cs
  <1>10. Placed(cs, su, ts, qs, w, l, p)
    <2>1. CASE Away(loaded, st, rs, qs, w, l, p)
      <3>1. CASE p \in finished
        <4>1. st = Absent /\ two[p].data.edit = 0 /\ two[p].data # Absent
          BY <1>3, <2>1, <3>1, AbsentAssumption DEF Away
        <4>2. Coming(cs, su, ts, qs, w, l, p)
          BY <1>3, <1>6, <1>7, <1>9, <2>1, <3>1, <4>1 DEF Away, Coming, EditOf, ts, su
        <4> QED
          BY <4>2 DEF Placed
      <3>2. CASE p \notin finished
        <4>1. Phase(cs, p) # Done
          BY <1>3, <1>9, <2>1, <3>2 DEF Away, Phase, Done
        <4>2. p \in DOMAIN cs => st = Absent /\ cs[p].data.edit = 0
          BY <1>3, <1>9, <2>1, <3>2 DEF Away
        <4>3. Away(cs, su, ts, qs, w, l, p)
          BY <1>6, <1>7, <2>1, <3>2, <4>1, <4>2 DEF Away, ts, su
        <4> QED
          BY <4>3 DEF Placed
      <3> QED
        BY <3>1, <3>2
    <2>2. CASE Coming(loaded, st, rs, qs, w, l, p)
      <3>1. Coming(cs, su, ts, qs, w, l, p)
        BY <1>3, <1>6, <1>7, <1>9, <2>2 DEF Coming, ts, su
      <3> QED
        BY <3>1 DEF Placed
    <2>3. CASE There(loaded, st, rs, qs, w, l, p)
      <3>1. There(cs, su, ts, qs, w, l, p)
        BY <1>3, <1>6, <1>7, <1>9, <2>3 DEF There, ts, su
      <3> QED
        BY <3>1 DEF Placed
    <2> QED
      BY <1>8, <2>1, <2>2, <2>3 DEF Placed
  <1> QED
    BY <1>8, <1>10 DEF cs, su, ts, rs, w, l

\* The chunks of a served area are done, and one that was done stays so.
LEMMA ServeFinishes ==
    ASSUME MapgenInv, NEW area \in Areas, NEW one, NEW two,
           one = PhaseOne(Load(area), area),
           two = PhaseTwo(one, Growing(one, area))
    PROVE  LET done == Finish(two, Finished(two, area))
           IN /\ \A p \in Looked(area) : Phase(done, p) = Done
              /\ \A p : Phase(chunks, p) = Done =>
                    Phase(Load(area), p) = Done /\ Phase(done, p) = Done
  <1> DEFINE growing == Growing(one, area)
             done == Finish(two, Finished(two, area))
  <1>1. Good(Load(area))
    BY LoadKeeps DEF MapgenInv
  <1>2. Good(one) /\ Around(area, 2) \subseteq DOMAIN one
    BY <1>1, PhaseOneKeeps
  <1>3. \A q \in DOMAIN one : one[q].phase \in 1..Done /\ one[q] =
           [data |-> one[q].data, phase |-> one[q].phase, loaded |-> one[q].loaded]
    BY <1>2 DEF Good, Shaped
  <1>4. /\ DOMAIN two = DOMAIN one
        /\ \A q \in DOMAIN one :
              two[q] = [one[q] EXCEPT !.phase = IF q \in growing THEN 2 ELSE @,
                                      !.data.grown = @ \cup {r \in growing : q \in Reach[r]}]
    BY DEF PhaseTwo
  <1>5. \A q \in growing : q \in DOMAIN one /\ one[q].phase < 2
    BY <1>2, Margins DEF Growing, Phase
  <1>6. Good(two)
    BY <1>2, PhaseTwoKeeps
  <1>7. \A q \in DOMAIN two : two[q] =
           [data |-> two[q].data, phase |-> two[q].phase, loaded |-> two[q].loaded]
    BY <1>6 DEF Good, Shaped
  <1>8. /\ DOMAIN done = DOMAIN two
        /\ \A q \in DOMAIN two :
              done[q] = IF q \in Finished(two, area) THEN [two[q] EXCEPT !.phase = Done] ELSE two[q]
    BY DEF Finish
  <1>9. \A q \in Around(area, 0) : q \in DOMAIN two /\ (q \in Finished(two, area) \/ Phase(two, q) = Done)
    BY <1>2, <1>4, Margins DEF Finished
  <1>10. Looked(area) \subseteq Around(area, 0)
    <2>1. area.min \in Int /\ area.max \in Int
      BY MapgenAssumption
    <2> QED
      BY <2>1 DEF Looked, Around
  <1> HIDE DEF growing, done
  <1>11. \A q \in DOMAIN two :
            q \in Finished(two, area) \/ two[q].phase = Done => done[q].phase = Done
    BY <1>7, <1>8
  <1>12. \A p \in Looked(area) : Phase(done, p) = Done
    BY <1>8, <1>9, <1>10, <1>11 DEF Phase
  <1>13. ASSUME NEW p, Phase(chunks, p) = Done
         PROVE  Phase(Load(area), p) = Done /\ Phase(done, p) = Done
    <2>1. p \in DOMAIN chunks /\ chunks[p].phase = Done
      BY <1>13 DEF Phase, Done
    <2>2. p \in DOMAIN Load(area) /\ Load(area)[p] = chunks[p]
      BY <2>1 DEF Load
    <2>3. p \in DOMAIN one /\ one[p] = chunks[p]
      BY <2>2 DEF PhaseOne
    <2>4. p \notin growing
      BY <1>5, <2>1, <2>3 DEF Done
    <2>5. p \in DOMAIN two /\ two[p].phase = Done
      <3>1. two[p] = [one[p] EXCEPT !.phase = IF p \in growing THEN 2 ELSE @,
                                    !.data.grown = @ \cup {r \in growing : p \in Reach[r]}]
        BY <1>4, <2>3
      <3>2. one[p] = [data |-> one[p].data, phase |-> one[p].phase, loaded |-> one[p].loaded]
        BY <1>3, <2>3
      <3>3. two[p].phase = one[p].phase
        BY <2>4, <3>1, <3>2
      <3> QED
        BY <1>4, <2>1, <2>3, <3>3
    <2>6. done[p].phase = Done
      BY <1>11, <2>5
    <2> QED
      BY <1>8, <2>1, <2>2, <2>5, <2>6 DEF Phase
  <1> QED
    BY <1>12, <1>13 DEF done

LEMMA ServeAreaDelivers ==
    ASSUME DeliveryInv, ServeArea
    PROVE  DeliveryInv'
  <1> DEFINE area == Head(requests).area
             loaded == Load(area)
             sent == InOrder(loaded, Loadable(area))
             one == PhaseOne(loaded, area)
             growing == Growing(one, area)
             two == PhaseTwo(one, growing)
             finished == Finished(two, area)
             fin == InOrder(two, finished)
             qs == Tail(requests)
  <1>1. /\ requests \in Seq(Requests) /\ requests # << >>
        /\ Head(requests) \in GenArea /\ requests' = qs
    BY DEF ServeArea, DeliveryInv, MapgenTypes
  <1>2. area \in Areas
    BY <1>1 DEF GenArea
  <1>3. MapgenInv'
    BY ServeAreaKeeps DEF DeliveryInv, GenArea
  <1>4. /\ UNCHANGED <<disk, world, last, edits>>
        /\ served' = served \cup {area}
        /\ \/ /\ ~SomethingToGenerate(loaded, area)
              /\ chunks' = loaded /\ results' = results \o sent /\ UNCHANGED unsaved
           \/ /\ chunks' = Finish(two, finished)
              /\ results' = results \o sent \o fin
              /\ unsaved' = unsaved \o fin
    BY DEF ServeArea
  <1>5. qs \in Seq(Requests)
    BY <1>1, HeadIsFirst
  <1>6. ASSUME NEW p \in Chunks
        PROVE  /\ Changes(requests, p) = {} => Changes(qs, p) = {}
               /\ \A v : LastChange(requests, p, v) => LastChange(qs, p, v)
    <2>1. 1 \notin Changes(requests, p)
      BY <1>1, HeadIsFirst, NoAreaIsAChange DEF Changes
    <2> QED
      BY <1>1, <2>1, ChangesTail
  <1> HIDE DEF area
  <1>7. /\ sent \in Seq(Chunks \X Data) /\ fin \in Seq(Chunks \X Data)
    BY <1>2, ServeLists DEF DeliveryInv
  <1>8. ASSUME NEW p \in Chunks
        PROVE  LET st == FoundIn(unsaved, disk, p)
               IN /\ Placed(loaded, st, results \o sent, qs, world[p], last[p], p)
                  /\ Placed(Finish(two, finished), FoundIn(unsaved \o fin, disk, p),
                            results \o sent \o fin, qs, world[p], last[p], p)
    <2>1. /\ Changes(requests, p) = {} => Changes(qs, p) = {}
          /\ \A v : LastChange(requests, p, v) => LastChange(qs, p, v)
      BY <1>6
    <2> HIDE DEF qs
    <2> QED
      BY <1>2, <2>1, ServePlaces
  <1>9. /\ \A p \in Looked(area) : Phase(Finish(two, finished), p) = Done
        /\ \A p : Phase(chunks, p) = Done =>
              Phase(loaded, p) = Done /\ Phase(Finish(two, finished), p) = Done
    BY <1>2, ServeFinishes DEF DeliveryInv
  <1>10. ~SomethingToGenerate(loaded, area) => \A p \in Looked(area) : Phase(loaded, p) = Done
    BY DEF SomethingToGenerate
  <1> DEFINE done == Finish(two, finished)
             rs == results \o sent
             ts == rs \o fin
             us == unsaved \o fin
  <1>11. /\ rs \in Seq(Chunks \X Data) /\ ts \in Seq(Chunks \X Data)
         /\ us \in Seq(Chunks \X Data)
    <2>1. results \in Seq(Chunks \X Data) /\ unsaved \in Seq(Chunks \X Data)
      BY DEF DeliveryInv, MapgenTypes
    <2>2. rs \in Seq(Chunks \X Data) /\ us \in Seq(Chunks \X Data)
      BY <1>7, <2>1, ConcatProperties
    <2> HIDE DEF rs, us, fin, sent
    <2> QED
      BY <1>7, <2>2, ConcatProperties
  <1> HIDE DEF done, rs, ts, us, loaded, qs
  <1>12. MapgenTypes'
    BY <1>1, <1>2, <1>4, <1>5, <1>11 DEF DeliveryInv, MapgenTypes, rs, ts, us
  <1>13. ASSUME NEW p \in Chunks
         PROVE  Placed(chunks, FoundIn(unsaved, disk, p), results, requests, world[p], last[p], p)'
    <2>1. CASE chunks' = loaded /\ results' = rs /\ unsaved' = unsaved
      BY <1>1, <1>4, <1>8, <2>1 DEF rs
    <2>2. CASE chunks' = done /\ results' = ts /\ unsaved' = us
      BY <1>1, <1>4, <1>8, <2>2 DEF done, ts, rs, us
    <2> QED
      BY <1>4, <2>1, <2>2 DEF done, ts, rs, us
  <1>14. ServedAreDone'
    <2>1. \A p : Phase(chunks, p) = Done => Phase(chunks', p) = Done
      BY <1>4, <1>9
    <2>2. \A p \in Looked(area) : Phase(chunks', p) = Done
      BY <1>4, <1>9, <1>10
    <2>3. \A a \in served : \A p \in Looked(a) : Phase(chunks, p) = Done
      BY DEF DeliveryInv, ServedAreDone
    <2> SUFFICES ASSUME NEW a \in served', NEW p \in Looked(a)
                 PROVE  Phase(chunks', p) = Done
      BY DEF ServedAreDone, Phase, Looked
    <2> QED
      BY <1>4, <2>1, <2>2, <2>3
  <1> QED
    BY <1>3, <1>12, <1>13, <1>14 DEF DeliveryInv

LEMMA ServeChangedDelivers ==
    ASSUME DeliveryInv, ServeChanged
    PROVE  DeliveryInv'
  <1> DEFINE m == Head(requests)
             w == <<m.pos, m.data>>
  <1>1. /\ requests \in Seq(Requests) /\ requests # << >>
        /\ unsaved \in Seq(Chunks \X Data)
        /\ m \in ChunkChanged
    BY DEF ServeChanged, DeliveryInv, MapgenTypes
  <1>2. m.pos \in Chunks /\ m.data \in Data /\ w \in Chunks \X Data
    BY <1>1 DEF ChunkChanged
  <1>3. /\ unsaved' = Append(unsaved, w) /\ requests' = Tail(requests)
        /\ UNCHANGED <<chunks, disk, results, world, panic, last, served, edits>>
    BY DEF ServeChanged
  <1>4. /\ requests[1] = m /\ 1 \in 1..Len(requests) /\ Tail(requests) \in Seq(Requests)
    BY <1>1, HeadIsFirst
  <1> HIDE DEF m
  <1>5. Append(unsaved, w) \in Seq(Chunks \X Data)
    BY <1>1, <1>2, AppendProperties
  <1>6. MapgenTypes'
    BY <1>3, <1>4, <1>5 DEF DeliveryInv, MapgenTypes
  <1>7. MapgenInv' /\ ServedAreDone'
    BY <1>3 DEF DeliveryInv, MapgenInv, Good, Shaped, Grown, Surrounded, Phase,
       ServedAreDone, Looked
  <1>8. ASSUME NEW p \in Chunks
        PROVE  Placed(chunks, FoundIn(unsaved', disk, p), results, Tail(requests),
                      world[p], last[p], p)
    <2> DEFINE st == FoundIn(unsaved, disk, p)
               su == FoundIn(Append(unsaved, w), disk, p)
    <2>1. Placed(chunks, st, results, requests, world[p], last[p], p)
      BY DEF DeliveryInv
    <2>2. su = IF m.pos = p THEN m.data ELSE st
      <3>1. w[1] = m.pos /\ w[2] = m.data
        OBVIOUS
      <3> HIDE DEF w
      <3> QED
        BY <1>1, <1>2, <3>1, FoundAppend
    <2> HIDE DEF st, su
    <2>3. CASE m.pos = p
      <3>1. 1 \in Changes(requests, p)
        BY <1>1, <1>4, <2>3 DEF Changes
      <3>2. There(chunks, st, results, requests, world[p], last[p], p)
        BY <2>1, <3>1 DEF Placed, Away, Coming
      <3>3. LastChange(requests, p, world[p])
        BY <3>1, <3>2 DEF There
      <3>4. \/ LastChange(Tail(requests), p, world[p])
            \/ Changes(Tail(requests), p) = {} /\ m.data = world[p]
        BY <1>1, <1>4, <3>1, <3>3, ChangesTail
      <3>5. There(chunks, su, results, Tail(requests), world[p], last[p], p)
        BY <2>2, <2>3, <3>2, <3>4 DEF There
      <3> QED
        BY <1>3, <3>5 DEF Placed, su
    <2>4. CASE m.pos # p
      <3>1. 1 \notin Changes(requests, p)
        BY <1>4, <2>4 DEF Changes
      <3>2. /\ Changes(requests, p) = {} => Changes(Tail(requests), p) = {}
            /\ \A v : LastChange(requests, p, v) => LastChange(Tail(requests), p, v)
        BY <1>1, <3>1, ChangesTail
      <3>3. Placed(chunks, su, results, Tail(requests), world[p], last[p], p)
        BY <2>1, <2>2, <2>4, <3>2 DEF Placed, Away, Coming, There
      <3> QED
        BY <1>3, <3>3 DEF su
    <2> QED
      BY <2>3, <2>4
  <1> QED
    BY <1>3, <1>6, <1>7, <1>8 DEF DeliveryInv

LEMMA CommitDelivers ==
    ASSUME DeliveryInv, Commit
    PROVE  DeliveryInv'
  <1>1. unsaved \in Seq(Chunks \X Data)
    BY DEF DeliveryInv, MapgenTypes
  <1>2. PICK n \in 1..Len(unsaved) :
           /\ disk' = [p \in Chunks |->
                 LET i == SelectLastInSubSeq(unsaved, 1, n, LAMBDA w : w[1] = p)
                 IN IF i = 0 THEN disk[p] ELSE unsaved[i][2]]
           /\ unsaved' = SubSeq(unsaved, n + 1, Len(unsaved))
    BY DEF Commit
  <1>3. UNCHANGED <<chunks, requests, results, world, panic, last, served, edits>>
    BY DEF Commit
  <1>4. ASSUME NEW p \in Chunks
        PROVE  FoundIn(unsaved', disk', p) = FoundIn(unsaved, disk, p)
    <2>1. disk'[p] = Committed(unsaved, n, disk, p)
      BY <1>2 DEF Committed
    <2>2. FoundIn(SubSeq(unsaved, n + 1, Len(unsaved)), disk', p) = FoundIn(unsaved, disk, p)
      BY <1>1, <2>1, FoundCommit
    <2> QED
      BY <1>2, <2>2
  <1>5. unsaved' \in Seq(Chunks \X Data)
    <2>1. Len(unsaved) \in Nat /\ \A i \in 1..Len(unsaved) : unsaved[i] \in Chunks \X Data
      BY <1>1, ElementOfSeq
    <2>2. \A i \in (n + 1)..Len(unsaved) : unsaved[i] \in Chunks \X Data
      BY <1>2, <2>1
    <2>3. SubSeq(unsaved, n + 1, Len(unsaved)) \in Seq(Chunks \X Data)
      BY <1>2, <2>1, <2>2, SubSeqProperties
    <2> QED
      BY <1>2, <2>3
  <1>6. disk' \in [Chunks -> Data \cup {Absent}]
    <2>1. \A p \in Chunks :
             LET i == SelectLastInSubSeq(unsaved, 1, n, LAMBDA w : w[1] = p)
             IN (IF i = 0 THEN disk[p] ELSE unsaved[i][2]) \in Data \cup {Absent}
      <3> TAKE p \in Chunks
      <3> DEFINE I == {i \in 1..n : unsaved[i][1] = p}
                 l == CHOOSE i \in I : \A j \in I : j <= i
                 v == LET i == SelectLastInSubSeq(unsaved, 1, n, LAMBDA w : w[1] = p)
                      IN IF i = 0 THEN disk[p] ELSE unsaved[i][2]
      <3>1. v = LET i == IF I # {} THEN l ELSE 0 IN IF i = 0 THEN disk[p] ELSE unsaved[i][2]
        BY DEF SelectLastInSubSeq, Max
      <3>2. I # {} => l \in I
        <4>1. n \in Nat /\ I \in SUBSET (1..n)
          BY <1>1, LenProperties
        <4> HIDE DEF I
        <4> QED
          BY <4>1, Largest
      <3>3. \A i \in I : unsaved[i][2] \in Data
        <4>1. \A i \in 1..Len(unsaved) : unsaved[i] \in Chunks \X Data
          BY <1>1, ElementOfSeq
        <4>2. \A i \in I : i \in 1..Len(unsaved)
          BY <1>1, LenProperties
        <4> HIDE DEF I
        <4> QED
          BY <4>1, <4>2
      <3>4. disk[p] \in Data \cup {Absent}
        BY DEF DeliveryInv, MapgenTypes
      <3> HIDE DEF I, l
      <3>5. v \in Data \cup {Absent}
        <4> HIDE DEF v
        <4> QED
          BY <3>1, <3>2, <3>3, <3>4
      <3> QED
        BY <3>5
    <2> QED
      BY <1>2, <2>1
  <1> QED
    <2>1. MapgenTypes'
      BY <1>3, <1>5, <1>6 DEF DeliveryInv, MapgenTypes
    <2>2. MapgenInv' /\ ServedAreDone'
      BY <1>3 DEF DeliveryInv, MapgenInv, Good, Shaped, Grown, Surrounded, Phase,
         ServedAreDone, Looked
    <2>3. ASSUME NEW p \in Chunks
          PROVE  Placed(chunks', FoundIn(unsaved', disk', p), results', requests',
                        world'[p], last'[p], p)
      BY <1>3, <1>4 DEF DeliveryInv
    <2> QED
      BY <2>1, <2>2, <2>3 DEF DeliveryInv

LEMMA RequestAreaDelivers ==
    ASSUME DeliveryInv, RequestArea
    PROVE  DeliveryInv'
  <1>1. PICK area \in Areas : requests' = Append(requests, [area |-> area])
    BY DEF RequestArea
  <1>2. UNCHANGED <<chunks, disk, unsaved, results, world, panic, last, served, edits>>
    BY DEF RequestArea
  <1> DEFINE m == [area |-> area]
  <1>3. m \in GenArea /\ m \in Requests /\ requests \in Seq(Requests)
    BY DEF GenArea, Requests, DeliveryInv, MapgenTypes
  <1>4. m \notin ChunkChanged
    BY <1>3, NoAreaIsAChange
  <1> HIDE DEF m
  <1>5. Append(requests, m) \in Seq(Requests)
    BY <1>3, AppendProperties
  <1>6. requests' = Append(requests, m)
    BY <1>1 DEF m
  <1>7. MapgenTypes'
    BY <1>2, <1>5, <1>6 DEF DeliveryInv, MapgenTypes
  <1>8. MapgenInv' /\ ServedAreDone'
    BY <1>2 DEF DeliveryInv, MapgenInv, Good, Shaped, Grown, Surrounded, Phase,
       ServedAreDone, Looked
  <1>9. ASSUME NEW p \in Chunks
        PROVE  Placed(chunks, FoundIn(unsaved, disk, p), results, requests',
                      world[p], last[p], p)
    <2>1. /\ Changes(Append(requests, m), p) = Changes(requests, p)
          /\ \A v : LastChange(requests, p, v) => LastChange(Append(requests, m), p, v)
      BY <1>3, <1>4, ChangesAppend
    <2> QED
      BY <1>6, <2>1 DEF DeliveryInv, Placed, Away, Coming, There
  <1> QED
    BY <1>2, <1>7, <1>8, <1>9 DEF DeliveryInv

LEMMA MapTickDelivers ==
    ASSUME DeliveryInv, MapTick
    PROVE  DeliveryInv'
  <1> DEFINE h == Head(results)[1]
             d == Head(results)[2]
             rs == Tail(results)
  <1>1. /\ world' = [world EXCEPT ![h] = d] /\ results' = rs
        /\ UNCHANGED <<chunks, disk, unsaved, requests, panic, last, served, edits>>
    BY DEF MapTick
  <1>2. results \in Seq(Chunks \X Data) /\ results # << >>
    BY DEF MapTick, DeliveryInv, MapgenTypes
  <1>3. Head(results) \in Chunks \X Data /\ rs \in Seq(Chunks \X Data)
    BY <1>2, HeadIsFirst
  <1>4. h \in Chunks /\ d \in Data /\ d # Absent
    BY <1>3, AbsentAssumption
  <1>5. world \in [Chunks -> Data \cup {Absent}]
    BY DEF DeliveryInv, MapgenTypes
  <1>6. ASSUME NEW p \in Chunks
        PROVE  /\ NoneComes(results, p) => NoneComes(rs, p) /\ h # p
               /\ \A v : Comes(results, p, v) =>
                     IF h = p THEN NoneComes(rs, p) /\ d = v ELSE Comes(rs, p, v)
    BY <1>2, ComesTail
  <1> HIDE DEF h, d, rs
  <1>7. /\ world' \in [Chunks -> Data \cup {Absent}]
        /\ \A p \in Chunks : world'[p] = IF p = h THEN d ELSE world[p]
    BY <1>1, <1>4, <1>5
  <1>8. MapgenTypes'
    BY <1>1, <1>3, <1>7 DEF DeliveryInv, MapgenTypes, rs
  <1>9. MapgenInv' /\ ServedAreDone'
    BY <1>1 DEF DeliveryInv, MapgenInv, Good, Shaped, Grown, Surrounded, Phase,
       ServedAreDone, Looked
  <1>10. ASSUME NEW p \in Chunks
         PROVE  Placed(chunks, FoundIn(unsaved, disk, p), rs, requests, world'[p], last[p], p)
    <2> DEFINE st == FoundIn(unsaved, disk, p)
    <2>1. Placed(chunks, st, results, requests, world[p], last[p], p)
      BY DEF DeliveryInv
    <2> HIDE DEF st
    <2>2. CASE p = h
      <3>1. Coming(chunks, st, results, requests, world[p], last[p], p)
        BY <1>6, <2>1, <2>2 DEF Placed, Away, There
      <3>2. NoneComes(rs, p) /\ d = st
        BY <1>6, <2>2, <3>1 DEF Coming
      <3>3. There(chunks, st, rs, requests, world'[p], last[p], p)
        BY <1>4, <1>7, <2>2, <3>1, <3>2 DEF Coming, There, EditOf
      <3> QED
        BY <3>3 DEF Placed, st
    <2>3. CASE p # h
      <3>1. world'[p] = world[p]
        BY <1>7, <2>3
      <3>2. Placed(chunks, st, rs, requests, world[p], last[p], p)
        BY <1>6, <2>1, <2>3 DEF Placed, Away, Coming, There
      <3> QED
        BY <3>1, <3>2 DEF st
    <2> QED
      BY <2>2, <2>3
  <1> QED
    BY <1>1, <1>8, <1>9, <1>10 DEF DeliveryInv

LEMMA EditDelivers ==
    ASSUME DeliveryInv, NEW h \in Chunks, Edit(h)
    PROVE  DeliveryInv'
  <1> DEFINE d == [world[h] EXCEPT !.edit = edits']
             m == [pos |-> h, data |-> d]
  <1>1. /\ world[h] # Absent /\ edits < MaxEdits /\ edits' = edits + 1
        /\ world' = [world EXCEPT ![h].edit = edits']
        /\ requests' = Append(requests, [pos |-> h, data |-> world'[h]])
        /\ last' = [last EXCEPT ![h] = edits']
        /\ UNCHANGED <<chunks, disk, unsaved, results, panic, served>>
    BY DEF Edit
  <1>2. /\ world \in [Chunks -> Data \cup {Absent}] /\ last \in [Chunks -> 0..MaxEdits]
        /\ edits \in 0..MaxEdits /\ requests \in Seq(Requests) /\ MaxEdits \in Nat
    BY MapgenAssumption DEF DeliveryInv, MapgenTypes
  <1>3. edits' \in 0..MaxEdits
    BY <1>1, <1>2
  <1>4. d \in Data /\ d.edit = edits' /\ d # Absent
    <2>1. world[h] \in Data
      BY <1>1, <1>2
    <2>2. d \in Data /\ d.edit = edits'
      BY <1>3, <2>1 DEF Data
    <2> HIDE DEF d
    <2> QED
      BY <2>2, AbsentAssumption
  <1>5. world' = [world EXCEPT ![h] = d]
    BY <1>1, <1>2
  <1> HIDE DEF d
  <1>6. /\ world' \in [Chunks -> Data \cup {Absent}]
        /\ \A p \in Chunks : world'[p] = IF p = h THEN d ELSE world[p]
    BY <1>2, <1>4, <1>5
  <1>7. /\ last' \in [Chunks -> 0..MaxEdits]
        /\ \A p \in Chunks : last'[p] = IF p = h THEN edits' ELSE last[p]
    BY <1>1, <1>2, <1>3
  <1>8. m \in ChunkChanged /\ m \in Requests /\ m.pos = h /\ m.data = d
    BY <1>4 DEF ChunkChanged, Requests
  <1>9. requests' = Append(requests, m)
    BY <1>1, <1>6
  <1> HIDE DEF m
  <1>10. requests' \in Seq(Requests)
    BY <1>2, <1>8, <1>9, AppendProperties
  <1>11. MapgenTypes'
    BY <1>1, <1>3, <1>6, <1>7, <1>10 DEF DeliveryInv, MapgenTypes
  <1>12. MapgenInv' /\ ServedAreDone'
    BY <1>1 DEF DeliveryInv, MapgenInv, Good, Shaped, Grown, Surrounded, Phase,
       ServedAreDone, Looked
  <1>13. ASSUME NEW p \in Chunks
         PROVE  Placed(chunks, FoundIn(unsaved, disk, p), results, requests',
                       world'[p], last'[p], p)
    <2> DEFINE st == FoundIn(unsaved, disk, p)
    <2>1. Placed(chunks, st, results, requests, world[p], last[p], p)
      BY DEF DeliveryInv
    <2> HIDE DEF st
    <2>2. CASE p = h
      <3>1. There(chunks, st, results, requests, world[p], last[p], p)
        BY <1>1, <2>1, <2>2 DEF Placed, Away, Coming
      <3>2. LastChange(requests', p, d)
        BY <1>2, <1>8, <1>9, <2>2, ChangesAppend
      <3>3. There(chunks, st, results, requests', world'[p], last'[p], p)
        BY <1>4, <1>6, <1>7, <2>2, <3>1, <3>2 DEF There
      <3> QED
        BY <3>3 DEF Placed, st
    <2>3. CASE p # h
      <3>1. world'[p] = world[p] /\ last'[p] = last[p]
        BY <1>6, <1>7, <2>3
      <3>2. /\ Changes(requests', p) = Changes(requests, p)
            /\ \A v : LastChange(requests, p, v) => LastChange(requests', p, v)
        BY <1>2, <1>8, <1>9, <2>3, ChangesAppend
      <3>3. Placed(chunks, st, results, requests', world[p], last[p], p)
        BY <2>1, <3>2 DEF Placed, Away, Coming, There
      <3> QED
        BY <3>1, <3>3 DEF st
    <2> QED
      BY <2>2, <2>3
  <1> QED
    BY <1>1, <1>11, <1>12, <1>13 DEF DeliveryInv

LEMMA CrashDelivers ==
    ASSUME DeliveryInv, Crash
    PROVE  DeliveryInv'
  <1>1. /\ chunks' = [p \in {} |-> Absent] /\ world' = [p \in Chunks |-> Absent]
        /\ unsaved' = << >> /\ requests' = << >> /\ results' = << >>
        /\ last' = [p \in Chunks |-> IF disk[p] = Absent THEN 0 ELSE disk[p].edit]
        /\ served' = {} /\ UNCHANGED <<disk, panic, edits>>
    BY DEF Crash
  <1>2. disk \in [Chunks -> Data \cup {Absent}] /\ edits \in 0..MaxEdits /\ MaxEdits \in Nat
    BY MapgenAssumption DEF DeliveryInv, MapgenTypes
  <1>3. \A p \in Chunks : last'[p] = EditOf(disk[p]) /\ last'[p] \in 0..MaxEdits
    BY <1>1, <1>2 DEF EditOf, Data
  <1>4. last' \in [Chunks -> 0..MaxEdits]
    <2>1. last' = [p \in Chunks |-> last'[p]]
      BY <1>1
    <2> QED
      BY <1>3, <2>1
  <1>5. MapgenTypes'
    BY <1>1, <1>2, <1>4 DEF MapgenTypes
  <1>6. MapgenInv'
    BY <1>1 DEF DeliveryInv, MapgenInv, Good, Shaped, Grown, Surrounded
  <1>7. ServedAreDone'
    BY <1>1 DEF ServedAreDone
  <1>8. ASSUME NEW p \in Chunks
        PROVE  Away(chunks', FoundIn(unsaved', disk', p), results', requests',
                    world'[p], last'[p], p)
    <2>1. Len(unsaved') = 0 /\ Len(requests') = 0 /\ Len(results') = 0
      BY <1>1
    <2>2. FoundIn(unsaved', disk', p) = disk[p]
      BY <1>1, <2>1 DEF FoundIn, Writes
    <2> QED
      BY <1>1, <1>3, <2>1, <2>2 DEF Away, Phase, Done, NoneComes, Changes
  <1> QED
    BY <1>5, <1>6, <1>7, <1>8 DEF DeliveryInv, Placed

LEMMA NextDelivery ==
    ASSUME DeliveryInv, [Next]_vars
    PROVE  DeliveryInv'
  <1>1. CASE ServeArea
    BY <1>1, ServeAreaDelivers
  <1>2. CASE ServeChanged
    BY <1>2, ServeChangedDelivers
  <1>3. CASE Commit
    BY <1>3, CommitDelivers
  <1>4. CASE RequestArea
    BY <1>4, RequestAreaDelivers
  <1>5. CASE MapTick
    BY <1>5, MapTickDelivers
  <1>6. CASE \E p \in Chunks : Edit(p)
    BY <1>6, EditDelivers
  <1>7. CASE Crash
    BY <1>7, CrashDelivers
  <1>8. CASE UNCHANGED vars
    <2>1. MapgenTypes' /\ MapgenInv' /\ ServedAreDone'
      BY <1>8 DEF vars, DeliveryInv, MapgenTypes, MapgenInv, Good, Shaped, Grown,
         Surrounded, Phase, ServedAreDone, Looked
    <2> QED
      BY <1>8, <2>1 DEF vars, DeliveryInv
  <1> QED
    BY <1>1, <1>2, <1>3, <1>4, <1>5, <1>6, <1>7, <1>8 DEF Next, MapgenStep, ServerStep

\* What the server shows of a chunk is its last edit that no crash has undone:
\* no chunk that comes from the mapgen thread later undoes it.
THEOREM EditsKept == Spec => []EditsSurvive
  <1>1. Init => DeliveryInv
    BY InitDelivery
  <1>2. DeliveryInv /\ [Next]_vars => DeliveryInv'
    BY NextDelivery
  <1>3. DeliveryInv => EditsSurvive
    BY DeliveryInvImplies
  <1> QED
    BY <1>1, <1>2, <1>3, PTL DEF Spec

\* With all requests read, the storage holds every chunk as the server has it.
THEOREM StorageCurrent == Spec => []StoredIsCurrent
  <1>1. Init => DeliveryInv
    BY InitDelivery
  <1>2. DeliveryInv /\ [Next]_vars => DeliveryInv'
    BY NextDelivery
  <1>3. DeliveryInv => StoredIsCurrent
    BY DeliveryInvImplies
  <1> QED
    BY <1>1, <1>2, <1>3, PTL DEF Spec

\* The chunks of a served area are on the server or on their way to it.
THEOREM ServedAreasArrive == Spec => []AreasArrive
  <1>1. Init => DeliveryInv
    BY InitDelivery
  <1>2. DeliveryInv /\ [Next]_vars => DeliveryInv'
    BY NextDelivery
  <1>3. DeliveryInv => AreasArrive
    BY DeliveryInvImplies
  <1> QED
    BY <1>1, <1>2, <1>3, PTL DEF Spec
=============================================================================
