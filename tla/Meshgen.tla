------------------------------- MODULE Meshgen -------------------------------
(***************************************************************************)
(* The mesh of a chunk (mesh_for_chunk): the sides of blocks that no other *)
(* block of the chunk covers, those of one texture in a row drawn as one   *)
(* rectangle, and apart from them the plants, drawn as two crossed         *)
(* rectangles.                                                             *)
(*                                                                         *)
(* A vector is a tuple of three integers.  A rectangle has its corner at,  *)
(* its size along the axes (0 along the one it is normal to), its winding, *)
(* which says from which side it is seen, and its texture.                 *)
(***************************************************************************)
EXTENDS Integers, Sequences, FiniteSets, FiniteSetsExt

CONSTANTS
    Size,      \* CHUNKSIZE
    Blocky,    \* block id -> its textures, for the blocks drawn as cubes
    Crossed,   \* block id -> its texture, for the plants
    Undrawn,   \* the other ids of the game params, air among them
    Fallback   \* the texture of ids the game params do not have

ASSUME MeshAssumption ==
    /\ Size \in Nat \ {0}
    /\ DOMAIN Blocky \cap DOMAIN Crossed = {}
    /\ Undrawn \cap (DOMAIN Blocky \cup DOMAIN Crossed) = {}

Cells == (0..Size - 1) \X (0..Size - 1) \X (0..Size - 1)
Plus(v, w) == <<v[1] + w[1], v[2] + w[2], v[3] + w[3]>>
Times(n, v) == <<n * v[1], n * v[2], n * v[3]>>

\* The textures of a block that is a cube, as a set of at most one.
GetBlTexIds(b) ==
    IF b \in DOMAIN Blocky THEN {Blocky[b]}
    ELSE IF b \in Undrawn \cup DOMAIN Crossed THEN {}
    ELSE {[sides |-> Fallback, top |-> Fallback, bottom |-> Fallback]}

\* The six passes: where the neighbour is, along which axis rectangles are
\* united, which texture is taken, and whether the winding is reversed.
Passes == <<
    [off |-> <<0, 0, -1>>, axis |-> 2, face |-> "bottom", rev |-> FALSE],
    [off |-> <<0, -1, 0>>, axis |-> 1, face |-> "sides",  rev |-> TRUE],
    [off |-> <<-1, 0, 0>>, axis |-> 2, face |-> "sides",  rev |-> FALSE],
    [off |-> <<0, 0, 1>>,  axis |-> 2, face |-> "top",    rev |-> TRUE],
    [off |-> <<0, 1, 0>>,  axis |-> 1, face |-> "sides",  rev |-> FALSE],
    [off |-> <<1, 0, 0>>,  axis |-> 2, face |-> "sides",  rev |-> TRUE] >>

Blocked(chunk, off, pos) ==
    LET q == Plus(pos, off) IN q \in Cells /\ GetBlTexIds(chunk[q]) # {}

GetTexInd(chunk, pos, pass) ==
    IF Blocked(chunk, pass.off, pos) THEN {}
    ELSE {ids[pass.face] : ids \in GetBlTexIds(chunk[pos])}

\* Walker::next at v: a change of the texture ends a rectangle and begins one.
WalkerNext(w, v, item) ==
    IF item = w.item THEN w
    ELSE [from |-> v, item |-> item,
          out |-> w.out \cup {[from |-> w.from, len |-> v - w.from, tex |-> t] : t \in w.item}]

Walker == [from |-> 0, item |-> {}, out |-> {}]

\* Mutant: the end of the row does not end the rectangle.
WalkRowOpen(items) ==
    LET walk[v \in 0..Size] ==
          IF v = 0 THEN Walker ELSE WalkerNext(walk[v - 1], v - 1, items[v - 1])
    IN  walk[Size].out

\* One row, and after it a None that ends the last rectangle.
WalkRow(items) ==
    LET walk[v \in 0..Size + 1] ==
          IF v = 0 THEN Walker
          ELSE WalkerNext(walk[v - 1], v - 1, IF v <= Size THEN items[v - 1] ELSE {})
    IN  walk[Size + 1].out

Unit(axis) == [i \in 1..3 |-> IF i = axis THEN 1 ELSE 0]

\* The rows of a pass, each named by its first cell.
Rows(pass) == {c \in Cells : c[pass.axis] = 0}
CellOf(pass, row, v) == Plus(row, Times(v, Unit(pass.axis)))
Items(chunk, pass, row) ==
    [v \in 0..Size - 1 |-> GetTexInd(chunk, CellOf(pass, row, v), pass)]

\* A rectangle lies on the far side of its cells if the neighbours are there.
Plane(pass) == [i \in 1..3 |-> IF pass.off[i] > 0 THEN 1 ELSE 0]
Across(pass) == [i \in 1..3 |-> IF i = pass.axis \/ pass.off[i] # 0 THEN 0 ELSE 1]
Rectangle(offs, pass, row, s) ==
    [at   |-> Plus(Plus(offs, CellOf(pass, row, s.from)), Plane(pass)),
     size |-> Plus(Across(pass), Times(s.len, Unit(pass.axis))),
     rev  |-> pass.rev, tex |-> s.tex]

\* walk_for_all_blocks: the rectangles of one pass, in the world.
WalkForAllBlocks(chunk, offs, pass) ==
    UNION {{Rectangle(offs, pass, row, s) : s \in WalkRow(Items(chunk, pass, row))} :
           row \in Rows(pass)}

MeshForChunk(offs, chunk) ==
    [intransparent |-> UNION {WalkForAllBlocks(chunk, offs, Passes[i]) : i \in DOMAIN Passes},
     transparent |-> {[at |-> Plus(offs, c), tex |-> Crossed[chunk[c]]] :
                         c \in {c \in Cells : chunk[c] \in DOMAIN Crossed}}]

-----------------------------------------------------------------------------
(* What a mesh should show, stated block by block. *)

Directions == {d \in (-1..1) \X (-1..1) \X (-1..1) :
                  Cardinality({i \in 1..3 : d[i] # 0}) = 1}

IsCube(b) == b \notin Undrawn \cup DOMAIN Crossed

Texture(b, d) ==
    IF b \notin DOMAIN Blocky THEN Fallback
    ELSE IF d[3] = 1 THEN Blocky[b].top
    ELSE IF d[3] = -1 THEN Blocky[b].bottom ELSE Blocky[b].sides

\* The unit squares to be seen, each with the direction it is seen from.
VisibleSides(offs, chunk) ==
    UNION {{[cell |-> Plus(offs, c), from |-> d, tex |-> Texture(chunk[c], d)] :
              d \in {d \in Directions : Plus(c, d) \notin Cells \/ ~IsCube(chunk[Plus(c, d)])}} :
           c \in {c \in Cells : IsCube(chunk[c])}}

\* The direction a rectangle is seen from: the winding is clockwise there
\* (CullCounterClockwise), and its two edges are taken in the order of the axes.
SeenFrom(q) ==
    LET s == IF q.rev THEN 1 ELSE -1
    IN  CASE q.size[3] = 0 -> <<0, 0, s>>
          [] q.size[2] = 0 -> <<0, -s, 0>>
          [] q.size[1] = 0 -> <<s, 0, 0>>

\* The unit squares a rectangle shows, each named by the cell it is a side of.
Squares(q) ==
    LET d == SeenFrom(q)
        Low == [i \in 1..3 |-> IF d[i] = 1 THEN q.at[i] - 1 ELSE q.at[i]]
        Extent(i) == IF q.size[i] = 0 THEN {0} ELSE 0..q.size[i] - 1
    IN  {[cell |-> Plus(Low, e), from |-> d, tex |-> q.tex] :
           e \in Extent(1) \X Extent(2) \X Extent(3)}

\* The mesh shows what is to be seen, and nothing of it twice.
Shows(mesh, offs, chunk) ==
    /\ UNION {Squares(q) : q \in mesh.intransparent} = VisibleSides(offs, chunk)
    /\ \A q, r \in mesh.intransparent : q # r => Squares(q) \cap Squares(r) = {}
    /\ mesh.transparent = {[at |-> Plus(offs, c), tex |-> Crossed[chunk[c]]] :
                             c \in {c \in Cells : chunk[c] \in DOMAIN Crossed}}
=============================================================================
