----------------------------- MODULE ChestsProofs -----------------------------
(***************************************************************************)
(* For any players, chests, inventories and number of commands, a client   *)
(* that nothing is under way to sees the server's chunk, but for the named *)
(* gaps.  The argument: the last chunk on the way to a client is always    *)
(* the server's, and while none is on the way its view is, unless a        *)
(* command of its own is under way that will be answered by one.           *)
(*                                                                         *)
(* The chests' inventories are there and their items are kept by the types *)
(* of what the server has (ChestsTyped) and, step by step, by the lemmas   *)
(* of InventoryProofs.                                                     *)
(***************************************************************************)
EXTENDS Chests, InventoryProofs, SequenceTheorems, TLAPS

IsSeq(s) == \E S : s \in Seq(S)

IsChest(t) == t = [s \in ChestSlots |-> t[s]]

IsChunk(c) ==
    /\ c = [blk |-> c.blk, meta |-> c.meta]
    /\ c.blk = [p \in Pos |-> c.blk[p]]
    /\ c.meta = [p \in Pos |-> c.meta[p]]
    /\ \A p \in Pos : c.meta[p] # None => IsChest(c.meta[p])

IsUpdate(m) == m.kind = "ChunkUpdated"
UpdateIn(s) == \E i \in 1..Len(s) : IsUpdate(s[i])

\* Every chunk on the way but the last may be an old one.
LastIs(s, c) ==
    \A i \in 1..Len(s) : IsUpdate(s[i]) =>
        \/ s[i].chunk = c
        \/ \E j \in (i + 1)..Len(s) : IsUpdate(s[j])

ChunksIn(s) == \A i \in 1..Len(s) : IsUpdate(s[i]) => IsChunk(s[i].chunk)

\* A command that is not predicted in the chunk.
Harmless(m) == m.kind = "Swap" /\ {m.from, m.to} \subseteq MainSlots
AllHarmless(s) == \A i \in 1..Len(s) : Harmless(s[i])

QueuesOK(pl) ==
    /\ IsSeq(toClient[pl]) /\ IsSeq(toServer[pl])
    /\ ChunksIn(toClient[pl])
    /\ LastIs(toClient[pl], chunk)

CopiesOK(pl) ==
    /\ IsChunk(view[pl])
    /\ menu[pl] # None => IsChest(menu[pl].chest)

InStep(pl) ==
    drift[pl] = {} /\ ~UpdateIn(toClient[pl]) /\ AllHarmless(toServer[pl])
        => view[pl] = chunk

ViewOK(pl) == QueuesOK(pl) /\ CopiesOK(pl) /\ InStep(pl)

Tables ==
    /\ view = [pl \in Players |-> view[pl]]
    /\ menu = [pl \in Players |-> menu[pl]]
    /\ drift = [pl \in Players |-> drift[pl]]
    /\ toServer = [pl \in Players |-> toServer[pl]]
    /\ toClient = [pl \in Players |-> toClient[pl]]

ViewsInv == Tables /\ IsChunk(chunk) /\ \A pl \in Players : ViewOK(pl)

-----------------------------------------------------------------------------
(* Queues *)

LEMMA AppendQuiet ==
    ASSUME NEW s, IsSeq(s), NEW m, ~IsUpdate(m), NEW c
    PROVE  /\ IsSeq(Append(s, m))
           /\ UpdateIn(s) => UpdateIn(Append(s, m))
           /\ LastIs(s, c) => LastIs(Append(s, m), c)
           /\ ChunksIn(s) => ChunksIn(Append(s, m))
<1>1. PICK S : s \in Seq(S)
  BY DEF IsSeq
<1>2. s \in Seq(S \cup {m})
  BY <1>1, SeqMonotonic
<1>3. /\ Append(s, m) \in Seq(S \cup {m}) /\ Len(Append(s, m)) = Len(s) + 1
      /\ \A i \in 1..Len(s) : Append(s, m)[i] = s[i]
      /\ Append(s, m)[Len(s) + 1] = m
  BY <1>2, AppendProperties
<1>4. Len(s) \in Nat
  BY <1>1
<1>5. UpdateIn(s) => UpdateIn(Append(s, m))
  BY <1>3, <1>4 DEF UpdateIn
<1>6. LastIs(s, c) => LastIs(Append(s, m), c)
  <2> SUFFICES ASSUME LastIs(s, c), NEW i \in 1..(Len(s) + 1), IsUpdate(Append(s, m)[i])
               PROVE  \/ Append(s, m)[i].chunk = c
                      \/ \E j \in (i + 1)..(Len(s) + 1) : IsUpdate(Append(s, m)[j])
    BY <1>3 DEF LastIs
  <2>1. i \in 1..Len(s)
    BY <1>3, <1>4
  <2>2. CASE s[i].chunk = c
    BY <1>3, <2>1, <2>2
  <2>3. CASE \E j \in (i + 1)..Len(s) : IsUpdate(s[j])
    <3>1. PICK j \in (i + 1)..Len(s) : IsUpdate(s[j])
      BY <2>3
    <3>2. j \in 1..Len(s) /\ j \in (i + 1)..(Len(s) + 1)
      BY <1>4, <2>1
    <3> QED
      BY <1>3, <3>1, <3>2
  <2> QED
    BY <1>3, <2>1, <2>2, <2>3 DEF LastIs
<1>7. ChunksIn(s) => ChunksIn(Append(s, m))
  BY <1>3, <1>4 DEF ChunksIn
<1> QED
  BY <1>3, <1>5, <1>6, <1>7 DEF IsSeq

LEMMA ConcatUpdates ==
    ASSUME NEW s, IsSeq(s), ChunksIn(s), NEW cs, NEW C, cs \in Seq(C), cs # << >>,
           \A k \in 1..Len(cs) : IsChunk(cs[k])
    PROVE  LET t == s \o Updates(cs)
           IN IsSeq(t) /\ ChunksIn(t) /\ UpdateIn(t) /\ LastIs(t, cs[Len(cs)])
<1> DEFINE u == Updates(cs)
           t == s \o u
           M == [kind : {"ChunkUpdated"}, chunk : C]
<1>1. PICK S : s \in Seq(S)
  BY DEF IsSeq
<1>2. u \in Seq(M) /\ Len(u) = Len(cs)
  <2>1. DOMAIN cs = 1..Len(cs) /\ Len(cs) \in Nat /\ \A k \in 1..Len(cs) : cs[k] \in C
    OBVIOUS
  <2>2. u = [k \in 1..Len(cs) |-> [kind |-> "ChunkUpdated", chunk |-> cs[k]]]
    BY <2>1 DEF Updates
  <2>3. u \in [1..Len(cs) -> M]
    BY <2>1, <2>2
  <2> HIDE DEF u, M
  <2> QED
    BY <2>1, <2>3, IsASeq, LenProperties
<1>3. \A k \in 1..Len(cs) : IsUpdate(u[k]) /\ u[k].chunk = cs[k]
  BY DEF Updates, IsUpdate
<1>4. s \in Seq(S \cup M) /\ u \in Seq(S \cup M)
  BY <1>1, <1>2, SeqMonotonic
<1>5. /\ t \in Seq(S \cup M) /\ Len(t) = Len(s) + Len(u)
      /\ \A i \in 1..Len(s) + Len(u) : t[i] = IF i <= Len(s) THEN s[i] ELSE u[i - Len(s)]
  BY <1>4, ConcatProperties
<1>6. Len(s) \in Nat /\ Len(cs) \in Nat /\ Len(cs) >= 1
  BY <1>1
<1>7. ASSUME NEW i \in 1..Len(t), ~(i <= Len(s))
      PROVE  i - Len(s) \in 1..Len(cs) /\ t[i] = u[i - Len(s)]
  BY <1>2, <1>5, <1>6, <1>7
<1>8. Len(t) \in 1..Len(t) /\ ~(Len(t) <= Len(s)) /\ Len(t) - Len(s) = Len(cs)
  BY <1>2, <1>5, <1>6
<1>9. IsUpdate(t[Len(t)]) /\ t[Len(t)].chunk = cs[Len(cs)]
  BY <1>3, <1>6, <1>7, <1>8
<1>10. UpdateIn(t)
  BY <1>8, <1>9 DEF UpdateIn
<1>11. LastIs(t, cs[Len(cs)])
  <2> SUFFICES ASSUME NEW i \in 1..Len(t), i # Len(t)
               PROVE  \E j \in (i + 1)..Len(t) : IsUpdate(t[j])
    BY <1>9 DEF LastIs
  <2>1. Len(t) \in Nat
    BY <1>2, <1>5, <1>6
  <2> HIDE DEF t
  <2>2. Len(t) \in (i + 1)..Len(t)
    BY <2>1
  <2> QED
    BY <1>9, <2>2
<1>12. ASSUME NEW i \in 1..Len(t), IsUpdate(t[i]) PROVE IsChunk(t[i].chunk)
  <2>1. CASE i <= Len(s)
    BY <1>2, <1>5, <1>6, <1>12, <2>1 DEF ChunksIn
  <2>2. CASE ~(i <= Len(s))
    BY <1>3, <1>7, <2>2
  <2> QED
    BY <2>1, <2>2
<1>13. ChunksIn(t)
  BY <1>12 DEF ChunksIn
<1> HIDE DEF t
<1> QED
  BY <1>5, <1>10, <1>11, <1>13 DEF IsSeq, t

LEMMA TailUpdates ==
    ASSUME NEW s, IsSeq(s), s # << >>, ChunksIn(s), NEW c, LastIs(s, c)
    PROVE  /\ IsSeq(Tail(s)) /\ ChunksIn(Tail(s)) /\ LastIs(Tail(s), c)
           /\ IsUpdate(Head(s)) => IsChunk(Head(s).chunk)
           /\ IsUpdate(Head(s)) /\ ~UpdateIn(Tail(s)) => Head(s).chunk = c
           /\ ~IsUpdate(Head(s)) /\ UpdateIn(s) => UpdateIn(Tail(s))
<1>1. PICK S : s \in Seq(S)
  BY DEF IsSeq
<1>2. /\ Tail(s) \in Seq(S) /\ Len(Tail(s)) = Len(s) - 1
      /\ \A i \in 1..Len(Tail(s)) : Tail(s)[i] = s[i + 1]
  BY <1>1, HeadTailProperties
<1>3. Len(s) \in Nat /\ Len(s) >= 1 /\ Head(s) = s[1]
  BY <1>1
<1>4. ASSUME NEW i \in 2..Len(s) PROVE i - 1 \in 1..Len(Tail(s)) /\ Tail(s)[i - 1] = s[i]
  <2>1. i - 1 \in 1..Len(Tail(s)) /\ (i - 1) + 1 = i
    BY <1>2, <1>3
  <2> QED
    BY <1>2, <2>1
<1>5. ChunksIn(Tail(s)) /\ (IsUpdate(Head(s)) => IsChunk(Head(s).chunk))
  BY <1>2, <1>3 DEF ChunksIn
<1>6. LastIs(Tail(s), c)
  <2> SUFFICES ASSUME NEW i \in 1..Len(Tail(s)), IsUpdate(Tail(s)[i]),
                      Tail(s)[i].chunk # c
               PROVE  \E j \in (i + 1)..Len(Tail(s)) : IsUpdate(Tail(s)[j])
    BY DEF LastIs
  <2>1. i + 1 \in 1..Len(s) /\ Tail(s)[i] = s[i + 1]
    BY <1>2, <1>3
  <2>2. PICK j \in (i + 2)..Len(s) : IsUpdate(s[j])
    BY <1>3, <2>1 DEF LastIs
  <2>3. j \in 2..Len(s) /\ j - 1 \in (i + 1)..Len(Tail(s))
    BY <1>2, <1>3, <2>2
  <2> QED
    BY <1>4, <2>2, <2>3
<1>7. ASSUME IsUpdate(Head(s)), ~UpdateIn(Tail(s)) PROVE Head(s).chunk = c
  <2>1. \A j \in 2..Len(s) : ~IsUpdate(s[j])
    BY <1>4, <1>7 DEF UpdateIn
  <2>2. 1 \in 1..Len(s) /\ 1 + 1 = 2
    BY <1>3
  <2> QED
    BY <1>3, <1>7, <2>1, <2>2 DEF LastIs
<1>8. ASSUME ~IsUpdate(Head(s)), UpdateIn(s) PROVE UpdateIn(Tail(s))
  <2>1. PICK i \in 1..Len(s) : IsUpdate(s[i])
    BY <1>8 DEF UpdateIn
  <2>2. i \in 2..Len(s)
    BY <1>3, <1>8, <2>1
  <2> QED
    BY <1>4, <2>1, <2>2 DEF UpdateIn
<1> QED
  BY <1>2, <1>5, <1>6, <1>7, <1>8 DEF IsSeq

\* Commands: one more, one less.
LEMMA CommandQueues ==
    ASSUME NEW s, IsSeq(s)
    PROVE  /\ \A m : /\ IsSeq(Append(s, m))
                     /\ AllHarmless(Append(s, m)) => AllHarmless(s) /\ Harmless(m)
           /\ s # << >> => /\ IsSeq(Tail(s))
                           /\ AllHarmless(Tail(s)) /\ Harmless(Head(s)) => AllHarmless(s)
<1>1. PICK S : s \in Seq(S)
  BY DEF IsSeq
<1>2. Len(s) \in Nat
  BY <1>1
<1>3. ASSUME NEW m
      PROVE  /\ IsSeq(Append(s, m))
             /\ AllHarmless(Append(s, m)) => AllHarmless(s) /\ Harmless(m)
  <2>1. s \in Seq(S \cup {m})
    BY <1>1, SeqMonotonic
  <2>2. /\ Append(s, m) \in Seq(S \cup {m}) /\ Len(Append(s, m)) = Len(s) + 1
        /\ \A i \in 1..Len(s) : Append(s, m)[i] = s[i]
        /\ Append(s, m)[Len(s) + 1] = m
    BY <2>1, AppendProperties
  <2>3. AllHarmless(Append(s, m)) => AllHarmless(s) /\ Harmless(m)
    <3>1. (1..Len(s)) \subseteq 1..(Len(s) + 1) /\ Len(s) + 1 \in 1..(Len(s) + 1)
      BY <1>2
    <3> QED
      BY <2>2, <3>1 DEF AllHarmless
  <2> QED
    BY <2>2, <2>3 DEF IsSeq
<1>4. ASSUME s # << >>
      PROVE  /\ IsSeq(Tail(s))
             /\ AllHarmless(Tail(s)) /\ Harmless(Head(s)) => AllHarmless(s)
  <2>1. /\ Tail(s) \in Seq(S) /\ Len(Tail(s)) = Len(s) - 1
        /\ \A i \in 1..Len(Tail(s)) : Tail(s)[i] = s[i + 1]
    BY <1>1, <1>4, HeadTailProperties
  <2>2. Head(s) = s[1]
    BY <1>1, <1>4
  <2>3. ASSUME AllHarmless(Tail(s)), Harmless(Head(s)), NEW i \in 1..Len(s)
        PROVE  Harmless(s[i])
    <3>1. CASE i = 1
      BY <2>2, <2>3, <3>1
    <3>2. CASE i # 1
      <4>1. i - 1 \in 1..Len(Tail(s)) /\ (i - 1) + 1 = i
        BY <1>2, <2>1, <3>2
      <4> QED
        BY <2>1, <2>3, <4>1 DEF AllHarmless
    <3> QED
      BY <3>1, <3>2
  <2> QED
    BY <2>1, <2>3 DEF IsSeq, AllHarmless
<1> QED
  BY <1>3, <1>4

-----------------------------------------------------------------------------
(* Chunks and moves *)

LEMMA ChunkChanges ==
    ASSUME NEW c, IsChunk(c), NEW p
    PROVE  /\ \A b : IsChunk(SetBlk(c, p, b))
           /\ \A m : (m # None => IsChest(m)) => IsChunk(SetMeta(c, p, m))
<1>1. ASSUME NEW b PROVE IsChunk(SetBlk(c, p, b))
  <2> DEFINE blk == [q \in Pos |-> IF q = p THEN b ELSE c.blk[q]]
  <2>1. SetBlk(c, p, b) = [blk |-> blk, meta |-> c.meta]
    BY DEF SetBlk, IsChunk
  <2> QED
    BY <2>1 DEF IsChunk
<1>2. ASSUME NEW m, m # None => IsChest(m) PROVE IsChunk(SetMeta(c, p, m))
  <2> DEFINE meta == [q \in Pos |-> IF q = p THEN m ELSE c.meta[q]]
  <2>1. SetMeta(c, p, m) = [blk |-> c.blk, meta |-> meta]
    BY DEF SetMeta, IsChunk
  <2>2. \A q \in Pos : meta[q] # None => IsChest(meta[q])
    BY <1>2 DEF IsChunk
  <2> QED
    BY <2>1, <2>2 DEF IsChunk
<1> QED
  BY <1>1, <1>2

LEMMA EmptyIsChest == IsChest(EmptyChest)
  BY DEF IsChest, EmptyChest

LEMMA MovedChest ==
    ASSUME NEW pack, NEW chest, NEW from, NEW to, NEW one
    PROVE  /\ IsChest(Moved(pack, chest, from, to, one).chest)
           /\ {from, to} \subseteq MainSlots /\ IsChest(chest)
                => Moved(pack, chest, from, to, one).chest = chest
<1> DEFINE both == [s \in MainSlots \cup ChestSlots |->
                      IF s \in ChestSlots THEN chest[s] ELSE pack.stacks[s]]
           after == MergeOrMove([stacks |-> both], from, to, one).stacks
<1>1. Moved(pack, chest, from, to, one).chest = [s \in ChestSlots |-> after[s]]
  BY DEF Moved
<1>2. ASSUME {from, to} \subseteq MainSlots, NEW s \in ChestSlots
      PROVE  after[s] = chest[s]
  <2>1. s # from /\ s # to
    BY <1>2, "main" # "chest" DEF MainSlots, ChestSlots
  <2>2. both[s] = chest[s]
    OBVIOUS
  <2>3. MoveN(both, from, to, 1)[s] = both[s]
    BY <2>1 DEF MoveN
  <2>4. MergeOrSwap(both, from, to)[s] = both[s]
    BY <2>1 DEF MergeOrSwap
  <2>5. after = IF one THEN MoveN(both, from, to, 1) ELSE MergeOrSwap(both, from, to)
    BY DEF MergeOrMove
  <2> HIDE DEF both, after
  <2> QED
    BY <2>2, <2>3, <2>4, <2>5
<1> HIDE DEF after
<1> QED
  BY <1>1, <1>2 DEF IsChest

-----------------------------------------------------------------------------
(* The client *)

\* What happens at one client leaves the others in step.
LEMMA Others ==
    ASSUME ViewsInv, NEW pl \in Players, UNCHANGED chunk, Tables',
           \A q \in Players \ {pl} :
              /\ view'[q] = view[q] /\ menu'[q] = menu[q] /\ drift'[q] = drift[q]
              /\ toServer'[q] = toServer[q] /\ toClient'[q] = toClient[q],
           ViewOK(pl)'
    PROVE  ViewsInv'
<1>1. ASSUME NEW q \in Players \ {pl} PROVE ViewOK(q)'
  BY <1>1 DEF ViewsInv, ViewOK, QueuesOK, CopiesOK, InStep
<1> QED
  BY <1>1 DEF ViewsInv

\* A command that is predicted in the chunk.
LEMMA Predicted ==
    ASSUME ViewsInv, NEW pl \in Players, NEW c, ~Harmless(c), NEW v, IsChunk(v),
           Send(pl, c), view' = [view EXCEPT ![pl] = v],
           UNCHANGED <<chunk, menu, toClient, drift>>
    PROVE  ViewsInv'
<1>1. toServer' = [toServer EXCEPT ![pl] = Append(@, c)]
  BY DEF Send
<1>2. Tables' /\ toServer'[pl] = Append(toServer[pl], c) /\ view'[pl] = v
  BY <1>1 DEF ViewsInv, Tables
<1>3. IsSeq(toServer'[pl]) /\ ~AllHarmless(toServer'[pl])
  BY <1>2, CommandQueues DEF ViewsInv, ViewOK, QueuesOK
<1>4. ViewOK(pl)'
  BY <1>2, <1>3 DEF ViewsInv, ViewOK, QueuesOK, CopiesOK, InStep
<1>5. \A q \in Players \ {pl} : view'[q] = view[q] /\ toServer'[q] = toServer[q]
  BY <1>1 DEF ViewsInv, Tables
<1> QED
  BY <1>2, <1>4, <1>5, Others

LEMMA DigPlaceKeep ==
    ASSUME ViewsInv, NEW pl \in Players, NEW p \in Pos,
           ClientDig(pl, p) \/ ClientPlace(pl, p)
    PROVE  ViewsInv'
<1>1. PICK b, c : /\ view' = [view EXCEPT ![pl].blk[p] = b]
                  /\ Send(pl, c) /\ c.kind # "Swap"
                  /\ UNCHANGED <<chunk, menu, toClient, drift>>
  <2>1. CASE ClientDig(pl, p)
    BY <2>1, "Dig" # "Swap" DEF ClientDig
  <2>2. CASE ClientPlace(pl, p)
    BY <2>2, "Place" # "Swap" DEF ClientPlace
  <2> QED
    BY <2>1, <2>2
<1>2. view' = [view EXCEPT ![pl] = SetBlk(view[pl], p, b)]
  BY <1>1 DEF SetBlk
<1>3. IsChunk(SetBlk(view[pl], p, b))
  BY ChunkChanges DEF ViewsInv, ViewOK, CopiesOK
<1> QED
  BY <1>1, <1>2, <1>3, Predicted DEF Harmless

LEMMA OpenKeeps ==
    ASSUME ViewsInv, NEW pl \in Players, NEW p \in Pos, OpenChest(pl, p)
    PROVE  ViewsInv'
<1> DEFINE m == [pos   |-> p,
                 chest |-> IF view[pl].meta[p] = None THEN EmptyChest ELSE view[pl].meta[p],
                 inv   |-> mine[pl]]
<1>1. menu' = [menu EXCEPT ![pl] = m] /\ IsChest(m.chest)
  <2>1. view[pl].meta[p] # None => IsChest(view[pl].meta[p])
    BY DEF ViewsInv, ViewOK, CopiesOK, IsChunk
  <2> QED
    BY <2>1, EmptyIsChest DEF OpenChest
<1> HIDE DEF m
<1>2. UNCHANGED <<chunk, view, toServer, toClient, drift>>
  BY DEF OpenChest
<1>3. Tables' /\ menu'[pl] = m /\ \A q \in Players \ {pl} : menu'[q] = menu[q]
  BY <1>1, <1>2 DEF ViewsInv, Tables
<1>4. ViewOK(pl)'
  BY <1>1, <1>2, <1>3 DEF ViewsInv, ViewOK, QueuesOK, CopiesOK, InStep
<1> QED
  BY <1>2, <1>3, <1>4, Others

\* What the menu writes: a chunk, and the one there was if the chest is the one
\* before and was not hidden.
LEMMA WriteStep ==
    ASSUME ViewsInv, NEW pl \in Players, NEW m, IsChest(m.chest), NEW before,
           Write(pl, m, before)
    PROVE  /\ view' = [q \in Players |-> view'[q]] /\ drift' = [q \in Players |-> drift'[q]]
           /\ \A q \in Players \ {pl} : view'[q] = view[q] /\ drift'[q] = drift[q]
           /\ IsChunk(view'[pl])
           /\ drift'[pl] = {} => drift[pl] = {}
           /\ drift'[pl] = {} /\ m.chest = before => view'[pl] = view[pl]
<1>1. /\ view' = [view EXCEPT ![pl].meta[m.pos] = m.chest]
      /\ drift' = [drift EXCEPT ![pl] = IF view[pl].meta[m.pos] # before
                                          THEN @ \cup {"hidden"} ELSE @]
  BY DEF Write
<1>2. view' = [view EXCEPT ![pl] = SetMeta(view[pl], m.pos, m.chest)]
  BY <1>1 DEF SetMeta
<1>3. IsChunk(view[pl]) /\ IsChunk(SetMeta(view[pl], m.pos, m.chest))
  BY ChunkChanges DEF ViewsInv, ViewOK, CopiesOK
<1>4. /\ view' = [q \in Players |-> view'[q]] /\ drift' = [q \in Players |-> drift'[q]]
      /\ \A q \in Players \ {pl} : view'[q] = view[q] /\ drift'[q] = drift[q]
      /\ view'[pl] = SetMeta(view[pl], m.pos, m.chest)
      /\ drift'[pl] = IF view[pl].meta[m.pos] # before
                        THEN drift[pl] \cup {"hidden"} ELSE drift[pl]
  BY <1>1, <1>2 DEF ViewsInv, Tables
<1>5. ASSUME m.chest = before, view[pl].meta[m.pos] = before
      PROVE  SetMeta(view[pl], m.pos, m.chest) = view[pl]
  BY <1>3, <1>5 DEF SetMeta, IsChunk
<1> QED
  BY <1>3, <1>4, <1>5

LEMMA MenuKeeps ==
    ASSUME ViewsInv, NEW pl \in Players, MenuFrame(pl) \/ CloseChest(pl)
    PROVE  ViewsInv'
<1>1. /\ menu[pl] # None /\ Write(pl, menu[pl], menu[pl].chest)
      /\ UNCHANGED <<chunk, toServer, toClient>>
      /\ menu' = menu \/ menu' = [menu EXCEPT ![pl] = None]
  BY DEF MenuFrame, CloseChest
<1>2. IsChest(menu[pl].chest)
  BY <1>1 DEF ViewsInv, ViewOK, CopiesOK
<1>3. /\ view' = [q \in Players |-> view'[q]] /\ drift' = [q \in Players |-> drift'[q]]
      /\ \A q \in Players \ {pl} : view'[q] = view[q] /\ drift'[q] = drift[q]
      /\ IsChunk(view'[pl])
      /\ drift'[pl] = {} => drift[pl] = {} /\ view'[pl] = view[pl]
  BY <1>1, <1>2, WriteStep
<1>4. /\ menu' = [q \in Players |-> menu'[q]]
      /\ \A q \in Players \ {pl} : menu'[q] = menu[q]
      /\ menu'[pl] = menu[pl] \/ menu'[pl] = None
  BY <1>1 DEF ViewsInv, Tables
<1>5. Tables'
  BY <1>1, <1>3, <1>4 DEF ViewsInv, Tables
<1>6. ViewOK(pl)'
  BY <1>1, <1>2, <1>3, <1>4 DEF ViewsInv, ViewOK, QueuesOK, CopiesOK, InStep
<1> QED
  BY <1>1, <1>3, <1>4, <1>5, <1>6, Others

LEMMA MenuSwapKeeps ==
    ASSUME ViewsInv, NEW pl \in Players, MenuSwap(pl)
    PROVE  ViewsInv'
<1> DEFINE before == menu[pl].chest
<1>1. PICK from \in MainSlots \cup ChestSlots, to \in MainSlots \cup ChestSlots,
           one \in BOOLEAN :
        LET moved == Moved(menu[pl].inv, before, from, to, one)
            m == [pos |-> menu[pl].pos, chest |-> moved.chest, inv |-> moved.inv]
        IN /\ Send(pl, [kind |-> "Swap", pos |-> menu[pl].pos,
                        from |-> from, to |-> to, one |-> one])
           /\ Write(pl, m, before)
           /\ menu' = [menu EXCEPT ![pl] = m]
  BY DEF MenuSwap
<1> DEFINE moved == Moved(menu[pl].inv, before, from, to, one)
           m == [pos |-> menu[pl].pos, chest |-> moved.chest, inv |-> moved.inv]
           c == [kind |-> "Swap", pos |-> menu[pl].pos, from |-> from, to |-> to, one |-> one]
<1>2. IsChest(before) /\ UNCHANGED <<chunk, toClient>>
  BY DEF MenuSwap, ViewsInv, ViewOK, CopiesOK
<1>3. IsChest(m.chest) /\ (Harmless(c) => m.chest = before)
  <2> HIDE DEF before
  <2> QED
    BY <1>2, MovedChest DEF Harmless
<1>4. Send(pl, c) /\ Write(pl, m, before) /\ menu' = [menu EXCEPT ![pl] = m]
  BY <1>1
<1> HIDE DEF before, m, c
<1>5. /\ view' = [q \in Players |-> view'[q]] /\ drift' = [q \in Players |-> drift'[q]]
      /\ \A q \in Players \ {pl} : view'[q] = view[q] /\ drift'[q] = drift[q]
      /\ IsChunk(view'[pl])
      /\ drift'[pl] = {} => drift[pl] = {}
      /\ drift'[pl] = {} /\ m.chest = before => view'[pl] = view[pl]
  BY <1>3, <1>4, WriteStep
<1>6. toServer' = [toServer EXCEPT ![pl] = Append(@, c)]
  BY <1>4 DEF Send
<1>7. /\ menu' = [q \in Players |-> menu'[q]] /\ toServer' = [q \in Players |-> toServer'[q]]
      /\ \A q \in Players \ {pl} : menu'[q] = menu[q] /\ toServer'[q] = toServer[q]
      /\ menu'[pl] = m /\ toServer'[pl] = Append(toServer[pl], c)
  BY <1>4, <1>6 DEF ViewsInv, Tables
<1>8. /\ IsSeq(toServer'[pl])
      /\ AllHarmless(toServer'[pl]) => AllHarmless(toServer[pl]) /\ Harmless(c)
  BY <1>7, CommandQueues DEF ViewsInv, ViewOK, QueuesOK
<1>9. Tables'
  BY <1>2, <1>5, <1>7 DEF ViewsInv, Tables
<1>10. ViewOK(pl)'
  BY <1>2, <1>3, <1>5, <1>7, <1>8 DEF ViewsInv, ViewOK, QueuesOK, CopiesOK, InStep
<1> QED
  BY <1>2, <1>5, <1>7, <1>9, <1>10, Others

LEMMA ReceiveKeeps ==
    ASSUME ViewsInv, NEW pl \in Players, ClientReceive(pl)
    PROVE  ViewsInv'
<1> DEFINE s == toClient[pl]
           msg == Head(s)
<1>1. /\ s # << >> /\ toClient' = [toClient EXCEPT ![pl] = Tail(@)]
      /\ UNCHANGED <<chunk, menu, toServer>>
  BY DEF ClientReceive
<1>2. toClient'[pl] = Tail(s) /\ \A q \in Players \ {pl} : toClient'[q] = toClient[q]
  BY <1>1 DEF ViewsInv, Tables
<1>3. IsSeq(s) /\ ChunksIn(s) /\ LastIs(s, chunk)
  BY DEF ViewsInv, ViewOK, QueuesOK
<1>4. /\ IsSeq(Tail(s)) /\ ChunksIn(Tail(s)) /\ LastIs(Tail(s), chunk)
      /\ IsUpdate(msg) => IsChunk(msg.chunk)
      /\ IsUpdate(msg) /\ ~UpdateIn(Tail(s)) => msg.chunk = chunk
      /\ ~IsUpdate(msg) /\ UpdateIn(s) => UpdateIn(Tail(s))
  <2> HIDE DEF s
  <2> QED
    BY <1>1, <1>3, TailUpdates
<1>5. CASE IsUpdate(msg)
  <2>1. /\ view' = [view EXCEPT ![pl] = msg.chunk]
        /\ drift' = [drift EXCEPT ![pl] = {}]
    BY <1>5, "ChunkUpdated" # "SetInventory" DEF ClientReceive, IsUpdate
  <2>2. /\ Tables' /\ view'[pl] = msg.chunk
        /\ \A q \in Players \ {pl} : view'[q] = view[q] /\ drift'[q] = drift[q]
    BY <1>1, <2>1 DEF ViewsInv, Tables
  <2>3. ViewOK(pl)'
    <3> HIDE DEF s, msg
    <3> QED
      BY <1>1, <1>2, <1>4, <1>5, <2>2 DEF ViewsInv, ViewOK, QueuesOK, CopiesOK, InStep
  <2> QED
    BY <1>1, <1>2, <2>2, <2>3, Others
<1>6. CASE ~IsUpdate(msg)
  <2>1. UNCHANGED <<view, drift>>
    BY <1>6 DEF ClientReceive, IsUpdate
  <2>2. Tables'
    BY <1>1, <2>1 DEF ViewsInv, Tables
  <2>3. ViewOK(pl)'
    BY <1>1, <1>2, <1>4, <1>6, <2>1 DEF ViewsInv, ViewOK, QueuesOK, CopiesOK, InStep
  <2> QED
    BY <1>1, <1>2, <2>1, <2>2, <2>3, Others
<1> QED
  BY <1>5, <1>6

-----------------------------------------------------------------------------
(* The server *)

\* A command is taken, and all are sent chunks, the last of which is the
\* server's.
LEMMA ToldKeeps ==
    ASSUME ViewsInv, NEW pl \in Players, NEW kind, Handle(pl, kind), UNCHANGED drift,
           NEW cs, NEW C, cs \in Seq(C), cs # << >>,
           \A k \in 1..Len(cs) : IsChunk(cs[k]),
           chunk' = cs[Len(cs)],
           toClient' = ToAll(cs) \/ Answer(pl, cs)
    PROVE  ViewsInv'
<1>1. UNCHANGED <<view, menu>>
  BY DEF Handle
<1>2. /\ toServer[pl] # << >>
      /\ toServer' = [toServer EXCEPT ![pl] = Tail(@)]
  BY DEF Handle
<1>3. /\ toServer' = [q \in Players |-> toServer'[q]]
      /\ \A q \in Players : IsSeq(toServer'[q])
  <2>1. /\ toServer'[pl] = Tail(toServer[pl])
        /\ \A q \in Players \ {pl} : toServer'[q] = toServer[q]
    BY <1>2 DEF ViewsInv, Tables
  <2>2. \A q \in Players : IsSeq(toServer[q])
    BY DEF ViewsInv, ViewOK, QueuesOK
  <2>3. IsSeq(Tail(toServer[pl]))
    BY <1>2, <2>2, CommandQueues
  <2> QED
    BY <1>2, <2>1, <2>2, <2>3 DEF ViewsInv, Tables
<1>4. ASSUME NEW q \in Players
      PROVE  LET t == toClient[q] \o Updates(cs)
             IN IsSeq(t) /\ ChunksIn(t) /\ UpdateIn(t) /\ LastIs(t, chunk')
  <2>1. IsSeq(toClient[q]) /\ ChunksIn(toClient[q])
    BY DEF ViewsInv, ViewOK, QueuesOK
  <2> QED
    BY <2>1, ConcatUpdates
<1>5. PICK m : ~IsUpdate(m) /\
         \/ toClient' = ToAll(cs)
         \/ toClient' = [ToAll(cs) EXCEPT ![pl] = Append(@, m)]
  <2>1. ~IsUpdate([kind |-> "SetInventory", inv |-> inv'[pl]])
    BY "ChunkUpdated" # "SetInventory" DEF IsUpdate
  <2> QED
    BY <2>1 DEF Answer
<1>6. ASSUME NEW q \in Players
      PROVE  LET t == toClient[q] \o Updates(cs)
             IN toClient'[q] = t \/ toClient'[q] = Append(t, m)
  BY <1>5 DEF ToAll
<1>7. toClient' = [q \in Players |-> toClient'[q]]
  BY <1>5 DEF ToAll
<1>8. ASSUME NEW q \in Players
      PROVE  /\ IsSeq(toClient'[q]) /\ ChunksIn(toClient'[q])
             /\ UpdateIn(toClient'[q]) /\ LastIs(toClient'[q], chunk')
  <2> DEFINE t == toClient[q] \o Updates(cs)
  <2>1. IsSeq(t) /\ ChunksIn(t) /\ UpdateIn(t) /\ LastIs(t, chunk')
    BY <1>4
  <2>2. toClient'[q] = t \/ toClient'[q] = Append(t, m)
    BY <1>6
  <2> HIDE DEF t
  <2>3. /\ IsSeq(Append(t, m)) /\ ChunksIn(Append(t, m))
        /\ UpdateIn(Append(t, m)) /\ LastIs(Append(t, m), chunk')
    BY <1>5, <2>1, AppendQuiet
  <2> QED
    BY <2>1, <2>2, <2>3
<1>9. Tables' /\ IsChunk(chunk)'
  <2>1. Len(cs) \in 1..Len(cs)
    BY EmptySeq
  <2> QED
    BY <1>1, <1>3, <1>7, <2>1 DEF ViewsInv, Tables
<1>10. ASSUME NEW q \in Players PROVE ViewOK(q)'
  <2>1. QueuesOK(q)'
    BY <1>3, <1>8 DEF QueuesOK
  <2>2. CopiesOK(q)'
    BY <1>1 DEF ViewsInv, ViewOK, CopiesOK
  <2>3. InStep(q)'
    BY <1>8 DEF InStep
  <2> QED
    BY <2>1, <2>2, <2>3 DEF ViewOK
<1> QED
  BY <1>9, <1>10 DEF ViewsInv

\* A command is taken that changes no chunk: it is one that was not predicted
\* in it, or the client drifts.
LEMMA UntoldKeeps ==
    ASSUME ViewsInv, NEW pl \in Players, NEW kind, Handle(pl, kind),
           UNCHANGED <<chunk, toClient>>,
           \/ Harmless(Command(pl)) /\ UNCHANGED drift
           \/ drift' = [drift EXCEPT ![pl] = @ \cup {"ignored"}]
    PROVE  ViewsInv'
<1>1. /\ toServer[pl] # << >>
      /\ toServer' = [toServer EXCEPT ![pl] = Tail(@)]
      /\ UNCHANGED <<view, menu>>
  BY DEF Handle
<1>2. /\ Tables' /\ toServer'[pl] = Tail(toServer[pl])
      /\ \A q \in Players \ {pl} : toServer'[q] = toServer[q] /\ drift'[q] = drift[q]
      /\ (drift'[pl] = drift[pl] /\ Harmless(Command(pl))) \/ drift'[pl] # {}
  BY <1>1 DEF ViewsInv, Tables
<1>3. /\ IsSeq(toServer'[pl])
      /\ AllHarmless(toServer'[pl]) /\ Harmless(Command(pl)) => AllHarmless(toServer[pl])
  BY <1>1, <1>2, CommandQueues DEF ViewsInv, ViewOK, QueuesOK, Command
<1>4. ViewOK(pl)'
  BY <1>1, <1>2, <1>3 DEF ViewsInv, ViewOK, QueuesOK, CopiesOK, InStep
<1> QED
  BY <1>1, <1>2, <1>4, Others

LEMMA OneChunk ==
    ASSUME NEW c, IsChunk(c)
    PROVE  /\ <<c>> \in Seq({c}) /\ <<c>> # << >> /\ <<c>>[Len(<<c>>)] = c
           /\ \A k \in 1..Len(<<c>>) : IsChunk(<<c>>[k])
<1>1. /\ <<c>> \in Seq({c}) /\ <<c>> # << >> /\ Len(<<c>>) = 1 /\ <<c>>[1] = c
  OBVIOUS
<1> QED
  BY <1>1

LEMMA TwoChunks ==
    ASSUME NEW c, IsChunk(c), NEW d, IsChunk(d)
    PROVE  /\ <<c, d>> \in Seq({c, d}) /\ <<c, d>> # << >> /\ <<c, d>>[Len(<<c, d>>)] = d
           /\ \A k \in 1..Len(<<c, d>>) : IsChunk(<<c, d>>[k])
<1>1. /\ <<c, d>> \in Seq({c, d}) /\ <<c, d>> # << >> /\ Len(<<c, d>>) = 2
      /\ <<c, d>>[1] = c /\ <<c, d>>[2] = d
  OBVIOUS
<1>2. \A k \in 1..2 : k = 1 \/ k = 2
  OBVIOUS
<1> QED
  BY <1>1, <1>2

LEMMA ServerDigKeeps ==
    ASSUME ViewsInv, NEW pl \in Players, ServerDig(pl)
    PROVE  ViewsInv'
<1> DEFINE p == Command(pl).pos
           air == SetBlk(chunk, p, Air)
           clear == SetMeta(air, p, None)
<1>1. Handle(pl, "Dig") /\ UNCHANGED drift
  BY DEF ServerDig
<1>2. IsChunk(chunk) /\ IsChunk(air) /\ IsChunk(clear)
  BY ChunkChanges DEF ViewsInv
<1>3. \/ chunk' = clear /\ Answer(pl, <<air, clear>>)
      \/ chunk' = chunk /\ Answer(pl, <<chunk>>)
  BY DEF ServerDig
<1> HIDE DEF air, clear
<1>4. CASE chunk' = clear /\ Answer(pl, <<air, clear>>)
  BY <1>1, <1>2, <1>4, TwoChunks, ToldKeeps
<1>5. CASE chunk' = chunk /\ Answer(pl, <<chunk>>)
  BY <1>1, <1>2, <1>5, OneChunk, ToldKeeps
<1> QED
  BY <1>3, <1>4, <1>5

LEMMA ServerPlaceKeeps ==
    ASSUME ViewsInv, NEW pl \in Players, ServerPlace(pl)
    PROVE  ViewsInv'
<1> DEFINE c == Command(pl)
           set == SetBlk(chunk, c.pos, c.item)
           fresh == SetMeta(set, c.pos, EmptyChest)
           after == IF c.item \in HasInventory THEN <<set, fresh>> ELSE <<set>>
<1>1. Handle(pl, "Place")
  BY DEF ServerPlace
<1>2. IsChunk(set) /\ IsChunk(fresh)
  BY ChunkChanges, EmptyIsChest DEF ViewsInv
<1>3. \/ chunk' = after[Len(after)] /\ toClient' = ToAll(after) /\ UNCHANGED drift
      \/ /\ drift' = [drift EXCEPT ![pl] = @ \cup {"ignored"}]
         /\ UNCHANGED <<chunk, toClient>>
  BY DEF ServerPlace
<1> HIDE DEF set, fresh
<1>4. /\ after \in Seq({set, fresh}) /\ after # << >>
      /\ \A k \in 1..Len(after) : IsChunk(after[k])
  <2>1. CASE c.item \in HasInventory
    BY <1>2, <2>1, TwoChunks
  <2>2. CASE c.item \notin HasInventory
    <3>1. <<set>> \in Seq({set, fresh})
      OBVIOUS
    <3> QED
      BY <1>2, <2>2, <3>1, OneChunk
  <2> QED
    BY <2>1, <2>2
<1> HIDE DEF after
<1>5. CASE chunk' = after[Len(after)] /\ toClient' = ToAll(after) /\ UNCHANGED drift
  BY <1>1, <1>4, <1>5, ToldKeeps
<1>6. CASE /\ drift' = [drift EXCEPT ![pl] = @ \cup {"ignored"}]
           /\ UNCHANGED <<chunk, toClient>>
  BY <1>1, <1>6, UntoldKeeps
<1> QED
  BY <1>3, <1>5, <1>6

LEMMA ServerSwapKeeps ==
    ASSUME ViewsInv, NEW pl \in Players, ServerSwap(pl)
    PROVE  ViewsInv'
<1> DEFINE c == Command(pl)
           moved == Moved(inv[pl], chunk.meta[c.pos], c.from, c.to, c.one)
           after == SetMeta(chunk, c.pos, moved.chest)
<1>1. Handle(pl, "Swap")
  BY DEF ServerSwap
<1>2. IsChunk(after)
  BY ChunkChanges, MovedChest DEF ViewsInv
<1>3. \/ {c.from, c.to} \subseteq MainSlots /\ UNCHANGED <<chunk, toClient, drift>>
      \/ chunk' = after /\ toClient' = ToAll(<<chunk'>>) /\ UNCHANGED drift
      \/ /\ drift' = [drift EXCEPT ![pl] = @ \cup {"ignored"}]
         /\ UNCHANGED <<chunk, toClient>>
  BY DEF ServerSwap
<1> HIDE DEF after
<1>4. CASE {c.from, c.to} \subseteq MainSlots /\ UNCHANGED <<chunk, toClient, drift>>
  <2>1. Harmless(Command(pl))
    BY <1>1, <1>4 DEF Harmless, Handle, Command
  <2> QED
    BY <1>1, <1>4, <2>1, UntoldKeeps
<1>5. CASE chunk' = after /\ toClient' = ToAll(<<chunk'>>) /\ UNCHANGED drift
  BY <1>1, <1>2, <1>5, OneChunk, ToldKeeps
<1>6. CASE /\ drift' = [drift EXCEPT ![pl] = @ \cup {"ignored"}]
           /\ UNCHANGED <<chunk, toClient>>
  BY <1>1, <1>6, UntoldKeeps
<1> QED
  BY <1>3, <1>4, <1>5, <1>6

-----------------------------------------------------------------------------
LEMMA ViewsInit == Init => ViewsInv
<1> SUFFICES ASSUME Init PROVE ViewsInv
  OBVIOUS
<1>1. PICK blks \in StartBlocks, chest \in StartChests :
         chunk = [blk |-> blks,
                  meta |-> [p \in Pos |-> IF blks[p] \in HasInventory THEN chest ELSE None]]
  BY DEF Init
<1>2. IsChunk(chunk)
  <2>1. blks = [p \in Pos |-> blks[p]] /\ IsChest(chest)
    BY StartAssumption DEF IsChest, Chest
  <2> QED
    BY <1>1, <2>1 DEF IsChunk
<1>3. /\ view = [pl \in Players |-> chunk] /\ menu = [pl \in Players |-> None]
      /\ toServer = [pl \in Players |-> << >>] /\ toClient = [pl \in Players |-> << >>]
      /\ drift = [pl \in Players |-> {}]
  BY DEF Init
<1>4. IsSeq(<< >>) /\ ChunksIn(<< >>) /\ LastIs(<< >>, chunk)
  <2>1. << >> \in Seq({}) /\ 1..Len(<< >>) = {}
    OBVIOUS
  <2> QED
    BY <2>1 DEF IsSeq, ChunksIn, LastIs
<1>5. \A pl \in Players : ViewOK(pl)
  BY <1>2, <1>3, <1>4 DEF ViewOK, QueuesOK, CopiesOK, InStep
<1>6. Tables
  BY <1>3 DEF Tables
<1> QED
  BY <1>2, <1>5, <1>6 DEF ViewsInv

LEMMA ViewsNext == ViewsInv /\ [Next]_vars => ViewsInv'
<1> SUFFICES ASSUME ViewsInv, [Next]_vars PROVE ViewsInv'
  OBVIOUS
<1>1. CASE UNCHANGED vars
  BY <1>1 DEF vars, ViewsInv, Tables, ViewOK, QueuesOK, CopiesOK, InStep
<1>2. CASE Next
  <2>1. PICK pl \in Players : ClientStep(pl) \/ ServerStep(pl)
    BY <1>2 DEF Next
  <2>2. CASE ClientStep(pl)
    BY <2>2, DigPlaceKeep, OpenKeeps, MenuKeeps, MenuSwapKeeps, ReceiveKeeps
       DEF ClientStep
  <2>3. CASE ServerStep(pl)
    BY <2>3, ServerDigKeeps, ServerPlaceKeeps, ServerSwapKeeps DEF ServerStep
  <2> QED
    BY <2>1, <2>2, <2>3
<1> QED
  BY <1>1, <1>2

LEMMA ViewsInvIsEnough == ViewsInv => ViewsAgree
<1> SUFFICES ASSUME ViewsInv, NEW pl \in Players, Quiet(pl), drift[pl] = {}
             PROVE  view[pl] = chunk
  BY DEF ViewsAgree
<1>1. ~UpdateIn(<< >>) /\ AllHarmless(<< >>)
  <2>1. 1..Len(<< >>) = {}
    OBVIOUS
  <2> QED
    BY <2>1 DEF UpdateIn, AllHarmless
<1> QED
  BY <1>1 DEF ViewsInv, ViewOK, InStep, Quiet

\* A client to which nothing is under way sees the server's chunk (on_change,
\* handle_dig's answer, fake_change), for any number of players, commands and
\* chests, but for the gaps that drift names.
THEOREM ClientsSeeTheServer == Spec => []ViewsAgree
<1>1. Init => ViewsInv
  BY ViewsInit
<1>2. ViewsInv /\ [Next]_vars => ViewsInv'
  BY ViewsNext
<1>3. ViewsInv => ViewsAgree
  BY ViewsInvIsEnough
<1> QED
  BY <1>1, <1>2, <1>3, PTL DEF Spec

-----------------------------------------------------------------------------
(* What the chests and the messages are *)

Pack == Packs(MainSlots)

Messages == [kind : {"ChunkUpdated"}, chunk : Chunk] \cup [kind : {"SetInventory"}, inv : Pack]

Menus == [pos : Pos, chest : Chest, inv : Pack]

ChestsTyped ==
    /\ chunk \in Chunk /\ inv \in [Players -> Pack]
    /\ view \in [Players -> Chunk] /\ mine \in [Players -> Pack]
    /\ \A pl \in Players : menu[pl] # None => menu[pl] \in Menus
    /\ menu = [pl \in Players |-> menu[pl]]
    /\ toServer \in [Players -> Seq(Commands)] /\ toClient \in [Players -> Seq(Messages)]

LEMMA ChestsAre ==
    /\ MainSlots \cap ChestSlots = {} /\ IsFiniteSet(ChestSlots)
    /\ EmptyChest \in Chest /\ EmptyChest # None
    /\ \A i \in Items : Total(EmptyChest, ChestSlots, i) = 0
<1>1. MainSlots \cap ChestSlots = {}
  BY "main" # "chest" DEF MainSlots, ChestSlots
<1>2. IsFiniteSet(ChestSlots)
  <2>1. IsFiniteSet({"chest"}) /\ IsFiniteSet(1..ChestSize)
    <3>1. 1 \in Int /\ ChestSize \in Int
      BY ChestsAssumption
    <3> QED
      BY <3>1, FS_Singleton, FS_Interval
  <2> QED
    BY <2>1, FS_Product DEF ChestSlots
<1>3. EmptyChest \in Chest
  BY NothingIs DEF EmptyChest, Chest
<1>4. ASSUME NEW i \in Items PROVE Total(EmptyChest, ChestSlots, i) = 0
  <2> DEFINE f == Amounts(EmptyChest, ChestSlots, i)
  <2>1. \A s \in ChestSlots : f[s] = 0
    BY <1>4, NothingIs DEF Amounts, EmptyChest
  <2>2. Total(EmptyChest, ChestSlots, i) = Sum(f, ChestSlots)
    BY TotalIs
  <2> HIDE DEF f
  <2>3. Sum(f, ChestSlots) = 0
    BY <1>2, <2>1, SumOfZeros
  <2> QED
    BY <2>2, <2>3
<1> QED
  BY <1>1, <1>2, <1>3, <1>4, StartAssumption

LEMMA ChunkIs ==
    ASSUME NEW c \in Chunk, NEW p
    PROVE  /\ \A b \in Blocks : SetBlk(c, p, b) \in Chunk
           /\ \A m \in Chest \cup {None} : SetMeta(c, p, m) \in Chunk
           /\ p \in Pos => c.meta[p] \in Chest \cup {None} /\ c.blk[p] \in Blocks
<1>1. c = [blk |-> c.blk, meta |-> c.meta] /\ c.blk \in [Pos -> Blocks]
      /\ c.meta \in [Pos -> Chest \cup {None}]
  BY DEF Chunk
<1>2. ASSUME NEW b \in Blocks PROVE SetBlk(c, p, b) \in Chunk
  <2> DEFINE blk == [c.blk EXCEPT ![p] = b]
  <2>1. SetBlk(c, p, b) = [blk |-> blk, meta |-> c.meta]
    BY <1>1 DEF SetBlk
  <2>2. blk \in [Pos -> Blocks]
    BY <1>1
  <2> HIDE DEF blk
  <2> QED
    BY <1>1, <2>1, <2>2 DEF Chunk
<1>3. ASSUME NEW m \in Chest \cup {None} PROVE SetMeta(c, p, m) \in Chunk
  <2> DEFINE meta == [c.meta EXCEPT ![p] = m]
  <2>1. SetMeta(c, p, m) = [blk |-> c.blk, meta |-> meta]
    BY <1>1 DEF SetMeta
  <2>2. meta \in [Pos -> Chest \cup {None}]
    BY <1>1
  <2> HIDE DEF meta
  <2> QED
    BY <1>1, <2>1, <2>2 DEF Chunk
<1> QED
  BY <1>1, <1>2, <1>3

LEMMA DropIs ==
    ASSUME NEW b \in Blocks
    PROVE  /\ Drop(b) \in Stack /\ Limited(Drop(b))
           /\ \A i \in Items : Amount(Drop(b), i) = IF b = i THEN 1 ELSE 0
<1>1. CASE b = Air
  BY <1>1, NothingIs, ChestsAssumption DEF Drop
<1>2. CASE b # Air
  <2>1. b \in Items /\ Drop(b) = [item |-> b, count |-> 1]
    BY <1>2 DEF Blocks, Drop, With
  <2>2. 1 \in 1..(Width - 1) /\ 1 <= Limit
    BY TheNumbers DEF Numbers
  <2> QED
    BY <2>1, <2>2 DEF Stack, Limited, Amount
<1> QED
  BY <1>1, <1>2

\* What a move between an inventory and a chest leaves of the two.
BothKept(pack, chest, m) ==
    /\ m.inv \in Pack /\ m.chest \in Chest
    /\ \A i \in Items :
          Total(m.inv.stacks, MainSlots, i) + Total(m.chest, ChestSlots, i)
             <= Total(pack.stacks, MainSlots, i) + Total(chest, ChestSlots, i)
    /\ AllLimited(pack.stacks, MainSlots) /\ AllLimited(chest, ChestSlots) =>
          \A i \in Items :
             Total(m.inv.stacks, MainSlots, i) + Total(m.chest, ChestSlots, i)
                = Total(pack.stacks, MainSlots, i) + Total(chest, ChestSlots, i)

LEMMA MovedKeeps ==
    ASSUME NEW pack \in Pack, NEW chest \in Chest, NEW from \in MainSlots \cup ChestSlots,
           NEW to \in MainSlots \cup ChestSlots, NEW one \in BOOLEAN,
           NEW m, m = Moved(pack, chest, from, to, one)
    PROVE  BothKept(pack, chest, m)
<1> DEFINE U == MainSlots \cup ChestSlots
           both == [s \in U |-> IF s \in ChestSlots THEN chest[s] ELSE pack.stacks[s]]
           after == MergeOrMove([stacks |-> both], from, to, one).stacks
<1>0. /\ pack = [selection |-> pack.selection, stacks |-> pack.stacks]
      /\ pack.selection \in 0..MainSize /\ pack.stacks \in [MainSlots -> Stack]
      /\ chest \in [ChestSlots -> Stack]
  BY DEF Pack, Packs, Chest
<1>1. /\ both \in [U -> Stack]
      /\ \A s \in MainSlots : both[s] = pack.stacks[s]
      /\ \A s \in ChestSlots : both[s] = chest[s]
  BY <1>0, ChestsAre
<1>2. /\ m.inv = [pack EXCEPT !.stacks = [s \in MainSlots |-> after[s]]]
      /\ m.chest = [s \in ChestSlots |-> after[s]]
  BY DEF Moved
<1>3. after = IF one THEN MoveN(both, from, to, 1) ELSE MergeOrSwap(both, from, to)
  BY DEF MergeOrMove
<1>4. IsFiniteSet(U)
  BY MainIsFinite, ChestsAre, FS_Union
<1>5. Kept(both, after, U)
  <2> HIDE DEF both, after, U
  <2>1. from \in U /\ to \in U
    BY DEF U
  <2>2. Kept(both, MoveN(both, from, to, 1), U) /\ Kept(both, MergeOrSwap(both, from, to), U)
    BY <1>1, <1>4, <2>1, MoveKept, SwapKept
  <2> QED
    BY <1>3, <2>2
<1> HIDE DEF both, after
<1>6. after \in [U -> Stack]
  BY <1>5 DEF Kept
<1>7. /\ m.inv = [selection |-> pack.selection, stacks |-> [s \in MainSlots |-> after[s]]]
      /\ m.inv.stacks = [s \in MainSlots |-> after[s]]
  BY <1>0, <1>2
<1>8. m.inv \in Pack /\ m.chest \in Chest
  BY <1>0, <1>2, <1>6, <1>7 DEF Pack, Packs, Chest
<1>9. ASSUME NEW i \in Items
      PROVE  /\ Total(both, U, i) = Total(pack.stacks, MainSlots, i) + Total(chest, ChestSlots, i)
             /\ Total(after, U, i)
                   = Total(m.inv.stacks, MainSlots, i) + Total(m.chest, ChestSlots, i)
  <2>1. /\ Total(both, U, i) = Total(both, MainSlots, i) + Total(both, ChestSlots, i)
        /\ Total(after, U, i) = Total(after, MainSlots, i) + Total(after, ChestSlots, i)
    BY <1>1, <1>6, MainIsFinite, ChestsAre, TotalOfBoth
  <2>2. /\ Total(both, MainSlots, i) = Total(pack.stacks, MainSlots, i)
        /\ Total(both, ChestSlots, i) = Total(chest, ChestSlots, i)
    BY <1>1, TotalsAgree
  <2>3. /\ \A s \in MainSlots : after[s] = m.inv.stacks[s]
        /\ \A s \in ChestSlots : after[s] = m.chest[s]
    BY <1>2, <1>7
  <2>4. /\ Total(after, MainSlots, i) = Total(m.inv.stacks, MainSlots, i)
        /\ Total(after, ChestSlots, i) = Total(m.chest, ChestSlots, i)
    BY <2>3, TotalsAgree
  <2> QED
    BY <2>1, <2>2, <2>4
<1>10. ASSUME NEW i \in Items
       PROVE  Total(m.inv.stacks, MainSlots, i) + Total(m.chest, ChestSlots, i)
                 <= Total(pack.stacks, MainSlots, i) + Total(chest, ChestSlots, i)
  <2>1. Total(after, U, i) <= Total(both, U, i)
    BY <1>5 DEF Kept
  <2> QED
    BY <1>9, <2>1
<1>11. ASSUME AllLimited(pack.stacks, MainSlots), AllLimited(chest, ChestSlots), NEW i \in Items
       PROVE  Total(m.inv.stacks, MainSlots, i) + Total(m.chest, ChestSlots, i)
                 = Total(pack.stacks, MainSlots, i) + Total(chest, ChestSlots, i)
  <2>1. AllLimited(both, U)
    BY <1>1, <1>11 DEF AllLimited
  <2>2. Total(after, U, i) = Total(both, U, i)
    BY <1>5, <2>1 DEF Kept
  <2> QED
    BY <1>9, <2>2
<1> QED
  BY <1>8, <1>10, <1>11 DEF BothKept

-----------------------------------------------------------------------------
(* A step keeps the types: the client's *)

LEMMA CommandsSent ==
    ASSUME ChestsTyped, NEW pl \in Players, NEW c \in Commands, Send(pl, c)
    PROVE  toServer' \in [Players -> Seq(Commands)]
<1>1. toServer[pl] \in Seq(Commands) /\ toServer' = [toServer EXCEPT ![pl] = Append(@, c)]
  BY DEF ChestsTyped, Send
<1>2. Append(toServer[pl], c) \in Seq(Commands)
  BY <1>1, AppendProperties
<1> QED
  BY <1>1, <1>2 DEF ChestsTyped

LEMMA InsertsTyped ==
    ASSUME NEW pack \in Pack, NEW stack \in Stack
    PROVE  Insert(pack, stack) \in Pack /\ Inserted(pack, stack, Insert(pack, stack))
  BY InsertKeeps DEF Pack

LEMMA SelectedHere ==
    ASSUME NEW pack \in Pack, Selected(pack) # Empty
    PROVE  /\ TakeSelected(pack) \in Pack
           /\ pack.selection \in 1..MainSize /\ Selected(pack).item \in Items
           /\ \A i \in Items : Total(TakeSelected(pack).stacks, MainSlots, i)
                                  = Total(pack.stacks, MainSlots, i)
                                       - (IF i = Selected(pack).item THEN 1 ELSE 0)
<1>1. pack.selection \in 0..MainSize /\ pack.stacks \in [MainSlots -> Stack]
  BY DEF Pack, Packs
<1>2. pack.selection # 0 /\ Selected(pack) = pack.stacks[<<"main", pack.selection>>]
  BY DEF Selected
<1>3. pack.selection \in 1..MainSize
  BY <1>1, <1>2
<1>4. <<"main", pack.selection>> \in MainSlots
  BY <1>3 DEF MainSlots
<1>5. Selected(pack) \in Stack
  BY <1>1, <1>2, <1>4
<1>6. Selected(pack).item \in Items
  BY <1>5, StackIs
<1> QED
  BY <1>3, <1>6, MainIsFinite, TakeSelectedKeeps DEF Pack

LEMMA ClientDigTypes ==
    ASSUME ChestsTyped, NEW pl \in Players, NEW p \in Pos, ClientDig(pl, p)
    PROVE  ChestsTyped'
<1>1. view[pl] \in Chunk /\ mine[pl] \in Pack
  BY DEF ChestsTyped
<1>2. Insert(mine[pl], Drop(view[pl].blk[p])) \in Pack /\ SetBlk(view[pl], p, Air) \in Chunk
  BY <1>1, ChunkIs, DropIs, InsertsTyped DEF Blocks
<1>3. [kind |-> "Dig", pos |-> p] \in Commands
  BY DEF Commands
<1>4. toServer' \in [Players -> Seq(Commands)]
  BY <1>3, CommandsSent DEF ClientDig
<1>5. view' = [view EXCEPT ![pl] = SetBlk(view[pl], p, Air)]
  BY DEF ClientDig, SetBlk, ChestsTyped
<1>6. mine' = [mine EXCEPT ![pl] = Insert(mine[pl], Drop(view[pl].blk[p]))]
  BY DEF ClientDig
<1>7. mine' \in [Players -> Pack] /\ view' \in [Players -> Chunk]
  BY <1>2, <1>5, <1>6 DEF ChestsTyped
<1> QED
  BY <1>4, <1>7 DEF ClientDig, ChestsTyped

LEMMA ClientPlaceTypes ==
    ASSUME ChestsTyped, NEW pl \in Players, NEW p \in Pos, ClientPlace(pl, p)
    PROVE  ChestsTyped'
<1> DEFINE item == Selected(mine[pl]).item
           c == [kind |-> "Place", pos |-> p, idx |-> mine[pl].selection, item |-> item]
<1>1. view[pl] \in Chunk /\ mine[pl] \in Pack /\ Selected(mine[pl]) # Empty
  BY DEF ChestsTyped, ClientPlace
<1>2. TakeSelected(mine[pl]) \in Pack /\ item \in Items /\ mine[pl].selection \in 1..MainSize
  BY <1>1, SelectedHere
<1>3. c \in Commands
  BY <1>2 DEF Commands
<1>4. toServer' \in [Players -> Seq(Commands)]
  <2>1. Send(pl, c)
    BY DEF ClientPlace
  <2> HIDE DEF c
  <2> QED
    BY <1>3, <2>1, CommandsSent
<1>5. view' = [view EXCEPT ![pl] = SetBlk(view[pl], p, item)]
  BY DEF ClientPlace, SetBlk, ChestsTyped
<1>6. mine' = [mine EXCEPT ![pl] = TakeSelected(mine[pl])]
  BY DEF ClientPlace
<1> HIDE DEF item
<1>7. SetBlk(view[pl], p, item) \in Chunk
  BY <1>1, <1>2, ChunkIs DEF Blocks
<1>8. mine' \in [Players -> Pack] /\ view' \in [Players -> Chunk]
  BY <1>2, <1>5, <1>6, <1>7 DEF ChestsTyped
<1> QED
  BY <1>4, <1>8 DEF ClientPlace, ChestsTyped

LEMMA OpenTypes ==
    ASSUME ChestsTyped, NEW pl \in Players, NEW p \in Pos, OpenChest(pl, p)
    PROVE  ChestsTyped'
<1> DEFINE chest == IF view[pl].meta[p] = None THEN EmptyChest ELSE view[pl].meta[p]
           m == [pos |-> p, chest |-> chest, inv |-> mine[pl]]
<1>1. view[pl] \in Chunk /\ mine[pl] \in Pack
  BY DEF ChestsTyped
<1>2. chest \in Chest
  BY <1>1, ChunkIs, ChestsAre
<1>3. m \in Menus
  BY <1>1, <1>2 DEF Menus
<1>4. menu' = [menu EXCEPT ![pl] = m]
  BY DEF OpenChest
<1> HIDE DEF m
<1>5. menu' = [q \in Players |-> menu'[q]] /\ \A q \in Players : menu'[q] # None => menu'[q] \in Menus
  BY <1>3, <1>4 DEF ChestsTyped
<1> QED
  BY <1>5 DEF OpenChest, ChestsTyped

LEMMA WriteTypes ==
    ASSUME ChestsTyped, NEW pl \in Players, NEW m \in Menus, NEW before, Write(pl, m, before)
    PROVE  mine' \in [Players -> Pack] /\ view' \in [Players -> Chunk]
<1>1. m.inv \in Pack /\ m.chest \in Chest /\ view[pl] \in Chunk
  BY DEF Menus, ChestsTyped
<1>2. SetMeta(view[pl], m.pos, m.chest) \in Chunk
  BY <1>1, ChunkIs
<1>3. view' = [view EXCEPT ![pl] = SetMeta(view[pl], m.pos, m.chest)]
  BY DEF Write, SetMeta, ChestsTyped
<1>4. mine' = [mine EXCEPT ![pl] = m.inv]
  BY DEF Write
<1> QED
  BY <1>1, <1>2, <1>3, <1>4 DEF ChestsTyped

LEMMA MenuTypes ==
    ASSUME ChestsTyped, NEW pl \in Players, MenuFrame(pl) \/ CloseChest(pl)
    PROVE  ChestsTyped'
<1>1. menu[pl] \in Menus /\ Write(pl, menu[pl], menu[pl].chest)
  BY DEF ChestsTyped, MenuFrame, CloseChest
<1>2. mine' \in [Players -> Pack] /\ view' \in [Players -> Chunk]
  BY <1>1, WriteTypes
<1>3. menu' = menu \/ menu' = [menu EXCEPT ![pl] = None]
  BY DEF MenuFrame, CloseChest
<1>4. menu' = [q \in Players |-> menu'[q]] /\ \A q \in Players : menu'[q] # None => menu'[q] \in Menus
  BY <1>3 DEF ChestsTyped
<1> QED
  BY <1>2, <1>4 DEF ChestsTyped, MenuFrame, CloseChest

LEMMA MenuSwapTypes ==
    ASSUME ChestsTyped, NEW pl \in Players, MenuSwap(pl)
    PROVE  ChestsTyped'
<1> DEFINE Mv(from, to, one) == Moved(menu[pl].inv, menu[pl].chest, from, to, one)
           Mn(from, to, one) == [pos |-> menu[pl].pos, chest |-> Mv(from, to, one).chest,
                                 inv |-> Mv(from, to, one).inv]
           Cm(from, to, one) == [kind |-> "Swap", pos |-> menu[pl].pos,
                                 from |-> from, to |-> to, one |-> one]
<1>1. PICK from \in MainSlots \cup ChestSlots, to \in MainSlots \cup ChestSlots, one \in BOOLEAN :
         /\ Send(pl, Cm(from, to, one)) /\ Write(pl, Mn(from, to, one), menu[pl].chest)
         /\ menu' = [menu EXCEPT ![pl] = Mn(from, to, one)]
  BY DEF MenuSwap
<1>2. menu[pl] \in Menus
  BY DEF MenuSwap, ChestsTyped
<1>3. menu[pl].pos \in Pos /\ menu[pl].inv \in Pack /\ menu[pl].chest \in Chest
  BY <1>2 DEF Menus
<1>4. BothKept(menu[pl].inv, menu[pl].chest, Mv(from, to, one))
  BY <1>3, MovedKeeps
<1> DEFINE moved == Mv(from, to, one)
           m == Mn(from, to, one)
           c == Cm(from, to, one)
<1>5. c \in Commands
  BY <1>3 DEF Commands
<1>6. m \in Menus
  <2>1. moved.inv \in Pack /\ moved.chest \in Chest
    BY <1>4 DEF BothKept
  <2> HIDE DEF Mv
  <2> QED
    BY <1>3, <2>1 DEF Menus
<1>7. Send(pl, c) /\ Write(pl, m, menu[pl].chest) /\ menu' = [menu EXCEPT ![pl] = m]
  BY <1>1
<1> HIDE DEF m, c
<1>8. toServer' \in [Players -> Seq(Commands)]
  BY <1>5, <1>7, CommandsSent
<1>9. mine' \in [Players -> Pack] /\ view' \in [Players -> Chunk]
  BY <1>6, <1>7, WriteTypes
<1>10. menu' = [q \in Players |-> menu'[q]] /\ \A q \in Players : menu'[q] # None => menu'[q] \in Menus
  BY <1>6, <1>7 DEF ChestsTyped
<1> QED
  BY <1>8, <1>9, <1>10 DEF MenuSwap, ChestsTyped

LEMMA ReceiveTypes ==
    ASSUME ChestsTyped, NEW pl \in Players, ClientReceive(pl)
    PROVE  ChestsTyped'
<1> DEFINE msg == Head(toClient[pl])
<1>1. toClient[pl] \in Seq(Messages) /\ toClient[pl] # << >>
      /\ toClient' = [toClient EXCEPT ![pl] = Tail(toClient[pl])]
  BY DEF ClientReceive, ChestsTyped
<1>2. msg \in Messages /\ Tail(toClient[pl]) \in Seq(Messages)
  BY <1>1, HeadTailProperties
<1>3. toClient' \in [Players -> Seq(Messages)]
  BY <1>1, <1>2 DEF ChestsTyped
<1>4. \/ msg.kind = "ChunkUpdated" /\ view' = [view EXCEPT ![pl] = msg.chunk] /\ mine' = mine
      \/ msg.kind = "SetInventory" /\ mine' = [mine EXCEPT ![pl] = msg.inv] /\ view' = view
  BY DEF ClientReceive
<1>5. /\ msg.kind = "ChunkUpdated" => msg.chunk \in Chunk
      /\ msg.kind = "SetInventory" => msg.inv \in Pack
  BY <1>2 DEF Messages
<1> HIDE DEF msg
<1>6. mine' \in [Players -> Pack] /\ view' \in [Players -> Chunk]
  BY <1>4, <1>5 DEF ChestsTyped
<1> QED
  BY <1>3, <1>6 DEF ClientReceive, ChestsTyped

-----------------------------------------------------------------------------
(* What is in the packs and in the chests *)

InChest(m, i) == IF m = None THEN 0 ELSE Total(m, ChestSlots, i)

HeldBy(packs, i) == [pl \in Players |-> Total(packs[pl].stacks, MainSlots, i)]
HeldIn(metas, i) == [p \in Pos |-> InChest(metas[p], i)]

LEMMA HeldIs ==
    ASSUME NEW i
    PROVE  /\ Held(i) = Sum(HeldBy(inv, i), Players) + Sum(HeldIn(chunk.meta, i), Pos)
           /\ Held(i)' = Sum(HeldBy(inv', i), Players) + Sum(HeldIn(chunk'.meta, i), Pos)
<1>0. Carried(i) = Sum(HeldBy(inv, i), Players)
  BY DEF Carried, Sum, MapThenSumSet, MapThenFoldSet, HeldBy
<1>1. Carried(i)' = Sum(HeldBy(inv', i), Players)
  BY DEF Carried, Sum, MapThenSumSet, MapThenFoldSet, HeldBy
<1>2. Stored(i) = Sum(HeldIn(chunk.meta, i), Pos)
  BY DEF Stored, Sum, MapThenSumSet, MapThenFoldSet, HeldIn, InChest
<1>3. Stored(i)' = Sum(HeldIn(chunk'.meta, i), Pos)
  BY DEF Stored, Sum, MapThenSumSet, MapThenFoldSet, HeldIn, InChest
<1> QED
  BY <1>0, <1>1, <1>2, <1>3 DEF Held

LEMMA InChestType ==
    ASSUME NEW m \in Chest \cup {None}, NEW i \in Items
    PROVE  InChest(m, i) \in Nat
<1>1. m # None => Total(m, ChestSlots, i) \in Nat
  BY ChestsAre, TotalType DEF Chest
<1> QED
  BY <1>1 DEF InChest

LEMMA PackType ==
    ASSUME NEW pack \in Pack, NEW i \in Items
    PROVE  Total(pack.stacks, MainSlots, i) \in Nat
<1>1. \A s \in MainSlots : pack.stacks[s] \in Stack
  BY DEF Pack, Packs
<1> QED
  BY <1>1, MainIsFinite, TotalType

Changed(before, after, D, x, v) ==
    after[x] = v /\ \A y \in D : y # x => after[y] = before[y]

\* One player's inventory and one chest change.
LEMMA HeldChange ==
    ASSUME ChestsTyped, NEW pl \in Players, NEW p \in Pos,
           NEW pack \in Pack, Changed(inv, inv', Players, pl, pack),
           NEW m \in Chest \cup {None}, Changed(chunk.meta, chunk'.meta, Pos, p, m),
           NEW i \in Items
    PROVE  /\ Held(i) \in Int
           /\ Held(i)' = Held(i) - Total(inv[pl].stacks, MainSlots, i)
                                 + Total(pack.stacks, MainSlots, i)
                                 - InChest(chunk.meta[p], i) + InChest(m, i)
<1> DEFINE f == HeldBy(inv, i)
           f2 == HeldBy(inv', i)
           g == HeldIn(chunk.meta, i)
           g2 == HeldIn(chunk'.meta, i)
<1>1. /\ inv \in [Players -> Pack] /\ chunk.meta \in [Pos -> Chest \cup {None}]
      /\ inv'[pl] = pack /\ chunk'.meta[p] = m
      /\ \A q \in Players : inv'[q] \in Pack /\ (q # pl => inv'[q] = inv[q])
      /\ \A q \in Pos : /\ chunk'.meta[q] \in Chest \cup {None}
                        /\ q # p => chunk'.meta[q] = chunk.meta[q]
  BY DEF ChestsTyped, Chunk, Changed
<1>2. /\ f[pl] = Total(inv[pl].stacks, MainSlots, i) /\ f2[pl] = Total(pack.stacks, MainSlots, i)
      /\ \A q \in Players : f[q] \in Int /\ f2[q] \in Int /\ (q # pl => f[q] = f2[q])
  BY <1>1, PackType DEF HeldBy
<1>3. /\ g[p] = InChest(chunk.meta[p], i) /\ g2[p] = InChest(m, i)
      /\ \A q \in Pos : g[q] \in Int /\ g2[q] \in Int /\ (q # p => g[q] = g2[q])
  BY <1>1, InChestType DEF HeldIn
<1>4. Held(i) = Sum(f, Players) + Sum(g, Pos) /\ Held(i)' = Sum(f2, Players) + Sum(g2, Pos)
  BY HeldIs
<1> HIDE DEF f, f2, g, g2
<1>5. IsFiniteSet(Players) /\ IsFiniteSet(Pos)
  BY StartAssumption
<1>6. Sum(f2, Players) = Sum(f, Players) - f[pl] + f2[pl]
  BY <1>2, <1>5, SumChanges
<1>7. Sum(g2, Pos) = Sum(g, Pos) - g[p] + g2[p]
  BY <1>3, <1>5, SumChanges
<1>8. Sum(f, Players) \in Int /\ Sum(g, Pos) \in Int
  BY <1>2, <1>3, <1>5, SumType
<1>9. f[pl] \in Int /\ f2[pl] \in Int /\ g[p] \in Int /\ g2[p] \in Int
  BY <1>2, <1>3
<1>10. Held(i) \in Int
  BY <1>4, <1>8
<1>11. Held(i)' = Held(i) - f[pl] + f2[pl] - g[p] + g2[p]
  BY <1>4, <1>6, <1>7, <1>8, <1>9
<1> QED
  BY <1>2, <1>3, <1>10, <1>11

-----------------------------------------------------------------------------
(* A step keeps the types, and the items: the server's *)

LEMMA CommandHandled ==
    ASSUME ChestsTyped, NEW pl \in Players, NEW kind, Handle(pl, kind)
    PROVE  /\ toServer' \in [Players -> Seq(Commands)]
           /\ Command(pl).kind = kind /\ Command(pl).pos \in Pos
           /\ kind = "Swap" => /\ Command(pl).from \in MainSlots \cup ChestSlots
                               /\ Command(pl).to \in MainSlots \cup ChestSlots
                               /\ Command(pl).one \in BOOLEAN
<1>1. toServer[pl] \in Seq(Commands) /\ toServer[pl] # << >>
      /\ toServer' = [toServer EXCEPT ![pl] = Tail(@)]
  BY DEF ChestsTyped, Handle
<1>2. Tail(toServer[pl]) \in Seq(Commands) /\ Command(pl) \in Commands
  BY <1>1, HeadTailProperties DEF Command
<1>3. toServer' \in [Players -> Seq(Commands)]
  BY <1>1, <1>2 DEF ChestsTyped
<1>4. Command(pl).kind = kind
  BY DEF Handle, Command
<1> QED
  BY <1>2, <1>3, <1>4 DEF Commands

LEMMA TellsTyped ==
    ASSUME ChestsTyped, NEW cs \in Seq(Chunk)
    PROVE  /\ ToAll(cs) \in [Players -> Seq(Messages)]
           /\ \A pl \in Players : Answer(pl, cs) /\ inv'[pl] \in Pack =>
                 toClient' \in [Players -> Seq(Messages)]
<1>1. Updates(cs) \in Seq(Messages)
  <2>1. Len(cs) \in Nat /\ DOMAIN cs = 1..Len(cs)
    BY LenProperties
  <2>2. \A k \in 1..Len(cs) : [kind |-> "ChunkUpdated", chunk |-> cs[k]] \in Messages
    <3>1. \A k \in 1..Len(cs) : cs[k] \in Chunk
      BY ElementOfSeq
    <3> QED
      BY <3>1 DEF Messages
  <2>3. Updates(cs) = [k \in 1..Len(cs) |-> [kind |-> "ChunkUpdated", chunk |-> cs[k]]]
    BY <2>1 DEF Updates
  <2>4. Updates(cs) \in [1..Len(cs) -> Messages]
    BY <2>2, <2>3
  <2> QED
    BY <2>1, <2>4, SeqDef
<1>2. ASSUME NEW pl \in Players PROVE toClient[pl] \o Updates(cs) \in Seq(Messages)
  <2>1. toClient[pl] \in Seq(Messages)
    BY DEF ChestsTyped
  <2> QED
    BY <1>1, <2>1, ConcatProperties
<1>3. ToAll(cs) \in [Players -> Seq(Messages)]
  BY <1>2 DEF ToAll
<1>4. ASSUME NEW pl \in Players, Answer(pl, cs), inv'[pl] \in Pack
      PROVE  toClient' \in [Players -> Seq(Messages)]
  <2> DEFINE all == ToAll(cs)
             m == [kind |-> "SetInventory", inv |-> inv'[pl]]
  <2>1. toClient' = [all EXCEPT ![pl] = Append(@, m)]
    BY <1>4 DEF Answer
  <2>2. m \in Messages
    BY <1>4 DEF Messages
  <2>3. all \in [Players -> Seq(Messages)]
    BY <1>3
  <2> HIDE DEF all, m
  <2>4. Append(all[pl], m) \in Seq(Messages)
    BY <2>2, <2>3, AppendProperties
  <2> QED
    BY <2>1, <2>3, <2>4
<1> QED
  BY <1>3, <1>4

LEMMA OneTold == ASSUME NEW c \in Chunk PROVE <<c>> \in Seq(Chunk)
  OBVIOUS

LEMMA TwoTold == ASSUME NEW c \in Chunk, NEW d \in Chunk PROVE <<c, d>> \in Seq(Chunk)
  OBVIOUS

\* What the property says of a command that is handled.
ItemsKept(pl) ==
    LET c == Command(pl) IN
    \A i \in Items :
       LET dug == IF c.kind = "Dig" /\ chunk.blk[c.pos] = i THEN 1 ELSE 0
           placed == IF c.kind = "Place" /\ c.item = i THEN 1 ELSE 0
           buried == IF c.kind = "Place" /\ c.item \in HasInventory
                        /\ chunk.meta[c.pos] # None
                       THEN Total(chunk.meta[c.pos], ChestSlots, i) ELSE 0
       IN /\ Held(i)' <= Held(i) + dug
          /\ NoneAboveLimit => Held(i)' >= Held(i) - placed - buried

HasChest(c) == \A p \in Pos : c.blk[p] \in HasInventory => c.meta[p] # None

\* Nothing changes but the queues.
LEMMA NothingMoves ==
    ASSUME ChestsTyped, NEW pl \in Players, UNCHANGED <<chunk, inv>>
    PROVE  /\ chunk' \in Chunk /\ inv' \in [Players -> Pack]
           /\ HasChest(chunk) => HasChest(chunk')
           /\ Command(pl).pos \in Pos => ItemsKept(pl)
<1>1. ASSUME NEW p \in Pos, NEW i \in Items
      PROVE  Held(i)' = Held(i) /\ Held(i) \in Int /\ InChest(chunk.meta[p], i) \in Nat
  <2>1. Held(i)' = Held(i)
    BY HeldIs
  <2>2. chunk \in Chunk /\ inv \in [Players -> Pack]
    BY DEF ChestsTyped
  <2> DEFINE pack == inv[pl]
             m == chunk.meta[p]
  <2>3. Changed(inv, inv', Players, pl, pack) /\ pack \in Pack
    BY <2>2 DEF Changed
  <2>4. Changed(chunk.meta, chunk'.meta, Pos, p, m) /\ m \in Chest \cup {None}
    BY <2>2 DEF Chunk, Changed
  <2>5. InChest(m, i) \in Nat
    BY <2>4, InChestType
  <2> HIDE DEF pack, m
  <2>6. Held(i) \in Int
    BY <2>3, <2>4, HeldChange
  <2> QED
    BY <2>1, <2>5, <2>6 DEF m
<1>2. ASSUME Command(pl).pos \in Pos PROVE ItemsKept(pl)
  BY <1>1, <1>2 DEF ItemsKept, InChest
<1> QED
  BY <1>2 DEF ChestsTyped, HasChest

LEMMA DigMoves ==
    ASSUME ChestsTyped, NEW pl \in Players, ServerDig(pl)
    PROVE  ChestsTyped' /\ ItemsKept(pl) /\ (HasChest(chunk) => HasChest(chunk'))
<1> DEFINE p == Command(pl).pos
           air == SetBlk(chunk, p, Air)
           clear == SetMeta(air, p, None)
           pack == Insert(inv[pl], Drop(chunk.blk[p]))
<1>1. /\ toServer' \in [Players -> Seq(Commands)] /\ p \in Pos /\ Command(pl).kind = "Dig"
      /\ UNCHANGED <<view, mine, menu>>
  <2>1. Handle(pl, "Dig")
    BY DEF ServerDig
  <2> QED
    BY <2>1, CommandHandled DEF Handle
<1>2. chunk \in Chunk /\ inv \in [Players -> Pack] /\ inv[pl] \in Pack
  BY DEF ChestsTyped
<1>3. /\ air \in Chunk /\ clear \in Chunk
      /\ chunk.meta[p] \in Chest \cup {None} /\ chunk.blk[p] \in Blocks
  <2>1. Air \in Blocks /\ None \in Chest \cup {None}
    BY DEF Blocks
  <2>2. air \in Chunk
    BY <1>2, <2>1, ChunkIs
  <2> HIDE DEF air
  <2> QED
    BY <1>1, <1>2, <2>1, <2>2, ChunkIs
<1>4. CASE /\ chunk.meta[p] \in {None, EmptyChest}
           /\ inv' = [inv EXCEPT ![pl] = Insert(@, Drop(chunk.blk[p]))]
           /\ chunk' = clear
           /\ Answer(pl, <<air, clear>>)
  <2>1. pack \in Pack /\ Inserted(inv[pl], Drop(chunk.blk[p]), pack)
    BY <1>2, <1>3, DropIs, InsertsTyped
  <2>2. inv' = [inv EXCEPT ![pl] = pack]
    BY <1>4
  <2>3. clear.meta = [chunk.meta EXCEPT ![p] = None] /\ clear.blk = [chunk.blk EXCEPT ![p] = Air]
    BY <1>2 DEF SetMeta, SetBlk, Chunk
  <2> HIDE DEF pack, air, clear
  <2>4. inv' \in [Players -> Pack] /\ inv'[pl] \in Pack
    BY <1>2, <2>1, <2>2
  <2>5. toClient' \in [Players -> Seq(Messages)]
    BY <1>3, <1>4, <2>4, TwoTold, TellsTyped
  <2>6. ChestsTyped'
    BY <1>1, <1>3, <1>4, <2>4, <2>5 DEF ChestsTyped
  <2>7. HasChest(chunk) => HasChest(chunk')
    BY <1>2, <1>4, <2>3, ChestsAssumption DEF HasChest, Chunk
  <2>8. ASSUME NEW i \in Items
        PROVE  LET dug == IF chunk.blk[p] = i THEN 1 ELSE 0
               IN /\ Held(i)' <= Held(i) + dug
                  /\ NoneAboveLimit => Held(i)' >= Held(i)
                  /\ Held(i) \in Int /\ Held(i)' \in Int
    <3>1. /\ Held(i) \in Int
          /\ Held(i)' = Held(i) - Total(inv[pl].stacks, MainSlots, i)
                                + Total(pack.stacks, MainSlots, i)
                                - InChest(chunk.meta[p], i) + InChest(None, i)
      <4>1. p \in Pos /\ Changed(chunk.meta, chunk'.meta, Pos, p, None)
        BY <1>1, <1>2, <1>4, <2>3 DEF Changed, Chunk
      <4>2. Changed(inv, inv', Players, pl, pack) /\ None \in Chest \cup {None}
        BY <1>2, <2>2 DEF Changed
      <4> HIDE DEF p
      <4> QED
        BY <2>1, <4>1, <4>2, HeldChange
    <3>2. InChest(chunk.meta[p], i) = 0 /\ InChest(None, i) = 0
      BY <1>4, ChestsAre DEF InChest
    <3>3. Total(inv[pl].stacks, MainSlots, i) \in Nat /\ Total(pack.stacks, MainSlots, i) \in Nat
      BY <1>2, <2>1, PackType
    <3>4. Total(pack.stacks, MainSlots, i)
             <= Total(inv[pl].stacks, MainSlots, i) + (IF chunk.blk[p] = i THEN 1 ELSE 0)
      <4>1. Amount(Drop(chunk.blk[p]), i) = IF chunk.blk[p] = i THEN 1 ELSE 0
        BY <1>3, DropIs
      <4> QED
        BY <2>1, <4>1 DEF Inserted
    <3>5. NoneAboveLimit => Total(pack.stacks, MainSlots, i) >= Total(inv[pl].stacks, MainSlots, i)
      BY <1>3, <2>1, DropIs DEF NoneAboveLimit, Inserted, AllLimited, Limited
    <3> QED
      BY <3>1, <3>2, <3>3, <3>4, <3>5
  <2>9. ItemsKept(pl)
    BY <1>1, <2>8 DEF ItemsKept
  <2> QED
    BY <2>6, <2>7, <2>9
<1>5. CASE UNCHANGED <<chunk, inv>> /\ Answer(pl, <<chunk>>)
  <2>1. /\ chunk' \in Chunk /\ inv' \in [Players -> Pack]
        /\ HasChest(chunk) => HasChest(chunk')
        /\ ItemsKept(pl)
    BY <1>1, <1>5, NothingMoves
  <2>2. toClient' \in [Players -> Seq(Messages)]
    BY <1>2, <1>5, OneTold, TellsTyped
  <2> QED
    BY <1>1, <2>1, <2>2 DEF ChestsTyped
<1> QED
  BY <1>4, <1>5 DEF ServerDig

LEMMA PlaceMoves ==
    ASSUME ChestsTyped, NEW pl \in Players, ServerPlace(pl)
    PROVE  ChestsTyped' /\ ItemsKept(pl) /\ (HasChest(chunk) => HasChest(chunk'))
<1> DEFINE c == Command(pl)
           set == SetBlk(chunk, c.pos, c.item)
           fresh == SetMeta(set, c.pos, EmptyChest)
           after == IF c.item \in HasInventory THEN <<set, fresh>> ELSE <<set>>
           pack == TakeSelected(inv[pl])
<1>1. /\ toServer' \in [Players -> Seq(Commands)] /\ c.pos \in Pos /\ c.kind = "Place"
      /\ UNCHANGED <<view, mine, menu>>
  <2>1. Handle(pl, "Place")
    BY DEF ServerPlace
  <2> QED
    BY <2>1, CommandHandled DEF Handle
<1>2. chunk \in Chunk /\ inv \in [Players -> Pack] /\ inv[pl] \in Pack
  BY DEF ChestsTyped
<1>3. CASE /\ Selected(inv[pl]) # Empty /\ Selected(inv[pl]).item = c.item
           /\ inv' = [inv EXCEPT ![pl] = TakeSelected(@)]
           /\ chunk' = after[Len(after)]
           /\ toClient' = ToAll(after)
  <2>1. /\ pack \in Pack /\ c.item \in Items
        /\ \A i \in Items : Total(pack.stacks, MainSlots, i)
                               = Total(inv[pl].stacks, MainSlots, i)
                                    - (IF i = c.item THEN 1 ELSE 0)
    BY <1>2, <1>3, SelectedHere
  <2>2. inv' = [inv EXCEPT ![pl] = pack]
    BY <1>3
  <2>3. set \in Chunk
    BY <1>2, <2>1, ChunkIs DEF Blocks
  <2>4. fresh \in Chunk
    <3> HIDE DEF set
    <3> QED
      BY <2>3, ChestsAre, ChunkIs
  <2>5. /\ set.blk = [chunk.blk EXCEPT ![c.pos] = c.item] /\ set.meta = chunk.meta
        /\ fresh.blk = [chunk.blk EXCEPT ![c.pos] = c.item]
        /\ fresh.meta = [chunk.meta EXCEPT ![c.pos] = EmptyChest]
    BY <1>2 DEF SetMeta, SetBlk, Chunk
  <2> HIDE DEF pack, set, fresh
  <2>6. inv' \in [Players -> Pack]
    BY <1>2, <2>1, <2>2
  <2>7. /\ after \in Seq(Chunk)
        /\ c.item \in HasInventory => chunk' = fresh
        /\ c.item \notin HasInventory => chunk' = set
    <3>1. <<set, fresh>> \in Seq(Chunk) /\ <<set>> \in Seq(Chunk)
      BY <2>3, <2>4, OneTold, TwoTold
    <3>2. /\ Len(<<set, fresh>>) = 2 /\ <<set, fresh>>[2] = fresh
          /\ Len(<<set>>) = 1 /\ <<set>>[1] = set
      OBVIOUS
    <3> QED
      BY <1>3, <3>1, <3>2
  <2> HIDE DEF after
  <2>8. toClient' \in [Players -> Seq(Messages)]
    BY <1>3, <2>7, TellsTyped
  <2>9. chunk' \in Chunk
    BY <2>3, <2>4, <2>7
  <2>10. ChestsTyped'
    BY <1>1, <2>6, <2>8, <2>9 DEF ChestsTyped
  <2>11. HasChest(chunk) => HasChest(chunk')
    BY <1>2, <2>5, <2>7, ChestsAre DEF HasChest, Chunk
  <2>12. ASSUME NEW i \in Items
         PROVE  LET placed == IF c.item = i THEN 1 ELSE 0
                    buried == IF c.item \in HasInventory /\ chunk.meta[c.pos] # None
                                THEN Total(chunk.meta[c.pos], ChestSlots, i) ELSE 0
                IN /\ Held(i)' <= Held(i)
                   /\ Held(i)' >= Held(i) - placed - buried
                   /\ Held(i) \in Int
    <3> DEFINE m == IF c.item \in HasInventory THEN EmptyChest ELSE chunk.meta[c.pos]
    <3>1. /\ m \in Chest \cup {None} /\ chunk.meta[c.pos] \in Chest \cup {None}
          /\ Changed(chunk.meta, chunk'.meta, Pos, c.pos, m)
      BY <1>1, <1>2, <2>5, <2>7, ChestsAre DEF Changed, Chunk
    <3>2. Changed(inv, inv', Players, pl, pack)
      BY <1>2, <2>2 DEF Changed
    <3>3. InChest(m, i) = IF c.item \in HasInventory THEN 0 ELSE InChest(chunk.meta[c.pos], i)
      BY ChestsAre DEF InChest
    <3>4. InChest(chunk.meta[c.pos], i) \in Nat
      BY <3>1, InChestType
    <3>5. Total(inv[pl].stacks, MainSlots, i) \in Nat /\ Total(pack.stacks, MainSlots, i) \in Nat
      BY <1>2, <2>1, PackType
    <3>6. Total(pack.stacks, MainSlots, i)
             = Total(inv[pl].stacks, MainSlots, i) - (IF i = c.item THEN 1 ELSE 0)
      BY <2>1
    <3> HIDE DEF m
    <3>7. /\ Held(i) \in Int
          /\ Held(i)' = Held(i) - Total(inv[pl].stacks, MainSlots, i)
                                + Total(pack.stacks, MainSlots, i)
                                - InChest(chunk.meta[c.pos], i) + InChest(m, i)
      <4> DEFINE p == c.pos
      <4>1. p \in Pos /\ Changed(chunk.meta, chunk'.meta, Pos, p, m)
        BY <1>1, <3>1
      <4> HIDE DEF p
      <4>2. /\ Held(i) \in Int
            /\ Held(i)' = Held(i) - Total(inv[pl].stacks, MainSlots, i)
                                  + Total(pack.stacks, MainSlots, i)
                                  - InChest(chunk.meta[p], i) + InChest(m, i)
        BY <2>1, <3>1, <3>2, <4>1, HeldChange
      <4> QED
        BY <4>2 DEF p
    <3>8. /\ c.item \in HasInventory /\ chunk.meta[c.pos] # None =>
                InChest(chunk.meta[c.pos], i) = Total(chunk.meta[c.pos], ChestSlots, i)
          /\ chunk.meta[c.pos] = None => InChest(chunk.meta[c.pos], i) = 0
      BY DEF InChest
    <3> HIDE DEF c
    <3> QED
      BY <3>3, <3>4, <3>5, <3>6, <3>7, <3>8
  <2>13. ItemsKept(pl)
    BY <1>1, <2>12 DEF ItemsKept
  <2> QED
    BY <2>10, <2>11, <2>13
<1>4. CASE UNCHANGED <<chunk, inv, toClient>>
  <2>1. /\ chunk' \in Chunk /\ inv' \in [Players -> Pack]
        /\ HasChest(chunk) => HasChest(chunk')
        /\ ItemsKept(pl)
    BY <1>1, <1>4, NothingMoves
  <2> QED
    BY <1>1, <1>4, <2>1 DEF ChestsTyped
<1> QED
  BY <1>3, <1>4 DEF ServerPlace

LEMMA SwapMoves ==
    ASSUME ChestsTyped, NEW pl \in Players, ServerSwap(pl)
    PROVE  ChestsTyped' /\ ItemsKept(pl) /\ (HasChest(chunk) => HasChest(chunk'))
<1> DEFINE c == Command(pl)
           chest == chunk.meta[c.pos]
           moved == Moved(inv[pl], chest, c.from, c.to, c.one)
           inside == Moved(inv[pl], EmptyChest, c.from, c.to, c.one)
<1>1. /\ toServer' \in [Players -> Seq(Commands)] /\ c.pos \in Pos /\ c.kind = "Swap"
      /\ c.from \in MainSlots \cup ChestSlots /\ c.to \in MainSlots \cup ChestSlots
      /\ c.one \in BOOLEAN /\ UNCHANGED <<view, mine, menu>>
  <2>1. Handle(pl, "Swap")
    BY DEF ServerSwap
  <2> QED
    BY <2>1, CommandHandled DEF Handle
<1>2. /\ chunk \in Chunk /\ inv \in [Players -> Pack] /\ inv[pl] \in Pack
      /\ chest \in Chest \cup {None}
  BY <1>1 DEF ChestsTyped, Chunk
<1>3. CASE /\ {c.from, c.to} \subseteq MainSlots
           /\ inv' = [inv EXCEPT ![pl] = Moved(@, EmptyChest, c.from, c.to, c.one).inv]
           /\ UNCHANGED <<chunk, toClient>>
  <2>1. BothKept(inv[pl], EmptyChest, inside)
    BY <1>1, <1>2, ChestsAre, MovedKeeps
  <2>2. inside.chest = EmptyChest
    BY <1>3, MovedChest, EmptyIsChest
  <2>3. inv' = [inv EXCEPT ![pl] = inside.inv]
    BY <1>3
  <2> HIDE DEF inside
  <2>4. inside.inv \in Pack
    BY <2>1 DEF BothKept
  <2>5. inv' \in [Players -> Pack]
    BY <1>2, <2>3, <2>4
  <2>6. ASSUME NEW i \in Items
        PROVE  /\ Held(i)' <= Held(i) /\ Held(i) \in Int
               /\ NoneAboveLimit => Held(i)' >= Held(i)
    <3>1. /\ Total(inside.inv.stacks, MainSlots, i) <= Total(inv[pl].stacks, MainSlots, i)
          /\ NoneAboveLimit => Total(inside.inv.stacks, MainSlots, i)
                                  = Total(inv[pl].stacks, MainSlots, i)
      <4>1. Total(EmptyChest, ChestSlots, i) = 0
        BY ChestsAre
      <4>2. Total(inv[pl].stacks, MainSlots, i) \in Nat
            /\ Total(inside.inv.stacks, MainSlots, i) \in Nat
        BY <1>2, <2>4, PackType
      <4>3. NoneAboveLimit => /\ AllLimited(inv[pl].stacks, MainSlots)
                              /\ AllLimited(EmptyChest, ChestSlots)
        BY NothingIs DEF NoneAboveLimit, AllLimited, Limited, EmptyChest
      <4>4. /\ Total(inside.inv.stacks, MainSlots, i) + Total(EmptyChest, ChestSlots, i)
                  <= Total(inv[pl].stacks, MainSlots, i) + Total(EmptyChest, ChestSlots, i)
            /\ NoneAboveLimit =>
                  Total(inside.inv.stacks, MainSlots, i) + Total(EmptyChest, ChestSlots, i)
                     = Total(inv[pl].stacks, MainSlots, i) + Total(EmptyChest, ChestSlots, i)
        BY <2>1, <2>2, <4>3 DEF BothKept
      <4> QED
        BY <4>1, <4>2, <4>4
    <3>2. /\ Held(i) \in Int
          /\ Held(i)' = Held(i) - Total(inv[pl].stacks, MainSlots, i)
                                + Total(inside.inv.stacks, MainSlots, i)
                                - InChest(chest, i) + InChest(chest, i)
      <4> DEFINE p == c.pos
                 pack == inside.inv
      <4>1. p \in Pos /\ Changed(chunk.meta, chunk'.meta, Pos, p, chest)
            /\ chest = chunk.meta[p]
        BY <1>1, <1>3 DEF Changed
      <4>2. Changed(inv, inv', Players, pl, pack) /\ pack \in Pack
        BY <1>2, <2>3, <2>4 DEF Changed
      <4> HIDE DEF p, chest, pack
      <4>3. /\ Held(i) \in Int
            /\ Held(i)' = Held(i) - Total(inv[pl].stacks, MainSlots, i)
                                  + Total(pack.stacks, MainSlots, i)
                                  - InChest(chunk.meta[p], i) + InChest(chest, i)
        BY <1>2, <4>1, <4>2, HeldChange
      <4> QED
        BY <4>1, <4>3 DEF pack
    <3>3. InChest(chest, i) \in Nat
      BY <1>2, InChestType
    <3>4. Total(inv[pl].stacks, MainSlots, i) \in Nat
          /\ Total(inside.inv.stacks, MainSlots, i) \in Nat
      BY <1>2, <2>4, PackType
    <3> QED
      BY <3>1, <3>2, <3>3, <3>4
  <2>7. ItemsKept(pl)
    BY <1>1, <2>6 DEF ItemsKept
  <2>8. ChestsTyped' /\ (HasChest(chunk) => HasChest(chunk'))
    BY <1>1, <1>3, <2>5 DEF ChestsTyped
  <2> QED
    BY <2>7, <2>8
<1>4. CASE /\ chest # None
           /\ inv' = [inv EXCEPT ![pl] = moved.inv]
           /\ chunk' = SetMeta(chunk, c.pos, moved.chest)
           /\ toClient' = ToAll(<<chunk'>>)
  <2>1. BothKept(inv[pl], chest, moved)
    BY <1>1, <1>2, <1>4, MovedKeeps
  <2>2. chunk'.meta = [chunk.meta EXCEPT ![c.pos] = moved.chest] /\ chunk'.blk = chunk.blk
    BY <1>2, <1>4 DEF SetMeta, Chunk
  <2> HIDE DEF moved
  <2>3. moved.inv \in Pack /\ moved.chest \in Chest /\ moved.chest # None
    BY <2>1, StartAssumption DEF BothKept
  <2>4. inv' \in [Players -> Pack] /\ chunk' \in Chunk
    BY <1>2, <1>4, <2>3, ChunkIs
  <2>5. toClient' \in [Players -> Seq(Messages)]
    BY <1>4, <2>4, OneTold, TellsTyped
  <2>6. ChestsTyped'
    BY <1>1, <2>4, <2>5 DEF ChestsTyped
  <2>7. HasChest(chunk) => HasChest(chunk')
    BY <1>2, <2>2, <2>3 DEF HasChest, Chunk
  <2>8. ASSUME NEW i \in Items
        PROVE  /\ Held(i)' <= Held(i) /\ Held(i) \in Int
               /\ NoneAboveLimit => Held(i)' >= Held(i)
    <3> DEFINE p == c.pos
               pack == moved.inv
               m == moved.chest
    <3>1. /\ Total(pack.stacks, MainSlots, i) + Total(m, ChestSlots, i)
                <= Total(inv[pl].stacks, MainSlots, i) + Total(chest, ChestSlots, i)
          /\ NoneAboveLimit =>
                Total(pack.stacks, MainSlots, i) + Total(m, ChestSlots, i)
                   = Total(inv[pl].stacks, MainSlots, i) + Total(chest, ChestSlots, i)
      <4>1. NoneAboveLimit => AllLimited(inv[pl].stacks, MainSlots) /\ AllLimited(chest, ChestSlots)
        BY <1>1, <1>4 DEF NoneAboveLimit, AllLimited, Limited
      <4> HIDE DEF chest
      <4> QED
        BY <2>1, <4>1 DEF BothKept
    <3>2. p \in Pos /\ Changed(chunk.meta, chunk'.meta, Pos, p, m) /\ chest = chunk.meta[p]
      BY <1>1, <1>2, <2>2 DEF Changed, Chunk
    <3>3. Changed(inv, inv', Players, pl, pack) /\ pack \in Pack /\ m \in Chest \cup {None}
      BY <1>2, <1>4, <2>3 DEF Changed
    <3>4. InChest(m, i) = Total(m, ChestSlots, i) /\ InChest(chest, i) = Total(chest, ChestSlots, i)
      BY <1>4, <2>3 DEF InChest
    <3> HIDE DEF p, chest, pack, m
    <3>5. /\ Held(i) \in Int
          /\ Held(i)' = Held(i) - Total(inv[pl].stacks, MainSlots, i)
                                + Total(pack.stacks, MainSlots, i)
                                - InChest(chunk.meta[p], i) + InChest(m, i)
      BY <3>2, <3>3, HeldChange
    <3>6. Total(inv[pl].stacks, MainSlots, i) \in Nat /\ Total(pack.stacks, MainSlots, i) \in Nat
      BY <1>2, <3>3, PackType
    <3>7. InChest(m, i) \in Nat /\ InChest(chest, i) \in Nat
      BY <1>2, <3>3, InChestType
    <3> QED
      BY <3>1, <3>2, <3>4, <3>5, <3>6, <3>7
  <2>9. ItemsKept(pl)
    BY <1>1, <2>8 DEF ItemsKept
  <2> QED
    BY <2>6, <2>7, <2>9
<1>5. CASE UNCHANGED <<chunk, inv, toClient>>
  <2>1. /\ chunk' \in Chunk /\ inv' \in [Players -> Pack]
        /\ HasChest(chunk) => HasChest(chunk')
        /\ ItemsKept(pl)
    BY <1>1, <1>5, NothingMoves
  <2> QED
    BY <1>1, <1>5, <2>1 DEF ChestsTyped
<1> QED
  BY <1>3, <1>4, <1>5 DEF ServerSwap

-----------------------------------------------------------------------------
LEMMA ChestsInit == Init => ChestsTyped /\ ChestsHaveInventories
<1> SUFFICES ASSUME Init PROVE ChestsTyped /\ ChestsHaveInventories
  OBVIOUS
<1>1. PICK blks \in StartBlocks, chest \in StartChests :
         chunk = [blk |-> blks,
                  meta |-> [p \in Pos |-> IF blks[p] \in HasInventory THEN chest ELSE None]]
  BY DEF Init
<1>2. blks \in [Pos -> Blocks] /\ chest \in Chest /\ chest # None
  BY StartAssumption
<1>3. chunk \in Chunk /\ ChestsHaveInventories
  BY <1>1, <1>2 DEF Chunk, ChestsHaveInventories
<1>4. inv \in [Players -> Pack]
  BY StartAssumption DEF Init, Pack, Packs
<1>5. << >> \in Seq(Commands) /\ << >> \in Seq(Messages)
  BY EmptySeq
<1> QED
  BY <1>3, <1>4, <1>5 DEF Init, ChestsTyped

LEMMA ClientTypes ==
    ASSUME ChestsTyped, NEW pl \in Players, ClientStep(pl)
    PROVE  ChestsTyped' /\ UNCHANGED <<chunk, inv>>
<1>1. ChestsTyped'
  BY ClientDigTypes, ClientPlaceTypes, OpenTypes, MenuTypes, MenuSwapTypes, ReceiveTypes
     DEF ClientStep
<1>2. UNCHANGED <<chunk, inv>>
  BY DEF ClientStep, ClientDig, ClientPlace, OpenChest, MenuFrame, CloseChest, MenuSwap,
         ClientReceive
<1> QED
  BY <1>1, <1>2

LEMMA ServerMoves ==
    ASSUME ChestsTyped, NEW pl \in Players, ServerStep(pl)
    PROVE  ChestsTyped' /\ ItemsKept(pl) /\ (HasChest(chunk) => HasChest(chunk'))
  BY DigMoves, PlaceMoves, SwapMoves DEF ServerStep

LEMMA ChestsNext == ChestsTyped /\ [Next]_vars => ChestsTyped' /\ (HasChest(chunk) => HasChest(chunk'))
<1> SUFFICES ASSUME ChestsTyped, [Next]_vars
             PROVE  ChestsTyped' /\ (HasChest(chunk) => HasChest(chunk'))
  OBVIOUS
<1>1. CASE UNCHANGED vars
  BY <1>1 DEF vars, ChestsTyped, HasChest
<1>2. CASE Next
  <2>1. PICK pl \in Players : ClientStep(pl) \/ ServerStep(pl)
    BY <1>2 DEF Next
  <2>2. CASE ClientStep(pl)
    BY <2>2, ClientTypes DEF HasChest
  <2>3. CASE ServerStep(pl)
    BY <2>3, ServerMoves
  <2> QED
    BY <2>1, <2>2, <2>3
<1> QED
  BY <1>1, <1>2

\* The queue of a player gets shorter only when one of the player's commands is handled.
LEMMA HandledByServer ==
    ASSUME ChestsTyped, [Next]_vars, NEW pl \in Players, toServer[pl] # << >>,
           toServer'[pl] = Tail(toServer[pl])
    PROVE  ServerStep(pl)
<1>1. /\ toServer[pl] \in Seq(Commands) /\ Len(toServer[pl]) \in Nat
      /\ Len(toServer'[pl]) = Len(toServer[pl]) - 1
  BY HeadTailProperties, LenProperties DEF ChestsTyped
<1>2. toServer'[pl] # toServer[pl]
  <2> DEFINE long == Len(toServer[pl])
             short == Len(toServer'[pl])
  <2>1. long \in Nat /\ short = long - 1
    BY <1>1
  <2>2. toServer'[pl] = toServer[pl] => short = long
    OBVIOUS
  <2> HIDE DEF long, short
  <2> QED
    BY <2>1, <2>2
<1>3. PICK q \in Players : ClientStep(q) \/ ServerStep(q)
  BY <1>2 DEF Next, vars
<1>4. CASE ClientStep(q)
  <2>1. \/ toServer' = toServer
        \/ \E c : Send(q, c)
    BY <1>4 DEF ClientStep, ClientDig, ClientPlace, OpenChest, MenuFrame, CloseChest, MenuSwap,
                ClientReceive
  <2>2. PICK c : Send(q, c)
    BY <1>2, <2>1
  <2>3. toServer' = [toServer EXCEPT ![q] = Append(@, c)]
    BY <2>2 DEF Send
  <2>4. q = pl
    BY <1>2, <2>3
  <2>5. toServer'[pl] = Append(toServer[pl], c)
    BY <2>3, <2>4 DEF ChestsTyped
  <2>6. Len(Append(toServer[pl], c)) = Len(toServer[pl]) + 1
    <3>1. toServer[pl] \in Seq(Commands \cup {c})
      BY <1>1, SeqMonotonic
    <3> QED
      BY <3>1, AppendProperties
  <2> DEFINE long == Len(toServer[pl])
             short == Len(toServer'[pl])
  <2>7. long \in Nat /\ short = long - 1 /\ short = long + 1
    BY <1>1, <2>5, <2>6
  <2> HIDE DEF long, short
  <2> QED
    BY <2>7
<1>5. CASE ServerStep(q)
  <2>1. toServer' = [toServer EXCEPT ![q] = Tail(@)]
    BY <1>5 DEF ServerStep, ServerDig, ServerPlace, ServerSwap, Handle
  <2>2. q = pl
    BY <1>2, <2>1
  <2> QED
    BY <1>5, <2>2
<1> QED
  BY <1>3, <1>4, <1>5

\* However blocks are dug, placed and replaced (PlaceBlock, handle_dig), and whatever
\* their players predicted, where a chest stands there is an inventory for it.
THEOREM ChestsAreReachable == Spec => []ChestsHaveInventories
<1>1. ChestsHaveInventories <=> HasChest(chunk)
  BY DEF ChestsHaveInventories, HasChest
<1>2. ChestsHaveInventories' <=> HasChest(chunk')
  BY DEF ChestsHaveInventories, HasChest
<1>3. ChestsTyped /\ ChestsHaveInventories /\ [Next]_vars
         => (ChestsTyped /\ ChestsHaveInventories)'
  BY <1>1, <1>2, ChestsNext
<1> QED
  BY <1>3, ChestsInit, PTL DEF Spec

\* Any number of players at any number of chests neither double an item nor, as long as no
\* stack is above the limit, lose one (handle_dig, PlaceBlock, handle_inv_move_or_swap),
\* for all sizes, limits and widths of the counts.
THEOREM ItemsArePreserved == Spec => ItemsAreKept
<1>1. ChestsTyped /\ [Next]_vars => ChestsTyped'
  BY ChestsNext
<1>2. ASSUME ChestsTyped, [Next]_vars, NEW pl \in Players, toServer[pl] # << >>,
             toServer'[pl] = Tail(toServer[pl])
      PROVE  ItemsKept(pl)
  BY <1>2, HandledByServer, ServerMoves
<1>3. ChestsTyped /\ [Next]_vars =>
         \A pl \in Players : toServer[pl] # << >> /\ toServer'[pl] = Tail(toServer[pl])
            => ItemsKept(pl)
  BY <1>2
<1> DEFINE EachKeeps == \A pl \in Players : toServer[pl] # << >> /\ toServer'[pl] = Tail(toServer[pl]) =>
         LET c == Command(pl) IN
         \A i \in Items :
            LET dug == IF c.kind = "Dig" /\ chunk.blk[c.pos] = i THEN 1 ELSE 0
                placed == IF c.kind = "Place" /\ c.item = i THEN 1 ELSE 0
                buried == IF c.kind = "Place" /\ c.item \in HasInventory
                             /\ chunk.meta[c.pos] # None
                            THEN Total(chunk.meta[c.pos], ChestSlots, i) ELSE 0
            IN /\ Held(i)' <= Held(i) + dug
               /\ NoneAboveLimit => Held(i)' >= Held(i) - placed - buried
<1>4. ChestsTyped /\ [Next]_vars => EachKeeps
  BY <1>3 DEF ItemsKept
<1>5. ItemsAreKept <=> [][EachKeeps]_vars
  BY DEF ItemsAreKept
<1> HIDE DEF EachKeeps
<1> QED
  BY <1>1, <1>4, <1>5, ChestsInit, PTL DEF Spec
=============================================================================
