-------------------------- MODULE PredictionProofs --------------------------
(***************************************************************************)
(* For any inventories, recipes, drops, gifts and number of commands: when *)
(* nothing is under way, the client's inventories are the server's, but    *)
(* for the named ways in which they part.  The argument replays, on the    *)
(* server's inventories, the commands that are still under way: it ends    *)
(* where the client is, until a command that will be answered; and a       *)
(* client that goes on before that answer has come will part from the      *)
(* server by name when it comes.                                           *)
(*                                                                         *)
(* The two properties of the server's own steps, that swapping keeps the   *)
(* items and that crafting takes what a recipe says, need only the types   *)
(* of the inventories (InventoriesTyped) and the lemmas of                 *)
(* InventoryProofs.                                                        *)
(***************************************************************************)
EXTENDS Prediction, InventoryProofs, SequenceTheorems, TLAPS

IsSeq(s) == \E S : s \in Seq(S)

IsStacks(st) == st = [s \in Slots |-> st[s]]

IsInv(inv) ==
    /\ inv = [selection |-> inv.selection, stacks |-> inv.stacks]
    /\ IsStacks(inv.stacks)

SameCraft(a, b) == \A s \in CraftSlots : a.stacks[s] = b.stacks[s]

-----------------------------------------------------------------------------
(* Commands *)

\* The server will send its inventory.
Answers(c, inv) ==
    \/ c.kind \in {"Dig", "Gime", "ClearInventory"}
    \/ c.kind = "ClearSelection" /\ inv.selection # 0

\* What the server makes of the other ones.
Applied(c, inv) ==
    IF c.kind = "Place"
      THEN IF Selected(inv) # Empty /\ inv.selection = c.idx /\ Selected(inv).item = c.item
             THEN TakeSelected(inv) ELSE inv
    ELSE IF c.kind = "Swap" THEN MergeOrMove(inv, c.from, c.to, c.one)
    ELSE IF c.kind = "Craft"
      THEN IF MatchingRecipe(inv.stacks) = 0 THEN inv
           ELSE CraftInto(inv, Output(inv.stacks))
    ELSE IF c.kind = "Select" THEN [inv EXCEPT !.selection = c.selection]
    ELSE inv

Replays(T, q, n) ==
    \A i \in 1..n : ~Answers(q[i], T[i]) /\ T[i + 1] = Applied(q[i], T[i])

\* From srv, the first n commands of q lead to inv, without an answer.
Led(srv, q, n, inv) == \E T : T[1] = srv /\ T[n + 1] = inv /\ Replays(T, q, n)

-----------------------------------------------------------------------------
(* Where the two copies are *)

\* An answer will come that the client's last prediction is not in.
WillAnswerEarly(srv, q) ==
    \E n \in 0..(Len(q) - 2) : \E inv : Led(srv, q, n, inv) /\ Answers(q[n + 1], inv)

Outrun ==
    \/ \E i \in 1..Len(toClient) : toClient[i].after # sent
    \/ WillAnswerEarly(server, toServer)

InStep(srv, q, cl) == Led(srv, q, Len(q), cl)

\* The last command will be answered.
Awaits(srv, q, cl) ==
    /\ Len(q) # 0
    /\ \E inv : /\ Led(srv, q, Len(q) - 1, inv)
                /\ Answers(q[Len(q)], inv)
                /\ SameCraft(cl, inv)

Answered ==
    /\ Len(toClient) = 1 /\ Len(toServer) = 0
    /\ toClient[1].after = sent /\ toClient[1].inv = server
    /\ SameCraft(client, server)

\* An open menu has the client's copy.
Shows(m, cl) == m # Closed => m = [inv |-> cl, output |-> m.output]

Together ==
    /\ IsInv(client)
    /\ Shows(menu, client)
    /\ \/ Outrun
       \/ Len(toClient) = 0 /\ InStep(server, toServer, client)
       \/ Len(toClient) = 0 /\ Awaits(server, toServer, client)
       \/ Answered

QueuesOK ==
    /\ IsSeq(toServer) /\ IsSeq(toClient)
    /\ handled \in Nat /\ sent = handled + Len(toServer)
    /\ \A i \in 1..Len(toClient) : toClient[i].after \in Nat /\ toClient[i].after <= handled

CopiesInv == QueuesOK /\ IsInv(server) /\ (drift = {} => Together)

-----------------------------------------------------------------------------
(* Queues *)

LEMMA AppendIs ==
    ASSUME NEW s, IsSeq(s), NEW e
    PROVE  /\ IsSeq(Append(s, e)) /\ Len(s) \in Nat /\ Len(Append(s, e)) = Len(s) + 1
           /\ \A i \in 1..Len(s) : Append(s, e)[i] = s[i]
           /\ Append(s, e)[Len(s) + 1] = e
  <1>1. PICK S : s \in Seq(S)
    BY DEF IsSeq
  <1>2. s \in Seq(S \cup {e})
    BY <1>1, SeqMonotonic
  <1> QED
    BY <1>2, AppendProperties, LenProperties DEF IsSeq

LEMMA TailIs ==
    ASSUME NEW s, IsSeq(s), s # << >>
    PROVE  /\ IsSeq(Tail(s)) /\ Len(s) \in Nat \ {0} /\ Len(Tail(s)) = Len(s) - 1
           /\ \A i \in 1..(Len(s) - 1) : Tail(s)[i] = s[i + 1]
           /\ Head(s) = s[1]
  <1>1. PICK S : s \in Seq(S)
    BY DEF IsSeq
  <1>2. Tail(s) \in Seq(S) /\ Len(Tail(s)) = Len(s) - 1
        /\ \A i \in 1..Len(Tail(s)) : Tail(s)[i] = s[i + 1]
    BY <1>1, HeadTailProperties
  <1>3. Len(s) \in Nat \ {0}
    BY <1>1, EmptySeq, LenProperties
  <1> QED
    BY <1>1, <1>2, <1>3 DEF IsSeq

LEMMA EmptyIs ==
    ASSUME NEW s, IsSeq(s)
    PROVE  Len(s) \in Nat /\ (s = << >> <=> Len(s) = 0)
  <1>1. PICK S : s \in Seq(S)
    BY DEF IsSeq
  <1> QED
    BY <1>1, EmptySeq, LenProperties

-----------------------------------------------------------------------------
(* Replays *)

LEMMA LedNowhere ==
    ASSUME NEW srv, NEW q, NEW inv
    PROVE  Led(srv, q, 0, inv) <=> inv = srv
  <1>1. ASSUME inv = srv PROVE Led(srv, q, 0, inv)
    <2> DEFINE T == [i \in {1} |-> srv]
    <2>1. T[1] = srv /\ T[0 + 1] = inv
      BY <1>1
    <2>2. Replays(T, q, 0)
      BY DEF Replays
    <2> QED
      BY <2>1, <2>2 DEF Led
  <1>2. ASSUME Led(srv, q, 0, inv) PROVE inv = srv
    <2>1. PICK T : T[1] = srv /\ T[0 + 1] = inv
      BY <1>2 DEF Led
    <2> QED
      BY <2>1
  <1> QED
    BY <1>1, <1>2

LEMMA LedAppend ==
    ASSUME NEW srv, NEW q, IsSeq(q), NEW c, NEW q2, q2 = Append(q, c),
           NEW n \in 0..Len(q), NEW inv, Led(srv, q, n, inv)
    PROVE  Led(srv, q2, n, inv)
  <1>1. PICK T : T[1] = srv /\ T[n + 1] = inv /\ Replays(T, q, n)
    BY DEF Led
  <1>2. Len(q) \in Nat /\ \A i \in 1..n : q2[i] = q[i]
    BY AppendIs
  <1>3. Replays(T, q2, n)
    BY <1>1, <1>2 DEF Replays
  <1> QED
    BY <1>1, <1>3 DEF Led

LEMMA LedOn ==
    ASSUME NEW srv, NEW q, NEW n \in Nat, NEW inv, Led(srv, q, n, inv),
           ~Answers(q[n + 1], inv)
    PROVE  Led(srv, q, n + 1, Applied(q[n + 1], inv))
  <1>1. PICK T : T[1] = srv /\ T[n + 1] = inv /\ Replays(T, q, n)
    BY DEF Led
  <1> DEFINE U == [i \in 1..(n + 2) |-> IF i = n + 2 THEN Applied(q[n + 1], inv) ELSE T[i]]
  <1>2. /\ \A i \in 1..(n + 1) : U[i] = T[i]
        /\ U[n + 2] = Applied(q[n + 1], inv)
    OBVIOUS
  <1> HIDE DEF U
  <1>3. Replays(U, q, n + 1)
    <2> SUFFICES ASSUME NEW i \in 1..(n + 1)
                 PROVE  ~Answers(q[i], U[i]) /\ U[i + 1] = Applied(q[i], U[i])
      BY DEF Replays
    <2>1. CASE i \in 1..n
      <3>1. U[i] = T[i] /\ U[i + 1] = T[i + 1]
        BY <1>2, <2>1
      <3> QED
        BY <1>1, <2>1, <3>1 DEF Replays
    <2>2. CASE i = n + 1
      <3>1. U[i] = inv /\ U[i + 1] = Applied(q[n + 1], inv)
        BY <1>1, <1>2, <2>2
      <3> QED
        BY <2>2, <3>1
    <2> QED
      BY <2>1, <2>2
  <1>4. U[1] = srv /\ U[(n + 1) + 1] = Applied(q[n + 1], inv)
    BY <1>1, <1>2
  <1> QED
    BY <1>3, <1>4 DEF Led

LEMMA LedTail ==
    ASSUME NEW srv, NEW q, IsSeq(q), q # << >>, NEW p, p = Tail(q),
           NEW n \in 1..Len(q), NEW inv, Led(srv, q, n, inv)
    PROVE  ~Answers(q[1], srv) /\ Led(Applied(q[1], srv), p, n - 1, inv)
  <1>1. PICK T : T[1] = srv /\ T[n + 1] = inv /\ Replays(T, q, n)
    BY DEF Led
  <1>2. Len(q) \in Nat \ {0} /\ \A i \in 1..(Len(q) - 1) : p[i] = q[i + 1]
    BY TailIs
  <1>3. ~Answers(q[1], srv) /\ T[2] = Applied(q[1], srv)
    <2>1. 1 \in 1..n /\ 1 + 1 = 2
      BY <1>2
    <2> QED
      BY <1>1, <2>1 DEF Replays
  <1> DEFINE U == [i \in 1..n |-> T[i + 1]]
  <1>4. \A i \in 1..n : U[i] = T[i + 1]
    OBVIOUS
  <1> HIDE DEF U
  <1>5. Replays(U, p, n - 1)
    <2> SUFFICES ASSUME NEW i \in 1..(n - 1)
                 PROVE  ~Answers(p[i], U[i]) /\ U[i + 1] = Applied(p[i], U[i])
      BY DEF Replays
    <2>1. i + 1 \in 1..n /\ i \in 1..n /\ p[i] = q[i + 1]
      BY <1>2
    <2>2. ~Answers(q[i + 1], T[i + 1]) /\ T[(i + 1) + 1] = Applied(q[i + 1], T[i + 1])
      BY <1>1, <2>1 DEF Replays
    <2> QED
      BY <1>4, <2>1, <2>2
  <1>6. U[1] = Applied(q[1], srv) /\ U[(n - 1) + 1] = inv
    BY <1>1, <1>2, <1>3, <1>4
  <1> QED
    BY <1>3, <1>5, <1>6 DEF Led

-----------------------------------------------------------------------------
(* A command is sent, and handled *)

LEMMA CommandSent ==
    ASSUME NEW srv, NEW q, IsSeq(q), NEW c, NEW q2, q2 = Append(q, c), NEW cl, NEW cl2
    PROVE  /\ WillAnswerEarly(srv, q) => WillAnswerEarly(srv, q2)
           /\ Awaits(srv, q, cl) => WillAnswerEarly(srv, q2)
           /\ InStep(srv, q, cl) =>
                 /\ ~Answers(c, cl) /\ cl2 = Applied(c, cl) => InStep(srv, q2, cl2)
                 /\ Answers(c, cl) /\ SameCraft(cl2, cl) => Awaits(srv, q2, cl2)
  <1>1. /\ Len(q) \in Nat /\ Len(q2) = Len(q) + 1 /\ q2[Len(q) + 1] = c
        /\ \A i \in 1..Len(q) : q2[i] = q[i]
    BY AppendIs
  <1>2. ASSUME WillAnswerEarly(srv, q) PROVE WillAnswerEarly(srv, q2)
    <2>1. PICK n \in 0..(Len(q) - 2) : \E inv : Led(srv, q, n, inv) /\ Answers(q[n + 1], inv)
      BY <1>2 DEF WillAnswerEarly
    <2>2. PICK inv : Led(srv, q, n, inv) /\ Answers(q[n + 1], inv)
      BY <2>1
    <2>3. n \in 0..Len(q) /\ n \in 0..(Len(q2) - 2) /\ q2[n + 1] = q[n + 1]
      BY <1>1
    <2>4. Led(srv, q2, n, inv)
      BY <2>2, <2>3, LedAppend
    <2> QED
      BY <2>2, <2>3, <2>4 DEF WillAnswerEarly
  <1>3. ASSUME Awaits(srv, q, cl) PROVE WillAnswerEarly(srv, q2)
    <2>1. PICK inv : Led(srv, q, Len(q) - 1, inv) /\ Answers(q[Len(q)], inv)
      BY <1>3 DEF Awaits
    <2>2. PICK n \in Int : n = Len(q) - 1
      BY <1>1
    <2>3. n \in 0..Len(q) /\ n \in 0..(Len(q2) - 2) /\ n + 1 = Len(q) /\ q2[n + 1] = q[Len(q)]
      BY <1>1, <1>3, <2>2 DEF Awaits
    <2>4. Led(srv, q2, n, inv)
      BY <2>1, <2>2, <2>3, LedAppend
    <2> QED
      BY <2>1, <2>3, <2>4 DEF WillAnswerEarly
  <1>4. ASSUME InStep(srv, q, cl)
        PROVE  /\ Led(srv, q2, Len(q), cl) /\ Len(q2) - 1 = Len(q)
               /\ q2[Len(q2)] = c /\ Len(q2) # 0
    <2>1. Led(srv, q, Len(q), cl) /\ Len(q) \in 0..Len(q)
      BY <1>1, <1>4 DEF InStep
    <2>2. Led(srv, q2, Len(q), cl)
      BY <2>1, LedAppend
    <2> QED
      BY <1>1, <2>2
  <1>5. ASSUME InStep(srv, q, cl), ~Answers(c, cl), cl2 = Applied(c, cl)
        PROVE  InStep(srv, q2, cl2)
    <2>1. Led(srv, q2, Len(q) + 1, Applied(q2[Len(q) + 1], cl))
      BY <1>1, <1>4, <1>5, LedOn
    <2> QED
      BY <1>1, <1>5, <2>1 DEF InStep
  <1>6. ASSUME InStep(srv, q, cl), Answers(c, cl), SameCraft(cl2, cl)
        PROVE  Awaits(srv, q2, cl2)
    BY <1>4, <1>6 DEF Awaits
  <1> QED
    BY <1>2, <1>3, <1>5, <1>6

LEMMA CommandApplied ==
    ASSUME NEW srv, NEW q, IsSeq(q), q # << >>, NEW p, p = Tail(q), NEW cl,
           ~Answers(q[1], srv), NEW srv2, srv2 = Applied(q[1], srv)
    PROVE  /\ WillAnswerEarly(srv, q) => WillAnswerEarly(srv2, p)
           /\ InStep(srv, q, cl) => InStep(srv2, p, cl)
           /\ Awaits(srv, q, cl) => Awaits(srv2, p, cl)
  <1>1. /\ Len(q) \in Nat \ {0} /\ Len(p) = Len(q) - 1
        /\ \A i \in 1..(Len(q) - 1) : p[i] = q[i + 1]
    BY TailIs
  <1>2. ASSUME NEW n \in 0..(Len(q) - 1), NEW inv, Led(srv, q, n, inv), Answers(q[n + 1], inv)
        PROVE  n # 0 /\ Led(srv2, p, n - 1, inv) /\ p[n] = q[n + 1]
    <2>1. n # 0
      <3>1. SUFFICES ASSUME n = 0 PROVE FALSE
        OBVIOUS
      <3>2. inv = srv /\ q[n + 1] = q[1]
        BY <1>2, <3>1, LedNowhere
      <3> QED
        BY <1>2, <3>2
    <2>2. n \in 1..Len(q) /\ p[n] = q[n + 1]
      BY <1>1, <2>1
    <2> QED
      BY <1>2, <2>1, <2>2, LedTail
  <1>3. ASSUME WillAnswerEarly(srv, q) PROVE WillAnswerEarly(srv2, p)
    <2>1. PICK n \in 0..(Len(q) - 2) : \E inv : Led(srv, q, n, inv) /\ Answers(q[n + 1], inv)
      BY <1>3 DEF WillAnswerEarly
    <2>2. PICK inv : Led(srv, q, n, inv) /\ Answers(q[n + 1], inv)
      BY <2>1
    <2>3. n # 0 /\ Led(srv2, p, n - 1, inv) /\ p[n] = q[n + 1]
      BY <1>1, <1>2, <2>2
    <2>4. PICK k \in Int : k = n - 1 /\ k + 1 = n
      OBVIOUS
    <2>5. k \in 0..(Len(p) - 2) /\ Led(srv2, p, k, inv) /\ Answers(p[k + 1], inv)
      BY <1>1, <2>2, <2>3, <2>4
    <2> QED
      BY <2>5 DEF WillAnswerEarly
  <1>4. ASSUME InStep(srv, q, cl) PROVE InStep(srv2, p, cl)
    <2>1. Len(q) \in 1..Len(q)
      BY <1>1
    <2>2. Led(srv2, p, Len(q) - 1, cl)
      BY <1>4, <2>1, LedTail DEF InStep
    <2> QED
      BY <1>1, <2>2 DEF InStep
  <1>5. ASSUME Awaits(srv, q, cl) PROVE Awaits(srv2, p, cl)
    <2>1. PICK inv : /\ Led(srv, q, Len(q) - 1, inv) /\ Answers(q[Len(q)], inv)
                     /\ SameCraft(cl, inv)
      BY <1>5 DEF Awaits
    <2>2. PICK n \in 0..(Len(q) - 1) : n = Len(q) - 1 /\ n + 1 = Len(q)
      <3>1. PICK l \in Nat \ {0} : l = Len(q)
        BY <1>1
      <3> QED
        BY <3>1
    <2>3. n # 0 /\ Led(srv2, p, n - 1, inv) /\ p[n] = q[n + 1]
      BY <1>1, <1>2, <2>1, <2>2
    <2> QED
      BY <1>1, <2>1, <2>2, <2>3 DEF Awaits
  <1> QED
    BY <1>3, <1>4, <1>5

LEMMA CommandAnswered ==
    ASSUME NEW srv, NEW q, IsSeq(q), q # << >>, Answers(q[1], srv), NEW cl
    PROVE  /\ WillAnswerEarly(srv, q) => Len(q) # 1
           /\ ~InStep(srv, q, cl)
           /\ Len(q) = 1 /\ Awaits(srv, q, cl) => SameCraft(cl, srv)
  <1>1. Len(q) \in Nat \ {0}
    BY TailIs
  <1>2. WillAnswerEarly(srv, q) => Len(q) # 1
    <2>1. SUFFICES ASSUME Len(q) = 1, WillAnswerEarly(srv, q) PROVE FALSE
      OBVIOUS
    <2>2. PICK n \in 0..(Len(q) - 2) : TRUE
      BY <2>1 DEF WillAnswerEarly
    <2> QED
      BY <2>1, <2>2
  <1>3. ~InStep(srv, q, cl)
    <2>1. SUFFICES ASSUME Led(srv, q, Len(q), cl) PROVE FALSE
      BY DEF InStep
    <2>2. Len(q) \in 1..Len(q)
      BY <1>1
    <2> QED
      BY <2>1, <2>2, LedTail
  <1>4. ASSUME Len(q) = 1, Awaits(srv, q, cl) PROVE SameCraft(cl, srv)
    <2>1. PICK inv : Led(srv, q, Len(q) - 1, inv) /\ SameCraft(cl, inv)
      BY <1>4 DEF Awaits
    <2>2. Led(srv, q, 0, inv)
      BY <1>4, <2>1
    <2> QED
      BY <2>1, <2>2, LedNowhere
  <1> QED
    BY <1>2, <1>3, <1>4

-----------------------------------------------------------------------------
(* The shape of inventories *)

LEMMA SlotsApart == MainSlots \cap CraftSlots = {}
  BY DEF MainSlots, CraftSlots

LEMMA StacksExcept ==
    ASSUME NEW st, IsStacks(st), NEW x, NEW v
    PROVE  IsStacks([st EXCEPT ![x] = v])
  BY DEF IsStacks

LEMMA MergeOrMoveIs ==
    ASSUME NEW inv, IsInv(inv), NEW from, NEW to, NEW one
    PROVE  IsInv(MergeOrMove(inv, from, to, one))
  <1>1. IsStacks(inv.stacks)
    BY DEF IsInv
  <1>2. IsStacks(MergeOrSwap(inv.stacks, from, to))
    BY <1>1, StacksExcept DEF MergeOrSwap
  <1>3. IsStacks(MoveN(inv.stacks, from, to, 1))
    BY <1>1, StacksExcept DEF MoveN
  <1> QED
    BY <1>2, <1>3 DEF IsInv, MergeOrMove

LEMMA InsertIs ==
    ASSUME NEW inv, IsInv(inv), NEW stack
    PROVE  IsInv(Insert(inv, stack)) /\ SameCraft(Insert(inv, stack), inv)
  <1> DEFINE p == Placed(inv, stack)
             sel == IF inv.selection = 0 THEN p.last ELSE inv.selection
             st == [s \in Slots |-> IF s \in MainSlots THEN p.stacks[s] ELSE inv.stacks[s]]
  <1>1. Insert(inv, stack) = [selection |-> sel, stacks |-> st]
    <2>1. DOMAIN inv.stacks = Slots
      BY DEF IsInv, IsStacks
    <2> QED
      BY <2>1 DEF Insert
  <1>2. IsStacks(st) /\ \A s \in CraftSlots : st[s] = inv.stacks[s]
    BY SlotsApart DEF IsStacks, Slots
  <1> HIDE DEF sel, st
  <1> QED
    BY <1>1, <1>2 DEF IsInv, SameCraft

LEMMA TakeSelectedIs ==
    ASSUME NEW inv, IsInv(inv)
    PROVE  IsInv(TakeSelected(inv))
  BY DEF IsInv, IsStacks, TakeSelected

LEMMA CraftIntoIs ==
    ASSUME NEW inv, IsInv(inv), NEW output
    PROVE  IsInv(CraftInto(inv, output))
  <1> DEFINE put == Insert(inv, output)
             st == [s \in Slots |-> IF s \in CraftSlots
                                     THEN TakeN(put.stacks[s], 1).stack ELSE put.stacks[s]]
  <1>1. IsInv(put)
    BY InsertIs
  <1>2. IsStacks(st)
    BY DEF IsStacks
  <1>3. CraftInto(inv, output) = [put EXCEPT !.stacks = st]
    BY <1>1 DEF CraftInto, IsInv
  <1> HIDE DEF put, st
  <1> QED
    BY <1>1, <1>2, <1>3 DEF IsInv

LEMMA AppliedIs ==
    ASSUME NEW inv, IsInv(inv), NEW c
    PROVE  IsInv(Applied(c, inv))
  <1>1. c.kind = "Place" => IsInv(Applied(c, inv))
    BY TakeSelectedIs DEF Applied
  <1>2. c.kind = "Swap" => IsInv(Applied(c, inv))
    BY MergeOrMoveIs DEF Applied
  <1>3. c.kind = "Craft" => IsInv(Applied(c, inv))
    BY CraftIntoIs DEF Applied
  <1>4. c.kind = "Select" => IsInv(Applied(c, inv))
    BY DEF Applied, IsInv
  <1> QED
    BY <1>1, <1>2, <1>3, <1>4 DEF Applied

-----------------------------------------------------------------------------
(* A step of the client *)

LEMMA SendKeeps ==
    ASSUME CopiesInv, NEW c, Send(c), UNCHANGED <<server, toClient, handled>>,
           drift' = {} => /\ drift = {} /\ IsInv(client')
                          /\ Shows(menu', client')
                          /\ Answers(c, client) => SameCraft(client', client)
                          /\ ~Answers(c, client) => client' = Applied(c, client)
    PROVE  CopiesInv'
  <1>1. /\ IsSeq(toServer) /\ IsSeq(toClient) /\ toServer' = Append(toServer, c)
        /\ handled \in Nat /\ sent = handled + Len(toServer) /\ sent' = sent + 1
        /\ \A i \in 1..Len(toClient) : toClient[i].after \in Nat /\ toClient[i].after <= handled
    BY DEF CopiesInv, QueuesOK, Send
  <1>2. IsSeq(toServer') /\ Len(toServer) \in Nat /\ Len(toServer') = Len(toServer) + 1
    BY <1>1, AppendIs
  <1>3. QueuesOK'
    BY <1>1, <1>2 DEF QueuesOK
  <1>4. \A i \in 1..Len(toClient') : toClient'[i].after # sent'
    BY <1>1, <1>2
  <1>5. ASSUME drift' = {} PROVE Together'
    <2>1. Together /\ IsInv(client') /\ Shows(menu', client')
      BY <1>5 DEF CopiesInv
    <2>2. CASE \E i \in 1..Len(toClient) : TRUE
      BY <1>4, <2>1, <2>2 DEF Together, Outrun
    <2>3. CASE Len(toClient) = 0
      <3>1. CASE WillAnswerEarly(server, toServer)
        <4>1. WillAnswerEarly(server', toServer')
          BY <1>1, <3>1, CommandSent
        <4> QED
          BY <2>1, <4>1 DEF Together, Outrun
      <3>2. CASE Awaits(server, toServer, client)
        <4>1. WillAnswerEarly(server', toServer')
          BY <1>1, <3>2, CommandSent
        <4> QED
          BY <2>1, <4>1 DEF Together, Outrun
      <3>3. CASE InStep(server, toServer, client)
        <4>1. CASE Answers(c, client)
          <5>1. Awaits(server', toServer', client')
            BY <1>1, <1>5, <3>3, <4>1, CommandSent
          <5> QED
            BY <2>1, <2>3, <5>1 DEF Together
        <4>2. CASE ~Answers(c, client)
          <5>1. InStep(server', toServer', client')
            BY <1>1, <1>5, <3>3, <4>2, CommandSent
          <5> QED
            BY <2>1, <2>3, <5>1 DEF Together
        <4> QED
          BY <4>1, <4>2
      <3> QED
        BY <2>1, <2>3, <3>1, <3>2, <3>3 DEF Together, Outrun, Answered
    <2> QED
      BY <1>1, <2>2, <2>3, EmptyIs
  <1> QED
    BY <1>3, <1>5 DEF CopiesInv

\* The menu's copy is the client's already.
LEMMA ShowKeeps ==
    ASSUME CopiesInv, UNCHANGED <<server, toServer, toClient, sent, handled, drift>>,
           drift = {} /\ IsInv(client) /\ Shows(menu, client) =>
                client' = client /\ Shows(menu', client)
    PROVE  CopiesInv'
  <1>1. QueuesOK' /\ IsInv(server')
    BY DEF CopiesInv, QueuesOK
  <1>2. ASSUME drift' = {} PROVE Together'
    <2>1. Together /\ client' = client /\ Shows(menu', client')
      BY <1>2 DEF CopiesInv, Together
    <2> QED
      BY <2>1 DEF Together, Outrun, Answered
  <1> QED
    BY <1>1, <1>2 DEF CopiesInv

LEMMA ReceiveKeeps == ASSUME CopiesInv, ClientReceive PROVE CopiesInv'
  <1> DEFINE msg == Head(toClient)
             st == [s \in Slots |-> IF s \in MainSlots
                                      THEN msg.inv.stacks[s] ELSE client.stacks[s]]
             inv == [selection |-> msg.inv.selection, stacks |-> st]
  <1>1. /\ toClient # << >> /\ toClient' = Tail(toClient) /\ client' = inv
        /\ drift' = {} => drift = {} /\ msg.after = sent /\ (menu # Closed => inv = menu.inv)
        /\ UNCHANGED <<menu, server, toServer, sent, handled>>
    BY DEF ClientReceive
  <1>2. /\ IsSeq(toClient') /\ Len(toClient) \in Nat \ {0} /\ Len(toClient') = Len(toClient) - 1
        /\ \A i \in 1..(Len(toClient) - 1) : toClient'[i] = toClient[i + 1]
        /\ msg = toClient[1]
    BY <1>1, TailIs DEF CopiesInv, QueuesOK
  <1>3. QueuesOK'
    <2>1. \A i \in 1..Len(toClient') : i + 1 \in 1..Len(toClient)
      BY <1>2
    <2> QED
      BY <1>1, <1>2, <2>1 DEF CopiesInv, QueuesOK
  <1>4. IsInv(inv)
    <2>1. IsStacks(st)
      BY DEF IsStacks
    <2> HIDE DEF st
    <2> QED
      BY <2>1 DEF IsInv
  <1> HIDE DEF msg, inv
  <1>5. ASSUME drift' = {} PROVE Together'
    <2>1. Together /\ IsInv(client') /\ Shows(menu', client')
      BY <1>1, <1>4, <1>5 DEF CopiesInv, Together, Shows
    <2>2. CASE \E i \in 1..Len(toClient) : toClient[i].after # sent
      <3>1. PICK i \in 1..Len(toClient) : toClient[i].after # sent
        BY <2>2
      <3>2. PICK k \in Int : k = i - 1 /\ k + 1 = i
        OBVIOUS
      <3>3. i # 1
        BY <1>1, <1>2, <1>5, <3>1
      <3>4. k \in 1..Len(toClient') /\ toClient'[k].after # sent'
        BY <1>1, <1>2, <3>1, <3>2, <3>3
      <3> QED
        BY <2>1, <3>4 DEF Together, Outrun
    <2>3. CASE WillAnswerEarly(server, toServer)
      BY <1>1, <2>1, <2>3 DEF Together, Outrun
    <2>4. CASE Answered
      <3>1. /\ Len(toClient') = 0 /\ Len(toServer') = 0
            /\ msg.inv = server /\ SameCraft(client, server)
        BY <1>1, <1>2, <2>4 DEF Answered
      <3>2. inv = server
        <4>1. st = server.stacks
          <5>1. \A s \in Slots : s \in MainSlots \/ s \in CraftSlots
            BY DEF Slots
          <5>2. server.stacks = [s \in Slots |-> server.stacks[s]]
            BY DEF CopiesInv, IsInv, IsStacks
          <5>3. \A s \in Slots : st[s] = server.stacks[s]
            BY <3>1, <5>1 DEF SameCraft
          <5>4. st = [s \in Slots |-> st[s]]
            OBVIOUS
          <5> HIDE DEF st
          <5> QED
            BY <5>2, <5>3, <5>4, Zenon
        <4> HIDE DEF st
        <4> QED
          BY <3>1, <4>1 DEF inv, CopiesInv, IsInv
      <3>3. InStep(server', toServer', client')
        BY <1>1, <3>1, <3>2, LedNowhere DEF InStep
      <3> QED
        BY <2>1, <3>1, <3>3 DEF Together
    <2> QED
      BY <1>2, <2>1, <2>2, <2>3, <2>4 DEF Together, Outrun
  <1> QED
    BY <1>1, <1>3, <1>5 DEF CopiesInv

LEMMA ClientKeeps == ASSUME CopiesInv, ClientStep PROVE CopiesInv'
  <1>1. drift = {} => IsInv(client) /\ Shows(menu, client)
    BY DEF CopiesInv, Together
  <1>2. CASE ClientDig
    <2>1. PICK drop \in Drops :
             /\ Send([kind |-> "Dig"]) /\ client' = Insert(client, drop)
             /\ Drift("click undone", menu # Closed)
             /\ UNCHANGED <<menu, server, toClient, handled>>
      BY <1>2 DEF ClientDig
    <2>2. drift' = {} => drift = {} /\ Shows(menu', client')
      BY <2>1 DEF Drift, Shows
    <2>3. drift' = {} => IsInv(client') /\ SameCraft(client', client)
      BY <1>1, <2>1, <2>2, InsertIs
    <2>4. Answers([kind |-> "Dig"], client)
      BY DEF Answers
    <2> QED
      BY <2>1, <2>2, <2>3, <2>4, SendKeeps
  <1>3. CASE ClientPlace
    <2> DEFINE c == [kind |-> "Place", idx |-> client.selection, item |-> Selected(client).item]
    <2>1. /\ Selected(client) # Empty /\ Send(c) /\ client' = TakeSelected(client)
          /\ Drift("click undone", menu # Closed)
          /\ UNCHANGED <<menu, server, toClient, handled>>
      BY <1>3 DEF ClientPlace
    <2>2. drift' = {} => drift = {} /\ Shows(menu', client')
      BY <2>1 DEF Drift, Shows
    <2>3. ~Answers(c, client) /\ client' = Applied(c, client)
      BY <2>1 DEF Answers, Applied
    <2>4. drift' = {} => IsInv(client')
      BY <1>1, <2>2, <2>3, AppliedIs
    <2> HIDE DEF c
    <2> QED
      BY <2>1, <2>2, <2>3, <2>4, SendKeeps
  <1>4. CASE ClientSelect
    <2> DEFINE c == [kind |-> "Select", selection |-> client'.selection]
    <2>1. /\ Shows(menu', client') /\ Send(c)
          /\ UNCHANGED <<server, toClient, handled, drift>>
          /\ \E forwards \in BOOLEAN : client' = Rotate(client, forwards)
      BY <1>4 DEF ClientSelect, Shows
    <2>2. ~Answers(c, client) /\ Applied(c, client) = [client EXCEPT !.selection = client'.selection]
      BY DEF Answers, Applied
    <2>3. ASSUME IsInv(client) PROVE client' = [client EXCEPT !.selection = client'.selection]
      BY <2>1, <2>3 DEF Rotate, IsInv
    <2>4. drift' = {} => IsInv(client') /\ client' = Applied(c, client)
      BY <1>1, <2>1, <2>2, <2>3, AppliedIs
    <2> HIDE DEF c
    <2> QED
      BY <2>1, <2>2, <2>4, SendKeeps
  <1>5. CASE ClientChat
    <2>1. /\ Shows(menu', client') /\ UNCHANGED <<client, server, toClient, handled, drift>>
          /\ \E c : Send(c) /\ c.kind \in {"Gime", "ClearSelection", "ClearInventory"}
      BY <1>5 DEF ClientChat, Shows
    <2>2. PICK c : Send(c) /\ c.kind \in {"Gime", "ClearSelection", "ClearInventory"}
      BY <2>1
    <2>3. client' = Applied(c, client) /\ SameCraft(client', client)
      BY <2>1, <2>2 DEF Applied, SameCraft
    <2> QED
      BY <1>1, <2>1, <2>2, <2>3, SendKeeps
  <1>6. CASE OpenMenu
    BY <1>6, ShowKeeps DEF OpenMenu, Shows
  <1>7. CASE CloseMenu
    BY <1>7, ShowKeeps DEF CloseMenu, Shows
  <1>8. CASE MenuIdle
    <2>1. drift = {} /\ Shows(menu, client) => client' = client /\ Shows(menu', client)
      BY <1>8 DEF MenuIdle, Shows
    <2> QED
      BY <1>8, <2>1, ShowKeeps DEF MenuIdle
  <1>9. CASE MenuSwap
    <2>1. PICK from \in Clickable, to \in Clickable, one \in BOOLEAN :
             LET inv == MergeOrMove(menu.inv, from, to, one) IN
             /\ Send([kind |-> "Swap", from |-> from, to |-> to, one |-> one])
             /\ client' = inv
             /\ menu' = [inv |-> inv, output |-> Output(inv.stacks)]
      BY <1>9 DEF MenuSwap
    <2> DEFINE c == [kind |-> "Swap", from |-> from, to |-> to, one |-> one]
    <2>2. menu # Closed /\ UNCHANGED <<server, toClient, handled, drift>> /\ Send(c)
      BY <1>9, <2>1 DEF MenuSwap
    <2>3. ~Answers(c, client) /\ Applied(c, client) = MergeOrMove(client, from, to, one)
      BY DEF Answers, Applied
    <2>4. Shows(menu', client')
      BY <2>1 DEF Shows
    <2>5. drift' = {} => client' = Applied(c, client) /\ IsInv(client')
      <3>1. drift' = {} => menu.inv = client /\ IsInv(client)
        BY <1>1, <2>2 DEF Shows
      <3> HIDE DEF c
      <3> QED
        BY <2>1, <2>3, <3>1, AppliedIs
    <2> HIDE DEF c
    <2> QED
      BY <2>2, <2>3, <2>4, <2>5, SendKeeps
  <1>10. CASE MenuCraft
    <2> DEFINE inv == IF menu.output = Empty THEN menu.inv ELSE CraftInto(menu.inv, menu.output)
               c == [kind |-> "Craft"]
    <2>1. /\ menu # Closed /\ Send(c) /\ client' = inv /\ menu' = [menu EXCEPT !.inv = inv]
          /\ UNCHANGED <<server, toClient, handled>>
          /\ drift' = {} =>
                /\ drift = {} /\ menu.output = Output(menu.inv.stacks)
                /\ ~(MatchingRecipe(menu.inv.stacks) # 0 /\ Output(menu.inv.stacks) = Empty)
      BY <1>10 DEF MenuCraft
    <2>2. ~Answers(c, client)
          /\ Applied(c, client) = IF MatchingRecipe(client.stacks) = 0 THEN client
                                  ELSE CraftInto(client, Output(client.stacks))
      BY DEF Answers, Applied
    <2>3. ASSUME drift' = {}
          PROVE  client' = Applied(c, client) /\ IsInv(client') /\ Shows(menu', client')
      <3>1. IsInv(client) /\ menu = [inv |-> client, output |-> menu.output]
        BY <1>1, <2>1, <2>3 DEF Shows
      <3>2. menu.output = Empty <=> MatchingRecipe(client.stacks) = 0
        <4>1. MatchingRecipe(client.stacks) = 0 => Output(client.stacks) = Empty
          BY DEF Output
        <4> QED
          BY <2>1, <2>3, <3>1, <4>1
      <3>3. client' = Applied(c, client)
        BY <2>1, <2>2, <2>3, <3>1, <3>2
      <3>4. Shows(menu', client')
        BY <2>1, <3>1 DEF Shows
      <3> HIDE DEF c
      <3> QED
        BY <3>1, <3>3, <3>4, AppliedIs
    <2> HIDE DEF c, inv
    <2> QED
      BY <2>1, <2>2, <2>3, SendKeeps
  <1> QED
    BY <1>2, <1>3, <1>4, <1>5, <1>6, <1>7, <1>8, <1>9, <1>10, ReceiveKeeps DEF ClientStep

-----------------------------------------------------------------------------
(* A step of the server *)

LEMMA HandlesKeeps ==
    ASSUME CopiesInv, toServer # << >>, toServer' = Tail(toServer), handled' = handled + 1,
           UNCHANGED <<client, menu, sent, drift>>, IsInv(server'),
           \/ /\ ~Answers(toServer[1], server)
              /\ server' = Applied(toServer[1], server) /\ UNCHANGED toClient
           \/ Answers(toServer[1], server) /\ SameCraft(server', server) /\ Answer(server')
    PROVE  CopiesInv'
  <1>1. /\ IsSeq(toServer) /\ IsSeq(toClient) /\ Len(toClient) \in Nat
        /\ handled \in Nat /\ sent = handled + Len(toServer)
        /\ \A i \in 1..Len(toClient) : toClient[i].after \in Nat /\ toClient[i].after <= handled
    BY EmptyIs DEF CopiesInv, QueuesOK
  <1>2. IsSeq(toServer') /\ Len(toServer) \in Nat \ {0} /\ Len(toServer') = Len(toServer) - 1
    BY <1>1, TailIs
  <1>3. handled' \in Nat /\ sent' = handled' + Len(toServer')
    BY <1>1, <1>2
  <1>4. CASE /\ ~Answers(toServer[1], server)
             /\ server' = Applied(toServer[1], server) /\ UNCHANGED toClient
    <2>1. QueuesOK'
      BY <1>1, <1>2, <1>3, <1>4 DEF QueuesOK
    <2>2. /\ WillAnswerEarly(server, toServer) => WillAnswerEarly(server', toServer')
          /\ InStep(server, toServer, client) => InStep(server', toServer', client')
          /\ Awaits(server, toServer, client) => Awaits(server', toServer', client')
      <3>1. ASSUME NEW p, p = Tail(toServer), NEW srv2, srv2 = Applied(toServer[1], server)
            PROVE  /\ WillAnswerEarly(server, toServer) => WillAnswerEarly(srv2, p)
                   /\ InStep(server, toServer, client) => InStep(srv2, p, client)
                   /\ Awaits(server, toServer, client) => Awaits(srv2, p, client)
        <4>1. IsSeq(toServer) /\ toServer # << >> /\ ~Answers(toServer[1], server)
          BY <1>1, <1>4
        <4>2. WillAnswerEarly(server, toServer) => WillAnswerEarly(srv2, p)
          BY <3>1, <4>1, CommandApplied
        <4>3. InStep(server, toServer, client) => InStep(srv2, p, client)
          BY <3>1, <4>1, CommandApplied
        <4>4. Awaits(server, toServer, client) => Awaits(srv2, p, client)
          BY <3>1, <4>1, CommandApplied
        <4> QED
          BY <4>2, <4>3, <4>4
      <3> QED
        BY <1>4, <3>1
    <2>3. ~Answered
      BY <1>2 DEF Answered
    <2>4. ASSUME drift' = {} PROVE Together'
      <3>1. Together
        BY <2>4 DEF CopiesInv
      <3> QED
        BY <1>4, <2>2, <2>3, <3>1 DEF Together, Outrun
    <2> QED
      BY <2>1, <2>4 DEF CopiesInv
  <1>5. CASE Answers(toServer[1], server) /\ SameCraft(server', server) /\ Answer(server')
    <2> DEFINE msg == [inv |-> server', after |-> handled + 1]
    <2>1. toClient' = Append(toClient, msg)
      BY <1>5 DEF Answer
    <2>2. msg.inv = server' /\ msg.after = handled + 1
      OBVIOUS
    <2> HIDE DEF msg
    <2>3. /\ IsSeq(toClient') /\ Len(toClient') = Len(toClient) + 1
          /\ \A i \in 1..Len(toClient) : toClient'[i] = toClient[i]
          /\ toClient'[Len(toClient) + 1] = msg
      BY <1>1, <2>1, AppendIs
    <2>4. QueuesOK'
      <3>1. ASSUME NEW i \in 1..Len(toClient')
            PROVE  toClient'[i].after \in Nat /\ toClient'[i].after <= handled'
        <4>1. i \in 1..Len(toClient) \/ i = Len(toClient) + 1
          BY <1>1, <2>3
        <4>2. CASE i \in 1..Len(toClient)
          <5>1. toClient[i].after \in Nat /\ toClient[i].after <= handled
            BY <1>1, <4>2
          <5> QED
            BY <1>1, <2>3, <4>2, <5>1
        <4>3. CASE i = Len(toClient) + 1
          BY <1>1, <2>2, <2>3, <4>3
        <4> QED
          BY <4>1, <4>2, <4>3
      <3> QED
        BY <1>2, <1>3, <2>3, <3>1 DEF QueuesOK
    <2>5. ASSUME drift' = {} PROVE Together'
      <3>1. Together
        BY <2>5 DEF CopiesInv
      <3>2. CASE \E i \in 1..Len(toClient) : toClient[i].after # sent
        <4>1. PICK i \in 1..Len(toClient) : toClient[i].after # sent
          BY <3>2
        <4>2. i \in 1..Len(toClient') /\ toClient'[i].after # sent'
          BY <1>1, <2>3, <4>1
        <4> QED
          BY <3>1, <4>2 DEF Together, Outrun
      <3>3. CASE Len(toServer) # 1
        <4>1. msg.after # sent'
          BY <1>1, <1>2, <2>2, <3>3
        <4>2. Len(toClient) + 1 \in 1..Len(toClient')
          BY <1>1, <2>3
        <4> QED
          BY <2>3, <3>1, <4>1, <4>2 DEF Together, Outrun
      <3>4. CASE Len(toServer) = 1 /\ Len(toClient) = 0 /\ Awaits(server, toServer, client)
        <4>1. SameCraft(client, server)
          BY <1>1, <1>5, <3>4, CommandAnswered
        <4>2. SameCraft(client', server')
          BY <1>5, <4>1 DEF SameCraft
        <4>3. msg.after = sent'
          BY <1>1, <2>2, <3>4
        <4>4. Answered'
          BY <1>2, <2>2, <2>3, <3>4, <4>2, <4>3 DEF Answered
        <4> QED
          BY <3>1, <4>4 DEF Together
      <3>5. /\ WillAnswerEarly(server, toServer) => Len(toServer) # 1
            /\ ~InStep(server, toServer, client)
            /\ ~Answered
        BY <1>1, <1>2, <1>5, CommandAnswered DEF Answered
      <3> QED
        BY <3>1, <3>2, <3>3, <3>4, <3>5 DEF Together, Outrun
    <2> QED
      BY <2>4, <2>5 DEF CopiesInv
  <1> QED
    BY <1>4, <1>5

LEMMA ServerKeeps == ASSUME CopiesInv, ServerStep PROVE CopiesInv'
  <1> DEFINE c == toServer[1]
  <1>1. IsInv(server) /\ IsSeq(toServer)
    BY DEF CopiesInv, QueuesOK
  <1>2. ASSUME NEW kind, Handle(kind)
        PROVE  /\ toServer # << >> /\ toServer' = Tail(toServer) /\ handled' = handled + 1
               /\ UNCHANGED <<client, menu, sent, drift>>
               /\ c.kind = kind /\ command = c
    BY <1>1, <1>2, TailIs DEF Handle, command
  <1> HIDE DEF c
  <1>3. ASSUME NEW kind, Handle(kind), kind \in {"Place", "Swap", "Craft", "Select"},
               server' = Applied(c, server), UNCHANGED toClient
        PROVE  CopiesInv'
    <2>1. c.kind = kind /\ ~Answers(c, server)
      BY <1>2, <1>3 DEF Answers
    <2>2. IsInv(server')
      BY <1>1, <1>3, AppliedIs
    <2> QED
      BY <1>2, <1>3, <2>1, <2>2, HandlesKeeps DEF c
  <1>4. ASSUME NEW kind, Handle(kind), Answers(c, server), SameCraft(server', server),
               IsInv(server'), Answer(server')
        PROVE  CopiesInv'
    BY <1>2, <1>4, HandlesKeeps DEF c
  <1>5. CASE ServerDig
    <2>1. Handle("Dig") /\ Answer(server') /\ Answers(c, server)
      BY <1>2, <1>5 DEF ServerDig, Answers
    <2>2. IsInv(server') /\ SameCraft(server', server)
      BY <1>1, <1>5, InsertIs DEF ServerDig, SameCraft
    <2> QED
      BY <1>4, <2>1, <2>2
  <1>6. CASE ServerPlace
    BY <1>2, <1>3, <1>6 DEF ServerPlace, Applied
  <1>7. CASE ServerSwap
    BY <1>2, <1>3, <1>7 DEF ServerSwap, Applied
  <1>8. CASE ServerCraft
    BY <1>2, <1>3, <1>8 DEF ServerCraft, Applied
  <1>9. CASE ServerSelect
    BY <1>2, <1>3, <1>9 DEF ServerSelect, Applied
  <1>10. CASE ServerGime
    <2>1. Handle("Gime") /\ Answer(server') /\ Answers(c, server)
      BY <1>2, <1>10 DEF ServerGime, Answers
    <2>2. IsInv(server') /\ SameCraft(server', server)
      BY <1>1, <1>10, InsertIs DEF ServerGime
    <2> QED
      BY <1>4, <2>1, <2>2
  <1>11. CASE ServerClearSelection
    <2>1. Handle("ClearSelection") /\ c.kind = "ClearSelection"
      BY <1>2, <1>11 DEF ServerClearSelection
    <2>2. CASE server.selection = 0
      <3>1. UNCHANGED <<server, toClient>> /\ ~Answers(c, server) /\ server' = Applied(c, server)
        BY <1>11, <2>1, <2>2 DEF ServerClearSelection, Answers, Applied
      <3> QED
        BY <1>1, <1>2, <2>1, <3>1, HandlesKeeps DEF c
    <2>3. CASE server.selection # 0
      <3> DEFINE st == [server.stacks EXCEPT ![<<"main", server.selection>>] = Empty]
      <3>1. /\ Answer(server') /\ Answers(c, server)
            /\ server' = [server EXCEPT !.stacks[<<"main", server.selection>>] = Empty]
        BY <1>11, <2>1, <2>3 DEF ServerClearSelection, Answers
      <3>2. IsStacks(st) /\ \A s \in CraftSlots : st[s] = server.stacks[s]
        <4>1. IsStacks(st)
          BY <1>1, StacksExcept DEF IsInv
        <4>2. \A s \in CraftSlots : s # <<"main", server.selection>> /\ s \in Slots
          BY DEF CraftSlots, Slots
        <4>3. server.stacks = [s \in Slots |-> server.stacks[s]]
          BY <1>1 DEF IsInv, IsStacks
        <4> QED
          BY <4>1, <4>2, <4>3
      <3>3. server' = [selection |-> server.selection, stacks |-> st]
        BY <1>1, <3>1 DEF IsInv
      <3>4. IsInv(server') /\ SameCraft(server', server)
        <4> HIDE DEF st
        <4> QED
          BY <3>2, <3>3 DEF IsInv, SameCraft
      <3> QED
        BY <1>4, <2>1, <3>1, <3>4
    <2> QED
      BY <2>2, <2>3
  <1>12. CASE ServerClearInventory
    <2> DEFINE st == [s \in Slots |-> IF s \in MainSlots THEN Empty ELSE server.stacks[s]]
    <2>1. /\ Handle("ClearInventory") /\ Answer(server') /\ Answers(c, server)
          /\ server' = [selection |-> server.selection, stacks |-> st]
      BY <1>1, <1>2, <1>12 DEF ServerClearInventory, Answers, IsInv
    <2>2. IsStacks(st) /\ \A s \in CraftSlots : st[s] = server.stacks[s]
      BY SlotsApart DEF IsStacks, Slots
    <2>3. IsInv(server') /\ SameCraft(server', server)
      <3> HIDE DEF st
      <3> QED
        BY <2>1, <2>2 DEF IsInv, SameCraft
    <2> QED
      BY <1>4, <2>1, <2>3
  <1> QED
    BY <1>5, <1>6, <1>7, <1>8, <1>9, <1>10, <1>11, <1>12 DEF ServerStep

-----------------------------------------------------------------------------

LEMMA InitCopies == Init => CopiesInv
  <1> SUFFICES ASSUME Init PROVE CopiesInv
    OBVIOUS
  <1>1. IsInv(server)
    <2>1. server \in Inventories
      BY PredictionAssumption DEF Init
    <2> QED
      BY <2>1 DEF Inventories, IsInv, IsStacks
  <1>2. IsSeq(toServer) /\ IsSeq(toClient) /\ Len(toServer) = 0 /\ Len(toClient) = 0
    <2>1. << >> \in Seq({}) /\ Len(<< >>) = 0
      OBVIOUS
    <2> QED
      BY <2>1 DEF Init, IsSeq
  <1>3. InStep(server, toServer, client)
    BY <1>2, LedNowhere DEF InStep, Init
  <1> QED
    BY <1>1, <1>2, <1>3 DEF Init, CopiesInv, QueuesOK, Together, Shows

LEMMA NextCopies == CopiesInv /\ [Next]_vars => CopiesInv'
  <1> SUFFICES ASSUME CopiesInv, [Next]_vars PROVE CopiesInv'
    OBVIOUS
  <1>1. CASE UNCHANGED vars
    BY <1>1 DEF vars, CopiesInv, QueuesOK, Together, Outrun, Answered
  <1> QED
    BY <1>1, ClientKeeps, ServerKeeps DEF Next

LEMMA TogetherIsEnough == CopiesInv => CopiesAgree
  <1> SUFFICES ASSUME CopiesInv, Quiet, drift = {} PROVE client = server
    BY DEF CopiesAgree
  <1>1. Together /\ Len(toServer) = 0 /\ Len(toClient) = 0
    <2>1. Len(<< >>) = 0
      OBVIOUS
    <2> QED
      BY <2>1 DEF CopiesInv, Quiet
  <1>2. ~Outrun /\ ~Answered
    BY <1>1 DEF Outrun, WillAnswerEarly, Answered
  <1>3. ~Awaits(server, toServer, client)
    BY <1>1 DEF Awaits
  <1>4. Led(server, toServer, 0, client)
    BY <1>1, <1>2, <1>3 DEF Together, InStep
  <1> QED
    BY <1>4, LedNowhere

\* When nothing is under way and no menu is open, the client that has predicted what
\* its commands do has the server's inventories, for any inventories, recipes and
\* numbers of commands, but for the named ways in which the two part.
THEOREM PredictionsHold == Spec => []CopiesAgree
  <1>1. Init => CopiesInv
    BY InitCopies
  <1>2. CopiesInv /\ [Next]_vars => CopiesInv'
    BY NextCopies
  <1>3. CopiesInv => CopiesAgree
    BY TogetherIsEnough
  <1> QED
    BY <1>1, <1>2, <1>3, PTL DEF Spec

-----------------------------------------------------------------------------
(* What the inventories and the messages are *)

Messages == [inv : Inventories, after : Nat]

Menus == [inv : Inventories, output : Stack]

InventoriesTyped ==
    /\ client \in Inventories /\ server \in Inventories
    /\ menu = Closed \/ menu \in Menus
    /\ toServer \in Seq(Commands) /\ toClient \in Seq(Messages) /\ handled \in Nat

LEMMA CommandsAre ==
    ASSUME NEW c \in Commands
    PROVE  /\ c.kind = "Swap" => c.from \in Slots /\ c.to \in Slots /\ c.one \in BOOLEAN
           /\ c.kind = "Select" => c.selection \in 0..MainSize
           /\ c.kind = "Gime" => c.stack \in Stack
  BY PredictionAssumption DEF Commands

LEMMA SendTypes ==
    ASSUME InventoriesTyped, NEW c \in Commands, Send(c)
    PROVE  toServer' \in Seq(Commands)
  BY AppendProperties DEF InventoriesTyped, Send

LEMMA SelectedIs ==
    ASSUME NEW inv \in Inventories, Selected(inv) # Empty
    PROVE  inv.selection \in 1..MainSize /\ Selected(inv).item \in Items
  <1>1. inv.selection # 0 /\ Selected(inv) = inv.stacks[<<"main", inv.selection>>]
    BY DEF Selected
  <1>2. inv.selection \in 1..MainSize
    BY <1>1, InventoryIs
  <1>3. <<"main", inv.selection>> \in Slots
    BY <1>2 DEF Slots, MainSlots
  <1>4. Selected(inv) \in Stack
    BY <1>1, <1>3, InventoryIs
  <1> QED
    BY <1>2, <1>4, StackIs

LEMMA MainReplaced ==
    ASSUME NEW inv \in Inventories, NEW sel \in 0..MainSize, NEW st \in [Slots -> Stack],
           NEW new, new = [selection |-> sel,
                           stacks |-> [s \in Slots |-> IF s \in MainSlots THEN st[s]
                                                       ELSE inv.stacks[s]]]
    PROVE  new \in Inventories
  BY InventoryIs DEF Inventories

LEMMA ClientTypes ==
    ASSUME InventoriesTyped, ClientStep PROVE InventoriesTyped'
  <1> USE DEF InventoriesTyped
  <1>1. CASE ClientDig
    <2>1. PICK drop \in Drops : Send([kind |-> "Dig"]) /\ client' = Insert(client, drop)
      BY <1>1 DEF ClientDig
    <2>2. drop \in Stack /\ [kind |-> "Dig"] \in Commands
      BY PredictionAssumption DEF Commands
    <2> QED
      BY <1>1, <2>1, <2>2, InsertTypes, SendTypes DEF ClientDig
  <1>2. CASE ClientPlace
    <2> DEFINE c == [kind |-> "Place", idx |-> client.selection, item |-> Selected(client).item]
    <2>1. Selected(client) # Empty /\ Send(c) /\ client' = TakeSelected(client)
      BY <1>2 DEF ClientPlace
    <2>2. c \in Commands
      BY <2>1, SelectedIs DEF Commands
    <2> HIDE DEF c
    <2> QED
      BY <1>2, <2>1, <2>2, TakeSelectedTypes, SendTypes DEF ClientPlace
  <1>3. CASE ClientSelect
    <2>1. PICK forwards \in BOOLEAN :
             client' = Rotate(client, forwards)
             /\ Send([kind |-> "Select", selection |-> client'.selection])
      BY <1>3 DEF ClientSelect
    <2>2. client' \in Inventories /\ client'.selection \in 0..MainSize
      BY <2>1, RotateTypes
    <2>3. [kind |-> "Select", selection |-> client'.selection] \in Commands
      BY <2>2 DEF Commands
    <2> QED
      BY <1>3, <2>1, <2>2, <2>3, SendTypes DEF ClientSelect
  <1>4. CASE ClientChat
    <2>1. PICK c \in Commands : Send(c)
      BY <1>4 DEF ClientChat, Commands
    <2> QED
      BY <1>4, <2>1, SendTypes DEF ClientChat
  <1>5. CASE OpenMenu
    BY <1>5, NothingIs DEF OpenMenu, Menus
  <1>6. CASE CloseMenu
    BY <1>6 DEF CloseMenu, Menus
  <1>7. CASE MenuIdle
    <2>1. menu \in Menus /\ Output(menu.inv.stacks) \in Stack
      BY <1>7, OutputIs DEF MenuIdle
    <2> QED
      BY <1>7, <2>1 DEF MenuIdle, Menus
  <1>8. CASE MenuSwap
    <2>1. PICK from \in Clickable, to \in Clickable, one \in BOOLEAN :
             LET inv == MergeOrMove(menu.inv, from, to, one)
             IN /\ Send([kind |-> "Swap", from |-> from, to |-> to, one |-> one])
                /\ client' = inv /\ menu' = [inv |-> inv, output |-> Output(inv.stacks)]
      BY <1>8 DEF MenuSwap
    <2> DEFINE inv == MergeOrMove(menu.inv, from, to, one)
    <2>2. menu.inv \in Inventories /\ from \in Slots /\ to \in Slots
      BY <1>8, PredictionAssumption DEF MenuSwap, Menus
    <2>3. inv \in Inventories
      BY <2>2, MergeOrMoveTypes
    <2>4. [kind |-> "Swap", from |-> from, to |-> to, one |-> one] \in Commands
      BY DEF Commands
    <2>5. toServer' \in Seq(Commands)
      BY <2>1, <2>4, SendTypes
    <2>6. client' = inv /\ menu' = [inv |-> inv, output |-> Output(inv.stacks)]
      BY <2>1
    <2> HIDE DEF inv
    <2>7. menu' \in Menus
      BY <2>3, <2>6, OutputIs DEF Menus
    <2> QED
      BY <1>8, <2>3, <2>5, <2>6, <2>7 DEF MenuSwap
  <1>9. CASE MenuCraft
    <2> DEFINE inv == IF menu.output = Empty THEN menu.inv ELSE CraftInto(menu.inv, menu.output)
    <2>1. Send([kind |-> "Craft"]) /\ client' = inv /\ menu' = [menu EXCEPT !.inv = inv]
      BY <1>9 DEF MenuCraft
    <2>2. menu \in Menus /\ menu.inv \in Inventories /\ menu.output \in Stack
      BY <1>9 DEF MenuCraft, Menus
    <2>3. inv \in Inventories
      BY <2>2, CraftTypes
    <2>4. [kind |-> "Craft"] \in Commands
      BY DEF Commands
    <2> HIDE DEF inv
    <2>5. menu' \in Menus
      BY <2>1, <2>2, <2>3 DEF Menus
    <2> QED
      BY <1>9, <2>1, <2>3, <2>4, <2>5, SendTypes DEF MenuCraft
  <1>10. CASE ClientReceive
    <2>1. toClient # << >> /\ toClient' = Tail(toClient)
      BY <1>10 DEF ClientReceive
    <2>2. Head(toClient) \in Messages /\ toClient' \in Seq(Messages)
      BY <2>1, HeadTailProperties
    <2>3. client' = [selection |-> Head(toClient).inv.selection,
                     stacks |-> [s \in Slots |-> IF s \in MainSlots
                                   THEN Head(toClient).inv.stacks[s] ELSE client.stacks[s]]]
      BY <1>10 DEF ClientReceive
    <2>4. /\ Head(toClient).inv.selection \in 0..MainSize
          /\ Head(toClient).inv.stacks \in [Slots -> Stack]
      BY <2>2, InventoryIs DEF Messages
    <2>5. client' \in Inventories
      BY <2>3, <2>4, MainReplaced
    <2> QED
      BY <1>10, <2>2, <2>5 DEF ClientReceive
  <1> QED
    BY <1>1, <1>2, <1>3, <1>4, <1>5, <1>6, <1>7, <1>8, <1>9, <1>10 DEF ClientStep

LEMMA HandleTypes ==
    ASSUME InventoriesTyped, NEW kind, Handle(kind), server' \in Inventories,
           toClient' \in Seq(Messages)
    PROVE  InventoriesTyped'
  <1>1. toServer' \in Seq(Commands) /\ handled' \in Nat
    BY HeadTailProperties DEF InventoriesTyped, Handle
  <1> QED
    BY <1>1 DEF InventoriesTyped, Handle

LEMMA AnswerTypes ==
    ASSUME InventoriesTyped, NEW inv \in Inventories, Answer(inv)
    PROVE  toClient' \in Seq(Messages)
  <1>1. [inv |-> inv, after |-> handled + 1] \in Messages
    BY DEF Messages, InventoriesTyped
  <1> QED
    BY <1>1, AppendProperties DEF Answer, InventoriesTyped

LEMMA HandledIs ==
    ASSUME InventoriesTyped, NEW kind, Handle(kind)
    PROVE  command \in Commands /\ command.kind = kind
  BY HeadTailProperties DEF InventoriesTyped, Handle, command

LEMMA ServerTypes ==
    ASSUME InventoriesTyped, ServerStep PROVE InventoriesTyped'
  <1>0. server \in Inventories /\ toClient \in Seq(Messages)
    BY DEF InventoriesTyped
  <1>1. CASE ServerDig
    <2>1. server' \in Inventories
      BY <1>0, <1>1, InsertTypes, PredictionAssumption DEF ServerDig
    <2> QED
      BY <1>1, <2>1, HandleTypes, AnswerTypes DEF ServerDig
  <1>2. CASE ServerPlace
    <2>1. server' \in Inventories
      BY <1>0, <1>2, TakeSelectedTypes DEF ServerPlace
    <2> QED
      BY <1>0, <1>2, <2>1, HandleTypes DEF ServerPlace
  <1>3. CASE ServerSwap
    <2>1. command.from \in Slots /\ command.to \in Slots /\ command.one \in BOOLEAN
      BY <1>3, HandledIs, CommandsAre DEF ServerSwap
    <2>2. server' \in Inventories
      BY <1>0, <1>3, <2>1, MergeOrMoveTypes DEF ServerSwap
    <2> QED
      BY <1>0, <1>3, <2>2, HandleTypes DEF ServerSwap
  <1>4. CASE ServerCraft
    <2>1. server' \in Inventories
      BY <1>0, <1>4, CraftTypes, OutputIs DEF ServerCraft
    <2> QED
      BY <1>0, <1>4, <2>1, HandleTypes DEF ServerCraft
  <1>5. CASE ServerSelect
    <2>1. command.selection \in 0..MainSize
      BY <1>5, HandledIs, CommandsAre DEF ServerSelect
    <2>2. server' = [server EXCEPT !.selection = command.selection]
      BY <1>5 DEF ServerSelect
    <2>3. server' \in Inventories
      BY <1>0, <2>1, <2>2 DEF Inventories
    <2> QED
      BY <1>0, <1>5, <2>3, HandleTypes DEF ServerSelect
  <1>6. CASE ServerGime
    <2>1. command.stack \in Stack
      BY <1>6, HandledIs, CommandsAre DEF ServerGime
    <2>2. server' \in Inventories
      BY <1>0, <1>6, <2>1, InsertTypes DEF ServerGime
    <2> QED
      BY <1>6, <2>2, HandleTypes, AnswerTypes DEF ServerGime
  <1>7. CASE ServerClearSelection
    <2>1. CASE server.selection = 0
      BY <1>0, <1>7, <2>1, HandleTypes DEF ServerClearSelection
    <2>2. CASE server.selection # 0
      <3>1. server' = [server EXCEPT !.stacks[<<"main", server.selection>>] = Empty]
            /\ Answer(server')
        BY <1>7, <2>2 DEF ServerClearSelection
      <3>2. server' \in Inventories
        <4> DEFINE a == <<"main", server.selection>>
                   st == [server.stacks EXCEPT ![a] = Empty]
        <4>1. st \in [Slots -> Stack]
          BY <1>0, InventoryIs, NothingIs
        <4>2. server' = [selection |-> server.selection, stacks |-> st]
          <5>1. server' = [server EXCEPT !.stacks[a] = Empty]
            BY <3>1
          <5> HIDE DEF a
          <5> QED
            BY <1>0, <5>1, InventoryIs
        <4> HIDE DEF st
        <4> QED
          BY <1>0, <4>1, <4>2, InventoryIs DEF Inventories
      <3> QED
        BY <1>7, <3>1, <3>2, HandleTypes, AnswerTypes DEF ServerClearSelection
    <2> QED
      BY <2>1, <2>2
  <1>8. CASE ServerClearInventory
    <2> DEFINE st == [s \in Slots |-> IF s \in MainSlots THEN Empty ELSE server.stacks[s]]
    <2>1. st \in [Slots -> Stack]
      BY <1>0, InventoryIs, NothingIs
    <2>2. server' = [selection |-> server.selection, stacks |-> st] /\ Answer(server')
      BY <1>0, <1>8, InventoryIs DEF ServerClearInventory
    <2> HIDE DEF st
    <2>3. server' \in Inventories
      BY <1>0, <2>1, <2>2, InventoryIs DEF Inventories
    <2> QED
      BY <1>8, <2>2, <2>3, HandleTypes, AnswerTypes DEF ServerClearInventory
  <1> QED
    BY <1>1, <1>2, <1>3, <1>4, <1>5, <1>6, <1>7, <1>8 DEF ServerStep

LEMMA InitTypes == Init => InventoriesTyped
  <1>1. << >> \in Seq(Commands) /\ << >> \in Seq(Messages)
    BY EmptySeq
  <1> QED
    BY <1>1, PredictionAssumption DEF Init, InventoriesTyped

LEMMA NextTypes == InventoriesTyped /\ [Next]_vars => InventoriesTyped'
  <1>1. ASSUME InventoriesTyped, UNCHANGED vars PROVE InventoriesTyped'
    BY <1>1 DEF InventoriesTyped, vars
  <1> QED
    BY <1>1, ClientTypes, ServerTypes DEF Next

-----------------------------------------------------------------------------
(* Moving and crafting *)

LEMMA SwapKeeps ==
    ASSUME InventoriesTyped, ServerSwap
    PROVE  Kept(server.stacks, server'.stacks, Slots)
  <1>1. command.from \in Slots /\ command.to \in Slots /\ command.one \in BOOLEAN
    BY HandledIs, CommandsAre DEF ServerSwap
  <1> QED
    BY <1>1, MergeOrMoveTypes DEF ServerSwap, InventoriesTyped

\* However large the inventories and whatever is in them, moving, merging and swapping
\* makes no item, and loses none as long as no stack is above the limit.
THEOREM SwapsKeep == Spec => SwapsKeepItems
  <1>1. ASSUME InventoriesTyped, ServerSwap, NEW i \in Items
        PROVE  /\ Total(server'.stacks, Slots, i) <= Total(server.stacks, Slots, i)
               /\ (\A s \in Slots : server.stacks[s].count <= Limit) =>
                     Total(server'.stacks, Slots, i) = Total(server.stacks, Slots, i)
    BY <1>1, SwapKeeps DEF Kept, AllLimited, Limited
  <1>2. InventoriesTyped => (ServerSwap =>
             \A i \in Items :
                LET before == Total(server.stacks, Slots, i)
                    after == Total(server'.stacks, Slots, i)
                IN /\ after <= before
                   /\ (\A s \in Slots : server.stacks[s].count <= Limit) => after = before)
    BY <1>1
  <1> QED
    BY <1>2, InitTypes, NextTypes, PTL DEF Spec, SwapsKeepItems

\* Whatever the recipes are, and however large the crafting square: what crafting takes
\* from it are the inputs of one recipe, item by item, or it takes nothing.
THEOREM CraftsTake == Spec => CraftTakesItsInputs
  <1> DEFINE Used(i) == Total(server.stacks, CraftSlots, i) - Total(server'.stacks, CraftSlots, i)
             Takes == \/ \A i \in Items : Used(i) = 0
                      \/ \E n \in DOMAIN Recipes : \A i \in Items :
                            Used(i) = Cardinality({k \in DOMAIN Recipes[n].inputs :
                                                      Recipes[n].inputs[k] = i})
  <1>1. ASSUME InventoriesTyped, ServerCraft PROVE Takes
    <2>1. server \in Inventories /\ \A s \in CraftSlots : server.stacks[s] \in Stack
      BY <1>1, InventoryIs, SlotsAre DEF InventoriesTyped
    <2>2. CASE MatchingRecipe(server.stacks) = 0
      <3>1. server' = server
        BY <1>1, <2>2 DEF ServerCraft
      <3>2. ASSUME NEW i \in Items PROVE Used(i) = 0
        <4>1. Total(server.stacks, CraftSlots, i) \in Nat
          BY <2>1, CraftIsFinite, TotalType
        <4> QED
          BY <3>1, <4>1
      <3> QED
        BY <3>2
    <2>3. CASE MatchingRecipe(server.stacks) # 0
      <3>1. PICK n \in DOMAIN Recipes : Matches(Recipes[n], server.stacks)
        BY <2>3, MatchingIs
      <3>2. \A s \in CraftSlots : server'.stacks[s] = TakeN(server.stacks[s], 1).stack
        <4>1. server' = CraftInto(server, Output(server.stacks))
          BY <1>1, <2>3 DEF ServerCraft
        <4> QED
          BY <2>1, <4>1, OutputIs, CraftTypes
      <3>3. ASSUME NEW i \in Items
            PROVE  Used(i) = Cardinality({k \in DOMAIN Recipes[n].inputs :
                                             Recipes[n].inputs[k] = i})
        <4>1. Used(i) = Cardinality(Holding(server.stacks, i))
          BY <2>1, <3>2, CraftUses
        <4> QED
          BY <3>1, <4>1, MatchCounts DEF Inputs
      <3> QED
        BY <3>3
    <2> QED
      BY <2>2, <2>3
  <1>2. InventoriesTyped => (ServerCraft => Takes)
    BY <1>1
  <1>3. (ServerCraft => Takes) <=>
        (ServerCraft =>
         LET U(i) == Total(server.stacks, CraftSlots, i)
                          - Total(server'.stacks, CraftSlots, i)
             Needed(r, i) == Cardinality({k \in DOMAIN r.inputs : r.inputs[k] = i})
         IN \/ \A i \in Items : U(i) = 0
            \/ \E n \in DOMAIN Recipes : \A i \in Items :
                  U(i) = Needed(Recipes[n], i))
    OBVIOUS
  <1> HIDE DEF Takes
  <1> QED
    BY <1>2, <1>3, InitTypes, NextTypes, PTL DEF Spec, CraftTakesItsInputs

=============================================================================
