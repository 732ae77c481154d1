------------------------------- MODULE Chests -------------------------------
(***************************************************************************)
(* Players who dig, build and use chests in one chunk.  The server holds   *)
(* the chunk, with the inventory of each chest as metadata of its block,   *)
(* and sends the whole chunk to every player at each change.  A client     *)
(* changes its own copy at once, before the server has seen its command;   *)
(* while its chest menu is open, the menu's copy of the chest and of the   *)
(* player's inventory is written over whatever the server sends.           *)
(*                                                                         *)
(* The chunk is loaded everywhere, the players stay, and each holds its    *)
(* selection.                                                              *)
(***************************************************************************)
EXTENDS Inventory

CONSTANTS
    Players,
    Pos,          \* the positions of the chunk
    Air,          \* the block that is not an item
    HasInventory, \* the blocks that are chests
    ChestSize,    \* stacks of a chest
    Start,        \* the inventories the players may join with
    StartBlocks,  \* what may stand in the chunk: [Pos -> blocks]
    StartChests,  \* what may be in the chests
    None,         \* no metadata, no menu
    MaxCommands   \* bound: the commands the players give

ASSUME ChestsAssumption ==
    /\ Air \notin Items
    /\ HasInventory \subseteq Items
    /\ ChestSize \in Nat \ {0}
    /\ MaxCommands \in Nat

Blocks == Items \cup {Air}
ChestSlots == {"chest"} \X (1..ChestSize)
Chest == [ChestSlots -> Stack]
EmptyChest == [s \in ChestSlots |-> Empty]
Chunk == [blk : [Pos -> Blocks], meta : [Pos -> Chest \cup {None}]]

ASSUME StartAssumption ==
    /\ StartBlocks \subseteq [Pos -> Blocks]
    /\ StartChests \subseteq Chest
    /\ Start \subseteq [selection : 0..MainSize, stacks : [MainSlots -> Stack]]
    /\ None \notin Chest
    /\ IsFiniteSet(Players) /\ IsFiniteSet(Pos)

VARIABLES
    chunk,     \* the server's chunk
    inv,       \* Player::inventory, on the server
    view,      \* each client's copy of the chunk
    mine,      \* each client's copy of its inventory
    menu,      \* ChestMenu: the position, and copies of the chest and inventory
    toServer, toClient,
    sent,      \* bound: how many commands were given
    drift      \* history: what a client's view has wrong until the next chunk

vars == <<chunk, inv, view, mine, menu, toServer, toClient, sent, drift>>

\* A prediction that the server did nothing about; what the menu's copy hid.
Drifts == {"ignored", "hidden"}

Commands ==
    [kind : {"Dig"}, pos : Pos]
    \cup [kind : {"Place"}, pos : Pos, idx : 1..MainSize, item : Items]
    \cup [kind : {"Swap"}, pos : Pos, from : MainSlots \cup ChestSlots,
          to : MainSlots \cup ChestSlots, one : BOOLEAN]

Drop(b) == IF b = Air THEN Empty ELSE With(b, 1)

Init ==
    /\ \E blks \in StartBlocks, chest \in StartChests :
          chunk = [blk |-> blks,
                   meta |-> [p \in Pos |-> IF blks[p] \in HasInventory
                                             THEN chest ELSE None]]
    /\ inv \in [Players -> Start]
    /\ view = [pl \in Players |-> chunk]
    /\ mine = inv
    /\ menu = [pl \in Players |-> None]
    /\ toServer = [pl \in Players |-> << >>]
    /\ toClient = [pl \in Players |-> << >>]
    /\ sent = 0
    /\ drift = [pl \in Players |-> {}]

-----------------------------------------------------------------------------
(* The client. *)

Send(pl, command) ==
    /\ sent < MaxCommands
    /\ sent' = sent + 1
    /\ toServer' = [toServer EXCEPT ![pl] = Append(@, command)]

\* A button held down goes on digging while the menu is open.
ClientDig(pl, p) ==
    /\ view[pl].blk[p] # Air
    /\ Send(pl, [kind |-> "Dig", pos |-> p])
    /\ mine' = [mine EXCEPT ![pl] = Insert(@, Drop(view[pl].blk[p]))]
    /\ view' = [view EXCEPT ![pl].blk[p] = Air]
    /\ UNCHANGED <<chunk, inv, menu, toClient, drift>>

ClientPlace(pl, p) ==
    /\ menu[pl] = None
    /\ view[pl].blk[p] = Air
    /\ Selected(mine[pl]) # Empty
    /\ LET item == Selected(mine[pl]).item IN
        /\ Send(pl, [kind |-> "Place", pos |-> p,
                     idx |-> mine[pl].selection, item |-> item])
        /\ view' = [view EXCEPT ![pl].blk[p] = item]
    /\ mine' = [mine EXCEPT ![pl] = TakeSelected(@)]
    /\ UNCHANGED <<chunk, inv, menu, toClient, drift>>

\* A right click on a chest, also on one that has no metadata yet.
OpenChest(pl, p) ==
    /\ menu[pl] = None
    /\ view[pl].blk[p] \in HasInventory
    /\ menu' = [menu EXCEPT ![pl] =
          [pos   |-> p,
           chest |-> IF view[pl].meta[p] = None THEN EmptyChest ELSE view[pl].meta[p],
           inv   |-> mine[pl]]]
    /\ UNCHANGED <<chunk, inv, view, mine, toServer, toClient, sent, drift>>

\* maybe_chest_inventory_change, with m the menu's copies after the command
\* and before the one before it.
Write(pl, m, before) ==
    /\ mine' = [mine EXCEPT ![pl] = m.inv]
    /\ view' = [view EXCEPT ![pl].meta[m.pos] = m.chest]
    /\ drift' = [drift EXCEPT ![pl] =
          IF view[pl].meta[m.pos] # before THEN @ \cup {"hidden"} ELSE @]

\* A frame without a click.
MenuFrame(pl) ==
    /\ menu[pl] # None
    /\ Write(pl, menu[pl], menu[pl].chest)
    /\ UNCHANGED <<chunk, inv, menu, toServer, toClient, sent>>

\* Escape.
CloseChest(pl) ==
    /\ menu[pl] # None
    /\ Write(pl, menu[pl], menu[pl].chest)
    /\ menu' = [menu EXCEPT ![pl] = None]
    /\ UNCHANGED <<chunk, inv, toServer, toClient, sent>>

\* merge_or_move between an inventory and a chest.
Moved(pack, chest, from, to, one) ==
    LET both == [s \in MainSlots \cup ChestSlots |->
                    IF s \in ChestSlots THEN chest[s] ELSE pack.stacks[s]]
        stacks == MergeOrMove([stacks |-> both], from, to, one).stacks
    IN [inv   |-> [pack EXCEPT !.stacks = [s \in MainSlots |-> stacks[s]]],
        chest |-> [s \in ChestSlots |-> stacks[s]]]

MenuSwap(pl) ==
    /\ menu[pl] # None
    /\ \E from, to \in MainSlots \cup ChestSlots, one \in BOOLEAN :
        LET moved == Moved(menu[pl].inv, menu[pl].chest, from, to, one)
            m == [pos |-> menu[pl].pos, chest |-> moved.chest, inv |-> moved.inv]
        IN /\ Send(pl, [kind |-> "Swap", pos |-> menu[pl].pos,
                        from |-> from, to |-> to, one |-> one])
           /\ Write(pl, m, menu[pl].chest)
           /\ menu' = [menu EXCEPT ![pl] = m]
    /\ UNCHANGED <<chunk, inv, toClient>>

\* ChunkUpdated replaces the whole chunk, SetInventory the inventory.
ClientReceive(pl) ==
    /\ toClient[pl] # << >>
    /\ toClient' = [toClient EXCEPT ![pl] = Tail(@)]
    /\ LET msg == Head(toClient[pl]) IN
        \/ /\ msg.kind = "ChunkUpdated"
           /\ view' = [view EXCEPT ![pl] = msg.chunk]
           /\ drift' = [drift EXCEPT ![pl] = {}]
           /\ UNCHANGED mine
        \/ /\ msg.kind = "SetInventory"
           /\ mine' = [mine EXCEPT ![pl] = msg.inv]
           /\ UNCHANGED <<view, drift>>
    /\ UNCHANGED <<chunk, inv, menu, toServer, sent>>

-----------------------------------------------------------------------------
(* The server. *)

Handle(pl, kind) ==
    /\ toServer[pl] # << >>
    /\ Head(toServer[pl]).kind = kind
    /\ toServer' = [toServer EXCEPT ![pl] = Tail(@)]
    /\ UNCHANGED <<view, mine, menu, sent>>

Command(pl) == Head(toServer[pl])

Updates(chunks) == [i \in DOMAIN chunks |-> [kind |-> "ChunkUpdated", chunk |-> chunks[i]]]

\* on_change, once for each of the chunks, to all players.
ToAll(chunks) == [pl \in Players |-> toClient[pl] \o Updates(chunks)]

\* The sender's inventory follows the chunk.
Answer(pl, chunks) ==
    toClient' = [ToAll(chunks) EXCEPT ![pl] =
        Append(@, [kind |-> "SetInventory", inv |-> inv'[pl]])]

\* get_blk_mut(p).set(b) and get_blk_meta_mut(p).set(m), .clear().
SetBlk(c, p, b) == [c EXCEPT !.blk[p] = b]
SetMeta(c, p, m) == [c EXCEPT !.meta[p] = m]

\* Mutant: a block that stays is not sent.
DigSilently(pl) ==
    /\ Handle(pl, "Dig")
    /\ LET p == Command(pl).pos
           air == SetBlk(chunk, p, Air)
           clear == SetMeta(air, p, None)
       IN \/ /\ chunk.meta[p] \in {None, EmptyChest}
             /\ inv' = [inv EXCEPT ![pl] = Insert(@, Drop(chunk.blk[p]))]
             /\ chunk' = clear
             /\ Answer(pl, <<air, clear>>)
          \/ /\ chunk.meta[p] \notin {None, EmptyChest}
             /\ UNCHANGED <<chunk, inv>>
             /\ Answer(pl, << >>)
    /\ UNCHANGED drift

\* handle_dig: a chest with something in it stays, and is sent to put the
\* client's prediction right.
ServerDig(pl) ==
    /\ Handle(pl, "Dig")
    /\ LET p == Command(pl).pos
           air == SetBlk(chunk, p, Air)
           clear == SetMeta(air, p, None)
       IN \/ /\ chunk.meta[p] \in {None, EmptyChest}
             /\ inv' = [inv EXCEPT ![pl] = Insert(@, Drop(chunk.blk[p]))]
             /\ chunk' = clear
             /\ Answer(pl, <<air, clear>>)
          \/ /\ chunk.meta[p] \notin {None, EmptyChest}
             /\ UNCHANGED <<chunk, inv>>
             /\ Answer(pl, <<chunk>>)
    /\ UNCHANGED drift

\* Mutant: the metadata of what was there before is taken over by a chest.
PlaceKeepsMeta(pl) ==
    /\ Handle(pl, "Place")
    /\ LET c == Command(pl)
           set == SetBlk(chunk, c.pos, c.item)
       IN \/ /\ Selected(inv[pl]) # Empty /\ inv[pl].selection = c.idx
             /\ Selected(inv[pl]).item = c.item
             /\ inv' = [inv EXCEPT ![pl] = TakeSelected(@)]
             /\ chunk' = set
             /\ toClient' = ToAll(<<set>>)
             /\ UNCHANGED drift
          \/ /\ Selected(inv[pl]) = Empty \/ inv[pl].selection # c.idx
                \/ Selected(inv[pl]).item # c.item
             /\ drift' = [drift EXCEPT ![pl] = @ \cup {"ignored"}]
             /\ UNCHANGED <<chunk, inv, toClient>>

\* PlaceBlock: whatever stands there is replaced; its metadata stays, unless
\* the new block has an inventory of its own.
ServerPlace(pl) ==
    /\ Handle(pl, "Place")
    /\ LET c == Command(pl)
           set == SetBlk(chunk, c.pos, c.item)
           after == IF c.item \in HasInventory
                      THEN <<set, SetMeta(set, c.pos, EmptyChest)>> ELSE <<set>>
       IN \/ /\ Selected(inv[pl]) # Empty /\ inv[pl].selection = c.idx
             /\ Selected(inv[pl]).item = c.item
             /\ inv' = [inv EXCEPT ![pl] = TakeSelected(@)]
             /\ chunk' = after[Len(after)]
             /\ toClient' = ToAll(after)
             /\ UNCHANGED drift
          \/ /\ Selected(inv[pl]) = Empty \/ inv[pl].selection # c.idx
                \/ Selected(inv[pl]).item # c.item
             /\ drift' = [drift EXCEPT ![pl] = @ \cup {"ignored"}]
             /\ UNCHANGED <<chunk, inv, toClient>>

\* Mutant: the chest's side of a move is forgotten.
SwapForgetsChest(pl) ==
    /\ Handle(pl, "Swap")
    /\ LET c == Command(pl)
           chest == chunk.meta[c.pos]
       IN \/ /\ chest # None
             /\ inv' = [inv EXCEPT ![pl] = Moved(@, chest, c.from, c.to, c.one).inv]
             /\ toClient' = ToAll(<<chunk>>)
             /\ UNCHANGED <<chunk, drift>>
          \/ /\ chest = None
             /\ UNCHANGED <<chunk, inv, toClient, drift>>

\* handle_inv_move_or_swap: between the player's inventory and the chest, or
\* inside one of the two.  Without metadata nothing happens and nobody is told.
ServerSwap(pl) ==
    /\ Handle(pl, "Swap")
    /\ LET c == Command(pl)
           chest == chunk.meta[c.pos]
           moved == Moved(inv[pl], chest, c.from, c.to, c.one)
       IN \/ /\ {c.from, c.to} \subseteq MainSlots
             /\ inv' = [inv EXCEPT ![pl] = Moved(@, EmptyChest, c.from, c.to, c.one).inv]
             /\ UNCHANGED <<chunk, toClient, drift>>
          \/ /\ ~({c.from, c.to} \subseteq MainSlots)
             /\ chest # None
             /\ inv' = [inv EXCEPT ![pl] = moved.inv]
             /\ chunk' = SetMeta(chunk, c.pos, moved.chest)
             /\ toClient' = ToAll(<<chunk'>>)
             /\ UNCHANGED drift
          \/ /\ ~({c.from, c.to} \subseteq MainSlots)
             /\ chest = None
             /\ drift' = [drift EXCEPT ![pl] = @ \cup {"ignored"}]
             /\ UNCHANGED <<chunk, inv, toClient>>

-----------------------------------------------------------------------------
ClientStep(pl) ==
    \/ \E p \in Pos : ClientDig(pl, p) \/ ClientPlace(pl, p) \/ OpenChest(pl, p)
    \/ MenuFrame(pl) \/ CloseChest(pl) \/ MenuSwap(pl)
    \/ ClientReceive(pl)

ServerStep(pl) == ServerDig(pl) \/ ServerPlace(pl) \/ ServerSwap(pl)

Next == \E pl \in Players : ClientStep(pl) \/ ServerStep(pl)
Spec == Init /\ [][Next]_vars

-----------------------------------------------------------------------------
Quiet(pl) == toServer[pl] = << >> /\ toClient[pl] = << >> /\ menu[pl] = None

\* A client to which nothing is under way sees the server's chunk, chests
\* included, whoever changed it and whatever the client had predicted
\* (on_change, fake_change), but for the named gaps: a command that the server
\* ignores is not answered, and an open menu hides what others do to its chest.
ViewsAgree ==
    \A pl \in Players : Quiet(pl) /\ drift[pl] = {} => view[pl] = chunk

\* Where a chest stands there is an inventory for it: never a chest whose
\* content cannot be reached (PlaceBlock and handle_dig write block and
\* metadata one after the other).
ChestsHaveInventories ==
    \A p \in Pos : chunk.blk[p] \in HasInventory => chunk.meta[p] # None

Carried(i) == MapThenSumSet(LAMBDA pl : Total(inv[pl].stacks, MainSlots, i), Players)
Stored(i) ==
    MapThenSumSet(LAMBDA p : IF chunk.meta[p] = None THEN 0
                             ELSE Total(chunk.meta[p], ChestSlots, i), Pos)
Held(i) == Carried(i) + Stored(i)

NoneAboveLimit ==
    /\ \A pl \in Players : \A s \in MainSlots : inv[pl].stacks[s].count <= Limit
    /\ \A p \in Pos : chunk.meta[p] # None =>
          \A s \in ChestSlots : chunk.meta[p][s].count <= Limit

\* Two players at one chest neither double an item nor, as long as no stack is
\* above the limit, lose one, whatever stale copies they move things in: on the
\* server, items come only from digging the block they are made of, and go only
\* by placing, with all that a chest held that another one is put on.
ItemsAreKept ==
    [][\A pl \in Players : toServer[pl] # << >> /\ toServer'[pl] = Tail(toServer[pl]) =>
         LET c == Command(pl) IN
         \A i \in Items :
            LET dug == IF c.kind = "Dig" /\ chunk.blk[c.pos] = i THEN 1 ELSE 0
                placed == IF c.kind = "Place" /\ c.item = i THEN 1 ELSE 0
                buried == IF c.kind = "Place" /\ c.item \in HasInventory
                             /\ chunk.meta[c.pos] # None
                            THEN Total(chunk.meta[c.pos], ChestSlots, i) ELSE 0
            IN /\ Held(i)' <= Held(i) + dug
               /\ NoneAboveLimit => Held(i)' >= Held(i) - placed - buried]_vars
=============================================================================
