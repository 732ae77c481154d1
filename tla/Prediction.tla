----------------------------- MODULE Prediction -----------------------------
(***************************************************************************)
(* One player's inventories, on the client that plays and on the server.   *)
(* The client does to its own copy what it expects the server to do, and   *)
(* tells the server the command, not the result.  The server answers some  *)
(* commands with the inventory as it is now, and the client takes it over. *)
(*                                                                         *)
(* The two halves run concurrently; each direction of the connection is    *)
(* ordered.  Chests, and the blocks that are dug and placed, are left out. *)
(***************************************************************************)
EXTENDS Inventory

CONSTANTS
    Drops,        \* the stacks that digging may give
    Gifts,        \* the stacks the command /gime is asked for
    Start,        \* the inventories the player may join with
    Clickable,    \* the slots the player clicks on in the menu
    Closed,       \* no menu is open
    MaxCommands   \* bound: the commands the player gives

ASSUME PredictionAssumption ==
    /\ Drops \cup Gifts \subseteq Stack
    /\ Start \subseteq Inventories
    /\ Clickable \subseteq Slots
    /\ MaxCommands \in Nat

VARIABLES
    client,    \* Game::sel_inventory and craft_inv
    menu,      \* InventoryMenu: its own copy and the output it shows
    server,    \* Player::inventory and craft_inventory
    toServer, toClient,
    sent,      \* history: how many commands the client has sent
    handled,   \* history: how many commands the server has handled
    drift      \* history: how the client's copy has been led astray

vars == <<client, menu, server, toServer, toClient, sent, handled, drift>>

Commands ==
    [kind : {"Dig", "Craft", "ClearSelection", "ClearInventory"}]
    \cup [kind : {"Place"}, idx : 1..MainSize, item : Items]
    \cup [kind : {"Swap"}, from : Clickable, to : Clickable, one : BOOLEAN]
    \cup [kind : {"Select"}, selection : 0..MainSize]
    \cup [kind : {"Gime"}, stack : Gifts]

\* Ways for the copies to part: an answer older than the client's last
\* prediction replaces it; the menu's copy, written back, undoes a click beside
\* the menu, or an answer; a click on an output that the crafting inventory no
\* longer gives, or not yet; a recipe for nothing (the game parameters may have
\* one), whose inputs only the server uses.
Drifts == {"overwritten", "click undone", "answer undone", "stale output", "no output"}

Init ==
    /\ server \in Start
    /\ client = server
    /\ menu = Closed
    /\ toServer = << >> /\ toClient = << >>
    /\ sent = 0 /\ handled = 0
    /\ drift = {}

-----------------------------------------------------------------------------
Send(command) ==
    /\ sent < MaxCommands
    /\ toServer' = Append(toServer, command)
    /\ sent' = sent + 1

Drift(why, when) == drift' = IF when THEN drift \cup {why} ELSE drift

\* handle_mouse_buttons, left: the client expects the drops of the block it
\* sees.  A button held down goes on working when a menu is opened.
ClientDig ==
    \E drop \in Drops :
        /\ Send([kind |-> "Dig"])
        /\ client' = Insert(client, drop)
        /\ Drift("click undone", menu # Closed)
        /\ UNCHANGED <<menu, server, toClient, handled>>

\* handle_mouse_buttons, right.
ClientPlace ==
    /\ Selected(client) # Empty
    /\ Send([kind |-> "Place", idx |-> client.selection,
             item |-> Selected(client).item])
    /\ client' = TakeSelected(client)
    /\ Drift("click undone", menu # Closed)
    /\ UNCHANGED <<menu, server, toClient, handled>>

\* The mouse wheel.
ClientSelect ==
    /\ menu = Closed
    /\ \E forwards \in BOOLEAN :
        /\ client' = Rotate(client, forwards)
        /\ Send([kind |-> "Select", selection |-> client'.selection])
    /\ UNCHANGED <<menu, server, toClient, handled, drift>>

\* Chat commands: nothing is predicted.
ClientChat ==
    /\ menu = Closed
    /\ \E c \in [kind : {"Gime"}, stack : Gifts]
                \cup [kind : {"ClearSelection", "ClearInventory"}] : Send(c)
    /\ UNCHANGED <<client, menu, server, toClient, handled, drift>>

OpenMenu ==
    /\ menu = Closed
    /\ menu' = [inv |-> client, output |-> Empty]
    /\ UNCHANGED <<client, server, toServer, toClient, sent, handled, drift>>

\* maybe_inventory_change: the menu's copy becomes the client's, whatever has
\* come from the server, or from a dig, since the menu took it.
CloseMenu ==
    /\ menu # Closed
    /\ client' = menu.inv
    /\ menu' = Closed
    /\ UNCHANGED <<server, toServer, toClient, sent, handled, drift>>

\* check_event without a click, and the two clicks of a swap (the first one
\* only notes the slot).  The output is brought up to date at the end.
MenuIdle ==
    /\ menu # Closed
    /\ client' = menu.inv
    /\ menu' = [menu EXCEPT !.output = Output(menu.inv.stacks)]
    /\ UNCHANGED <<server, toServer, toClient, sent, handled, drift>>

MenuSwap ==
    /\ menu # Closed
    /\ \E from, to \in Clickable, one \in BOOLEAN :
        LET inv == MergeOrMove(menu.inv, from, to, one) IN
        /\ Send([kind |-> "Swap", from |-> from, to |-> to, one |-> one])
        /\ client' = inv
        /\ menu' = [inv |-> inv, output |-> Output(inv.stacks)]
    /\ UNCHANGED <<server, toClient, handled, drift>>

\* A click on the output returns before the output is brought up to date.
MenuCraft ==
    /\ menu # Closed
    /\ LET inv == IF menu.output = Empty THEN menu.inv
                  ELSE CraftInto(menu.inv, menu.output)
       IN /\ Send([kind |-> "Craft"])
          /\ client' = inv
          /\ menu' = [menu EXCEPT !.inv = inv]
          /\ drift' = drift
                \cup (IF menu.output # Output(menu.inv.stacks) THEN {"stale output"} ELSE {})
                \cup (IF MatchingRecipe(menu.inv.stacks) # 0
                         /\ Output(menu.inv.stacks) = Empty THEN {"no output"} ELSE {})
    /\ UNCHANGED <<server, toClient, handled>>

\* SetInventory replaces the main inventory, not the crafting one, and not the
\* menu's copy.
ClientReceive ==
    /\ toClient # << >>
    /\ LET msg == Head(toClient)
           inv == [selection |-> msg.inv.selection,
                   stacks |-> [s \in Slots |-> IF s \in MainSlots
                                 THEN msg.inv.stacks[s] ELSE client.stacks[s]]]
       IN /\ client' = inv
          /\ drift' = drift
                \cup (IF msg.after # sent THEN {"overwritten"} ELSE {})
                \cup (IF menu # Closed /\ inv # menu.inv
                        THEN {"answer undone"} ELSE {})
    /\ toClient' = Tail(toClient)
    /\ UNCHANGED <<menu, server, toServer, sent, handled>>

-----------------------------------------------------------------------------
Handle(kind) ==
    /\ toServer # << >>
    /\ Head(toServer).kind = kind
    /\ toServer' = Tail(toServer)
    /\ handled' = handled + 1
    /\ UNCHANGED <<client, menu, sent, drift>>

command == Head(toServer)

Answer(inv) == toClient' = Append(toClient, [inv |-> inv, after |-> handled + 1])

\* handle_dig: the block may not be what the client saw, and a chest with
\* something in it stays; the inventory is sent in any case.
ServerDig ==
    /\ Handle("Dig")
    /\ \/ \E drop \in Drops : server' = Insert(server, drop)
       \/ UNCHANGED server
    /\ Answer(server')

\* Only if the selection is what the client thinks, and without an answer.
ServerPlace ==
    /\ Handle("Place")
    /\ server' = IF Selected(server) # Empty
                      /\ server.selection = command.idx
                      /\ Selected(server).item = command.item
                   THEN TakeSelected(server) ELSE server
    /\ UNCHANGED toClient

ServerSwap ==
    /\ Handle("Swap")
    /\ server' = MergeOrMove(server, command.from, command.to, command.one)
    /\ UNCHANGED toClient

\* Mutant: the inputs are not used up.
ServerCraftFree ==
    /\ Handle("Craft")
    /\ server' = IF MatchingRecipe(server.stacks) = 0 THEN server
                   ELSE Insert(server, Output(server.stacks))
    /\ UNCHANGED toClient

ServerCraft ==
    /\ Handle("Craft")
    /\ server' = IF MatchingRecipe(server.stacks) = 0 THEN server
                   ELSE CraftInto(server, Output(server.stacks))
    /\ UNCHANGED toClient

ServerSelect ==
    /\ Handle("Select")
    /\ server' = [server EXCEPT !.selection = command.selection]
    /\ UNCHANGED toClient

ServerGime ==
    /\ Handle("Gime")
    /\ server' = Insert(server, command.stack)
    /\ Answer(server')

\* Without a selection there is no answer.
ServerClearSelection ==
    /\ Handle("ClearSelection")
    /\ IF server.selection = 0 THEN UNCHANGED <<server, toClient>>
       ELSE /\ server' = [server EXCEPT !.stacks[<<"main", server.selection>>] = Empty]
            /\ Answer(server')

ServerClearInventory ==
    /\ Handle("ClearInventory")
    /\ server' = [server EXCEPT !.stacks =
                     [s \in Slots |-> IF s \in MainSlots THEN Empty ELSE @[s]]]
    /\ Answer(server')

-----------------------------------------------------------------------------
ClientStep ==
    \/ ClientDig \/ ClientPlace \/ ClientSelect \/ ClientChat
    \/ OpenMenu \/ CloseMenu \/ MenuIdle \/ MenuSwap \/ MenuCraft
    \/ ClientReceive

ServerStep ==
    \/ ServerDig \/ ServerPlace \/ ServerSwap \/ ServerCraft \/ ServerSelect
    \/ ServerGime \/ ServerClearSelection \/ ServerClearInventory

Next == ClientStep \/ ServerStep
Spec == Init /\ [][Next]_vars

-----------------------------------------------------------------------------
Quiet == toServer = << >> /\ toClient = << >> /\ menu = Closed

\* When nothing is under way, the client's copy is the server's, unless one of
\* the Drifts has happened: the commands, run on both sides (merge_or_move,
\* handle_craft, put, take_selected, rotate), always do the same.
CopiesAgree == Quiet /\ drift = {} => client = server

\* Moving, merging and swapping (handle_inv_move_or_swap) neither makes items
\* nor, as long as no stack is above the limit, loses any.
SwapsKeepItems ==
    [][ServerSwap =>
         \A i \in Items :
            LET before == Total(server.stacks, Slots, i)
                after == Total(server'.stacks, Slots, i)
            IN /\ after <= before
               /\ (\A s \in Slots : server.stacks[s].count <= Limit) => after = before]_vars

\* Crafting (handle_craft) takes from the crafting inventory exactly the inputs
\* of some recipe, or nothing at all.
CraftTakesItsInputs ==
    [][ServerCraft =>
         LET Used(i) == Total(server.stacks, CraftSlots, i)
                          - Total(server'.stacks, CraftSlots, i)
             Needed(r, i) == Cardinality({k \in DOMAIN r.inputs : r.inputs[k] = i})
         IN \/ \A i \in Items : Used(i) = 0
            \/ \E n \in DOMAIN Recipes : \A i \in Items :
                  Used(i) = Needed(Recipes[n], i)]_vars
=============================================================================
