------------------------------- MODULE MapSync -------------------------------
(***************************************************************************)
(* Which chunks the server shows to which player.  A player that comes to  *)
(* another chunk has the chunks around it generated, and is sent those     *)
(* that are there; whatever changes or arrives later goes to all players   *)
(* (on_change).  The client says where it is, and is told where to start.  *)
(*                                                                         *)
(* Chunks lie on a line, positions are known by their chunk, and a chunk's *)
(* data is the number of its last change, 0 as it came from the mapgen     *)
(* thread.  Messages to a client arrive in order and replace whole chunks, *)
(* so only the last one about each chunk is kept.                          *)
(***************************************************************************)
EXTENDS Integers, Sequences, FiniteSets

CONSTANTS
    Players,
    Chunks,        \* positions on the line
    Places,        \* the chunks players go to
    Origin,        \* where last_chunk_pos starts
    Default,       \* the chunk of PlayerPosition::default and of Camera::new
    MapgenRadius, SentRadius,
    TreeReach,     \* a tree at c reaches into c..(c + TreeReach)
    Stored,        \* the positions earlier sessions may have left
    Flaky,         \* the players whose connection may end
    None,
    MaxSessions,   \* bound: log ins
    MaxActs        \* bound: moves, and changes asked for

ASSUME MapSyncAssumption ==
    /\ Chunks \subseteq Int
    /\ Places \subseteq Chunks /\ {Origin, Default} \subseteq Places
    /\ Origin # Default
    /\ Stored \subseteq Places /\ Flaky \subseteq Players
    /\ {MapgenRadius, SentRadius, TreeReach} \subseteq Nat
    /\ {MaxSessions, MaxActs} \subseteq Nat
    /\ None \notin Int

VARIABLES
    pc,        \* the phase of Server::tick
    panic,     \* an unwrap in a message handler has failed
    players,   \* Server::players
    msgs,      \* what get_msgs collected
    world,     \* Map::chunks
    stored,    \* the chunks as the mapgen thread has been told, or told us
    asked,     \* the middles of the areas asked for
    results,   \* the chunks on their way from the mapgen thread
    rows,      \* the players' stored positions
    client,    \* the players' clients and their connections
    sessions, acts

mapVars == <<world, stored>>
genVars == <<asked, results>>
counters == <<sessions, acts>>
vars == <<pc, panic, players, msgs, mapVars, genVars, rows, client, counters>>

Phases == {"map", "join", "recv", "process"}
Data == 0..MaxActs
Shown == [Chunks -> Data \cup {None}]
Positions == [kind : {"SetPos"}, at : Places]
Orders == [kind : {"PlaceBlock", "PlaceTree"}, at : Chunks, number : Data]
\* last_chunk_pos and sent_chunks; served is history: send_chunks_to_player has
\* been called.
Player == [pos : Places, last : Places, sent : SUBSET Chunks, served : BOOLEAN]
\* reported: where it last said it is; greeting: the SetPos on its way to it;
\* told: the chunks it has been sent.
Client == [link : {"out", "waiting", "up", "broken"}, inbox : Seq(Positions \cup Orders),
           camera : Places, reported : Places \cup {None},
           greeting : Places \cup {None}, told : Shown]

\* None is neither a number nor a player.
ASSUME NoneAssumption == None \notin Player

Nothing == [c \in Chunks |-> None]
NewClient == [link |-> "out", inbox |-> << >>, camera |-> Default,
              reported |-> None, greeting |-> None, told |-> Nothing]

Playing == {p \in Players : players[p] # None}
Broken == {p \in Playing : client[p].link = "broken"}
Present == {c \in Chunks : world[c] # None}

\* The areas around a chunk, half open as in the code: gen_chunks_in_area sees
\* to it that the first are there, send_chunks_to_player sends the second.
Generated(m) == ((m - MapgenRadius)..(m + MapgenRadius - 1)) \cap Chunks
SentAround(m) == (m - SentRadius)..(m + SentRadius - 1)
\* What a request may bring besides: the last row of the area, and what is
\* loaded from the storage in a margin of two.
MayCome(m) == ((m - MapgenRadius - 2)..(m + MapgenRadius + 2)) \cap Chunks

Init ==
    /\ pc = "process" /\ panic = FALSE
    /\ players = [p \in Players |-> None]
    /\ msgs = << >>
    /\ world = Nothing /\ stored = Nothing
    /\ asked = {} /\ results = {}
    /\ rows \in [Players -> Stored]
    /\ client = [p \in Players |-> NewClient]
    /\ sessions = 0 /\ acts = 0

At(phase) == ~panic /\ pc = phase

-----------------------------------------------------------------------------
(* What the server does to its players, by player. *)

\* close_connections, and what is left of the client.
Leave(ps, pl) == [p \in Players |-> IF p \in ps THEN None ELSE pl[p]]
Gone(ps, cl) == [p \in Players |-> IF p \in ps THEN NewClient ELSE cl[p]]

\* ChunkUpdated, for the chunks cs of the map w.
Shows(cs, w, cl) == [cl EXCEPT !.told = [c \in Chunks |-> IF c \in cs THEN w[c] ELSE @[c]]]

\* on_change, for one chunk after the other: to every player, wherever it is.
OnChange(cs, w) ==
    /\ players' = IF cs = {} THEN players
                  ELSE Leave(Broken, [p \in Players |->
                         IF p \in Playing THEN [players[p] EXCEPT !.sent = @ \cup cs]
                         ELSE None])
    /\ client' = IF cs = {} THEN client
                 ELSE Gone(Broken, [p \in Players |->
                        IF p \in Playing THEN Shows(cs, w, client[p]) ELSE client[p]])

-----------------------------------------------------------------------------
(* Clients, their connections, and the mapgen thread. *)

EnvUnchanged == UNCHANGED <<pc, panic, players, msgs, mapVars, rows>>

\* The log in is done; the rows are asked for.
Connect(p) ==
    /\ client[p].link = "out"
    /\ sessions < MaxSessions
    /\ sessions' = sessions + 1
    /\ client' = [client EXCEPT ![p].link = "waiting"]
    /\ UNCHANGED <<genVars, acts>> /\ EnvUnchanged

\* run_loop sends the position in every frame, before the log in is done and
\* before it has been told where it is; only a new one makes a difference.
Report(p) ==
    /\ client[p].link \in {"waiting", "up"}
    /\ client[p].reported # client[p].camera
    /\ client' = [client EXCEPT
          ![p].reported = client[p].camera,
          ![p].inbox = Append(@, [kind |-> "SetPos", at |-> client[p].camera])]
    /\ UNCHANGED <<genVars, counters>> /\ EnvUnchanged

Move(p) ==
    /\ client[p].link \in {"waiting", "up"}
    /\ acts < MaxActs
    /\ acts' = acts + 1
    /\ \E at \in Places \ {client[p].camera} : client' = [client EXCEPT ![p].camera = at]
    /\ UNCHANGED <<genVars, sessions>> /\ EnvUnchanged

\* A block or a sapling is placed where the player is, in what it sees.
Ask(p) ==
    /\ client[p].link = "up"
    /\ acts < MaxActs
    /\ acts' = acts + 1
    /\ \E m \in Orders :
          /\ m.number = acts' /\ m.at = client[p].camera
          /\ client[p].told[m.at] # None
          /\ client' = [client EXCEPT ![p].inbox = Append(@, m)]
    /\ UNCHANGED <<genVars, sessions>> /\ EnvUnchanged

GetGreeting(p) ==
    /\ client[p].link = "up" /\ client[p].greeting # None
    /\ client' = [client EXCEPT ![p].camera = client[p].greeting,
                                ![p].greeting = None]
    /\ UNCHANGED <<genVars, counters>> /\ EnvUnchanged

\* What is still in the network is lost.
Break(p) ==
    /\ p \in Flaky /\ client[p].link = "up"
    /\ \E n \in 0..Len(client[p].inbox) :
          client' = [client EXCEPT ![p].link = "broken", ![p].inbox = SubSeq(@, 1, n)]
    /\ UNCHANGED <<genVars, counters>> /\ EnvUnchanged

\* A request is served; what is there already is not sent again.
Generate(m, margin) ==
    /\ m \in asked
    /\ LET area == IF margin THEN MayCome(m) ELSE Generated(m)
       IN  /\ ~(area \subseteq results \cup Present)
           /\ results' = results \cup (area \ Present)
    /\ UNCHANGED <<asked, client, counters>> /\ EnvUnchanged

-----------------------------------------------------------------------------
(* tick *)

\* Mutant: where the player came from.
AskedFromLast(p) == players[p].last

\* The middle of the area asked for.
AskedFor(p) == players[p].pos

Moved == {p \in Playing : players[p].pos # players[p].last}

\* Mutant: what is there already is not sent.
ToSendNothing(p) == {}

ToSend(p) == (SentAround(players[p].pos) \cap Present) \ players[p].sent

\* The messages of the last tick are handled.  The areas are asked for,
\* send_chunks_to_players sends what is there, and send_positions_to_players
\* finds all whose connection is broken.
Send ==
    /\ At("process") /\ msgs = << >>
    /\ asked' = asked \cup {AskedFor(p) : p \in Moved}
    /\ players' = Leave(Broken, [p \in Players |->
          IF p \in Moved
          THEN [players[p] EXCEPT !.last = players[p].pos, !.served = TRUE,
                                  !.sent = @ \cup ToSend(p)]
          ELSE players[p]])
    /\ client' = Gone(Broken, [p \in Players |->
          IF p \in Moved THEN Shows(ToSend(p), world, client[p]) ELSE client[p]])
    /\ pc' = "map"
    /\ UNCHANGED <<panic, msgs, mapVars, results, rows, counters>>

\* Map::tick: all that has come.
MapTick ==
    /\ At("map")
    /\ world' = [c \in Chunks |-> IF c \in results THEN 0 ELSE world[c]]
    /\ stored' = [c \in Chunks |-> IF c \in results THEN 0 ELSE stored[c]]
    /\ OnChange(results, world')
    /\ results' = {}
    /\ pc' = "join"
    /\ UNCHANGED <<panic, msgs, asked, rows, counters>>

\* Player::from_waiting: the stored position goes to the client, not into pos.
Joining(p) == [pos |-> Default, last |-> Origin, sent |-> {}, served |-> FALSE]

Join(p) ==
    /\ At("join") /\ client[p].link = "waiting"
    /\ players' = [players EXCEPT ![p] = Joining(p)]
    /\ client' = [client EXCEPT ![p].link = "up", ![p].greeting = rows[p]]
    /\ UNCHANGED <<pc, panic, msgs, mapVars, genVars, rows, counters>>

\* Mutant: only of the players that have changed chunks since the last tick.
StorePositionsOfMoved(due) ==
    /\ At("join")
    /\ rows' = [p \in Players |-> IF due /\ p \in Moved THEN players[p].pos ELSE rows[p]]
    /\ pc' = "recv"
    /\ UNCHANGED <<panic, players, msgs, mapVars, genVars, client, counters>>

\* store_player_positions, if INTERVAL_MILLIS have passed.  Not all answers about
\* those who wait need be there.
StorePositions(due) ==
    /\ At("join")
    /\ rows' = [p \in Players |-> IF due /\ p \in Playing THEN players[p].pos ELSE rows[p]]
    /\ pc' = "recv"
    /\ UNCHANGED <<panic, players, msgs, mapVars, genVars, client, counters>>

\* get_msgs: positions are taken over at once, the rest is collected.
Receive(p) ==
    /\ At("recv") /\ p \in Playing
    /\ client[p].inbox # << >>
    /\ LET m == Head(client[p].inbox) IN
       \/ /\ m.kind = "SetPos"
          /\ players' = [players EXCEPT ![p].pos = m.at]
          /\ UNCHANGED msgs
       \/ /\ m.kind # "SetPos"
          /\ msgs' = Append(msgs, [from |-> p, msg |-> m])
          /\ UNCHANGED players
    /\ client' = [client EXCEPT ![p].inbox = Tail(@)]
    /\ UNCHANGED <<pc, panic, mapVars, genVars, rows, counters>>

AllReceived ==
    /\ At("recv")
    /\ \A p \in Playing : client[p].inbox = << >>
    /\ players' = Leave(Broken, players)
    /\ client' = Gone(Broken, client)
    /\ pc' = "process"
    /\ UNCHANGED <<panic, msgs, mapVars, genVars, rows, counters>>

\* The next message is of this kind, and its sender still a player.
Handles(kind) ==
    /\ At("process") /\ msgs # << >>
    /\ Head(msgs).msg.kind = kind /\ Head(msgs).from \in Playing
    /\ msgs' = Tail(msgs)
    /\ UNCHANGED <<pc, genVars, rows, counters>>

SenderIsGone ==
    /\ At("process") /\ msgs # << >>
    /\ Head(msgs).from \notin Playing
    /\ panic' = TRUE
    /\ UNCHANGED <<pc, players, msgs, mapVars, genVars, rows, client, counters>>

order == Head(msgs).msg

\* The chunks cs are written, and those of them in shown go to the players and
\* to the mapgen thread.
Change(cs, shown) ==
    /\ world' = [c \in Chunks |-> IF c \in cs THEN order.number ELSE world[c]]
    /\ stored' = [c \in Chunks |-> IF c \in shown THEN world'[c] ELSE stored[c]]
    /\ OnChange(shown, world')

\* A block for a chunk that is not there is lost; the player is not told.
PlaceBlock ==
    /\ Handles("PlaceBlock")
    /\ Change({order.at} \cap Present, {order.at} \cap Present)
    /\ UNCHANGED panic

\* The chunks a tree reaches into, those of its bounding box.
TreeChunks(c) == c..(c + TreeReach)

\* Mutant: the chunk of the trunk alone.
ShownOfTrunk(c) == {c}

ShownOfTree(c) == TreeChunks(c)

\* spawn_schematic unwraps every chunk it writes to.
PlaceTree ==
    /\ Handles("PlaceTree")
    /\ \/ /\ TreeChunks(order.at) \subseteq Present
          /\ Change(TreeChunks(order.at), ShownOfTree(order.at))
          /\ UNCHANGED panic
       \/ /\ ~(TreeChunks(order.at) \subseteq Present)
          /\ panic' = TRUE
          /\ UNCHANGED <<mapVars, players, client>>

-----------------------------------------------------------------------------
ServerStep ==
    \/ Send \/ MapTick
    \/ \E p \in Players : Join(p) \/ Receive(p)
    \/ \E due \in BOOLEAN : StorePositions(due)
    \/ AllReceived
    \/ PlaceBlock \/ PlaceTree \/ SenderIsGone

ClientStep(p) ==
    Connect(p) \/ Report(p) \/ Move(p) \/ Ask(p) \/ GetGreeting(p) \/ Break(p)

\* A server thread that panicked does nothing any more.
Dead == panic /\ UNCHANGED vars

Next ==
    \/ ServerStep
    \/ ~panic /\ (\/ \E p \in Players : ClientStep(p)
                  \/ \E m \in asked, margin \in BOOLEAN : Generate(m, margin))
    \/ Dead

Spec == Init /\ [][Next]_vars

\* The server loops over its tick; the mapgen thread brings what was asked for;
\* a client that is in the game reads its messages and says where it is; time
\* passes.  Nobody need move, ask for anything or come back.
FairSpec ==
    /\ Spec
    /\ WF_vars(ServerStep)
    /\ \A m \in Places : WF_vars(~panic /\ Generate(m, FALSE))
    /\ \A p \in Players : WF_vars(~panic /\ (GetGreeting(p) \/ Report(p)))
    /\ SF_vars(StorePositions(TRUE))

-----------------------------------------------------------------------------
\* Types of the server's tables and of the clients (Server, Player, Game).
MapSyncTypeOK ==
    /\ pc \in Phases /\ panic \in BOOLEAN
    /\ players \in [Players -> Player \cup {None}]
    /\ msgs \in Seq([from : Players, msg : Orders])
    /\ world \in Shown /\ stored \in Shown
    /\ asked \subseteq Places /\ results \subseteq Chunks
    /\ rows \in [Players -> Places]
    /\ client \in [Players -> Client]

\* Whoever was sent a chunk has been sent, or will find in its messages, what
\* the server has of it now, however far away the change and whoever made it;
\* and so has the mapgen thread (on_change and chunk_changed after each write).
SentIsCurrent ==
    /\ \A p \in Playing : \A c \in Chunks :
          client[p].told[c] = IF c \in players[p].sent THEN world[c] ELSE None
    /\ stored = world

\* Once a player has been served, it has every chunk around it that is there,
\* whether it was there before, came later or was asked for by another player
\* (send_chunks_to_players only looks when the player has changed chunks).
NothingIsMissing ==
    \A p \in Playing :
       players[p].served => SentAround(players[p].last) \cap Present \subseteq players[p].sent

\* The player's client is in the game and its camera at x.  At the origin it
\* must have been served: last_chunk_pos starts there, and a client that says
\* it is there before the first tick is not noticed until it moves on.
Stays(p, x) ==
    /\ client[p].link = "up" /\ client[p].camera = x
    /\ x = Origin => p \in Playing /\ players[p].served

\* A player that stays somewhere gets to see the chunks around it.
SurroundingsArrive ==
    \A p \in Players, x \in Places :
       <>[](~panic /\ Stays(p, x))
          => <>[](\A c \in Generated(x) : client[p].told[c] # None)

\* The server learns where a player that stays is, and its row says so in the
\* end, although the server starts from a default position, the client from one
\* of its own, and both report before the stored one has reached the client.
RowsCatchUp ==
    \A p \in Players, x \in Places :
       <>[](~panic /\ client[p].link = "up" /\ client[p].camera = x) => <>[](rows[p] = x)
=============================================================================
