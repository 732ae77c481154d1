------------------------------- MODULE Session -------------------------------
(***************************************************************************)
(* The life of connections and players in the server: a connection is      *)
(* accepted, logs in, waits for the player's rows of the map database,     *)
(* plays, and goes away; the tick of the server thread does all of this in *)
(* a fixed order of phases.  Three other parties run beside it: the reader *)
(* task and the writer task of every connection, which end when the        *)
(* network or the client does, and the map generation thread, which        *)
(* answers the requests for player rows in the order they were made.       *)
(*                                                                         *)
(* A player's id is represented by the lower-case form of its nick, which  *)
(* the table of accounts keeps unique.  An inventory, a position or the    *)
(* slow states are one value each, of Data.                                *)
(***************************************************************************)
EXTENDS Integers, Sequences, FiniteSets

CONSTANTS
    Conns,      \* connections, each opened at most once
    Nicks,      \* the nicks clients log in with
    ValidNicks, \* those made of the allowed characters
    Ids,        \* the lower-case nicks among them
    Lower,      \* str::to_lowercase on valid nicks
    Password,   \* the id whose password a client knows
    Keys,       \* the rows kept per player, of the four of the code
    Data,       \* what a row can hold
    Default,    \* what a row that is not there is read as
    Situations, \* what to start from: the nicks earlier runs have registered, the
                \* ids whose password hash a crash has lost, and what each client
                \* may send, its i-th message one of script[c][i]
    QueueBound, \* bound: requests the mapgen thread may lag behind by at the
                \* end of a tick (the channel of the code has none)
    Flaky,      \* the connections whose network tasks may end
    None        \* no entry, no value

KvKeys == {"position", "inventory", "craft_inventory", "slow_states"}

\* The messages of the game, by what their handler does in which order.
\* "Place": the player, then the map (PlaceBlock, a move out of a chest), and
\* "Tree" likewise (PlaceTree).  "Edit": the player alone (Craft, InventorySelect, SetMode, a move
\* among the player's inventories).  "Dig", "ToChest": the map, then the
\* player.  "Gime": a chat answer, then the player.  "InChest": the map alone.
EditKinds == {"Place", "Tree", "Edit", "Dig", "ToChest", "Gime"}
GameKinds == {"GetHashedBlobs", "InChest", "Info", "Chat"}
PlainKinds == {"SendHash", "SendM1"} \cup GameKinds
RowsEdited == Keys \ {"position"}
Messages == [kind : {"LogIn"}, nick : Nicks]
            \cup [kind : PlainKinds]
            \cup [kind : {"SetPos"}, to : Data]
            \cup [kind : EditKinds, key : RowsEdited, to : Data]

\* A player: its rows as they are now and as they were last stored.
Players == [conn : Conns, cur : [Keys -> Data],
            last : [RowsEdited -> RowsEdited \X Data]]
\* A connection that waits for the rows of its player, and those that came.
Waiting == [conn : Conns, got : [Keys -> Data \cup {None}]]
\* The states of a log in that hold a nick.
LogIns == [state : {"NewUser", "WaitingForM1"}, nick : ValidNicks]
\* An account: its nick, and the connection that created it in this run.
Accounts == [name : ValidNicks, by : Conns \cup {None}]

ASSUME SessionAssumption ==
    /\ Ids \subseteq ValidNicks /\ ValidNicks \subseteq Nicks
    /\ Lower \in [ValidNicks -> Ids]
    /\ \A id \in Ids : Lower[id] = id
    /\ Password \in [Conns -> Ids \cup {None}]
    /\ Keys \subseteq KvKeys /\ Keys # {}
    /\ Default \in Data
    /\ \A s \in Situations :
          /\ s.registered \subseteq ValidNicks
          /\ \A m, n \in s.registered : Lower[m] = Lower[n] => m = n
          /\ s.hashless \subseteq Ids
          /\ s.script \in [Conns -> Seq(SUBSET Messages)]
    /\ QueueBound \in Nat
    /\ Flaky \subseteq Conns
    /\ None \notin Ids \cup Conns \cup Data \cup Nicks
    /\ None \notin Players \cup Waiting \cup LogIns \cup Accounts

VARIABLES
    pc,         \* the phase of Server::tick
    panic,      \* why the server thread panicked, or "no"
    fresh,      \* connections no client has opened yet
    backlog,    \* srv_socket: opened, not accepted
    inbox,      \* per connection: messages the reader task has passed on
    readers,    \* connections whose reader task runs
    writers,    \* connections whose writer task runs: send succeeds
    script,     \* per connection: what its client may still send
    auth,       \* unauthenticated_players: connection |-> its AuthState
    todo,       \* connections handle_auth_msgs still has to poll
    turn,       \* players this phase's loop still has to serve
    verdict,    \* conns_to_remove: connection |-> its Verdict
    waiting,    \* players_waiting_for_kv
    joining,    \* players_to_add of handle_players_waiting_for_kv
    players,    \* players
    posDue,     \* INTERVAL_MILLIS have passed since positions were stored
    msgs,       \* the messages get_msgs collected
    closing,    \* conns_to_close of get_msgs
    requests,   \* area_s: SetPlayerKv and GetPlayerKv for the mapgen thread
    results,    \* result_kv_r: its answers
    rows,       \* player_kvstore as the mapgen thread's backend reads it
    accounts,   \* player_name_id_map: id |-> name and creator (history)
    hashed,     \* player_pw_hashes
    superseded  \* history: ids whose waiting entry was replaced by a later one:
                \* answers to the requests of both may be on their way, and
                \* reach a session that they are too old for

netVars == <<fresh, backlog, inbox, readers, writers, script>>
authVars == <<auth, todo, verdict, accounts, hashed>>
kvVars == <<requests, results, rows>>
vars == <<pc, panic, netVars, authVars, turn, waiting, joining, players,
          posDue, msgs, closing, kvVars, superseded>>

Unauthenticated == [state |-> "Unauthenticated", nick |-> None]
AddAsPlayer(id) == [kind |-> "AddAsPlayer", id |-> id]
LogInFail == [kind |-> "LogInFail", id |-> None]
Close == [kind |-> "Close", id |-> None]

-----------------------------------------------------------------------------
Init ==
    /\ pc = "send" /\ panic = "no"
    /\ fresh = Conns /\ backlog = {}
    /\ inbox = [c \in Conns |-> << >>]
    /\ readers = {} /\ writers = {}
    /\ auth = [c \in Conns |-> None]
    /\ verdict = [c \in Conns |-> None]
    /\ todo = {} /\ turn = {}
    /\ waiting = [id \in Ids |-> None]
    /\ players = [id \in Ids |-> None]
    /\ joining = << >> /\ msgs = << >> /\ closing = {}
    /\ posDue = FALSE
    /\ requests = << >> /\ results = << >>
    /\ rows = [id \in Ids |-> [k \in Keys |-> Default]]
    \* Accounts of earlier runs; a crash between the two INSERTs of add_player
    \* leaves one without a password hash.
    /\ \E s \in Situations :
          /\ script = s.script
          /\ accounts = [id \in Ids |->
                IF \E n \in s.registered : Lower[n] = id
                THEN [name |-> CHOOSE n \in s.registered : Lower[n] = id, by |-> None]
                ELSE None]
          /\ hashed = {id \in Ids : accounts[id] # None} \ s.hashless
    /\ superseded = {}

Live == panic = "no"
At(phase) == Live /\ pc = phase

Playing == {id \in Ids : players[id] # None}

\* The server drops these connections: their tasks end, their channels with
\* what is in them are gone.
Drop(cs) ==
    /\ readers' = readers \ cs
    /\ writers' = writers \ cs
    /\ inbox' = [c \in Conns |-> IF c \in cs THEN << >> ELSE inbox[c]]
    /\ UNCHANGED <<fresh, backlog, script>>

ConnOf(ids) == {players[id].conn : id \in ids \cap Playing}

CloseConnections(ids) ==
    /\ players' = [id \in Ids |-> IF id \in ids THEN None ELSE players[id]]
    /\ Drop(ConnOf(ids))

\* The players a send to fails for.
Broken == {id \in Playing : players[id].conn \notin writers}

\* An unwrap fails: the server thread is gone.
Panic(why) ==
    /\ panic' = why
    /\ UNCHANGED <<pc, netVars, authVars, turn, waiting, joining, players,
                   posDue, msgs, closing, kvVars, superseded>>

\* The requests of one player's rows, in the order of the code.
Request(op, id, key, value) ==
    IF key \in Keys
    THEN <<[op |-> op, id |-> id, key |-> key, value |-> value]>>
    ELSE << >>
\* Mutant: one of the rows is not asked for.
GetsWithoutInventory(id) == Request("get", id, "position", None)
                            \o Request("get", id, "craft_inventory", None)
                            \o Request("get", id, "slow_states", None)
Gets(id) == Request("get", id, "position", None)
            \o Request("get", id, "inventory", None)
            \o Request("get", id, "craft_inventory", None)
            \o Request("get", id, "slow_states", None)

-----------------------------------------------------------------------------
(* Clients, network tasks and the map generation thread. *)

\* Who connects has something to say.
Open(c) ==
    /\ Live /\ c \in fresh
    /\ script[c] # << >>
    /\ fresh' = fresh \ {c}
    /\ backlog' = backlog \cup {c}
    /\ readers' = readers \cup {c}
    /\ writers' = writers \cup {c}
    /\ UNCHANGED <<inbox, script, pc, panic, authVars, turn, waiting, joining,
                   players, posDue, msgs, closing, kvVars, superseded>>

ClientSend(c) ==
    /\ Live /\ c \in readers
    /\ script[c] # << >>
    /\ \E m \in Head(script[c]) :
          inbox' = [inbox EXCEPT ![c] = Append(@, m)]
    /\ script' = [script EXCEPT ![c] = Tail(@)]
    /\ UNCHANGED <<fresh, backlog, readers, writers, pc, panic, authVars, turn,
                   waiting, joining, players, posDue, msgs, closing, kvVars,
                   superseded>>

ReaderEnds(c) ==
    /\ Live /\ c \in readers \cap Flaky
    /\ readers' = readers \ {c}
    /\ UNCHANGED <<fresh, backlog, inbox, writers, script, pc, panic, authVars,
                   turn, waiting, joining, players, posDue, msgs, closing,
                   kvVars, superseded>>

WriterEnds(c) ==
    /\ Live /\ c \in writers \cap Flaky
    /\ writers' = writers \ {c}
    /\ UNCHANGED <<fresh, backlog, inbox, readers, script, pc, panic, authVars,
                   turn, waiting, joining, players, posDue, msgs, closing,
                   kvVars, superseded>>

\* Mutant: reads overtake the queued writes.
ServeReadsFirst ==
    /\ Live /\ requests # << >>
    /\ LET gets == {i \in 1..Len(requests) : requests[i].op = "get"}
           n == IF gets = {} THEN 1 ELSE CHOOSE i \in gets : \A j \in gets : i <= j
           r == requests[n]
       IN  /\ requests' = SubSeq(requests, 1, n - 1)
                           \o SubSeq(requests, n + 1, Len(requests))
           /\ IF r.op = "get"
              THEN /\ results' = Append(results,
                        [id |-> r.id, key |-> r.key, value |-> rows[r.id][r.key]])
                   /\ UNCHANGED rows
              ELSE /\ rows' = [rows EXCEPT ![r.id][r.key] = r.value]
                   /\ UNCHANGED results
    /\ UNCHANGED <<pc, panic, netVars, authVars, turn, waiting, joining,
                   players, posDue, msgs, closing, superseded>>

\* The mapgen thread serves one request.
ServeRequest ==
    /\ Live /\ requests # << >>
    /\ requests' = Tail(requests)
    /\ LET r == Head(requests) IN
       \/ /\ r.op = "get"
          /\ results' = Append(results,
                [id |-> r.id, key |-> r.key, value |-> rows[r.id][r.key]])
          /\ UNCHANGED rows
       \/ /\ r.op = "set"
          /\ rows' = [rows EXCEPT ![r.id][r.key] = r.value]
          /\ UNCHANGED results
    /\ UNCHANGED <<pc, panic, netVars, authVars, turn, waiting, joining,
                   players, posDue, msgs, closing, superseded>>

-----------------------------------------------------------------------------
(* tick: sends to the players, the map's changes, new connections. *)

\* send_chunks_to_players and send_positions_to_players.
SendPositions ==
    /\ At("send")
    /\ CloseConnections(Broken)
    /\ pc' = "map"
    /\ UNCHANGED <<panic, authVars, turn, waiting, joining, posDue, msgs,
                   closing, kvVars, superseded>>

\* map.tick: a generated chunk is sent to every player by on_change.
MapTick ==
    /\ At("map")
    /\ \E arrived \in BOOLEAN : CloseConnections(IF arrived THEN Broken ELSE {})
    /\ pc' = "accept"
    /\ UNCHANGED <<panic, authVars, turn, waiting, joining, posDue, msgs,
                   closing, kvVars, superseded>>

\* try_open_conn until there is none; every connection not yet logged in is
\* then polled.
Accept ==
    /\ At("accept")
    /\ auth' = [c \in Conns |->
                  IF c \in backlog THEN Unauthenticated ELSE auth[c]]
    /\ todo' = {c \in Conns : auth'[c] # None}
    /\ backlog' = {}
    /\ pc' = "auth"
    /\ UNCHANGED <<fresh, inbox, readers, writers, script, panic, verdict,
                   accounts, hashed, turn, waiting, joining, players, posDue,
                   msgs, closing, kvVars, superseded>>

-----------------------------------------------------------------------------
(* handle_auth_msgs: one action per message received. *)

Take(c) == inbox' = [inbox EXCEPT ![c] = Tail(@)]

\* c's next message is of this kind.
Receives(c, kinds) ==
    /\ At("auth") /\ c \in todo
    /\ inbox[c] # << >>
    /\ Head(inbox[c]).kind \in kinds

\* verdict!: c is done with for this pass.
Decide(c, v) ==
    /\ verdict' = [verdict EXCEPT ![c] = v]
    /\ todo' = todo \ {c}

\* Mutant: who plays already is not looked at.
AddAnyway(id) == AddAsPlayer(id)

AddUnlessPlaying(id) ==
    IF id \in Playing THEN LogInFail ELSE AddAsPlayer(id)

\* get_player_id: it compares the lower-case nick with the nick as it was
\* registered.
IsRegistered(nick) ==
    /\ accounts[Lower[nick]] # None
    /\ accounts[Lower[nick]].name = Lower[nick]

AuthUnchanged ==
    UNCHANGED <<fresh, backlog, readers, writers, script, pc, panic, turn,
                waiting, joining, players, posDue, msgs, closing, kvVars,
                superseded>>

LogIn(c) ==
    /\ Receives(c, {"LogIn"})
    /\ Take(c)
    /\ LET nick == Head(inbox[c]).nick IN
       \/ /\ nick \notin ValidNicks
          /\ Decide(c, LogInFail)
          /\ UNCHANGED auth
       \/ /\ nick \in ValidNicks /\ IsRegistered(nick)
          /\ Lower[nick] \in hashed
          /\ auth' = [auth EXCEPT ![c] =
                        [state |-> "WaitingForM1", nick |-> nick]]
          /\ UNCHANGED <<verdict, todo>>
       \/ /\ nick \in ValidNicks /\ IsRegistered(nick)
          /\ Lower[nick] \notin hashed
          /\ Decide(c, LogInFail)
          /\ UNCHANGED auth
       \/ /\ nick \in ValidNicks /\ ~IsRegistered(nick)
          /\ auth' = [auth EXCEPT ![c] = [state |-> "NewUser", nick |-> nick]]
          /\ UNCHANGED <<verdict, todo>>
    /\ UNCHANGED <<accounts, hashed>> /\ AuthUnchanged

\* add_player: UNIQUE(lcname) makes the INSERT fail, which is unwrapped, when
\* the nick is registered by now or registered in another spelling.
SendHash(c) ==
    /\ Receives(c, {"SendHash"})
    /\ LET id == Lower[auth[c].nick] IN
       \/ /\ auth[c].state = "NewUser" /\ accounts[id] = None
          /\ accounts' = [accounts EXCEPT ![id] =
                            [name |-> auth[c].nick, by |-> c]]
          /\ hashed' = hashed \cup {id}
          /\ Decide(c, AddUnlessPlaying(id))
          /\ Take(c)
          /\ UNCHANGED auth /\ AuthUnchanged
       \/ /\ auth[c].state = "NewUser" /\ accounts[id] # None
          /\ Panic("account")
       \/ /\ auth[c].state # "NewUser"
          /\ Decide(c, LogInFail)
          /\ Take(c)
          /\ UNCHANGED <<auth, accounts, hashed>> /\ AuthUnchanged

\* Mutant: the proof is not verified.
SendM1Unverified(c) ==
    /\ Receives(c, {"SendM1"})
    /\ Take(c)
    /\ Decide(c, IF auth[c].state = "WaitingForM1"
                 THEN AddUnlessPlaying(Lower[auth[c].nick]) ELSE LogInFail)
    /\ UNCHANGED <<auth, accounts, hashed>> /\ AuthUnchanged

\* The proof is good when the client knows the password of the account it
\* named.
SendM1(c) ==
    /\ Receives(c, {"SendM1"})
    /\ Take(c)
    /\ LET id == Lower[auth[c].nick] IN
       \/ /\ auth[c].state = "WaitingForM1" /\ Password[c] = id
          /\ Decide(c, AddUnlessPlaying(id))
       \/ /\ auth[c].state = "WaitingForM1" => Password[c] # id
          /\ Decide(c, LogInFail)
    /\ UNCHANGED <<auth, accounts, hashed>> /\ AuthUnchanged

\* All other messages are ignored while the log in is going on.
IgnoreEarly(c) ==
    /\ Receives(c, {"SetPos"} \cup GameKinds \cup EditKinds)
    /\ Take(c)
    /\ UNCHANGED <<auth, todo, verdict, accounts, hashed>> /\ AuthUnchanged

NothingLeft(c) ==
    /\ At("auth") /\ c \in todo /\ inbox[c] = << >>
    /\ \/ /\ c \in readers
          /\ todo' = todo \ {c}
          /\ UNCHANGED verdict
       \/ /\ c \notin readers
          /\ Decide(c, Close)
    /\ UNCHANGED <<inbox, auth, accounts, hashed>> /\ AuthUnchanged

AuthPolled ==
    /\ At("auth") /\ todo = {}
    /\ pc' = "verdicts"
    /\ UNCHANGED <<panic, netVars, authVars, turn, waiting, joining, players,
                   posDue, msgs, closing, kvVars, superseded>>

\* Mutant: rows that were asked for already are not asked for again.
AddPlayerWaitingAsksOnce(c, id) ==
    /\ waiting' = [waiting EXCEPT ![id] =
                     [conn |-> c, got |-> [k \in Keys |-> None]]]
    /\ requests' = IF waiting[id] = None THEN requests \o Gets(id) ELSE requests
    /\ superseded' = superseded \cup
                        (IF waiting[id] = None THEN {} ELSE {id})
    /\ Drop(IF waiting[id] = None THEN {} ELSE {waiting[id].conn})

\* add_player_waiting: a waiting connection of the same player is replaced,
\* and with it dropped.
AddPlayerWaiting(c, id) ==
    /\ waiting' = [waiting EXCEPT ![id] =
                     [conn |-> c, got |-> [k \in Keys |-> None]]]
    /\ requests' = requests \o Gets(id)
    /\ superseded' = superseded \cup
                        (IF waiting[id] = None THEN {} ELSE {id})
    /\ Drop(IF waiting[id] = None THEN {} ELSE {waiting[id].conn})

ApplyVerdict(c) ==
    /\ At("verdicts") /\ verdict[c] # None
    /\ auth' = [auth EXCEPT ![c] = None]
    /\ verdict' = [verdict EXCEPT ![c] = None]
    /\ \/ /\ verdict[c].kind = "AddAsPlayer"
          /\ AddPlayerWaiting(c, verdict[c].id)
       \/ /\ verdict[c].kind # "AddAsPlayer"
          /\ Drop({c})
          /\ UNCHANGED <<waiting, requests, superseded>>
    /\ UNCHANGED <<pc, panic, todo, accounts, hashed, turn, joining, players,
                   posDue, msgs, closing, results, rows>>

VerdictsApplied ==
    /\ At("verdicts") /\ \A c \in Conns : verdict[c] = None
    /\ pc' = "kv"
    /\ UNCHANGED <<panic, netVars, authVars, turn, waiting, joining, players,
                   posDue, msgs, closing, kvVars, superseded>>

-----------------------------------------------------------------------------
(* handle_players_waiting_for_kv and add_player. *)

\* One answer of the mapgen thread.  It goes to whoever waits for that player
\* now, and the last one missing ends the wait.
TakeResult ==
    /\ At("kv") /\ results # << >>
    /\ results' = Tail(results)
    /\ LET r == Head(results)
           w == [waiting[r.id] EXCEPT !.got[r.key] = r.value]
       IN  \/ /\ waiting[r.id] = None
              /\ UNCHANGED <<waiting, joining>>
           \/ /\ waiting[r.id] # None
              /\ \E k \in Keys : w.got[k] = None
              /\ waiting' = [waiting EXCEPT ![r.id] = w]
              /\ UNCHANGED joining
           \/ /\ waiting[r.id] # None
              /\ \A k \in Keys : w.got[k] # None
              /\ waiting' = [waiting EXCEPT ![r.id] = None]
              /\ joining' = Append(joining,
                    [id |-> r.id, conn |-> w.conn, got |-> w.got])
    /\ UNCHANGED <<pc, panic, netVars, authVars, turn, players, posDue, msgs,
                   closing, requests, rows, superseded>>

NoResult ==
    /\ At("kv") /\ results = << >>
    /\ pc' = "join"
    /\ UNCHANGED <<panic, netVars, authVars, turn, waiting, joining, players,
                   posDue, msgs, closing, kvVars, superseded>>

\* What the player is now, and what of it was last written to its rows.  The
\* position is not taken from the row: the player starts at the default one.
FromWaiting(j) ==
    [conn |-> j.conn,
     cur  |-> [k \in Keys |-> IF k = "position" THEN Default ELSE j.got[k]],
     last |-> [k \in RowsEdited |-> <<k, j.got[k]>>]]

\* add_player: its sends are unwrapped.
Join ==
    /\ At("join") /\ joining # << >>
    /\ LET j == Head(joining) IN
       \/ /\ j.conn \in writers
          /\ players' = [players EXCEPT ![j.id] = FromWaiting(j)]
          /\ Drop(ConnOf({j.id}))
          /\ joining' = Tail(joining)
          /\ pc' = "greet"
          /\ UNCHANGED <<panic, authVars, turn, waiting, posDue, msgs, closing,
                         kvVars, superseded>>
       \/ /\ j.conn \notin writers
          /\ Panic("join")

\* "New player joined": handle_chat_msg sends to everybody.
Greet ==
    /\ At("greet")
    /\ CloseConnections(Broken)
    /\ pc' = "join"
    /\ UNCHANGED <<panic, authVars, turn, waiting, joining, posDue, msgs,
                   closing, kvVars, superseded>>

\* Answers about this player are on their way.
AnswersDue(id) ==
    \/ \E i \in 1..Len(requests) : requests[i].op = "get" /\ requests[i].id = id
    \/ \E i \in 1..Len(results) : results[i].id = id

AllJoined ==
    /\ At("join") /\ joining = << >>
    /\ pc' = "store"
    /\ turn' = Playing
    /\ posDue' \in BOOLEAN
    /\ superseded' = {id \in superseded : id \in Playing \/ AnswersDue(id)}
    /\ UNCHANGED <<panic, netVars, authVars, waiting, joining, players, msgs,
                   closing, kvVars>>

-----------------------------------------------------------------------------
(* store_player_kvs and get_msgs. *)

Changed(p, key) == key \in RowsEdited /\ p.last[key] # <<key, p.cur[key]>>

StoreIf(cond, id, key) ==
    IF cond THEN Request("set", id, key, players[id].cur[key]) ELSE << >>

\* The remembered rows after a store.  Storing the crafting inventory
\* overwrites what is remembered of the inventory, not of the crafting
\* inventory.
Remembered(p) ==
    [k \in RowsEdited |->
       IF k = "inventory" /\ Changed(p, "craft_inventory")
       THEN <<"craft_inventory", p.cur["craft_inventory"]>>
       ELSE IF k \in {"inventory", "slow_states"} THEN <<k, p.cur[k]>>
       ELSE p.last[k]]

\* Mutant: the inventories are stored only when the positions are.
StorePlayerOnInterval(id) ==
    /\ At("store") /\ id \in turn
    /\ LET p == players[id] IN
       /\ requests' = requests
            \o StoreIf(posDue, id, "position")
            \o StoreIf(posDue /\ Changed(p, "inventory"), id, "inventory")
            \o StoreIf(posDue /\ Changed(p, "craft_inventory"), id,
                       "craft_inventory")
            \o StoreIf(posDue /\ Changed(p, "slow_states"), id, "slow_states")
       /\ players' = [players EXCEPT ![id].last = Remembered(p)]
    /\ turn' = turn \ {id}
    /\ UNCHANGED <<pc, panic, netVars, authVars, waiting, joining, posDue, msgs,
                   closing, results, rows, superseded>>

\* Positions of all players go out before the inventories in the code; rows of
\* different players do not interfere, so each player is served in one step.
StorePlayer(id) ==
    /\ At("store") /\ id \in turn
    /\ LET p == players[id] IN
       /\ requests' = requests
            \o StoreIf(posDue, id, "position")
            \o StoreIf(Changed(p, "inventory"), id, "inventory")
            \o StoreIf(Changed(p, "craft_inventory"), id, "craft_inventory")
            \o StoreIf(Changed(p, "slow_states"), id, "slow_states")
       /\ players' = [players EXCEPT ![id].last = Remembered(p)]
    /\ turn' = turn \ {id}
    /\ UNCHANGED <<pc, panic, netVars, authVars, waiting, joining, posDue, msgs,
                   closing, results, rows, superseded>>

PlayersStored ==
    /\ At("store") /\ turn = {}
    /\ pc' = "recv"
    /\ turn' = Playing
    /\ UNCHANGED <<panic, netVars, authVars, waiting, joining, players, posDue,
                   msgs, closing, kvVars, superseded>>

\* get_msgs drains one connection before the next.
MayReceive(id) ==
    /\ At("recv") /\ id \in turn
    /\ msgs # << >> /\ msgs[Len(msgs)].from \in turn
          => id = msgs[Len(msgs)].from

Receive(id) ==
    LET c == players[id].conn
        m == Head(inbox[c])
    IN  /\ MayReceive(id) /\ inbox[c] # << >>
        /\ Take(c)
        /\ \/ /\ m.kind = "SetPos"
              /\ players' = IF "position" \in Keys
                            THEN [players EXCEPT ![id].cur["position"] = m.to]
                            ELSE players
              /\ UNCHANGED msgs
           \/ /\ m.kind # "SetPos"
              /\ msgs' = Append(msgs, [from |-> id, msg |-> m])
              /\ UNCHANGED players
        /\ UNCHANGED <<fresh, backlog, readers, writers, script, pc, panic,
                       authVars, turn, waiting, joining, posDue, closing,
                       kvVars, superseded>>

\* Mutant: the end of a connection is not noticed.
ReceivedAllKeepsGhost(id) ==
    /\ MayReceive(id) /\ inbox[players[id].conn] = << >>
    /\ turn' = turn \ {id}
    /\ UNCHANGED <<pc, panic, netVars, authVars, waiting, joining, players,
                   posDue, msgs, closing, kvVars, superseded>>

ReceivedAll(id) ==
    /\ MayReceive(id) /\ inbox[players[id].conn] = << >>
    /\ turn' = turn \ {id}
    /\ closing' = IF players[id].conn \in readers
                  THEN closing ELSE closing \cup {id}
    /\ UNCHANGED <<pc, panic, netVars, authVars, waiting, joining, players,
                   posDue, msgs, kvVars, superseded>>

\* Players whose connection ended are removed; their messages of this tick
\* stay in msgs.
MessagesCollected ==
    /\ At("recv") /\ turn = {}
    /\ CloseConnections(closing)
    /\ closing' = {}
    /\ pc' = "process"
    /\ UNCHANGED <<panic, authVars, turn, waiting, joining, posDue, msgs, kvVars,
                   superseded>>

-----------------------------------------------------------------------------
(* The message loop of tick. *)

\* The next message is of this kind, and is the one being handled.
Handles(kinds) ==
    /\ At("process") /\ msgs # << >>
    /\ Head(msgs).msg.kind \in kinds

Handled ==
    /\ msgs' = Tail(msgs)
    /\ UNCHANGED <<pc, panic, authVars, turn, waiting, joining, posDue, closing,
                   kvVars, superseded>>

sender == Head(msgs).from

Edited(ps, m) == [ps EXCEPT ![sender].cur[m.key] = m.to]

\* players' and the connections after ids were closed, from the players ps.
CloseAfter(ps, ids) ==
    /\ players' = [id \in Ids |-> IF id \in ids THEN None ELSE ps[id]]
    /\ Drop(ConnOf(ids))

\* players.get_mut(&id).unwrap() and players[&id].
SenderIsGone ==
    /\ Handles({"GetHashedBlobs", "Chat"} \cup EditKinds)
    /\ \/ sender \notin Playing
       \* on_change, or the chat message before "gime", closed the sender.
       \/ sender \in Broken /\ Head(msgs).msg.kind \in {"Dig", "ToChest", "Gime"}
    /\ Panic("player")

\* The inventory, then the map and on_change; nothing when the selection is
\* another one, no map change in an unloaded chunk.
Place ==
    /\ Handles({"Place", "Tree"}) /\ sender \in Playing
    /\ \/ CloseAfter(players, {})
       \/ CloseAfter(Edited(players, Head(msgs).msg), {})
       \/ CloseAfter(Edited(players, Head(msgs).msg), Broken)
    /\ Handled

\* spawn_schematic unwraps every block of the tree: one lies in a chunk that is
\* not loaded.
TreeUnloaded ==
    /\ Handles({"Tree"}) /\ sender \in Playing
    /\ Panic("tree")

Edit ==
    /\ Handles({"Edit"}) /\ sender \in Playing
    /\ CloseAfter(Edited(players, Head(msgs).msg), {})
    /\ Handled

\* handle_dig: the map and on_change, or neither in an unloaded chunk; then the
\* drops, unless the block stays, and the inventory is sent back.
Dig ==
    /\ Handles({"Dig"}) /\ sender \in Playing
    /\ \E changed, loaded \in BOOLEAN :
          /\ changed => loaded
          /\ loaded => sender \notin Broken
          /\ CloseAfter(IF changed THEN Edited(players, Head(msgs).msg)
                        ELSE players,
                        IF loaded THEN Broken ELSE Broken \cap {sender})
    /\ Handled

\* A move into a chest, or nothing when there is none or it is not loaded.
ToChest ==
    /\ Handles({"ToChest"}) /\ sender \in Playing
    /\ \/ CloseAfter(players, {})
       \/ /\ sender \notin Broken
          /\ CloseAfter(Edited(players, Head(msgs).msg), Broken)
    /\ Handled

\* A move inside a chest does not touch the player, who may be gone.
InChest ==
    /\ Handles({"InChest"})
    /\ \E changed \in BOOLEAN :
          CloseAfter(players, IF changed THEN Broken ELSE {})
    /\ Handled

\* "/gime" and "/clear": a chat message to the sender, then the inventory.
Gime ==
    /\ Handles({"Gime"}) /\ sender \in Playing \ Broken
    /\ CloseAfter(Edited(players, Head(msgs).msg), {})
    /\ Handled

\* GetHashedBlobs and "/spawn" answer the sender.
Answer ==
    /\ Handles({"GetHashedBlobs"}) /\ sender \in Playing
    /\ CloseAfter(players, Broken \cap {sender})
    /\ Handled

\* chat_msg_for alone ("/info", an unknown command): the sender may be gone.
Info ==
    /\ Handles({"Info"})
    /\ CloseAfter(players, Broken \cap {sender})
    /\ Handled

Chat ==
    /\ Handles({"Chat"}) /\ sender \in Playing
    /\ CloseAfter(players, Broken)
    /\ Handled

\* Log in messages are invalid at this state.
IgnoreLate ==
    /\ Handles({"LogIn", "SendHash", "SendM1"})
    /\ CloseAfter(players, {})
    /\ Handled

EndOfTick ==
    /\ At("process") /\ msgs = << >>
    /\ Len(requests) <= QueueBound
    /\ pc' = "send"
    /\ UNCHANGED <<panic, netVars, authVars, turn, waiting, joining, players,
                   posDue, msgs, closing, kvVars, superseded>>

\* A server thread that panicked does nothing any more.
Dead == ~Live /\ UNCHANGED vars

-----------------------------------------------------------------------------
AuthStep ==
    \/ \E c \in Conns :
          \/ LogIn(c) \/ SendHash(c) \/ SendM1(c)
          \/ IgnoreEarly(c) \/ NothingLeft(c) \/ ApplyVerdict(c)
    \/ AuthPolled
    \/ VerdictsApplied

MessageStep ==
    \/ SenderIsGone \/ Place \/ TreeUnloaded \/ Edit \/ Dig \/ ToChest
    \/ InChest \/ Gime \/ Answer \/ Info \/ Chat \/ IgnoreLate \/ EndOfTick

ServerStep ==
    \/ SendPositions \/ MapTick \/ Accept
    \/ AuthStep
    \/ TakeResult \/ NoResult \/ Join \/ Greet \/ AllJoined
    \/ \E id \in Ids : StorePlayer(id) \/ Receive(id) \/ ReceivedAll(id)
    \/ PlayersStored \/ MessagesCollected
    \/ MessageStep

Next ==
    \/ ServerStep
    \/ ServeRequest
    \/ \E c \in Conns :
          Open(c) \/ ClientSend(c) \/ ReaderEnds(c) \/ WriterEnds(c)
    \/ Dead

Spec == Init /\ [][Next]_vars

\* The server loops over its tick and the mapgen thread over its channel;
\* clients and the network owe nobody anything.
FairSpec == Spec /\ WF_vars(ServerStep) /\ WF_vars(ServeRequest)

-----------------------------------------------------------------------------
(* Types. *)

Phases == {"send", "map", "accept", "auth", "verdicts", "kv", "join", "greet",
           "store", "recv", "process"}
Panics == {"no", "account", "join", "player", "tree"}
Requests == [op : {"get"}, id : Ids, key : Keys, value : {None}]
            \cup [op : {"set"}, id : Ids, key : Keys, value : Data]
Received == [from : Ids, msg : Messages]
Joining == [id : Ids, conn : Conns, got : [Keys -> Data]]
Verdicts == [kind : {"AddAsPlayer"}, id : Ids]
            \cup [kind : {"LogInFail", "Close"}, id : {None}]

NetTypeOK ==
    /\ fresh \subseteq Conns /\ backlog \subseteq Conns
    /\ readers \subseteq Conns /\ writers \subseteq Conns
    /\ inbox \in [Conns -> Seq(Messages)]
    /\ script \in [Conns -> Seq(SUBSET Messages)]

AuthTypeOK ==
    /\ todo \subseteq {c \in Conns : auth[c] # None}
    /\ auth \in [Conns -> {None, Unauthenticated} \cup LogIns]
    /\ verdict \in [Conns -> {None} \cup Verdicts]
    /\ accounts \in [Ids -> {None} \cup Accounts]
    /\ hashed \subseteq Ids

PlayerTypeOK ==
    /\ turn \subseteq Ids /\ closing \subseteq Ids
    /\ waiting \in [Ids -> {None} \cup Waiting]
    /\ players \in [Ids -> {None} \cup Players]
    /\ joining \in Seq(Joining)
    /\ posDue \in BOOLEAN
    /\ msgs \in Seq(Received)
    /\ superseded \subseteq Ids

KvTypeOK ==
    /\ requests \in Seq(Requests)
    /\ results \in Seq([id : Ids, key : Keys, value : Data])
    /\ rows \in [Ids -> [Keys -> Data]]

TypeOK ==
    /\ pc \in Phases /\ panic \in Panics
    /\ NetTypeOK /\ AuthTypeOK /\ PlayerTypeOK /\ KvTypeOK

-----------------------------------------------------------------------------
(* Properties. *)

JoiningIds == {joining[i].id : i \in 1..Len(joining)}
\* A player is in at most one of players_waiting_for_kv, players_to_add and
\* players, although log in looks only into the last of the three, and twice
\* at once in none.
OneSessionPerPlayer ==
    /\ \A id \in Ids :
          /\ waiting[id] # None => id \notin Playing \cup JoiningIds
          /\ id \in JoiningIds => id \notin Playing
    /\ \A i, j \in 1..Len(joining) : joining[i].id = joining[j].id => i = j

\* The row is asked for, or its answer has come and waits to be handed out.
RowDue(id, k) ==
    \/ \E i \in 1..Len(requests) :
          requests[i].op = "get" /\ requests[i].id = id /\ requests[i].key = k
    \/ \E i \in 1..Len(results) : results[i].id = id /\ results[i].key = k

\* Nobody waits in vain: who waits misses a row, for a player is added by the
\* answer that completes its rows, and every row that is missed is due, also
\* when answers to a log in that was replaced are still under way, which carry
\* the same payload as its own (add_player_waiting,
\* handle_players_waiting_for_kv).
MissingRowsAreDue ==
    \A id \in Ids :
       waiting[id] # None =>
          LET missing == {k \in Keys : waiting[id].got[k] = None} IN
          missing # {} /\ \A k \in missing : RowDue(id, k)

\* Whoever waits for a player's rows or plays as that player has shown the
\* password, or created the account itself (handle_auth_msgs).
MayPlay(c, id) ==
    Password[c] = id \/ (accounts[id] # None /\ accounts[id].by = c)
OnlyAuthenticatedPlay ==
    \A id \in Ids :
       /\ waiting[id] # None => MayPlay(waiting[id].conn, id)
       /\ id \in Playing => MayPlay(players[id].conn, id)

\* add_player never takes a player away from a connection that plays: a
\* session ends before the next one of the same player begins.
NoTakeover ==
    [][\A id \in Ids :
          players[id] # None /\ players'[id] # None
             => players'[id].conn = players[id].conn]_vars

\* What a row will hold once the mapgen thread has served what is queued.
SetsOf(id, k) ==
    {i \in 1..Len(requests) : /\ requests[i].op = "set"
                              /\ requests[i].id = id
                              /\ requests[i].key = k}
LastStored(id, k) ==
    LET S == SetsOf(id, k) IN
    IF S = {} THEN rows[id][k]
    ELSE requests[CHOOSE i \in S : \A j \in S : j <= i].value

\* A player starts with what the last session stored, even if those writes are
\* still queued when the rows are asked for (add_player_waiting,
\* handle_players_waiting_for_kv) - unless a log in replaced a waiting one and
\* not all answers are in: they may then reach a session they are too old for.
JoinsWithStoredRows ==
    [][\A id \in Ids \ superseded :
          players[id] = None /\ players'[id] # None =>
             \A k \in RowsEdited : players'[id].cur[k] = LastStored(id, k)]_vars

\* The comment of store_player_inventories (server.rs:546) promises that the
\* inventories are stored at each update: once the players are stored, every
\* row is on its way to the database with the value the player has; but for that
\* of the crafting inventory, which is compared with the wrong copy, and for a
\* player that began with rows that were too old.
IsStored(k) ==
    At("recv") => \A id \in Playing \ superseded :
                     players[id].cur[k] = LastStored(id, k)
InventoryIsStored ==
    \A k \in RowsEdited \ {"craft_inventory"} : IsStored(k)

\* The unwraps of the message handlers assert that the following never happens.
SenderIsAPlayer == panic # "player"

\* A player that waits for its rows gets to play, whoever asked for them, if
\* the server lives.
WaitingPlayersJoin ==
    \A id \in Ids : waiting[id] # None ~> (id \in Playing \/ ~Live)

\* A player whose connection ended does not stay: get_msgs notices.
GhostsLeave ==
    \A id \in Ids, c \in Conns :
       (id \in Playing /\ players[id].conn = c /\ c \notin readers)
          ~> (~Live \/ id \notin Playing \/ players[id].conn # c)
=============================================================================
