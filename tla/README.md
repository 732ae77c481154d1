# Verification of mimas

mimas is a voxel game: a server that owns a world of block chunks, and clients
that connect to it over QUIC (or in process, in single player mode). This
directory holds TLA+ modules that model the parts of it in which interleavings,
crashes and ordering matter, the TLC configurations that check them, and proofs
that TLAPS checks. `PROJECT.json` maps each definition to the lines it models.

## The system

| Component | State it keeps | Operations | Talks to |
|---|---|---|---|
| Server sessions (`mimas-server/server.rs`) | `auth_state`, `players_waiting_for_kv`, `players` | the server thread's tick: accept, log in, wait for rows, join, store rows, collect and handle messages, remove | transport (channels), map and mapgen thread (channel), accounts (calls) |
| Accounts (`mimas-common/local_auth.rs`) | SQLite tables `player_name_id_map`, `player_pw_hashes` | `get_player_id`, `add_player`, `get_player_pwh` | called by the log in |
| QUIC transport (`quic_net.rs`) | per connection one reader task, one writer task, two channels | accept, receive, send; each task ends on its own | server thread |
| TCP, in-process (`generic_net.rs`) | partly read message | framing | TCP: offered, but started by no program of the repository; in-process: client, server |
| Mapgen thread (`mapgen.rs`) | chunk cache with generation phases, the storage | `GenArea`, `ChunkChanged`, `Tick`, `SetPlayerKv`, `GetPlayerKv`, strictly in order | map (two result channels), storage (calls) |
| Map (`mimas-common/map.rs`) | loaded chunks with metadata | get/set block and metadata, `tick` takes generated chunks | mapgen thread, `on_change` to clients |
| Storage (`mimas-server/map_storage.rs`) | SQLite file, open transaction, write countdown | store and load chunks, global rows, player rows; `tick` | called by the mapgen thread |
| World meta data (`map_storage.rs`, `game_params.rs`) | seed, mapgen name, name id map | read or written at the start | server start, storage |
| Inventories, crafting (`inventory.rs`, `crafting.rs`) | stacks, selection | put, take, move, merge, swap, craft | server handlers and client menus run the same code |
| Client (`client.rs`, `ui.rs`) | state of the log in, own copy of map, inventory and menus | log in, fetch textures, report the position, predict what the server will do, then be overwritten | server |
| Meshes (`mimas-meshgen/lib.rs`) | queue of the mesh thread | turn a chunk into rectangles | client, by two channels |
| Assets (`assets.rs`) | a directory all clients of a user share | find what is missing, store, load | client; other clients by the files |
| Drawing, collision, configuration, programs | - | - | not modelled |

What is hard in it:

* the server thread polls everything once per tick while two tasks per
  connection, the mapgen thread and all clients run beside it; every step of the
  tick may remove a player that a later step, or a message collected earlier,
  still refers to;
* a log in passes through three tables, with answers from the mapgen thread
  matched to it by player, key and payload only;
* player rows are read and written through one channel, and lag behind the game;
* storage batches writes; a crash loses the tail of them; identity of the world
  (seed, meaning of the block ids) rests on rows of the same file;
* finished chunks are stored, unfinished neighbours are not;
* client and server run the same inventory code on states that drift apart;
* what a player sees is put together from chunks it is sent as it moves and from
  all changes anywhere, with a set of those already sent;
* clients share files, and draw what another thread has made of older chunks.

What makes each part correct: a player is on the server at most once and only
over a connection that proved it knows the password; what a player had when it
left is what it has when it returns; everybody who waits gets in, everybody who
is gone is removed; a crash leaves a prefix of the writes; a world has one seed
and its block ids keep their names; what a player was sent and what it draws is
what the server has; the server does not stop.

## Modules

### DurableLog, SqliteStorage

`SqliteStorage` is `SqliteStorageBackend`: `disk` is the committed file, `table`
what a read sees, `open` and `ctr` the transaction flag and the countdown,
`writing` the write in progress (the transaction bookkeeping of
`maybe_begin_commit` and the insert are separate steps, so a crash can fall
between them), `log` and `durable` history. One action per operation:
`StoreChunk`, `SetGlobalKv`, `SetPlayerKv` (each `BeginWrite` and `Insert`),
`Tick`, `Get`, `Crash`. `DurableLog` is the abstract promise: an ordered log of
writes of which a crash loses at most the last `Window`.

### WorldFile

The start of a server on a world file and the run after it: `OpenDatabase`,
`ManageMapgenMeta` (seed and mapgen name), `LoadNames` and `SaveNames` around
`Extend` (the name id map), then `StoreChunk` and `Tick`, with `Crash` anywhere
and another configuration, or other game parameters, at the next start. It uses
`SqliteStorage` as its storage (an INSTANCE), so what survives is what survives
there.

### Databases

The start of a server before `WorldFile` begins, and the accounts afterwards.
`files` is what the two database files hold (application id, version, tables),
`pc`, `file` and `step` where `backends_from_config` stands. `Open` is
`open_or_create_db` with `expect_user_ver`, `Create` and `Migrate` one statement
of `init_db` or of the migration each, `Refused` and `InMemory` what is done without
a storage, `LogIn`, `SendHash` and `InsertHash` the lookups and the two inserts of
`add_player`. `Stop` may come between any two statements. `nicks` and `hashes`
hold the accounts of the file and of the memory; `cutOff` and `seen` (how many names
there were when a connection was taken for a new player's) are history.

Abstractions: statements succeed (no full disk), SQLite makes each durable; a file
holds application id, version and table names, and of the rows only accounts;
a missing file or one of an old, a newer or another program stands at the start,
and nobody else touches the files. The storage's own rows are in `WorldFile`.

### Session

One server with its players, in multi-player mode. `auth`, `waiting`, `joining`
and `players` are the tables of `Server`; `pc` is where the server thread stands
in its tick; `backlog`, `inbox`, `readers` and `writers` are the channels and tasks
of the connections; `requests`, `results` and `rows` the mapgen thread's queue,
its answers, and the stored rows. Each phase of the tick is an action per item
(one connection polled, one verdict applied, one answer taken, one message
handled), so that connections end, clients send and the mapgen thread works in
between. Removal of a player happens in the same places as in the code: a failed
`send`, a connection that ended, a chunk sent to everybody in `on_change`. A
failed `unwrap` sets `panic`, which ends the run.

Abstractions: the password exchange is one fact per proof (right or wrong); a
player id is the lower-case nick; rows hold a value of a small set `Data`;
positions are stored with the other rows of a player in one step; the world is
left out, except that a place handler may fail to send and a tree may reach into
an unloaded chunk. Polling order within a phase is arbitrary, a superset of the
code's order by index. In single player mode the log in is skipped and the
announcement of players is not sent; that path is not modelled.

### Inventory, Prediction

`Inventory` holds the operators both sides run: `Put`, `TakeN`, `Insert`
(`SelectableInventory::put`), `MergeOrSwap`, `MoveN`, `Rotate`, recipe matching
and `CraftInto`. Counts keep their width (`Width` stands for 2^16).

`Prediction` is one player's inventories twice: `client` with the copy of an open
`menu`, and `server`; two ordered queues between them. A client action changes
its own copy and sends the command; a server action runs the command on its
copy and, for digging and the chat commands, answers with the whole inventory,
which replaces the client's. `drift` is history: it names the ways in which the
copies may really part (an answer that crossed a later command, a click or an
answer undone by the menu's copy, a click on an outdated crafting output, a recipe
for nothing).

Abstractions: the click that picks a stack and the one that puts it down are one
action (the first only notes the slot); every block can be placed; a dig gives
one of `Drops` or nothing, on either side, as client and server may see
different blocks; chests are in the next module.

### Chests

Several players and one chunk. `chunk` is the server's copy, blocks and the
metadata that holds a chest's inventory, and `view` each client's copy of it;
`inv` and `mine` are the inventories on either side, `menu` the copies an open
chest menu works on. The client's half is the mouse handling of `client.rs` and
`maybe_chest_inventory_change!`; the server's is `handle_dig`, `PlaceBlock` and
`handle_inv_move_or_swap` with the handles of `map.rs`, each of whose writes sends
the chunk to all players (`on_change`), so that one action may send it twice.
`drift` is history again: a view is off when the server ignored the command that
was predicted, or the menu hid an update of its chest; the next chunk clears it.

Abstractions: the chunk is loaded and has been sent to everyone, players stay and
keep their selection, a block drops itself, every block can be placed. Crafting
and the chat commands are those of `Prediction`.

### Mapgen

`chunks` is the mapgen thread's map with the generation phases, a partial
function as the `HashMap` is; `disk` and `unsaved` the storage (as
`SqliteStorage` promises: a crash leaves a prefix of the writes, so `Commit`
makes any prefix safe); `requests` and `results` the two channels; `world` the
server's map. `ServeArea` is the whole of `gen_chunks_in_area`, one operator per
loop: `Load`, `SomethingToGenerate` (with its half-open area), `PhaseOne`,
`PhaseTwo`, `Finish`. `Edit` changes a chunk on the server and sends it back,
`Crash` restarts both threads.

Abstractions: chunks lie on a line, since each axis is treated alike; a chunk is
the set of chunks whose trees have grown into it and its last edit; trees reach
into neighbours at most, as the schematics of the repository do.

### MapSync

Which chunks a player has been sent, with the map and the positions behind it.
`players` holds of each `Player` its position, `last_chunk_pos` and
`sent_chunks`; `client` its client with the camera, the position it last
reported, the `SetPos` under way to it, and `told`, the chunks it was sent. `pc`
is the phase of `tick`: `Send` (`gen_chunks_around`, `send_chunks_to_players`,
`send_positions_to_players`), `MapTick` (all that came from the mapgen thread, to
everyone), `Join`, `StorePositions`, `Receive`, `AllReceived`, then one action per
message (`PlaceBlock`, `PlaceTree`, `SenderIsGone`). `OnChange` is the closure
given to `register_on_change`, with the removals it makes. `served` is history.

Abstractions: as in `Mapgen` chunks lie on a line, and a position is its chunk; a
chunk's data is the number of its last change; messages to a client arrive in
order and replace whole chunks, so the last one of each is kept; a request may be
answered in any pieces. A position is reported when it has changed, not in every
frame. The hazards of the log in and of the rows are those of `Session`.

### MsgChannel, TcpFraming

`MsgChannel` is what the server and the client rely on: two ends, messages whole,
once and in order. `TcpFraming` is `TcpMsgStream`: `stream` the bytes given to
`write_all`, of which `written` are in the kernel and `read` taken out at the
other end; `lenArr`, `lenRead`, `cached`, `cachedCount` its fields. `Send` begins a
blocking write, `WriteAll` is any part of it there is room for; `ReadLen` and
`ReadBody` are the two reads of `try_recv_msg`, each of any number of bytes, in
one call if the first completes the length. `Leave` ends a program.

Abstractions: an end either sends or receives, as each has one thread; errors of
`deserialize` cannot occur, as what arrives is what was sent; connecting and
accepting are left out.

### Meshgen, Client

`Meshgen` is `mesh_for_chunk` as operators: the six passes with their axes, offsets
and windings, `Walker`, `blocked`, the textures of unknown blocks, the plants. Next
to it, stated block by block, what is to be seen of a chunk (`VisibleSides`), and
what a rectangle shows (`Squares`, with the side it is seen from by its winding): all
of the former, no square in two rectangles (`Shows`). Coordinates are integers; the code's `f32`
are, up to 2^24.

`Client` is the game loop of several clients of one user: `fate`, `doing` (the
handler a client is in, as those that use files take a step per file), `auth`,
`params`, `spawned`; `map`, `queue`, `results`, `vbuffs` from the chunk received to
the mesh drawn; `files` the cache directory with who wrote a file last. One
action per message, `FindUncached`, `OpenFile`, `WriteFile`, `LoadImage` for the
files, `HandleMouseButtons` for what changes the map, `Mesh` for the mesh thread, `RecvVbuffs`
for the frame that takes its results, `Kill` at any moment. The server is what
a client waits for: answers, and chunks in its own time.

Abstractions: a file is absent, cut off or whole; a mesh is known by the chunk
it was made from, as `mesh_for_chunk` is a function; the client is asked to dig or
to place at a few blocks it can see; inventories are in `Prediction`.

## What the runs check

| Run | Instance | Shows |
|---|---|---|
| `sqlite_storage` | 3 rows, 2 values, transactions of 2 (+1), 5 writes, crashes anywhere | reads see every write; a crash leaves a prefix; a transaction is bounded; refinement of `DurableLog` |
| `world_file` | 2 seeds, 4 game params files, 2 chunks, 6 writes, limit of 4 names | one seed per world; block ids keep their names, across crashes and changed files |
| `session` | 3 connections, 2 spellings of one nick and an invalid one, right, wrong and out-of-order proofs; and 2 players with every kind of message over connections that may end at any step | one session per player, authentication, no takeover; nobody waits for rows that are not due |
| `session_return` | 1 player over 2 connections, edits of 2 inventories, slow mapgen thread, fairness | the inventory is stored; who returns finds it; who waits gets in; who is gone is removed |
| `prediction` | 2+4 slots, 3 items, 2 recipes, limit 2, 3 commands, 4 starting inventories | copies agree but for the named races; items are conserved; crafting uses its inputs |
| `chests` | 2 players (symmetric), 1 position, a chest of 1 stack, inventories of 1 stack, limit 2, 3 commands, 8 starts | views agree with the server but for the named gaps; a chest has its inventory; no item is lost or doubled |
| `databases` | 2 connections, 3 spellings of 2 nicks, 2 passwords, every pair of starting files; finite as it is | no server runs on half a file, mixes kept with lost data or touches a foreign file; who enrols was new at the log in; accounts are kept |
| `mapgen` | 8 chunks, 3 overlapping areas, trees into every neighbour, 2 edits, 1 crash, 2 requests under way | trees find their chunks and grow whole; edits survive; storage is current; areas arrive |
| `map_sync` | 2 players, 3 chunks, 2 of them to go to, trees into 2 chunks, 1 connection that may end, 2 log ins, 1 move or order, fairness | what was sent is current; nothing around a player is missing; who stays sees the world; rows catch up |
| `client` | 1 client with every content of 5 cells; 1 that enrols, gets 2 chunks, one twice, and edits; 2 that share an empty cache of 2 files, 1 of them killed at any step; fairness | what is drawn is current and exact; only another client spoils a texture; all that is sent is shown |
| `tcp_framing` | 3 messages of 1 to 3 bytes, a length of 2, 3 bytes of buffer, 2 messages each way, fairness | refinement of `MsgChannel`; no message stays half read |
| `session_sender` | 2 players with every kind of message | violated: see the findings |

Why the bounds are enough. *Storage*: with transactions of 2, five writes fill
one transaction, commit it and fill another, so that a crash can fall on every
value of the countdown; more writes repeat this. *World*: six writes are the
three rows of a first start, and one chunk or a second map of names in later
ones; the files add, drop and reorder names up to and past the limit.
*Session*: a race in the log in needs one who plays or waits and one who comes,
with the password, and the third connection is one that does not know it; nicks other than that of one player and an
invalid one do not interact, as every table is indexed by player. `QueueBound`
only limits how far the clients and the server run ahead of the mapgen thread
(a tick begins only when its queue is short), never what is in the queue.
`Situations` are the starts: who has an account, which connections there are, and
for each a script that limits what it sends, in number and kind; each position of
a script is a set of messages it chooses from. `Flaky` are the connections that
may end; where it is empty the run is about log ins and not about ends.
*Prediction*: three commands are one that the other side has handled, one under
way and one more, beside any delivery; a stack above the limit, a full
inventory and a square with one cell too many are among the starts.
*Chests*: three commands are two of one player's that cross one of the other's,
enough for a move in a menu that is stale, and for a dig, a placement and a move
at one position; with stacks of two and inventories of one, each move meets a full,
a fitting or a foreign stack.
*Mapgen*: three areas overlap such that a chunk is met absent, in phase one and
two as the margin of another area, finished, and loaded; areas are two chunks
long since the half-open check makes the last one special; one crash suffices
to have stored and unstored neighbours.

*MapSync*: the second log in meets a world the first has changed, or is the first
one's own return; one move takes a player to where the other one's area
ends; one order is a block or a tree, near the other player or not, and before
or after it was sent the chunk. The origin is one of the places, since
`last_chunk_pos` starts there. *Client*: the five cells are a row of three (a
rectangle that begins, changes and ends), a neighbour and one above, with
every kind of block; two clients and one kill are what a clash takes, two files
let a check of one and a write of the other interleave. *TcpFraming*: lengths and
bodies of several bytes are split at every place; the second message follows the
first within a read or apart from it; the longest with its length is longer than
the buffers.

`CHECK_DEADLOCK FALSE` stands in the configurations of `prediction`, `chests`,
`mapgen`, `map_sync`, `client` and `tcp_framing`, where the system stops when commands,
edits, moves, messages and requests are used up (or a program has ended or panicked). The session runs check deadlock: a server that lives
can always go on with its tick, one that has panicked stutters (`Dead`).

### Fairness

`Session!FairSpec` has weak fairness of `ServerStep` (the server thread loops
over `tick` in `run_loop` and none of its steps blocks) and of `ServeRequest`
(the mapgen thread loops on its channel). Clients and the network's tasks owe
nothing, and connections may stay silent forever. A player's messages
are read until none is left, so a tick ends because clients stop sending for a
moment (scripts are finite; a client that outruns the server is not modelled); that `WaitingPlayersJoin` and `GhostsLeave` hold
under this is what `session_return` shows. `GhostsLeave` needs the server to read
from the player, which it does in each tick.

`MapSync!FairSpec` has weak fairness of the tick, of the generation of every area
asked for, and of each connected client's loop, which takes its messages and sends
its position in every frame; strong fairness of `StorePositions(TRUE)`, as it is
due again and again by the clock while ticks are what makes it possible. Its
liveness is about a player that stays: nobody need move or come back.
`Client!FairSpec` has weak fairness of the loop's handlers, of the frame that
takes meshes, of the mesh thread and of the server; players need not do anything.
`TcpFraming!FairSpec` has weak fairness of each end's next read or write: both
poll in their loops, and the kernel moves bytes while there is room.

### Findings

One run is one that TLC finds violated; `PROJECT.json` quotes the lines. A message
whose sender was removed between `get_msgs` and its turn stops the server at an
`unwrap` (`session_sender`; the same step is in `MapSync`).

Facts met on the way that are modelled as the code has them and have no run of
their own: the crafting inventory is compared with the wrong last copy, since
storing it updates the field of the main inventory, and one that returns to what
it was at the join is not stored (so `InventoryIsStored` is about the main one); a
chunk loaded as finished may have neighbours that were never generated, against
the comment on `GenerationPhase::Done`, and then trees are cut at the border
(`TreesGrowWhole` leaves loaded neighbours out); a nick can look new at `LogIn` and be registered when the hash comes,
because the lookup compares the lower-case nick with the nick as registered, and
because it is not repeated, and the unwrapped `INSERT` then stops the server
(`SendHash` of `Databases`, panic `"account"` of `Session`;
`EnrolmentsAreNew` says that there is no third way to it); a database whose
creation was cut off is never completed, and a server then does without storage or
panics, by where the cut fell; an account whose second insert was cut off has no
hash and cannot log in any more (`AccountsAreKept` says only that no other account
suffers); the presence check of the log in does not look at players who wait
for their rows, so a second log in replaces the first, and answers for the first
may reach it, or come later still and give a third session rows that are too old,
which are stored only when they change again (`superseded` in `Session`;
`JoinsWithStoredRows` and `InventoryIsStored` leave such a player out); a transaction holds one write more than
`WRITES_PER_TRANSACTION`; a name id map of 255 names is saved but not loaded
again; the nick announcement and a tree at the edge of the loaded world are
further unwraps (panics `"join"` and `"tree"`); a move of one item from a stack
above the limit, which `/gime` makes, loses items; a crafting output clicked
twice between two frames gives the client an item the server does not give; a recipe
whose output is `""`, which the game parameters may have, uses up its inputs on the
server and not on the client (`"no output"` in `Prediction`, found when the proof asked
for it); an
inventory the server sends to override a mistaken prediction (the comment in
`handle_dig`) is undone by an open menu, which writes its own copy back in every
frame (`"answer undone"` in `Prediction`, `"hidden"` in `Chests`); a refused
`PlaceBlock` is not answered, so the block stays in the client's view
(`"ignored"`); a chest placed where a full one stands buries what is in it; a
player that leaves before its client was told where it is has the default
position stored over its row; a client that reports the origin before the first
tick that sees it is not sent the chunks around it until it moves on
(`last_chunk_pos` starts there); a client finds the end of its connection only by
messages that do not come: an error of `try_recv` ends the loop over messages
quietly, and over TCP a read of 0 bytes is taken for nothing having come; two TCP
ends that have both filled the buffers wait for each other forever (`Clinch`); a
client that loads a texture while another one writes it fails (`LoadImage`); one
that places a block before one seen through a chunk not received fails (`Edit`),
and so does one whose player opens the inventory before the game parameters came
(`OpenInventory`).

## What is proved

All for every value of the constants that satisfies the assumptions of the
modules, by TLAPS.

`RefinementProofs`, of `SqliteStorage`. `BackendInv` is the conjunction of the type invariant,
`Accounting`, `ReadsSeeEveryWrite` and `DiskIsAPrefix`. `Accounting` is the
strengthening: the writes since the last commit plus the countdown never exceed
the bound, and a write in progress leaves room for itself; without it
`TransactionBound` is not inductive. The lemmas on logs, `ReflectsAppend` and
`PrefixFacts`, say what an append does to "the last write of a key" and to a
prefix. Theorems: `TypeCorrect`, `ReadsAreCurrent`, `CrashLeavesAPrefix`,
`TransactionsAreBounded`, `Refinement` (of `DurableLog`).

`RefinementProofs`, of `TcpFraming`. `FramingInv` says of each direction that the
stream is the frames of what was sent, each where the one before it ends
(`Framed`), and that the reader stands in the first it has not got (`Reading`): the
bytes it has read since its start are the part of the length, or the length and the
part of the body (`Begun`), that its fields hold. The lemmas are on sequences: what
a frame appended leaves of the earlier ones (`FrameAppended`), what a read writes
into a buffer (`Spliced`), and that a whole buffer is the message. A step then maps to
a step of `MsgChannel` or to none: `Send` to its send, the `ReadBody` that ends a
message to its delivery. Theorem: `FramingRefines`.

`SessionProofs`. `SessionInv` is `TypeOK /\ PhaseInv /\ SafetyInv`. `PhaseInv`
says which of the tick's loops may have work left in which phase, so that the
steps of one phase cannot meet the leftovers of another. `SafetyInv` adds to
`OneSessionPerPlayer` and `OnlyAuthenticatedPlay` the fact that a verdict to add a
player stays good until it is applied (`VerdictInv`): nobody starts to play
between the presence check and the change of tables, because joining happens
in a later phase. Theorems: `TypesAreCorrect`, `SessionsAreUnique`,
`AuthenticationIsNeeded`, `PlayersAreNotTakenOver`.
For the rows, `RowsInv` says of every player that is not superseded: a question
or an answer for a row is under way only to one who waits for it, there is one
of them, and no write is queued behind the question; the answer, what has come of
a wait and what joins is what the row will hold (`Holds`: the last write queued, or
else what is stored); and what a player's row was remembered as is what was stored
of it, but for the crafting inventory. `MissingIsDue`, for superseded players too,
says that who waits misses a row that is on its way, so that a wait that has ended
leaves nothing behind and the player may be counted again. It is also what liveness
needs of the tables, and is proved where liveness itself cannot be: `MissingRowsAreDue`,
the property of `session`, is the half of `WaitingPlayersJoin` (checked by
`session_return`) that is safety. Theorems: `InventoriesAreStored`,
`ReturningPlayersFindTheirRows`, `NobodyWaitsInVain`.

`MapgenProofs`. `MapgenInv` says of the generated chunks, besides their shape:
a chunk in phase two has grown its trees into every chunk it reaches (`Grown`),
and what reaches into a chunk finished in this run is in phase two
(`Surrounded`). Each loop of `gen_chunks_in_area` has a lemma that it keeps both;
`Margins` is where the margins of two and one chunks meet the reach of a tree.
The queues and the storage are not needed: whatever `load_chunk` gives, the
result holds. Theorems: `SchematicsSafe`, `TreesWhole`.
`DeliveryInv` adds where a chunk is (`Placed`): away, when the thread has not
finished it, and then nothing is on its way; coming, when one result brings it as it
is stored; or there, with its last edit, and then the storage has the same or the
last of the changes on their way brings it. The second is what keeps an old chunk
from coming over an edited one. The lemmas say what a write, a commit of some of
the writes (`FoundCommit`), a request read or sent do to these; that the loops send
each chunk once is `InOrderLists`, and `ServeGenerates` that what is generated was
neither stored nor edited. `AbsentAssumption` keeps "no chunk" apart from every
chunk. Theorems: `EditsKept`, `StorageCurrent`, `ServedAreasArrive`.

`FilesProofs`, of `Databases`. `FilesInv` ties what a file holds to where its start stands
(`StartInv`: while it is created or migrated, exactly what the statements so far
made) and to its version (`WholeInv`: a current file not cut off has every table);
without the former, the last statement of a creation could leave anything.
`AccountsInv` says that the id between the two inserts is the last one and has no
hash yet, so that the second insert overwrites nothing, and that a connection that
enrols has seen no more names than there are (`EnrolmentsKnowTheNames`), so that a
name added now is one it has not seen. Theorems: `FilesAreWhole`,
`KeptTogether`, `ForeignFilesStay`, `EnrolmentsStayNew`, `AccountsStay`. None of them
needs the assumption that `Lower` is idempotent.

`MapSyncProofs`. `MapSyncInv` is the type invariant, `stored = world`, and
`Tables`, which relates players, clients and map: a player is one whose connection
has passed `add_player`; who is none has been sent nothing; and the two properties
themselves. The first two are what makes a join safe, where an empty set of sent
chunks must meet a client that has seen none. The lemmas follow the code: a
removal (`RemovalKeepsTables`), `on_change` (`OnChangeKeeps`), a step of a client,
and one per phase of the tick. Theorems: `TypesCorrect`, `SentStaysCurrent`,
`NothingStaysMissing`.

`FilesProofs`, of `WorldFile`. A write is pending over several steps and a crash takes back any
of what is not committed, so `OneSeedInv` says of the disk and of the table alike
that a chunk is there only beside its seed (`Sealed`), and which write may be
pending in which phase of a start (`Pending`). `NamesInv` adds the same for the names
(`Named`: the id of a stored chunk stands in the stored list for the name it was
stored with), that the list in memory goes on where the stored one ends
(`NamesExtend`), and that a server that runs has stored its list. `RowsAssumption`
keeps "no row" apart from every row. That `Extend` makes a list of names, and only
goes on, rests on each new name having its place (`KthExists`): the least one up to
which there are as many, by the library's well-founded order.
`WorldInv` adds the types and that the names fit the ids, which with `NamesInv` makes
every write one of the kind its row is of (`WritesFit`): a world is one of the behaviours
of `SqliteStorage`, and what `RefinementProofs` shows of that holds for it.
Theorems: `WorldHasOneSeed`, `StoredBlocksKeepTheirNames`, `WorldTypesAreCorrect`,
`WorldsRunOnTheBackend`.

`ChestsProofs`. `ViewsInv` follows the chunk along the queues: the last one under
way to a client is the server's; and where none is under way, the view is the
server's chunk as long as nothing but moves among the player's own slots is under way
the other way and no gap has been noted in `drift`. A step of one player
sends the chunk to the others, which is why their half holds again at once.
`StartAssumption` says what the chunks and inventories of a start are.
`ChestsTyped` says what is in the server's slots, in the chests and in the
commands, and gives, with the lemmas below, the two properties of the server's own
half: a chest has an inventory after each of the writes that one command makes, and
what the players carry and what the chests hold balances (`SumChanges`: one player's
or one chest's share changes at a time; `TwoChange` and `Balanced`: one slot against
another, in different inventories or in the same). Theorems: `ClientsSeeTheServer`,
`ChestsAreReachable`, `ItemsArePreserved`.

The last needed the model to say more and the property to say less:
`ItemsAreKept` spoke of no loss at all, which holds where stacks are within the
limit; one above it, as `/gime` makes, is cut by a merge, so a loss is
excluded only from states in which none is (`NoneAboveLimit`).

`InventoryProofs`, of `Inventory`: the lemmas on totals. A total is a fold (`SumIsAFold`),
and the library's induction cannot be used; instead the subsets on which a claim
fails have a smallest one (`SmallestSet`), which is not empty, and of which one
element is given up (`SumTakes`). `Kept` is what a move does to a total: no more, and no
less if no stack is above the limit; it holds of `MoveN`, `MergeOrSwap` and
`MergeOrMove`. `Insert` is two rounds over the slots, a fold over a sequence:
`RoundStays` says that what each turn keeps, the round keeps, by the first turn after
which it would not hold, and with it `InsertKeeps`: what is in the slots and what is
left over. A recipe that matches lies at one offset, and the cells there are its inputs, one
to one, while the others are empty: so the cells that hold an item are as many as
the inputs that are it (`MatchCounts`), which is what `CraftInto` takes (`CraftUses`).
That recipes are squares is `RecipesAssumption`, from the comment on `isqrt`
(`crafting.rs:31`): nothing enforces it, since the game parameters are read without a look at
the number of inputs (`game_params.rs:625`), and of a recipe that is not square, for
which `isqrt` is 0, the theorems on crafting say nothing.

`PredictionProofs`. `CopiesInv` replays, on the server's inventories, the commands that
are under way (`Led`): as long as none of them will be answered, they lead to where
the client is (`InStep`); if the last will be, they lead there but for the main
inventory (`Awaits`), and once it is answered the answer is what the server has
(`Answered`). A client that sends more before the answer has come is `Outrun`: there
is an answer, or a command that will give one, with which the copies will part by
name, whatever else happens before. Answers replace the main inventory alone, so the
proof needs that nothing but a craft or a move, which are replayed, touches the
crafting one (`SameCraft`); what `Insert` makes of the main one is left open.
`InventoriesTyped` says that what is in the server's slots are stacks that fit their
width, and with the lemmas of `InventoryProofs` gives the two properties of its own steps.
Theorems: `PredictionsHold`, `SwapsKeep`, `CraftsTake`.

`FilesProofs`, of `Client`. `Covered` follows a texture from the check of the cache to the load:
at each stop it is `Good` (whole, or cut off by another client), or it is among what
is still to be checked, asked for, sent or written. Nothing another client does
makes a good one bad. `ToldInv` follows a chunk from the map to the mesh thread and
back to what is drawn: the results not yet taken and the jobs not yet done, in this
order, are one sequence, whose last job for a place has the chunk as it is in the map;
where there is no job for it, the mesh drawn was made from it (`LastOf`). A step of the mesh thread
leaves the sequence alone, taking the results cuts it in two (`LastOfConcat`).
`SituationsAssumption` says no more than that what the server sends are chunks at places.

What remains is that a mesh shows its chunk, for any `Size`, textures and content
(`MeshShows`). It is shown row by row. `WalkerOK` is the invariant of `Walker` along the
row: what it has put out and what it still holds are stretches of one texture
that share no cell and cover the cells so far; with the turn after the last cell
nothing is held any more (`RowIsCut`). A rectangle shows the squares of its
stretch, from the side its winding says; the six passes are the six directions. Two
rectangles that share a square are of one pass, one row and one stretch, so they are one.
`Walker` steps through a recursive function; that it is one (`WalkExists`) is shown by the least
turn at which it would fail. Theorems: `FailuresAreClashes`, `DrawnMeshesAreCurrent`.

Only model-checked: liveness, which is beyond the prover: `WaitingPlayersJoin` and
`GhostsLeave` of `Session`, `SurroundingsArrive` and `RowsCatchUp` of `MapSync`,
`EverythingIsShown` of `Client`, `MessagesArrive` of `TcpFraming`. Every invariant, action
property and refinement of the passing runs is a theorem. The type invariants of `SqliteStorage`,
`Session` and `MapSync` are proved and not run.

## What is not modelled

* Drawing, fonts and menus on the screen, the camera and the keys; collision and the
  ray walk: geometry on floating point numbers. Where the player gets to, and
  which block it looks at, is any choice in the models.
* Decoding and blending of textures, the noise, ores and plants of the map
  (`Fresh` of `Mapgen` stands for all of a chunk's terrain), configuration and TOML
  files, the schematics: pure functions or data. Argument parsing.
* TLS and SRP, which are taken for what they promise; accepting and connecting.
* The log in of the single player mode, which has one player and no password.
* The formats of rows and chunks (`serde`, compression): what is read is taken for what
  was written.

## Where to go on

1. `PlaceTree` over a chest, in `Chests`, and the single player log in as a second
   way into `Session`.
2. The serialization of inventories, as far as old rows must stay readable.
