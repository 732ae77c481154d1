-------------------------------- MODULE Client --------------------------------
(***************************************************************************)
(* The game loop of the client: the log in, the textures it fetches and    *)
(* keeps in a directory that all clients of a user share, the map it       *)
(* receives and edits, and the thread that turns its chunks into meshes.   *)
(*                                                                         *)
(* Of the server there is what the client waits for: the answers to the    *)
(* log in and to GetHashedBlobs, and the chunks it sends on its own.  The  *)
(* messages of one connection arrive in order.  A client is one thread,    *)
(* and the steps of its loop are taken in any order; a handler that uses   *)
(* files takes one step for each, as another client may come in between.   *)
(***************************************************************************)
EXTENDS Meshgen

CONSTANTS
    Clients, Nobody,
    Blobs,      \* the hashes of the textures of the game params
    Situations, \* what the environment brings: see Init
    Aims        \* pairs of a block that can be selected and the place before it

\* A server sends chunks, each with the position of its first block.
ASSUME SituationsAssumption ==
    \A s \in Situations, c \in Clients :
       LET fed == {s.feed[c][i] : i \in DOMAIN s.feed[c]}
       IN  s.feed[c] \in Seq(fed) /\ \A msg \in fed : msg.pos \in Int \X Int \X Int

VARIABLES
    fate,     \* of each client: "off", "running", "refused", "failed"
    doing,    \* the handler its loop is in
    auth,     \* auth_state
    params, spawned,  \* params, and whether meshgen_spawner was taken
    map, queue, results, vbuffs, \* the map, the channels of the mesh thread and
              \* the meshes drawn, each as the chunk it was made from
    inbox, outbox,    \* messages from and to the server
    account,  \* at the server: "none", or whether the password is "right"
    srv,      \* at the server: the state of the connection
    ghost,    \* at the server: a player whose client is gone, not yet noticed
    feed,     \* the chunks it sends to a player, first to last, and again at
    unsent,   \* the next join; of them those it has not sent
    cache,    \* the cache directory: hash -> what is there, written by whom
    kills, edits \* bounds on what may still happen

clientVars == <<fate, doing, auth, params, spawned>>
meshVars == <<map, queue, results, vbuffs>>
serverVars == <<account, srv, ghost, feed, unsent>>
netVars == <<inbox, outbox>>
vars == <<clientVars, meshVars, serverVars, netVars, cache, kills, edits>>

Polling == [at |-> "loop", left |-> {}, missing |-> {}]
NoChunks == [p \in {} |-> 0]

\* A situation has for each client its account, the chunks it is sent, the
\* files in the cache, and how often clients are killed and blocks placed.
Init ==
    \E s \in Situations :
       /\ fate = [c \in Clients |-> "off"]
       /\ doing = [c \in Clients |-> Polling]
       /\ auth = [c \in Clients |-> "WaitingForBpub"]
       /\ params = [c \in Clients |-> FALSE] /\ spawned = [c \in Clients |-> FALSE]
       /\ map = [c \in Clients |-> NoChunks] /\ vbuffs = [c \in Clients |-> NoChunks]
       /\ queue = [c \in Clients |-> << >>] /\ results = [c \in Clients |-> << >>]
       /\ inbox = [c \in Clients |-> << >>] /\ outbox = [c \in Clients |-> << >>]
       /\ account = s.account /\ feed = s.feed /\ unsent = [c \in Clients |-> << >>]
       /\ srv = [c \in Clients |-> "new"] /\ ghost = [c \in Clients |-> FALSE]
       /\ cache = [h \in Blobs |->
                     [is |-> IF h \in s.cached THEN "whole" ELSE "absent", by |-> Nobody]]
       /\ kills = s.kills /\ edits = s.edits

Running(c) == fate[c] = "running"
InLoop(c) == Running(c) /\ doing[c] = Polling

-----------------------------------------------------------------------------
(* The start, the end *)

\* Game::new: the channel of the mesh thread, the log in.
New(c) ==
    /\ fate[c] = "off" /\ feed[c] # << >>
    /\ fate' = [fate EXCEPT ![c] = "running"]
    /\ doing' = [doing EXCEPT ![c] = Polling]
    /\ auth' = [auth EXCEPT ![c] = "WaitingForBpub"]
    /\ params' = [params EXCEPT ![c] = FALSE]
    /\ spawned' = [spawned EXCEPT ![c] = FALSE]
    /\ map' = [map EXCEPT ![c] = NoChunks] /\ vbuffs' = [vbuffs EXCEPT ![c] = NoChunks]
    /\ queue' = [queue EXCEPT ![c] = << >>] /\ results' = [results EXCEPT ![c] = << >>]
    /\ inbox' = [inbox EXCEPT ![c] = << >>]
    /\ outbox' = [outbox EXCEPT ![c] = <<[kind |-> "LogIn"]>>]
    /\ srv' = [srv EXCEPT ![c] = "new"]
    /\ UNCHANGED <<account, ghost, feed, unsent, cache, kills, edits>>

\* The program is ended at any moment, with a file half written if it was at it.
Kill(c) ==
    /\ Running(c) /\ kills > 0
    /\ kills' = kills - 1
    /\ fate' = [fate EXCEPT ![c] = "off"]
    /\ ghost' = [ghost EXCEPT ![c] = @ \/ srv[c] = "in"]
    /\ srv' = [srv EXCEPT ![c] = "gone"]
    /\ UNCHANGED <<doing, auth, params, spawned, meshVars, netVars, account, feed, unsent, cache, edits>>

Fail(c) == fate' = [fate EXCEPT ![c] = "failed"]

\* The key I: the menu unwraps the params.
OpenInventory(c) ==
    /\ InLoop(c) /\ ~params[c] /\ edits > 0
    /\ Fail(c)
    /\ UNCHANGED <<doing, auth, params, spawned, meshVars, serverVars, netVars, cache, kills, edits>>

-----------------------------------------------------------------------------
(* The messages *)

\* try_recv: the next message, of this kind.
Receives(c, kind) ==
    /\ InLoop(c) /\ inbox[c] # << >> /\ Head(inbox[c]).kind = kind
    /\ inbox' = [inbox EXCEPT ![c] = Tail(@)]

Says(c, msg) == outbox' = [outbox EXCEPT ![c] = Append(@, msg)]

HashEnrollment(c) ==
    /\ Receives(c, "HashEnrollment")
    /\ IF auth[c] = "WaitingForBpub" THEN Says(c, [kind |-> "SendHash"]) ELSE UNCHANGED outbox
    /\ UNCHANGED <<clientVars, meshVars, serverVars, cache, kills, edits>>

HashParamsBpub(c) ==
    /\ Receives(c, "HashParamsBpub")
    /\ auth' = [auth EXCEPT ![c] = "Authenticated"]
    /\ IF auth[c] = "WaitingForBpub" THEN Says(c, [kind |-> "SendM1"]) ELSE UNCHANGED outbox
    /\ UNCHANGED <<fate, doing, params, spawned, meshVars, serverVars, cache, kills, edits>>

LogInFail(c) ==
    /\ Receives(c, "LogInFail")
    /\ fate' = [fate EXCEPT ![c] = "refused"]
    /\ UNCHANGED <<doing, auth, params, spawned, meshVars, outbox, serverVars, cache, kills, edits>>

GameParams(c) ==
    /\ Receives(c, "GameParams")
    /\ doing' = [doing EXCEPT ![c] = [at |-> "check", left |-> Blobs, missing |-> {}]]
    /\ UNCHANGED <<fate, auth, params, spawned, meshVars, outbox, serverVars, cache, kills, edits>>

\* Mutant: a file that is there is not looked into.
IsThere(h) == cache[h].is # "absent"

\* The file has the content that its name, the hash, says.
IsCached(h) == cache[h].is = "whole"

\* Mutant: nothing is asked for if nothing is missing.
AskForMissing(c, missing) ==
    IF missing = {} THEN UNCHANGED outbox
    ELSE Says(c, [kind |-> "GetHashedBlobs", hashes |-> missing])

\* Asked for even if it is nothing: the answer is what starts the mesh thread.
AskFor(c, missing) == Says(c, [kind |-> "GetHashedBlobs", hashes |-> missing])

\* find_uncached_hashes, a file at a time: one that is not there, or that has
\* not the content its name says, is asked for.
FindUncached(c) ==
    /\ Running(c) /\ doing[c].at = "check"
    /\ \E h \in doing[c].left :
          LET left == doing[c].left \ {h}
              missing == doing[c].missing \cup {x \in {h} : ~IsCached(x)}
          IN  IF left # {}
              THEN /\ doing' = [doing EXCEPT ![c].left = left, ![c].missing = missing]
                   /\ UNCHANGED <<outbox, params>>
              ELSE /\ AskFor(c, missing)
                   /\ params' = [params EXCEPT ![c] = TRUE]
                   /\ doing' = [doing EXCEPT ![c] = Polling]
    /\ UNCHANGED <<fate, auth, spawned, meshVars, inbox, serverVars, cache, kills, edits>>

\* What the handler of HashedBlobs does once the files in left are stored.
StoreOrLoad(c, left) ==
    IF left # {} THEN [at |-> "store", left |-> left, missing |-> {}]
    ELSE IF spawned[c] THEN Polling
    ELSE [at |-> "load", left |-> Blobs, missing |-> {}]

HashedBlobs(c) ==
    /\ Receives(c, "HashedBlobs")
    /\ IF params[c]
       THEN doing' = [doing EXCEPT ![c] = StoreOrLoad(c, Head(inbox[c]).hashes)]
       ELSE UNCHANGED doing
    /\ UNCHANGED <<fate, auth, params, spawned, meshVars, outbox, serverVars, cache, kills, edits>>

\* std::fs::write opens the file, which empties it,
OpenFile(c) ==
    /\ Running(c) /\ doing[c].at = "store"
    /\ \E h \in doing[c].left :
          /\ cache' = [cache EXCEPT ![h] = [is |-> "cut", by |-> c]]
          /\ doing' = [doing EXCEPT ![c].at = "write", ![c].missing = {h}]
    /\ UNCHANGED <<fate, auth, params, spawned, meshVars, netVars, serverVars, kills, edits>>

\* and then writes it.
WriteFile(c) ==
    /\ Running(c) /\ doing[c].at = "write"
    /\ cache' = [h \in Blobs |->
                    IF h \in doing[c].missing THEN [is |-> "whole", by |-> c] ELSE cache[h]]
    /\ doing' = [doing EXCEPT ![c] = StoreOrLoad(c, @.left \ @.missing)]
    /\ UNCHANGED <<fate, auth, params, spawned, meshVars, netVars, serverVars, kills, edits>>

\* load_image_inner, and with the last one the mesh thread starts.
LoadImage(c) ==
    /\ Running(c) /\ doing[c].at = "load"
    /\ \E h \in doing[c].left :
          IF cache[h].is # "whole" THEN Fail(c) /\ UNCHANGED <<doing, spawned>>
          ELSE IF doing[c].left # {h}
          THEN doing' = [doing EXCEPT ![c].left = @ \ {h}] /\ UNCHANGED <<fate, spawned>>
          ELSE /\ doing' = [doing EXCEPT ![c] = Polling]
               /\ spawned' = [spawned EXCEPT ![c] = TRUE]
               /\ UNCHANGED fate
    /\ UNCHANGED <<auth, params, meshVars, netVars, serverVars, cache, kills, edits>>

-----------------------------------------------------------------------------
(* The map and its meshes *)

\* set_chunk, MapBlockHandle::set: on_change hands a copy to the mesh thread.
Set(c, p, chunk) ==
    /\ map' = [map EXCEPT ![c] = [r \in DOMAIN @ \cup {p} |-> IF r = p THEN chunk ELSE @[r]]]
    /\ queue' = [queue EXCEPT ![c] = Append(@, [pos |-> p, chunk |-> chunk])]

ChunkUpdated(c) ==
    /\ Receives(c, "ChunkUpdated")
    /\ Set(c, Head(inbox[c]).pos, Head(inbox[c]).chunk)
    /\ UNCHANGED <<clientVars, results, vbuffs, outbox, serverVars, cache, kills, edits>>

\* btchn and btpic: the chunk a block is in, and where in it.
ChunkPos(v) == [i \in 1..3 |-> (v[i] \div Size) * Size]
PosInChunk(v) == [i \in 1..3 |-> v[i] % Size]

\* A block is dug, or placed before one.  That one is in a chunk the client
\* has; the place before it may not be, and then the unwrap fails.
Edit(c, v, b) ==
    LET p == ChunkPos(v)
    IN  IF p \notin DOMAIN map[c] THEN Fail(c) /\ UNCHANGED <<map, queue>>
        ELSE /\ Set(c, p, [map[c][p] EXCEPT ![PosInChunk(v)] = b])
             /\ UNCHANGED fate

HandleMouseButtons(c) ==
    /\ InLoop(c) /\ params[c] /\ spawned[c] /\ edits > 0
    /\ \E aim \in Aims :
          LET p == ChunkPos(aim.selected)
          IN  /\ p \in DOMAIN map[c]
              /\ map[c][p][PosInChunk(aim.selected)] \in DOMAIN Blocky
              /\ \/ \E b \in Undrawn : Edit(c, aim.selected, b)
                 \/ \E b \in DOMAIN Blocky : Edit(c, aim.before, b)
    /\ edits' = edits - 1
    /\ UNCHANGED <<doing, auth, params, spawned, results, vbuffs, netVars, serverVars, cache, kills>>

\* The mesh thread: recv, mesh_for_chunk, send.
Mesh(c) ==
    /\ Running(c) /\ spawned[c] /\ queue[c] # << >>
    /\ results' = [results EXCEPT ![c] = Append(@, Head(queue[c]))]
    /\ queue' = [queue EXCEPT ![c] = Tail(@)]
    /\ UNCHANGED <<clientVars, map, vbuffs, netVars, serverVars, cache, kills, edits>>

\* What the last of the jobs has for p, or else what there was.
LastOf(jobs, p, old) ==
    LET at == {i \in DOMAIN jobs : jobs[i].pos = p}
    IN  IF at # {} THEN jobs[Max(at)].chunk ELSE old[p]

RecvVbuffs(c) ==
    /\ InLoop(c) /\ results[c] # << >>
    /\ vbuffs' = [vbuffs EXCEPT ![c] =
                     [p \in DOMAIN @ \cup {results[c][i].pos : i \in DOMAIN results[c]} |->
                        LastOf(results[c], p, @)]]
    /\ results' = [results EXCEPT ![c] = << >>]
    /\ UNCHANGED <<clientVars, map, queue, netVars, serverVars, cache, kills, edits>>

-----------------------------------------------------------------------------
(* The server *)

Answers(c, msgs) == inbox' = [inbox EXCEPT ![c] = @ \o msgs]

\* add_player, if no other session of the player is left.
Admit(c, knows) ==
    IF knows /\ ~ghost[c]
    THEN /\ srv' = [srv EXCEPT ![c] = "in"]
         /\ unsent' = [unsent EXCEPT ![c] = feed[c]]
         /\ Answers(c, <<[kind |-> "GameParams"]>>)
    ELSE /\ srv' = [srv EXCEPT ![c] = "out"]
         /\ Answers(c, <<[kind |-> "LogInFail"]>>)
         /\ UNCHANGED unsent

Serve(c) ==
    /\ outbox[c] # << >> /\ srv[c] \notin {"out", "gone"}
    /\ LET msg == Head(outbox[c])
       IN  \/ /\ msg.kind = "LogIn" /\ account[c] = "none"
              /\ Answers(c, <<[kind |-> "HashEnrollment"]>>)
              /\ UNCHANGED <<account, srv, unsent>>
           \/ /\ msg.kind = "LogIn" /\ account[c] # "none"
              /\ Answers(c, <<[kind |-> "HashParamsBpub"]>>)
              /\ UNCHANGED <<account, srv, unsent>>
           \/ /\ msg.kind = "SendHash"
              /\ account' = [account EXCEPT ![c] = "right"]
              /\ Admit(c, TRUE)
           \/ /\ msg.kind = "SendM1"
              /\ Admit(c, account[c] = "right")
              /\ UNCHANGED account
           \/ /\ msg.kind = "GetHashedBlobs"
              /\ Answers(c, <<[kind |-> "HashedBlobs", hashes |-> msg.hashes]>>)
              /\ UNCHANGED <<account, srv, unsent>>
    /\ outbox' = [outbox EXCEPT ![c] = Tail(@)]
    /\ UNCHANGED <<clientVars, meshVars, ghost, feed, cache, kills, edits>>

SendChunk(c) ==
    /\ srv[c] = "in" /\ unsent[c] # << >>
    /\ Answers(c, <<[kind |-> "ChunkUpdated", pos |-> Head(unsent[c]).pos,
                     chunk |-> Head(unsent[c]).chunk]>>)
    /\ unsent' = [unsent EXCEPT ![c] = Tail(@)]
    /\ UNCHANGED <<clientVars, meshVars, account, srv, ghost, feed, outbox, cache, kills, edits>>

GhostLeaves(c) ==
    /\ ghost[c]
    /\ ghost' = [ghost EXCEPT ![c] = FALSE]
    /\ UNCHANGED <<clientVars, meshVars, account, srv, feed, unsent, netVars, cache, kills, edits>>

-----------------------------------------------------------------------------
Handle(c) ==
    \/ HashEnrollment(c) \/ HashParamsBpub(c) \/ LogInFail(c) \/ GameParams(c)
    \/ HashedBlobs(c) \/ ChunkUpdated(c)
    \/ FindUncached(c) \/ OpenFile(c) \/ WriteFile(c) \/ LoadImage(c)

ServerStep(c) == Serve(c) \/ SendChunk(c) \/ GhostLeaves(c)

Next == \E c \in Clients :
    \/ New(c) \/ Kill(c) \/ OpenInventory(c) \/ HandleMouseButtons(c)
    \/ Handle(c) \/ RecvVbuffs(c) \/ Mesh(c) \/ ServerStep(c)

Spec == Init /\ [][Next]_vars

\* The loop of the client, its mesh thread and the server run as long as they
\* have something to do.
FairSpec ==
    /\ Spec
    /\ \A c \in Clients : WF_vars(Handle(c)) /\ WF_vars(RecvVbuffs(c))
                          /\ WF_vars(Mesh(c)) /\ WF_vars(ServerStep(c))

-----------------------------------------------------------------------------
\* The chunk at p as the mesh thread was told last, whatever has become of it.
Told(c, p) == LastOf(results[c] \o queue[c], p, vbuffs[c])

\* What is drawn, or is on its way to be drawn last, is made from the chunk as
\* the client has it; and it shows every side that can be seen once, from
\* outside and with its texture (on_change, mesh_for_chunk, recv_vbuffs).
DrawnIsCurrent ==
    \A c \in Clients : Running(c) => \A p \in DOMAIN map[c] :
       /\ Told(c, p) = map[c][p]
       /\ queue[c] \o results[c] = << >> =>
             Shows(MeshForChunk(p, vbuffs[c][p]), p, map[c][p])

\* A client that cannot load a texture has been disturbed by another one, which
\* writes the file at this moment or was ended while it did; a file a client
\* was ended at itself is written again at its next start
\* (find_uncached_hashes, store_hashed_blobs, load_image_inner).
OnlyAClashFails ==
    \A c \in Clients, h \in Blobs :
       (Running(c) /\ doing[c].at = "load" /\ h \in doing[c].left /\ cache[h].is # "whole")
          => cache[h].is = "cut" /\ cache[h].by # c

\* A client whose password is right is let in, has its textures, and shows
\* every chunk it is sent, unless it is ended or fails.
EverythingIsShown ==
    \A c \in Clients :
       (Running(c) /\ ~ghost[c] /\ srv[c] = "new" /\ account[c] # "wrong") ~>
          \/ fate[c] \in {"off", "failed"}
          \/ unsent[c] = << >> /\ inbox[c] = << >> /\ queue[c] = << >> /\ results[c] = << >>
             /\ spawned[c] /\ DOMAIN vbuffs[c] = DOMAIN map[c]
=============================================================================
