---------------------------- MODULE MapSyncProofs ----------------------------
(***************************************************************************)
(* Proofs about MapSync: what a player was sent is what the server has,    *)
(* and nothing around a player that has been served is missing, for any    *)
(* chunks, radii, reach of trees, players and losses of connections.       *)
(*                                                                         *)
(* Both rest on two facts about the tables: a player is one whose client   *)
(* is connected, and who is none has seen nothing.                         *)
(***************************************************************************)
EXTENDS MapSync, TLAPS

Connected == {"up", "broken"}

\* What the tables say of each other, for players pl, clients cl and map w: the
\* players are those whose connection has passed add_player; who is none has
\* been sent nothing; what a player was sent is what the map has; and around a
\* player that has been served nothing is missing.
Tables(pl, cl, w) ==
    \A p \in Players :
       /\ pl[p] # None <=> cl[p].link \in Connected
       /\ pl[p] = None => cl[p].told = Nothing
       /\ pl[p] # None => \A c \in Chunks :
             cl[p].told[c] = IF c \in pl[p].sent THEN w[c] ELSE None
       /\ (pl[p] # None /\ pl[p].served) => \A c \in SentAround(pl[p].last) \cap Chunks :
             w[c] # None => c \in pl[p].sent

MapSyncInv == MapSyncTypeOK /\ Tables(players, client, world) /\ stored = world

-----------------------------------------------------------------------------
(* The operators of the tick *)

\* A removal takes players and clients away together; it breaks nothing.
LEMMA LeaveKeeps ==
    ASSUME NEW pl \in [Players -> Player \cup {None}],
           NEW cl \in [Players -> Client],
           NEW ps \in SUBSET Players
    PROVE  /\ Leave(ps, pl) \in [Players -> Player \cup {None}]
           /\ Gone(ps, cl) \in [Players -> Client]
           /\ \A p \in ps : Leave(ps, pl)[p] = None /\ Gone(ps, cl)[p] = NewClient
           /\ \A p \in Players \ ps : Leave(ps, pl)[p] = pl[p] /\ Gone(ps, cl)[p] = cl[p]
<1>1. NewClient \in Client
  <2>1. Default \in Places
    BY MapSyncAssumption
  <2>2. << >> \in Seq(Positions \cup Orders)
    OBVIOUS
  <2>3. Nothing \in Shown
    BY DEF Nothing, Shown
  <2> QED
    BY <2>1, <2>2, <2>3 DEF NewClient, Client
<1> QED
  BY <1>1 DEF Leave, Gone

\* A client is shown the chunks cs of w, and nothing else about it changes.
LEMMA ShowsKeeps ==
    ASSUME NEW cl \in Client, NEW cs, NEW w \in Shown
    PROVE  /\ Shows(cs, w, cl) \in Client
           /\ Shows(cs, w, cl).link = cl.link
           /\ \A c \in Chunks : Shows(cs, w, cl).told[c] = IF c \in cs THEN w[c] ELSE cl.told[c]
<1>1. cl.told \in Shown
  BY DEF Client
<1>2. [c \in Chunks |-> IF c \in cs THEN w[c] ELSE cl.told[c]] \in Shown
  BY <1>1 DEF Shown
<1> QED
  BY <1>1, <1>2 DEF Shows, Client

LEMMA RemovalKeepsTables ==
    ASSUME NEW pl \in [Players -> Player \cup {None}],
           NEW cl \in [Players -> Client],
           NEW ps \in SUBSET Players, NEW w,
           Tables(pl, cl, w)
    PROVE  Tables(Leave(ps, pl), Gone(ps, cl), w)
<1>1. NewClient.link \notin Connected /\ NewClient.told = Nothing
  BY DEF NewClient, Connected
<1> QED
  BY <1>1, LeaveKeeps DEF Tables

\* What on_change does to everybody keeps the tables, if the map has changed in
\* the chunks cs only.
LEMMA OnChangeKeeps ==
    ASSUME MapSyncTypeOK, Tables(players, client, world),
           NEW cs \in SUBSET Chunks, NEW w \in Shown,
           \A c \in Chunks \ cs : w[c] = world[c],
           OnChange(cs, w)
    PROVE  /\ players' \in [Players -> Player \cup {None}]
           /\ client' \in [Players -> Client]
           /\ Tables(players', client', w)
<1> DEFINE pl == [p \in Players |->
                     IF p \in Playing THEN [players[p] EXCEPT !.sent = @ \cup cs] ELSE None]
           cl == [p \in Players |->
                     IF p \in Playing THEN Shows(cs, w, client[p]) ELSE client[p]]
<1>1. CASE cs = {}
  BY <1>1 DEF OnChange, MapSyncTypeOK, Tables
<1>2. CASE cs # {}
  <2>1. players' = Leave(Broken, pl) /\ client' = Gone(Broken, cl)
    BY <1>2 DEF OnChange
  <2>2. \A p \in Playing : /\ pl[p] \in Player /\ pl[p] # None
                           /\ pl[p].sent = players[p].sent \cup cs
                           /\ pl[p].served = players[p].served
                           /\ pl[p].last = players[p].last
    BY NoneAssumption DEF Playing, MapSyncTypeOK, Player
  <2>3. \A p \in Players \ Playing : pl[p] = None /\ players[p] = None
    BY DEF Playing
  <2>4. \A p \in Players : client[p] \in Client
    BY DEF MapSyncTypeOK
  <2>5. \A p \in Playing : /\ cl[p] \in Client
                           /\ cl[p].link = client[p].link
                           /\ \A c \in Chunks : cl[p].told[c] =
                                 IF c \in cs THEN w[c] ELSE client[p].told[c]
    BY <2>4, ShowsKeeps DEF Playing
  <2>6. \A p \in Players \ Playing : cl[p] = client[p]
    OBVIOUS
  <2>7. pl \in [Players -> Player \cup {None}] /\ cl \in [Players -> Client]
    BY <2>2, <2>3, <2>4, <2>5, <2>6 DEF Playing
  <2>8. Tables(pl, cl, w)
    <3> SUFFICES ASSUME NEW p \in Players
                 PROVE  /\ pl[p] # None <=> cl[p].link \in Connected
                        /\ pl[p] = None => cl[p].told = Nothing
                        /\ pl[p] # None => \A c \in Chunks :
                              cl[p].told[c] = IF c \in pl[p].sent THEN w[c] ELSE None
                        /\ (pl[p] # None /\ pl[p].served) =>
                              \A c \in SentAround(pl[p].last) \cap Chunks :
                                 w[c] # None => c \in pl[p].sent
      BY DEF Tables
    <3>1. CASE p \in Playing
      <4>1. players[p] # None
        BY <3>1 DEF Playing
      <4> HIDE DEF pl, cl
      <4>2. cl[p].link \in Connected
        BY <3>1, <4>1, <2>5 DEF Tables
      <4>3. \A c \in Chunks : cl[p].told[c] = IF c \in pl[p].sent THEN w[c] ELSE None
        BY <3>1, <4>1, <2>2, <2>5 DEF Tables
      <4>4. pl[p].served => \A c \in SentAround(pl[p].last) \cap Chunks :
                               w[c] # None => c \in pl[p].sent
        BY <3>1, <4>1, <2>2 DEF Tables
      <4> QED
        BY <3>1, <2>2, <4>2, <4>3, <4>4
    <3>2. CASE p \notin Playing
      BY <3>2, <2>3, <2>6 DEF Tables
    <3> QED
      BY <3>1, <3>2
  <2>9. Broken \in SUBSET Players
    BY DEF Broken, Playing
  <2> HIDE DEF pl, cl
  <2> QED
    BY <2>1, <2>7, <2>8, <2>9, LeaveKeeps, RemovalKeepsTables
<1> QED
  BY <1>1, <1>2

\* A step that leaves players and map alone, and changes of the clients neither
\* what they were sent nor whether they are connected, keeps the tables.
LEMMA QuietKeepsTables ==
    ASSUME Tables(players, client, world),
           UNCHANGED <<players, world>>,
           \A p \in Players : /\ client'[p].told = client[p].told
                              /\ client'[p].link \in Connected <=> client[p].link \in Connected
    PROVE  Tables(players, client, world)'
BY DEF Tables

-----------------------------------------------------------------------------
(* Initial states *)

LEMMA InitInv == Init => MapSyncInv
<1> SUFFICES ASSUME Init PROVE MapSyncInv
  OBVIOUS
<1>1. NewClient \in Client /\ NewClient.link \notin Connected /\ NewClient.told = Nothing
  <2>1. Default \in Places /\ << >> \in Seq(Positions \cup Orders) /\ Nothing \in Shown
    BY MapSyncAssumption DEF Nothing, Shown
  <2> QED
    BY <2>1 DEF NewClient, Client, Connected
<1>2. rows \in [Players -> Places]
  BY MapSyncAssumption DEF Init
<1>3. Nothing \in Shown
  BY DEF Nothing, Shown
<1>4. << >> \in Seq([from : Players, msg : Orders])
  OBVIOUS
<1>5. MapSyncTypeOK
  BY <1>1, <1>2, <1>3, <1>4 DEF Init, MapSyncTypeOK, Phases
<1>6. Tables(players, client, world)
  BY <1>1 DEF Init, Tables
<1> QED
  BY <1>5, <1>6 DEF MapSyncInv, Init

-----------------------------------------------------------------------------
(* The clients *)

\* One client changes: its fields keep their types, what it was sent stays.
LEMMA ClientKeeps ==
    ASSUME MapSyncInv,
           UNCHANGED <<pc, panic, players, msgs, world, stored, rows>>,
           NEW p \in Players, NEW cl \in Client,
           client' = [client EXCEPT ![p] = cl],
           cl.told = client[p].told,
           cl.link \in Connected <=> client[p].link \in Connected,
           asked' \subseteq Places, results' \subseteq Chunks
    PROVE  MapSyncInv'
<1>1. MapSyncTypeOK'
  BY DEF MapSyncInv, MapSyncTypeOK
<1>2. Tables(players, client, world)'
  BY QuietKeepsTables DEF MapSyncInv, MapSyncTypeOK
<1> QED
  BY <1>1, <1>2 DEF MapSyncInv

LEMMA ClientStepKeeps ==
    ASSUME MapSyncInv, NEW p \in Players, ClientStep(p)
    PROVE  MapSyncInv'
<1>1. client[p] \in Client /\ client \in [Players -> Client]
  BY DEF MapSyncInv, MapSyncTypeOK
<1>2. asked \subseteq Places /\ results \subseteq Chunks
  BY DEF MapSyncInv, MapSyncTypeOK
<1>3. CASE Connect(p)
  <2> DEFINE cl == [client[p] EXCEPT !.link = "waiting"]
  <2>1. cl \in Client /\ cl.told = client[p].told
    BY <1>1 DEF Client
  <2>2. cl.link \notin Connected /\ client[p].link \notin Connected
    BY <1>1, <1>3 DEF Client, Connect, Connected
  <2>3. client' = [client EXCEPT ![p] = cl]
    BY <1>3 DEF Connect
  <2> QED
    BY <1>2, <1>3, <2>1, <2>2, <2>3, ClientKeeps DEF Connect, EnvUnchanged, genVars, mapVars
<1>4. CASE Report(p)
  <2> DEFINE m == [kind |-> "SetPos", at |-> client[p].camera]
             cl == [client[p] EXCEPT !.reported = client[p].camera, !.inbox = Append(@, m)]
  <2>1. m \in Positions
    BY <1>1 DEF Client, Positions
  <2>2. Append(client[p].inbox, m) \in Seq(Positions \cup Orders)
    BY <1>1, <2>1 DEF Client
  <2>3. cl \in Client /\ cl.told = client[p].told /\ cl.link = client[p].link
    BY <1>1, <2>2 DEF Client
  <2>4. client' = [client EXCEPT ![p] = cl]
    BY <1>4 DEF Report
  <2> QED
    BY <1>2, <1>4, <2>3, <2>4, ClientKeeps DEF Report, EnvUnchanged, genVars, mapVars
<1>5. CASE Move(p)
  <2>1. PICK at \in Places : client' = [client EXCEPT ![p].camera = at]
    BY <1>5 DEF Move
  <2> DEFINE cl == [client[p] EXCEPT !.camera = at]
  <2>2. cl \in Client /\ cl.told = client[p].told /\ cl.link = client[p].link
    BY <1>1 DEF Client
  <2>3. client' = [client EXCEPT ![p] = cl]
    BY <2>1
  <2> QED
    BY <1>2, <1>5, <2>2, <2>3, ClientKeeps DEF Move, EnvUnchanged, genVars, mapVars
<1>6. CASE Ask(p)
  <2>1. PICK m \in Orders : client' = [client EXCEPT ![p].inbox = Append(@, m)]
    BY <1>6 DEF Ask
  <2> DEFINE cl == [client[p] EXCEPT !.inbox = Append(@, m)]
  <2>2. Append(client[p].inbox, m) \in Seq(Positions \cup Orders)
    BY <1>1 DEF Client
  <2>3. cl \in Client /\ cl.told = client[p].told /\ cl.link = client[p].link
    BY <1>1, <2>2 DEF Client
  <2>4. client' = [client EXCEPT ![p] = cl]
    BY <2>1
  <2> QED
    BY <1>2, <1>6, <2>3, <2>4, ClientKeeps DEF Ask, EnvUnchanged, genVars, mapVars
<1>7. CASE GetGreeting(p)
  <2> DEFINE cl == [client[p] EXCEPT !.camera = client[p].greeting, !.greeting = None]
  <2>1. client[p].greeting \in Places
    BY <1>1, <1>7 DEF Client, GetGreeting
  <2>2. cl \in Client /\ cl.told = client[p].told /\ cl.link = client[p].link
    BY <1>1, <2>1 DEF Client
  <2>3. client' = [client EXCEPT ![p] = cl]
    BY <1>7 DEF GetGreeting
  <2> QED
    BY <1>2, <1>7, <2>2, <2>3, ClientKeeps DEF GetGreeting, EnvUnchanged, genVars, mapVars
<1>8. CASE Break(p)
  <2>1. PICK n \in 0..Len(client[p].inbox) :
           client' = [client EXCEPT ![p].link = "broken", ![p].inbox = SubSeq(@, 1, n)]
    BY <1>8 DEF Break
  <2> DEFINE cl == [client[p] EXCEPT !.link = "broken", !.inbox = SubSeq(@, 1, n)]
  <2>2. SubSeq(client[p].inbox, 1, n) \in Seq(Positions \cup Orders)
    BY <1>1 DEF Client
  <2>3. cl \in Client /\ cl.told = client[p].told /\ cl.link \in Connected
    BY <1>1, <2>2 DEF Client, Connected
  <2>4. client[p].link \in Connected
    BY <1>8 DEF Break, Connected
  <2>5. client' = [client EXCEPT ![p] = cl]
    BY <2>1
  <2> QED
    BY <1>2, <1>8, <2>3, <2>4, <2>5, ClientKeeps DEF Break, EnvUnchanged, genVars, mapVars
<1> QED
  BY <1>3, <1>4, <1>5, <1>6, <1>7, <1>8 DEF ClientStep

-----------------------------------------------------------------------------
(* The mapgen thread and the tick *)

LEMMA GenerateKeeps ==
    ASSUME MapSyncInv, NEW m \in asked, NEW margin \in BOOLEAN, Generate(m, margin)
    PROVE  MapSyncInv'
<1>1. results' \subseteq Chunks
  BY DEF Generate, Generated, MayCome, MapSyncInv, MapSyncTypeOK
<1>2. MapSyncTypeOK'
  BY <1>1 DEF Generate, EnvUnchanged, mapVars, MapSyncInv, MapSyncTypeOK
<1>3. Tables(players, client, world)'
  BY QuietKeepsTables DEF Generate, EnvUnchanged, mapVars, MapSyncInv
<1> QED
  BY <1>2, <1>3 DEF MapSyncInv, Generate, EnvUnchanged, mapVars

\* send_chunks_to_players: what is sent is what the map has, and after it all
\* around the player has been sent.
LEMMA SendKeeps ==
    ASSUME MapSyncInv, Send
    PROVE  MapSyncInv'
<1> DEFINE pl == [p \in Players |->
                     IF p \in Moved
                     THEN [players[p] EXCEPT !.last = players[p].pos, !.served = TRUE,
                                             !.sent = @ \cup ToSend(p)]
                     ELSE players[p]]
           cl == [p \in Players |->
                     IF p \in Moved THEN Shows(ToSend(p), world, client[p]) ELSE client[p]]
<1>1. /\ players \in [Players -> Player \cup {None}] /\ client \in [Players -> Client]
      /\ world \in Shown /\ Tables(players, client, world)
  BY DEF MapSyncInv, MapSyncTypeOK
<1>2. \A p \in Moved : /\ p \in Players /\ players[p] \in Player /\ players[p] # None
                       /\ ToSend(p) \subseteq Chunks
  BY <1>1 DEF Moved, Playing, ToSend, Present
<1>3. \A p \in Moved : /\ pl[p] \in Player /\ pl[p] # None
                       /\ pl[p].sent = players[p].sent \cup ToSend(p)
                       /\ pl[p].last = players[p].pos
  BY <1>2, NoneAssumption DEF Player
<1>4. \A p \in Players \ Moved : pl[p] = players[p] /\ cl[p] = client[p]
  OBVIOUS
<1>5. \A p \in Moved : /\ cl[p] \in Client
                       /\ cl[p].link = client[p].link
                       /\ \A c \in Chunks : cl[p].told[c] =
                             IF c \in ToSend(p) THEN world[c] ELSE client[p].told[c]
  BY <1>1, <1>2, ShowsKeeps
<1>6. pl \in [Players -> Player \cup {None}] /\ cl \in [Players -> Client]
  BY <1>1, <1>2, <1>3, <1>4, <1>5
<1>7. Tables(pl, cl, world)
  <2> SUFFICES ASSUME NEW p \in Players
               PROVE  /\ pl[p] # None <=> cl[p].link \in Connected
                      /\ pl[p] = None => cl[p].told = Nothing
                      /\ pl[p] # None => \A c \in Chunks :
                            cl[p].told[c] = IF c \in pl[p].sent THEN world[c] ELSE None
                      /\ (pl[p] # None /\ pl[p].served) =>
                            \A c \in SentAround(pl[p].last) \cap Chunks :
                               world[c] # None => c \in pl[p].sent
    BY DEF Tables
  <2> HIDE DEF pl, cl
  <2>1. CASE p \in Moved
    <3>1. cl[p].link \in Connected
      BY <2>1, <1>1, <1>2, <1>5 DEF Tables
    <3>2. \A c \in Chunks : cl[p].told[c] = IF c \in pl[p].sent THEN world[c] ELSE None
      BY <2>1, <1>1, <1>2, <1>3, <1>5 DEF Tables
    <3>3. \A c \in SentAround(pl[p].last) \cap Chunks : world[c] # None => c \in pl[p].sent
      BY <2>1, <1>3 DEF ToSend, Present
    <3> QED
      BY <2>1, <1>3, <3>1, <3>2, <3>3
  <2>2. CASE p \notin Moved
    BY <2>2, <1>1, <1>4 DEF Tables
  <2> QED
    BY <2>1, <2>2
<1>8. players' = Leave(Broken, pl) /\ client' = Gone(Broken, cl)
  BY DEF Send
<1>9. Broken \in SUBSET Players
  BY DEF Broken, Playing
<1>10. {AskedFor(p) : p \in Moved} \subseteq Places
  BY <1>2 DEF AskedFor, Player
<1> HIDE DEF pl, cl
<1>11. /\ players' \in [Players -> Player \cup {None}] /\ client' \in [Players -> Client]
       /\ Tables(players', client', world)
  BY <1>6, <1>7, <1>8, <1>9, LeaveKeeps, RemovalKeepsTables
<1>12. MapSyncTypeOK'
  BY <1>10, <1>11 DEF Send, mapVars, MapSyncInv, MapSyncTypeOK, Phases
<1> QED
  BY <1>11, <1>12 DEF MapSyncInv, Send, mapVars

LEMMA MapTickKeeps ==
    ASSUME MapSyncInv, MapTick
    PROVE  MapSyncInv'
<1>1. world' \in Shown /\ stored' \in Shown /\ world' = stored'
  <2>1. 0 \in Data
    BY MapSyncAssumption DEF Data
  <2> QED
    BY <2>1 DEF MapTick, MapSyncInv, MapSyncTypeOK, Shown
<1>2. \A c \in Chunks \ results : world'[c] = world[c]
  BY DEF MapTick
<1>3. /\ players' \in [Players -> Player \cup {None}] /\ client' \in [Players -> Client]
      /\ Tables(players', client', world')
  BY <1>1, <1>2, OnChangeKeeps DEF MapTick, MapSyncInv, MapSyncTypeOK
<1>4. MapSyncTypeOK'
  BY <1>1, <1>3 DEF MapTick, MapSyncInv, MapSyncTypeOK, Phases
<1> QED
  BY <1>1, <1>3, <1>4 DEF MapSyncInv

\* Who waits has been sent nothing, which is what a new player's tables say.
LEMMA JoinKeeps ==
    ASSUME MapSyncInv, NEW p \in Players, Join(p)
    PROVE  MapSyncInv'
<1>1. /\ players \in [Players -> Player \cup {None}] /\ client \in [Players -> Client]
      /\ rows \in [Players -> Places] /\ Tables(players, client, world)
  BY DEF MapSyncInv, MapSyncTypeOK
<1>2. Joining(p) \in Player /\ Joining(p) # None /\ Joining(p).sent = {} /\ ~Joining(p).served
  <2>1. Default \in Places /\ Origin \in Places
    BY MapSyncAssumption
  <2>2. Joining(p) \in Player
    BY <2>1 DEF Joining, Player
  <2> QED
    BY <2>2, NoneAssumption DEF Joining
<1>3. players[p] = None /\ client[p].told = Nothing
  BY <1>1 DEF Join, Tables, Connected
<1> DEFINE cl == [client[p] EXCEPT !.link = "up", !.greeting = rows[p]]
<1>4. cl \in Client /\ cl.link \in Connected /\ cl.told = Nothing
  BY <1>1, <1>3 DEF Client, Connected
<1>5. /\ players' = [players EXCEPT ![p] = Joining(p)]
      /\ client' = [client EXCEPT ![p] = cl]
  BY DEF Join
<1>6. Tables(players, client, world)'
  <2>1. world' = world
    BY DEF Join, mapVars
  <2>2. \A c \in Chunks : Nothing[c] = None
    BY DEF Nothing
  <2> HIDE DEF cl
  <2> QED
    BY <1>1, <1>2, <1>4, <1>5, <2>1, <2>2 DEF Tables
<1>7. MapSyncTypeOK'
  BY <1>1, <1>2, <1>4, <1>5 DEF Join, mapVars, genVars, MapSyncInv, MapSyncTypeOK
<1> QED
  BY <1>6, <1>7 DEF MapSyncInv, Join, mapVars

LEMMA StorePositionsKeeps ==
    ASSUME MapSyncInv, NEW due \in BOOLEAN, StorePositions(due)
    PROVE  MapSyncInv'
<1>1. rows' \in [Players -> Places]
  BY DEF StorePositions, Playing, MapSyncInv, MapSyncTypeOK, Player
<1>2. MapSyncTypeOK'
  BY <1>1 DEF StorePositions, mapVars, genVars, MapSyncInv, MapSyncTypeOK, Phases
<1>3. Tables(players, client, world)'
  BY QuietKeepsTables DEF StorePositions, mapVars, MapSyncInv
<1> QED
  BY <1>2, <1>3 DEF MapSyncInv, StorePositions, mapVars

LEMMA ReceiveKeeps ==
    ASSUME MapSyncInv, NEW p \in Players, Receive(p)
    PROVE  MapSyncInv'
<1> DEFINE m == Head(client[p].inbox)
           cl == [client[p] EXCEPT !.inbox = Tail(@)]
<1>1. /\ players \in [Players -> Player \cup {None}] /\ client \in [Players -> Client]
      /\ msgs \in Seq([from : Players, msg : Orders]) /\ Tables(players, client, world)
  BY DEF MapSyncInv, MapSyncTypeOK
<1>2. players[p] \in Player /\ players[p] # None
  BY <1>1 DEF Receive, Playing
<1>3. client[p].inbox \in Seq(Positions \cup Orders) /\ client[p].inbox # << >>
  BY <1>1 DEF Receive, Client
<1>4. m \in Positions \cup Orders /\ Tail(client[p].inbox) \in Seq(Positions \cup Orders)
  BY <1>3
<1>5. cl \in Client /\ cl.told = client[p].told /\ cl.link = client[p].link
  BY <1>1, <1>4 DEF Client
<1>6. client' = [client EXCEPT ![p] = cl] /\ world' = world
  BY DEF Receive, mapVars
<1> HIDE DEF cl
<1>7. CASE m.kind = "SetPos"
  <2> DEFINE pl == [players[p] EXCEPT !.pos = m.at]
  <2>1. m.at \in Places
    BY <1>4, <1>7 DEF Positions, Orders
  <2>2. /\ pl \in Player /\ pl # None /\ pl.sent = players[p].sent
        /\ pl.served = players[p].served /\ pl.last = players[p].last
    BY <1>2, <2>1, NoneAssumption DEF Player
  <2>3. players' = [players EXCEPT ![p] = pl] /\ msgs' = msgs
    BY <1>7 DEF Receive
  <2> HIDE DEF pl
  <2>4. Tables(players, client, world)'
    BY <1>1, <1>2, <1>5, <1>6, <2>2, <2>3 DEF Tables
  <2>5. MapSyncTypeOK'
    BY <1>1, <1>5, <1>6, <2>2, <2>3 DEF Receive, mapVars, genVars, MapSyncInv, MapSyncTypeOK
  <2> QED
    BY <2>4, <2>5 DEF MapSyncInv, Receive, mapVars
<1>8. CASE m.kind # "SetPos"
  <2>1. m \in Orders
    BY <1>4, <1>8 DEF Positions
  <2>2. msgs' = Append(msgs, [from |-> p, msg |-> m]) /\ players' = players
    BY <1>8 DEF Receive
  <2>3. msgs' \in Seq([from : Players, msg : Orders])
    <3>1. [from |-> p, msg |-> m] \in [from : Players, msg : Orders]
      BY <2>1
    <3> QED
      BY <1>1, <2>2, <3>1
  <2>4. Tables(players, client, world)'
    BY <1>1, <1>5, <1>6, <2>2, QuietKeepsTables
  <2>5. MapSyncTypeOK'
    BY <1>1, <1>5, <1>6, <2>2, <2>3 DEF Receive, mapVars, genVars, MapSyncInv, MapSyncTypeOK
  <2> QED
    BY <2>4, <2>5 DEF MapSyncInv, Receive, mapVars
<1> QED
  BY <1>7, <1>8

LEMMA AllReceivedKeeps ==
    ASSUME MapSyncInv, AllReceived
    PROVE  MapSyncInv'
<1>1. Broken \in SUBSET Players
  BY DEF Broken, Playing
<1>2. /\ players' \in [Players -> Player \cup {None}] /\ client' \in [Players -> Client]
      /\ Tables(players', client', world)
  BY <1>1, LeaveKeeps, RemovalKeepsTables DEF AllReceived, MapSyncInv, MapSyncTypeOK
<1>3. MapSyncTypeOK'
  BY <1>2 DEF AllReceived, mapVars, genVars, MapSyncInv, MapSyncTypeOK, Phases
<1> QED
  BY <1>2, <1>3 DEF MapSyncInv, AllReceived, mapVars

\* The messages of the tick: what they leave of the queue is of its type.
LEMMA OrderFacts ==
    ASSUME MapSyncInv, At("process"), msgs # << >>
    PROVE  order \in Orders /\ Tail(msgs) \in Seq([from : Players, msg : Orders])
<1>1. msgs \in Seq([from : Players, msg : Orders])
  BY DEF MapSyncInv, MapSyncTypeOK
<1>2. Head(msgs) \in [from : Players, msg : Orders]
  <2>1. \A S, s : (s \in Seq(S) /\ s # << >>) => Head(s) \in S
    OBVIOUS
  <2> QED
    BY <1>1, <2>1
<1>3. order \in Orders
  BY <1>2 DEF order
<1> QED
  BY <1>1, <1>3

\* A change of chunks that are there, each of them shown, keeps everything.
LEMMA ChangeKeeps ==
    ASSUME MapSyncInv, NEW cs \in SUBSET Chunks, order \in Orders, Change(cs, cs),
           msgs' \in Seq([from : Players, msg : Orders]), UNCHANGED <<pc, genVars, rows, panic>>
    PROVE  MapSyncInv'
<1>1. world' \in Shown /\ stored' \in Shown /\ world' = stored'
  BY DEF Change, MapSyncInv, MapSyncTypeOK, Shown, Orders
<1>2. \A c \in Chunks \ cs : world'[c] = world[c]
  BY DEF Change
<1>3. /\ players' \in [Players -> Player \cup {None}] /\ client' \in [Players -> Client]
      /\ Tables(players', client', world')
  BY <1>1, <1>2, OnChangeKeeps DEF Change, MapSyncInv
<1>4. MapSyncTypeOK'
  BY <1>1, <1>3 DEF genVars, MapSyncInv, MapSyncTypeOK
<1> QED
  BY <1>1, <1>3, <1>4 DEF MapSyncInv

LEMMA PlaceBlockKeeps ==
    ASSUME MapSyncInv, PlaceBlock
    PROVE  MapSyncInv'
<1>1. At("process") /\ msgs # << >> /\ msgs' = Tail(msgs)
  BY DEF PlaceBlock, Handles
<1>2. {order.at} \cap Present \in SUBSET Chunks
  BY DEF Present
<1> QED
  BY <1>1, <1>2, OrderFacts, ChangeKeeps DEF PlaceBlock, Handles

LEMMA PlaceTreeKeeps ==
    ASSUME MapSyncInv, PlaceTree
    PROVE  MapSyncInv'
<1>1. At("process") /\ msgs # << >> /\ msgs' = Tail(msgs)
  BY DEF PlaceTree, Handles
<1>2. order \in Orders /\ msgs' \in Seq([from : Players, msg : Orders])
  BY <1>1, OrderFacts
<1>3. CASE TreeChunks(order.at) \subseteq Present
  <2>1. TreeChunks(order.at) \in SUBSET Chunks
    BY <1>3 DEF Present
  <2>2. Change(TreeChunks(order.at), TreeChunks(order.at)) /\ UNCHANGED panic
    BY <1>3 DEF PlaceTree, ShownOfTree, TreeChunks
  <2> QED
    BY <1>2, <2>1, <2>2, ChangeKeeps DEF PlaceTree, Handles
<1>4. CASE ~(TreeChunks(order.at) \subseteq Present)
  <2>1. panic' = TRUE /\ UNCHANGED <<world, stored, players, client>>
    BY <1>4 DEF PlaceTree, mapVars
  <2>2. MapSyncTypeOK'
    BY <1>2, <2>1 DEF PlaceTree, Handles, genVars, MapSyncInv, MapSyncTypeOK
  <2>3. Tables(players, client, world)'
    BY <2>1, QuietKeepsTables DEF MapSyncInv
  <2> QED
    BY <2>1, <2>2, <2>3 DEF MapSyncInv
<1> QED
  BY <1>3, <1>4

LEMMA SenderIsGoneKeeps ==
    ASSUME MapSyncInv, SenderIsGone
    PROVE  MapSyncInv'
<1>1. MapSyncTypeOK'
  BY DEF SenderIsGone, mapVars, genVars, MapSyncInv, MapSyncTypeOK
<1>2. Tables(players, client, world)'
  BY QuietKeepsTables DEF SenderIsGone, mapVars, MapSyncInv
<1> QED
  BY <1>1, <1>2 DEF MapSyncInv, SenderIsGone, mapVars

-----------------------------------------------------------------------------
LEMMA StepInv == MapSyncInv /\ [Next]_vars => MapSyncInv'
<1> SUFFICES ASSUME MapSyncInv, [Next]_vars PROVE MapSyncInv'
  OBVIOUS
<1>1. CASE ServerStep
  BY <1>1, SendKeeps, MapTickKeeps, JoinKeeps, ReceiveKeeps, StorePositionsKeeps,
     AllReceivedKeeps, PlaceBlockKeeps, PlaceTreeKeeps, SenderIsGoneKeeps DEF ServerStep
<1>2. CASE \E p \in Players : ClientStep(p)
  BY <1>2, ClientStepKeeps
<1>3. CASE \E m \in asked, margin \in BOOLEAN : Generate(m, margin)
  BY <1>3, GenerateKeeps
<1>4. CASE UNCHANGED vars
  <2>1. MapSyncTypeOK'
    BY <1>4 DEF vars, mapVars, genVars, MapSyncInv, MapSyncTypeOK
  <2>2. Tables(players, client, world)'
    BY <1>4, QuietKeepsTables DEF vars, mapVars, MapSyncInv
  <2> QED
    BY <1>4, <2>1, <2>2 DEF MapSyncInv, vars, mapVars
<1> QED
  BY <1>1, <1>2, <1>3, <1>4 DEF Next, Dead

\* The invariant is inductive.
THEOREM InvHolds == Spec => []MapSyncInv
BY InitInv, StepInv, PTL DEF Spec

\* Types: the tables, the queues and the clients hold what they are made for.
THEOREM TypesCorrect == Spec => []MapSyncTypeOK
<1>1. MapSyncInv => MapSyncTypeOK
  BY DEF MapSyncInv
<1> QED
  BY <1>1, InvHolds, PTL

\* For any radii, trees and players, whoever was sent a chunk has what the
\* server has of it, and the mapgen thread has it too (on_change,
\* chunk_changed, spawn_schematic).
THEOREM SentStaysCurrent == Spec => []SentIsCurrent
<1>1. MapSyncInv => SentIsCurrent
  BY DEF MapSyncInv, Tables, SentIsCurrent, Playing
<1> QED
  BY <1>1, InvHolds, PTL

\* For any radii and players, one that has been served has every chunk around
\* it that is there (send_chunks_to_players, on_change).
THEOREM NothingStaysMissing == Spec => []NothingIsMissing
<1>1. MapSyncInv => NothingIsMissing
  BY DEF MapSyncInv, Tables, NothingIsMissing, Playing, Present
<1> QED
  BY <1>1, InvHolds, PTL
=============================================================================
