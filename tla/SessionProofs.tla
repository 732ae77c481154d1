---------------------------- MODULE SessionProofs ----------------------------
(***************************************************************************)
(* For any connections, players, scripts and failing network tasks: the    *)
(* types, one session per player, no takeover of a session, nobody plays   *)
(* unauthenticated, one owner per connection, and, of the rows, that a     *)
(* player begins with and leaves behind what was stored last.              *)
(***************************************************************************)
EXTENDS Session, SequenceTheorems, TLAPS

\* Which loops of the tick may have work left in which phase.
PhaseInv ==
    /\ todo # {} => pc = "auth"
    /\ \A c \in Conns : verdict[c] # None => pc \in {"auth", "verdicts"}
    /\ joining # << >> => pc \in {"kv", "join", "greet"}
    /\ turn \subseteq Playing
    /\ turn # {} => pc \in {"store", "recv"}

\* A verdict stays good until it is applied: nobody begins to play meanwhile.
VerdictInv ==
    \A c \in Conns :
       verdict[c] # None /\ verdict[c].kind = "AddAsPlayer" =>
          /\ verdict[c].id \notin Playing
          /\ MayPlay(c, verdict[c].id)

JoiningMayPlay ==
    \A i \in 1..Len(joining) : MayPlay(joining[i].conn, joining[i].id)

SafetyInv ==
    /\ OneSessionPerPlayer
    /\ VerdictInv
    /\ OnlyAuthenticatedPlay
    /\ JoiningMayPlay

SessionInv == TypeOK /\ PhaseInv /\ SafetyInv

-----------------------------------------------------------------------------
(* Data. *)

\* What a message holds, by its kind.
LEMMA MessageFields ==
    ASSUME NEW m \in Messages
    PROVE  /\ m.kind = "LogIn" => m.nick \in Nicks
           /\ m.kind = "SetPos" => m.to \in Data
           /\ m.kind \in EditKinds => m.key \in RowsEdited /\ m.to \in Data
  BY DEF Messages, EditKinds, PlainKinds, GameKinds

\* Taking the first element of a queue.
LEMMA QueueTail ==
    ASSUME NEW S, NEW q \in Seq(S), q # << >>
    PROVE  /\ Head(q) \in S /\ Tail(q) \in Seq(S)
           /\ Len(q) \in Nat \ {0} /\ Len(Tail(q)) = Len(q) - 1
           /\ q[1] = Head(q)
           /\ \A i \in 1..Len(Tail(q)) : Tail(q)[i] = q[i + 1]
  BY HeadTailProperties, EmptySeq

\* What is in a queue, and after an element was appended.
LEMMA QueueElements ==
    ASSUME NEW S, NEW q \in Seq(S)
    PROVE  /\ \A i \in 1..Len(q) : q[i] \in S
           /\ \A e \in S : Append(q, e) \in Seq(S)
  OBVIOUS

\* The requests for the rows of one player are requests.
LEMMA RequestType ==
    ASSUME NEW id \in Ids, NEW key \in KvKeys, NEW v,
           NEW op \in {"get", "set"},
           op = "get" => v = None, op = "set" => v \in Data
    PROVE  Request(op, id, key, v) \in Seq(Requests)
  <1>1. CASE key \in Keys
    <2>1. [op |-> op, id |-> id, key |-> key, value |-> v] \in Requests
      BY <1>1 DEF Requests
    <2> QED
      BY <1>1, <2>1 DEF Request
  <1>2. CASE key \notin Keys
    BY <1>2 DEF Request
  <1> QED
    BY <1>1, <1>2

LEMMA GetsType ==
    ASSUME NEW id \in Ids
    PROVE  Gets(id) \in Seq(Requests)
  <1>1. \A key \in KvKeys : Request("get", id, key, None) \in Seq(Requests)
    BY RequestType
  <1>2. \A s, t \in Seq(Requests) : s \o t \in Seq(Requests)
    OBVIOUS
  <1> QED
    BY <1>1, <1>2 DEF Gets, KvKeys

-----------------------------------------------------------------------------
(* Frames. *)

\* Dropping connections keeps the network's types.
LEMMA DropType ==
    ASSUME NetTypeOK, NEW cs, Drop(cs)
    PROVE  NetTypeOK'
  <1>1. inbox' \in [Conns -> Seq(Messages)]
    BY DEF NetTypeOK, Drop
  <1> QED
    BY <1>1 DEF NetTypeOK, Drop

\* Closing players removes some and changes none of the others.
LEMMA CloseShrinks ==
    ASSUME PlayerTypeOK, NEW ids,
           players' = [id \in Ids |-> IF id \in ids THEN None ELSE players[id]]
    PROVE  /\ players' \in [Ids -> {None} \cup Players]
           /\ \A id \in Ids : players'[id] # None =>
                 players[id] # None /\ players'[id].conn = players[id].conn
  BY DEF PlayerTypeOK

\* A step that lets nobody begin to play, and leaves the waiting, the joining,
\* the verdicts and the accounts alone, keeps the safety invariant.
LEMMA ShrinkKeeps ==
    ASSUME SafetyInv,
           UNCHANGED <<waiting, joining, verdict, accounts>>,
           \A id \in Ids : players'[id] # None =>
              players[id] # None /\ players'[id].conn = players[id].conn
    PROVE  SafetyInv'
  BY DEF SafetyInv, OneSessionPerPlayer, VerdictInv, OnlyAuthenticatedPlay,
         JoiningMayPlay, MayPlay, Playing, JoiningIds

-----------------------------------------------------------------------------
(* The initial states. *)

LEMMA InitInv == Init => SessionInv
  <1> SUFFICES ASSUME Init PROVE SessionInv
    OBVIOUS
  <1> USE SessionAssumption
  <1>1. NetTypeOK
    BY DEF Init, NetTypeOK
  <1>2. AuthTypeOK
    <2>1. accounts \in [Ids -> {None} \cup Accounts]
      BY DEF Init, Accounts
    <2> QED
      BY <2>1 DEF Init, AuthTypeOK
  <1>3. PlayerTypeOK
    <2>1. waiting \in [Ids -> {None} \cup Waiting]
      BY DEF Init
    <2>2. players \in [Ids -> {None} \cup Players]
      BY DEF Init
    <2>3. joining \in Seq(Joining) /\ msgs \in Seq(Received)
      BY DEF Init
    <2> QED
      BY <2>1, <2>2, <2>3 DEF Init, PlayerTypeOK
  <1>4. KvTypeOK
    BY DEF Init, KvTypeOK
  <1>5. PhaseInv
    BY DEF Init, PhaseInv, Playing
  <1>6. SafetyInv
    BY DEF Init, SafetyInv, OneSessionPerPlayer, VerdictInv,
           OnlyAuthenticatedPlay, JoiningMayPlay, Playing, JoiningIds
  <1>7. pc \in Phases /\ panic \in Panics
    BY DEF Init, Phases, Panics
  <1> QED
    BY <1>1, <1>2, <1>3, <1>4, <1>5, <1>6, <1>7 DEF SessionInv, TypeOK

-----------------------------------------------------------------------------
(* Steps that touch few variables. *)

\* A conjunct of the invariant survives a step that leaves its variables alone.
LEMMA Frames ==
    /\ NetTypeOK /\ UNCHANGED netVars => NetTypeOK'
    /\ AuthTypeOK /\ UNCHANGED authVars => AuthTypeOK'
    /\ PlayerTypeOK /\ UNCHANGED <<turn, closing, waiting, players, joining,
                                   posDue, msgs, superseded>>
          => PlayerTypeOK'
    /\ KvTypeOK /\ UNCHANGED kvVars => KvTypeOK'
    /\ PhaseInv /\ UNCHANGED <<pc, turn, joining, players, todo, verdict>>
          => PhaseInv'
    /\ SafetyInv /\ UNCHANGED <<waiting, joining, verdict, accounts, players>>
          => SafetyInv'
  <1>1. SafetyInv /\ UNCHANGED <<waiting, joining, verdict, accounts, players>>
          => SafetyInv'
    BY ShrinkKeeps
  <1>2. PhaseInv /\ UNCHANGED <<pc, turn, joining, players, todo, verdict>>
          => PhaseInv'
    BY DEF PhaseInv, Playing
  <1>3. PlayerTypeOK /\ UNCHANGED <<turn, closing, waiting, players, joining,
                                    posDue, msgs, superseded>>
          => PlayerTypeOK'
    BY DEF PlayerTypeOK
  <1>4. /\ AuthTypeOK /\ UNCHANGED authVars => AuthTypeOK'
        /\ KvTypeOK /\ UNCHANGED kvVars => KvTypeOK'
        /\ NetTypeOK /\ UNCHANGED netVars => NetTypeOK'
    BY DEF AuthTypeOK, authVars, KvTypeOK, kvVars, NetTypeOK, netVars
  <1> QED
    BY <1>1, <1>2, <1>3, <1>4

\* A panic stops the server and changes nothing else.
LEMMA PanicKeeps ==
    ASSUME SessionInv, NEW why \in Panics, Panic(why)
    PROVE  SessionInv'
  BY Frames DEF SessionInv, TypeOK, Panic, authVars

\* Clients and network tasks.
LEMMA NetworkKeeps ==
    ASSUME SessionInv, NEW c \in Conns,
           Open(c) \/ ClientSend(c) \/ ReaderEnds(c) \/ WriterEnds(c)
    PROVE  SessionInv'
  <1> USE SessionAssumption
  <1>1. NetTypeOK'
    <2>1. CASE Open(c)
      BY <2>1 DEF SessionInv, TypeOK, NetTypeOK, Open
    <2>2. CASE ClientSend(c)
      <3>1. PICK m \in Head(script[c]) :
               inbox' = [inbox EXCEPT ![c] = Append(@, m)]
        BY <2>2 DEF ClientSend
      <3>2. Head(script[c]) \in SUBSET Messages
            /\ Tail(script[c]) \in Seq(SUBSET Messages)
        BY <2>2 DEF ClientSend, SessionInv, TypeOK, NetTypeOK
      <3>3. m \in Messages
        BY <3>2
      <3>4. inbox' \in [Conns -> Seq(Messages)]
        BY <3>1, <3>3 DEF SessionInv, TypeOK, NetTypeOK
      <3> QED
        BY <2>2, <3>2, <3>4 DEF SessionInv, TypeOK, NetTypeOK, ClientSend
    <2>3. CASE ReaderEnds(c) \/ WriterEnds(c)
      BY <2>3 DEF SessionInv, TypeOK, NetTypeOK, ReaderEnds, WriterEnds
    <2> QED
      BY <2>1, <2>2, <2>3
  <1>2. UNCHANGED <<pc, panic, authVars, turn, waiting, joining, players,
                    posDue, msgs, closing, kvVars, superseded>>
    BY DEF Open, ClientSend, ReaderEnds, WriterEnds
  <1> QED
    BY <1>1, <1>2, Frames DEF SessionInv, TypeOK, authVars

\* The mapgen thread answers with what its rows hold.
LEMMA ServeRequestKeeps ==
    ASSUME SessionInv, ServeRequest
    PROVE  SessionInv'
  <1>1. KvTypeOK'
    <2> DEFINE r == Head(requests)
    <2>1. r \in Requests /\ requests' \in Seq(Requests)
      BY QueueTail DEF ServeRequest, SessionInv, TypeOK, KvTypeOK
    <2>2. CASE r.op = "get" /\ UNCHANGED rows
               /\ results' = Append(results,
                    [id |-> r.id, key |-> r.key, value |-> rows[r.id][r.key]])
      BY <2>1, <2>2 DEF SessionInv, TypeOK, KvTypeOK, Requests
    <2>3. CASE r.op = "set" /\ UNCHANGED results
               /\ rows' = [rows EXCEPT ![r.id][r.key] = r.value]
      BY <2>1, <2>3 DEF SessionInv, TypeOK, KvTypeOK, Requests
    <2> QED
      BY <2>2, <2>3 DEF ServeRequest
  <1> QED
    BY <1>1, Frames DEF SessionInv, TypeOK, ServeRequest, authVars

\* Only the phase changes.
LEMMA PhaseStepsKeep ==
    ASSUME SessionInv,
           AuthPolled \/ VerdictsApplied \/ NoResult \/ AllJoined
             \/ PlayersStored \/ EndOfTick
    PROVE  SessionInv'
  <1>1. PhaseInv' /\ pc' \in Phases
    <2>1. CASE AuthPolled \/ VerdictsApplied
      BY <2>1 DEF SessionInv, TypeOK, PhaseInv, AuthPolled, VerdictsApplied,
                  Phases, At, Playing, authVars
    <2>2. CASE NoResult \/ EndOfTick
      BY <2>2 DEF SessionInv, TypeOK, PhaseInv, NoResult, EndOfTick,
                  Phases, At, Playing, authVars
    <2>3. CASE AllJoined \/ PlayersStored
      BY <2>3 DEF SessionInv, TypeOK, PhaseInv, AllJoined, PlayersStored,
                  Phases, At, Playing, authVars
    <2> QED
      BY <2>1, <2>2, <2>3
  <1>2. PlayerTypeOK'
    <2>1. turn' \subseteq Ids /\ posDue' \in BOOLEAN /\ superseded' \subseteq Ids
      BY DEF SessionInv, TypeOK, PlayerTypeOK, Playing, AuthPolled,
             VerdictsApplied, NoResult, AllJoined, PlayersStored, EndOfTick
    <2>2. UNCHANGED <<closing, waiting, players, joining, msgs>>
      BY DEF AuthPolled, VerdictsApplied, NoResult, AllJoined, PlayersStored,
             EndOfTick
    <2> QED
      BY <2>1, <2>2 DEF SessionInv, TypeOK, PlayerTypeOK
  <1>3. UNCHANGED <<panic, netVars, authVars, waiting, joining, players, kvVars>>
    BY DEF AuthPolled, VerdictsApplied, NoResult, AllJoined, PlayersStored,
           EndOfTick
  <1> QED
    BY <1>1, <1>2, <1>3, Frames DEF SessionInv, TypeOK, authVars

-----------------------------------------------------------------------------
(* Steps that close players or edit them. *)

\* The players ps are those of now, some of them edited.
EditOf(ps) ==
    /\ ps \in [Ids -> {None} \cup Players]
    /\ \A id \in Ids : ps[id] # None =>
          /\ players[id] # None /\ ps[id].conn = players[id].conn
          /\ ps[id].last = players[id].last

\* Outside of the loops over the players, players may be edited and closed.
LEMMA ClosingKeeps ==
    ASSUME SessionInv, NEW ids, NEW cs, NEW ps, EditOf(ps),
           players' = [id \in Ids |-> IF id \in ids THEN None ELSE ps[id]],
           Drop(cs),
           turn = {}, pc \notin {"auth", "verdicts"},
           pc' \in Phases,
           pc \in {"kv", "join", "greet"} => pc' \in {"kv", "join", "greet"},
           closing' \subseteq Ids,
           msgs' \in Seq(Received),
           UNCHANGED <<panic, authVars, turn, waiting, joining, posDue,
                       superseded, kvVars>>
    PROVE  SessionInv'
  <1>1. /\ players' \in [Ids -> {None} \cup Players]
        /\ \A id \in Ids : players'[id] # None =>
              players[id] # None /\ players'[id].conn = players[id].conn
    BY DEF EditOf
  <1>2. NetTypeOK'
    BY DropType DEF SessionInv, TypeOK
  <1>3. PlayerTypeOK'
    BY <1>1 DEF SessionInv, TypeOK, PlayerTypeOK
  <1>4. PhaseInv'
    BY DEF SessionInv, PhaseInv, authVars
  <1>5. SafetyInv'
    BY <1>1, ShrinkKeeps DEF SessionInv, authVars
  <1> QED
    BY <1>2, <1>3, <1>4, <1>5, Frames DEF SessionInv, TypeOK

\* The players themselves are an edit of the players.
LEMMA PlayersAreAnEdit ==
    ASSUME PlayerTypeOK PROVE EditOf(players)
  BY DEF PlayerTypeOK, EditOf

\* In the phases that send to everybody nobody is left to be served.
LEMMA NoTurn ==
    ASSUME PhaseInv, pc \notin {"store", "recv"} PROVE turn = {}
  BY DEF PhaseInv

\* The sends that close every player they fail for, and the end of get_msgs.
LEMMA SendsKeep ==
    ASSUME SessionInv,
           SendPositions \/ MapTick \/ Greet \/ MessagesCollected
    PROVE  SessionInv'
  <1> USE PlayersAreAnEdit, NoTurn DEF SessionInv, TypeOK
  <1>1. PICK ids : CloseConnections(ids)
    BY DEF SendPositions, MapTick, Greet, MessagesCollected
  <1>2. turn = {} /\ pc \notin {"auth", "verdicts"} /\ pc' \in Phases
    BY DEF SendPositions, MapTick, Greet, MessagesCollected, At, Phases
  <1>3. pc \in {"kv", "join", "greet"} => pc' \in {"kv", "join", "greet"}
    BY DEF SendPositions, MapTick, Greet, MessagesCollected, At
  <1>4. closing' \subseteq Ids /\ msgs' \in Seq(Received)
    BY DEF PlayerTypeOK, SendPositions, MapTick, Greet, MessagesCollected
  <1>5. UNCHANGED <<panic, authVars, turn, waiting, joining, posDue,
                    superseded, kvVars>>
    BY DEF SendPositions, MapTick, Greet, MessagesCollected
  <1> HIDE DEF SessionInv, TypeOK
  <1>6. EditOf(players)
    BY PlayersAreAnEdit DEF SessionInv, TypeOK
  <1> QED
    BY <1>1, <1>2, <1>3, <1>4, <1>5, <1>6, ClosingKeeps DEF CloseConnections

\* The message being handled.
LEMMA HeadMessage ==
    ASSUME SessionInv, msgs # << >>
    PROVE  /\ sender \in Ids /\ Head(msgs).msg \in Messages
           /\ Tail(msgs) \in Seq(Received)
  <1>1. msgs \in Seq(Received)
    BY DEF SessionInv, TypeOK, PlayerTypeOK
  <1>2. Head(msgs) \in Received
    BY <1>1, QueueTail
  <1> QED
    BY <1>1, <1>2, QueueTail DEF sender, Received

\* What a message changes of its sender leaves the sender a player.
LEMMA EditedIsAnEdit ==
    ASSUME SessionInv, Handles(EditKinds), sender \in Playing
    PROVE  EditOf(Edited(players, Head(msgs).msg))
  <1> DEFINE m == Head(msgs).msg
  <1>1. sender \in Ids /\ m \in Messages
    BY HeadMessage DEF Handles
  <1>2. m.key \in RowsEdited /\ m.to \in Data
    BY <1>1, MessageFields DEF Handles
  <1>3. players[sender] \in Players
    BY <1>1 DEF Playing, SessionInv, TypeOK, PlayerTypeOK
  <1>4. [players[sender] EXCEPT !.cur[m.key] = m.to] \in Players
    BY <1>2, <1>3 DEF Players
  <1>5. Edited(players, m) =
          [players EXCEPT ![sender] =
             [players[sender] EXCEPT !.cur[m.key] = m.to]]
    BY <1>1, <1>3 DEF Edited, SessionInv, TypeOK, PlayerTypeOK, Players
  <1>6. LET p == [players[sender] EXCEPT !.cur[m.key] = m.to]
        IN  p.conn = players[sender].conn /\ p.last = players[sender].last
    BY <1>3 DEF Players
  <1>7. players[sender] # None
    BY DEF Playing
  <1> HIDE DEF m
  <1> QED
    BY <1>1, <1>4, <1>5, <1>6, <1>7 DEF EditOf, SessionInv, TypeOK, PlayerTypeOK, m

\* The handlers of the message loop edit the sender and close players.
Handler == Place \/ Edit \/ Dig \/ ToChest \/ InChest \/ Gime \/ Answer
             \/ Info \/ Chat \/ IgnoreLate

LEMMA HandlersClose ==
    ASSUME SessionInv, Handler
    PROVE  \E ps, ids : EditOf(ps) /\ CloseAfter(ps, ids)
  <1> DEFINE m == Head(msgs).msg
  <1>1. EditOf(players)
    BY PlayersAreAnEdit DEF SessionInv, TypeOK
  <1>2. CASE Place \/ Edit \/ Dig \/ ToChest \/ Gime
    <2>1. Handles(EditKinds) /\ sender \in Playing
      BY <1>2 DEF Place, Edit, Dig, ToChest, Gime, Handles, EditKinds
    <2>2. EditOf(Edited(players, m))
      BY <2>1, EditedIsAnEdit
    <2>3. CASE Dig
      <3>1. PICK changed, loaded \in BOOLEAN :
               CloseAfter(IF changed THEN Edited(players, m) ELSE players,
                          IF loaded THEN Broken ELSE Broken \cap {sender})
        BY <2>3 DEF Dig
      <3> QED
        BY <1>1, <2>2, <3>1
    <2>4. CASE Place \/ Edit \/ ToChest \/ Gime
      BY <1>1, <2>2, <2>4 DEF Place, Edit, ToChest, Gime
    <2> QED
      BY <1>2, <2>3, <2>4
  <1>3. CASE InChest
    BY <1>1, <1>3 DEF InChest
  <1>4. CASE Answer \/ Info \/ Chat \/ IgnoreLate
    BY <1>1, <1>4 DEF Answer, Info, Chat, IgnoreLate
  <1> QED
    BY <1>2, <1>3, <1>4 DEF Handler

LEMMA HandlersKeep ==
    ASSUME SessionInv, Handler
    PROVE  SessionInv'
  <1>1. PICK ps, ids : EditOf(ps) /\ CloseAfter(ps, ids)
    BY HandlersClose
  <1>2. Handled /\ At("process") /\ msgs # << >>
    BY DEF Handler, Place, Edit, Dig, ToChest, InChest, Gime, Answer, Info,
           Chat, IgnoreLate, Handles
  <1>3. turn = {} /\ pc \notin {"auth", "verdicts", "kv", "join", "greet"}
    BY <1>2, NoTurn DEF At, SessionInv
  <1>4. pc' \in Phases /\ closing' \subseteq Ids
    BY <1>2 DEF Handled, SessionInv, TypeOK, PlayerTypeOK
  <1>5. msgs' \in Seq(Received)
    BY <1>2, HeadMessage DEF Handled
  <1> QED
    BY <1>1, <1>2, <1>3, <1>4, <1>5, ClosingKeeps DEF CloseAfter, Handled

LEMMA HandlerPanicsKeep ==
    ASSUME SessionInv, SenderIsGone \/ TreeUnloaded PROVE SessionInv'
  BY PanicKeeps DEF SenderIsGone, TreeUnloaded, Panics

\* store_player_kvs.
LEMMA StorePlayerKeeps ==
    ASSUME SessionInv, NEW id \in Ids, StorePlayer(id)
    PROVE  SessionInv'
  <1> DEFINE p == players[id]
             q == [p EXCEPT !.last = Remembered(p)]
  <1> USE DEF SessionInv, TypeOK
  <1>1. p \in Players /\ id \in Playing
    BY DEF StorePlayer, PhaseInv, Playing, PlayerTypeOK
  <1>2. Remembered(p) \in [RowsEdited -> RowsEdited \X Data]
    BY <1>1 DEF Players, Remembered, Changed, RowsEdited
  <1>3. q \in Players /\ q.conn = p.conn
    BY <1>1, <1>2 DEF Players
  <1>4. players' = [players EXCEPT ![id] = q]
    BY DEF StorePlayer, PlayerTypeOK
  <1>5. /\ players' \in [Ids -> {None} \cup Players]
        /\ \A i \in Ids : players'[i] # None =>
              players[i] # None /\ players'[i].conn = players[i].conn
    <2> HIDE DEF q
    <2> QED
      BY <1>1, <1>3, <1>4 DEF PlayerTypeOK, Playing, p
  <1>6. requests' \in Seq(Requests)
    <2>1. \A key \in KvKeys, cond \in BOOLEAN :
             StoreIf(cond, id, key) \in Seq(Requests)
      <3> SUFFICES ASSUME NEW key \in KvKeys, NEW cond \in BOOLEAN
                   PROVE  StoreIf(cond, id, key) \in Seq(Requests)
        OBVIOUS
      <3>1. CASE key \in Keys
        BY <1>1, <3>1, RequestType DEF StoreIf, Players
      <3>2. CASE key \notin Keys
        BY <3>2 DEF StoreIf, Request
      <3> QED
        BY <3>1, <3>2
    <2>2. \A s, t \in Seq(Requests) : s \o t \in Seq(Requests)
      OBVIOUS
    <2>3. posDue \in BOOLEAN /\ \A key : Changed(p, key) \in BOOLEAN
      BY DEF PlayerTypeOK, Changed
    <2> QED
      BY <2>1, <2>2, <2>3 DEF StorePlayer, KvTypeOK, KvKeys
  <1>7. PlayerTypeOK' /\ PhaseInv'
    BY <1>1, <1>5 DEF StorePlayer, PlayerTypeOK, PhaseInv, Playing, authVars
  <1>8. SafetyInv'
    BY <1>5, ShrinkKeeps DEF StorePlayer, authVars
  <1> QED
    BY <1>6, <1>7, <1>8, Frames DEF StorePlayer, KvTypeOK

\* get_msgs takes messages off a player's connection.
LEMMA ReceiveKeeps ==
    ASSUME SessionInv, NEW id \in Ids, Receive(id)
    PROVE  SessionInv'
  <1> DEFINE c == players[id].conn
             m == Head(inbox[c])
  <1>1. players[id] \in Players /\ c \in Conns /\ id \in Playing
    BY DEF Receive, MayReceive, SessionInv, TypeOK, PlayerTypeOK, PhaseInv,
           Playing, Players
  <1>2. inbox[c] \in Seq(Messages) /\ inbox[c] # << >>
    BY <1>1 DEF Receive, SessionInv, TypeOK, NetTypeOK
  <1>3. m \in Messages /\ Tail(inbox[c]) \in Seq(Messages)
    BY <1>2, QueueTail
  <1>4. NetTypeOK'
    BY <1>1, <1>3 DEF Receive, Take, SessionInv, TypeOK, NetTypeOK
  <1>5. /\ players' \in [Ids -> {None} \cup Players]
        /\ \A i \in Ids : /\ players'[i] # None <=> players[i] # None
                          /\ players[i] # None =>
                               players'[i].conn = players[i].conn
    <2>1. players \in [Ids -> {None} \cup Players] /\ None \notin Players
      BY SessionAssumption DEF SessionInv, TypeOK, PlayerTypeOK
    <2>2. CASE m.kind = "SetPos" /\ "position" \in Keys
      <3> DEFINE q == [players[id] EXCEPT !.cur["position"] = m.to]
      <3>1. players' = [players EXCEPT ![id] = q]
        BY <2>2 DEF Receive, SessionInv, TypeOK, PlayerTypeOK
      <3>2. q \in Players /\ q.conn = players[id].conn
        BY <1>1, <1>3, <2>2, MessageFields DEF Players
      <3> HIDE DEF q
      <3> QED
        BY <1>1, <2>1, <3>1, <3>2
    <2>3. CASE ~(m.kind = "SetPos" /\ "position" \in Keys)
      BY <2>1, <2>3 DEF Receive
    <2> QED
      BY <2>2, <2>3
  <1>6. msgs' \in Seq(Received)
    <2>1. [from |-> id, msg |-> m] \in Received
      BY <1>3 DEF Received
    <2>2. msgs \in Seq(Received)
      BY DEF SessionInv, TypeOK, PlayerTypeOK
    <2>3. UNCHANGED msgs \/ msgs' = Append(msgs, [from |-> id, msg |-> m])
      BY DEF Receive
    <2> QED
      BY <2>1, <2>2, <2>3, QueueElements
  <1>7. UNCHANGED <<pc, panic, authVars, turn, waiting, joining, posDue,
                    closing, kvVars, superseded>>
    BY DEF Receive
  <1>8. PlayerTypeOK' /\ PhaseInv'
    BY <1>5, <1>6, <1>7
       DEF SessionInv, TypeOK, PlayerTypeOK, PhaseInv, Playing, authVars
  <1>9. SafetyInv'
    BY <1>5, <1>7, ShrinkKeeps DEF SessionInv, authVars
  <1> QED
    BY <1>4, <1>7, <1>8, <1>9, Frames DEF SessionInv, TypeOK

LEMMA ReceivedAllKeeps ==
    ASSUME SessionInv, NEW id \in Ids, ReceivedAll(id)
    PROVE  SessionInv'
  <1>1. PlayerTypeOK' /\ PhaseInv'
    BY DEF ReceivedAll, MayReceive, At, SessionInv, TypeOK, PlayerTypeOK,
           PhaseInv, Playing, authVars
  <1> QED
    BY <1>1, Frames DEF ReceivedAll, SessionInv, TypeOK, authVars

-----------------------------------------------------------------------------
(* The log in. *)

LEMMA AcceptKeeps ==
    ASSUME SessionInv, Accept
    PROVE  SessionInv'
  <1>1. NetTypeOK'
    BY DEF Accept, SessionInv, TypeOK, NetTypeOK
  <1>2. auth' \in [Conns -> {None, Unauthenticated} \cup LogIns]
    BY DEF Accept, SessionInv, TypeOK, AuthTypeOK
  <1>3. AuthTypeOK'
    BY <1>2 DEF Accept, SessionInv, TypeOK, AuthTypeOK
  <1>4. PhaseInv' /\ pc' \in Phases
    BY DEF Accept, At, Phases, SessionInv, PhaseInv, Playing
  <1>5. SafetyInv'
    BY Frames DEF Accept, SessionInv
  <1> QED
    BY <1>1, <1>3, <1>4, <1>5, Frames DEF Accept, SessionInv, TypeOK

\* One message is taken off a connection that logs in.
LEMMA TakeType ==
    ASSUME NetTypeOK, NEW c \in Conns, inbox[c] # << >>, Take(c),
           UNCHANGED <<fresh, backlog, readers, writers, script>>
    PROVE  NetTypeOK' /\ Head(inbox[c]) \in Messages
  <1>1. inbox[c] \in Seq(Messages)
    BY DEF NetTypeOK
  <1>2. Head(inbox[c]) \in Messages /\ Tail(inbox[c]) \in Seq(Messages)
    BY <1>1, QueueTail
  <1> QED
    BY <1>2 DEF NetTypeOK, Take

\* The invariant survives a poll if the states and verdicts it writes are good.
LEMMA PollKeeps ==
    ASSUME SessionInv, AuthTypeOK', NetTypeOK', pc = "auth", VerdictInv',
           \A c \in Conns, id \in Ids : MayPlay(c, id) => MayPlay(c, id)',
           AuthUnchanged
    PROVE  SessionInv'
  <1> USE DEF AuthUnchanged
  <1>1. PhaseInv'
    BY DEF SessionInv, PhaseInv, Playing
  <1>2. OneSessionPerPlayer' /\ JoiningMayPlay' /\ OnlyAuthenticatedPlay'
    <2>1. \A id \in Ids :
             /\ waiting[id] # None => waiting[id].conn \in Conns
             /\ players[id] # None => players[id].conn \in Conns
      BY DEF SessionInv, TypeOK, PlayerTypeOK, Waiting, Players
    <2>2. \A i \in 1..Len(joining) :
             joining[i].conn \in Conns /\ joining[i].id \in Ids
      <3>1. joining \in Seq(Joining)
        BY DEF SessionInv, TypeOK, PlayerTypeOK
      <3>2. \A i \in 1..Len(joining) : joining[i] \in Joining
        BY <3>1, QueueElements
      <3> QED
        BY <3>2 DEF Joining
    <2>3. OneSessionPerPlayer'
      BY DEF SessionInv, SafetyInv, OneSessionPerPlayer, Playing, JoiningIds
    <2>4. JoiningMayPlay'
      BY <2>2 DEF SessionInv, SafetyInv, JoiningMayPlay
    <2>5. OnlyAuthenticatedPlay'
      BY <2>1 DEF SessionInv, SafetyInv, OnlyAuthenticatedPlay, Playing
    <2> QED
      BY <2>3, <2>4, <2>5
  <1> QED
    BY <1>1, <1>2, Frames DEF SessionInv, TypeOK, SafetyInv

\* A verdict on c that is a failure, a close, or good.
LEMMA DecideKeeps ==
    ASSUME SessionInv, NEW c \in todo, NEW v, Decide(c, v),
           v \in {LogInFail, Close}
             \/ \E id \in Ids : v = AddUnlessPlaying(id) /\ MayPlay(c, id)',
           \A d \in Conns, id \in Ids : MayPlay(d, id) => MayPlay(d, id)',
           UNCHANGED <<auth, players>>
    PROVE  /\ verdict' \in [Conns -> {None} \cup Verdicts]
           /\ todo' \subseteq {d \in Conns : auth'[d] # None}
           /\ VerdictInv'
  <1>1. c \in Conns /\ verdict \in [Conns -> {None} \cup Verdicts]
    BY DEF SessionInv, TypeOK, AuthTypeOK
  <1>2. /\ v \in Verdicts
        /\ v.kind = "AddAsPlayer" => v.id \notin Playing /\ MayPlay(c, v.id)'
    BY DEF Verdicts, LogInFail, Close, AddUnlessPlaying, AddAsPlayer
  <1>3. verdict' \in [Conns -> {None} \cup Verdicts]
    BY <1>1, <1>2 DEF Decide
  <1>4. VerdictInv'
    <2> SUFFICES ASSUME NEW d \in Conns, NEW id, verdict'[d] # None,
                        verdict'[d].kind = "AddAsPlayer",
                        verdict'[d].id = id
                 PROVE  id \notin Playing /\ MayPlay(d, id)'
      BY DEF VerdictInv, Playing, MayPlay
    <2>1. CASE d = c
      BY <1>1, <1>2, <2>1 DEF Decide
    <2>2. CASE d # c
      <3>1. verdict'[d] = verdict[d]
        BY <1>1, <2>2 DEF Decide
      <3>2. id \in Ids
        BY <1>1, <3>1 DEF Verdicts
      <3>3. id \notin Playing /\ MayPlay(d, id)
        BY <3>1 DEF SessionInv, SafetyInv, VerdictInv
      <3> QED
        BY <3>1, <3>2, <3>3
    <2> QED
      BY <2>1, <2>2
  <1> QED
    BY <1>3, <1>4 DEF Decide, SessionInv, TypeOK, AuthTypeOK

\* Nobody loses the right to play when the accounts stay as they are.
LEMMA SameRights ==
    ASSUME UNCHANGED accounts
    PROVE  \A c \in Conns, id \in Ids : MayPlay(c, id) => MayPlay(c, id)'
  BY DEF MayPlay

\* The verdicts stay good when they, the players and the accounts do not change.
LEMMA SameVerdicts ==
    ASSUME SessionInv, UNCHANGED <<verdict, players, accounts>>
    PROVE  VerdictInv'
  BY DEF SessionInv, SafetyInv, VerdictInv, Playing, MayPlay

\* What every poll of a connection has in common.
LEMMA Polled ==
    ASSUME SessionInv, NEW c \in Conns, NEW kinds, Receives(c, kinds), Take(c),
           AuthUnchanged
    PROVE  /\ NetTypeOK' /\ Head(inbox[c]) \in Messages
           /\ pc = "auth" /\ auth[c] # None /\ c \in todo
           /\ auth[c] \in {Unauthenticated} \cup LogIns
  BY TakeType DEF SessionInv, TypeOK, AuthTypeOK, Receives, At, AuthUnchanged

LEMMA LogInKeeps ==
    ASSUME SessionInv, NEW c \in Conns, LogIn(c)
    PROVE  SessionInv'
  <1> DEFINE nick == Head(inbox[c]).nick
  <1> USE SessionAssumption
  <1>1. /\ AuthUnchanged /\ NetTypeOK' /\ pc = "auth" /\ c \in todo
        /\ UNCHANGED <<accounts, hashed, players>>
    BY Polled DEF LogIn, AuthUnchanged
  <1>2. AuthTypeOK' /\ VerdictInv'
    <2>1. CASE Decide(c, LogInFail) /\ UNCHANGED auth
      BY <1>1, <2>1, DecideKeeps, SameRights DEF SessionInv, TypeOK, AuthTypeOK
    <2>2. CASE /\ UNCHANGED <<verdict, todo>>
               /\ \E r \in LogIns : auth' = [auth EXCEPT ![c] = r]
      <3>1. AuthTypeOK'
        BY <1>1, <2>2 DEF SessionInv, TypeOK, AuthTypeOK
      <3> QED
        BY <1>1, <2>2, <3>1, SameVerdicts
    <2>3. nick \in ValidNicks =>
             /\ [state |-> "WaitingForM1", nick |-> nick] \in LogIns
             /\ [state |-> "NewUser", nick |-> nick] \in LogIns
      BY DEF LogIns
    <2> QED
      BY <2>1, <2>2, <2>3 DEF LogIn
  <1> QED
    BY <1>1, <1>2, PollKeeps, SameRights

LEMMA SendM1Keeps ==
    ASSUME SessionInv, NEW c \in Conns, SendM1(c)
    PROVE  SessionInv'
  <1> DEFINE id == Lower[auth[c].nick]
  <1> USE SessionAssumption
  <1>1. /\ AuthUnchanged /\ NetTypeOK' /\ pc = "auth" /\ c \in todo
        /\ UNCHANGED <<accounts, hashed, players, auth>>
        /\ auth[c] \in {Unauthenticated} \cup LogIns
    BY Polled DEF SendM1, AuthUnchanged
  <1>2. \/ /\ auth[c].state = "WaitingForM1" /\ Password[c] = id
           /\ Decide(c, AddUnlessPlaying(id))
        \/ Decide(c, LogInFail)
    BY DEF SendM1
  <1>3. auth[c].state = "WaitingForM1" => id \in Ids
    BY <1>1 DEF LogIns, Unauthenticated
  <1>4. \E v : /\ Decide(c, v)
               /\ v \in {LogInFail, Close} \/
                    \E i \in Ids : v = AddUnlessPlaying(i) /\ MayPlay(c, i)'
    <2>1. CASE Decide(c, LogInFail)
      BY <2>1
    <2>2. CASE /\ auth[c].state = "WaitingForM1" /\ Password[c] = id
               /\ Decide(c, AddUnlessPlaying(id))
      <3>1. \E i \in Ids : /\ Decide(c, AddUnlessPlaying(i))
                           /\ Password[c] = i
        BY <1>3, <2>2
      <3> QED
        BY <3>1 DEF MayPlay
    <2> QED
      BY <1>2, <2>1, <2>2
  <1>5. AuthTypeOK' /\ VerdictInv'
    BY <1>1, <1>4, DecideKeeps, SameRights DEF SessionInv, TypeOK, AuthTypeOK
  <1> QED
    BY <1>1, <1>5, PollKeeps, SameRights

LEMMA SendHashKeeps ==
    ASSUME SessionInv, NEW c \in Conns, SendHash(c)
    PROVE  SessionInv'
  <1> DEFINE id == Lower[auth[c].nick]
  <1> USE SessionAssumption
  <1>1. pc = "auth" /\ c \in todo /\ auth[c] \in {Unauthenticated} \cup LogIns
    BY DEF SendHash, Receives, At, SessionInv, TypeOK, AuthTypeOK
  <1>2. CASE /\ auth[c].state = "NewUser" /\ accounts[id] = None
             /\ accounts' = [accounts EXCEPT ![id] =
                               [name |-> auth[c].nick, by |-> c]]
             /\ hashed' = hashed \cup {id}
             /\ Decide(c, AddUnlessPlaying(id))
             /\ Take(c)
             /\ UNCHANGED auth /\ AuthUnchanged
    <2>1. id \in Ids /\ auth[c].nick \in ValidNicks
      BY <1>1, <1>2 DEF LogIns, Unauthenticated
    <2>2. NetTypeOK'
      BY <1>2, Polled DEF SendHash
    <2>3. accounts \in [Ids -> {None} \cup Accounts]
      BY DEF SessionInv, TypeOK, AuthTypeOK
    <2>4. [name |-> auth[c].nick, by |-> c] \in Accounts
      BY <2>1 DEF Accounts
    <2>5. accounts' \in [Ids -> {None} \cup Accounts]
      BY <1>2, <2>1, <2>3, <2>4
    <2>6. \A d \in Conns, i \in Ids : MayPlay(d, i) => MayPlay(d, i)'
      BY <1>2, <2>1, <2>3 DEF MayPlay
    <2>7. \E i \in Ids : /\ Decide(c, AddUnlessPlaying(i))
                         /\ MayPlay(c, i)'
      <3>1. PICK i \in Ids : i = id
        BY <2>1
      <3>2. accounts'[i] = [name |-> auth[c].nick, by |-> c]
        BY <1>2, <2>3, <3>1
      <3>3. accounts'[i] # None /\ accounts'[i].by = c
        BY <2>4, <3>2
      <3> QED
        BY <1>2, <3>1, <3>3 DEF MayPlay
    <2>8. UNCHANGED <<auth, players>>
      BY <1>2 DEF AuthUnchanged
    <2>9. AuthTypeOK' /\ VerdictInv'
      BY <1>1, <1>2, <2>1, <2>5, <2>6, <2>7, <2>8, DecideKeeps
         DEF SessionInv, TypeOK, AuthTypeOK
    <2> QED
      BY <1>1, <1>2, <2>2, <2>6, <2>9, PollKeeps
  <1>3. CASE Panic("account")
    BY <1>3, PanicKeeps DEF Panics
  <1>4. CASE /\ Decide(c, LogInFail) /\ Take(c)
             /\ UNCHANGED <<auth, accounts, hashed>> /\ AuthUnchanged
    <2>1. NetTypeOK' /\ UNCHANGED players
      BY <1>4, Polled DEF SendHash, AuthUnchanged
    <2>2. AuthTypeOK' /\ VerdictInv'
      BY <1>1, <1>4, <2>1, DecideKeeps, SameRights
         DEF SessionInv, TypeOK, AuthTypeOK
    <2> QED
      BY <1>1, <1>4, <2>1, <2>2, PollKeeps, SameRights
  <1> QED
    BY <1>2, <1>3, <1>4 DEF SendHash

LEMMA IgnoreEarlyKeeps ==
    ASSUME SessionInv, NEW c \in Conns, IgnoreEarly(c)
    PROVE  SessionInv'
  <1>1. /\ AuthUnchanged /\ NetTypeOK' /\ UNCHANGED authVars
    BY Polled DEF IgnoreEarly, authVars
  <1> QED
    BY <1>1, Frames DEF SessionInv, TypeOK, AuthUnchanged, authVars

LEMMA NothingLeftKeeps ==
    ASSUME SessionInv, NEW c \in Conns, NothingLeft(c)
    PROVE  SessionInv'
  <1>1. /\ AuthUnchanged /\ pc = "auth" /\ c \in todo
        /\ UNCHANGED <<inbox, auth, accounts, hashed, players>>
    BY DEF NothingLeft, At, AuthUnchanged
  <1>2. NetTypeOK'
    BY <1>1, Frames DEF SessionInv, TypeOK, AuthUnchanged, netVars
  <1>3. AuthTypeOK' /\ VerdictInv'
    <2>1. CASE todo' = todo \ {c} /\ UNCHANGED verdict
      BY <1>1, <2>1, SameVerdicts DEF SessionInv, TypeOK, AuthTypeOK
    <2>2. CASE Decide(c, Close)
      BY <1>1, <2>2, DecideKeeps, SameRights DEF SessionInv, TypeOK, AuthTypeOK
    <2> QED
      BY <2>1, <2>2 DEF NothingLeft
  <1> QED
    BY <1>1, <1>2, <1>3, PollKeeps, SameRights

-----------------------------------------------------------------------------
(* From a verdict to a player. *)

LEMMA ApplyVerdictKeeps ==
    ASSUME SessionInv, NEW c \in Conns, ApplyVerdict(c)
    PROVE  SessionInv'
  <1>1. /\ verdict \in [Conns -> {None} \cup Verdicts]
        /\ verdict[c] \in Verdicts
        /\ auth \in [Conns -> {None, Unauthenticated} \cup LogIns]
    BY DEF ApplyVerdict, SessionInv, TypeOK, AuthTypeOK
  <1>2. NetTypeOK'
    BY DropType DEF ApplyVerdict, AddPlayerWaiting, SessionInv, TypeOK
  <1>3. todo = {}
    BY DEF ApplyVerdict, At, SessionInv, PhaseInv
  <1>4. AuthTypeOK'
    BY <1>1, <1>3 DEF ApplyVerdict, SessionInv, TypeOK, AuthTypeOK
  <1>5. joining = << >> /\ PhaseInv'
    BY DEF ApplyVerdict, At, SessionInv, PhaseInv, Playing
  <1>6. VerdictInv' /\ JoiningMayPlay'
    BY <1>1, <1>5 DEF ApplyVerdict, SessionInv, SafetyInv, VerdictInv,
                      JoiningMayPlay, Playing, MayPlay
  <1>7. CASE verdict[c].kind # "AddAsPlayer"
    <2>1. UNCHANGED <<waiting, requests, superseded, players, accounts, joining>>
      BY <1>7 DEF ApplyVerdict
    <2>2. OneSessionPerPlayer' /\ OnlyAuthenticatedPlay'
      BY <2>1 DEF SessionInv, SafetyInv, OneSessionPerPlayer, JoiningIds,
                  OnlyAuthenticatedPlay, Playing, MayPlay
    <2>3. PlayerTypeOK' /\ KvTypeOK'
      BY <2>1, Frames DEF ApplyVerdict, SessionInv, TypeOK, kvVars
    <2> QED
      BY <1>2, <1>4, <1>5, <1>6, <2>2, <2>3
         DEF ApplyVerdict, SessionInv, TypeOK, SafetyInv
  <1>8. CASE verdict[c].kind = "AddAsPlayer"
    <2> DEFINE w == [conn |-> c, got |-> [k \in Keys |-> None]]
    <2>1. PICK id \in Ids : id = verdict[c].id
      BY <1>1, <1>8 DEF Verdicts
    <2>2. /\ waiting' = [waiting EXCEPT ![id] = w]
          /\ requests' = requests \o Gets(id)
          /\ superseded' = superseded \cup
                              (IF waiting[id] = None THEN {} ELSE {id})
          /\ UNCHANGED <<players, joining, accounts, results, rows, turn,
                         closing, posDue, msgs, pc, panic>>
      BY <1>8, <2>1 DEF ApplyVerdict, AddPlayerWaiting
    <2>3. id \notin Playing /\ MayPlay(c, id)
      BY <1>8, <2>1 DEF ApplyVerdict, SessionInv, SafetyInv, VerdictInv
    <2>4. w \in Waiting
      BY DEF Waiting
    <2>5. PlayerTypeOK'
      <3>1. waiting' \in [Ids -> {None} \cup Waiting]
        BY <2>2, <2>4 DEF SessionInv, TypeOK, PlayerTypeOK
      <3> QED
        BY <2>2, <3>1 DEF SessionInv, TypeOK, PlayerTypeOK
    <2>6. KvTypeOK'
      BY <2>2, GetsType DEF SessionInv, TypeOK, KvTypeOK
    <2>7. waiting \in [Ids -> {None} \cup Waiting]
      BY DEF SessionInv, TypeOK, PlayerTypeOK
    <2>8. OneSessionPerPlayer'
      BY <1>5, <2>2, <2>3, <2>7
         DEF SessionInv, SafetyInv, OneSessionPerPlayer, Playing, JoiningIds
    <2>9. OnlyAuthenticatedPlay'
      <3>1. \A i \in Ids : waiting'[i] =
               IF i = id THEN w ELSE waiting[i]
        BY <2>2, <2>7
      <3> QED
        BY <2>2, <2>3, <3>1
           DEF SessionInv, SafetyInv, OnlyAuthenticatedPlay, Playing, MayPlay
    <2> QED
      BY <1>2, <1>4, <1>5, <1>6, <2>2, <2>5, <2>6, <2>8, <2>9
         DEF SessionInv, TypeOK, SafetyInv
  <1> QED
    BY <1>7, <1>8

LEMMA TakeResultKeeps ==
    ASSUME SessionInv, TakeResult
    PROVE  SessionInv'
  <1> DEFINE r == Head(results)
             w == [waiting[r.id] EXCEPT !.got[r.key] = r.value]
             j == [id |-> r.id, conn |-> w.conn, got |-> w.got]
  <1>1. results \in Seq([id : Ids, key : Keys, value : Data]) /\ results # << >>
    BY DEF TakeResult, SessionInv, TypeOK, KvTypeOK
  <1>2. /\ r.id \in Ids /\ r.key \in Keys /\ r.value \in Data
        /\ results' \in Seq([id : Ids, key : Keys, value : Data])
    <2>1. r \in [id : Ids, key : Keys, value : Data]
      BY <1>1, QueueTail
    <2> QED
      BY <1>1, <2>1, QueueTail DEF TakeResult
  <1>3. /\ waiting \in [Ids -> {None} \cup Waiting]
        /\ joining \in Seq(Joining)
    BY DEF SessionInv, TypeOK, PlayerTypeOK
  <1>4. /\ UNCHANGED <<netVars, authVars, panic, pc, turn, players, posDue,
                       msgs, closing, requests, rows, superseded>>
        /\ pc = "kv"
    BY DEF TakeResult, At
  <1>5. KvTypeOK'
    BY <1>2, <1>4 DEF SessionInv, TypeOK, KvTypeOK
  <1>6. PhaseInv' /\ VerdictInv'
    BY <1>4 DEF SessionInv, PhaseInv, SafetyInv, VerdictInv, Playing, MayPlay,
                authVars
  <1>7. waiting[r.id] # None =>
           /\ w \in Waiting /\ w.conn = waiting[r.id].conn
           /\ MayPlay(w.conn, r.id)
           /\ r.id \notin Playing \cup JoiningIds
    <2> SUFFICES ASSUME waiting[r.id] # None
                 PROVE  /\ w \in Waiting /\ w.conn = waiting[r.id].conn
                        /\ MayPlay(w.conn, r.id)
                        /\ r.id \notin Playing \cup JoiningIds
      OBVIOUS
    <2>1. waiting[r.id] \in Waiting
      BY <1>2, <1>3
    <2>2. w \in Waiting /\ w.conn = waiting[r.id].conn
      BY <1>2, <2>1 DEF Waiting
    <2>3. MayPlay(waiting[r.id].conn, r.id)
      BY <1>2 DEF SessionInv, SafetyInv, OnlyAuthenticatedPlay
    <2>4. r.id \notin Playing \cup JoiningIds
      BY <1>2 DEF SessionInv, SafetyInv, OneSessionPerPlayer
    <2> HIDE DEF w
    <2> QED
      BY <2>2, <2>3, <2>4
  <1>8. CASE UNCHANGED <<waiting, joining>>
    <2>1. SafetyInv'
      BY <1>4, <1>8, Frames DEF SessionInv, authVars
    <2> QED
      BY <1>4, <1>5, <1>6, <1>8, <2>1, Frames DEF SessionInv, TypeOK
  <1>9. CASE /\ waiting[r.id] # None
             /\ waiting' = [waiting EXCEPT ![r.id] = w]
             /\ UNCHANGED joining
    <2> HIDE DEF w, r
    <2>1. \A id \in Ids : waiting'[id] # None =>
             waiting[id] # None /\ waiting'[id].conn = waiting[id].conn
      BY <1>2, <1>3, <1>7, <1>9
    <2>2. PlayerTypeOK'
      <3>1. waiting' \in [Ids -> {None} \cup Waiting]
        BY <1>2, <1>3, <1>7, <1>9
      <3> QED
        BY <1>4, <1>9, <3>1 DEF SessionInv, TypeOK, PlayerTypeOK
    <2>3. SafetyInv'
      BY <1>4, <1>6, <1>9, <2>1
         DEF SessionInv, SafetyInv, OneSessionPerPlayer, OnlyAuthenticatedPlay,
             JoiningMayPlay, MayPlay, Playing, JoiningIds, authVars
    <2> QED
      BY <1>4, <1>5, <1>6, <2>2, <2>3, Frames DEF SessionInv, TypeOK
  <1>10. CASE /\ waiting[r.id] # None
              /\ \A k \in Keys : w.got[k] # None
              /\ waiting' = [waiting EXCEPT ![r.id] = None]
              /\ joining' = Append(joining, j)
    <2>1. j \in Joining
      BY <1>2, <1>7, <1>10 DEF Joining, Waiting
    <2>2. j.id = r.id /\ j.conn = w.conn
      OBVIOUS
    <2> HIDE DEF w, r, j
    <2>3. PlayerTypeOK'
      <3>1. /\ waiting' \in [Ids -> {None} \cup Waiting]
            /\ joining' \in Seq(Joining)
        BY <1>2, <1>3, <1>10, <2>1, QueueElements
      <3> QED
        BY <1>4, <3>1 DEF SessionInv, TypeOK, PlayerTypeOK
    <2>4. /\ Len(joining') = Len(joining) + 1 /\ Len(joining) \in Nat
          /\ \A i \in 1..Len(joining) : joining'[i] = joining[i]
          /\ joining'[Len(joining) + 1] = j
      BY <1>3, <1>10
    <2>5. JoiningIds' = JoiningIds \cup {r.id}
      BY <2>2, <2>4 DEF JoiningIds
    <2>6. \A i \in 1..Len(joining) : joining[i].id # r.id
      BY <1>7, <1>10 DEF JoiningIds
    <2>7. \A id \in Ids : waiting'[id] # None =>
             /\ id # r.id /\ waiting'[id] = waiting[id]
      BY <1>3, <1>10
    <2>8. OneSessionPerPlayer'
      <3>1. \A i, k \in 1..Len(joining') :
               joining'[i].id = joining'[k].id => i = k
        BY <2>2, <2>4, <2>6 DEF SessionInv, SafetyInv, OneSessionPerPlayer
      <3>2. Playing' = Playing
        BY <1>4 DEF Playing
      <3>3. \A id \in Ids :
               /\ waiting'[id] # None => id \notin Playing' \cup JoiningIds'
               /\ id \in JoiningIds' => id \notin Playing'
        BY <1>7, <1>10, <2>5, <2>7, <3>2
           DEF SessionInv, SafetyInv, OneSessionPerPlayer
      <3> QED
        BY <3>1, <3>3 DEF OneSessionPerPlayer
    <2>9. OnlyAuthenticatedPlay'
      BY <1>4, <2>7 DEF SessionInv, SafetyInv, OnlyAuthenticatedPlay, MayPlay,
                        Playing, authVars
    <2>10. JoiningMayPlay'
      BY <1>4, <1>7, <1>10, <2>2, <2>4
         DEF SessionInv, SafetyInv, JoiningMayPlay, MayPlay, authVars
    <2> QED
      BY <1>4, <1>5, <1>6, <2>3, <2>8, <2>9, <2>10, Frames
         DEF SessionInv, TypeOK, SafetyInv
  <1> QED
    BY <1>8, <1>9, <1>10 DEF TakeResult

LEMMA JoinKeeps ==
    ASSUME SessionInv, Join
    PROVE  SessionInv' /\ \A id \in Ids :
              players[id] # None => UNCHANGED players[id]
  <1> DEFINE j == Head(joining)
             p == FromWaiting(j)
  <1>1. joining \in Seq(Joining) /\ joining # << >> /\ pc = "join"
    BY DEF Join, At, SessionInv, TypeOK, PlayerTypeOK
  <1>2. CASE Panic("join")
    BY <1>2, PanicKeeps DEF Panics, Panic
  <1>3. CASE /\ players' = [players EXCEPT ![j.id] = p]
             /\ Drop(ConnOf({j.id}))
             /\ joining' = Tail(joining)
             /\ pc' = "greet"
             /\ UNCHANGED <<panic, authVars, turn, waiting, posDue, msgs,
                            closing, kvVars, superseded>>
    <2>1. /\ j \in Joining /\ Tail(joining) \in Seq(Joining)
          /\ joining[1] = j
          /\ Len(joining) \in Nat \ {0} /\ Len(Tail(joining)) = Len(joining) - 1
          /\ \A i \in 1..Len(Tail(joining)) : Tail(joining)[i] = joining[i + 1]
      BY <1>1, QueueTail
    <2>2. j.id \in Ids /\ j.conn \in Conns /\ j.got \in [Keys -> Data]
      BY <2>1 DEF Joining
    <2>3. p \in Players /\ p.conn = j.conn
      BY <2>2, SessionAssumption DEF Players, FromWaiting, RowsEdited
    <2>4. players \in [Ids -> {None} \cup Players]
      BY DEF SessionInv, TypeOK, PlayerTypeOK
    <2>5. MayPlay(j.conn, j.id)
      BY <2>1 DEF SessionInv, SafetyInv, JoiningMayPlay
    <2>6. j.id \in JoiningIds /\ j.id \notin Playing
      BY <2>1, <2>2 DEF SessionInv, SafetyInv, OneSessionPerPlayer, JoiningIds
    <2>7. waiting[j.id] = None
      BY <2>2, <2>6 DEF SessionInv, SafetyInv, OneSessionPerPlayer
    <2>8. turn = {} /\ todo = {} /\ \A c \in Conns : verdict[c] = None
      BY <1>1 DEF SessionInv, PhaseInv
    <2> HIDE DEF j, p
    <2>9. \A id \in Ids : players'[id] = IF id = j.id THEN p ELSE players[id]
      BY <1>3, <2>4
    <2>10. Playing' \subseteq Playing \cup {j.id}
      BY <2>9 DEF Playing
    <2>11. JoiningIds' \subseteq JoiningIds \ {j.id}
      <3>1. \A i \in 1..Len(joining') :
               /\ i + 1 \in 1..Len(joining) /\ i + 1 # 1
               /\ joining'[i] = joining[i + 1]
        BY <1>3, <2>1
      <3>2. \A i \in 1..Len(joining') : joining'[i].id # j.id
        BY <2>1, <3>1 DEF SessionInv, SafetyInv, OneSessionPerPlayer
      <3> QED
        BY <3>1, <3>2 DEF JoiningIds
    <2>12. NetTypeOK'
      BY <1>3, DropType DEF SessionInv, TypeOK
    <2>13. PlayerTypeOK'
      <3>1. players' \in [Ids -> {None} \cup Players]
        BY <1>3, <2>2, <2>3, <2>4
      <3> QED
        BY <1>3, <2>1, <3>1 DEF SessionInv, TypeOK, PlayerTypeOK
    <2>14. PhaseInv' /\ VerdictInv'
      BY <1>3, <2>8 DEF PhaseInv, VerdictInv, authVars
    <2>15. OneSessionPerPlayer'
      <3>1. \A i, k \in 1..Len(joining') :
               joining'[i].id = joining'[k].id => i = k
        BY <1>3, <2>1 DEF SessionInv, SafetyInv, OneSessionPerPlayer
      <3>2. \A id \in Ids :
               /\ waiting'[id] # None => id \notin Playing' \cup JoiningIds'
               /\ id \in JoiningIds' => id \notin Playing'
        BY <1>3, <2>7, <2>10, <2>11
           DEF SessionInv, SafetyInv, OneSessionPerPlayer
      <3> QED
        BY <3>1, <3>2 DEF OneSessionPerPlayer
    <2>16. OnlyAuthenticatedPlay'
      BY <1>3, <2>3, <2>5, <2>9 DEF SessionInv, SafetyInv,
         OnlyAuthenticatedPlay, MayPlay, Playing, authVars
    <2>17. JoiningMayPlay'
      BY <1>3, <2>1 DEF SessionInv, SafetyInv, JoiningMayPlay, MayPlay, authVars
    <2>18. \A id \in Ids : players[id] # None => UNCHANGED players[id]
      BY <2>6, <2>9 DEF Playing
    <2> QED
      BY <1>3, <2>12, <2>13, <2>14, <2>15, <2>16, <2>17, <2>18, Frames
         DEF SessionInv, TypeOK, SafetyInv, Phases
  <1> QED
    BY <1>2, <1>3 DEF Join

-----------------------------------------------------------------------------
(* Every step. *)

LEMMA StepKeeps ==
    ASSUME SessionInv, [Next]_vars
    PROVE  SessionInv'
  <1>1. CASE UNCHANGED vars
    <2>1. UNCHANGED <<pc, panic, netVars, authVars, kvVars, turn, closing,
                      waiting, players, joining, posDue, msgs, superseded>>
      BY <1>1 DEF vars
    <2>2. UNCHANGED <<todo, verdict, accounts>>
      BY <2>1 DEF authVars
    <2> QED
      BY <2>1, <2>2, Frames DEF SessionInv, TypeOK
  <1>2. CASE AuthStep
    BY <1>2, LogInKeeps, SendHashKeeps, SendM1Keeps, IgnoreEarlyKeeps,
       NothingLeftKeeps, ApplyVerdictKeeps, PhaseStepsKeep DEF AuthStep
  <1>3. CASE MessageStep
    BY <1>3, HandlerPanicsKeep, HandlersKeep, PhaseStepsKeep DEF MessageStep, Handler
  <1>4. CASE ServerStep
    BY <1>2, <1>3, <1>4, SendsKeep, AcceptKeeps, TakeResultKeeps, JoinKeeps,
       PhaseStepsKeep, StorePlayerKeeps, ReceiveKeeps, ReceivedAllKeeps
       DEF ServerStep
  <1> QED
    BY <1>1, <1>4, ServeRequestKeeps, NetworkKeeps DEF Next, Dead

LEMMA SessionInvariant == Spec => []SessionInv
  <1>1. Init => SessionInv
    BY InitInv
  <1>2. SessionInv /\ [Next]_vars => SessionInv'
    BY StepKeeps
  <1> QED
    BY <1>1, <1>2, PTL DEF Spec

-----------------------------------------------------------------------------
\* The variables of the server and of the parties beside it have their types.
THEOREM TypesAreCorrect == Spec => []TypeOK
  BY SessionInvariant, PTL DEF SessionInv

\* However log ins, answers of the mapgen thread and failing connections
\* interleave, a player is in one of players_waiting_for_kv, players_to_add
\* and players at most (handle_auth_msgs looks into players only).
THEOREM SessionsAreUnique == Spec => []OneSessionPerPlayer
  BY SessionInvariant, PTL DEF SessionInv, SafetyInv

\* No connection waits or plays as a player it did not authenticate as, be it
\* with the password or by creating the account.
THEOREM AuthenticationIsNeeded == Spec => []OnlyAuthenticatedPlay
  BY SessionInvariant, PTL DEF SessionInv, SafetyInv

-----------------------------------------------------------------------------
(* No takeover. *)

\* Whoever plays before and after keeps the connection.
ConnsStay ==
    \A id \in Ids : players[id] # None /\ players'[id] # None
                       => players'[id].conn = players[id].conn

\* Closing some players, after editing some, leaves the others connected.
LEMMA CloseStays ==
    ASSUME NEW ps, NEW ids, EditOf(ps),
           players' = [id \in Ids |-> IF id \in ids THEN None ELSE ps[id]]
    PROVE  ConnsStay
  BY DEF EditOf, ConnsStay

LEMMA StepStays ==
    ASSUME SessionInv, [Next]_vars
    PROVE  ConnsStay
  <1>1. EditOf(players)
    BY PlayersAreAnEdit DEF SessionInv, TypeOK
  <1>2. CASE UNCHANGED players
    BY <1>2 DEF ConnsStay
  <1>3. CASE SendPositions \/ MapTick \/ Greet \/ MessagesCollected
    BY <1>1, <1>3, CloseStays DEF SendPositions, MapTick, Greet,
       MessagesCollected, CloseConnections
  <1>4. CASE Handler
    BY <1>4, HandlersClose, CloseStays DEF CloseAfter
  <1>5. CASE Join
    BY <1>5, JoinKeeps DEF ConnsStay
  <1>6. CASE \E id \in Ids : StorePlayer(id)
    BY <1>6 DEF StorePlayer, ConnsStay, SessionInv, TypeOK, PlayerTypeOK, Players
  <1>7. CASE \E id \in Ids : Receive(id)
    BY <1>7 DEF Receive, ConnsStay, SessionInv, TypeOK, PlayerTypeOK, Players
  <1>8. ~Handler /\ MessageStep => UNCHANGED players
    BY DEF Handler, MessageStep, SenderIsGone, TreeUnloaded, EndOfTick, Panic
  <1>9. AuthStep => UNCHANGED players
    BY DEF AuthStep, AuthUnchanged, LogIn, SendHash, SendM1, IgnoreEarly,
           NothingLeft, ApplyVerdict, AuthPolled, VerdictsApplied, Panic
  <1>10. Accept \/ TakeResult \/ NoResult \/ AllJoined \/ PlayersStored
           \/ (\E id \in Ids : ReceivedAll(id)) => UNCHANGED players
    BY DEF Accept, TakeResult, NoResult, AllJoined, PlayersStored, ReceivedAll
  <1>11. ServeRequest \/ Dead \/ UNCHANGED vars
           \/ (\E c \in Conns : Open(c) \/ ClientSend(c) \/ ReaderEnds(c)
                                  \/ WriterEnds(c))
           => UNCHANGED players
    BY DEF ServeRequest, Dead, vars, Open, ClientSend, ReaderEnds, WriterEnds
  <1> QED
    BY <1>2, <1>3, <1>4, <1>5, <1>6, <1>7, <1>8, <1>9, <1>10, <1>11
       DEF Next, ServerStep

\* No step hands a player who plays to another connection: add_player's insert
\* into players replaces nobody.
THEOREM PlayersAreNotTakenOver == Spec => NoTakeover
  <1>1. SessionInv /\ [Next]_vars => [ConnsStay]_vars
    BY StepStays
  <1> QED
    BY <1>1, SessionInvariant, PTL DEF Spec, NoTakeover, ConnsStay

-----------------------------------------------------------------------------
(* What the rows hold. *)

IsGet(r, id, k) == r.op = "get" /\ r.id = id /\ r.key = k
IsSet(r, id, k) == r.op = "set" /\ r.id = id /\ r.key = k
IsAnswer(r, id, k) == r.id = id /\ r.key = k

GetIn(q, id, k) == \E i \in 1..Len(q) : IsGet(q[i], id, k)
Answered(rs, id, k) == \E i \in 1..Len(rs) : IsAnswer(rs[i], id, k)

\* A row is asked for once, and not written after that.
GetIsLast(q, id, k) ==
    \A i, j \in 1..Len(q) : IsGet(q[i], id, k) =>
       /\ IsSet(q[j], id, k) => j < i
       /\ IsGet(q[j], id, k) => j = i

\* Once the requests q are served, the row holds v.
Holds(q, rw, id, k, v) ==
    \/ /\ rw[id][k] = v
       /\ \A i \in 1..Len(q) : ~IsSet(q[i], id, k)
    \/ \E i \in 1..Len(q) :
          /\ IsSet(q[i], id, k) /\ q[i].value = v
          /\ \A j \in 1..Len(q) : IsSet(q[j], id, k) => j <= i

HoldsNow(id, k, v) == Holds(requests, rows, id, k, v)

AskedFor(id, k) == waiting[id] # None /\ waiting[id].got[k] = None

\* A question or an answer is under way only to one who waits for it, there is
\* one of them, and the answer is good.
AnswersFit(id, k) ==
    /\ GetIn(requests, id, k) \/ Answered(results, id, k) => AskedFor(id, k)
    /\ ~(GetIn(requests, id, k) /\ Answered(results, id, k))
    /\ GetIsLast(requests, id, k)
    /\ \A i, j \in 1..Len(results) :
          IsAnswer(results[i], id, k) /\ IsAnswer(results[j], id, k) => i = j
    /\ \A i \in 1..Len(results) : IsAnswer(results[i], id, k) =>
          HoldsNow(id, k, results[i].value)

WaitingFits(id, k) ==
    waiting[id] # None /\ waiting[id].got[k] # None =>
       HoldsNow(id, k, waiting[id].got[k])

JoiningFits(id, k) ==
    \A i \in 1..Len(joining) : joining[i].id = id =>
       HoldsNow(id, k, joining[i].got[k])

\* The player has been served by store_player_kvs in this tick, and its
\* messages have not been handled yet.
Settled(id) == pc = "recv" \/ (pc = "store" /\ id \notin turn)

\* What is remembered of a row is what was stored of it; but for the crafting
\* inventory.
PlayerFits(id, k) ==
    players[id] # None /\ k \in RowsEdited \ {"craft_inventory"} =>
       /\ players[id].last[k][1] = k => HoldsNow(id, k, players[id].last[k][2])
       /\ Settled(id) => HoldsNow(id, k, players[id].cur[k])

RowFits(id, k) ==
    AnswersFit(id, k) /\ WaitingFits(id, k) /\ JoiningFits(id, k) /\ PlayerFits(id, k)

\* Who waits misses a row, and each one that it misses is on the way: if
\* nothing is, nobody waits.
MissingIsDue(id) ==
    waiting[id] # None =>
       /\ \E k \in Keys : waiting[id].got[k] = None
       /\ \A k \in Keys : waiting[id].got[k] = None =>
             GetIn(requests, id, k) \/ Answered(results, id, k)

RowsInv ==
    /\ \A id \in Ids \ superseded, k \in Keys : RowFits(id, k)
    /\ \A id \in Ids : MissingIsDue(id)


-----------------------------------------------------------------------------
(* Queues of requests. *)

\* The mapgen thread serves the first request.
LEMMA ServedHolds ==
    ASSUME NEW q \in Seq(Requests), q # << >>,
           NEW rw \in [Ids -> [Keys -> Data]], NEW rx \in [Ids -> [Keys -> Data]],
           \/ Head(q).op = "get" /\ rx = rw
           \/ /\ Head(q).op = "set"
              /\ rx = [rw EXCEPT ![Head(q).id][Head(q).key] = Head(q).value],
           NEW id \in Ids, NEW k \in Keys, NEW v, Holds(q, rw, id, k, v)
    PROVE  Holds(Tail(q), rx, id, k, v)
  <1> DEFINE r == Head(q)
             t == Tail(q)
  <1>1. /\ r \in Requests /\ q[1] = r
        /\ Len(q) \in Nat \ {0} /\ Len(t) = Len(q) - 1
        /\ \A i \in 1..Len(t) : t[i] = q[i + 1]
    BY QueueTail
  <1>2. /\ r.id \in Ids /\ r.key \in Keys
        /\ r.op = "set" => r.value \in Data
    BY <1>1 DEF Requests
  <1>3. rx[id][k] = IF IsSet(r, id, k) THEN r.value ELSE rw[id][k]
    BY <1>2 DEF IsSet
  <1>4. \A i \in 2..Len(q) : i - 1 \in 1..Len(t) /\ t[i - 1] = q[i]
    BY <1>1
  <1>5. \A i \in 1..Len(t) : i + 1 \in 2..Len(q)
    BY <1>1
  <1> HIDE DEF r, t
  <1>6. CASE /\ rw[id][k] = v
             /\ \A i \in 1..Len(q) : ~IsSet(q[i], id, k)
    <2>1. 1 \in 1..Len(q)
      BY <1>1
    <2>2. ~IsSet(r, id, k)
      BY <1>1, <1>6, <2>1
    <2>3. \A i \in 1..Len(t) : ~IsSet(t[i], id, k)
      BY <1>1, <1>5, <1>6
    <2> QED
      BY <1>3, <1>6, <2>2, <2>3 DEF Holds, t
  <1>7. CASE \E i \in 1..Len(q) :
                /\ IsSet(q[i], id, k) /\ q[i].value = v
                /\ \A j \in 1..Len(q) : IsSet(q[j], id, k) => j <= i
    <2>1. PICK i \in 1..Len(q) :
             /\ IsSet(q[i], id, k) /\ q[i].value = v
             /\ \A j \in 1..Len(q) : IsSet(q[j], id, k) => j <= i
      BY <1>7
    <2>2. CASE i = 1
      <3>1. rx[id][k] = v
        BY <1>1, <1>3, <2>1, <2>2
      <3>2. \A j \in 1..Len(t) : ~IsSet(t[j], id, k)
        BY <1>1, <1>5, <2>1, <2>2
      <3> QED
        BY <3>1, <3>2 DEF Holds, t
    <2>3. CASE i # 1
      <3>1. i \in 2..Len(q) /\ i - 1 \in 1..Len(t) /\ t[i - 1] = q[i]
        BY <1>4, <2>1, <2>3
      <3>2. \A j \in 1..Len(t) : IsSet(t[j], id, k) => j <= i - 1
        BY <1>1, <1>5, <2>1
      <3> QED
        BY <2>1, <3>1, <3>2 DEF Holds, t
    <2> QED
      BY <2>2, <2>3
  <1> QED
    BY <1>6, <1>7 DEF Holds

\* What is left of the queue asks for no more than the queue, and for less if
\* the first request is a question.
LEMMA ServedGets ==
    ASSUME NEW q \in Seq(Requests), q # << >>, NEW id, NEW k
    PROVE  /\ GetIn(Tail(q), id, k) => GetIn(q, id, k)
           /\ GetIn(q, id, k) => IsGet(Head(q), id, k) \/ GetIn(Tail(q), id, k)
           /\ IsGet(Head(q), id, k) => GetIn(q, id, k)
           /\ GetIsLast(q, id, k) =>
                /\ GetIsLast(Tail(q), id, k)
                /\ IsGet(Head(q), id, k) =>
                     /\ ~GetIn(Tail(q), id, k)
                     /\ \A i \in 1..Len(q) : ~IsSet(q[i], id, k)
  <1> DEFINE r == Head(q)
             t == Tail(q)
  <1>1. /\ q[1] = r
        /\ Len(q) \in Nat \ {0} /\ Len(t) = Len(q) - 1
        /\ \A i \in 1..Len(t) : t[i] = q[i + 1]
    BY QueueTail
  <1>2. \A i \in 2..Len(q) : i - 1 \in 1..Len(t) /\ t[i - 1] = q[i]
    BY <1>1
  <1>3. \A i \in 1..Len(t) : i + 1 \in 2..Len(q) /\ i + 1 \in 1..Len(q)
    BY <1>1
  <1>4. 1 \in 1..Len(q)
    BY <1>1
  <1>5. \A i \in 1..Len(q) : i = 1 \/ i \in 2..Len(q)
    BY <1>1
  <1> HIDE DEF r, t
  <1>6. GetIn(t, id, k) => GetIn(q, id, k)
    BY <1>1, <1>3 DEF GetIn
  <1>7. GetIn(q, id, k) => IsGet(r, id, k) \/ GetIn(t, id, k)
    BY <1>1, <1>2, <1>5 DEF GetIn
  <1>8. IsGet(r, id, k) => GetIn(q, id, k)
    BY <1>1, <1>4 DEF GetIn
  <1>9. GetIsLast(q, id, k) => GetIsLast(t, id, k)
    <2> SUFFICES ASSUME GetIsLast(q, id, k),
                        NEW i \in 1..Len(t), NEW j \in 1..Len(t),
                        IsGet(t[i], id, k)
                 PROVE  /\ IsSet(t[j], id, k) => j < i
                        /\ IsGet(t[j], id, k) => j = i
      BY DEF GetIsLast
    <2>1. /\ i + 1 \in 1..Len(q) /\ j + 1 \in 1..Len(q)
          /\ t[i] = q[i + 1] /\ t[j] = q[j + 1]
      BY <1>1, <1>3
    <2> QED
      BY <2>1 DEF GetIsLast
  <1>10. GetIsLast(q, id, k) /\ IsGet(r, id, k) =>
           /\ ~GetIn(t, id, k)
           /\ \A i \in 1..Len(q) : ~IsSet(q[i], id, k)
    <2> SUFFICES ASSUME GetIsLast(q, id, k), IsGet(r, id, k)
                 PROVE  /\ ~GetIn(t, id, k)
                        /\ \A i \in 1..Len(q) : ~IsSet(q[i], id, k)
      OBVIOUS
    <2>1. \A j \in 1..Len(q) : ~IsSet(q[j], id, k) /\ (IsGet(q[j], id, k) => j = 1)
      BY <1>1, <1>4 DEF GetIsLast
    <2>2. \A j \in 1..Len(t) : ~IsGet(t[j], id, k)
      BY <1>1, <1>3, <2>1
    <2> QED
      BY <2>1, <2>2 DEF GetIn
  <1> QED
    BY <1>6, <1>7, <1>8, <1>9, <1>10 DEF r, t

\* A request is added.
LEMMA AppendedRequest ==
    ASSUME NEW q \in Seq(Requests), NEW e \in Requests, NEW rw,
           NEW id, NEW k, NEW v
    PROVE  LET p == Append(q, e) IN
           /\ p \in Seq(Requests)
           /\ ~IsSet(e, id, k) /\ Holds(q, rw, id, k, v) => Holds(p, rw, id, k, v)
           /\ IsSet(e, id, k) => Holds(p, rw, id, k, e.value)
           /\ GetIn(p, id, k) <=> GetIn(q, id, k) \/ IsGet(e, id, k)
           /\ GetIsLast(q, id, k) /\ ~IsSet(e, id, k) /\ ~IsGet(e, id, k)
                => GetIsLast(p, id, k)
           /\ ~GetIn(q, id, k) => GetIsLast(p, id, k)
  <1> DEFINE p == Append(q, e)
  <1>1. /\ p \in Seq(Requests) /\ Len(q) \in Nat /\ Len(p) = Len(q) + 1
        /\ p[Len(p)] = e
        /\ \A i \in 1..Len(q) : i \in 1..Len(p) /\ p[i] = q[i]
        /\ \A i \in 1..Len(p) : i = Len(p) \/ i \in 1..Len(q)
    OBVIOUS
  <1> HIDE DEF p
  <1>2. ASSUME ~IsSet(e, id, k), Holds(q, rw, id, k, v)
        PROVE  Holds(p, rw, id, k, v)
    <2>1. \A i \in 1..Len(p) : IsSet(p[i], id, k) => i \in 1..Len(q)
      BY <1>1, <1>2
    <2>2. CASE /\ rw[id][k] = v
               /\ \A i \in 1..Len(q) : ~IsSet(q[i], id, k)
      BY <1>1, <2>1, <2>2 DEF Holds
    <2>3. CASE \E i \in 1..Len(q) :
                  /\ IsSet(q[i], id, k) /\ q[i].value = v
                  /\ \A j \in 1..Len(q) : IsSet(q[j], id, k) => j <= i
      <3>1. PICK i \in 1..Len(q) :
               /\ IsSet(q[i], id, k) /\ q[i].value = v
               /\ \A j \in 1..Len(q) : IsSet(q[j], id, k) => j <= i
        BY <2>3
      <3>2. i \in 1..Len(p) /\ p[i] = q[i]
        BY <1>1
      <3>3. \A j \in 1..Len(p) : IsSet(p[j], id, k) => j <= i
        BY <1>1, <2>1, <3>1
      <3> QED
        BY <3>1, <3>2, <3>3 DEF Holds
    <2> QED
      BY <1>2, <2>2, <2>3 DEF Holds
  <1>3. ASSUME IsSet(e, id, k)
        PROVE  Holds(p, rw, id, k, e.value)
    <2>1. Len(p) \in 1..Len(p) /\ \A j \in 1..Len(p) : j <= Len(p)
      BY <1>1
    <2> QED
      BY <1>1, <1>3, <2>1 DEF Holds
  <1>4. GetIn(p, id, k) <=> GetIn(q, id, k) \/ IsGet(e, id, k)
    <2>1. Len(p) \in 1..Len(p)
      BY <1>1
    <2> QED
      BY <1>1, <2>1 DEF GetIn
  <1>5. GetIsLast(q, id, k) /\ ~IsSet(e, id, k) /\ ~IsGet(e, id, k)
          => GetIsLast(p, id, k)
    BY <1>1 DEF GetIsLast
  <1>6. ~GetIn(q, id, k) => GetIsLast(p, id, k)
    <2> SUFFICES ASSUME ~GetIn(q, id, k),
                        NEW i \in 1..Len(p), NEW j \in 1..Len(p),
                        IsGet(p[i], id, k)
                 PROVE  /\ IsSet(p[j], id, k) => j < i
                        /\ IsGet(p[j], id, k) => j = i
      BY DEF GetIsLast
    <2>1. i = Len(p) /\ (IsGet(p[j], id, k) => j = Len(p))
      BY <1>1 DEF GetIn
    <2>2. IsSet(p[j], id, k) => j # i
      BY DEF IsSet, IsGet
    <2> QED
      BY <1>1, <2>1, <2>2
  <1> QED
    BY <1>1, <1>2, <1>3, <1>4, <1>5, <1>6 DEF p


\* One row is asked for.
LEMMA AskedRow ==
    ASSUME NEW q \in Seq(Requests), NEW jd \in Ids, NEW key \in KvKeys,
           NEW rw, NEW id, NEW k, NEW v
    PROVE  LET p == q \o Request("get", jd, key, None) IN
           /\ p \in Seq(Requests)
           /\ Holds(q, rw, id, k, v) => Holds(p, rw, id, k, v)
           /\ GetIn(p, id, k)
                <=> GetIn(q, id, k) \/ (key \in Keys /\ id = jd /\ k = key)
           /\ GetIsLast(q, id, k) /\ ~(id = jd /\ k = key) => GetIsLast(p, id, k)
           /\ ~GetIn(q, id, k) => GetIsLast(p, id, k)
  <1> DEFINE e == [op |-> "get", id |-> jd, key |-> key, value |-> None]
             p == q \o Request("get", jd, key, None)
  <1>1. CASE key \in Keys
    <2>1. e \in Requests
      BY <1>1 DEF Requests
    <2>2. p = Append(q, e)
      <3>1. Request("get", jd, key, None) = <<e>>
        BY <1>1 DEF Request
      <3> HIDE DEF e
      <3>2. Append(q, e) = q \o <<e>>
        BY <2>1, AppendIsConcat
      <3> QED
        BY <3>1, <3>2
    <2>3. ~IsSet(e, id, k) /\ (IsGet(e, id, k) <=> id = jd /\ k = key)
      BY DEF IsSet, IsGet
    <2> HIDE DEF e, p
    <2> QED
      BY <1>1, <2>1, <2>2, <2>3, AppendedRequest DEF p
  <1>2. CASE key \notin Keys
    <2>1. p = q
      BY <1>2, ConcatEmptySeq DEF Request
    <2>2. ~GetIn(q, id, k) => GetIsLast(q, id, k)
      BY DEF GetIn, GetIsLast
    <2> HIDE DEF p
    <2> QED
      BY <1>2, <2>1, <2>2 DEF p
  <1> QED
    BY <1>1, <1>2

\* The questions are appended at once or one by one.
LEMMA AskedOneByOne ==
    ASSUME NEW q \in Seq(Requests), NEW jd \in Ids
    PROVE  q \o Gets(jd) =
             (((q \o Request("get", jd, "position", None))
                 \o Request("get", jd, "inventory", None))
                 \o Request("get", jd, "craft_inventory", None))
                 \o Request("get", jd, "slow_states", None)
  <1>1. \A s, t \in Seq(Requests) : \E u \in Seq(Requests) : u = s \o t
    <2>1. \A s, t \in Seq(Requests) : s \o t \in Seq(Requests)
      BY ConcatProperties
    <2> QED
      BY <2>1, Zenon
  <1>2. \A key \in KvKeys : \E u \in Seq(Requests) : u = Request("get", jd, key, None)
    BY RequestType
  <1>3. PICK a \in Seq(Requests) : a = Request("get", jd, "position", None)
    BY <1>2 DEF KvKeys
  <1>4. PICK b \in Seq(Requests) : b = Request("get", jd, "inventory", None)
    BY <1>2 DEF KvKeys
  <1>5. PICK c \in Seq(Requests) : c = Request("get", jd, "craft_inventory", None)
    BY <1>2 DEF KvKeys
  <1>6. PICK d \in Seq(Requests) : d = Request("get", jd, "slow_states", None)
    BY <1>2 DEF KvKeys
  <1>7. PICK ab \in Seq(Requests) : ab = a \o b
    BY <1>1
  <1>8. PICK abc \in Seq(Requests) : abc = ab \o c
    BY <1>1
  <1>9. (q \o a) \o b = q \o (a \o b)
    OBVIOUS
  <1>10. (q \o ab) \o c = q \o (ab \o c)
    OBVIOUS
  <1>11. (q \o abc) \o d = q \o (abc \o d)
    OBVIOUS
  <1>12. q \o (abc \o d) = (((q \o a) \o b) \o c) \o d
    BY <1>7, <1>8, <1>9, <1>10, <1>11, Zenon
  <1>13. Gets(jd) = abc \o d
    BY <1>3, <1>4, <1>5, <1>6, <1>7, <1>8, Zenon DEF Gets
  <1> QED
    BY <1>3, <1>4, <1>5, <1>6, <1>12, <1>13, Zenon

\* All rows of a player are asked for.
LEMMA AskedRows ==
    ASSUME NEW q \in Seq(Requests), NEW jd \in Ids,
           NEW rw, NEW id, NEW k \in Keys, NEW v
    PROVE  LET p == q \o Gets(jd) IN
           /\ Holds(q, rw, id, k, v) => Holds(p, rw, id, k, v)
           /\ GetIn(p, id, k) <=> GetIn(q, id, k) \/ id = jd
           /\ GetIsLast(q, id, k) /\ id # jd => GetIsLast(p, id, k)
           /\ ~GetIn(q, id, k) => GetIsLast(p, id, k)
  <1> DEFINE Get(key) == Request("get", jd, key, None)
             q1 == q \o Get("position")
             q2 == q1 \o Get("inventory")
             q3 == q2 \o Get("craft_inventory")
             q4 == q3 \o Get("slow_states")
  <1>1. q \o Gets(jd) = q4
    BY AskedOneByOne
  <1>2. k \in KvKeys /\ KvKeys = {"position", "inventory", "craft_inventory", "slow_states"}
    BY SessionAssumption DEF KvKeys
  <1>3. /\ q1 \in Seq(Requests)
        /\ Holds(q, rw, id, k, v) => Holds(q1, rw, id, k, v)
        /\ GetIn(q1, id, k) <=> GetIn(q, id, k) \/ (id = jd /\ k = "position")
        /\ GetIsLast(q, id, k) /\ ~(id = jd /\ k = "position") => GetIsLast(q1, id, k)
        /\ ~GetIn(q, id, k) => GetIsLast(q1, id, k)
    BY <1>2, AskedRow
  <1> HIDE DEF q1
  <1>4. /\ q2 \in Seq(Requests)
        /\ Holds(q1, rw, id, k, v) => Holds(q2, rw, id, k, v)
        /\ GetIn(q2, id, k) <=> GetIn(q1, id, k) \/ (id = jd /\ k = "inventory")
        /\ GetIsLast(q1, id, k) /\ ~(id = jd /\ k = "inventory") => GetIsLast(q2, id, k)
        /\ ~GetIn(q1, id, k) => GetIsLast(q2, id, k)
    <2>1. q1 \in Seq(Requests)
      BY <1>3
    <2> QED
      BY <1>2, <2>1, AskedRow
  <1> HIDE DEF q2
  <1>5. /\ q3 \in Seq(Requests)
        /\ Holds(q2, rw, id, k, v) => Holds(q3, rw, id, k, v)
        /\ GetIn(q3, id, k) <=> GetIn(q2, id, k) \/ (id = jd /\ k = "craft_inventory")
        /\ GetIsLast(q2, id, k) /\ ~(id = jd /\ k = "craft_inventory") => GetIsLast(q3, id, k)
        /\ ~GetIn(q2, id, k) => GetIsLast(q3, id, k)
    <2>1. q2 \in Seq(Requests)
      BY <1>4
    <2> QED
      BY <1>2, <2>1, AskedRow
  <1> HIDE DEF q3
  <1>6. /\ q4 \in Seq(Requests)
        /\ Holds(q3, rw, id, k, v) => Holds(q4, rw, id, k, v)
        /\ GetIn(q4, id, k) <=> GetIn(q3, id, k) \/ (id = jd /\ k = "slow_states")
        /\ GetIsLast(q3, id, k) /\ ~(id = jd /\ k = "slow_states") => GetIsLast(q4, id, k)
        /\ ~GetIn(q3, id, k) => GetIsLast(q4, id, k)
    <2>1. q3 \in Seq(Requests)
      BY <1>5
    <2> QED
      BY <1>2, <2>1, AskedRow
  <1> HIDE DEF q4
  <1> QED
    BY <1>1, <1>2, <1>3, <1>4, <1>5, <1>6

\* One row of a player may be written.
LEMMA StoredRow ==
    ASSUME NEW q \in Seq(Requests), NEW jd \in Ids, NEW key \in KvKeys,
           NEW cond \in BOOLEAN, key \in Keys => players[jd].cur[key] \in Data,
           NEW rw, NEW id, NEW k, NEW v
    PROVE  LET p == q \o StoreIf(cond, jd, key) IN
           /\ p \in Seq(Requests)
           /\ Holds(q, rw, id, k, v) /\ ~(cond /\ id = jd /\ k = key)
                => Holds(p, rw, id, k, v)
           /\ cond /\ key \in Keys => Holds(p, rw, jd, key, players[jd].cur[key])
           /\ GetIn(p, id, k) <=> GetIn(q, id, k)
           /\ GetIsLast(q, id, k) /\ id # jd => GetIsLast(p, id, k)
           /\ ~GetIn(q, id, k) => GetIsLast(p, id, k)
  <1> DEFINE val == players[jd].cur[key]
             e == [op |-> "set", id |-> jd, key |-> key, value |-> val]
             p == q \o StoreIf(cond, jd, key)
  <1>1. CASE cond /\ key \in Keys
    <2>1. e \in Requests
      BY <1>1 DEF Requests
    <2>2. p = Append(q, e)
      <3>1. StoreIf(cond, jd, key) = <<e>>
        BY <1>1 DEF StoreIf, Request
      <3> HIDE DEF e
      <3>2. Append(q, e) = q \o <<e>>
        BY <2>1, AppendIsConcat
      <3> QED
        BY <3>1, <3>2
    <2>3. /\ IsSet(e, id, k) <=> id = jd /\ k = key
          /\ IsSet(e, jd, key) /\ e.value = val /\ ~IsGet(e, id, k)
      BY DEF IsSet, IsGet
    <2> HIDE DEF e, p, val
    <2>4. Holds(p, rw, jd, key, val)
      BY <2>1, <2>2, <2>3, AppendedRequest
    <2>5. /\ p \in Seq(Requests)
          /\ ~IsSet(e, id, k) /\ Holds(q, rw, id, k, v) => Holds(p, rw, id, k, v)
          /\ GetIn(p, id, k) <=> GetIn(q, id, k) \/ IsGet(e, id, k)
          /\ GetIsLast(q, id, k) /\ ~IsSet(e, id, k) /\ ~IsGet(e, id, k)
               => GetIsLast(p, id, k)
          /\ ~GetIn(q, id, k) => GetIsLast(p, id, k)
      BY <2>1, <2>2, AppendedRequest
    <2> QED
      BY <1>1, <2>3, <2>4, <2>5 DEF p, val
  <1>2. CASE ~(cond /\ key \in Keys)
    <2>1. p = q
      BY <1>2, ConcatEmptySeq DEF StoreIf, Request
    <2>2. ~GetIn(q, id, k) => GetIsLast(q, id, k)
      BY DEF GetIn, GetIsLast
    <2> HIDE DEF p
    <2> QED
      BY <1>2, <2>1, <2>2 DEF p
  <1> QED
    BY <1>1, <1>2


-----------------------------------------------------------------------------
(* Steps that leave the rows and the requests for them alone. *)

\* Players may go; those that stay remember what they did, and those that have
\* been served keep what was stored.
LEMMA RowsStay ==
    ASSUME RowsInv, UNCHANGED <<requests, results, rows, waiting, joining, superseded>>,
           \A id \in Ids : players'[id] # None =>
              /\ players[id] # None /\ players'[id].last = players[id].last
              /\ Settled(id)' =>
                   /\ Settled(id)
                   /\ \A k \in RowsEdited : players'[id].cur[k] = players[id].cur[k]
    PROVE  RowsInv'
  <1>1. ASSUME NEW id \in Ids \ superseded, NEW k \in Keys, RowFits(id, k)
        PROVE  RowFits(id, k)'
    <2>1. AnswersFit(id, k)' /\ WaitingFits(id, k)' /\ JoiningFits(id, k)'
      BY <1>1 DEF RowFits, AnswersFit, WaitingFits, JoiningFits, HoldsNow, AskedFor
    <2>2. PlayerFits(id, k)'
      BY <1>1 DEF RowFits, PlayerFits, HoldsNow
    <2> QED
      BY <2>1, <2>2 DEF RowFits
  <1>2. \A id \in Ids : MissingIsDue(id)'
    BY DEF RowsInv, MissingIsDue
  <1> QED
    BY <1>1, <1>2 DEF RowsInv

\* Nothing that the players, their rows and the phase of storing are about.
LEMMA QuietSteps ==
    ASSUME RowsInv,
           UNCHANGED <<requests, results, rows, waiting, joining, superseded, players>>,
           \A id \in Ids : Settled(id)' => Settled(id)
    PROVE  RowsInv'
  BY RowsStay

LEMMA AuthStepsKeepRows ==
    ASSUME RowsInv, NEW c \in Conns,
           LogIn(c) \/ SendHash(c) \/ SendM1(c) \/ IgnoreEarly(c) \/ NothingLeft(c)
    PROVE  RowsInv'
  <1>1. /\ UNCHANGED <<requests, results, rows, waiting, joining, superseded, players>>
        /\ UNCHANGED <<pc, turn>>
    BY DEF LogIn, SendHash, SendM1, IgnoreEarly, NothingLeft, AuthUnchanged, Panic,
           kvVars
  <1> QED
    BY <1>1, QuietSteps DEF Settled

LEMMA PhasesKeepRows ==
    ASSUME RowsInv,
           AuthPolled \/ VerdictsApplied \/ NoResult \/ PlayersStored \/ EndOfTick
             \/ Accept \/ SenderIsGone \/ TreeUnloaded
             \/ \E id \in Ids : ReceivedAll(id)
    PROVE  RowsInv'
  <1>1. UNCHANGED <<requests, results, rows, waiting, joining, superseded, players>>
    BY DEF AuthPolled, VerdictsApplied, NoResult, PlayersStored, EndOfTick, Accept,
           SenderIsGone, TreeUnloaded, Panic, ReceivedAll, kvVars
  <1>2. \A id \in Ids : Settled(id)' => Settled(id)
    BY DEF AuthPolled, VerdictsApplied, NoResult, PlayersStored, EndOfTick, Accept,
           SenderIsGone, TreeUnloaded, Panic, ReceivedAll, MayReceive, At, Settled
  <1> QED
    BY <1>1, <1>2, QuietSteps

LEMMA NetworkKeepsRows ==
    ASSUME RowsInv, NEW c \in Conns,
           Open(c) \/ ClientSend(c) \/ ReaderEnds(c) \/ WriterEnds(c)
    PROVE  RowsInv'
  <1>1. /\ UNCHANGED <<requests, results, rows, waiting, joining, superseded, players>>
        /\ UNCHANGED <<pc, turn>>
    BY DEF Open, ClientSend, ReaderEnds, WriterEnds, kvVars
  <1> QED
    BY <1>1, QuietSteps DEF Settled

\* Players are closed and edited in other phases than that of storing.
LEMMA ClosingKeepsRows ==
    ASSUME RowsInv, NEW ids, NEW ps, EditOf(ps),
           players' = [id \in Ids |-> IF id \in ids THEN None ELSE ps[id]],
           pc' \notin {"store", "recv"},
           UNCHANGED <<waiting, joining, superseded, kvVars>>
    PROVE  RowsInv'
  <1>1. UNCHANGED <<requests, results, rows, waiting, joining, superseded>>
    BY DEF kvVars
  <1>2. \A id \in Ids : players'[id] # None =>
           players[id] # None /\ players'[id].last = players[id].last
    BY DEF EditOf
  <1>3. \A id \in Ids : ~Settled(id)'
    BY DEF Settled
  <1> QED
    BY <1>1, <1>2, <1>3, RowsStay

LEMMA SendsKeepRows ==
    ASSUME SessionInv, RowsInv,
           SendPositions \/ MapTick \/ Greet \/ MessagesCollected
    PROVE  RowsInv'
  <1>1. PICK ids : CloseConnections(ids)
    BY DEF SendPositions, MapTick, Greet, MessagesCollected
  <1>2. /\ pc' \notin {"store", "recv"}
        /\ UNCHANGED <<waiting, joining, superseded, kvVars>>
    BY DEF SendPositions, MapTick, Greet, MessagesCollected
  <1>3. EditOf(players)
    BY PlayersAreAnEdit DEF SessionInv, TypeOK
  <1> QED
    BY <1>1, <1>2, <1>3, ClosingKeepsRows DEF CloseConnections

LEMMA HandlersKeepRows ==
    ASSUME SessionInv, RowsInv, Handler
    PROVE  RowsInv'
  <1>1. PICK ps, ids : EditOf(ps) /\ CloseAfter(ps, ids)
    BY HandlersClose
  <1>2. Handled /\ At("process")
    BY DEF Handler, Place, Edit, Dig, ToChest, InChest, Gime, Answer, Info,
           Chat, IgnoreLate, Handles
  <1> QED
    BY <1>1, <1>2, ClosingKeepsRows DEF CloseAfter, Handled, At

\* A position comes: it is no row that is compared.
LEMMA ReceiveKeepsRows ==
    ASSUME SessionInv, RowsInv, NEW id \in Ids, Receive(id)
    PROVE  RowsInv'
  <1>1. UNCHANGED <<requests, results, rows, waiting, joining, superseded, pc, turn>>
    BY DEF Receive, kvVars
  <1>2. players \in [Ids -> {None} \cup Players]
    BY DEF SessionInv, TypeOK, PlayerTypeOK
  <1>3. players[id] \in Players
    BY <1>2 DEF Receive, MayReceive, SessionInv, PhaseInv, Playing
  <1>4. \/ UNCHANGED players
        \/ \E to : players' = [players EXCEPT ![id].cur["position"] = to]
    BY DEF Receive
  <1>5. \A jd \in Ids : players'[jd] # None =>
           /\ players[jd] # None /\ players'[jd].last = players[jd].last
           /\ \A k \in RowsEdited : players'[jd].cur[k] = players[jd].cur[k]
    <2>1. CASE UNCHANGED players
      BY <2>1
    <2>2. CASE \E to : players' = [players EXCEPT ![id].cur["position"] = to]
      <3>1. PICK to : players' = [players EXCEPT ![id].cur["position"] = to]
        BY <2>2
      <3>2. \A jd \in Ids : jd # id => players'[jd] = players[jd]
        BY <1>2, <3>1
      <3>3. /\ players'[id].last = players[id].last
            /\ \A k \in RowsEdited : players'[id].cur[k] = players[id].cur[k]
        BY <1>2, <1>3, <3>1 DEF Players, RowsEdited
      <3>4. players[id] # None
        BY <1>3, SessionAssumption
      <3> QED
        BY <3>2, <3>3, <3>4
    <2> QED
      BY <1>4, <2>1, <2>2
  <1>6. \A jd \in Ids : Settled(jd)' => Settled(jd)
    BY <1>1 DEF Settled
  <1> QED
    BY <1>1, <1>5, <1>6, RowsStay


-----------------------------------------------------------------------------
(* Steps that ask, answer and store. *)

Answers == [id : Ids, key : Keys, value : Data]

\* An answer is added.
LEMMA AppendedAnswer ==
    ASSUME NEW rs \in Seq(Answers), NEW a \in Answers, NEW id, NEW k
    PROVE  LET p == Append(rs, a) IN
           /\ Answered(p, id, k) <=> Answered(rs, id, k) \/ IsAnswer(a, id, k)
           /\ \A i \in 1..Len(p) :
                 \/ i = Len(p) /\ p[i] = a
                 \/ i \in 1..Len(rs) /\ p[i] = rs[i]
  <1> DEFINE p == Append(rs, a)
  <1>1. /\ Len(rs) \in Nat /\ Len(p) = Len(rs) + 1
        /\ p[Len(p)] = a
        /\ \A i \in 1..Len(rs) : i \in 1..Len(p) /\ p[i] = rs[i]
        /\ \A i \in 1..Len(p) : i = Len(p) \/ i \in 1..Len(rs)
        /\ Len(p) \in 1..Len(p)
    OBVIOUS
  <1> HIDE DEF p
  <1> QED
    BY <1>1 DEF Answered, p

\* An answer is taken.
LEMMA TakenAnswer ==
    ASSUME NEW rs \in Seq(Answers), rs # << >>, NEW id, NEW k
    PROVE  LET t == Tail(rs) IN
           /\ Answered(t, id, k) => Answered(rs, id, k)
           /\ Answered(rs, id, k) => IsAnswer(Head(rs), id, k) \/ Answered(t, id, k)
           /\ IsAnswer(Head(rs), id, k) => Answered(rs, id, k)
           /\ rs[1] = Head(rs) /\ 1 \in 1..Len(rs)
           /\ \A i \in 1..Len(t) : i + 1 \in 1..Len(rs) /\ i + 1 # 1 /\ t[i] = rs[i + 1]
  <1> DEFINE t == Tail(rs)
  <1>1. /\ rs[1] = Head(rs)
        /\ Len(rs) \in Nat \ {0} /\ Len(t) = Len(rs) - 1
        /\ \A i \in 1..Len(t) : t[i] = rs[i + 1]
    BY QueueTail
  <1>2. \A i \in 2..Len(rs) : i - 1 \in 1..Len(t) /\ t[i - 1] = rs[i]
    BY <1>1
  <1>3. \A i \in 1..Len(t) : i + 1 \in 1..Len(rs) /\ i + 1 # 1
    BY <1>1
  <1>4. 1 \in 1..Len(rs) /\ \A i \in 1..Len(rs) : i = 1 \/ i \in 2..Len(rs)
    BY <1>1
  <1> HIDE DEF t
  <1> QED
    BY <1>1, <1>2, <1>3, <1>4 DEF Answered, t

LEMMA ServeRequestKeepsRows ==
    ASSUME SessionInv, RowsInv, ServeRequest
    PROVE  RowsInv'
  <1> DEFINE r == Head(requests)
             a == [id |-> r.id, key |-> r.key, value |-> rows[r.id][r.key]]
  <1>1. /\ requests \in Seq(Requests) /\ requests # << >>
        /\ results \in Seq(Answers)
        /\ rows \in [Ids -> [Keys -> Data]] /\ rows' \in [Ids -> [Keys -> Data]]
        /\ requests' = Tail(requests)
    BY ServeRequestKeeps DEF ServeRequest, SessionInv, TypeOK, KvTypeOK, Answers
  <1>2. r \in Requests
    BY <1>1, QueueTail
  <1>3. \/ r.op = "get" /\ rows' = rows /\ results' = Append(results, a)
        \/ /\ r.op = "set" /\ results' = results
           /\ rows' = [rows EXCEPT ![r.id][r.key] = r.value]
    BY DEF ServeRequest
  <1>4. UNCHANGED <<waiting, joining, players, pc, turn, superseded>>
    BY DEF ServeRequest
  <1>5. \A id \in Ids, k \in Keys : \A v :
           Holds(requests, rows, id, k, v) => Holds(requests', rows', id, k, v)
    BY <1>1, <1>3, ServedHolds
  <1>6. a \in Answers /\ \A id, k : IsGet(r, id, k) => IsAnswer(a, id, k)
    BY <1>1, <1>2 DEF Requests, Answers, IsGet, IsAnswer
  <1>7. \A id, k : r.op = "get" /\ IsAnswer(a, id, k) => IsGet(r, id, k)
    BY DEF IsGet, IsAnswer
  <1>8. \A id, k : a.value = rows[r.id][r.key] /\ (IsAnswer(a, id, k) => r.id = id /\ r.key = k)
    BY DEF IsAnswer
  <1> HIDE DEF r, a
  <1>9. \A id, k :
           /\ GetIn(requests', id, k) => GetIn(requests, id, k)
           /\ GetIn(requests, id, k) => IsGet(r, id, k) \/ GetIn(requests', id, k)
           /\ IsGet(r, id, k) => GetIn(requests, id, k)
           /\ GetIsLast(requests, id, k) =>
                /\ GetIsLast(requests', id, k)
                /\ IsGet(r, id, k) =>
                     /\ ~GetIn(requests', id, k)
                     /\ \A i \in 1..Len(requests) : ~IsSet(requests[i], id, k)
    BY <1>1, ServedGets DEF r
  <1>10. ASSUME NEW id \in Ids \ superseded, NEW k \in Keys, RowFits(id, k)
         PROVE  RowFits(id, k)'
    <2>1. WaitingFits(id, k)' /\ JoiningFits(id, k)' /\ PlayerFits(id, k)'
      BY <1>4, <1>5, <1>10
         DEF RowFits, WaitingFits, JoiningFits, PlayerFits, HoldsNow, Settled
    <2>2. CASE r.op = "get" /\ results' = Append(results, a) /\ IsGet(r, id, k)
      <3>1. /\ AskedFor(id, k) /\ ~Answered(results, id, k)
            /\ ~GetIn(requests', id, k) /\ GetIsLast(requests', id, k)
            /\ \A i \in 1..Len(requests) : ~IsSet(requests[i], id, k)
        BY <1>9, <1>10, <2>2 DEF RowFits, AnswersFit
      <3>2. Holds(requests', rows', id, k, rows[id][k])
        BY <1>5, <3>1 DEF Holds
      <3>3. \A i \in 1..Len(results') :
               IsAnswer(results'[i], id, k) => i = Len(results') /\ results'[i] = a
        BY <1>1, <1>6, <2>2, <3>1, AppendedAnswer DEF Answered
      <3>4. a.value = rows[id][k]
        BY <1>6, <1>8, <2>2
      <3>5. AskedFor(id, k)'
        BY <1>4, <3>1 DEF AskedFor
      <3> QED
        BY <2>1, <3>1, <3>2, <3>3, <3>4, <3>5 DEF RowFits, AnswersFit, HoldsNow
    <2>3. CASE r.op = "get" /\ results' = Append(results, a) /\ ~IsGet(r, id, k)
      <3>1. ~IsAnswer(a, id, k)
        BY <1>7, <2>3
      <3>2. \A i \in 1..Len(results') : IsAnswer(results'[i], id, k) =>
               i \in 1..Len(results) /\ results'[i] = results[i]
        BY <1>1, <1>6, <2>3, <3>1, AppendedAnswer
      <3>3. Answered(results', id, k) <=> Answered(results, id, k)
        BY <1>1, <1>6, <2>3, <3>1, AppendedAnswer
      <3>4. AskedFor(id, k)' = AskedFor(id, k)
        BY <1>4 DEF AskedFor
      <3> QED
        BY <1>5, <1>9, <1>10, <2>1, <3>2, <3>3, <3>4 DEF RowFits, AnswersFit, HoldsNow
    <2>4. CASE results' = results
      <3>1. AskedFor(id, k)' = AskedFor(id, k)
        BY <1>4 DEF AskedFor
      <3> QED
        BY <1>5, <1>9, <1>10, <2>1, <2>4, <3>1 DEF RowFits, AnswersFit, HoldsNow
    <2> QED
      BY <1>3, <2>2, <2>3, <2>4
  <1>11. ASSUME NEW id \in Ids, MissingIsDue(id)
         PROVE  MissingIsDue(id)'
    <2>1. \A k : GetIn(requests, id, k) \/ Answered(results, id, k) =>
                 GetIn(requests', id, k) \/ Answered(results', id, k)
      <3>1. CASE r.op = "get" /\ results' = Append(results, a)
        BY <1>1, <1>6, <1>9, <3>1, AppendedAnswer
      <3>2. CASE r.op = "set" /\ results' = results
        BY <1>9, <3>2 DEF IsGet
      <3> QED
        BY <1>3, <3>1, <3>2
    <2> QED
      BY <1>4, <1>11, <2>1 DEF MissingIsDue
  <1> QED
    BY <1>4, <1>10, <1>11 DEF RowsInv


\* A player that nobody waits for begins to wait: nothing is under way about it,
\* and all its rows are asked for after all that was written.
LEMMA ApplyVerdictKeepsRows ==
    ASSUME SessionInv, RowsInv, NEW c \in Conns, ApplyVerdict(c)
    PROVE  RowsInv'
  <1>1. CASE verdict[c].kind # "AddAsPlayer"
    <2>1. UNCHANGED <<requests, results, rows, waiting, joining, superseded, players>>
          /\ ~(pc \in {"store", "recv"}) /\ pc' = pc
      BY <1>1 DEF ApplyVerdict, At
    <2> QED
      BY <2>1, QuietSteps DEF Settled
  <1>2. CASE verdict[c].kind = "AddAsPlayer"
    <2> DEFINE w == [conn |-> c, got |-> [k \in Keys |-> None]]
    <2>1. PICK jd \in Ids : jd = verdict[c].id
      <3>1. verdict[c] \in Verdicts
        BY DEF ApplyVerdict, SessionInv, TypeOK, AuthTypeOK
      <3> QED
        BY <1>2, <3>1 DEF Verdicts
    <2>2. /\ waiting' = [waiting EXCEPT ![jd] = w]
          /\ requests' = requests \o Gets(jd)
          /\ superseded' = superseded \cup
                              (IF waiting[jd] = None THEN {} ELSE {jd})
          /\ UNCHANGED <<players, joining, results, rows, turn, pc>>
      BY <1>2, <2>1 DEF ApplyVerdict, AddPlayerWaiting
    <2>3. /\ waiting \in [Ids -> {None} \cup Waiting]
          /\ requests \in Seq(Requests)
      BY DEF SessionInv, TypeOK, PlayerTypeOK, KvTypeOK
    <2>4. \A id \in Ids : waiting'[id] = IF id = jd THEN w ELSE waiting[id]
      BY <2>2, <2>3
    <2>5. w # None /\ \A k \in Keys : w.got[k] = None
      <3>1. w \in Waiting
        BY DEF Waiting
      <3> QED
        BY <3>1, SessionAssumption
    <2> HIDE DEF w
    <2>6. \A id, k, v : k \in Keys =>
             /\ Holds(requests, rows, id, k, v) => Holds(requests', rows, id, k, v)
             /\ GetIn(requests', id, k) <=> GetIn(requests, id, k) \/ id = jd
             /\ GetIsLast(requests, id, k) /\ id # jd => GetIsLast(requests', id, k)
             /\ ~GetIn(requests, id, k) => GetIsLast(requests', id, k)
      BY <2>2, <2>3, AskedRows
    <2>7. ASSUME NEW id \in Ids \ superseded', NEW k \in Keys, RowFits(id, k)
          PROVE  RowFits(id, k)'
      <3>1. JoiningFits(id, k)' /\ PlayerFits(id, k)'
        BY <2>2, <2>6, <2>7 DEF RowFits, JoiningFits, PlayerFits, HoldsNow, Settled
      <3>2. CASE id # jd
        <4>1. AskedFor(id, k)' = AskedFor(id, k)
          BY <2>4, <3>2 DEF AskedFor
        <4>2. AnswersFit(id, k)'
          BY <2>2, <2>6, <2>7, <3>2, <4>1 DEF RowFits, AnswersFit, HoldsNow
        <4>3. WaitingFits(id, k)'
          BY <2>2, <2>4, <2>6, <2>7, <3>2 DEF RowFits, WaitingFits, HoldsNow
        <4> QED
          BY <3>1, <4>2, <4>3 DEF RowFits
      <3>3. CASE id = jd
        <4>1. ~AskedFor(id, k)
          BY <2>2, <3>3 DEF AskedFor
        <4>2. ~GetIn(requests, id, k) /\ ~Answered(results, id, k)
          BY <2>7, <4>1 DEF RowFits, AnswersFit
        <4>3. AskedFor(id, k)' /\ WaitingFits(id, k)'
          BY <2>4, <2>5, <3>3 DEF AskedFor, WaitingFits
        <4>4. AnswersFit(id, k)'
          BY <2>2, <2>6, <4>2, <4>3 DEF AnswersFit, Answered
        <4> QED
          BY <3>1, <4>3, <4>4 DEF RowFits
      <3> QED
        BY <3>2, <3>3
    <2>8. superseded \subseteq superseded'
      BY <2>2
    <2>9. ASSUME NEW id \in Ids, MissingIsDue(id)
          PROVE  MissingIsDue(id)'
      <3>1. CASE id = jd
        <4>1. PICK k \in Keys : TRUE
          BY SessionAssumption
        <4> QED
          BY <2>4, <2>5, <2>6, <3>1, <4>1 DEF MissingIsDue
      <3>2. CASE id # jd
        BY <2>2, <2>4, <2>6, <2>9, <3>2 DEF MissingIsDue
      <3> QED
        BY <3>1, <3>2
    <2> QED
      BY <2>7, <2>8, <2>9 DEF RowsInv
  <1> QED
    BY <1>1, <1>2

\* Whoever is not superseded any more has nothing under way, and does not wait.
LEMMA AllJoinedKeepsRows ==
    ASSUME SessionInv, RowsInv, AllJoined
    PROVE  RowsInv'
  <1>1. /\ UNCHANGED <<requests, results, rows, waiting, joining, players>>
        /\ joining = << >> /\ pc' = "store" /\ turn' = Playing
        /\ superseded' = {id \in superseded : id \in Playing \/ AnswersDue(id)}
    BY DEF AllJoined, kvVars
  <1>2. ASSUME NEW id \in Ids \ superseded', NEW k \in Keys
        PROVE  RowFits(id, k)'
    <2>1. PlayerFits(id, k)' \/ id \in superseded
      BY <1>1 DEF RowsInv, RowFits, PlayerFits, HoldsNow, Settled, Playing
    <2>2. CASE id \notin superseded
      BY <1>1, <2>1, <2>2
         DEF RowsInv, RowFits, AnswersFit, WaitingFits, JoiningFits, HoldsNow, AskedFor
    <2>3. CASE id \in superseded
      <3>1. id \notin Playing /\ ~AnswersDue(id)
        BY <1>1, <2>3
      <3>2. \A l : ~GetIn(requests, id, l) /\ ~Answered(results, id, l)
        BY <3>1 DEF AnswersDue, GetIn, Answered, IsGet, IsAnswer
      <3>3. waiting[id] = None
        BY <3>2 DEF RowsInv, MissingIsDue
      <3>4. AnswersFit(id, k)'
        BY <1>1, <3>2 DEF AnswersFit, GetIn, Answered, GetIsLast
      <3>5. JoiningFits(id, k)' /\ WaitingFits(id, k)' /\ PlayerFits(id, k)'
        BY <1>1, <3>1, <3>3 DEF JoiningFits, WaitingFits, PlayerFits, Playing
      <3> QED
        BY <3>4, <3>5 DEF RowFits
    <2> QED
      BY <2>2, <2>3
  <1>3. \A id \in Ids : MissingIsDue(id)'
    BY <1>1 DEF RowsInv, MissingIsDue
  <1> QED
    BY <1>2, <1>3 DEF RowsInv

\* The rows of a new player are those of the database.
LEMMA JoinKeepsRows ==
    ASSUME SessionInv, RowsInv, Join
    PROVE  RowsInv'
  <1> DEFINE j == Head(joining)
             p == FromWaiting(j)
  <1>1. CASE Panic("join")
    BY <1>1, QuietSteps DEF Panic, kvVars, Settled
  <1>2. CASE /\ players' = [players EXCEPT ![j.id] = p]
             /\ joining' = Tail(joining)
             /\ pc' = "greet"
             /\ UNCHANGED <<waiting, kvVars, superseded>>
    <2>1. joining \in Seq(Joining) /\ joining # << >>
      BY DEF Join, SessionInv, TypeOK, PlayerTypeOK
    <2>2. /\ j \in Joining /\ joining[1] = j /\ 1 \in 1..Len(joining)
          /\ \A i \in 1..Len(Tail(joining)) :
                i + 1 \in 1..Len(joining) /\ Tail(joining)[i] = joining[i + 1]
      BY <2>1, QueueTail
    <2>3. \A k \in RowsEdited : p.last[k] = <<k, j.got[k]>>
      BY DEF FromWaiting
    <2>4. players \in [Ids -> {None} \cup Players]
      BY DEF SessionInv, TypeOK, PlayerTypeOK
    <2> HIDE DEF j, p
    <2>5. \A id \in Ids : players'[id] = IF id = j.id THEN p ELSE players[id]
      BY <1>2, <2>4
    <2>6. ASSUME NEW id \in Ids \ superseded, NEW k \in Keys, RowFits(id, k)
          PROVE  RowFits(id, k)'
      <3>1. AnswersFit(id, k)' /\ WaitingFits(id, k)'
        BY <1>2, <2>6 DEF RowFits, AnswersFit, WaitingFits, HoldsNow, AskedFor, kvVars
      <3>2. JoiningFits(id, k)'
        BY <1>2, <2>2, <2>6 DEF RowFits, JoiningFits, HoldsNow, kvVars
      <3>3. PlayerFits(id, k)'
        <4>1. ~Settled(id)'
          BY <1>2 DEF Settled
        <4>2. CASE id = j.id
          <5>1. HoldsNow(id, k, j.got[k])
            BY <2>2, <2>6, <4>2 DEF RowFits, JoiningFits
          <5>2. k \in RowsEdited => p.last[k][2] = j.got[k]
            BY <2>3
          <5> QED
            BY <1>2, <2>5, <4>1, <4>2, <5>1, <5>2 DEF PlayerFits, HoldsNow, kvVars
        <4>3. CASE id # j.id
          BY <1>2, <2>5, <2>6, <4>1, <4>3 DEF RowFits, PlayerFits, HoldsNow, kvVars
        <4> QED
          BY <4>2, <4>3
      <3> QED
        BY <3>1, <3>2, <3>3 DEF RowFits
    <2>7. \A id \in Ids : MissingIsDue(id)'
      BY <1>2 DEF RowsInv, MissingIsDue, kvVars
    <2> QED
      BY <1>2, <2>6, <2>7 DEF RowsInv
  <1> QED
    BY <1>1, <1>2 DEF Join


\* An answer goes to whoever waits for it: it is the only one, and good, and if
\* it is the last, all that was asked for has come.
LEMMA TakeResultKeepsRows ==
    ASSUME SessionInv, RowsInv, TakeResult
    PROVE  RowsInv'
  <1> DEFINE r == Head(results)
             w == [waiting[r.id] EXCEPT !.got[r.key] = r.value]
             e == [id |-> r.id, conn |-> w.conn, got |-> w.got]
  <1>1. /\ results \in Seq(Answers) /\ results # << >>
        /\ waiting \in [Ids -> {None} \cup Waiting]
        /\ joining \in Seq(Joining) /\ joining' \in Seq(Joining)
    BY TakeResultKeeps
       DEF TakeResult, SessionInv, TypeOK, KvTypeOK, PlayerTypeOK, Answers
  <1>2. r \in Answers
    BY <1>1, QueueTail
  <1>3. /\ results' = Tail(results)
        /\ UNCHANGED <<requests, rows, superseded, players, pc, turn>>
    BY DEF TakeResult
  <1>4. \/ waiting[r.id] = None /\ UNCHANGED <<waiting, joining>>
        \/ /\ waiting[r.id] # None
           /\ \E k \in Keys : w.got[k] = None
           /\ waiting' = [waiting EXCEPT ![r.id] = w]
           /\ UNCHANGED joining
        \/ /\ waiting[r.id] # None
           /\ \A k \in Keys : w.got[k] # None
           /\ waiting' = [waiting EXCEPT ![r.id] = None]
           /\ joining' = Append(joining, e)
    BY DEF TakeResult
  <1>5. r.id \in Ids /\ r.key \in Keys /\ r.value \in Data /\ r.value # None
    BY <1>2, SessionAssumption DEF Answers
  <1>6. waiting[r.id] # None =>
           /\ w # None
           /\ \A k \in Keys : w.got[k] =
                 IF k = r.key THEN r.value ELSE waiting[r.id].got[k]
    <2> SUFFICES ASSUME waiting[r.id] # None
                 PROVE  /\ w # None
                        /\ \A k \in Keys : w.got[k] =
                              IF k = r.key THEN r.value ELSE waiting[r.id].got[k]
      OBVIOUS
    <2>1. waiting[r.id] \in Waiting
      BY <1>1, <1>5
    <2>2. w \in Waiting
      BY <1>5, <2>1 DEF Waiting
    <2>3. w # None
      <3> HIDE DEF w
      <3> QED
        BY <2>2, SessionAssumption
    <2> QED
      BY <1>5, <2>1, <2>3 DEF Waiting
  <1>7. e.id = r.id /\ e.got = w.got
    OBVIOUS
  <1>8. \A id, k :
           /\ Answered(results', id, k) => Answered(results, id, k)
           /\ Answered(results, id, k) => IsAnswer(r, id, k) \/ Answered(results', id, k)
           /\ IsAnswer(r, id, k) => Answered(results, id, k)
    BY <1>1, <1>3, TakenAnswer
  <1>9. /\ results[1] = r /\ 1 \in 1..Len(results)
        /\ \A i \in 1..Len(results') :
              i + 1 \in 1..Len(results) /\ i + 1 # 1 /\ results'[i] = results[i + 1]
    BY <1>1, <1>3, TakenAnswer
  <1>10. \A id, k : IsAnswer(r, id, k) <=> id = r.id /\ k = r.key
    BY DEF IsAnswer
  <1> HIDE DEF r, w, e
  <1>11. ASSUME NEW id \in Ids \ superseded, NEW k \in Keys, RowFits(id, k)
         PROVE  /\ GetIn(requests, id, k) \/ Answered(results', id, k)
                      => AskedFor(id, k) /\ ~IsAnswer(r, id, k)
                /\ IsAnswer(r, id, k) =>
                      AskedFor(id, k) /\ HoldsNow(id, k, r.value)
    <2>1. IsAnswer(r, id, k) =>
             AskedFor(id, k) /\ ~GetIn(requests, id, k) /\ HoldsNow(id, k, r.value)
      BY <1>8, <1>9, <1>11 DEF RowFits, AnswersFit
    <2>2. IsAnswer(r, id, k) => ~Answered(results', id, k)
      BY <1>9, <1>11 DEF RowFits, AnswersFit, Answered
    <2>3. GetIn(requests, id, k) \/ Answered(results', id, k) => AskedFor(id, k)
      BY <1>8, <1>11 DEF RowFits, AnswersFit
    <2> QED
      BY <2>1, <2>2, <2>3
  <1>12. \A id \in Ids : id # r.id =>
            waiting'[id] = waiting[id]
    BY <1>1, <1>4
  <1>13. ASSUME NEW id \in Ids \ superseded, \A k \in Keys : RowFits(id, k),
                NEW k \in Keys
         PROVE  RowFits(id, k)'
    <2>1. PlayerFits(id, k)'
      BY <1>3, <1>13 DEF RowFits, PlayerFits, HoldsNow, Settled
    <2>2. (GetIn(requests, id, k) \/ Answered(results', id, k)) => AskedFor(id, k)'
      <3> SUFFICES ASSUME GetIn(requests, id, k) \/ Answered(results', id, k)
                   PROVE  AskedFor(id, k)'
        OBVIOUS
      <3>1. AskedFor(id, k) /\ ~IsAnswer(r, id, k)
        BY <1>11, <1>13
      <3>2. CASE id # r.id
        BY <1>12, <3>1, <3>2 DEF AskedFor
      <3>3. CASE id = r.id
        <4>1. waiting[r.id] # None /\ k # r.key /\ waiting[r.id].got[k] = None
          BY <1>10, <3>1, <3>3 DEF AskedFor
        <4>2. w.got[k] = None /\ w # None
          BY <1>6, <4>1
        <4>3. waiting' = [waiting EXCEPT ![r.id] = w]
          BY <1>4, <4>1, <4>2
        <4>4. waiting'[id] = w
          BY <1>1, <1>5, <3>3, <4>3
        <4> QED
          BY <4>2, <4>4 DEF AskedFor
      <3> QED
        BY <3>2, <3>3
    <2>3. AnswersFit(id, k)'
      <3>1. GetIsLast(requests, id, k) /\ ~(GetIn(requests, id, k) /\ Answered(results', id, k))
        BY <1>8, <1>13 DEF RowFits, AnswersFit
      <3>2. \A i, j \in 1..Len(results') :
               IsAnswer(results'[i], id, k) /\ IsAnswer(results'[j], id, k) => i = j
        <4> SUFFICES ASSUME NEW i \in 1..Len(results'), NEW j \in 1..Len(results'),
                            IsAnswer(results'[i], id, k), IsAnswer(results'[j], id, k)
                     PROVE  i = j
          OBVIOUS
        <4>1. i + 1 = j + 1
          BY <1>9, <1>13 DEF RowFits, AnswersFit
        <4> QED
          BY <4>1
      <3>3. \A i \in 1..Len(results') : IsAnswer(results'[i], id, k) =>
               Holds(requests, rows, id, k, results'[i].value)
        BY <1>9, <1>13 DEF RowFits, AnswersFit, HoldsNow
      <3> QED
        BY <1>3, <2>2, <3>1, <3>2, <3>3 DEF AnswersFit, HoldsNow
    <2>4. ASSUME NEW l \in Keys, waiting[r.id] # None, id = r.id, w.got[l] # None
          PROVE  HoldsNow(id, l, w.got[l])
      <3>1. CASE l = r.key
        BY <1>6, <1>10, <1>11, <1>13, <2>4, <3>1
      <3>2. CASE l # r.key
        BY <1>6, <1>13, <2>4, <3>2 DEF RowFits, WaitingFits
      <3> QED
        BY <3>1, <3>2
    <2>5. WaitingFits(id, k)'
      <3>1. CASE waiting'[id] = waiting[id]
        BY <1>3, <1>13, <3>1 DEF RowFits, WaitingFits, HoldsNow
      <3>2. CASE id = r.id /\ waiting' = [waiting EXCEPT ![r.id] = w] /\ waiting[r.id] # None
        <4>1. waiting'[id] = w
          BY <1>1, <3>2
        <4> QED
          BY <1>3, <2>4, <3>2, <4>1 DEF WaitingFits, HoldsNow
      <3>3. CASE id = r.id /\ waiting' = [waiting EXCEPT ![r.id] = None]
        <4>1. waiting'[id] = None
          BY <1>1, <3>3
        <4> QED
          BY <4>1 DEF WaitingFits
      <3> QED
        BY <1>4, <1>12, <3>1, <3>2, <3>3
    <2>6. JoiningFits(id, k)'
      <3>1. CASE UNCHANGED joining
        BY <1>3, <1>13, <3>1 DEF RowFits, JoiningFits, HoldsNow
      <3>2. CASE /\ waiting[r.id] # None
                 /\ \A l \in Keys : w.got[l] # None
                 /\ joining' = Append(joining, e)
        <4>1. \A i \in 1..Len(joining') :
                 \/ joining'[i] = e
                 \/ i \in 1..Len(joining) /\ joining'[i] = joining[i]
          BY <1>1, <3>2
        <4>2. id = r.id => HoldsNow(id, k, e.got[k])
          BY <1>7, <2>4, <3>2
        <4> QED
          BY <1>3, <1>7, <1>13, <4>1, <4>2 DEF RowFits, JoiningFits, HoldsNow
      <3> QED
        BY <1>4, <3>1, <3>2
    <2> QED
      BY <2>1, <2>3, <2>5, <2>6 DEF RowFits
  <1>14. ASSUME NEW id \in Ids, MissingIsDue(id)
         PROVE  MissingIsDue(id)'
    <2>1. CASE waiting'[id] = waiting[id] /\ id # r.id
      BY <1>3, <1>8, <1>10, <1>14, <2>1 DEF MissingIsDue
    <2>2. CASE waiting'[id] = None
      BY <2>2 DEF MissingIsDue
    <2>3. CASE /\ id = r.id /\ waiting[r.id] # None
               /\ \E k \in Keys : w.got[k] = None
               /\ waiting' = [waiting EXCEPT ![r.id] = w]
      <3>1. waiting'[id] = w
        BY <1>1, <2>3
      <3>2. \A k \in Keys : w.got[k] = None => k # r.key /\ waiting[id].got[k] = None
        BY <1>5, <1>6, <2>3
      <3>3. \A k \in Keys : w.got[k] = None =>
               GetIn(requests, id, k) \/ Answered(results', id, k)
        BY <1>8, <1>10, <1>14, <2>3, <3>2 DEF MissingIsDue
      <3> QED
        BY <1>3, <2>3, <3>1, <3>3 DEF MissingIsDue
    <2>4. id = r.id /\ waiting' = [waiting EXCEPT ![r.id] = None] => waiting'[id] = None
      BY <1>1
    <2> QED
      BY <1>4, <1>12, <2>1, <2>2, <2>3, <2>4
  <1> QED
    BY <1>3, <1>13, <1>14 DEF RowsInv

\* What is stored of a player is what is remembered of it, in both ways of the
\* comparison.
LEMMA StorePlayerKeepsRows ==
    ASSUME SessionInv, RowsInv, NEW jd \in Ids, StorePlayer(jd)
    PROVE  RowsInv'
  <1> DEFINE p == players[jd]
             q1 == requests \o StoreIf(posDue, jd, "position")
             q2 == q1 \o StoreIf(Changed(p, "inventory"), jd, "inventory")
             q3 == q2 \o StoreIf(Changed(p, "craft_inventory"), jd, "craft_inventory")
             q4 == q3 \o StoreIf(Changed(p, "slow_states"), jd, "slow_states")
  <1>1. /\ requests' = q4 /\ turn' = turn \ {jd}
        /\ UNCHANGED <<results, rows, waiting, joining, superseded, pc>>
        /\ pc = "store" /\ jd \in turn
        /\ players' = [players EXCEPT ![jd].last = Remembered(p)]
    BY DEF StorePlayer, At
  <1>2. /\ requests \in Seq(Requests) /\ posDue \in BOOLEAN
        /\ players \in [Ids -> {None} \cup Players]
    BY DEF SessionInv, TypeOK, KvTypeOK, PlayerTypeOK
  <1>3. p # None /\ p \in Players
    BY <1>1, <1>2 DEF SessionInv, PhaseInv, Playing
  <1>4. joining = << >> /\ waiting[jd] = None
    BY <1>1 DEF SessionInv, PhaseInv, SafetyInv, OneSessionPerPlayer
  <1>5. /\ \A key \in Keys : p.cur[key] \in Data
        /\ \A key : Changed(p, key) \in BOOLEAN
        /\ {"position", "inventory", "craft_inventory", "slow_states"} \subseteq KvKeys
    BY <1>3 DEF Players, Changed, KvKeys
  <1> HIDE DEF p
  <1>6. ASSUME NEW id \in Ids, NEW k \in Keys, NEW v, NEW q \in Seq(Requests),
               NEW key \in KvKeys, NEW cond \in BOOLEAN
        PROVE  LET s == q \o StoreIf(cond, jd, key) IN
               /\ s \in Seq(Requests)
               /\ Holds(q, rows, id, k, v) /\ ~(cond /\ id = jd /\ k = key)
                    => Holds(s, rows, id, k, v)
               /\ cond /\ key \in Keys => Holds(s, rows, jd, key, p.cur[key])
               /\ GetIn(s, id, k) <=> GetIn(q, id, k)
               /\ GetIsLast(q, id, k) /\ id # jd => GetIsLast(s, id, k)
               /\ ~GetIn(q, id, k) => GetIsLast(s, id, k)
    BY <1>5, StoredRow DEF p
  <1>7. \A key : Changed(p, key) => key \in Keys
    BY DEF Changed, RowsEdited
  <1>8. q1 \in Seq(Requests) /\ q2 \in Seq(Requests) /\ q3 \in Seq(Requests)
    <2>1. q1 \in Seq(Requests)
      BY <1>2, <1>3, <1>5, StoredRow DEF p
    <2> HIDE DEF q1
    <2>2. q2 \in Seq(Requests)
      BY <1>3, <1>5, <2>1, StoredRow DEF p
    <2> HIDE DEF q2
    <2>3. q3 \in Seq(Requests)
      BY <1>3, <1>5, <2>2, StoredRow DEF p
    <2> QED
      BY <2>1, <2>2, <2>3
  <1>9. ASSUME NEW id \in Ids, NEW k \in Keys, NEW v
        PROVE  /\ GetIn(q4, id, k) <=> GetIn(requests, id, k)
               /\ ~GetIn(requests, id, k) => GetIsLast(q4, id, k)
               /\ id # jd /\ GetIsLast(requests, id, k) => GetIsLast(q4, id, k)
               /\ /\ Holds(requests, rows, id, k, v)
                  /\ \/ id # jd
                     \/ k \in {"inventory", "slow_states"} /\ ~Changed(p, k)
                  => Holds(q4, rows, id, k, v)
               /\ id = jd /\ k \in {"inventory", "slow_states"} /\ Changed(p, k)
                  => Holds(q4, rows, id, k, p.cur[k])
    <2>1. ASSUME NEW u
          PROVE  /\ GetIn(q1, id, k) <=> GetIn(requests, id, k)
                 /\ ~GetIn(requests, id, k) => GetIsLast(q1, id, k)
                 /\ id # jd /\ GetIsLast(requests, id, k) => GetIsLast(q1, id, k)
                 /\ Holds(requests, rows, id, k, u) /\ ~(id = jd /\ k = "position")
                      => Holds(q1, rows, id, k, u)
      BY <1>2, <1>5, <1>6
    <2>2. ASSUME NEW u
          PROVE  /\ GetIn(q2, id, k) <=> GetIn(q1, id, k)
                 /\ ~GetIn(q1, id, k) => GetIsLast(q2, id, k)
                 /\ id # jd /\ GetIsLast(q1, id, k) => GetIsLast(q2, id, k)
                 /\ Holds(q1, rows, id, k, u)
                      /\ ~(Changed(p, "inventory") /\ id = jd /\ k = "inventory")
                      => Holds(q2, rows, id, k, u)
                 /\ Changed(p, "inventory") =>
                      Holds(q2, rows, jd, "inventory", p.cur["inventory"])
      <3> HIDE DEF q1
      <3> QED
        BY <1>5, <1>6, <1>7, <1>8
    <2>3. ASSUME NEW u
          PROVE  /\ GetIn(q3, id, k) <=> GetIn(q2, id, k)
                 /\ ~GetIn(q2, id, k) => GetIsLast(q3, id, k)
                 /\ id # jd /\ GetIsLast(q2, id, k) => GetIsLast(q3, id, k)
                 /\ Holds(q2, rows, id, k, u) /\ ~(id = jd /\ k = "craft_inventory")
                      => Holds(q3, rows, id, k, u)
      <3> HIDE DEF q2
      <3> QED
        BY <1>5, <1>6, <1>8
    <2>4. ASSUME NEW u
          PROVE  /\ GetIn(q4, id, k) <=> GetIn(q3, id, k)
                 /\ ~GetIn(q3, id, k) => GetIsLast(q4, id, k)
                 /\ id # jd /\ GetIsLast(q3, id, k) => GetIsLast(q4, id, k)
                 /\ Holds(q3, rows, id, k, u)
                      /\ ~(Changed(p, "slow_states") /\ id = jd /\ k = "slow_states")
                      => Holds(q4, rows, id, k, u)
                 /\ Changed(p, "slow_states") =>
                      Holds(q4, rows, jd, "slow_states", p.cur["slow_states"])
      <3> HIDE DEF q3
      <3> QED
        BY <1>5, <1>6, <1>7, <1>8
    <2> HIDE DEF q1, q2, q3, q4
    <2>5. /\ GetIn(q4, id, k) <=> GetIn(requests, id, k)
          /\ ~GetIn(requests, id, k) => GetIsLast(q4, id, k)
          /\ id # jd /\ GetIsLast(requests, id, k) => GetIsLast(q4, id, k)
      BY <2>1, <2>2, <2>3, <2>4
    <2>6. /\ Holds(requests, rows, id, k, v)
          /\ \/ id # jd
             \/ k \in {"inventory", "slow_states"} /\ ~Changed(p, k)
          => Holds(q4, rows, id, k, v)
      BY <2>1, <2>2, <2>3, <2>4
    <2>7. id = jd /\ k \in {"inventory", "slow_states"} /\ Changed(p, k)
          => Holds(q4, rows, id, k, p.cur[k])
      BY <2>2, <2>3, <2>4
    <2> QED
      BY <2>5, <2>6, <2>7
  <1> HIDE DEF q1, q2, q3, q4
  <1>10. /\ players'[jd].last = Remembered(p) /\ players'[jd].cur = p.cur
         /\ \A id \in Ids : id # jd => players'[id] = players[id]
    BY <1>1, <1>2, <1>3 DEF p, Players
  <1>11. ASSUME NEW k \in RowsEdited \ {"craft_inventory"}
         PROVE  /\ k \in Keys /\ k \in {"inventory", "slow_states"}
                /\ Remembered(p)[k][1] = k => Remembered(p)[k][2] = p.cur[k]
                /\ ~Changed(p, k) => p.last[k][1] = k /\ p.last[k][2] = p.cur[k]
    <2>1. k \in Keys /\ k \in {"inventory", "slow_states"}
      BY SessionAssumption DEF RowsEdited, KvKeys
    <2>2. Remembered(p)[k] \in {<<"craft_inventory", p.cur["craft_inventory"]>>, <<k, p.cur[k]>>}
      BY <2>1 DEF Remembered
    <2>3. Remembered(p)[k][1] = k => Remembered(p)[k][2] = p.cur[k]
      BY <2>2
    <2>4. ~Changed(p, k) => p.last[k] = <<k, p.cur[k]>>
      BY DEF Changed
    <2> QED
      BY <2>1, <2>3, <2>4
  <1>12. ASSUME NEW id \in Ids \ superseded, NEW k \in Keys, RowFits(id, k)
         PROVE  RowFits(id, k)'
    <2>1. JoiningFits(id, k)'
      BY <1>1, <1>4 DEF JoiningFits
    <2>2. CASE id # jd
      <3>1. AnswersFit(id, k)' /\ WaitingFits(id, k)'
        BY <1>1, <1>9, <1>12, <2>2
           DEF RowFits, AnswersFit, WaitingFits, HoldsNow, AskedFor
      <3>2. PlayerFits(id, k)'
        BY <1>1, <1>9, <1>10, <1>12, <2>2 DEF RowFits, PlayerFits, HoldsNow, Settled
      <3> QED
        BY <2>1, <3>1, <3>2 DEF RowFits
    <2>3. CASE id = jd
      <3>1. ~GetIn(requests, id, k) /\ ~Answered(results, id, k)
        BY <1>4, <1>12, <2>3 DEF RowFits, AnswersFit, AskedFor
      <3>2. AnswersFit(id, k)' /\ WaitingFits(id, k)'
        BY <1>1, <1>4, <1>9, <2>3, <3>1 DEF AnswersFit, WaitingFits, Answered
      <3>3. ASSUME k \in RowsEdited \ {"craft_inventory"}
            PROVE  Holds(q4, rows, id, k, p.cur[k])
        <4>1. CASE Changed(p, k)
          BY <1>9, <1>11, <2>3, <3>3, <4>1
        <4>2. CASE ~Changed(p, k)
          <5>1. Holds(requests, rows, id, k, p.cur[k])
            BY <1>3, <1>11, <1>12, <2>3, <3>3, <4>2 DEF RowFits, PlayerFits, HoldsNow, p
          <5> QED
            BY <1>9, <1>11, <2>3, <3>3, <4>2, <5>1
        <4> QED
          BY <4>1, <4>2
      <3>4. PlayerFits(id, k)'
        BY <1>1, <1>10, <1>11, <2>3, <3>3 DEF PlayerFits, HoldsNow
      <3> QED
        BY <2>1, <3>2, <3>4 DEF RowFits
    <2> QED
      BY <2>2, <2>3
  <1>13. ASSUME NEW id \in Ids, MissingIsDue(id)
         PROVE  MissingIsDue(id)'
    BY <1>1, <1>9, <1>13 DEF MissingIsDue
  <1> QED
    BY <1>1, <1>12, <1>13 DEF RowsInv


LEMMA InitRows == Init => RowsInv
  <1> SUFFICES ASSUME Init PROVE RowsInv
    OBVIOUS
  <1>1. /\ requests = << >> /\ results = << >> /\ joining = << >>
        /\ \A id \in Ids : waiting[id] = None /\ players[id] = None
    BY DEF Init
  <1> QED
    BY <1>1 DEF RowsInv, RowFits, AnswersFit, WaitingFits, JoiningFits, PlayerFits,
                MissingIsDue, GetIn, Answered, GetIsLast

LEMMA StepKeepsRows ==
    ASSUME SessionInv, RowsInv, [Next]_vars
    PROVE  RowsInv'
  <1>1. CASE UNCHANGED vars \/ Dead
    BY <1>1, QuietSteps DEF Dead, vars, kvVars, Settled
  <1>2. CASE AuthStep
    BY <1>2, AuthStepsKeepRows, PhasesKeepRows, ApplyVerdictKeepsRows DEF AuthStep
  <1>3. CASE MessageStep
    BY <1>3, HandlersKeepRows, PhasesKeepRows DEF MessageStep, Handler
  <1>4. CASE ServerStep
    BY <1>2, <1>3, <1>4, SendsKeepRows, PhasesKeepRows, TakeResultKeepsRows,
       JoinKeepsRows, AllJoinedKeepsRows, StorePlayerKeepsRows, ReceiveKeepsRows
       DEF ServerStep
  <1> QED
    BY <1>1, <1>4, ServeRequestKeepsRows, NetworkKeepsRows DEF Next

LEMMA RowsInvariant == Spec => [](SessionInv /\ RowsInv)
  <1>1. Init => SessionInv /\ RowsInv
    BY InitInv, InitRows
  <1>2. SessionInv /\ RowsInv /\ [Next]_vars => (SessionInv /\ RowsInv)'
    BY StepKeeps, StepKeepsRows
  <1> QED
    BY <1>1, <1>2, PTL DEF Spec

\* Who waits for its rows misses one, and each that it misses is asked for or
\* answered, however log ins replace each other and answers are handed out
\* (add_player_waiting, handle_players_waiting_for_kv).
THEOREM NobodyWaitsInVain == Spec => []MissingRowsAreDue
  <1>1. RowsInv => MissingRowsAreDue
    BY DEF RowsInv, MissingIsDue, MissingRowsAreDue, RowDue, GetIn, Answered, IsGet, IsAnswer
  <1> QED
    BY <1>1, RowsInvariant, PTL

\* What a row will hold is the last write queued, or what it holds now.
LEMMA HoldsIsLast ==
    ASSUME SessionInv, NEW id, NEW k, NEW v, HoldsNow(id, k, v)
    PROVE  LastStored(id, k) = v
  <1>1. Len(requests) \in Nat
    BY DEF SessionInv, TypeOK, KvTypeOK
  <1>2. \A i : i \in SetsOf(id, k) <=> i \in 1..Len(requests) /\ IsSet(requests[i], id, k)
    BY DEF SetsOf, IsSet
  <1>3. CASE /\ rows[id][k] = v
             /\ \A i \in 1..Len(requests) : ~IsSet(requests[i], id, k)
    <2>1. SetsOf(id, k) = {}
      BY <1>2, <1>3
    <2> QED
      BY <1>3, <2>1 DEF LastStored
  <1>4. ASSUME NEW i \in 1..Len(requests),
               IsSet(requests[i], id, k), requests[i].value = v,
               \A j \in 1..Len(requests) : IsSet(requests[j], id, k) => j <= i
        PROVE  LastStored(id, k) = v
    <2>1. i \in SetsOf(id, k) /\ \A j \in SetsOf(id, k) : j <= i /\ j \in Nat
      BY <1>1, <1>2, <1>4
    <2>2. i = CHOOSE m \in SetsOf(id, k) : \A j \in SetsOf(id, k) : j <= m
      <3> DEFINE IsLast(m) == m \in SetsOf(id, k) /\ \A j \in SetsOf(id, k) : j <= m
      <3>1. IsLast(i)
        BY <2>1
      <3>2. \A m : IsLast(m) => m = i
        <4> SUFFICES ASSUME NEW m, IsLast(m) PROVE m = i
          OBVIOUS
        <4>1. m <= i /\ i <= m /\ m \in Nat /\ i \in Nat
          BY <2>1
        <4> QED
          BY <4>1
      <3>3. IsLast(CHOOSE m \in SetsOf(id, k) : \A j \in SetsOf(id, k) : j <= m)
        BY <3>1
      <3> HIDE DEF IsLast
      <3> QED
        BY <3>2, <3>3
    <2>3. SetsOf(id, k) # {}
      BY <2>1
    <2> QED
      BY <1>4, <2>2, <2>3 DEF LastStored
  <1> QED
    BY <1>3, <1>4 DEF HoldsNow, Holds

\* Once the players are stored, what each of them has in its rows is on its way
\* to the database or there, whatever of it has changed since it was stored
\* last (store_player_inventories compares with what it remembers), but for the
\* crafting inventory.
THEOREM InventoriesAreStored == Spec => []InventoryIsStored
  <1>1. ASSUME SessionInv, RowsInv PROVE InventoryIsStored
    <2> SUFFICES ASSUME NEW k \in RowsEdited \ {"craft_inventory"}, At("recv"),
                        NEW id \in Playing \ superseded
                 PROVE  players[id].cur[k] = LastStored(id, k)
      BY DEF InventoryIsStored, IsStored
    <2>1. id \in Ids \ superseded /\ players[id] # None /\ Settled(id) /\ k \in Keys
      BY DEF Playing, Settled, At, RowsEdited
    <2>2. HoldsNow(id, k, players[id].cur[k])
      BY <1>1, <2>1 DEF RowsInv, RowFits, PlayerFits
    <2> QED
      BY <1>1, <2>2, HoldsIsLast
  <1> QED
    BY <1>1, RowsInvariant, PTL

-----------------------------------------------------------------------------
(* Who joins. *)

\* Only add_player makes a player.
LEMMA NobodyElseJoins ==
    ASSUME SessionInv, [Next]_vars, ~Join, NEW id \in Ids, players'[id] # None
    PROVE  players[id] # None
  <1>1. EditOf(players)
    BY PlayersAreAnEdit DEF SessionInv, TypeOK
  <1>2. CASE UNCHANGED players
    BY <1>2
  <1>3. CASE SendPositions \/ MapTick \/ Greet \/ MessagesCollected
    BY <1>3 DEF SendPositions, MapTick, Greet, MessagesCollected, CloseConnections
  <1>4. CASE Handler
    BY <1>4, HandlersClose DEF CloseAfter, EditOf
  <1>5. CASE \E jd \in Ids : StorePlayer(jd) \/ Receive(jd)
    <2>1. PICK jd \in Ids : StorePlayer(jd) \/ Receive(jd)
      BY <1>5
    <2>2. players[jd] # None /\ players \in [Ids -> {None} \cup Players]
      BY <2>1 DEF StorePlayer, Receive, MayReceive, SessionInv, PhaseInv, Playing,
                  TypeOK, PlayerTypeOK
    <2>3. \A kd \in Ids : kd # jd => players'[kd] = players[kd]
      BY <2>1, <2>2 DEF StorePlayer, Receive
    <2> QED
      BY <2>2, <2>3
  <1>6. ~Handler /\ MessageStep => UNCHANGED players
    BY DEF Handler, MessageStep, SenderIsGone, TreeUnloaded, EndOfTick, Panic
  <1>7. AuthStep => UNCHANGED players
    BY DEF AuthStep, AuthUnchanged, LogIn, SendHash, SendM1, IgnoreEarly,
           NothingLeft, ApplyVerdict, AuthPolled, VerdictsApplied, Panic
  <1>8. Accept \/ TakeResult \/ NoResult \/ AllJoined \/ PlayersStored
           \/ (\E jd \in Ids : ReceivedAll(jd)) => UNCHANGED players
    BY DEF Accept, TakeResult, NoResult, AllJoined, PlayersStored, ReceivedAll
  <1>9. ServeRequest \/ Dead \/ UNCHANGED vars
           \/ (\E c \in Conns : Open(c) \/ ClientSend(c) \/ ReaderEnds(c)
                                  \/ WriterEnds(c))
           => UNCHANGED players
    BY DEF ServeRequest, Dead, vars, Open, ClientSend, ReaderEnds, WriterEnds
  <1> QED
    BY <1>2, <1>3, <1>4, <1>5, <1>6, <1>7, <1>8, <1>9 DEF Next, ServerStep

JoinsStored ==
    \A id \in Ids \ superseded :
       players[id] = None /\ players'[id] # None =>
          \A k \in RowsEdited : players'[id].cur[k] = LastStored(id, k)

LEMMA StepJoinsStored ==
    ASSUME SessionInv, RowsInv, [Next]_vars
    PROVE  JoinsStored
  <1> SUFFICES ASSUME NEW id \in Ids \ superseded,
                      players[id] = None, players'[id] # None,
                      NEW k \in RowsEdited
               PROVE  players'[id].cur[k] = LastStored(id, k)
    BY DEF JoinsStored
  <1>1. Join
    BY NobodyElseJoins
  <1> DEFINE j == Head(joining)
             p == FromWaiting(j)
  <1>2. joining \in Seq(Joining) /\ joining # << >>
    BY <1>1 DEF Join, SessionInv, TypeOK, PlayerTypeOK
  <1>3. players' = [players EXCEPT ![j.id] = p]
    <2>1. CASE Panic("join")
      BY <2>1 DEF Panic
    <2> QED
      BY <1>1, <2>1 DEF Join
  <1>4. players \in [Ids -> {None} \cup Players]
    BY DEF SessionInv, TypeOK, PlayerTypeOK
  <1>5. j = joining[1] /\ 1 \in 1..Len(joining)
    BY <1>2, QueueTail
  <1>6. k \in Keys /\ k # "position"
    BY DEF RowsEdited
  <1>7. p.cur[k] = j.got[k]
    BY <1>6 DEF FromWaiting
  <1> HIDE DEF j, p
  <1>8. id = j.id /\ players'[id] = p
    BY <1>3, <1>4
  <1>9. HoldsNow(id, k, j.got[k])
    BY <1>5, <1>6, <1>8 DEF RowsInv, RowFits, JoiningFits
  <1> QED
    BY <1>7, <1>8, <1>9, HoldsIsLast

\* A player begins with what was stored last, although those writes may still be
\* in the queue when its rows are asked for and answers come in any number of
\* ticks (add_player_waiting, handle_players_waiting_for_kv), unless a second log
\* in has replaced the one that asked.
THEOREM ReturningPlayersFindTheirRows == Spec => JoinsWithStoredRows
  <1>1. SessionInv /\ RowsInv /\ [Next]_vars => [JoinsStored]_vars
    BY StepJoinsStored
  <1> QED
    BY <1>1, RowsInvariant, PTL DEF Spec, JoinsWithStoredRows, JoinsStored
=============================================================================
