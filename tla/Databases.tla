------------------------------ MODULE Databases ------------------------------
(***************************************************************************)
(* The two files of a world, its storage and its accounts: how a server    *)
(* creates, checks, migrates or does without them at its start, and the    *)
(* accounts it then adds.  Each statement takes effect on its own, so the  *)
(* process may end between any two of them.                                *)
(***************************************************************************)
EXTENDS Integers, Sequences

CONSTANTS
    Conns, Nicks, Hashes,
    Lower,        \* to_lowercase: [Nicks -> Nicks]
    None

ASSUME DatabasesAssumption ==
    /\ Lower \in [Nicks -> Nicks]
    /\ \A nick \in Nicks : Lower[Lower[nick]] = Lower[nick]
    /\ None \notin Nicks /\ None \notin [id : Nat, hash : Hashes]

Files == {"map", "auth"}

\* USER_VERSION, and the tables in the order in which init_db creates them.
Newest == [map |-> 2, auth |-> 1]
Tables == [map  |-> <<"kvstore", "chunks", "player_kvstore">>,
           auth |-> <<"player_name_id_map", "player_pw_hashes">>]

File(app, version, tables) ==
    [exists |-> TRUE, app |-> app, version |-> version, tables |-> tables]
Absent == [exists |-> FALSE, app |-> "none", version |-> 0, tables |-> {}]

AllTables(f) == {Tables[f][i] : i \in DOMAIN Tables[f]}
\* No file, one of an older mimas, one of a newer mimas, or one of another program.
StartFiles(f) ==
    {Absent, File("own", 3, {}), File("other", 0, {})}
    \cup IF f = "map" THEN {File("own", 1, {"kvstore", "chunks"})} ELSE {}

VARIABLES
    files,
    pc,        \* where the server's start is
    file,      \* the file it is at
    step,      \* how many statements of init_db or of the migration are done
    authNeeded,
    storage,   \* SqliteStorageBackend on the file, or NullStorageBackend
    accounts,  \* SqliteLocalAuth on the file, or in memory
    nicks,     \* player_name_id_map: the names by id
    hashes,    \* player_pw_hashes
    enrolling, \* AuthState::NewUser of the connections
    adding,    \* in add_player, between the two INSERTs
    seen,      \* history: how many names there were when a connection was
               \* taken for a new player's
    cutOff     \* history: files whose creation was interrupted

dbVars == <<files, pc, file, step, authNeeded, storage, accounts, nicks, hashes,
            enrolling, adding, seen, cutOff>>
startVars == <<file, step, authNeeded>>
accountVars == <<nicks, hashes, enrolling, adding, seen>>

DatabasesInit ==
    /\ files \in [Files -> StartFiles("map") \cup StartFiles("auth")]
    /\ \A f \in Files : files[f] \in StartFiles(f)
    /\ pc = "stopped" /\ file = "map" /\ step = 0 /\ authNeeded = FALSE
    /\ storage = "none" /\ accounts = "none"
    /\ nicks = [file |-> << >>, memory |-> << >>]
    /\ hashes = [file |-> << >>, memory |-> << >>]
    /\ enrolling = [c \in Conns |-> None]
    /\ adding = None
    /\ seen = [c \in Conns |-> 0]
    /\ cutOff = {}

-----------------------------------------------------------------------------
\* NullStorageBackend and accounts in memory: nothing of this run is kept.
InMemory(needed) ==
    /\ pc' = "running"
    /\ storage' = "null"
    /\ accounts' = IF needed THEN "memory" ELSE "none"

\* backends_from_config.  The single player mode needs no accounts.
Start ==
    /\ pc = "stopped"
    /\ \E needed \in BOOLEAN :
        /\ authNeeded' = needed
        /\ \/ InMemory(needed)               \* no map_storage_path
           \/ pc' = "opening" /\ UNCHANGED <<storage, accounts>>
    /\ file' = "map"
    /\ step' = 0
    /\ UNCHANGED <<files, accountVars, cutOff>>

\* The file is open.  manage_mapgen_meta_toml reads from the storage at once.
Opened ==
    \/ /\ file = "map" /\ "kvstore" \notin files[file].tables
       /\ pc' = "panicked"
       /\ UNCHANGED <<file, step, storage, accounts>>
    \/ /\ file = "map" /\ "kvstore" \in files[file].tables
       /\ storage' = "file"
       /\ IF authNeeded THEN pc' = "opening" /\ file' = "auth" /\ step' = 0
                        ELSE pc' = "running" /\ UNCHANGED <<file, step>>
       /\ UNCHANGED accounts
    \/ /\ file = "auth"
       /\ pc' = "running"
       /\ accounts' = "file"
       /\ UNCHANGED <<file, step, storage>>

\* Mutant: accounts that cannot be opened are kept in memory.
RefusedMildly ==
    IF file = "map" THEN InMemory(authNeeded)
    ELSE pc' = "running" /\ accounts' = "memory" /\ UNCHANGED storage

\* A storage that cannot be opened is done without; the accounts are unwrapped.
Refused ==
    IF file = "map" THEN InMemory(authNeeded)
    ELSE pc' = "panicked" /\ UNCHANGED <<storage, accounts>>

\* expect_user_ver
Foreign(f) ==
    files[f].exists /\ (files[f].app # "own" \/ files[f].version > Newest[f])
Old(f) ==
    files[f].exists /\ files[f].app = "own" /\ files[f].version < Newest[f]
Current(f) ==
    files[f].exists /\ files[f].app = "own" /\ files[f].version = Newest[f]

\* Mutant: only the version is looked at.
OpenByVersion ==
    /\ pc = "opening"
    /\ \/ /\ ~files[file].exists
          /\ pc' = "creating"
          /\ files' = [files EXCEPT ![file] = File("none", 0, {})]
          /\ UNCHANGED <<file, step, storage, accounts>>
       \/ /\ files[file].version > Newest[file]
          /\ Refused
          /\ UNCHANGED <<files, file, step>>
       \/ /\ files[file].exists /\ files[file].version < Newest[file]
          /\ pc' = "migrating"
          /\ UNCHANGED <<files, file, step, storage, accounts>>
       \/ /\ files[file].exists /\ files[file].version = Newest[file]
          /\ Opened
          /\ UNCHANGED files
    /\ UNCHANGED <<authNeeded, accountVars, cutOff>>

\* open_or_create_db: an absent file is there, and empty, once it was opened;
\* the second part of from_conn, for a file that was there before.
Open ==
    /\ pc = "opening"
    /\ \/ /\ ~files[file].exists
          /\ pc' = "creating"
          /\ files' = [files EXCEPT ![file] = File("none", 0, {})]
          /\ UNCHANGED <<file, step, storage, accounts>>
       \/ /\ Foreign(file) \/ (Old(file) /\ file = "auth")
          /\ Refused
          /\ UNCHANGED <<files, file, step>>
       \/ /\ Old(file) /\ file = "map"
          /\ pc' = "migrating"
          /\ UNCHANGED <<files, file, step, storage, accounts>>
       \/ /\ Current(file)
          /\ Opened
          /\ UNCHANGED files
    /\ UNCHANGED <<authNeeded, accountVars, cutOff>>

Statements(f) == 2 + Len(Tables[f])

\* The file after the first n statements of init_db.
Created(f, n) ==
    File(IF n >= 1 THEN "own" ELSE "none",
         IF n >= 2 THEN Newest[f] ELSE 0,
         {Tables[f][i] : i \in {k \in DOMAIN Tables[f] : k + 2 <= n}})

Create ==
    /\ pc = "creating" /\ step < Statements(file)
    /\ files' = [files EXCEPT ![file] = Created(file, step + 1)]
    /\ step' = step + 1
    /\ UNCHANGED <<pc, file, authNeeded, storage, accounts, accountVars, cutOff>>

\* Mutant: the version first.
MigrateVersionFirst ==
    /\ pc = "migrating" /\ step < 2
    /\ files' = IF step = 0 THEN [files EXCEPT !["map"].version = Newest["map"]]
                ELSE [files EXCEPT !["map"].tables = @ \cup {"player_kvstore"}]
    /\ step' = step + 1
    /\ UNCHANGED <<pc, file, authNeeded, storage, accounts, accountVars, cutOff>>

\* migrate_v2, then set_user_version.
Migrate ==
    /\ pc = "migrating" /\ step < 2
    /\ files' = IF step = 0 THEN [files EXCEPT !["map"].tables = @ \cup {"player_kvstore"}]
                ELSE [files EXCEPT !["map"].version = Newest["map"]]
    /\ step' = step + 1
    /\ UNCHANGED <<pc, file, authNeeded, storage, accounts, accountVars, cutOff>>

OpenedNew ==
    /\ \/ pc = "creating" /\ step = Statements(file)
       \/ pc = "migrating" /\ step = 2
    /\ Opened
    /\ UNCHANGED <<files, authNeeded, accountVars, cutOff>>

-----------------------------------------------------------------------------
\* The tables of the accounts: in memory they are always there.
Has(table) == accounts = "memory" \/ table \in files["auth"].tables

Panic ==
    /\ pc' = "panicked"
    /\ UNCHANGED <<files, startVars, storage, accounts, accountVars, cutOff>>

Serving == pc = "running" /\ accounts # "none" /\ adding = None

\* Mutant: the nick as it is spelt.
IdsAsSpelt(nick) == {id \in DOMAIN nicks[accounts] : nicks[accounts][id] = nick}

\* get_player_id: the lower-case nick among the names as registered.
IdsOf(nick) == {id \in DOMAIN nicks[accounts] : nicks[accounts][id] = Lower[nick]}

\* A nick without an id is taken for a new one; one with an id is asked for
\* its password, or refused when it has no hash.
LogIn(c, nick) ==
    /\ Serving
    /\ \/ /\ Has("player_name_id_map")
          /\ IdsOf(nick) = {}
          /\ enrolling' = [enrolling EXCEPT ![c] = nick]
          /\ seen' = [seen EXCEPT ![c] = Len(nicks[accounts])]
          /\ UNCHANGED <<files, pc, startVars, storage, accounts, nicks, hashes,
                         adding, cutOff>>
       \/ /\ Has("player_name_id_map") /\ Has("player_pw_hashes")
          /\ IdsOf(nick) # {}
          /\ enrolling' = [enrolling EXCEPT ![c] = None]
          /\ UNCHANGED <<files, pc, startVars, storage, accounts, nicks, hashes,
                         adding, seen, cutOff>>
       \/ /\ ~Has("player_name_id_map")
             \/ (IdsOf(nick) # {} /\ ~Has("player_pw_hashes"))
          /\ Panic

\* UNIQUE(lcname)
Taken(nick) == \E id \in DOMAIN nicks[accounts] : Lower[nicks[accounts][id]] = Lower[nick]

\* Mutant: INSERT OR REPLACE
SendHashReplaces(c, hash) ==
    /\ Serving /\ enrolling[c] # None
    /\ LET nick == enrolling[c]
           same == {id \in DOMAIN nicks[accounts] : Lower[nicks[accounts][id]] = Lower[nick]}
           id == IF same = {} THEN Len(nicks[accounts]) + 1 ELSE CHOOSE i \in same : TRUE
       IN /\ nicks' = [nicks EXCEPT ![accounts] =
                          IF same = {} THEN Append(@, nick) ELSE [@ EXCEPT ![id] = nick]]
          /\ adding' = [id |-> id, hash |-> hash]
    /\ enrolling' = [enrolling EXCEPT ![c] = None]
    /\ UNCHANGED <<files, pc, startVars, storage, accounts, hashes, seen, cutOff>>

\* The first INSERT of add_player; its result is unwrapped.
SendHash(c, hash) ==
    /\ Serving /\ enrolling[c] # None
    /\ \/ /\ ~Taken(enrolling[c])
          /\ nicks' = [nicks EXCEPT ![accounts] = Append(@, enrolling[c])]
          /\ adding' = [id |-> Len(nicks[accounts]) + 1, hash |-> hash]
          /\ enrolling' = [enrolling EXCEPT ![c] = None]
          /\ UNCHANGED <<files, pc, startVars, storage, accounts, hashes, seen, cutOff>>
       \/ /\ Taken(enrolling[c])
          /\ Panic

\* The second one.
InsertHash ==
    /\ pc = "running" /\ adding # None
    /\ \/ /\ Has("player_pw_hashes")
          /\ hashes' = [hashes EXCEPT ![accounts] =
                [id \in DOMAIN @ \cup {adding.id} |->
                    IF id = adding.id THEN adding.hash ELSE @[id]]]
          /\ adding' = None
          /\ UNCHANGED <<files, pc, startVars, storage, accounts, nicks, enrolling,
                         seen, cutOff>>
       \/ /\ ~Has("player_pw_hashes")
          /\ Panic

\* The server ends, by itself or by force: what was in memory is gone.
Stop ==
    /\ pc # "stopped"
    /\ pc' = "stopped"
    /\ cutOff' = IF pc = "creating" /\ step < Statements(file) THEN cutOff \cup {file} ELSE cutOff
    /\ storage' = "none" /\ accounts' = "none"
    /\ nicks' = [nicks EXCEPT !.memory = << >>]
    /\ hashes' = [hashes EXCEPT !.memory = << >>]
    /\ enrolling' = [c \in Conns |-> None]
    /\ seen' = [c \in Conns |-> 0]
    /\ adding' = None
    /\ UNCHANGED <<files, startVars>>

DatabasesNext ==
    \/ Start \/ Open \/ Create \/ Migrate \/ OpenedNew
    \/ \E c \in Conns : \/ \E nick \in Nicks : LogIn(c, nick)
                        \/ \E hash \in Hashes : SendHash(c, hash)
    \/ InsertHash \/ Stop

DatabasesSpec == DatabasesInit /\ [][DatabasesNext]_dbVars

-----------------------------------------------------------------------------
\* A server that runs on a file finds in it every table it uses, whether it
\* has created the file, found it or migrated it, in one start or in several
\* that were cut off (init_db, expect_user_ver); but for a file whose creation
\* itself was cut off, which no later start completes.
RunsOnWholeFiles ==
    pc = "running" =>
       /\ storage = "file" /\ "map" \notin cutOff => AllTables("map") \subseteq files["map"].tables
       /\ accounts = "file" /\ "auth" \notin cutOff => AllTables("auth") \subseteq files["auth"].tables

\* Players and their things are kept or lost together: no server keeps the
\* world in the file and the accounts in memory, or the other way round, where
\* the id of a new account would be that of somebody else's rows
\* (sqlite_backend_from_config, backends_from_config).
StorageMatchesAccounts ==
    pc = "running" => /\ accounts = "file" => storage = "file"
                      /\ accounts = "memory" => storage = "null"

\* No start writes to a file of another program or of a newer mimas
\* (expect_user_ver).
ForeignFilesAreLeftAlone ==
    [][\A f \in Files : Foreign(f) /\ ~(pc = "creating" /\ file = f)
          => files'[f] = files[f]]_dbVars

\* Who enrols does so under a nick that was new at the log in: the INSERT of
\* add_player, which is unwrapped, can fail only because somebody else has
\* registered the nick since, or because it had been registered with upper-case
\* letters, where get_player_id does not find it (get_player_id, add_player).
EnrolmentsAreNew ==
    accounts # "none" =>
       \A c \in Conns, id \in DOMAIN nicks[accounts] :
          LET name == nicks[accounts][id] IN
          enrolling[c] # None /\ Lower[name] = Lower[enrolling[c]]
             => id > seen[c] \/ name # Lower[name]

\* No log in, enrolment or restart changes the nick or the hash of an account
\* that was added (add_player).
AccountsAreKept ==
    [][\A id \in DOMAIN hashes["file"] :
          /\ id \in DOMAIN hashes'["file"] /\ hashes'["file"][id] = hashes["file"][id]
          /\ nicks'["file"][id] = nicks["file"][id]]_dbVars
=============================================================================
