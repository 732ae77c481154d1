------------------------------ MODULE FilesProofs ------------------------------
(***************************************************************************)
(* What the starts of a server leave of its files, and what the clients of *)
(* a computer leave of their cache.                                        *)
(*                                                                         *)
(* Databases: for any connections, nicks and passwords, the starts leave   *)
(* foreign files alone and run on whole files, and accounts stay what they *)
(* are.  The first rests on what each stage of a start says of the file it *)
(* is at, the second on the id that is being added having no hash yet.     *)
(*                                                                         *)
(* WorldFile: for any seeds, names, chunks and size of transaction, the    *)
(* chunks of a world are of one seed, and the ids in them mean what they   *)
(* meant.  Sealed says the former of one state of the tables: a chunk is   *)
(* only there if the seed is, and is the same; Named says the latter.      *)
(* Both are kept by a commit and by a crash because they copy tables, and  *)
(* by a write because of what the pending write can be in each phase of    *)
(* the start.  That new names get further ids rests on a little counting.  *)
(* From there it is a small way to the types, and to the world being one   *)
(* way of using the map database of SqliteStorage.                         *)
(*                                                                         *)
(* Client: for any clients, textures, caches and number of kills, a client *)
(* only fails to load a texture because another one is at the file or was  *)
(* ended at it.  The argument follows a texture from the check of the      *)
(* cache to the load: at each stop on the way it is good, or it is on the  *)
(* list of what is asked for, sent or stored; and a good one stays good    *)
(* whatever the others do to the file.                                     *)
(*                                                                         *)
(* And for every size of a chunk and every content, what a client draws is *)
(* its map.  ToldInv follows a chunk on its way to the mesh thread and     *)
(* back: the last job for a place, wherever it is, has the chunk as it is. *)
(* That the mesh of a chunk shows the chunk is a matter of one row: what   *)
(* the walker holds after v cells (WalkerOK) makes its pieces cut the row  *)
(* at every change of the texture and nowhere else.                        *)
(***************************************************************************)
EXTENDS Databases, WorldFile, Client, SequenceTheorems, FiniteSetTheorems,
        WellFoundedInduction, TLAPS

-----------------------------------------------------------------------------
(* Databases *)

AnyTable == AllTables("map") \cup AllTables("auth")
App == {"none", "own", "other"}
AnyFile == [exists : BOOLEAN, app : App, version : Nat, tables : SUBSET AnyTable]

Working(f) == pc = "creating" /\ file = f

\* What a start has found and done so far.
StartInv ==
    /\ files \in [Files -> AnyFile] /\ file \in Files
    /\ pc \in {"stopped", "opening", "creating", "migrating", "running", "panicked"}
    /\ pc = "opening" => step = 0
    /\ pc = "creating" => step \in 0..Statements(file) /\ files[file] = Created(file, step)
    /\ pc = "migrating" =>
          /\ file = "map" /\ step \in 0..2
          /\ step <= 1 => Old("map")
          /\ step = 2 => Current("map")
          /\ step >= 1 => "player_kvstore" \in files["map"].tables
    /\ pc \in {"opening", "creating", "migrating"} =>
          /\ accounts = "none"
          /\ file = "auth" => storage = "file" /\ Current("map")
    /\ pc = "stopped" => accounts = "none"
    /\ pc = "running" =>
          /\ storage = "file" => Current("map")
          /\ accounts = "file" => Current("auth")

\* A file whose creation was not cut off has the tables of its version.
WholeInv ==
    \A f \in Files : f \notin cutOff /\ ~Working(f) =>
       /\ Current(f) => AllTables(f) \subseteq files[f].tables
       /\ Old(f) /\ f = "map" => {"kvstore", "chunks"} \subseteq files[f].tables

FilesInv == StartInv /\ WholeInv /\ StorageMatchesAccounts

-----------------------------------------------------------------------------
\* The tables spelt out.
LEMMA TheTables ==
    /\ AllTables("map") = {"kvstore", "chunks", "player_kvstore"}
    /\ AllTables("auth") = {"player_name_id_map", "player_pw_hashes"}
    /\ Statements("map") = 5 /\ Statements("auth") = 4
    /\ Newest["map"] = 2 /\ Newest["auth"] = 1
  <1>1. DOMAIN Tables["map"] = 1..3 /\ DOMAIN Tables["auth"] = 1..2
    BY DEF Tables
  <1>2. /\ Tables["map"][1] = "kvstore" /\ Tables["map"][2] = "chunks"
        /\ Tables["map"][3] = "player_kvstore"
        /\ Tables["auth"][1] = "player_name_id_map" /\ Tables["auth"][2] = "player_pw_hashes"
    BY DEF Tables
  <1>3. Len(Tables["map"]) = 3 /\ Len(Tables["auth"]) = 2
    BY DEF Tables
  <1>4. 1..3 = {1, 2, 3} /\ 1..2 = {1, 2}
    OBVIOUS
  <1> QED
    BY <1>1, <1>2, <1>3, <1>4 DEF AllTables, Statements, Newest

\* After its last statement init_db leaves a whole file.
LEMMA CreatedWhole ==
    ASSUME NEW f \in Files
    PROVE  /\ Created(f, Statements(f)).exists /\ Created(f, Statements(f)).app = "own"
           /\ Created(f, Statements(f)).version = Newest[f]
           /\ Created(f, Statements(f)).tables = AllTables(f)
           /\ File("none", 0, {}) = Created(f, 0)
  <1>1. f \in {"map", "auth"}
    BY DEF Files
  <1>2. Statements(f) \in {4, 5} /\ Statements(f) = 2 + Len(Tables[f])
    BY <1>1, TheTables DEF Statements
  <1>3. DOMAIN Tables[f] = 1..Len(Tables[f])
    BY <1>1 DEF Tables
  <1>4. {k \in DOMAIN Tables[f] : k + 2 <= Statements(f)} = DOMAIN Tables[f]
    BY <1>2, <1>3, <1>1 DEF Tables
  <1>5. {k \in DOMAIN Tables[f] : k + 2 <= 0} = {}
    BY <1>1 DEF Tables
  <1>6. Statements(f) >= 2
    BY <1>2
  <1>7. Created(f, Statements(f)) = File("own", Newest[f], {Tables[f][i] : i \in DOMAIN Tables[f]})
    <2>1. Statements(f) >= 1 /\ Statements(f) >= 2
      BY <1>2
    <2> QED
      BY <1>4, <2>1 DEF Created
  <1>8. Created(f, 0) = File("none", 0, {Tables[f][i] : i \in {}})
    <2>1. ~(0 >= 1) /\ ~(0 >= 2)
      OBVIOUS
    <2> QED
      BY <1>5, <2>1 DEF Created
  <1>9. {Tables[f][i] : i \in {}} = {}
    OBVIOUS
  <1> QED
    BY <1>7, <1>8, <1>9 DEF File, AllTables

\* Every file of init_db is a file.
LEMMA CreatedType ==
    ASSUME NEW f \in Files, NEW n \in 0..Statements(f)
    PROVE  Created(f, n) \in AnyFile
  <1>1. Newest[f] \in Nat
    BY TheTables DEF Files
  <1>2. \A i \in DOMAIN Tables[f] : Tables[f][i] \in AnyTable
    BY DEF Files, AnyTable, AllTables
  <1> DEFINE some == {Tables[f][i] : i \in {k \in DOMAIN Tables[f] : k + 2 <= n}}
             app == IF n >= 1 THEN "own" ELSE "none"
             version == IF n >= 2 THEN Newest[f] ELSE 0
  <1>3. app \in App
    BY DEF App
  <1>4. version \in Nat
    BY <1>1
  <1>5. some \in SUBSET AnyTable
    BY <1>2, Zenon
  <1>6. Created(f, n) = [exists |-> TRUE, app |-> app, version |-> version, tables |-> some]
    BY DEF Created, File
  <1> HIDE DEF some, app, version
  <1> QED
    BY <1>3, <1>4, <1>5, <1>6 DEF AnyFile

\* A start that has found or made a file goes on or panics.
LEMMA OpenedKeeps ==
    ASSUME FilesInv, pc \in {"opening", "creating", "migrating"}, Current(file), Opened,
           UNCHANGED <<files, authNeeded, cutOff>>,
           file \notin cutOff => AllTables(file) \subseteq files[file].tables
    PROVE  FilesInv'
  <1> USE DEF Current, Old
  <1>1. StartInv'
    BY DEF FilesInv, StartInv, Opened, Files
  <1>2. pc' # "creating"
    BY DEF Opened
  <1>3. WholeInv'
    BY <1>2, TheTables DEF FilesInv, WholeInv, StartInv, Working, Files
  <1>4. StorageMatchesAccounts'
    BY DEF FilesInv, StartInv, StorageMatchesAccounts, Opened, Files
  <1> QED
    BY <1>1, <1>3, <1>4 DEF FilesInv

LEMMA FilesInitially == DatabasesInit => FilesInv
  <1> SUFFICES ASSUME DatabasesInit PROVE FilesInv
    OBVIOUS
  <1>1. files \in [Files -> AnyFile]
    <2>1. Absent \in AnyFile /\ File("own", 3, {}) \in AnyFile /\ File("other", 0, {}) \in AnyFile
          /\ File("own", 1, {"kvstore", "chunks"}) \in AnyFile
      BY TheTables DEF Absent, File, AnyFile, App, AnyTable
    <2>2. \A f \in Files : StartFiles(f) \subseteq AnyFile
      BY <2>1 DEF StartFiles
    <2> QED
      BY <2>2 DEF DatabasesInit, Files
  <1>2. \A f \in Files : ~Current(f) /\ (Old(f) => {"kvstore", "chunks"} \subseteq files[f].tables)
    BY TheTables DEF DatabasesInit, StartFiles, Absent, File, Files, Current, Old
  <1> QED
    BY <1>1, <1>2 DEF DatabasesInit, FilesInv, StartInv, WholeInv, StorageMatchesAccounts, Files

LEMMA FilesInductive == FilesInv /\ [DatabasesNext]_dbVars => FilesInv'
  <1> SUFFICES ASSUME FilesInv, [DatabasesNext]_dbVars PROVE FilesInv'
    OBVIOUS
  <1> USE DEF Current, Old
  <1>1. CASE UNCHANGED dbVars
    BY <1>1 DEF dbVars, FilesInv, StartInv, WholeInv, StorageMatchesAccounts, Working
  <1>2. CASE Start
    BY <1>2 DEF Start, InMemory, FilesInv, StartInv, WholeInv, StorageMatchesAccounts,
       Working, Files
  <1>3. CASE Open
    <2>1. CASE /\ ~files[file].exists /\ pc' = "creating"
               /\ files' = [files EXCEPT ![file] = File("none", 0, {})]
               /\ UNCHANGED <<file, step, storage, accounts>>
      <3>1. Created(file, 0) = File("none", 0, {}) /\ Created(file, 0) \in AnyFile
        BY CreatedWhole, CreatedType, TheTables DEF FilesInv, StartInv, Files
      <3>2. step' = 0 /\ 0 \in 0..Statements(file) /\ pc = "opening"
        BY <1>3, <2>1, TheTables DEF Open, FilesInv, StartInv, Files
      <3>3. files' \in [Files -> AnyFile] /\ files'[file] = Created(file, 0)
            /\ \A f \in Files \ {file} : files'[f] = files[f]
        BY <2>1, <3>1 DEF FilesInv, StartInv
      <3>4. StartInv'
        BY <2>1, <3>2, <3>3 DEF FilesInv, StartInv, Files
      <3>5. WholeInv'
        BY <1>3, <2>1, <3>2, <3>3 DEF Open, FilesInv, StartInv, WholeInv, Working
      <3> QED
        BY <2>1, <3>4, <3>5 DEF FilesInv, StorageMatchesAccounts
    <2>2. CASE Refused /\ UNCHANGED <<files, file, step>>
      BY <1>3, <2>2 DEF Open, Refused, InMemory, FilesInv, StartInv, WholeInv,
         StorageMatchesAccounts, Working, Files
    <2>3. CASE /\ Old(file) /\ file = "map" /\ pc' = "migrating"
               /\ UNCHANGED <<files, file, step, storage, accounts>>
      BY <1>3, <2>3 DEF Open, FilesInv, StartInv, WholeInv, StorageMatchesAccounts, Working, Files
    <2>4. CASE Current(file) /\ Opened /\ UNCHANGED files
      <3>1. pc = "opening" /\ UNCHANGED <<files, authNeeded, cutOff>>
        BY <1>3, <2>4 DEF Open
      <3>2. file \notin cutOff => AllTables(file) \subseteq files[file].tables
        BY <2>4, <3>1 DEF FilesInv, StartInv, WholeInv, Working
      <3> QED
        BY <2>4, <3>1, <3>2, OpenedKeeps
    <2> QED
      BY <1>3, <2>1, <2>2, <2>3, <2>4 DEF Open
  <1>4. CASE Create
    <2>1. step + 1 \in 0..Statements(file) /\ Created(file, step + 1) \in AnyFile
      BY <1>4, CreatedType, TheTables DEF Create, FilesInv, StartInv, Files
    <2>2. files' \in [Files -> AnyFile] /\ files'[file] = Created(file, step + 1)
          /\ \A f \in Files \ {file} : files'[f] = files[f]
      BY <1>4, <2>1 DEF Create, FilesInv, StartInv
    <2>3. StartInv'
      BY <1>4, <2>1, <2>2 DEF Create, FilesInv, StartInv, Files
    <2>4. WholeInv'
      BY <1>4, <2>2 DEF Create, FilesInv, StartInv, WholeInv, Working
    <2> QED
      BY <1>4, <2>3, <2>4 DEF Create, FilesInv, StorageMatchesAccounts
  <1>5. CASE Migrate
    <2>1. pc = "migrating" /\ file = "map" /\ step \in {0, 1} /\ Old("map") /\ "map" \in Files
      BY <1>5 DEF Migrate, FilesInv, StartInv, Files
    <2>2. CASE step = 0
      <3>1. files' = [files EXCEPT !["map"].tables = @ \cup {"player_kvstore"}]
        BY <1>5, <2>2 DEF Migrate
      <3>2. files' \in [Files -> AnyFile]
        <4>1. files["map"] \in AnyFile
          BY <2>1 DEF FilesInv, StartInv
        <4>2. files["map"].tables \cup {"player_kvstore"} \in SUBSET AnyTable
          BY <4>1, TheTables DEF AnyFile, AnyTable
        <4>3. [files["map"] EXCEPT !.tables = @ \cup {"player_kvstore"}] \in AnyFile
          <5>1. /\ files["map"].exists \in BOOLEAN /\ files["map"].app \in App
                /\ files["map"].version \in Nat
            BY <4>1 DEF AnyFile
          <5>2. [files["map"] EXCEPT !.tables = @ \cup {"player_kvstore"}] =
                [exists |-> files["map"].exists, app |-> files["map"].app,
                 version |-> files["map"].version,
                 tables |-> files["map"].tables \cup {"player_kvstore"}]
            BY <4>1 DEF AnyFile
          <5> QED
            BY <4>2, <5>1, <5>2, Zenon DEF AnyFile
        <4> QED
          BY <2>1, <3>1, <4>3 DEF FilesInv, StartInv
      <3>3. /\ files'["map"].tables = files["map"].tables \cup {"player_kvstore"}
            /\ files'["map"].version = files["map"].version
            /\ files'["map"].app = files["map"].app
            /\ files'["map"].exists = files["map"].exists
            /\ \A f \in Files \ {"map"} : files'[f] = files[f]
        BY <2>1, <3>1 DEF FilesInv, StartInv, AnyFile
      <3>4. StartInv'
        BY <1>5, <2>1, <2>2, <3>2, <3>3 DEF Migrate, FilesInv, StartInv, Files
      <3>5. WholeInv'
        BY <1>5, <2>1, <3>3 DEF Migrate, FilesInv, WholeInv, Working, Files
      <3> QED
        BY <1>5, <3>4, <3>5 DEF Migrate, FilesInv, StorageMatchesAccounts
    <2>3. CASE step = 1
      <3>1. files' = [files EXCEPT !["map"].version = Newest["map"]]
        BY <1>5, <2>3 DEF Migrate
      <3>2. files' \in [Files -> AnyFile]
        BY <2>1, <3>1, TheTables DEF FilesInv, StartInv, AnyFile
      <3>3. /\ files'["map"].tables = files["map"].tables
            /\ files'["map"].version = Newest["map"]
            /\ files'["map"].app = files["map"].app
            /\ files'["map"].exists = files["map"].exists
            /\ \A f \in Files \ {"map"} : files'[f] = files[f]
        BY <2>1, <3>1 DEF FilesInv, StartInv, AnyFile
      <3>4. StartInv'
        BY <1>5, <2>1, <2>3, <3>2, <3>3 DEF Migrate, FilesInv, StartInv, Files
      <3>5. WholeInv'
        <4>1. "map" \notin cutOff => AllTables("map") \subseteq files["map"].tables
          BY <2>1, <2>3, TheTables DEF FilesInv, StartInv, WholeInv, Working
        <4> QED
          BY <1>5, <2>1, <3>3, <4>1 DEF Migrate, FilesInv, WholeInv, Working, Files
      <3> QED
        BY <1>5, <3>4, <3>5 DEF Migrate, FilesInv, StorageMatchesAccounts
    <2> QED
      BY <2>1, <2>2, <2>3
  <1>6. CASE OpenedNew
    <2>1. pc \in {"creating", "migrating"} /\ Opened /\ UNCHANGED <<files, authNeeded, cutOff>>
      BY <1>6 DEF OpenedNew
    <2>2. Current(file) /\ (file \notin cutOff => AllTables(file) \subseteq files[file].tables)
      <3>1. CASE pc = "creating"
        <4>1. files[file] = Created(file, Statements(file)) /\ file \in Files
          BY <1>6, <3>1 DEF OpenedNew, FilesInv, StartInv
        <4> QED
          BY <4>1, CreatedWhole
      <3>2. CASE pc = "migrating"
        BY <1>6, <3>2 DEF OpenedNew, FilesInv, StartInv, WholeInv, Working
      <3> QED
        BY <2>1, <3>1, <3>2
    <2> QED
      BY <2>1, <2>2, OpenedKeeps
  <1>7. ASSUME NEW c \in Conns, NEW nick \in Nicks, LogIn(c, nick) PROVE FilesInv'
    BY <1>7 DEF LogIn, Panic, startVars, Serving, FilesInv, StartInv, WholeInv,
       StorageMatchesAccounts, Working
  <1>8. ASSUME NEW c \in Conns, NEW hash \in Hashes, SendHash(c, hash) PROVE FilesInv'
    BY <1>8 DEF SendHash, Panic, startVars, Serving, FilesInv, StartInv, WholeInv,
       StorageMatchesAccounts, Working
  <1>9. CASE InsertHash
    BY <1>9 DEF InsertHash, Panic, startVars, FilesInv, StartInv, WholeInv,
       StorageMatchesAccounts, Working
  <1>10. CASE Stop
    <2>1. StartInv' /\ StorageMatchesAccounts'
      BY <1>10 DEF Stop, startVars, FilesInv, StartInv, StorageMatchesAccounts
    <2>2. ASSUME NEW f \in Files, f \notin cutOff', Working(f)
          PROVE  Current(f) /\ AllTables(f) \subseteq files[f].tables
      <3>1. step = Statements(f) /\ files[f] = Created(f, Statements(f))
        <4>1. step \in 0..Statements(f) /\ files[f] = Created(f, step) /\ file = f
          BY <2>2 DEF Working, FilesInv, StartInv
        <4>2. Statements(f) \in Nat
          BY TheTables DEF Files
        <4>3. ~(step < Statements(f))
          BY <1>10, <2>2, <4>1 DEF Stop, Working
        <4> QED
          BY <4>1, <4>2, <4>3
      <3> QED
        BY <3>1, CreatedWhole
    <2>3. WholeInv'
      BY <1>10, <2>2, TheTables DEF Stop, startVars, FilesInv, StartInv, WholeInv, Working
    <2> QED
      BY <2>1, <2>3 DEF FilesInv
  <1> QED
    BY <1>1, <1>2, <1>3, <1>4, <1>5, <1>6, <1>7, <1>8, <1>9, <1>10 DEF DatabasesNext

LEMMA FilesAlways == DatabasesSpec => []FilesInv
  BY FilesInitially, FilesInductive, PTL DEF DatabasesSpec

\* A server runs on files that have every table it uses, in whatever state
\* the starts before it were cut off (init_db, expect_user_ver).
THEOREM FilesAreWhole == DatabasesSpec => []RunsOnWholeFiles
  <1>1. FilesInv => RunsOnWholeFiles
    BY DEF FilesInv, StartInv, WholeInv, RunsOnWholeFiles, Working, Files
  <1> QED
    BY <1>1, FilesAlways, PTL

\* World and accounts are kept or lost together (sqlite_backend_from_config).
THEOREM KeptTogether == DatabasesSpec => []StorageMatchesAccounts
  <1>1. FilesInv => StorageMatchesAccounts
    BY DEF FilesInv
  <1> QED
    BY <1>1, FilesAlways, PTL

\* No start writes to a foreign file (expect_user_ver).
THEOREM ForeignFilesStay == DatabasesSpec => ForeignFilesAreLeftAlone
  <1> DEFINE Alone == \A f \in Files : Foreign(f) /\ ~(pc = "creating" /\ file = f)
                         => files'[f] = files[f]
  <1>1. FilesInv /\ [DatabasesNext]_dbVars => [Alone]_dbVars
    <2> SUFFICES ASSUME FilesInv, DatabasesNext PROVE Alone
      OBVIOUS
    <2>1. CASE Open
      BY <2>1 DEF Open, Foreign, FilesInv, StartInv
    <2>2. CASE Create
      BY <2>2 DEF Create, FilesInv, StartInv
    <2>3. CASE Migrate
      <3>1. Old("map") /\ \A f \in Files \ {"map"} : files'[f] = files[f]
        BY <2>3 DEF Migrate, FilesInv, StartInv
      <3>2. ~Foreign("map")
        BY <3>1, TheTables DEF Old, Foreign, FilesInv, StartInv, AnyFile, Files
      <3> QED
        BY <3>1, <3>2
    <2>4. CASE UNCHANGED files
      BY <2>4
    <2> QED
      BY <2>1, <2>2, <2>3, <2>4 DEF DatabasesNext, Start, OpenedNew, LogIn, SendHash,
         InsertHash, Stop, Panic
  <1>2. DatabasesSpec => [][Alone]_dbVars
    BY <1>1, FilesAlways, PTL DEF DatabasesSpec
  <1> QED
    BY <1>2 DEF ForeignFilesAreLeftAlone

-----------------------------------------------------------------------------
Places == {"file", "memory"}

\* Only a server with accounts enrols, and a connection has seen no more names
\* than there are.
EnrolmentsKnowTheNames ==
    \A c \in Conns : enrolling[c] # None =>
       accounts # "none" /\ seen[c] <= Len(nicks[accounts])

\* Only a name that was just added is without a hash in this run, and it is
\* the id that InsertHash is about to give one.
AccountsInv ==
    /\ nicks \in [Places -> Seq(Nicks)]
    /\ DOMAIN hashes = Places
    /\ \A a \in Places : DOMAIN hashes[a] \subseteq DOMAIN nicks[a]
    /\ hashes = [a \in Places |-> hashes[a]]
    /\ accounts \in {"none"} \cup Places
    /\ enrolling \in [Conns -> Nicks \cup {None}]
    /\ adding # None =>
          /\ accounts # "none"
          /\ adding.id \in DOMAIN nicks[accounts]
          /\ adding.id \notin DOMAIN hashes[accounts]
    /\ seen \in [Conns -> Nat]
    /\ EnrolmentsKnowTheNames
    /\ EnrolmentsAreNew

LEMMA AccountsInitially == DatabasesInit => AccountsInv
  <1> SUFFICES ASSUME DatabasesInit PROVE AccountsInv
    OBVIOUS
  <1>1. /\ nicks = [file |-> << >>, memory |-> << >>]
        /\ hashes = [file |-> << >>, memory |-> << >>]
    BY DEF DatabasesInit
  <1>2. nicks["file"] = << >> /\ nicks["memory"] = << >>
        /\ hashes["file"] = << >> /\ hashes["memory"] = << >>
    BY <1>1
  <1>3. << >> \in Seq(Nicks) /\ DOMAIN << >> = {}
    OBVIOUS
  <1>4. nicks = [a \in Places |-> << >>] /\ hashes = [a \in Places |-> << >>]
    <2>1. [file |-> << >>, memory |-> << >>] = [a \in Places |-> << >>]
      BY DEF Places
    <2> QED
      BY <1>1, <2>1
  <1>5. nicks \in [Places -> Seq(Nicks)]
        /\ DOMAIN hashes = Places /\ hashes = [a \in Places |-> hashes[a]]
    BY <1>3, <1>4, Zenon
  <1>6. \A a \in Places : DOMAIN hashes[a] \subseteq DOMAIN nicks[a]
    BY <1>2, <1>3 DEF Places
  <1>7. EnrolmentsKnowTheNames /\ EnrolmentsAreNew
    BY DEF DatabasesInit, EnrolmentsKnowTheNames, EnrolmentsAreNew
  <1> QED
    BY <1>5, <1>6, <1>7 DEF DatabasesInit, AccountsInv

\* The steps of a start leave the tables alone.
LEMMA StartKeepsAccounts ==
    ASSUME AccountsInv, FilesInv, Start \/ Open \/ Create \/ Migrate \/ OpenedNew
    PROVE  AccountsInv' /\ UNCHANGED <<nicks, hashes>>
  <1>1. UNCHANGED <<nicks, hashes, enrolling, adding, seen>>
    BY DEF Start, Open, Create, Migrate, OpenedNew, accountVars
  <1>2. accounts = "none" /\ \A c \in Conns : enrolling[c] = None
    BY DEF Start, Open, Create, Migrate, OpenedNew, FilesInv, StartInv, AccountsInv,
       EnrolmentsKnowTheNames
  <1>3. accounts' \in {"none"} \cup Places
    BY <1>2 DEF Start, Open, Create, Migrate, OpenedNew, Opened, Refused, InMemory, Places
  <1> QED
    BY <1>1, <1>2, <1>3 DEF AccountsInv, EnrolmentsKnowTheNames, EnrolmentsAreNew

\* What a step of the running server does to the tables.
LEMMA ServingKeeps ==
    ASSUME AccountsInv, FilesInv, DatabasesNext
    PROVE  /\ AccountsInv'
           /\ \A id \in DOMAIN hashes["file"] :
                 /\ id \in DOMAIN hashes'["file"] /\ hashes'["file"][id] = hashes["file"][id]
                 /\ nicks'["file"][id] = nicks["file"][id]
  <1> DEFINE Kept == \A id \in DOMAIN hashes["file"] :
                 /\ id \in DOMAIN hashes'["file"] /\ hashes'["file"][id] = hashes["file"][id]
                 /\ nicks'["file"][id] = nicks["file"][id]
  <1>1. CASE Start \/ Open \/ Create \/ Migrate \/ OpenedNew
    BY <1>1, StartKeepsAccounts
  <1>2. ASSUME Panic PROVE AccountsInv' /\ Kept
    BY <1>2 DEF Panic, accountVars, AccountsInv, EnrolmentsKnowTheNames, EnrolmentsAreNew
  <1>3. ASSUME NEW c \in Conns, NEW nick \in Nicks, LogIn(c, nick) PROVE AccountsInv' /\ Kept
    <2>1. CASE /\ IdsOf(nick) = {} /\ accounts # "none"
               /\ enrolling' = [enrolling EXCEPT ![c] = nick]
               /\ seen' = [seen EXCEPT ![c] = Len(nicks[accounts])]
               /\ UNCHANGED <<nicks, hashes, adding, accounts>>
      <3>1. /\ accounts \in Places /\ nicks[accounts] \in Seq(Nicks)
            /\ Len(nicks[accounts]) \in Nat
        BY <2>1 DEF AccountsInv
      <3>2. /\ enrolling' \in [Conns -> Nicks \cup {None}] /\ seen' \in [Conns -> Nat]
            /\ enrolling'[c] = nick /\ seen'[c] = Len(nicks[accounts])
            /\ \A d \in Conns \ {c} : enrolling'[d] = enrolling[d] /\ seen'[d] = seen[d]
        BY <2>1, <3>1 DEF AccountsInv
      <3>3. EnrolmentsKnowTheNames'
        BY <2>1, <3>1, <3>2 DEF AccountsInv, EnrolmentsKnowTheNames
      <3>4. ASSUME NEW id \in DOMAIN nicks[accounts],
                   Lower[nicks[accounts][id]] = Lower[nick]
            PROVE  nicks[accounts][id] # Lower[nicks[accounts][id]]
        BY <2>1, <3>4 DEF IdsOf
      <3>5. EnrolmentsAreNew'
        BY <2>1, <3>2, <3>4 DEF AccountsInv, EnrolmentsAreNew
      <3> QED
        BY <2>1, <3>2, <3>3, <3>5 DEF AccountsInv
    <2>2. CASE /\ enrolling' = [enrolling EXCEPT ![c] = None]
               /\ UNCHANGED <<nicks, hashes, adding, accounts, seen>>
      <3>1. /\ enrolling' \in [Conns -> Nicks \cup {None}]
            /\ enrolling'[c] = None
            /\ \A d \in Conns \ {c} : enrolling'[d] = enrolling[d]
        BY <2>2 DEF AccountsInv
      <3>2. EnrolmentsKnowTheNames' /\ EnrolmentsAreNew'
        BY <2>2, <3>1 DEF AccountsInv, EnrolmentsKnowTheNames, EnrolmentsAreNew
      <3> QED
        BY <2>2, <3>1, <3>2 DEF AccountsInv
    <2> QED
      BY <1>2, <1>3, <2>1, <2>2 DEF LogIn, Serving
  <1>4. ASSUME NEW c \in Conns, NEW hash \in Hashes, SendHash(c, hash) PROVE AccountsInv' /\ Kept
    <2> DEFINE nick == enrolling[c]
               old == nicks[accounts]
    <2>1. CASE Taken(nick)
      BY <1>2, <1>4, <2>1 DEF SendHash
    <2>2. CASE ~Taken(nick)
      <3>1. /\ accounts \in Places /\ adding = None /\ nick \in Nicks
            /\ nicks' = [nicks EXCEPT ![accounts] = Append(@, nick)]
            /\ adding' = [id |-> Len(old) + 1, hash |-> hash]
            /\ enrolling' = [enrolling EXCEPT ![c] = None]
            /\ UNCHANGED <<hashes, accounts, seen>>
        BY <1>4, <2>2 DEF SendHash, Serving, AccountsInv
      <3>2. old \in Seq(Nicks) /\ nicks'[accounts] = Append(old, nick)
            /\ \A a \in Places \ {accounts} : nicks'[a] = nicks[a]
        BY <3>1 DEF AccountsInv
      <3>3. /\ Append(old, nick) \in Seq(Nicks) /\ Len(old) \in Nat
            /\ DOMAIN old = 1..Len(old) /\ DOMAIN Append(old, nick) = 1..(Len(old) + 1)
            /\ \A i \in 1..Len(old) : Append(old, nick)[i] = old[i]
            /\ Append(old, nick)[Len(old) + 1] = nick
        BY <3>1, <3>2
      <3>4. nicks' \in [Places -> Seq(Nicks)]
        BY <3>1, <3>2, <3>3 DEF AccountsInv
      <3>5. \A a \in Places : DOMAIN hashes'[a] \subseteq DOMAIN nicks'[a]
        BY <3>1, <3>2, <3>3 DEF AccountsInv
      <3>6. /\ adding'.id = Len(old) + 1
            /\ adding'.id \in DOMAIN nicks'[accounts]
            /\ adding'.id \notin DOMAIN hashes'[accounts]
        BY <3>1, <3>2, <3>3 DEF AccountsInv
      <3>7. EnrolmentsKnowTheNames' /\ EnrolmentsAreNew'
        <4>1. /\ enrolling' \in [Conns -> Nicks \cup {None}]
              /\ \A d \in Conns : enrolling'[d] # None =>
                    enrolling'[d] = enrolling[d] /\ seen[d] \in Nat /\ seen[d] <= Len(old)
          BY <3>1 DEF AccountsInv, EnrolmentsKnowTheNames
        <4>2. EnrolmentsKnowTheNames'
          <5>1. Len(Append(old, nick)) = Len(old) + 1 /\ accounts # "none"
            BY <3>1, <3>2 DEF Places
          <5> QED
            BY <3>1, <3>2, <3>3, <4>1, <5>1 DEF EnrolmentsKnowTheNames
        <4>3. ASSUME NEW d \in Conns, NEW id \in 1..(Len(old) + 1), enrolling'[d] # None,
                     Lower[Append(old, nick)[id]] = Lower[enrolling'[d]]
              PROVE  id > seen[d] \/ Append(old, nick)[id] # Lower[Append(old, nick)[id]]
          <5>1. CASE id = Len(old) + 1
            BY <3>3, <4>1, <4>3, <5>1
          <5>2. CASE id \in 1..Len(old)
            <6>1. accounts # "none" /\ enrolling[d] # None /\ id \in DOMAIN old
              BY <3>1, <3>3, <4>1, <4>3, <5>2 DEF Places
            <6>2. Append(old, nick)[id] = old[id] /\ Lower[old[id]] = Lower[enrolling[d]]
              BY <3>3, <4>1, <4>3, <5>2
            <6> QED
              BY <6>1, <6>2 DEF AccountsInv, EnrolmentsAreNew
          <5> QED
            BY <3>3, <5>1, <5>2
        <4>4. EnrolmentsAreNew'
          BY <3>1, <3>2, <3>3, <4>3 DEF EnrolmentsAreNew
        <4> QED
          BY <4>2, <4>4
      <3>8. Kept
        BY <3>1, <3>2, <3>3 DEF AccountsInv, Places
      <3> QED
        BY <3>1, <3>4, <3>5, <3>6, <3>7, <3>8 DEF AccountsInv, Places
    <2> QED
      BY <2>1, <2>2
  <1>5. CASE InsertHash
    <2>1. CASE /\ hashes' = [hashes EXCEPT ![accounts] =
                    [id \in DOMAIN @ \cup {adding.id} |->
                        IF id = adding.id THEN adding.hash ELSE @[id]]]
               /\ adding' = None
               /\ UNCHANGED <<accounts, nicks, enrolling, seen>>
      <3> DEFINE more == [id \in DOMAIN hashes[accounts] \cup {adding.id} |->
                             IF id = adding.id THEN adding.hash ELSE hashes[accounts][id]]
      <3>1. accounts \in Places /\ adding.id \in DOMAIN nicks[accounts]
            /\ adding.id \notin DOMAIN hashes[accounts]
        BY <1>5 DEF InsertHash, AccountsInv
      <3>2. hashes' = [hashes EXCEPT ![accounts] = more]
        BY <2>1
      <3>3. /\ DOMAIN hashes' = Places /\ hashes'[accounts] = more
            /\ \A a \in Places \ {accounts} : hashes'[a] = hashes[a]
            /\ hashes' = [a \in Places |-> hashes'[a]]
        BY <3>1, <3>2 DEF AccountsInv
      <3>4. /\ DOMAIN more = DOMAIN hashes[accounts] \cup {adding.id}
            /\ \A id \in DOMAIN hashes[accounts] : more[id] = hashes[accounts][id]
        BY <3>1
      <3> HIDE DEF more
      <3>5. AccountsInv'
        BY <2>1, <3>1, <3>3, <3>4 DEF AccountsInv, EnrolmentsKnowTheNames, EnrolmentsAreNew
      <3>6. Kept
        BY <2>1, <3>1, <3>3, <3>4 DEF AccountsInv, Places
      <3> QED
        BY <3>5, <3>6
    <2> QED
      BY <1>2, <1>5, <2>1 DEF InsertHash
  <1>6. CASE Stop
    <2>0. << >> \in Seq(Nicks) /\ nicks' = [nicks EXCEPT !["memory"] = << >>]
          /\ hashes' = [hashes EXCEPT !["memory"] = << >>]
      BY <1>6 DEF Stop
    <2>1. /\ nicks'["file"] = nicks["file"] /\ nicks'["memory"] = << >>
          /\ hashes'["file"] = hashes["file"] /\ hashes'["memory"] = << >>
          /\ nicks' \in [Places -> Seq(Nicks)]
          /\ DOMAIN hashes' = Places /\ hashes' = [a \in Places |-> hashes'[a]]
      BY <2>0 DEF AccountsInv, Places
    <2>2. /\ accounts' = "none" /\ adding' = None /\ seen' \in [Conns -> Nat]
          /\ enrolling' \in [Conns -> Nicks \cup {None}]
          /\ \A c \in Conns : enrolling'[c] = None
      BY <1>6 DEF Stop
    <2> QED
      BY <2>1, <2>2 DEF AccountsInv, EnrolmentsKnowTheNames, EnrolmentsAreNew, Places
  <1> QED
    BY <1>1, <1>3, <1>4, <1>5, <1>6 DEF DatabasesNext

LEMMA AccountsAlways == DatabasesSpec => []AccountsInv
  <1>1. AccountsInv /\ FilesInv /\ [DatabasesNext]_dbVars => AccountsInv'
    <2>1. ASSUME AccountsInv, UNCHANGED dbVars PROVE AccountsInv'
      BY <2>1 DEF dbVars, AccountsInv, EnrolmentsKnowTheNames, EnrolmentsAreNew
    <2> QED
      BY <2>1, ServingKeeps
  <1> QED
    BY <1>1, AccountsInitially, FilesAlways, PTL DEF DatabasesSpec

\* At the INSERT of an enrolment its nick is as new as it was at the log in,
\* but for what others have registered since and for names in mixed case
\* (get_player_id, add_player).
THEOREM EnrolmentsStayNew == DatabasesSpec => []EnrolmentsAreNew
  <1>1. AccountsInv => EnrolmentsAreNew
    BY DEF AccountsInv
  <1> QED
    BY <1>1, AccountsAlways, PTL

\* An account that was added keeps its nick and its hash (add_player).
THEOREM AccountsStay == DatabasesSpec => AccountsAreKept
  <1> DEFINE Kept == \A id \in DOMAIN hashes["file"] :
                 /\ id \in DOMAIN hashes'["file"] /\ hashes'["file"][id] = hashes["file"][id]
                 /\ nicks'["file"][id] = nicks["file"][id]
  <1>1. AccountsInv /\ FilesInv /\ [DatabasesNext]_dbVars => [Kept]_dbVars
    BY ServingKeeps
  <1>2. DatabasesSpec => [][Kept]_dbVars
    BY <1>1, AccountsAlways, FilesAlways, PTL DEF DatabasesSpec
  <1> QED
    BY <1>2 DEF AccountsAreKept

-----------------------------------------------------------------------------
(* WorldFile *)

SeedRows == [meta : Seeds] \cup {NoValue}

\* The tables are a function on the rows, with a seed in the row for it.
IsTable(t) ==
    /\ t = [k \in Backend!Keys |-> t[k]]
    /\ t[MetaRow] \in SeedRows

SealedAs(t, value) == t[MetaRow] # NoValue /\ t[MetaRow].meta = value.seed

Sealed(t) == \A pos \in Chunks : t[pos] # NoValue => SealedAs(t, t[pos])

\* A pending write is the seed into a database that has none, the names, or a
\* chunk of the stored seed.
PendingMeta ==
    /\ phase = "names"
    /\ writing.key = MetaRow
    /\ writing.value = [meta |-> seed]
    /\ table[MetaRow] = NoValue

PendingNames == phase = "running" /\ writing.key = NamesRow

PendingChunk ==
    /\ phase = "running"
    /\ writing.key \in Chunks
    /\ SealedAs(table, writing.value)

Pending == idle \/ PendingMeta \/ PendingNames \/ PendingChunk

\* From the phase on in which the names are loaded, the seed in memory is the
\* stored one.
SeedIsStored ==
    (phase \in {"save", "running"} \/ (phase = "names" /\ idle))
       => table[MetaRow] # NoValue /\ table[MetaRow].meta = seed

OneSeedInv ==
    /\ seed \in Seeds
    /\ IsTable(disk) /\ IsTable(table)
    /\ Sealed(disk) /\ Sealed(table)
    /\ Pending
    /\ SeedIsStored

-----------------------------------------------------------------------------
\* The keys: a row is a chunk, the seed or the names, and never two of them.
LEMMA KeysOfWorld ==
    /\ Backend!Keys = Chunks \cup {MetaRow, NamesRow}
    /\ MetaRow \notin Chunks /\ NamesRow \notin Chunks /\ MetaRow # NamesRow
<1>1. MetaRow # NamesRow
  BY DEF MetaRow, NamesRow
<1>2. MetaRow \notin Chunks /\ NamesRow \notin Chunks
  BY RowsAssumption DEF RowsAssumption
<1>3. Backend!Keys = Chunks \cup {MetaRow, NamesRow}
  BY DEF Backend!Keys
<1> QED
  BY <1>1, <1>2, <1>3

\* A write of the backend touches the disk only to commit what is in the table.
LEMMA BeginWriteKeeps ==
    ASSUME NEW k, NEW v, Backend!BeginWrite(k, v), OneSeedInv
    PROVE  /\ IsTable(disk') /\ Sealed(disk')
           /\ IsTable(table') /\ Sealed(table')
           /\ table' = table
           /\ idle
           /\ writing'.key = k /\ writing'.value = v
<1>1. /\ idle /\ table' = table
      /\ disk' = disk \/ disk' = table
      /\ writing' = [key |-> k, value |-> v]
  BY DEF idle, Backend!BeginWrite, Backend!MaybeBeginCommit, Backend!CommitOpen
<1>2. writing'.key = k /\ writing'.value = v
  BY <1>1
<1>3. IsTable(disk') /\ Sealed(disk')
  <2>1. CASE disk' = disk
    BY <2>1 DEF OneSeedInv
  <2>2. CASE disk' = table
    BY <2>2 DEF OneSeedInv
  <2> QED
    BY <1>1, <2>1, <2>2
<1>4. IsTable(table') /\ Sealed(table')
  BY <1>1 DEF OneSeedInv
<1> QED
  BY <1>1, <1>2, <1>3, <1>4

LEMMA InitSealed == WorldInit => OneSeedInv
<1> SUFFICES ASSUME WorldInit PROVE OneSeedInv
  OBVIOUS
<1>1. /\ disk = [k \in Backend!Keys |-> NoValue] /\ table = disk
      /\ writing = Backend!NoWrite
      /\ phase = "stopped" /\ seed \in Seeds
  BY DEF WorldInit, Backend!BackendInit
<1>2. IsTable(disk) /\ Sealed(disk)
  BY <1>1, KeysOfWorld DEF IsTable, SeedRows, Sealed
<1>3. Pending /\ SeedIsStored
  BY <1>1 DEF Pending, idle, SeedIsStored
<1> QED
  BY <1>1, <1>2, <1>3 DEF OneSeedInv

\* The configuration is read: the seed in memory may be any, the tables stay.
LEMMA OpenDatabaseKeeps ==
    ASSUME OneSeedInv, OpenDatabase
    PROVE  OneSeedInv'
<1>1. phase = "stopped" /\ phase' = "meta" /\ seed' \in Seeds
  BY DEF OpenDatabase
<1>2. UNCHANGED <<disk, table, writing>>
  BY DEF OpenDatabase, backendVars
<1>3. idle'
  BY <1>1, <1>2 DEF OneSeedInv, Pending, PendingMeta, PendingNames, PendingChunk, idle,
     Backend!NoWrite
<1> QED
  BY <1>1, <1>2, <1>3
  DEF OneSeedInv, Pending, SeedIsStored, IsTable, Sealed, SealedAs

LEMMA ManageMapgenMetaKeeps ==
    ASSUME OneSeedInv, ManageMapgenMeta
    PROVE  OneSeedInv'
<1>1. phase = "meta" /\ phase' = "names"
  BY DEF ManageMapgenMeta
<1>2. CASE table[MetaRow] # NoValue
  <2>1. seed' = table[MetaRow].meta /\ UNCHANGED <<disk, table, writing>>
    BY <1>2 DEF ManageMapgenMeta, Backend!Get, backendVars
  <2>2. idle'
    BY <1>1, <2>1 DEF OneSeedInv, Pending, PendingMeta, PendingNames, PendingChunk, idle,
       Backend!NoWrite
  <2>3. seed' \in Seeds
    BY <1>2, <2>1 DEF OneSeedInv, IsTable, SeedRows
  <2> QED
    BY <1>1, <1>2, <2>1, <2>2, <2>3
    DEF OneSeedInv, Pending, SeedIsStored, IsTable, Sealed, SealedAs
<1>3. CASE table[MetaRow] = NoValue
  <2>1. Backend!BeginWrite(MetaRow, [meta |-> seed]) /\ seed' = seed
    BY <1>3 DEF ManageMapgenMeta, Backend!Get, Backend!SetGlobalKv
  <2>2. /\ IsTable(disk') /\ Sealed(disk') /\ IsTable(table') /\ Sealed(table')
        /\ table' = table
        /\ writing'.key = MetaRow /\ writing'.value = [meta |-> seed]
    BY <2>1, BeginWriteKeeps
  <2>3. PendingMeta'
    BY <1>1, <1>3, <2>1, <2>2 DEF PendingMeta
  <2>4. ~idle'
    <3>1. Backend!NoWrite.value = NoValue
      BY DEF Backend!NoWrite
    <3>2. [meta |-> seed] # NoValue
      BY RowsAssumption DEF RowsAssumption, OneSeedInv
    <3> QED
      BY <2>2, <3>1, <3>2 DEF idle, Backend!NoWrite
  <2>5. SeedIsStored'
    BY <1>1, <2>4 DEF SeedIsStored
  <2> QED
    BY <2>1, <2>2, <2>3, <2>5 DEF OneSeedInv, Pending, IsTable, Sealed
<1> QED
  BY <1>2, <1>3

\* The names are loaded once the seed is written.
LEMMA LoadNamesKeeps ==
    ASSUME OneSeedInv, LoadNames
    PROVE  OneSeedInv'
<1>1. phase = "names" /\ idle /\ UNCHANGED <<disk, table, writing, seed>>
  BY DEF LoadNames, backendVars
<1>2. table[MetaRow] # NoValue /\ table[MetaRow].meta = seed
  BY <1>1 DEF OneSeedInv, SeedIsStored
<1>3. idle'
  BY <1>1 DEF idle, Backend!NoWrite
<1> QED
  BY <1>1, <1>2, <1>3
  DEF OneSeedInv, Pending, SeedIsStored, IsTable, Sealed, SealedAs

LEMMA SaveNamesKeeps ==
    ASSUME OneSeedInv, SaveNames
    PROVE  OneSeedInv'
<1>1. /\ phase = "save" /\ phase' = "running" /\ seed' = seed
      /\ Backend!BeginWrite(NamesRow, [list |-> names])
  BY DEF SaveNames, Backend!SetGlobalKv
<1>2. /\ IsTable(disk') /\ Sealed(disk') /\ IsTable(table') /\ Sealed(table')
      /\ table' = table /\ writing'.key = NamesRow
  BY <1>1, BeginWriteKeeps
<1>3. PendingNames'
  BY <1>1, <1>2 DEF PendingNames
<1>4. SeedIsStored'
  BY <1>1, <1>2 DEF OneSeedInv, SeedIsStored
<1> QED
  BY <1>1, <1>2, <1>3, <1>4 DEF OneSeedInv, Pending, IsTable, Sealed

\* A chunk that is stored has the seed of its earlier state or the one in
\* memory: the stored seed in both cases.
LEMMA StoreChunkKeeps ==
    ASSUME OneSeedInv, NEW pos \in Chunks, StoreChunk(pos)
    PROVE  OneSeedInv'
<1> DEFINE s == IF table[pos] = NoValue THEN seed ELSE table[pos].seed
<1>1. phase = "running" /\ phase' = "running" /\ seed' = seed
  BY DEF StoreChunk
<1>2. PICK id \in 1..Len(names) :
         Backend!BeginWrite(pos, [seed |-> s, id |-> id, name |-> names[id]])
  BY DEF StoreChunk, Backend!StoreChunk, Backend!Get
<1>3. /\ IsTable(disk') /\ Sealed(disk') /\ IsTable(table') /\ Sealed(table')
      /\ table' = table /\ writing'.key = pos
      /\ writing'.value = [seed |-> s, id |-> id, name |-> names[id]]
  BY <1>2, BeginWriteKeeps
<1>4. table[MetaRow] # NoValue /\ table[MetaRow].meta = seed
  BY <1>1 DEF OneSeedInv, SeedIsStored
<1>5. table[MetaRow].meta = s
  BY <1>4 DEF OneSeedInv, Sealed, SealedAs
<1>6. writing'.value.seed = s
  BY <1>3
<1>7. PendingChunk'
  BY <1>1, <1>3, <1>4, <1>5, <1>6 DEF PendingChunk, SealedAs
<1>8. SeedIsStored'
  BY <1>1, <1>3, <1>4 DEF SeedIsStored
<1> QED
  BY <1>1, <1>3, <1>7, <1>8 DEF OneSeedInv, Pending, IsTable, Sealed

LEMMA InsertKeeps ==
    ASSUME OneSeedInv, Insert
    PROVE  OneSeedInv'
<1>1. /\ ~idle /\ idle'
      /\ table' = [table EXCEPT ![writing.key] = writing.value]
      /\ disk' = disk /\ phase' = phase /\ seed' = seed
  BY DEF Insert, Backend!Insert, idle, Backend!NoWrite
<1>2. table = [k \in Backend!Keys |-> table[k]]
  BY DEF OneSeedInv, IsTable
<1>3. table' = [k \in Backend!Keys |->
                  IF k = writing.key THEN writing.value ELSE table[k]]
  BY <1>1, <1>2
<1>4. table' = [k \in Backend!Keys |-> table'[k]]
  BY <1>3
<1>5. /\ table'[MetaRow] = IF MetaRow = writing.key THEN writing.value ELSE table[MetaRow]
      /\ \A p \in Chunks :
            table'[p] = IF p = writing.key THEN writing.value ELSE table[p]
  BY <1>3, KeysOfWorld
<1>6. IsTable(table') /\ Sealed(table') /\ SeedIsStored'
  <2>1. CASE PendingMeta
    <3>1. \A p \in Chunks : table[p] = NoValue
      BY <2>1 DEF PendingMeta, OneSeedInv, Sealed, SealedAs
    <3>2. \A p \in Chunks : table'[p] = NoValue
      BY <1>5, <2>1, <3>1, KeysOfWorld DEF PendingMeta
    <3>3. table'[MetaRow] = [meta |-> seed]
      BY <1>5, <2>1 DEF PendingMeta
    <3>4. [meta |-> seed] \in [meta : Seeds] /\ [meta |-> seed] # NoValue
      BY RowsAssumption DEF RowsAssumption, OneSeedInv
    <3>5. table'[MetaRow].meta = seed /\ table'[MetaRow] # NoValue
      BY <3>3, <3>4
    <3> QED
      BY <1>1, <1>4, <3>2, <3>3, <3>4, <3>5 DEF IsTable, SeedRows, Sealed, SeedIsStored
  <2>2. CASE PendingNames
    <3>1. table'[MetaRow] = table[MetaRow] /\ \A p \in Chunks : table'[p] = table[p]
      BY <1>5, <2>2, KeysOfWorld DEF PendingNames
    <3> QED
      BY <1>1, <1>4, <2>2, <3>1
      DEF PendingNames, OneSeedInv, IsTable, Sealed, SealedAs, SeedIsStored
  <2>3. CASE PendingChunk
    <3>1. table'[MetaRow] = table[MetaRow]
      BY <1>5, <2>3, KeysOfWorld DEF PendingChunk
    <3>2. Sealed(table')
      BY <1>5, <2>3, <3>1 DEF PendingChunk, OneSeedInv, Sealed, SealedAs
    <3>3. SeedIsStored'
      BY <1>1, <2>3, <3>1 DEF PendingChunk, OneSeedInv, SeedIsStored
    <3> QED
      BY <1>4, <3>1, <3>2, <3>3 DEF OneSeedInv, IsTable
  <2> QED
    BY <1>1, <2>1, <2>2, <2>3 DEF OneSeedInv, Pending
<1> QED
  BY <1>1, <1>6 DEF OneSeedInv, Pending, IsTable, Sealed

\* The tick commits the table as it is.
LEMMA TickKeeps ==
    ASSUME OneSeedInv, Tick
    PROVE  OneSeedInv'
<1>1. disk' = table /\ UNCHANGED <<table, writing, phase, seed>>
  BY DEF Tick, Backend!Tick, Backend!CommitOpen
<1> QED
  BY <1>1 DEF OneSeedInv, Pending, PendingMeta, PendingNames, PendingChunk, idle,
     Backend!NoWrite, SeedIsStored, IsTable, Sealed, SealedAs

\* A crash leaves the disk, and no write.
LEMMA CrashKeeps ==
    ASSUME OneSeedInv, Crash
    PROVE  OneSeedInv'
<1>1. /\ table' = disk /\ disk' = disk /\ seed' = seed /\ phase' = "stopped"
      /\ idle'
  BY DEF Crash, Backend!Crash, idle, Backend!NoWrite
<1> QED
  BY <1>1 DEF OneSeedInv, Pending, SeedIsStored, IsTable, Sealed, SealedAs

LEMMA NextKeeps == OneSeedInv /\ [WorldNext]_worldVars => OneSeedInv'
<1> SUFFICES ASSUME OneSeedInv, [WorldNext]_worldVars PROVE OneSeedInv'
  OBVIOUS
<1>1. CASE OpenDatabase
  BY <1>1, OpenDatabaseKeeps
<1>2. CASE ManageMapgenMeta
  BY <1>2, ManageMapgenMetaKeeps
<1>3. CASE LoadNames
  BY <1>3, LoadNamesKeeps
<1>4. CASE SaveNames
  BY <1>4, SaveNamesKeeps
<1>5. CASE \E pos \in Chunks : StoreChunk(pos)
  BY <1>5, StoreChunkKeeps
<1>6. CASE Insert
  BY <1>6, InsertKeeps
<1>7. CASE Tick
  BY <1>7, TickKeeps
<1>8. CASE Crash
  BY <1>8, CrashKeeps
<1>9. CASE UNCHANGED worldVars
  BY <1>9 DEF worldVars, OneSeedInv, Pending, PendingMeta, PendingNames, PendingChunk,
     idle, Backend!NoWrite, SeedIsStored, IsTable, Sealed, SealedAs
<1> QED
  BY <1>1, <1>2, <1>3, <1>4, <1>5, <1>6, <1>7, <1>8, <1>9 DEF WorldNext

LEMMA SealedIsOneSeed == OneSeedInv => OneSeed
<1> SUFFICES ASSUME OneSeedInv PROVE OneSeed
  OBVIOUS
<1>1. ASSUME phase = "running", NEW c \in StoredChunks(table)
      PROVE  c.seed = seed
  BY <1>1 DEF StoredChunks, OneSeedInv, Sealed, SealedAs, SeedIsStored
<1>2. ASSUME NEW c \in StoredChunks(disk)
      PROVE  disk[MetaRow] # NoValue /\ disk[MetaRow].meta = c.seed
  BY <1>2 DEF StoredChunks, OneSeedInv, Sealed, SealedAs
<1> QED
  BY <1>1, <1>2 DEF OneSeed

\* All chunks of a world are of the seed the server runs with, whatever the
\* configuration says at each start and wherever the process dies
\* (manage_mapgen_meta_toml, store_chunk, maybe_begin_commit).
THEOREM WorldHasOneSeed == WorldSpec => []OneSeed
<1>1. WorldInit => OneSeedInv
  BY InitSealed
<1>2. OneSeedInv /\ [WorldNext]_worldVars => OneSeedInv'
  BY NextKeeps
<1>3. OneSeedInv => OneSeed
  BY SealedIsOneSeed
<1> QED
  BY <1>1, <1>2, <1>3, PTL DEF WorldSpec

-----------------------------------------------------------------------------
(* New names *)

\* There is a smallest number in a set of naturals.
LEMMA Smallest ==
    ASSUME NEW T, T \subseteq Nat, T # {}
    PROVE  \E m \in T : \A y \in T : m <= y
<1>1. PICK m \in T : \A y \in T : ~(<<y, m>> \in OpToRel(<, Nat))
  BY NatLessThanWellFounded, WFMin
<1>2. ASSUME NEW y \in T PROVE m <= y
  <2>1. m \in Nat /\ y \in Nat
    OBVIOUS
  <2>2. ~(y < m)
    BY <1>1, <2>1 DEF OpToRel
  <2> QED
    BY <2>1, <2>2
<1> QED
  BY <1>2

LEMMA PositionsFinite ==
    ASSUME NEW n \in Nat, NEW S \in SUBSET (1..n)
    PROVE  /\ IsFiniteSet(S) /\ Cardinality(S) \in Nat
           /\ \A j \in S : j \in Nat /\ j \in 1..n
<1>1. IsFiniteSet(1..n)
  BY FS_Interval
<1>2. IsFiniteSet(S)
  BY <1>1, FS_Subset
<1>3. Cardinality(S) \in Nat
  BY <1>2, FS_CardinalityType
<1> QED
  BY <1>2, <1>3

UpTo(S, m) == {j \in S : j <= m}

LEMMA UpToCounts ==
    ASSUME NEW n \in Nat, NEW S \in SUBSET (1..n), NEW m \in Nat
    PROVE  /\ Cardinality(UpTo(S, m)) \in Nat
           /\ Cardinality(UpTo(S, m + 1)) =
                 IF m + 1 \in S THEN Cardinality(UpTo(S, m)) + 1 ELSE Cardinality(UpTo(S, m))
<1>1. IsFiniteSet(S) /\ \A j \in S : j \in Nat
  BY PositionsFinite
<1>2. UpTo(S, m) \in SUBSET S
  BY DEF UpTo
<1>3. IsFiniteSet(UpTo(S, m)) /\ Cardinality(UpTo(S, m)) \in Nat
  BY <1>1, <1>2, FS_Subset, FS_CardinalityType
<1>4. \A j \in S : j <= m + 1 <=> j <= m \/ j = m + 1
  BY <1>1
<1>5. CASE m + 1 \in S
  <2>1. UpTo(S, m + 1) = UpTo(S, m) \cup {m + 1} /\ m + 1 \notin UpTo(S, m)
    <3>1. ~(m + 1 <= m)
      OBVIOUS
    <3> QED
      BY <1>5, <1>4, <3>1 DEF UpTo
  <2> QED
    BY <1>3, <1>5, <2>1, FS_AddElement
<1>6. CASE m + 1 \notin S
  <2>1. UpTo(S, m + 1) = UpTo(S, m)
    BY <1>1, <1>6, <1>4 DEF UpTo
  <2> QED
    BY <1>3, <1>6, <2>1
<1> QED
  BY <1>3, <1>5, <1>6

\* A set of n positions has a k-th one, for each k up to n: the smallest number
\* up to which there are k of them.
LEMMA KthExists ==
    ASSUME NEW n \in Nat, NEW S \in SUBSET (1..n), NEW k \in 1..Cardinality(S)
    PROVE  Kth(S, k) \in S
<1> DEFINE T == {m \in Nat : Cardinality(UpTo(S, m)) >= k}
<1>1. IsFiniteSet(S) /\ Cardinality(S) \in Nat /\ \A j \in S : j \in 1..n
  BY PositionsFinite
<1>2. n \in T
  <2>1. UpTo(S, n) = S
    <3>1. \A j \in S : j <= n
      BY <1>1
    <3> QED
      BY <3>1 DEF UpTo
  <2> QED
    BY <1>1, <2>1
<1>3. PICK m \in T : \A y \in T : m <= y
  <2>1. T \subseteq Nat /\ T # {}
    BY <1>2
  <2> HIDE DEF T
  <2> QED
    BY <2>1, Smallest
<1>4. m \in Nat /\ Cardinality(UpTo(S, m)) >= k
  BY <1>3
<1>5. m # 0
  <2>1. UpTo(S, 0) = {}
    <3>1. \A j \in S : ~(j <= 0)
      BY <1>1
    <3> QED
      BY <3>1 DEF UpTo
  <2>2. Cardinality(UpTo(S, 0)) = 0
    BY <2>1, FS_EmptySet
  <2> QED
    BY <1>1, <1>4, <2>2
<1>6. m - 1 \in Nat /\ (m - 1) + 1 = m /\ m - 1 \notin T
  <2>1. m - 1 \in Nat /\ (m - 1) + 1 = m /\ ~(m <= m - 1)
    BY <1>4, <1>5
  <2> HIDE DEF T
  <2> QED
    BY <1>3, <2>1
<1>7. /\ Cardinality(UpTo(S, m - 1)) \in Nat
      /\ Cardinality(UpTo(S, m)) =
            IF m \in S THEN Cardinality(UpTo(S, m - 1)) + 1 ELSE Cardinality(UpTo(S, m - 1))
  <2> DEFINE l == m - 1
  <2>1. l \in Nat /\ l + 1 = m
    BY <1>6
  <2> HIDE DEF l
  <2>2. /\ Cardinality(UpTo(S, l)) \in Nat
        /\ Cardinality(UpTo(S, l + 1)) =
              IF l + 1 \in S THEN Cardinality(UpTo(S, l)) + 1 ELSE Cardinality(UpTo(S, l))
    BY <2>1, UpToCounts
  <2> QED
    BY <2>1, <2>2 DEF l
<1>8. Cardinality(UpTo(S, m - 1)) < k
  BY <1>1, <1>6, <1>7
<1>9. m \in S /\ Cardinality({j \in S : j <= m}) = k
  BY <1>1, <1>4, <1>7, <1>8 DEF UpTo
<1> QED
  BY <1>9 DEF Kth

IsPrefixOf(s, t) ==
    Len(s) <= Len(t) /\ \A i \in 1..Len(s) : t[i] = s[i]

LEMMA ExtendKeepsIds ==
    ASSUME NEW nm \in Seq(Names), NEW listed \in Seq(Names)
    PROVE  Extend(nm, listed) \in Seq(Names) /\ IsPrefixOf(nm, Extend(nm, listed))
<1> DEFINE new == {i \in DOMAIN listed : /\ ~Known(nm, listed[i])
                                         /\ \A j \in 1..(i - 1) : listed[j] # listed[i]}
           n == Cardinality(new)
           s == [k \in 1..n |-> listed[Kth(new, k)]]
<1>1. Len(listed) \in Nat /\ new \in SUBSET (1..Len(listed))
  OBVIOUS
<1> HIDE DEF new
<1>2. n \in Nat
  BY <1>1, PositionsFinite
<1>3. ASSUME NEW k \in 1..n PROVE listed[Kth(new, k)] \in Names
  <2>1. Kth(new, k) \in new
    BY <1>1, KthExists DEF n
  <2>2. Kth(new, k) \in 1..Len(listed)
    BY <1>1, <2>1
  <2> QED
    BY <2>2
<1> HIDE DEF n
<1>4. s \in Seq(Names)
  BY <1>2, <1>3
<1>5. Extend(nm, listed) = nm \o s
  BY DEF Extend, NewNames, n, new
<1> HIDE DEF s
<1>6. /\ nm \o s \in Seq(Names) /\ Len(nm \o s) = Len(nm) + Len(s)
      /\ \A i \in 1..Len(nm) + Len(s) : (nm \o s)[i] = IF i <= Len(nm) THEN nm[i] ELSE s[i - Len(nm)]
  BY <1>4, ConcatProperties
<1>7. Len(nm) \in Nat /\ Len(s) \in Nat
  BY <1>4
<1> QED
  BY <1>5, <1>6, <1>7 DEF IsPrefixOf

-----------------------------------------------------------------------------
(* What the ids of the chunks stand for.  Named is, for the names, what     *)
(* Sealed is for the seed.                                                  *)

ListRows == [list : Seq(Names)] \cup {NoValue}

NamedBy(t, value) ==
    /\ t[NamesRow] # NoValue
    /\ value.id \in 1..Len(t[NamesRow].list)
    /\ t[NamesRow].list[value.id] = value.name

Named(t) ==
    /\ t[NamesRow] \in ListRows
    /\ \A pos \in Chunks : t[pos] # NoValue => NamedBy(t, t[pos])

\* The names in memory go on where the stored ones end.
NamesExtend == table[NamesRow] # NoValue => IsPrefixOf(table[NamesRow].list, names)

SavingNames == phase = "running" /\ ~idle /\ writing.key = NamesRow

NamesInv ==
    /\ OneSeedInv
    /\ names \in Seq(Names)
    /\ Named(disk) /\ Named(table)
    /\ phase = "save" => NamesExtend
    /\ SavingNames => NamesExtend /\ writing.value = [list |-> names]
    /\ phase = "running" /\ ~SavingNames => table[NamesRow] = [list |-> names]
    /\ phase = "running" /\ ~idle /\ writing.key \in Chunks
          => NamedBy(table, writing.value)

LEMMA BeginWriteNamed ==
    ASSUME NEW k, NEW v, Backend!BeginWrite(k, v), NamesInv
    PROVE  Named(disk') /\ Named(table') /\ table' = table /\ idle
<1>1. idle /\ table' = table /\ (disk' = disk \/ disk' = table)
  BY DEF idle, Backend!BeginWrite, Backend!MaybeBeginCommit, Backend!CommitOpen
<1>2. CASE disk' = disk
  BY <1>1, <1>2 DEF NamesInv, Named
<1>3. CASE disk' = table
  BY <1>1, <1>3 DEF NamesInv, Named
<1> QED
  BY <1>1, <1>2, <1>3

\* Lists that go on keep what an id stands for.
LEMMA ExtensionNames ==
    ASSUME NEW s \in Seq(Names), NEW t \in Seq(Names), IsPrefixOf(s, t),
           NEW id \in 1..Len(s)
    PROVE  id \in 1..Len(t) /\ t[id] = s[id]
<1>1. Len(s) \in Nat /\ Len(t) \in Nat /\ Len(s) <= Len(t)
  BY DEF IsPrefixOf
<1> QED
  BY <1>1 DEF IsPrefixOf

LEMMA InitNamed == WorldInit => NamesInv
<1> SUFFICES ASSUME WorldInit PROVE NamesInv
  OBVIOUS
<1>1. /\ disk = [k \in Backend!Keys |-> NoValue] /\ table = disk
      /\ phase = "stopped" /\ names = << >>
  BY DEF WorldInit, Backend!BackendInit
<1>2. Named(disk)
  BY <1>1, KeysOfWorld DEF Named, ListRows
<1>3. OneSeedInv
  BY InitSealed
<1> QED
  BY <1>1, <1>2, <1>3 DEF NamesInv, SavingNames

\* The steps before the names are loaded.
LEMMA SeedStepsNamed ==
    ASSUME NamesInv, OpenDatabase \/ ManageMapgenMeta
    PROVE  NamesInv'
<1>1. OneSeedInv'
  BY OpenDatabaseKeeps, ManageMapgenMetaKeeps DEF NamesInv
<1>2. phase' \in {"meta", "names"} /\ names' = names
  BY DEF OpenDatabase, ManageMapgenMeta
<1>3. CASE UNCHANGED <<disk, table>>
  BY <1>1, <1>2, <1>3 DEF NamesInv, Named, NamedBy, SavingNames
<1>4. CASE ~UNCHANGED <<disk, table>>
  <2>1. Backend!BeginWrite(MetaRow, [meta |-> seed])
    BY <1>4 DEF OpenDatabase, ManageMapgenMeta, backendVars, Backend!SetGlobalKv
  <2>2. Named(disk') /\ Named(table')
    BY <2>1, BeginWriteNamed
  <2> QED
    BY <1>1, <1>2, <2>2 DEF NamesInv, Named, NamedBy, SavingNames
<1> QED
  BY <1>3, <1>4

LEMMA LoadNamesNamed ==
    ASSUME NamesInv, LoadNames
    PROVE  NamesInv'
<1> DEFINE known == IF table[NamesRow] = NoValue THEN Builtin ELSE table[NamesRow].list
<1>1. OneSeedInv'
  BY LoadNamesKeeps DEF NamesInv
<1>2. UNCHANGED <<disk, table, writing>> /\ phase' # "running"
  BY DEF LoadNames, backendVars
<1>3. known \in Seq(Names)
  BY WorldAssumption DEF WorldAssumption, NamesInv, Named, ListRows
<1>4. \/ phase' # "save" /\ names' = names
      \/ \E listed \in ParamFiles : names' = Extend(known, listed)
  BY DEF LoadNames, Backend!Get
<1> HIDE DEF known
<1>5. CASE phase' # "save" /\ names' = names
  BY <1>1, <1>2, <1>5 DEF NamesInv, Named, NamedBy, SavingNames
<1>6. CASE \E listed \in ParamFiles : names' = Extend(known, listed)
  <2>1. PICK listed \in ParamFiles : names' = Extend(known, listed)
    BY <1>6
  <2>2. names' \in Seq(Names) /\ IsPrefixOf(known, names')
    BY <1>3, <2>1, ExtendKeepsIds, WorldAssumption DEF WorldAssumption
  <2>3. NamesExtend'
    BY <1>2, <2>2 DEF NamesExtend, known
  <2> QED
    BY <1>1, <1>2, <2>2, <2>3 DEF NamesInv, Named, NamedBy, SavingNames
<1> QED
  BY <1>4, <1>5, <1>6

LEMMA SaveNamesNamed ==
    ASSUME NamesInv, SaveNames
    PROVE  NamesInv'
<1>1. OneSeedInv'
  BY SaveNamesKeeps DEF NamesInv
<1>2. /\ phase = "save" /\ phase' = "running" /\ names' = names
      /\ Backend!BeginWrite(NamesRow, [list |-> names])
  BY DEF SaveNames, Backend!SetGlobalKv
<1>3. Named(disk') /\ Named(table') /\ table' = table
  BY <1>2, BeginWriteNamed
<1>4. writing' = [key |-> NamesRow, value |-> [list |-> names]]
  BY <1>2 DEF Backend!BeginWrite
<1>5. ~idle'
  <2>1. [list |-> names] # NoValue
    BY RowsAssumption DEF RowsAssumption, NamesInv
  <2>2. writing'.value # NoValue
    BY <1>4, <2>1
  <2> QED
    BY <2>2 DEF idle, Backend!NoWrite
<1>6. SavingNames' /\ NamesExtend' /\ writing'.value = [list |-> names']
  BY <1>2, <1>3, <1>4, <1>5 DEF SavingNames, NamesInv, NamesExtend
<1>7. writing'.key \notin Chunks
  BY <1>4, KeysOfWorld
<1> QED
  BY <1>1, <1>2, <1>3, <1>6, <1>7 DEF NamesInv, Named, NamedBy

LEMMA StoreChunkNamed ==
    ASSUME NamesInv, NEW pos \in Chunks, StoreChunk(pos)
    PROVE  NamesInv'
<1> DEFINE s == IF table[pos] = NoValue THEN seed ELSE table[pos].seed
<1>1. OneSeedInv'
  BY StoreChunkKeeps DEF NamesInv
<1>2. phase = "running" /\ phase' = "running" /\ names' = names
  BY DEF StoreChunk
<1>3. PICK id \in 1..Len(names) :
         Backend!BeginWrite(pos, [seed |-> s, id |-> id, name |-> names[id]])
  BY DEF StoreChunk, Backend!StoreChunk, Backend!Get
<1>4. Named(disk') /\ Named(table') /\ table' = table /\ idle
  BY <1>3, BeginWriteNamed
<1>5. table[NamesRow] = [list |-> names] /\ [list |-> names] # NoValue
  BY <1>2, <1>4, RowsAssumption DEF RowsAssumption, NamesInv, SavingNames
<1>6. writing' = [key |-> pos, value |-> [seed |-> s, id |-> id, name |-> names[id]]]
  BY <1>3 DEF Backend!BeginWrite
<1> HIDE DEF s
<1>7. NamedBy(table', writing'.value)
  BY <1>4, <1>5, <1>6 DEF NamedBy
<1>8. writing'.key # NamesRow
  BY <1>6, KeysOfWorld
<1> QED
  BY <1>1, <1>2, <1>4, <1>5, <1>7, <1>8 DEF NamesInv, SavingNames, Named, NamedBy

LEMMA InsertNamed ==
    ASSUME NamesInv, Insert
    PROVE  NamesInv'
<1>1. OneSeedInv'
  BY InsertKeeps DEF NamesInv
<1>2. /\ ~idle /\ idle'
      /\ table' = [table EXCEPT ![writing.key] = writing.value]
      /\ disk' = disk /\ phase' = phase /\ names' = names
  BY DEF Insert, Backend!Insert, idle, Backend!NoWrite
<1>3. table = [k \in Backend!Keys |-> table[k]]
  BY DEF NamesInv, OneSeedInv, IsTable
<1>4. \A k \in Backend!Keys :
         table'[k] = IF k = writing.key THEN writing.value ELSE table[k]
  BY <1>2, <1>3
<1>5. CASE PendingMeta
  <2>1. table'[NamesRow] = table[NamesRow] /\ \A p \in Chunks : table'[p] = table[p]
    BY <1>4, <1>5, KeysOfWorld DEF PendingMeta
  <2> QED
    BY <1>1, <1>2, <1>5, <2>1 DEF PendingMeta, NamesInv, Named, NamedBy, SavingNames
<1>6. CASE PendingNames
  <2>1. /\ writing.value = [list |-> names] /\ NamesExtend
        /\ [list |-> names] # NoValue /\ [list |-> names] \in ListRows
    BY <1>2, <1>6, RowsAssumption DEF RowsAssumption, NamesInv, SavingNames,
       PendingNames, ListRows
  <2>2. table'[NamesRow] = [list |-> names] /\ \A p \in Chunks : table'[p] = table[p]
    BY <1>4, <1>6, <2>1, KeysOfWorld DEF PendingNames
  <2>3. ASSUME NEW p \in Chunks, table[p] # NoValue PROVE NamedBy(table', table'[p])
    <3>1. NamedBy(table, table[p])
      BY <2>3 DEF NamesInv, Named
    <3>2. table[NamesRow].list \in Seq(Names) /\ names \in Seq(Names)
      BY <3>1 DEF NamesInv, Named, NamedBy, ListRows
    <3>3. IsPrefixOf(table[NamesRow].list, names)
      BY <2>1, <3>1 DEF NamesExtend, NamedBy
    <3>4. table[p].id \in 1..Len(names) /\ names[table[p].id] = table[p].name
      BY <3>1, <3>2, <3>3, ExtensionNames DEF NamedBy
    <3> QED
      BY <2>1, <2>2, <3>4 DEF NamedBy
  <2>4. Named(table')
    BY <2>1, <2>2, <2>3 DEF Named
  <2> QED
    BY <1>1, <1>2, <1>6, <2>2, <2>4 DEF PendingNames, NamesInv, Named, NamedBy, SavingNames
<1>7. CASE PendingChunk
  <2>1. table'[NamesRow] = table[NamesRow]
    BY <1>4, <1>7, KeysOfWorld DEF PendingChunk
  <2>2. NamedBy(table, writing.value)
    BY <1>2, <1>7 DEF PendingChunk, NamesInv
  <2>3. \A p \in Chunks : table'[p] = IF p = writing.key THEN writing.value ELSE table[p]
    BY <1>4, KeysOfWorld
  <2>4. Named(table')
    BY <2>1, <2>2, <2>3 DEF NamesInv, Named, NamedBy
  <2>5. table'[NamesRow] = [list |-> names]
    BY <1>7, <2>1, KeysOfWorld DEF PendingChunk, NamesInv, SavingNames
  <2> QED
    BY <1>1, <1>2, <1>7, <2>4, <2>5 DEF PendingChunk, NamesInv, Named, NamedBy, SavingNames
<1> QED
  BY <1>2, <1>5, <1>6, <1>7 DEF NamesInv, OneSeedInv, Pending

LEMMA TickCrashNamed ==
    ASSUME NamesInv, Tick \/ Crash
    PROVE  NamesInv'
<1>1. CASE Tick
  <2>1. disk' = table /\ UNCHANGED <<table, writing, phase, names>>
    BY <1>1 DEF Tick, Backend!Tick, Backend!CommitOpen
  <2>2. OneSeedInv'
    BY <1>1, TickKeeps DEF NamesInv
  <2> QED
    BY <2>1, <2>2 DEF NamesInv, Named, NamedBy, SavingNames, NamesExtend, idle, Backend!NoWrite
<1>2. CASE Crash
  <2>1. table' = disk /\ disk' = disk /\ phase' = "stopped" /\ names' = << >>
    BY <1>2 DEF Crash, Backend!Crash
  <2>2. OneSeedInv'
    BY <1>2, CrashKeeps DEF NamesInv
  <2> QED
    BY <2>1, <2>2 DEF NamesInv, Named, NamedBy, SavingNames
<1> QED
  BY <1>1, <1>2

LEMMA NextNamed == NamesInv /\ [WorldNext]_worldVars => NamesInv'
<1> SUFFICES ASSUME NamesInv, [WorldNext]_worldVars PROVE NamesInv'
  OBVIOUS
<1>1. CASE WorldNext
  BY <1>1, SeedStepsNamed, LoadNamesNamed, SaveNamesNamed, StoreChunkNamed, InsertNamed,
     TickCrashNamed DEF WorldNext
<1>2. CASE UNCHANGED worldVars
  <2>1. OneSeedInv'
    BY NextKeeps DEF NamesInv
  <2> QED
    BY <1>2, <2>1 DEF worldVars, NamesInv, Named, NamedBy, NamesExtend, SavingNames, idle,
       Backend!NoWrite
<1> QED
  BY <1>1, <1>2

LEMMA NamedIsEnough == NamesInv => BlocksKeepTheirNames
<1> SUFFICES ASSUME NamesInv PROVE BlocksKeepTheirNames
  OBVIOUS
<1>1. ASSUME phase = "running", NEW c \in StoredChunks(table)
      PROVE  c.id \in 1..Len(names) /\ names[c.id] = c.name
  <2>1. NamedBy(table, c)
    BY DEF StoredChunks, NamesInv, Named
  <2>2. CASE SavingNames
    <3>1. table[NamesRow].list \in Seq(Names) /\ names \in Seq(Names)
      BY <2>1 DEF NamesInv, Named, NamedBy, ListRows
    <3>2. IsPrefixOf(table[NamesRow].list, names)
      BY <2>1, <2>2 DEF NamesInv, NamesExtend, NamedBy
    <3> QED
      BY <2>1, <3>1, <3>2, ExtensionNames DEF NamedBy
  <2>3. CASE ~SavingNames
    BY <1>1, <2>1, <2>3 DEF NamesInv, NamedBy
  <2> QED
    BY <2>2, <2>3
<1>2. ASSUME NEW c \in StoredChunks(disk) PROVE NamedBy(disk, c)
  BY DEF StoredChunks, NamesInv, Named
<1> QED
  BY <1>1, <1>2 DEF BlocksKeepTheirNames, NamedBy

\* An id in a stored chunk stands for the block it stood for when it was
\* stored (load_name_id_map, get_or_extend, save_name_id_map), for any files of
\* game parameters from one start to the next and wherever the process dies.
THEOREM StoredBlocksKeepTheirNames == WorldSpec => []BlocksKeepTheirNames
<1>1. WorldInit => NamesInv
  BY InitNamed
<1>2. NamesInv /\ [WorldNext]_worldVars => NamesInv'
  BY NextNamed
<1>3. NamesInv => BlocksKeepTheirNames
  BY NamedIsEnough
<1> QED
  BY <1>1, <1>2, <1>3, PTL DEF WorldSpec
-----------------------------------------------------------------------------
(* WorldFile: its types, and its use of the database *)

DatabaseTyped ==
    /\ open \in BOOLEAN
    /\ ctr \in 0..WritesPerTransaction
    /\ durable \in 0..Len(log)
    /\ \E S : log \in Seq(S)

NamesFit == names \in Seq(Names) /\ Len(names) <= ReservedCount

WorldInv == NamesInv /\ DatabaseTyped /\ NamesFit /\ phase \in Phases

\* A step of the world is one of its database, or leaves that as it is.
DatabaseStep ==
    \/ \E k, v : Backend!BeginWrite(k, v)
    \/ Backend!Insert \/ Backend!Tick \/ Backend!Crash
    \/ UNCHANGED backendVars

LEMMA DatabaseKeepsTypes ==
    ASSUME DatabaseTyped, DatabaseStep
    PROVE  DatabaseTyped'
<1>1. Len(log) \in Nat /\ \E S : log \in Seq(S)
  BY DEF DatabaseTyped
<1>2. WritesPerTransaction \in Nat /\ ReservedCount \in Nat
  BY WorldAssumption
<1>3. ASSUME NEW k, NEW v, Backend!BeginWrite(k, v) PROVE DatabaseTyped'
  <2>1. log' = log /\ open' = TRUE
    BY <1>3 DEF Backend!BeginWrite, Backend!MaybeBeginCommit
  <2>2. ctr' \in 0..WritesPerTransaction
    BY <1>3, WorldAssumption DEF WorldAssumption, DatabaseTyped, Backend!BeginWrite, Backend!MaybeBeginCommit
  <2>3. durable' = durable \/ durable' = Len(log)
    BY <1>3 DEF Backend!BeginWrite, Backend!MaybeBeginCommit, Backend!CommitOpen
  <2> QED
    BY <1>1, <2>1, <2>2, <2>3 DEF DatabaseTyped
<1>4. CASE Backend!Insert
  <2>1. PICK S : log \in Seq(S)
    BY <1>1
  <2>2. log' = Append(log, writing) /\ UNCHANGED <<open, ctr, durable>>
    BY <1>4 DEF Backend!Insert
  <2>3. log \in Seq(S \cup {writing})
    BY <2>1, SeqMonotonic
  <2>4. log' \in Seq(S \cup {writing}) /\ Len(log') = Len(log) + 1
    BY <2>2, <2>3, AppendProperties
  <2> QED
    BY <1>1, <2>2, <2>4 DEF DatabaseTyped
<1>5. CASE Backend!Tick
  <2>1. /\ log' = log /\ open' = FALSE
        /\ ctr' = WritesPerTransaction /\ durable' = Len(log)
    BY <1>5 DEF Backend!Tick, Backend!CommitOpen
  <2>2. ctr' \in 0..WritesPerTransaction /\ durable' \in 0..Len(log') /\ \E S : log' \in Seq(S)
    BY <1>1, <1>2, <2>1
  <2> QED
    BY <2>1, <2>2, Zenon DEF DatabaseTyped
<1>6. CASE Backend!Crash
  <2>1. /\ log' = SubSeq(log, 1, durable) /\ open' = FALSE
        /\ ctr' = 0 /\ durable' = durable
    BY <1>6 DEF Backend!Crash
  <2>2. PICK S : log \in Seq(S)
    BY <1>1
  <2>3. durable \in 0..Len(log)
    BY DEF DatabaseTyped
  <2>4. log' \in Seq(S) /\ Len(log') = durable
    BY <1>1, <2>1, <2>2, <2>3
  <2>5. ctr' \in 0..WritesPerTransaction /\ durable' \in 0..Len(log') /\ \E T : log' \in Seq(T)
    BY <1>1, <1>2, <2>1, <2>3, <2>4
  <2> QED
    BY <2>1, <2>5, Zenon DEF DatabaseTyped
<1>7. CASE UNCHANGED backendVars
  BY <1>7 DEF backendVars, DatabaseTyped
<1> QED
  BY <1>3, <1>4, <1>5, <1>6, <1>7 DEF DatabaseStep

\* What a start or the running server writes is of the form its row has: the
\* ids of a chunk are among those of the names, the seed is a stored one.
LEMMA WritesFit ==
    ASSUME WorldInv, WorldNext
    PROVE  Backend!BackendNext \/ UNCHANGED backendVars
<1> DEFINE Values == ChunkData \cup [meta : Seeds] \cup [list : Seq(Names)]
<1>1. CASE OpenDatabase \/ LoadNames
  BY <1>1 DEF OpenDatabase, LoadNames
<1>2. CASE ManageMapgenMeta
  <2>1. MetaRow \in Backend!Keys /\ [meta |-> seed] \in Values
    BY KeysOfWorld DEF WorldInv, NamesInv, OneSeedInv
  <2> QED
    BY <1>2, <2>1 DEF ManageMapgenMeta, Backend!BackendNext
<1>3. CASE SaveNames
  <2>1. NamesRow \in Backend!Keys /\ [list |-> names] \in Values
    BY KeysOfWorld DEF WorldInv, NamesFit
  <2> QED
    BY <1>3, <2>1 DEF SaveNames, Backend!BackendNext
<1>4. ASSUME NEW pos \in Chunks, StoreChunk(pos) PROVE Backend!BackendNext
  <2> DEFINE s == IF table[pos] = NoValue THEN seed ELSE table[pos].seed
  <2>1. PICK id \in 1..Len(names) :
           Backend!StoreChunk(pos, [seed |-> s, id |-> id, name |-> names[id]])
    BY <1>4 DEF StoreChunk, Backend!Get
  <2>2. s \in Seeds
    <3>1. seed \in Seeds /\ table[MetaRow] \in SeedRows
      BY DEF WorldInv, NamesInv, OneSeedInv, IsTable
    <3>2. table[pos] # NoValue => table[MetaRow] # NoValue /\ table[MetaRow].meta = table[pos].seed
      BY DEF WorldInv, NamesInv, OneSeedInv, Sealed, SealedAs
    <3> QED
      BY <3>1, <3>2 DEF SeedRows
  <2>3. names[id] \in Names /\ id \in 1..ReservedCount
    BY WorldAssumption DEF WorldInv, NamesFit
  <2>4. pos \in Backend!Keys
    BY KeysOfWorld
  <2> HIDE DEF s
  <2>5. [seed |-> s, id |-> id, name |-> names[id]] \in Values
    BY <2>2, <2>3 DEF ChunkData
  <2> QED
    BY <2>1, <2>4, <2>5 DEF Backend!BackendNext
<1>5. CASE Insert \/ Tick \/ Crash
  BY <1>5 DEF Insert, Tick, Crash, Backend!BackendNext
<1> QED
  BY <1>1, <1>2, <1>3, <1>4, <1>5 DEF WorldNext

LEMMA WorldTypesInit == WorldInit => WorldInv
<1> SUFFICES ASSUME WorldInit PROVE WorldInv
  OBVIOUS
<1>1. /\ open = FALSE /\ ctr = 0 /\ log = << >> /\ durable = 0
      /\ phase = "stopped" /\ names = << >>
  BY DEF WorldInit, Backend!BackendInit
<1>2. << >> \in Seq(Names) /\ Len(<< >>) = 0
  OBVIOUS
<1>3. DatabaseTyped /\ NamesFit
  <2>1. WritesPerTransaction \in Nat /\ ReservedCount \in Nat
    BY WorldAssumption
  <2>2. Len(log) = 0 /\ \E S : log \in Seq(S)
    BY <1>1, <1>2
  <2>3. ctr \in 0..WritesPerTransaction /\ durable \in 0..Len(log)
    BY <1>1, <2>1, <2>2
  <2>4. DatabaseTyped
    BY <1>1, <2>2, <2>3, Zenon DEF DatabaseTyped
  <2> QED
    BY <1>1, <1>2, <2>1, <2>4 DEF NamesFit
<1> QED
  BY <1>1, <1>3, InitNamed DEF WorldInv, Phases

LEMMA WorldTypesNext == WorldInv /\ [WorldNext]_worldVars => WorldInv'
<1> SUFFICES ASSUME WorldInv, [WorldNext]_worldVars PROVE WorldInv'
  OBVIOUS
<1>1. NamesInv'
  BY NextNamed DEF WorldInv
<1>2. CASE UNCHANGED worldVars
  BY <1>1, <1>2 DEF worldVars, WorldInv, DatabaseTyped, NamesFit
<1>3. CASE WorldNext
  <2>1. DatabaseStep
    BY <1>3, WritesFit DEF DatabaseStep, Backend!BackendNext, Backend!StoreChunk,
       Backend!SetGlobalKv, Backend!SetPlayerKv
  <2>2. phase' \in Phases
    BY <1>3 DEF WorldInv, Phases, WorldNext, OpenDatabase, ManageMapgenMeta, LoadNames,
       SaveNames, StoreChunk, Insert, Tick, Crash
  <2>3. NamesFit'
    <3>1. names' \in Seq(Names)
      BY <1>1 DEF NamesInv
    <3>2. names' = names \/ names' = << >> \/ Len(names') <= ReservedCount
      BY <1>3 DEF WorldNext, OpenDatabase, ManageMapgenMeta, LoadNames,
         SaveNames, StoreChunk, Insert, Tick, Crash
    <3>3. Len(<< >>) <= ReservedCount
      BY WorldAssumption
    <3> QED
      BY <3>1, <3>2, <3>3 DEF WorldInv, NamesFit
  <2> QED
    BY <1>1, <2>1, <2>2, <2>3, DatabaseKeepsTypes DEF WorldInv
<1> QED
  BY <1>2, <1>3

\* The variables of a world have their types: there are never more names than
\* ids (load_name_id_map, get_or_extend), a transaction takes no more writes
\* than it should, and what is durable has been written.
THEOREM WorldTypesAreCorrect == WorldSpec => []WorldTypeOK
<1>1. WorldInv => WorldTypeOK
  BY DEF WorldInv, WorldTypeOK, NamesInv, OneSeedInv, DatabaseTyped, NamesFit
<1> QED
  BY <1>1, WorldTypesInit, WorldTypesNext, PTL DEF WorldSpec

\* The start of a world and the running server use the database as it is meant
\* to be used: one write at a time, each of the kind its row is of
\* (manage_mapgen_meta_toml, save_name_id_map, store_chunk).
THEOREM WorldsRunOnTheBackend == WorldSpec => Backend!BackendSpec
<1>1. WorldInit => Backend!BackendInit
  BY DEF WorldInit
<1>2. WorldInv /\ [WorldNext]_worldVars => [Backend!BackendNext]_(Backend!backendVars)
  BY WritesFit DEF worldVars, backendVars, Backend!backendVars
<1> QED
  BY <1>1, <1>2, WorldTypesInit, WorldTypesNext, PTL DEF WorldSpec, Backend!BackendSpec

-----------------------------------------------------------------------------
(* Client *)

\* A texture that c can load, or cannot because of another client.
Good(c, h) ==
    \/ cache[h].is = "whole"
    \/ cache[h].is = "cut" /\ cache[h].by # c

\* The file that c is writing.
InHand(c, h) == doing[c].at = "write" /\ h \in doing[c].missing

\* What a message about the textures hs leaves out is good.
Covers(c, hs) ==
    /\ hs \subseteq Blobs
    /\ \A h \in Blobs : h \in hs \/ Good(c, h) \/ InHand(c, h)

Elems(s) == {s[i] : i \in 1..Len(s)}
IsSeq(s) == \E S : s \in Seq(S)

MessagesCover(c) ==
    /\ \A m \in Elems(inbox[c]) : m.kind = "HashedBlobs" => Covers(c, m.hashes)
    /\ \A m \in Elems(outbox[c]) : m.kind = "GetHashedBlobs" => Covers(c, m.hashes)

HandlerCovers(c) ==
    LET d == doing[c] IN
    /\ d.at = "check" => \A h \in Blobs : h \in d.left \cup d.missing \/ Good(c, h)
    /\ d.at = "store" => \A h \in Blobs : h \in d.left \/ Good(c, h)
    /\ d.at = "write" => \A h \in Blobs : h \in d.left \cup d.missing \/ Good(c, h)
    /\ d.at = "load" => \A h \in Blobs : Good(c, h)

\* The handlers of the loop, and what they have before them.
Handlers == [at : {"loop", "check", "store", "write", "load"},
             left : SUBSET Blobs, missing : SUBSET Blobs]

TablesOK ==
    /\ fate = [c \in Clients |-> fate[c]]
    /\ doing \in [Clients -> Handlers]
    /\ inbox = [c \in Clients |-> inbox[c]] /\ \A c \in Clients : IsSeq(inbox[c])
    /\ outbox = [c \in Clients |-> outbox[c]] /\ \A c \in Clients : IsSeq(outbox[c])
    /\ cache \in [Blobs -> [is : {"absent", "cut", "whole"}, by : Clients \cup {Nobody}]]

CoveredAt(c) == Running(c) => MessagesCover(c) /\ HandlerCovers(c)

Covered == TablesOK /\ \A c \in Clients : CoveredAt(c)

-----------------------------------------------------------------------------
(* Sequences *)

LEMMA NoElems == IsSeq(<< >>) /\ Elems(<< >>) = {}
<1>1. << >> \in Seq({})
  OBVIOUS
<1> QED
  BY <1>1 DEF IsSeq, Elems

LEMMA OneElem == ASSUME NEW x PROVE IsSeq(<<x>>) /\ Elems(<<x>>) = {x}
<1>1. <<x>> \in Seq({x}) /\ Len(<<x>>) = 1 /\ <<x>>[1] = x
  OBVIOUS
<1>2. 1..1 = {1}
  OBVIOUS
<1> QED
  BY <1>1, <1>2 DEF IsSeq, Elems

LEMMA ElemsAppend ==
    ASSUME NEW s, IsSeq(s), NEW x
    PROVE  IsSeq(Append(s, x)) /\ Elems(Append(s, x)) = Elems(s) \cup {x}
<1>1. PICK S : s \in Seq(S)
  BY DEF IsSeq
<1>2. s \in Seq(S \cup {x})
  BY <1>1, SeqMonotonic
<1>3. /\ Append(s, x) \in Seq(S \cup {x}) /\ Len(Append(s, x)) = Len(s) + 1
      /\ \A i \in 1..Len(s) : Append(s, x)[i] = s[i]
      /\ Append(s, x)[Len(s) + 1] = x
  BY <1>2, AppendProperties
<1>4. Len(s) \in Nat
  BY <1>1
<1>5. Elems(Append(s, x)) = Elems(s) \cup {x}
  <2>1. 1..(Len(s) + 1) = (1..Len(s)) \cup {Len(s) + 1}
    BY <1>4
  <2> QED
    BY <1>3, <2>1 DEF Elems
<1> QED
  BY <1>3, <1>5 DEF IsSeq

LEMMA ElemsConcat ==
    ASSUME NEW s, IsSeq(s), NEW t, IsSeq(t)
    PROVE  IsSeq(s \o t) /\ Elems(s \o t) \subseteq Elems(s) \cup Elems(t)
<1>1. PICK S : s \in Seq(S)
  BY DEF IsSeq
<1>2. PICK T : t \in Seq(T)
  BY DEF IsSeq
<1>3. s \in Seq(S \cup T) /\ t \in Seq(S \cup T)
  BY <1>1, <1>2, SeqMonotonic
<1>4. /\ s \o t \in Seq(S \cup T) /\ Len(s \o t) = Len(s) + Len(t)
      /\ \A i \in 1..Len(s) + Len(t) :
            (s \o t)[i] = IF i <= Len(s) THEN s[i] ELSE t[i - Len(s)]
  BY <1>3, ConcatProperties
<1>5. Len(s) \in Nat /\ Len(t) \in Nat
  BY <1>1, <1>2
<1>6. ASSUME NEW i \in 1..Len(s) + Len(t)
      PROVE  (s \o t)[i] \in Elems(s) \cup Elems(t)
  <2>1. CASE i <= Len(s)
    BY <1>4, <1>5, <2>1 DEF Elems
  <2>2. CASE ~(i <= Len(s))
    <3>1. i - Len(s) \in 1..Len(t)
      BY <1>5, <2>2
    <3> QED
      BY <1>4, <2>2, <3>1 DEF Elems
  <2> QED
    BY <2>1, <2>2
<1> QED
  BY <1>4, <1>6 DEF IsSeq, Elems

LEMMA ElemsTail ==
    ASSUME NEW s, IsSeq(s), s # << >>
    PROVE  /\ Head(s) \in Elems(s)
           /\ IsSeq(Tail(s)) /\ Elems(Tail(s)) \subseteq Elems(s)
<1>1. PICK S : s \in Seq(S)
  BY DEF IsSeq
<1>2. /\ Tail(s) \in Seq(S) /\ Len(Tail(s)) = Len(s) - 1
      /\ \A i \in 1..Len(Tail(s)) : Tail(s)[i] = s[i + 1]
  BY <1>1, HeadTailProperties
<1>3. Len(s) \in Nat /\ Len(s) # 0 /\ Head(s) = s[1]
  BY <1>1
<1>4. Head(s) \in Elems(s)
  BY <1>3 DEF Elems
<1>5. Elems(Tail(s)) \subseteq Elems(s)
  BY <1>2, <1>3 DEF Elems
<1> QED
  BY <1>2, <1>4, <1>5 DEF IsSeq

-----------------------------------------------------------------------------
(* Messages *)

LEMMA ReceivesKeeps ==
    ASSUME TablesOK, NEW c \in Clients, NEW kind, Receives(c, kind)
    PROVE  /\ Running(c) /\ doing[c] = Polling
           /\ Head(inbox[c]) \in Elems(inbox[c]) /\ Head(inbox[c]).kind = kind
           /\ inbox' = [x \in Clients |-> inbox'[x]]
           /\ \A x \in Clients : IsSeq(inbox'[x]) /\ Elems(inbox'[x]) \subseteq Elems(inbox[x])
<1>1. /\ Running(c) /\ doing[c] = Polling
      /\ inbox[c] # << >> /\ Head(inbox[c]).kind = kind
      /\ inbox' = [inbox EXCEPT ![c] = Tail(inbox[c])]
  BY DEF Receives, InLoop
<1>2. /\ Head(inbox[c]) \in Elems(inbox[c])
      /\ IsSeq(Tail(inbox[c])) /\ Elems(Tail(inbox[c])) \subseteq Elems(inbox[c])
  BY <1>1, ElemsTail DEF TablesOK
<1>3. inbox' = [x \in Clients |-> IF x = c THEN Tail(inbox[c]) ELSE inbox[x]]
  BY <1>1 DEF TablesOK
<1>4. inbox' = [x \in Clients |-> inbox'[x]]
  BY <1>3
<1>5. ASSUME NEW x \in Clients
      PROVE  IsSeq(inbox'[x]) /\ Elems(inbox'[x]) \subseteq Elems(inbox[x])
  BY <1>2, <1>3 DEF TablesOK
<1> QED
  BY <1>1, <1>2, <1>4, <1>5

LEMMA SaysKeeps ==
    ASSUME TablesOK, NEW c \in Clients, NEW msg, Says(c, msg)
    PROVE  /\ outbox' = [x \in Clients |-> outbox'[x]]
           /\ \A x \in Clients : IsSeq(outbox'[x])
           /\ \A x \in Clients : x # c => outbox'[x] = outbox[x]
           /\ Elems(outbox'[c]) = Elems(outbox[c]) \cup {msg}
<1>1. outbox' = [x \in Clients |-> IF x = c THEN Append(outbox[c], msg) ELSE outbox[x]]
  BY DEF Says, TablesOK
<1>2. IsSeq(Append(outbox[c], msg)) /\ Elems(Append(outbox[c], msg)) = Elems(outbox[c]) \cup {msg}
  BY ElemsAppend DEF TablesOK
<1>3. outbox' = [x \in Clients |-> outbox'[x]]
  BY <1>1
<1>4. ASSUME NEW x \in Clients PROVE IsSeq(outbox'[x])
  BY <1>1, <1>2 DEF TablesOK
<1> QED
  BY <1>1, <1>2, <1>3, <1>4

LEMMA AnswersKeeps ==
    ASSUME TablesOK, NEW c \in Clients, NEW msg, Answers(c, <<msg>>)
    PROVE  /\ inbox' = [x \in Clients |-> inbox'[x]]
           /\ \A x \in Clients : IsSeq(inbox'[x])
           /\ \A x \in Clients : x # c => inbox'[x] = inbox[x]
           /\ Elems(inbox'[c]) \subseteq Elems(inbox[c]) \cup {msg}
<1>1. inbox' = [x \in Clients |-> IF x = c THEN inbox[c] \o <<msg>> ELSE inbox[x]]
  BY DEF Answers, TablesOK
<1>2. IsSeq(<<msg>>) /\ Elems(<<msg>>) = {msg}
  BY OneElem
<1>3. /\ IsSeq(inbox[c] \o <<msg>>)
      /\ Elems(inbox[c] \o <<msg>>) \subseteq Elems(inbox[c]) \cup {msg}
  <2>1. IsSeq(inbox[c])
    BY DEF TablesOK
  <2> HIDE DEF IsSeq, Elems
  <2> QED
    BY <1>2, <2>1, ElemsConcat, Zenon
<1>4. inbox' = [x \in Clients |-> inbox'[x]]
  BY <1>1
<1>5. ASSUME NEW x \in Clients PROVE IsSeq(inbox'[x])
  BY <1>1, <1>3 DEF TablesOK
<1> QED
  BY <1>1, <1>3, <1>4, <1>5

-----------------------------------------------------------------------------
(* Steps that do not concern the textures *)

\* What x has to itself stays as it is, new messages are about other things,
\* and a good texture stays good.
LEMMA StaysCovered ==
    ASSUME NEW x \in Clients, CoveredAt(x),
           Running(x)' => Running(x), doing'[x] = doing[x],
           \A m \in Elems(inbox'[x]) : m \in Elems(inbox[x]) \/ m.kind # "HashedBlobs",
           \A m \in Elems(outbox'[x]) : m \in Elems(outbox[x]) \/ m.kind # "GetHashedBlobs",
           \A h \in Blobs : Good(x, h) => Good(x, h)'
    PROVE  CoveredAt(x)'
<1> SUFFICES ASSUME Running(x)' PROVE MessagesCover(x)' /\ HandlerCovers(x)'
  BY DEF CoveredAt
<1>1. MessagesCover(x) /\ HandlerCovers(x)
  BY DEF CoveredAt
<1>2. \A hs : Covers(x, hs) => Covers(x, hs)'
  BY DEF Covers, InHand
<1>3. MessagesCover(x)'
  BY <1>1, <1>2 DEF MessagesCover
<1>4. HandlerCovers(x)'
  BY <1>1 DEF HandlerCovers
<1> QED
  BY <1>3, <1>4

LEMMA FilesKept == ASSUME cache' = cache PROVE \A x, h : Good(x, h) => Good(x, h)'
BY DEF Good

\* The steps of c that leave handlers and files alone, and send or receive
\* nothing about textures.
LEMMA QuietStep ==
    ASSUME Covered, UNCHANGED <<doing, cache>>,
           fate' = [x \in Clients |-> fate'[x]],
           inbox' = [x \in Clients |-> inbox'[x]],
           outbox' = [x \in Clients |-> outbox'[x]],
           \A x \in Clients :
              /\ IsSeq(inbox'[x]) /\ IsSeq(outbox'[x])
              /\ Running(x)' => Running(x)
              /\ \A m \in Elems(inbox'[x]) : m \in Elems(inbox[x]) \/ m.kind # "HashedBlobs"
              /\ \A m \in Elems(outbox'[x]) : m \in Elems(outbox[x]) \/ m.kind # "GetHashedBlobs"
    PROVE  Covered'
<1>1. TablesOK'
  BY DEF Covered, TablesOK
<1>2. ASSUME NEW x \in Clients PROVE CoveredAt(x)'
  BY FilesKept, StaysCovered DEF Covered
<1> QED
  BY <1>1, <1>2 DEF Covered

\* The same if only the fate of c changes, and it does not start.
LEMMA FateStep ==
    ASSUME Covered, UNCHANGED <<doing, cache, inbox, outbox>>,
           NEW c \in Clients, NEW f, f # "running",
           fate' = fate \/ fate' = [fate EXCEPT ![c] = f]
    PROVE  Covered'
<1>1. fate' = [x \in Clients |-> fate'[x]] /\ \A x \in Clients : Running(x)' => Running(x)
  BY DEF Covered, TablesOK, Running
<1>2. /\ inbox' = [x \in Clients |-> inbox'[x]] /\ outbox' = [x \in Clients |-> outbox'[x]]
      /\ \A x \in Clients : IsSeq(inbox'[x]) /\ IsSeq(outbox'[x])
  BY DEF Covered, TablesOK
<1> QED
  BY <1>1, <1>2, QuietStep

LEMMA ReceivesStep ==
    ASSUME Covered, UNCHANGED <<doing, cache, outbox>>, NEW c \in Clients, NEW kind,
           Receives(c, kind), NEW f, f # "running",
           fate' = fate \/ fate' = [fate EXCEPT ![c] = f]
    PROVE  Covered'
<1>1. fate' = [x \in Clients |-> fate'[x]] /\ \A x \in Clients : Running(x)' => Running(x)
  BY DEF Covered, TablesOK, Running
<1>2. /\ outbox' = [x \in Clients |-> outbox'[x]]
      /\ \A x \in Clients : IsSeq(outbox'[x])
  BY DEF Covered, TablesOK
<1>3. /\ inbox' = [x \in Clients |-> inbox'[x]]
      /\ \A x \in Clients : IsSeq(inbox'[x]) /\ Elems(inbox'[x]) \subseteq Elems(inbox[x])
  BY ReceivesKeeps DEF Covered
<1> QED
  BY <1>1, <1>2, <1>3, QuietStep

\* A step of the log in: the next message is taken, and perhaps answered.
LEMMA LogInStep ==
    ASSUME Covered, UNCHANGED <<doing, cache, fate>>, NEW c \in Clients, NEW kind, NEW msg,
           Receives(c, kind), msg.kind # "GetHashedBlobs",
           Says(c, msg) \/ outbox' = outbox
    PROVE  Covered'
<1>1. CASE outbox' = outbox
  BY <1>1, ReceivesStep, "off" # "running"
<1>2. CASE Says(c, msg)
  <2>1. fate' = [x \in Clients |-> fate'[x]] /\ \A x \in Clients : Running(x)' => Running(x)
    BY DEF Covered, TablesOK, Running
  <2>2. /\ outbox' = [x \in Clients |-> outbox'[x]]
        /\ \A x \in Clients : IsSeq(outbox'[x])
        /\ \A x \in Clients : \A m \in Elems(outbox'[x]) :
              m \in Elems(outbox[x]) \/ m.kind # "GetHashedBlobs"
    <3>1. /\ outbox' = [x \in Clients |-> outbox'[x]]
          /\ \A x \in Clients : IsSeq(outbox'[x])
          /\ \A x \in Clients : x # c => outbox'[x] = outbox[x]
          /\ Elems(outbox'[c]) = Elems(outbox[c]) \cup {msg}
      BY <1>2, SaysKeeps DEF Covered
    <3> QED
      BY <3>1
  <2>3. /\ inbox' = [x \in Clients |-> inbox'[x]]
        /\ \A x \in Clients : IsSeq(inbox'[x]) /\ Elems(inbox'[x]) \subseteq Elems(inbox[x])
    BY ReceivesKeeps DEF Covered
  <2> QED
    BY <2>1, <2>2, <2>3, QuietStep
<1> QED
  BY <1>1, <1>2

LEMMA HashEnrollmentKeeps ==
    ASSUME Covered, NEW c \in Clients, HashEnrollment(c) PROVE Covered'
<1>1. /\ Receives(c, "HashEnrollment") /\ UNCHANGED <<doing, cache, fate>>
      /\ Says(c, [kind |-> "SendHash"]) \/ outbox' = outbox
  BY DEF HashEnrollment, clientVars
<1>2. [kind |-> "SendHash"].kind # "GetHashedBlobs"
  OBVIOUS
<1> QED
  BY <1>1, <1>2, LogInStep

LEMMA HashParamsBpubKeeps ==
    ASSUME Covered, NEW c \in Clients, HashParamsBpub(c) PROVE Covered'
<1>1. /\ Receives(c, "HashParamsBpub") /\ UNCHANGED <<doing, cache, fate>>
      /\ Says(c, [kind |-> "SendM1"]) \/ outbox' = outbox
  BY DEF HashParamsBpub
<1>2. [kind |-> "SendM1"].kind # "GetHashedBlobs"
  OBVIOUS
<1> QED
  BY <1>1, <1>2, LogInStep

LEMMA SendChunkKeeps ==
    ASSUME Covered, NEW c \in Clients, SendChunk(c) PROVE Covered'
<1> DEFINE msg == [kind |-> "ChunkUpdated", pos |-> Head(unsent[c]).pos,
                   chunk |-> Head(unsent[c]).chunk]
<1>1. Answers(c, <<msg>>) /\ UNCHANGED <<doing, cache, fate, outbox>>
  BY DEF SendChunk, clientVars
<1>2. msg.kind # "HashedBlobs"
  OBVIOUS
<1> HIDE DEF msg
<1>3. /\ inbox' = [x \in Clients |-> inbox'[x]]
      /\ \A x \in Clients : IsSeq(inbox'[x])
      /\ \A x \in Clients : x # c => inbox'[x] = inbox[x]
      /\ Elems(inbox'[c]) \subseteq Elems(inbox[c]) \cup {msg}
  BY <1>1, AnswersKeeps DEF Covered
<1>4. /\ fate' = [x \in Clients |-> fate'[x]] /\ \A x \in Clients : Running(x)' => Running(x)
      /\ outbox' = [x \in Clients |-> outbox'[x]] /\ \A x \in Clients : IsSeq(outbox'[x])
  BY <1>1 DEF Covered, TablesOK, Running
<1>5. \A x \in Clients :
         /\ \A m \in Elems(inbox'[x]) : m \in Elems(inbox[x]) \/ m.kind # "HashedBlobs"
         /\ \A m \in Elems(outbox'[x]) : m \in Elems(outbox[x]) \/ m.kind # "GetHashedBlobs"
  BY <1>1, <1>2, <1>3
<1> QED
  BY <1>1, <1>3, <1>4, <1>5, QuietStep

-----------------------------------------------------------------------------
(* The way of a texture *)

\* A step of c on its handler: the others stay as they are.
LEMMA HandlerStep ==
    ASSUME Covered, NEW c \in Clients, TablesOK', CoveredAt(c)',
           \A x \in Clients : x # c =>
              /\ fate'[x] = fate[x] /\ doing'[x] = doing[x]
              /\ inbox'[x] = inbox[x] /\ outbox'[x] = outbox[x]
              /\ \A h \in Blobs : Good(x, h) => Good(x, h)'
    PROVE  Covered'
<1>1. ASSUME NEW x \in Clients, x # c PROVE CoveredAt(x)'
  <2>1. CoveredAt(x) /\ (Running(x)' => Running(x))
    BY <1>1 DEF Covered, Running
  <2> QED
    BY <1>1, <2>1, StaysCovered
<1> QED
  BY <1>1 DEF Covered

LEMMA NewKeeps ==
    ASSUME Covered, NEW c \in Clients, New(c) PROVE Covered'
<1> DEFINE hello == [kind |-> "LogIn"]
<1>1. /\ fate' = [fate EXCEPT ![c] = "running"] /\ doing' = [doing EXCEPT ![c] = Polling]
      /\ inbox' = [inbox EXCEPT ![c] = << >>] /\ outbox' = [outbox EXCEPT ![c] = <<hello>>]
      /\ cache' = cache
  BY DEF New
<1>2. IsSeq(<< >>) /\ IsSeq(<<hello>>) /\ Elems(<< >>) = {} /\ Elems(<<hello>>) = {hello}
  BY NoElems, OneElem
<1>3. Polling \in Handlers
  BY DEF Polling, Handlers
<1>4. TablesOK'
  BY <1>1, <1>2, <1>3 DEF Covered, TablesOK
<1>5. inbox'[c] = << >> /\ outbox'[c] = <<hello>> /\ doing'[c].at = "loop"
  BY <1>1 DEF Covered, TablesOK, Polling
<1>6. CoveredAt(c)'
  BY <1>2, <1>5 DEF CoveredAt, MessagesCover, HandlerCovers
<1>7. \A x \in Clients : x # c =>
         /\ fate'[x] = fate[x] /\ doing'[x] = doing[x]
         /\ inbox'[x] = inbox[x] /\ outbox'[x] = outbox[x]
         /\ \A h \in Blobs : Good(x, h) => Good(x, h)'
  BY <1>1, FilesKept DEF Covered, TablesOK
<1> QED
  BY <1>4, <1>6, <1>7, HandlerStep

LEMMA GameParamsKeeps ==
    ASSUME Covered, NEW c \in Clients, GameParams(c) PROVE Covered'
<1> DEFINE check == [at |-> "check", left |-> Blobs, missing |-> {}]
<1>1. /\ Receives(c, "GameParams") /\ doing' = [doing EXCEPT ![c] = check]
      /\ UNCHANGED <<fate, cache, outbox>>
  BY DEF GameParams
<1>2. /\ Running(c) /\ doing[c] = Polling
      /\ inbox' = [x \in Clients |-> inbox'[x]]
      /\ \A x \in Clients : IsSeq(inbox'[x]) /\ Elems(inbox'[x]) \subseteq Elems(inbox[x])
  BY <1>1, ReceivesKeeps DEF Covered
<1>3. check \in Handlers
  BY DEF Handlers
<1>4. TablesOK'
  BY <1>1, <1>2, <1>3 DEF Covered, TablesOK
<1>5. doing'[c] = check /\ \A h : Good(c, h)' = Good(c, h)
  BY <1>1 DEF Covered, TablesOK, Good
<1>6. \A h : ~InHand(c, h) /\ ~InHand(c, h)'
  BY <1>2, <1>5 DEF InHand, Polling
<1>7. MessagesCover(c)'
  BY <1>1, <1>2, <1>5, <1>6 DEF Covered, CoveredAt, MessagesCover, Covers
<1>8. HandlerCovers(c)'
  BY <1>5 DEF HandlerCovers
<1>9. \A x \in Clients : x # c =>
         /\ fate'[x] = fate[x] /\ doing'[x] = doing[x]
         /\ inbox'[x] = inbox[x] /\ outbox'[x] = outbox[x]
         /\ \A h \in Blobs : Good(x, h) => Good(x, h)'
  BY <1>1, FilesKept DEF Covered, TablesOK, Receives
<1> QED
  BY <1>4, <1>7, <1>8, <1>9, HandlerStep DEF CoveredAt

\* A texture that is not asked for is whole when the check comes to it.
LEMMA FindUncachedKeeps ==
    ASSUME Covered, NEW c \in Clients, FindUncached(c) PROVE Covered'
<1>1. PICK h \in doing[c].left :
         LET left == doing[c].left \ {h}
             missing == doing[c].missing \cup {x \in {h} : ~IsCached(x)}
         IN  IF left # {}
             THEN /\ doing' = [doing EXCEPT ![c].left = left, ![c].missing = missing]
                  /\ UNCHANGED <<outbox, params>>
             ELSE /\ AskFor(c, missing)
                  /\ params' = [params EXCEPT ![c] = TRUE]
                  /\ doing' = [doing EXCEPT ![c] = Polling]
  BY DEF FindUncached
<1> DEFINE left == doing[c].left \ {h}
<1> DEFINE missing == doing[c].missing \cup {x \in {h} : ~IsCached(x)}
<1>2. Running(c) /\ doing[c].at = "check" /\ UNCHANGED <<fate, inbox, cache>>
  BY DEF FindUncached
<1>3. /\ doing[c] \in Handlers
      /\ left \subseteq Blobs /\ missing \subseteq Blobs
  BY DEF Covered, TablesOK, Handlers
<1>4. \A x \in Blobs : x \in left \cup missing \/ Good(c, x)
  <2>1. \A x \in Blobs : x \in doing[c].left \cup doing[c].missing \/ Good(c, x)
    BY <1>2 DEF Covered, CoveredAt, HandlerCovers
  <2>2. IsCached(h) => Good(c, h)
    BY DEF IsCached, Good
  <2> QED
    BY <2>1, <2>2
<1>5. \A x : Good(c, x)' = Good(c, x)
  BY <1>2 DEF Good
<1>6. MessagesCover(c) /\ \A x : ~InHand(c, x)
  BY <1>2 DEF Covered, CoveredAt, InHand
<1>7. CASE left # {}
  <2>1. doing' = [doing EXCEPT ![c].left = left, ![c].missing = missing] /\ outbox' = outbox
    BY <1>1, <1>7
  <2>2. doing'[c] = [at |-> "check", left |-> left, missing |-> missing]
    BY <1>2, <1>3, <2>1 DEF Covered, TablesOK, Handlers
  <2>3. doing'[c] \in Handlers
    BY <1>3, <2>2 DEF Handlers
  <2>4. doing' \in [Clients -> Handlers] /\ \A x \in Clients : x # c => doing'[x] = doing[x]
    BY <2>1, <2>3 DEF Covered, TablesOK
  <2>5. TablesOK'
    BY <1>2, <2>1, <2>4 DEF Covered, TablesOK
  <2>6. \A x : ~InHand(c, x)'
    BY <2>2 DEF InHand
  <2>7. MessagesCover(c)'
    BY <1>2, <1>5, <1>6, <2>1, <2>6 DEF MessagesCover, Covers
  <2>8. HandlerCovers(c)'
    BY <1>4, <1>5, <2>2 DEF HandlerCovers
  <2>9. \A x \in Clients : x # c =>
           /\ fate'[x] = fate[x] /\ doing'[x] = doing[x]
           /\ inbox'[x] = inbox[x] /\ outbox'[x] = outbox[x]
           /\ \A y \in Blobs : Good(x, y) => Good(x, y)'
    BY <1>2, <2>1, <2>4, FilesKept
  <2> QED
    BY <2>5, <2>7, <2>8, <2>9, HandlerStep DEF CoveredAt
<1>8. CASE left = {}
  <2> DEFINE msg == [kind |-> "GetHashedBlobs", hashes |-> missing]
  <2>1. Says(c, msg) /\ doing' = [doing EXCEPT ![c] = Polling]
    BY <1>1, <1>8 DEF AskFor
  <2>2. Polling \in Handlers
    BY DEF Polling, Handlers
  <2>3. /\ doing' \in [Clients -> Handlers] /\ doing'[c] = Polling
        /\ \A x \in Clients : x # c => doing'[x] = doing[x]
    BY <2>1, <2>2 DEF Covered, TablesOK
  <2>4. msg.hashes = missing
    OBVIOUS
  <2> HIDE DEF msg
  <2>5. /\ outbox' = [x \in Clients |-> outbox'[x]]
        /\ \A x \in Clients : IsSeq(outbox'[x])
        /\ \A x \in Clients : x # c => outbox'[x] = outbox[x]
        /\ Elems(outbox'[c]) = Elems(outbox[c]) \cup {msg}
    BY <2>1, SaysKeeps DEF Covered
  <2>6. TablesOK'
    BY <1>2, <2>3, <2>5 DEF Covered, TablesOK
  <2>7. \A x : ~InHand(c, x)'
    BY <2>3 DEF InHand, Polling
  <2>8. \A hs : hs = missing => Covers(c, hs)'
    BY <1>3, <1>4, <1>5, <1>8 DEF Covers
  <2>9. \A hs : Covers(c, hs) => Covers(c, hs)'
    BY <1>5, <1>6 DEF Covers
  <2>10. MessagesCover(c)'
    BY <1>2, <1>6, <2>4, <2>5, <2>8, <2>9 DEF MessagesCover
  <2>11. HandlerCovers(c)'
    BY <2>3 DEF HandlerCovers, Polling
  <2>12. \A x \in Clients : x # c =>
           /\ fate'[x] = fate[x] /\ doing'[x] = doing[x]
           /\ inbox'[x] = inbox[x] /\ outbox'[x] = outbox[x]
           /\ \A y \in Blobs : Good(x, y) => Good(x, y)'
    BY <1>2, <2>3, <2>5, FilesKept
  <2> QED
    BY <2>6, <2>10, <2>11, <2>12, HandlerStep DEF CoveredAt
<1> QED
  BY <1>7, <1>8

\* With nothing left to store, everything is good, and may be loaded.
LEMMA StoreOrLoadCovers ==
    ASSUME NEW c \in Clients, NEW left \in SUBSET Blobs,
           doing'[c] = StoreOrLoad(c, left),
           \A h \in Blobs : h \in left \/ Good(c, h)'
    PROVE  HandlerCovers(c)' /\ doing'[c] \in Handlers /\ doing'[c].at # "write"
<1>1. CASE left # {}
  <2>1. doing'[c] = [at |-> "store", left |-> left, missing |-> {}]
    BY <1>1 DEF StoreOrLoad
  <2> QED
    BY <2>1 DEF HandlerCovers, Handlers
<1>2. CASE left = {} /\ spawned[c]
  <2>1. doing'[c] = [at |-> "loop", left |-> {}, missing |-> {}]
    BY <1>2 DEF StoreOrLoad, Polling
  <2> QED
    BY <2>1 DEF HandlerCovers, Handlers
<1>3. CASE left = {} /\ ~spawned[c]
  <2>1. doing'[c] = [at |-> "load", left |-> Blobs, missing |-> {}]
    BY <1>3 DEF StoreOrLoad
  <2> QED
    BY <1>3, <2>1 DEF HandlerCovers, Handlers
<1> QED
  BY <1>1, <1>2, <1>3

LEMMA HashedBlobsKeeps ==
    ASSUME Covered, NEW c \in Clients, HashedBlobs(c) PROVE Covered'
<1> DEFINE msg == Head(inbox[c])
<1>1. Receives(c, "HashedBlobs") /\ UNCHANGED <<fate, cache, outbox>>
  BY DEF HashedBlobs
<1>2. /\ Running(c) /\ doing[c] = Polling
      /\ msg \in Elems(inbox[c]) /\ msg.kind = "HashedBlobs"
      /\ inbox' = [x \in Clients |-> inbox'[x]]
      /\ \A x \in Clients : IsSeq(inbox'[x]) /\ Elems(inbox'[x]) \subseteq Elems(inbox[x])
  BY <1>1, ReceivesKeeps DEF Covered
<1>3. CASE ~params[c]
  <2>1. UNCHANGED <<doing, cache, outbox, fate>>
    BY <1>1, <1>3 DEF HashedBlobs
  <2> QED
    BY <1>1, <2>1, ReceivesStep, "off" # "running"
<1>4. CASE params[c]
  <2>1. doing' = [doing EXCEPT ![c] = StoreOrLoad(c, msg.hashes)]
    BY <1>4 DEF HashedBlobs
  <2>2. MessagesCover(c) /\ Covers(c, msg.hashes) /\ \A h : ~InHand(c, h)
    BY <1>2 DEF Covered, CoveredAt, MessagesCover, InHand, Polling
  <2>3. \A h : Good(c, h)' = Good(c, h)
    BY <1>1 DEF Good
  <2>4. doing'[c] = StoreOrLoad(c, msg.hashes)
    BY <2>1 DEF Covered, TablesOK
  <2>5. msg.hashes \subseteq Blobs /\ \A h \in Blobs : h \in msg.hashes \/ Good(c, h)'
    BY <2>2, <2>3 DEF Covers
  <2>6. HandlerCovers(c)' /\ doing'[c] \in Handlers /\ doing'[c].at # "write"
    BY <2>4, <2>5, StoreOrLoadCovers
  <2>7. /\ doing' \in [Clients -> Handlers]
        /\ \A x \in Clients : x # c => doing'[x] = doing[x]
    BY <2>1, <2>6 DEF Covered, TablesOK
  <2>8. TablesOK'
    BY <1>1, <1>2, <2>7 DEF Covered, TablesOK
  <2>9. \A hs : Covers(c, hs) => Covers(c, hs)'
    BY <2>2, <2>3 DEF Covers
  <2>10. MessagesCover(c)'
    BY <1>1, <1>2, <2>2, <2>9 DEF MessagesCover
  <2>11. \A x \in Clients : x # c =>
           /\ fate'[x] = fate[x] /\ doing'[x] = doing[x]
           /\ inbox'[x] = inbox[x] /\ outbox'[x] = outbox[x]
           /\ \A h \in Blobs : Good(x, h) => Good(x, h)'
    BY <1>1, <2>7, FilesKept DEF Covered, TablesOK, Receives
  <2> QED
    BY <2>6, <2>8, <2>10, <2>11, HandlerStep DEF CoveredAt
<1> QED
  BY <1>3, <1>4

\* The file c empties is in its hand, and no longer good to c alone.
LEMMA OpenFileKeeps ==
    ASSUME Covered, NEW c \in Clients, OpenFile(c) PROVE Covered'
<1>1. PICK h \in doing[c].left :
         /\ cache' = [cache EXCEPT ![h] = [is |-> "cut", by |-> c]]
         /\ doing' = [doing EXCEPT ![c].at = "write", ![c].missing = {h}]
  BY DEF OpenFile
<1>2. Running(c) /\ doing[c].at = "store" /\ UNCHANGED <<fate, inbox, outbox>>
  BY DEF OpenFile, netVars
<1>3. doing[c] \in Handlers /\ h \in Blobs
  BY DEF Covered, TablesOK, Handlers
<1>4. doing'[c] = [at |-> "write", left |-> doing[c].left, missing |-> {h}]
  BY <1>1, <1>3 DEF Covered, TablesOK, Handlers
<1>5. doing'[c] \in Handlers
  BY <1>3, <1>4 DEF Handlers
<1>6. doing' \in [Clients -> Handlers] /\ \A x \in Clients : x # c => doing'[x] = doing[x]
  BY <1>1, <1>5 DEF Covered, TablesOK
<1>7. /\ cache'[h] = [is |-> "cut", by |-> c]
      /\ \A y \in Blobs : y # h => cache'[y] = cache[y]
      /\ cache' \in [Blobs -> [is : {"absent", "cut", "whole"}, by : Clients \cup {Nobody}]]
  BY <1>1, <1>3 DEF Covered, TablesOK
<1>8. TablesOK'
  BY <1>2, <1>6, <1>7 DEF Covered, TablesOK
<1>9. \A y \in Blobs : y # h => Good(c, y)' = Good(c, y)
  BY <1>7 DEF Good
<1>10. InHand(c, h)' /\ \A y : ~InHand(c, y)
  BY <1>2, <1>4 DEF InHand
<1>11. MessagesCover(c) /\ HandlerCovers(c)
  BY <1>2 DEF Covered, CoveredAt
<1>12. \A hs : Covers(c, hs) => Covers(c, hs)'
  BY <1>9, <1>10 DEF Covers
<1>13. MessagesCover(c)'
  BY <1>2, <1>11, <1>12 DEF MessagesCover
<1>14. HandlerCovers(c)'
  BY <1>2, <1>4, <1>9, <1>11 DEF HandlerCovers
<1>15. ASSUME NEW x \in Clients, x # c, NEW y \in Blobs, Good(x, y) PROVE Good(x, y)'
  BY <1>7, <1>15 DEF Good
<1>16. \A x \in Clients : x # c =>
          /\ fate'[x] = fate[x] /\ doing'[x] = doing[x]
          /\ inbox'[x] = inbox[x] /\ outbox'[x] = outbox[x]
          /\ \A y \in Blobs : Good(x, y) => Good(x, y)'
  BY <1>2, <1>6, <1>15
<1> QED
  BY <1>8, <1>13, <1>14, <1>16, HandlerStep DEF CoveredAt

\* The file in the hand of c becomes whole.
LEMMA WriteFileKeeps ==
    ASSUME Covered, NEW c \in Clients, WriteFile(c) PROVE Covered'
<1> DEFINE left == doing[c].left \ doing[c].missing
<1>1. /\ Running(c) /\ doing[c].at = "write" /\ UNCHANGED <<fate, inbox, outbox>>
      /\ cache' = [h \in Blobs |->
                     IF h \in doing[c].missing THEN [is |-> "whole", by |-> c] ELSE cache[h]]
      /\ doing' = [doing EXCEPT ![c] = StoreOrLoad(c, left)]
  BY DEF WriteFile, netVars
<1>2. doing[c] \in Handlers
  BY DEF Covered, TablesOK
<1>3. cache' \in [Blobs -> [is : {"absent", "cut", "whole"}, by : Clients \cup {Nobody}]]
  BY <1>1 DEF Covered, TablesOK
<1>4. \A x \in Clients, h \in Blobs : Good(x, h) => Good(x, h)'
  BY <1>1 DEF Good
<1>5. \A h \in Blobs : h \in doing[c].missing => Good(c, h)'
  BY <1>1 DEF Good
<1>6. MessagesCover(c) /\ HandlerCovers(c)
  BY <1>1 DEF Covered, CoveredAt
<1>7. \A h \in Blobs : h \in left \/ Good(c, h)'
  BY <1>1, <1>4, <1>5, <1>6 DEF HandlerCovers
<1>8. doing'[c] = StoreOrLoad(c, left) /\ left \in SUBSET Blobs
  BY <1>1, <1>2 DEF Covered, TablesOK, Handlers
<1>9. HandlerCovers(c)' /\ doing'[c] \in Handlers /\ doing'[c].at # "write"
  BY <1>7, <1>8, StoreOrLoadCovers
<1>10. doing' \in [Clients -> Handlers] /\ \A x \in Clients : x # c => doing'[x] = doing[x]
  BY <1>1, <1>9 DEF Covered, TablesOK
<1>11. TablesOK'
  BY <1>1, <1>3, <1>10 DEF Covered, TablesOK
<1>12. \A hs : Covers(c, hs) => Covers(c, hs)'
  BY <1>4, <1>5 DEF Covers, InHand
<1>13. MessagesCover(c)'
  BY <1>1, <1>6, <1>12 DEF MessagesCover
<1>14. \A x \in Clients : x # c =>
          /\ fate'[x] = fate[x] /\ doing'[x] = doing[x]
          /\ inbox'[x] = inbox[x] /\ outbox'[x] = outbox[x]
          /\ \A y \in Blobs : Good(x, y) => Good(x, y)'
  BY <1>1, <1>4, <1>10
<1> QED
  BY <1>9, <1>11, <1>13, <1>14, HandlerStep DEF CoveredAt

LEMMA LoadImageKeeps ==
    ASSUME Covered, NEW c \in Clients, LoadImage(c) PROVE Covered'
<1>1. PICK h \in doing[c].left :
         IF cache[h].is # "whole" THEN Fail(c) /\ UNCHANGED <<doing, spawned>>
         ELSE IF doing[c].left # {h}
         THEN doing' = [doing EXCEPT ![c].left = @ \ {h}] /\ UNCHANGED <<fate, spawned>>
         ELSE /\ doing' = [doing EXCEPT ![c] = Polling]
              /\ UNCHANGED fate
  BY DEF LoadImage
<1>2. Running(c) /\ doing[c].at = "load" /\ UNCHANGED <<inbox, outbox, cache>>
  BY DEF LoadImage, netVars
<1>3. doing[c] \in Handlers
  BY DEF Covered, TablesOK
<1>4. CASE cache[h].is # "whole"
  <2>1. fate' = [fate EXCEPT ![c] = "failed"] /\ doing' = doing
    BY <1>1, <1>4 DEF Fail
  <2> QED
    BY <1>2, <2>1, FateStep, "failed" # "running"
<1>5. CASE cache[h].is = "whole"
  <2>1. fate' = fate
    BY <1>1, <1>5
  <2>2. \/ doing'[c] = [at |-> "load", left |-> doing[c].left \ {h}, missing |-> doing[c].missing]
        \/ doing'[c] = [at |-> "loop", left |-> {}, missing |-> {}]
    <3>1. /\ doing \in [Clients -> Handlers]
          /\ doing[c] = [at |-> "load", left |-> doing[c].left, missing |-> doing[c].missing]
      BY <1>2, <1>3 DEF Covered, TablesOK, Handlers
    <3>2. CASE doing[c].left # {h}
      BY <1>1, <1>5, <3>1, <3>2
    <3>3. CASE doing[c].left = {h}
      BY <1>1, <1>5, <3>1, <3>3 DEF Polling
    <3> QED
      BY <3>2, <3>3
  <2>3. doing'[c] \in Handlers /\ doing'[c].at \in {"load", "loop"}
    BY <1>3, <2>2 DEF Handlers
  <2>4. doing' \in [Clients -> Handlers] /\ \A x \in Clients : x # c => doing'[x] = doing[x]
    BY <1>1, <1>5, <2>3 DEF Covered, TablesOK
  <2>5. TablesOK'
    BY <1>2, <2>1, <2>4 DEF Covered, TablesOK
  <2>6. \A y : Good(c, y)' = Good(c, y) /\ ~InHand(c, y) /\ ~InHand(c, y)'
    BY <1>2, <2>3 DEF Good, InHand
  <2>7. MessagesCover(c) /\ HandlerCovers(c)
    BY <1>2 DEF Covered, CoveredAt
  <2>8. MessagesCover(c)'
    BY <1>2, <2>6, <2>7 DEF MessagesCover, Covers
  <2>9. HandlerCovers(c)'
    BY <1>2, <2>3, <2>6, <2>7 DEF HandlerCovers
  <2>10. \A x \in Clients : x # c =>
           /\ fate'[x] = fate[x] /\ doing'[x] = doing[x]
           /\ inbox'[x] = inbox[x] /\ outbox'[x] = outbox[x]
           /\ \A y \in Blobs : Good(x, y) => Good(x, y)'
    BY <1>2, <2>1, <2>4, FilesKept
  <2> QED
    BY <2>5, <2>8, <2>9, <2>10, HandlerStep DEF CoveredAt
<1> QED
  BY <1>4, <1>5

\* The server hands over what it is asked for.
LEMMA ServeKeeps ==
    ASSUME Covered, NEW c \in Clients, Serve(c) PROVE Covered'
<1> DEFINE msg == Head(outbox[c])
<1>1. /\ outbox[c] # << >> /\ UNCHANGED <<fate, doing, cache>>
      /\ outbox' = [outbox EXCEPT ![c] = Tail(outbox[c])]
  BY DEF Serve, clientVars
<1>2. /\ msg \in Elems(outbox[c])
      /\ IsSeq(Tail(outbox[c])) /\ Elems(Tail(outbox[c])) \subseteq Elems(outbox[c])
  BY <1>1, ElemsTail DEF Covered, TablesOK
<1>3. /\ outbox' = [x \in Clients |-> outbox'[x]]
      /\ \A x \in Clients : x # c => outbox'[x] = outbox[x]
      /\ \A x \in Clients : IsSeq(outbox'[x]) /\ Elems(outbox'[x]) \subseteq Elems(outbox[x])
  BY <1>1, <1>2 DEF Covered, TablesOK
<1>4. \E ans : /\ Answers(c, <<ans>>)
               /\ \/ ans.kind # "HashedBlobs"
                  \/ msg.kind = "GetHashedBlobs" /\ ans.hashes = msg.hashes
  <2>1. CASE msg.kind = "LogIn"
    <3>1. \/ Answers(c, <<[kind |-> "HashEnrollment"]>>)
          \/ Answers(c, <<[kind |-> "HashParamsBpub"]>>)
      BY <2>1 DEF Serve
    <3> QED
      BY <3>1
  <2>2. CASE msg.kind \in {"SendHash", "SendM1"}
    <3>1. \/ Answers(c, <<[kind |-> "GameParams"]>>)
          \/ Answers(c, <<[kind |-> "LogInFail"]>>)
      BY <2>2 DEF Serve, Admit
    <3> QED
      BY <3>1
  <2>3. CASE msg.kind = "GetHashedBlobs"
    <3>1. Answers(c, <<[kind |-> "HashedBlobs", hashes |-> msg.hashes]>>)
      BY <2>3 DEF Serve
    <3> QED
      BY <2>3, <3>1
  <2> QED
    BY <2>1, <2>2, <2>3 DEF Serve
<1>5. PICK ans : /\ Answers(c, <<ans>>)
                 /\ \/ ans.kind # "HashedBlobs"
                    \/ msg.kind = "GetHashedBlobs" /\ ans.hashes = msg.hashes
  BY <1>4
<1>6. /\ inbox' = [x \in Clients |-> inbox'[x]]
      /\ \A x \in Clients : IsSeq(inbox'[x])
      /\ \A x \in Clients : x # c => inbox'[x] = inbox[x]
      /\ Elems(inbox'[c]) \subseteq Elems(inbox[c]) \cup {ans}
  BY <1>5, AnswersKeeps DEF Covered
<1>7. TablesOK'
  BY <1>1, <1>3, <1>6 DEF Covered, TablesOK
<1>8. CoveredAt(c)'
  <2> SUFFICES ASSUME Running(c)' PROVE MessagesCover(c)' /\ HandlerCovers(c)'
    BY DEF CoveredAt
  <2>1. MessagesCover(c) /\ HandlerCovers(c)
    BY <1>1 DEF Covered, CoveredAt, Running
  <2>2. \A h : Good(c, h)' = Good(c, h) /\ InHand(c, h)' = InHand(c, h)
    BY <1>1 DEF Good, InHand
  <2>3. \A hs : Covers(c, hs) => Covers(c, hs)'
    BY <2>2 DEF Covers
  <2>4. ans.kind = "HashedBlobs" => Covers(c, ans.hashes)
    BY <1>2, <1>5, <2>1 DEF MessagesCover
  <2>5. MessagesCover(c)'
    BY <1>3, <1>6, <2>1, <2>3, <2>4 DEF MessagesCover
  <2>6. HandlerCovers(c)'
    BY <1>1, <2>1, <2>2 DEF HandlerCovers
  <2> QED
    BY <2>5, <2>6
<1>9. \A x \in Clients : x # c =>
         /\ fate'[x] = fate[x] /\ doing'[x] = doing[x]
         /\ inbox'[x] = inbox[x] /\ outbox'[x] = outbox[x]
         /\ \A h \in Blobs : Good(x, h) => Good(x, h)'
  BY <1>1, <1>3, <1>6, FilesKept
<1> QED
  BY <1>7, <1>8, <1>9, HandlerStep

-----------------------------------------------------------------------------
LEMMA CoveredInit == Init => Covered
<1> SUFFICES ASSUME Init PROVE Covered
  OBVIOUS
<1>1. PICK s \in Situations :
         cache = [h \in Blobs |->
                    [is |-> IF h \in s.cached THEN "whole" ELSE "absent", by |-> Nobody]]
  BY DEF Init
<1>2. /\ fate = [c \in Clients |-> "off"] /\ doing = [c \in Clients |-> Polling]
      /\ inbox = [c \in Clients |-> << >>] /\ outbox = [c \in Clients |-> << >>]
  BY DEF Init
<1>3. Polling \in Handlers
  BY DEF Polling, Handlers
<1>4. cache \in [Blobs -> [is : {"absent", "cut", "whole"}, by : Clients \cup {Nobody}]]
  BY <1>1
<1>5. TablesOK
  BY <1>2, <1>3, <1>4, NoElems DEF TablesOK
<1>6. \A c \in Clients : ~Running(c)
  BY <1>2 DEF Running
<1> QED
  BY <1>5, <1>6 DEF Covered, CoveredAt

\* The steps of c that do not touch messages, handlers or the cache.
LEMMA QuietActions ==
    ASSUME Covered, NEW c \in Clients,
           Kill(c) \/ OpenInventory(c) \/ HandleMouseButtons(c) \/ Mesh(c) \/ RecvVbuffs(c)
             \/ GhostLeaves(c)
    PROVE  Covered'
<1>1. CASE Kill(c)
  <2>1. fate' = [fate EXCEPT ![c] = "off"] /\ UNCHANGED <<doing, cache, inbox, outbox>>
    BY <1>1 DEF Kill, netVars
  <2> QED
    BY <2>1, FateStep, "off" # "running"
<1>2. CASE OpenInventory(c)
  <2>1. fate' = [fate EXCEPT ![c] = "failed"] /\ UNCHANGED <<doing, cache, inbox, outbox>>
    BY <1>2 DEF OpenInventory, Fail, netVars
  <2> QED
    BY <2>1, FateStep, "failed" # "running"
<1>3. CASE HandleMouseButtons(c)
  <2>1. /\ fate' = fate \/ fate' = [fate EXCEPT ![c] = "failed"]
        /\ UNCHANGED <<doing, cache, inbox, outbox>>
    BY <1>3 DEF HandleMouseButtons, Edit, Fail, netVars
  <2> QED
    BY <2>1, FateStep, "failed" # "running"
<1>4. CASE Mesh(c) \/ RecvVbuffs(c) \/ GhostLeaves(c)
  <2>1. UNCHANGED <<fate, doing, cache, inbox, outbox>>
    BY <1>4 DEF Mesh, RecvVbuffs, GhostLeaves, clientVars, netVars
  <2> QED
    BY <2>1, FateStep, "off" # "running"
<1> QED
  BY <1>1, <1>2, <1>3, <1>4

LEMMA HandleKeeps ==
    ASSUME Covered, NEW c \in Clients, Handle(c) PROVE Covered'
<1>1. CASE LogInFail(c)
  <2>1. /\ Receives(c, "LogInFail") /\ UNCHANGED <<doing, cache, outbox>>
        /\ fate' = [fate EXCEPT ![c] = "refused"]
    BY <1>1 DEF LogInFail
  <2> QED
    BY <2>1, ReceivesStep, "refused" # "running"
<1>2. CASE ChunkUpdated(c)
  <2>1. Receives(c, "ChunkUpdated") /\ UNCHANGED <<doing, cache, outbox, fate>>
    BY <1>2 DEF ChunkUpdated, clientVars
  <2> QED
    BY <2>1, ReceivesStep, "off" # "running"
<1> QED
  BY <1>1, <1>2, HashEnrollmentKeeps, HashParamsBpubKeeps, GameParamsKeeps, HashedBlobsKeeps,
     FindUncachedKeeps, OpenFileKeeps, WriteFileKeeps, LoadImageKeeps DEF Handle

LEMMA CoveredNext == Covered /\ [Next]_vars => Covered'
<1> SUFFICES ASSUME Covered, [Next]_vars PROVE Covered'
  OBVIOUS
<1>1. CASE UNCHANGED vars
  BY <1>1 DEF vars, clientVars, netVars, Covered, TablesOK, CoveredAt, Running,
     MessagesCover, HandlerCovers, Covers, InHand, Good
<1>2. CASE Next
  <2>1. PICK c \in Clients :
           \/ New(c) \/ Kill(c) \/ OpenInventory(c) \/ HandleMouseButtons(c)
           \/ Handle(c) \/ RecvVbuffs(c) \/ Mesh(c) \/ ServerStep(c)
    BY <1>2 DEF Next
  <2> QED
    BY <2>1, NewKeeps, QuietActions, HandleKeeps, ServeKeeps, SendChunkKeeps DEF ServerStep
<1> QED
  BY <1>1, <1>2

LEMMA CoveredIsEnough == Covered => OnlyAClashFails
<1> SUFFICES ASSUME Covered, NEW c \in Clients, NEW h \in Blobs,
                    Running(c), doing[c].at = "load", cache[h].is # "whole"
             PROVE  cache[h].is = "cut" /\ cache[h].by # c
  BY DEF OnlyAClashFails
<1>1. Good(c, h)
  BY DEF Covered, CoveredAt, HandlerCovers
<1> QED
  BY <1>1 DEF Good

\* A client that cannot load a texture has been disturbed by another one
\* (find_uncached_hashes, store_hashed_blobs, load_image_inner), for any number
\* of clients that share the cache, and wherever they are ended.
THEOREM FailuresAreClashes == Spec => []OnlyAClashFails
<1>1. Init => Covered
  BY CoveredInit
<1>2. Covered /\ [Next]_vars => Covered'
  BY CoveredNext
<1>3. Covered => OnlyAClashFails
  BY CoveredIsEnough
<1> QED
  BY <1>1, <1>2, <1>3, PTL DEF Spec

-----------------------------------------------------------------------------
(* Meshgen: a row *)

Item(items, v) == IF v < Size THEN items[v] ELSE {}

\* f is the walker after each of the first n turns.
Walks(f, items, n) ==
    f = [v \in 0..n |->
           IF v = 0 THEN Walker
           ELSE WalkerNext(f[v - 1], v - 1, IF v <= Size THEN items[v - 1] ELSE {})]

LEMMA WalkExists ==
    ASSUME NEW items, NEW n \in Nat
    PROVE  \E f : Walks(f, items, n)
<1> DEFINE Bad == {k \in Nat : ~ \E f : Walks(f, items, k)}
<1> SUFFICES ASSUME Bad # {} PROVE FALSE
  OBVIOUS
<1>1. PICK m \in Bad : \A k \in Bad : m <= k
  BY Smallest
<1>2. Walks([v \in 0..0 |-> Walker], items, 0)
  BY DEF Walks
<1>3. m \in Nat /\ m # 0
  BY <1>2
<1>4. m - 1 \in Nat /\ m - 1 \notin Bad
  BY <1>1, <1>3
<1>5. PICK g : Walks(g, items, m - 1)
  BY <1>4
<1> DEFINE last == WalkerNext(g[m - 1], m - 1, IF m <= Size THEN items[m - 1] ELSE {})
           f == [v \in 0..m |-> IF v = m THEN last ELSE g[v]]
<1>6. ASSUME NEW v \in 0..m
      PROVE  f[v] = IF v = 0 THEN Walker
                    ELSE WalkerNext(f[v - 1], v - 1, IF v <= Size THEN items[v - 1] ELSE {})
  <2>1. CASE v = m
    <3>1. f[m] = last /\ f[m - 1] = g[m - 1]
      BY <1>3
    <3> QED
      BY <2>1, <3>1, <1>3
  <2>2. CASE v # m
    <3>1. v \in 0..(m - 1)
      BY <2>2, <1>3
    <3>2. g[v] = IF v = 0 THEN Walker
                 ELSE WalkerNext(g[v - 1], v - 1, IF v <= Size THEN items[v - 1] ELSE {})
      BY <1>5, <3>1 DEF Walks
    <3>3. f[v] = g[v] /\ (v # 0 => f[v - 1] = g[v - 1])
      BY <3>1, <2>2
    <3> QED
      BY <3>2, <3>3
  <2> QED
    BY <2>1, <2>2
<1>7. Walks(f, items, m)
  BY <1>6 DEF Walks
<1> QED
  BY <1>7

LEMMA WalkRowIs ==
    ASSUME NEW items
    PROVE  \E f : Walks(f, items, Size + 1) /\ WalkRow(items) = f[Size + 1].out
<1> DEFINE f == CHOOSE f : Walks(f, items, Size + 1)
<1>1. Walks(f, items, Size + 1)
  BY WalkExists, MeshAssumption
<1>2. WalkRow(items) = f[Size + 1].out
  BY DEF WalkRow, Walks
<1> QED
  BY <1>1, <1>2

Spans(s, v) == s.from <= v /\ v < s.from + s.len

\* The walker after the first k turns: what is out ends where its rectangle begins.
WalkerOK(w, items, k) ==
    /\ w = [from |-> w.from, item |-> w.item, out |-> w.out]
    /\ w.from \in Nat
    /\ k = 0 => w.from = 0 /\ w.item = {} /\ w.out = {}
    /\ k # 0 => w.from < k
    /\ \A v \in Nat : w.from <= v /\ v < k => Item(items, v) = w.item
    /\ \A s \in w.out :
          /\ s.from \in Nat /\ s.len \in Nat \ {0} /\ s.from + s.len <= w.from
          /\ \A v \in Nat : Spans(s, v) => Item(items, v) = {s.tex}
    /\ \A v \in Nat : v < w.from =>
          \A t \in Item(items, v) : \E s \in w.out : Spans(s, v) /\ s.tex = t
    /\ \A s, r \in w.out : \A v \in Nat : Spans(s, v) /\ Spans(r, v) => s = r

LEMMA WalkerKeeps ==
    ASSUME NEW items, NEW w, NEW k \in Nat, WalkerOK(w, items, k),
           \A v \in Nat : \A a, b \in Item(items, v) : a = b
    PROVE  WalkerOK(WalkerNext(w, k, Item(items, k)), items, k + 1)
<1> DEFINE item == Item(items, k)
           seg(t) == [from |-> w.from, len |-> k - w.from, tex |-> t]
           segs == {seg(t) : t \in w.item}
           n == WalkerNext(w, k, item)
<1>1. CASE item = w.item
  <2>1. n = w
    BY <1>1 DEF WalkerNext
  <2>2. \A v \in Nat : w.from <= v /\ v < k + 1 => Item(items, v) = w.item
    BY <1>1 DEF WalkerOK
  <2>3. w.from \in Nat /\ k + 1 # 0 /\ w.from < k + 1
    BY DEF WalkerOK
  <2>4. WalkerOK(w, items, k + 1)
    BY <2>2, <2>3 DEF WalkerOK
  <2> QED
    BY <2>1, <2>4
<1>2. CASE item # w.item
  <2>1. n = [from |-> k, item |-> item, out |-> w.out \cup segs]
    BY <1>2 DEF WalkerNext
  <2>2. ASSUME NEW t \in w.item
        PROVE  /\ k # 0 /\ w.from < k /\ w.item = {t}
               /\ \A v \in Nat : Spans(seg(t), v) <=> (w.from <= v /\ v < k)
    <3>1. k # 0 /\ w.from < k /\ w.from \in Nat
      BY DEF WalkerOK
    <3>2. Item(items, k - 1) = w.item
      BY <3>1 DEF WalkerOK
    <3>3. w.item = {t}
      BY <3>1, <3>2
    <3> QED
      BY <3>1, <3>3 DEF Spans
  <2>3. ASSUME NEW s \in segs
        PROVE  /\ s.from \in Nat /\ s.len \in Nat \ {0} /\ s.from + s.len <= k
               /\ \A v \in Nat : Spans(s, v) => Item(items, v) = {s.tex} /\ w.from <= v
    <3>1. PICK t \in w.item : s = seg(t)
      OBVIOUS
    <3>2. s.from = w.from /\ s.len = k - w.from /\ s.tex = t /\ w.from \in Nat
      BY <3>1 DEF WalkerOK
    <3>3. ASSUME NEW v \in Nat, Spans(s, v) PROVE Item(items, v) = {s.tex} /\ w.from <= v
      <4>1. w.from <= v /\ v < k
        BY <2>2, <3>1, <3>3
      <4> QED
        BY <4>1, <2>2, <3>2 DEF WalkerOK
    <3> QED
      BY <2>2, <3>2, <3>3
  <2>4. ASSUME NEW s \in w.out
        PROVE  /\ s.from \in Nat /\ s.len \in Nat \ {0} /\ s.from + s.len <= k
               /\ \A v \in Nat : Spans(s, v) => Item(items, v) = {s.tex} /\ v < w.from
    <3>1. s.from \in Nat /\ s.len \in Nat \ {0} /\ s.from + s.len <= w.from /\ w.from \in Nat
      BY DEF WalkerOK
    <3>2. w.from <= k
      BY DEF WalkerOK
    <3> QED
      BY <3>1, <3>2 DEF WalkerOK, Spans
  <2>5. ASSUME NEW s \in segs, NEW r \in segs PROVE s = r
    BY <2>2
  <2>6. ASSUME NEW v \in Nat, v < k, NEW t \in Item(items, v)
        PROVE  \E s \in w.out \cup segs : Spans(s, v) /\ s.tex = t
    <3>1. CASE v < w.from
      BY <3>1 DEF WalkerOK
    <3>2. CASE w.from <= v
      <4>1. t \in w.item
        BY <3>2, <2>6 DEF WalkerOK
      <4>2. seg(t) \in segs /\ Spans(seg(t), v) /\ seg(t).tex = t
        BY <4>1, <3>2, <2>2, <2>6
      <4> QED
        BY <4>2
    <3> QED
      BY <3>1, <3>2 DEF WalkerOK
  <2>7. ASSUME NEW s \in w.out \cup segs, NEW r \in w.out \cup segs, NEW v \in Nat,
               Spans(s, v), Spans(r, v)
        PROVE  s = r
    <3>1. w.from \in Nat
      BY DEF WalkerOK
    <3>2. CASE s \in w.out /\ r \in w.out
      BY <3>2, <2>7 DEF WalkerOK
    <3>3. CASE s \in segs /\ r \in segs
      BY <3>3, <2>5
    <3>4. CASE s \in w.out /\ r \in segs
      BY <3>1, <3>4, <2>3, <2>4, <2>7
    <3>5. CASE s \in segs /\ r \in w.out
      BY <3>1, <3>5, <2>3, <2>4, <2>7
    <3> QED
      BY <3>2, <3>3, <3>4, <3>5
  <2>8. \A v \in Nat : k <= v /\ v < k + 1 => Item(items, v) = item
    OBVIOUS
  <2>9. \A s \in w.out \cup segs :
          /\ s.from \in Nat /\ s.len \in Nat \ {0} /\ s.from + s.len <= k
          /\ \A v \in Nat : Spans(s, v) => Item(items, v) = {s.tex}
    BY <2>3, <2>4
  <2>10. n.from = k /\ n.item = item /\ n.out = w.out \cup segs
    BY <2>1
  <2>11. n = [from |-> n.from, item |-> n.item, out |-> n.out]
    BY <2>1, <2>10
  <2>12. k + 1 # 0 /\ k < k + 1 /\ \A v \in Nat : v < k => v < k + 1
    OBVIOUS
  <2> HIDE DEF n, item, segs
  <2>13. \A v \in Nat : v < n.from =>
           \A t \in Item(items, v) : \E s \in n.out : Spans(s, v) /\ s.tex = t
    BY <2>6, <2>10
  <2>14. \A s, r \in n.out : \A v \in Nat : Spans(s, v) /\ Spans(r, v) => s = r
    BY <2>7, <2>10
  <2>15. \A v \in Nat : n.from <= v /\ v < k + 1 => Item(items, v) = n.item
    BY <2>8, <2>10
  <2>16. n.from \in Nat /\ n.from < k + 1
    BY <2>10, <2>12
  <2>17. \A s \in n.out :
           /\ s.from \in Nat /\ s.len \in Nat \ {0} /\ s.from + s.len <= n.from
           /\ \A v \in Nat : Spans(s, v) => Item(items, v) = {s.tex}
    BY <2>9, <2>10
  <2>18. WalkerOK(n, items, k + 1)
    BY <2>11, <2>12, <2>13, <2>14, <2>15, <2>16, <2>17 DEF WalkerOK
  <2> QED
    BY <2>18 DEF n, item
<1> QED
  BY <1>1, <1>2

\* What the walker makes of a row: rectangles of one texture each, that do not overlap and
\* leave nothing out.
RowIsCut(segs, items) ==
    /\ \A s \in segs :
          /\ s.from \in Nat /\ s.len \in Nat \ {0} /\ s.from + s.len <= Size
          /\ \A v \in 0..Size - 1 : Spans(s, v) => items[v] = {s.tex}
    /\ \A v \in 0..Size - 1 : \A t \in items[v] : \E s \in segs : Spans(s, v) /\ s.tex = t
    /\ \A s, r \in segs : \A v \in 0..Size - 1 : Spans(s, v) /\ Spans(r, v) => s = r

LEMMA RowsAreCut ==
    ASSUME NEW items, \A v \in 0..Size - 1 : \A a, b \in items[v] : a = b
    PROVE  RowIsCut(WalkRow(items), items)
<1>1. PICK f : Walks(f, items, Size + 1) /\ WalkRow(items) = f[Size + 1].out
  BY WalkRowIs
<1>2. Size \in Nat \ {0}
  BY MeshAssumption
<1> DEFINE Bad == {k \in 0..Size + 1 : ~WalkerOK(f[k], items, k)}
<1>3. \A v \in Nat : \A a, b \in Item(items, v) : a = b
  BY <1>2 DEF Item
<1>4. Bad = {}
  <2> SUFFICES ASSUME Bad # {} PROVE FALSE
    OBVIOUS
  <2>1. Bad \subseteq Nat
    BY <1>2
  <2>2. PICK k \in Bad : \A j \in Bad : k <= j
    BY <2>1, Smallest
  <2>3. f[0] = Walker
    BY <1>1, <1>2 DEF Walks
  <2>4. WalkerOK(f[0], items, 0)
    BY <2>3 DEF WalkerOK, Walker
  <2>5. k \in Nat /\ k # 0 /\ k - 1 \in 0..Size + 1
    BY <2>4, <1>2
  <2>6. WalkerOK(f[k - 1], items, k - 1)
    BY <2>2, <2>5
  <2>7. f[k] = WalkerNext(f[k - 1], k - 1, IF k <= Size THEN items[k - 1] ELSE {})
    BY <1>1, <2>5 DEF Walks
  <2>8. f[k] = WalkerNext(f[k - 1], k - 1, Item(items, k - 1))
    BY <2>7, <2>5, <1>2 DEF Item
  <2>9. WalkerOK(f[k], items, (k - 1) + 1)
    BY <2>5, <2>6, <2>8, <1>3, WalkerKeeps
  <2> QED
    BY <2>5, <2>9
<1>5. WalkerOK(f[Size + 1], items, Size + 1)
  BY <1>2, <1>4
<1> DEFINE w == f[Size + 1]
<1>6. w.from \in Nat /\ w.from <= Size
  BY <1>2, <1>5 DEF WalkerOK
<1>7. w.item = {}
  <2>1. Item(items, Size) = w.item
    BY <1>2, <1>5, <1>6 DEF WalkerOK
  <2> QED
    BY <2>1, <1>2 DEF Item
<1>8. \A v \in 0..Size - 1 : Item(items, v) = items[v] /\ v \in Nat
  BY <1>2 DEF Item
<1>9. ASSUME NEW s \in w.out
      PROVE  /\ s.from \in Nat /\ s.len \in Nat \ {0} /\ s.from + s.len <= Size
             /\ \A v \in 0..Size - 1 : Spans(s, v) => items[v] = {s.tex}
  BY <1>2, <1>5, <1>6, <1>8 DEF WalkerOK
<1>10. ASSUME NEW v \in 0..Size - 1, NEW t \in items[v]
       PROVE  \E s \in w.out : Spans(s, v) /\ s.tex = t
  <2>1. v < w.from
    BY <1>2, <1>5, <1>6, <1>7, <1>8 DEF WalkerOK
  <2> QED
    BY <2>1, <1>5, <1>8 DEF WalkerOK
<1>11. \A s, r \in w.out : \A v \in 0..Size - 1 : Spans(s, v) /\ Spans(r, v) => s = r
  BY <1>5, <1>8 DEF WalkerOK
<1> QED
  BY <1>1, <1>9, <1>10, <1>11 DEF RowIsCut

-----------------------------------------------------------------------------
(* Meshgen: the six passes *)

Vec == Int \X Int \X Int
IsPass(pass) == \E i \in DOMAIN Passes : pass = Passes[i]

LEMMA SixPasses ==
    ASSUME NEW pass, IsPass(pass)
    PROVE  \/ pass = [off |-> <<0, 0, -1>>, axis |-> 2, face |-> "bottom", rev |-> FALSE]
           \/ pass = [off |-> <<0, -1, 0>>, axis |-> 1, face |-> "sides",  rev |-> TRUE]
           \/ pass = [off |-> <<-1, 0, 0>>, axis |-> 2, face |-> "sides",  rev |-> FALSE]
           \/ pass = [off |-> <<0, 0, 1>>,  axis |-> 2, face |-> "top",    rev |-> TRUE]
           \/ pass = [off |-> <<0, 1, 0>>,  axis |-> 1, face |-> "sides",  rev |-> FALSE]
           \/ pass = [off |-> <<1, 0, 0>>,  axis |-> 2, face |-> "sides",  rev |-> TRUE]
<1>1. PICK i \in DOMAIN Passes : pass = Passes[i]
  BY DEF IsPass
<1>2. i \in 1..6
  BY <1>1 DEF Passes
<1>3. i = 1 \/ i = 2 \/ i = 3 \/ i = 4 \/ i = 5 \/ i = 6
  BY <1>2
<1>4. CASE i = 1
  BY <1>1, <1>4 DEF Passes
<1>5. CASE i = 2
  BY <1>1, <1>5 DEF Passes
<1>6. CASE i = 3
  BY <1>1, <1>6 DEF Passes
<1>7. CASE i = 4
  BY <1>1, <1>7 DEF Passes
<1>8. CASE i = 5
  BY <1>1, <1>8 DEF Passes
<1>9. CASE i = 6
  BY <1>1, <1>9 DEF Passes
<1> QED
  BY <1>3, <1>4, <1>5, <1>6, <1>7, <1>8, <1>9

LEMMA PassIs ==
    ASSUME NEW pass, IsPass(pass)
    PROVE  /\ pass.axis \in 1..3
           /\ pass.off = <<pass.off[1], pass.off[2], pass.off[3]>>
           /\ \A i \in 1..3 : pass.off[i] \in {-1, 0, 1}
           /\ pass.off[pass.axis] = 0
BY SixPasses

LEMMA VecIs ==
    ASSUME NEW v \in Vec
    PROVE  v = <<v[1], v[2], v[3]>> /\ v[1] \in Int /\ v[2] \in Int /\ v[3] \in Int
BY DEF Vec

LEMMA CellIsVec == \A c \in Cells : c \in Vec
BY MeshAssumption DEF Cells, Vec

LEMMA UnitIs ==
    ASSUME NEW axis \in 1..3
    PROVE  \A i \in 1..3 : Unit(axis)[i] = IF i = axis THEN 1 ELSE 0
BY DEF Unit

LEMMA CellOfIs ==
    ASSUME NEW pass, IsPass(pass), NEW row \in Rows(pass), NEW v \in Int
    PROVE  CellOf(pass, row, v) = << IF pass.axis = 1 THEN v ELSE row[1],
                                     IF pass.axis = 2 THEN v ELSE row[2],
                                     IF pass.axis = 3 THEN v ELSE row[3] >>
<1>1. row \in Vec /\ row[pass.axis] = 0
  BY CellIsVec DEF Rows
<1>2. row[1] \in Int /\ row[2] \in Int /\ row[3] \in Int
  BY <1>1, VecIs
<1>3. pass.axis \in 1..3
  BY PassIs
<1>4. Unit(pass.axis)[1] = (IF pass.axis = 1 THEN 1 ELSE 0)
      /\ Unit(pass.axis)[2] = (IF pass.axis = 2 THEN 1 ELSE 0)
      /\ Unit(pass.axis)[3] = (IF pass.axis = 3 THEN 1 ELSE 0)
  BY <1>3, UnitIs
<1>5. pass.axis = 1 \/ pass.axis = 2 \/ pass.axis = 3
  BY <1>3
<1>6. CASE pass.axis = 1
  BY <1>1, <1>2, <1>4, <1>6 DEF CellOf, Plus, Times
<1>7. CASE pass.axis = 2
  BY <1>1, <1>2, <1>4, <1>7 DEF CellOf, Plus, Times
<1>8. CASE pass.axis = 3
  BY <1>1, <1>2, <1>4, <1>8 DEF CellOf, Plus, Times
<1> QED
  BY <1>5, <1>6, <1>7, <1>8

\* A pass goes over each cell once.
LEMMA CellsOfRows ==
    ASSUME NEW pass, IsPass(pass)
    PROVE  /\ \A row \in Rows(pass), v \in 0..Size - 1 : CellOf(pass, row, v) \in Cells
           /\ \A c \in Cells : \E row \in Rows(pass), v \in 0..Size - 1 : c = CellOf(pass, row, v)
           /\ \A row, other \in Rows(pass), v, w \in Int :
                 CellOf(pass, row, v) = CellOf(pass, other, w) => row = other /\ v = w
<1>1. pass.axis = 1 \/ pass.axis = 2 \/ pass.axis = 3
  BY PassIs
<1>2. Size \in Nat \ {0}
  BY MeshAssumption
<1>3. ASSUME NEW row \in Rows(pass), NEW v \in 0..Size - 1 PROVE CellOf(pass, row, v) \in Cells
  <2>1. row[1] \in 0..Size - 1 /\ row[2] \in 0..Size - 1 /\ row[3] \in 0..Size - 1
    BY DEF Rows, Cells
  <2>2. v \in Int
    BY <1>2
  <2> QED
    BY <2>1, <2>2, <1>1, CellOfIs DEF Cells
<1>4. ASSUME NEW c \in Cells
      PROVE  \E row \in Rows(pass), v \in 0..Size - 1 : c = CellOf(pass, row, v)
  <2>1. c = <<c[1], c[2], c[3]>> /\ c[1] \in 0..Size - 1 /\ c[2] \in 0..Size - 1 /\ c[3] \in 0..Size - 1
    BY DEF Cells
  <2> DEFINE row == << IF pass.axis = 1 THEN 0 ELSE c[1],
                       IF pass.axis = 2 THEN 0 ELSE c[2],
                       IF pass.axis = 3 THEN 0 ELSE c[3] >>
             v == c[pass.axis]
  <2>2. row \in Cells
    BY <2>1, <1>2 DEF Cells
  <2>3. row[pass.axis] = 0
    BY <1>1
  <2>4. row \in Rows(pass)
    BY <2>2, <2>3 DEF Rows
  <2>5. v \in 0..Size - 1 /\ v \in Int
    BY <2>1, <1>1
  <2>6. CellOf(pass, row, v) = << IF pass.axis = 1 THEN v ELSE row[1],
                                  IF pass.axis = 2 THEN v ELSE row[2],
                                  IF pass.axis = 3 THEN v ELSE row[3] >>
    BY <2>4, <2>5, CellOfIs
  <2>7. CellOf(pass, row, v) = c
    BY <2>1, <2>6, <1>1
  <2> QED
    BY <2>4, <2>5, <2>7
<1>5. ASSUME NEW row \in Rows(pass), NEW other \in Rows(pass), NEW v \in Int, NEW w \in Int,
             CellOf(pass, row, v) = CellOf(pass, other, w)
      PROVE  row = other /\ v = w
  <2>1. row = <<row[1], row[2], row[3]>> /\ other = <<other[1], other[2], other[3]>>
    BY DEF Rows, Cells
  <2>2. row[pass.axis] = 0 /\ other[pass.axis] = 0
    BY DEF Rows
  <2> QED
    BY <2>1, <2>2, <1>1, <1>5, CellOfIs
<1> QED
  BY <1>3, <1>4, <1>5

LEMMA RectangleIs ==
    ASSUME NEW pass, IsPass(pass), NEW offs \in Vec, NEW row \in Rows(pass), NEW s,
           s.from \in Nat, s.len \in Nat \ {0}
    PROVE  LET q == Rectangle(offs, pass, row, s)
               c == CellOf(pass, row, s.from)
           IN  /\ q = [at |-> q.at, size |-> q.size, rev |-> pass.rev, tex |-> s.tex]
               /\ \A i \in 1..3 : q.at[i] = offs[i] + c[i] + (IF pass.off[i] > 0 THEN 1 ELSE 0)
               /\ \A i \in 1..3 : q.size[i] = IF i = pass.axis THEN s.len
                                              ELSE IF pass.off[i] # 0 THEN 0 ELSE 1
<1> DEFINE q == Rectangle(offs, pass, row, s)
           c == CellOf(pass, row, s.from)
<1>1. offs[1] \in Int /\ offs[2] \in Int /\ offs[3] \in Int
  BY VecIs
<1>2. pass.axis \in 1..3 /\ pass.off[pass.axis] = 0
  BY PassIs
<1>3. \A i \in 1..3 : Plane(pass)[i] = IF pass.off[i] > 0 THEN 1 ELSE 0
  BY DEF Plane
<1>4. \A i \in 1..3 : q.at[i] = offs[i] + c[i] + Plane(pass)[i]
  <2>1. q.at = Plus(Plus(offs, c), Plane(pass))
    BY DEF Rectangle
  <2> HIDE DEF c, q
  <2>2. \A i \in 1..3 : i = 1 \/ i = 2 \/ i = 3
    OBVIOUS
  <2> QED
    BY <2>1, <2>2 DEF Plus
<1>5. \A i \in 1..3 : Across(pass)[i] = IF i = pass.axis \/ pass.off[i] # 0 THEN 0 ELSE 1
  BY DEF Across
<1>6. \A i \in 1..3 : q.size[i] = Across(pass)[i] + s.len * Unit(pass.axis)[i]
  <2>1. q.size = Plus(Across(pass), Times(s.len, Unit(pass.axis)))
    BY DEF Rectangle
  <2> HIDE DEF q
  <2>2. \A i \in 1..3 : i = 1 \/ i = 2 \/ i = 3
    OBVIOUS
  <2> QED
    BY <2>1, <2>2 DEF Plus, Times
<1>7. ASSUME NEW i \in 1..3
      PROVE  q.size[i] = IF i = pass.axis THEN s.len ELSE IF pass.off[i] # 0 THEN 0 ELSE 1
  <2>1. Unit(pass.axis)[i] = IF i = pass.axis THEN 1 ELSE 0
    BY <1>2, UnitIs
  <2> HIDE DEF q
  <2>2. CASE i = pass.axis
    BY <2>1, <2>2, <1>5, <1>6
  <2>3. CASE i # pass.axis
    BY <2>1, <2>3, <1>5, <1>6
  <2> QED
    BY <2>2, <2>3
<1>8. q = [at |-> q.at, size |-> q.size, rev |-> pass.rev, tex |-> s.tex]
  BY DEF Rectangle
<1> HIDE DEF q, c
<1> QED
  BY <1>3, <1>4, <1>7, <1>8 DEF q, c

\* The squares of a rectangle are those of its cells, on the side that the pass is about.
LEMMA SquaresAre ==
    ASSUME NEW pass, IsPass(pass), NEW offs \in Vec, NEW row \in Rows(pass), NEW s,
           s.from \in Nat, s.len \in Nat \ {0}
    PROVE  Squares(Rectangle(offs, pass, row, s)) =
             {[cell |-> Plus(offs, CellOf(pass, row, v)), from |-> pass.off, tex |-> s.tex] :
                v \in s.from..(s.from + s.len - 1)}
<1> DEFINE q == Rectangle(offs, pass, row, s)
           c == CellOf(pass, row, s.from)
           d == SeenFrom(q)
           Low == [i \in 1..3 |-> IF d[i] = 1 THEN q.at[i] - 1 ELSE q.at[i]]
           Extent(i) == IF q.size[i] = 0 THEN {0} ELSE 0..q.size[i] - 1
           of(cell) == [cell |-> cell, from |-> d, tex |-> q.tex]
<1>1. /\ \A i \in 1..3 : q.at[i] = offs[i] + c[i] + (IF pass.off[i] > 0 THEN 1 ELSE 0)
      /\ \A i \in 1..3 : q.size[i] = IF i = pass.axis THEN s.len
                                     ELSE IF pass.off[i] # 0 THEN 0 ELSE 1
      /\ q.rev = pass.rev /\ q.tex = s.tex
  BY RectangleIs
<1>2. Squares(q) = {of(Plus(Low, e)) : e \in Extent(1) \X Extent(2) \X Extent(3)}
  BY DEF Squares
<1> HIDE DEF q
<1>3. d = pass.off
  <2>1. /\ q.size[1] = IF 1 = pass.axis THEN s.len ELSE IF pass.off[1] # 0 THEN 0 ELSE 1
        /\ q.size[2] = IF 2 = pass.axis THEN s.len ELSE IF pass.off[2] # 0 THEN 0 ELSE 1
        /\ q.size[3] = IF 3 = pass.axis THEN s.len ELSE IF pass.off[3] # 0 THEN 0 ELSE 1
    BY <1>1
  <2>2. CASE pass = [off |-> <<0, 0, -1>>, axis |-> 2, face |-> "bottom", rev |-> FALSE]
    BY <1>1, <2>1, <2>2 DEF SeenFrom
  <2>3. CASE pass = [off |-> <<0, -1, 0>>, axis |-> 1, face |-> "sides",  rev |-> TRUE]
    BY <1>1, <2>1, <2>3 DEF SeenFrom
  <2>4. CASE pass = [off |-> <<-1, 0, 0>>, axis |-> 2, face |-> "sides",  rev |-> FALSE]
    BY <1>1, <2>1, <2>4 DEF SeenFrom
  <2>5. CASE pass = [off |-> <<0, 0, 1>>,  axis |-> 2, face |-> "top",    rev |-> TRUE]
    BY <1>1, <2>1, <2>5 DEF SeenFrom
  <2>6. CASE pass = [off |-> <<0, 1, 0>>,  axis |-> 1, face |-> "sides",  rev |-> FALSE]
    BY <1>1, <2>1, <2>6 DEF SeenFrom
  <2>7. CASE pass = [off |-> <<1, 0, 0>>,  axis |-> 2, face |-> "sides",  rev |-> TRUE]
    BY <1>1, <2>1, <2>7 DEF SeenFrom
  <2> QED
    BY <2>2, <2>3, <2>4, <2>5, <2>6, <2>7, SixPasses
<1> HIDE DEF d
<1>4. offs[1] \in Int /\ offs[2] \in Int /\ offs[3] \in Int
  BY VecIs
<1>5. row[1] \in Int /\ row[2] \in Int /\ row[3] \in Int
  <2>1. row \in Vec
    BY CellIsVec DEF Rows
  <2> QED
    BY <2>1, VecIs
<1>6. \A v \in Int : CellOf(pass, row, v) = << IF pass.axis = 1 THEN v ELSE row[1],
                                               IF pass.axis = 2 THEN v ELSE row[2],
                                               IF pass.axis = 3 THEN v ELSE row[3] >>
  BY CellOfIs
<1>7. /\ c[1] = IF pass.axis = 1 THEN s.from ELSE row[1]
      /\ c[2] = IF pass.axis = 2 THEN s.from ELSE row[2]
      /\ c[3] = IF pass.axis = 3 THEN s.from ELSE row[3]
  BY <1>6
<1> HIDE DEF c
<1>8. Low[1] = offs[1] + c[1] /\ Low[2] = offs[2] + c[2] /\ Low[3] = offs[3] + c[3]
  <2>1. ASSUME NEW i \in 1..3 PROVE Low[i] = offs[i] + c[i]
    <3>1. pass.off[i] \in {-1, 0, 1}
      BY PassIs
    <3>2. offs[i] \in Int /\ c[i] \in Int
      BY <1>4, <1>5, <1>7
    <3>3. Low[i] = IF pass.off[i] = 1 THEN q.at[i] - 1 ELSE q.at[i]
      BY <1>3
    <3>4. q.at[i] = offs[i] + c[i] + (IF pass.off[i] > 0 THEN 1 ELSE 0)
      BY <1>1
    <3> HIDE DEF Low
    <3> QED
      BY <3>1, <3>2, <3>3, <3>4
  <2> HIDE DEF Low
  <2> QED
    BY <2>1
<1> HIDE DEF Low
<1>9. pass.axis \in 1..3 /\ pass.off[pass.axis] = 0
  BY PassIs
<1>10. /\ Extent(1) = IF pass.axis = 1 THEN 0..s.len - 1 ELSE {0}
       /\ Extent(2) = IF pass.axis = 2 THEN 0..s.len - 1 ELSE {0}
       /\ Extent(3) = IF pass.axis = 3 THEN 0..s.len - 1 ELSE {0}
  <2>1. 0..1 - 1 = {0}
    OBVIOUS
  <2>2. ASSUME NEW i \in 1..3 PROVE Extent(i) = IF pass.axis = i THEN 0..s.len - 1 ELSE {0}
    BY <1>1, <1>9, <2>1
  <2> QED
    BY <2>2
<1> HIDE DEF Extent
<1>11. ASSUME NEW e1, NEW e2, NEW e3, NEW k \in 0..s.len - 1,
              /\ e1 = IF pass.axis = 1 THEN k ELSE 0
              /\ e2 = IF pass.axis = 2 THEN k ELSE 0
              /\ e3 = IF pass.axis = 3 THEN k ELSE 0
       PROVE  Plus(Low, <<e1, e2, e3>>) = Plus(offs, CellOf(pass, row, s.from + k))
  <2>1. k \in Int /\ s.from + k \in Int /\ s.from \in Int
    OBVIOUS
  <2>2. CellOf(pass, row, s.from + k) = << IF pass.axis = 1 THEN s.from + k ELSE row[1],
                                           IF pass.axis = 2 THEN s.from + k ELSE row[2],
                                           IF pass.axis = 3 THEN s.from + k ELSE row[3] >>
    BY <2>1, <1>6
  <2>3. Low[1] + e1 = offs[1] + (IF pass.axis = 1 THEN s.from + k ELSE row[1])
    BY <2>1, <1>4, <1>5, <1>7, <1>8, <1>11
  <2>4. Low[2] + e2 = offs[2] + (IF pass.axis = 2 THEN s.from + k ELSE row[2])
    BY <2>1, <1>4, <1>5, <1>7, <1>8, <1>11
  <2>5. Low[3] + e3 = offs[3] + (IF pass.axis = 3 THEN s.from + k ELSE row[3])
    BY <2>1, <1>4, <1>5, <1>7, <1>8, <1>11
  <2> QED
    BY <2>2, <2>3, <2>4, <2>5 DEF Plus
<1>12. ASSUME NEW e \in Extent(1) \X Extent(2) \X Extent(3)
       PROVE  \E v \in s.from..(s.from + s.len - 1) : Plus(Low, e) = Plus(offs, CellOf(pass, row, v))
  <2>1. e = <<e[1], e[2], e[3]>> /\ e[1] \in Extent(1) /\ e[2] \in Extent(2) /\ e[3] \in Extent(3)
    OBVIOUS
  <2> DEFINE k == e[pass.axis]
  <2>2. pass.axis = 1 \/ pass.axis = 2 \/ pass.axis = 3
    BY <1>9
  <2>3. /\ k \in 0..s.len - 1
        /\ e[1] = IF pass.axis = 1 THEN k ELSE 0
        /\ e[2] = IF pass.axis = 2 THEN k ELSE 0
        /\ e[3] = IF pass.axis = 3 THEN k ELSE 0
    BY <2>1, <2>2, <1>10
  <2> HIDE DEF k
  <2>4. Plus(Low, e) = Plus(offs, CellOf(pass, row, s.from + k))
    BY <2>1, <2>3, <1>11
  <2>5. s.from + k \in s.from..(s.from + s.len - 1)
    BY <2>3
  <2> QED
    BY <2>4, <2>5
<1>13. ASSUME NEW v \in s.from..(s.from + s.len - 1)
       PROVE  \E e \in Extent(1) \X Extent(2) \X Extent(3) :
                 Plus(Low, e) = Plus(offs, CellOf(pass, row, v))
  <2> DEFINE k == v - s.from
             e == << IF pass.axis = 1 THEN k ELSE 0, IF pass.axis = 2 THEN k ELSE 0,
                     IF pass.axis = 3 THEN k ELSE 0 >>
  <2>1. k \in 0..s.len - 1 /\ s.from + k = v
    OBVIOUS
  <2>2. e \in Extent(1) \X Extent(2) \X Extent(3)
    BY <2>1, <1>10
  <2>3. Plus(Low, e) = Plus(offs, CellOf(pass, row, s.from + k))
    <3> HIDE DEF k
    <3> QED
      BY <2>1, <1>11
  <2> QED
    BY <2>1, <2>2, <2>3
<1>14. \A cell : of(cell) = [cell |-> cell, from |-> pass.off, tex |-> s.tex]
  BY <1>1, <1>3
<1> HIDE DEF of
<1>15. Squares(q) = {of(Plus(offs, CellOf(pass, row, v))) : v \in s.from..(s.from + s.len - 1)}
  BY <1>2, <1>12, <1>13
<1> QED
  BY <1>14, <1>15 DEF q

LEMMA DirectionsAre ==
    /\ \A pass : IsPass(pass) => pass.off \in Directions
    /\ \A d \in Directions : \E pass : IsPass(pass) /\ pass.off = d
<1>1. ASSUME NEW pass, IsPass(pass) PROVE pass.off \in Directions
  <2>1. pass.off \in (-1..1) \X (-1..1) \X (-1..1)
    BY <1>1, SixPasses
  <2>2. \E k \in 1..3 : {i \in 1..3 : pass.off[i] # 0} = {k}
    <3>1. /\ \/ pass.off[1] # 0 /\ pass.off[2] = 0 /\ pass.off[3] = 0
             \/ pass.off[1] = 0 /\ pass.off[2] # 0 /\ pass.off[3] = 0
             \/ pass.off[1] = 0 /\ pass.off[2] = 0 /\ pass.off[3] # 0
      BY <1>1, SixPasses
    <3> DEFINE off == pass.off
    <3>2. (1..3) = {1, 2, 3}
      OBVIOUS
    <3>3. off[1] # 0 /\ off[2] = 0 /\ off[3] = 0 => {i \in 1..3 : off[i] # 0} = {1}
      BY <3>2
    <3>4. off[1] = 0 /\ off[2] # 0 /\ off[3] = 0 => {i \in 1..3 : off[i] # 0} = {2}
      BY <3>2
    <3>5. off[1] = 0 /\ off[2] = 0 /\ off[3] # 0 => {i \in 1..3 : off[i] # 0} = {3}
      BY <3>2
    <3> QED
      BY <3>1, <3>3, <3>4, <3>5
  <2>3. Cardinality({i \in 1..3 : pass.off[i] # 0}) = 1
    BY <2>2, FS_Singleton
  <2> QED
    BY <2>1, <2>3 DEF Directions
<1>2. ASSUME NEW d \in Directions PROVE \E pass : IsPass(pass) /\ pass.off = d
  <2>1. d = <<d[1], d[2], d[3]>> /\ d[1] \in -1..1 /\ d[2] \in -1..1 /\ d[3] \in -1..1
    BY DEF Directions
  <2> DEFINE S == {i \in 1..3 : d[i] # 0}
  <2>2. PICK k : S = {k}
    <3>1. Cardinality(S) = 1
      BY DEF Directions
    <3>2. IsFiniteSet(S)
      <4>1. IsFiniteSet(1..3)
        <5>1. 1 \in Int /\ 3 \in Int
          OBVIOUS
        <5> HIDE DEF S
        <5> QED
          BY <5>1, FS_Interval
      <4>2. S \subseteq 1..3
        OBVIOUS
      <4> QED
        BY <4>1, <4>2, FS_Subset
    <3> QED
      BY <3>1, <3>2, FS_Singleton
  <2>3. k \in 1..3 /\ d[k] # 0 /\ \A i \in 1..3 : i # k => d[i] = 0
    BY <2>2
  <2>4. \/ d = <<1, 0, 0>> \/ d = <<-1, 0, 0>> \/ d = <<0, 1, 0>> \/ d = <<0, -1, 0>>
        \/ d = <<0, 0, 1>> \/ d = <<0, 0, -1>>
    <3>1. CASE k = 1
      BY <2>1, <2>3, <3>1
    <3>2. CASE k = 2
      BY <2>1, <2>3, <3>2
    <3>3. CASE k = 3
      BY <2>1, <2>3, <3>3
    <3> QED
      BY <2>3, <3>1, <3>2, <3>3
  <2>5. \A i \in 1..6 : IsPass(Passes[i])
    BY DEF IsPass, Passes
  <2>6. /\ Passes[1].off = <<0, 0, -1>> /\ Passes[2].off = <<0, -1, 0>>
        /\ Passes[3].off = <<-1, 0, 0>> /\ Passes[4].off = <<0, 0, 1>>
        /\ Passes[5].off = <<0, 1, 0>> /\ Passes[6].off = <<1, 0, 0>>
    BY DEF Passes
  <2>7. IsPass(Passes[1]) /\ IsPass(Passes[2]) /\ IsPass(Passes[3])
        /\ IsPass(Passes[4]) /\ IsPass(Passes[5]) /\ IsPass(Passes[6])
    BY <2>5
  <2> QED
    BY <2>4, <2>6, <2>7
<1> QED
  BY <1>1, <1>2

LEMMA PassesDiffer ==
    ASSUME NEW pass, IsPass(pass), NEW other, IsPass(other), pass.off = other.off
    PROVE  pass = other
<1>1. other.off[1] = pass.off[1] /\ other.off[2] = pass.off[2] /\ other.off[3] = pass.off[3]
  OBVIOUS
<1>2. CASE pass = [off |-> <<0, 0, -1>>, axis |-> 2, face |-> "bottom", rev |-> FALSE]
  BY <1>1, <1>2, SixPasses
<1>3. CASE pass = [off |-> <<0, -1, 0>>, axis |-> 1, face |-> "sides",  rev |-> TRUE]
  BY <1>1, <1>3, SixPasses
<1>4. CASE pass = [off |-> <<-1, 0, 0>>, axis |-> 2, face |-> "sides",  rev |-> FALSE]
  BY <1>1, <1>4, SixPasses
<1>5. CASE pass = [off |-> <<0, 0, 1>>,  axis |-> 2, face |-> "top",    rev |-> TRUE]
  BY <1>1, <1>5, SixPasses
<1>6. CASE pass = [off |-> <<0, 1, 0>>,  axis |-> 1, face |-> "sides",  rev |-> FALSE]
  BY <1>1, <1>6, SixPasses
<1>7. CASE pass = [off |-> <<1, 0, 0>>,  axis |-> 2, face |-> "sides",  rev |-> TRUE]
  BY <1>1, <1>7, SixPasses
<1> QED
  BY <1>2, <1>3, <1>4, <1>5, <1>6, <1>7, SixPasses

\* The side of the cell c in the direction d is to be seen.
IsSeen(chunk, c, d) ==
    IsCube(chunk[c]) /\ (Plus(c, d) \notin Cells \/ ~IsCube(chunk[Plus(c, d)]))

LEMMA CubesAre ==
    ASSUME NEW b
    PROVE  (GetBlTexIds(b) # {}) <=> IsCube(b)
BY MeshAssumption DEF GetBlTexIds, IsCube

LEMMA TexturesAre ==
    ASSUME NEW chunk, NEW c, NEW pass, IsPass(pass)
    PROVE  GetTexInd(chunk, c, pass) =
             IF IsSeen(chunk, c, pass.off) THEN {Texture(chunk[c], pass.off)} ELSE {}
<1> DEFINE b == chunk[c]
<1>1. Blocked(chunk, pass.off, c)
        <=> Plus(c, pass.off) \in Cells /\ IsCube(chunk[Plus(c, pass.off)])
  BY CubesAre DEF Blocked
<1>2. ~IsCube(b) => {ids[pass.face] : ids \in GetBlTexIds(b)} = {}
  BY CubesAre
<1>3. ASSUME IsCube(b) PROVE {ids[pass.face] : ids \in GetBlTexIds(b)} = {Texture(b, pass.off)}
  <2>1. CASE b \in DOMAIN Blocky
    <3>1. GetBlTexIds(b) = {Blocky[b]}
      BY <2>1 DEF GetBlTexIds
    <3>2. Texture(b, pass.off) = IF pass.off[3] = 1 THEN Blocky[b].top
                                 ELSE IF pass.off[3] = -1 THEN Blocky[b].bottom ELSE Blocky[b].sides
      BY <2>1 DEF Texture
    <3>3. Texture(b, pass.off) = Blocky[b][pass.face]
      BY <3>2, SixPasses
    <3> QED
      BY <3>1, <3>3
  <2>2. CASE b \notin DOMAIN Blocky
    <3>1. GetBlTexIds(b) = {[sides |-> Fallback, top |-> Fallback, bottom |-> Fallback]}
      BY <2>2, <1>3 DEF GetBlTexIds, IsCube
    <3>2. pass.face \in {"sides", "top", "bottom"}
      BY SixPasses
    <3>3. Texture(b, pass.off) = Fallback
      BY <2>2 DEF Texture
    <3>4. [sides |-> Fallback, top |-> Fallback, bottom |-> Fallback][pass.face] = Fallback
      BY <3>2
    <3> QED
      BY <3>1, <3>3, <3>4
  <2> QED
    BY <2>1, <2>2
<1> HIDE DEF b
<1>4. GetTexInd(chunk, c, pass) = IF Blocked(chunk, pass.off, c) THEN {}
                                  ELSE {ids[pass.face] : ids \in GetBlTexIds(b)}
  BY DEF GetTexInd, b
<1>5. IsSeen(chunk, c, pass.off) <=> IsCube(b) /\ ~Blocked(chunk, pass.off, c)
  BY <1>1 DEF IsSeen, b
<1>6. CASE IsCube(b)
  BY <1>3, <1>4, <1>5, <1>6 DEF b
<1>7. CASE ~IsCube(b)
  BY <1>2, <1>4, <1>5, <1>7
<1> QED
  BY <1>6, <1>7

Side(offs, chunk, c, d) == [cell |-> Plus(offs, c), from |-> d, tex |-> Texture(chunk[c], d)]

LEMMA SidesAre ==
    ASSUME NEW offs, NEW chunk
    PROVE  /\ \A c \in Cells, d \in Directions :
                 IsSeen(chunk, c, d) => Side(offs, chunk, c, d) \in VisibleSides(offs, chunk)
           /\ \A sq \in VisibleSides(offs, chunk) : \E c \in Cells, d \in Directions :
                 IsSeen(chunk, c, d) /\ sq = Side(offs, chunk, c, d)
<1> DEFINE Dirs(c) == {d \in Directions : Plus(c, d) \notin Cells \/ ~IsCube(chunk[Plus(c, d)])}
           Of(c) == {Side(offs, chunk, c, d) : d \in Dirs(c)}
           Cubes == {c \in Cells : IsCube(chunk[c])}
<1>1. VisibleSides(offs, chunk) = UNION {Of(c) : c \in Cubes}
  BY DEF VisibleSides, Side
<1>2. ASSUME NEW c \in Cells, NEW d \in Directions, IsSeen(chunk, c, d)
      PROVE  Side(offs, chunk, c, d) \in VisibleSides(offs, chunk)
  <2>1. c \in Cubes /\ d \in Dirs(c)
    BY <1>2 DEF IsSeen
  <2> HIDE DEF Cubes, Dirs
  <2> QED
    BY <1>1, <2>1
<1>3. ASSUME NEW sq \in VisibleSides(offs, chunk)
      PROVE  \E c \in Cells, d \in Directions : IsSeen(chunk, c, d) /\ sq = Side(offs, chunk, c, d)
  <2>1. PICK c \in Cubes : sq \in Of(c)
    BY <1>1
  <2>2. PICK d \in Dirs(c) : sq = Side(offs, chunk, c, d)
    BY <2>1
  <2>3. IsSeen(chunk, c, d)
    BY DEF IsSeen
  <2> QED
    BY <2>2, <2>3
<1> QED
  BY <1>2, <1>3

LEMMA RowsOfChunk ==
    ASSUME NEW chunk, NEW pass, IsPass(pass), NEW row
    PROVE  /\ \A v \in 0..Size - 1 :
                 Items(chunk, pass, row)[v] = GetTexInd(chunk, CellOf(pass, row, v), pass)
           /\ RowIsCut(WalkRow(Items(chunk, pass, row)), Items(chunk, pass, row))
<1> DEFINE items == Items(chunk, pass, row)
<1>1. \A v \in 0..Size - 1 : items[v] = GetTexInd(chunk, CellOf(pass, row, v), pass)
  BY DEF Items
<1>2. \A v \in 0..Size - 1 : \A a, b \in items[v] : a = b
  BY <1>1, TexturesAre
<1> HIDE DEF items
<1>3. RowIsCut(WalkRow(items), items)
  BY <1>2, RowsAreCut
<1> QED
  BY <1>1, <1>3 DEF items

\* A square of a rectangle is the side of a cell that is to be seen.
LEMMA SquareIs ==
    ASSUME NEW chunk, NEW offs \in Vec, NEW pass, IsPass(pass), NEW row \in Rows(pass),
           NEW s \in WalkRow(Items(chunk, pass, row)),
           NEW sq \in Squares(Rectangle(offs, pass, row, s))
    PROVE  \E v \in 0..Size - 1 :
              /\ Spans(s, v)
              /\ IsSeen(chunk, CellOf(pass, row, v), pass.off)
              /\ sq = Side(offs, chunk, CellOf(pass, row, v), pass.off)
<1> DEFINE items == Items(chunk, pass, row)
<1>1. RowIsCut(WalkRow(items), items)
  BY RowsOfChunk
<1>2. s.from \in Nat /\ s.len \in Nat \ {0} /\ s.from + s.len <= Size
  BY <1>1 DEF RowIsCut
<1>3. PICK v \in s.from..(s.from + s.len - 1) :
         sq = [cell |-> Plus(offs, CellOf(pass, row, v)), from |-> pass.off, tex |-> s.tex]
  BY <1>2, SquaresAre
<1>4. v \in 0..Size - 1 /\ Spans(s, v)
  BY <1>2, MeshAssumption DEF Spans
<1>5. items[v] = {s.tex}
  BY <1>1, <1>4 DEF RowIsCut
<1>6. GetTexInd(chunk, CellOf(pass, row, v), pass) = {s.tex}
  BY <1>4, <1>5, RowsOfChunk
<1>7. IsSeen(chunk, CellOf(pass, row, v), pass.off)
      /\ Texture(chunk[CellOf(pass, row, v)], pass.off) = s.tex
  BY <1>6, TexturesAre
<1> QED
  BY <1>3, <1>4, <1>7 DEF Side

LEMMA RectanglesAre ==
    ASSUME NEW chunk, NEW offs
    PROVE  /\ \A q \in MeshForChunk(offs, chunk).intransparent :
                 \E pass : IsPass(pass) /\ \E row \in Rows(pass) :
                    \E s \in WalkRow(Items(chunk, pass, row)) : q = Rectangle(offs, pass, row, s)
           /\ \A pass : IsPass(pass) => \A row \in Rows(pass) :
                 \A s \in WalkRow(Items(chunk, pass, row)) :
                    Rectangle(offs, pass, row, s) \in MeshForChunk(offs, chunk).intransparent
<1> DEFINE Of(pass, row) ==
             {Rectangle(offs, pass, row, s) : s \in WalkRow(Items(chunk, pass, row))}
<1>1. \A pass : WalkForAllBlocks(chunk, offs, pass) = UNION {Of(pass, row) : row \in Rows(pass)}
  BY DEF WalkForAllBlocks
<1>2. MeshForChunk(offs, chunk).intransparent
        = UNION {WalkForAllBlocks(chunk, offs, Passes[i]) : i \in DOMAIN Passes}
  BY DEF MeshForChunk
<1>3. ASSUME NEW q \in MeshForChunk(offs, chunk).intransparent
      PROVE  \E pass : IsPass(pass) /\ \E row \in Rows(pass) :
                \E s \in WalkRow(Items(chunk, pass, row)) : q = Rectangle(offs, pass, row, s)
  <2>1. PICK i \in DOMAIN Passes : q \in WalkForAllBlocks(chunk, offs, Passes[i])
    BY <1>2
  <2>2. PICK row \in Rows(Passes[i]) : q \in Of(Passes[i], row)
    BY <1>1, <2>1
  <2>3. \E s \in WalkRow(Items(chunk, Passes[i], row)) : q = Rectangle(offs, Passes[i], row, s)
    BY <2>2
  <2>4. IsPass(Passes[i])
    BY DEF IsPass
  <2> QED
    BY <2>3, <2>4
<1>4. ASSUME NEW pass, IsPass(pass), NEW row \in Rows(pass),
             NEW s \in WalkRow(Items(chunk, pass, row))
      PROVE  Rectangle(offs, pass, row, s) \in MeshForChunk(offs, chunk).intransparent
  <2>1. PICK i \in DOMAIN Passes : pass = Passes[i]
    BY <1>4 DEF IsPass
  <2>2. Rectangle(offs, pass, row, s) \in Of(pass, row)
    OBVIOUS
  <2>3. Rectangle(offs, pass, row, s) \in WalkForAllBlocks(chunk, offs, pass)
    BY <1>1, <2>2
  <2> QED
    BY <1>2, <2>1, <2>3
<1> QED
  BY <1>3, <1>4

LEMMA SidesDiffer ==
    ASSUME NEW offs \in Vec, NEW chunk, NEW c \in Cells, NEW e \in Cells, NEW d, NEW f,
           Side(offs, chunk, c, d) = Side(offs, chunk, e, f)
    PROVE  c = e /\ d = f
<1>1. Plus(offs, c) = Plus(offs, e) /\ d = f
  BY DEF Side
<1>2. offs[1] + c[1] = offs[1] + e[1] /\ offs[2] + c[2] = offs[2] + e[2]
      /\ offs[3] + c[3] = offs[3] + e[3]
  BY <1>1 DEF Plus
<1>3. c \in Vec /\ e \in Vec
  BY CellIsVec
<1> QED
  BY <1>1, <1>2, <1>3, VecIs

\* mesh_for_chunk, for any size of chunks and whatever is in them: each side that can be
\* seen is shown by one rectangle, and nothing else is.
LEMMA MeshShows ==
    ASSUME NEW offs \in Vec, NEW chunk
    PROVE  Shows(MeshForChunk(offs, chunk), offs, chunk)
<1> DEFINE mesh == MeshForChunk(offs, chunk)
<1>1. ASSUME NEW q \in mesh.intransparent, NEW sq \in Squares(q) PROVE sq \in VisibleSides(offs, chunk)
  <2>1. PICK pass : IsPass(pass) /\ \E row \in Rows(pass) :
           \E s \in WalkRow(Items(chunk, pass, row)) : q = Rectangle(offs, pass, row, s)
    BY RectanglesAre
  <2>2. PICK row \in Rows(pass) :
           \E s \in WalkRow(Items(chunk, pass, row)) : q = Rectangle(offs, pass, row, s)
    BY <2>1
  <2>14. PICK s \in WalkRow(Items(chunk, pass, row)) : q = Rectangle(offs, pass, row, s)
    BY <2>2
  <2>3. PICK v \in 0..Size - 1 :
           /\ IsSeen(chunk, CellOf(pass, row, v), pass.off)
           /\ sq = Side(offs, chunk, CellOf(pass, row, v), pass.off)
    BY <1>1, <2>1, <2>14, SquareIs
  <2>4. CellOf(pass, row, v) \in Cells /\ pass.off \in Directions
    BY <2>1, CellsOfRows, DirectionsAre
  <2> QED
    BY <2>3, <2>4, SidesAre
<1>2. ASSUME NEW sq \in VisibleSides(offs, chunk)
      PROVE  \E q \in mesh.intransparent : sq \in Squares(q)
  <2>1. PICK c \in Cells, d \in Directions : IsSeen(chunk, c, d) /\ sq = Side(offs, chunk, c, d)
    BY SidesAre
  <2>2. PICK pass : IsPass(pass) /\ pass.off = d
    BY DirectionsAre
  <2>3. PICK row \in Rows(pass), v \in 0..Size - 1 : c = CellOf(pass, row, v)
    BY <2>2, CellsOfRows
  <2> DEFINE items == Items(chunk, pass, row)
  <2>4. items[v] = {Texture(chunk[c], d)}
    BY <2>1, <2>2, <2>3, RowsOfChunk, TexturesAre
  <2>5. RowIsCut(WalkRow(items), items)
    BY <2>2, RowsOfChunk
  <2>6. PICK s \in WalkRow(items) : Spans(s, v) /\ s.tex = Texture(chunk[c], d)
    BY <2>4, <2>5 DEF RowIsCut
  <2>7. s.from \in Nat /\ s.len \in Nat \ {0}
    BY <2>5 DEF RowIsCut
  <2>8. v \in s.from..(s.from + s.len - 1)
    BY <2>6, <2>7, MeshAssumption DEF Spans
  <2>9. sq \in Squares(Rectangle(offs, pass, row, s))
    BY <2>1, <2>2, <2>3, <2>6, <2>7, <2>8, SquaresAre DEF Side
  <2>10. Rectangle(offs, pass, row, s) \in mesh.intransparent
    BY <2>2, RectanglesAre
  <2> QED
    BY <2>9, <2>10
<1>3. ASSUME NEW q \in mesh.intransparent, NEW r \in mesh.intransparent,
             NEW sq \in Squares(q), sq \in Squares(r)
      PROVE  q = r
  <2>1. PICK pass : IsPass(pass) /\ \E row \in Rows(pass) :
           \E s \in WalkRow(Items(chunk, pass, row)) : q = Rectangle(offs, pass, row, s)
    BY RectanglesAre
  <2>2. PICK row \in Rows(pass) :
           \E s \in WalkRow(Items(chunk, pass, row)) : q = Rectangle(offs, pass, row, s)
    BY <2>1
  <2>14. PICK s \in WalkRow(Items(chunk, pass, row)) : q = Rectangle(offs, pass, row, s)
    BY <2>2
  <2>3. PICK other : IsPass(other) /\ \E row2 \in Rows(other) :
           \E s2 \in WalkRow(Items(chunk, other, row2)) : r = Rectangle(offs, other, row2, s2)
    BY RectanglesAre
  <2>4. PICK row2 \in Rows(other) :
           \E s2 \in WalkRow(Items(chunk, other, row2)) : r = Rectangle(offs, other, row2, s2)
    BY <2>3
  <2>15. PICK s2 \in WalkRow(Items(chunk, other, row2)) : r = Rectangle(offs, other, row2, s2)
    BY <2>4
  <2>5. PICK v \in 0..Size - 1 :
           Spans(s, v) /\ sq = Side(offs, chunk, CellOf(pass, row, v), pass.off)
    BY <1>3, <2>1, <2>14, SquareIs
  <2>6. PICK w \in 0..Size - 1 :
           Spans(s2, w) /\ sq = Side(offs, chunk, CellOf(other, row2, w), other.off)
    BY <1>3, <2>3, <2>15, SquareIs
  <2>7. CellOf(pass, row, v) \in Cells /\ CellOf(other, row2, w) \in Cells
    BY <2>1, <2>3, CellsOfRows
  <2>8. CellOf(pass, row, v) = CellOf(other, row2, w) /\ pass.off = other.off
    <3>1. Side(offs, chunk, CellOf(pass, row, v), pass.off)
            = Side(offs, chunk, CellOf(other, row2, w), other.off)
      BY <2>5, <2>6
    <3> QED
      BY <2>7, <3>1, SidesDiffer
  <2>9. pass = other
    BY <2>1, <2>3, <2>8, PassesDiffer
  <2>10. v \in Int /\ w \in Int
    OBVIOUS
  <2>11. row = row2 /\ v = w
    BY <2>1, <2>8, <2>9, <2>10, CellsOfRows
  <2>12. RowIsCut(WalkRow(Items(chunk, pass, row)), Items(chunk, pass, row))
    BY <2>1, RowsOfChunk
  <2>13. s = s2
    BY <2>5, <2>6, <2>9, <2>11, <2>12 DEF RowIsCut
  <2> QED
    BY <2>14, <2>15, <2>9, <2>11, <2>13
<1>4. mesh.transparent = {[at |-> Plus(offs, c), tex |-> Crossed[chunk[c]]] :
                            c \in {c \in Cells : chunk[c] \in DOMAIN Crossed}}
  BY DEF MeshForChunk
<1> HIDE DEF mesh
<1>5. UNION {Squares(q) : q \in mesh.intransparent} = VisibleSides(offs, chunk)
  BY <1>1, <1>2
<1>6. \A q, r \in mesh.intransparent : q # r => Squares(q) \cap Squares(r) = {}
  BY <1>3
<1>7. Shows(mesh, offs, chunk)
  BY <1>4, <1>5, <1>6 DEF Shows
<1> QED
  BY <1>7 DEF mesh

-----------------------------------------------------------------------------
(* Client: the chunks on their way to the mesh thread and back *)

HasJob(jobs, p) == \E i \in 1..Len(jobs) : jobs[i].pos = p

\* x is what the last of the jobs for p has.
IsLastOf(jobs, p, x) ==
    \E i \in 1..Len(jobs) :
       /\ jobs[i].pos = p /\ jobs[i].chunk = x
       /\ \A j \in 1..Len(jobs) : i < j => jobs[j].pos # p

LEMMA LastJob ==
    ASSUME NEW jobs, IsSeq(jobs), NEW p
    PROVE  /\ ~HasJob(jobs, p) => \A old : LastOf(jobs, p, old) = old[p]
           /\ HasJob(jobs, p) => \E x : IsLastOf(jobs, p, x)
           /\ \A x : IsLastOf(jobs, p, x) => \A old : LastOf(jobs, p, old) = x
<1> DEFINE at == {i \in DOMAIN jobs : jobs[i].pos = p}
<1>1. Len(jobs) \in Nat /\ DOMAIN jobs = 1..Len(jobs)
  BY DEF IsSeq
<1>2. ASSUME ~HasJob(jobs, p), NEW old PROVE LastOf(jobs, p, old) = old[p]
  BY <1>1, <1>2 DEF LastOf, HasJob
<1>3. ASSUME HasJob(jobs, p) PROVE \E x : IsLastOf(jobs, p, x)
  <2> DEFINE T == {n \in Nat : \E i \in at : n = Len(jobs) - i}
  <2>1. T # {}
    <3>1. PICK i \in 1..Len(jobs) : jobs[i].pos = p
      BY <1>3 DEF HasJob
    <3>2. Len(jobs) - i \in T
      BY <1>1, <3>1
    <3> QED
      BY <3>2
  <2>2. PICK n \in T : \A y \in T : n <= y
    BY <2>1, Smallest
  <2>3. PICK i \in at : n = Len(jobs) - i
    OBVIOUS
  <2>4. ASSUME NEW j \in 1..Len(jobs), i < j, jobs[j].pos = p PROVE FALSE
    <3>1. j \in at /\ Len(jobs) - j \in Nat
      BY <1>1, <2>4
    <3>2. Len(jobs) - j \in T
      BY <3>1
    <3>3. n <= Len(jobs) - j
      BY <2>2, <3>2
    <3> QED
      BY <1>1, <2>3, <2>4, <3>3
  <2>5. i \in 1..Len(jobs) /\ jobs[i].pos = p
    BY <1>1
  <2> QED
    BY <2>4, <2>5 DEF IsLastOf
<1>4. ASSUME NEW x, IsLastOf(jobs, p, x), NEW old PROVE LastOf(jobs, p, old) = x
  <2>1. PICK i \in 1..Len(jobs) :
           /\ jobs[i].pos = p /\ jobs[i].chunk = x
           /\ \A j \in 1..Len(jobs) : i < j => jobs[j].pos # p
    BY <1>4 DEF IsLastOf
  <2>2. i \in at /\ \A j \in at : i >= j
    BY <1>1, <2>1
  <2>3. \A k \in at : (\A j \in at : k >= j) => k = i
    <3>1. at \subseteq Int
      BY <1>1
    <3> QED
      BY <2>2, <3>1
  <2>4. Max(at) = i
    BY <2>2, <2>3 DEF Max
  <2>5. LastOf(jobs, p, old) = jobs[Max(at)].chunk
    BY <2>2 DEF LastOf
  <2> QED
    BY <2>1, <2>4, <2>5
<1> QED
  BY <1>2, <1>3, <1>4

LEMMA LastOfConcat ==
    ASSUME NEW s, IsSeq(s), NEW t, IsSeq(t), NEW p
    PROVE  /\ HasJob(s \o t, p) <=> HasJob(s, p) \/ HasJob(t, p)
           /\ \A old : LastOf(s \o t, p, old) =
                         IF HasJob(t, p) THEN LastOf(t, p, old) ELSE LastOf(s, p, old)
<1> DEFINE u == s \o t
<1>1. PICK S : s \in Seq(S)
  BY DEF IsSeq
<1>2. PICK T : t \in Seq(T)
  BY DEF IsSeq
<1>3. s \in Seq(S \cup T) /\ t \in Seq(S \cup T)
  BY <1>1, <1>2, SeqMonotonic
<1>4. /\ u \in Seq(S \cup T) /\ Len(u) = Len(s) + Len(t)
      /\ \A i \in 1..Len(s) + Len(t) : u[i] = IF i <= Len(s) THEN s[i] ELSE t[i - Len(s)]
  BY <1>3, ConcatProperties
<1>5. Len(s) \in Nat /\ Len(t) \in Nat
  BY <1>1, <1>2
<1>6. IsSeq(u)
  BY <1>4 DEF IsSeq
<1> HIDE DEF u
<1>7. \A i \in 1..Len(s) : i \in 1..Len(u) /\ u[i] = s[i]
  BY <1>4, <1>5
<1>8. \A i \in 1..Len(t) : i + Len(s) \in 1..Len(u) /\ u[i + Len(s)] = t[i]
  BY <1>4, <1>5
<1>9. \A i \in 1..Len(u) : \/ i \in 1..Len(s) /\ u[i] = s[i]
                           \/ i - Len(s) \in 1..Len(t) /\ u[i] = t[i - Len(s)]
  BY <1>4, <1>5
<1>10. HasJob(u, p) <=> HasJob(s, p) \/ HasJob(t, p)
  <2>1. HasJob(s, p) => HasJob(u, p)
    BY <1>7 DEF HasJob
  <2>2. ASSUME HasJob(t, p) PROVE HasJob(u, p)
    <3>1. PICK i \in 1..Len(t) : t[i].pos = p
      BY <2>2 DEF HasJob
    <3>2. i + Len(s) \in 1..Len(u) /\ u[i + Len(s)].pos = p
      BY <1>8, <3>1
    <3> QED
      BY <3>2 DEF HasJob
  <2>3. ASSUME HasJob(u, p) PROVE HasJob(s, p) \/ HasJob(t, p)
    <3>1. PICK i \in 1..Len(u) : u[i].pos = p
      BY <2>3 DEF HasJob
    <3>2. CASE i \in 1..Len(s) /\ u[i] = s[i]
      BY <3>1, <3>2 DEF HasJob
    <3>3. CASE i - Len(s) \in 1..Len(t) /\ u[i] = t[i - Len(s)]
      BY <3>1, <3>3 DEF HasJob
    <3> QED
      BY <1>9, <3>2, <3>3
  <2> QED
    BY <2>1, <2>2, <2>3
<1>11. ASSUME HasJob(t, p), NEW old PROVE LastOf(u, p, old) = LastOf(t, p, old)
  <2>1. PICK x : IsLastOf(t, p, x)
    BY <1>11, LastJob
  <2>2. PICK i \in 1..Len(t) : /\ t[i].pos = p /\ t[i].chunk = x
                               /\ \A j \in 1..Len(t) : i < j => t[j].pos # p
    BY <2>1 DEF IsLastOf
  <2>3. ASSUME NEW j \in 1..Len(u), i + Len(s) < j PROVE u[j].pos # p
    <3>1. j - Len(s) \in 1..Len(t) /\ u[j] = t[j - Len(s)] /\ i < j - Len(s)
      BY <1>4, <1>5, <2>3
    <3> QED
      BY <2>2, <3>1
  <2>4. IsLastOf(u, p, x)
    BY <1>8, <2>2, <2>3 DEF IsLastOf
  <2>5. LastOf(u, p, old) = x
    BY <1>6, <2>4, LastJob
  <2>6. LastOf(t, p, old) = x
    BY <2>1, LastJob
  <2> QED
    BY <2>5, <2>6
<1>12. ASSUME ~HasJob(t, p), NEW old PROVE LastOf(u, p, old) = LastOf(s, p, old)
  <2>1. CASE HasJob(s, p)
    <3>1. PICK x : IsLastOf(s, p, x)
      BY <2>1, LastJob
    <3>2. PICK i \in 1..Len(s) : /\ s[i].pos = p /\ s[i].chunk = x
                                 /\ \A j \in 1..Len(s) : i < j => s[j].pos # p
      BY <3>1 DEF IsLastOf
    <3>3. \A j \in 1..Len(u) : i < j => u[j].pos # p
      BY <1>9, <1>12, <3>2 DEF HasJob
    <3>4. IsLastOf(u, p, x)
      BY <1>7, <3>2, <3>3 DEF IsLastOf
    <3>5. LastOf(u, p, old) = x
      BY <1>6, <3>4, LastJob
    <3>6. LastOf(s, p, old) = x
      BY <3>1, LastJob
    <3> QED
      BY <3>5, <3>6
  <2>2. CASE ~HasJob(s, p)
    BY <1>6, <1>10, <1>12, <2>2, LastJob
  <2> QED
    BY <2>1, <2>2
<1> QED
  BY <1>10, <1>11, <1>12 DEF u

LEMMA LastOfOne ==
    ASSUME NEW job, NEW p
    PROVE  /\ HasJob(<<job>>, p) <=> job.pos = p
           /\ job.pos = p => \A old : LastOf(<<job>>, p, old) = job.chunk
<1>1. Len(<<job>>) = 1 /\ <<job>>[1] = job /\ 1..1 = {1}
  OBVIOUS
<1>2. HasJob(<<job>>, p) <=> job.pos = p
  BY <1>1 DEF HasJob
<1>3. job.pos = p => IsLastOf(<<job>>, p, job.chunk)
  BY <1>1 DEF IsLastOf
<1> QED
  BY <1>2, <1>3, OneElem, LastJob

LEMMA HeadAndTail ==
    ASSUME NEW s, IsSeq(s), NEW t, IsSeq(t), t # << >>
    PROVE  Append(s, Head(t)) \o Tail(t) = s \o t
<1>1. PICK S : s \in Seq(S)
  BY DEF IsSeq
<1>2. PICK T : t \in Seq(T)
  BY DEF IsSeq
<1> DEFINE U == S \cup T
           a == Append(s, Head(t))
<1>3. s \in Seq(U) /\ t \in Seq(U)
  BY <1>1, <1>2, SeqMonotonic
<1>4. /\ Tail(t) \in Seq(U) /\ Len(Tail(t)) = Len(t) - 1 /\ Head(t) = t[1] /\ Head(t) \in U
      /\ \A i \in 1..Len(Tail(t)) : Tail(t)[i] = t[i + 1]
  BY <1>3, HeadTailProperties
<1>5. /\ a \in Seq(U) /\ Len(a) = Len(s) + 1
      /\ \A i \in 1..Len(s) : a[i] = s[i]
      /\ a[Len(s) + 1] = Head(t)
  BY <1>3, <1>4, AppendProperties
<1> HIDE DEF a
<1>6. Len(s) \in Nat /\ Len(t) \in Nat /\ Len(t) # 0
  BY <1>1, <1>2
<1>7. /\ a \o Tail(t) \in Seq(U) /\ Len(a \o Tail(t)) = Len(s) + Len(t)
      /\ \A i \in 1..Len(s) + Len(t) :
            (a \o Tail(t))[i] = IF i <= Len(s) + 1 THEN a[i] ELSE Tail(t)[i - (Len(s) + 1)]
  <2>1. Len(a) + Len(Tail(t)) = Len(s) + Len(t)
    BY <1>4, <1>5, <1>6
  <2> QED
    <3> DEFINE b == Tail(t)
    <3>1. /\ a \in Seq(U) /\ b \in Seq(U) /\ Len(a) = Len(s) + 1
          /\ Len(a) + Len(b) = Len(s) + Len(t)
      BY <1>4, <1>5, <2>1
    <3> HIDE DEF b, U
    <3>2. /\ a \o b \in Seq(U) /\ Len(a \o b) = Len(a) + Len(b)
          /\ \A i \in 1..Len(a) + Len(b) :
                (a \o b)[i] = IF i <= Len(a) THEN a[i] ELSE b[i - Len(a)]
      BY <3>1, ConcatProperties, Zenon
    <3> QED
      BY <3>1, <3>2 DEF b
<1>8. /\ s \o t \in Seq(U) /\ Len(s \o t) = Len(s) + Len(t)
      /\ \A i \in 1..Len(s) + Len(t) : (s \o t)[i] = IF i <= Len(s) THEN s[i] ELSE t[i - Len(s)]
  BY <1>3, ConcatProperties
<1>9. ASSUME NEW i \in 1..Len(s) + Len(t) PROVE (a \o Tail(t))[i] = (s \o t)[i]
  <2>1. CASE i <= Len(s)
    BY <1>5, <1>6, <1>7, <1>8, <2>1
  <2>2. CASE i = Len(s) + 1
    BY <1>4, <1>5, <1>6, <1>7, <1>8, <2>2
  <2>3. CASE i > Len(s) + 1
    <3>1. i - (Len(s) + 1) \in 1..Len(Tail(t)) /\ (i - (Len(s) + 1)) + 1 = i - Len(s)
      BY <1>4, <1>6, <2>3
    <3> QED
      BY <1>4, <1>6, <1>7, <1>8, <2>3, <3>1
  <2>4. i \in Int /\ Len(s) \in Int
    BY <1>6
  <2>5. i <= Len(s) \/ i = Len(s) + 1 \/ i > Len(s) + 1
    BY <2>4
  <2> QED
    BY <2>1, <2>2, <2>3, <2>5
<1> QED
  BY <1>7, <1>8, <1>9, SeqEqual DEF a

Placed(s) == \A m \in Elems(s) : m.pos \in Vec

ChunksOK ==
    /\ map = [c \in Clients |-> map[c]] /\ vbuffs = [c \in Clients |-> vbuffs[c]]
    /\ queue = [c \in Clients |-> queue[c]] /\ results = [c \in Clients |-> results[c]]
    /\ unsent = [c \in Clients |-> unsent[c]]
    /\ \A c \in Clients :
          /\ IsSeq(queue[c]) /\ IsSeq(results[c])
          /\ IsSeq(unsent[c]) /\ Placed(unsent[c]) /\ IsSeq(feed[c]) /\ Placed(feed[c])
          /\ \A m \in Elems(inbox[c]) : m.kind = "ChunkUpdated" => m.pos \in Vec
          /\ DOMAIN map[c] \subseteq Vec

\* The mesh thread was told of every chunk of the map as it is.
ToldAt(c) ==
    LET jobs == results[c] \o queue[c]
    IN  \A p \in DOMAIN map[c] :
           /\ p \in DOMAIN vbuffs[c] \/ HasJob(jobs, p)
           /\ LastOf(jobs, p, vbuffs[c]) = map[c][p]

ToldInv == ChunksOK /\ \A c \in Clients : ToldAt(c)

LEMMA ToldInit == Init => ToldInv
<1> SUFFICES ASSUME Init PROVE ToldInv
  OBVIOUS
<1>1. PICK s \in Situations : feed = s.feed
  BY DEF Init
<1>2. /\ map = [c \in Clients |-> NoChunks] /\ vbuffs = [c \in Clients |-> NoChunks]
      /\ queue = [c \in Clients |-> << >>] /\ results = [c \in Clients |-> << >>]
      /\ inbox = [c \in Clients |-> << >>] /\ unsent = [c \in Clients |-> << >>]
  BY DEF Init
<1>3. DOMAIN NoChunks = {}
  BY DEF NoChunks
<1>4. ASSUME NEW c \in Clients PROVE IsSeq(feed[c]) /\ Placed(feed[c])
  <2> DEFINE fed == {feed[c][i] : i \in DOMAIN feed[c]}
  <2>1. feed[c] \in Seq(fed) /\ \A msg \in fed : msg.pos \in Vec
    <3>1. s.feed[c] \in Seq({s.feed[c][i] : i \in DOMAIN s.feed[c]})
      BY SituationsAssumption
    <3>2. \A msg \in {s.feed[c][i] : i \in DOMAIN s.feed[c]} : msg.pos \in Int \X Int \X Int
      BY SituationsAssumption, Zenon
    <3> QED
      BY <1>1, <3>1, <3>2 DEF Vec
  <2>2. Elems(feed[c]) \subseteq fed
    BY <2>1 DEF Elems
  <2> HIDE DEF fed
  <2> QED
    BY <2>1, <2>2 DEF IsSeq, Placed
<1>5. IsSeq(<< >>) /\ Placed(<< >>)
  BY NoElems DEF Placed
<1>6. ChunksOK
  BY <1>2, <1>3, <1>4, <1>5, NoElems DEF ChunksOK
<1>7. \A c \in Clients : ToldAt(c)
  BY <1>2, <1>3 DEF ToldAt
<1> QED
  BY <1>6, <1>7 DEF ToldInv

\* The steps that leave the map and the mesh thread alone.
LEMMA MapStays ==
    ASSUME ToldInv, UNCHANGED <<meshVars, feed>>,
           unsent' = [x \in Clients |-> unsent'[x]],
           \A x \in Clients :
              /\ \/ unsent'[x] = unsent[x] \/ unsent'[x] = feed[x]
                 \/ IsSeq(unsent'[x]) /\ Placed(unsent'[x])
              /\ \A m \in Elems(inbox'[x]) :
                    m \in Elems(inbox[x]) \/ m.kind # "ChunkUpdated" \/ m.pos \in Vec
    PROVE  ToldInv'
<1>1. ChunksOK'
  BY DEF ToldInv, ChunksOK, meshVars, Placed
<1>2. \A x \in Clients : ToldAt(x)'
  BY DEF ToldInv, ToldAt, meshVars
<1> QED
  BY <1>1, <1>2 DEF ToldInv

LEMMA SetTells ==
    ASSUME ToldInv, NEW c \in Clients, NEW p \in Vec, NEW chunk, Set(c, p, chunk),
           UNCHANGED <<results, vbuffs, unsent, feed>>,
           \A x \in Clients : Elems(inbox'[x]) \subseteq Elems(inbox[x])
    PROVE  ToldInv'
<1> DEFINE job == [pos |-> p, chunk |-> chunk]
           m == [r \in DOMAIN map[c] \cup {p} |-> IF r = p THEN chunk ELSE map[c][r]]
<1>1. /\ map' = [x \in Clients |-> IF x = c THEN m ELSE map[x]]
      /\ queue' = [x \in Clients |-> IF x = c THEN Append(queue[c], job) ELSE queue[x]]
  BY DEF Set, ToldInv, ChunksOK
<1>2. /\ DOMAIN m = DOMAIN map[c] \cup {p}
      /\ \A r \in DOMAIN m : m[r] = IF r = p THEN chunk ELSE map[c][r]
  OBVIOUS
<1> HIDE DEF m
<1>3. IsSeq(queue[c]) /\ IsSeq(results[c])
  BY DEF ToldInv, ChunksOK
<1>4. IsSeq(Append(queue[c], job)) /\ Append(queue[c], job) = queue[c] \o <<job>>
  <2>1. IsSeq(Append(queue[c], job))
    BY <1>3, ElemsAppend
  <2>2. PICK S : queue[c] \in Seq(S)
    BY <1>3 DEF IsSeq
  <2>3. queue[c] \in Seq(S \cup {job}) /\ job \in S \cup {job}
    BY <2>2, SeqMonotonic
  <2> HIDE DEF job
  <2> QED
    BY <2>1, <2>3, AppendIsConcat
<1>5. job.pos = p /\ job.chunk = chunk /\ IsSeq(<<job>>)
  BY OneElem
<1> HIDE DEF job
<1>6. ChunksOK'
  <2>1. map' = [x \in Clients |-> map'[x]] /\ queue' = [x \in Clients |-> queue'[x]]
    BY <1>1
  <2>2. \A x \in Clients : IsSeq(queue'[x]) /\ DOMAIN map'[x] \subseteq Vec
    BY <1>1, <1>2, <1>4 DEF ToldInv, ChunksOK
  <2> QED
    BY <2>1, <2>2 DEF ToldInv, ChunksOK, Placed
<1>7. ASSUME NEW r
      PROVE  LET new == results[c] \o Append(queue[c], job)
             IN  /\ HasJob(new, r) <=> r = p \/ HasJob(results[c] \o queue[c], r)
                 /\ \A old : LastOf(new, r, old) =
                      IF r = p THEN chunk ELSE LastOf(results[c] \o queue[c], r, old)
  <2> DEFINE Q == Append(queue[c], job)
  <2>1. /\ HasJob(Q, r) <=> HasJob(queue[c], r) \/ r = p
        /\ \A old : LastOf(Q, r, old) = IF r = p THEN chunk ELSE LastOf(queue[c], r, old)
    <3>1. /\ HasJob(<<job>>, r) <=> r = p
          /\ r = p => \A old : LastOf(<<job>>, r, old) = chunk
      BY <1>5, LastOfOne
    <3> DEFINE one == <<job>>
    <3>2. IsSeq(one) /\ Q = queue[c] \o one
      BY <1>4, <1>5
    <3> HIDE DEF one, Q
    <3>3. /\ HasJob(Q, r) <=> HasJob(queue[c], r) \/ HasJob(one, r)
          /\ \A old : LastOf(Q, r, old) =
                IF HasJob(one, r) THEN LastOf(one, r, old) ELSE LastOf(queue[c], r, old)
      BY <1>3, <3>2, LastOfConcat
    <3>4. HasJob(one, r) <=> r = p
      BY <3>1 DEF one
    <3>5. r = p => \A old : LastOf(one, r, old) = chunk
      BY <3>1 DEF one
    <3> QED
      BY <3>3, <3>4, <3>5
  <2>2. IsSeq(Q)
    BY <1>4
  <2> HIDE DEF Q
  <2>3. /\ HasJob(results[c] \o Q, r) <=> HasJob(results[c], r) \/ HasJob(Q, r)
        /\ \A old : LastOf(results[c] \o Q, r, old) =
                      IF HasJob(Q, r) THEN LastOf(Q, r, old) ELSE LastOf(results[c], r, old)
    BY <1>3, <2>2, LastOfConcat
  <2>4. /\ HasJob(results[c] \o queue[c], r) <=> HasJob(results[c], r) \/ HasJob(queue[c], r)
        /\ \A old : LastOf(results[c] \o queue[c], r, old) =
                      IF HasJob(queue[c], r) THEN LastOf(queue[c], r, old)
                      ELSE LastOf(results[c], r, old)
    BY <1>3, LastOfConcat
  <2> QED
    BY <2>1, <2>3, <2>4 DEF Q
<1>8. ASSUME NEW x \in Clients PROVE ToldAt(x)'
  <2>1. CASE x # c
    BY <1>1, <2>1 DEF ToldInv, ToldAt
  <2>2. CASE x = c
    <3>1. /\ results'[c] = results[c] /\ vbuffs'[c] = vbuffs[c]
          /\ queue'[c] = Append(queue[c], job) /\ map'[c] = m
      BY <1>1
    <3>2. ToldAt(c)
      BY DEF ToldInv
    <3>3. ASSUME NEW r \in DOMAIN m
          PROVE  LET new == results[c] \o Append(queue[c], job)
                 IN  /\ r \in DOMAIN vbuffs[c] \/ HasJob(new, r)
                     /\ LastOf(new, r, vbuffs[c]) = m[r]
      BY <1>2, <1>7, <3>2 DEF ToldAt
    <3> QED
      BY <2>2, <3>1, <3>3 DEF ToldAt
  <2> QED
    BY <2>1, <2>2
<1> QED
  BY <1>6, <1>8 DEF ToldInv

LEMMA NewTells ==
    ASSUME ToldInv, NEW c \in Clients, New(c), inbox = [x \in Clients |-> inbox[x]]
    PROVE  ToldInv'
<1>1. /\ map' = [x \in Clients |-> IF x = c THEN NoChunks ELSE map[x]]
      /\ vbuffs' = [x \in Clients |-> IF x = c THEN NoChunks ELSE vbuffs[x]]
      /\ queue' = [x \in Clients |-> IF x = c THEN << >> ELSE queue[x]]
      /\ results' = [x \in Clients |-> IF x = c THEN << >> ELSE results[x]]
      /\ inbox' = [x \in Clients |-> IF x = c THEN << >> ELSE inbox[x]]
      /\ UNCHANGED <<unsent, feed>>
  BY DEF New, ToldInv, ChunksOK
<1>2. DOMAIN NoChunks = {}
  BY DEF NoChunks
<1>3. ChunksOK'
  <2>1. /\ map' = [x \in Clients |-> map'[x]] /\ vbuffs' = [x \in Clients |-> vbuffs'[x]]
        /\ queue' = [x \in Clients |-> queue'[x]] /\ results' = [x \in Clients |-> results'[x]]
    BY <1>1
  <2>2. \A x \in Clients :
           /\ IsSeq(queue'[x]) /\ IsSeq(results'[x]) /\ DOMAIN map'[x] \subseteq Vec
           /\ Elems(inbox'[x]) \subseteq Elems(inbox[x])
    BY <1>1, <1>2, NoElems DEF ToldInv, ChunksOK
  <2> QED
    BY <1>1, <2>1, <2>2 DEF ToldInv, ChunksOK, Placed
<1>4. ASSUME NEW x \in Clients PROVE ToldAt(x)'
  BY <1>1, <1>2 DEF ToldInv, ToldAt
<1> QED
  BY <1>3, <1>4 DEF ToldInv

LEMMA MeshTells ==
    ASSUME ToldInv, NEW c \in Clients, Mesh(c)
    PROVE  ToldInv'
<1>1. /\ queue[c] # << >>
      /\ results' = [x \in Clients |-> IF x = c THEN Append(results[c], Head(queue[c]))
                                       ELSE results[x]]
      /\ queue' = [x \in Clients |-> IF x = c THEN Tail(queue[c]) ELSE queue[x]]
      /\ UNCHANGED <<map, vbuffs, unsent, feed, inbox>>
  BY DEF Mesh, ToldInv, ChunksOK, serverVars, netVars
<1>2. IsSeq(queue[c]) /\ IsSeq(results[c])
  BY DEF ToldInv, ChunksOK
<1>3. IsSeq(Tail(queue[c])) /\ IsSeq(Append(results[c], Head(queue[c])))
  BY <1>1, <1>2, ElemsTail, ElemsAppend
<1>4. ChunksOK'
  <2>1. queue' = [x \in Clients |-> queue'[x]] /\ results' = [x \in Clients |-> results'[x]]
    BY <1>1
  <2>2. \A x \in Clients : IsSeq(queue'[x]) /\ IsSeq(results'[x])
    BY <1>1, <1>3 DEF ToldInv, ChunksOK
  <2> QED
    BY <1>1, <2>1, <2>2 DEF ToldInv, ChunksOK, Placed
<1>5. \A x \in Clients : results'[x] \o queue'[x] = results[x] \o queue[x]
  BY <1>1, <1>2, HeadAndTail
<1>6. \A x \in Clients : ToldAt(x)'
  BY <1>1, <1>5 DEF ToldInv, ToldAt
<1> QED
  BY <1>4, <1>6 DEF ToldInv

LEMMA RecvTells ==
    ASSUME ToldInv, NEW c \in Clients, RecvVbuffs(c)
    PROVE  ToldInv'
<1> DEFINE r == results[c]
           q == queue[c]
           old == vbuffs[c]
           D == DOMAIN old \cup {r[i].pos : i \in DOMAIN r}
           new == [p \in D |-> LastOf(r, p, old)]
<1>1. /\ vbuffs' = [x \in Clients |-> IF x = c THEN new ELSE vbuffs[x]]
      /\ results' = [x \in Clients |-> IF x = c THEN << >> ELSE results[x]]
      /\ UNCHANGED <<map, queue, unsent, feed, inbox>>
  BY DEF RecvVbuffs, ToldInv, ChunksOK, serverVars, netVars
<1>2. IsSeq(q) /\ IsSeq(r) /\ IsSeq(<< >>)
  BY NoElems DEF ToldInv, ChunksOK
<1>3. \A p : p \in D <=> p \in DOMAIN old \/ HasJob(r, p)
  <2>1. DOMAIN r = 1..Len(r)
    BY <1>2 DEF IsSeq
  <2> QED
    BY <2>1 DEF HasJob
<1>4. \A p \in D : new[p] = LastOf(r, p, old)
  OBVIOUS
<1> HIDE DEF D
<1>5. ChunksOK'
  <2>1. vbuffs' = [x \in Clients |-> vbuffs'[x]] /\ results' = [x \in Clients |-> results'[x]]
    BY <1>1
  <2>2. \A x \in Clients : IsSeq(results'[x])
    BY <1>1, <1>2 DEF ToldInv, ChunksOK
  <2> QED
    BY <1>1, <2>1, <2>2 DEF ToldInv, ChunksOK, Placed
<1>6. ASSUME NEW p \in DOMAIN map[c]
      PROVE  /\ p \in D \/ HasJob(<< >> \o q, p)
             /\ LastOf(<< >> \o q, p, new) = map[c][p]
  <2>1. /\ p \in DOMAIN old \/ HasJob(r \o q, p)
        /\ LastOf(r \o q, p, old) = map[c][p]
    BY DEF ToldInv, ToldAt
  <2>2. /\ HasJob(r \o q, p) <=> HasJob(r, p) \/ HasJob(q, p)
        /\ LastOf(r \o q, p, old) = IF HasJob(q, p) THEN LastOf(q, p, old) ELSE LastOf(r, p, old)
    BY <1>2, LastOfConcat
  <2>3. << >> \o q = q
    <3>1. PICK S : q \in Seq(S)
      BY <1>2 DEF IsSeq
    <3> QED
      BY <3>1
  <2>4. CASE HasJob(q, p)
    <3>1. PICK x : IsLastOf(q, p, x)
      BY <1>2, <2>4, LastJob
    <3> HIDE DEF q, old, new
    <3>2. \A any : LastOf(q, p, any) = x
      BY <1>2, <3>1, LastJob, Zenon
    <3>3. LastOf(q, p, old) = x /\ LastOf(q, p, new) = x
      BY <3>2
    <3> QED
      BY <2>1, <2>2, <2>3, <2>4, <3>3
  <2>5. CASE ~HasJob(q, p)
    <3>1. p \in D
      BY <1>3, <2>1, <2>2, <2>5
    <3>2. LastOf(q, p, new) = new[p]
      BY <1>2, <2>5, LastJob
    <3> QED
      BY <1>4, <2>1, <2>2, <2>3, <2>5, <3>1, <3>2
  <2> QED
    BY <2>4, <2>5
<1>7. DOMAIN new = D
  OBVIOUS
<1> HIDE DEF new
<1>8. ASSUME NEW x \in Clients PROVE ToldAt(x)'
  <2>1. CASE x # c
    BY <1>1, <2>1 DEF ToldInv, ToldAt
  <2>2. CASE x = c
    <3>1. results'[c] = << >> /\ vbuffs'[c] = new /\ map'[c] = map[c] /\ queue'[c] = q
      BY <1>1
    <3> QED
      BY <1>6, <1>7, <2>2, <3>1 DEF ToldAt
  <2> QED
    BY <2>1, <2>2
<1> QED
  BY <1>5, <1>8 DEF ToldInv

\* The messages about chunks stay what they are, and none comes.
LEMMA ReceivesNoChunk ==
    ASSUME Covered, ToldInv, NEW c \in Clients, NEW kind, Receives(c, kind),
           UNCHANGED <<meshVars, unsent, feed>>
    PROVE  ToldInv'
<1>1. \A x \in Clients : Elems(inbox'[x]) \subseteq Elems(inbox[x])
  BY ReceivesKeeps DEF Covered
<1>2. unsent' = [x \in Clients |-> unsent'[x]]
  BY DEF ToldInv, ChunksOK
<1> QED
  BY <1>1, <1>2, MapStays

LEMMA InboxStays ==
    ASSUME ToldInv, UNCHANGED <<meshVars, unsent, feed, inbox>>
    PROVE  ToldInv'
<1>1. unsent' = [x \in Clients |-> unsent'[x]]
  BY DEF ToldInv, ChunksOK
<1> QED
  BY <1>1, MapStays

LEMMA HandleTells ==
    ASSUME Covered, ToldInv, NEW c \in Clients, Handle(c)
    PROVE  ToldInv'
<1>1. CASE ChunkUpdated(c)
  <2> DEFINE msg == Head(inbox[c])
  <2>1. /\ Receives(c, "ChunkUpdated") /\ Set(c, msg.pos, msg.chunk)
        /\ UNCHANGED <<results, vbuffs, unsent, feed>>
    BY <1>1 DEF ChunkUpdated, serverVars
  <2>2. /\ msg \in Elems(inbox[c]) /\ msg.kind = "ChunkUpdated"
        /\ \A x \in Clients : Elems(inbox'[x]) \subseteq Elems(inbox[x])
    BY <2>1, ReceivesKeeps DEF Covered
  <2>3. msg.pos \in Vec
    BY <2>2 DEF ToldInv, ChunksOK
  <2> HIDE DEF msg
  <2> QED
    BY <2>1, <2>2, <2>3, SetTells
<1>2. CASE HashEnrollment(c) \/ HashParamsBpub(c) \/ LogInFail(c) \/ GameParams(c) \/ HashedBlobs(c)
  <2>1. \E kind : Receives(c, kind)
    BY <1>2 DEF HashEnrollment, HashParamsBpub, LogInFail, GameParams, HashedBlobs
  <2>2. UNCHANGED <<meshVars, unsent, feed>>
    BY <1>2 DEF HashEnrollment, HashParamsBpub, LogInFail, GameParams, HashedBlobs, serverVars
  <2> QED
    BY <2>1, <2>2, ReceivesNoChunk
<1>3. CASE FindUncached(c) \/ OpenFile(c) \/ WriteFile(c) \/ LoadImage(c)
  <2>1. UNCHANGED <<meshVars, unsent, feed, inbox>>
    BY <1>3 DEF FindUncached, OpenFile, WriteFile, LoadImage, serverVars, netVars
  <2> QED
    BY <2>1, InboxStays
<1> QED
  BY <1>1, <1>2, <1>3 DEF Handle

LEMMA MouseTells ==
    ASSUME ToldInv, NEW c \in Clients, HandleMouseButtons(c)
    PROVE  ToldInv'
<1>1. UNCHANGED <<results, vbuffs, unsent, feed, inbox>>
  BY DEF HandleMouseButtons, netVars, serverVars
<1>2. \E v, b : Edit(c, v, b)
  BY DEF HandleMouseButtons
<1>3. PICK v, b : Edit(c, v, b)
  BY <1>2
<1> DEFINE p == ChunkPos(v)
<1>4. CASE p \notin DOMAIN map[c]
  <2>1. UNCHANGED <<map, queue>>
    BY <1>3, <1>4 DEF Edit
  <2> QED
    BY <1>1, <2>1, InboxStays DEF meshVars
<1>5. CASE p \in DOMAIN map[c]
  <2>1. Set(c, p, [map[c][p] EXCEPT ![PosInChunk(v)] = b])
    BY <1>3, <1>5 DEF Edit
  <2>2. p \in Vec
    BY <1>5 DEF ToldInv, ChunksOK
  <2> HIDE DEF p
  <2> QED
    BY <1>1, <2>1, <2>2, SetTells
<1> QED
  BY <1>4, <1>5

\* An answer about something else, with perhaps the chunks to be sent again.
LEMMA AnswersNoChunk ==
    ASSUME Covered, ToldInv, NEW c \in Clients, NEW msg, Answers(c, <<msg>>),
           msg.kind # "ChunkUpdated", UNCHANGED <<meshVars, feed>>,
           unsent' = unsent \/ unsent' = [unsent EXCEPT ![c] = feed[c]]
    PROVE  ToldInv'
<1>1. \A x \in Clients :
         Elems(inbox'[x]) \subseteq Elems(inbox[x]) \cup {msg}
  BY AnswersKeeps DEF Covered
<1>2. unsent = [x \in Clients |-> unsent[x]]
  BY DEF ToldInv, ChunksOK
<1>3. unsent' = [x \in Clients |-> unsent'[x]]
  BY <1>2
<1>4. \A x \in Clients : unsent'[x] = unsent[x] \/ unsent'[x] = feed[x]
  BY <1>2
<1> QED
  BY <1>1, <1>3, <1>4, MapStays

LEMMA ServeTells ==
    ASSUME Covered, ToldInv, NEW c \in Clients, Serve(c)
    PROVE  ToldInv'
<1>1. UNCHANGED <<meshVars, feed>>
  BY DEF Serve
<1>2. \/ Answers(c, <<[kind |-> "HashEnrollment"]>>) /\ UNCHANGED unsent
      \/ Answers(c, <<[kind |-> "HashParamsBpub"]>>) /\ UNCHANGED unsent
      \/ \E knows : Admit(c, knows)
      \/ \E hs : Answers(c, <<[kind |-> "HashedBlobs", hashes |-> hs]>>) /\ UNCHANGED unsent
  BY DEF Serve
<1>3. CASE Answers(c, <<[kind |-> "HashEnrollment"]>>) /\ UNCHANGED unsent
  BY <1>1, <1>3, AnswersNoChunk
<1>4. CASE Answers(c, <<[kind |-> "HashParamsBpub"]>>) /\ UNCHANGED unsent
  BY <1>1, <1>4, AnswersNoChunk
<1>5. CASE \E knows : Admit(c, knows)
  <2>1. \/ Answers(c, <<[kind |-> "GameParams"]>>) /\ unsent' = [unsent EXCEPT ![c] = feed[c]]
        \/ Answers(c, <<[kind |-> "LogInFail"]>>) /\ UNCHANGED unsent
    BY <1>5 DEF Admit
  <2>2. CASE Answers(c, <<[kind |-> "GameParams"]>>) /\ unsent' = [unsent EXCEPT ![c] = feed[c]]
    BY <1>1, <2>2, AnswersNoChunk
  <2>3. CASE Answers(c, <<[kind |-> "LogInFail"]>>) /\ UNCHANGED unsent
    BY <1>1, <2>3, AnswersNoChunk
  <2> QED
    BY <2>1, <2>2, <2>3
<1>6. CASE \E hs : Answers(c, <<[kind |-> "HashedBlobs", hashes |-> hs]>>) /\ UNCHANGED unsent
  <2>1. PICK hs : Answers(c, <<[kind |-> "HashedBlobs", hashes |-> hs]>>) /\ UNCHANGED unsent
    BY <1>6
  <2> QED
    BY <1>1, <2>1, AnswersNoChunk
<1> QED
  BY <1>2, <1>3, <1>4, <1>5, <1>6

LEMMA SendChunkTells ==
    ASSUME Covered, ToldInv, NEW c \in Clients, SendChunk(c)
    PROVE  ToldInv'
<1> DEFINE msg == [kind |-> "ChunkUpdated", pos |-> Head(unsent[c]).pos,
                   chunk |-> Head(unsent[c]).chunk]
<1>1. /\ unsent[c] # << >> /\ Answers(c, <<msg>>)
      /\ unsent' = [unsent EXCEPT ![c] = Tail(unsent[c])]
      /\ UNCHANGED <<meshVars, feed>>
  BY DEF SendChunk
<1>2. /\ unsent = [x \in Clients |-> unsent[x]]
      /\ IsSeq(unsent[c]) /\ Placed(unsent[c])
  BY DEF ToldInv, ChunksOK
<1>3. /\ Head(unsent[c]) \in Elems(unsent[c])
      /\ IsSeq(Tail(unsent[c])) /\ Elems(Tail(unsent[c])) \subseteq Elems(unsent[c])
  BY <1>1, <1>2, ElemsTail
<1>4. Placed(Tail(unsent[c])) /\ Head(unsent[c]).pos \in Vec
  BY <1>2, <1>3 DEF Placed
<1>5. unsent' = [x \in Clients |-> IF x = c THEN Tail(unsent[c]) ELSE unsent[x]]
  BY <1>1, <1>2
<1>6. unsent' = [x \in Clients |-> unsent'[x]]
  BY <1>5
<1>7. \A x \in Clients : \/ unsent'[x] = unsent[x]
                         \/ IsSeq(unsent'[x]) /\ Placed(unsent'[x])
  BY <1>3, <1>4, <1>5
<1>8. msg.pos \in Vec
  BY <1>4
<1> HIDE DEF msg
<1>9. \A x \in Clients : x # c => inbox'[x] = inbox[x]
  BY <1>1, AnswersKeeps DEF Covered
<1>10. Elems(inbox'[c]) \subseteq Elems(inbox[c]) \cup {msg}
  BY <1>1, AnswersKeeps DEF Covered
<1>11. \A x \in Clients : \A m \in Elems(inbox'[x]) : m \in Elems(inbox[x]) \/ m.pos \in Vec
  BY <1>8, <1>9, <1>10
<1> QED
  BY <1>1, <1>6, <1>7, <1>11, MapStays

LEMMA ToldNext == Covered /\ ToldInv /\ [Next]_vars => ToldInv'
<1> SUFFICES ASSUME Covered, ToldInv, [Next]_vars PROVE ToldInv'
  OBVIOUS
<1>1. CASE UNCHANGED vars
  BY <1>1, InboxStays DEF vars, netVars, serverVars
<1>2. CASE Next
  <2>1. PICK c \in Clients :
           \/ New(c) \/ Kill(c) \/ OpenInventory(c) \/ HandleMouseButtons(c)
           \/ Handle(c) \/ RecvVbuffs(c) \/ Mesh(c) \/ ServerStep(c)
    BY <1>2 DEF Next
  <2>2. CASE New(c)
    <3>1. inbox = [x \in Clients |-> inbox[x]]
      BY DEF Covered, TablesOK
    <3> QED
      BY <2>2, <3>1, NewTells
  <2>3. CASE Kill(c) \/ OpenInventory(c) \/ GhostLeaves(c)
    <3>1. UNCHANGED <<meshVars, unsent, feed, inbox>>
      BY <2>3 DEF Kill, OpenInventory, GhostLeaves, netVars, serverVars
    <3> QED
      BY <3>1, InboxStays
  <2> QED
    BY <2>1, <2>2, <2>3, MouseTells, HandleTells, RecvTells, MeshTells, ServeTells,
       SendChunkTells DEF ServerStep
<1> QED
  BY <1>1, <1>2

LEMMA ToldIsEnough == ToldInv => DrawnIsCurrent
<1> SUFFICES ASSUME ToldInv, NEW c \in Clients, NEW p \in DOMAIN map[c]
             PROVE  /\ Told(c, p) = map[c][p]
                    /\ queue[c] \o results[c] = << >> =>
                          Shows(MeshForChunk(p, vbuffs[c][p]), p, map[c][p])
  BY DEF DrawnIsCurrent
<1>1. /\ LastOf(results[c] \o queue[c], p, vbuffs[c]) = map[c][p]
      /\ IsSeq(queue[c]) /\ IsSeq(results[c]) /\ p \in Vec
  BY DEF ToldInv, ToldAt, ChunksOK
<1>2. ASSUME queue[c] \o results[c] = << >>
      PROVE  Shows(MeshForChunk(p, vbuffs[c][p]), p, map[c][p])
  <2>1. queue[c] = << >> /\ results[c] = << >>
    <3>1. PICK S : queue[c] \in Seq(S)
      BY <1>1 DEF IsSeq
    <3>2. PICK T : results[c] \in Seq(T)
      BY <1>1 DEF IsSeq
    <3>3. queue[c] \in Seq(S \cup T) /\ results[c] \in Seq(S \cup T)
      BY <3>1, <3>2, SeqMonotonic
    <3>4. Len(queue[c] \o results[c]) = Len(queue[c]) + Len(results[c])
      BY <3>3, ConcatProperties
    <3>5. Len(queue[c]) = 0 /\ Len(results[c]) = 0
      BY <1>2, <3>3, <3>4
    <3> QED
      BY <3>3, <3>5, EmptySeq
  <2>2. LastOf(<< >>, p, vbuffs[c]) = vbuffs[c][p]
    <3>1. ~HasJob(<< >>, p)
      BY DEF HasJob
    <3> QED
      BY <3>1, NoElems, LastJob
  <2>3. results[c] \o queue[c] = << >>
    BY <2>1
  <2>4. vbuffs[c][p] = map[c][p]
    BY <1>1, <2>2, <2>3
  <2> QED
    BY <1>1, <2>4, MeshShows
<1> QED
  BY <1>1, <1>2 DEF Told

\* What a client draws once its mesh thread has nothing left to do is its map
\* as it is, every side that can be seen shown once (on_change,
\* mesh_for_chunk, recv_vbuffs), for every size of a chunk, every content and
\* every order of what comes from the server, the player and the mesh thread.
THEOREM DrawnMeshesAreCurrent == Spec => []DrawnIsCurrent
<1>1. Init => Covered /\ ToldInv
  BY CoveredInit, ToldInit
<1>2. Covered /\ ToldInv /\ [Next]_vars => (Covered /\ ToldInv)'
  BY CoveredNext, ToldNext
<1>3. Covered /\ ToldInv => DrawnIsCurrent
  BY ToldIsEnough
<1> QED
  BY <1>1, <1>2, <1>3, PTL DEF Spec

=============================================================================
