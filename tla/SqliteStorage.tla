---------------------------- MODULE SqliteStorage ----------------------------
(***************************************************************************)
(* The map database: SqliteStorageBackend groups its writes into           *)
(* transactions.  A write first decides whether to commit the open         *)
(* transaction and begin another one (maybe_begin_commit), then runs its   *)
(* INSERT OR REPLACE; tick commits what is open.  Reads run on the same    *)
(* connection, so they see the open transaction.  Every failing statement  *)
(* is unwrapped by the mapgen thread, which owns the backend: a failure    *)
(* ends the thread and rolls the transaction back, as Crash does.          *)
(***************************************************************************)
EXTENDS Integers, Sequences

CONSTANTS
    ChunkKeys,             \* rows of the table chunks
    GlobalKeys,            \* rows of the table kvstore
    PlayerKeys,            \* rows of the table player_kvstore
    Values,                \* what a row can hold
    NoValue,               \* a row that is not there
    WritesPerTransaction,  \* WRITES_PER_TRANSACTION, 50 in the code
    MaxWrites              \* bound: length of the log of writes

ASSUME BackendAssumption ==
    /\ WritesPerTransaction \in Nat
    /\ MaxWrites \in Nat
    /\ NoValue \notin Values

Keys == ChunkKeys \cup GlobalKeys \cup PlayerKeys
Rows == [Keys -> Values \cup {NoValue}]
Writes == [key : Keys, value : Values]
NoWrite == [key |-> NoValue, value |-> NoValue]

VARIABLES
    disk,     \* the tables as of the last commit: what a crash leaves
    table,    \* the tables as the connection sees them
    open,     \* a transaction is open (not conn.is_autocommit())
    ctr,      \* SqliteStorageBackend.ctr
    writing,  \* the write between maybe_begin_commit and its INSERT
    log,      \* history: the writes made and not lost
    durable   \* history: how many of them are committed

backendVars == <<disk, table, open, ctr, writing, log, durable>>

BackendInit ==
    /\ disk = [k \in Keys |-> NoValue]
    /\ table = disk
    /\ open = FALSE
    /\ ctr = 0
    /\ writing = NoWrite
    /\ log = << >>
    /\ durable = 0

-----------------------------------------------------------------------------
\* Mutant: the transaction is dropped, and so not committed.
CommitForgotten == UNCHANGED <<disk, durable>>

\* COMMIT what the open transaction wrote.
CommitOpen ==
    /\ disk' = table
    /\ durable' = Len(log)

\* Mutant: the counter is reset without a commit.
CommitSkipped ==
    /\ ctr' = IF ctr = 0 THEN WritesPerTransaction ELSE ctr - 1
    /\ open' = TRUE
    /\ UNCHANGED <<disk, durable>>

\* The transaction bookkeeping before a write: when ctr has run down, what is
\* open is committed; whatever happened, a transaction is open afterwards.
MaybeBeginCommit ==
    /\ \/ /\ ctr = 0
          /\ ctr' = WritesPerTransaction
          /\ IF open THEN CommitOpen ELSE UNCHANGED <<disk, durable>>
       \/ /\ ctr > 0
          /\ ctr' = ctr - 1
          /\ UNCHANGED <<disk, durable>>
    /\ open' = TRUE

BeginWrite(k, v) ==
    /\ writing = NoWrite
    /\ Len(log) < MaxWrites
    /\ MaybeBeginCommit
    /\ writing' = [key |-> k, value |-> v]
    /\ UNCHANGED <<table, log>>

StoreChunk(pos, data) == pos \in ChunkKeys /\ BeginWrite(pos, data)
SetGlobalKv(key, content) == key \in GlobalKeys /\ BeginWrite(key, content)
SetPlayerKv(key, content) == key \in PlayerKeys /\ BeginWrite(key, content)

\* Mutant: INSERT OR IGNORE.
InsertOrIgnore ==
    /\ writing # NoWrite
    /\ table' = IF table[writing.key] = NoValue
                THEN [table EXCEPT ![writing.key] = writing.value] ELSE table
    /\ log' = Append(log, writing)
    /\ writing' = NoWrite
    /\ UNCHANGED <<disk, open, ctr, durable>>

\* Mutant: the statement runs on a connection of its own, outside of the
\* transaction.
InsertOutside ==
    /\ writing # NoWrite
    /\ table' = [table EXCEPT ![writing.key] = writing.value]
    /\ disk' = [disk EXCEPT ![writing.key] = writing.value]
    /\ log' = Append(log, writing)
    /\ writing' = NoWrite
    /\ UNCHANGED <<open, ctr, durable>>

\* The INSERT OR REPLACE that ends each of the three.
Insert ==
    /\ writing # NoWrite
    /\ table' = [table EXCEPT ![writing.key] = writing.value]
    /\ log' = Append(log, writing)
    /\ writing' = NoWrite
    /\ UNCHANGED <<disk, open, ctr, durable>>

\* tick, called once per server tick through MapgenMsg::Tick.
Tick ==
    /\ writing = NoWrite
    /\ open
    /\ ctr' = WritesPerTransaction
    /\ CommitOpen
    /\ open' = FALSE
    /\ UNCHANGED <<table, writing, log>>

\* load_chunk, get_global_kv, get_player_kv.
Get(k) == table[k]

\* The process or the mapgen thread dies, and the file is opened again.
Crash ==
    /\ table' = disk
    /\ open' = FALSE
    /\ ctr' = 0
    /\ writing' = NoWrite
    /\ log' = SubSeq(log, 1, durable)
    /\ UNCHANGED <<disk, durable>>

BackendNext ==
    \/ \E k \in Keys, v \in Values :
          StoreChunk(k, v) \/ SetGlobalKv(k, v) \/ SetPlayerKv(k, v)
    \/ Insert
    \/ Tick
    \/ Crash

BackendSpec == BackendInit /\ [][BackendNext]_backendVars

-----------------------------------------------------------------------------
BackendTypeOK ==
    /\ disk \in Rows
    /\ table \in Rows
    /\ open \in BOOLEAN
    /\ ctr \in 0..WritesPerTransaction
    /\ writing \in Writes \cup {NoWrite}
    /\ log \in Seq(Writes)
    /\ durable \in 0..Len(log)

\* t holds, for every key, the last of the first n writes made to it.
Reflects(t, n) ==
    \A k \in Keys :
        \/ /\ t[k] = NoValue
           /\ \A i \in 1..n : log[i].key # k
        \/ \E i \in 1..n :
              /\ log[i] = [key |-> k, value |-> t[k]]
              /\ \A j \in (i + 1)..n : log[j].key # k

\* Reads see every write made so far, those of the open transaction included
\* (load_chunk, get_global_kv and get_player_kv after store_chunk,
\* set_global_kv and set_player_kv), also after a crash and a restart.
ReadsSeeEveryWrite == Reflects(table, Len(log))

\* What a crash leaves is the effect of a prefix of the writes: never a later
\* write without the earlier ones (the grouping of store_chunk,
\* set_global_kv and set_player_kv into transactions).
DiskIsAPrefix == Reflects(disk, durable)

\* The open transaction holds at most WritesPerTransaction + 1 writes: one more
\* than the constant says, as the write that resets ctr
\* is not counted (map_storage.rs:109-124).
TransactionBound == Len(log) - durable <= WritesPerTransaction + 1

\* The backend implements the durable log: ordered writes, of which a crash
\* loses at most the last WritesPerTransaction + 1.
Durable == INSTANCE DurableLog WITH Window <- WritesPerTransaction + 1
ImplementsDurableLog == Durable!Spec
=============================================================================
