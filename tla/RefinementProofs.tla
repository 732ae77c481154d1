--------------------------- MODULE RefinementProofs ---------------------------
(***************************************************************************)
(* The two refinements of the project.                                     *)
(*                                                                         *)
(* For every WritesPerTransaction, every set of keys and every set of      *)
(* values: the map database reads back what was written, a crash leaves a  *)
(* prefix of the writes, and the database implements the durable log.      *)
(*                                                                         *)
(* For every length of the length prefix, every set of messages, every     *)
(* size of the kernel's buffers and every way reads and writes cut the     *)
(* bytes: the framing of TcpMsgStream implements the channel of messages.  *)
(***************************************************************************)
EXTENDS SqliteStorage, TcpFraming, SequenceTheorems, TLAPS

-----------------------------------------------------------------------------
(* SqliteStorageBackend *)

\* ctr counts down the writes the open transaction still takes.
Accounting ==
    /\ open => Len(log) - durable + ctr <= WritesPerTransaction + 1
    /\ writing # NoWrite =>
          open /\ Len(log) - durable + ctr <= WritesPerTransaction
    /\ ~open => durable = Len(log)

BackendInv ==
    /\ BackendTypeOK
    /\ Accounting
    /\ ReadsSeeEveryWrite
    /\ DiskIsAPrefix

-----------------------------------------------------------------------------
\* One more write at the end of the log makes its key hold its value and
\* leaves the other keys alone.
LEMMA ReflectsAppend ==
    ASSUME NEW t \in Rows, NEW s \in Seq(Writes), NEW w \in Writes,
           \A k \in Keys :
              \/ t[k] = NoValue /\ \A i \in 1..Len(s) : s[i].key # k
              \/ \E i \in 1..Len(s) :
                    /\ s[i] = [key |-> k, value |-> t[k]]
                    /\ \A j \in (i + 1)..Len(s) : s[j].key # k,
           NEW k \in Keys
    PROVE  LET u == [t EXCEPT ![w.key] = w.value]
               r == Append(s, w)
           IN  \/ u[k] = NoValue /\ \A i \in 1..Len(r) : r[i].key # k
               \/ \E i \in 1..Len(r) :
                     /\ r[i] = [key |-> k, value |-> u[k]]
                     /\ \A j \in (i + 1)..Len(r) : r[j].key # k
  <1> DEFINE u == [t EXCEPT ![w.key] = w.value]
             r == Append(s, w)
  <1>1. /\ Len(r) = Len(s) + 1
        /\ Len(s) \in Nat
        /\ r[Len(s) + 1] = w
        /\ \A i \in 1..Len(s) : r[i] = s[i]
    OBVIOUS
  <1>2. w = [key |-> w.key, value |-> w.value] /\ w.key \in Keys
    BY DEF Writes
  <1>3. u[k] = IF k = w.key THEN w.value ELSE t[k]
    BY DEF Rows
  <1> HIDE DEF u, r
  <1>4. CASE k = w.key
    <2>1. r[Len(s) + 1] = [key |-> k, value |-> u[k]]
      BY <1>1, <1>2, <1>3, <1>4
    <2>2. \A j \in (Len(s) + 1 + 1)..Len(r) : r[j].key # k
      BY <1>1
    <2>3. Len(s) + 1 \in 1..Len(r)
      BY <1>1
    <2> QED
      BY <2>1, <2>2, <2>3 DEF u, r
  <1>5. CASE k # w.key
    <2>1. u[k] = t[k]
      BY <1>3, <1>5
    <2>2. CASE t[k] = NoValue /\ \A i \in 1..Len(s) : s[i].key # k
      <3>1. \A i \in 1..Len(r) : r[i].key # k
        BY <1>1, <1>5, <2>2
      <3> QED
        BY <2>1, <2>2, <3>1 DEF u, r
    <2>3. ASSUME NEW i \in 1..Len(s),
                 s[i] = [key |-> k, value |-> t[k]],
                 \A j \in (i + 1)..Len(s) : s[j].key # k
          PROVE  \E n \in 1..Len(r) :
                    /\ r[n] = [key |-> k, value |-> u[k]]
                    /\ \A j \in (n + 1)..Len(r) : r[j].key # k
      <3>1. \A j \in (i + 1)..Len(r) : r[j].key # k
        BY <1>1, <1>5, <2>3
      <3>2. i \in 1..Len(r) /\ r[i] = [key |-> k, value |-> u[k]]
        BY <1>1, <2>1, <2>3
      <3> QED
        BY <3>1, <3>2
    <2> QED
      BY <2>2, <2>3 DEF u, r
  <1> QED
    BY <1>4, <1>5

\* Cutting the log after the writes a table reflects leaves them as they are.
LEMMA PrefixFacts ==
    ASSUME NEW s \in Seq(Writes), NEW n \in 0..Len(s)
    PROVE  /\ SubSeq(s, 1, n) \in Seq(Writes)
           /\ Len(SubSeq(s, 1, n)) = n
           /\ \A i \in 1..n : SubSeq(s, 1, n)[i] = s[i]
  OBVIOUS

-----------------------------------------------------------------------------
LEMMA InitInv == BackendInit => BackendInv
  <1> SUFFICES ASSUME BackendInit PROVE BackendInv
    OBVIOUS
  <1> USE BackendAssumption DEF BackendInit
  <1>1. BackendTypeOK
    <2>1. disk \in Rows /\ table \in Rows
      BY DEF Rows
    <2>2. log \in Seq(Writes) /\ Len(log) = 0
      OBVIOUS
    <2>3. ctr \in 0..WritesPerTransaction /\ durable \in 0..Len(log)
      BY <2>2
    <2> QED
      BY <2>1, <2>2, <2>3 DEF BackendTypeOK
  <1>2. Accounting
    BY DEF Accounting
  <1>3. ReadsSeeEveryWrite /\ DiskIsAPrefix
    BY DEF ReadsSeeEveryWrite, DiskIsAPrefix, Reflects
  <1> QED
    BY <1>1, <1>2, <1>3 DEF BackendInv

\* maybe_begin_commit, before any of the three kinds of writes.
LEMMA BeginWriteInv ==
    ASSUME BackendInv, NEW k \in Keys, NEW v \in Values, BeginWrite(k, v)
    PROVE  BackendInv'
  <1> USE BackendAssumption
  <1>1. /\ writing = NoWrite /\ open' = TRUE
        /\ writing' = [key |-> k, value |-> v]
        /\ table' = table /\ log' = log
    BY DEF BeginWrite, MaybeBeginCommit
  <1>2. /\ ctr' \in 0..WritesPerTransaction
        /\ \/ ctr = 0 /\ open /\ disk' = table /\ durable' = Len(log)
              /\ ctr' = WritesPerTransaction
           \/ ctr = 0 /\ ~open /\ disk' = disk /\ durable' = durable
              /\ ctr' = WritesPerTransaction
           \/ ctr > 0 /\ disk' = disk /\ durable' = durable /\ ctr' = ctr - 1
    BY DEF BeginWrite, MaybeBeginCommit, CommitOpen, BackendInv, BackendTypeOK
  <1>3. BackendTypeOK'
    BY <1>1, <1>2 DEF BackendInv, BackendTypeOK, Writes
  <1>4. Accounting'
    BY <1>1, <1>2 DEF BackendInv, BackendTypeOK, Accounting
  <1>5. ReadsSeeEveryWrite'
    BY <1>1 DEF BackendInv, ReadsSeeEveryWrite, Reflects
  <1>6. DiskIsAPrefix'
    BY <1>1, <1>2 DEF BackendInv, ReadsSeeEveryWrite, DiskIsAPrefix, Reflects
  <1> QED
    BY <1>3, <1>4, <1>5, <1>6 DEF BackendInv

LEMMA InsertInv ==
    ASSUME BackendInv, Insert
    PROVE  BackendInv'
  <1> USE BackendAssumption
  <1>1. writing \in Writes /\ writing # NoWrite
    BY DEF BackendInv, BackendTypeOK, Insert
  <1>2. /\ log' = Append(log, writing) /\ writing' = NoWrite
        /\ table' = [table EXCEPT ![writing.key] = writing.value]
        /\ disk' = disk /\ open' = open /\ ctr' = ctr /\ durable' = durable
    BY DEF Insert
  <1>3. log \in Seq(Writes) /\ log' \in Seq(Writes) /\ Len(log') = Len(log) + 1
        /\ Len(log) \in Nat
        /\ \A i \in 1..Len(log) : log'[i] = log[i]
    BY <1>1, <1>2 DEF BackendInv, BackendTypeOK
  <1>4. BackendTypeOK'
    <2>1. table' \in Rows
      BY <1>1, <1>2 DEF BackendInv, BackendTypeOK, Rows, Writes
    <2> QED
      BY <1>2, <1>3, <2>1 DEF BackendInv, BackendTypeOK
  <1>5. Accounting'
    BY <1>1, <1>2, <1>3 DEF BackendInv, BackendTypeOK, Accounting
  <1>6. ReadsSeeEveryWrite'
    <2> SUFFICES ASSUME NEW k \in Keys
                 PROVE  \/ table'[k] = NoValue
                           /\ \A i \in 1..Len(log') : log'[i].key # k
                        \/ \E i \in 1..Len(log') :
                              /\ log'[i] = [key |-> k, value |-> table'[k]]
                              /\ \A j \in (i + 1)..Len(log') : log'[j].key # k
      BY DEF ReadsSeeEveryWrite, Reflects
    <2>1. table \in Rows /\ Reflects(table, Len(log))
      BY DEF BackendInv, BackendTypeOK, ReadsSeeEveryWrite
    <2> QED
      BY <1>1, <1>2, <1>3, <2>1, ReflectsAppend DEF Reflects
  <1>7. DiskIsAPrefix'
    <2>1. durable \in 0..Len(log)
      BY DEF BackendInv, BackendTypeOK
    <2> QED
      BY <1>2, <1>3, <2>1 DEF BackendInv, DiskIsAPrefix, Reflects
  <1> QED
    BY <1>4, <1>5, <1>6, <1>7 DEF BackendInv

LEMMA TickInv ==
    ASSUME BackendInv, Tick
    PROVE  BackendInv'
  <1> USE BackendAssumption DEF Tick, CommitOpen
  <1>1. BackendTypeOK'
    <2>1. BackendTypeOK
      BY DEF BackendInv
    <2>2. Len(log') = Len(log) /\ Len(log) \in Nat
      BY <2>1 DEF BackendTypeOK
    <2>3. ctr' \in 0..WritesPerTransaction /\ durable' \in 0..Len(log')
      BY <2>2
    <2> QED
      BY <2>1, <2>3 DEF BackendTypeOK
  <1>2. Accounting'
    BY DEF BackendInv, BackendTypeOK, Accounting
  <1>3. ReadsSeeEveryWrite' /\ DiskIsAPrefix'
    BY DEF BackendInv, ReadsSeeEveryWrite, DiskIsAPrefix, Reflects
  <1> QED
    BY <1>1, <1>2, <1>3 DEF BackendInv

LEMMA CrashInv ==
    ASSUME BackendInv, Crash
    PROVE  BackendInv'
  <1> USE BackendAssumption
  <1>1. /\ table' = disk /\ disk' = disk /\ durable' = durable
        /\ open' = FALSE /\ ctr' = 0 /\ writing' = NoWrite
        /\ log' = SubSeq(log, 1, durable)
    BY DEF Crash
  <1>2. log \in Seq(Writes) /\ durable \in 0..Len(log)
    BY DEF BackendInv, BackendTypeOK
  <1>3. /\ log' \in Seq(Writes) /\ Len(log') = durable
        /\ \A i \in 1..durable : log'[i] = log[i]
    BY <1>1, <1>2, PrefixFacts
  <1>4. BackendTypeOK'
    <2>1. durable' \in 0..Len(log') /\ ctr' \in 0..WritesPerTransaction
      BY <1>1, <1>2, <1>3
    <2>2. BackendTypeOK
      BY DEF BackendInv
    <2> QED
      BY <1>1, <1>3, <2>1, <2>2 DEF BackendTypeOK
  <1>5. Accounting'
    BY <1>1, <1>2, <1>3 DEF Accounting
  <1>6. ReadsSeeEveryWrite' /\ DiskIsAPrefix'
    BY <1>1, <1>2, <1>3
    DEF BackendInv, ReadsSeeEveryWrite, DiskIsAPrefix, Reflects
  <1> QED
    BY <1>4, <1>5, <1>6 DEF BackendInv

LEMMA StutterInv ==
    ASSUME BackendInv, UNCHANGED backendVars
    PROVE  BackendInv'
  BY DEF backendVars, BackendInv, BackendTypeOK, Accounting,
         ReadsSeeEveryWrite, DiskIsAPrefix, Reflects

LEMMA NextInv == BackendInv /\ [BackendNext]_backendVars => BackendInv'
  <1> SUFFICES ASSUME BackendInv, [BackendNext]_backendVars PROVE BackendInv'
    OBVIOUS
  <1>1. ASSUME NEW k \in Keys, NEW v \in Values,
               StoreChunk(k, v) \/ SetGlobalKv(k, v) \/ SetPlayerKv(k, v)
        PROVE  BackendInv'
    BY <1>1, BeginWriteInv DEF StoreChunk, SetGlobalKv, SetPlayerKv
  <1>2. CASE Insert
    BY <1>2, InsertInv
  <1>3. CASE Tick
    BY <1>3, TickInv
  <1>4. CASE Crash
    BY <1>4, CrashInv
  <1>5. CASE UNCHANGED backendVars
    BY <1>5, StutterInv
  <1> QED
    BY <1>1, <1>2, <1>3, <1>4, <1>5 DEF BackendNext

\* The inductive invariant holds in every reachable state.
LEMMA BackendInvariant == BackendSpec => []BackendInv
  BY InitInv, NextInv, PTL DEF BackendSpec

-----------------------------------------------------------------------------
\* The variables of SqliteStorageBackend keep their types.
THEOREM TypeCorrect == BackendSpec => []BackendTypeOK
  BY BackendInvariant, PTL DEF BackendInv

\* load_chunk, get_global_kv and get_player_kv return the last write, before
\* and after any number of commits and crashes.
THEOREM ReadsAreCurrent == BackendSpec => []ReadsSeeEveryWrite
  BY BackendInvariant, PTL DEF BackendInv

\* A crash never leaves a write without the writes made before it.
THEOREM CrashLeavesAPrefix == BackendSpec => []DiskIsAPrefix
  BY BackendInvariant, PTL DEF BackendInv

\* No transaction grows beyond WritesPerTransaction + 1 writes.
THEOREM TransactionsAreBounded == BackendSpec => []TransactionBound
  <1>1. BackendInv => TransactionBound
    BY BackendAssumption
    DEF BackendInv, BackendTypeOK, Accounting, TransactionBound
  <1> QED
    BY <1>1, BackendInvariant, PTL
-----------------------------------------------------------------------------
\* Each step of the backend is a step of the durable log, or none: the INSERT
\* is its write, and a transaction ended by a write or by tick its commit.
LEMMA StepSimulation ==
    BackendInv /\ [BackendNext]_backendVars
       => [Durable!Next]_(Durable!logVars)
  <1> SUFFICES ASSUME BackendInv, [BackendNext]_backendVars
               PROVE  [Durable!Next]_(Durable!logVars)
    OBVIOUS
  <1> USE BackendAssumption
  <1>1. ASSUME NEW k \in Keys, NEW v \in Values, BeginWrite(k, v)
        PROVE  Durable!Commit \/ UNCHANGED Durable!logVars
    BY <1>1
    DEF BeginWrite, MaybeBeginCommit, CommitOpen, Durable!Commit,
        Durable!logVars, BackendInv, BackendTypeOK
  <1>2. CASE Insert
    <2>1. writing \in Writes
      BY <1>2 DEF Insert, BackendInv, BackendTypeOK
    <2>2. Len(log) + 1 - durable <= WritesPerTransaction + 1
      BY <1>2 DEF Insert, BackendInv, BackendTypeOK, Accounting
    <2>3. Durable!Write(writing)
      BY <1>2, <2>2 DEF Insert, Durable!Write
    <2> QED
      BY <2>1, <2>3 DEF Durable!Next
  <1>3. CASE Tick
    BY <1>3 DEF Tick, CommitOpen, Durable!Next, Durable!Commit
  <1>4. CASE Crash
    BY <1>4 DEF Crash, Durable!Next, Durable!Crash
  <1>5. CASE UNCHANGED backendVars
    BY <1>5 DEF backendVars, Durable!logVars
  <1> QED
    BY <1>1, <1>2, <1>3, <1>4, <1>5
    DEF BackendNext, StoreChunk, SetGlobalKv, SetPlayerKv, Durable!Next

\* SqliteStorageBackend implements the durable log: whatever the grouping into
\* transactions, its users see an ordered log of which a crash loses at most
\* the last WritesPerTransaction + 1 writes.
THEOREM Refinement == BackendSpec => ImplementsDurableLog
  <1>1. BackendInit => Durable!Init
    BY DEF BackendInit, Durable!Init
  <1> QED
    BY <1>1, StepSimulation, BackendInvariant, PTL
    DEF BackendSpec, ImplementsDurableLog, Durable!Spec

-----------------------------------------------------------------------------
(* TcpMsgStream.                                                             *)
(*                                                                           *)
(* One direction of a connection: S are the messages sent, St where each     *)
(* starts, B the bytes, wr those in the kernel; g the messages got, rd the   *)
(* bytes read, la and lr the length read so far, ca and cc the body.         *)

Framed(S, St, B) ==
    /\ S \in Seq(Msgs) /\ B \in Seq(Bytes)
    /\ St \in Seq(Nat) /\ Len(St) = Len(S) + 1
    /\ St[1] = 0 /\ St[Len(S) + 1] = Len(B)
    /\ \A i \in 1..(Len(S) + 1) : St[i] \in Nat /\ St[i] <= Len(B)
    /\ \A i \in 1..Len(S) :
          /\ St[i + 1] = St[i] + LenBytes + Len(S[i])
          /\ \A j \in 1..LenBytes : B[St[i] + j] = ToBytes[Len(S[i])][j]
          /\ \A j \in 1..Len(S[i]) : B[St[i] + LenBytes + j] = S[i][j]

\* A body is begun when its length is known.
Begun(m, b, B, ca, cc) ==
    \/ ca = << >> /\ cc = 0
    \/ /\ ca \in Seq(Bytes) /\ Len(ca) = Len(m)
       /\ cc \in 0..(Len(m) - 1)
       /\ \A j \in 1..cc : ca[j] = B[b + LenBytes + j]

\* What has been got is what was sent first; what has been read since is the
\* start of the next message.
Reading(S, St, B, wr, g, rd, la, lr, ca, cc) ==
    /\ g \in Seq(Msgs) /\ Len(g) <= Len(S) /\ \A i \in 1..Len(g) : g[i] = S[i]
    /\ wr \in Nat /\ wr <= Len(B) /\ rd \in Nat /\ rd <= wr
    /\ lr \in 0..LenBytes /\ cc \in Nat
    /\ la \in [1..LenBytes -> Bytes]
    /\ rd = St[Len(g) + 1] + lr + cc
    /\ \A j \in 1..lr : la[j] = B[St[Len(g) + 1] + j]
    /\ lr < LenBytes => ca = << >> /\ cc = 0
    /\ lr = LenBytes => /\ Len(g) < Len(S)
                        /\ Begun(S[Len(g) + 1], St[Len(g) + 1], B, ca, cc)

-----------------------------------------------------------------------------
(* What is read. *)

LEMMA MessageIs ==
    ASSUME NEW m \in Msgs
    PROVE  /\ m \in Seq(Bytes) /\ Len(m) \in Nat /\ Len(m) # 0
           /\ ToBytes[Len(m)] \in [1..LenBytes -> Bytes]
           /\ FromBytes[ToBytes[Len(m)]] = Len(m)
           /\ \A i \in 1..Len(m) : m[i] \in Bytes
  <1>1. m \in Seq(Bytes) /\ m # << >>
    BY FramingAssumption
  <1>2. Len(m) \in Nat /\ Len(m) # 0
    BY <1>1, EmptySeq, LenProperties
  <1>3. \A i \in 1..Len(m) : m[i] \in Bytes
    BY <1>1, ElementOfSeq
  <1> QED
    BY <1>1, <1>2, <1>3, FramingAssumption

LEMMA FrameIs ==
    ASSUME NEW m \in Msgs
    PROVE  /\ Frame(m) \in Seq(Bytes) /\ Len(Frame(m)) = LenBytes + Len(m)
           /\ \A j \in 1..LenBytes : Frame(m)[j] = ToBytes[Len(m)][j]
           /\ \A j \in 1..Len(m) : Frame(m)[LenBytes + j] = m[j]
  <1> DEFINE t == ToBytes[Len(m)]
  <1>1. m \in Seq(Bytes) /\ t \in [1..LenBytes -> Bytes] /\ Len(m) \in Nat /\ LenBytes \in Nat
    BY MessageIs, FramingAssumption
  <1> HIDE DEF t
  <1>2. t \in Seq(Bytes) /\ Len(t) = LenBytes
    BY <1>1
  <1>3. /\ t \o m \in Seq(Bytes) /\ Len(t \o m) = LenBytes + Len(m)
        /\ \A i \in 1..(LenBytes + Len(m)) :
              (t \o m)[i] = IF i <= LenBytes THEN t[i] ELSE m[i - LenBytes]
    BY <1>1, <1>2, ConcatProperties
  <1> DEFINE f == t \o m
  <1> HIDE DEF f
  <1>4. \A j \in 1..LenBytes : f[j] = t[j]
    BY <1>1, <1>3 DEF f
  <1>5. \A j \in 1..Len(m) : f[LenBytes + j] = m[j]
    <2> TAKE j \in 1..Len(m)
    <2>1. PICK i \in Int : i = LenBytes + j /\ j = i - LenBytes
      BY <1>1
    <2>2. i \in 1..(LenBytes + Len(m)) /\ ~(i <= LenBytes)
      BY <1>1, <2>1
    <2>3. f[i] = m[i - LenBytes]
      BY <1>3, <2>2 DEF f
    <2> QED
      BY <2>1, <2>3
  <1> QED
    BY <1>3, <1>4, <1>5 DEF Frame, t, f

LEMMA InFrame ==
    ASSUME NEW x \in Nat, NEW l \in Nat, NEW b \in Nat, x + LenBytes + l <= b
    PROVE  /\ \A j \in 1..LenBytes : x + j \in 1..b
           /\ \A j \in 1..l : x + LenBytes + j \in 1..b
  <1>1. LenBytes \in Nat
    BY FramingAssumption
  <1> QED
    BY <1>1

\* Messages, starts and bytes more.
Extended(S, St, B, T, Tt, C) ==
    /\ Len(T) \in Nat /\ Len(S) <= Len(T) /\ \A i \in 1..Len(S) : T[i] = S[i]
    /\ \A i \in 1..(Len(S) + 1) : Tt[i] = St[i]
    /\ Len(C) \in Nat /\ Len(B) <= Len(C) /\ \A i \in 1..Len(B) : C[i] = B[i]

\* A frame more leaves those before as they are.
LEMMA FrameAppended ==
    ASSUME NEW S, NEW St, NEW B, Framed(S, St, B), NEW m \in Msgs,
           NEW T, T = Append(S, m),
           NEW Tt, Tt = Append(St, Len(B) + LenBytes + Len(m)),
           NEW C, C = B \o Frame(m)
    PROVE  Framed(T, Tt, C) /\ Extended(S, St, B, T, Tt, C)
  <1> DEFINE f == Frame(m)
             n == Len(S)
             b == Len(B)
             e == b + LenBytes + Len(m)
  <1>1. /\ f \in Seq(Bytes) /\ Len(f) = LenBytes + Len(m)
        /\ \A j \in 1..LenBytes : f[j] = ToBytes[Len(m)][j]
        /\ \A j \in 1..Len(m) : f[LenBytes + j] = m[j]
    BY FrameIs
  <1>2. /\ S \in Seq(Msgs) /\ B \in Seq(Bytes) /\ St \in Seq(Nat) /\ Len(St) = n + 1
        /\ n \in Nat /\ b \in Nat /\ Len(m) \in Nat /\ LenBytes \in Nat
    BY MessageIs, LenProperties, FramingAssumption DEF Framed
  <1> HIDE DEF f
  <1>3. /\ C \in Seq(Bytes) /\ Len(C) = e
        /\ \A i \in 1..e : C[i] = IF i <= b THEN B[i] ELSE f[i - b]
    <2>1. C = B \o f
      BY DEF f
    <2>2. /\ C \in Seq(Bytes) /\ Len(C) = Len(B) + Len(f)
          /\ \A i \in 1..(Len(B) + Len(f)) : C[i] = IF i <= Len(B) THEN B[i] ELSE f[i - Len(B)]
      BY <1>1, <1>2, <2>1, ConcatProperties
    <2>3. Len(B) + Len(f) = e
      BY <1>1, <1>2
    <2> QED
      BY <2>2, <2>3
  <1>4. /\ T \in Seq(Msgs) /\ Len(T) = n + 1 /\ T[n + 1] = m
        /\ \A i \in 1..n : T[i] = S[i]
    BY <1>2, AppendProperties
  <1>5. /\ Tt \in Seq(Nat) /\ Len(Tt) = n + 2 /\ Tt[n + 2] = e
        /\ \A i \in 1..(n + 1) : Tt[i] = St[i]
    <2>1. e \in Nat
      BY <1>2
    <2> HIDE DEF e
    <2>2. Tt = Append(St, e)
      BY DEF e
    <2> QED
      BY <1>2, <2>1, <2>2, AppendProperties
  <1>6. \A i \in 1..b : C[i] = B[i]
    BY <1>2, <1>3
  <1>7. \A j \in 1..(LenBytes + Len(m)) : C[b + j] = f[j]
    <2> TAKE j \in 1..(LenBytes + Len(m))
    <2>1. b + j \in 1..e /\ ~(b + j <= b) /\ b + j - b = j
      BY <1>2
    <2> QED
      BY <1>3, <2>1
  <1> HIDE DEF n, b, e
  <1>8. b <= e /\ e \in Nat
    BY <1>2 DEF e
  <1>9. /\ St[1] = 0 /\ St[n + 1] = b
        /\ \A i \in 1..(n + 1) : St[i] \in Nat /\ St[i] <= b
        /\ \A i \in 1..n : /\ St[i + 1] = St[i] + LenBytes + Len(S[i])
                           /\ \A j \in 1..LenBytes : B[St[i] + j] = ToBytes[Len(S[i])][j]
                           /\ \A j \in 1..Len(S[i]) : B[St[i] + LenBytes + j] = S[i][j]
    BY DEF Framed, n, b
  <1>10. \A i \in 1..(n + 2) : i \in 1..(n + 1) \/ i = n + 2
    BY <1>2
  <1>11. \A i \in 1..(n + 2) : Tt[i] \in Nat /\ Tt[i] <= e
    BY <1>2, <1>5, <1>8, <1>9, <1>10
  <1>12. ASSUME NEW i \in 1..n
         PROVE  /\ Tt[i + 1] = Tt[i] + LenBytes + Len(T[i])
                /\ \A j \in 1..LenBytes : C[Tt[i] + j] = ToBytes[Len(T[i])][j]
                /\ \A j \in 1..Len(T[i]) : C[Tt[i] + LenBytes + j] = T[i][j]
    <2>1. T[i] = S[i] /\ Tt[i] = St[i] /\ Tt[i + 1] = St[i + 1]
      <3>1. i \in 1..(n + 1) /\ i + 1 \in 1..(n + 1)
        BY <1>2
      <3> QED
        BY <1>4, <1>5, <3>1
    <2>2. Len(S[i]) \in Nat
      BY <1>2, ElementOfSeq, MessageIs DEF n
    <2>3. /\ St[i] \in Nat /\ St[i + 1] <= b /\ St[i + 1] = St[i] + LenBytes + Len(S[i])
      <3>1. i \in 1..(n + 1) /\ i + 1 \in 1..(n + 1)
        BY <1>2
      <3> QED
        BY <1>9, <3>1
    <2>4. PICK x \in Nat, l \in Nat : x = St[i] /\ l = Len(S[i]) /\ x + LenBytes + l <= b
      BY <2>2, <2>3
    <2>5. /\ \A j \in 1..LenBytes : x + j \in 1..b
          /\ \A j \in 1..l : x + LenBytes + j \in 1..b
      BY <1>2, <2>4, InFrame
    <2>6. /\ \A j \in 1..LenBytes : C[x + j] = ToBytes[Len(S[i])][j]
          /\ \A j \in 1..Len(S[i]) : C[x + LenBytes + j] = S[i][j]
      BY <1>6, <1>9, <2>4, <2>5
    <2> QED
      BY <2>1, <2>3, <2>4, <2>6
  <1>13. /\ Tt[n + 2] = Tt[n + 1] + LenBytes + Len(T[n + 1])
         /\ \A j \in 1..LenBytes : C[Tt[n + 1] + j] = ToBytes[Len(T[n + 1])][j]
         /\ \A j \in 1..Len(T[n + 1]) : C[Tt[n + 1] + LenBytes + j] = T[n + 1][j]
    <2>1. Tt[n + 1] = b /\ T[n + 1] = m /\ Tt[n + 2] = e
      BY <1>2, <1>4, <1>5, <1>9
    <2>2. b \in Nat /\ LenBytes \in Nat /\ Len(m) \in Nat
      BY <1>2 DEF b
    <2>3. \A j \in 1..LenBytes : C[b + j] = ToBytes[Len(m)][j]
      <3> TAKE j \in 1..LenBytes
      <3>1. j \in 1..(LenBytes + Len(m))
        BY <2>2
      <3> QED
        BY <1>1, <1>7, <3>1
    <2>4. \A j \in 1..Len(m) : C[b + LenBytes + j] = m[j]
      <3> TAKE j \in 1..Len(m)
      <3>1. PICK i \in Int : i = LenBytes + j /\ b + LenBytes + j = b + i
        BY <2>2
      <3>2. i \in 1..(LenBytes + Len(m))
        BY <2>2, <3>1
      <3> QED
        BY <1>1, <1>7, <3>1, <3>2
    <2> QED
      BY <2>1, <2>3, <2>4 DEF e
  <1>14. \A i \in 1..(n + 1) : i \in 1..n \/ i = n + 1
    BY <1>2
  <1>15. n + 1 + 1 = n + 2 /\ Tt[1] = 0
    BY <1>2, <1>5, <1>9
  <1>16. Framed(T, Tt, C)
    <2>1. ASSUME NEW i \in 1..(n + 1)
          PROVE  /\ Tt[i + 1] = Tt[i] + LenBytes + Len(T[i])
                 /\ \A j \in 1..LenBytes : C[Tt[i] + j] = ToBytes[Len(T[i])][j]
                 /\ \A j \in 1..Len(T[i]) : C[Tt[i] + LenBytes + j] = T[i][j]
      <3>1. CASE i \in 1..n
        BY <1>12, <3>1
      <3>2. CASE i = n + 1
        BY <1>13, <1>15, <3>2, Zenon
      <3> QED
        BY <1>14, <3>1, <3>2
    <2>2. Len(Tt) = Len(T) + 1 /\ Len(T) + 1 = n + 2 /\ Tt[Len(T) + 1] = Len(C)
      BY <1>2, <1>3, <1>4, <1>5
    <2>3. \A i \in 1..(Len(T) + 1) : Tt[i] \in Nat /\ Tt[i] <= Len(C)
      BY <1>3, <1>11, <2>2, Zenon
    <2>4. \A i \in 1..Len(T) :
             /\ Tt[i + 1] = Tt[i] + LenBytes + Len(T[i])
             /\ \A j \in 1..LenBytes : C[Tt[i] + j] = ToBytes[Len(T[i])][j]
             /\ \A j \in 1..Len(T[i]) : C[Tt[i] + LenBytes + j] = T[i][j]
      BY <1>4, <2>1, Zenon
    <2> QED
      BY <1>3, <1>4, <1>5, <1>15, <2>2, <2>3, <2>4, Zenon DEF Framed
  <1> QED
    BY <1>2, <1>3, <1>4, <1>5, <1>6, <1>8, <1>16 DEF n, b, e, Extended

\* The bytes of a direction and where the reader stands in them.
LEMMA ReadingIs ==
    ASSUME NEW S, NEW St, NEW B, NEW wr, NEW g, NEW rd, NEW la, NEW lr, NEW ca, NEW cc,
           Framed(S, St, B), Reading(S, St, B, wr, g, rd, la, lr, ca, cc)
    PROVE  /\ Len(S) \in Nat /\ Len(g) \in Nat /\ Len(B) \in Nat /\ LenBytes \in Nat
           /\ Len(g) + 1 \in 1..(Len(S) + 1)
           /\ St[Len(g) + 1] \in Nat
           /\ Len(g) = Len(S) => St[Len(g) + 1] = Len(B)
           /\ \A i \in 1..Len(B) : B[i] \in Bytes
  <1>1. Len(S) \in Nat /\ Len(g) \in Nat /\ Len(B) \in Nat /\ LenBytes \in Nat
    BY LenProperties, FramingAssumption DEF Framed, Reading
  <1>2. Len(g) + 1 \in 1..(Len(S) + 1)
    BY <1>1 DEF Reading
  <1>3. \A i \in 1..Len(B) : B[i] \in Bytes
    BY ElementOfSeq DEF Framed
  <1> QED
    BY <1>1, <1>2, <1>3 DEF Framed

\* More messages, and more bytes on their way, are nothing to the reader yet.
LEMMA ReadingStays ==
    ASSUME NEW S, NEW St, NEW B, NEW wr, NEW g, NEW rd, NEW la, NEW lr, NEW ca, NEW cc,
           Framed(S, St, B), Reading(S, St, B, wr, g, rd, la, lr, ca, cc),
           NEW T, NEW Tt, NEW C, Extended(S, St, B, T, Tt, C),
           NEW v \in Nat, wr <= v, v <= Len(C)
    PROVE  Reading(T, Tt, C, v, g, rd, la, lr, ca, cc)
  <1> DEFINE n == Len(g) + 1
             b == St[n]
  <1>1. /\ Len(S) \in Nat /\ Len(g) \in Nat /\ Len(B) \in Nat /\ LenBytes \in Nat
        /\ n \in 1..(Len(S) + 1) /\ b \in Nat
    BY ReadingIs
  <1>2. /\ g \in Seq(Msgs) /\ Len(g) <= Len(S) /\ \A i \in 1..Len(g) : g[i] = S[i]
        /\ wr \in Nat /\ wr <= Len(B) /\ rd \in Nat /\ rd <= wr
        /\ lr \in 0..LenBytes /\ cc \in Nat
        /\ la \in [1..LenBytes -> Bytes]
        /\ rd = b + lr + cc
        /\ \A j \in 1..lr : la[j] = B[b + j]
        /\ lr < LenBytes => ca = << >> /\ cc = 0
        /\ lr = LenBytes => Len(g) < Len(S) /\ Begun(S[n], b, B, ca, cc)
    BY DEF Reading
  <1>3. /\ Len(T) \in Nat /\ Len(S) <= Len(T) /\ \A i \in 1..Len(S) : T[i] = S[i]
        /\ \A i \in 1..(Len(S) + 1) : Tt[i] = St[i]
        /\ Len(C) \in Nat /\ Len(B) <= Len(C) /\ \A i \in 1..Len(B) : C[i] = B[i]
    BY DEF Extended
  <1>4. Tt[n] = b
    BY <1>1, <1>3
  <1>5. Len(g) <= Len(T) /\ \A i \in 1..Len(g) : g[i] = T[i]
    <2>1. \A i \in 1..Len(g) : i \in 1..Len(S)
      BY <1>1, <1>2
    <2> QED
      BY <1>1, <1>2, <1>3, <2>1
  <1> HIDE DEF b
  <1>6. \A j \in 1..lr : C[b + j] = B[b + j]
    <2> TAKE j \in 1..lr
    <2>1. b + j \in 1..Len(B)
      BY <1>1, <1>2
    <2> QED
      BY <1>3, <2>1
  <1>7. ASSUME lr = LenBytes PROVE Len(g) < Len(T) /\ Begun(T[n], b, C, ca, cc)
    <2>1. Len(g) < Len(T) /\ T[n] = S[n]
      BY <1>1, <1>2, <1>7, <1>3
    <2>2. Begun(S[n], b, B, ca, cc)
      BY <1>2, <1>7
    <2>3. ASSUME NEW j \in 1..cc PROVE C[b + LenBytes + j] = B[b + LenBytes + j]
      <3>1. b + LenBytes + j \in 1..Len(B)
        BY <1>1, <1>2, <1>7
      <3> QED
        BY <1>3, <3>1
    <2>4. Begun(S[n], b, C, ca, cc)
      BY <2>2, <2>3 DEF Begun
    <2> QED
      BY <2>1, <2>4
  <1>8. rd <= v
    BY <1>2
  <1> QED
    BY <1>2, <1>4, <1>5, <1>6, <1>7, <1>8 DEF Reading

\* buf with k bytes from the stream B, of which rd are read, from n on.
Spliced(B, rd, buf, n, k) ==
    [i \in 1..Len(buf) |-> IF i \in (n + 1)..(n + k) THEN B[rd + i - n] ELSE buf[i]]

\* A part of the length.
LEMMA ReadLenKeeps ==
    ASSUME NEW S, NEW St, NEW B, NEW wr, NEW g, NEW rd, NEW la, NEW lr, NEW ca, NEW cc,
           Framed(S, St, B), Reading(S, St, B, wr, g, rd, la, lr, ca, cc),
           lr < LenBytes, NEW k \in 1..(LenBytes - lr), k <= wr - rd,
           NEW la2, la2 = Spliced(B, rd, la, lr, k)
    PROVE  Reading(S, St, B, wr, g, rd + k, la2, lr + k, ca, cc)
  <1> DEFINE n == Len(g) + 1
             b == St[n]
  <1>1. /\ Len(S) \in Nat /\ Len(g) \in Nat /\ Len(B) \in Nat /\ LenBytes \in Nat
        /\ n \in 1..(Len(S) + 1) /\ b \in Nat
        /\ Len(g) = Len(S) => b = Len(B)
        /\ \A i \in 1..Len(B) : B[i] \in Bytes
    BY ReadingIs
  <1>2. /\ g \in Seq(Msgs) /\ Len(g) <= Len(S) /\ \A i \in 1..Len(g) : g[i] = S[i]
        /\ wr \in Nat /\ wr <= Len(B) /\ rd \in Nat /\ rd <= wr
        /\ lr \in 0..LenBytes /\ cc = 0 /\ ca = << >>
        /\ la \in [1..LenBytes -> Bytes]
        /\ rd = b + lr + cc
        /\ \A j \in 1..lr : la[j] = B[b + j]
    BY DEF Reading
  <1> HIDE DEF b
  <1>3. /\ k \in Nat /\ k # 0 /\ rd + k \in Nat /\ rd + k <= wr /\ rd = b + lr
        /\ lr + k \in 0..LenBytes /\ lr \in Nat
    <2>1. rd = b + lr + cc /\ cc = 0 /\ rd \in Nat /\ wr \in Nat /\ lr \in 0..LenBytes
      BY <1>2
    <2>2. b \in Nat /\ LenBytes \in Nat
      BY <1>1
    <2>3. k \in Nat /\ k # 0 /\ k <= LenBytes - lr /\ k <= wr - rd
      BY <2>1, <2>2
    <2> QED
      BY <2>1, <2>2, <2>3
  <1>4. Len(la) = LenBytes
    BY <1>1, <1>2
  <1>5. \A i \in (lr + 1)..(lr + k) : rd + i - lr = b + i /\ b + i \in 1..Len(B)
    BY <1>1, <1>2, <1>3
  <1>6. /\ la2 = [i \in 1..LenBytes |-> la2[i]]
        /\ \A i \in 1..LenBytes :
              la2[i] = IF i \in (lr + 1)..(lr + k) THEN B[b + i] ELSE la[i]
    BY <1>4, <1>5 DEF Spliced
  <1>7. la2 \in [1..LenBytes -> Bytes]
    <2>1. \A i \in 1..LenBytes : la2[i] \in Bytes
      BY <1>1, <1>2, <1>5, <1>6
    <2> QED
      BY <1>6, <2>1
  <1>8. \A j \in 1..(lr + k) : la2[j] = B[b + j]
    <2> TAKE j \in 1..(lr + k)
    <2>1. j \in 1..LenBytes /\ (j \in 1..lr \/ j \in (lr + 1)..(lr + k))
      BY <1>1, <1>3
    <2>2. j \in 1..lr => j \notin (lr + 1)..(lr + k)
      BY <1>3
    <2> QED
      BY <1>2, <1>6, <2>1, <2>2
  <1>9. Len(g) < Len(S)
    BY <1>1, <1>2, <1>3
  <1>10. rd + k = b + (lr + k) + cc
    BY <1>1, <1>2, <1>3
  <1> QED
    BY <1>1, <1>2, <1>3, <1>7, <1>8, <1>9, <1>10 DEF Reading, Begun, b

LEMMA SeqOf ==
    ASSUME NEW S, NEW n \in Nat, NEW s \in [1..n -> S]
    PROVE  s \in Seq(S) /\ Len(s) = n
  OBVIOUS

LEMMA ZerosIs ==
    ASSUME NEW n \in Nat
    PROVE  Zeros(n) \in Seq(Bytes) /\ Len(Zeros(n)) = n
  <1>1. Zeros(n) \in [1..n -> Bytes]
    BY FramingAssumption DEF Zeros
  <1> QED
    BY <1>1, SeqOf

\* The buffer for a body of length l.
Made(ca, l) == IF Len(ca) = l THEN ca ELSE Zeros(l)

\* A whole length is that of the message, and the buffer is as long.
LEMMA BufferIs ==
    ASSUME NEW S, NEW St, NEW B, NEW wr, NEW g, NEW rd, NEW la, NEW lr, NEW ca, NEW cc,
           Framed(S, St, B), Reading(S, St, B, wr, g, rd, la, lr, ca, cc),
           lr = LenBytes,
           NEW b0, b0 = Made(ca, FromBytes[la])
    PROVE  LET m == S[Len(g) + 1]
           IN /\ m \in Msgs /\ Len(g) < Len(S)
              /\ b0 \in Seq(Bytes) /\ Len(b0) = Len(m)
              /\ cc \in 0..(Len(m) - 1)
              /\ \A j \in 1..cc : b0[j] = B[St[Len(g) + 1] + LenBytes + j]
  <1> DEFINE n == Len(g) + 1
             m == S[n]
             b == St[n]
  <1>1. /\ Len(S) \in Nat /\ Len(g) \in Nat /\ LenBytes \in Nat
        /\ n \in 1..(Len(S) + 1) /\ b \in Nat
    BY ReadingIs
  <1>2. /\ Len(g) < Len(S) /\ Begun(m, b, B, ca, cc)
        /\ la \in [1..LenBytes -> Bytes]
        /\ \A j \in 1..LenBytes : la[j] = B[b + j]
    BY DEF Reading
  <1>3. n \in 1..Len(S)
    BY <1>1, <1>2
  <1>4. m \in Msgs
    BY <1>3, ElementOfSeq DEF Framed
  <1>5. /\ Len(m) \in Nat /\ Len(m) # 0
        /\ ToBytes[Len(m)] \in [1..LenBytes -> Bytes]
        /\ FromBytes[ToBytes[Len(m)]] = Len(m)
    BY <1>4, MessageIs
  <1>6. \A j \in 1..LenBytes : B[b + j] = ToBytes[Len(m)][j]
    BY <1>3 DEF Framed
  <1> HIDE DEF m, b
  <1>7. la = ToBytes[Len(m)]
    <2> DEFINE t == ToBytes[Len(m)]
    <2>1. t \in [1..LenBytes -> Bytes] /\ \A j \in 1..LenBytes : la[j] = t[j]
      BY <1>2, <1>5, <1>6
    <2> HIDE DEF t
    <2>2. la = t
      <3>1. la = [j \in 1..LenBytes |-> la[j]] /\ t = [j \in 1..LenBytes |-> t[j]]
        BY <1>2, <2>1
      <3> QED
        BY <2>1, <3>1, Zenon
    <2> QED
      BY <2>2 DEF t
  <1>8. FromBytes[la] = Len(m)
    BY <1>5, <1>7
  <1>9. CASE ca = << >> /\ cc = 0
    <2>1. b0 = Zeros(Len(m))
      <3>1. Len(ca) = 0
        BY <1>9
      <3> QED
        BY <1>5, <1>8, <3>1 DEF Made
    <2>2. b0 \in Seq(Bytes) /\ Len(b0) = Len(m)
      BY <1>5, <2>1, ZerosIs
    <2> QED
      BY <1>2, <1>4, <1>5, <1>9, <2>2 DEF m
  <1>10. CASE ~(ca = << >> /\ cc = 0)
    <2>1. /\ ca \in Seq(Bytes) /\ Len(ca) = Len(m)
          /\ cc \in 0..(Len(m) - 1)
          /\ \A j \in 1..cc : ca[j] = B[b + LenBytes + j]
      BY <1>2, <1>10 DEF Begun
    <2>2. b0 = ca
      BY <1>8, <2>1 DEF Made
    <2> QED
      BY <1>2, <1>4, <2>1, <2>2 DEF m, b
  <1> QED
    BY <1>9, <1>10

\* After a read of the body, c bytes of it are in buf.
BodyRead(S, St, B, wr, g, rd, la, buf, c) ==
    /\ c = Len(buf) => /\ Len(g) < Len(S) /\ buf = S[Len(g) + 1]
                       /\ Reading(S, St, B, wr, Append(g, buf), rd, la, 0, << >>, 0)
    /\ c # Len(buf) => Reading(S, St, B, wr, g, rd, la, LenBytes, buf, c)

\* A part of the body: with the last one the message has been got as it was sent.
LEMMA ReadBodyKeeps ==
    ASSUME NEW S, NEW St, NEW B, NEW wr, NEW g, NEW rd, NEW la, NEW lr, NEW ca, NEW cc,
           Framed(S, St, B), Reading(S, St, B, wr, g, rd, la, lr, ca, cc),
           lr = LenBytes,
           NEW b0, b0 = Made(ca, FromBytes[la]),
           NEW k \in 0..(Len(b0) - cc), k <= wr - rd,
           NEW buf, buf = Spliced(B, rd, b0, cc, k),
           NEW rd2, rd2 = rd + k, NEW c2, c2 = cc + k
    PROVE  BodyRead(S, St, B, wr, g, rd2, la, buf, c2)
  <1> SUFFICES ASSUME NEW h, h = Append(g, buf)
               PROVE  /\ c2 = Len(buf) =>
                            /\ Len(g) < Len(S) /\ buf = S[Len(g) + 1]
                            /\ Reading(S, St, B, wr, h, rd2, la, 0, << >>, 0)
                      /\ c2 # Len(buf) => Reading(S, St, B, wr, g, rd2, la, LenBytes, buf, c2)
    BY DEF BodyRead
  <1> DEFINE n == Len(g) + 1
             m == S[n]
             b == St[n]
             e == b + LenBytes
  <1>1. /\ Len(S) \in Nat /\ Len(g) \in Nat /\ Len(B) \in Nat /\ LenBytes \in Nat
        /\ n \in 1..(Len(S) + 1) /\ b \in Nat
        /\ \A i \in 1..Len(B) : B[i] \in Bytes
    BY ReadingIs
  <1>2. /\ g \in Seq(Msgs) /\ Len(g) <= Len(S) /\ \A i \in 1..Len(g) : g[i] = S[i]
        /\ wr \in Nat /\ wr <= Len(B) /\ rd \in Nat /\ rd <= wr
        /\ cc \in Nat /\ la \in [1..LenBytes -> Bytes]
        /\ rd = b + LenBytes + cc
        /\ \A j \in 1..LenBytes : la[j] = B[b + j]
    BY DEF Reading
  <1>3. /\ m \in Msgs /\ Len(g) < Len(S)
        /\ b0 \in Seq(Bytes) /\ Len(b0) = Len(m)
        /\ cc \in 0..(Len(m) - 1)
        /\ \A j \in 1..cc : b0[j] = B[b + LenBytes + j]
    BY BufferIs
  <1>4. Len(m) \in Nat /\ Len(m) # 0 /\ m \in Seq(Bytes)
    BY <1>3, MessageIs
  <1>5. n \in 1..Len(S) /\ n + 1 \in 1..(Len(S) + 1)
    BY <1>1, <1>3
  <1>6. /\ St[n + 1] = b + LenBytes + Len(m)
        /\ \A j \in 1..Len(m) : B[b + LenBytes + j] = m[j]
    BY <1>5 DEF Framed
  <1> HIDE DEF m, b
  <1>7. /\ k \in Nat /\ cc + k \in 0..Len(m) /\ rd + k \in Nat /\ rd + k <= wr
        /\ e \in Nat /\ rd = e + cc
    BY <1>1, <1>2, <1>3, <1>4
  <1> HIDE DEF e
  <1>8. \A i \in (cc + 1)..(cc + k) : rd + i - cc = e + i /\ e + i \in 1..Len(B)
    BY <1>1, <1>2, <1>7
  <1>9. /\ buf \in Seq(Bytes) /\ Len(buf) = Len(m)
        /\ \A i \in 1..Len(m) :
              buf[i] = IF i \in (cc + 1)..(cc + k) THEN B[e + i] ELSE b0[i]
    <2>1. \A i \in 1..Len(m) :
             buf[i] = IF i \in (cc + 1)..(cc + k) THEN B[e + i] ELSE b0[i]
      BY <1>3, <1>8 DEF Spliced
    <2>2. \A i \in 1..Len(m) : b0[i] \in Bytes
      BY <1>3, ElementOfSeq
    <2>3. \A i \in 1..Len(m) : buf[i] \in Bytes
      BY <1>1, <1>8, <2>1, <2>2
    <2>4. buf = [i \in 1..Len(m) |-> buf[i]]
      BY <1>3 DEF Spliced
    <2>5. PICK l \in Nat : l = Len(m)
      BY <1>4
    <2>6. buf \in [1..l -> Bytes]
      BY <2>3, <2>4, <2>5
    <2>7. buf \in Seq(Bytes) /\ Len(buf) = l
      BY <2>6
    <2> QED
      BY <2>1, <2>5, <2>7
  <1>10. \A j \in 1..(cc + k) : buf[j] = B[e + j]
    <2> TAKE j \in 1..(cc + k)
    <2>1. j \in 1..Len(m) /\ (j \in 1..cc \/ j \in (cc + 1)..(cc + k))
      <3>1. cc \in Nat /\ k \in Nat /\ Len(m) \in Nat /\ cc + k <= Len(m)
        BY <1>2, <1>4, <1>7
      <3>2. PICK l \in Nat : l = Len(m)
        BY <1>4
      <3> QED
        BY <3>1, <3>2
    <2>2. j \in 1..cc => j \notin (cc + 1)..(cc + k)
      BY <1>2
    <2>3. j \in 1..cc => b0[j] = B[e + j]
      BY <1>3 DEF e
    <2> QED
      BY <1>9, <2>1, <2>2, <2>3
  <1>11. CASE cc + k = Len(buf)
    <2>1. \A j \in 1..Len(m) : buf[j] = m[j]
      BY <1>6, <1>9, <1>10, <1>11 DEF e
    <2>2. buf = m
      BY <1>4, <1>9, <2>1, SeqEqual
    <2>3. /\ h \in Seq(Msgs) /\ Len(h) = n /\ h[n] = m
          /\ \A i \in 1..Len(g) : h[i] = g[i]
      <3>1. buf \in Msgs
        BY <1>3, <2>2
      <3>2. /\ h \in Seq(Msgs) /\ Len(h) = Len(g) + 1 /\ h[Len(g) + 1] = buf
            /\ \A i \in 1..Len(g) : h[i] = g[i]
        BY <1>2, <3>1, AppendProperties
      <3> QED
        BY <2>2, <3>2
    <2>4. \A i \in 1..n : h[i] = S[i]
      <3>1. \A i \in 1..n : i \in 1..Len(g) \/ i = n
        BY <1>1
      <3> QED
        BY <1>2, <2>3, <3>1 DEF m
    <2>5. rd + k = St[Len(h) + 1] + 0 + 0
      <3>1. cc + k = Len(m)
        BY <1>9, <1>11
      <3>2. St[n + 1] \in Nat
        BY <1>5 DEF Framed
      <3>3. PICK x \in Nat : x = St[n + 1] /\ x = e + Len(m)
        BY <1>6, <3>2 DEF e
      <3>4. PICK l \in Nat : l = Len(m) /\ x = e + l /\ cc + k = l
        BY <1>4, <3>1, <3>3
      <3>5. rd + k = x + 0 + 0
        <4>1. rd = e + cc /\ e \in Nat /\ k \in Nat /\ cc \in Nat
          BY <1>2, <1>7
        <4> QED
          BY <3>4, <4>1
      <3> QED
        BY <2>3, <3>3, <3>5
    <2>6. 0 \in 0..LenBytes /\ 0 \in Nat /\ LenBytes # 0 /\ n <= Len(S)
      BY <1>1, <1>5, FramingAssumption
    <2>7. \A j \in 1..0 : la[j] = B[St[Len(h) + 1] + j]
      OBVIOUS
    <2>8. Reading(S, St, B, wr, h, rd2, la, 0, << >>, 0)
      BY <1>2, <1>7, <2>3, <2>4, <2>5, <2>6, <2>7 DEF Reading
    <2> QED
      BY <1>3, <1>11, <2>2, <2>8 DEF m
  <1>12. CASE cc + k # Len(buf)
    <2>1. cc + k \in 0..(Len(m) - 1) /\ cc + k \in Nat
      BY <1>4, <1>7, <1>9, <1>12
    <2>2. Begun(m, b, B, buf, cc + k)
      BY <1>9, <1>10, <2>1 DEF Begun, e
    <2>3. rd + k = b + LenBytes + (cc + k)
      BY <1>1, <1>2, <1>7
    <2>4. LenBytes \in 0..LenBytes /\ ~(LenBytes < LenBytes)
      BY <1>1
    <2>5. Reading(S, St, B, wr, g, rd2, la, LenBytes, buf, c2)
      BY <1>2, <1>3, <1>7, <2>1, <2>2, <2>3, <2>4 DEF Reading, m, b
    <2> QED
      BY <1>12, <2>5
  <1> QED
    BY <1>11, <1>12

-----------------------------------------------------------------------------
(* The invariant and the steps. *)

FramingTypes ==
    /\ at \in [Ends -> {"idle", "sending", "body", "gone"}]
    /\ stream \in [Ends -> Seq(Bytes)]
    /\ written \in [Ends -> Nat] /\ read \in [Ends -> Nat]
    /\ lenArr \in [Ends -> [1..LenBytes -> Bytes]]
    /\ lenRead \in [Ends -> 0..LenBytes]
    /\ cached \in [Ends -> Seq(Bytes)] /\ cachedCount \in [Ends -> Nat]
    /\ sent \in [Ends -> Seq(Msgs)] /\ got \in [Ends -> Seq(Msgs)]
    /\ starts \in [Ends -> Seq(Nat)]

\* What e has sent is framed, and what it reads is what the other has sent.
Direction(e) ==
    /\ Framed(sent[e], starts[e], stream[e])
    /\ Reading(sent[Other(e)], starts[Other(e)], stream[Other(e)], written[Other(e)],
               got[e], read[e], lenArr[e], lenRead[e], cached[e], cachedCount[e])

FramingInv == FramingTypes /\ \A e \in Ends : Direction(e)

LEMMA OthersAre == \A e \in Ends : Other(e) \in Ends /\ Other(e) # e /\ Other(Other(e)) = e
  BY DEF Ends, Other

LEMMA InitFraming == Init => FramingInv /\ Channel!Init
  <1> SUFFICES ASSUME Init PROVE FramingInv /\ Channel!Init
    OBVIOUS
  <1>1. LenBytes \in Nat /\ LenBytes # 0 /\ Zeros(LenBytes) \in [1..LenBytes -> Bytes]
    BY FramingAssumption DEF Zeros
  <1>2. <<0>> \in Seq(Nat) /\ << >> \in Seq(Bytes) /\ << >> \in Seq(Msgs) /\ 0 \in 0..LenBytes
    BY <1>1
  <1>3. FramingTypes
    BY <1>1, <1>2 DEF Init, FramingTypes
  <1>4. Framed(<< >>, <<0>>, << >>)
    BY <1>2 DEF Framed
  <1>5. Reading(<< >>, <<0>>, << >>, 0, << >>, 0, Zeros(LenBytes), 0, << >>, 0)
    BY <1>1, <1>2 DEF Reading
  <1>6. ASSUME NEW e \in Ends PROVE Direction(e)
    <2>1. Other(e) \in Ends
      BY OthersAre
    <2> QED
      BY <1>4, <1>5, <2>1 DEF Init, Direction
  <1> QED
    BY <1>3, <1>6 DEF FramingInv, Init, Channel!Init

LEMMA SendKeeps ==
    ASSUME FramingInv, NEW s \in Ends, NEW m \in Msgs, Send(s, m)
    PROVE  FramingInv' /\ Channel!Send(s, m)
  <1> DEFINE f == Frame(m)
             T == Append(sent[s], m)
             Tt == Append(starts[s], Len(stream[s]) + LenBytes + Len(m))
             C == stream[s] \o f
  <1>1. /\ at' = [at EXCEPT ![s] = "sending"]
        /\ stream' = [stream EXCEPT ![s] = C]
        /\ sent' = [sent EXCEPT ![s] = T]
        /\ starts' = [starts EXCEPT ![s] = Tt]
        /\ UNCHANGED <<written, read, lenArr, lenRead, cached, cachedCount, got>>
    BY DEF Send, recvVars
  <1>2. FramingTypes /\ \A e \in Ends : Direction(e)
    BY DEF FramingInv
  <1>3. Framed(sent[s], starts[s], stream[s])
    BY <1>2 DEF Direction
  <1>4. /\ T = Append(sent[s], m) /\ C = stream[s] \o Frame(m)
        /\ Tt = Append(starts[s], Len(stream[s]) + LenBytes + Len(m))
    OBVIOUS
  <1> HIDE DEF T, Tt, C
  <1>5. Framed(T, Tt, C) /\ Extended(sent[s], starts[s], stream[s], T, Tt, C)
    BY <1>3, <1>4, FrameAppended
  <1>6. T \in Seq(Msgs) /\ Tt \in Seq(Nat) /\ C \in Seq(Bytes)
    BY <1>5 DEF Framed
  <1>7. FramingTypes'
    BY <1>1, <1>2, <1>6 DEF FramingTypes
  <1>8. /\ sent'[s] = T /\ starts'[s] = Tt /\ stream'[s] = C
        /\ \A e \in Ends : e # s =>
              sent'[e] = sent[e] /\ starts'[e] = starts[e] /\ stream'[e] = stream[e]
    BY <1>1, <1>2 DEF FramingTypes
  <1>9. ASSUME NEW e \in Ends PROVE Direction(e)'
    <2> DEFINE o == Other(e)
    <2>1. o \in Ends
      BY OthersAre
    <2>2. Framed(sent'[e], starts'[e], stream'[e])
      BY <1>2, <1>5, <1>8 DEF Direction
    <2>3. Reading(sent[o], starts[o], stream[o], written[o],
                  got[e], read[e], lenArr[e], lenRead[e], cached[e], cachedCount[e])
      BY <1>2 DEF Direction
    <2>4. Reading(sent'[o], starts'[o], stream'[o], written[o],
                  got[e], read[e], lenArr[e], lenRead[e], cached[e], cachedCount[e])
      <3>1. CASE o # s
        BY <1>8, <2>1, <2>3, <3>1
      <3>2. CASE o = s
        <4>1. written[s] \in Nat /\ written[s] <= Len(stream[s])
          BY <2>3, <3>2 DEF Reading
        <4>2. written[s] \in Nat /\ written[s] <= written[s] /\ written[s] <= Len(C)
          <5>1. Len(stream[s]) \in Nat
            BY <1>2, LenProperties DEF FramingTypes
          <5> QED
            BY <1>5, <4>1, <5>1 DEF Extended
        <4>3. Reading(T, Tt, C, written[s],
                      got[e], read[e], lenArr[e], lenRead[e], cached[e], cachedCount[e])
          <5> HIDE DEF o
          <5> QED
            BY <1>3, <1>5, <2>3, <3>2, <4>2, ReadingStays
        <4> QED
          BY <1>8, <3>2, <4>3
      <3> QED
        BY <3>1, <3>2
    <2> QED
      BY <1>1, <2>2, <2>4 DEF Direction
  <1> QED
    BY <1>1, <1>7, <1>9 DEF FramingInv, Channel!Send, T

LEMMA WriteAllKeeps ==
    ASSUME FramingInv, NEW s \in Ends, WriteAll(s)
    PROVE  FramingInv' /\ UNCHANGED <<sent, got>>
  <1>1. PICK k \in 1..(Len(stream[s]) - written[s]) :
           written' = [written EXCEPT ![s] = @ + k]
    BY DEF WriteAll
  <1>2. UNCHANGED <<stream, sent, starts, read, lenArr, lenRead, cached, cachedCount, got>>
    BY DEF WriteAll, recvVars
  <1>3. FramingTypes /\ \A e \in Ends : Direction(e)
    BY DEF FramingInv
  <1>4. at' \in [Ends -> {"idle", "sending", "body", "gone"}]
    BY <1>3 DEF WriteAll, FramingTypes
  <1>5. /\ Len(stream[s]) \in Nat /\ written[s] \in Nat
        /\ k \in Nat /\ written[s] + k \in Nat /\ written[s] + k <= Len(stream[s])
    BY <1>3, LenProperties DEF FramingTypes
  <1>6. /\ written' \in [Ends -> Nat] /\ written'[s] = written[s] + k
        /\ \A e \in Ends : e # s => written'[e] = written[e]
    BY <1>1, <1>3, <1>5 DEF FramingTypes
  <1>7. FramingTypes'
    BY <1>2, <1>3, <1>4, <1>6 DEF FramingTypes
  <1>8. ASSUME NEW e \in Ends PROVE Direction(e)'
    <2> DEFINE o == Other(e)
    <2>1. o \in Ends
      BY OthersAre
    <2>2. Framed(sent[e], starts[e], stream[e]) /\ Framed(sent[o], starts[o], stream[o])
      BY <1>3, <2>1 DEF Direction
    <2>3. Reading(sent[o], starts[o], stream[o], written[o],
                  got[e], read[e], lenArr[e], lenRead[e], cached[e], cachedCount[e])
      BY <1>3 DEF Direction
    <2>4. Reading(sent[o], starts[o], stream[o], written'[o],
                  got[e], read[e], lenArr[e], lenRead[e], cached[e], cachedCount[e])
      <3>1. CASE o # s
        BY <1>6, <2>1, <2>3, <3>1
      <3>2. CASE o = s
        <4>1. Len(sent[s]) \in Nat
          BY <1>3, LenProperties DEF FramingTypes
        <4>2. Reading(sent[s], starts[s], stream[s], written[s] + k,
                      got[e], read[e], lenArr[e], lenRead[e], cached[e], cachedCount[e])
          <5> DEFINE v == written[s] + k
          <5>1. v \in Nat /\ written[s] <= v /\ v <= Len(stream[s])
            BY <1>5
          <5>2. Extended(sent[s], starts[s], stream[s], sent[s], starts[s], stream[s])
            BY <1>5, <4>1 DEF Extended
          <5> HIDE DEF o, v
          <5>3. Reading(sent[s], starts[s], stream[s], v,
                        got[e], read[e], lenArr[e], lenRead[e], cached[e], cachedCount[e])
            BY <2>2, <2>3, <3>2, <5>1, <5>2, ReadingStays
          <5> QED
            BY <5>3 DEF v
        <4> QED
          BY <1>6, <3>2, <4>2
      <3> QED
        BY <3>1, <3>2
    <2> QED
      BY <1>2, <2>2, <2>4 DEF Direction
  <1> QED
    BY <1>2, <1>7, <1>8 DEF FramingInv

LEMMA ReadLenKeepsInv ==
    ASSUME FramingInv, NEW r \in Ends, ReadLen(r)
    PROVE  FramingInv' /\ UNCHANGED <<sent, got>>
  <1> DEFINE s == Other(r)
  <1>1. PICK k \in 1..(LenBytes - lenRead[r]) :
           /\ k <= written[s] - read[r]
           /\ lenArr' = [lenArr EXCEPT ![r] = Filled(r, @, lenRead[r], k)]
           /\ lenRead' = [lenRead EXCEPT ![r] = @ + k]
           /\ read' = [read EXCEPT ![r] = @ + k]
    BY DEF ReadLen, Available, LenRead
  <1>2. /\ UNCHANGED <<stream, written, sent, starts, cached, cachedCount, got>>
        /\ lenRead[r] < LenBytes
    BY DEF ReadLen, sendVars
  <1>3. FramingTypes /\ \A e \in Ends : Direction(e)
    BY DEF FramingInv
  <1>4. at' \in [Ends -> {"idle", "sending", "body", "gone"}]
    BY <1>3 DEF ReadLen, FramingTypes
  <1>5. s \in Ends
    BY OthersAre
  <1>6. /\ Framed(sent[s], starts[s], stream[s])
        /\ Reading(sent[s], starts[s], stream[s], written[s], got[r], read[r], lenArr[r],
                   lenRead[r], cached[r], cachedCount[r])
    BY <1>3, <1>5 DEF Direction
  <1> DEFINE la == Filled(r, lenArr[r], lenRead[r], k)
  <1>7. la = Spliced(stream[s], read[r], lenArr[r], lenRead[r], k)
    BY DEF Filled, Spliced
  <1> HIDE DEF s, la
  <1>8. Reading(sent[s], starts[s], stream[s], written[s], got[r], read[r] + k, la,
                lenRead[r] + k, cached[r], cachedCount[r])
    BY <1>1, <1>2, <1>6, <1>7, ReadLenKeeps
  <1>9. /\ la \in [1..LenBytes -> Bytes] /\ lenRead[r] + k \in 0..LenBytes
        /\ read[r] + k \in Nat
    BY <1>8 DEF Reading
  <1>10. /\ lenArr' \in [Ends -> [1..LenBytes -> Bytes]] /\ lenArr'[r] = la
         /\ lenRead' \in [Ends -> 0..LenBytes] /\ lenRead'[r] = lenRead[r] + k
         /\ read' \in [Ends -> Nat] /\ read'[r] = read[r] + k
         /\ \A e \in Ends : e # r => /\ lenArr'[e] = lenArr[e] /\ lenRead'[e] = lenRead[e]
                                     /\ read'[e] = read[e]
    BY <1>1, <1>3, <1>9 DEF FramingTypes, la
  <1>11. FramingTypes'
    BY <1>2, <1>3, <1>4, <1>10 DEF FramingTypes
  <1>12. ASSUME NEW e \in Ends PROVE Direction(e)'
    <2>1. CASE e = r
      BY <1>2, <1>3, <1>8, <1>10, <2>1 DEF Direction, s
    <2>2. CASE e # r
      BY <1>2, <1>3, <1>10, <2>2 DEF Direction
    <2> QED
      BY <2>1, <2>2
  <1> QED
    BY <1>2, <1>11, <1>12 DEF FramingInv

LEMMA ReadBodyKeepsInv ==
    ASSUME FramingInv, NEW r \in Ends, ReadBody(r)
    PROVE  FramingInv' /\ (Channel!Get(r) \/ UNCHANGED <<sent, got>>)
  <1> DEFINE s == Other(r)
             b0 == Buffer(r)
  <1>1. PICK k \in 0..(Len(b0) - cachedCount[r]) :
           /\ k <= written[s] - read[r]
           /\ read' = [read EXCEPT ![r] = @ + k]
           /\ LET buf == Filled(r, b0, cachedCount[r], k)
                  whole == cachedCount[r] + k = Len(buf)
              IN  /\ cached' = [cached EXCEPT ![r] = IF whole THEN << >> ELSE buf]
                  /\ cachedCount' = [cachedCount EXCEPT ![r] = IF whole THEN 0 ELSE @ + k]
                  /\ lenRead' = [lenRead EXCEPT ![r] = IF whole THEN 0 ELSE @]
                  /\ got' = [got EXCEPT ![r] = IF whole THEN Append(@, buf) ELSE @]
    BY DEF ReadBody, Available
  <1>2. /\ UNCHANGED <<stream, written, sent, starts, lenArr>>
        /\ lenRead[r] = LenBytes
    BY DEF ReadBody, sendVars
  <1>3. FramingTypes /\ \A e \in Ends : Direction(e)
    BY DEF FramingInv
  <1>4. at' \in [Ends -> {"idle", "sending", "body", "gone"}]
    BY <1>3 DEF ReadBody, FramingTypes
  <1>5. s \in Ends
    BY OthersAre
  <1>6. /\ Framed(sent[s], starts[s], stream[s])
        /\ Reading(sent[s], starts[s], stream[s], written[s], got[r], read[r], lenArr[r],
                   lenRead[r], cached[r], cachedCount[r])
    BY <1>3, <1>5 DEF Direction
  <1> DEFINE cc == cachedCount[r]
             buf == Filled(r, b0, cc, k)
             whole == cc + k = Len(buf)
             ca2 == IF whole THEN << >> ELSE buf
             cc2 == IF whole THEN 0 ELSE cc + k
             lr2 == IF whole THEN 0 ELSE lenRead[r]
             g2 == IF whole THEN Append(got[r], buf) ELSE got[r]
  <1>7. b0 = Made(cached[r], FromBytes[lenArr[r]]) /\ buf = Spliced(stream[s], read[r], b0, cc, k)
    BY DEF Buffer, Made, Filled, Spliced
  <1> HIDE DEF s, b0, buf
  <1>8. /\ cc + k = Len(buf) =>
              /\ Len(got[r]) < Len(sent[s]) /\ buf = sent[s][Len(got[r]) + 1]
              /\ Reading(sent[s], starts[s], stream[s], written[s], Append(got[r], buf),
                         read[r] + k, lenArr[r], 0, << >>, 0)
        /\ cc + k # Len(buf) =>
              Reading(sent[s], starts[s], stream[s], written[s], got[r],
                      read[r] + k, lenArr[r], lenRead[r], buf, cc + k)
    <2> DEFINE rd2 == read[r] + k
               c2 == cc + k
    <2>1. k \in 0..(Len(b0) - cc) /\ k <= written[s] - read[r]
      BY <1>1
    <2>2. rd2 = read[r] + k /\ c2 = cc + k
      OBVIOUS
    <2>3. Reading(sent[s], starts[s], stream[s], written[s], got[r], read[r], lenArr[r],
                  lenRead[r], cached[r], cc)
      BY <1>6
    <2> HIDE DEF rd2, c2, cc
    <2>4. BodyRead(sent[s], starts[s], stream[s], written[s], got[r], rd2, lenArr[r], buf, c2)
      BY <1>2, <1>6, <1>7, <2>1, <2>2, <2>3, ReadBodyKeeps
    <2> QED
      BY <1>2, <2>2, <2>4 DEF BodyRead
  <1>9. Reading(sent[s], starts[s], stream[s], written[s], g2, read[r] + k, lenArr[r],
                lr2, ca2, cc2)
    BY <1>8
  <1>10. /\ cached' = [cached EXCEPT ![r] = ca2]
         /\ cachedCount' = [cachedCount EXCEPT ![r] = cc2]
         /\ lenRead' = [lenRead EXCEPT ![r] = lr2]
         /\ got' = [got EXCEPT ![r] = g2]
    BY <1>1 DEF buf
  <1>11. ca2 \in Seq(Bytes)
    <2>1. buf \in Seq(Bytes) \/ whole
      <3>1. CASE ~whole
        <4>1. Begun(sent[s][Len(got[r]) + 1], starts[s][Len(got[r]) + 1], stream[s], buf, cc + k)
          BY <1>2, <1>8, <3>1 DEF Reading
        <4>2. << >> \in Seq(Bytes)
          OBVIOUS
        <4> QED
          BY <4>1, <4>2 DEF Begun
      <3> QED
        BY <3>1
    <2> QED
      BY <2>1
  <1>12. /\ g2 \in Seq(Msgs) /\ cc2 \in Nat /\ lr2 \in 0..LenBytes /\ read[r] + k \in Nat
    BY <1>9 DEF Reading
  <1> HIDE DEF ca2, cc2, lr2, g2, whole
  <1>13. /\ cached' \in [Ends -> Seq(Bytes)] /\ cached'[r] = ca2
         /\ cachedCount' \in [Ends -> Nat] /\ cachedCount'[r] = cc2
         /\ lenRead' \in [Ends -> 0..LenBytes] /\ lenRead'[r] = lr2
         /\ got' \in [Ends -> Seq(Msgs)] /\ got'[r] = g2
         /\ read' \in [Ends -> Nat] /\ read'[r] = read[r] + k
         /\ \A e \in Ends : e # r =>
               /\ cached'[e] = cached[e] /\ cachedCount'[e] = cachedCount[e]
               /\ lenRead'[e] = lenRead[e] /\ got'[e] = got[e] /\ read'[e] = read[e]
    <2>1. /\ cached \in [Ends -> Seq(Bytes)] /\ cachedCount \in [Ends -> Nat]
          /\ lenRead \in [Ends -> 0..LenBytes] /\ got \in [Ends -> Seq(Msgs)]
          /\ read \in [Ends -> Nat]
      BY <1>3 DEF FramingTypes
    <2>2. read' = [read EXCEPT ![r] = read[r] + k]
      BY <1>1
    <2>3. /\ read' \in [Ends -> Nat] /\ read'[r] = read[r] + k
          /\ \A e \in Ends : e # r => read'[e] = read[e]
      BY <1>12, <2>1, <2>2
    <2>4. /\ cached' \in [Ends -> Seq(Bytes)] /\ cached'[r] = ca2
          /\ \A e \in Ends : e # r => cached'[e] = cached[e]
      BY <1>10, <1>11, <2>1, Zenon
    <2>5. /\ cachedCount' \in [Ends -> Nat] /\ cachedCount'[r] = cc2
          /\ \A e \in Ends : e # r => cachedCount'[e] = cachedCount[e]
      BY <1>10, <1>12, <2>1, Zenon
    <2>6. /\ lenRead' \in [Ends -> 0..LenBytes] /\ lenRead'[r] = lr2
          /\ \A e \in Ends : e # r => lenRead'[e] = lenRead[e]
      BY <1>10, <1>12, <2>1, Zenon
    <2>7. /\ got' \in [Ends -> Seq(Msgs)] /\ got'[r] = g2
          /\ \A e \in Ends : e # r => got'[e] = got[e]
      BY <1>10, <1>12, <2>1, Zenon
    <2> QED
      BY <2>3, <2>4, <2>5, <2>6, <2>7
  <1>14. FramingTypes'
    BY <1>2, <1>3, <1>4, <1>13 DEF FramingTypes
  <1>15. ASSUME NEW e \in Ends PROVE Direction(e)'
    <2>1. CASE e = r
      BY <1>2, <1>3, <1>9, <1>13, <2>1 DEF Direction, s
    <2>2. CASE e # r
      BY <1>2, <1>3, <1>13, <2>2 DEF Direction
    <2> QED
      BY <2>1, <2>2
  <1>16. Channel!Get(r) \/ UNCHANGED <<sent, got>>
    <2>1. CASE whole
      <3>1. g2 = Append(got[r], sent[s][Len(got[r]) + 1]) /\ Len(got[r]) < Len(sent[s])
        BY <1>8, <2>1 DEF g2, whole
      <3> QED
        BY <1>2, <1>10, <3>1 DEF Channel!Get, s
    <2>2. CASE ~whole
      <3>1. g2 = got[r]
        BY <2>2 DEF g2
      <3>2. got' = got
        BY <1>3, <1>10, <3>1 DEF FramingTypes
      <3> QED
        BY <1>2, <3>2
    <2> QED
      BY <2>1, <2>2
  <1> QED
    BY <1>14, <1>15, <1>16 DEF FramingInv

LEMMA NextFraming ==
    ASSUME FramingInv, [Next]_vars
    PROVE  FramingInv' /\ [Channel!Next]_<<sent, got>>
  <1>1. ASSUME NEW e \in Ends, WriteAll(e)
        PROVE  FramingInv' /\ [Channel!Next]_<<sent, got>>
    BY <1>1, WriteAllKeeps
  <1>2. ASSUME NEW e \in Ends, ReadLen(e)
        PROVE  FramingInv' /\ [Channel!Next]_<<sent, got>>
    BY <1>2, ReadLenKeepsInv
  <1>3. ASSUME NEW e \in Ends, ReadBody(e)
        PROVE  FramingInv' /\ [Channel!Next]_<<sent, got>>
    BY <1>3, ReadBodyKeepsInv DEF Channel!Next
  <1>4. ASSUME NEW e \in Ends, NEW m \in Msgs, Send(e, m)
        PROVE  FramingInv' /\ [Channel!Next]_<<sent, got>>
    BY <1>4, SendKeeps DEF Channel!Next
  <1>5. ASSUME NEW e \in Ends, Leave(e)
        PROVE  FramingInv' /\ [Channel!Next]_<<sent, got>>
    <2>1. at' \in [Ends -> {"idle", "sending", "body", "gone"}] /\ UNCHANGED <<sendVars, recvVars>>
      BY <1>5 DEF Leave, FramingInv, FramingTypes
    <2>2. FramingTypes'
      BY <2>1 DEF FramingInv, FramingTypes, sendVars, recvVars
    <2>3. \A d \in Ends : Direction(d)'
      BY <2>1 DEF FramingInv, Direction, sendVars, recvVars
    <2> QED
      BY <2>1, <2>2, <2>3 DEF FramingInv, sendVars, recvVars
  <1>6. CASE UNCHANGED vars
    <2>1. FramingTypes' /\ \A d \in Ends : Direction(d)'
      BY <1>6 DEF FramingInv, FramingTypes, Direction, vars, sendVars, recvVars
    <2> QED
      BY <1>6, <2>1 DEF FramingInv, vars, sendVars, recvVars
  <1> QED
    BY <1>1, <1>2, <1>3, <1>4, <1>5, <1>6 DEF Next, Step

\* The framing implements the channel of messages: each end gets what the other has
\* sent, whole, once and in order, however reads and writes cut the bytes.
THEOREM FramingRefines == Spec => ImplementsChannel
  <1>1. Init => FramingInv /\ Channel!Init
    BY InitFraming
  <1>2. FramingInv /\ [Next]_vars => FramingInv' /\ [Channel!Next]_<<sent, got>>
    BY NextFraming
  <1> QED
    BY <1>1, <1>2, PTL DEF Spec, ImplementsChannel, Channel!Spec
=============================================================================
