--------------------------- MODULE EventStoreProofs ---------------------------
(***************************************************************************)
(* Theorems about EventStore, for any number of stores, threads, runs,      *)
(* batches, failing statements and crashes: no replay returns a row that is *)
(* not committed, and the database is EventLog's append-only log.           *)
(***************************************************************************)
EXTENDS EventStore, FiniteSetTheorems, SequenceTheorems, TLAPS

Row == [run : Runs, seq : Nat, id : EventIds]

Calls == [at : {"lock", "begin", "allocate", "insert", "rollback", "release"},
          run : Runs, batch : Batches \ {<<>>}, first : Nat, done : Nat]

\* The types of what a batch passes through.
StoreTypes ==
    /\ rows \subseteq Row
    /\ txn \in [Stores -> SUBSET Row]
    /\ writer \in Stores \cup {Nobody}
    /\ holder \in [Stores -> Threads \cup {Nobody}]
    /\ call \in [Threads -> {Idle} \cup Calls]

-----------------------------------------------------------------------------
(* The two locks, and what they protect.                                   *)

HasLock ==
    \A t \in Threads :
        call[t].at \notin {"idle", "lock"} => holder[StoreOf[t]] = t

HasDatabase ==
    \A t \in Threads :
        call[t].at \in {"allocate", "insert", "rollback"} => writer = StoreOf[t]

\* A transaction with rows belongs to a thread that will end it.
Clean ==
    \A s \in Stores : txn[s] # {} =>
        \E t \in Threads : StoreOf[t] = s /\ call[t].at \in {"insert", "rollback"}

\* A replay never reads a row that is rolled back afterwards.
Replays == seen \in [Threads -> [Runs -> SUBSET rows]]

ReplayInv == StoreTypes /\ HasLock /\ HasDatabase /\ Clean /\ Replays

-----------------------------------------------------------------------------
(* The rows of a run.                                                      *)

\* The rows of run r among rs have the sequences 1 to n.
Numbered(rs, r, n) ==
    /\ \A x \in Of(rs, r) : x.seq \in 1 .. n
    /\ \A k \in 1 .. n : \E x \in Of(rs, r) : x.seq = k

Distinct(rs) ==
    \A x, y \in rs :
        (x.id = y.id \/ (x.run = y.run /\ x.seq = y.seq)) => x = y

\* The rows that c has inserted so far.
Inserted(c) ==
    {[run |-> c.run, seq |-> c.first + (i - 1), id |-> c.batch[i]] :
        i \in 1 .. c.done}

\* A transaction continues its run, from the sequence it allocated.
Continues(t) ==
    /\ call[t].first > 0 /\ call[t].done <= Len(call[t].batch)
    /\ Numbered(rows, call[t].run, call[t].first - 1)
    /\ txn[StoreOf[t]] = Inserted(call[t])

Transaction ==
    \A t \in Threads :
        /\ call[t].at \in {"lock", "begin", "allocate"} => call[t].done = 0
        /\ call[t].at = "insert" => Continues(t)

Gapless ==
    /\ \A r \in Runs : \E n \in Nat : Numbered(rows, r, n)
    /\ \A s \in Stores : Distinct(rows \cup txn[s])

LogInv == ReplayInv /\ Transaction /\ Gapless

-----------------------------------------------------------------------------
(* Locks and replays.                                                      *)

\* A call that is under way is a call.
LEMMA UnderWay ==
    ASSUME StoreTypes, NEW t \in Threads, call[t].at # "idle"
    PROVE  /\ call[t] \in Calls
           /\ \A p \in {"lock", "begin", "allocate", "insert", "rollback", "release"} :
                [call[t] EXCEPT !.at = p] \in Calls
           /\ StoreOf[t] \in Stores
  <1>1. call[t] \in {Idle} \cup Calls
    BY DEF StoreTypes
  <1>2. Idle.at = "idle"
    BY DEF Idle
  <1>3. call[t] \in Calls
    BY <1>1, <1>2
  <1> QED
    BY <1>3, StoresAssumption DEF Calls

\* The sequence that append_batch allocates is the first free one.
LEMMA NextSequence ==
    ASSUME NEW rs, NEW r, NEW n \in Nat, Numbered(rs, r, n)
    PROVE  MaxSequence(rs, r) = n
  <1>1. CASE n = 0
    <2>1. Of(rs, r) = {}
      BY <1>1 DEF Numbered
    <2> QED
      BY <1>1, <2>1 DEF MaxSequence
  <1>2. CASE n > 0
    <2>1. PICK z \in Of(rs, r) : z.seq = n
      BY <1>2 DEF Numbered
    <2>2. \A y \in Of(rs, r) : y.seq <= z.seq /\ y.seq \in Nat
      BY <2>1 DEF Numbered
    <2> DEFINE m == CHOOSE x \in Of(rs, r) : \A y \in Of(rs, r) : y.seq <= x.seq
    <2>3. m \in Of(rs, r) /\ \A y \in Of(rs, r) : y.seq <= m.seq
      BY <2>2
    <2> HIDE DEF m
    <2>4. m.seq = n
      BY <2>1, <2>2, <2>3
    <2> QED
      BY <2>1, <2>4 DEF MaxSequence, m
  <1> QED
    BY <1>1, <1>2

\* While a thread has the lock and no row is in, the transaction is empty.
LEMMA EmptyTransaction ==
    ASSUME ReplayInv, NEW t \in Threads,
           call[t].at \in {"begin", "allocate", "release"}
    PROVE  txn[StoreOf[t]] = {}
  <1> SUFFICES ASSUME txn[StoreOf[t]] # {}
               PROVE  FALSE
    OBVIOUS
  <1>1. StoreOf[t] \in Stores
    BY StoresAssumption
  <1>2. PICK u \in Threads : /\ StoreOf[u] = StoreOf[t]
                             /\ call[u].at \in {"insert", "rollback"}
    BY <1>1 DEF ReplayInv, Clean
  <1>3. holder[StoreOf[t]] = t /\ holder[StoreOf[t]] = u
    BY <1>2 DEF ReplayInv, HasLock
  <1> QED
    BY <1>2, <1>3

\* When nobody has the lock the transaction is empty.
LEMMA NobodyWrites ==
    ASSUME ReplayInv, NEW s \in Stores, holder[s] = Nobody
    PROVE  txn[s] = {}
  <1> SUFFICES ASSUME txn[s] # {}
               PROVE  FALSE
    OBVIOUS
  <1>1. PICK u \in Threads : /\ StoreOf[u] = s
                             /\ call[u].at \in {"insert", "rollback"}
    BY DEF ReplayInv, Clean
  <1>2. holder[s] = u
    BY <1>1 DEF ReplayInv, HasLock
  <1> QED
    BY <1>2, StoresAssumption

\* Only the store that has the database has rows in its transaction.
LEMMA OneWriter ==
    ASSUME ReplayInv, NEW s \in Stores, txn[s] # {}
    PROVE  writer = s
  BY DEF ReplayInv, Clean, HasDatabase

\* What Allocate computes.
LEMMA Allocated ==
    ASSUME LogInv, NEW t \in Threads, call[t].at = "allocate"
    PROVE  /\ MaxSequence(Visible(StoreOf[t]), call[t].run) \in Nat
           /\ Numbered(rows, call[t].run,
                       MaxSequence(Visible(StoreOf[t]), call[t].run))
  <1>1. Visible(StoreOf[t]) = rows
    BY EmptyTransaction DEF LogInv, Visible
  <1>2. call[t].run \in Runs
    BY UnderWay DEF LogInv, ReplayInv, Calls
  <1>3. PICK n \in Nat : Numbered(rows, call[t].run, n)
    BY <1>2 DEF LogInv, Gapless
  <1> QED
    BY <1>1, <1>3, NextSequence

\* The row that Insert adds.
LEMMA NewRow ==
    ASSUME LogInv, NEW t \in Threads, call[t].at = "insert",
           call[t].done < Len(call[t].batch)
    PROVE  NextRow(t) \in Row
  <1>1. call[t] \in Calls
    BY UnderWay DEF LogInv, ReplayInv
  <1>2. /\ call[t].run \in Runs /\ call[t].first + call[t].done \in Nat
        /\ call[t].done + 1 \in 1 .. Len(call[t].batch)
        /\ call[t].batch \in Seq(EventIds)
    BY <1>1, StoresAssumption DEF Calls
  <1>3. call[t].batch[call[t].done + 1] \in EventIds
    BY <1>2, ElementOfSeq
  <1> QED
    BY <1>2, <1>3 DEF NextRow, Row

\* Every step keeps the types.
LEMMA TypesStep ==
    ASSUME LogInv, [Next]_vars
    PROVE  StoreTypes'
  <1> USE DEF StoreTypes
  <1>0. StoreTypes /\ ReplayInv
    BY DEF LogInv, ReplayInv
  <1>1. ASSUME NEW t \in Threads, NEW r \in Runs, NEW batch \in Batches,
               AppendBatch(t, r, batch)
        PROVE  StoreTypes'
    <2>1. [at |-> "lock", run |-> r, batch |-> batch, first |-> 0, done |-> 0]
            \in Calls
      BY <1>1 DEF AppendBatch, Calls
    <2> QED
      BY <1>0, <1>1, <2>1 DEF AppendBatch
  <1>2. ASSUME NEW t \in Threads, TakeLock(t)
        PROVE  StoreTypes'
    BY <1>0, <1>2, UnderWay DEF TakeLock, Goto
  <1>3. ASSUME NEW t \in Threads, BeginImmediate(t)
        PROVE  StoreTypes'
    BY <1>0, <1>3, UnderWay DEF BeginImmediate, Goto
  <1>4. ASSUME NEW t \in Threads, Allocate(t)
        PROVE  StoreTypes'
    <2> DEFINE n == MaxSequence(Visible(StoreOf[t]), call[t].run)
    <2>1. call[t] \in Calls /\ n \in Nat
      BY <1>0, <1>4, UnderWay, Allocated DEF Allocate
    <2> HIDE DEF n
    <2>2. n + 1 \in Nat
      BY <2>1
    <2> DEFINE d == [call[t] EXCEPT !.at = "insert"]
    <2>3. d \in Calls
      BY <1>0, <1>4, UnderWay DEF Allocate
    <2>4. [d EXCEPT !.first = n + 1] \in Calls
      BY <2>2, <2>3 DEF Calls
    <2>5. [call[t] EXCEPT !.at = "insert", !.first = n + 1] \in Calls
      BY <2>4
    <2>6. call' = [call EXCEPT ![t] = [call[t] EXCEPT !.at = "insert", !.first = n + 1]]
      BY <1>0, <1>4 DEF Allocate, n
    <2> QED
      BY <1>0, <1>4, <2>5, <2>6 DEF Allocate
  <1>5. ASSUME NEW t \in Threads, Insert(t)
        PROVE  StoreTypes'
    <2>1. call[t] \in Calls /\ NextRow(t) \in Row /\ StoreOf[t] \in Stores
      BY <1>0, <1>5, UnderWay, NewRow DEF Insert
    <2>2. [call[t] EXCEPT !.done = @ + 1] \in Calls
      BY <2>1 DEF Calls
    <2>3. call' \in [Threads -> {Idle} \cup Calls]
      BY <1>0, <1>5, <2>2, UnderWay DEF Insert, Goto
    <2>4. txn' \in [Stores -> SUBSET Row]
      BY <1>0, <1>5, <2>1 DEF Insert
    <2> QED
      BY <1>0, <1>5, <2>3, <2>4 DEF Insert
  <1>6. ASSUME NEW t \in Threads, StatementFails(t)
        PROVE  StoreTypes'
    BY <1>0, <1>6, UnderWay DEF StatementFails, Goto
  <1>7. ASSUME NEW t \in Threads, Commit(t)
        PROVE  StoreTypes'
    BY <1>0, <1>7, UnderWay DEF Commit, Goto
  <1>8. ASSUME NEW t \in Threads, Rollback(t)
        PROVE  StoreTypes'
    BY <1>0, <1>8, UnderWay DEF Rollback, Goto
  <1>9. ASSUME NEW t \in Threads, Release(t)
        PROVE  StoreTypes'
    BY <1>0, <1>9 DEF Release
  <1>10. ASSUME NEW t \in Threads, NEW r \in Runs, Replay(t, r)
         PROVE  StoreTypes'
    BY <1>0, <1>10 DEF Replay
  <1>11. ASSUME NEW s \in Stores, Close(s) \/ Open(s) \/ Crash(s)
         PROVE  StoreTypes'
    BY <1>0, <1>11 DEF Close, Open, Crash
  <1> QED
    BY <1>0, <1>1, <1>2, <1>3, <1>4, <1>5, <1>6, <1>7, <1>8, <1>9, <1>10, <1>11
    DEF Next, Proceed, vars

\* What a step of thread t leaves of the calls.
LEMMA Goes ==
    ASSUME StoreTypes, NEW t \in Threads, call[t].at # "idle",
           NEW p \in {"lock", "begin", "allocate", "insert", "rollback", "release"},
           Goto(t, p)
    PROVE  /\ call'[t].at = p /\ \A u \in Threads \ {t} : call'[u] = call[u]
           /\ call'[t].run = call[t].run /\ call'[t].batch = call[t].batch
           /\ call'[t].first = call[t].first /\ call'[t].done = call[t].done
  <1>1. call[t] \in Calls
    BY UnderWay
  <1>2. call' = [call EXCEPT ![t] = [call[t] EXCEPT !.at = p]]
    BY DEF Goto, StoreTypes
  <1>3. call'[t] = [call[t] EXCEPT !.at = p] /\ \A u \in Threads \ {t} : call'[u] = call[u]
    BY <1>2 DEF StoreTypes
  <1> QED
    BY <1>1, <1>3 DEF Calls

\* Every step keeps what the locks protect.
LEMMA LocksStep ==
    ASSUME LogInv, [Next]_vars
    PROVE  HasLock' /\ HasDatabase' /\ Clean'
  <1> USE StoresAssumption
  <1>0. ReplayInv /\ StoreTypes /\ HasLock /\ HasDatabase /\ Clean
    BY DEF LogInv, ReplayInv
  <1>1. ASSUME NEW t \in Threads, NEW r \in Runs, NEW batch \in Batches,
               AppendBatch(t, r, batch)
        PROVE  HasLock' /\ HasDatabase' /\ Clean'
    BY <1>0, <1>1 DEF AppendBatch, StoreTypes, HasLock, HasDatabase, Clean, Idle
  <1>2. ASSUME NEW t \in Threads, TakeLock(t)
        PROVE  HasLock' /\ HasDatabase' /\ Clean'
    <2>1. CASE open[StoreOf[t]]
      <3>1. /\ call'[t].at = "begin" /\ \A u \in Threads \ {t} : call'[u] = call[u]
            /\ call[t].at = "lock" /\ holder[StoreOf[t]] = Nobody
        BY <1>0, <1>2, <2>1, Goes DEF TakeLock
      <3>2. /\ holder' = [holder EXCEPT ![StoreOf[t]] = t]
            /\ UNCHANGED <<txn, writer>>
        BY <1>2, <2>1 DEF TakeLock
      <3> QED
        BY <1>0, <3>1, <3>2 DEF StoreTypes, HasLock, HasDatabase, Clean
    <2>2. CASE ~open[StoreOf[t]]
      <3>1. /\ call' = [call EXCEPT ![t] = Idle] /\ call[t].at = "lock"
            /\ UNCHANGED <<holder, txn, writer>>
        BY <1>2, <2>2 DEF TakeLock
      <3> QED
        BY <1>0, <3>1 DEF StoreTypes, HasLock, HasDatabase, Clean, Idle
    <2> QED
      BY <2>1, <2>2
  <1>3. ASSUME NEW t \in Threads, BeginImmediate(t)
        PROVE  HasLock' /\ HasDatabase' /\ Clean'
    <2>1. /\ call[t].at = "begin" /\ call'[t].at \in {"allocate", "release"}
          /\ \A u \in Threads \ {t} : call'[u] = call[u]
      BY <1>0, <1>3, Goes DEF BeginImmediate
    <2>2. /\ UNCHANGED <<txn, holder>>
          /\ \/ writer = Nobody /\ writer' = StoreOf[t]
             \/ call'[t].at = "release" /\ writer' = writer
      BY <1>0, <1>3, Goes DEF BeginImmediate
    <2>3. StoreOf \in [Threads -> Stores] /\ Nobody \notin Stores
      OBVIOUS
    <2>4. HasLock' /\ Clean'
      BY <1>0, <2>1, <2>2 DEF HasLock, Clean
    <2>5. HasDatabase'
      BY <1>0, <2>1, <2>2, <2>3 DEF HasDatabase
    <2> QED
      BY <2>4, <2>5
  <1>4. ASSUME NEW t \in Threads, Allocate(t)
        PROVE  HasLock' /\ HasDatabase' /\ Clean'
    BY <1>0, <1>4 DEF Allocate, StoreTypes, HasLock, HasDatabase, Clean, Idle
  <1>5. ASSUME NEW t \in Threads, Insert(t)
        PROVE  HasLock' /\ HasDatabase' /\ Clean'
    <2>1. /\ call[t].at = "insert" /\ call'[t].at \in {"insert", "rollback"}
          /\ \A u \in Threads \ {t} : call'[u] = call[u]
      <3>1. CASE Refused(StoreOf[t], NextRow(t))
        BY <1>0, <1>5, <3>1, Goes DEF Insert
      <3>2. CASE ~Refused(StoreOf[t], NextRow(t))
        <4>1. call[t] \in Calls /\ call[t].at = "insert"
          BY <1>0, <1>5, UnderWay DEF Insert
        <4>2. call' = [call EXCEPT ![t] = [call[t] EXCEPT !.done = @ + 1]]
          BY <1>0, <1>5, <3>2 DEF Insert
        <4> QED
          BY <1>0, <4>1, <4>2 DEF StoreTypes, Calls
      <3> QED
        BY <3>1, <3>2
    <2>2. /\ UNCHANGED <<writer, holder>>
          /\ \A s \in Stores \ {StoreOf[t]} : txn'[s] = txn[s]
      BY <1>0, <1>5 DEF Insert, StoreTypes
    <2>3. HasLock' /\ HasDatabase'
      BY <1>0, <2>1, <2>2 DEF HasLock, HasDatabase
    <2>4. Clean'
      BY <1>0, <2>1, <2>2 DEF Clean
    <2> QED
      BY <2>3, <2>4
  <1>6. ASSUME NEW t \in Threads, StatementFails(t)
        PROVE  HasLock' /\ HasDatabase' /\ Clean'
    BY <1>0, <1>6 DEF StatementFails, Goto, StoreTypes, HasLock, HasDatabase, Clean, Idle
  <1>7. ASSUME NEW t \in Threads, Commit(t) \/ Rollback(t)
        PROVE  HasLock' /\ HasDatabase' /\ Clean'
    <2>1. /\ call[t].at \in {"insert", "rollback"} /\ call'[t].at = "release"
          /\ \A u \in Threads \ {t} : call'[u] = call[u]
      BY <1>0, <1>7, Goes DEF Commit, Rollback
    <2>2. /\ holder' = holder /\ txn' = [txn EXCEPT ![StoreOf[t]] = {}]
          /\ StoreOf[t] \in Stores
      BY <1>7 DEF Commit, Rollback
    <2>3. \A u \in Threads \ {t} : call[u].at \notin {"allocate", "insert", "rollback"}
      <3> SUFFICES ASSUME NEW u \in Threads \ {t},
                          call[u].at \in {"allocate", "insert", "rollback"}
                   PROVE  FALSE
        OBVIOUS
      <3>1. StoreOf[u] = StoreOf[t]
        BY <1>0, <2>1 DEF HasDatabase
      <3> QED
        BY <1>0, <2>1, <3>1 DEF HasLock
    <2>4. HasLock' /\ HasDatabase'
      BY <1>0, <2>1, <2>2, <2>3 DEF HasLock, HasDatabase
    <2>5. Clean'
      BY <1>0, <2>1, <2>2, <2>3 DEF Clean, StoreTypes
    <2> QED
      BY <2>4, <2>5
  <1>8. ASSUME NEW t \in Threads, Release(t)
        PROVE  HasLock' /\ HasDatabase' /\ Clean'
    BY <1>0, <1>8 DEF Release, StoreTypes, HasLock, HasDatabase, Clean, Idle
  <1>9. ASSUME NEW s \in Stores, Crash(s)
        PROVE  HasLock' /\ HasDatabase' /\ Clean'
    BY <1>0, <1>9 DEF Crash, StoreTypes, HasLock, HasDatabase, Clean, Idle
  <1>10. ASSUME UNCHANGED <<txn, writer, holder, call>>
         PROVE  HasLock' /\ HasDatabase' /\ Clean'
    BY <1>0, <1>10 DEF HasLock, HasDatabase, Clean
  <1> QED
    BY <1>1, <1>2, <1>3, <1>4, <1>5, <1>6, <1>7, <1>8, <1>9, <1>10
    DEF Next, Proceed, vars, Replay, Close, Open

\* Every step keeps the replays within the committed rows.
LEMMA ReplaysStep ==
    ASSUME LogInv, [Next]_vars
    PROVE  Replays'
  <1>0. ReplayInv /\ Replays
    BY DEF LogInv, ReplayInv
  <1>1. ASSUME NEW t \in Threads, NEW r \in Runs, Replay(t, r)
        PROVE  Replays'
    <2>1. txn[StoreOf[t]] = {}
      BY <1>0, <1>1, NobodyWrites, StoresAssumption DEF Replay
    <2>2. Of(Visible(StoreOf[t]), r) \subseteq rows
      BY <2>1 DEF Visible, Of
    <2> QED
      BY <1>0, <1>1, <2>2 DEF Replay, Replays
  <1>2. ASSUME seen' = seen, rows \subseteq rows'
        PROVE  Replays'
    BY <1>0, <1>2 DEF Replays
  <1> QED
    BY <1>1, <1>2 DEF Next, vars, Proceed, AppendBatch, TakeLock, BeginImmediate, Allocate,
        Insert, StatementFails, Commit, Rollback, Release, Close, Open, Crash

-----------------------------------------------------------------------------
(* Transactions.                                                           *)

\* One transaction is open at a time.
LEMMA OneTransaction ==
    ASSUME ReplayInv, NEW t \in Threads, NEW u \in Threads,
           call[t].at \in {"allocate", "insert", "rollback"},
           call[u].at \in {"allocate", "insert", "rollback"}
    PROVE  t = u
  <1>1. StoreOf[t] = StoreOf[u]
    BY DEF ReplayInv, HasDatabase
  <1> QED
    BY <1>1 DEF ReplayInv, HasLock

\* A step that touches neither the rows nor a call that is inserting.
LEMMA RowsUntouched ==
    ASSUME LogInv, rows' = rows, txn' = txn,
           \A u \in Threads :
             \/ call'[u] = call[u]
             \/ call'[u].at \notin {"lock", "begin", "allocate", "insert"}
             \/ call'[u].at \in {"lock", "begin", "allocate"} /\ call'[u].done = 0
    PROVE  Transaction' /\ Gapless'
  <1>1. Transaction /\ Gapless
    BY DEF LogInv
  <1>2. Gapless'
    BY <1>1 DEF Gapless
  <1>3. \A u \in Threads : call'[u].at = "insert" => call'[u] = call[u]
    OBVIOUS
  <1>4. ASSUME NEW u \in Threads, call'[u].at = "insert"
        PROVE  Continues(u)'
    BY <1>1, <1>3, <1>4 DEF Transaction, Continues
  <1>5. ASSUME NEW u \in Threads, call'[u].at \in {"lock", "begin", "allocate"}
        PROVE  call'[u].done = 0
    BY <1>1, <1>5 DEF Transaction
  <1> QED
    BY <1>2, <1>4, <1>5 DEF Transaction

\* The rows after a batch is committed.
LEMMA CommittedRows ==
    ASSUME LogInv, NEW t \in Threads, call[t].at = "insert",
           call[t].done = Len(call[t].batch), NEW rs,
           rs = rows \cup txn[StoreOf[t]]
    PROVE  /\ Numbered(rs, call[t].run, (call[t].first - 1) + Len(call[t].batch))
           /\ \A r \in Runs \ {call[t].run} : Of(rs, r) = Of(rows, r)
  <1> DEFINE c == call[t]
  <1>1. c \in Calls
    BY UnderWay DEF LogInv, ReplayInv
  <1>2. /\ c.first > 0 /\ Numbered(rows, c.run, c.first - 1)
        /\ txn[StoreOf[t]] = Inserted(c)
    BY DEF LogInv, Transaction, Continues
  <1>3. c.first \in Nat /\ c.done \in Nat /\ c.done = Len(c.batch)
    BY <1>1 DEF Calls
  <1> HIDE DEF c
  <1>4. \A x \in Inserted(c) : x.run = c.run /\ x.seq \in c.first .. (c.first - 1) + c.done
    BY <1>3 DEF Inserted
  <1>5. ASSUME NEW k \in c.first .. (c.first - 1) + c.done
        PROVE  \E x \in Inserted(c) : x.seq = k
    <2>1. PICK i \in 1 .. c.done : c.first + (i - 1) = k
      <3>1. k - c.first + 1 \in 1 .. c.done /\ c.first + ((k - c.first + 1) - 1) = k
        BY <1>3
      <3> QED
        BY <3>1
    <2> DEFINE x == [run |-> c.run, seq |-> c.first + (i - 1), id |-> c.batch[i]]
    <2>2. x \in Inserted(c)
      BY DEF Inserted
    <2>3. x.seq = k
      BY <2>1
    <2> QED
      BY <2>2, <2>3
  <1>6. Of(rs, c.run) = Of(rows, c.run) \cup Inserted(c)
    BY <1>2, <1>4 DEF Of
  <1>7. \A x \in Of(rs, c.run) : x.seq \in 1 .. (c.first - 1) + c.done
    BY <1>2, <1>3, <1>4, <1>6 DEF Numbered
  <1>8. ASSUME NEW k \in 1 .. (c.first - 1) + c.done
        PROVE  \E x \in Of(rs, c.run) : x.seq = k
    <2>1. CASE k \in 1 .. c.first - 1
      <3>1. \E x \in Of(rows, c.run) : x.seq = k
        BY <1>2, <2>1 DEF Numbered
      <3> QED
        BY <1>6, <3>1
    <2>2. CASE k \in c.first .. (c.first - 1) + c.done
      <3>1. \E x \in Inserted(c) : x.seq = k
        BY <1>5, <2>2
      <3> QED
        BY <1>6, <3>1
    <2>3. k \in 1 .. c.first - 1 \/ k \in c.first .. (c.first - 1) + c.done
      BY <1>2, <1>3
    <2> QED
      BY <2>1, <2>2, <2>3
  <1>9. Numbered(rs, c.run, (c.first - 1) + c.done)
    BY <1>7, <1>8 DEF Numbered
  <1>10. \A r \in Runs \ {c.run} : Of(rs, r) = Of(rows, r)
    BY <1>2, <1>4 DEF Of
  <1> QED
    BY <1>3, <1>9, <1>10 DEF c

\* Every step keeps the runs gapless and the open transaction in its place.
LEMMA RowsStep ==
    ASSUME LogInv, [Next]_vars
    PROVE  Transaction' /\ Gapless'
  <1>0. ReplayInv /\ StoreTypes /\ Transaction /\ Gapless
    BY DEF LogInv, ReplayInv
  <1>1. ASSUME NEW t \in Threads, NEW r \in Runs, NEW batch \in Batches,
               AppendBatch(t, r, batch)
        PROVE  Transaction' /\ Gapless'
    <2>1. \A u \in Threads :
             \/ call'[u] = call[u]
             \/ call'[u].at = "lock" /\ call'[u].done = 0
      <3> DEFINE c == [at |-> "lock", run |-> r, batch |-> batch, first |-> 0, done |-> 0]
      <3>1. call' = [call EXCEPT ![t] = c]
        BY <1>1 DEF AppendBatch
      <3>2. c.at = "lock" /\ c.done = 0
        OBVIOUS
      <3> HIDE DEF c
      <3>3. call'[t] = c /\ \A u \in Threads \ {t} : call'[u] = call[u]
        BY <1>0, <3>1 DEF StoreTypes
      <3> QED
        BY <3>2, <3>3
    <2> QED
      BY <1>1, <2>1, RowsUntouched DEF AppendBatch
  <1>2. ASSUME NEW t \in Threads, TakeLock(t)
        PROVE  Transaction' /\ Gapless'
    <2>1. \A u \in Threads : \/ call'[u] = call[u] \/ call'[u].at = "idle"
                             \/ call'[u].at = "begin" /\ call'[u].done = 0
      <3>1. CASE open[StoreOf[t]]
        BY <1>0, <1>2, <3>1, Goes DEF TakeLock, Transaction
      <3>2. CASE ~open[StoreOf[t]]
        BY <1>0, <1>2, <3>2 DEF TakeLock, StoreTypes, Idle
      <3> QED
        BY <3>1, <3>2
    <2> QED
      BY <1>2, <2>1, RowsUntouched DEF TakeLock
  <1>3. ASSUME NEW t \in Threads, BeginImmediate(t)
        PROVE  Transaction' /\ Gapless'
    <2>1. \A u \in Threads : \/ call'[u] = call[u] \/ call'[u].at = "release"
                             \/ call'[u].at = "allocate" /\ call'[u].done = 0
      BY <1>0, <1>3, Goes DEF BeginImmediate, Transaction
    <2> QED
      BY <1>3, <2>1, RowsUntouched DEF BeginImmediate
  <1>4. ASSUME NEW t \in Threads, Allocate(t)
        PROVE  Transaction' /\ Gapless'
    <2> DEFINE n == MaxSequence(Visible(StoreOf[t]), call[t].run)
    <2>1. /\ call[t] \in Calls /\ call[t].done = 0
          /\ n \in Nat /\ Numbered(rows, call[t].run, n)
      BY <1>0, <1>4, UnderWay, Allocated DEF Allocate, Transaction
    <2>2. call' = [call EXCEPT ![t] = [call[t] EXCEPT !.at = "insert", !.first = n + 1]]
      BY <1>0, <1>4 DEF Allocate
    <2> HIDE DEF n
    <2>3. /\ call'[t].first = n + 1 /\ call'[t].done = 0 /\ call'[t].run = call[t].run
          /\ call'[t].batch = call[t].batch /\ call'[t].at = "insert"
          /\ \A u \in Threads \ {t} : call'[u] = call[u]
      BY <1>0, <2>1, <2>2 DEF Calls, StoreTypes
    <2>4. txn[StoreOf[t]] = {} /\ rows' = rows /\ txn' = txn
      BY <1>0, <1>4, EmptyTransaction DEF Allocate
    <2>5. Inserted(call'[t]) = {}
      BY <2>3 DEF Inserted
    <2>6. Len(call[t].batch) \in Nat
      BY <2>1, StoresAssumption DEF Calls
    <2>7. Continues(t)'
      BY <2>1, <2>3, <2>4, <2>5, <2>6 DEF Continues
    <2>8. ASSUME NEW u \in Threads \ {t}, call'[u].at = "insert"
          PROVE  FALSE
      BY <1>0, <1>4, <2>3, <2>8, OneTransaction DEF Allocate
    <2>9. Transaction'
      BY <1>0, <2>3, <2>7, <2>8 DEF Transaction
    <2> QED
      BY <1>0, <2>4, <2>9 DEF Gapless
  <1>5. ASSUME NEW t \in Threads, Insert(t)
        PROVE  Transaction' /\ Gapless'
    <2>1. CASE Refused(StoreOf[t], NextRow(t))
      <3>1. \A u \in Threads : call'[u] = call[u] \/ call'[u].at = "rollback"
        BY <1>0, <1>5, <2>1, Goes DEF Insert
      <3> QED
        BY <1>5, <2>1, <3>1, RowsUntouched DEF Insert
    <2>2. CASE ~Refused(StoreOf[t], NextRow(t))
      <3> DEFINE c == call[t]
                 d == call'[t]
      <3>1. /\ c \in Calls /\ c.at = "insert" /\ c.done < Len(c.batch)
            /\ c.first > 0 /\ Numbered(rows, c.run, c.first - 1)
            /\ txn[StoreOf[t]] = Inserted(c) /\ StoreOf[t] \in Stores
        BY <1>0, <1>5, UnderWay DEF Insert, Transaction, Continues
      <3>2. /\ call' = [call EXCEPT ![t] = [call[t] EXCEPT !.done = @ + 1]]
            /\ txn' = [txn EXCEPT ![StoreOf[t]] = @ \cup {NextRow(t)}]
            /\ rows' = rows
        BY <1>0, <1>5, <2>2 DEF Insert
      <3>3. /\ d.at = "insert" /\ d.run = c.run /\ d.batch = c.batch
            /\ d.first = c.first /\ d.done = c.done + 1
            /\ \A u \in Threads \ {t} : call'[u] = call[u]
        BY <1>0, <3>1, <3>2 DEF Calls, StoreTypes
      <3>4. c.first \in Nat /\ c.done \in Nat /\ Len(c.batch) \in Nat
        BY <3>1, StoresAssumption DEF Calls
      <3>5. NextRow(t) = [run |-> c.run, seq |-> c.first + c.done, id |-> c.batch[c.done + 1]]
        BY DEF NextRow
      <3>6. txn'[StoreOf[t]] = txn[StoreOf[t]] \cup {NextRow(t)}
        BY <1>0, <3>1, <3>2 DEF StoreTypes
      <3> HIDE DEF c, d
      <3>7. Inserted(d) = Inserted(c) \cup {NextRow(t)}
        <4> DEFINE Nth(i) == [run |-> c.run, seq |-> c.first + (i - 1), id |-> c.batch[i]]
        <4>1. Inserted(c) = {Nth(i) : i \in 1 .. c.done}
          BY DEF Inserted
        <4>2. Inserted(d) = {Nth(i) : i \in 1 .. c.done + 1}
          BY <3>3 DEF Inserted
        <4>3. NextRow(t) = Nth(c.done + 1)
          BY <3>4, <3>5
        <4>4. 1 .. c.done + 1 = (1 .. c.done) \cup {c.done + 1}
          BY <3>4
        <4> HIDE DEF Nth
        <4> QED
          BY <4>1, <4>2, <4>3, <4>4
      <3>8. Continues(t)'
        <4>1. call'[t].first > 0 /\ call'[t].done <= Len(call'[t].batch)
          BY <3>1, <3>3, <3>4 DEF d
        <4>2. Numbered(rows', call'[t].run, call'[t].first - 1)
          BY <3>1, <3>2, <3>3 DEF d
        <4>3. txn'[StoreOf[t]] = Inserted(call'[t])
          BY <3>1, <3>6, <3>7 DEF d
        <4> QED
          BY <4>1, <4>2, <4>3 DEF Continues
      <3>9. ASSUME NEW u \in Threads \ {t}, call'[u].at = "insert"
            PROVE  FALSE
        BY <1>0, <3>1, <3>3, <3>9, OneTransaction DEF c
      <3>10. Transaction'
        BY <1>0, <3>3, <3>8, <3>9 DEF Transaction, d
      <3>11. Distinct(rows \cup txn[StoreOf[t]] \cup {NextRow(t)})
        BY <1>0, <2>2, <3>1 DEF Gapless, Distinct, Refused, Visible
      <3>12. ASSUME NEW s \in Stores
             PROVE  Distinct(rows' \cup txn'[s])
        <4>1. CASE s = StoreOf[t]
          <5>1. rows' \cup txn'[s] = rows \cup txn[StoreOf[t]] \cup {NextRow(t)}
            BY <3>2, <3>6, <4>1
          <5> QED
            BY <3>11, <5>1
        <4>2. CASE s # StoreOf[t]
          <5>1. txn'[s] = txn[s]
            BY <1>0, <3>2, <4>2 DEF StoreTypes
          <5> QED
            BY <1>0, <3>2, <5>1 DEF Gapless
        <4> QED
          BY <4>1, <4>2
      <3> QED
        BY <1>0, <3>2, <3>10, <3>12 DEF Gapless
    <2> QED
      BY <2>1, <2>2
  <1>6. ASSUME NEW t \in Threads, StatementFails(t)
        PROVE  Transaction' /\ Gapless'
    <2>1. \A u \in Threads : call'[u] = call[u] \/ call'[u].at = "rollback"
      BY <1>0, <1>6, Goes DEF StatementFails
    <2> QED
      BY <1>6, <2>1, RowsUntouched DEF StatementFails
  <1>7. ASSUME NEW t \in Threads, Commit(t)
        PROVE  Transaction' /\ Gapless'
    <2>1. /\ call[t].at = "insert" /\ call'[t].at = "release"
          /\ \A u \in Threads \ {t} : call'[u] = call[u]
      BY <1>0, <1>7, Goes DEF Commit
    <2>2. ASSUME NEW u \in Threads PROVE call'[u].at # "insert"
      BY <1>0, <2>1, OneTransaction
    <2>3. Transaction'
      BY <1>0, <2>1, <2>2 DEF Transaction
    <2>4. /\ rows' = rows \cup txn[StoreOf[t]] /\ StoreOf[t] \in Stores
          /\ txn' = [txn EXCEPT ![StoreOf[t]] = {}]
          /\ call[t].done = Len(call[t].batch)
      BY <1>7, StoresAssumption DEF Commit
    <2>5. ASSUME NEW r \in Runs
          PROVE  \E n \in Nat : Numbered(rows', r, n)
      <3>1. CASE r = call[t].run
        <4>1. (call[t].first - 1) + Len(call[t].batch) \in Nat
          <5>1. call[t] \in Calls /\ call[t].first > 0
            BY <1>0, <2>1, UnderWay DEF Transaction, Continues
          <5>2. call[t].first \in Nat /\ Len(call[t].batch) \in Nat
            BY <5>1, StoresAssumption DEF Calls
          <5> QED
            BY <5>1, <5>2
        <4> QED
          BY <2>1, <2>4, <3>1, <4>1, CommittedRows
      <3>2. CASE r # call[t].run
        <4>1. Of(rows', r) = Of(rows, r)
          BY <2>1, <2>4, <3>2, CommittedRows
        <4> QED
          BY <1>0, <4>1 DEF Gapless, Numbered
      <3> QED
        BY <3>1, <3>2
    <2>6. ASSUME NEW s \in Stores
          PROVE  Distinct(rows' \cup txn'[s])
      <3>1. txn'[s] = {}
        <4>1. CASE s = StoreOf[t]
          BY <1>0, <2>4, <4>1 DEF StoreTypes
        <4>2. CASE s # StoreOf[t]
          <5>1. writer = StoreOf[t]
            BY <1>0, <2>1 DEF ReplayInv, HasDatabase
          <5>2. txn'[s] = txn[s]
            BY <1>0, <2>4, <4>2 DEF StoreTypes
          <5> QED
            BY <1>0, <4>2, <5>1, <5>2, OneWriter
        <4> QED
          BY <4>1, <4>2
      <3>2. rows' \cup txn'[s] = rows \cup txn[StoreOf[t]]
        BY <2>4, <3>1
      <3> QED
        BY <1>0, <2>4, <3>2 DEF Gapless
    <2> QED
      BY <2>3, <2>5, <2>6 DEF Gapless
  <1>8. ASSUME NEW t \in Threads, Rollback(t)
        PROVE  Transaction' /\ Gapless'
    <2>1. /\ call[t].at = "rollback" /\ call'[t].at = "release"
          /\ \A u \in Threads \ {t} : call'[u] = call[u]
      BY <1>0, <1>8, Goes DEF Rollback
    <2>2. ASSUME NEW u \in Threads PROVE call'[u].at # "insert"
      BY <1>0, <2>1, OneTransaction
    <2>3. Transaction'
      BY <1>0, <2>1, <2>2 DEF Transaction
    <2>4. rows' = rows /\ \A s \in Stores : txn'[s] \subseteq txn[s]
      BY <1>0, <1>8 DEF Rollback, StoreTypes
    <2> QED
      BY <1>0, <2>3, <2>4 DEF Gapless, Distinct
  <1>9. ASSUME NEW t \in Threads, Release(t)
        PROVE  Transaction' /\ Gapless'
    <2>1. \A u \in Threads : call'[u] = call[u] \/ call'[u].at = "idle"
      BY <1>0, <1>9 DEF Release, StoreTypes, Idle
    <2> QED
      BY <1>9, <2>1, RowsUntouched DEF Release
  <1>10. ASSUME NEW s \in Stores, Crash(s)
         PROVE  Transaction' /\ Gapless'
    <2>1. rows' = rows /\ \A z \in Stores : txn'[z] \subseteq txn[z]
      BY <1>0, <1>10 DEF Crash, StoreTypes
    <2>2. \A u \in Threads :
             \/ call'[u].at = "idle"
             \/ call'[u] = call[u] /\ txn'[StoreOf[u]] = txn[StoreOf[u]]
      BY <1>0, <1>10, StoresAssumption DEF Crash, StoreTypes, Idle
    <2>3. ASSUME NEW u \in Threads, call'[u].at = "insert"
          PROVE  Continues(u)'
      BY <1>0, <2>1, <2>2, <2>3 DEF Transaction, Continues
    <2>4. Transaction'
      BY <1>0, <2>2, <2>3 DEF Transaction
    <2> QED
      BY <1>0, <2>1, <2>4 DEF Gapless, Distinct
  <1>11. ASSUME UNCHANGED <<rows, txn, call>>
         PROVE  Transaction' /\ Gapless'
    BY <1>11, RowsUntouched
  <1> QED
    BY <1>1, <1>2, <1>3, <1>4, <1>5, <1>6, <1>7, <1>8, <1>9, <1>10, <1>11
    DEF Next, Proceed, vars, Replay, Close, Open

\* The invariant holds at the start.
LEMMA StoreInit == Init => LogInv
  <1> SUFFICES ASSUME Init
               PROVE  LogInv
    OBVIOUS
  <1>1. StoreTypes /\ HasLock /\ HasDatabase /\ Clean /\ Replays /\ Transaction
    BY StoresAssumption DEF Init, StoreTypes, HasLock, HasDatabase, Clean, Replays,
                            Transaction, Idle
  <1>2. ASSUME NEW r \in Runs
        PROVE  Numbered(rows, r, 0)
    BY DEF Init, Numbered, Of
  <1>3. Gapless
    BY <1>2 DEF Init, Gapless, Distinct
  <1> QED
    BY <1>1, <1>3 DEF LogInv, ReplayInv

\* The invariant is inductive.
LEMMA StoreStep == LogInv /\ [Next]_vars => LogInv'
  BY TypesStep, LocksStep, ReplaysStep, RowsStep DEF LogInv, ReplayInv

\* The invariant holds in every reachable state.
LEMMA StoreInvariant == Spec => []LogInv
  BY StoreInit, StoreStep, PTL DEF Spec

\* Whatever threads share a connection, statements fail or processes die, a
\* replay returns only rows that are committed.
THEOREM ReplaysAreCommitted == Spec => []ReplaysCommitted
  <1>1. LogInv => ReplaysCommitted
    BY DEF LogInv, ReplayInv, Replays, ReplaysCommitted
  <1> QED
    BY <1>1, StoreInvariant, PTL

-----------------------------------------------------------------------------
(* The rows are the log.                                                   *)

\* LogOf, for any set of rows.
InOrder(o) == [n \in 1 .. Cardinality(o) |-> (CHOOSE x \in o : x.seq = n).id]

SequenceOf(rs, r) == InOrder(Of(rs, r))

\* Distinct rows that are numbered from 1 are a sequence of events.
LEMMA RowsAreSequence ==
    ASSUME NEW rs, rs \subseteq Row, Distinct(rs), NEW r \in Runs,
           NEW n \in Nat, Numbered(rs, r, n)
    PROVE  /\ SequenceOf(rs, r) \in Seq(EventIds)
           /\ Len(SequenceOf(rs, r)) = n
           /\ \A x \in Of(rs, r) : SequenceOf(rs, r)[x.seq] = x.id
  <1> DEFINE O == Of(rs, r)
             Nth(k) == CHOOSE x \in O : x.seq = k
             f == [k \in 1 .. n |-> Nth(k)]
  <1>1. \A x, y \in O : x.seq = y.seq => x = y
    BY DEF Of, Distinct
  <1>2. \A k \in 1 .. n : Nth(k) \in O /\ Nth(k).seq = k
    BY DEF Numbered
  <1>3. \A x \in O : x.seq \in 1 .. n /\ x.id \in EventIds
    BY DEF Numbered, Of, Row
  <1> HIDE DEF O, Nth
  <1>4. \A x \in O : Nth(x.seq) = x
    BY <1>1, <1>2, <1>3
  <1>5. f \in Bijection(1 .. n, O)
    BY <1>2, <1>3, <1>4 DEF Bijection, Injection, Surjection, IsInjective
  <1>6. Cardinality(O) = n
    <2>1. IsFiniteSet(1 .. n) /\ Cardinality(1 .. n) = n
      BY FS_Interval
    <2> QED
      BY <1>5, <2>1, FS_Bijection DEF ExistsBijection
  <1>7. SequenceOf(rs, r) = [k \in 1 .. n |-> Nth(k).id]
    BY <1>6 DEF SequenceOf, InOrder, O, Nth
  <1>8. \A k \in 1 .. n : Nth(k).id \in EventIds
    BY <1>2, <1>3
  <1>9. SequenceOf(rs, r) \in Seq(EventIds) /\ Len(SequenceOf(rs, r)) = n
    BY <1>7, <1>8
  <1>10. \A x \in O : SequenceOf(rs, r)[x.seq] = x.id
    BY <1>3, <1>4, <1>7
  <1> QED
    BY <1>9, <1>10 DEF O

\* What makes a sequence the concatenation of two.
LEMMA Concatenates ==
    ASSUME NEW S, NEW a \in Seq(S), NEW b \in Seq(S), NEW z \in Seq(S),
           Len(z) = Len(a) + Len(b),
           \A i \in 1 .. Len(a) : z[i] = a[i],
           \A i \in 1 .. Len(b) : z[Len(a) + i] = b[i]
    PROVE  z = a \o b
  <1>1. Len(a) \in Nat /\ Len(b) \in Nat
    BY LenProperties
  <1>2. ASSUME NEW k \in 1 .. Len(z)
        PROVE  z[k] = (a \o b)[k]
    <2>1. k \in 1 .. Len(a) + Len(b)
      OBVIOUS
    <2>2. (a \o b)[k] = IF k <= Len(a) THEN a[k] ELSE b[k - Len(a)]
      BY <2>1, ConcatProperties
    <2>3. CASE k <= Len(a)
      BY <1>1, <2>2, <2>3
    <2>4. CASE k > Len(a)
      <3>1. k - Len(a) \in 1 .. Len(b) /\ Len(a) + (k - Len(a)) = k
        BY <1>1, <2>1, <2>4
      <3>2. z[k] = b[k - Len(a)]
        BY <3>1
      <3> QED
        BY <1>1, <2>1, <2>2, <2>4, <3>2
    <2> QED
      BY <1>1, <2>1, <2>3, <2>4
  <1>3. a \o b \in Seq(S) /\ Len(a \o b) = Len(z)
    BY ConcatProperties
  <1> QED
    BY <1>2, <1>3, SeqEqual

\* The end of a concatenation.
LEMMA Appended ==
    ASSUME NEW S, NEW a \in Seq(S), NEW b \in Seq(S), NEW z, z = a \o b
    PROVE  /\ SubSeq(z, Len(a) + 1, Len(z)) = b
           /\ b # <<>> => Len(z) > Len(a)
  <1>1. /\ z \in Seq(S) /\ Len(z) = Len(a) + Len(b)
        /\ Len(a) \in Nat /\ Len(b) \in Nat
    BY ConcatProperties, LenProperties
  <1>2. ASSUME NEW i \in 1 .. Len(b)
        PROVE  z[Len(a) + i] = b[i]
    <2>1. /\ Len(a) + i \in 1 .. Len(a) + Len(b)
          /\ ~(Len(a) + i <= Len(a)) /\ (Len(a) + i) - Len(a) = i
      BY <1>1
    <2>2. \A k \in 1 .. Len(a) + Len(b) :
             (a \o b)[k] = IF k <= Len(a) THEN a[k] ELSE b[k - Len(a)]
      BY ConcatProperties
    <2> QED
      BY <2>1, <2>2
  <1>3. \A k \in Len(a) + 1 .. Len(z) : z[k] \in S
    <2>1. \A k \in 1 .. Len(z) : z[k] \in S
      BY <1>1, ElementOfSeq
    <2> QED
      BY <1>1, <2>1
  <1>4. PICK e : e = SubSeq(z, Len(a) + 1, Len(z))
    OBVIOUS
  <1>5. Len(a) + 1 \in Int /\ Len(z) \in Int
    BY <1>1
  <1>6. /\ e \in Seq(S)
        /\ Len(e) = IF Len(a) + 1 <= Len(z) THEN Len(z) - (Len(a) + 1) + 1 ELSE 0
        /\ \A k \in 1 .. Len(z) - (Len(a) + 1) + 1 : e[k] = z[(Len(a) + 1) + k - 1]
    BY <1>3, <1>4, <1>5, SubSeqProperties
  <1>7. Len(e) = Len(b)
    BY <1>1, <1>6
  <1>8. ASSUME NEW k \in 1 .. Len(e)
        PROVE  e[k] = b[k]
    <2>1. k \in 1 .. Len(z) - (Len(a) + 1) + 1 /\ (Len(a) + 1) + k - 1 = Len(a) + k
      BY <1>1, <1>7
    <2> QED
      BY <1>2, <1>6, <1>7, <2>1
  <1>9. e = b
    BY <1>6, <1>7, <1>8, SeqEqual
  <1>10. b # <<>> => Len(b) > 0
    BY <1>1, EmptySeq
  <1> QED
    BY <1>1, <1>4, <1>9, <1>10

\* What a commit adds to the sequence of the transaction's run.
LEMMA CommitAppends ==
    ASSUME LogInv, NEW t \in Threads, call[t].at = "insert",
           call[t].done = Len(call[t].batch), NEW rs,
           rs = rows \cup txn[StoreOf[t]]
    PROVE  /\ call[t].run \in Runs /\ call[t].batch \in Batches \ {<<>>}
           /\ call[t].batch \in Seq(EventIds)
           /\ SequenceOf(rows, call[t].run) \in Seq(EventIds)
           /\ SequenceOf(rs, call[t].run) = SequenceOf(rows, call[t].run) \o call[t].batch
           /\ \A r \in Runs \ {call[t].run} : SequenceOf(rs, r) = SequenceOf(rows, r)
  <1>0. ReplayInv /\ StoreTypes /\ Transaction /\ Gapless /\ StoreOf[t] \in Stores
    BY StoresAssumption DEF LogInv, ReplayInv
  <1>1. PICK c : c = call[t]
    OBVIOUS
  <1>2. /\ c \in Calls /\ c.first > 0 /\ Numbered(rows, c.run, c.first - 1)
        /\ txn[StoreOf[t]] = Inserted(c) /\ c.done = Len(c.batch)
    BY <1>0, <1>1, UnderWay DEF Transaction, Continues
  <1>3. /\ c.run \in Runs /\ c.batch \in Batches \ {<<>>} /\ c.first \in Nat
        /\ c.batch \in Seq(EventIds) /\ Len(c.batch) \in Nat
    BY <1>2, StoresAssumption DEF Calls
  <1>4. PICK n \in Nat : n = c.first - 1
    BY <1>2, <1>3
  <1>5. PICK m \in Nat : m = n + Len(c.batch)
    BY <1>3
  <1>6. rs \subseteq Row /\ Distinct(rs) /\ rows \subseteq Row /\ Distinct(rows)
    BY <1>0 DEF StoreTypes, Gapless, Distinct
  <1>7. Numbered(rs, c.run, m) /\ \A r \in Runs \ {c.run} : Of(rs, r) = Of(rows, r)
    BY <1>1, <1>4, <1>5, CommittedRows
  <1>8. PICK L : L = SequenceOf(rows, c.run)
    OBVIOUS
  <1>9. PICK K : K = SequenceOf(rs, c.run)
    OBVIOUS
  <1>10. /\ L \in Seq(EventIds) /\ Len(L) = n
         /\ \A x \in Of(rows, c.run) : L[x.seq] = x.id
    BY <1>2, <1>3, <1>4, <1>6, <1>8, RowsAreSequence
  <1>11. /\ K \in Seq(EventIds) /\ Len(K) = m
         /\ \A x \in Of(rs, c.run) : K[x.seq] = x.id
    <2>1. /\ SequenceOf(rs, c.run) \in Seq(EventIds)
          /\ Len(SequenceOf(rs, c.run)) = m
          /\ \A x \in Of(rs, c.run) : SequenceOf(rs, c.run)[x.seq] = x.id
      <3>1. m \in Nat /\ c.run \in Runs /\ rs \subseteq Row
        BY <1>3, <1>5, <1>6
      <3>2. Distinct(rs) /\ Numbered(rs, c.run, m)
        BY <1>6, <1>7
      <3> QED
        BY <3>1, <3>2, RowsAreSequence
    <2> QED
      BY <1>9, <2>1
  <1>12. ASSUME NEW k \in 1 .. Len(L)
         PROVE  K[k] = L[k]
    <2>1. PICK x \in Of(rows, c.run) : x.seq = k
      BY <1>2, <1>4, <1>10 DEF Numbered
    <2>2. x \in Of(rs, c.run)
      BY DEF Of
    <2> QED
      BY <1>10, <1>11, <2>1, <2>2
  <1>13. ASSUME NEW i \in 1 .. Len(c.batch)
         PROVE  K[Len(L) + i] = c.batch[i]
    <2>1. PICK x : x = [run |-> c.run, seq |-> c.first + (i - 1), id |-> c.batch[i]]
      OBVIOUS
    <2>2. x \in Inserted(c)
      BY <1>2, <2>1 DEF Inserted
    <2>3. x \in Of(rs, c.run) /\ x.id = c.batch[i]
      BY <1>2, <2>1, <2>2 DEF Of
    <2>4. x.seq = Len(L) + i
      BY <1>3, <1>4, <1>10, <2>1
    <2> QED
      BY <1>11, <2>3, <2>4
  <1>14. K = L \o c.batch
    <2>1. Len(K) = Len(L) + Len(c.batch)
      BY <1>5, <1>10, <1>11
    <2> QED
      BY <1>3, <1>10, <1>11, <1>12, <1>13, <2>1, Concatenates
  <1>15. ASSUME NEW r \in Runs \ {c.run}
         PROVE  SequenceOf(rs, r) = SequenceOf(rows, r)
    <2>1. Of(rs, r) = Of(rows, r)
      BY <1>7
    <2> QED
      BY <2>1 DEF SequenceOf
  <1> QED
    BY <1>1, <1>3, <1>8, <1>9, <1>10, <1>14, <1>15

\* No event of a batch that commits is in the log or twice in the batch.
LEMMA CommitFresh ==
    ASSUME LogInv, NEW t \in Threads, call[t].at = "insert",
           call[t].done = Len(call[t].batch),
           NEW i \in 1 .. Len(call[t].batch)
    PROVE  /\ \A r \in Runs : \A k \in 1 .. Len(SequenceOf(rows, r)) :
                SequenceOf(rows, r)[k] # call[t].batch[i]
           /\ \A j \in 1 .. Len(call[t].batch) :
                call[t].batch[i] = call[t].batch[j] => i = j
  <1> DEFINE c == call[t]
             s == StoreOf[t]
             Nth(j) == [run |-> c.run, seq |-> c.first + (j - 1), id |-> c.batch[j]]
  <1>0. ReplayInv /\ StoreTypes /\ Transaction /\ Gapless /\ s \in Stores
    BY StoresAssumption DEF LogInv, ReplayInv
  <1>1. /\ c \in Calls /\ c.first > 0 /\ Numbered(rows, c.run, c.first - 1)
        /\ txn[s] = Inserted(c) /\ c.first \in Nat
    BY <1>0, UnderWay DEF Transaction, Continues, Calls
  <1>2. Distinct(rows \cup txn[s])
    BY <1>0 DEF Gapless
  <1>3. \A j \in 1 .. Len(c.batch) : Nth(j) \in txn[s]
    BY <1>1 DEF Inserted
  <1>4. ASSUME NEW r \in Runs, NEW k \in 1 .. Len(SequenceOf(rows, r)),
               SequenceOf(rows, r)[k] = c.batch[i]
        PROVE  FALSE
    <2>1. PICK n \in Nat : Numbered(rows, r, n)
      BY <1>0 DEF Gapless
    <2>2. rows \subseteq Row /\ Distinct(rows)
      BY <1>0 DEF StoreTypes, Gapless, Distinct
    <2>3. /\ Len(SequenceOf(rows, r)) = n
          /\ \A x \in Of(rows, r) : SequenceOf(rows, r)[x.seq] = x.id
      BY <2>1, <2>2, RowsAreSequence
    <2>4. PICK x \in Of(rows, r) : x.seq = k
      BY <2>1, <2>3 DEF Numbered
    <2>5. x \in rows /\ x.id = c.batch[i]
      BY <1>4, <2>3, <2>4 DEF Of
    <2>6. x = Nth(i)
      BY <1>2, <1>3, <2>5 DEF Distinct
    <2>7. x \in Of(rows, c.run) /\ x.seq = c.first + (i - 1)
      BY <2>5, <2>6 DEF Of
    <2>8. x.seq \in 1 .. c.first - 1
      BY <1>1, <2>7 DEF Numbered
    <2> QED
      BY <1>1, <2>7, <2>8
  <1>5. ASSUME NEW j \in 1 .. Len(c.batch), c.batch[i] = c.batch[j]
        PROVE  i = j
    <2>1. Nth(i) = Nth(j)
      BY <1>2, <1>3, <1>5 DEF Distinct
    <2>2. Nth(i).seq = c.first + (i - 1) /\ Nth(j).seq = c.first + (j - 1)
      OBVIOUS
    <2> QED
      BY <1>1, <2>1, <2>2
  <1> QED
    BY <1>4, <1>5

\* A commit appends its batch to the log; every other step leaves it alone.
LEMMA LogStep ==
    ASSUME LogInv, [Next]_vars
    PROVE  [Log!Next]_([r \in Runs |-> LogOf(r)])
  <1>1. PICK log : log = [r \in Runs |-> SequenceOf(rows, r)]
    OBVIOUS
  <1>2. PICK next : next = [r \in Runs |-> SequenceOf(rows', r)]
    OBVIOUS
  <1>3. [r \in Runs |-> LogOf(r)] = log
    BY <1>1 DEF SequenceOf, InOrder, LogOf
  <1>4. [r \in Runs |-> LogOf(r)]' = next
    BY <1>2 DEF SequenceOf, InOrder, LogOf
  <1>5. ASSUME NEW t \in Threads, Commit(t)
        PROVE  Log!Next
    <2>1. /\ call[t].at = "insert" /\ call[t].done = Len(call[t].batch)
          /\ rows' = rows \cup txn[StoreOf[t]]
      BY <1>5 DEF Commit
    <2>2. PICK b : b = call[t].batch
      OBVIOUS
    <2>3. PICK q : q = call[t].run
      OBVIOUS
    <2>4. /\ q \in Runs /\ b \in Batches \ {<<>>} /\ b \in Seq(EventIds)
          /\ SequenceOf(rows, q) \in Seq(EventIds)
          /\ SequenceOf(rows', q) = SequenceOf(rows, q) \o b
          /\ \A r \in Runs \ {q} : SequenceOf(rows', r) = SequenceOf(rows, r)
      BY <2>1, <2>2, <2>3, CommitAppends
    <2>5. log[q] \in Seq(EventIds) /\ next[q] = log[q] \o b
      BY <1>1, <1>2, <2>4
    <2>6. next = [log EXCEPT ![q] = @ \o b]
      BY <1>1, <1>2, <2>4
    <2>7. /\ SubSeq(next[q], Len(log[q]) + 1, Len(next[q])) = b
          /\ Len(next[q]) > Len(log[q])
      <3>1. PICK a : a = log[q]
        OBVIOUS
      <3>2. PICK z : z = next[q]
        OBVIOUS
      <3>3. a \in Seq(EventIds) /\ b \in Seq(EventIds) /\ z = a \o b /\ b # <<>>
        BY <2>4, <2>5, <3>1, <3>2
      <3>4. SubSeq(z, Len(a) + 1, Len(z)) = b /\ Len(z) > Len(a)
        BY <3>3, Appended
      <3> QED
        BY <3>1, <3>2, <3>4
    <2>8. ASSUME NEW i \in 1 .. Len(b)
          PROVE  /\ \A r \in Runs : \A k \in 1 .. Len(log[r]) : log[r][k] # b[i]
                 /\ \A j \in 1 .. Len(b) : b[i] = b[j] => i = j
      <3>1. /\ \A r \in Runs : \A k \in 1 .. Len(SequenceOf(rows, r)) :
                 SequenceOf(rows, r)[k] # b[i]
            /\ \A j \in 1 .. Len(b) : b[i] = b[j] => i = j
        BY <2>1, <2>2, CommitFresh
      <3> QED
        BY <1>1, <3>1
    <2>9. Log!AppendBatch(q, b)
      <3>1. /\ b \in Batches
            /\ \A i \in 1 .. Len(b) :
                 /\ \A r \in Runs : \A k \in 1 .. Len([x \in Runs |-> LogOf(x)][r]) :
                      [x \in Runs |-> LogOf(x)][r][k] # b[i]
                 /\ \A j \in 1 .. Len(b) : b[i] = b[j] => i = j
        BY <1>3, <2>4, <2>8
      <3>2. [x \in Runs |-> LogOf(x)]' = [[x \in Runs |-> LogOf(x)] EXCEPT ![q] = @ \o b]
        BY <1>3, <1>4, <2>6
      <3> QED
        BY <3>1, <3>2 DEF Log!AppendBatch
    <2>10. Log!Added(q) = b
      BY <1>3, <1>4, <2>7 DEF Log!Added
    <2>11. Len([x \in Runs |-> LogOf(x)]'[q]) > Len([x \in Runs |-> LogOf(x)][q])
      BY <1>3, <1>4, <2>7
    <2>12. Log!AppendBatch(q, Log!Added(q))
      BY <2>9, <2>10
    <2>13. q \in Runs
      BY <2>4
    <2> QED
      BY <2>11, <2>12, <2>13 DEF Log!Next
  <1>6. ASSUME rows' = rows
        PROVE  next = log
    BY <1>1, <1>2, <1>6
  <1> QED
    BY <1>3, <1>4, <1>5, <1>6
    DEF Next, Proceed, vars, AppendBatch, TakeLock, BeginImmediate, Allocate, Insert,
        StatementFails, Rollback, Release, Replay, Close, Open, Crash

\* SQLiteEventStore implements EventLog: for any number of stores and threads,
\* colliding event ids, failing statements and crashes, the database is one
\* append-only sequence of events per run, extended by whole batches only.
THEOREM StoreImplementsLog == Spec => ImplementsLog
  <1>1. Init => Log!Init
    <2> SUFFICES ASSUME Init, NEW r \in Runs
                 PROVE  LogOf(r) = <<>>
      BY DEF Log!Init
    <2>1. Of(rows, r) = {}
      BY DEF Init, Of
    <2>2. Cardinality(Of(rows, r)) = 0
      BY <2>1, FS_EmptySet
    <2> QED
      BY <2>2 DEF LogOf
  <1>2. LogInv /\ [Next]_vars => [Log!Next]_([r \in Runs |-> LogOf(r)])
    BY LogStep
  <1> QED
    BY <1>1, <1>2, StoreInvariant, PTL DEF Spec, ImplementsLog, Log!Spec
=============================================================================
