------------------------------ MODULE EventStore ------------------------------
(***************************************************************************)
(* SQLiteEventStore (incident_guard/events/event_store.py): the rows of    *)
(* run_events, and the transaction that append_batch makes of a batch.     *)
(*                                                                         *)
(* A store is one instance with one connection; its threads share both,    *)
(* behind the instance's RLock.  Several stores, in one process or in      *)
(* many, open the same database; SQLite's write lock serialises their      *)
(* transactions.  SQLite is external: BEGIN IMMEDIATE takes the write lock *)
(* or gives up after its timeout, a UNIQUE column refuses a second row,    *)
(* what is not committed is gone after a rollback or a crash, and a        *)
(* connection reads its own uncommitted rows and nobody else's.            *)
(*                                                                         *)
(* An event is its event_id; payloads are data.                            *)
(***************************************************************************)
EXTENDS Naturals, Sequences, FiniteSets

CONSTANTS Stores,     \* instances of SQLiteEventStore
          Threads,    \* threads that call them
          StoreOf,    \* the store each thread uses
          Runs, EventIds,
          Batches,    \* sequences of event ids that callers append
          MaxCalls,   \* bound: calls of append_batch
          MaxCrashes, \* bound: crashes of a process
          Nobody      \* no thread, no store

ASSUME StoresAssumption ==
    /\ StoreOf \in [Threads -> Stores]
    /\ Nobody \notin Threads \cup Stores
    /\ Batches \subseteq Seq(EventIds)
    /\ MaxCalls \in Nat /\ MaxCrashes \in Nat

VARIABLES rows,      \* committed rows
          txn,       \* per store, rows of its open transaction
          writer,    \* store that holds the write lock
          open,      \* per store, not yet closed
          holder,    \* per store, thread that holds its RLock
          call,      \* per thread, its call of append_batch
          seen,      \* per thread and run, the rows its last replay returned
          calls, crashes

vars == <<rows, txn, writer, open, holder, call, seen, calls, crashes>>

\* A call in progress also has its run, its batch, first, the sequence of the
\* batch's first event, and done, how many of the batch are in.
Idle == [at |-> "idle"]

Init ==
    /\ rows = {}
    /\ txn = [s \in Stores |-> {}]
    /\ writer = Nobody
    /\ open = [s \in Stores |-> TRUE]
    /\ holder = [s \in Stores |-> Nobody]
    /\ call = [t \in Threads |-> Idle]
    /\ seen = [t \in Threads |-> [r \in Runs |-> {}]]
    /\ calls = 0 /\ crashes = 0

-----------------------------------------------------------------------------

Of(set, r) == {x \in set : x.run = r}

\* SELECT COALESCE(MAX(sequence), 0)
MaxSequence(set, r) ==
    IF Of(set, r) = {} THEN 0
    ELSE (CHOOSE x \in Of(set, r) : \A y \in Of(set, r) : y.seq <= x.seq).seq

\* What a connection reads.
Visible(s) == rows \cup txn[s]

Goto(t, point) == call' = [call EXCEPT ![t].at = point]

-----------------------------------------------------------------------------
(* append_batch                                                            *)

\* An empty batch returns at once.
AppendBatch(t, r, batch) ==
    /\ call[t] = Idle /\ batch # <<>> /\ calls < MaxCalls
    /\ call' = [call EXCEPT ![t] =
            [at |-> "lock", run |-> r, batch |-> batch, first |-> 0, done |-> 0]]
    /\ calls' = calls + 1
    /\ UNCHANGED <<rows, txn, writer, open, holder, seen, crashes>>

TakeLock(t) ==
    /\ call[t].at = "lock" /\ holder[StoreOf[t]] = Nobody
    /\ IF open[StoreOf[t]]
       THEN /\ holder' = [holder EXCEPT ![StoreOf[t]] = t]
            /\ Goto(t, "begin")
       ELSE call' = [call EXCEPT ![t] = Idle] /\ UNCHANGED holder
    /\ UNCHANGED <<rows, txn, writer, open, seen, calls, crashes>>

\* Waits for the write lock for at most 30 seconds.
BeginImmediate(t) ==
    /\ call[t].at = "begin"
    /\ \/ /\ writer = Nobody
          /\ writer' = StoreOf[t]
          /\ Goto(t, "allocate")
       \/ /\ writer # Nobody
          /\ Goto(t, "release")
          /\ UNCHANGED writer
    /\ UNCHANGED <<rows, txn, open, holder, seen, calls, crashes>>

Allocate(t) ==
    /\ call[t].at = "allocate"
    /\ call' = [call EXCEPT ![t].at = "insert",
            ![t].first = MaxSequence(Visible(StoreOf[t]), call[t].run) + 1]
    /\ UNCHANGED <<rows, txn, writer, open, holder, seen, calls, crashes>>

NextRow(t) ==
    [run |-> call[t].run, seq |-> call[t].first + call[t].done,
     id |-> call[t].batch[call[t].done + 1]]

\* event_id is UNIQUE, (run_id, sequence) is the primary key.
Refused(s, row) ==
    \E x \in Visible(s) :
        x.id = row.id \/ (x.run = row.run /\ x.seq = row.seq)

Insert(t) ==
    /\ call[t].at = "insert" /\ call[t].done < Len(call[t].batch)
    /\ IF Refused(StoreOf[t], NextRow(t))
       THEN Goto(t, "rollback") /\ UNCHANGED txn
       ELSE /\ txn' = [txn EXCEPT ![StoreOf[t]] = @ \cup {NextRow(t)}]
            /\ call' = [call EXCEPT ![t].done = @ + 1]
    /\ UNCHANGED <<rows, writer, open, holder, seen, calls, crashes>>

\* An INSERT or the COMMIT fails (disk full, I/O error).
StatementFails(t) ==
    /\ call[t].at = "insert"
    /\ Goto(t, "rollback")
    /\ UNCHANGED <<rows, txn, writer, open, holder, seen, calls, crashes>>

Commit(t) ==
    /\ call[t].at = "insert" /\ call[t].done = Len(call[t].batch)
    /\ rows' = rows \cup txn[StoreOf[t]]
    /\ txn' = [txn EXCEPT ![StoreOf[t]] = {}]
    /\ writer' = Nobody
    /\ Goto(t, "release")
    /\ UNCHANGED <<open, holder, seen, calls, crashes>>

\* Mutant: the exception handler commits what is there.
Rollback_Keeps(t) ==
    /\ call[t].at = "rollback"
    /\ rows' = rows \cup txn[StoreOf[t]]
    /\ txn' = [txn EXCEPT ![StoreOf[t]] = {}]
    /\ writer' = Nobody
    /\ Goto(t, "release")
    /\ UNCHANGED <<open, holder, seen, calls, crashes>>

Rollback(t) ==
    /\ call[t].at = "rollback"
    /\ txn' = [txn EXCEPT ![StoreOf[t]] = {}]
    /\ writer' = Nobody
    /\ Goto(t, "release")
    /\ UNCHANGED <<rows, open, holder, seen, calls, crashes>>

\* Mutant: an exception leaves the method without releasing the lock.
Release_KeepsLock(t) ==
    /\ call[t].at = "release"
    /\ call' = [call EXCEPT ![t] = Idle]
    /\ UNCHANGED <<rows, txn, writer, open, holder, seen, calls, crashes>>

Release(t) ==
    /\ call[t].at = "release"
    /\ holder' = [holder EXCEPT ![StoreOf[t]] = Nobody]
    /\ call' = [call EXCEPT ![t] = Idle]
    /\ UNCHANGED <<rows, txn, writer, open, seen, calls, crashes>>

-----------------------------------------------------------------------------
(* replay, close and crashes                                               *)

\* Mutant: replay does not take the store's lock.
Replay_Unlocked(t, r) ==
    /\ call[t] = Idle /\ open[StoreOf[t]]
    /\ seen' = [seen EXCEPT ![t][r] = Of(Visible(StoreOf[t]), r)]
    /\ UNCHANGED <<rows, txn, writer, open, holder, call, calls, crashes>>

Replay(t, r) ==
    /\ call[t] = Idle /\ open[StoreOf[t]] /\ holder[StoreOf[t]] = Nobody
    /\ seen' = [seen EXCEPT ![t][r] = Of(Visible(StoreOf[t]), r)]
    /\ UNCHANGED <<rows, txn, writer, open, holder, call, calls, crashes>>

Close(s) ==
    /\ open[s] /\ holder[s] = Nobody
    /\ open' = [open EXCEPT ![s] = FALSE]
    /\ UNCHANGED <<rows, txn, writer, holder, call, seen, calls, crashes>>

\* A new instance takes the place of a closed one.
Open(s) ==
    /\ ~open[s] /\ \A t \in Threads : StoreOf[t] = s => call[t] = Idle
    /\ open' = [open EXCEPT ![s] = TRUE]
    /\ UNCHANGED <<rows, txn, writer, holder, call, seen, calls, crashes>>

\* The process of the store dies; SQLite rolls its transaction back.
Crash(s) ==
    /\ open[s] /\ crashes < MaxCrashes
    /\ crashes' = crashes + 1
    /\ open' = [open EXCEPT ![s] = FALSE]
    /\ txn' = [txn EXCEPT ![s] = {}]
    /\ writer' = IF writer = s THEN Nobody ELSE writer
    /\ holder' = [holder EXCEPT ![s] = Nobody]
    /\ call' = [t \in Threads |-> IF StoreOf[t] = s THEN Idle ELSE call[t]]
    /\ UNCHANGED <<rows, seen, calls>>

-----------------------------------------------------------------------------

\* A call of append_batch goes on.
Proceed(t) ==
    \/ TakeLock(t) \/ BeginImmediate(t) \/ Allocate(t) \/ Insert(t)
    \/ StatementFails(t) \/ Commit(t) \/ Rollback(t) \/ Release(t)

Next ==
    \/ \E t \in Threads :
         \/ \E r \in Runs, batch \in Batches : AppendBatch(t, r, batch)
         \/ Proceed(t)
         \/ \E r \in Runs : Replay(t, r)
    \/ \E s \in Stores : Close(s) \/ Open(s) \/ Crash(s)

Spec == Init /\ [][Next]_vars

-----------------------------------------------------------------------------
(* Properties.                                                             *)

\* A replay never returns a row that is not committed, although the threads
\* of a store share the connection of an open transaction.
ReplaysCommitted == \A t \in Threads, r \in Runs : seen[t][r] \subseteq rows

\* The events of a run, in the order of their sequences.
LogOf(r) ==
    [n \in 1 .. Cardinality(Of(rows, r)) |->
        (CHOOSE x \in Of(rows, r) : x.seq = n).id]

Log == INSTANCE EventLog WITH log <- [r \in Runs |-> LogOf(r)]

\* The store is an append-only log of whole batches: whatever fails, a batch
\* is there completely, in one piece and at the end of its run, or not at all.
ImplementsLog == Log!Spec

\* A thread in a call is scheduled.  Neither lock is fair, so with an endless
\* stream of rivals a call could starve; MaxCalls leaves that out.
FairSpec == Spec /\ \A t \in Threads : WF_vars(Proceed(t))

\* Every call of append_batch ends: no lock is left behind by a failure.
CallsEnd == \A t \in Threads : call[t] # Idle ~> call[t] = Idle
=============================================================================
