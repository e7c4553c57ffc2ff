------------------------------- MODULE EventLog -------------------------------
(***************************************************************************)
(* What the EventStore protocol (incident_guard/events/event_store.py)     *)
(* promises to the rest of the system: one append-only sequence of events  *)
(* per run, to which a batch is added whole or not at all.  EventRuntime   *)
(* and IncidentCLI take this for granted; EventStore is checked to         *)
(* implement it.                                                           *)
(***************************************************************************)
EXTENDS Naturals, Sequences

CONSTANTS Runs,
          Batches    \* the batches that callers append

VARIABLE log

Init == log = [r \in Runs |-> <<>>]

\* A whole batch, and no event is in the log twice.
AppendBatch(r, batch) ==
    /\ batch \in Batches
    /\ \A i \in 1 .. Len(batch) :
         /\ \A s \in Runs : \A k \in 1 .. Len(log[s]) : log[s][k] # batch[i]
         /\ \A j \in 1 .. Len(batch) : batch[i] = batch[j] => i = j
    /\ log' = [log EXCEPT ![r] = @ \o batch]

\* The batch an observer sees to be added to run r.
Added(r) == SubSeq(log'[r], Len(log[r]) + 1, Len(log'[r]))

Next == \E r \in Runs : Len(log'[r]) > Len(log[r]) /\ AppendBatch(r, Added(r))

Spec == Init /\ [][Next]_log
=============================================================================
