---------------------------- MODULE IncidentState ----------------------------
(***************************************************************************)
(* The second fold over a run's stream: IncidentStateProjector              *)
(* (incident_guard/context/incident_state.py), as far as its approvals go.  *)
(* Like RunProjection it keeps the value of the fold; project raises for    *)
(* good once ok is FALSE.                                                   *)
(*                                                                         *)
(* Its idea of a pending approval is not RunProjection's: it belongs to one *)
(* request, where the run only has a status.  Facts, evidence, hypotheses   *)
(* and work items are left out: no command decides on them.                 *)
(***************************************************************************)
EXTENDS RunProjection

\* An approval is absent, pending, approved or rejected.
NoIncident == [ok |-> TRUE, approvals |-> [c \in CallIds |-> "absent"]]

\* approval.requested: a request id may come only once.
RequestSeen(i, c) ==
    IF i.ok /\ i.approvals[c] = "absent"
    THEN [i EXCEPT !.approvals[c] = "pending"]
    ELSE [i EXCEPT !.ok = FALSE]

\* Mutant: a decision leaves the request in the list of pending ones.
DecisionSeen_StaysPending(i, c, d) ==
    IF i.ok /\ i.approvals[c] = "pending" THEN i ELSE [i EXCEPT !.ok = FALSE]

\* approval.decided: only a pending request takes a decision.
DecisionSeen(i, c, d) ==
    IF i.ok /\ i.approvals[c] = "pending"
    THEN [i EXCEPT !.approvals[c] = d]
    ELSE [i EXCEPT !.ok = FALSE]

\* The approvals a summary lists.
PendingApprovals(i) == {c \in CallIds : i.approvals[c] = "pending"}
=============================================================================
