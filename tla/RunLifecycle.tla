----------------------------- MODULE RunLifecycle -----------------------------
(***************************************************************************)
(* What a run promises to anyone who watches its status: the transition    *)
(* table of AgentRun (incident_guard/agents/run_models.py), the lifecycle  *)
(* the README draws.  EventRuntime is checked to implement it.             *)
(***************************************************************************)
VARIABLE status

AllowedTransitions ==
    [created |-> {"running", "cancelled"},
     running |-> {"waiting_approval", "cancelling", "completed", "failed",
                  "failed_uncertain"},
     waiting_approval |-> {"running", "cancelling", "failed"},
     cancelling |-> {"cancelled", "failed_uncertain"},
     completed |-> {}, cancelled |-> {}, failed |-> {},
     failed_uncertain |-> {}]

Init == status = "created"

\* AgentRun.transition
Transition == status' \in AllowedTransitions[status]

Spec == Init /\ [][Transition]_status
=============================================================================
