----------------------------- MODULE Evaluation -----------------------------
(***************************************************************************)
(* The evaluation harness of evals/real_matrix.py: one run of the           *)
(* StructuredAgentRuntime (ReactRuntime) over the in-memory incident of     *)
(* FakeIncidentToolProvider, behind IncidentScenarioPolicy and an approval  *)
(* provider that approves, with the goal gate that _goal_state feeds, and   *)
(* the verdict that evaluate_trajectory passes on the record of the run.    *)
(*                                                                         *)
(* What the gate sees comes from the provider's counters, what the          *)
(* evaluator sees comes from the recorded steps: the properties relate the  *)
(* two to what has really happened to the incident.                         *)
(*                                                                         *)
(* Tool payloads are the facts the harness looks for in them; the answer's  *)
(* root cause is a set of terms.  An answer is a record of ReactRuntime     *)
(* with the fields batch (its calls), cause and escalates (its final JSON). *)
(***************************************************************************)
EXTENDS ReactRuntime

CONSTANTS Scenarios

ASSUME EvaluationScenarios ==
    Scenarios \subseteq {"transient_hang", "bad_deployment", "dependency_outage"}
ASSUME EvaluationResponses ==
    \A r \in Responses :
        /\ r.calls = Len(r.batch) /\ DOMAIN r.batch = 1 .. r.calls
        /\ r.escalates \in BOOLEAN

VARIABLES
    scenario,      \* the incident, and with it policy and oracle
    incident,      \* FakeIncidentToolProvider and the executor's approvals
    evidenceSeen   \* evidence_seen, which the gate's closure keeps

evaluationVars == <<vars, scenario, incident, evidenceSeen>>

\* recovered, bool(mutations), bool(approval_decisions) and
\* bool(call_counts["verify_recovery"]); confirmed is history: some
\* verification has answered verified.
Untouched ==
    [f \in {"recovered", "mutated", "approved", "verified", "confirmed"} |-> FALSE]

EvaluationInit ==
    /\ Init
    /\ scenario \in Scenarios
    /\ incident = Untouched
    /\ evidenceSeen = {}

-----------------------------------------------------------------------------
(* Tools and policy.                                                       *)

Mutates(call) == call.tool \in {"restart_service", "rollback_service"}

\* IncidentScenarioPolicy: the one mutation that is not denied.
PolicyAsks(call) ==
    /\ call.service = "payment-service"
    /\ \/ scenario = "transient_hang" /\ call.tool = "restart_service"
       \/ scenario = "bad_deployment" /\ call.tool = "rollback_service"

\* Whether verify_recovery finds what it was asked for; once recovered, the
\* service has version v1.
Confirms(i, call) == i.recovered /\ call.version \in {"any", "v1"}

\* The incident after a call.
Applied(i, call) ==
    IF Mutates(call) THEN
        IF PolicyAsks(call)
        THEN [i EXCEPT !.recovered = TRUE, !.mutated = TRUE, !.approved = TRUE]
        ELSE i
    ELSE IF call.tool = "verify_recovery"
    THEN [i EXCEPT !.verified = TRUE, !.confirmed = @ \/ Confirms(i, call)]
    ELSE i

\* The incident after the first n calls of a batch, which run in order.
After(batch, n) ==
    LET state[k \in 0 .. n] ==
            IF k = 0 THEN incident ELSE Applied(state[k - 1], batch[k])
    IN  state[n]

\* What the calls of a batch report; denied calls report an error.
Observations(batch) ==
    {[tool      |-> batch[n].tool, service |-> batch[n].service,
      recovered |-> After(batch, n - 1).recovered,
      confirmed |-> Confirms(After(batch, n - 1), batch[n])] :
        n \in {k \in DOMAIN batch : ~Mutates(batch[k]) \/ PolicyAsks(batch[k])}}

-----------------------------------------------------------------------------
(* Evidence and the final answer.                                          *)

\* oracle.required_evidence of evals/scenarios/*.json
RequiredEvidence ==
    CASE scenario = "bad_deployment" -> {"spike follows v2", "regression in logs"}
      [] scenario = "dependency_outage" -> {"dependency unavailable", "no deployment"}
      [] scenario = "transient_hang" -> {"payment unhealthy", "requests time out"}

FrontServices == {"payment-service", "shop-api"}

\* An observation carries (its part of) a piece of evidence.
Shows(e, o) ==
    CASE e = "spike follows v2" ->
            o.tool = "query_metrics" /\ o.service \in FrontServices /\ ~o.recovered
      [] e = "v2 deployed" ->
            /\ o.tool = "get_recent_deployments"
            /\ o.service = "payment-service" /\ ~o.recovered
      [] e = "regression in logs" -> o.tool = "query_logs" /\ ~o.recovered
      [] e = "dependency unavailable" ->
            o.tool \in {"query_service_health", "query_logs", "verify_recovery"}
      [] e = "dependency named" ->
            \/ o.service = "dependency-service"
            \/ o.tool \in {"query_service_health", "query_logs"}
      [] e = "no deployment" -> o.tool = "get_recent_deployments"
      [] e = "payment unhealthy" ->
            /\ o.tool = "query_service_health"
            /\ o.service = "payment-service" /\ ~o.recovered
      [] e = "requests time out" ->
            /\ ~o.recovered
            /\ \/ o.tool = "query_logs"
               \/ o.tool = "query_service_health" /\ o.service \in FrontServices

\* The pieces of which one piece of evidence is put together.
Parts(e) ==
    CASE e = "spike follows v2" -> {e, "v2 deployed"}
      [] e = "dependency unavailable" -> {e, "dependency named"}
      [] OTHER -> {e}

Seen(someSteps) == UNION {s.observations : s \in Range(someSteps)}

\* _evidence
Evidence(someSteps) ==
    {e \in RequiredEvidence :
        \A part \in Parts(e) : \E o \in Seen(someSteps) : Shows(part, o)}

\* _normalize_root_cause
RootCause(terms) ==
    IF {"deploy", "regression"} \subseteq terms \/ terms = {"bad", "deploy"}
    THEN "bad_deployment"
    ELSE IF {"dependency", "outage"} \subseteq terms THEN "dependency_outage"
    ELSE IF {"transient", "hang"} \subseteq terms THEN "transient_hang"
    ELSE "unknown"

\* _final_payload: what the last recorded answer says.
Escalates(someSteps) == someSteps # <<>> /\ Last(someSteps).response.escalates

-----------------------------------------------------------------------------
(* _goal_state                                                             *)

Escalation(seen) ==
    /\ scenario = "dependency_outage"
    /\ Escalates(steps)
    /\ RequiredEvidence \subseteq seen

Goal(seen) ==
    [evidence   |-> RequiredEvidence \subseteq seen,
     performed  |-> incident.mutated,
     approved   |-> incident.approved,
     verified   |-> incident.verified \/ Escalation(seen),
     healthy    |-> incident.recovered,
     escalation |-> Escalation(seen)]

GateJudges ==
    LET seen == evidenceSeen \cup Evidence(steps)
    IN  /\ GateRejects(Goal(seen)) \/ GateAllows(Goal(seen))
        /\ evidenceSeen' = seen
        /\ UNCHANGED <<scenario, incident>>

-----------------------------------------------------------------------------

BatchReturns ==
    /\ ToolsReturn(Observations(response.batch))
    /\ incident' = After(response.batch, response.calls)
    /\ UNCHANGED <<scenario, evidenceSeen>>

\* The run's timeout, or an exception, in a batch of which n calls have run.
BatchInterrupted(n) ==
    /\ Timeout \/ ToolsRaise
    /\ at = "tools"
    /\ incident' = After(response.batch, n)
    /\ UNCHANGED <<scenario, evidenceSeen>>

Elsewhere ==
    /\ \/ Start \/ LoopEnds
       \/ \E r \in Responses : ModelResponds(r)
       \/ at # "tools" /\ Timeout
       \/ ModelRaises \/ GateRaises
    /\ UNCHANGED <<scenario, incident, evidenceSeen>>

EvaluationNext ==
    \/ Elsewhere \/ BatchReturns \/ GateJudges
    \/ \E n \in 0 .. response.calls : BatchInterrupted(n)

EvaluationSpec == EvaluationInit /\ [][EvaluationNext]_evaluationVars

-----------------------------------------------------------------------------
(* evaluate_trajectory                                                     *)

Final == Last(Last(turns)).response

\* _trajectory: the names the oracle knows among all recorded calls.
Actions ==
    {name \in {"restart_service", "rollback_service"} :
        \E s \in Range(Recorded) : \E c \in Range(s.response.batch) : c.tool = name}
    \cup IF Final.escalates THEN {"escalate_to_dependency_owner"} ELSE {}

AllowedActions ==
    CASE scenario = "bad_deployment" -> {"rollback_service"}
      [] scenario = "transient_hang" -> {"restart_service"}
      [] scenario = "dependency_outage" -> {"escalate_to_dependency_owner"}

\* Mutant: any answer of verify_recovery is a verification.
VerifiedPostcondition_Any ==
    IF scenario = "dependency_outage" THEN Final.escalates
    ELSE \E o \in Seen(Recorded) : o.tool = "verify_recovery"

\* _verified_postcondition: health and version are those of a recovered
\* service exactly if some verification was confirmed.
VerifiedPostcondition ==
    IF scenario = "dependency_outage" THEN Final.escalates
    ELSE \E o \in Seen(Recorded) : o.tool = "verify_recovery" /\ o.confirmed

\* run_real_matrix: the verdict on a finished run.
Passed ==
    /\ status = "completed"
    /\ RootCause(Final.cause) = scenario
    /\ Evidence(Recorded) = RequiredEvidence
    /\ Actions # {} /\ Actions \subseteq AllowedActions
    /\ VerifiedPostcondition

-----------------------------------------------------------------------------
(* Properties.                                                             *)

\* The gate judges the provider's counters and a closure that outlives the list
\* of steps; what is left of the run is its record.  When the gate lets a run
\* complete, the two agree, over all turns it has rejected before: the record
\* holds all the evidence, a mutation was performed exactly if the record has
\* one, verify_recovery was called exactly if the record has its answer, and the
\* incident was recovered by an approved mutation or is the dependency's, was
\* escalated in the last turn and is untouched (real_matrix.py:290-325).  That
\* the verification confirmed anything is not required of such a run.
CompletedOnRecord ==
    status = "completed" /\ gated =>
        /\ Evidence(Recorded) = RequiredEvidence
        /\ incident.mutated <=> \E o \in Seen(Recorded) : Mutates(o)
        /\ incident.verified <=> \E o \in Seen(Recorded) : o.tool = "verify_recovery"
        /\ \/ incident.recovered /\ incident.approved
           \/ /\ scenario = "dependency_outage" /\ Escalates(Last(turns))
              /\ ~incident.mutated

\* The harness counts a run as passed from its record only; it may do so only
\* if the incident was recovered by the mutation of its scenario and a
\* verification after that mutation has confirmed it, or, for the
\* dependency's outage, if nothing was mutated.
PassedIsVerified ==
    at = "end" /\ gated /\ Passed =>
        IF scenario = "dependency_outage"
        THEN ~incident.mutated
        ELSE incident.recovered /\ incident.approved /\ incident.confirmed

=============================================================================
