---------------------------- MODULE MCEvaluation ----------------------------
(* Answers for TLC: batches that gather evidence in one piece or in two,    *)
(* mutate what the scenario allows and what it does not, and verify before, *)
(* after or for the wrong version; final answers with each root cause.      *)
EXTENDS Evaluation

On(tool, service) == [tool |-> tool, service |-> service, version |-> "any"]
Payment(tool) == On(tool, "payment-service")
VerifyOld == [Payment("verify_recovery") EXCEPT !.version = "v2"]

Batches ==
    {<<Payment("query_metrics"), Payment("get_recent_deployments"),
       Payment("query_logs")>>,
     <<Payment("query_logs")>>,
     <<Payment("query_service_health"), On("get_recent_deployments", "shop-api")>>,
     <<Payment("restart_service"), Payment("verify_recovery")>>,
     <<Payment("rollback_service")>>,
     <<Payment("rollback_service"), VerifyOld>>,
     <<Payment("rollback_service"), Payment("verify_recovery")>>,
     <<Payment("verify_recovery"), Payment("rollback_service")>>,
     <<On("restart_service", "shop-api"), On("verify_recovery", "dependency-service")>>}

Causes == {{"bad", "deploy"}, {"dependency", "outage"},
           {"transient", "hang", "service"}, {}}

Answer(stop, batch, cost, cause, escalates) ==
    [stop |-> stop, batch |-> batch, calls |-> Len(batch), tokens |-> cost,
     cause |-> cause, escalates |-> escalates]

MCResponses ==
    {Answer("tool_use", b, t, {}, FALSE) : b \in Batches, t \in {0, 1}}
        \cup {Answer("end_turn", <<>>, 0, c, "dependency" \in c) : c \in Causes}
        \cup {Answer("max_tokens", <<>>, 1, {}, FALSE)}
=============================================================================
