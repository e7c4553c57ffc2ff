---------------------------- MODULE IncidentLab ----------------------------
(***************************************************************************)
(* The Docker lab and the way the recovery tools reach it: the health of    *)
(* lab/services/service.py, the compose operations of lab/docker_lab.py,    *)
(* the tools of DockerIncidentToolProvider, and the MCP session between     *)
(* them and their clients (mcp/server.py, mcp/tool_provider.py).            *)
(*                                                                         *)
(* A client is a run's driver, `ig resume' or the durable agent.  It starts *)
(* a server process, calls its tools one at a time and may give up on a     *)
(* call; the server goes on with it.  The server runs a handler to its end  *)
(* before it reads the next request, whether its client is still there or   *)
(* not.  An operator injects faults with `ig inject' and `ig lab'.          *)
(*                                                                         *)
(* A compose operation is two steps of the Docker daemon, between which the *)
(* service is down; it may fail after either.  A health query is two steps: *)
(* payment-service looks at its own fault and version, then at its          *)
(* upstream.  Both times out or fails wherever the code allows for it.      *)
(* A query of shop-api asks payment-service as its upstream, and counts as   *)
(* one of payment-service here.                                             *)
(***************************************************************************)
EXTENDS Naturals, Sequences, SequencesExt

CONSTANTS Clients,
          MaxServers,      \* bound: servers all clients start
          MaxCalls,        \* bound: calls all clients make
          MaxInjections    \* bound: faults the operator injects

ASSUME LabBounds ==
    MaxServers \in Nat \ {0} /\ MaxCalls \in Nat /\ MaxInjections \in Nat

VARIABLES
    lab,        \* the containers
    scenario,   \* lab-state.json: the scenario injected last
    policy,     \* per client, the scenario its run was started with
    server,     \* per client, the number of its open server; 0: none
    requests,   \* per client and server, the requests not yet answered
    outcome,    \* per client: what its run has seen of its recovery
    verified,   \* per client: the services it has then seen verified
    injecting,  \* the operator's operation, if any
    opened, calls, injections,   \* counted against the bounds
    undisturbed                  \* history, per client: see Disturb

vars == <<lab, scenario, policy, server, requests, outcome, verified, injecting,
          opened, calls, injections, undisturbed>>

\* Variables that a handler leaves alone.
apart == <<scenario, policy, server, injecting, opened, calls, injections>>

Servers == 1 .. MaxServers
Recoveries == {"restart", "rollback"}
Services == {"payment-service", "dependency-service"}
Injections == {"deploy", "stop", "down", "up"}
Nothing == [call |-> "none", phase |-> "queued"]

Init ==
    /\ lab = [version |-> "v1", up |-> TRUE, hung |-> FALSE, dependency |-> TRUE]
    /\ scenario = "none"
    /\ policy = [c \in Clients |-> "none"]
    /\ server = [c \in Clients |-> 0]
    /\ requests = [c \in Clients |-> [n \in Servers |-> <<>>]]
    /\ outcome = [c \in Clients |-> "none"]
    /\ verified = [c \in Clients |-> {}]
    /\ injecting = Nothing
    /\ opened = 0 /\ calls = 0
    /\ injections = 0
    /\ undisturbed = [c \in Clients |-> FALSE]

-----------------------------------------------------------------------------
(* The containers.  Docker's part is external; the arguments are the code's.*)

TakesDown(call) == call \in {"restart", "rollback", "deploy", "down"}

\* Stopping or removing the old container; an `up' of payment-service starts
\* the dependency it depends on.
FirstEffect(l, call) ==
    [l EXCEPT
        !.up = @ /\ ~TakesDown(call),
        !.hung = @ /\ ~TakesDown(call),
        !.dependency = (@ \/ call \in {"rollback", "deploy", "up"})
                            /\ call \notin {"stop", "down"}]

\* Starting it again: restart keeps the version, the others name one.
SecondEffect(l, call) ==
    CASE call = "restart" -> [l EXCEPT !.up = TRUE]
      [] call = "rollback" -> [l EXCEPT !.up = TRUE, !.version = "v1"]
      [] call = "deploy" -> [l EXCEPT !.up = TRUE, !.version = "v2"]
      [] call = "up" /\ ~(l.up /\ l.version = "v1") ->
            [l EXCEPT !.up = TRUE, !.version = "v1", !.hung = FALSE]
      [] OTHER -> l

\* health_payload of payment-service, before it asks its upstream.
SelfHealthy(l) == l.up /\ ~l.hung /\ l.version = "v1"

Healthy(l, service) == l.dependency /\ (service = "payment-service" => SelfHealthy(l))

\* A health query in flight breaks off when the container goes down.
BreakOff(call, rs) ==
    IF TakesDown(call)
    THEN [c \in Clients |-> [n \in Servers |-> [k \in DOMAIN rs[c][n] |->
            IF rs[c][n][k].call = "verify" /\ rs[c][n][k].phase = "second"
            THEN [rs[c][n][k] EXCEPT !.phase = "first"] ELSE rs[c][n][k]]]]
    ELSE rs

-----------------------------------------------------------------------------
(* The client: MCPToolProvider inside `ig resume' or the agent.            *)

\* A fault, or a recovery that is cut off while the service is down: from here
\* on nobody can count on a client's recovery any more.
Disturb == undisturbed' = [c \in Clients |-> FALSE]

Awaits(c) == server[c] > 0 /\ \E k \in DOMAIN requests[c][server[c]] :
                                    requests[c][server[c]][k].awaited

\* __aenter__, with a tool set that matches.  The run's policy is that of the
\* scenario its investigation found in lab-state.json.
Open(c) ==
    /\ server[c] = 0 /\ opened < MaxServers
    /\ outcome[c] # "uncertain"
    /\ policy[c] # "none" \/ scenario # "none"
    /\ opened' = opened + 1
    /\ server' = [server EXCEPT ![c] = opened']
    /\ policy' = [policy EXCEPT ![c] = IF @ = "none" THEN scenario ELSE @]
    /\ UNCHANGED <<lab, scenario, requests, outcome, verified, injecting, calls,
                   injections, undisturbed>>

\* __aexit__; what the server still does is terminated, or goes on.
Close(c) ==
    /\ server[c] > 0 /\ ~Awaits(c)
    /\ server' = [server EXCEPT ![c] = 0]
    /\ UNCHANGED <<lab, scenario, policy, requests, outcome, verified, injecting,
                   opened, calls, injections, undisturbed>>

\* The client's process is killed: a recovery under way has no result.  The
\* agent's run is uncertain then; `ig resume', run again, recovers again.
Killed(c) ==
    /\ server[c] > 0
    /\ server' = [server EXCEPT ![c] = 0]
    /\ requests' = [requests EXCEPT ![c][server[c]] =
                        [k \in DOMAIN @ |-> [@[k] EXCEPT !.awaited = FALSE]]]
    /\ \E left \in {"uncertain", "none"} :
          outcome' = [outcome EXCEPT ![c] = IF @ = "recovering" THEN left ELSE @]
    /\ UNCHANGED <<lab, scenario, policy, verified, injecting, opened, calls,
                   injections, undisturbed>>

Send(c, call, service) ==
    /\ server[c] > 0 /\ ~Awaits(c) /\ calls < MaxCalls
    /\ calls' = calls + 1
    /\ requests' = [requests EXCEPT ![c][server[c]] =
                        Append(@, [call |-> call, service |-> service,
                                   awaited |-> TRUE, phase |-> "queued"])]
    /\ UNCHANGED <<lab, scenario, policy, server, verified, injecting, opened, injections>>

\* IncidentScenarioPolicy
Permitted(c) ==
    CASE policy[c] = "transient_hang" -> {"restart"}
      [] policy[c] = "bad_deployment" -> {"rollback"}
      [] OTHER -> {}

\* An approved recovery action; the policy asks for payment-service.
Recover(c) ==
    /\ outcome[c] = "none"
    /\ \E call \in Permitted(c) : Send(c, call, "payment-service")
    /\ outcome' = [outcome EXCEPT ![c] = "recovering"]
    /\ undisturbed' = [undisturbed EXCEPT ![c] = (injecting = Nothing)]

\* `ig resume' asks about payment-service, the agent about what it likes.
Verify(c) ==
    /\ outcome[c] \in {"none", "recovered"}
    /\ \E service \in Services : Send(c, "verify", service)
    /\ UNCHANGED <<outcome, undisturbed>>

\* What a client makes of the end of the call it awaits: a recovery that does
\* not answer is uncertain; a verification can be asked for again.
Learn(c, r, ok) ==
    /\ outcome' = [outcome EXCEPT ![c] =
          IF r.call = "verify" THEN @ ELSE IF ok THEN "recovered" ELSE "uncertain"]
    /\ verified' = [verified EXCEPT ![c] =
          IF r.call = "verify" /\ ok /\ outcome[c] = "recovered"
          THEN @ \cup {r.service} ELSE @]

\* call_tool: asyncio.timeout strikes; the request stays with the server.
TimesOut(c) ==
    /\ Awaits(c)
    /\ LET last == Len(requests[c][server[c]])
       IN  /\ requests' = [requests EXCEPT ![c][server[c]][last].awaited = FALSE]
           /\ Learn(c, requests[c][server[c]][last], FALSE)
    /\ UNCHANGED <<lab, scenario, policy, server, injecting, opened, calls,
                   injections, undisturbed>>

-----------------------------------------------------------------------------
(* The server: call_tool of create_incident_mcp_server and the handlers.    *)

\* The handler blocks the server's event loop, so requests are taken in order
\* and one at a time.
Begin(c, n, k) ==
    /\ k = 1 /\ requests[c][n][k].phase = "queued"
    /\ requests' = [requests EXCEPT ![c][n][k].phase = "first"]
    /\ UNCHANGED <<apart, lab, outcome, verified, undisturbed>>

\* restart_service, rollback_service: the first half.
Stops(c, n, k) ==
    LET r == requests[c][n][k]
    IN  /\ r.phase = "first" /\ r.call \in Recoveries
        /\ lab' = FirstEffect(lab, r.call)
        /\ requests' = [BreakOff(r.call, requests) EXCEPT ![c][n][k].phase = "second"]
        /\ UNCHANGED <<apart, outcome, verified, undisturbed>>

\* The result goes to the client if it still waits for it.
Answer(c, n, k, ok) ==
    /\ requests' = [requests EXCEPT ![c][n] = RemoveAt(@, k)]
    /\ IF requests[c][n][k].awaited
       THEN Learn(c, requests[c][n][k], ok) ELSE UNCHANGED <<outcome, verified>>
    /\ UNCHANGED apart

Starts(c, n, k) ==
    LET r == requests[c][n][k]
    IN  /\ r.phase = "second" /\ r.call \in Recoveries
        /\ lab' = SecondEffect(lab, r.call)
        /\ Answer(c, n, k, TRUE)
        /\ UNCHANGED undisturbed

\* LabCommandError before, between or after the two halves.
ComposeFails(c, n, k) ==
    LET r == requests[c][n][k]
    IN  /\ r.phase # "queued" /\ r.call \in Recoveries
        /\ Answer(c, n, k, FALSE)
        /\ \/ r.phase = "first" /\ UNCHANGED <<lab, undisturbed>>
           \/ r.phase = "second" /\ UNCHANGED lab /\ Disturb
           \/ r.phase = "second" /\ lab' = SecondEffect(lab, r.call) /\ UNCHANGED undisturbed

Asking(r, service) ==
    r.call = "verify" /\ r.service = service /\ r.phase = "first"

\* Mutant: wait_healthy returns the first answer of the service.
Asks_FirstAnswer(c, n, k) ==
    /\ Asking(requests[c][n][k], "payment-service")
    /\ lab.up
    /\ requests' = [requests EXCEPT ![c][n][k].phase = "second"]
    /\ UNCHANGED <<apart, lab, outcome, verified, undisturbed>>

\* wait_healthy: a query that finds payment-service itself in order; any other
\* answer, and none, is tried again.
Asks(c, n, k) ==
    /\ Asking(requests[c][n][k], "payment-service")
    /\ SelfHealthy(lab)
    /\ requests' = [requests EXCEPT ![c][n][k].phase = "second"]
    /\ UNCHANGED <<apart, lab, outcome, verified, undisturbed>>

\* query_upstream has answered.
Upstream(c, n, k) ==
    /\ requests[c][n][k].call = "verify" /\ requests[c][n][k].phase = "second"
    /\ IF lab.dependency
       THEN Answer(c, n, k, TRUE)
       ELSE /\ requests' = [requests EXCEPT ![c][n][k].phase = "first"]
            /\ UNCHANGED <<apart, outcome, verified>>
    /\ UNCHANGED <<lab, undisturbed>>

\* dependency-service has no upstream, and answers at once.
AsksDependency(c, n, k) ==
    /\ Asking(requests[c][n][k], "dependency-service")
    /\ lab.dependency
    /\ Answer(c, n, k, TRUE)
    /\ UNCHANGED <<lab, undisturbed>>

\* Mutant: wait_healthy waits for as long as it takes.
Deadline_None(c, n, k) == FALSE /\ UNCHANGED vars

\* The deadline of wait_healthy, also over a query that hangs, or a version
\* that is not the expected one.
Deadline(c, n, k) ==
    /\ requests[c][n][k].call = "verify" /\ requests[c][n][k].phase # "queued"
    /\ Answer(c, n, k, FALSE)
    /\ UNCHANGED <<lab, undisturbed>>

\* Some recovery has stopped the service and not started it yet.
HalfwayIn(q) == \E k \in DOMAIN q : q[k].call # "verify" /\ q[k].phase = "second"

Halfway == \E c \in Clients, n \in Servers : HalfwayIn(requests[c][n])

\* A server whose client is gone is terminated.
Terminated(c, n) ==
    /\ n # server[c] /\ requests[c][n] # <<>>
    /\ requests' = [requests EXCEPT ![c][n] = <<>>]
    /\ IF HalfwayIn(requests[c][n]) THEN Disturb ELSE UNCHANGED undisturbed
    /\ UNCHANGED <<apart, lab, outcome, verified>>

Handler(c, n, k) ==
    \/ Begin(c, n, k) \/ Stops(c, n, k) \/ Starts(c, n, k)
    \/ ComposeFails(c, n, k)
    \/ Asks(c, n, k) \/ Upstream(c, n, k) \/ AsksDependency(c, n, k)
    \/ Deadline(c, n, k)

-----------------------------------------------------------------------------
(* The operator: `ig inject' and `ig lab'.                                 *)

\* `ig inject' transient_hang: one request, then lab-state.json.
InjectHang ==
    /\ injecting = Nothing /\ injections < MaxInjections
    /\ lab.up
    /\ lab' = [lab EXCEPT !.hung = TRUE]
    /\ scenario' = "transient_hang"
    /\ injections' = injections + 1
    /\ Disturb
    /\ UNCHANGED <<policy, server, requests, outcome, verified, injecting, opened, calls>>

BeginInjection(call) ==
    /\ injecting = Nothing /\ injections < MaxInjections
    /\ injecting' = [call |-> call, phase |-> "first"]
    /\ injections' = injections + 1
    /\ Disturb
    /\ UNCHANGED <<lab, scenario, policy, server, requests, outcome, verified, opened, calls>>

\* deploy_bad_deployment, inject_dependency_outage, down, and up.
InjectionStops ==
    /\ injecting.phase = "first"
    /\ lab' = FirstEffect(lab, injecting.call)
    /\ requests' = BreakOff(injecting.call, requests)
    /\ injecting' = [injecting EXCEPT !.phase = "second"]
    /\ UNCHANGED <<scenario, policy, server, outcome, verified, opened, calls, injections,
                   undisturbed>>

\* lab-state.json is written after the operation; reset is down and then up.
InjectionStarts ==
    /\ injecting.phase = "second"
    /\ lab' = SecondEffect(lab, injecting.call)
    /\ scenario' = CASE injecting.call = "deploy" -> "bad_deployment"
                     [] injecting.call = "stop" -> "dependency_outage"
                     [] OTHER -> scenario
    /\ \/ injecting' = Nothing
       \/ injecting.call = "down" /\ injecting' = [call |-> "up", phase |-> "first"]
    /\ UNCHANGED <<policy, server, requests, outcome, verified, opened, calls, injections,
                   undisturbed>>

InjectionFails ==
    /\ injecting # Nothing
    /\ injecting' = Nothing
    /\ UNCHANGED <<lab, scenario, policy, server, requests, outcome, verified, opened,
                   calls, injections, undisturbed>>

-----------------------------------------------------------------------------

Client(c) ==
    \/ Open(c) \/ Close(c) \/ Killed(c) \/ Recover(c) \/ Verify(c) \/ TimesOut(c)
    \/ \E n \in Servers :
        \/ Terminated(c, n)
        \/ \E k \in DOMAIN requests[c][n] : Handler(c, n, k)

Operator ==
    \/ InjectHang \/ InjectionStops \/ InjectionStarts \/ InjectionFails
    \/ \E call \in Injections : BeginInjection(call)

Next == Operator \/ \E c \in Clients : Client(c)

\* A client's server runs and its waits end; a server that lost its client, the
\* clients and the operator need not move.
Progress(c, Step(_, _, _)) ==
    /\ server[c] > 0
    /\ \E k \in DOMAIN requests[c][server[c]] : Step(c, server[c], k)

Works(c, n, k) == Begin(c, n, k) \/ Stops(c, n, k) \/ Starts(c, n, k)

Fairness ==
    \A c \in Clients :
        WF_vars(Progress(c, Works)) /\ WF_vars(Progress(c, Deadline))

Spec == Init /\ [][Next]_vars /\ Fairness

-----------------------------------------------------------------------------
(* Properties.                                                             *)

\* What a client has seen verified after its recovery is in order, unless a
\* fault was injected or a recovery was cut off while the service was down,
\* since its own began, or one is halfway right now: payment-service is up, on
\* v1, not hung and its upstream there, whatever recoveries nobody waits for any
\* more the servers go on with, those of a killed or timed-out try of the same
\* client among them, and however many clients recover at once
\* (docker_lab.py:165, tool_provider.py:112).  A yes about dependency-service,
\* which the agent may ask for instead, says that dependency-service is there,
\* and nothing of what was recovered.
VerifiedHolds ==
    \A c \in Clients :
        undisturbed[c] /\ ~Halfway => \A service \in verified[c] : Healthy(lab, service)

\* Without any help of the client's timeout, every call it awaits is answered:
\* compose operations end or fail, and wait_healthy has a deadline.
CallsReturn == \A c \in Clients : Awaits(c) ~> ~Awaits(c)
=============================================================================
