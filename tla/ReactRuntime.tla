---------------------------- MODULE ReactRuntime ----------------------------
(***************************************************************************)
(* agents/react_runtime.py with agents/goal_gate.py: the in-memory loop     *)
(* model -> tools -> model of StructuredAgentRuntime.run.  Nothing of it is *)
(* durable; its only product is the AgentRun it returns.                    *)
(*                                                                         *)
(* The provider is external; what the tools observe and what the gate sees  *)
(* of the incident are parameters, which Evaluation.tla supplies.  The run's *)
(* timeout may strike wherever run() awaits them.                           *)
(***************************************************************************)
EXTENDS Naturals, Sequences, SequencesExt

CONSTANTS
    Responses,                          \* what the provider may answer
    MaxSteps, MaxTokens, MaxToolCalls   \* RunLimits

ASSUME ReactLimits ==
    /\ MaxSteps \in Nat \ {0} /\ MaxTokens \in Nat /\ MaxToolCalls \in Nat
ASSUME ReactResponses ==
    \A r \in Responses :
        /\ r.stop \in {"end_turn", "tool_use", "max_tokens"}
        /\ r.calls \in Nat /\ r.tokens \in Nat
        /\ r.stop = "tool_use" <=> r.calls > 0

VARIABLES
    gated,      \* is there a goal gate?
    status,     \* AgentRun.status
    turns,      \* AgentRun.turns, each the sequence of its steps
    steps,      \* steps of the current turn
    iteration,  \* turns of the for loop so far
    tokens, toolCalls,
    response,   \* the answer being worked on
    at,         \* where run() is suspended
    goal,       \* what the gate last saw of the incident
    given       \* history: all answers of the provider, in order

vars == <<gated, status, turns, steps, iteration, tokens, toolCalls,
          response, at, goal, given>>

\* IncidentGoalState as it is before anything is known.
NothingYet == [f \in {"evidence", "performed", "approved", "verified",
                      "healthy", "escalation"} |-> FALSE]

NoResponse == [stop |-> "none", calls |-> 0, tokens |-> 0]

Init ==
    /\ gated \in BOOLEAN
    /\ status = "created" /\ turns = <<>> /\ steps = <<>>
    /\ iteration = 0 /\ tokens = 0 /\ toolCalls = 0
    /\ response = NoResponse /\ at = "start"
    /\ goal = NothingYet /\ given = <<>>

-----------------------------------------------------------------------------

\* StepResult(len(steps) + 1, response, observations)
Step(r, observations) ==
    [number |-> Len(steps) + 1, response |-> r, observations |-> observations]

\* append_turn and transition; a turn without steps is not appended.
Close(final, done) ==
    /\ status' = final /\ at' = "end"
    /\ turns' = IF done = <<>> THEN turns ELSE Append(turns, done)
    /\ UNCHANGED <<gated, steps, iteration>>

Fail(done) == Close("failed", done)

\* The context has grown by the step, or by the gate's feedback.
NextIteration ==
    /\ at' = "model" /\ iteration' = iteration + 1
    /\ UNCHANGED <<gated, status>>

Start ==
    /\ at = "start" /\ status = "created"
    /\ status' = "running" /\ at' = "model"
    /\ UNCHANGED <<gated, turns, steps, iteration, tokens, toolCalls,
                   response, goal, given>>

\* range(max_steps) is exhausted.
LoopEnds ==
    /\ at = "model" /\ iteration = MaxSteps
    /\ Fail(steps)
    /\ UNCHANGED <<tokens, toolCalls, response, goal, given>>

OverCalls(r) == toolCalls + r.calls > MaxToolCalls

ModelResponds(r) ==
    /\ at = "model" /\ iteration < MaxSteps
    /\ tokens' = tokens + r.tokens
    /\ response' = r
    /\ given' = Append(given, r)
    /\ UNCHANGED <<toolCalls, goal>>
    /\ \/ /\ \/ tokens' > MaxTokens
             \/ r.stop = "tool_use" /\ OverCalls(r)
             \/ r.stop = "max_tokens"
          /\ Fail(Append(steps, Step(r, {})))
       \/ /\ tokens' <= MaxTokens /\ r.stop = "tool_use" /\ ~OverCalls(r)
          /\ at' = "tools"
          /\ UNCHANGED <<gated, status, turns, steps, iteration>>
       \/ /\ tokens' <= MaxTokens /\ r.stop = "end_turn" /\ gated
          /\ at' = "gate"
          /\ steps' = Append(steps, Step(r, {}))
          /\ UNCHANGED <<gated, status, turns, iteration>>
       \/ /\ tokens' <= MaxTokens /\ r.stop = "end_turn" /\ ~gated
          /\ Close("completed", Append(steps, Step(r, {})))

\* execute_batch has returned the observations: the step goes into the
\* context.
ToolsReturn(observations) ==
    /\ at = "tools"
    /\ toolCalls' = toolCalls + response.calls
    /\ steps' = Append(steps, Step(response, observations))
    /\ NextIteration
    /\ UNCHANGED <<turns, tokens, response, goal, given>>

-----------------------------------------------------------------------------
(* IncidentGoalGate                                                        *)

\* The conditions check() finds missing.
Missing(g) ==
    {condition \in DOMAIN g :
        \/ condition = "evidence" /\ ~g.evidence
        \/ condition = "approved" /\ g.performed /\ ~g.approved
        \/ condition = "verified" /\ ~g.verified
        \/ condition = "healthy" /\ ~g.healthy /\ ~g.escalation}

\* GoalGateDecision: allowed exactly if nothing is missing.
Allowed(g) == Missing(g) = {}

\* Mutant: the steps of the rejected turn stay in the list.
GateRejects_KeepsSteps(g) ==
    /\ at = "gate" /\ ~Allowed(g)
    /\ goal' = g
    /\ turns' = Append(turns, steps)
    /\ NextIteration
    /\ UNCHANGED <<steps, tokens, toolCalls, response, given>>

\* Mutant: the rejected turn is not appended to the run.
GateRejects_Forgets(g) ==
    /\ at = "gate" /\ ~Allowed(g)
    /\ goal' = g
    /\ steps' = <<>>
    /\ NextIteration
    /\ UNCHANGED <<turns, tokens, toolCalls, response, given>>

GateRejects(g) ==
    /\ at = "gate" /\ ~Allowed(g)
    /\ goal' = g
    /\ turns' = Append(turns, steps) /\ steps' = <<>>
    /\ NextIteration
    /\ UNCHANGED <<tokens, toolCalls, response, given>>

GateAllows(g) ==
    /\ at = "gate" /\ Allowed(g)
    /\ goal' = g
    /\ Close("completed", steps)
    /\ UNCHANGED <<tokens, toolCalls, response, given>>

-----------------------------------------------------------------------------

\* An exception ends the run; the step whose tools were running is not
\* recorded.
Interrupted ==
    /\ Fail(steps)
    /\ UNCHANGED <<tokens, toolCalls, response, goal, given>>

Timeout == at \in {"model", "tools", "gate"} /\ Interrupted

\* The provider raises, or its stream does not end with one completed event.
ModelRaises == at = "model" /\ iteration < MaxSteps /\ Interrupted

ToolsRaise == at = "tools" /\ Interrupted

\* The state provider raises, or returns something else.
GateRaises == at = "gate" /\ Interrupted

-----------------------------------------------------------------------------
(* Properties.                                                             *)

Recorded == FlattenSeq(turns)

\* run() returns a terminal AgentRun, in whose record every answer of the
\* provider is found exactly once and in order, with the steps of each turn
\* numbered from one; only the step in whose tools the run was interrupted may
\* be missing at the end.
RecordedOnce ==
    at = "end" =>
        /\ status \in {"completed", "failed"}
        /\ \A t \in DOMAIN turns : \A n \in DOMAIN turns[t] :
               turns[t][n].number = n
        /\ LET answers == [n \in DOMAIN Recorded |-> Recorded[n].response]
           IN  \/ answers = given
               \/ /\ answers = Front(given) /\ Last(given).stop = "tool_use"
                  /\ status = "failed"

=============================================================================
