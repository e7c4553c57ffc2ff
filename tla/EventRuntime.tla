----------------------------- MODULE EventRuntime -----------------------------
(***************************************************************************)
(* EventDrivenAgentRuntime (incident_guard/agents/event_runtime.py): the   *)
(* loop that drives one run, and the operators that decide on approvals,   *)
(* cancel the run and send inbox messages while it runs.                   *)
(*                                                                         *)
(* run is the projection of the run's durable stream; it is all that       *)
(* survives a crash.  The driver's control point is pc:                    *)
(*   - a decision point reads run and picks the next point (project(...)   *)
(*     and the code up to the next append);                                *)
(*   - a commit point appends one event (_append) and re-reads the stream: *)
(*     between the two, other processes may write, because _append checks  *)
(*     and inserts in different transactions;                              *)
(*   - an await point ("model", "executing", and "preflight" and           *)
(*     "dispatch" when the policy suspends) is where the event loop may    *)
(*     run other tasks.                                                    *)
(* Only this driver writes turns, steps and tools, so it reads its own     *)
(* turn, step and tool states from run when it commits.                    *)
(*                                                                         *)
(* An operator call (decide_durable_approval, cancel, DurableRunInbox's    *)
(* submit) checks the projection and then appends: op[o] is the append     *)
(* that is still to come.                                                  *)
(*                                                                         *)
(* SharedLoop says where operators run: in the driver's own event loop     *)
(* (their synchronous code is atomic and runs only while the driver        *)
(* awaits) or in processes of their own, as the command line does.         *)
(*                                                                         *)
(* The model provider, the policy and the tool handlers are external:      *)
(* every answer they can give is a nondeterministic choice.                *)
(***************************************************************************)
EXTENDS RunProjection

CONSTANTS Operators,      \* processes or tasks that call the operator API
          OperatorCalls,  \* the calls they make: decide, cancel, submit
          Responses,      \* what the provider may answer
          MaxSteps,       \* RunLimits.max_steps
          MaxTokens,      \* RunLimits.max_tokens
          MaxToolCalls,   \* RunLimits.max_tool_calls
          SharedLoop,     \* operators run in the driver's event loop
          PolicyYields,   \* the policy suspends while it evaluates a call
          ResubmitIds,    \* callers may submit a message id again
          MaxCrashes      \* bound: process crashes

ASSUME LimitsAssumption ==
    /\ MaxSteps \in Nat \ {0} /\ MaxTokens \in Nat
    /\ MaxToolCalls \in Nat /\ MaxCrashes \in Nat

ASSUME SwitchAssumption ==
    /\ SharedLoop \in BOOLEAN /\ PolicyYields \in BOOLEAN
    /\ ResubmitIds \in BOOLEAN

\* ProviderResponse.__post_init__: tool calls have distinct ids, and there
\* are tool calls exactly when the stop reason is tool_use.
ASSUME ResponsesAssumption ==
    /\ Responses \subseteq
            [stop : StopReason, calls : Seq(CallIds), tokens : Nat]
    /\ \A r \in Responses :
            /\ (r.stop = "tool_use") <=> (Len(r.calls) > 0)
            /\ \A i, j \in 1 .. Len(r.calls) :
                    r.calls[i] = r.calls[j] => i = j

VARIABLES run,        \* projection of the durable stream
          pc,         \* control point of the driver
          next,       \* index of the call the driver is at in the step
          resp,       \* response received and not yet persisted
          op,         \* per operator, the append it is about to make
          attempts,   \* per call, how often its handler was entered
          crashes     \* crashes so far

vars == <<run, pc, next, resp, op, attempts, crashes>>

AwaitPoints ==
    {"down", "model", "executing"}
        \cup (IF PolicyYields THEN {"preflight", "dispatch"} ELSE {})

DecisionPoints ==
    {"loop", "consume_step", "consume_turn", "budget", "request", "tools",
     "preflight", "dispatch", "after_tools", "fail", "handler"}

CommitPoints ==
    {"start_step", "start_turn", "persist", "deny", "deny_result", "ask",
     "start_tool", "tool_completed", "tool_failed", "complete_step"}
        \cup Terminal

Points == AwaitPoints \cup DecisionPoints \cup CommitPoints

NoResponse == [stop |-> "none", calls |-> <<>>, tokens |-> 0]

Idle == [do |-> "idle"]

OpState ==
    {Idle}
        \cup [do : {"decide"}, call : CallIds, decision : {"approved", "rejected"}]
        \cup [do : {"reject"}]
        \cup [do : {"cancel"}]
        \cup [do : {"submit"}, msg : MsgIds, target : InboxTarget]

Init ==
    /\ run = Empty
    /\ pc = "down"
    /\ next = 1
    /\ resp = NoResponse
    /\ op = [o \in Operators |-> Idle]
    /\ attempts = [c \in CallIds |-> 0]
    /\ crashes = 0

-----------------------------------------------------------------------------
(* Scheduling.                                                             *)

\* In a shared loop no operator call is under way when the driver runs.
DriverRuns == SharedLoop => \A o \in Operators : op[o] = Idle

\* In a shared loop an operator call begins only while the driver awaits.
OperatorRuns(o) ==
    SharedLoop => /\ pc \in AwaitPoints
                  /\ \A other \in Operators : op[other] = Idle

At(point) == pc = point /\ DriverRuns

\* The stream can be read and takes further events.
Live == run.ok /\ run.status \notin Terminal

\* A decision: nothing is written.  Before a commit point lies the check of
\* _append, which raises unless the run is live.
Enter(point) == (point \in CommitPoints => Live) /\ pc' = point

Goto(point) ==
    /\ Enter(point)
    /\ UNCHANGED <<run, next, resp, op, attempts, crashes>>

\* _append: write one event, then project again.  A stream the new event
\* made unreadable raises here, and again in the exception handler.
Commit(projection, point) ==
    /\ run' = projection
    /\ pc' = IF projection.ok THEN point ELSE "down"
    /\ UNCHANGED <<op, attempts, crashes>>

\* The call the driver is at.
Call == run.asst.calls[next]

-----------------------------------------------------------------------------
(* Starting, resuming and crashing the driver.                             *)

Start ==
    /\ At("down") /\ run = Empty
    /\ Commit(TurnStarted(RunStarted(run), 1), "loop")
    /\ UNCHANGED <<next, resp>>

Resume ==
    /\ At("down") /\ run # Empty
    /\ Live
    /\ Goto("loop")

\* The process dies; in a shared loop the operator's call dies with it.
Crash ==
    /\ pc # "down" /\ crashes < MaxCrashes
    /\ crashes' = crashes + 1
    /\ pc' = "down" /\ next' = 1 /\ resp' = NoResponse
    /\ op' = IF SharedLoop THEN [o \in Operators |-> Idle] ELSE op
    /\ UNCHANGED <<run, attempts>>

\* project(...) raises on an unreadable stream and _append on a terminal
\* one; the exception handler meets the same stream and raises again.
Raise ==
    /\ pc \notin {"down", "loop", "model", "executing"} /\ DriverRuns
    /\ ~Live
    /\ Goto("down")

-----------------------------------------------------------------------------
(* The driving loop.                                                       *)

FinishCancellation == IF Uncertain(run) THEN "failed_uncertain" ELSE "cancelled"

LoopReturns ==
    /\ At("loop")
    /\ ~Live \/ run.status = "waiting_approval"
    /\ Goto("down")

\* Mutant: a cancelling run is left for somebody else to finish.
LoopCancels_Returns ==
    /\ At("loop") /\ run.ok /\ run.status = "cancelling"
    /\ Goto("down")

LoopCancels ==
    /\ At("loop") /\ run.ok /\ run.status = "cancelling"
    /\ Goto(FinishCancellation)

LoopFindsUncertain ==
    /\ At("loop") /\ run.ok /\ run.status = "running" /\ Uncertain(run)
    /\ Goto("failed_uncertain")

\* Mutant: end_turn closes the run without a look at the inbox.
Settle_IgnoresInbox ==
    /\ At("loop") /\ run.ok /\ run.status = "running" /\ ~Uncertain(run)
    /\ run.step > 0 /\ run.stepDone /\ run.asst.stop # "tool_use"
    /\ Goto(IF run.asst.stop = "max_tokens" THEN "fail" ELSE "completed")

\* _settle_completed_step, for every stop reason but tool_use.
Settle ==
    /\ At("loop") /\ run.ok /\ run.status = "running" /\ ~Uncertain(run)
    /\ run.step > 0 /\ run.stepDone /\ run.asst.stop # "tool_use"
    /\ Goto(IF run.asst.stop = "max_tokens" THEN "fail"
            ELSE IF Pending(run, "next_turn") # {} THEN "start_turn"
            ELSE "completed")

LoopNeedsStep ==
    /\ At("loop") /\ run.ok /\ run.status = "running" /\ ~Uncertain(run)
    /\ run.step = 0 \/ (run.stepDone /\ run.asst.stop = "tool_use")
    /\ Goto(IF run.doneTotal >= MaxSteps THEN "fail" ELSE "consume_step")

\* Mutant: a resumed step asks the model again although it has an answer.
LoopContinuesStep_AsksAgain ==
    /\ At("loop") /\ run.ok /\ run.status = "running" /\ ~Uncertain(run)
    /\ Open(run)
    /\ Goto("model")

\* Mutant: a resumed step skips the budget check.
LoopContinuesStep_NoBudget ==
    /\ At("loop") /\ run.ok /\ run.status = "running" /\ ~Uncertain(run)
    /\ Open(run)
    /\ Goto(IF run.asst.stop = "none" THEN "model" ELSE "request")

LoopContinuesStep ==
    /\ At("loop") /\ run.ok /\ run.status = "running" /\ ~Uncertain(run) /\ Open(run)
    /\ Goto(IF run.asst.stop = "none" THEN "model" ELSE "budget")

\* DurableRunInbox.consume: refused unless the run is running.
Consume(point, target, then) ==
    /\ At(point) /\ run.ok
    /\ IF run.status = "running"
       THEN Commit(InboxConsumed(run, Pending(run, target)), then)
       ELSE pc' = "handler" /\ UNCHANGED <<run, op, attempts, crashes>>
    /\ UNCHANGED <<next, resp>>

ConsumeForStep == Consume("consume_step", "next_step", "start_step")

ConsumeForTurn == Consume("consume_turn", "next_turn", "loop")

StartTurn ==
    /\ At("start_turn")
    /\ Commit(TurnStarted(run, run.turn + 1), "consume_turn")
    /\ UNCHANGED <<next, resp>>

StartStep ==
    /\ At("start_step")
    /\ Commit(StepStarted(run, run.turn, run.doneInTurn + 1), "model")
    /\ UNCHANGED <<next, resp>>

\* The provider's stream ends with a response; a run cancelled meanwhile
\* drops it.
ModelResponds ==
    /\ At("model") /\ Live
    /\ IF run.status = "cancelling"
       THEN Goto("loop")
       ELSE /\ resp' \in Responses
            /\ pc' = "persist"
            /\ UNCHANGED <<run, next, op, attempts, crashes>>

\* The provider raises, or the stream it met cannot be read any more.
ModelFails == At("model") /\ Goto("handler")

PersistResponse ==
    /\ At("persist")
    /\ Commit(AssistantMessage(run, resp), "budget")
    /\ resp' = NoResponse
    /\ UNCHANGED next

\* _budget_failure
OverBudget(p) == p.tokens > MaxTokens \/ p.callTotal > MaxToolCalls

CheckBudget ==
    /\ At("budget") /\ Live
    /\ pc' = IF OverBudget(run) THEN "fail"
             ELSE IF run.asst.stop = "tool_use" THEN "request"
             ELSE "complete_step"
    /\ next' = 1
    /\ UNCHANGED <<run, resp, op, attempts, crashes>>

CompleteStep ==
    /\ At("complete_step")
    /\ Commit(StepCompleted(run, run.turn, run.step), "loop")
    /\ UNCHANGED <<next, resp>>

-----------------------------------------------------------------------------
(* The tool calls of a step.                                               *)

\* _ensure_tool_requests: a call id that any step has requested is skipped.
RequestTool ==
    /\ At("request") /\ next <= Len(run.asst.calls)
    /\ IF run.tools[Call].state = "absent"
       THEN Commit(ToolRequested(run, Call), "request")
       ELSE UNCHANGED <<run, pc, op, attempts, crashes>>
    /\ next' = next + 1
    /\ UNCHANGED resp

RequestsDone ==
    /\ At("request") /\ next > Len(run.asst.calls)
    /\ pc' = "tools" /\ next' = 1
    /\ UNCHANGED <<run, resp, op, attempts, crashes>>

\* Mutant: a call that has its result is taken up again.
PassedOver_Reruns(c) == ~InOpenStep(run, c)

\* A call of an earlier step, or one that has its result, is passed over.
PassedOver(c) == ~InOpenStep(run, c) \/ run.tools[c].state \in Finished

SkipTool ==
    /\ At("tools") /\ next <= Len(run.asst.calls) /\ PassedOver(Call)
    /\ next' = next + 1
    /\ UNCHANGED <<run, pc, resp, op, attempts, crashes>>

\* Mutant: no look at the status before each call.
SelectTool_IgnoresCancel ==
    /\ At("tools") /\ next <= Len(run.asst.calls) /\ ~PassedOver(Call)
    /\ run.ok
    /\ Goto(IF run.tools[Call].state = "requested" THEN "preflight"
            ELSE IF Call \in Mutations THEN "failed_uncertain"
            ELSE "dispatch")

\* A started read is executed again; a started mutation never is.
SelectTool ==
    /\ At("tools") /\ next <= Len(run.asst.calls) /\ ~PassedOver(Call)
    /\ run.ok
    /\ Goto(IF run.status = "cancelling" THEN "after_tools"
            ELSE IF run.tools[Call].state = "requested" THEN "preflight"
            ELSE IF Call \in Mutations THEN "failed_uncertain"
            ELSE "dispatch")

ToolsDone ==
    /\ At("tools") /\ next > Len(run.asst.calls)
    /\ Goto("after_tools")

\* The policy may allow, ask or deny; an unknown tool or invalid arguments
\* are denied too.
Verdict == {"allow", "ask", "deny"}

\* Mutant: only the policy asks for approval, the effect does not.
ApprovalRequired_PolicyOnly(c, verdict) == verdict = "ask"

ApprovalRequired(c, verdict) == c \in Mutations \/ verdict = "ask"

\* _durable_approval: the first decision on the call since it was asked for.
DurableApproval(c) == run.first[c]

Preflight(verdict) ==
    /\ At("preflight")
    /\ Goto(IF verdict = "deny" THEN "deny"
            ELSE IF ~ApprovalRequired(Call, verdict) THEN "start_tool"
            ELSE IF DurableApproval(Call) = "none" THEN "ask"
            ELSE IF DurableApproval(Call) = "rejected" THEN "fail"
            ELSE "start_tool")

\* The policy or a hook raises, or the answer to a denied call cannot be
\* stored (_tool_result_payload raises).
PreflightFails == (At("preflight") \/ At("deny_result")) /\ Goto("handler")

DenyTool ==
    /\ At("deny")
    /\ Commit(ToolStarted(run, Call), "deny_result")
    /\ UNCHANGED <<next, resp>>

DenyResult ==
    /\ At("deny_result")
    /\ Commit(ToolFinished(run, Call, "failed"), "tools")
    /\ next' = next + 1
    /\ UNCHANGED resp

AskApproval ==
    /\ At("ask")
    /\ Commit(ApprovalRequested(run, Call), "after_tools")
    /\ UNCHANGED <<next, resp>>

\* Mutant: the handler is entered without a durable tool.started.
StartTool_NotPersisted == At("start_tool") /\ Goto("dispatch")

StartTool ==
    /\ At("start_tool")
    /\ Commit(ToolStarted(run, Call), "dispatch")
    /\ UNCHANGED <<next, resp>>

\* An execution error of a mutation leaves its outcome unknown.
Broken(c) == IF c \in Mutations THEN "failed_uncertain" ELSE "tool_failed"

\* DurableApprovalProvider: the last decision on the call, from a projection
\* of its own; it raises if there is none or the stream is unreadable.
RequestApproval(c) == IF run.ok THEN run.last[c] ELSE "none"

\* RegistryToolExecutor.execute evaluates the policy once more, and asks
\* DurableApprovalProvider again, before it enters the handler.
Dispatch(verdict) ==
    /\ At("dispatch")
    /\ CASE verdict = "deny"
              -> Enter("tool_failed") /\ UNCHANGED attempts
         [] verdict # "deny" /\ ApprovalRequired(Call, verdict)
                /\ RequestApproval(Call) = "none"
              -> Enter(Broken(Call)) /\ UNCHANGED attempts
         [] verdict # "deny" /\ ApprovalRequired(Call, verdict)
                /\ RequestApproval(Call) = "rejected"
              -> Enter("tool_failed") /\ UNCHANGED attempts
         [] OTHER
              -> Enter("executing") /\ attempts' = [attempts EXCEPT ![Call] = @ + 1]
    /\ UNCHANGED <<run, next, resp, op, crashes>>

\* A hook or the policy raises in front of the handler.
DispatchFails == At("dispatch") /\ Goto(Broken(Call))

\* The handler returns a result, returns a definite error, breaks (an
\* exception, or the codes execution_failed and timeout), or its result
\* cannot be stored (_tool_result_payload raises).
ToolEnds ==
    /\ At("executing")
    /\ \E point \in {"tool_completed", "tool_failed", Broken(Call), "handler"} :
            Goto(point)

RecordResult ==
    /\ pc \in {"tool_completed", "tool_failed"} /\ DriverRuns
    /\ Commit(ToolFinished(run, Call,
                  IF pc = "tool_completed" THEN "completed" ELSE "failed"),
              "tools")
    /\ next' = next + 1
    /\ UNCHANGED resp

\* Mutant: a run that waits for approval goes on to complete its step.
AfterTools_IgnoresWaiting ==
    /\ At("after_tools") /\ Live
    /\ Goto(IF run.status = "cancelling" THEN "loop" ELSE "complete_step")

\* Mutant: a cancelled run goes back to its tools instead of the loop.
AfterTools_Spins ==
    /\ At("after_tools") /\ Live
    /\ Goto(CASE run.status = "waiting_approval" -> "down"
              [] run.status = "cancelling" -> "tools"
              [] OTHER -> "complete_step")

AfterTools ==
    /\ At("after_tools") /\ Live
    /\ Goto(CASE run.status = "waiting_approval" -> "down"
              [] run.status = "cancelling" -> "loop"
              [] OTHER -> "complete_step")

-----------------------------------------------------------------------------
(* Failing and closing the run.                                            *)

\* asyncio.timeout cancels the task where it is suspended.
Timeout ==
    /\ pc \in AwaitPoints \ {"down"} /\ DriverRuns
    /\ Goto("handler")

\* Mutant: an exception fails the run without a look at started mutations.
Handler_ForgetsMutation == At("handler") /\ run.ok /\ Goto("fail")

\* The except clauses of _drive.
Handler ==
    /\ At("handler") /\ run.ok
    /\ Goto(IF Uncertain(run) THEN "failed_uncertain" ELSE "fail")

\* Mutant: a failure overrides a cancellation under way.
Fail_IgnoresCancel == At("fail") /\ run.ok /\ Goto("failed")

\* _fail
Fail ==
    /\ At("fail") /\ run.ok
    /\ Goto(IF run.status = "cancelling" THEN FinishCancellation ELSE "failed")

Close ==
    /\ pc \in Terminal /\ DriverRuns
    /\ Commit(RunClosed(run, pc), "down")
    /\ UNCHANGED <<next, resp>>

-----------------------------------------------------------------------------
(* The operators.                                                          *)

OpBegin(o, call) ==
    /\ op[o] = Idle /\ OperatorRuns(o)
    /\ call.do \in OperatorCalls
    /\ run # Empty /\ run.ok
    /\ op' = [op EXCEPT ![o] = call]
    /\ UNCHANGED <<run, pc, next, resp, attempts, crashes>>

OpCommit(o, projection, rest) ==
    /\ run' = projection
    /\ op' = [op EXCEPT ![o] = rest]
    /\ UNCHANGED <<pc, next, resp, attempts, crashes>>

\* decide_durable_approval: the run waits, and an approval was requested for
\* the call at some time.
Decide(o, c, d) ==
    /\ run.status = "waiting_approval" /\ run.asked[c]
    /\ OpBegin(o, [do |-> "decide", call |-> c, decision |-> d])

DecideCommits(o) ==
    /\ op[o].do = "decide"
    /\ OpCommit(o, ApprovalDecided(run, op[o].call, op[o].decision),
                IF op[o].decision = "rejected" THEN [do |-> "reject"] ELSE Idle)

\* The second append of a rejection.
RejectCommits(o) ==
    /\ op[o].do = "reject"
    /\ OpCommit(o, RunClosed(run, "failed"), Idle)

Cancel(o) ==
    /\ run.status \in {"running", "waiting_approval"}
    /\ OpBegin(o, [do |-> "cancel"])

CancelCommits(o) ==
    /\ op[o].do = "cancel"
    /\ OpCommit(o, RunCancelling(run), Idle)

Submit(o, m, target) ==
    /\ run.status = "running"
    /\ ResubmitIds \/ run.inbox[m] = "absent"
    /\ OpBegin(o, [do |-> "submit", msg |-> m, target |-> target])

SubmitCommits(o) ==
    /\ op[o].do = "submit"
    /\ OpCommit(o, InboxSubmitted(run, op[o].msg, op[o].target), Idle)

\* A separate operator process dies, or gives up, between check and append.
OperatorStops(o) ==
    /\ ~SharedLoop /\ op[o] # Idle /\ crashes < MaxCrashes
    /\ op' = [op EXCEPT ![o] = Idle]
    /\ crashes' = crashes + 1
    /\ UNCHANGED <<run, pc, next, resp, attempts>>

OperatorCommits(o) ==
    \/ DecideCommits(o) \/ RejectCommits(o)
    \/ CancelCommits(o) \/ SubmitCommits(o)

-----------------------------------------------------------------------------

Loop ==
    \/ LoopReturns \/ LoopCancels \/ LoopFindsUncertain
    \/ Settle \/ LoopNeedsStep \/ LoopContinuesStep

Tools ==
    \/ RequestTool \/ RequestsDone
    \/ SkipTool \/ SelectTool \/ ToolsDone
    \/ (\E verdict \in Verdict : Preflight(verdict))
    \/ PreflightFails \/ DenyTool \/ DenyResult \/ AskApproval \/ StartTool
    \/ (\E verdict \in Verdict : Dispatch(verdict)) \/ DispatchFails
    \/ ToolEnds \/ RecordResult \/ AfterTools

Proceed ==
    \/ Loop \/ ConsumeForStep \/ ConsumeForTurn \/ StartTurn \/ StartStep
    \/ ModelResponds \/ ModelFails \/ PersistResponse \/ CheckBudget
    \/ CompleteStep
    \/ Tools
    \/ Timeout \/ Handler \/ Fail \/ Close

Driver == Proceed \/ Raise

Operates(o) ==
    \/ (\E c \in CallIds, d \in {"approved", "rejected"} : Decide(o, c, d))
    \/ Cancel(o)
    \/ (\E m \in MsgIds, target \in InboxTarget : Submit(o, m, target))
    \/ OperatorCommits(o)

Operator(o) == Operates(o) \/ OperatorStops(o)

Next ==
    \/ Start \/ Resume \/ Crash \/ Driver
    \/ (\E o \in Operators : Operator(o))

Spec == Init /\ [][Next]_vars

-----------------------------------------------------------------------------
(* Properties.                                                             *)

\* Every variable has the type its declaration describes.
TypeOK ==
    /\ run \in Projection
    /\ pc \in Points
    /\ next \in Nat \ {0}
    /\ resp \in Responses \cup {NoResponse}
    /\ op \in [Operators -> OpState]
    /\ attempts \in [CallIds -> Nat]
    /\ crashes \in 0 .. MaxCrashes

\* README: "An unapproved mutation fails closed and never reaches its
\* handler", whatever crashes, restarts and stale decisions come between the
\* request and the execution.
ApprovedBeforeEntered ==
    \A c \in Mutations : attempts[c] > 0 => run.first[c] = "approved"

\* No restart enters the handler of a mutation a second time.
MutationAtMostOnce == \A c \in Mutations : attempts[c] <= 1

\* Where the driver is about to handle one call, next points at it.
CallPoints ==
    {"preflight", "deny", "deny_result", "ask", "start_tool", "dispatch",
     "executing", "tool_completed", "tool_failed"}

AtCall == pc \in CallPoints => next <= Len(run.asst.calls)

\* Up to its tool.started event a call is only requested.
NotYetStarted ==
    pc \in {"preflight", "deny", "ask", "start_tool"}
        => run.tools[Call].state = "requested"

\* A mutation on its way into the handler is approved and new.
Cleared ==
    /\ pc = "start_tool" /\ Call \in Mutations => run.first[Call] = "approved"
    /\ pc = "dispatch" =>
         /\ run.tools[Call].state = "started"
         /\ Call \in Mutations => /\ run.first[Call] = "approved"
                                  /\ attempts[Call] = 0

\* A mutation whose handler was entered is approved, durably started, and
\* was entered once.
Entered ==
    \A c \in Mutations : attempts[c] > 0 =>
        /\ attempts[c] = 1
        /\ run.first[c] = "approved"
        /\ run.tools[c].state \notin {"absent", "requested"}

\* The invariant that is inductive for the gate in front of mutations: every
\* driver step towards the handler re-establishes what the next one needs,
\* and nothing an operator or a crash does can take it away.
GateInv == TypeOK /\ AtCall /\ NotYetStarted /\ Cleared /\ Entered

\* README: "A completed tool call is not executed again after replay or
\* process restart": a handler is entered only for a call that is durably
\* started and has no durable result.
OnlyUnfinishedEntered ==
    [][\A c \in CallIds : attempts'[c] # attempts[c]
                             => run.tools[c].state = "started"]_vars

\* README: "A mutation with an unknown outcome becomes FAILED_UNCERTAIN";
\* and no run fails as uncertain when every mutation has its result.
UncertainIsReported ==
    run.ok /\ run.status \in Terminal
        => (Uncertain(run) <=> run.status = "failed_uncertain")

\* README: "Tool results are persisted before the next model step".
ResultsBeforeModel ==
    pc = "model" =>
        \A c \in CallIds : run.tools[c].state \notin {"requested", "started"}

\* The stream stays readable: no append of the runtime or of an operator is
\* one that the projector refuses.
StreamReadable == run.ok

\* A run is not completed over the head of a follow-up that was accepted for
\* the next turn (_settle_completed_step).
FollowUpsConsumed ==
    run.status = "completed" => Pending(run, "next_turn") = {}

\* inbox.py: "Durable inbox whose messages are consumed exactly once at a
\* boundary": a completed run has consumed every message it accepted.
InboxConsumedAtCompletion ==
    run.status = "completed" =>
        \A m \in MsgIds : run.inbox[m] \in {"absent", "consumed"}

\* Once a cancellation is durable no further handler is entered
\* (_execute_current_tools looks at the status before every call).
NoHandlerAfterCancel ==
    [][run.status = "cancelling" => attempts' = attempts]_vars

Lifecycle == INSTANCE RunLifecycle WITH status <- run.status

\* The status of a driven run follows the transition table of AgentRun: a
\* cancelled run never completes, and a terminal status is final.
FollowsLifecycle == Lifecycle!Spec

\* A run that has exceeded its token or tool-call budget enters no handler,
\* before or after a restart (_budget_failure).
OverBudgetNeverExecutes ==
    [][attempts' # attempts => ~OverBudget(run)]_vars

-----------------------------------------------------------------------------
(* Liveness, for operators in the driver's event loop.                      *)

\* There an operator's call dies only with the driver, and nobody ends or
\* spoils the stream under the driver's feet (ResubmitIds apart): it never
\* raises.  A driver that had to would be stuck here, and DriveEnds false.
LoopNext ==
    \/ Start \/ Resume \/ Crash \/ Proceed
    \/ (\E o \in Operators : Operates(o))

\* The event loop runs whatever is ready, a suspended driver is resumed by
\* an answer or by its timeout, and an operator call that has begun ends.
Fairness ==
    /\ WF_vars(Proceed)
    /\ \A o \in Operators : WF_vars(OperatorCommits(o))

FairSpec == Init /\ [][LoopNext]_vars /\ Fairness

\* Every call of run() or resume() returns.
DriveEnds == pc # "down" ~> pc = "down"

\* The humans play their part: an interrupted run is resumed, and the call
\* that waits for a decision gets one.
DecideOpenQuestion(o) ==
    \E c \in CallIds, d \in {"approved", "rejected"} :
        run.first[c] = "none" /\ Decide(o, c, d)

AttendedSpec ==
    /\ FairSpec
    /\ WF_vars(Resume)
    /\ SF_vars(\E o \in Operators : DecideOpenQuestion(o))

\* An attended run reaches a terminal status.
RunEnds == run.status # "created" ~> run.status \in Terminal
=============================================================================
