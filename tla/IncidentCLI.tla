----------------------------- MODULE IncidentCLI -----------------------------
(***************************************************************************)
(* IncidentCLIService (incident_guard/incident_cli.py): the commands       *)
(* investigate, approve, reject, resume and cancel of `ig', which work on  *)
(* one run's stream without the runtime.                                   *)
(*                                                                         *)
(* Every command is a process of its own.  It reads the projection, talks  *)
(* to the lab, and appends; at[p] is where process p is between those.     *)
(* Unlike the runtime's _append, the appends here look at nothing: the     *)
(* event is durable whether or not the projector will accept it.           *)
(*                                                                         *)
(* Simplifications: the five queries of an investigation are one call,     *)
(* Query; the two recovery actions are one call, Recovery; the scenario is *)
(* kept as whether it has a recovery action.                               *)
(***************************************************************************)
EXTENDS RunProjection

CONSTANTS Processes,                      \* processes that run commands
          Commands,                       \* the commands they use
          Query, Recovery, Verification,  \* the calls of an investigation
          MaxCrashes                      \* bound: processes killed

ASSUME CallsAssumption ==
    /\ CallIds = {Query, Recovery, Verification}
    /\ Query # Recovery /\ Recovery # Verification /\ Query # Verification
    /\ Mutations = {Recovery}
    /\ MsgIds = {}

ASSUME CrashesAssumption == MaxCrashes \in Nat

VARIABLES run,        \* projection of the run's stream
          at,         \* per process, its point in its command
          entered,    \* how often the handler of Recovery was entered
          verified,   \* recovery was verified after the last entry
          crashes,    \* processes killed so far
          overlapped  \* history: two commands were under way at once

vars == <<run, at, entered, verified, crashes, overlapped>>

Points ==
    {"idle", "reading", "approving", "rejecting", "failing", "starting",
     "recovering", "recording", "uncertain", "closing_step", "verifying",
     "reporting", "cancelling"}

Init ==
    /\ run = Empty
    /\ at = [p \in Processes |-> "idle"]
    /\ entered = 0
    /\ verified = FALSE
    /\ crashes = 0
    /\ overlapped = FALSE

-----------------------------------------------------------------------------

Enter(p, command, point) ==
    /\ at[p] = "idle" /\ command \in Commands
    /\ at' = [at EXCEPT ![p] = point]
    /\ overlapped' = (overlapped \/ \E q \in Processes : at[q] # "idle")
    /\ UNCHANGED <<run, entered, verified, crashes>>

\* A command reads the stream: it raises if there is none, or on one that
\* cannot be projected.
Begin(p, command, point) ==
    /\ run # Empty /\ run.ok
    /\ Enter(p, command, point)

Move(p, from, to) ==
    /\ at[p] = from
    /\ at' = [at EXCEPT ![p] = to]
    /\ UNCHANGED overlapped

\* SQLiteEventStore.append or append_batch, unconditionally.
Write(p, from, projection, to) ==
    /\ Move(p, from, to)
    /\ run' = projection
    /\ UNCHANGED <<entered, verified, crashes>>

\* A step with an assistant message and one tool call.
ToolStep(p, n, c) ==
    ToolRequested(
        AssistantMessage(StepStarted(p, 1, n),
            [stop |-> "tool_use", calls |-> <<c>>, tokens |-> 0]), c)

\* The same with the call's result, and the step completed.
ExecutedStep(p, n, c) ==
    StepCompleted(
        Noted(ToolFinished(ToolStarted(ToolStep(p, n, c), c), c, "completed")),
        1, n)

\* _completion_events
Completion(p, n) ==
    RunClosed(
        StepCompleted(
            AssistantMessage(StepStarted(p, 1, n),
                [stop |-> "end_turn", calls |-> <<>>, tokens |-> 0]), 1, n),
        "completed")

-----------------------------------------------------------------------------
(* investigate                                                             *)

Investigate(p) == run = Empty /\ Enter(p, "investigate", "reading")

\* One batch: the evidence, and either an escalation or a proposed action
\* that waits for approval.
RecordInvestigation(p) ==
    LET evidence ==
            ExecutedStep(TurnStarted(Noted(RunStarted(run)), 1), 1, Query)
    IN  \/ Write(p, "reading", Completion(evidence, 2), "idle")
        \/ Write(p, "reading",
                  ApprovalRequested(ToolStep(evidence, 2, Recovery), Recovery),
                  "idle")

-----------------------------------------------------------------------------
(* approve and reject                                                      *)

\* IncidentStateProjector: the approval was requested and is not decided.
ApprovalPending(p) == p.asked[Recovery] /\ p.first[Recovery] = "none"

Decide(p) ==
    /\ ApprovalPending(run)
    /\ \/ Begin(p, "approve", "approving")
       \/ Begin(p, "reject", "rejecting")

RecordApproval(p) ==
    Write(p, "approving", ApprovalDecided(run, Recovery, "approved"), "idle")

RecordRejection(p) ==
    Write(p, "rejecting", ApprovalDecided(run, Recovery, "rejected"), "failing")

FailRejected(p) == Write(p, "failing", RunClosed(run, "failed"), "idle")

-----------------------------------------------------------------------------
(* resume                                                                  *)

\* Mutant: a requested approval counts as given.
Resume_Requested(p) ==
    /\ run.status \notin Terminal
    /\ run.asked[Recovery]
    /\ Begin(p, "resume", "starting")

\* Mutant: a terminal run is resumed.
Resume_Terminal(p) ==
    /\ run.first[Recovery] = "approved"
    /\ Begin(p, "resume", "starting")

Resume(p) ==
    /\ run.status \notin Terminal
    /\ run.first[Recovery] = "approved"
    /\ Begin(p, "resume", "starting")

RecordStart(p) == Write(p, "starting", ToolStarted(run, Recovery), "recovering")

\* _perform_recovery; its approval provider approves everything.
EnterHandler(p) ==
    /\ \/ Move(p, "recovering", "recording")
       \/ Move(p, "recovering", "uncertain")
    /\ entered' = entered + 1
    /\ verified' = FALSE
    /\ UNCHANGED <<run, crashes>>

\* The call fails before its handler: the server does not start, the
\* arguments are refused, the policy denies.
HandlerNotReached(p) ==
    /\ Move(p, "recovering", "uncertain")
    /\ UNCHANGED <<run, entered, verified, crashes>>

RecordResult(p) ==
    Write(p, "recording", ToolFinished(run, Recovery, "completed"),
           "closing_step")

RecordUncertain(p) ==
    Write(p, "uncertain", RunClosed(run, "failed_uncertain"), "idle")

RecordStep(p) == Write(p, "closing_step", StepCompleted(run, 1, 2), "verifying")

\* Mutant: the report is written whatever the verification says.
Verify_Optimistic(p) ==
    /\ Move(p, "verifying", "reporting")
    /\ verified' \in BOOLEAN
    /\ UNCHANGED <<run, entered, crashes>>

Verify(p) ==
    /\ Move(p, "verifying", "reporting")
    /\ verified' = TRUE
    /\ UNCHANGED <<run, entered, crashes>>

Report(p) ==
    Write(p, "reporting",
           Completion(ExecutedStep(Noted(run), 3, Verification), 4), "idle")

-----------------------------------------------------------------------------
(* cancel                                                                  *)

Cancel(p) == run.status \notin Terminal /\ Begin(p, "cancel", "cancelling")

RecordCancel(p) ==
    Write(p, "cancelling", RunClosed(RunCancelling(run), "cancelled"), "idle")

-----------------------------------------------------------------------------

\* The lab does not answer, or the service has not recovered: the command
\* ends with an exception and appends nothing.
LabFails(p) ==
    /\ Move(p, "reading", "idle") \/ Move(p, "verifying", "idle")
    /\ UNCHANGED <<run, entered, verified, crashes>>

Killed(p) ==
    /\ at[p] # "idle" /\ crashes < MaxCrashes
    /\ at' = [at EXCEPT ![p] = "idle"]
    /\ crashes' = crashes + 1
    /\ UNCHANGED <<run, entered, verified, overlapped>>

\* The steps that append to the stream, and those that do not.
Recording(p) ==
    \/ RecordInvestigation(p)
    \/ RecordApproval(p) \/ RecordRejection(p) \/ FailRejected(p)
    \/ RecordStart(p) \/ RecordResult(p) \/ RecordUncertain(p) \/ RecordStep(p)
    \/ Report(p) \/ RecordCancel(p)

Working(p) ==
    \/ Investigate(p) \/ Decide(p) \/ Resume(p) \/ Cancel(p)
    \/ EnterHandler(p) \/ HandlerNotReached(p) \/ Verify(p)
    \/ LabFails(p) \/ Killed(p)

Next == \E p \in Processes : Recording(p) \/ Working(p)

Spec == Init /\ [][Next]_vars

-----------------------------------------------------------------------------
(* Properties.                                                             *)

\* README: "An unapproved mutation fails closed and never reaches its
\* handler": resume enters the handler only after a durable approval, and no
\* concurrent command can turn the decision afterwards.
RecoveryApproved == entered > 0 => run.first[Recovery] = "approved"

\* README: completion requires "approved mutations, recovery verification":
\* as long as commands are given one at a time, and whatever is killed, a run
\* reported as completed holds the results of its recovery action and of the
\* verification, and it was verified after the last execution of the action.
CompletedIsVerified ==
    run.ok /\ run.status = "completed" /\ run.asked[Recovery] /\ ~overlapped =>
        /\ verified
        /\ \A c \in {Recovery, Verification} : run.tools[c].state = "completed"

\* test_reject_and_cancel_are_durable_terminal_decisions: once a run is
\* closed, its mutation is not executed any more, unless a command that was
\* under way when it was closed goes on.
ClosedIsFinal ==
    [][run.status \in Terminal /\ ~overlapped => entered' = entered]_vars

\* README: uncertain mutations "are never retried automatically".
RecoveredAtMostOnce == entered <= 1
=============================================================================
