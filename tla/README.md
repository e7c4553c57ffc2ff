# Formal model of Incident Guard

TLA+ specifications of Incident Guard: its durable agent runtime with the event
store, the tool pipeline and the output of tools below it, the context it sends
to the model, the three ways to operate it (`ig`, `ig agent`, the web console),
the lab its tools act on, and the evaluation harness with the in-memory runtime.
TLC configurations check them on small instances; TLAPS proofs establish every
safety property that the passing runs check for every instance.

Run a check with `tlc -config <name>.cfg <module>` and a proof with
`tlapm <module>.tla`, for the eight modules whose names end in `Proofs`, in this
directory. `PROJECT.json` lists the runs with their modules, the source lines
each definition translates, the mutants that show each property can fail, the
findings, the hazards and the theorems.

## 1. The system

Incident Guard lets a language model investigate an incident and repair a
service, under these rules: every fact about a run is an event in an append-only
SQLite stream; the state of a run is whatever a replay of its stream yields;
a mutation is executed only after a durable human approval and never twice.

| Component | State | Operations | Interacts with |
|---|---|---|---|
| Event store `events/event_store.py` | table `run_events`; one connection and one RLock per instance | `append_batch` (one transaction), `replay`, `close` | everything, across threads and processes |
| Projection `events/projection.py` | none: a fold over the stream | `project` | every reader of a run |
| Runtime `agents/event_runtime.py` | none durable but the stream; control point in memory | `run`, `resume`, `cancel`, `decide_approval` | provider, tool pipeline, store, inbox |
| Inbox `events/inbox.py` | events of the stream | `submit`, `consume` | callers; runtime at step and turn boundaries |
| Run models `agents/run_models.py` | a status and its transition table | `transition` | both runtimes |
| Tool pipeline `agents/tool_pipeline.py` | lane locks, semaphore, records of approvals | `preflight`, `execute`, `execute_batch` | policy, approval provider, handlers |
| ReAct runtime `agents/react_runtime.py` | in memory | `run` | pipeline, goal gate |
| Goal gate `agents/goal_gate.py` | none | `check` | ReAct runtime |
| Command line `incident_cli.py` | the stream; lab-state file | `investigate`, `decide`, `resume`, `cancel`, reads | store, MCP server, Docker |
| Durable agent `durable_incident_agent.py` | metadata file per run | `investigate`, `resume`, `decide`, `status` | runtime, MCP server, both projectors |
| Incident state `context/incident_state.py` | none: a second fold over the stream | `project` | command line, agent, console |
| Context engine `context/context_engine.py` | none | `build`, `apply` | runtime, before a model call |
| Artifact store `context/artifact_store.py` | content-addressed files | `store`, `load` | runtime, between a tool's result and its event |
| Live stream `events/live_stream.py` | one queue per subscription | `subscribe`, `emit`, `close_run` | runtime, watchers in its process |
| Web console `web/console.py` | SSE cursor; the page | event stream, status, timeline, decide | command line's service |
| MCP adapter `mcp/*` | a session per client; a server process | open, `call_tool` with a timeout, close | drivers; Docker tools |
| Incident tools `tools/incident_tools.py` | in-memory incident; policy | eight tools, `evaluate` | pipeline, harness |
| Incident lab `lab/docker_lab.py`, `src/lab/services` | containers; lab-state file | compose operations, fault injection, health | tools, operator |
| Evaluation harness `evals/*` | counters of one run | goal state, trajectory, verdict | ReAct runtime, goal gate |
| Gateway, sessions, channels, providers, baselines, tracing | session files, HTTP, logs | | |

### What is hard here

* **Interleaving.** Approvals and cancellations come from other tasks of the
  event loop or from other processes. `_append` checks, writes and checks again
  in different transactions; a status is read before an `await` and used after.
* **Crashes.** The stream is all that survives. A process may die between
  `tool.started` and the result, between the two appends of a rejection, between
  `turn.started` and the consumption of the inbox.
* **Timeouts.** The run's timeout cancels the task wherever it is suspended,
  inside a mutation's handler too.
* **Ordering.** Inbox messages arrive while the model composes its last answer;
  decisions arrive for calls that are no longer the ones being asked about.
* **Two views of one thing.** The runtime, `IncidentState`, the goal gate, the
  evaluator and the page of the console each have an idea of their own of what is
  pending, verified or over, read at different moments. A tool call that timed
  out for its client goes on in the server.
* **Validation after the fact.** The store accepts any event; the projector
  refuses bad ones in every later replay. A lost race therefore does not fail one
  call, it makes the run unreadable for ever.

`PROJECT.json` lists these as hazards, each at its line.

## 2. Modules

| Module | Models |
|---|---|
| `RunProjection` | `RunEventProjector.project`: the projected state as a record, each event type as an operator on it |
| `RunLifecycle` | the transition table of `AgentRun`, as an abstract specification |
| `EventRuntime` | the driving loop, the operators, the inbox, crashes and timeouts |
| `MCEventRuntime` | response sets for TLC |
| `EventRuntimeProofs` | theorems about `EventRuntime`, that it implements `RunLifecycle`, and about `DurableAgent` around it |
| `IncidentState` | the approvals as `IncidentStateProjector` folds them |
| `DurableAgent` | `ig agent`: its commands as processes around `EventRuntime`, the metadata file, the policy, the summary |
| `MCDurableAgent` | its instance for TLC |
| `EventLog` | the promise of the `EventStore` protocol: an append-only log of whole batches |
| `EventStore` | `SQLiteEventStore`, statement by statement |
| `MCEventStore`, `EventStoreProofs` | two threads on one store, one on another; that it implements `EventLog` |
| `IncidentCLI` | the commands of `ig` that change a run |
| `WebConsole`, `WebConsoleProofs` | the console beside those commands; theorems about both |
| `ToolPipeline` | `RegistryToolExecutor`: several batches at once on one executor |
| `MCToolPipeline`, `ToolPipelineProofs` | what each of two batches may be given; theorems |
| `ToolOutput` | `FileToolResultStore` and `LiveEventBroker` around the durable appends of drivers |
| `MCToolOutput`, `ToolOutputProofs` | two plans of calls; theorems |
| `ContextBudget` | pins and `ContextBudgetPolicy.apply`: what of a run the model is sent |
| `MCContextBudget`, `ContextBudgetProofs` | the contexts of a run; theorems |
| `IncidentLab`, `IncidentLabProofs` | the Docker lab, the Docker tools and MCP sessions with it, the operator's injections; a theorem |
| `ReactRuntime` | `StructuredAgentRuntime.run` with `IncidentGoalGate` |
| `Evaluation` | the evaluation harness around `ReactRuntime` |
| `MCEvaluation`, `EvaluationProofs` | answers and limits for TLC; theorems about both |

### RunProjection

The code folds the whole stream at every read. The model keeps the value of the
fold: `run` is a record, `ToolStarted(run, c)` is the projection of the stream
with one more `tool.started`, and an event that the projector refuses sets `ok`
to FALSE for good, because the store is append-only. What is kept is what the
code decides on: status, turn, current step, the current answer and two sums for
the budgets, the state and the step of every tool call, the inbox, and per call
the first and the last decision (`_durable_approval` reads the first,
`DurableApprovalProvider` the last). Texts, arguments and the transcript are
left out. A call id stands for the tool it names.

### EventRuntime

`pc` is the driver's control point. Decision points read the projection and
choose; commit points append one event; await points are where the event loop
may run something else. Each `_append` becomes: a guard on entering the commit
point (the first validation), the event as a step of its own, and `"down"` if the
result cannot be projected. `attempts` counts how often a handler was entered;
it is history, the code does not have it.

| Code | Actions |
|---|---|
| `run`, `resume`, process death | `Start`, `Resume`, `Crash` |
| `_drive`, top of the loop | `LoopReturns`, `LoopCancels`, `LoopFindsUncertain`, `LoopNeedsStep`, `LoopContinuesStep` |
| `_settle_completed_step` | `Settle`, `StartTurn`, `ConsumeForTurn` |
| step start, model call, persisting | `ConsumeForStep`, `StartStep`, `ModelResponds`, `ModelFails`, `PersistResponse`, `CheckBudget`, `CompleteStep` |
| `_ensure_tool_requests` | `RequestTool`, `RequestsDone` |
| `_execute_current_tools` | `SkipTool`, `SelectTool`, `ToolsDone`, `Preflight`, `DenyTool`, `DenyResult`, `AskApproval`, `StartTool`, `ToolEnds`, `RecordResult`, `AfterTools` |
| `RegistryToolExecutor.execute` | `Dispatch`, `DispatchFails` |
| exception and timeout clauses, `_fail`, `_fail_uncertain`, `_finish_cancellation` | `Timeout`, `Handler`, `Fail`, `Close`, `Raise` |
| `decide_durable_approval`, `cancel`, `submit` | `Decide`, `DecideCommits`, `RejectCommits`, `Cancel`, `CancelCommits`, `Submit`, `SubmitCommits` |

`SharedLoop` chooses between operators in the driver's event loop, whose
synchronous code is atomic and runs only while the driver awaits, and operators
in processes of their own. `PolicyYields` makes the policy an await point, which
`PolicyProvider` allows. `ResubmitIds` lets a caller submit an id again. The
model, the policy and the handlers are external and answer anything the code
accepts from them.

### EventStore and EventLog

A store is an instance with one connection, shared by its threads behind an
RLock; stores share the database behind SQLite's write lock. `append_batch` is
one action per statement (`TakeLock`, `BeginImmediate`, `Allocate`, `Insert`,
`Commit`, `Rollback`, `Release`), any of which another store may interleave with
and a crash may interrupt. SQLite itself is external: what a connection sees and
what survives a crash are taken from its documented behaviour. `ImplementsLog`
maps the committed rows to `EventLog`'s sequences. The atomic append that
`EventRuntime` and `IncidentCLI` use is the one step of `EventLog`.

### DurableAgent and IncidentState

`DurableAgent` extends `EventRuntime`: its operators are the `ig agent approve`
and `reject` commands in processes of their own, its driver is whoever resumed
last. `investigate` is five steps (`InvestigateBegins`, `MetadataEmptied`,
`MetadataWritten`, `RunChecks` and then `InvestigateStarts` or
`InvestigateCollides`), because two of them may be under way for one run id: the
check for existing events, the truncation of the metadata file and its content,
the runtime's own check, and the append. A collision makes the stream unreadable,
since a second `run.started` is refused. `AgentResumes` takes the policy from the
metadata, `PolicyEvaluates` judges by it, `AgentAsks` and `AgentDecideCommits` add
to a second projection, `incident`, what `IncidentStateProjector` makes of the
events it knows. `begunAs` and `raced` are history.

`PendingShown` and `SummaryReadable` compare the two projections: what a summary
lists as pending is what the runtime waits for, and (this one fails) a run the
runtime can read can be summarised.

### IncidentCLI and WebConsole

Every command of `ig` is a process that reads the projection, talks to the lab
and appends; nothing is validated before or after an append. Batches that the
code appends in one transaction are one step. `entered`, `verified` and
`overlapped` are history. The five queries of an investigation are one call, as
are the two recovery actions.

`WebConsole` puts viewers beside the commands. The stream of events of a run
polls: `ReplayTimeline`, then `ReplayStatus`, each a replay of its own, with
commands in between; when the status is final, `done` makes the page load
`LoadStatus` and then `LoadTimeline`. The stream can therefore say `done` before
it has sent the closing event (the status was newer than the timeline);
`FinalPage` says why that does no harm. The console's approval buttons are the
`approve` and `reject` of `IncidentCLI`.

### ToolPipeline

`at[b][i]` is where call `i` of batch `b` is: waiting for the loop or the
semaphore of its batch (`queued`), for its lane (`lane`), suspended in a hook or
the policy (`before`), in the approval provider, in the handler, in an
`after_tool` hook, on its way out after a cancellation (`unwinding`), or ended
with an observation. `Begin` is `execute` up to its first suspension,
`Evaluate`, `Answer`, `HandlerReturns` and `Observe` are the segments of
`_execute_validated` between suspensions, and `Fails` is its two `except`
clauses. A `CancelledError` passes both; `Cancel` and `Unwind` separate its
arrival from the release of the lane, because a handler may await in a
`finally`. `entered` and `foreign` are history.

The codes of `ToolErrorCode` are not the executor's alone. A hook, the policy,
the approval provider or the handler may raise a `ToolExecutionFailure` with any
of them, and a handler may return an error observation of its own, after it was
entered too: `EndAs` ends a call so and notes it in `foreign`, `End` ends it with
the executor's own observation. `RefusedNotExecuted` is about the second kind: a
`policy_denied` that a handler chose says nothing of what was executed. That a
failing `after_tool` hook turns the result of a mutation into `execution_failed`
is in `Fails`; the comment at `ToolHook` has hooks not change what an execution
means, and the durable runtime, which takes such a code for uncertain, is right
to doubt it.

`NothingAfterCancel` is an action property over all steps after the
cancellation: whatever a cancelled batch waited for, and after its last call has
unwound, no call of it enters a handler.

`asyncio.Lock` is first come, first served; the model lets any waiter have it,
which allows more behaviours than the code has. A lane lives in one process: a
mutation whose MCP call timed out may still run in the server after its lane is
free, and nothing here denies it.

In `EventRuntime` the pipeline is one call at a time, since the durable runtime
never uses `execute_batch`; `Dispatch` and `ToolEnds` there are `execute` for a
batch of one with a durable approval provider.

### ToolOutput

Several drivers, each in its process with its broker, store results in one
directory. `HandlerReturns` gives any content, as a result or as an error;
`TargetExists`, `WriteTemporary` and `ReplaceTarget` are the steps of `store`,
between which another driver may store the same content or the process may die;
`RecordResult` is the durable event with the reference. `Emit` and `EmitAndClose`
put live events and the closing marker into the queues of the subscriptions of
that process; `Receive` takes one. The stream of a run is a sequence of events
here, not a projection: `EventRuntime` has the control flow, this module the
order of file, event and notification. A file is absent, torn or whole.

The durable and the live stream are not the same, and the model keeps where they
differ. Each durable event says who wrote it (`by`):

| Durable | Live |
|---|---|
| `tool.completed`, `tool.failed` of a call the runtime executed (`HandlerReturns`, `RecordResult`) | one and the same `tool.progress` with the phase `completed` |
| `tool.failed` of a call that preflight denied (`DeniesTool`) | nothing |
| the operator's decision, and the `run.failed` of a rejection (`Approves`, `Rejects`, `RejectionFailsRun`) | nothing; whoever drives the run may find it over (`FindsOver`) and close the subscriptions |
| an event that lost a race and stands behind the end of the run | nothing |

An approval is decided in a process of its own, while the driver is anywhere
between asking and looking (`Pauses`, `OvertakenByAnswer`). A rejection is two
appends, and the process may die between them. A driver whose `_drive` raises
(`Raises`: the task is cancelled, an append fails and that of `run.failed` too,
the stream has ended or cannot be read) leaves without `close_run`; it may be
resumed.

### ContextBudget

A message is its kind, its cost, the ids it calls or answers and what a result
says. The pins are computed as the projector does; `Groups` is the grouping of
calls with their results; the loop over the groups, newest first, is one action
per turn of it. `NewestFirst` compares what the loop returns with a definition
that knows no loop: the best of all admissible selections.

### IncidentLab

`lab` is what Docker has: the version of `payment-service`, whether it is up,
hangs, and whether its dependency is there. A compose operation is two steps
(`Stops`, `Starts`) of which either may fail (`ComposeFails`); a health query of
`payment-service` is two (`Asks`, `Upstream`), one of `dependency-service` is one
(`AsksDependency`), both under `wait_healthy`'s `Deadline`. A server runs one
handler at a time and goes on with it when its client has timed out (`TimesOut`)
or is killed (`Killed`), until somebody terminates it (`Terminated`); the next
request waits in `requests`. A killed `ig resume` may be run again and recovers
again, the agent's run is uncertain then. The operator injects faults, in two
steps as well.

`verify_recovery` takes any service id: `ig resume` always asks about
`payment-service`, the model behind the agent may ask about another. `verified`
therefore holds the services that were seen verified after the recovery, and
`VerifiedHolds` promises for each what a yes about it says: after a permitted
restart of a bad deployment a yes about `dependency-service` is a true answer and
says nothing of the service that was restarted.

`undisturbed` is history: since the client's recovery began no fault was injected
and no recovery, of whichever client, was cut off while it had the service down.
Timeouts and kills do not disturb by themselves: the recoveries they leave behind
in the servers may stop and start the service at any time, under a verification
or after it, and the property holds whenever none of them is halfway.

### ReactRuntime and Evaluation

`run` has three points where it is suspended (the model, the tools, the gate);
everything between two of them is one action. `Timeout`, `ModelRaises`,
`ToolsRaise` and `GateRaises` are what may happen there instead of an answer.
`given` is history: what the provider answered, against which the record of the
run is compared.

`Evaluation` extends it with the in-memory incident of `FakeIncidentToolProvider`
(`Applied`: what a call changes), the policy and the evidence that the harness
finds in observations. `Goal` is `_goal_state`: the gate judges by the provider's
counters and by the evidence its closure has gathered over all turns; `Passed` is
the verdict of `evaluate_trajectory` over the record of the run.
`CompletedOnRecord` relates the first to the record: what the gate judged by is
in the run it lets complete, over all turns it rejected before.
`PassedIsVerified` relates the second to what happened to the incident. That a
completed run was verified is no property of this code (section 3).

## 3. Runs

### Expected to pass

| Run | Module | Instance | What it shows |
|---|---|---|---|
| `loop` | `MCEventRuntime` | one read, one mutation, one message, one operator in the loop, 2 steps, 2 tokens, 2 calls, one crash, `AttendedSpec` | no handler without approval, after a cancellation or over budget; results before the next model step, follow-ups not lost, uncertain outcomes reported, the stream stays readable, status refines `RunLifecycle`; every drive returns; an attended run ends |
| `agent` | `MCDurableAgent` | two investigations under one id, two operators, three calls of which two are mutations of different scenarios, one crash | a mutation at most once and never a finished call again; a run stays addressable under its scenario; only mutations of its scenario; a summary lists the one approval the run waits for |
| `store` | `MCEventStore` | three threads, two stores, one run, colliding ids, three calls, one crash, `FairSpec` | no dirty reads, refinement of `EventLog`; no failure leaves a lock behind |
| `console` | `WebConsole` | two `ig` processes, two kills, one viewer | no unapproved recovery; completed means verified after the last action; closed is final; the page a viewer is left with is the final one; no stream polls for ever |
| `pipeline` | `MCToolPipeline` | two batches on one executor, three mutations in two lanes, one read, one unknown name, one code that external code may choose, `FairSpec` | one mutation per lane, also while one unwinds; a batch with a mutation runs in order; a mutation only after an approval of this very call; what the executor refuses was not executed; a cancelled batch enters no handler any more; every batch ends |
| `output` | `MCToolOutput` | two drivers with one call each, a mutation and a read, their operators, a small and a large content, one watcher of the first run, one crash or resumption after a raise, `FairSpec` | every durable reference loads; watchers hear of what the driver made durable, in its order, and of nothing else; a subscription to a running run ends, unless the run waits, its driver raises or the process dies |
| `context` | `MCContextBudget` | contexts of up to three segments, four budgets | within budget; pins sent or an error; calls and results stay together; the newest admissible groups are chosen |
| `lab` | `IncidentLab` | two clients, two servers, three calls, two injections | what was seen verified after a recovery is in order, also while abandoned recoveries go on; every call is answered |
| `evaluation` | `MCEvaluation` | the three scenarios, four iterations, one token, five calls, with and without gate | every answer recorded once; what the gate completes a run by is in its record; what passes was recovered and then verified |

### Expected to be violated

Each of these shows the code doing something that the repository's own words
deny; `findings` in `PROJECT.json` quotes them.

| Run | What happens |
|---|---|
| `steering_lost` | a steering message accepted during the last model call is never consumed |
| `decision_twice` | a second decision on a decided call, while the run waits for another call, is accepted by one projector and refused by the other: every `ig agent` summary of the run raises from then on |
| `cli_retry` | `ig resume` killed in the action, then `ig resume`: executed twice |

More disagreements were met, which have the cause of one of these, or no words
in the repository that deny them, and no run of their own:

* *Operators in processes of their own.* Set `SharedLoop = FALSE` in `loop.cfg`
  and `StreamReadable` fails: a decision that lands between
  `approval.requested` and the driver's next read of the status leads to
  `step.completed` over an unfinished tool, and the stream is unreadable from
  then on. `FollowsLifecycle` fails too: a cancellation may slip in between the
  look at the status and `run.completed`.
* *A policy that suspends.* A cancellation while the policy evaluates a call is
  followed by `approval.requested` in a cancelling run, which the projector
  refuses: set `PolicyYields = TRUE` and `StreamReadable` fails.
* *A retried `submit`* with the message id of the first makes the stream
  unreadable: set `ResubmitIds = TRUE`.
* *`ig cancel`, then `ig approve`.* `decide` does not look at the status; its
  event after the end makes the stream unreadable. That nothing is executed
  afterwards is `ClosedIsFinal`.
* *`ig cancel` closes a run whose recovery was interrupted* as CANCELLED, where
  the runtime says FAILED_UNCERTAIN.
* When *verification fails* after the recovery is recorded, the next `ig resume`
  executes it again.
* *A run may complete unverified.* The README says that an incident cannot be
  closed until recovery has been verified (line 9), that completion requires
  recovery verification (line 107) and that the gate rejects claims without
  recovery evidence (line 236). `_goal_state` only counts the calls of
  `verify_recovery` (`evals/real_matrix.py:321`): one made before the recovery,
  or one that answered `false`, is enough, and the gate lets the run complete. A
  trace of `Evaluation`: the evidence and a verification in one batch, the
  mutation in the next, the answer. `CompletedOnRecord` therefore promises no
  confirmation. The evaluator's verdict is not deceived: it wants a confirmed
  answer, and `PassedIsVerified` holds. In the durable agent there is no gate at
  all; that the model calls `verify_recovery` after a mutation is asked of it in
  the prompt only, and which service it asks about is its own choice.
* *Watchers that nobody ends.* `_drive_and_close` closes the subscriptions of a
  run when `_drive` returns a terminal projection. When an exception leaves it
  they stay open, and `resume` of a run that is over returns before the loop and
  closes nothing: a watcher then waits for ever (`Raises`; also a run that is
  rejected while its driver has paused). `WatchEnds` leaves these cases out.
* *Two investigations under one id at the same time* overwrite each other's
  metadata; `RunAddressable` and `ScenarioMutationOnly` exclude them by `raced`,
  `MutationAtMostOnce` does not have to.

### Bounds

* `loop`: two calls, one of them a mutation, in answers of at most two: enough
  for a batch in either order, a call id reused by a later step, and an approval
  of one call while another waits. Two steps and two turns: a restart in a later
  step, a budget met exactly and exceeded. The token and call budgets are two,
  so that two answers of two calls exceed them. One message and both targets.
* `agent`: two mutations in different scenarios, so that a policy can be the
  wrong one; two operators and two investigations, for a race in each; one crash.
  Operators and investigators are symmetric.
* `store`: three calls are a batch of two, a rival and a colliding id.
* `console`: two processes, because a race needs two; two kills, for a restart
  that is killed as well. The stream's length is bounded by what two processes
  can append before the run ends.
* `pipeline`: two mutations of one lane within a batch and across batches, two
  lanes at once, a read before and after a mutation, two concurrent reads at the
  limit of the semaphore. `Chosen` is one code of a refusal, the case that a
  reader of observations could mistake; the theorems are for any set of codes.
* `output`: one content below the threshold and one above, which both drivers may
  return. The watched run is one mutation, which is asked about, answered,
  executed and recorded; the other is one read, a rival at the store and nothing
  more. One crash, or one resumption of a driver that raised, anywhere. Longer
  plans exceed what TLC can do here; the theorems are for every plan.
* `context`: a segment is a message or a call with its results (complete,
  incomplete, orphaned, repeated). Three are enough for something pinned,
  something that fits and something older that would fit too. The budgets range
  from less than the pins need to more than everything.
* `lab`: two clients with a server each or one after the other; three calls are a
  recovery that times out or whose client is killed, another one and a
  verification; two injections, the second of which may disturb a recovery.
* `evaluation`: four iterations are the queries, the mutation, the verification
  and the answer, or one rejection by the gate; one token suffices, because only
  its exhaustion is a case.

Deadlock checking is off where the system may stop: a terminal run takes no more
steps, and a waiting run waits for a human. The run of `store` checks it.

### Fairness

* Runtime: `FairSpec` is weak fairness of the driver (asyncio runs what is ready,
  and what is suspended is resumed by an answer or by the run's timeout) and of
  an operator call under way. It is stated over `LoopNext`, the steps that are
  possible with the operators in the driver's event loop: an operator's call
  does not die alone there (`OperatorStops`), and no driver meets a stream
  that was ended or spoilt behind its back (`Raise`), or it would be stuck and
  `DriveEnds` false. Both steps are part of `Next` and happen in `agent`, where
  every command is a process of its own. Nothing in the code makes a human act, so `RunEnds`
  is stated under `AttendedSpec`: an interrupted run is resumed, and the call that
  waits is decided. The second is strong fairness, since a cancellation can
  disable it in between; decisions on old calls count for nothing there.
* Store: weak fairness of a thread that is in a call; its locks are not fair, and
  only the bound on calls excludes starvation by an endless stream of rivals.
* Pipeline: weak fairness of every call: what it is suspended in answers, raises
  or is cancelled by the timeout of the run, and there are finitely many calls to
  wait for.
* Console: weak fairness of the server's two replays of a stream that is open.
  Commands and viewers need not act.
* Lab: weak fairness, per client, of the server it has open: of its steps, since
  Docker's commands end or run into the timeout of `_compose`, and of `Deadline`,
  which is enabled for as long as a query is under way. Servers whose clients are
  gone, the clients themselves, their timeouts and the operator need not move.
* Output: weak fairness of the driver of a watched run while it is under way
  (handlers and runs have timeouts) and of a watcher whose queue is not empty, to
  whom the event loop gives its turn. Operators need not act, nobody need resume.

## 4. Proofs

Every invariant, action property and refinement that a passing run checks is
also a theorem, for every value of the constants: any number of calls, messages,
operators, processes, stores, batches, contents, watchers and crashes, and any
limits. Assumptions are the named `ASSUME`s of the modules (what is a mutation,
which thread has which store, what `ProviderResponse` validates); TLC evaluates
them in every run. Where a theorem has a hypothesis, its statement shows it.

| Module | Theorem | Statement |
|---|---|---|
| `EventRuntimeProofs` | `TypeCorrect`, `GateInvariant` | `Spec => []TypeOK`, `Spec => []GateInv` |
| | `ApprovalGate` | `Spec => []ApprovedBeforeEntered` |
| | `AtMostOnce` | `Spec => []MutationAtMostOnce` |
| | `NoReexecution` | `Spec => OnlyUnfinishedEntered` |
| | `BudgetHolds` | `Spec => OverBudgetNeverExecutes` |
| | `ImplementsLifecycle` | `SharedLoop => (Spec => FollowsLifecycle)` |
| | `StreamInvariant` | `InOneLoop => (Spec => []StreamInv)` |
| | `StaysReadable` | `InOneLoop => (Spec => []StreamReadable)` |
| | `UncertaintyReported` | `InOneLoop => (Spec => []UncertainIsReported)` |
| | `ResultsFirst` | `InOneLoop => (Spec => []ResultsBeforeModel)` |
| | `FollowUpsServed` | `InOneLoop => (Spec => []FollowUpsConsumed)` |
| | `CancelStopsHandlers` | `InOneLoop => (Spec => NoHandlerAfterCancel)` |
| | `LoopSuffices` | `InOneLoop => (Spec => [][LoopNext]_vars)` |
| | `AgentMutationsOnce` | `AgentSpec => []MutationAtMostOnce` |
| | `AgentNoReexecution` | `AgentSpec => OnlyUnfinishedEntered` |
| | `RunsAddressable` | `AgentSpec => []RunAddressable` |
| | `MutationsInScenario` | `AgentSpec => []ScenarioMutationOnly` |
| | `PendingIsShown` | `AgentSpec => []PendingShown` |
| `EventStoreProofs` | `ReplaysAreCommitted` | `Spec => []ReplaysCommitted` |
| | `StoreImplementsLog` | `Spec => ImplementsLog` |
| `WebConsoleProofs` | `RecoveriesApproved` | `ConsoleSpec => []RecoveryApproved` |
| | `CompletionsVerified` | `ConsoleSpec => []CompletedIsVerified` |
| | `FinalPages` | `ConsoleSpec => []FinalPage` |
| | `ClosedRunsAreFinal` | `ConsoleSpec => ClosedIsFinal` |
| `ToolPipelineProofs` | `PipelineInvariant`, `OrderInvariant` | `Spec => []PipelineInv`, `Spec => []OrderInv` |
| | `LanesExclude` | `Spec => []LaneExclusion` |
| | `MutationsApproved` | `Spec => []MutationApproved` |
| | `RefusalsSafe` | `Spec => []RefusedNotExecuted` |
| | `MutatingBatchOrdered` | `Spec => []MutatingBatchInOrder` |
| | `CancelledEntersNothing` | `Spec => NothingAfterCancel` |
| `ToolOutputProofs` | `OutputTypeCorrect` | `Spec => []TypeOK` |
| | `DurableReferencesLoad` | `Spec => []ReferencesLoad` |
| | `WatchersAreTold` | `Spec => []WatchersAgree` |
| `ContextBudgetProofs` | `PinsAreSent` | `Spec => []PinsSent` |
| | `PairsAreWhole` | `Spec => []PairsWhole` |
| | `NewestAreSent` | `Spec => []NewestFirst` |
| `IncidentLabProofs` | `LabInvariant`, `VerdictHolds` | `Spec => []LabInv`, `Spec => []VerifiedHolds` |
| `EvaluationProofs` | `EvaluationInvariant` | `EvaluationSpec => []EvaluationInv` |
| | `EveryAnswerRecorded` | `EvaluationSpec => []RecordedOnce` |
| | `CompletionOnRecord` | `EvaluationSpec => []CompletedOnRecord` |
| | `PassingIsVerified` | `EvaluationSpec => []PassedIsVerified` |

**The gate in front of mutations.** `ApprovedBeforeEntered` and
`MutationAtMostOnce` are not inductive: nothing in them says what the driver
knows on its way to the handler. `GateInv` adds it step by step. Up to
`tool.started` the call is only requested (`NotYetStarted`); at `start_tool` a
mutation is approved; at `dispatch` it is durably started and was never entered
(`Cleared`); a mutation that was entered is approved, started or finished, and
was entered once (`Entered`), so no restart finds it in the state `requested`
from which alone the driver goes towards the handler. Then two facts carry the
proof. Operators never touch the answer, the tools or a first decision that
exists (`KeepsCalls`), so they cannot disturb the driver wherever they
interleave. And every event is monotone (`Monotone`): no tool state goes back and
no first decision changes, also when the event makes the stream unreadable. The
types are proved first, action by action, because `Call` is meaningful only where
`next` is within the answer (`AtCall`).

**The budget.** The check is made at one control point and a handler is entered
several awaits later. `WithinBudget` says that it still holds wherever the driver
may be in between: only an answer adds to the sums (`SumsOfEvents`), only the
driver records answers, and a restart passes the check before the calls.

**The lifecycle.** The projected status follows `AgentRun`'s table because the
driver still knows the status it looked at when it closes the run
(`ClosingStatus`). In a shared loop nobody acts between the look and the append
(`Serial`); in separate processes somebody may, and the theorem would be false.

**The stream.** `InOneLoop` is the configuration of the runtime in one process:
operators in the driver's loop, a policy that does not suspend, fresh message
ids. Without any one of the three an append can be refused (section 3). The
invariant `StreamInv` has three parts. `Sound` is about the stream alone: it is
readable, whatever is unfinished belongs to the open step and to the answer that
asked for it, and neither a run that waits nor one that has ended, unless it says
so, has a mutation with an unknown outcome. It is what a recovery may rely on,
and is not inductive, since an event that is sound depends on where the driver
is: `TurnFacts`, `ToolFacts` and `CertainFacts` say what is true of the step, of
the calls before and at `next`, and of the mutations at each control point.
`OperatorsReady` says that what an operator checked is still true when it appends
after its `await`. The five properties follow in a few lines each. `LoopSuffices`
is about the model's fairness: `FairSpec` is stated over `LoopNext`, which leaves
two steps of `Next` out, and neither is possible in this configuration.

**The agent.** `AgentGate` is `GateInv` and what is true of an empty stream;
every step of the commands is one of the runtime's, or a collision, which changes
nothing but readability. `AgentInv` adds who is preparing an investigation and
what is in the file by then: only one process is under way unless `raced`
(`Alone`), its file has its scenario once it is past writing it (`Preparing`),
and from the first event on the file and every driver's policy are of that
scenario (`Addressed`), so what is executed is (`Executed`). `PendingShown`
relates two projections. `OneQuestion`: as long as both are readable, a run that
does not wait has no pending approval, and one that waits has exactly one, for a
requested call of the open step on which nobody has decided. The driver asks only
there (`AtOpenCall`), and the operators' decisions answer the one question or
make the second projection unreadable, which `decision_twice` shows to happen.

**The store.** A thread past its lock holds it, and a thread in a transaction has
the database (`HasLock`, `HasDatabase`); a transaction with rows belongs to a
thread that will end it (`Clean`). Hence whoever gets the lock for a replay finds
no uncommitted row (`Replays`). For the refinement: in every run the committed
rows are numbered 1 to n (`Gapless`), and the open transaction holds exactly the
part of its batch that is inserted, from n + 1 on (`Transaction`). Then a commit
appends the batch to the sequence that `LogOf` reads off the rows
(`CommitAppends`), no event of it is in the log already (`CommitFresh`, from the
unique ids), and every other step leaves the committed rows alone.

**The commands and the console.** Decisions are never taken back (`Decided`), so
an approval that was read stays one. As long as commands do not overlap
(`OneAtATime`), what a process has read is up to date (`UpToDate`), which gives
`CompletedIsVerified` and `ClosedIsFinal`. A readable final run has no further
event, so that the two loads of a page that was told `done` show all of it
(`PagesFinal`).

**The pipeline.** `PipelineInv` says that a mutation anywhere between its lane
and its end, `unwinding` included, holds the lock of its lane (`LaneHeld`), and
that no handler was entered by a call on its way to it or refused by the executor
itself (`NotYetEntered`, whence `RefusalsSafe`). `OrderInv` is about the batch: in one with a mutation a call
has begun only if all before it have ended (`BatchOrder`; the property only looks
at calls under way), and a cancelled batch has nothing left but calls on their
way out or ended (`Dismissed`), none of which can come to a handler: this, and not
only the moment of the cancellation, is what `CancelledEntersNothing` needs.

**The artifacts and the watchers.** A target file is never torn (`NeverTorn`),
because only a whole temporary file replaces it, and a result about to be
recorded is in its file (`Stored`). A subscription is `Faithful` to the stream of
its run: it began no later than the stream's end, it is closed only when the
driver has ended, and the facts it has heard or has queued are those the driver
has put into the stream since. Every append of a fact by the driver is one step
with its emission (`TellingStep`); what operators, preflight or a lost race append
is `silent` (`SilentStep`), and other live events are no facts (`ChatterStep`).
An append is silent or not by what is before it only, so that no later one changes
what an earlier one was told as (`AsLiveAppend`).

**The context.** `Chosen` describes the loop of `apply` half way: the groups that
are left are older than all that were considered, the selection fits and is
unrepeated, and every group that was considered and not taken is `Rejected` for a
reason that no better selection can remove, because what the loop had taken by
then is in every selection that agrees with it on the newer groups. At the first
group, from the newest, on which a better one differed it would either have to
hold a rejected group or lack one that was taken. The one thing needed of the
estimate is that it does not shrink when a selection grows.

**The lab.** `VerifiedHolds` speaks of moments in which no recovery is halfway. In
between, one may have the service down, also one that nobody waits for any more:
`Confirmed` says that for an undisturbed client what it saw verified is in order
but for being down in the middle of a recovery that will start it. Every recovery
that stops the service starts it again as v1, or with the version it had, or is
cut off, which disturbs; and while anybody is undisturbed the operator is idle
(`Quiet`). Before a client's recovery has succeeded nothing counts as verified
(`NotYet`). A verification asks twice, first the service and then what it depends
on, and the containers may change in between. `Confirming` says that whoever
recovered, is undisturbed and waits for the second answer waits for it only while
the service is in order: it awaits one request at a time, at the server it has
open (`OneAwaited`), and every recovery that takes the service down breaks the
query off, which starts again.

**The evaluation.** `Answered` says of every moment what `RecordedOnce` says of
the end: the answers in all turns and in the open one are those given, and only
the one whose tools are running, or were interrupted, is missing. `Consistent`
says what an incident can be like (confirmed only if recovered, recovered only
by an approved mutation), and `Shown` that the record never tells more than has
happened and holds all the evidence the gate has seen: the batch reports, call
by call, what was true at that call (`BatchReports`), and the evidence only grows
with the record. A turn that the gate rejects stays in the record, which is why
the closure's evidence and the evaluator's agree. `Matches` says the same of the
counters: as long as the run has not failed, a mutation was performed, and
`verify_recovery` called, exactly if the record has an observation of it
(`BatchCounts`); a batch that is interrupted moves the counters and leaves no
record, and fails the run.

**Induction over data.** The library's induction theorems take an operator as a
parameter, which the installed provers cannot instantiate. Where a property is
about a sequence that a run builds, the lemma is stated for one more element and
the run's own steps do the induction (`ToldAppend`, `FlattenAppend`,
`AfterStep`). Where the whole sequence is there at once (the estimate, a batch's
effect), the lemma is proved from the least counterexample, which
`WFMin` of `WellFoundedInduction` gives for any set of numbers (`LeastNatural`).

What the proofs changed in the models: guards of `CASE` that overlapped became
`IF ... ELSE IF` (`EventRuntime`, `RootCause`), since TLC takes the first and the
logic any; the estimate, `After` and `Told` became recursive functions, of which
the provers can use the defining equation; the contexts of `ContextBudget` and
the batches of `Evaluation` got the assumptions that their code relies on
(positive costs, only an assistant message has calls, as many observations as
calls); and `DurableAgent` no longer assumes that operators are outside the
driver's loop.

Only model-checked: the liveness properties (`DriveEnds`, `RunEnds`, `CallsEnd`,
`BatchEnds`, `StreamEnds`, `WatchEnds`, `CallsReturn`), which need fairness and
ENABLED, and what the three runs that expect a violation show.

## 5. Not modelled

* *Gateway, sessions, channels*: a demonstration beside the incident path; one
  line is appended per message and no decision depends on it.
* *Providers' HTTP*: what a response may be and that a request may fail or not
  return is in the runtimes; decoding one response is a pure function of it.
* *Baselines and tracing*: experiments outside the running system, and a log
  nobody reads back.
* *Incident state* beyond the approvals: facts, evidence, hypotheses and work
  items are folded into summaries only; no command decides on them.
* *Power loss*: a process may die anywhere, the machine may not. SQLite's and the
  file system's own durability are external.
* *Two drivers of one run* at the same time: nothing in the code excludes two
  `ig agent resume`; the projector lets a started tool start again. One driver per
  run is assumed in `EventRuntime`; `IncidentCLI`, where two resumes are the
  common case, has them.
* *A compose operation that outlives its own timeout*: `_compose` kills the
  `docker compose` command after its timeout; that the Docker daemon may still
  finish what was begun is external, and a failed operation is over in the model.
* *Metrics and logs* of the lab, and the report of the evaluation: read only.

## 6. Plan

1. Two drivers of one run: `EventRuntime` composed with a second resume, and
   which of the theorems survive it.
2. The runtime with operators in processes of their own: what is left of
   `StreamInv` when a decision may spoil the stream, that is, which properties
   hold of a run for as long as its stream is readable.
3. The incident's phases and assessments, if a command ever decides on them.
