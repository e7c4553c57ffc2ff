------------------------------ MODULE ToolOutput ------------------------------
(***************************************************************************)
(* How the result of a tool call leaves the runtime: large contents go to   *)
(* a file of FileToolResultStore (context/artifact_store.py), the durable   *)
(* event refers to the file, and the watchers of the run's process hear of  *)
(* both from its LiveEventBroker (events/live_stream.py).                   *)
(*                                                                         *)
(* Each driver drives one run in a process of its own, and all of them       *)
(* store in one directory.  Contents are named by their hash, so a file is   *)
(* named by the content it must have.  The run itself is EventRuntime's:     *)
(* here it is a number of calls, in order, each of which may be denied,      *)
(* wait for an approval, fail, or return any content.  Its operator is in a  *)
(* process of its own; cancellation, which ends a run like a failure, and    *)
(* steps that go as they should are left out.  A write of the store may      *)
(* fail, a read does not.                                                   *)
(*                                                                         *)
(* Live events carry no reference, and go by the name of the durable event   *)
(* type, but for results: completed or failed, they are told as the phase    *)
(* "completed" of a tool.progress, here "tool.finished".                     *)
(***************************************************************************)
EXTENDS Naturals, FiniteSets, Sequences, SequencesExt

CONSTANTS Drivers, Contents,
          Large,        \* contents beyond threshold_bytes
          Plan,         \* the effects of the calls of each run
          Watchers,
          Watched,      \* bound: the runs they may subscribe to
          MaxCrashes    \* bound: crashes, and drivers that raised and go on

ASSUME OutputAssumption ==
    /\ Large \subseteq Contents
    /\ Plan \in [Drivers -> Seq({"read", "mutate"})]
    /\ Watched \subseteq Drivers
    /\ MaxCrashes \in Nat

VARIABLES events,   \* the stream of each run
          files,    \* the target file of each content
          pc,       \* where each driver is
          output,   \* the result it is about to record
          watch,    \* the subscriptions
          rejecting,\* runs whose operator has yet to fail what it rejected
          crashes

vars == <<events, files, pc, output, watch, rejecting, crashes>>

\* Variables a driver's file operations leave alone.
quiet == <<events, watch, rejecting, crashes>>

Terminal == {"run.completed", "run.failed", "run.failed_uncertain"}

NoOutput == [type |-> "none"]

Unsubscribed == [on |-> "off", queue |-> <<>>, heard |-> <<>>]

Init ==
    /\ events = [d \in Drivers |-> <<>>]
    /\ files = [c \in Contents |-> "absent"]
    /\ pc = [d \in Drivers |-> "idle"]
    /\ output = [d \in Drivers |-> NoOutput]
    /\ watch = [w \in Watchers |-> Unsubscribed]
    /\ rejecting = {}
    /\ crashes = 0

-----------------------------------------------------------------------------
(* What the stream of a run says. *)

Says(d, type, n) == \E i \in DOMAIN events[d] : events[d][i].type = type
                                                /\ events[d][i].call = n

Finished(d, n) == Says(d, "tool.completed", n) \/ Says(d, "tool.failed", n)

\* The call whose turn it is.
Current(d) == Cardinality({n \in DOMAIN Plan[d] : Finished(d, n)}) + 1

CallsLeft(d) == Current(d) \in DOMAIN Plan[d]

Mutates(d) == CallsLeft(d) /\ Plan[d][Current(d)] = "mutate"

Started(d) == Says(d, "tool.started", Current(d))

Ended(s) == \E i \in DOMAIN s : s[i].type \in Terminal

Over(d) == Ended(events[d])

\* The projector takes no event behind a terminal one, and none of the type
\* "refused", which stands for any that does not fit where it was appended.
Readable(d) ==
    \A i \in DOMAIN events[d] :
        /\ events[d][i].type # "refused"
        /\ events[d][i].type \in Terminal => i = Len(events[d])

Waiting(d) == events[d] # <<>> /\ Last(events[d]).type = "approval.requested"

Uncertain(d) == Started(d) /\ Mutates(d)

\* by tells the events of the loop from those of the operator's process and
\* from the answer to a call that preflight refused.
Ev(d, type) == [type |-> type, call |-> Current(d), by |-> "runtime"]

OperatorEv(d, type) == [Ev(d, type) EXCEPT !.by = "operator"]

Live(d, type) == [type |-> type, call |-> Current(d)]

-----------------------------------------------------------------------------
(* The broker of the process that drives d. *)

Subscribers(d) == {w \in Watchers : watch[w].on = "open" /\ watch[w].run = d}

Emit(d, e) ==
    watch' = [w \in Watchers |->
                 IF w \in Subscribers(d) THEN [watch[w] EXCEPT !.queue = Append(@, e)]
                 ELSE watch[w]]

\* Mutant: only the end of a run that completed closes its subscriptions.
EmitAndClose_CompletedOnly(d, e) ==
    watch' = [w \in Watchers |->
                 IF w \in Subscribers(d)
                 THEN [watch[w] EXCEPT !.queue = Append(@, e),
                                       !.on = IF e.type = "run.completed" THEN "closed" ELSE @]
                 ELSE watch[w]]

\* _emit of a terminal status, then close_run: the marker lines up behind
\* everything emitted before.
EmitAndClose(d, e) ==
    watch' = [w \in Watchers |->
                 IF w \in Subscribers(d)
                 THEN [watch[w] EXCEPT !.queue = Append(@, e), !.on = "closed"]
                 ELSE watch[w]]

CloseRun(d) ==
    watch' = [w \in Watchers |->
                 IF w \in Subscribers(d) THEN [watch[w] EXCEPT !.on = "closed"]
                 ELSE watch[w]]

\* Where the driver awaits something, and others in its process have a turn.
Awaits(d) == pc[d] \in {"idle", "loop", "handler", "paused", "ended", "raised"}

Subscribe(w, d) ==
    /\ Awaits(d)
    /\ watch[w].on = "off"
    /\ watch' = [watch EXCEPT ![w] = [on |-> "open", run |-> d, since |-> Len(events[d]),
                                      queue |-> <<>>, heard |-> <<>>]]
    /\ UNCHANGED <<events, files, pc, output, rejecting, crashes>>

\* __anext__: the marker ends the iteration.
Receive(w) ==
    /\ watch[w].on \in {"open", "closed", "left"}
    /\ Awaits(watch[w].run)
    /\ \/ /\ watch[w].queue # <<>>
          /\ watch' = [watch EXCEPT ![w].heard = Append(@, Head(watch[w].queue)),
                                    ![w].queue = Tail(@)]
       \/ /\ watch[w].queue = <<>> /\ watch[w].on # "open"
          /\ watch' = [watch EXCEPT ![w].on = IF @ = "closed" THEN "ended" ELSE "gone"]
    /\ UNCHANGED <<events, files, pc, output, rejecting, crashes>>

\* close of the subscription by its owner.
Leave(w) ==
    /\ watch[w].on = "open"
    /\ Awaits(watch[w].run)
    /\ watch' = [watch EXCEPT ![w].on = "left"]
    /\ UNCHANGED <<events, files, pc, output, rejecting, crashes>>

-----------------------------------------------------------------------------
(* The driver. *)

Goes(d, from, to) ==
    /\ pc[d] = from
    /\ pc' = [pc EXCEPT ![d] = to]

\* _append: the event is durable before anybody hears of it.
Appends(d, e) == events' = [events EXCEPT ![d] = Append(@, e)]

RunStarts(d) ==
    /\ Goes(d, "idle", "loop")
    /\ events[d] = <<>>
    /\ Appends(d, Ev(d, "run.started"))
    /\ Emit(d, Live(d, "run.started"))
    /\ UNCHANGED <<files, output, rejecting, crashes>>

\* resume of a run that is neither over, which returns before the loop and
\* closes no subscription, nor waiting, which returns where it is.
Resume(d) ==
    /\ \/ (Goes(d, "paused", "loop") \/ Goes(d, "down", "loop")) /\ UNCHANGED crashes
       \/ Goes(d, "raised", "loop") /\ crashes < MaxCrashes /\ crashes' = crashes + 1
    /\ events[d] # <<>> /\ Readable(d) /\ ~Over(d) /\ ~Waiting(d)
    /\ Emit(d, Live(d, "resuming"))
    /\ UNCHANGED <<events, files, output, rejecting>>

\* decide_durable_approval, in a process of its own: nothing of it is live.
Approves(d) ==
    /\ Waiting(d)
    /\ Appends(d, OperatorEv(d, "approval.granted"))
    /\ UNCHANGED <<files, pc, output, watch, rejecting, crashes>>

\* A rejection is two appends ...
Rejects(d) ==
    /\ Waiting(d)
    /\ Appends(d, OperatorEv(d, "approval.rejected"))
    /\ rejecting' = rejecting \cup {d}
    /\ UNCHANGED <<files, pc, output, watch, crashes>>

\* ... the second of which looks at nothing the driver did in between, and is
\* not made when the operator's process has died.
RejectionFailsRun(d) ==
    /\ d \in rejecting
    /\ Appends(d, OperatorEv(d, "run.failed")) \/ UNCHANGED events
    /\ rejecting' = rejecting \ {d}
    /\ UNCHANGED <<files, pc, output, watch, crashes>>

AsksApproval(d) ==
    /\ Goes(d, "loop", "asked")
    /\ ~Over(d) /\ Mutates(d) /\ ~Started(d)
    /\ \A answer \in {"approval.granted", "approval.rejected"} :
          ~Says(d, answer, Current(d))
    /\ Appends(d, Ev(d, "approval.requested"))
    /\ Emit(d, Live(d, "approval.requested"))
    /\ UNCHANGED <<files, output, rejecting, crashes>>

\* The loop returns to its caller with the question still open ...
Pauses(d) ==
    /\ Goes(d, "asked", "paused")
    /\ Waiting(d)
    /\ UNCHANGED <<quiet, files, output>>

\* ... or finds it answered already, takes the step for done, and appends a
\* step.completed that nobody can read.
OvertakenByAnswer(d) ==
    /\ Goes(d, "asked", "raised")
    /\ ~Waiting(d)
    /\ Appends(d, Ev(d, "refused"))
    /\ UNCHANGED <<files, output, watch, rejecting, crashes>>

\* A read that was under way when the process died is called again.
CallsTool(d) ==
    /\ Goes(d, "loop", "handler")
    /\ CallsLeft(d) /\ ~Uncertain(d)
    /\ Mutates(d) => Says(d, "approval.granted", Current(d))
    /\ IF Started(d) THEN UNCHANGED events
       ELSE ~Over(d) /\ Appends(d, Ev(d, "tool.started"))
    /\ Emit(d, Live(d, "tool.started"))
    /\ UNCHANGED <<files, output, rejecting, crashes>>

\* store keeps small contents inline.
Outputs(d, type, by) ==
    \E c \in Contents :
        /\ output' = [output EXCEPT ![d] = [type |-> type, content |-> c, by |-> by]]
        /\ pc' = [pc EXCEPT ![d] = IF c \in Large THEN "store" ELSE "append"]

\* A refused preflight: its answer is stored like a result.
DeniesTool(d) ==
    /\ pc[d] = "loop"
    /\ ~Over(d) /\ CallsLeft(d) /\ ~Started(d)
    /\ Outputs(d, "tool.failed", "preflight")
    /\ Appends(d, Ev(d, "tool.started"))
    /\ UNCHANGED <<files, watch, rejecting, crashes>>

\* Mutant: the watchers hear of the result before it is stored.
HandlerReturns_TellsFirst(d) ==
    /\ pc[d] = "handler"
    /\ \E type \in {"tool.completed", "tool.failed"} : Outputs(d, type, "runtime")
    /\ Emit(d, Live(d, "tool.finished"))
    /\ UNCHANGED <<events, files, rejecting, crashes>>

\* A result or an error; an error that leaves a mutation in doubt is Fails.
HandlerReturns(d) ==
    /\ pc[d] = "handler"
    /\ \E type \in {"tool.completed", "tool.failed"} : Outputs(d, type, "runtime")
    /\ UNCHANGED <<quiet, files>>

\* target.exists(): a file of that name is taken for the content.
TargetExists(d) ==
    /\ pc[d] = "store"
    /\ IF files[output[d].content] = "absent"
       THEN Goes(d, "store", "write") ELSE Goes(d, "store", "append")
    /\ UNCHANGED <<quiet, files, output>>

\* Mutant: the content is written to the target itself.
WriteTemporary_InPlace(d) ==
    /\ Goes(d, "write", "replace")
    /\ files' = [files EXCEPT ![output[d].content] = "torn"]
    /\ UNCHANGED <<quiet, output>>

\* mkstemp, write and fsync, under a name nobody looks up.
WriteTemporary(d) ==
    /\ Goes(d, "write", "replace")
    /\ UNCHANGED <<quiet, files, output>>

\* os.replace.
ReplaceTarget(d) ==
    /\ Goes(d, "replace", "append")
    /\ files' = [files EXCEPT ![output[d].content] = "whole"]
    /\ UNCHANGED <<quiet, output>>

Result(d) == [type |-> output[d].type, call |-> Current(d),
              content |-> output[d].content, by |-> output[d].by]

\* The event with its content_ref; a denied call is not reported live.
RecordResult(d) ==
    /\ Goes(d, "append", "loop")
    /\ ~Over(d)
    /\ Appends(d, Result(d))
    /\ output' = [output EXCEPT ![d] = NoOutput]
    /\ IF output[d].by = "runtime" THEN Emit(d, Live(d, "tool.finished"))
       ELSE UNCHANGED watch
    /\ UNCHANGED <<files, rejecting, crashes>>

\* _drive returns a terminal projection, and _drive_and_close closes.
Ends(d, type) ==
    /\ ~Over(d)
    /\ pc' = [pc EXCEPT ![d] = "ended"]
    /\ output' = [output EXCEPT ![d] = NoOutput]
    /\ Appends(d, Ev(d, type))
    /\ EmitAndClose(d, Live(d, type))
    /\ UNCHANGED <<files, rejecting, crashes>>

Completes(d) ==
    /\ pc[d] = "loop" /\ ~CallsLeft(d)
    /\ Ends(d, "run.completed")

Working == {"loop", "asked", "handler", "store", "write", "replace", "append"}

\* An error of the provider, a rejected approval, a budget, the timeout, a full
\* disk, or a mutation found started: whatever the reason, a started mutation
\* without its result decides the status.
Fails(d) ==
    /\ pc[d] \in Working \ {"asked"}
    /\ Ends(d, IF Uncertain(d) THEN "run.failed_uncertain" ELSE "run.failed")

\* The loop finds that the operator has ended the run, and has nothing to tell.
FindsOver(d) ==
    /\ pc[d] \in {"loop", "asked"}
    /\ Over(d) /\ Readable(d)
    /\ pc' = [pc EXCEPT ![d] = "ended"]
    /\ CloseRun(d)
    /\ UNCHANGED <<events, files, output, rejecting, crashes>>

\* An exception leaves _drive, and close_run is not called: the task was
\* cancelled, an append failed and so did that of run.failed, the stream cannot
\* be read, or it has ended, be it that _append sees the end or that the end
\* came between its check and its insert.
Raises(d) ==
    /\ pc[d] \in Working
    /\ pc' = [pc EXCEPT ![d] = "raised"]
    /\ output' = [output EXCEPT ![d] = NoOutput]
    /\ \/ UNCHANGED events
       \/ Over(d) /\ Appends(d, IF pc[d] = "append" THEN Result(d) ELSE Ev(d, "refused"))
    /\ UNCHANGED <<files, watch, rejecting, crashes>>

\* The process dies, with its broker; a temporary file may stay behind.
Crash(d) ==
    /\ crashes < MaxCrashes
    /\ pc[d] \notin {"idle", "down"}
    /\ crashes' = crashes + 1
    /\ pc' = [pc EXCEPT ![d] = "down"]
    /\ output' = [output EXCEPT ![d] = NoOutput]
    /\ watch' = [w \in Watchers |->
                    IF watch[w].on # "off" /\ watch[w].run = d THEN Unsubscribed
                    ELSE watch[w]]
    /\ UNCHANGED <<events, files, rejecting>>

Drive(d) ==
    \/ AsksApproval(d) \/ Pauses(d) \/ OvertakenByAnswer(d) \/ CallsTool(d)
    \/ DeniesTool(d) \/ HandlerReturns(d) \/ TargetExists(d) \/ WriteTemporary(d)
    \/ ReplaceTarget(d) \/ RecordResult(d) \/ Completes(d) \/ Fails(d)
    \/ FindsOver(d) \/ Raises(d)

Operate(d) == Approves(d) \/ Rejects(d) \/ RejectionFailsRun(d)

Next ==
    \/ \E d \in Drivers : RunStarts(d) \/ Resume(d) \/ Drive(d) \/ Operate(d) \/ Crash(d)
    \/ \E w \in Watchers : Receive(w) \/ Leave(w) \/ \E d \in Watched : Subscribe(w, d)

Spec == Init /\ [][Next]_vars

\* A driver that is not waiting goes on, for a tool's call has a timeout and
\* the run has one; the event loop gives the watchers their turn.  Nothing is
\* asked of the runs that nobody watches.
FairSpec ==
    /\ Spec
    /\ \A d \in Watched : WF_vars(Drive(d))
    /\ \A w \in Watchers : WF_vars(Receive(w))

-----------------------------------------------------------------------------
(* Properties *)

Types == Terminal \cup {"run.started", "approval.requested", "approval.granted",
                        "approval.rejected", "tool.started", "refused"}

ResultTypes == {"tool.completed", "tool.failed"}

Event == [type : Types, call : Nat, by : {"runtime", "operator"}]
            \cup [type : ResultTypes, call : Nat, content : Contents,
                  by : {"runtime", "preflight"}]

\* Only the steps that read a stored content have one.
TypeOK ==
    /\ events \in [Drivers -> Seq(Event)]
    /\ files \in [Contents -> {"absent", "torn", "whole"}]
    /\ pc \in [Drivers -> Working \cup {"idle", "paused", "ended", "raised", "down"}]
    /\ output \in [Drivers -> {NoOutput} \cup
                      [type : ResultTypes, content : Contents, by : {"runtime", "preflight"}]]
    /\ \A d \in Drivers :
          pc[d] \in {"store", "write", "replace", "append"} => output[d] # NoOutput

Results(d) == {e \in ToSet(events[d]) : e.type \in ResultTypes}

\* The reference of every durable result loads, with the hash it names: load
\* neither misses the file nor finds other bytes, although other processes
\* store the same content and any of them may die while it does
\* (artifact_store.py:81-93, event_runtime.py:701-716).
ReferencesLoad ==
    \A d \in Drivers : \A e \in Results(d) : e.content \in Large => files[e.content] = "whole"

\* What a watcher acts on.
Facts == Terminal \cup {"approval.requested", "tool.finished"}

\* The facts among the events of a sequence, in its order.
Told(s) ==
    LET told[n \in 0 .. Len(s)] ==
            IF n = 0 THEN <<>>
            ELSE IF s[n].type \in Facts THEN Append(told[n - 1], s[n])
            ELSE told[n - 1]
    IN  told[Len(s)]

\* The live event that a durable one stands for: none for what the operator or
\* preflight wrote, and none for what was appended behind the end.
AsLive(s, i) ==
    [type |-> IF s[i].by # "runtime" \/ \E j \in 1 .. i - 1 : s[j].type \in Terminal
              THEN "silent"
              ELSE IF s[i].type \in ResultTypes THEN "tool.finished" ELSE s[i].type,
     call |-> s[i].call]

Durable(d, since) ==
    [i \in 1 .. Len(events[d]) - since |-> AsLive(events[d], since + i)]

\* A watcher is never told of a result, a question or an end that is not
\* durable, nor is one of the loop's left out: what a subscription has heard
\* and has still to hear is what the driver has written since it was made, in
\* the stream's order, however often the driver raised and was resumed
\* (README.md:238, event_runtime.py:684).  Of a denied call and of the end of
\* a rejected run it hears nothing, and a failed call sounds like a completed one.
WatchersAgree ==
    \A w \in Watchers :
        (watch[w].on \in {"open", "closed", "ended"} /\ Awaits(watch[w].run)) =>
            Told(watch[w].heard \o watch[w].queue) = Told(Durable(watch[w].run, watch[w].since))

\* A subscription to a run that is under way comes to its end, with the end
\* that the driver or the operator gave the run, unless the run stops to wait
\* for an operator, its driver raises, or the process dies: the two first
\* leave it open (live_stream.py:70-88, event_runtime.py:223-232).
WatchEnds ==
    \A w \in Watchers :
        (watch[w].on = "open" /\ pc[watch[w].run] \in Working)
            ~> (watch[w].on \in {"ended", "gone", "off"}
                    \/ pc[watch[w].run] \in {"paused", "raised"})
=============================================================================
