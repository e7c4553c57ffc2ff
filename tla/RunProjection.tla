---------------------------- MODULE RunProjection ----------------------------
(***************************************************************************)
(* What a replay of one run's durable event stream yields                  *)
(* (incident_guard/events/projection.py, RunEventProjector.project).       *)
(*                                                                         *)
(* The code keeps the whole stream in SQLite and folds it from the first   *)
(* event at every read.  The model keeps the value of that fold, and       *)
(* every event type is an operator from projections to projections: it     *)
(* gives the projection of the stream with one more event.  An event that  *)
(* the projector refuses raises ProjectionError, in this replay and, the   *)
(* store being append-only, in every later one: ok is FALSE from then on.  *)
(*                                                                         *)
(* Simplifications:                                                        *)
(*  - texts, arguments and the list of chat messages are left out;         *)
(*  - completed_steps is kept as the state of the current step and two     *)
(*    counters, assistant_records as the current record and two sums:      *)
(*    nothing in the code looks further back;                              *)
(*  - a call id stands for the tool it names, so the effect of a call is   *)
(*    its membership in Mutations;                                         *)
(*  - approval is the scan of the same stream by _durable_approval (first  *)
(*    decision) and DurableApprovalProvider (last decision).               *)
(***************************************************************************)
EXTENDS Naturals, Sequences, FiniteSets

CONSTANTS CallIds,     \* ids the model may give to tool calls
          Mutations,   \* those whose tool has the effect "mutate"
          MsgIds       \* ids of inbox messages

ASSUME MutationsAssumption == Mutations \subseteq CallIds

Terminal == {"completed", "cancelled", "failed", "failed_uncertain"}

RunStatus ==
    {"created", "running", "waiting_approval", "cancelling"} \cup Terminal

StopReason == {"end_turn", "tool_use", "max_tokens"}

ToolState == {"requested", "started", "completed", "failed"}

Finished == {"completed", "failed"}

InboxTarget == {"next_step", "next_turn"}

Decision == {"none", "approved", "rejected"}

Tool == [state : ToolState \cup {"absent"}, key : Nat \X Nat]

Assistant == [stop : StopReason \cup {"none"}, calls : Seq(CallIds)]

\* inbox maps a message to the boundary it waits for, or to "consumed".
Projection ==
    [ok : BOOLEAN, status : RunStatus,
     turn : Nat, step : Nat, stepDone : BOOLEAN,
     doneInTurn : Nat, doneTotal : Nat,
     asst : Assistant, tokens : Nat, callTotal : Nat,
     tools : [CallIds -> Tool],
     inbox : [MsgIds -> InboxTarget \cup {"absent", "consumed"}],
     asked : [CallIds -> BOOLEAN],
     first : [CallIds -> Decision],
     last : [CallIds -> Decision]]

NoAssistant == [stop |-> "none", calls |-> <<>>]

\* The projection of the empty stream.
Empty ==
    [ok |-> TRUE, status |-> "created",
     turn |-> 0, step |-> 0, stepDone |-> FALSE,
     doneInTurn |-> 0, doneTotal |-> 0,
     asst |-> NoAssistant, tokens |-> 0, callTotal |-> 0,
     tools |-> [c \in CallIds |-> [state |-> "absent", key |-> <<0, 0>>]],
     inbox |-> [m \in MsgIds |-> "absent"],
     asked |-> [c \in CallIds |-> FALSE],
     first |-> [c \in CallIds |-> "none"],
     last |-> [c \in CallIds |-> "none"]]

-----------------------------------------------------------------------------

Open(p) == p.step > 0 /\ ~p.stepDone

StepKey(p) == <<p.turn, p.step>>

InOpenStep(p, c) ==
    Open(p) /\ p.tools[c].state # "absent" /\ p.tools[c].key = StepKey(p)

Pending(p, target) == {m \in MsgIds : p.inbox[m] = target}

\* _uncertain_mutation: a mutation was started and has no recorded result.
Uncertain(p) == \E c \in Mutations : p.tools[c].state = "started"

\* One iteration of the projector's loop: a terminal run takes no event, and
\* a violated requirement makes the stream unreadable.
Accept(p, requirement, q) ==
    IF p.ok /\ p.status \notin Terminal /\ requirement
    THEN q
    ELSE [p EXCEPT !.ok = FALSE]

-----------------------------------------------------------------------------

RunStarted(p) ==
    Accept(p, p.status = "created", [p EXCEPT !.status = "running"])

TurnStarted(p, t) ==
    Accept(p, p.status = "running" /\ t = p.turn + 1,
           [p EXCEPT !.turn = t, !.step = 0, !.stepDone = FALSE,
                     !.doneInTurn = 0, !.asst = NoAssistant])

\* Messages, alerts, goals and evidence: notes that only a running run takes.
Noted(p) == Accept(p, p.status = "running", p)

StepStarted(p, t, s) ==
    Accept(p,
           /\ p.status = "running"
           /\ p.turn >= 1 /\ t = p.turn
           /\ ~Open(p)
           /\ s = p.doneInTurn + 1,
           [p EXCEPT !.step = s, !.stepDone = FALSE, !.asst = NoAssistant])

AssistantMessage(p, r) ==
    Accept(p, Open(p) /\ p.asst.stop = "none",
           [p EXCEPT !.asst = [stop |-> r.stop, calls |-> r.calls],
                     !.tokens = @ + r.tokens,
                     !.callTotal = @ + Len(r.calls)])

ToolRequested(p, c) ==
    Accept(p, Open(p) /\ p.tools[c].state = "absent",
           [p EXCEPT !.tools[c] = [state |-> "requested", key |-> StepKey(p)]])

\* A tool that is already started may be started again.
ToolStarted(p, c) ==
    Accept(p, InOpenStep(p, c) /\ p.tools[c].state \in {"requested", "started"},
           [p EXCEPT !.tools[c].state = "started"])

\* tool.completed and tool.failed: outcome is the state the event leads to.
ToolFinished(p, c, outcome) ==
    Accept(p, InOpenStep(p, c) /\ p.tools[c].state = "started",
           [p EXCEPT !.tools[c].state = outcome])

StepCompleted(p, t, s) ==
    Accept(p,
           /\ Open(p) /\ <<t, s>> = StepKey(p)
           /\ \A c \in CallIds : p.tools[c].state \in {"requested", "started"}
                                   => p.tools[c].key # StepKey(p)
           /\ p.asst.stop # "none",
           [p EXCEPT !.stepDone = TRUE,
                     !.doneInTurn = @ + 1, !.doneTotal = @ + 1])

InboxSubmitted(p, m, target) ==
    Accept(p, p.inbox[m] = "absent", [p EXCEPT !.inbox[m] = target])

\* A batch of inbox.consumed events, one per message of ms.
InboxConsumed(p, ms) ==
    IF ms = {} THEN p
    ELSE Accept(p, \A m \in ms : p.inbox[m] \in InboxTarget,
                [p EXCEPT !.inbox = [m \in MsgIds |->
                        IF m \in ms THEN "consumed" ELSE @[m]]])

ApprovalRequested(p, c) ==
    Accept(p, p.status = "running",
           [p EXCEPT !.status = "waiting_approval", !.asked[c] = TRUE])

ApprovalDecided(p, c, d) ==
    Accept(p, p.status = "waiting_approval",
           [p EXCEPT !.status = "running",
                     !.first[c] = IF @ = "none" /\ p.asked[c] THEN d ELSE @,
                     !.last[c] = d])

RunCancelling(p) ==
    Accept(p, p.status \in {"running", "waiting_approval"},
           [p EXCEPT !.status = "cancelling"])

\* run.completed, run.cancelled, run.failed and run.failed_uncertain.
RunClosed(p, status) ==
    Accept(p,
           /\ status = "completed" => ~Open(p)
           /\ IF status = "cancelled"
              THEN p.status = "cancelling"
              ELSE p.status \in {"running", "cancelling", "waiting_approval"},
           [p EXCEPT !.status = status])

=============================================================================
