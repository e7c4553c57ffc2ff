------------------------- MODULE EventRuntimeProofs -------------------------
(***************************************************************************)
(* Proofs about EventRuntime, for every set of calls, messages and         *)
(* operators, every provider, every budget, and for operators in the       *)
(* driver's event loop as well as in processes of their own; in the last   *)
(* part about DurableAgent, the commands around the runtime, for every set *)
(* of scenarios, calls and processes.                                      *)
(***************************************************************************)
EXTENDS DurableAgent, TLAPS

(***************************************************************************)
(* Events give projections.                                                *)
(***************************************************************************)

\* A replay of the empty stream is a projection.
LEMMA EmptyType == Empty \in Projection
BY DEF Empty, Projection, RunStatus, Terminal, NoAssistant, Assistant,
       Tool, Decision

\* A step without an answer yet has an (empty) assistant record.
LEMMA NoAssistantType == NoAssistant \in Assistant
  <1>1. <<>> \in Seq(CallIds)
    OBVIOUS
  <1> QED
    BY <1>1 DEF NoAssistant, Assistant

\* Run-level events (run.started, turn.started, step.started,
\* step.completed, run.cancelling and the terminal ones) give projections.
LEMMA RunEventTypes ==
    ASSUME NEW p \in Projection, NEW t \in Nat, NEW s \in Nat,
           NEW status \in Terminal
    PROVE  /\ RunStarted(p) \in Projection
           /\ TurnStarted(p, t) \in Projection
           /\ StepStarted(p, t, s) \in Projection
           /\ StepCompleted(p, t, s) \in Projection
           /\ RunCancelling(p) \in Projection
           /\ RunClosed(p, status) \in Projection
  <1> USE DEF Accept, Projection
  <1>1. RunStarted(p) \in Projection
    BY DEF RunStarted, RunStatus
  <1>2. TurnStarted(p, t) \in Projection
    BY NoAssistantType DEF TurnStarted
  <1>3. StepStarted(p, t, s) \in Projection
    BY NoAssistantType DEF StepStarted
  <1>4. StepCompleted(p, t, s) \in Projection
    <2>1. p.doneInTurn + 1 \in Nat /\ p.doneTotal + 1 \in Nat
      OBVIOUS
    <2>2. [p EXCEPT !.stepDone = TRUE, !.doneInTurn = @ + 1,
                    !.doneTotal = @ + 1] \in Projection
      BY <2>1
    <2> QED
      BY <2>2 DEF StepCompleted
  <1>5. RunCancelling(p) \in Projection
    BY DEF RunCancelling, RunStatus
  <1>6. RunClosed(p, status) \in Projection
    BY DEF RunClosed, RunStatus
  <1> QED
    BY <1>1, <1>2, <1>3, <1>4, <1>5, <1>6

\* The model's answer, recorded by assistant.message, gives a projection.
LEMMA AssistantEventType ==
    ASSUME NEW p \in Projection, NEW r,
           r.stop \in StopReason \cup {"none"},
           r.calls \in Seq(CallIds), r.tokens \in Nat
    PROVE  AssistantMessage(p, r) \in Projection
  <1>1. [stop |-> r.stop, calls |-> r.calls] \in Assistant
    BY DEF Assistant
  <1>2. p.tokens + r.tokens \in Nat /\ p.callTotal + Len(r.calls) \in Nat
    BY DEF Projection
  <1>3. [p EXCEPT !.asst = [stop |-> r.stop, calls |-> r.calls],
                  !.tokens = @ + r.tokens,
                  !.callTotal = @ + Len(r.calls)] \in Projection
    BY <1>1, <1>2 DEF Projection
  <1> QED
    BY <1>3 DEF AssistantMessage, Accept, Projection

\* Tool and approval events give projections.
LEMMA CallEventTypes ==
    ASSUME NEW p \in Projection, NEW c \in CallIds,
           NEW outcome \in Finished, NEW d \in {"approved", "rejected"}
    PROVE  /\ ToolRequested(p, c) \in Projection
           /\ ToolStarted(p, c) \in Projection
           /\ ToolFinished(p, c, outcome) \in Projection
           /\ ApprovalRequested(p, c) \in Projection
           /\ ApprovalDecided(p, c, d) \in Projection
  <1> USE DEF Accept, Projection
  <1>1. ToolRequested(p, c) \in Projection
    BY DEF ToolRequested, Tool, ToolState, StepKey
  <1>2. ToolStarted(p, c) \in Projection
    <2>1. [p.tools EXCEPT ![c].state = "started"] \in [CallIds -> Tool]
      BY DEF Tool, ToolState
    <2>2. [p EXCEPT !.tools[c].state = "started"] \in Projection
      BY <2>1
    <2> QED
      BY <2>2 DEF ToolStarted
  <1>3. ToolFinished(p, c, outcome) \in Projection
    <2>1. [p.tools EXCEPT ![c].state = outcome] \in [CallIds -> Tool]
      BY DEF Tool, ToolState, Finished
    <2>2. [p EXCEPT !.tools[c].state = outcome] \in Projection
      BY <2>1
    <2> QED
      BY <2>2 DEF ToolFinished
  <1>4. ApprovalRequested(p, c) \in Projection
    BY DEF ApprovalRequested, RunStatus
  <1>5. ApprovalDecided(p, c, d) \in Projection
    BY DEF ApprovalDecided, RunStatus, Decision
  <1> QED
    BY <1>1, <1>2, <1>3, <1>4, <1>5

\* Inbox events give projections.
LEMMA InboxEventTypes ==
    ASSUME NEW p \in Projection, NEW ms \in SUBSET MsgIds
    PROVE  /\ InboxConsumed(p, ms) \in Projection
           /\ \A m \in MsgIds, target \in InboxTarget :
                    InboxSubmitted(p, m, target) \in Projection
  <1> USE DEF Accept, Projection
  <1>1. InboxConsumed(p, ms) \in Projection
    BY DEF InboxConsumed
  <1>2. ASSUME NEW m \in MsgIds, NEW target \in InboxTarget
        PROVE  InboxSubmitted(p, m, target) \in Projection
    BY <1>2 DEF InboxSubmitted
  <1> QED
    BY <1>1, <1>2

(***************************************************************************)
(* What no event takes back.                                               *)
(***************************************************************************)

\* No event takes back a decision or the start of a tool.
Monotone(p, q) ==
    \A c \in CallIds :
        /\ p.first[c] # "none" => q.first[c] = p.first[c]
        /\ p.tools[c].state \notin {"absent", "requested"}
             => q.tools[c].state \notin {"absent", "requested"}

\* Run-level events, the model's answer and inbox events are monotone.
LEMMA RunEventsMonotone ==
    ASSUME NEW p \in Projection, NEW t, NEW s, NEW r, NEW ms, NEW status
    PROVE  /\ Monotone(p, TurnStarted(RunStarted(p), t))
           /\ Monotone(p, TurnStarted(p, t))
           /\ Monotone(p, StepStarted(p, t, s))
           /\ Monotone(p, AssistantMessage(p, r))
           /\ Monotone(p, StepCompleted(p, t, s))
           /\ Monotone(p, InboxConsumed(p, ms))
           /\ Monotone(p, RunClosed(p, status))
  <1> USE DEF Monotone, Accept, Projection
  <1>1. Monotone(p, TurnStarted(RunStarted(p), t))
    BY DEF TurnStarted, RunStarted
  <1>2. Monotone(p, TurnStarted(p, t))
    BY DEF TurnStarted
  <1>3. Monotone(p, StepStarted(p, t, s))
    BY DEF StepStarted
  <1>4. Monotone(p, AssistantMessage(p, r))
    BY DEF AssistantMessage
  <1>5. Monotone(p, StepCompleted(p, t, s))
    BY DEF StepCompleted
  <1>6. Monotone(p, InboxConsumed(p, ms))
    BY DEF InboxConsumed
  <1>7. Monotone(p, RunClosed(p, status))
    BY DEF RunClosed
  <1> QED
    BY <1>1, <1>2, <1>3, <1>4, <1>5, <1>6, <1>7

\* The events of a call are monotone: a tool that is requested had not been,
\* a tool that finishes had started.
LEMMA CallEventsMonotone ==
    ASSUME NEW p \in Projection, NEW c \in CallIds, NEW outcome \in Finished
    PROVE  /\ Monotone(p, ToolRequested(p, c))
           /\ Monotone(p, ToolStarted(p, c))
           /\ Monotone(p, ToolFinished(p, c, outcome))
           /\ Monotone(p, ApprovalRequested(p, c))
  <1> USE DEF Monotone, Accept, Projection, Tool
  <1>1. Monotone(p, ToolRequested(p, c))
    BY DEF ToolRequested
  <1>2. Monotone(p, ToolStarted(p, c))
    BY DEF ToolStarted
  <1>3. Monotone(p, ToolFinished(p, c, outcome))
    BY DEF ToolFinished, Finished
  <1>4. Monotone(p, ApprovalRequested(p, c))
    BY DEF ApprovalRequested
  <1> QED
    BY <1>1, <1>2, <1>3, <1>4

\* No event but run.started takes a stream out of "created", and none brings
\* it back there.
LEMMA BegunEvents ==
    ASSUME NEW p \in Projection, p.status # "created", NEW c, NEW d, NEW t,
           NEW s, NEW r, NEW m, NEW ms, NEW target, NEW status \in Terminal
    PROVE  /\ TurnStarted(RunStarted(p), t).status # "created"
           /\ TurnStarted(p, t).status # "created"
           /\ StepStarted(p, t, s).status # "created"
           /\ AssistantMessage(p, r).status # "created"
           /\ StepCompleted(p, t, s).status # "created"
           /\ ToolRequested(p, c).status # "created"
           /\ ToolStarted(p, c).status # "created"
           /\ ToolFinished(p, c, d).status # "created"
           /\ InboxSubmitted(p, m, target).status # "created"
           /\ InboxConsumed(p, ms).status # "created"
           /\ ApprovalRequested(p, c).status # "created"
           /\ ApprovalDecided(p, c, d).status # "created"
           /\ RunCancelling(p).status # "created"
           /\ RunClosed(p, status).status # "created"
  <1> USE DEF Accept, Projection
  <1>1. /\ TurnStarted(RunStarted(p), t).status # "created"
        /\ TurnStarted(p, t).status # "created"
    BY DEF TurnStarted, RunStarted
  <1>2. /\ StepStarted(p, t, s).status # "created"
        /\ AssistantMessage(p, r).status # "created"
        /\ StepCompleted(p, t, s).status # "created"
    BY DEF StepStarted, AssistantMessage, StepCompleted
  <1>3. /\ ToolRequested(p, c).status # "created"
        /\ ToolStarted(p, c).status # "created"
        /\ ToolFinished(p, c, d).status # "created"
    BY DEF ToolRequested, ToolStarted, ToolFinished
  <1>4. /\ InboxSubmitted(p, m, target).status # "created"
        /\ InboxConsumed(p, ms).status # "created"
    BY DEF InboxSubmitted, InboxConsumed
  <1>5. /\ ApprovalRequested(p, c).status # "created"
        /\ ApprovalDecided(p, c, d).status # "created"
        /\ RunCancelling(p).status # "created"
    BY DEF ApprovalRequested, ApprovalDecided, RunCancelling
  <1>6. RunClosed(p, status).status # "created"
    BY DEF RunClosed, Terminal
  <1> QED
    BY <1>1, <1>2, <1>3, <1>4, <1>5, <1>6

(***************************************************************************)
(* The status.                                                             *)
(***************************************************************************)

\* The status changes with the approvals, a cancellation and the end of the
\* run, and with no other event.
LEMMA StatusOfEvents ==
    ASSUME NEW p \in Projection, NEW c, NEW d, NEW status,
           NEW t, NEW s, NEW r, NEW m, NEW ms, NEW target
    PROVE  /\ TurnStarted(p, t).status = p.status
           /\ StepStarted(p, t, s).status = p.status
           /\ AssistantMessage(p, r).status = p.status
           /\ StepCompleted(p, t, s).status = p.status
           /\ ToolRequested(p, c).status = p.status
           /\ ToolStarted(p, c).status = p.status
           /\ ToolFinished(p, c, d).status = p.status
           /\ InboxSubmitted(p, m, target).status = p.status
           /\ InboxConsumed(p, ms).status = p.status
           /\ IF ApprovalRequested(p, c).ok
              THEN /\ p.status = "running"
                   /\ ApprovalRequested(p, c).status = "waiting_approval"
              ELSE ApprovalRequested(p, c).status = p.status
           /\ IF ApprovalDecided(p, c, d).ok
              THEN /\ p.status = "waiting_approval"
                   /\ ApprovalDecided(p, c, d).status = "running"
              ELSE ApprovalDecided(p, c, d).status = p.status
           /\ IF RunCancelling(p).ok
              THEN /\ p.status \in {"running", "waiting_approval"}
                   /\ RunCancelling(p).status = "cancelling"
              ELSE RunCancelling(p).status = p.status
           /\ IF RunClosed(p, status).ok
              THEN /\ p.ok /\ p.status \in {"running", "cancelling", "waiting_approval"}
                   /\ RunClosed(p, status).status = status
              ELSE RunClosed(p, status).status = p.status
  <1> USE DEF Accept, Projection
  <1>1. /\ TurnStarted(p, t).status = p.status
        /\ StepStarted(p, t, s).status = p.status
    BY DEF TurnStarted, StepStarted
  <1>2. /\ AssistantMessage(p, r).status = p.status
        /\ StepCompleted(p, t, s).status = p.status
    BY DEF AssistantMessage, StepCompleted
  <1>3. /\ ToolRequested(p, c).status = p.status
        /\ ToolStarted(p, c).status = p.status
        /\ ToolFinished(p, c, d).status = p.status
    BY DEF ToolRequested, ToolStarted, ToolFinished
  <1>4. /\ InboxSubmitted(p, m, target).status = p.status
        /\ InboxConsumed(p, ms).status = p.status
    BY DEF InboxSubmitted, InboxConsumed
  <1>5. IF ApprovalRequested(p, c).ok
        THEN /\ p.status = "running"
             /\ ApprovalRequested(p, c).status = "waiting_approval"
        ELSE ApprovalRequested(p, c).status = p.status
    BY DEF ApprovalRequested
  <1>6. IF ApprovalDecided(p, c, d).ok
        THEN /\ p.status = "waiting_approval"
             /\ ApprovalDecided(p, c, d).status = "running"
        ELSE ApprovalDecided(p, c, d).status = p.status
    BY DEF ApprovalDecided
  <1>7. IF RunCancelling(p).ok
        THEN /\ p.status \in {"running", "waiting_approval"}
             /\ RunCancelling(p).status = "cancelling"
        ELSE RunCancelling(p).status = p.status
    BY DEF RunCancelling
  <1>8. IF RunClosed(p, status).ok
        THEN /\ p.ok /\ p.status \in {"running", "cancelling", "waiting_approval"}
             /\ RunClosed(p, status).status = status
        ELSE RunClosed(p, status).status = p.status
    BY DEF RunClosed
  <1> QED
    BY <1>1, <1>2, <1>3, <1>4, <1>5, <1>6, <1>7, <1>8

\* The provider's answer, recorded by assistant.message, gives a projection.
LEMMA AssistantType ==
    ASSUME NEW p \in Projection, NEW r \in Responses \cup {NoResponse}
    PROVE  AssistantMessage(p, r) \in Projection
  <1>1. <<>> \in Seq(CallIds)
    OBVIOUS
  <1>2. /\ r.stop \in StopReason \cup {"none"}
        /\ r.calls \in Seq(CallIds)
        /\ r.tokens \in Nat
    <2>1. CASE r \in Responses
      BY <2>1, ResponsesAssumption
    <2>2. CASE r = NoResponse
      BY <2>2, <1>1 DEF NoResponse
    <2> QED
      BY <2>1, <2>2
  <1> QED
    BY <1>2, AssistantEventType

(***************************************************************************)
(* Type correctness.  next must point at a call where the driver handles   *)
(* one, or the events about it would be about nothing: AtCall.             *)
(***************************************************************************)

\* A decision keeps the types if it leads to a point of the driver, and to a
\* call point only with next at a call.
LEMMA GotoType ==
    ASSUME TypeOK, NEW point \in Points, Goto(point),
           point \in CallPoints => next <= Len(run.asst.calls)
    PROVE  TypeOK' /\ AtCall'
BY DEF TypeOK, AtCall, Goto, Enter

\* A commit keeps the types under the same condition.
LEMMA CommitType ==
    ASSUME TypeOK, NEW projection \in Projection, NEW point \in Points,
           Commit(projection, point),
           next' \in Nat \ {0}, resp' \in Responses \cup {NoResponse},
           point \in CallPoints => next' <= Len(projection.asst.calls)
    PROVE  TypeOK' /\ AtCall'
  <1>1. "down" \in Points /\ "down" \notin CallPoints
    BY DEF Points, AwaitPoints, CallPoints
  <1> QED
    BY <1>1 DEF TypeOK, AtCall, Commit

\* The call the driver is at, and the length of the list it is taken from.
LEMMA CallType ==
    ASSUME TypeOK
    PROVE  /\ Len(run.asst.calls) \in Nat
           /\ next <= Len(run.asst.calls) => Call \in CallIds
BY DEF TypeOK, Projection, Assistant, Call

\* Events of a call do not change the list of calls.
LEMMA CallEventsKeepList ==
    ASSUME NEW p \in Projection, NEW c, NEW outcome
    PROVE  /\ ToolRequested(p, c).asst = p.asst
           /\ ToolStarted(p, c).asst = p.asst
           /\ ToolFinished(p, c, outcome).asst = p.asst
           /\ ApprovalRequested(p, c).asst = p.asst
           /\ ApprovalDecided(p, c, outcome).asst = p.asst
BY DEF ToolRequested, ToolStarted, ToolFinished, ApprovalRequested,
       ApprovalDecided, Accept, Projection

\* Starting, resuming, crashing and raising keep the types.
LEMMA LifeCycleType ==
    ASSUME TypeOK, AtCall, Start \/ Resume \/ Crash \/ Raise
    PROVE  TypeOK' /\ AtCall'
  <1> USE DEF Points, AwaitPoints, DecisionPoints, CallPoints
  <1>1. CASE Start
    <2>1. TurnStarted(RunStarted(run), 1) \in Projection
      BY RunEventTypes DEF TypeOK, Terminal
    <2> QED
      BY <1>1, <2>1, CommitType DEF Start, TypeOK
  <1>2. CASE Resume
    BY <1>2, GotoType DEF Resume
  <1>3. CASE Crash
    BY <1>3, LimitsAssumption DEF Crash, TypeOK, AtCall, OpState
  <1>4. CASE Raise
    BY <1>4, GotoType DEF Raise
  <1> QED
    BY <1>1, <1>2, <1>3, <1>4

\* The decisions at the top of the driving loop keep the types.
LEMMA LoopType ==
    ASSUME TypeOK, Loop
    PROVE  TypeOK' /\ AtCall'
  <1> USE DEF Points, AwaitPoints, DecisionPoints, CommitPoints, CallPoints,
              Terminal
  <1>1. CASE LoopReturns
    BY <1>1, GotoType DEF LoopReturns
  <1>2. CASE LoopCancels
    BY <1>2, GotoType DEF LoopCancels, FinishCancellation
  <1>3. CASE LoopFindsUncertain
    BY <1>3, GotoType DEF LoopFindsUncertain
  <1>4. CASE Settle
    BY <1>4, GotoType DEF Settle
  <1>5. CASE LoopNeedsStep
    BY <1>5, GotoType DEF LoopNeedsStep
  <1>6. CASE LoopContinuesStep
    BY <1>6, GotoType DEF LoopContinuesStep
  <1> QED
    BY <1>1, <1>2, <1>3, <1>4, <1>5, <1>6 DEF Loop

\* The steps of a model turn keep the types.
LEMMA TurnType ==
    ASSUME TypeOK,
           \/ ConsumeForStep \/ ConsumeForTurn \/ StartTurn \/ StartStep
           \/ ModelResponds \/ ModelFails \/ PersistResponse
           \/ CheckBudget \/ CompleteStep
    PROVE  TypeOK' /\ AtCall'
  <1> USE DEF Points, AwaitPoints, DecisionPoints, CommitPoints, CallPoints
  <1>1. ASSUME NEW from, NEW target, NEW then \in {"start_step", "loop"},
               Consume(from, target, then)
        PROVE  TypeOK' /\ AtCall'
    <2>1. InboxConsumed(run, Pending(run, target)) \in Projection
      BY InboxEventTypes DEF TypeOK, Pending
    <2>2. CASE run.status = "running"
      BY <1>1, <2>1, <2>2, CommitType DEF Consume, TypeOK
    <2>3. CASE run.status # "running"
      BY <1>1, <2>3 DEF Consume, TypeOK, AtCall
    <2> QED
      BY <2>2, <2>3
  <1>2. CASE ConsumeForStep \/ ConsumeForTurn
    BY <1>1, <1>2 DEF ConsumeForStep, ConsumeForTurn
  <1>3. CASE StartTurn
    <2>1. TurnStarted(run, run.turn + 1) \in Projection
      <3>1. run \in Projection /\ run.turn + 1 \in Nat
        BY DEF TypeOK, Projection
      <3> QED
        BY <3>1, RunEventTypes DEF Terminal
    <2> QED
      BY <1>3, <2>1, CommitType DEF StartTurn, TypeOK
  <1>4. CASE StartStep
    <2>1. StepStarted(run, run.turn, run.doneInTurn + 1) \in Projection
      <3>1. /\ run \in Projection /\ run.turn \in Nat
            /\ run.doneInTurn + 1 \in Nat
        BY DEF TypeOK, Projection
      <3> QED
        BY <3>1, RunEventTypes DEF Terminal
    <2> QED
      BY <1>4, <2>1, CommitType DEF StartStep, TypeOK
  <1>5. CASE ModelResponds
    <2>1. CASE run.status = "cancelling"
      BY <1>5, <2>1, GotoType DEF ModelResponds
    <2>2. CASE run.status # "cancelling"
      BY <1>5, <2>2 DEF ModelResponds, TypeOK, AtCall
    <2> QED
      BY <2>1, <2>2
  <1>6. CASE ModelFails
    BY <1>6, GotoType DEF ModelFails
  <1>7. CASE PersistResponse
    <2>1. AssistantMessage(run, resp) \in Projection
      BY AssistantType DEF TypeOK
    <2> QED
      BY <1>7, <2>1, CommitType DEF PersistResponse, TypeOK
  <1>8. CASE CheckBudget
    BY <1>8 DEF CheckBudget, TypeOK, AtCall
  <1>9. CASE CompleteStep
    <2>1. StepCompleted(run, run.turn, run.step) \in Projection
      <3>1. run \in Projection /\ run.turn \in Nat /\ run.step \in Nat
        BY DEF TypeOK, Projection
      <3> QED
        BY <3>1, RunEventTypes DEF Terminal
    <2> QED
      BY <1>9, <2>1, CommitType DEF CompleteStep, TypeOK
  <1> QED
    BY <1>2, <1>3, <1>4, <1>5, <1>6, <1>7, <1>8, <1>9

\* The steps on the tool calls keep the types.
LEMMA ToolsType ==
    ASSUME TypeOK, AtCall, Tools
    PROVE  TypeOK' /\ AtCall'
  <1> USE DEF Points, AwaitPoints, DecisionPoints, CommitPoints, CallPoints,
              Terminal
  <1>t. /\ run \in Projection /\ next \in Nat \ {0}
        /\ next + 1 \in Nat \ {0}
        /\ resp \in Responses \cup {NoResponse}
    BY DEF TypeOK
  <1>1. CASE RequestTool
    <2>1. Call \in CallIds
      BY <1>1, CallType DEF RequestTool
    <2>2. ToolRequested(run, Call) \in Projection
      BY <1>t, <2>1, CallEventTypes DEF Finished
    <2>3. CASE run.tools[Call].state = "absent"
      BY <1>1, <1>t, <2>2, <2>3, CommitType DEF RequestTool
    <2>4. CASE run.tools[Call].state # "absent"
      BY <1>1, <1>t, <2>4 DEF RequestTool, TypeOK, AtCall, At
    <2> QED
      BY <2>3, <2>4
  <1>2. CASE RequestsDone
    BY <1>2 DEF RequestsDone, TypeOK, AtCall
  <1>3. CASE SkipTool
    BY <1>3, <1>t DEF SkipTool, TypeOK, AtCall, At
  <1>4. CASE SelectTool
    BY <1>4, GotoType DEF SelectTool
  <1>5. CASE ToolsDone
    BY <1>5, GotoType DEF ToolsDone
  <1>6. ASSUME NEW verdict \in Verdict, Preflight(verdict)
        PROVE  TypeOK' /\ AtCall'
    <2>1. next <= Len(run.asst.calls)
      BY <1>6 DEF Preflight, At, AtCall
    <2> QED
      BY <1>6, <2>1, GotoType DEF Preflight
  <1>7. CASE PreflightFails
    BY <1>7, GotoType DEF PreflightFails
  <1>8. CASE DenyTool
    <2>1. next <= Len(run.asst.calls) /\ Call \in CallIds
      BY <1>8, CallType DEF DenyTool, At, AtCall
    <2>2. ToolStarted(run, Call) \in Projection
      BY <1>t, <2>1, CallEventTypes DEF Finished
    <2> QED
      BY <1>8, <1>t, <2>1, <2>2, CommitType, CallEventsKeepList DEF DenyTool
  <1>9. CASE DenyResult
    <2>1. next <= Len(run.asst.calls) /\ Call \in CallIds
      BY <1>9, CallType DEF DenyResult, At, AtCall
    <2>2. ToolFinished(run, Call, "failed") \in Projection
      BY <1>t, <2>1, CallEventTypes DEF Finished
    <2> QED
      BY <1>9, <1>t, <2>2, CommitType DEF DenyResult
  <1>10. CASE AskApproval
    <2>1. next <= Len(run.asst.calls) /\ Call \in CallIds
      BY <1>10, CallType DEF AskApproval, At, AtCall
    <2>2. ApprovalRequested(run, Call) \in Projection
      BY <1>t, <2>1, CallEventTypes DEF Finished
    <2> QED
      BY <1>10, <1>t, <2>2, CommitType DEF AskApproval
  <1>11. CASE StartTool
    <2>1. next <= Len(run.asst.calls) /\ Call \in CallIds
      BY <1>11, CallType DEF StartTool, At, AtCall
    <2>2. ToolStarted(run, Call) \in Projection
      BY <1>t, <2>1, CallEventTypes DEF Finished
    <2> QED
      BY <1>11, <1>t, <2>1, <2>2, CommitType, CallEventsKeepList DEF StartTool
  <1>12. ASSUME NEW verdict \in Verdict, Dispatch(verdict)
         PROVE  TypeOK' /\ AtCall'
    <2>1. next <= Len(run.asst.calls) /\ Call \in CallIds
      BY <1>12, CallType DEF Dispatch, At, AtCall
    <2>2. pc' \in {"tool_failed", "failed_uncertain", "executing"}
      BY <1>12 DEF Dispatch, Enter, Broken
    <2>3. attempts' \in [CallIds -> Nat]
      BY <1>12, <2>1 DEF Dispatch, TypeOK
    <2> QED
      BY <1>12, <2>1, <2>2, <2>3 DEF Dispatch, TypeOK, AtCall
  <1>13. CASE ToolEnds
    <2>1. next <= Len(run.asst.calls)
      BY <1>13 DEF ToolEnds, At, AtCall
    <2> QED
      BY <1>13, <2>1, GotoType DEF ToolEnds, Broken
  <1>14. CASE RecordResult
    <2>1. next <= Len(run.asst.calls) /\ Call \in CallIds
      BY <1>14, CallType DEF RecordResult, AtCall
    <2>2. \A outcome \in Finished :
             ToolFinished(run, Call, outcome) \in Projection
      BY <1>t, <2>1, CallEventTypes
    <2> QED
      BY <1>14, <1>t, <2>2, CommitType DEF RecordResult, Finished
  <1>15. CASE AfterTools
    BY <1>15, GotoType DEF AfterTools
  <1>16. CASE DispatchFails
    <2>1. next <= Len(run.asst.calls)
      BY <1>16 DEF DispatchFails, At, AtCall
    <2> QED
      BY <1>16, <2>1, GotoType DEF DispatchFails, Broken
  <1> QED
    BY <1>1, <1>2, <1>3, <1>4, <1>5, <1>6, <1>7, <1>8, <1>9, <1>10, <1>11,
       <1>12, <1>13, <1>14, <1>15, <1>16 DEF Tools

\* Timeouts, failures and terminal events keep the types.
LEMMA ClosingType ==
    ASSUME TypeOK, Timeout \/ Handler \/ Fail \/ Close
    PROVE  TypeOK' /\ AtCall'
  <1> USE DEF Points, AwaitPoints, DecisionPoints, CommitPoints, CallPoints,
              Terminal
  <1>1. CASE Timeout
    BY <1>1, GotoType DEF Timeout
  <1>2. CASE Handler
    BY <1>2, GotoType DEF Handler
  <1>3. CASE Fail
    BY <1>3, GotoType DEF Fail, FinishCancellation
  <1>4. CASE Close
    <2>1. RunClosed(run, pc) \in Projection
      BY <1>4, RunEventTypes DEF Close, TypeOK
    <2> QED
      BY <1>4, <2>1, CommitType DEF Close, TypeOK
  <1> QED
    BY <1>1, <1>2, <1>3, <1>4

\* What an operator's event leaves alone: the calls of the step, the states
\* of the tools, and the first decision on every call that has one.
KeepsCalls(p, q) ==
    /\ q.asst = p.asst /\ q.tools = p.tools
    /\ \A c \in CallIds : p.first[c] # "none" => q.first[c] = p.first[c]

\* A step of an operator keeps the types, and does not touch the driver or
\* the calls of the step.
LEMMA OperatorStep ==
    ASSUME TypeOK, NEW o \in Operators, Operator(o)
    PROVE  /\ TypeOK' /\ KeepsCalls(run, run')
           /\ UNCHANGED <<pc, next, resp, attempts>>
  <1>t. run \in Projection /\ op[o] \in OpState
    BY DEF TypeOK
  <1>1. ASSUME NEW call \in OpState, OpBegin(o, call)
        PROVE  /\ TypeOK' /\ KeepsCalls(run, run')
               /\ UNCHANGED <<pc, next, resp, attempts>>
    BY <1>1 DEF OpBegin, TypeOK, KeepsCalls
  <1>2. ASSUME NEW q \in Projection, NEW rest \in OpState, KeepsCalls(run, q),
               OpCommit(o, q, rest)
        PROVE  /\ TypeOK' /\ KeepsCalls(run, run')
               /\ UNCHANGED <<pc, next, resp, attempts>>
    BY <1>2 DEF OpCommit, TypeOK
  <1>3. CASE \E c \in CallIds, d \in {"approved", "rejected"} : Decide(o, c, d)
    BY <1>1, <1>3 DEF Decide, OpState
  <1>4. CASE Cancel(o)
    BY <1>1, <1>4 DEF Cancel, OpState
  <1>5. CASE \E m \in MsgIds, target \in InboxTarget : Submit(o, m, target)
    BY <1>1, <1>5 DEF Submit, OpState
  <1>6. CASE DecideCommits(o)
    <2>1. op[o].call \in CallIds /\ op[o].decision \in {"approved", "rejected"}
      BY <1>t, <1>6 DEF DecideCommits, OpState, Idle
    <2>2. ApprovalDecided(run, op[o].call, op[o].decision) \in Projection
      BY <1>t, <2>1, CallEventTypes DEF Finished
    <2>3. KeepsCalls(run, ApprovalDecided(run, op[o].call, op[o].decision))
      BY <1>t, <2>1 DEF KeepsCalls, ApprovalDecided, Accept, Projection
    <2>4. [do |-> "reject"] \in OpState /\ Idle \in OpState
      BY DEF OpState
    <2> QED
      BY <1>2, <1>6, <2>2, <2>3, <2>4 DEF DecideCommits
  <1>7. CASE RejectCommits(o)
    <2>1. RunClosed(run, "failed") \in Projection
      BY <1>t, RunEventTypes DEF Terminal
    <2>2. KeepsCalls(run, RunClosed(run, "failed"))
      BY <1>t DEF KeepsCalls, RunClosed, Accept, Projection
    <2> QED
      BY <1>2, <1>7, <2>1, <2>2 DEF RejectCommits, OpState
  <1>8. CASE CancelCommits(o)
    <2>1. RunCancelling(run) \in Projection
      BY <1>t, RunEventTypes DEF Terminal
    <2>2. KeepsCalls(run, RunCancelling(run))
      BY <1>t DEF KeepsCalls, RunCancelling, Accept, Projection
    <2> QED
      BY <1>2, <1>8, <2>1, <2>2 DEF CancelCommits, OpState
  <1>9. CASE SubmitCommits(o)
    <2>1. op[o].msg \in MsgIds /\ op[o].target \in InboxTarget
      BY <1>t, <1>9 DEF SubmitCommits, OpState, Idle
    <2>2. InboxSubmitted(run, op[o].msg, op[o].target) \in Projection
      BY <1>t, <2>1, InboxEventTypes
    <2>3. KeepsCalls(run, InboxSubmitted(run, op[o].msg, op[o].target))
      BY <1>t, <2>1 DEF KeepsCalls, InboxSubmitted, Accept, Projection
    <2> QED
      BY <1>2, <1>9, <2>2, <2>3 DEF SubmitCommits, OpState
  <1>10. CASE OperatorStops(o)
    BY <1>10, LimitsAssumption DEF OperatorStops, TypeOK, KeepsCalls, OpState
  <1> QED
    BY <1>3, <1>4, <1>5, <1>6, <1>7, <1>8, <1>9, <1>10
    DEF Operator, Operates, OperatorCommits

\* Every step keeps the types.
LEMMA TypeStep == TypeOK /\ AtCall /\ [Next]_vars => TypeOK' /\ AtCall'
  <1> SUFFICES ASSUME TypeOK, AtCall, [Next]_vars
               PROVE  TypeOK' /\ AtCall'
    OBVIOUS
  <1>1. CASE Start \/ Resume \/ Crash \/ Raise
    BY <1>1, LifeCycleType
  <1>2. CASE Loop
    BY <1>2, LoopType
  <1>3. CASE \/ ConsumeForStep \/ ConsumeForTurn \/ StartTurn \/ StartStep
             \/ ModelResponds \/ ModelFails \/ PersistResponse
             \/ CheckBudget \/ CompleteStep
    BY <1>3, TurnType
  <1>4. CASE Tools
    BY <1>4, ToolsType
  <1>5. CASE Timeout \/ Handler \/ Fail \/ Close
    BY <1>5, ClosingType
  <1>6. ASSUME NEW o \in Operators, Operator(o)
        PROVE  TypeOK' /\ AtCall'
    BY <1>6, OperatorStep DEF AtCall, KeepsCalls
  <1>7. CASE UNCHANGED vars
    BY <1>7 DEF vars, TypeOK, AtCall
  <1> QED
    BY <1>1, <1>2, <1>3, <1>4, <1>5, <1>6, <1>7 DEF Next, Driver, Proceed

\* The initial state is well typed.
LEMMA TypeInit == Init => TypeOK /\ AtCall
BY EmptyType, LimitsAssumption
DEF Init, TypeOK, AtCall, Points, AwaitPoints, CallPoints, OpState

\* EventRuntime is type correct: whatever the operators, the provider and
\* the crashes do, the stream projects to a run of the declared shape, and
\* the driver handles a call only where there is one.
THEOREM TypeCorrect == Spec => []TypeOK
  <1>1. Spec => [](TypeOK /\ AtCall)
    BY TypeInit, TypeStep, PTL DEF Spec
  <1> QED
    BY <1>1, PTL

(***************************************************************************)
(* The empty stream.                                                       *)
(***************************************************************************)

\* A stream is empty or has a run.started event.
Begun == run = Empty \/ run.status # "created"

\* A stream that has begun stays so.
LEMMA BegunStep ==
    ASSUME TypeOK, run.status # "created", [Next]_vars
    PROVE  run'.status # "created"
  <1>t. run \in Projection
    BY DEF TypeOK
  <1>e. run' = run => run'.status # "created"
    OBVIOUS
  <1>1. CASE Start \/ Resume \/ Crash
    BY <1>t, <1>1, BegunEvents DEF Start, Resume, Crash, Goto, Commit, Terminal
  <1>2. CASE Loop \/ ModelResponds \/ ModelFails \/ CheckBudget \/ Timeout
             \/ Handler \/ Fail \/ Raise
    BY <1>2
    DEF Loop, LoopReturns, LoopCancels, LoopFindsUncertain, Settle,
        LoopNeedsStep, LoopContinuesStep, ModelResponds, ModelFails,
        CheckBudget, Timeout, Handler, Fail, Raise, Goto
  <1>3. CASE ConsumeForStep \/ ConsumeForTurn
    BY <1>t, <1>3, BegunEvents DEF ConsumeForStep, ConsumeForTurn, Consume,
                                   Commit, Terminal
  <1>4. CASE StartTurn \/ StartStep \/ PersistResponse \/ CompleteStep
    BY <1>t, <1>4, BegunEvents DEF StartTurn, StartStep, PersistResponse,
                                   CompleteStep, Commit, Terminal
  <1>5. CASE Close
    BY <1>t, <1>5, BegunEvents DEF Close, Commit
  <1>6. CASE RequestTool \/ DenyTool \/ DenyResult \/ AskApproval \/ StartTool
             \/ RecordResult
    BY <1>t, <1>6, BegunEvents DEF RequestTool, DenyTool, DenyResult,
            AskApproval, StartTool, RecordResult, Commit, Terminal
  <1>7. CASE \/ RequestsDone \/ SkipTool \/ SelectTool \/ ToolsDone
             \/ (\E verdict \in Verdict : Preflight(verdict))
             \/ PreflightFails
             \/ (\E verdict \in Verdict : Dispatch(verdict)) \/ DispatchFails
             \/ ToolEnds \/ AfterTools
    BY <1>7 DEF RequestsDone, SkipTool, SelectTool, ToolsDone, Preflight,
                PreflightFails, Dispatch, DispatchFails, ToolEnds, AfterTools,
                Goto
  <1>8. ASSUME NEW o \in Operators, Operator(o)
        PROVE  run'.status # "created"
    <2>1. CASE OperatorCommits(o)
      BY <1>t, <2>1, BegunEvents DEF OperatorCommits, DecideCommits,
             RejectCommits, CancelCommits, SubmitCommits, OpCommit, Terminal
    <2>2. CASE ~OperatorCommits(o)
      BY <1>8, <2>2 DEF Operator, Operates, Decide, Cancel, Submit, OpBegin,
                        OperatorStops
    <2> QED
      BY <2>1, <2>2
  <1> QED
    BY <1>1, <1>2, <1>3, <1>4, <1>5, <1>6, <1>7, <1>8
    DEF Next, Driver, Proceed, Tools, vars

\* While the stream is empty the driver is down and no operator acts: only
\* an investigation can write its first event.
Untouched ==
    run = Empty => pc = "down" /\ \A o \in Operators : op[o] = Idle

\* The driver is down: of its steps none is enabled.
LEMMA DriverDown ==
    ASSUME pc = "down"
    PROVE  ~Driver
  <1>1. ~Loop /\ ~Tools
    BY DEF Loop, LoopReturns, LoopCancels, LoopFindsUncertain, Settle,
           LoopNeedsStep, LoopContinuesStep, Tools, RequestTool,
           RequestsDone, SkipTool, SelectTool, ToolsDone, Preflight,
           PreflightFails, DenyTool, DenyResult, AskApproval, StartTool,
           Dispatch, DispatchFails, ToolEnds, RecordResult, AfterTools, At
  <1>2. ~ConsumeForStep /\ ~ConsumeForTurn /\ ~StartTurn /\ ~StartStep
    BY DEF ConsumeForStep, ConsumeForTurn, Consume, StartTurn, StartStep, At
  <1>3. /\ ~ModelResponds /\ ~ModelFails /\ ~PersistResponse
        /\ ~CheckBudget /\ ~CompleteStep
    BY DEF ModelResponds, ModelFails, PersistResponse, CheckBudget,
           CompleteStep, At
  <1>4. ~Timeout /\ ~Handler /\ ~Fail /\ ~Close /\ ~Raise
    BY DEF Timeout, Handler, Fail, Close, Raise, At, Terminal
  <1> QED
    BY <1>1, <1>2, <1>3, <1>4 DEF Driver, Proceed

\* From the empty stream neither the driver nor an operator takes a step.
LEMMA EmptyQuiet ==
    ASSUME Untouched, run = Empty
    PROVE  /\ ~Resume /\ ~Crash /\ ~Driver
           /\ \A o \in Operators : ~Operator(o)
  <1>1. ~Resume /\ ~Crash /\ ~Driver
    BY DriverDown DEF Untouched, Resume, Crash
  <1>2. ASSUME NEW o \in Operators
        PROVE  ~Operator(o)
    <2>1. op[o] = Idle
      BY DEF Untouched
    <2> QED
      BY <2>1 DEF Operator, Operates, Decide, Cancel, Submit, OpBegin, OperatorCommits,
                  DecideCommits, RejectCommits, CancelCommits, SubmitCommits,
                  OperatorStops, Idle
  <1> QED
    BY <1>1, <1>2

\* Start gives a stream that has begun.
LEMMA StartBegins ==
    ASSUME Start
    PROVE  run' # Empty /\ run'.status = "running"
BY DEF Start, Commit, TurnStarted, RunStarted, Accept, Empty, Terminal

\* Every step of the runtime keeps the two invariants of the empty stream.
LEMMA BegunNext ==
    ASSUME TypeOK, Begun, Untouched, [Next]_vars
    PROVE  Begun' /\ Untouched'
  <1>1. CASE run = Empty
    <2>1. CASE Start
      BY <2>1, StartBegins DEF Begun, Untouched
    <2>2. CASE UNCHANGED vars
      BY <2>2 DEF Begun, Untouched, vars
    <2> QED
      BY <1>1, <2>1, <2>2, EmptyQuiet DEF Next
  <1>2. CASE run.status # "created"
    <2>1. run'.status # "created"
      BY <1>2, BegunStep
    <2> QED
      BY <2>1 DEF Begun, Untouched, Empty
  <1> QED
    BY <1>1, <1>2 DEF Begun

(***************************************************************************)
(* The gate in front of mutations.  GateInv is inductive: Entered is what  *)
(* is wanted, and the other conjuncts carry the approval and the novelty   *)
(* of a mutation from the decision in _execute_current_tools, over the     *)
(* commit of tool.started, to the entry of the handler.                    *)
(***************************************************************************)

\* The points where the driver is on its way into a handler.
GatePoints == {"preflight", "deny", "ask", "start_tool", "dispatch"}

\* The gate part of GateInv, whose types are proved above.
Gate == NotYetStarted /\ Cleared /\ Entered

\* An operator's event is monotone.
LEMMA KeepsIsMonotone ==
    ASSUME NEW p, NEW q, KeepsCalls(p, q)
    PROVE  Monotone(p, q)
BY DEF KeepsCalls, Monotone

\* A monotone step that enters no handler and ends off the way into one
\* keeps the gate.
LEMMA GateElsewhere ==
    ASSUME TypeOK, Gate, Monotone(run, run'), attempts' = attempts,
           pc' \notin GatePoints
    PROVE  Gate'
  <1>1. NotYetStarted' /\ Cleared'
    BY DEF NotYetStarted, Cleared, GatePoints
  <1>2. Entered'
    <2> SUFFICES ASSUME NEW c \in Mutations, attempts[c] > 0
                 PROVE  /\ attempts[c] = 1
                        /\ run'.first[c] = "approved"
                        /\ run'.tools[c].state \notin {"absent", "requested"}
      BY DEF Entered
    <2> QED
      BY MutationsAssumption DEF Gate, Entered, Monotone
  <1> QED
    BY <1>1, <1>2 DEF Gate

\* A decision that leads off the way into a handler keeps the gate.
LEMMA GotoElsewhere ==
    ASSUME TypeOK, Gate, NEW point, Goto(point), point \notin GatePoints
    PROVE  Gate'
BY GateElsewhere DEF Goto, Enter, Monotone

\* A commit that leads off the way into a handler keeps the gate.
LEMMA CommitElsewhere ==
    ASSUME TypeOK, Gate, NEW projection, NEW point, Commit(projection, point),
           Monotone(run, projection), point \notin GatePoints
    PROVE  Gate'
BY GateElsewhere DEF Commit, GatePoints

\* Outside the tool calls every driver step keeps the gate.
LEMMA GateOutsideTools ==
    ASSUME TypeOK, Gate,
           \/ Start \/ Resume \/ Crash \/ Raise \/ Loop
           \/ ConsumeForStep \/ ConsumeForTurn \/ StartTurn \/ StartStep
           \/ ModelResponds \/ ModelFails \/ PersistResponse
           \/ CheckBudget \/ CompleteStep
           \/ Timeout \/ Handler \/ Fail \/ Close
    PROVE  Gate'
  <1> USE DEF GatePoints
  <1>t. run \in Projection
    BY DEF TypeOK
  <1>s. Monotone(run, run)
    BY DEF Monotone
  <1>1. CASE Start
    BY <1>1, <1>t, RunEventsMonotone, CommitElsewhere DEF Start
  <1>2. CASE Resume \/ Raise \/ ModelFails \/ Timeout
    BY <1>2, GotoElsewhere DEF Resume, Raise, ModelFails, Timeout
  <1>3. CASE Crash
    BY <1>3, <1>s, GateElsewhere DEF Crash
  <1>4. CASE Loop
    <2>1. CASE LoopReturns \/ LoopFindsUncertain
      BY <2>1, GotoElsewhere DEF LoopReturns, LoopFindsUncertain
    <2>2. CASE LoopCancels
      BY <2>2, GotoElsewhere DEF LoopCancels, FinishCancellation
    <2>3. CASE Settle
      BY <2>3, GotoElsewhere DEF Settle
    <2>4. CASE LoopNeedsStep \/ LoopContinuesStep
      BY <2>4, GotoElsewhere DEF LoopNeedsStep, LoopContinuesStep
    <2> QED
      BY <1>4, <2>1, <2>2, <2>3, <2>4 DEF Loop
  <1>5. ASSUME NEW from, NEW target, NEW then \in {"start_step", "loop"},
               Consume(from, target, then)
        PROVE  Gate'
    <2>1. CASE run.status = "running"
      BY <1>5, <1>t, <2>1, RunEventsMonotone, CommitElsewhere DEF Consume
    <2>2. CASE run.status # "running"
      BY <1>5, <1>s, <2>2, GateElsewhere DEF Consume
    <2> QED
      BY <2>1, <2>2
  <1>6. CASE ConsumeForStep \/ ConsumeForTurn
    BY <1>5, <1>6 DEF ConsumeForStep, ConsumeForTurn
  <1>7. CASE StartTurn \/ StartStep \/ CompleteStep \/ Close
    BY <1>7, <1>t, RunEventsMonotone, CommitElsewhere
    DEF StartTurn, StartStep, CompleteStep, Close
  <1>8. CASE ModelResponds
    BY <1>8, <1>s, GateElsewhere DEF ModelResponds, Goto, Enter
  <1>9. CASE PersistResponse
    BY <1>9, <1>t, RunEventsMonotone, CommitElsewhere DEF PersistResponse
  <1>10. CASE CheckBudget
    BY <1>10, <1>s, GateElsewhere DEF CheckBudget
  <1>11. CASE Handler \/ Fail
    BY <1>11, GotoElsewhere DEF Handler, Fail, FinishCancellation
  <1> QED
    BY <1>1, <1>2, <1>3, <1>4, <1>6, <1>7, <1>8, <1>9, <1>10, <1>11

\* On the way into a handler every driver step keeps the gate: this is where
\* a mutation without approval, or one that was started before, is stopped.
LEMMA GateInTools ==
    ASSUME TypeOK, AtCall, Gate, Tools
    PROVE  Gate'
  <1> USE DEF GatePoints
  <1>t. run \in Projection
    BY DEF TypeOK
  <1>s. Monotone(run, run)
    BY DEF Monotone
  <1>1. CASE RequestTool
    <2>1. Call \in CallIds
      BY <1>1, CallType DEF RequestTool
    <2>2. Monotone(run, ToolRequested(run, Call))
      BY <1>t, <2>1, CallEventsMonotone DEF Finished
    <2>3. CASE run.tools[Call].state = "absent"
      BY <1>1, <2>2, <2>3, CommitElsewhere DEF RequestTool
    <2>4. CASE run.tools[Call].state # "absent"
      BY <1>1, <1>s, <2>4, GateElsewhere DEF RequestTool, At
    <2> QED
      BY <2>3, <2>4
  <1>2. CASE RequestsDone \/ SkipTool
    BY <1>2, <1>s, GateElsewhere DEF RequestsDone, SkipTool, At
  <1>3. CASE SelectTool
    <2>1. Call \in CallIds /\ UNCHANGED <<run, next, attempts>>
      BY <1>3, CallType DEF SelectTool, Goto
    <2>2. Call' = Call
      BY <2>1 DEF Call
    <2>3. pc' = "preflight" => run.tools[Call].state = "requested"
      BY <1>3 DEF SelectTool, Goto, Enter
    <2>4. pc' = "dispatch" => /\ run.tools[Call].state = "started"
                             /\ Call \notin Mutations
      <3>1. run.tools[Call].state \in ToolState \cup {"absent"}
        BY <1>t, <2>1 DEF Projection, Tool
      <3>2. pc' = "dispatch" => /\ run.tools[Call].state \notin Finished
                               /\ run.tools[Call].state # "requested"
                               /\ Call \notin Mutations
        BY <1>3 DEF SelectTool, Goto, Enter, PassedOver
      <3>3. run.tools[Call].state # "absent"
        BY <1>3 DEF SelectTool, PassedOver, InOpenStep
      <3> QED
        BY <3>1, <3>2, <3>3 DEF ToolState, Finished
    <2> QED
      BY <1>3, <2>1, <2>2, <2>3, <2>4
      DEF SelectTool, Goto, Enter, Gate, NotYetStarted, Cleared, Entered
  <1>4. CASE ToolsDone
    BY <1>4, GotoElsewhere DEF ToolsDone
  <1>5. ASSUME NEW verdict \in Verdict, Preflight(verdict)
        PROVE  Gate'
    <2>1. Call \in CallIds /\ UNCHANGED <<run, next, attempts>>
      BY <1>5, CallType DEF Preflight, At, AtCall, CallPoints, Goto
    <2>2. Call' = Call
      BY <2>1 DEF Call
    <2>3. pc' \in {"deny", "ask", "start_tool", "fail"}
      BY <1>5 DEF Preflight, Goto, Enter
    <2>4. run.tools[Call].state = "requested"
      BY <1>5 DEF Preflight, At, Gate, NotYetStarted
    <2>5. pc' = "start_tool" /\ Call \in Mutations
            => run.first[Call] = "approved"
      <3>1. run.first[Call] \in Decision
        BY <1>t, <2>1 DEF Projection
      <3> QED
        BY <1>5, <3>1
        DEF Preflight, Goto, Enter, ApprovalRequired, DurableApproval,
            Decision, Verdict
    <2> QED
      BY <2>1, <2>2, <2>3, <2>4, <2>5
      DEF Gate, NotYetStarted, Cleared, Entered
  <1>6. CASE PreflightFails
    BY <1>6, GotoElsewhere DEF PreflightFails
  <1>7. CASE DenyTool
    <2>1. Call \in CallIds
      BY <1>7, CallType DEF DenyTool, At, AtCall, CallPoints
    <2>2. Monotone(run, ToolStarted(run, Call))
      BY <1>t, <2>1, CallEventsMonotone DEF Finished
    <2> QED
      BY <1>7, <2>2, CommitElsewhere DEF DenyTool
  <1>8. CASE DenyResult
    <2>1. Call \in CallIds
      BY <1>8, CallType DEF DenyResult, At, AtCall, CallPoints
    <2>2. Monotone(run, ToolFinished(run, Call, "failed"))
      BY <1>t, <2>1, CallEventsMonotone DEF Finished
    <2> QED
      BY <1>8, <2>2, CommitElsewhere DEF DenyResult
  <1>9. CASE AskApproval
    <2>1. Call \in CallIds
      BY <1>9, CallType DEF AskApproval, At, AtCall, CallPoints
    <2>2. Monotone(run, ApprovalRequested(run, Call))
      BY <1>t, <2>1, CallEventsMonotone DEF Finished
    <2> QED
      BY <1>9, <2>2, CommitElsewhere DEF AskApproval
  <1>10. CASE StartTool
    <2>1. /\ Call \in CallIds /\ run.tools[Call].state = "requested"
          /\ Call \in Mutations => run.first[Call] = "approved"
      BY <1>10, CallType
      DEF StartTool, At, AtCall, CallPoints, Gate, NotYetStarted, Cleared
    <2>2. /\ run' = ToolStarted(run, Call)
          /\ UNCHANGED <<next, attempts>>
          /\ pc' = IF run'.ok THEN "dispatch" ELSE "down"
      BY <1>10 DEF StartTool, Commit
    <2>3. Monotone(run, run')
      BY <1>t, <2>1, <2>2, CallEventsMonotone DEF Finished
    <2>4. CASE pc' = "down"
      BY <2>2, <2>3, <2>4, GateElsewhere
    <2>5. CASE run'.ok
      <3>1. Call' = Call
        BY <1>t, <2>2, CallEventsKeepList DEF Call
      <3>2. run' = [run EXCEPT !.tools[Call].state = "started"]
        BY <1>t, <2>2, <2>5 DEF ToolStarted, Accept, Projection
      <3>3. run'.tools[Call].state = "started" /\ run'.first = run.first
        BY <1>t, <2>1, <3>2 DEF Projection, Tool
      <3>4. Call \in Mutations => attempts[Call] = 0
        BY <2>1 DEF Gate, Entered, TypeOK
      <3>5. Cleared'
        BY <2>1, <2>2, <2>5, <3>1, <3>3, <3>4 DEF Cleared
      <3>6. NotYetStarted'
        BY <2>2, <2>5 DEF NotYetStarted
      <3>7. Entered'
        <4> SUFFICES ASSUME NEW c \in Mutations, attempts[c] > 0
                     PROVE  /\ attempts[c] = 1
                            /\ run'.first[c] = "approved"
                            /\ run'.tools[c].state
                                  \notin {"absent", "requested"}
          BY <2>2 DEF Entered
        <4> QED
          BY <2>3, MutationsAssumption DEF Gate, Entered, Monotone
      <3> QED
        BY <3>5, <3>6, <3>7 DEF Gate
    <2> QED
      BY <2>2, <2>4, <2>5
  <1>11. ASSUME NEW verdict \in Verdict, Dispatch(verdict)
         PROVE  Gate'
    <2>1. /\ Call \in CallIds /\ run.tools[Call].state = "started"
          /\ Call \in Mutations => /\ run.first[Call] = "approved"
                                   /\ attempts[Call] = 0
      BY <1>11, CallType DEF Dispatch, At, AtCall, CallPoints, Gate, Cleared
    <2>2. run' = run /\ pc' \in {"tool_failed", "failed_uncertain", "executing"}
      BY <1>11 DEF Dispatch, Enter, Broken
    <2>3. CASE attempts' = attempts
      BY <1>s, <2>2, <2>3, GateElsewhere
    <2>4. CASE attempts' = [attempts EXCEPT ![Call] = @ + 1]
      <3>1. NotYetStarted' /\ Cleared'
        BY <2>2 DEF NotYetStarted, Cleared
      <3>2. Entered'
        BY <2>1, <2>2, <2>4, MutationsAssumption DEF Gate, Entered, TypeOK
      <3> QED
        BY <3>1, <3>2 DEF Gate
    <2> QED
      BY <1>11, <2>3, <2>4 DEF Dispatch
  <1>12. CASE ToolEnds
    BY <1>12, GotoElsewhere DEF ToolEnds, Broken
  <1>13. CASE RecordResult
    <2>1. Call \in CallIds
      BY <1>13, CallType DEF RecordResult, AtCall, CallPoints
    <2>2. \A outcome \in Finished :
             Monotone(run, ToolFinished(run, Call, outcome))
      BY <1>t, <2>1, CallEventsMonotone
    <2> QED
      BY <1>13, <2>2, CommitElsewhere DEF RecordResult, Finished
  <1>14. CASE AfterTools
    BY <1>14, GotoElsewhere DEF AfterTools
  <1>15. CASE DispatchFails
    BY <1>15, GotoElsewhere DEF DispatchFails, Broken
  <1> QED
    BY <1>1, <1>2, <1>3, <1>4, <1>5, <1>6, <1>7, <1>8, <1>9, <1>10, <1>11,
       <1>12, <1>13, <1>14, <1>15 DEF Tools

\* No operator can open the gate, or take away what the driver relies on.
LEMMA GateOperator ==
    ASSUME TypeOK, AtCall, Gate, NEW o \in Operators, Operator(o)
    PROVE  Gate'
  <1>1. KeepsCalls(run, run') /\ UNCHANGED <<pc, next, attempts>>
    BY OperatorStep
  <1>2. Call' = Call
    BY <1>1 DEF KeepsCalls, Call
  <1>3. pc \in GatePoints => Call \in CallIds
    BY CallType DEF AtCall, CallPoints, GatePoints
  <1>4. NotYetStarted'
    BY <1>1, <1>2 DEF Gate, NotYetStarted, KeepsCalls
  <1>5. Cleared'
    BY <1>1, <1>2, <1>3 DEF Gate, Cleared, KeepsCalls, GatePoints
  <1>6. Entered'
    BY <1>1, MutationsAssumption DEF Gate, Entered, KeepsCalls
  <1> QED
    BY <1>4, <1>5, <1>6 DEF Gate

\* GateInv holds initially.
LEMMA GateInit == Init => GateInv
  <1> SUFFICES ASSUME Init
               PROVE  GateInv
    OBVIOUS
  <1>1. TypeOK /\ AtCall
    BY TypeInit
  <1>2. NotYetStarted /\ Cleared
    BY DEF Init, NotYetStarted, Cleared
  <1>3. Entered
    <2>1. \A c \in Mutations : attempts[c] = 0
      BY MutationsAssumption DEF Init
    <2> QED
      BY <2>1 DEF Entered
  <1> QED
    BY <1>1, <1>2, <1>3 DEF GateInv

\* GateInv is preserved by every step.
LEMMA GateStep == GateInv /\ [Next]_vars => GateInv'
  <1> SUFFICES ASSUME GateInv, [Next]_vars
               PROVE  GateInv'
    OBVIOUS
  <1>1. TypeOK /\ AtCall /\ Gate
    BY DEF GateInv, Gate
  <1>2. TypeOK' /\ AtCall'
    BY <1>1, TypeStep
  <1>3. Gate'
    <2>1. CASE Start \/ Resume \/ Crash
      BY <1>1, <2>1, GateOutsideTools
    <2>2. CASE Driver
      BY <1>1, <2>2, GateOutsideTools, GateInTools DEF Driver, Proceed
    <2>3. CASE \E o \in Operators : Operator(o)
      BY <1>1, <2>3, GateOperator
    <2>4. CASE UNCHANGED vars
      BY <1>1, <2>4 DEF vars, Gate, NotYetStarted, Cleared, Entered, Call
    <2> QED
      BY <2>1, <2>2, <2>3, <2>4 DEF Next
  <1> QED
    BY <1>2, <1>3 DEF GateInv, Gate

\* The inductive invariant of the gate holds in every behaviour.
THEOREM GateInvariant == Spec => []GateInv
BY GateInit, GateStep, PTL DEF Spec

\* The handler of a mutation is never entered without a durable approval,
\* for every interleaving of the driver, its crashes and the operators.
THEOREM ApprovalGate == Spec => []ApprovedBeforeEntered
  <1>1. GateInv => ApprovedBeforeEntered
    BY DEF GateInv, Entered, ApprovedBeforeEntered
  <1> QED
    BY <1>1, GateInvariant, PTL

\* The handler of a mutation is entered at most once, across every number of
\* crashes and restarts.
THEOREM AtMostOnce == Spec => []MutationAtMostOnce
  <1>1. GateInv => MutationAtMostOnce
    BY MutationsAssumption DEF GateInv, TypeOK, Entered, MutationAtMostOnce
  <1> QED
    BY <1>1, GateInvariant, PTL

\* Only a dispatch enters a handler.
LEMMA OnlyDispatchEnters ==
    ASSUME TypeOK, Next, attempts' # attempts
    PROVE  \E verdict \in Verdict : Dispatch(verdict)
  <1>1. ASSUME NEW o \in Operators, Operator(o)
        PROVE  FALSE
    BY <1>1, OperatorStep
  <1> QED
    BY <1>1
    DEF Next, Start, Resume, Crash, Driver, Proceed, Loop, LoopReturns,
        LoopCancels, LoopFindsUncertain, Settle, LoopNeedsStep,
        LoopContinuesStep, ConsumeForStep, ConsumeForTurn, Consume,
        StartTurn, StartStep, ModelResponds, ModelFails, PersistResponse,
        CheckBudget, CompleteStep, Tools, RequestTool, RequestsDone,
        SkipTool, SelectTool, ToolsDone, Preflight, PreflightFails,
        DenyTool, DenyResult, AskApproval, StartTool, DispatchFails,
        ToolEnds, RecordResult, AfterTools, Timeout, Handler, Fail, Close, Raise,
        Goto, Commit

\* A step enters a handler only for a call that is durably started.
LEMMA EntersStarted ==
    ASSUME GateInv, Next, NEW c \in CallIds, attempts'[c] # attempts[c]
    PROVE  run.tools[c].state = "started"
  <1>1. PICK verdict \in Verdict : Dispatch(verdict)
    <2>1. attempts' # attempts
      OBVIOUS
    <2> QED
      BY <2>1, OnlyDispatchEnters DEF GateInv
  <1>2. Call \in CallIds /\ run.tools[Call].state = "started"
    BY <1>1, CallType
    DEF Dispatch, At, GateInv, AtCall, CallPoints, Cleared
  <1>3. attempts' = [attempts EXCEPT ![Call] = @ + 1]
    BY <1>1 DEF Dispatch
  <1>4. c = Call
    BY <1>2, <1>3 DEF GateInv, TypeOK
  <1> QED
    BY <1>2, <1>4

\* A handler is entered only for a call that is durably started and has no
\* durable result.
THEOREM NoReexecution == Spec => OnlyUnfinishedEntered
  <1>1. GateInv /\ [Next]_vars =>
          [\A c \in CallIds : attempts'[c] # attempts[c]
                                => run.tools[c].state = "started"]_vars
    BY EntersStarted
  <1> QED
    BY <1>1, GateInvariant, PTL DEF Spec, OnlyUnfinishedEntered

(***************************************************************************)
(* The budget.  Only an answer of the model adds to the sums, and every    *)
(* answer goes through the budget check before its calls are requested.    *)
(***************************************************************************)

\* Where a call may still be entered on the strength of the last check.
BudgetedPoints == {"request", "tools"} \cup CallPoints

WithinBudget == pc \in BudgetedPoints => ~OverBudget(run)

SameSums(p, q) == q.tokens = p.tokens /\ q.callTotal = p.callTotal

\* No event but assistant.message changes the sums.
LEMMA SumsOfEvents ==
    ASSUME NEW p \in Projection, NEW c, NEW d, NEW t, NEW s, NEW m, NEW ms,
           NEW target, NEW status
    PROVE  /\ SameSums(p, TurnStarted(RunStarted(p), t))
           /\ SameSums(p, TurnStarted(p, t))
           /\ SameSums(p, StepStarted(p, t, s))
           /\ SameSums(p, StepCompleted(p, t, s))
           /\ SameSums(p, ToolRequested(p, c))
           /\ SameSums(p, ToolStarted(p, c))
           /\ SameSums(p, ToolFinished(p, c, d))
           /\ SameSums(p, InboxSubmitted(p, m, target))
           /\ SameSums(p, InboxConsumed(p, ms))
           /\ SameSums(p, ApprovalRequested(p, c))
           /\ SameSums(p, ApprovalDecided(p, c, d))
           /\ SameSums(p, RunCancelling(p))
           /\ SameSums(p, RunClosed(p, status))
  <1> USE DEF SameSums, Accept, Projection
  <1>1. /\ SameSums(p, TurnStarted(RunStarted(p), t))
        /\ SameSums(p, TurnStarted(p, t))
    BY DEF TurnStarted, RunStarted
  <1>2. SameSums(p, StepStarted(p, t, s)) /\ SameSums(p, StepCompleted(p, t, s))
    BY DEF StepStarted, StepCompleted
  <1>3. /\ SameSums(p, ToolRequested(p, c)) /\ SameSums(p, ToolStarted(p, c))
        /\ SameSums(p, ToolFinished(p, c, d))
    BY DEF ToolRequested, ToolStarted, ToolFinished
  <1>4. /\ SameSums(p, InboxSubmitted(p, m, target))
        /\ SameSums(p, InboxConsumed(p, ms))
    BY DEF InboxSubmitted, InboxConsumed
  <1>5. /\ SameSums(p, ApprovalRequested(p, c))
        /\ SameSums(p, ApprovalDecided(p, c, d))
    BY DEF ApprovalRequested, ApprovalDecided
  <1>6. SameSums(p, RunCancelling(p)) /\ SameSums(p, RunClosed(p, status))
    BY DEF RunCancelling, RunClosed
  <1> QED
    BY <1>1, <1>2, <1>3, <1>4, <1>5, <1>6

\* Off the points with a budget there is nothing to show.
LEMMA BudgetElsewhere ==
    ASSUME pc' \notin BudgetedPoints
    PROVE  WithinBudget'
BY DEF WithinBudget

\* Between them the sums stay as they were checked.
LEMMA BudgetKept ==
    ASSUME WithinBudget, pc \in BudgetedPoints, SameSums(run, run')
    PROVE  WithinBudget'
BY DEF WithinBudget, OverBudget, SameSums

\* Every step of the driver keeps the budget.
LEMMA BudgetDriver ==
    ASSUME TypeOK, WithinBudget, Start \/ Resume \/ Crash \/ Driver
    PROVE  WithinBudget'
  <1> USE DEF BudgetedPoints, CallPoints, Commit, Goto, Enter
  <1>t. run \in Projection
    BY DEF TypeOK
  <1>s. run' = run => SameSums(run, run')
    BY DEF SameSums
  <1>1. CASE Start \/ Resume \/ Crash \/ Raise
    BY <1>1, BudgetElsewhere DEF Start, Resume, Crash, Raise
  <1>2. CASE Loop
    BY <1>2, BudgetElsewhere
    DEF Loop, LoopReturns, LoopCancels, LoopFindsUncertain, Settle,
        LoopNeedsStep, LoopContinuesStep, FinishCancellation
  <1>3. CASE ConsumeForStep \/ ConsumeForTurn \/ StartTurn \/ StartStep
    BY <1>3, BudgetElsewhere
    DEF ConsumeForStep, ConsumeForTurn, Consume, StartTurn, StartStep
  <1>4. CASE ModelResponds \/ ModelFails \/ PersistResponse \/ CompleteStep
    BY <1>4, BudgetElsewhere
    DEF ModelResponds, ModelFails, PersistResponse, CompleteStep
  <1>5. CASE CheckBudget
    BY <1>5 DEF CheckBudget, WithinBudget
  <1>6. CASE Timeout \/ Handler \/ Fail \/ Close
    BY <1>6, BudgetElsewhere
    DEF Timeout, Handler, Fail, Close, FinishCancellation, Terminal
  <1>7. CASE RequestTool \/ DenyTool \/ DenyResult \/ StartTool \/ RecordResult
    BY <1>s, <1>t, <1>7, BudgetKept, SumsOfEvents
    DEF RequestTool, DenyTool, DenyResult, StartTool, RecordResult, At
  <1>8. CASE AskApproval \/ AfterTools \/ PreflightFails \/ ToolsDone
    BY <1>8, BudgetElsewhere DEF AskApproval, AfterTools, PreflightFails, ToolsDone
  <1>9. CASE \/ RequestsDone \/ SkipTool \/ SelectTool
             \/ (\E verdict \in Verdict : Preflight(verdict))
             \/ (\E verdict \in Verdict : Dispatch(verdict)) \/ DispatchFails
             \/ ToolEnds
    BY <1>s, <1>9, BudgetKept
    DEF RequestsDone, SkipTool, SelectTool, Preflight, Dispatch, DispatchFails,
        ToolEnds, At
  <1> QED
    BY <1>1, <1>2, <1>3, <1>4, <1>5, <1>6, <1>7, <1>8, <1>9
    DEF Driver, Proceed, Tools

\* No event of an operator changes the sums.
LEMMA BudgetOperator ==
    ASSUME TypeOK, WithinBudget, NEW o \in Operators, Operator(o)
    PROVE  WithinBudget'
  <1>1. pc' = pc
    BY OperatorStep
  <1>2. SameSums(run, run')
    <2>t. run \in Projection
      BY DEF TypeOK
    <2>1. CASE OperatorCommits(o)
      BY <2>t, <2>1, SumsOfEvents
      DEF OperatorCommits, DecideCommits, RejectCommits, CancelCommits,
          SubmitCommits, OpCommit
    <2>2. CASE ~OperatorCommits(o)
      BY <2>2 DEF Operator, Operates, Decide, Cancel, Submit, OpBegin,
                  OperatorStops, SameSums
    <2> QED
      BY <2>1, <2>2
  <1> QED
    BY <1>1, <1>2, BudgetKept, BudgetElsewhere

\* A run that has used up its budget enters no handler, for every budget and
\* wherever the operators run: a restart goes through the check again.
THEOREM BudgetHolds == Spec => OverBudgetNeverExecutes
  <1> DEFINE Inv == TypeOK /\ AtCall /\ WithinBudget
  <1>1. Init => Inv
    BY TypeInit DEF Init, WithinBudget, BudgetedPoints, CallPoints
  <1>2. ASSUME Inv, [Next]_vars
        PROVE  Inv'
    <2>1. TypeOK' /\ AtCall'
      BY <1>2, TypeStep
    <2>2. WithinBudget'
      <3>1. CASE UNCHANGED vars
        BY <1>2, <3>1 DEF vars, WithinBudget
      <3> QED
        BY <1>2, <3>1, BudgetDriver, BudgetOperator DEF Next
    <2> QED
      BY <2>1, <2>2
  <1>3. ASSUME Inv, [Next]_vars
        PROVE  [attempts' # attempts => ~OverBudget(run)]_vars
    <2>1. ASSUME Next, attempts' # attempts
          PROVE  ~OverBudget(run)
      <3>1. PICK verdict \in Verdict : Dispatch(verdict)
        BY <1>3, <2>1, OnlyDispatchEnters
      <3> QED
        BY <1>3, <3>1 DEF Dispatch, At, WithinBudget, BudgetedPoints, CallPoints
    <2> QED
      BY <1>3, <2>1
  <1> HIDE DEF Inv
  <1> QED
    BY <1>1, <1>2, <1>3, PTL DEF Spec, OverBudgetNeverExecutes

(***************************************************************************)
(* The status of the run at the points of the driver.                      *)
(***************************************************************************)

\* While the run waits the driver is on its way out, or down.
WaitingIsIdle ==
    run.status = "waiting_approval" => pc \in {"down", "loop", "after_tools"}

\* What the steps of the driver need to know of the run's status.
StatusInv == TypeOK /\ AtCall /\ Begun /\ Untouched /\ WaitingIsIdle

\* What every step of the driver keeps, but those that change the status.
Decides ==
    /\ run'.status = run.status
    /\ run'.status = "waiting_approval" => pc' \in {"down", "loop", "after_tools"}
    /\ pc' = "completed" => run'.status = "running"
    /\ pc' = "failed_uncertain" => run'.status \in {"running", "cancelling"}
    /\ pc' = "cancelled" => run'.status = "cancelling"
    /\ pc' = "failed" => run'.status # "cancelling"

\* The decisions of the loop, and the end of its failures.
LEMMA LoopDecides ==
    ASSUME StatusInv, Loop \/ Timeout \/ Handler \/ Fail \/ Raise
    PROVE  Decides
  <1> USE DEF Decides, Goto, Enter, Live, At, StatusInv, WaitingIsIdle,
              CommitPoints, Terminal
  <1>1. CASE Loop
    BY <1>1 DEF Loop, LoopReturns, LoopCancels, LoopFindsUncertain, Settle,
                LoopNeedsStep, LoopContinuesStep, FinishCancellation
  <1>2. CASE Timeout \/ Raise
    BY <1>2 DEF Timeout, Raise, AwaitPoints
  <1>3. CASE Handler
    <2>1. run.status # "created"
      BY <1>3 DEF Handler, Begun, Untouched
    <2>2. run.status \in RunStatus
      BY DEF TypeOK, Projection
    <2> QED
      BY <1>3, <2>1, <2>2 DEF Handler, RunStatus
  <1>4. CASE Fail
    BY <1>4 DEF Fail, FinishCancellation
  <1> QED
    BY <1>1, <1>2, <1>3, <1>4

\* The steps of a model turn.
LEMMA TurnDecides ==
    ASSUME StatusInv,
           \/ ConsumeForStep \/ ConsumeForTurn \/ StartTurn \/ StartStep
           \/ ModelResponds \/ ModelFails \/ PersistResponse
           \/ CheckBudget \/ CompleteStep
    PROVE  Decides
  <1>t. run \in Projection
    BY DEF StatusInv, TypeOK
  <1>w. pc \notin {"down", "loop", "after_tools"} => run.status # "waiting_approval"
    BY DEF StatusInv, WaitingIsIdle
  <1> USE DEF Decides, Commit, At, Terminal
  <1>1. CASE ConsumeForStep \/ ConsumeForTurn
    BY <1>t, <1>w, <1>1, StatusOfEvents
    DEF ConsumeForStep, ConsumeForTurn, Consume
  <1>2. CASE StartTurn \/ StartStep \/ PersistResponse \/ CompleteStep
    BY <1>t, <1>w, <1>2, StatusOfEvents
    DEF StartTurn, StartStep, PersistResponse, CompleteStep
  <1>3. CASE ModelResponds \/ ModelFails \/ CheckBudget
    BY <1>w, <1>3 DEF ModelResponds, ModelFails, CheckBudget, Goto, Enter
  <1> QED
    BY <1>1, <1>2, <1>3

\* The steps on the tool calls, except that a run begins to wait.
LEMMA ToolsDecide ==
    ASSUME StatusInv, Tools, ~AskApproval
    PROVE  Decides
  <1>t. run \in Projection
    BY DEF StatusInv, TypeOK
  <1>w. pc \notin {"down", "loop", "after_tools"} =>
            run.status \in {"running", "cancelling"} \cup Terminal
    <2>1. run.status \in RunStatus
      BY <1>t DEF Projection
    <2>2. pc # "down" => run.status # "created"
      BY DEF StatusInv, Begun, Untouched
    <2> QED
      BY <2>1, <2>2 DEF StatusInv, WaitingIsIdle, RunStatus
  <1> USE DEF Decides, Commit, At, Terminal
  <1>1. CASE RequestTool \/ DenyTool \/ DenyResult \/ StartTool \/ RecordResult
    BY <1>t, <1>w, <1>1, StatusOfEvents
    DEF RequestTool, DenyTool, DenyResult, StartTool, RecordResult
  <1>2. CASE RequestsDone \/ SkipTool \/ ToolsDone \/ PreflightFails
    BY <1>w, <1>2 DEF RequestsDone, SkipTool, ToolsDone, PreflightFails, Goto,
                      Enter
  <1>3. CASE SelectTool
    BY <1>w, <1>3 DEF SelectTool, Goto, Enter, CommitPoints, Live
  <1>4. CASE \E verdict \in Verdict : Preflight(verdict)
    BY <1>w, <1>4 DEF Preflight, Goto, Enter
  <1>5. CASE (\E verdict \in Verdict : Dispatch(verdict)) \/ DispatchFails \/ ToolEnds
    BY <1>w, <1>5 DEF Dispatch, DispatchFails, ToolEnds, Broken, Goto, Enter,
                      CommitPoints, Live
  <1>6. CASE AfterTools
    BY <1>6 DEF AfterTools, Goto, Enter, CommitPoints, Live
  <1> QED
    BY <1>1, <1>2, <1>3, <1>4, <1>5, <1>6 DEF Tools

\* The steps of the driver that change the status do not leave it waiting
\* anywhere else.
LEMMA ChangesWait ==
    ASSUME StatusInv, Start \/ Resume \/ AskApproval \/ Close
    PROVE  WaitingIsIdle'
  <1>t. run \in Projection
    BY DEF StatusInv, TypeOK
  <1> USE DEF WaitingIsIdle, Commit, At
  <1>1. CASE Start
    BY <1>1, StartBegins DEF Start
  <1>2. CASE Resume
    BY <1>2 DEF Resume, Goto, Enter
  <1>3. CASE AskApproval \/ Close
    BY <1>3 DEF AskApproval, Close
  <1> QED
    BY <1>1, <1>2, <1>3

\* No operator makes a run wait.
LEMMA OperatorWaits ==
    ASSUME TypeOK, NEW o \in Operators, Operator(o)
    PROVE  run'.status = "waiting_approval" => run.status = "waiting_approval"
  <1>t. run \in Projection
    BY DEF TypeOK
  <1>1. CASE OperatorCommits(o)
    BY <1>t, <1>1, StatusOfEvents
    DEF OperatorCommits, DecideCommits, RejectCommits, CancelCommits,
        SubmitCommits, OpCommit
  <1>2. CASE ~OperatorCommits(o)
    BY <1>2 DEF Operator, Operates, Decide, Cancel, Submit, OpBegin,
                OperatorStops
  <1> QED
    BY <1>1, <1>2

\* Every step keeps what is known of the status, wherever operators run.
LEMMA StatusStep == StatusInv /\ [Next]_vars => StatusInv'
  <1> SUFFICES ASSUME StatusInv, [Next]_vars
               PROVE  StatusInv'
    OBVIOUS
  <1>1. TypeOK' /\ AtCall' /\ Begun' /\ Untouched'
    BY TypeStep, BegunNext DEF StatusInv
  <1>2. WaitingIsIdle'
    <2>1. CASE Start \/ Resume \/ AskApproval \/ Close
      BY <2>1, ChangesWait
    <2>2. CASE Driver /\ ~AskApproval /\ ~Close
      BY <2>2, LoopDecides, TurnDecides, ToolsDecide
      DEF Driver, Proceed, Decides, WaitingIsIdle
    <2>3. CASE \E o \in Operators : Operator(o)
      BY <2>3, OperatorStep, OperatorWaits DEF StatusInv, WaitingIsIdle
    <2>4. CASE Crash \/ UNCHANGED vars
      BY <2>4 DEF Crash, vars, StatusInv, WaitingIsIdle
    <2> QED
      BY <2>1, <2>2, <2>3, <2>4 DEF Next, Driver, Proceed, Tools
  <1> QED
    BY <1>1, <1>2 DEF StatusInv

(***************************************************************************)
(* Operators in the driver's event loop.  From here on the runtime lives in *)
(* one process: it implements RunLifecycle, its stream stays readable,      *)
(* uncertainty is reported, results come before the next model step, and    *)
(* cancellations and follow-ups are obeyed.  None of this holds for         *)
(* operators in processes of their own, which may append between a look at  *)
(* the stream and the append it was for.                                    *)
(***************************************************************************)

\* In a shared loop one operator acts at a time, and only while the driver is
\* suspended.
Serial ==
    /\ \A o \in Operators : op[o] # Idle => pc \in AwaitPoints
    /\ \A o, other \in Operators : op[o] # Idle /\ op[other] # Idle => o = other

\* What the driver knew of the status when it decided to close the run.
ClosingStatus ==
    /\ pc = "completed" => run.status = "running"
    /\ pc = "failed_uncertain" => run.status \in {"running", "cancelling"}
    /\ pc = "cancelled" => run.status = "cancelling"
    /\ pc = "failed" => run.status # "cancelling"

\* A rejection goes on to fail the run it has just set running.
RejectingStatus ==
    \A o \in Operators : op[o].do = "reject" => ~run.ok \/ run.status = "running"

LifecycleInv == StatusInv /\ Serial /\ ClosingStatus /\ RejectingStatus

MayMove(s, t) == s = t \/ t \in Lifecycle!AllowedTransitions[s]

\* Every step of the driver waits for the operators.
LEMMA DriverWaits ==
    ASSUME SharedLoop, Driver \/ Start \/ Resume
    PROVE  (\A o \in Operators : op[o] = Idle) /\ op' = op
  <1> USE DEF At, DriverRuns, Goto, Enter, Commit
  <1>1. CASE Loop
    BY <1>1 DEF Loop, LoopReturns, LoopCancels, LoopFindsUncertain, Settle,
                LoopNeedsStep, LoopContinuesStep
  <1>2. CASE ConsumeForStep \/ ConsumeForTurn \/ StartTurn \/ StartStep
    BY <1>2 DEF ConsumeForStep, ConsumeForTurn, Consume, StartTurn, StartStep
  <1>3. CASE ModelResponds \/ ModelFails \/ PersistResponse \/ CheckBudget
             \/ CompleteStep
    BY <1>3 DEF ModelResponds, ModelFails, PersistResponse, CheckBudget,
                CompleteStep
  <1>4. CASE \/ RequestTool \/ RequestsDone \/ SkipTool \/ SelectTool \/ ToolsDone
             \/ (\E verdict \in Verdict : Preflight(verdict)) \/ PreflightFails
    BY <1>4 DEF RequestTool, RequestsDone, SkipTool, SelectTool, ToolsDone,
                Preflight, PreflightFails
  <1>5. CASE DenyTool \/ DenyResult \/ AskApproval \/ StartTool
    BY <1>5 DEF DenyTool, DenyResult, AskApproval, StartTool
  <1>6. CASE \/ (\E verdict \in Verdict : Dispatch(verdict)) \/ DispatchFails
             \/ ToolEnds \/ RecordResult \/ AfterTools
    BY <1>6 DEF Dispatch, DispatchFails, ToolEnds, RecordResult, AfterTools
  <1>7. CASE Timeout \/ Handler \/ Fail \/ Close \/ Raise \/ Start \/ Resume
    BY <1>7 DEF Timeout, Handler, Fail, Close, Raise, Start, Resume
  <1> QED
    BY <1>1, <1>2, <1>3, <1>4, <1>5, <1>6, <1>7 DEF Driver, Proceed, Tools

\* The three steps of the driver that change the status follow the table.
LEMMA DriverChanges ==
    ASSUME LifecycleInv, Start \/ Resume \/ AskApproval \/ Close
    PROVE  /\ MayMove(run.status, run'.status)
           /\ WaitingIsIdle' /\ ClosingStatus'
  <1>t. run \in Projection
    BY DEF LifecycleInv, StatusInv, TypeOK
  <1> USE DEF WaitingIsIdle, ClosingStatus, Commit, At
  <1>1. CASE Start
    <2>1. run.status = "created" /\ run'.status = "running"
      BY <1>1, StartBegins DEF Start, Empty
    <2> QED
      BY <1>1, <2>1 DEF Start, MayMove, Lifecycle!AllowedTransitions
  <1>2. CASE Resume
    BY <1>2 DEF Resume, Goto, Enter, MayMove
  <1>3. CASE AskApproval
    <2>1. IF run'.ok THEN run.status = "running" /\ run'.status = "waiting_approval"
                     ELSE run'.status = run.status
      BY <1>t, <1>3, StatusOfEvents DEF AskApproval
    <2>2. pc = "ask" /\ pc' = IF run'.ok THEN "after_tools" ELSE "down"
      BY <1>3 DEF AskApproval
    <2> QED
      BY <2>1, <2>2 DEF MayMove, Lifecycle!AllowedTransitions
  <1>4. CASE Close
    <2>1. pc' = "down" /\ pc \in Terminal
      BY <1>4 DEF Close
    <2>2. IF run'.ok THEN /\ run.ok
                          /\ run.status \in {"running", "cancelling", "waiting_approval"}
                          /\ run'.status = pc
                     ELSE run'.status = run.status
      BY <1>t, <1>4, StatusOfEvents DEF Close
    <2>3. run.status # "waiting_approval"
      BY <2>1 DEF LifecycleInv, StatusInv, Terminal
    <2>4. CASE run'.ok
      BY <2>1, <2>2, <2>3, <2>4
      DEF LifecycleInv, StatusInv, MayMove, Lifecycle!AllowedTransitions, Terminal
    <2>5. CASE ~run'.ok
      BY <2>1, <2>2, <2>3, <2>5 DEF MayMove
    <2> QED
      BY <2>4, <2>5
  <1> QED
    BY <1>1, <1>2, <1>3, <1>4

\* Every step of the driver.
LEMMA DriverFollows ==
    ASSUME SharedLoop, LifecycleInv, Driver \/ Start \/ Resume
    PROVE  /\ MayMove(run.status, run'.status)
           /\ Serial' /\ WaitingIsIdle' /\ ClosingStatus' /\ RejectingStatus'
  <1>1. Serial' /\ RejectingStatus'
    BY DriverWaits DEF Serial, RejectingStatus, Idle
  <1>2. CASE Start \/ Resume \/ AskApproval \/ Close
    BY <1>1, <1>2, DriverChanges
  <1>3. CASE Driver /\ ~AskApproval /\ ~Close
    <2>1. Decides
      BY <1>3, LoopDecides, TurnDecides, ToolsDecide
      DEF LifecycleInv, Driver, Proceed
    <2> QED
      BY <1>1, <2>1 DEF Decides, MayMove, WaitingIsIdle, ClosingStatus
  <1> QED
    BY <1>1, <1>2, <1>3

\* Every step of an operator.
LEMMA OperatorFollows ==
    ASSUME SharedLoop, LifecycleInv, NEW o \in Operators, Operator(o)
    PROVE  /\ MayMove(run.status, run'.status)
           /\ Serial' /\ WaitingIsIdle' /\ ClosingStatus' /\ RejectingStatus'
  <1>t. /\ run \in Projection /\ op \in [Operators -> OpState]
        /\ Serial /\ RejectingStatus
    BY DEF LifecycleInv, StatusInv, TypeOK
  <1>p. pc' = pc
    BY OperatorStep DEF LifecycleInv, StatusInv
  <1>1. ASSUME NEW call, OpBegin(o, call), call.do # "reject"
        PROVE  /\ MayMove(run.status, run'.status)
               /\ Serial' /\ WaitingIsIdle' /\ ClosingStatus' /\ RejectingStatus'
    <2>1. /\ run' = run /\ op' = [op EXCEPT ![o] = call]
          /\ pc \in AwaitPoints /\ \A other \in Operators : op[other] = Idle
      BY <1>1 DEF OpBegin, OperatorRuns
    <2>2. Serial' /\ RejectingStatus'
      BY <1>t, <1>p, <1>1, <2>1 DEF Serial, RejectingStatus, Idle
    <2> QED
      BY <1>p, <2>1, <2>2 DEF LifecycleInv, StatusInv, MayMove, WaitingIsIdle, ClosingStatus
  <1>2. CASE \/ \E c \in CallIds, d \in {"approved", "rejected"} : Decide(o, c, d)
             \/ Cancel(o)
             \/ \E m \in MsgIds, target \in InboxTarget : Submit(o, m, target)
    BY <1>1, <1>2 DEF Decide, Cancel, Submit
  <1>3. ASSUME NEW q, NEW rest, OpCommit(o, q, rest), op[o] # Idle,
               q.status # "waiting_approval" \/ q.status = run.status,
               rest.do = "reject" => ~q.ok \/ q.status = "running"
        PROVE  Serial' /\ WaitingIsIdle' /\ ClosingStatus' /\ RejectingStatus'
    <2>1. run' = q /\ op' = [op EXCEPT ![o] = rest]
      BY <1>3 DEF OpCommit
    <2>2. pc \in AwaitPoints /\ \A other \in Operators : other # o => op[other] = Idle
      BY <1>t, <1>3 DEF Serial
    <2>3. Serial' /\ RejectingStatus'
      BY <1>t, <1>p, <1>3, <2>1, <2>2 DEF Serial, RejectingStatus, Idle
    <2>4. WaitingIsIdle' /\ ClosingStatus'
      BY <1>p, <1>3, <2>1, <2>2
      DEF LifecycleInv, StatusInv, WaitingIsIdle, ClosingStatus, AwaitPoints
    <2> QED
      BY <2>3, <2>4
  <1>4. CASE DecideCommits(o)
    <2> DEFINE q == ApprovalDecided(run, op[o].call, op[o].decision)
    <2>1. IF q.ok THEN run.status = "waiting_approval" /\ q.status = "running"
                  ELSE q.status = run.status
      BY <1>t, StatusOfEvents
    <2>2. OpCommit(o, q, IF op[o].decision = "rejected"
                         THEN [do |-> "reject"] ELSE Idle)
      BY <1>4 DEF DecideCommits
    <2>3. op[o] # Idle
      BY <1>4 DEF DecideCommits, Idle
    <2>4. run' = q
      BY <2>2 DEF OpCommit
    <2> HIDE DEF q
    <2>5. Serial' /\ WaitingIsIdle' /\ ClosingStatus' /\ RejectingStatus'
      BY <1>3, <2>1, <2>2, <2>3
    <2> QED
      BY <2>1, <2>4, <2>5 DEF MayMove, Lifecycle!AllowedTransitions
  <1>5. CASE RejectCommits(o)
    <2> DEFINE q == RunClosed(run, "failed")
    <2>1. IF q.ok THEN run.ok /\ q.status = "failed"
                  ELSE q.status = run.status
      BY <1>t, StatusOfEvents
    <2>2. OpCommit(o, q, Idle) /\ op[o].do = "reject"
      BY <1>5 DEF RejectCommits
    <2>3. op[o] # Idle
      BY <2>2 DEF Idle
    <2>4. run' = q
      BY <2>2 DEF OpCommit
    <2>5. ~run.ok \/ run.status = "running"
      BY <1>t, <2>2 DEF RejectingStatus
    <2> HIDE DEF q
    <2>6. Serial' /\ WaitingIsIdle' /\ ClosingStatus' /\ RejectingStatus'
      BY <1>3, <2>1, <2>2, <2>3 DEF Idle
    <2> QED
      BY <2>1, <2>4, <2>5, <2>6 DEF MayMove, Lifecycle!AllowedTransitions
  <1>6. CASE CancelCommits(o)
    <2> DEFINE q == RunCancelling(run)
    <2>1. IF q.ok THEN /\ run.status \in {"running", "waiting_approval"}
                       /\ q.status = "cancelling"
                  ELSE q.status = run.status
      BY <1>t, StatusOfEvents
    <2>2. OpCommit(o, q, Idle) /\ op[o] # Idle
      BY <1>6 DEF CancelCommits, Idle
    <2>4. run' = q
      BY <2>2 DEF OpCommit
    <2> HIDE DEF q
    <2>6. Serial' /\ WaitingIsIdle' /\ ClosingStatus' /\ RejectingStatus'
      BY <1>3, <2>1, <2>2 DEF Idle
    <2> QED
      BY <2>1, <2>4, <2>6 DEF MayMove, Lifecycle!AllowedTransitions
  <1>7. CASE SubmitCommits(o)
    <2> DEFINE q == InboxSubmitted(run, op[o].msg, op[o].target)
    <2>1. q.status = run.status
      BY <1>t, StatusOfEvents
    <2>2. OpCommit(o, q, Idle) /\ op[o] # Idle
      BY <1>7 DEF SubmitCommits, Idle
    <2>4. run' = q
      BY <2>2 DEF OpCommit
    <2> HIDE DEF q
    <2>6. Serial' /\ WaitingIsIdle' /\ ClosingStatus' /\ RejectingStatus'
      BY <1>3, <2>1, <2>2 DEF Idle
    <2> QED
      BY <2>1, <2>4, <2>6 DEF MayMove
  <1>8. ~OperatorStops(o)
    BY DEF OperatorStops
  <1> QED
    BY <1>2, <1>4, <1>5, <1>6, <1>7, <1>8 DEF Operator, Operates, OperatorCommits

\* Every step of the runtime keeps the invariant and follows the table.
LEMMA LifecycleStep ==
    ASSUME SharedLoop, LifecycleInv, [Next]_vars
    PROVE  LifecycleInv' /\ MayMove(run.status, run'.status)
  <1>1. TypeOK' /\ AtCall' /\ Begun' /\ Untouched'
    BY TypeStep, BegunNext DEF LifecycleInv, StatusInv
  <1>2. /\ MayMove(run.status, run'.status)
        /\ Serial' /\ WaitingIsIdle' /\ ClosingStatus' /\ RejectingStatus'
    <2>1. CASE Driver \/ Start \/ Resume
      BY <2>1, DriverFollows
    <2>2. CASE \E o \in Operators : Operator(o)
      BY <2>2, OperatorFollows
    <2>3. CASE Crash
      BY <2>3 DEF Crash, MayMove, Serial, WaitingIsIdle, ClosingStatus,
                  RejectingStatus, Idle
    <2>4. CASE UNCHANGED vars
      BY <2>4 DEF vars, LifecycleInv, StatusInv, MayMove, Serial, WaitingIsIdle,
                  ClosingStatus, RejectingStatus
    <2> QED
      BY <2>1, <2>2, <2>3, <2>4 DEF Next
  <1> QED
    BY <1>1, <1>2 DEF LifecycleInv, StatusInv

\* The invariant holds at the start.
LEMMA LifecycleInit == Init => LifecycleInv
  <1> SUFFICES ASSUME Init
               PROVE  LifecycleInv
    OBVIOUS
  <1>1. TypeOK /\ AtCall
    BY TypeInit
  <1> QED
    BY <1>1 DEF Init, LifecycleInv, StatusInv, Begun, Untouched, Serial, WaitingIsIdle,
                ClosingStatus, RejectingStatus, Idle, Empty

\* The runtime's driver, with operators in its event loop, implements the
\* transition table of AgentRun, for every number of crashes: a cancelled run
\* never completes, and a terminal status is final.
THEOREM ImplementsLifecycle == SharedLoop => (Spec => FollowsLifecycle)
  <1> SUFFICES ASSUME SharedLoop
               PROVE  Spec => FollowsLifecycle
    OBVIOUS
  <1>1. Init => Lifecycle!Init
    BY DEF Init, Lifecycle!Init, Empty
  <1>2. LifecycleInv /\ [Next]_vars =>
            LifecycleInv' /\ [Lifecycle!Transition]_(run.status)
    BY LifecycleStep DEF MayMove, Lifecycle!Transition
  <1> QED
    BY <1>1, <1>2, LifecycleInit, PTL
    DEF Spec, FollowsLifecycle, Lifecycle!Spec

(***************************************************************************)
(* The stream that the driver leaves behind at every point.                *)
(***************************************************************************)

\* The constants of the runtime in one process: operators in the driver's
\* event loop, a policy that answers without suspending, fresh message ids.
InOneLoop == SharedLoop /\ ~PolicyYields /\ ~ResubmitIds

Unfinished(p, c) == p.tools[c].state \in {"requested", "started"}

Settled(p) == \A c \in CallIds : ~Unfinished(p, c)

\* A stream that a recovery can go on from: it is readable, what it left
\* unfinished belongs to the open step and to the answer that asked for it,
\* and it waits or ends with no mutation whose outcome is unknown, unless it
\* says so.
Sound(p) ==
    /\ p.ok
    /\ p.status # "created" => p.turn > 0
    /\ p.asst.stop # "tool_use" => p.asst.calls = <<>>
    /\ \A c \in CallIds : Unfinished(p, c) =>
            /\ InOpenStep(p, c)
            /\ \E i \in 1 .. Len(p.asst.calls) : p.asst.calls[i] = c
    /\ p.status = "waiting_approval" => ~Uncertain(p)
    /\ p.status \in Terminal =>
            (Uncertain(p) <=> p.status = "failed_uncertain")
    /\ p.status = "completed" => Pending(p, "next_turn") = {}

RequestedPoints == {"preflight", "deny", "ask", "start_tool"}

StartedPoints ==
    {"deny_result", "dispatch", "executing", "tool_completed", "tool_failed"}

ToolPoints ==
    {"request", "tools", "after_tools"} \cup RequestedPoints \cup StartedPoints

\* Where a mutation may be started and not yet have its result.
UncertainPoints ==
    {"down", "loop", "handler", "failed_uncertain"} \cup StartedPoints

\* What the driver knows of the turn and the step where it writes about them.
TurnFacts ==
    /\ pc # "down" => run.status \notin Terminal
    /\ pc \in {"consume_turn", "consume_step", "start_turn", "start_step",
               "completed"} => run.status = "running" /\ ~Open(run)
    /\ pc = "completed" => Pending(run, "next_turn") = {}
    /\ pc \in {"model", "persist"} => Open(run) /\ run.asst.stop = "none"
    /\ pc = "persist" => resp \in Responses
    /\ pc \in {"budget", "complete_step"} => Open(run) /\ run.asst.stop # "none"
    /\ pc = "complete_step" => Settled(run)

\* What it knows of the calls: those before next have their results.
ToolFacts ==
    /\ pc \in ToolPoints => Open(run) /\ run.asst.stop = "tool_use"
    /\ pc \in {"tools"} \cup RequestedPoints \cup StartedPoints =>
            \A i \in 1 .. Len(run.asst.calls) :
                i < next => ~Unfinished(run, run.asst.calls[i])
    /\ pc = "after_tools" /\ run.status = "running" => Settled(run)
    /\ pc \in RequestedPoints \cup StartedPoints => InOpenStep(run, Call)
    /\ pc \in RequestedPoints => /\ run.tools[Call].state = "requested"
                                 /\ run.status = "running"
    /\ pc \in StartedPoints => run.tools[Call].state = "started"
    /\ pc = "dispatch" => run.status = "running"

\* What it knows of the mutations: at most the one it is at is uncertain.
CertainFacts ==
    /\ pc \in StartedPoints =>
            \A c \in Mutations : run.tools[c].state = "started" => c = Call
    /\ Uncertain(run) => pc \in UncertainPoints
    /\ pc = "failed_uncertain" => Uncertain(run)

\* What an operator checked still holds when it appends.
OperatorsReady ==
    \A o \in Operators :
        /\ op[o].do \in {"decide", "reject"} => pc = "down"
        /\ op[o].do = "decide" => run.status = "waiting_approval"
        /\ op[o].do = "reject" => run.status = "running" /\ ~Uncertain(run)
        /\ op[o].do = "cancel" => run.status \in {"running", "waiting_approval"}
        /\ op[o].do = "submit" => /\ run.status = "running"
                                  /\ run.inbox[op[o].msg] = "absent"

DriverFacts == Sound(run) /\ TurnFacts /\ ToolFacts /\ CertainFacts

StreamInv == LifecycleInv /\ DriverFacts /\ OperatorsReady

\* What the invariant says of a driver that is under way.
LEMMA UnderWay ==
    ASSUME StreamInv
    PROVE  /\ run \in Projection /\ next \in Nat \ {0}
           /\ Len(run.asst.calls) \in Nat
           /\ run.asst.calls \in Seq(CallIds)
           /\ pc # "down" =>
                run.status \in {"running", "waiting_approval", "cancelling"}
           /\ pc \notin {"down", "loop", "after_tools"} =>
                run.status \in {"running", "cancelling"}
           /\ pc \in RequestedPoints \cup StartedPoints =>
                next <= Len(run.asst.calls) /\ Call \in CallIds
  <1>1. /\ run \in Projection /\ next \in Nat \ {0}
        /\ run.asst.calls \in Seq(CallIds)
    BY DEF StreamInv, LifecycleInv, StatusInv, TypeOK, Projection, Assistant
  <1>2. pc # "down" => run.status # "created"
    BY DEF StreamInv, LifecycleInv, StatusInv, Begun, Untouched
  <1>3. run.status \in RunStatus
    BY <1>1 DEF Projection
  <1>4. pc # "down" =>
                run.status \in {"running", "waiting_approval", "cancelling"}
    BY <1>2, <1>3 DEF StreamInv, DriverFacts, TurnFacts, RunStatus
  <1>5. pc \notin {"down", "loop", "after_tools"} => run.status # "waiting_approval"
    BY DEF StreamInv, LifecycleInv, StatusInv, WaitingIsIdle
  <1>6. pc \in RequestedPoints \cup StartedPoints => next <= Len(run.asst.calls)
    BY DEF StreamInv, LifecycleInv, StatusInv, AtCall, CallPoints, RequestedPoints,
           StartedPoints
  <1>7. next <= Len(run.asst.calls) => Call \in CallIds
    BY <1>1 DEF Call
  <1> QED
    BY <1>1, <1>4, <1>5, <1>6, <1>7

\* The driver's decisions outside the tool calls.
LEMMA LoopFacts ==
    ASSUME StreamInv, Loop
    PROVE  DriverFacts'
  <1> USE UnderWay DEF StreamInv, DriverFacts, Sound, TurnFacts, ToolFacts,
              CertainFacts, At, Goto, Enter, UncertainPoints, ToolPoints,
              RequestedPoints, StartedPoints, Terminal
  <1>1. CASE LoopReturns
    BY <1>1 DEF LoopReturns
  <1>2. CASE LoopCancels
    BY <1>2 DEF LoopCancels, FinishCancellation
  <1>3. CASE LoopFindsUncertain
    BY <1>3 DEF LoopFindsUncertain
  <1>4. CASE Settle
    BY <1>4 DEF Settle, Open
  <1>5. CASE LoopNeedsStep
    BY <1>5 DEF LoopNeedsStep, Open
  <1>6. CASE LoopContinuesStep
    BY <1>6 DEF LoopContinuesStep
  <1> QED
    BY <1>1, <1>2, <1>3, <1>4, <1>5, <1>6 DEF Loop

\* Timeouts, failures, and a driver that is started, resumed or dies.
LEMMA BoundaryFacts ==
    ASSUME InOneLoop, StreamInv,
           Timeout \/ Handler \/ Fail \/ Raise \/ Start \/ Resume \/ Crash
    PROVE  DriverFacts'
  <1> USE UnderWay DEF StreamInv, DriverFacts, Sound, TurnFacts, ToolFacts,
              CertainFacts, At, Goto, Enter, UncertainPoints, ToolPoints,
              RequestedPoints, StartedPoints, Terminal
  <1>1. CASE Timeout
    BY <1>1 DEF Timeout, AwaitPoints, InOneLoop
  <1>2. CASE Handler
    BY <1>2 DEF Handler
  <1>3. CASE Fail
    BY <1>3 DEF Fail, FinishCancellation
  <1>4. CASE Raise
    BY <1>4 DEF Raise, Live
  <1>5. CASE Resume
    BY <1>5 DEF Resume, Live
  <1>6. CASE Crash
    BY <1>6 DEF Crash
  <1>7. CASE Start
    <2>1. /\ run = Empty
          /\ run' = TurnStarted(RunStarted(run), 1)
          /\ pc' = IF run'.ok THEN "loop" ELSE "down"
      BY <1>7 DEF Start, Commit
    <2>2. /\ run'.ok /\ run'.status = "running" /\ run'.turn = 1
          /\ run'.asst = NoAssistant /\ run'.tools = run.tools
      BY <2>1 DEF TurnStarted, RunStarted, Accept, Empty
    <2>3. \A c \in CallIds : run.tools[c].state = "absent"
      BY <2>1 DEF Empty
    <2> QED
      BY <2>1, <2>2, <2>3, MutationsAssumption
      DEF NoAssistant, Unfinished, Uncertain
  <1> QED
    BY <1>1, <1>2, <1>3, <1>4, <1>5, <1>6, <1>7

\* The steps of a model turn.
LEMMA ModelFacts ==
    ASSUME InOneLoop, StreamInv,
           \/ ConsumeForStep \/ ConsumeForTurn \/ StartTurn \/ StartStep
           \/ ModelResponds \/ ModelFails \/ PersistResponse
           \/ CheckBudget \/ CompleteStep
    PROVE  DriverFacts'
  <1> USE UnderWay DEF StreamInv, DriverFacts, Sound, TurnFacts, ToolFacts,
              CertainFacts, At, UncertainPoints, ToolPoints,
              RequestedPoints, StartedPoints
  <1>1. ASSUME NEW from \in {"consume_step", "consume_turn"}, NEW target \in InboxTarget,
               NEW then \in {"start_step", "loop"}, Consume(from, target, then),
               from = "consume_step" => then = "start_step"
        PROVE  DriverFacts'
    <2>1. run.status = "running" /\ ~Open(run) /\ pc = from
      BY <1>1 DEF Consume
    <2>2. /\ run' = InboxConsumed(run, Pending(run, target))
          /\ pc' = IF run'.ok THEN then ELSE "down"
          /\ next' = next /\ resp' = resp
      BY <1>1, <2>1 DEF Consume, Commit
    <2>3. /\ run'.ok /\ run'.status = "running" /\ run'.turn = run.turn
          /\ run'.asst = run.asst /\ run'.tools = run.tools
          /\ run'.step = run.step /\ run'.stepDone = run.stepDone
      BY <2>1, <2>2 DEF InboxConsumed, Accept, Pending, Terminal, Projection
    <2> QED
      BY <1>1, <2>1, <2>2, <2>3
      DEF Terminal, Unfinished, Uncertain, InOpenStep, Open, StepKey
  <1>2. CASE ConsumeForStep \/ ConsumeForTurn
    BY <1>1, <1>2 DEF ConsumeForStep, ConsumeForTurn, InboxTarget
  <1>3. CASE StartTurn
    <2>1. run.status = "running" /\ ~Open(run)
      BY <1>3 DEF StartTurn
    <2>2. /\ run' = TurnStarted(run, run.turn + 1)
          /\ pc' = IF run'.ok THEN "consume_turn" ELSE "down"
          /\ next' = next /\ resp' = resp
      BY <1>3 DEF StartTurn, Commit
    <2>3. /\ run'.ok /\ run'.status = "running" /\ run'.turn = run.turn + 1
          /\ run'.asst = NoAssistant /\ run'.tools = run.tools
          /\ run'.step = 0
      BY <2>1, <2>2 DEF TurnStarted, Accept, Terminal, Projection
    <2>4. run.turn + 1 > 0 /\ Settled(run)
      BY <2>1 DEF Settled, InOpenStep, Projection
    <2> QED
      BY <2>1, <2>2, <2>3, <2>4, MutationsAssumption
      DEF Terminal, NoAssistant, Settled, Unfinished, Uncertain, Open
  <1>4. CASE StartStep
    <2>1. run.status = "running" /\ ~Open(run)
      BY <1>4 DEF StartStep
    <2>2. /\ run' = StepStarted(run, run.turn, run.doneInTurn + 1)
          /\ pc' = IF run'.ok THEN "model" ELSE "down"
          /\ next' = next /\ resp' = resp
      BY <1>4 DEF StartStep, Commit
    <2>3. /\ run'.ok /\ run'.status = "running" /\ run'.turn = run.turn
          /\ run'.asst = NoAssistant /\ run'.tools = run.tools
          /\ run'.step = run.doneInTurn + 1 /\ ~run'.stepDone
      BY <2>1, <2>2 DEF StepStarted, Accept, Terminal, Projection
    <2>4. run.doneInTurn + 1 > 0 /\ Settled(run)
      BY <2>1 DEF Settled, Projection, InOpenStep
    <2> QED
      BY <2>1, <2>2, <2>3, <2>4, MutationsAssumption
      DEF Terminal, NoAssistant, Settled, Unfinished, Uncertain, Open
  <1>5. CASE ModelResponds
    BY <1>5 DEF ModelResponds, Goto, Enter, Live
  <1>6. CASE ModelFails
    BY <1>6 DEF ModelFails, Goto, Enter
  <1>7. CASE PersistResponse
    <2>1. Open(run) /\ run.asst.stop = "none" /\ resp \in Responses
          /\ run.status \in {"running", "cancelling"}
      BY <1>7 DEF PersistResponse
    <2>2. /\ run' = AssistantMessage(run, resp)
          /\ pc' = IF run'.ok THEN "budget" ELSE "down"
      BY <1>7 DEF PersistResponse, Commit
    <2>3. /\ run'.ok /\ run'.status = run.status /\ run'.turn = run.turn
          /\ run'.asst = [stop |-> resp.stop, calls |-> resp.calls]
          /\ run'.tools = run.tools
          /\ run'.step = run.step /\ run'.stepDone = run.stepDone
      BY <2>1, <2>2 DEF AssistantMessage, Accept, Terminal, Projection
    <2>4. run.asst.calls = <<>>
      BY <2>1
    <2>5. Settled(run)
      BY <2>4 DEF Settled
    <2>6. /\ resp.stop \in StopReason
          /\ resp.stop # "tool_use" => resp.calls = <<>>
      BY <2>1, ResponsesAssumption
    <2> QED
      BY <2>1, <2>2, <2>3, <2>5, <2>6, MutationsAssumption
      DEF Terminal, StopReason, Settled, Unfinished, Uncertain, Open
  <1>8. CASE CheckBudget
    <2>1. run.asst.stop # "tool_use" => Settled(run)
      BY DEF Settled
    <2> QED
      BY <1>8, <2>1 DEF CheckBudget, Live, Terminal
  <1>9. CASE CompleteStep
    <2>1. Open(run) /\ Settled(run) /\ run.asst.stop # "none"
          /\ run.status \in {"running", "cancelling"}
      BY <1>9 DEF CompleteStep
    <2>2. /\ run' = StepCompleted(run, run.turn, run.step)
          /\ pc' = IF run'.ok THEN "loop" ELSE "down"
      BY <1>9 DEF CompleteStep, Commit
    <2>3. /\ run'.ok /\ run'.status = run.status /\ run'.turn = run.turn
          /\ run'.asst = run.asst /\ run'.tools = run.tools
      BY <2>1, <2>2
      DEF StepCompleted, Accept, Terminal, Projection, Settled, Unfinished, StepKey
    <2> QED
      BY <2>1, <2>2, <2>3, MutationsAssumption
      DEF Terminal, Settled, Unfinished, Uncertain
  <1> QED
    BY <1>2, <1>3, <1>4, <1>5, <1>6, <1>7, <1>8, <1>9

\* The steps on the calls that write nothing.
LEMMA ToolDecisionFacts ==
    ASSUME InOneLoop, StreamInv,
           \/ RequestsDone \/ SkipTool \/ SelectTool \/ ToolsDone
           \/ (\E verdict \in Verdict : Preflight(verdict)) \/ PreflightFails
           \/ (\E verdict \in Verdict : Dispatch(verdict)) \/ DispatchFails
           \/ ToolEnds \/ AfterTools
    PROVE  DriverFacts'
  <1> USE UnderWay DEF StreamInv, DriverFacts, Sound, TurnFacts, ToolFacts,
              CertainFacts, At, Goto, Enter, UncertainPoints, ToolPoints,
              RequestedPoints, StartedPoints
  <1>1. CASE RequestsDone
    BY <1>1 DEF RequestsDone, Terminal
  <1>2. CASE SkipTool
    <2>1. /\ UNCHANGED <<run, pc, resp>> /\ next' = next + 1 /\ pc = "tools"
          /\ Call \in CallIds /\ run.asst.calls[next] = Call
      BY <1>2, CallType DEF SkipTool, Call, LifecycleInv, StatusInv
    <2>2. ~Unfinished(run, Call)
      BY <1>2, <2>1 DEF SkipTool, PassedOver, Finished, Unfinished
    <2>3. \A i \in 1 .. Len(run.asst.calls) :
                i < next + 1 => ~Unfinished(run, run.asst.calls[i])
      BY <2>1, <2>2
    <2> QED
      BY <2>1, <2>3 DEF Terminal
  <1>3. CASE SelectTool
    <2>1. /\ Call \in CallIds /\ Call' = Call
          /\ run' = run /\ next' = next /\ resp' = resp
      BY <1>3, CallType DEF SelectTool, Goto, Call, LifecycleInv, StatusInv
    <2>2. /\ InOpenStep(run, Call)
          /\ run.tools[Call].state \in {"requested", "started"}
      <3>1. InOpenStep(run, Call) /\ run.tools[Call].state \notin Finished
        BY <1>3 DEF SelectTool, PassedOver
      <3>2. run.tools[Call].state \in ToolState
        BY <2>1, <3>1 DEF InOpenStep, Projection, Tool
      <3> QED
        BY <3>1, <3>2 DEF ToolState, Finished
    <2>3. Call \in Mutations => run.tools[Call].state # "started"
      BY <1>3 DEF SelectTool, Uncertain
    <2>4. /\ pc = "tools"
          /\ \/ pc' = "after_tools" /\ run.status = "cancelling"
             \/ /\ pc' = "preflight" /\ run.status = "running"
                /\ run.tools[Call].state = "requested"
             \/ /\ pc' = "dispatch" /\ run.status = "running"
                /\ run.tools[Call].state = "started"
      BY <1>3, <2>2, <2>3 DEF SelectTool
    <2>5. Sound(run')
      BY <2>1
    <2>6. TurnFacts'
      BY <2>1, <2>4 DEF Terminal
    <2>7. ToolFacts'
      BY <2>1, <2>2, <2>4
    <2>8. CertainFacts'
      <3>1. ~Uncertain(run)
        BY <2>4
      <3> QED
        BY <2>1, <2>4, <3>1 DEF Uncertain
    <2> QED
      BY <2>5, <2>6, <2>7, <2>8
  <1>4. CASE ToolsDone
    <2>1. Settled(run)
      BY <1>4 DEF ToolsDone, Settled
    <2> QED
      BY <1>4, <2>1 DEF ToolsDone, Terminal
  <1>5. ASSUME NEW verdict \in Verdict, Preflight(verdict)
        PROVE  DriverFacts'
    <2>1. Call' = Call
      BY <1>5 DEF Preflight, Call
    <2> QED
      BY <1>5, <2>1 DEF Preflight, Terminal
  <1>6. CASE PreflightFails
    BY <1>6 DEF PreflightFails, Terminal
  <1>7. ASSUME NEW verdict \in Verdict, Dispatch(verdict)
        PROVE  DriverFacts'
    <2>1. Call' = Call
      BY <1>7 DEF Dispatch, Call
    <2>2. /\ pc' \in {"tool_failed", "executing", "failed_uncertain"}
          /\ pc' = "failed_uncertain" => Call \in Mutations
      BY <1>7 DEF Dispatch, Broken
    <2> QED
      BY <1>7, <2>1, <2>2 DEF Dispatch, Terminal, Uncertain
  <1>8. CASE DispatchFails \/ ToolEnds
    <2>1. Call' = Call
      BY <1>8 DEF DispatchFails, ToolEnds, Call
    <2>2. /\ pc' \in {"tool_failed", "tool_completed", "handler", "failed_uncertain"}
          /\ pc' = "failed_uncertain" => Call \in Mutations
      BY <1>8 DEF DispatchFails, ToolEnds, Broken
    <2> QED
      BY <1>8, <2>1, <2>2 DEF DispatchFails, ToolEnds, Terminal, Uncertain
  <1>9. CASE AfterTools
    BY <1>9 DEF AfterTools, Live, Terminal
  <1> QED
    BY <1>1, <1>2, <1>3, <1>4, <1>5, <1>6, <1>7, <1>8, <1>9

\* The events on the calls, and the closing of the run.
LEMMA ToolEventFacts ==
    ASSUME InOneLoop, StreamInv,
           \/ RequestTool \/ DenyTool \/ DenyResult \/ AskApproval \/ StartTool
           \/ RecordResult \/ Close
    PROVE  DriverFacts'
  <1> USE UnderWay DEF StreamInv, DriverFacts, Sound, TurnFacts, ToolFacts,
              CertainFacts, At, UncertainPoints, ToolPoints,
              RequestedPoints, StartedPoints
  <1>1. CASE RequestTool
    <2>1. /\ Call \in CallIds /\ pc = "request" /\ next \in 1 .. Len(run.asst.calls)
          /\ Open(run) /\ run.status \in {"running", "cancelling"}
      BY <1>1, CallType DEF RequestTool, LifecycleInv, StatusInv
    <2>2. CASE run.tools[Call].state = "absent"
      <3>1. /\ run' = ToolRequested(run, Call)
            /\ pc' = IF run'.ok THEN "request" ELSE "down"
        BY <1>1, <2>2 DEF RequestTool, Commit
      <3>2. run' = [run EXCEPT !.tools[Call] =
                        [state |-> "requested", key |-> StepKey(run)]]
        BY <2>1, <2>2, <3>1 DEF ToolRequested, Accept, Terminal
      <3>3. /\ run'.ok /\ run'.status = run.status /\ run'.turn = run.turn
            /\ run'.asst = run.asst
            /\ run'.step = run.step /\ run'.stepDone = run.stepDone
            /\ run'.tools[Call] = [state |-> "requested", key |-> StepKey(run)]
            /\ \A c \in CallIds : c # Call => run'.tools[c] = run.tools[c]
        BY <2>1, <3>2 DEF Projection
      <3>4. run.asst.calls[next] = Call
        BY DEF Call
      <3> QED
        BY <2>1, <3>1, <3>3, <3>4, MutationsAssumption
        DEF Terminal, Unfinished, Uncertain, InOpenStep, Open, StepKey
    <2>3. CASE run.tools[Call].state # "absent"
      BY <1>1, <2>3 DEF RequestTool, Terminal
    <2> QED
      BY <2>2, <2>3
  <1>2. CASE DenyTool \/ StartTool
    <2>1. /\ run.status = "running" /\ InOpenStep(run, Call)
          /\ run.tools[Call].state = "requested" /\ Call \in CallIds
          /\ ~Uncertain(run) /\ Open(run)
      BY <1>2 DEF DenyTool, StartTool
    <2>2. /\ run' = ToolStarted(run, Call)
          /\ pc' \in IF run'.ok THEN {"deny_result", "dispatch"} ELSE {"down"}
          /\ next' = next
      BY <1>2 DEF DenyTool, StartTool, Commit
    <2>3. run' = [run EXCEPT !.tools[Call].state = "started"]
      BY <2>1, <2>2 DEF ToolStarted, Accept, Terminal
    <2>4. /\ run'.ok /\ run'.status = run.status /\ run'.turn = run.turn
          /\ run'.asst = run.asst
          /\ run'.step = run.step /\ run'.stepDone = run.stepDone
          /\ run'.tools[Call].state = "started"
          /\ run'.tools[Call].key = run.tools[Call].key
          /\ \A c \in CallIds : c # Call => run'.tools[c] = run.tools[c]
      BY <2>1, <2>3 DEF Projection, Tool
    <2>5. /\ Call' = Call
          /\ next <= Len(run.asst.calls) /\ run.asst.calls[next] = Call
      BY <1>2, <2>2, <2>4 DEF Call, DenyTool, StartTool
    <2>6. Sound(run')
      BY <2>1, <2>4, <2>5 DEF Unfinished, InOpenStep, Open, StepKey, Terminal
    <2>7. /\ pc \in {"deny", "start_tool"}
          /\ \A i \in 1 .. Len(run'.asst.calls) :
                i < next' => ~Unfinished(run', run'.asst.calls[i])
      BY <1>2, <2>1, <2>2, <2>4 DEF DenyTool, StartTool, Unfinished
    <2>8. InOpenStep(run', Call) /\ Open(run')
      BY <2>1, <2>4 DEF InOpenStep, Open, StepKey
    <2>9. \A c \in Mutations : run'.tools[c].state = "started" => c = Call
      BY <2>1, <2>4, MutationsAssumption DEF Uncertain
    <2> QED
      BY <2>1, <2>2, <2>4, <2>5, <2>6, <2>7, <2>8, <2>9
      DEF Terminal, Uncertain
  <1>3. CASE DenyResult \/ RecordResult
    <2>1. /\ run.status \in {"running", "cancelling"} /\ InOpenStep(run, Call)
          /\ run.tools[Call].state = "started" /\ Call \in CallIds
          /\ \A c \in Mutations : run.tools[c].state = "started" => c = Call
          /\ Open(run)
      BY <1>3 DEF DenyResult, RecordResult
    <2>2. PICK outcome \in Finished :
                /\ run' = ToolFinished(run, Call, outcome)
                /\ pc' = IF run'.ok THEN "tools" ELSE "down"
                /\ next' = next + 1
      BY <1>3 DEF DenyResult, RecordResult, Commit, Finished
    <2>3. run' = [run EXCEPT !.tools[Call].state = outcome]
      BY <2>1, <2>2 DEF ToolFinished, Accept, Terminal
    <2>4. /\ run'.ok /\ run'.status = run.status /\ run'.turn = run.turn
          /\ run'.asst = run.asst
          /\ run'.step = run.step /\ run'.stepDone = run.stepDone
          /\ run'.tools[Call].state \in Finished
          /\ \A c \in CallIds : c # Call => run'.tools[c] = run.tools[c]
      BY <2>1, <2>3 DEF Projection, Tool
    <2>5. run.asst.calls[next] = Call
      BY DEF Call
    <2>6. ~Uncertain(run')
      BY <2>1, <2>4, MutationsAssumption DEF Uncertain, Finished
    <2>7. Open(run') /\ Sound(run')
      BY <2>1, <2>4, <2>6
      DEF Unfinished, InOpenStep, Open, StepKey, Terminal, Finished
    <2>8. \A i \in 1 .. Len(run.asst.calls) :
                i < next + 1 => ~Unfinished(run', run.asst.calls[i])
      <3> SUFFICES ASSUME NEW i \in 1 .. Len(run.asst.calls), i < next + 1
                   PROVE  ~Unfinished(run', run.asst.calls[i])
        OBVIOUS
      <3>1. CASE run.asst.calls[i] = Call
        BY <2>4, <3>1 DEF Unfinished, Finished
      <3>2. CASE run.asst.calls[i] # Call
        <4>1. i < next /\ run.asst.calls[i] \in CallIds
          BY <2>5, <3>2
        <4>2. pc \in StartedPoints
          BY <1>3 DEF DenyResult, RecordResult
        <4> QED
          BY <2>4, <3>2, <4>1, <4>2 DEF Unfinished
      <3> QED
        BY <3>1, <3>2
    <2> QED
      BY <1>3, <2>1, <2>2, <2>4, <2>6, <2>7, <2>8
      DEF DenyResult, RecordResult, Terminal
  <1>4. CASE AskApproval
    <2>1. run.status = "running" /\ ~Uncertain(run) /\ Call \in CallIds /\ Open(run)
          /\ run.asst.stop = "tool_use"
      BY <1>4 DEF AskApproval
    <2>2. /\ run' = ApprovalRequested(run, Call)
          /\ pc' = IF run'.ok THEN "after_tools" ELSE "down"
      BY <1>4 DEF AskApproval, Commit
    <2>3. /\ run'.ok /\ run'.status = "waiting_approval" /\ run'.turn = run.turn
          /\ run'.asst = run.asst /\ run'.tools = run.tools
          /\ run'.step = run.step /\ run'.stepDone = run.stepDone
      BY <2>1, <2>2 DEF ApprovalRequested, Accept, Terminal, Projection
    <2> QED
      BY <2>1, <2>2, <2>3
      DEF Terminal, Unfinished, Uncertain, InOpenStep, Open, StepKey
  <1>5. CASE Close
    <2>1. /\ pc \in Terminal /\ run.status \in {"running", "cancelling"}
          /\ Uncertain(run) <=> pc = "failed_uncertain"
          /\ pc = "completed" => run.status = "running" /\ ~Open(run)
          /\ pc = "cancelled" => run.status = "cancelling"
      BY <1>5 DEF Close, LifecycleInv, StatusInv, ClosingStatus, Terminal
    <2>2. run' = RunClosed(run, pc) /\ pc' = "down"
      BY <1>5 DEF Close, Commit
    <2>3. /\ run'.ok /\ run'.status = pc /\ run'.turn = run.turn
          /\ run'.asst = run.asst /\ run'.tools = run.tools
          /\ run'.step = run.step /\ run'.stepDone = run.stepDone
          /\ run'.inbox = run.inbox
      BY <2>1, <2>2 DEF RunClosed, Accept, Terminal, Projection
    <2> QED
      BY <2>1, <2>2, <2>3
      DEF Terminal, Unfinished, Uncertain, InOpenStep, Open, StepKey, Pending
  <1> QED
    BY <1>1, <1>2, <1>3, <1>4, <1>5

\* The two streams have the same turn, step and calls, and both are readable.
SameWork(p, q) ==
    /\ q.ok /\ q.turn = p.turn /\ q.step = p.step /\ q.stepDone = p.stepDone
    /\ q.asst = p.asst /\ q.tools = p.tools

\* Where the check of an operator still holds its event is accepted.
LEMMA OperatorEvents ==
    ASSUME NEW p \in Projection, p.ok, NEW c, NEW d, NEW m, NEW target
    PROVE  /\ p.status = "waiting_approval" =>
                /\ SameWork(p, ApprovalDecided(p, c, d))
                /\ ApprovalDecided(p, c, d).status = "running"
           /\ p.status = "running" =>
                /\ SameWork(p, RunClosed(p, "failed"))
                /\ RunClosed(p, "failed").status = "failed"
           /\ p.status \in {"running", "waiting_approval"} =>
                /\ SameWork(p, RunCancelling(p))
                /\ RunCancelling(p).status = "cancelling"
           /\ p.status = "running" /\ p.inbox[m] = "absent" =>
                /\ SameWork(p, InboxSubmitted(p, m, target))
                /\ InboxSubmitted(p, m, target).status = "running"
BY DEF SameWork, Accept, Terminal, Projection, ApprovalDecided, RunClosed,
       RunCancelling, InboxSubmitted

\* A stream with the same work is sound if its status is.
LEMMA SameWorkSound ==
    ASSUME NEW p, Sound(p), NEW q, SameWork(p, q), p.status # "created",
           q.status \in {"running", "cancelling"} \/ ~Uncertain(p),
           q.status \in {"running", "cancelling", "failed"}
    PROVE  Sound(q) /\ (Uncertain(q) <=> Uncertain(p))
BY DEF Sound, SameWork, Terminal, Unfinished, Uncertain, InOpenStep, Open,
       StepKey

\* An operator's event, at a point where operators run, keeps what the driver
\* knows.
LEMMA SameWorkFacts ==
    ASSUME InOneLoop, StreamInv, SameWork(run, run'),
           UNCHANGED <<pc, next, resp>>, pc \in AwaitPoints,
           run.status # "created",
           \/ run'.status \in {"running", "cancelling"}
           \/ run'.status = "failed" /\ pc = "down" /\ ~Uncertain(run)
    PROVE  DriverFacts'
  <1>1. Sound(run') /\ (Uncertain(run') <=> Uncertain(run))
    BY SameWorkSound DEF StreamInv, DriverFacts
  <1>2. pc \in {"down", "model", "executing"} /\ pc' = pc
    BY DEF AwaitPoints, InOneLoop
  <1>3. /\ Open(run') <=> Open(run)
        /\ run'.asst = run.asst /\ run'.tools = run.tools /\ next' = next
        /\ \A c : Unfinished(run', c) <=> Unfinished(run, c)
        /\ \A c : InOpenStep(run', c) <=> InOpenStep(run, c)
    BY DEF SameWork, Open, Unfinished, InOpenStep, StepKey
  <1>4. Call' = Call
    BY <1>3 DEF Call
  <1>5. TurnFacts' /\ ToolFacts'
    BY <1>2, <1>3, <1>4
    DEF StreamInv, DriverFacts, TurnFacts, ToolFacts, ToolPoints,
        RequestedPoints, StartedPoints, Terminal
  <1>6. CertainFacts'
    BY <1>1, <1>2, <1>3, <1>4
    DEF StreamInv, DriverFacts, CertainFacts, UncertainPoints, StartedPoints
  <1> QED
    BY <1>1, <1>5, <1>6 DEF DriverFacts

\* Every step of an operator.
LEMMA OperatorFacts ==
    ASSUME InOneLoop, StreamInv, NEW o \in Operators, Operator(o)
    PROVE  DriverFacts' /\ OperatorsReady'
  <1>t. /\ run \in Projection /\ run.ok /\ Serial /\ WaitingIsIdle
        /\ op \in [Operators -> OpState] /\ SharedLoop
        /\ Begun /\ Untouched
    BY DEF StreamInv, LifecycleInv, StatusInv, DriverFacts, Sound, TypeOK, InOneLoop
  <1>p. UNCHANGED <<pc, next, resp>>
    BY OperatorStep DEF StreamInv, LifecycleInv, StatusInv
  <1>i. run.status = "waiting_approval" /\ pc \in AwaitPoints => pc = "down"
    BY <1>t DEF WaitingIsIdle, AwaitPoints, InOneLoop
  <1>1. ASSUME NEW call \in OpState, OpBegin(o, call),
               call.do \notin {"idle", "reject"},
               call.do = "decide" => run.status = "waiting_approval",
               call.do = "cancel" => run.status \in {"running", "waiting_approval"},
               call.do = "submit" => run.status = "running" /\ run.inbox[call.msg] = "absent"
        PROVE  DriverFacts' /\ OperatorsReady'
    <2>1. /\ run' = run /\ op' = [op EXCEPT ![o] = call]
          /\ pc \in AwaitPoints /\ \A other \in Operators : op[other] = Idle
      BY <1>t, <1>1 DEF OpBegin, OperatorRuns
    <2>2. DriverFacts'
      BY <1>p, <2>1
      DEF StreamInv, DriverFacts, TurnFacts, ToolFacts, CertainFacts, Call
    <2>3. OperatorsReady'
      BY <1>t, <1>p, <1>i, <1>1, <2>1 DEF OperatorsReady, Idle
    <2> QED
      BY <2>2, <2>3
  <1>2. ASSUME NEW c \in CallIds, NEW d \in {"approved", "rejected"}, Decide(o, c, d)
        PROVE  DriverFacts' /\ OperatorsReady'
    BY <1>1, <1>2 DEF Decide, OpState
  <1>3. CASE Cancel(o)
    BY <1>1, <1>3 DEF Cancel, OpState
  <1>4. ASSUME NEW m \in MsgIds, NEW target \in InboxTarget, Submit(o, m, target)
        PROVE  DriverFacts' /\ OperatorsReady'
    BY <1>1, <1>4 DEF Submit, OpState, InOneLoop
  <1>c. ASSUME op[o] # Idle
        PROVE  /\ pc \in AwaitPoints /\ run.status # "created"
               /\ \A other \in Operators : other # o => op[other] = Idle
    BY <1>t, <1>c DEF Serial, Begun, Untouched
  <1>5. ASSUME NEW q, NEW rest \in {Idle, [do |-> "reject"]},
               OpCommit(o, q, rest), op[o] # Idle, SameWork(run, q),
               \/ q.status \in {"running", "cancelling"}
               \/ q.status = "failed" /\ pc = "down" /\ ~Uncertain(run),
               rest # Idle => /\ q.status = "running" /\ pc = "down"
                              /\ ~Uncertain(run)
        PROVE  DriverFacts' /\ OperatorsReady'
    <2>1. run' = q /\ op' = [op EXCEPT ![o] = rest]
      BY <1>5 DEF OpCommit
    <2>2. DriverFacts'
      BY <1>p, <1>c, <1>5, <2>1, SameWorkFacts
    <2>3. Uncertain(run') <=> Uncertain(run)
      BY <1>5, <2>1 DEF SameWork, Uncertain
    <2>4. OperatorsReady'
      BY <1>t, <1>p, <1>c, <1>5, <2>1, <2>3 DEF OperatorsReady, Idle
    <2> QED
      BY <2>2, <2>4
  <1>r. OperatorsReady
    BY DEF StreamInv
  <1>6. CASE DecideCommits(o)
    <2>1. run.status = "waiting_approval" /\ op[o] # Idle /\ pc = "down"
      BY <1>r, <1>6 DEF DecideCommits, OperatorsReady, Idle
    <2>2. ~Uncertain(run)
      BY <2>1 DEF StreamInv, DriverFacts, Sound
    <2> QED
      BY <1>t, <1>5, <1>6, <2>1, <2>2, OperatorEvents DEF DecideCommits, Idle
  <1>7. CASE RejectCommits(o)
    <2>1. /\ run.status = "running" /\ op[o] # Idle /\ pc = "down"
          /\ ~Uncertain(run)
      BY <1>r, <1>7 DEF RejectCommits, OperatorsReady, Idle
    <2> QED
      BY <1>t, <1>5, <1>7, <2>1, OperatorEvents DEF RejectCommits
  <1>8. CASE CancelCommits(o)
    <2>1. run.status \in {"running", "waiting_approval"} /\ op[o] # Idle
      BY <1>r, <1>8 DEF CancelCommits, OperatorsReady, Idle
    <2> QED
      BY <1>t, <1>5, <1>8, <2>1, OperatorEvents DEF CancelCommits
  <1>9. CASE SubmitCommits(o)
    <2>1. /\ run.status = "running" /\ run.inbox[op[o].msg] = "absent"
          /\ op[o] # Idle
      BY <1>r, <1>9 DEF SubmitCommits, OperatorsReady, Idle
    <2> QED
      BY <1>t, <1>5, <1>9, <2>1, OperatorEvents DEF SubmitCommits
  <1>10. ~OperatorStops(o)
    BY <1>t DEF OperatorStops
  <1> QED
    BY <1>2, <1>3, <1>4, <1>6, <1>7, <1>8, <1>9, <1>10
    DEF Operator, Operates, OperatorCommits

\* The invariant of the shared loop holds at the start.
LEMMA StreamInit == Init => StreamInv
  <1> SUFFICES ASSUME Init
               PROVE  StreamInv
    OBVIOUS
  <1>1. /\ run = Empty /\ pc = "down"
        /\ \A o \in Operators : op[o] = Idle
    BY DEF Init
  <1>2. \A c \in CallIds : run.tools[c].state = "absent"
    BY <1>1 DEF Empty
  <1>3. Sound(run)
    BY <1>1, <1>2, MutationsAssumption
    DEF Sound, Unfinished, Uncertain, Empty, NoAssistant, Terminal
  <1>4. TurnFacts /\ ToolFacts
    BY <1>1 DEF TurnFacts, ToolFacts, ToolPoints, RequestedPoints, StartedPoints
  <1>5. CertainFacts /\ OperatorsReady
    BY <1>1 DEF CertainFacts, OperatorsReady, UncertainPoints, StartedPoints, Idle
  <1> QED
    BY <1>3, <1>4, <1>5, LifecycleInit DEF StreamInv, DriverFacts

\* Every step of the runtime keeps the invariant of the shared loop.
LEMMA StreamStep ==
    ASSUME InOneLoop, StreamInv, [Next]_vars
    PROVE  StreamInv'
  <1>1. LifecycleInv'
    BY LifecycleStep DEF StreamInv, InOneLoop
  <1>2. CASE Driver \/ Start \/ Resume
    <2>1. DriverFacts'
      BY <1>2, LoopFacts, BoundaryFacts, ModelFacts, ToolDecisionFacts,
         ToolEventFacts DEF Driver, Proceed, Tools
    <2>2. OperatorsReady'
      BY <1>2, DriverWaits DEF OperatorsReady, Idle, InOneLoop
    <2> QED
      BY <1>1, <2>1, <2>2 DEF StreamInv
  <1>3. CASE Crash
    BY <1>1, <1>3, BoundaryFacts DEF Crash, StreamInv, OperatorsReady, Idle, InOneLoop
  <1>4. CASE \E o \in Operators : Operator(o)
    BY <1>1, <1>4, OperatorFacts DEF StreamInv
  <1>5. CASE UNCHANGED vars
    BY <1>1, <1>5
    DEF vars, StreamInv, DriverFacts, TurnFacts, ToolFacts, CertainFacts,
        OperatorsReady, Call
  <1> QED
    BY <1>2, <1>3, <1>4, <1>5 DEF Next

\* With operators in the driver's event loop the invariant holds in every
\* behaviour.
THEOREM StreamInvariant == InOneLoop => (Spec => []StreamInv)
  <1> SUFFICES ASSUME InOneLoop
               PROVE  Spec => []StreamInv
    OBVIOUS
  <1>1. StreamInv /\ [Next]_vars => StreamInv'
    BY StreamStep
  <1> QED
    BY <1>1, StreamInit, PTL DEF Spec

\* No append of the runtime or of an operator is one that the projector
\* refuses: the stream stays readable.
THEOREM StaysReadable == InOneLoop => (Spec => []StreamReadable)
  <1>1. StreamInv => StreamReadable
    BY DEF StreamInv, DriverFacts, Sound, StreamReadable
  <1> QED
    BY <1>1, StreamInvariant, PTL

\* A run ends as failed_uncertain exactly when a mutation was started and has
\* no result, wherever a crash, a timeout or a cancellation struck.
THEOREM UncertaintyReported == InOneLoop => (Spec => []UncertainIsReported)
  <1>1. StreamInv => UncertainIsReported
    BY DEF StreamInv, DriverFacts, Sound, UncertainIsReported
  <1> QED
    BY <1>1, StreamInvariant, PTL

\* No call is without its result while the model is asked for the next step.
THEOREM ResultsFirst == InOneLoop => (Spec => []ResultsBeforeModel)
  <1>1. StreamInv => ResultsBeforeModel
    <2> SUFFICES ASSUME StreamInv, pc = "model", NEW c \in CallIds
                 PROVE  ~Unfinished(run, c)
      BY DEF ResultsBeforeModel, Unfinished
    <2>1. Sound(run) /\ run.asst.stop = "none"
      BY DEF StreamInv, DriverFacts, TurnFacts
    <2>2. run.asst.calls = <<>>
      BY <2>1 DEF Sound
    <2> QED
      BY <2>1, <2>2 DEF Sound
  <1> QED
    BY <1>1, StreamInvariant, PTL

\* A run completes only with no follow-up left for a next turn.
THEOREM FollowUpsServed == InOneLoop => (Spec => []FollowUpsConsumed)
  <1>1. StreamInv => FollowUpsConsumed
    BY DEF StreamInv, DriverFacts, Sound, FollowUpsConsumed, Terminal
  <1> QED
    BY <1>1, StreamInvariant, PTL

\* Once a cancellation is durable no handler is entered.
THEOREM CancelStopsHandlers == InOneLoop => (Spec => NoHandlerAfterCancel)
  <1> SUFFICES ASSUME InOneLoop
               PROVE  Spec => NoHandlerAfterCancel
    OBVIOUS
  <1>1. ASSUME StreamInv, [Next]_vars
        PROVE  [run.status = "cancelling" => attempts' = attempts]_vars
    <2>1. ASSUME Next, attempts' # attempts
          PROVE  run.status # "cancelling"
      <3>1. PICK verdict \in Verdict : Dispatch(verdict)
        BY <1>1, <2>1, OnlyDispatchEnters DEF StreamInv, LifecycleInv, StatusInv
      <3> QED
        BY <1>1, <3>1 DEF Dispatch, At, StreamInv, DriverFacts, ToolFacts
    <2> QED
      BY <1>1, <2>1
  <1> QED
    BY <1>1, StreamInvariant, PTL DEF Spec, NoHandlerAfterCancel

\* The driver never has to raise and no operator dies alone: every step is
\* one of LoopNext, the relation that the fairness of FairSpec is stated on.
THEOREM LoopSuffices == InOneLoop => (Spec => [][LoopNext]_vars)
  <1> SUFFICES ASSUME InOneLoop
               PROVE  Spec => [][LoopNext]_vars
    OBVIOUS
  <1>1. ASSUME StreamInv, Next
        PROVE  LoopNext
    <2>1. ~Raise
      BY <1>1 DEF Raise, Live, StreamInv, DriverFacts, Sound, TurnFacts
    <2>2. \A o \in Operators : ~OperatorStops(o)
      BY DEF OperatorStops, InOneLoop
    <2> QED
      BY <1>1, <2>1, <2>2 DEF Next, Driver, LoopNext, Operator
  <1>2. StreamInv /\ [Next]_vars => [LoopNext]_vars
    BY <1>1
  <1> QED
    BY <1>2, StreamInvariant, PTL DEF Spec

(***************************************************************************)
(* The commands around the runtime (DurableAgent).  Every step of them is   *)
(* a step of the runtime or leaves it alone, except one: the second of two  *)
(* investigations that race under one id writes run.started into the        *)
(* other's stream.  The runtime's guarantees survive them.                  *)
(***************************************************************************)

\* The points of investigate, and the types of what the commands keep.
InvestigatorState ==
    {Away} \cup [at : {"new", "writing", "executing", "starting"},
                 scenario : Scenarios]

AgentTypes ==
    /\ investigator \in [Investigators -> InvestigatorState]
    /\ raced \in BOOLEAN

\* A second run.started makes the stream unreadable and changes nothing else.
LEMMA Collision ==
    ASSUME TypeOK, Begun, NEW i, InvestigateCollides(i)
    PROVE  /\ run' = [run EXCEPT !.ok = FALSE]
           /\ UNCHANGED <<pc, next, resp, op, attempts, crashes>>
  <1>1. RunStarted(run) = [run EXCEPT !.ok = FALSE]
    BY DEF InvestigateCollides, Begun, RunStarted, Accept
  <1>2. run \in Projection
    BY DEF TypeOK
  <1>3. TurnStarted(RunStarted(run), 1) = [run EXCEPT !.ok = FALSE]
    BY <1>1, <1>2 DEF TurnStarted, Accept, Projection
  <1> QED
    BY <1>3 DEF InvestigateCollides

\* It keeps the gate: the handlers of the run it spoils are not entered more
\* often for it.
LEMMA CollisionGate ==
    ASSUME GateInv, Begun, Untouched, NEW i, InvestigateCollides(i)
    PROVE  GateInv' /\ Begun' /\ Untouched'
  <1>1. /\ run' = [run EXCEPT !.ok = FALSE]
        /\ UNCHANGED <<pc, next, resp, op, attempts, crashes>>
    BY Collision DEF GateInv
  <1>2. run \in Projection /\ run.status # "created"
    BY DEF GateInv, TypeOK, Begun, InvestigateCollides
  <1>3. /\ run' \in Projection
        /\ run'.asst = run.asst /\ run'.tools = run.tools
        /\ run'.first = run.first /\ run'.status = run.status
    BY <1>1, <1>2 DEF Projection
  <1>4. Call' = Call
    BY <1>1, <1>3 DEF Call
  <1>5. TypeOK'
    BY <1>1, <1>3 DEF GateInv, TypeOK
  <1>6. AtCall' /\ NotYetStarted' /\ Cleared' /\ Entered'
    BY <1>1, <1>3, <1>4 DEF GateInv, AtCall, NotYetStarted, Cleared, Entered
  <1>7. Begun' /\ Untouched'
    BY <1>2, <1>3 DEF Begun, Untouched, Empty
  <1> QED
    BY <1>5, <1>6, <1>7 DEF GateInv

\* Every step of the commands but a collision is one of the runtime.
LEMMA RuntimeSteps ==
    ASSUME [AgentNext]_agentVars
    PROVE  [Next]_vars \/ \E i \in Investigators : InvestigateCollides(i)
  <1>1. CASE UNCHANGED agentVars
    BY <1>1 DEF agentVars
  <1>2. ASSUME NEW i \in Investigators, NEW s \in Scenarios,
               \/ InvestigateBegins(i, s)
               \/ MetadataEmptied(i) \/ MetadataWritten(i) \/ RunChecks(i)
               \/ InvestigateEnds(i)
        PROVE  UNCHANGED vars
    BY <1>2 DEF InvestigateBegins, MetadataEmptied, MetadataWritten,
                RunChecks, InvestigateEnds
  <1>3. ASSUME NEW i \in Investigators, InvestigateStarts(i)
        PROVE  Next
    BY <1>3 DEF InvestigateStarts, Next
  <1>4. CASE AgentResumes \/ AgentCrashes
    BY <1>4 DEF AgentResumes, AgentCrashes, Next
  <1>5. ASSUME NEW o \in Operators,
               AgentDecides(o) \/ AgentDecideCommits(o) \/ AgentDecisionEnds(o)
        PROVE  Next
    BY <1>5 DEF AgentDecides, AgentDecideCommits, AgentDecisionEnds, Next,
                Operator, Operates, OperatorCommits
  <1>6. CASE PolicyEvaluates \/ AgentAsks \/ AgentDrives
    <2>1. Judgement(Call) \subseteq Verdict
      BY DEF Judgement, Verdict
    <2> QED
      BY <1>6, <2>1 DEF PolicyEvaluates, AgentAsks, AgentDrives, Next, Driver,
                        Proceed, Tools
  <1>7. CASE \E i \in Investigators : \E s \in Scenarios : InvestigateBegins(i, s)
    BY <1>2, <1>7
  <1>8. ASSUME NEW i \in Investigators,
               \/ MetadataEmptied(i) \/ MetadataWritten(i) \/ RunChecks(i)
               \/ InvestigateEnds(i)
        PROVE  UNCHANGED vars
    BY <1>8 DEF MetadataEmptied, MetadataWritten, RunChecks, InvestigateEnds
  <1> QED
    BY <1>1, <1>3, <1>4, <1>5, <1>6, <1>7, <1>8 DEF AgentNext

\* The gate of the runtime, with what the commands need of an empty stream.
AgentGate == GateInv /\ Begun /\ Untouched

\* It holds when nothing has been investigated yet.
LEMMA AgentGateInit == AgentInit => AgentGate
BY GateInit DEF AgentInit, AgentGate, Init, Begun, Untouched

\* Every step of the commands keeps it.
LEMMA AgentGateStep == AgentGate /\ [AgentNext]_agentVars => AgentGate'
  <1> SUFFICES ASSUME AgentGate, [AgentNext]_agentVars
               PROVE  AgentGate'
    OBVIOUS
  <1>1. CASE [Next]_vars
    BY <1>1, GateStep, BegunNext DEF AgentGate, GateInv
  <1>2. CASE \E i \in Investigators : InvestigateCollides(i)
    BY <1>2, CollisionGate DEF AgentGate
  <1> QED
    BY <1>1, <1>2, RuntimeSteps

\* Between the commands of any number of processes, races of investigations
\* included, no mutation's handler is entered twice.
THEOREM AgentMutationsOnce == AgentSpec => []MutationAtMostOnce
  <1>1. AgentGate => MutationAtMostOnce
    BY MutationsAssumption
    DEF AgentGate, GateInv, TypeOK, Entered, MutationAtMostOnce
  <1> QED
    BY <1>1, AgentGateInit, AgentGateStep, PTL DEF AgentSpec

\* And a handler is entered only for a call that is durably started and has
\* no durable result.
THEOREM AgentNoReexecution == AgentSpec => OnlyUnfinishedEntered
  <1>1. AgentGate /\ [AgentNext]_agentVars =>
          [\A c \in CallIds : attempts'[c] # attempts[c]
                                => run.tools[c].state = "started"]_vars
    <2> SUFFICES ASSUME AgentGate, [AgentNext]_agentVars, ~UNCHANGED vars,
                        NEW c \in CallIds, attempts'[c] # attempts[c]
                 PROVE  run.tools[c].state = "started"
      OBVIOUS
    <2>1. CASE [Next]_vars
      BY <2>1, EntersStarted DEF AgentGate
    <2>2. CASE \E i \in Investigators : InvestigateCollides(i)
      BY <2>2 DEF InvestigateCollides
    <2> QED
      BY <2>1, <2>2, RuntimeSteps
  <1> QED
    BY <1>1, AgentGateInit, AgentGateStep, PTL
    DEF AgentSpec, OnlyUnfinishedEntered

(***************************************************************************)
(* Metadata and stream belong together, as long as no two investigations    *)
(* overlap: the one that is under way finds the stream empty until it       *)
(* starts it itself.                                                        *)
(***************************************************************************)

\* One investigation at a time.
Alone ==
    ~raced => \A i, j \in Investigators :
                 investigator[i] # Away /\ investigator[j] # Away => i = j

\* The one that is under way comes before the first event, and from the
\* moment it has written the metadata they are its own.
Preparing ==
    ~raced => \A i \in Investigators : investigator[i] # Away =>
        /\ run = Empty
        /\ investigator[i].at \in {"executing", "starting"}
             => metadata = investigator[i].scenario

\* A run that has events has the metadata it was started with, and its
\* driver the policy of that scenario.
Addressed ==
    ~raced =>
        /\ run # Empty => metadata = begunAs /\ begunAs \in Scenarios
        /\ pc # "down" => policy = begunAs

\* What was executed was in the scenario of the run.
Executed ==
    ~raced => \A c \in Mutations : attempts[c] > 0 => c \in RecoveryCalls[begunAs]

AgentInv ==
    AgentGate /\ AgentTypes /\ Alone /\ Preparing /\ Addressed /\ Executed

\* It holds when nothing has been investigated yet.
LEMMA AgentInvInit == AgentInit => AgentInv
  <1> SUFFICES ASSUME AgentInit
               PROVE  AgentInv
    OBVIOUS
  <1>1. AgentGate
    BY AgentGateInit
  <1>2. AgentTypes /\ Alone /\ Preparing
    BY DEF AgentInit, AgentTypes, InvestigatorState, Alone, Preparing
  <1>3. Addressed
    BY DEF AgentInit, Init, Addressed
  <1>4. Executed
    BY MutationsAssumption DEF AgentInit, Init, Executed
  <1> QED
    BY <1>1, <1>2, <1>3, <1>4 DEF AgentInv

\* What investigate does before the stream has an event, or gives up.
LEMMA InvestigateKeeps ==
    ASSUME AgentInv, NEW i \in Investigators,
           \/ \E s \in Scenarios : InvestigateBegins(i, s)
           \/ MetadataEmptied(i) \/ MetadataWritten(i) \/ RunChecks(i)
           \/ InvestigateEnds(i)
    PROVE  AgentTypes' /\ Alone' /\ Preparing' /\ Addressed' /\ Executed'
  <1> USE DEF AgentInv, AgentTypes, InvestigatorState, Away
  <1>1. ASSUME NEW s \in Scenarios, InvestigateBegins(i, s)
        PROVE  AgentTypes' /\ Alone' /\ Preparing' /\ Addressed' /\ Executed'
    <2>1. AgentTypes'
      BY <1>1 DEF InvestigateBegins
    <2>2. ~raced' => /\ ~raced
                     /\ \A j \in Investigators : j # i => investigator'[j] = Away
      BY <1>1 DEF InvestigateBegins
    <2>3. Alone'
      BY <2>2 DEF Alone
    <2>4. Preparing'
      BY <1>1, <2>2 DEF InvestigateBegins, Preparing, vars
    <2>5. Addressed' /\ Executed'
      BY <1>1, <2>2 DEF InvestigateBegins, Addressed, Executed, vars
    <2> QED
      BY <2>1, <2>3, <2>4, <2>5
  <1>2. CASE MetadataEmptied(i) \/ MetadataWritten(i) \/ RunChecks(i)
    <2> USE DEF MetadataEmptied, MetadataWritten, RunChecks, Moves
    <2>1. AgentTypes'
      BY <1>2
    <2>2. /\ UNCHANGED <<run, pc, attempts, policy, begunAs, raced>>
          /\ \A j \in Investigators :
                /\ j # i => investigator'[j] = investigator[j]
                /\ (investigator'[j] # Away) => (investigator[j] # Away)
          /\ investigator[i] # Away
      BY <1>2 DEF vars
    <2>3. Alone' /\ Executed'
      BY <2>2 DEF Alone, Executed
    <2>4. ~raced => run = Empty /\ \A j \in Investigators :
                        j # i => investigator'[j] = Away
      BY <2>2 DEF Alone, Preparing
    <2>5. Addressed'
      BY <2>2, <2>4 DEF Addressed
    <2>6. investigator'[i].at \in {"executing", "starting"} /\ ~raced
            => metadata' = investigator'[i].scenario
      BY <1>2 DEF Preparing
    <2>7. Preparing'
      BY <2>2, <2>4, <2>6 DEF Preparing
    <2> QED
      BY <2>1, <2>3, <2>5, <2>7
  <1>3. CASE InvestigateEnds(i)
    BY <1>3 DEF InvestigateEnds, Alone, Preparing, Addressed, Executed, vars
  <1> QED
    BY <1>1, <1>2, <1>3

\* The first event is written by the investigation the metadata are of, and
\* never by a second one.
LEMMA StartKeeps ==
    ASSUME AgentInv, NEW i \in Investigators,
           InvestigateStarts(i) \/ InvestigateCollides(i)
    PROVE  AgentTypes' /\ Alone' /\ Preparing' /\ Addressed' /\ Executed'
  <1> USE DEF AgentInv, AgentTypes, InvestigatorState, Away
  <1>1. CASE InvestigateStarts(i)
    <2> USE DEF InvestigateStarts
    <2>1. AgentTypes' /\ raced' = raced
      BY <1>1
    <2>2. ~raced => \A j \in Investigators : investigator'[j] = Away
      BY <1>1 DEF Alone
    <2>3. Alone' /\ Preparing'
      BY <2>1, <2>2 DEF Alone, Preparing
    <2>4. investigator[i].scenario \in Scenarios
      BY <1>1
    <2>5. Addressed'
      BY <1>1, <2>1, <2>4 DEF Addressed, Preparing
    <2>6. \A c \in Mutations : ~(attempts[c] > 0)
      BY <1>1, MutationsAssumption DEF Start, AgentGate, GateInv, Entered, Empty
    <2>7. attempts' = attempts
      BY <1>1 DEF Start, Commit
    <2> QED
      BY <2>1, <2>3, <2>5, <2>6, <2>7 DEF Executed
  <1>2. CASE InvestigateCollides(i)
    <2>1. raced /\ raced' = raced
      BY <1>2 DEF InvestigateCollides, Preparing
    <2>2. AgentTypes'
      BY <1>2 DEF InvestigateCollides
    <2> QED
      BY <2>1, <2>2 DEF Alone, Preparing, Addressed, Executed
  <1> QED
    BY <1>1, <1>2

\* A step of the runtime after its first event leaves no investigation with
\* an empty stream.
LEMMA FilesKept ==
    ASSUME AgentInv, [Next]_vars, run # Empty, UNCHANGED files
    PROVE  AgentTypes' /\ Alone' /\ Preparing' /\ run' # Empty
  <1>1. run' # Empty
    <2>1. run'.status # "created"
      BY BegunStep DEF AgentInv, AgentGate, GateInv, Begun
    <2> QED
      BY <2>1 DEF Empty
  <1>2. AgentTypes' /\ Alone'
    BY DEF AgentInv, AgentTypes, Alone, files
  <1>3. Preparing'
    BY DEF AgentInv, Preparing, files
  <1> QED
    BY <1>1, <1>2, <1>3

\* Only the dispatch of a call enters its handler.
LEMMA OtherStepsEnterNone ==
    ASSUME TypeOK,
           \/ Driver /\ pc # "dispatch"
           \/ Resume \/ Crash
           \/ \E o \in Operators : Operator(o)
    PROVE  attempts' = attempts
  <1>1. CASE Driver /\ pc # "dispatch"
    BY <1>1
    DEF Driver, Proceed, Loop, LoopReturns,
        LoopCancels, LoopFindsUncertain, Settle, LoopNeedsStep,
        LoopContinuesStep, ConsumeForStep, ConsumeForTurn, Consume,
        StartTurn, StartStep, ModelResponds, ModelFails, PersistResponse,
        CheckBudget, CompleteStep, Tools, RequestTool, RequestsDone,
        SkipTool, SelectTool, ToolsDone, Preflight, PreflightFails,
        DenyTool, DenyResult, AskApproval, StartTool, Dispatch, DispatchFails, At,
        ToolEnds, RecordResult, AfterTools, Timeout, Handler, Fail, Close, Raise,
        Goto, Commit
  <1>2. CASE Resume \/ Crash
    BY <1>2 DEF Resume, Crash, Goto
  <1>3. CASE \E o \in Operators : Operator(o)
    BY <1>3, OperatorStep
  <1> QED
    BY <1>1, <1>2, <1>3

\* Resuming and deciding, in whatever process, use the scenario of the run.
LEMMA CommandsKeep ==
    ASSUME AgentInv,
           \/ AgentResumes \/ AgentCrashes
           \/ \E o \in Operators : \/ AgentDecides(o) \/ AgentDecideCommits(o)
                                   \/ AgentDecisionEnds(o)
    PROVE  AgentTypes' /\ Alone' /\ Preparing' /\ Addressed' /\ Executed'
  <1>t. TypeOK /\ Untouched
    BY DEF AgentInv, AgentGate, GateInv
  <1>1. CASE AgentResumes \/ AgentCrashes
    <2>1. Resume \/ Crash
      BY <1>1 DEF AgentResumes, AgentCrashes
    <2>2. UNCHANGED files
      BY <1>1 DEF AgentResumes, AgentCrashes
    <2>3. run # Empty /\ attempts' = attempts
      BY <1>t, <2>1, EmptyQuiet, OtherStepsEnterNone
    <2>4. AgentTypes' /\ Alone' /\ Preparing' /\ run' # Empty
      BY <2>1, <2>2, <2>3, FilesKept DEF Next
    <2>5. Addressed'
      BY <1>1, <2>2, <2>3 DEF AgentInv, Addressed, AgentResumes, AgentCrashes,
                              Crash, files
    <2>6. Executed'
      BY <2>2, <2>3 DEF AgentInv, Executed, files
    <2> QED
      BY <2>4, <2>5, <2>6
  <1>2. ASSUME NEW o \in Operators,
               AgentDecides(o) \/ AgentDecideCommits(o) \/ AgentDecisionEnds(o)
        PROVE  AgentTypes' /\ Alone' /\ Preparing' /\ Addressed' /\ Executed'
    <2>1. Operator(o)
      BY <1>2 DEF AgentDecides, AgentDecideCommits, AgentDecisionEnds,
                  Operator, Operates, OperatorCommits
    <2>2. UNCHANGED <<files, policy>>
      BY <1>2 DEF AgentDecides, AgentDecideCommits, AgentDecisionEnds
    <2>3. run # Empty /\ attempts' = attempts /\ pc' = pc
      BY <1>t, <2>1, EmptyQuiet, OtherStepsEnterNone, OperatorStep
    <2>4. AgentTypes' /\ Alone' /\ Preparing' /\ run' # Empty
      BY <2>1, <2>2, <2>3, FilesKept DEF Next
    <2> QED
      BY <2>2, <2>3, <2>4 DEF AgentInv, Addressed, Executed, files
  <1> QED
    BY <1>1, <1>2

\* The driver executes a mutation only when the policy of the run's scenario
\* asks for it.
LEMMA DriverKeeps ==
    ASSUME AgentInv, PolicyEvaluates \/ AgentAsks \/ AgentDrives
    PROVE  AgentTypes' /\ Alone' /\ Preparing' /\ Addressed' /\ Executed'
  <1>t. TypeOK /\ Untouched /\ AtCall
    BY DEF AgentInv, AgentGate, GateInv
  <1>1. Driver /\ UNCHANGED <<files, policy>>
    <2>1. Judgement(Call) \subseteq Verdict
      BY DEF Judgement, Verdict
    <2> QED
      BY <2>1 DEF PolicyEvaluates, AgentAsks, AgentDrives, Driver, Proceed, Tools
  <1>2. run # Empty /\ pc # "down"
    BY <1>t, <1>1, EmptyQuiet, DriverDown
  <1>3. AgentTypes' /\ Alone' /\ Preparing' /\ run' # Empty
    BY <1>1, <1>2, FilesKept DEF Next
  <1>4. Addressed'
    BY <1>1, <1>2 DEF AgentInv, Addressed, files
  <1>5. ASSUME NEW c \in Mutations, ~raced, attempts'[c] # attempts[c]
        PROVE  c \in RecoveryCalls[begunAs]
    <2>1. pc = "dispatch"
      BY <1>t, <1>1, <1>5, OtherStepsEnterNone
    <2>2. PICK verdict \in Judgement(Call) : Dispatch(verdict)
      BY <1>5, <2>1
      DEF PolicyEvaluates, AgentAsks, AgentDrives, AskApproval, Preflight,
          PreflightFails, DispatchFails, Raise, At, Goto
    <2>3. /\ Call \in CallIds /\ verdict # "deny"
          /\ attempts' = [attempts EXCEPT ![Call] = @ + 1]
      BY <1>t, <1>5, <2>2, CallType DEF Dispatch, At, AtCall, CallPoints
    <2>4. c = Call
      BY <1>t, <1>5, <2>3, MutationsAssumption DEF TypeOK
    <2>5. Call \in RecoveryCalls[policy]
      BY <1>5, <2>2, <2>3, <2>4 DEF Judgement
    <2> QED
      BY <1>2, <1>5, <2>4, <2>5 DEF AgentInv, Addressed
  <1>6. Executed'
    BY <1>1, <1>5 DEF AgentInv, Executed, files
  <1> QED
    BY <1>3, <1>4, <1>6

\* Every step of the commands keeps the invariant.
LEMMA AgentInvStep == AgentInv /\ [AgentNext]_agentVars => AgentInv'
  <1> SUFFICES ASSUME AgentInv, [AgentNext]_agentVars
               PROVE  AgentInv'
    OBVIOUS
  <1>1. AgentGate'
    BY AgentGateStep DEF AgentInv
  <1>2. AgentTypes' /\ Alone' /\ Preparing' /\ Addressed' /\ Executed'
    <2>1. CASE UNCHANGED agentVars
      BY <2>1 DEF AgentInv, agentVars, vars, AgentTypes, Alone, Preparing,
                  Addressed, Executed
    <2>2. CASE AgentNext
      BY <2>2, InvestigateKeeps, StartKeeps, CommandsKeep, DriverKeeps
      DEF AgentNext
    <2> QED
      BY <2>1, <2>2
  <1> QED
    BY <1>1, <1>2 DEF AgentInv

\* AgentInv holds in every behaviour of the commands.
LEMMA AgentInvariant == AgentSpec => []AgentInv
BY AgentInvInit, AgentInvStep, PTL DEF AgentSpec

\* A run that has events can be resumed and decided on under the scenario it
\* was started with, unless two investigations of its id overlapped.
THEOREM RunsAddressable == AgentSpec => []RunAddressable
  <1>1. AgentInv => RunAddressable
    BY DEF AgentInv, Addressed, RunAddressable
  <1> QED
    BY <1>1, AgentInvariant, PTL

\* No mutation is executed but those the run's scenario justifies.
THEOREM MutationsInScenario == AgentSpec => []ScenarioMutationOnly
  <1>1. AgentInv => ScenarioMutationOnly
    BY DEF AgentInv, Executed, ScenarioMutationOnly
  <1> QED
    BY <1>1, AgentInvariant, PTL

(***************************************************************************)
(* The approval that a summary shows.  IncidentState has its own idea of    *)
(* what is pending; it agrees with the runtime's as long as both can read   *)
(* the stream, because a run asks for one approval at a time and a decision *)
(* on any other call is one that IncidentState refuses.                     *)
(***************************************************************************)

Approval == {"absent", "pending", "approved", "rejected"}

IncidentType == incident \in [ok : BOOLEAN, approvals : [CallIds -> Approval]]

\* The call that the driver is about to ask about, or to start, is one of
\* the open step, and nobody has decided on it before it is asked for.
AtOpenCall ==
    /\ pc \in {"preflight", "deny", "ask", "start_tool"} => InOpenStep(run, Call)
    /\ pc = "ask" => DurableApproval(Call) = "none"

\* A run asks for one approval at a time, and only while it waits.
OneQuestion ==
    run.ok /\ incident.ok =>
        /\ run.status \notin {"waiting_approval"} \cup Terminal =>
                PendingApprovals(incident) = {}
        /\ run.status = "waiting_approval" =>
            \E c \in CallIds :
                /\ PendingApprovals(incident) = {c}
                /\ InOpenStep(run, c) /\ run.tools[c].state = "requested"
                /\ DurableApproval(c) = "none"

QuestionInv ==
    /\ AgentGate /\ WaitingIsIdle /\ IncidentType
    /\ AtOpenCall /\ OneQuestion

\* It holds when nothing has been investigated yet.
LEMMA QuestionInit == AgentInit => QuestionInv
  <1> SUFFICES ASSUME AgentInit
               PROVE  QuestionInv
    OBVIOUS
  <1>1. AgentGate
    BY AgentGateInit
  <1>2. IncidentType /\ PendingApprovals(incident) = {}
    BY DEF AgentInit, NoIncident, IncidentType, Approval, PendingApprovals
  <1>3. WaitingIsIdle /\ AtOpenCall /\ OneQuestion
    BY <1>2 DEF AgentInit, Init, Empty, WaitingIsIdle, AtOpenCall, OneQuestion
  <1> QED
    BY <1>1, <1>2, <1>3 DEF QuestionInv

\* The driver comes to a call that is only requested by selecting it.
LEMMA OnlySelectionRequests ==
    ASSUME Driver, pc' \in {"preflight", "deny", "ask", "start_tool"}
    PROVE  SelectTool \/ \E verdict \in Verdict : Preflight(verdict)
  <1> USE DEF Goto, Enter, Commit
  <1>1. ~Loop /\ ~Timeout /\ ~Handler /\ ~Fail /\ ~Raise /\ ~Close
    BY DEF Loop, LoopReturns, LoopCancels, LoopFindsUncertain, Settle,
           LoopNeedsStep, LoopContinuesStep, Timeout, Handler, Fail,
           FinishCancellation, Raise, Close
  <1>2. ~ConsumeForStep /\ ~ConsumeForTurn /\ ~StartTurn /\ ~StartStep
    BY DEF ConsumeForStep, ConsumeForTurn, Consume, StartTurn, StartStep
  <1>3. /\ ~ModelResponds /\ ~ModelFails /\ ~PersistResponse
        /\ ~CheckBudget /\ ~CompleteStep
    BY DEF ModelResponds, ModelFails, PersistResponse, CheckBudget,
           CompleteStep
  <1>4. /\ ~RequestTool /\ ~RequestsDone /\ ~SkipTool /\ ~ToolsDone
        /\ ~PreflightFails /\ ~DenyTool /\ ~DenyResult /\ ~AskApproval
        /\ ~StartTool
    BY DEF RequestTool, RequestsDone, SkipTool, ToolsDone, PreflightFails,
           DenyTool, DenyResult, AskApproval, StartTool, At
  <1>5. /\ \A verdict \in Verdict : ~Dispatch(verdict)
        /\ ~DispatchFails /\ ~ToolEnds /\ ~RecordResult /\ ~AfterTools
    BY DEF Dispatch, DispatchFails, ToolEnds, RecordResult, AfterTools, Broken
  <1> QED
    BY <1>1, <1>2, <1>3, <1>4, <1>5 DEF Driver, Proceed, Tools

\* An operator's event leaves the open step alone, and while the run does not
\* wait every first decision too.
LEMMA OperatorKeepsQuestion ==
    ASSUME TypeOK, NEW o \in Operators, Operator(o)
    PROVE  /\ \A c \in CallIds : InOpenStep(run, c) => InOpenStep(run', c)
           /\ run.status # "waiting_approval" => run'.first = run.first
  <1>t. run \in Projection
    BY DEF TypeOK
  <1> USE DEF InOpenStep, Open, StepKey
  <1>1. CASE DecideCommits(o) \/ RejectCommits(o)
    BY <1>t, <1>1
    DEF DecideCommits, RejectCommits, OpCommit, ApprovalDecided, RunClosed,
        Accept, Projection
  <1>2. CASE CancelCommits(o) \/ SubmitCommits(o)
    BY <1>t, <1>2
    DEF CancelCommits, SubmitCommits, OpCommit, RunCancelling,
        InboxSubmitted, Accept, Projection
  <1>3. CASE ~OperatorCommits(o)
    BY <1>3 DEF Operator, Operates, Decide, Cancel, Submit, OpBegin,
                OperatorStops
  <1> QED
    BY <1>1, <1>2, <1>3 DEF OperatorCommits

\* Every step keeps what the driver knows of the call it is at.
LEMMA OpenCallStep ==
    ASSUME GateInv, WaitingIsIdle, AtOpenCall,
           [Next]_vars \/ \E i \in Investigators :
                            InvestigateCollides(i) /\ run' = [run EXCEPT !.ok = FALSE]
    PROVE  AtOpenCall'
  <1>t. TypeOK /\ AtCall /\ run \in Projection
    BY DEF GateInv, TypeOK
  <1>1. CASE SelectTool
    <2>1. UNCHANGED <<run, next>> /\ Call' = Call /\ InOpenStep(run, Call)
      BY <1>1 DEF SelectTool, Goto, Call, PassedOver
    <2>2. pc' # "ask"
      BY <1>1 DEF SelectTool, Goto, Enter
    <2> QED
      BY <2>1, <2>2 DEF AtOpenCall
  <1>2. ASSUME NEW verdict \in Verdict, Preflight(verdict)
        PROVE  AtOpenCall'
    <2>1. UNCHANGED <<run, next>> /\ Call' = Call /\ InOpenStep(run, Call)
      BY <1>2 DEF Preflight, Goto, Call, AtOpenCall, At
    <2>2. pc' = "ask" => DurableApproval(Call) = "none"
      BY <1>2 DEF Preflight, Goto, Enter
    <2> QED
      BY <2>1, <2>2 DEF AtOpenCall, DurableApproval
  <1>3. CASE Driver /\ pc' \notin {"preflight", "deny", "ask", "start_tool"}
    BY <1>3 DEF AtOpenCall
  <1>4. CASE Start \/ Resume \/ Crash
    BY <1>4 DEF Start, Resume, Crash, Goto, Enter, Commit, AtOpenCall
  <1>5. ASSUME NEW o \in Operators, Operator(o)
        PROVE  AtOpenCall'
    <2>1. UNCHANGED <<pc, next>> /\ run'.asst = run.asst
      BY <1>t, <1>5, OperatorStep DEF KeepsCalls
    <2>2. Call' = Call
      BY <2>1 DEF Call
    <2>3. pc \in {"preflight", "deny", "ask", "start_tool"} =>
                Call \in CallIds /\ run.status # "waiting_approval"
      BY <1>t, CallType DEF AtCall, CallPoints, WaitingIsIdle
    <2> QED
      BY <1>t, <1>5, <2>1, <2>2, <2>3, OperatorKeepsQuestion
      DEF AtOpenCall, DurableApproval
  <1>6. CASE UNCHANGED vars
    BY <1>6 DEF vars, AtOpenCall, DurableApproval, Call
  <1>7. ASSUME NEW i \in Investigators, InvestigateCollides(i),
               run' = [run EXCEPT !.ok = FALSE]
        PROVE  AtOpenCall'
    <2>1. /\ run'.asst = run.asst /\ run'.tools = run.tools
          /\ run'.first = run.first
          /\ run'.turn = run.turn /\ run'.step = run.step
          /\ run'.stepDone = run.stepDone
          /\ UNCHANGED <<pc, next>>
      BY <1>t, <1>7 DEF InvestigateCollides, Projection
    <2> QED
      BY <2>1 DEF AtOpenCall, DurableApproval, Call, InOpenStep, Open, StepKey
  <1> QED
    BY <1>1, <1>2, <1>3, <1>4, <1>5, <1>6, <1>7, OnlySelectionRequests DEF Next

\* Where the driver writes an event, but for the question itself, the run
\* neither waits nor has ended, if the stream stays readable.
LEMMA DriverWrites ==
    ASSUME StatusInv, Driver, ~AskApproval, run' # run
    PROVE  /\ run.status # "waiting_approval"
           /\ run'.status # "waiting_approval"
           /\ run'.ok => run.ok /\ run.status \notin Terminal
  <1>t. run \in Projection
    BY DEF StatusInv, TypeOK
  <1>w. pc \notin {"down", "loop", "after_tools"} => run.status # "waiting_approval"
    BY DEF StatusInv, WaitingIsIdle
  <1> USE DEF At, Commit
  <1>1. CASE ConsumeForStep \/ ConsumeForTurn
    BY <1>t, <1>w, <1>1
    DEF ConsumeForStep, ConsumeForTurn, Consume, InboxConsumed, Accept, Projection
  <1>2. CASE StartTurn \/ StartStep \/ PersistResponse \/ CompleteStep
    BY <1>t, <1>w, <1>2
    DEF StartTurn, StartStep, PersistResponse, CompleteStep, TurnStarted,
        StepStarted, AssistantMessage, StepCompleted, Accept, Projection
  <1>3. CASE RequestTool \/ DenyTool \/ StartTool
    BY <1>t, <1>w, <1>3
    DEF RequestTool, DenyTool, StartTool, ToolRequested, ToolStarted, Accept,
        Projection
  <1>4. CASE DenyResult \/ RecordResult
    BY <1>t, <1>w, <1>4
    DEF DenyResult, RecordResult, ToolFinished, Accept, Projection
  <1>5. CASE Close
    <2>1. pc \in Terminal /\ run' = RunClosed(run, pc)
      BY <1>5 DEF Close
    <2> QED
      BY <1>t, <1>w, <2>1 DEF RunClosed, Accept, Projection, Terminal
  <1>6. CASE Loop \/ ModelResponds \/ ModelFails \/ CheckBudget \/ Timeout
             \/ Handler \/ Fail \/ Raise
    BY <1>6
    DEF Loop, LoopReturns, LoopCancels, LoopFindsUncertain, Settle,
        LoopNeedsStep, LoopContinuesStep, ModelResponds, ModelFails,
        CheckBudget, Timeout, Handler, Fail, Raise, Goto
  <1>7. CASE \/ RequestsDone \/ SkipTool \/ SelectTool \/ ToolsDone
             \/ (\E verdict \in Verdict : Preflight(verdict))
             \/ PreflightFails
             \/ (\E verdict \in Verdict : Dispatch(verdict)) \/ DispatchFails
             \/ ToolEnds \/ AfterTools
    BY <1>7 DEF RequestsDone, SkipTool, SelectTool, ToolsDone, Preflight,
                PreflightFails, Dispatch, DispatchFails, ToolEnds, AfterTools,
                Goto
  <1> QED
    BY <1>1, <1>2, <1>3, <1>4, <1>5, <1>6, <1>7 DEF Driver, Proceed, Tools

\* A step that leaves both projections' idea of the question alone.
LEMMA QuestionKept ==
    ASSUME OneQuestion, incident' = incident,
           \/ run' = run
           \/ ~run'.ok
           \/ run'.status \in Terminal
           \/ /\ run'.status # "waiting_approval"
              /\ run.ok /\ run.status \notin {"waiting_approval"} \cup Terminal
    PROVE  OneQuestion'
  <1>1. CASE run' = run
    BY <1>1 DEF OneQuestion, DurableApproval
  <1>2. CASE ~run'.ok \/ run'.status \in Terminal
    BY <1>2 DEF OneQuestion, Terminal
  <1>3. CASE /\ run'.status # "waiting_approval"
             /\ run.ok /\ run.status \notin {"waiting_approval"} \cup Terminal
    BY <1>3 DEF OneQuestion
  <1> QED
    BY <1>1, <1>2, <1>3

\* The question itself: it is the only pending one.
LEMMA AsksOne ==
    ASSUME QuestionInv, AgentAsks
    PROVE  IncidentType' /\ OneQuestion'
  <1>t. run \in Projection /\ IncidentType
    BY DEF QuestionInv, AgentGate, GateInv, TypeOK
  <1>1. /\ run' = ApprovalRequested(run, Call)
        /\ incident' = RequestSeen(incident, Call)
        /\ pc = "ask" /\ Call' = Call
    BY DEF AgentAsks, AskApproval, Commit, At, ApprovalRequested, Accept, Call
  <1>2. /\ Call \in CallIds /\ run.tools[Call].state = "requested"
        /\ InOpenStep(run, Call) /\ DurableApproval(Call) = "none"
    BY <1>1, CallType
    DEF QuestionInv, AgentGate, GateInv, AtCall, CallPoints, NotYetStarted,
        AtOpenCall
  <1>3. IncidentType'
    BY <1>t, <1>1, <1>2 DEF IncidentType, RequestSeen, Approval
  <1>4. ASSUME run'.ok, incident'.ok
        PROVE  /\ run'.status = "waiting_approval"
               /\ PendingApprovals(incident') = {Call}
               /\ InOpenStep(run', Call) /\ run'.tools[Call].state = "requested"
               /\ run'.first[Call] = "none"
    <2>1. /\ run.ok /\ run.status = "running" /\ run'.status = "waiting_approval"
          /\ run'.tools = run.tools /\ run'.first = run.first
          /\ run'.turn = run.turn /\ run'.step = run.step
          /\ run'.stepDone = run.stepDone
      BY <1>t, <1>1, <1>4 DEF ApprovalRequested, Accept, Projection
    <2>2. /\ incident.ok
          /\ incident' = [incident EXCEPT !.approvals[Call] = "pending"]
      BY <1>t, <1>1, <1>4 DEF RequestSeen, IncidentType
    <2>3. PendingApprovals(incident) = {}
      BY <2>1, <2>2 DEF QuestionInv, OneQuestion, Terminal
    <2>4. PendingApprovals(incident') = {Call}
      BY <1>t, <1>2, <2>2, <2>3 DEF PendingApprovals, IncidentType
    <2> QED
      BY <1>2, <2>1, <2>4 DEF InOpenStep, Open, StepKey, DurableApproval
  <1>5. OneQuestion'
    BY <1>2, <1>4 DEF OneQuestion, Terminal, DurableApproval
  <1> QED
    BY <1>3, <1>5

\* A decision: only the pending call takes one, and then nothing is pending.
LEMMA DecisionAnswers ==
    ASSUME QuestionInv, NEW o \in Operators, AgentDecideCommits(o)
    PROVE  IncidentType' /\ OneQuestion'
  <1> DEFINE c == op[o].call
             d == op[o].decision
  <1>t. run \in Projection /\ IncidentType /\ op[o] \in OpState
    BY DEF QuestionInv, AgentGate, GateInv, TypeOK
  <1>1. /\ op[o].do = "decide"
        /\ run' = ApprovalDecided(run, c, d)
        /\ incident' = DecisionSeen(incident, c, d)
    BY DEF AgentDecideCommits, DecideCommits, OpCommit
  <1>2. c \in CallIds /\ d \in {"approved", "rejected"}
    BY <1>t, <1>1 DEF OpState, Idle
  <1> HIDE DEF c, d
  <1>3. IncidentType'
    BY <1>t, <1>1, <1>2 DEF IncidentType, DecisionSeen, Approval
  <1>4. ASSUME run'.ok, incident'.ok
        PROVE  run'.status = "running" /\ PendingApprovals(incident') = {}
    <2>1. run.ok /\ run.status = "waiting_approval" /\ run'.status = "running"
      BY <1>t, <1>1, <1>4 DEF ApprovalDecided, Accept, Projection
    <2>2. /\ incident.ok /\ incident.approvals[c] = "pending"
          /\ incident' = [incident EXCEPT !.approvals[c] = d]
      BY <1>t, <1>1, <1>4 DEF DecisionSeen, IncidentType
    <2>3. PendingApprovals(incident) = {c}
      BY <1>2, <2>1, <2>2 DEF QuestionInv, OneQuestion, PendingApprovals
    <2> QED
      BY <1>t, <1>2, <2>1, <2>2, <2>3 DEF PendingApprovals, IncidentType
  <1>5. OneQuestion'
    BY <1>4 DEF OneQuestion
  <1> QED
    BY <1>3, <1>5

\* Every other step of the commands.
LEMMA OthersKeepQuestion ==
    ASSUME QuestionInv, [AgentNext]_agentVars, ~AgentAsks,
           \A o \in Operators : ~AgentDecideCommits(o)
    PROVE  IncidentType' /\ OneQuestion'
  <1>t. /\ run \in Projection /\ TypeOK /\ OneQuestion /\ StatusInv /\ IncidentType
        /\ Begun /\ Untouched
    BY DEF QuestionInv, AgentGate, GateInv, TypeOK, StatusInv
  <1>1. incident' = incident
    BY DEF AgentNext, InvestigateBegins, MetadataEmptied, MetadataWritten,
           RunChecks, InvestigateStarts, InvestigateCollides, InvestigateEnds,
           AgentResumes, AgentDecides, AgentDecisionEnds, PolicyEvaluates,
           AgentDrives, AgentCrashes, agentVars
  <1> SUFFICES OneQuestion'
    BY <1>t, <1>1 DEF IncidentType
  <1>2. CASE PolicyEvaluates \/ AgentDrives
    <2>1. Driver /\ ~AskApproval
      <3>1. Judgement(Call) \subseteq Verdict
        BY DEF Judgement, Verdict
      <3> QED
        BY <1>2, <3>1
        DEF PolicyEvaluates, AgentDrives, Driver, Proceed, Tools, AskApproval,
            Preflight, PreflightFails, Dispatch, DispatchFails, Raise, At
    <2>2. \/ run' = run
          \/ ~run'.ok
          \/ /\ run'.status # "waiting_approval"
             /\ run.ok /\ run.status \notin {"waiting_approval"} \cup Terminal
      BY <1>t, <2>1, DriverWrites
    <2> QED
      BY <1>1, <1>t, <2>2, QuestionKept
  <1>3. ASSUME NEW i \in Investigators, InvestigateStarts(i)
        PROVE  OneQuestion'
    BY <1>1, <1>t, <1>3, StartBegins, QuestionKept
    DEF InvestigateStarts, Start, Empty, Terminal
  <1>4. ASSUME NEW i \in Investigators, InvestigateCollides(i)
        PROVE  OneQuestion'
    BY <1>1, <1>t, <1>4, Collision, QuestionKept DEF Projection
  <1>5. ASSUME NEW o \in Operators, AgentDecides(o) \/ AgentDecisionEnds(o)
        PROVE  OneQuestion'
    <2>1. \/ run' = run
          \/ ~run'.ok
          \/ run'.status \in Terminal
      BY <1>t, <1>5
      DEF AgentDecides, Decide, OpBegin, AgentDecisionEnds, RejectCommits,
          OpCommit, RunClosed, Accept, OperatorStops, Projection, Terminal
    <2> QED
      BY <1>1, <1>t, <2>1, QuestionKept
  <1>6. ASSUME run' = run
        PROVE  OneQuestion'
    BY <1>1, <1>t, <1>6, QuestionKept
  <1>7. CASE AgentResumes \/ AgentCrashes \/ UNCHANGED agentVars
    BY <1>6, <1>7 DEF AgentResumes, Resume, Goto, AgentCrashes, Crash,
                      agentVars, vars
  <1>8. ASSUME NEW i \in Investigators,
               \/ \E s \in Scenarios : InvestigateBegins(i, s)
               \/ MetadataEmptied(i) \/ MetadataWritten(i) \/ RunChecks(i)
               \/ InvestigateEnds(i)
        PROVE  OneQuestion'
    BY <1>6, <1>8 DEF InvestigateBegins, MetadataEmptied, MetadataWritten,
                      RunChecks, InvestigateEnds, vars
  <1> QED
    BY <1>2, <1>3, <1>4, <1>5, <1>7, <1>8 DEF AgentNext

\* Every step of the commands keeps the invariant.
LEMMA QuestionStep == QuestionInv /\ [AgentNext]_agentVars => QuestionInv'
  <1> SUFFICES ASSUME QuestionInv, [AgentNext]_agentVars
               PROVE  QuestionInv'
    OBVIOUS
  <1>1. AgentGate'
    BY AgentGateStep DEF QuestionInv
  <1>2. /\ GateInv /\ WaitingIsIdle /\ AtOpenCall /\ StatusInv /\ TypeOK /\ Begun
    BY DEF QuestionInv, AgentGate, GateInv, StatusInv
  <1>3. WaitingIsIdle' /\ AtOpenCall'
    <2>1. CASE [Next]_vars
      BY <1>2, <2>1, StatusStep, OpenCallStep DEF StatusInv
    <2>2. ASSUME NEW i \in Investigators, InvestigateCollides(i)
          PROVE  WaitingIsIdle' /\ AtOpenCall'
      <3>1. run' = [run EXCEPT !.ok = FALSE] /\ pc' = pc
        BY <1>2, <2>2, Collision
      <3>2. AtOpenCall'
        BY <1>2, <2>2, <3>1, OpenCallStep
      <3> QED
        BY <1>2, <3>1, <3>2 DEF WaitingIsIdle, TypeOK, Projection
    <2> QED
      BY <2>1, <2>2, RuntimeSteps
  <1>4. IncidentType' /\ OneQuestion'
    BY AsksOne, DecisionAnswers, OthersKeepQuestion
  <1> QED
    BY <1>1, <1>3, <1>4 DEF QuestionInv

\* While a run waits, its summary lists exactly the call it waits for.
THEOREM PendingIsShown == AgentSpec => []PendingShown
  <1>1. QuestionInv => PendingShown
    BY DEF QuestionInv, OneQuestion, PendingShown
  <1> QED
    BY <1>1, QuestionInit, QuestionStep, PTL DEF AgentSpec
=============================================================================
