--------------------------- MODULE WebConsoleProofs ---------------------------
(***************************************************************************)
(* Proofs about the commands of IncidentCLI and the console that watches    *)
(* them, for every number of processes, kills and viewers.                 *)
(***************************************************************************)
EXTENDS WebConsole, TLAPS

(***************************************************************************)
(* What every event keeps: a stream that is closed or unreadable takes no   *)
(* event, and the first decision on a call stands.                          *)
(***************************************************************************)

\* The projector raises on the next event, whatever it is.
Refuses(p) == ~p.ok \/ p.status \in Terminal

Follows(p, q) ==
    /\ q \in Projection
    /\ Refuses(p) => ~q.ok
    /\ \A c \in CallIds : p.first[c] # "none" => q.first[c] = p.first[c]

\* A batch of events is an event in this respect.
LEMMA FollowsTransitive ==
    ASSUME NEW p, NEW q, NEW r, Follows(p, q), Follows(q, r)
    PROVE  Follows(p, r)
BY DEF Follows, Refuses

\* An event follows if what it gives when it is accepted is a projection with
\* the same decisions.
LEMMA AcceptFollows ==
    ASSUME NEW p \in Projection, NEW requirement, NEW q \in Projection,
           \A c \in CallIds : p.first[c] # "none" => q.first[c] = p.first[c]
    PROVE  Follows(p, Accept(p, requirement, q))
  <1>1. [p EXCEPT !.ok = FALSE] \in Projection
    BY DEF Projection
  <1>2. /\ [p EXCEPT !.ok = FALSE].first = p.first
        /\ [p EXCEPT !.ok = FALSE].ok = FALSE
    BY DEF Projection
  <1> QED
    BY <1>1, <1>2 DEF Follows, Refuses, Accept

\* A replay of the empty stream is a projection.
LEMMA EmptyIsProjection == Empty \in Projection
BY DEF Empty, Projection, RunStatus, Terminal, NoAssistant, Assistant,
       Tool, Decision

\* Run-level events follow.
LEMMA RunEventsFollow ==
    ASSUME NEW p \in Projection, NEW t \in Nat, NEW s \in Nat,
           NEW status \in Terminal
    PROVE  /\ Follows(p, RunStarted(p))
           /\ Follows(p, TurnStarted(p, t))
           /\ Follows(p, Noted(p))
           /\ Follows(p, StepStarted(p, t, s))
           /\ Follows(p, StepCompleted(p, t, s))
           /\ Follows(p, RunCancelling(p))
           /\ Follows(p, RunClosed(p, status))
  <1>a. NoAssistant \in Assistant
    <2>1. <<>> \in Seq(CallIds)
      OBVIOUS
    <2> QED
      BY <2>1 DEF NoAssistant, Assistant
  <1>1. Follows(p, RunStarted(p))
    <2>1. [p EXCEPT !.status = "running"] \in Projection
      BY DEF Projection, RunStatus
    <2> QED
      BY <2>1, AcceptFollows DEF RunStarted, Projection
  <1>2. Follows(p, TurnStarted(p, t))
    <2>1. [p EXCEPT !.turn = t, !.step = 0, !.stepDone = FALSE,
                    !.doneInTurn = 0, !.asst = NoAssistant] \in Projection
      BY <1>a DEF Projection
    <2> QED
      BY <2>1, AcceptFollows DEF TurnStarted, Projection
  <1>3. Follows(p, Noted(p))
    BY AcceptFollows DEF Noted
  <1>4. Follows(p, StepStarted(p, t, s))
    <2>1. [p EXCEPT !.step = s, !.stepDone = FALSE, !.asst = NoAssistant]
                \in Projection
      BY <1>a DEF Projection
    <2> QED
      BY <2>1, AcceptFollows DEF StepStarted, Projection
  <1>5. Follows(p, StepCompleted(p, t, s))
    <2>1. p.doneInTurn + 1 \in Nat /\ p.doneTotal + 1 \in Nat
      BY DEF Projection
    <2>2. [p EXCEPT !.stepDone = TRUE, !.doneInTurn = @ + 1,
                    !.doneTotal = @ + 1] \in Projection
      BY <2>1 DEF Projection
    <2> QED
      BY <2>2, AcceptFollows DEF StepCompleted, Projection
  <1>6. Follows(p, RunCancelling(p))
    <2>1. [p EXCEPT !.status = "cancelling"] \in Projection
      BY DEF Projection, RunStatus
    <2> QED
      BY <2>1, AcceptFollows DEF RunCancelling, Projection
  <1>7. Follows(p, RunClosed(p, status))
    <2>1. [p EXCEPT !.status = status] \in Projection
      BY DEF Projection, RunStatus
    <2> QED
      BY <2>1, AcceptFollows DEF RunClosed, Projection
  <1> QED
    BY <1>1, <1>2, <1>3, <1>4, <1>5, <1>6, <1>7

\* So do the model's answer and the events of a call; a later decision on a
\* call does not change its first one.
LEMMA CallEventsFollow ==
    ASSUME NEW p \in Projection, NEW c \in CallIds, NEW outcome \in Finished,
           NEW d \in {"approved", "rejected"}, NEW r,
           r.stop \in StopReason \cup {"none"},
           r.calls \in Seq(CallIds), r.tokens \in Nat
    PROVE  /\ Follows(p, AssistantMessage(p, r))
           /\ Follows(p, ToolRequested(p, c))
           /\ Follows(p, ToolStarted(p, c))
           /\ Follows(p, ToolFinished(p, c, outcome))
           /\ Follows(p, ApprovalRequested(p, c))
           /\ Follows(p, ApprovalDecided(p, c, d))
  <1>1. Follows(p, AssistantMessage(p, r))
    <2>1. /\ [stop |-> r.stop, calls |-> r.calls] \in Assistant
          /\ p.tokens + r.tokens \in Nat /\ p.callTotal + Len(r.calls) \in Nat
      BY DEF Assistant, Projection
    <2>2. [p EXCEPT !.asst = [stop |-> r.stop, calls |-> r.calls],
                    !.tokens = @ + r.tokens,
                    !.callTotal = @ + Len(r.calls)] \in Projection
      BY <2>1 DEF Projection
    <2> QED
      BY <2>2, AcceptFollows DEF AssistantMessage, Projection
  <1>2. Follows(p, ToolRequested(p, c))
    <2>1. [p EXCEPT !.tools[c] = [state |-> "requested", key |-> StepKey(p)]]
                \in Projection
      BY DEF Projection, Tool, ToolState, StepKey
    <2> QED
      BY <2>1, AcceptFollows DEF ToolRequested, Projection
  <1>3. Follows(p, ToolStarted(p, c))
    <2>1. [p.tools EXCEPT ![c].state = "started"] \in [CallIds -> Tool]
      BY DEF Projection, Tool, ToolState
    <2>2. [p EXCEPT !.tools[c].state = "started"] \in Projection
      BY <2>1 DEF Projection
    <2> QED
      BY <2>2, AcceptFollows DEF ToolStarted, Projection
  <1>4. Follows(p, ToolFinished(p, c, outcome))
    <2>1. [p.tools EXCEPT ![c].state = outcome] \in [CallIds -> Tool]
      BY DEF Projection, Tool, ToolState, Finished
    <2>2. [p EXCEPT !.tools[c].state = outcome] \in Projection
      BY <2>1 DEF Projection
    <2> QED
      BY <2>2, AcceptFollows DEF ToolFinished, Projection
  <1>5. Follows(p, ApprovalRequested(p, c))
    <2>1. [p EXCEPT !.status = "waiting_approval", !.asked[c] = TRUE]
                \in Projection
      BY DEF Projection, RunStatus
    <2> QED
      BY <2>1, AcceptFollows DEF ApprovalRequested, Projection
  <1>6. Follows(p, ApprovalDecided(p, c, d))
    <2> DEFINE q == [p EXCEPT !.status = "running",
                              !.first[c] = IF @ = "none" /\ p.asked[c]
                                           THEN d ELSE @,
                              !.last[c] = d]
    <2>1. q \in Projection
      BY DEF Projection, RunStatus, Decision
    <2>2. \A k \in CallIds : p.first[k] # "none" => q.first[k] = p.first[k]
      BY DEF Projection
    <2> QED
      BY <2>1, <2>2, AcceptFollows DEF ApprovalDecided
  <1> QED
    BY <1>1, <1>2, <1>3, <1>4, <1>5, <1>6

\* The status changes with the approvals, a cancellation and the end of the
\* run, and not with the events of a tool or a step.
LEMMA StatusOfCommands ==
    ASSUME NEW p \in Projection, NEW c, NEW d, NEW status, NEW t, NEW s
    PROVE  /\ StepCompleted(p, t, s).status = p.status
           /\ ToolStarted(p, c).status = p.status
           /\ ToolFinished(p, c, d).status = p.status
           /\ ApprovalRequested(p, c).ok
                => ApprovalRequested(p, c).status = "waiting_approval"
           /\ ApprovalDecided(p, c, d).ok
                => ApprovalDecided(p, c, d).status = "running"
           /\ RunClosed(p, status).ok => RunClosed(p, status).status = status
  <1> USE DEF Accept, Projection
  <1>1. /\ StepCompleted(p, t, s).status = p.status
        /\ ToolStarted(p, c).status = p.status
        /\ ToolFinished(p, c, d).status = p.status
    BY DEF StepCompleted, ToolStarted, ToolFinished
  <1>2. /\ ApprovalRequested(p, c).ok
             => ApprovalRequested(p, c).status = "waiting_approval"
        /\ ApprovalDecided(p, c, d).ok
             => ApprovalDecided(p, c, d).status = "running"
        /\ RunClosed(p, status).ok => RunClosed(p, status).status = status
    BY DEF ApprovalRequested, ApprovalDecided, RunClosed
  <1> QED
    BY <1>1, <1>2

(***************************************************************************)
(* The batches the commands append.                                        *)
(***************************************************************************)

\* The three calls.
LEMMA Calls == Query \in CallIds /\ Recovery \in CallIds /\ Verification \in CallIds
BY CallsAssumption

\* A step with a tool call follows.
LEMMA ToolStepFollows ==
    ASSUME NEW p \in Projection, NEW n \in Nat, NEW c \in CallIds
    PROVE  Follows(p, ToolStep(p, n, c))
  <1> DEFINE r == [stop |-> "tool_use", calls |-> <<c>>, tokens |-> 0]
  <1> DEFINE p1 == StepStarted(p, 1, n)
  <1> DEFINE p2 == AssistantMessage(p1, r)
  <1> DEFINE p3 == ToolRequested(p2, c)
  <1>1. Follows(p, p1)
    BY RunEventsFollow DEF Terminal
  <1>2. r.stop \in StopReason \cup {"none"} /\ r.calls \in Seq(CallIds)
            /\ r.tokens \in Nat
    BY DEF StopReason
  <1>3. p1 \in Projection
    BY <1>1 DEF Follows
  <1> HIDE DEF p1, r
  <1>4. Follows(p1, p2)
    BY <1>2, <1>3, CallEventsFollow DEF Finished
  <1>5. p2 \in Projection
    BY <1>4 DEF Follows
  <1> HIDE DEF p2
  <1>6. Follows(p2, p3)
    BY <1>2, <1>5, CallEventsFollow DEF Finished
  <1> HIDE DEF p3
  <1>7. Follows(p, p3)
    BY <1>1, <1>4, <1>6, FollowsTransitive
  <1> QED
    BY <1>7 DEF ToolStep, p1, p2, p3, r

\* A step with a tool call and its result follows; where it is accepted, the
\* call has completed and nothing was asked, and the other calls are as before.
LEMMA ExecutedStepFollows ==
    ASSUME NEW p \in Projection, NEW n \in Nat, NEW c \in CallIds
    PROVE  /\ Follows(p, ExecutedStep(p, n, c))
           /\ ExecutedStep(p, n, c).asked = p.asked
           /\ ExecutedStep(p, n, c).ok =>
                /\ ExecutedStep(p, n, c).tools[c].state = "completed"
                /\ \A k \in CallIds \ {c} :
                        ExecutedStep(p, n, c).tools[k] = p.tools[k]
  <1> DEFINE r == [stop |-> "tool_use", calls |-> <<c>>, tokens |-> 0]
  <1> DEFINE p1 == ToolStep(p, n, c)
  <1> DEFINE p2 == ToolStarted(p1, c)
  <1> DEFINE p3 == ToolFinished(p2, c, "completed")
  <1> DEFINE p4 == Noted(p3)
  <1> DEFINE p5 == StepCompleted(p4, 1, n)
  <1>a. r.stop \in StopReason \cup {"none"} /\ r.calls \in Seq(CallIds)
            /\ r.tokens \in Nat
    BY DEF StopReason
  <1>s. StepStarted(p, 1, n) \in Projection
    BY RunEventsFollow DEF Follows, Terminal
  <1>m. AssistantMessage(StepStarted(p, 1, n), r) \in Projection
    BY <1>a, <1>s, CallEventsFollow DEF Follows, Finished
  <1>1. Follows(p, p1) /\ p1 \in Projection
    BY ToolStepFollows DEF Follows
  <1>e. /\ p1.asked = p.asked
        /\ p1.ok => \A k \in CallIds \ {c} : p1.tools[k] = p.tools[k]
    <2>1. /\ StepStarted(p, 1, n).asked = p.asked
          /\ StepStarted(p, 1, n).tools = p.tools
      BY DEF StepStarted, Accept, Projection
    <2>2. \A q \in Projection :
                /\ AssistantMessage(q, r).asked = q.asked
                /\ AssistantMessage(q, r).tools = q.tools
      BY DEF AssistantMessage, Accept, Projection
    <2>3. \A q \in Projection :
                /\ ToolRequested(q, c).asked = q.asked
                /\ \A k \in CallIds \ {c} : ToolRequested(q, c).tools[k] = q.tools[k]
      BY DEF ToolRequested, Accept, Projection
    <2> QED
      BY <1>s, <1>m, <2>1, <2>2, <2>3 DEF ToolStep
  <1> HIDE DEF p1
  <1>2. Follows(p1, p2) /\ p2 \in Projection
    BY <1>a, <1>1, CallEventsFollow DEF Follows, Finished
  <1>3. p2.asked = p1.asked /\ \A k \in CallIds \ {c} : p2.tools[k] = p1.tools[k]
    BY <1>1 DEF ToolStarted, Accept, Projection
  <1> HIDE DEF p2
  <1>4. Follows(p2, p3) /\ p3 \in Projection
    BY <1>a, <1>2, CallEventsFollow DEF Follows, Finished
  <1>5. p3.asked = p2.asked /\ \A k \in CallIds \ {c} : p3.tools[k] = p2.tools[k]
    BY <1>2 DEF ToolFinished, Accept, Projection
  <1>6. p3.ok => p3.tools[c].state = "completed"
    BY <1>2 DEF ToolFinished, Accept, Projection, Tool
  <1> HIDE DEF p3
  <1>7. Follows(p3, p4) /\ p4 \in Projection
    BY <1>4, RunEventsFollow DEF Follows, Terminal
  <1>8. p4.asked = p3.asked /\ p4.tools = p3.tools
    BY <1>4 DEF Noted, Accept, Projection
  <1> HIDE DEF p4
  <1>9. Follows(p4, p5) /\ p5 \in Projection
    BY <1>7, RunEventsFollow DEF Follows, Terminal
  <1>10. p5.asked = p4.asked /\ p5.tools = p4.tools
    BY <1>7 DEF StepCompleted, Accept, Projection
  <1> HIDE DEF p5
  <1>11. Follows(p, p5)
    BY <1>1, <1>2, <1>4, <1>7, <1>9, FollowsTransitive
  <1>12. p5.ok => p1.ok /\ p3.ok
    BY <1>2, <1>4, <1>7, <1>9 DEF Follows, Refuses
  <1>13. p5.asked = p.asked
    BY <1>e, <1>3, <1>5, <1>8, <1>10
  <1>14. p5.ok => /\ p5.tools[c].state = "completed"
                  /\ \A k \in CallIds \ {c} : p5.tools[k] = p.tools[k]
    BY <1>e, <1>3, <1>5, <1>6, <1>8, <1>10, <1>12
  <1> QED
    BY <1>11, <1>13, <1>14 DEF ExecutedStep, p1, p2, p3, p4, p5

\* The completion events follow and leave the calls alone.
LEMMA CompletionFollows ==
    ASSUME NEW p \in Projection, NEW n \in Nat
    PROVE  /\ Follows(p, Completion(p, n))
           /\ Completion(p, n).asked = p.asked
           /\ Completion(p, n).tools = p.tools
  <1> DEFINE r == [stop |-> "end_turn", calls |-> <<>>, tokens |-> 0]
  <1> DEFINE p1 == StepStarted(p, 1, n)
  <1> DEFINE p2 == AssistantMessage(p1, r)
  <1> DEFINE p3 == StepCompleted(p2, 1, n)
  <1> DEFINE p4 == RunClosed(p3, "completed")
  <1>a. r.stop \in StopReason \cup {"none"} /\ r.calls \in Seq(CallIds)
            /\ r.tokens \in Nat
    BY DEF StopReason
  <1>1. Follows(p, p1) /\ p1 \in Projection
    BY RunEventsFollow DEF Follows, Terminal
  <1>2. p1.asked = p.asked /\ p1.tools = p.tools
    BY DEF StepStarted, Accept, Projection
  <1> HIDE DEF p1, r
  <1>3. Follows(p1, p2) /\ p2 \in Projection
    BY <1>a, <1>1, Calls, CallEventsFollow DEF Follows, Finished
  <1>4. p2.asked = p1.asked /\ p2.tools = p1.tools
    BY <1>1 DEF AssistantMessage, Accept, Projection
  <1> HIDE DEF p2
  <1>5. Follows(p2, p3) /\ p3 \in Projection
    BY <1>3, RunEventsFollow DEF Follows, Terminal
  <1>6. p3.asked = p2.asked /\ p3.tools = p2.tools
    BY <1>3 DEF StepCompleted, Accept, Projection
  <1> HIDE DEF p3
  <1>7. Follows(p3, p4) /\ p4 \in Projection
    BY <1>5, RunEventsFollow DEF Follows, Terminal
  <1>8. p4.asked = p3.asked /\ p4.tools = p3.tools
    BY <1>5 DEF RunClosed, Accept, Projection
  <1> HIDE DEF p4
  <1>9. Follows(p, p4)
    BY <1>1, <1>3, <1>5, <1>7, FollowsTransitive
  <1>10. p4.asked = p.asked /\ p4.tools = p.tools
    BY <1>2, <1>4, <1>6, <1>8
  <1> QED
    BY <1>9, <1>10 DEF Completion, p1, p2, p3, p4, r

(***************************************************************************)
(* Steps of the commands.                                                  *)
(***************************************************************************)

CommandTypes ==
    /\ run \in Projection
    /\ at \in [Processes -> Points]
    /\ overlapped \in BOOLEAN

\* Every step moves one process, which was under way or begins now.
LEMMA Moves ==
    ASSUME CommandTypes, NEW p \in Processes, Recording(p) \/ Working(p)
    PROVE  /\ \E point \in Points : at' = [at EXCEPT ![p] = point]
           /\ overlapped' \in BOOLEAN
           /\ \/ at[p] # "idle" /\ overlapped' = overlapped
              \/ overlapped' = (overlapped \/ \E q \in Processes : at[q] # "idle")
  <1> USE DEF Points, Move, Write
  <1>1. CASE Recording(p)
    BY <1>1 DEF CommandTypes, Recording, RecordInvestigation, RecordApproval,
        RecordRejection, FailRejected, RecordStart, RecordResult,
        RecordUncertain, RecordStep, Report, RecordCancel
  <1>2. CASE Investigate(p) \/ Decide(p) \/ Resume(p) \/ Cancel(p)
    BY <1>2 DEF CommandTypes, Investigate, Decide, Resume, Cancel, Begin, Enter
  <1>3. CASE EnterHandler(p) \/ HandlerNotReached(p) \/ Verify(p)
             \/ LabFails(p) \/ Killed(p)
    BY <1>3 DEF CommandTypes, EnterHandler, HandlerNotReached, Verify,
                LabFails, Killed
  <1> QED
    BY <1>1, <1>2, <1>3 DEF Working

\* A process that appends, appends events.
LEMMA RecordingFollows ==
    ASSUME CommandTypes, NEW p \in Processes, Recording(p)
    PROVE  Follows(run, run') /\ UNCHANGED <<entered, verified>>
  <1>t. run \in Projection
    BY DEF CommandTypes
  <1> USE Calls DEF Write
  <1>a. "completed" \in Finished /\ "approved" \in {"approved", "rejected"}
            /\ "none" \in StopReason \cup {"none"} /\ <<>> \in Seq(CallIds)
    BY DEF Finished
  <1>r. \A q \in Projection :
            /\ \A c \in CallIds : /\ Follows(q, ToolStarted(q, c))
                                  /\ Follows(q, ToolFinished(q, c, "completed"))
                                  /\ Follows(q, ApprovalRequested(q, c))
                                  /\ Follows(q, ApprovalDecided(q, c, "approved"))
                                  /\ Follows(q, ApprovalDecided(q, c, "rejected"))
    <2> SUFFICES ASSUME NEW q \in Projection, NEW c \in CallIds
                 PROVE  /\ Follows(q, ToolStarted(q, c))
                        /\ Follows(q, ToolFinished(q, c, "completed"))
                        /\ Follows(q, ApprovalRequested(q, c))
                        /\ Follows(q, ApprovalDecided(q, c, "approved"))
                        /\ Follows(q, ApprovalDecided(q, c, "rejected"))
      OBVIOUS
    <2> DEFINE r == [stop |-> "none", calls |-> <<>>, tokens |-> 0]
    <2>1. r.stop \in StopReason \cup {"none"} /\ r.calls \in Seq(CallIds)
              /\ r.tokens \in Nat
      BY <1>a
    <2> HIDE DEF r
    <2> QED
      BY <1>a, <2>1, CallEventsFollow
  <1>1. CASE RecordInvestigation(p)
    <2> DEFINE p1 == RunStarted(run)
    <2> DEFINE p2 == Noted(p1)
    <2> DEFINE p3 == TurnStarted(p2, 1)
    <2> DEFINE p4 == ExecutedStep(p3, 1, Query)
    <2>1. Follows(run, p1) /\ p1 \in Projection
      BY <1>t, RunEventsFollow DEF Follows, Terminal
    <2> HIDE DEF p1
    <2>2. Follows(p1, p2) /\ p2 \in Projection
      BY <2>1, RunEventsFollow DEF Follows, Terminal
    <2> HIDE DEF p2
    <2>3. Follows(p2, p3) /\ p3 \in Projection
      BY <2>2, RunEventsFollow DEF Follows, Terminal
    <2> HIDE DEF p3
    <2>4. Follows(p3, p4) /\ p4 \in Projection
      BY <2>3, ExecutedStepFollows DEF Follows
    <2> HIDE DEF p4
    <2>5. Follows(run, p4)
      BY <2>1, <2>2, <2>3, <2>4, FollowsTransitive
    <2>6. Follows(p4, Completion(p4, 2))
      BY <2>4, CompletionFollows
    <2>7. Follows(p4, ToolStep(p4, 2, Recovery))
      BY <2>4, ToolStepFollows
    <2>8. Follows(ToolStep(p4, 2, Recovery),
                  ApprovalRequested(ToolStep(p4, 2, Recovery), Recovery))
      BY <1>r, <2>7 DEF Follows
    <2>9. \/ run' = Completion(p4, 2)
          \/ run' = ApprovalRequested(ToolStep(p4, 2, Recovery), Recovery)
      BY <1>1 DEF RecordInvestigation, p1, p2, p3, p4
    <2>10. Follows(run, run')
      BY <2>5, <2>6, <2>7, <2>8, <2>9, FollowsTransitive
    <2> QED
      BY <1>1, <2>10 DEF RecordInvestigation
  <1>2. CASE RecordApproval(p) \/ RecordRejection(p)
    BY <1>t, <1>r, <1>2 DEF RecordApproval, RecordRejection
  <1>3. CASE FailRejected(p) \/ RecordUncertain(p)
    BY <1>t, <1>3, RunEventsFollow DEF FailRejected, RecordUncertain, Terminal
  <1>4. CASE RecordStart(p) \/ RecordResult(p)
    BY <1>t, <1>r, <1>4 DEF RecordStart, RecordResult
  <1>5. CASE RecordStep(p)
    BY <1>t, <1>5, RunEventsFollow DEF RecordStep, Terminal
  <1>6. CASE Report(p)
    <2> DEFINE p1 == Noted(run)
    <2> DEFINE p2 == ExecutedStep(p1, 3, Verification)
    <2>1. Follows(run, p1) /\ p1 \in Projection
      BY <1>t, RunEventsFollow DEF Follows, Terminal
    <2> HIDE DEF p1
    <2>2. Follows(p1, p2) /\ p2 \in Projection
      BY <2>1, ExecutedStepFollows DEF Follows
    <2> HIDE DEF p2
    <2>3. Follows(p2, Completion(p2, 4))
      BY <2>2, CompletionFollows
    <2>4. run' = Completion(p2, 4)
      BY <1>6 DEF Report, p1, p2
    <2>5. Follows(run, run')
      BY <2>1, <2>2, <2>3, <2>4, FollowsTransitive
    <2> QED
      BY <1>6, <2>5 DEF Report
  <1>7. CASE RecordCancel(p)
    <2>1. Follows(run, RunCancelling(run)) /\ RunCancelling(run) \in Projection
      BY <1>t, RunEventsFollow DEF Follows, Terminal
    <2>2. Follows(RunCancelling(run), RunClosed(RunCancelling(run), "cancelled"))
      BY <2>1, RunEventsFollow DEF Terminal
    <2>3. Follows(run, run')
      BY <1>7, <2>1, <2>2, FollowsTransitive DEF RecordCancel
    <2> QED
      BY <1>7, <2>3 DEF RecordCancel
  <1> QED
    BY <1>1, <1>2, <1>3, <1>4, <1>5, <1>6, <1>7 DEF Recording

\* The other steps leave the stream alone.
LEMMA WorkingKeepsRun ==
    ASSUME NEW p \in Processes, Working(p)
    PROVE  run' = run
BY DEF Working, Investigate, Decide, Resume, Cancel, Begin, Enter,
       EnterHandler, HandlerNotReached, Verify, LabFails, Killed

\* Every step keeps the types.
LEMMA CommandTypesStep ==
    ASSUME CommandTypes, NEW p \in Processes, Recording(p) \/ Working(p)
    PROVE  CommandTypes'
  <1>1. run' \in Projection
    BY RecordingFollows, WorkingKeepsRun DEF CommandTypes, Follows
  <1>2. at' \in [Processes -> Points] /\ overlapped' \in BOOLEAN
    BY Moves DEF CommandTypes
  <1> QED
    BY <1>1, <1>2 DEF CommandTypes

(***************************************************************************)
(* The invariant of the commands.                                          *)
(***************************************************************************)

\* Between the look at the approval and the entry of the handler the recovery
\* is approved.
Decided ==
    /\ RecoveryApproved
    /\ \A p \in Processes :
         at[p] \in {"starting", "recovering"} => run.first[Recovery] = "approved"

\* As long as commands are given one at a time, one process is under way.
OneAtATime ==
    ~overlapped => \A p, q \in Processes :
                      at[p] # "idle" /\ at[q] # "idle" => p = q

\* And what it has seen of the run when it began still holds.
UpToDate ==
    ~overlapped => \A p \in Processes :
        /\ at[p] = "reading" => run = Empty
        /\ at[p] \in {"starting", "recovering"} => run.status \notin Terminal
        /\ at[p] \in {"closing_step", "verifying", "reporting"} /\ run.ok
             => run.tools[Recovery].state = "completed"
        /\ at[p] = "reporting" => verified

CommandInv ==
    CommandTypes /\ Decided /\ OneAtATime /\ UpToDate /\ CompletedIsVerified

\* It holds before the first command.
LEMMA CommandInit == Init => CommandInv
  <1> SUFFICES ASSUME Init
               PROVE  CommandInv
    OBVIOUS
  <1>1. CommandTypes
    BY EmptyIsProjection DEF Init, CommandTypes, Points
  <1>2. Decided
    BY DEF Init, Decided, RecoveryApproved
  <1>3. OneAtATime /\ UpToDate
    BY DEF Init, OneAtATime, UpToDate
  <1>4. CompletedIsVerified
    BY DEF Init, CompletedIsVerified, Empty
  <1> QED
    BY <1>1, <1>2, <1>3, <1>4 DEF CommandInv

\* A step of one process is alone as long as commands do not overlap.
LEMMA StaysAlone ==
    ASSUME CommandInv, NEW p \in Processes, Recording(p) \/ Working(p)
    PROVE  /\ OneAtATime'
           /\ ~overlapped' =>
                /\ ~overlapped
                /\ \A q \in Processes \ {p} : at[q] = "idle" /\ at'[q] = "idle"
  <1>1. PICK point \in Points : at' = [at EXCEPT ![p] = point]
    BY Moves DEF CommandInv
  <1>2. ~overlapped' =>
            /\ ~overlapped
            /\ \A q \in Processes \ {p} : at[q] = "idle"
    BY Moves DEF CommandInv, CommandTypes, OneAtATime
  <1>3. \A q \in Processes \ {p} : at'[q] = at[q]
    BY <1>1 DEF CommandInv, CommandTypes
  <1> QED
    BY <1>2, <1>3 DEF OneAtATime

\* The first decision stands, and only an approved recovery moves on.
LEMMA DecidedStep ==
    ASSUME CommandInv, NEW p \in Processes, Recording(p) \/ Working(p)
    PROVE  Decided'
  <1>t. CommandTypes /\ Decided
    BY DEF CommandInv
  <1>1. run.first[Recovery] = "approved" => run'.first[Recovery] = "approved"
    <2>1. CASE Recording(p)
      BY <1>t, <2>1, RecordingFollows, Calls DEF Follows
    <2>2. CASE Working(p)
      BY <2>2, WorkingKeepsRun
    <2> QED
      BY <2>1, <2>2
  <1>2. PICK point \in Points : at' = [at EXCEPT ![p] = point]
    BY <1>t, Moves
  <1>3. \A q \in Processes \ {p} : at'[q] = at[q]
    BY <1>t, <1>2 DEF CommandTypes
  <1>4. at'[p] = point
    BY <1>t, <1>2 DEF CommandTypes
  <1>5. /\ point \in {"starting", "recovering"} => run.first[Recovery] = "approved"
        /\ entered' # entered => run.first[Recovery] = "approved"
    <2> USE <1>t DEF CommandTypes, Move
    <2>1. CASE Recording(p)
      <3>1. entered' = entered
        BY <2>1, RecordingFollows
      <3>2. point \in {"starting", "recovering"} => RecordStart(p)
        BY <1>4, <2>1 DEF Recording, RecordInvestigation, RecordApproval,
            RecordRejection, FailRejected, RecordResult, RecordUncertain,
            RecordStep, Report, RecordCancel, Write
      <3> QED
        BY <3>1, <3>2 DEF RecordStart, Write, Decided
    <2>2. CASE Investigate(p) \/ Decide(p) \/ Resume(p) \/ Cancel(p)
      BY <1>4, <2>2 DEF Investigate, Decide, Resume, Cancel, Begin, Enter
    <2>3. CASE EnterHandler(p)
      BY <1>4, <2>3 DEF EnterHandler, Decided
    <2>4. CASE HandlerNotReached(p) \/ Verify(p) \/ LabFails(p) \/ Killed(p)
      BY <1>4, <2>4 DEF HandlerNotReached, Verify, LabFails, Killed
    <2> QED
      BY <2>1, <2>2, <2>3, <2>4 DEF Working
  <1>6. RecoveryApproved'
    BY <1>t, <1>1, <1>5 DEF Decided, RecoveryApproved
  <1>7. ASSUME NEW q \in Processes, at'[q] \in {"starting", "recovering"}
        PROVE  run'.first[Recovery] = "approved"
    <2>1. CASE q = p
      BY <1>1, <1>4, <1>5, <1>7, <2>1
    <2>2. CASE q # p
      BY <1>t, <1>1, <1>3, <1>7, <2>2 DEF Decided
    <2> QED
      BY <2>1, <2>2
  <1> QED
    BY <1>6, <1>7 DEF Decided

\* As long as commands are given one at a time: an appended batch completes the
\* run only with its results, and the next step finds what it counts on.
LEMMA RecordingUpToDate ==
    ASSUME CommandInv, NEW p \in Processes, Recording(p), ~overlapped'
    PROVE  /\ at'[p] # "reading" /\ at'[p] # "reporting"
           /\ at'[p] \in {"starting", "recovering"} => run'.status \notin Terminal
           /\ at'[p] \in {"closing_step", "verifying", "reporting"} /\ run'.ok
                => run'.tools[Recovery].state = "completed"
           /\ CompletedIsVerified'
  <1>t. /\ run \in Projection /\ CommandTypes /\ ~overlapped /\ UpToDate
        /\ verified' = verified
    BY StaysAlone, RecordingFollows DEF CommandInv, CommandTypes
  <1>f. run'.ok => run.ok /\ run.status \notin Terminal
    BY <1>t, RecordingFollows DEF Follows, Refuses
  <1> USE Calls DEF Write, Move, CommandTypes
  <1>1. CASE RecordInvestigation(p)
    <2>1. run = Empty /\ at'[p] = "idle"
      BY <1>t, <1>1 DEF RecordInvestigation, UpToDate
    <2> DEFINE p3 == TurnStarted(Noted(RunStarted(run)), 1)
    <2> DEFINE p4 == ExecutedStep(p3, 1, Query)
    <2>2. RunStarted(run) \in Projection /\ RunStarted(run).asked = run.asked
      BY <1>t, RunEventsFollow DEF Follows, RunStarted, Accept, Projection, Terminal
    <2>3. /\ Noted(RunStarted(run)) \in Projection
          /\ Noted(RunStarted(run)).asked = run.asked
      BY <2>2 DEF Noted, Accept, Projection
    <2>4. p3 \in Projection /\ p3.asked = run.asked
      <3>1. p3 \in Projection
        BY <2>3, RunEventsFollow DEF Follows, Terminal
      <3>2. p3.asked = Noted(RunStarted(run)).asked
        BY <2>3 DEF TurnStarted, Accept, Projection
      <3> QED
        BY <2>3, <3>1, <3>2
    <2> HIDE DEF p3
    <2>5. p4 \in Projection /\ p4.asked = run.asked
      BY <2>4, ExecutedStepFollows DEF Follows
    <2> HIDE DEF p4
    <2>6. CASE run' = Completion(p4, 2)
      <3>1. run'.asked[Recovery] = FALSE
        BY <2>1, <2>5, <2>6, CompletionFollows DEF Empty
      <3> QED
        BY <2>1, <3>1 DEF CompletedIsVerified
    <2>7. CASE run' = ApprovalRequested(ToolStep(p4, 2, Recovery), Recovery)
      <3>1. ToolStep(p4, 2, Recovery) \in Projection
        BY <2>5, ToolStepFollows DEF Follows
      <3>2. run'.ok => run'.status = "waiting_approval"
        BY <2>7, <3>1, StatusOfCommands
      <3> QED
        BY <2>1, <3>2 DEF CompletedIsVerified
    <2>8. run' = Completion(p4, 2)
             \/ run' = ApprovalRequested(ToolStep(p4, 2, Recovery), Recovery)
      BY <1>1 DEF RecordInvestigation, p3, p4
    <2> QED
      BY <2>6, <2>7, <2>8
  <1>2. CASE RecordApproval(p) \/ RecordRejection(p)
    <2>1. \A d : ApprovalDecided(run, Recovery, d).ok =>
                   ApprovalDecided(run, Recovery, d).status = "running"
      BY <1>t, StatusOfCommands
    <2>2. run'.ok => run'.status = "running"
      BY <1>2, <2>1 DEF RecordApproval, RecordRejection
    <2> QED
      BY <1>t, <1>2, <2>2 DEF RecordApproval, RecordRejection, CompletedIsVerified
  <1>3. CASE FailRejected(p) \/ RecordUncertain(p) \/ RecordCancel(p)
    <2>1. RunCancelling(run) \in Projection
      BY <1>t, RunEventsFollow DEF Follows, Terminal
    <2>2. run'.ok => run'.status \in {"failed", "failed_uncertain", "cancelled"}
      BY <1>t, <1>3, <2>1, StatusOfCommands
      DEF FailRejected, RecordUncertain, RecordCancel
    <2>3. at'[p] = "idle"
      BY <1>t, <1>3 DEF FailRejected, RecordUncertain, RecordCancel
    <2> QED
      BY <2>2, <2>3 DEF CompletedIsVerified
  <1>4. CASE RecordStart(p)
    <2>1. /\ at[p] = "starting" /\ at'[p] = "recovering"
          /\ run' = ToolStarted(run, Recovery)
      BY <1>t, <1>4 DEF RecordStart
    <2>2. run'.status = run.status /\ run.status \notin Terminal
      BY <1>t, <2>1, StatusOfCommands DEF UpToDate
    <2> QED
      BY <2>1, <2>2 DEF CompletedIsVerified, Terminal
  <1>5. CASE RecordResult(p)
    <2>1. at'[p] = "closing_step" /\ run' = ToolFinished(run, Recovery, "completed")
      BY <1>t, <1>5 DEF RecordResult
    <2>2. run'.status = run.status
      BY <1>t, <2>1, StatusOfCommands
    <2>3. run'.ok => run'.tools[Recovery].state = "completed"
      BY <1>t, <2>1 DEF ToolFinished, Accept, Projection, Tool
    <2> QED
      BY <1>f, <2>1, <2>2, <2>3 DEF CompletedIsVerified, Terminal
  <1>6. CASE RecordStep(p)
    <2>1. /\ at[p] = "closing_step" /\ at'[p] = "verifying"
          /\ run' = StepCompleted(run, 1, 2)
      BY <1>t, <1>6 DEF RecordStep
    <2>2. run'.status = run.status
      BY <1>t, <2>1, StatusOfCommands
    <2>3. run'.tools = run.tools
      BY <1>t, <2>1 DEF StepCompleted, Accept, Projection
    <2>4. run.ok => run.tools[Recovery].state = "completed"
      BY <1>t, <2>1 DEF UpToDate
    <2> QED
      BY <1>f, <2>1, <2>2, <2>3, <2>4 DEF CompletedIsVerified, Terminal
  <1>7. CASE Report(p)
    <2> DEFINE p1 == Noted(run)
    <2> DEFINE p2 == ExecutedStep(p1, 3, Verification)
    <2>1. at[p] = "reporting" /\ at'[p] = "idle" /\ run' = Completion(p2, 4)
      BY <1>t, <1>7 DEF Report
    <2>2. p1 \in Projection /\ p1.tools = run.tools
      BY <1>t DEF Noted, Accept, Projection
    <2> HIDE DEF p1
    <2>3. /\ p2 \in Projection
          /\ p2.ok => /\ p2.tools[Verification].state = "completed"
                      /\ \A k \in CallIds \ {Verification} : p2.tools[k] = p1.tools[k]
      BY <2>2, ExecutedStepFollows DEF Follows
    <2> HIDE DEF p2
    <2>4. run'.tools = p2.tools /\ (run'.ok => p2.ok)
      BY <2>1, <2>3, CompletionFollows DEF Follows, Refuses
    <2>5. verified /\ (run.ok => run.tools[Recovery].state = "completed")
      BY <1>t, <2>1 DEF UpToDate
    <2>6. run'.ok => /\ run'.tools[Recovery].state = "completed"
                     /\ run'.tools[Verification].state = "completed"
      BY <1>f, <2>2, <2>3, <2>4, <2>5, CallsAssumption
    <2>7. verified'
      BY <1>t, <2>5
    <2> QED
      BY <2>1, <2>6, <2>7 DEF CompletedIsVerified
  <1> QED
    BY <1>1, <1>2, <1>3, <1>4, <1>5, <1>6, <1>7 DEF Recording

\* And a step without an event takes away nothing that a later one counts on.
LEMMA WorkingUpToDate ==
    ASSUME CommandInv, NEW p \in Processes, Working(p), ~overlapped'
    PROVE  /\ at'[p] = "reading" => run' = Empty
           /\ at'[p] \in {"starting", "recovering"} => run'.status \notin Terminal
           /\ at'[p] \in {"closing_step", "verifying", "reporting"} /\ run'.ok
                => run'.tools[Recovery].state = "completed"
           /\ at'[p] = "reporting" => verified'
           /\ CompletedIsVerified'
  <1>t. /\ CommandTypes /\ ~overlapped /\ UpToDate /\ CompletedIsVerified
        /\ run' = run
    BY StaysAlone, WorkingKeepsRun DEF CommandInv
  <1> USE DEF Move, CommandTypes
  <1>1. CASE Investigate(p)
    BY <1>t, <1>1 DEF Investigate, Enter, CompletedIsVerified
  <1>2. CASE Decide(p) \/ Cancel(p)
    BY <1>t, <1>2 DEF Decide, Cancel, Begin, Enter, CompletedIsVerified
  <1>3. CASE Resume(p)
    BY <1>t, <1>3 DEF Resume, Begin, Enter, CompletedIsVerified
  <1>4. CASE EnterHandler(p)
    <2>1. run.status \notin Terminal
      BY <1>t, <1>4 DEF EnterHandler, UpToDate
    <2> QED
      BY <1>t, <1>4, <2>1 DEF EnterHandler, CompletedIsVerified, Terminal
  <1>5. CASE HandlerNotReached(p) \/ LabFails(p) \/ Killed(p)
    BY <1>t, <1>5 DEF HandlerNotReached, LabFails, Killed, CompletedIsVerified
  <1>6. CASE Verify(p)
    BY <1>t, <1>6 DEF Verify, UpToDate, CompletedIsVerified
  <1> QED
    BY <1>1, <1>2, <1>3, <1>4, <1>5, <1>6 DEF Working

\* Every step of a process keeps the invariant.
LEMMA CommandStep ==
    ASSUME CommandInv, NEW p \in Processes, Recording(p) \/ Working(p)
    PROVE  CommandInv'
  <1>1. CommandTypes' /\ Decided' /\ OneAtATime'
    BY CommandTypesStep, DecidedStep, StaysAlone DEF CommandInv
  <1>2. CASE overlapped'
    BY <1>1, <1>2 DEF CommandInv, UpToDate, CompletedIsVerified
  <1>3. CASE ~overlapped'
    <2>1. \A q \in Processes \ {p} : at'[q] = "idle"
      BY <1>3, StaysAlone
    <2>2. UpToDate' /\ CompletedIsVerified'
      BY <1>3, <2>1, RecordingUpToDate, WorkingUpToDate DEF UpToDate
    <2> QED
      BY <1>1, <2>2 DEF CommandInv
  <1> QED
    BY <1>2, <1>3

(***************************************************************************)
(* The page.  Once the stream has been seen closed, it takes no event that  *)
(* can be projected: what the page has read stays true.                    *)
(***************************************************************************)

Page ==
    [at : {"away", "polling", "replayed", "done", "loading", "loaded"},
     sent : Nat, read : Nat, status : RunStatus \cup {"none"}, shown : Nat]

PageTypes == length \in Nat /\ viewer \in [Viewers -> Page]

\* What has been read of a closed stream, at each point of the way to the page.
PagesFinal ==
    \A v \in Viewers : run.ok =>
        /\ viewer[v].at \in {"done", "loading", "loaded"} => run.status \in Terminal
        /\ viewer[v].at \in {"loading", "loaded"} => viewer[v].status = run.status
        /\ viewer[v].at = "loaded" => viewer[v].shown = length

ConsoleInv == CommandInv /\ PageTypes /\ PagesFinal

\* It holds before the first visit.
LEMMA ConsoleInvInit == ConsoleInit => ConsoleInv
  <1> SUFFICES ASSUME ConsoleInit
               PROVE  ConsoleInv
    OBVIOUS
  <1>1. CommandInv
    BY CommandInit DEF ConsoleInit
  <1>2. PageTypes
    BY DEF ConsoleInit, PageTypes, Page, Closed
  <1>3. PagesFinal
    BY DEF ConsoleInit, PagesFinal, Closed
  <1> QED
    BY <1>1, <1>2, <1>3 DEF ConsoleInv

\* No command makes a page wrong that a viewer has loaded or is loading.
LEMMA CommandedStep ==
    ASSUME ConsoleInv, Commanded
    PROVE  ConsoleInv'
  <1>1. PICK p \in Processes : \/ Recording(p) /\ length' = length + 1
                               \/ Working(p) /\ UNCHANGED length
    BY DEF Commanded
  <1>2. CommandInv'
    BY <1>1, CommandStep DEF ConsoleInv
  <1>3. PageTypes'
    BY <1>1 DEF Commanded, ConsoleInv, PageTypes
  <1>4. PagesFinal'
    <2>1. CASE Working(p) /\ UNCHANGED length
      <3>1. run' = run /\ length' = length /\ viewer' = viewer
        BY <2>1, WorkingKeepsRun DEF Commanded
      <3> QED
        BY <3>1 DEF ConsoleInv, PagesFinal
    <2>2. CASE Recording(p)
      <3>1. Refuses(run) => ~run'.ok
        BY <2>2, RecordingFollows DEF ConsoleInv, CommandInv, Follows
      <3>2. viewer' = viewer
        BY DEF Commanded
      <3>3. SUFFICES ASSUME NEW v \in Viewers, run'.ok
                     PROVE  viewer[v].at \notin {"done", "loading", "loaded"}
        BY <3>2 DEF PagesFinal
      <3> QED
        BY <3>1, <3>3 DEF ConsoleInv, PagesFinal, Refuses
    <2> QED
      BY <1>1, <2>1, <2>2
  <1> QED
    BY <1>2, <1>3, <1>4 DEF ConsoleInv

\* A page that shows what the stream holds now.
Fits(page) ==
    /\ page \in Page
    /\ run.ok =>
        /\ page.at \in {"done", "loading", "loaded"} => run.status \in Terminal
        /\ page.at \in {"loading", "loaded"} => page.status = run.status
        /\ page.at = "loaded" => page.shown = length

\* Every replay that a viewer's page is made of fits the ones before it.
LEMMA WatchedStep ==
    ASSUME ConsoleInv, Watched
    PROVE  ConsoleInv'
  <1>t. /\ run \in Projection /\ length \in Nat
        /\ viewer \in [Viewers -> Page] /\ PagesFinal
    BY DEF ConsoleInv, CommandInv, CommandTypes, PageTypes
  <1>c. Closed \in Page /\ run.status \in RunStatus
    BY <1>t DEF Closed, Page, Projection
  <1>1. PICK v \in Viewers :
            \/ Visit(v) \/ Leave(v) \/ ReplayTimeline(v) \/ ReplayStatus(v)
            \/ LoadStatus(v) \/ LoadTimeline(v)
    BY DEF Watched
  <1>2. UNCHANGED <<vars, length>>
    BY <1>1 DEF Visit, Leave, ReplayTimeline, ReplayStatus, LoadStatus,
                LoadTimeline, Turns
  <1>3. CommandInv'
    BY <1>2 DEF ConsoleInv, CommandInv, CommandTypes, Decided, RecoveryApproved,
                OneAtATime, UpToDate, CompletedIsVerified, vars
  <1>4. ASSUME NEW from, NEW page, Turns(v, from, page), Fits(page)
        PROVE  ConsoleInv'
    <2>1. PageTypes' /\ PagesFinal'
      BY <1>t, <1>2, <1>4 DEF Fits, Turns, PageTypes, PagesFinal, vars
    <2> QED
      BY <1>3, <2>1 DEF ConsoleInv
  <1>5. viewer[v] \in Page /\ Fits(Closed)
    BY <1>t, <1>c DEF Fits, Closed
  <1>6. CASE Visit(v)
    <2>1. Fits([Closed EXCEPT !.at = "polling"])
      BY DEF Fits, Closed, Page
    <2> QED
      BY <1>4, <1>6, <2>1 DEF Visit
  <1>7. CASE Leave(v)
    BY <1>4, <1>5, <1>7 DEF Leave
  <1>8. CASE ReplayTimeline(v)
    <2>1. Fits([viewer[v] EXCEPT !.at = "replayed", !.read = length])
      BY <1>t, <1>5 DEF Fits, Page
    <2>2. CASE length = 0
      BY <1>4, <1>5, <1>8, <2>2 DEF ReplayTimeline
    <2>3. CASE length # 0
      BY <1>4, <1>8, <2>1, <2>3 DEF ReplayTimeline
    <2> QED
      BY <2>2, <2>3
  <1>9. CASE ReplayStatus(v)
    <2> DEFINE page == [viewer[v] EXCEPT
                    !.sent = viewer[v].read,
                    !.at = IF run.status \in Terminal THEN "done" ELSE "polling"]
    <2>1. Fits(page)
      BY <1>t, <1>5 DEF Fits, Page
    <2>2. CASE ~run.ok
      BY <1>4, <1>5, <1>9, <2>2 DEF ReplayStatus
    <2>3. CASE run.ok
      BY <1>4, <1>9, <2>1, <2>3 DEF ReplayStatus
    <2> QED
      BY <2>2, <2>3
  <1>10. CASE LoadStatus(v)
    <2> DEFINE page == [viewer[v] EXCEPT !.at = "loading", !.status = run.status]
    <2>1. viewer[v].at = "done" => Fits(page)
      BY <1>t, <1>c, <1>5 DEF Fits, Page, PagesFinal
    <2>2. CASE ~run.ok
      BY <1>4, <1>5, <1>10, <2>2 DEF LoadStatus
    <2>3. CASE run.ok
      BY <1>4, <1>10, <2>1, <2>3 DEF LoadStatus, Turns
    <2> QED
      BY <2>2, <2>3
  <1>11. CASE LoadTimeline(v)
    <2>1. viewer[v].at = "loading" =>
            Fits([viewer[v] EXCEPT !.at = "loaded", !.shown = length])
      BY <1>t, <1>5 DEF Fits, Page, PagesFinal
    <2> QED
      BY <1>4, <1>11, <2>1 DEF LoadTimeline, Turns
  <1> QED
    BY <1>1, <1>6, <1>7, <1>8, <1>9, <1>10, <1>11

\* Every step keeps the invariant.
LEMMA ConsoleInvStep == ConsoleInv /\ [ConsoleNext]_consoleVars => ConsoleInv'
  <1> SUFFICES ASSUME ConsoleInv, [ConsoleNext]_consoleVars
               PROVE  ConsoleInv'
    OBVIOUS
  <1>1. CASE Commanded
    BY <1>1, CommandedStep
  <1>2. CASE Watched
    BY <1>2, WatchedStep
  <1>3. CASE UNCHANGED consoleVars
    BY <1>3 DEF ConsoleInv, CommandInv, CommandTypes, Decided, RecoveryApproved,
                OneAtATime, UpToDate, CompletedIsVerified, PageTypes,
                PagesFinal, consoleVars, vars
  <1> QED
    BY <1>1, <1>2, <1>3 DEF ConsoleNext

\* ConsoleInv holds in every behaviour.
LEMMA ConsoleInvariant == ConsoleSpec => []ConsoleInv
BY ConsoleInvInit, ConsoleInvStep, PTL DEF ConsoleSpec

\* The recovery of an investigation is never executed without a durable
\* approval, whatever commands overlap and whatever is killed.
THEOREM RecoveriesApproved == ConsoleSpec => []RecoveryApproved
  <1>1. ConsoleInv => RecoveryApproved
    BY DEF ConsoleInv, CommandInv, Decided
  <1> QED
    BY <1>1, ConsoleInvariant, PTL

\* A run that commands given one at a time report as completed holds the
\* results of its recovery and of the verification that followed it.
THEOREM CompletionsVerified == ConsoleSpec => []CompletedIsVerified
  <1>1. ConsoleInv => CompletedIsVerified
    BY DEF ConsoleInv, CommandInv
  <1> QED
    BY <1>1, ConsoleInvariant, PTL

\* The page a viewer loads when its stream is done is the final one, and
\* complete.
THEOREM FinalPages == ConsoleSpec => []FinalPage
  <1>1. ConsoleInv => FinalPage
    BY DEF ConsoleInv, PagesFinal, FinalPage
  <1> QED
    BY <1>1, ConsoleInvariant, PTL

\* Once a run is closed its recovery is not executed any more, as long as
\* commands are given one at a time.
THEOREM ClosedRunsAreFinal == ConsoleSpec => ClosedIsFinal
  <1>1. ConsoleInv /\ [ConsoleNext]_consoleVars =>
          [run.status \in Terminal /\ ~overlapped => entered' = entered]_vars
    <2> SUFFICES ASSUME ConsoleInv, ConsoleNext, run.status \in Terminal,
                        ~overlapped, ~UNCHANGED vars
                 PROVE  entered' = entered
      BY DEF consoleVars
    <2>1. CASE Watched
      BY <2>1 DEF Watched, Visit, Leave, ReplayTimeline, ReplayStatus,
                  LoadStatus, LoadTimeline, Turns
    <2>2. ASSUME NEW p \in Processes, Recording(p)
          PROVE  entered' = entered
      BY <2>2, RecordingFollows DEF ConsoleInv, CommandInv
    <2>3. ASSUME NEW p \in Processes, Working(p)
          PROVE  entered' = entered
      <3>1. at[p] # "recovering"
        BY DEF ConsoleInv, CommandInv, UpToDate
      <3>2. ~EnterHandler(p)
        BY <3>1 DEF EnterHandler, Move
      <3> QED
        BY <2>3, <3>2 DEF Working, Investigate, Decide, Resume, Cancel, Begin,
               Enter, HandlerNotReached, Verify, LabFails, Killed
    <2> QED
      BY <2>1, <2>2, <2>3 DEF ConsoleNext, Commanded
  <1> QED
    BY <1>1, ConsoleInvariant, PTL DEF ConsoleSpec, ClosedIsFinal
=============================================================================
