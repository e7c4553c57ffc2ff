------------------------- MODULE ToolPipelineProofs -------------------------
(***************************************************************************)
(* Proofs about ToolPipeline, for any number of batches, calls and lanes:   *)
(* mutations of one lane never overlap, a mutation's handler is entered at  *)
(* most once and only with an approval of this very call, a batch with a    *)
(* mutation runs in the model's order, and nothing is entered in a batch    *)
(* that is cancelled.                                                       *)
(***************************************************************************)
EXTENDS ToolPipeline, FiniteSetTheorems, TLAPS

USE DEF Slots

\* A call that moves on: what the steps of _execute_validated have in common.
\* Only the handler's entry counts, and it comes from a point before it.
LEMMA MoveKeeps ==
    ASSUME NEW b \in Batches, NEW i \in Slots, NEW point,
           PipelineInv, Move(b, i, point),
           at[b][i] # "absent",
           point \in Active \cup Ended,
           decisions' \subseteq Batches \X Slots, decisions \subseteq decisions',
           Tool(b, i) \in Mutations /\ point \in Inside
                => holder[LaneOf[Tool(b, i)]] = <<b, i>>,
           point = "handler" =>
                /\ entered[b][i] = 0
                /\ Tool(b, i) \in Mutations => <<b, i>> \in decisions',
           point \in {"lane", "before", "approval"} => entered[b][i] = 0,
           point \notin Refused
    PROVE  PipelineInv'
PROOF
  <1>1. /\ at' = [at EXCEPT ![b][i] = point]
        /\ entered' = IF point = "handler"
                      THEN [entered EXCEPT ![b][i] = @ + 1] ELSE entered
        /\ UNCHANGED <<provider, batch, holder, cancelled, foreign>>
    BY DEF Move
  <1>2. TypeOK'
    BY <1>1 DEF PipelineInv, TypeOK, Points
  <1>3. LaneHeld'
    BY <1>1 DEF PipelineInv, TypeOK, LaneHeld, Mutating, Tool
  <1>4. NotYetEntered'
    BY <1>1
    DEF PipelineInv, TypeOK, NotYetEntered, Active, Inside, Ended, Codes, Refused
  <1>5. MutationApproved'
    <2> SUFFICES ASSUME NEW c \in Batches, NEW j \in Slots,
                        entered'[c][j] > 0, Tool(c, j)' \in Mutations
                 PROVE  entered'[c][j] = 1 /\ <<c, j>> \in decisions'
      BY DEF MutationApproved
    <2>1. Tool(c, j)' = Tool(c, j)
      BY <1>1 DEF Tool
    <2>2. CASE point = "handler" /\ <<c, j>> = <<b, i>>
      <3>1. entered'[c][j] = entered[b][i] + 1
        BY <1>1, <2>2 DEF PipelineInv, TypeOK
      <3> QED BY <2>1, <2>2, <3>1
    <2>3. CASE ~(point = "handler" /\ <<c, j>> = <<b, i>>)
      <3>1. entered'[c][j] = entered[c][j]
        BY <1>1, <2>3 DEF PipelineInv, TypeOK
      <3> QED BY <2>1, <3>1 DEF PipelineInv, MutationApproved
    <2> QED BY <2>2, <2>3
  <1> QED BY <1>2, <1>3, <1>4, <1>5 DEF PipelineInv

\* A call that ends gives back its own lane and nobody else's.
LEMMA EndKeeps ==
    ASSUME NEW b \in Batches, NEW i \in Slots, NEW result \in Ended,
           PipelineInv,
           \/ End(b, i, result) /\ (result \in Refused => entered[b][i] = 0)
           \/ EndAs(b, i, result),
           at[b][i] # "absent",
           decisions' \subseteq Batches \X Slots, decisions \subseteq decisions'
    PROVE  PipelineInv'
PROOF
  <1>1. /\ at' = [at EXCEPT ![b][i] = result]
        /\ holder' = [l \in Lanes |-> IF holder[l] = <<b, i>> THEN Nobody
                                                             ELSE holder[l]]
        /\ UNCHANGED <<provider, batch, cancelled, entered>>
        /\ foreign \subseteq foreign' /\ foreign' \subseteq Batches \X Slots
        /\ result \in Refused /\ <<b, i>> \notin foreign' => entered[b][i] = 0
    BY DEF End, EndAs, Released, PipelineInv, TypeOK
  <1>2. TypeOK'
    BY <1>1 DEF PipelineInv, TypeOK, Points
  <1>3. LaneHeld'
    <2> SUFFICES ASSUME NEW c \in Batches, NEW j \in Slots, Mutating(c, j)'
                 PROVE  (holder[LaneOf[Tool(c, j)]] = <<c, j>>)'
      BY DEF LaneHeld
    <2>1. <<c, j>> # <<b, i>>
      BY <1>1 DEF Mutating, Inside, Ended, Codes, Refused, PipelineInv, TypeOK
    <2>2. Mutating(c, j)
      BY <1>1, <2>1 DEF Mutating, Tool, PipelineInv, TypeOK
    <2>3. holder[LaneOf[Tool(c, j)]] = <<c, j>> /\ Tool(c, j) \in Mutations
      BY <2>2 DEF PipelineInv, LaneHeld, Mutating
    <2> QED BY <1>1, <2>1, <2>3, ToolsAssumption DEF Tool
  <1>4. NotYetEntered'
    BY <1>1 DEF PipelineInv, TypeOK, NotYetEntered, Ended, Codes, Refused
  <1>5. MutationApproved'
    BY <1>1 DEF PipelineInv, MutationApproved, Tool
  <1> QED BY <1>2, <1>3, <1>4, <1>5 DEF PipelineInv

LEMMA InitInv == Init => PipelineInv
PROOF
  <1> SUFFICES ASSUME Init PROVE PipelineInv
    OBVIOUS
  <1>1. \A b \in Batches : batch[b] = <<>> /\ Len(batch[b]) = 0
    BY DEF Init
  <1>2. TypeOK
    BY <1>1, InputsAssumption DEF Init, TypeOK, Points
  <1>3. LaneHeld /\ NotYetEntered /\ MutationApproved
    BY DEF Init, LaneHeld, Mutating, Inside, NotYetEntered, MutationApproved
  <1> QED BY <1>2, <1>3 DEF PipelineInv

\* execute_batch is entered by a batch of which no call exists yet.
LEMMA ExecuteBatchKeeps ==
    ASSUME NEW b \in Batches, NEW s \in Inputs[b], PipelineInv,
           ExecuteBatch(b, s)
    PROVE  PipelineInv'
PROOF
  <1>1. s \in Seq(Tools) /\ Len(s) <= MaxLen /\ Len(s) \in Nat /\ MaxLen \in Nat
    BY InputsAssumption
  <1>2. \A i \in Slots : at[b][i] = "absent"
    <2> SUFFICES ASSUME NEW i \in Slots, at[b][i] # "absent" PROVE FALSE
      OBVIOUS
    <2>1. i <= Len(batch[b]) /\ Len(batch[b]) = 0
      BY DEF PipelineInv, TypeOK, ExecuteBatch
    <2> QED BY <2>1
  <1>3. /\ batch' = [batch EXCEPT ![b] = s]
        /\ at' = [at EXCEPT ![b] =
                    [i \in Slots |-> IF i <= Len(s) THEN "queued" ELSE "absent"]]
        /\ UNCHANGED <<provider, holder, decisions, cancelled, entered, foreign>>
    BY DEF ExecuteBatch
  <1>4. TypeOK'
    BY <1>1, <1>3 DEF PipelineInv, TypeOK, Points
  <1>5. \A i \in Slots : entered[b][i] = 0
    BY <1>2 DEF PipelineInv, NotYetEntered
  <1>6. LaneHeld'
    BY <1>3 DEF PipelineInv, TypeOK, LaneHeld, Mutating, Tool, Inside
  <1>7. NotYetEntered'
    BY <1>3, <1>5 DEF PipelineInv, TypeOK, NotYetEntered
  <1>8. MutationApproved'
    BY <1>3, <1>5 DEF PipelineInv, TypeOK, MutationApproved, Tool
  <1> QED BY <1>4, <1>6, <1>7, <1>8 DEF PipelineInv

\* The lock is taken only when nobody is inside the lane.
LEMMA TakeLaneKeeps ==
    ASSUME NEW b \in Batches, NEW i \in Slots, PipelineInv, TakeLane(b, i)
    PROVE  PipelineInv'
PROOF
  <1> DEFINE lane == LaneOf[Tool(b, i)]
  <1>1. /\ at[b][i] = "lane" /\ holder[lane] = Nobody
        /\ at' = [at EXCEPT ![b][i] = "before"]
        /\ holder' = [holder EXCEPT ![lane] = <<b, i>>]
        /\ UNCHANGED <<provider, batch, decisions, cancelled, entered, foreign>>
    BY DEF TakeLane, LaneFor
  <1>2. TypeOK'
    BY <1>1 DEF PipelineInv, TypeOK, Points, Active, Inside
  <1>3. LaneHeld'
    <2> SUFFICES ASSUME NEW c \in Batches, NEW j \in Slots, Mutating(c, j)'
                 PROVE  (holder[LaneOf[Tool(c, j)]] = <<c, j>>)'
      BY DEF LaneHeld
    <2>1. Tool(c, j)' = Tool(c, j) /\ Tool(c, j) \in Mutations
          /\ LaneOf[Tool(c, j)] \in Lanes
      BY <1>1, ToolsAssumption DEF Mutating, Tool
    <2>2. CASE <<c, j>> = <<b, i>>
      BY <1>1, <2>1, <2>2 DEF PipelineInv, TypeOK
    <2>3. CASE <<c, j>> # <<b, i>>
      <3>1. Mutating(c, j)
        BY <1>1, <2>3 DEF Mutating, Tool, PipelineInv, TypeOK
      <3>2. holder[LaneOf[Tool(c, j)]] = <<c, j>>
        BY <3>1 DEF PipelineInv, LaneHeld
      <3>3. <<c, j>> # Nobody
        BY NobodyAssumption
      <3> QED BY <1>1, <2>1, <3>2, <3>3 DEF PipelineInv, TypeOK
    <2> QED BY <2>2, <2>3
  <1>4. NotYetEntered'
    BY <1>1 DEF PipelineInv, TypeOK, NotYetEntered
  <1>5. MutationApproved'
    BY <1>1 DEF PipelineInv, MutationApproved, Tool
  <1> QED BY <1>2, <1>3, <1>4, <1>5 DEF PipelineInv

LEMMA CancelKeeps ==
    ASSUME NEW b \in Batches, PipelineInv, Cancel(b)
    PROVE  PipelineInv'
PROOF
  <1>1. /\ at' = [at EXCEPT ![b] = [i \in Slots |->
                    CASE at[b][i] \in {"queued", "lane"} -> "cancelled"
                      [] at[b][i] \in Inside -> "unwinding"
                      [] OTHER -> at[b][i]]]
        /\ cancelled' = cancelled \cup {b}
        /\ UNCHANGED <<provider, batch, holder, decisions, entered, foreign>>
    BY DEF Cancel
  <1>2. \A c \in Batches, i \in Slots :
            \/ at'[c][i] = at[c][i]
            \/ at[c][i] # "absent" /\ at'[c][i] = "cancelled"
            \/ at[c][i] \in Inside /\ at'[c][i] = "unwinding"
    BY <1>1 DEF PipelineInv, TypeOK
  <1>3. TypeOK'
    <2>1. at' \in [Batches -> [Slots -> Points]]
      BY <1>1 DEF PipelineInv, TypeOK, Points, Active, Inside, Ended
    <2>2. \A c \in Batches, i \in Slots :
             at'[c][i] # "absent" => i <= Len(batch'[c])
      BY <1>1, <1>2 DEF PipelineInv, TypeOK, Inside
    <2> QED BY <1>1, <2>1, <2>2 DEF PipelineInv, TypeOK
  <1>4. LaneHeld'
    BY <1>1, <1>2 DEF PipelineInv, LaneHeld, Mutating, Tool, Inside
  <1>5. NotYetEntered'
    BY <1>1, <1>2 DEF PipelineInv, NotYetEntered, Refused
  <1>6. MutationApproved'
    BY <1>1 DEF PipelineInv, MutationApproved, Tool
  <1> QED BY <1>3, <1>4, <1>5, <1>6 DEF PipelineInv

\* Every step of a call keeps the invariant.
LEMMA ProceedKeeps ==
    ASSUME NEW b \in Batches, NEW i \in Slots, PipelineInv, Proceed(b, i)
    PROVE  PipelineInv'
PROOF
  <1> USE DEF Active, Inside, Ended, Codes, Refused
  <1>t. decisions \subseteq Batches \X Slots
    BY DEF PipelineInv, TypeOK
  <1>e. at[b][i] \in {"queued", "lane", "before", "approval"} => entered[b][i] = 0
    BY DEF PipelineInv, NotYetEntered
  <1>h. at[b][i] \in Inside /\ Tool(b, i) \in Mutations
            => holder[LaneOf[Tool(b, i)]] = <<b, i>>
    BY DEF PipelineInv, LaneHeld, Mutating
  <1>1. CASE Begin(b, i)
    <2>1. at[b][i] = "queued" /\ UNCHANGED decisions
      BY <1>1 DEF Begin
    <2>2. CASE End(b, i, "unknown") \/ End(b, i, "invalid")
      BY <1>t, <1>e, <2>1, <2>2, EndKeeps
    <2>3. CASE Tool(b, i) \in Reads /\ Move(b, i, "before")
      BY <1>t, <1>e, <2>1, <2>3, MoveKeeps, ToolsAssumption
    <2>4. CASE Move(b, i, "lane")
      BY <1>t, <1>e, <2>1, <2>4, MoveKeeps
    <2> QED BY <1>1, <2>2, <2>3, <2>4 DEF Begin, Invalid
  <1>2. CASE TakeLane(b, i)
    BY <1>2, TakeLaneKeeps
  <1>3. CASE \E verdict \in Verdict : Evaluate(b, i, verdict)
    <2> PICK verdict \in Verdict : Evaluate(b, i, verdict)
      BY <1>3
    <2>1. at[b][i] = "before" /\ UNCHANGED decisions
      BY DEF Evaluate
    <2>2. CASE End(b, i, "denied") \/ End(b, i, "approval_required")
      BY <1>t, <1>e, <2>1, <2>2, EndKeeps
    <2>3. CASE Move(b, i, "approval")
      BY <1>t, <1>e, <1>h, <2>1, <2>3, MoveKeeps
    <2>4. CASE ~NeedsApproval(b, i, verdict) /\ Move(b, i, "handler")
      BY <1>t, <1>e, <2>1, <2>4, MoveKeeps DEF NeedsApproval
    <2> QED BY <2>2, <2>3, <2>4 DEF Evaluate
  <1>4. CASE \E matches, approved \in BOOLEAN : Answer(b, i, matches, approved)
    <2> PICK matches \in BOOLEAN, approved \in BOOLEAN :
                Answer(b, i, matches, approved)
      BY <1>4
    <2>1. /\ at[b][i] = "approval"
          /\ decisions' \subseteq Batches \X Slots
          /\ decisions \subseteq decisions'
      BY <1>t DEF Answer
    <2>2. CASE End(b, i, "failed") \/ End(b, i, "approval_denied")
      BY <1>e, <2>1, <2>2, EndKeeps
    <2>3. CASE matches /\ approved /\ Move(b, i, "handler")
      <3>1. <<b, i>> \in decisions'
        BY <2>3 DEF Answer
      <3> QED BY <1>e, <1>h, <2>1, <2>3, <3>1, MoveKeeps
    <2> QED BY <2>2, <2>3 DEF Answer
  <1>5. CASE HandlerReturns(b, i)
    <2>1. at[b][i] = "handler" /\ UNCHANGED decisions /\ Move(b, i, "after")
      BY <1>5 DEF HandlerReturns
    <2> QED BY <1>t, <1>h, <2>1, MoveKeeps
  <1>6. CASE Observe(b, i)
    BY <1>6, <1>t, EndKeeps, ChosenAssumption DEF Observe
  <1>7. CASE Fails(b, i)
    BY <1>7, <1>t, EndKeeps, ChosenAssumption DEF Fails
  <1>8. CASE Unwind(b, i)
    BY <1>8, <1>t, EndKeeps DEF Unwind
  <1> QED BY <1>1, <1>2, <1>3, <1>4, <1>5, <1>6, <1>7, <1>8 DEF Proceed

LEMMA StepInv == PipelineInv /\ [Next]_vars => PipelineInv'
PROOF
  <1> SUFFICES ASSUME PipelineInv, [Next]_vars PROVE PipelineInv'
    OBVIOUS
  <1>1. CASE UNCHANGED vars
    BY <1>1 DEF vars, PipelineInv, TypeOK, LaneHeld, NotYetEntered,
                MutationApproved, Mutating, Tool
  <1>2. CASE Next
    BY <1>2, ExecuteBatchKeeps, ProceedKeeps, CancelKeeps DEF Next
  <1> QED BY <1>1, <1>2

\* The invariant of the executor, for every number of batches, calls and
\* lanes: the types, who holds a lane's lock, and what was entered.
THEOREM PipelineInvariant == Spec => []PipelineInv
PROOF BY InitInv, StepInv, PTL DEF Spec

\* Two mutations of one lane are never inside the executor's critical section
\* together (async with lock in execute), cancelled calls included.
THEOREM LanesExclude == Spec => []LaneExclusion
PROOF
  <1>1. PipelineInv => LaneExclusion
    BY DEF PipelineInv, LaneHeld, LaneExclusion
  <1> QED BY <1>1, PipelineInvariant, PTL

\* The fail-closed gate of _execute_validated: a mutation's handler is entered
\* at most once, and only after a recorded approval of this very call.
THEOREM MutationsApproved == Spec => []MutationApproved
PROOF
  <1>1. PipelineInv => MutationApproved
    BY DEF PipelineInv
  <1> QED BY <1>1, PipelineInvariant, PTL

\* A refusal that the executor gives of its own accord is never given to a call
\* whose handler was entered, also when a hook or the handler raises later; the
\* answers in which external code chose the code are the exception, by name.
THEOREM RefusalsSafe == Spec => []RefusedNotExecuted
PROOF
  <1>1. PipelineInv => RefusedNotExecuted
    BY DEF PipelineInv, NotYetEntered, RefusedNotExecuted
  <1> QED BY <1>1, PipelineInvariant, PTL
(***************************************************************************)
(* The order of a batch with a mutation, and what a cancellation ends.      *)
(***************************************************************************)

\* A call that the executor has taken up, unless it was cancelled since.
Begun == Active \cup (Ended \ {"cancelled"})

\* Every call of a batch exists, and in a batch with a mutation a call is
\* taken up only after those before it have ended.
BatchOrder ==
    \A b \in Batches :
        /\ \A i \in 1 .. Len(batch[b]) : at[b][i] # "absent"
        /\ ContainsMutation(b) =>
            \A i, j \in 1 .. Len(batch[b]) :
                j < i /\ at[b][i] \in Begun => at[b][j] \in Ended

\* A cancelled batch has nothing left but calls on their way out.
Dismissed ==
    \A b \in Batches :
        /\ b \in cancelled =>
            /\ batch[b] # <<>>
            /\ \A i \in Slots : at[b][i] \in Ended \cup {"absent", "unwinding"}
        /\ (\E i \in Slots : at[b][i] = "unwinding") => b \in cancelled

OrderInv == TypeOK /\ BatchOrder /\ Dismissed

\* The invariant bears out what the batch promises.
LEMMA OrderSuffices == OrderInv => MutatingBatchInOrder
PROOF
  <1> SUFFICES ASSUME OrderInv, NEW b \in Batches,
                      NEW i \in 1 .. Len(batch[b]), NEW j \in 1 .. Len(batch[b]),
                      NEW m \in 1 .. Len(batch[b]),
                      Tool(b, m) \in Mutations, at[b][i] \in Active
               PROVE  /\ j < i => at[b][j] \in Ended
                      /\ j > i => at[b][j] \in {"queued", "cancelled"}
    BY DEF MutatingBatchInOrder
  <1>1. ContainsMutation(b)
    BY DEF ContainsMutation
  <1>2. at[b][j] \in Points /\ at[b][j] # "absent"
    <2>1. Len(batch[b]) \in Nat /\ Len(batch[b]) <= MaxLen /\ MaxLen \in Nat
      BY InputsAssumption DEF OrderInv, TypeOK
    <2>2. j \in Slots
      BY <2>1
    <2> QED BY <2>2 DEF OrderInv, TypeOK, BatchOrder
  <1>3. j < i => at[b][j] \in Ended
    BY <1>1 DEF OrderInv, BatchOrder, Begun
  <1>4. ASSUME j > i PROVE at[b][j] \notin Begun
    <2>1. at[b][i] \notin Ended
      BY DEF Active, Inside, Ended, Codes, Refused
    <2> QED BY <1>1, <1>4, <2>1 DEF OrderInv, BatchOrder
  <1> QED BY <1>2, <1>3, <1>4 DEF Points, Begun

\* A call under way, or the next one of its batch, goes on or ends.
LEMMA OrderOfCall ==
    ASSUME OrderInv, TypeOK', NEW b \in Batches, NEW i \in Slots,
           NEW point \in Active \cup Ended,
           at' = [at EXCEPT ![b][i] = point], batch' = batch,
           cancelled' = cancelled,
           \/ at[b][i] \in Active
           \/ /\ at[b][i] = "queued"
              /\ ContainsMutation(b) =>
                    \A j \in 1 .. Len(batch[b]) : j < i => at[b][j] \in Ended,
           b \in cancelled => point \in Ended,
           point # "unwinding"
    PROVE  OrderInv'
PROOF
  <1>1. \A c \in Batches, j \in Slots :
            at'[c][j] = IF c = b /\ j = i THEN point ELSE at[c][j]
    BY DEF OrderInv, TypeOK
  <1>2. \A c \in Batches : /\ Len(batch[c]) \in Nat
                           /\ 1 .. Len(batch[c]) \subseteq Slots
    BY InputsAssumption DEF OrderInv, TypeOK
  <1>3. BatchOrder'
    <2> SUFFICES ASSUME NEW c \in Batches
                 PROVE  /\ \A j \in 1 .. Len(batch[c]) : at'[c][j] # "absent"
                        /\ ContainsMutation(c) =>
                            \A k, j \in 1 .. Len(batch[c]) :
                                j < k /\ at'[c][k] \in Begun => at'[c][j] \in Ended
      BY DEF BatchOrder, ContainsMutation, Tool
    <2>1. \A j \in 1 .. Len(batch[c]) : at'[c][j] # "absent"
      BY <1>1, <1>2 DEF OrderInv, BatchOrder, Active, Inside, Ended, Codes, Refused
    <2>2. ASSUME ContainsMutation(c), NEW k \in 1 .. Len(batch[c]),
                 NEW j \in 1 .. Len(batch[c]), j < k, at'[c][k] \in Begun
          PROVE  at'[c][j] \in Ended
      <3>1. CASE c = b /\ k = i
        BY <1>1, <1>2, <2>2, <3>1 DEF OrderInv, BatchOrder, Begun
      <3>2. CASE ~(c = b /\ k = i)
        <4>1. at[c][k] \in Begun
          BY <1>1, <1>2, <2>2, <3>2
        <4>2. at[c][j] \in Ended
          BY <2>2, <4>1 DEF OrderInv, BatchOrder
        <4>3. ~(c = b /\ j = i)
          BY <4>2 DEF Active, Inside, Ended, Codes, Refused
        <4> QED BY <1>1, <1>2, <4>2, <4>3
      <3> QED BY <3>1, <3>2
    <2> QED BY <2>1, <2>2
  <1>4. Dismissed'
    BY <1>1 DEF OrderInv, Dismissed
  <1> QED BY <1>3, <1>4 DEF OrderInv

\* The semaphore of a batch with a mutation: the next call finds the calls
\* before it ended.
LEMMA TakenUpInTurn ==
    ASSUME OrderInv, NEW b \in Batches, NEW i \in Slots, Begin(b, i),
           ContainsMutation(b), NEW j \in 1 .. Len(batch[b]), j < i
    PROVE  at[b][j] \in Ended
PROOF
  <1> DEFINE under == {k \in Slots : at[b][k] \in Active}
  <1>1. Cardinality(under) < 1
    BY DEF Begin, Concurrency
  <1>2. IsFiniteSet(Slots)
    BY FS_Interval, InputsAssumption
  <1>3. IsFiniteSet(under)
    BY <1>2, FS_Subset
  <1>4. under = {}
    BY <1>1, <1>3, FS_CardinalityType, FS_EmptySet
  <1>5. j \in Slots /\ at[b][j] # "absent" /\ at[b][j] \in Points
    <2>1. Len(batch[b]) \in Nat /\ Len(batch[b]) <= MaxLen /\ MaxLen \in Nat
      BY InputsAssumption DEF OrderInv, TypeOK
    <2>2. j \in Slots
      BY <2>1
    <2> QED BY <2>2 DEF OrderInv, TypeOK, BatchOrder
  <1>6. at[b][j] # "queued"
    <2>1. j \in 1 .. i - 1
      BY <1>5
    <2> QED BY <2>1 DEF Begin
  <1>7. at[b][j] \notin Active
    BY <1>4, <1>5
  <1> QED BY <1>5, <1>6, <1>7 DEF Points
\* Every step of a call keeps the order.
LEMMA ProceedKeepsOrder ==
    ASSUME OrderInv, TypeOK', NEW b \in Batches, NEW i \in Slots, Proceed(b, i)
    PROVE  OrderInv'
PROOF
  <1>c. b \in cancelled => at[b][i] \in Ended \cup {"absent", "unwinding"}
    BY DEF OrderInv, Dismissed
  <1>a. \A p \in Active : p \notin Ended \cup {"absent", "queued"}
    BY DEF Active, Inside, Ended, Codes, Refused
  <1>1. ASSUME NEW point \in Active \cup Ended, point # "unwinding",
               at' = [at EXCEPT ![b][i] = point], batch' = batch,
               cancelled' = cancelled,
               at[b][i] \in Active, at[b][i] = "unwinding" => point \in Ended
        PROVE  OrderInv'
    BY <1>c, <1>a, <1>1, OrderOfCall
  <1>2. CASE Begin(b, i)
    <2>1. at[b][i] = "queued" /\ b \notin cancelled
      BY <1>2, <1>c DEF Begin, Ended, Codes, Refused
    <2>2. PICK point \in Active \cup Ended :
                /\ point # "unwinding" /\ at' = [at EXCEPT ![b][i] = point]
                /\ batch' = batch /\ cancelled' = cancelled
      BY <1>2 DEF Begin, Invalid, End, Move, Active, Inside, Ended, Codes, Refused
    <2>3. ContainsMutation(b) =>
            \A j \in 1 .. Len(batch[b]) : j < i => at[b][j] \in Ended
      BY <1>2, TakenUpInTurn
    <2> QED BY <2>1, <2>2, <2>3, OrderOfCall
  <1> USE DEF Active, Inside, Ended, Codes, Refused
  <1>3. CASE TakeLane(b, i)
    BY <1>1, <1>3 DEF TakeLane
  <1>4. CASE \E verdict \in Verdict : Evaluate(b, i, verdict)
    BY <1>1, <1>4 DEF Evaluate, End, Move
  <1>5. CASE \E matches, approved \in BOOLEAN : Answer(b, i, matches, approved)
    BY <1>1, <1>5 DEF Answer, End, Move
  <1>6. CASE HandlerReturns(b, i) \/ Observe(b, i) \/ Fails(b, i) \/ Unwind(b, i)
    BY <1>1, <1>6, ChosenAssumption
    DEF HandlerReturns, Observe, Fails, Unwind, End, EndAs, Move
  <1> QED BY <1>2, <1>3, <1>4, <1>5, <1>6 DEF Proceed

\* A new batch has taken up nothing; a cancelled one takes up nothing more.
LEMMA BatchKeepsOrder ==
    ASSUME OrderInv, TypeOK', NEW b \in Batches,
           (\E s \in Inputs[b] : ExecuteBatch(b, s)) \/ Cancel(b)
    PROVE  OrderInv'
PROOF
  <1>l. \A c \in Batches : Len(batch[c]) \in Nat /\ 1 .. Len(batch[c]) \subseteq Slots
    BY InputsAssumption DEF OrderInv, TypeOK
  <1>1. ASSUME NEW s \in Inputs[b], ExecuteBatch(b, s)
        PROVE  OrderInv'
    <2>1. /\ batch[b] = <<>> /\ batch' = [batch EXCEPT ![b] = s]
          /\ at' = [at EXCEPT ![b] =
                    [i \in Slots |-> IF i <= Len(s) THEN "queued" ELSE "absent"]]
          /\ cancelled' = cancelled /\ s # <<>>
      BY <1>1 DEF ExecuteBatch
    <2>2. /\ Len(s) \in Nat /\ 1 .. Len(s) \subseteq Slots
      BY InputsAssumption
    <2>3. /\ batch'[b] = s
          /\ \A i \in 1 .. Len(s) : at'[b][i] = "queued"
          /\ \A i \in Slots : at'[b][i] \in {"queued", "absent"}
      <3>1. /\ batch'[b] = s
            /\ at'[b] = [i \in Slots |->
                            IF i <= Len(s) THEN "queued" ELSE "absent"]
        BY <2>1 DEF OrderInv, TypeOK
      <3>2. \A i \in 1 .. Len(s) : i \in Slots /\ i <= Len(s)
        BY <2>2
      <3> QED BY <3>1, <3>2
    <2>4. \A c \in Batches : c # b => batch'[c] = batch[c] /\ at'[c] = at[c]
      BY <2>1 DEF OrderInv, TypeOK
    <2>5. BatchOrder'
      <3> SUFFICES ASSUME NEW c \in Batches
                   PROVE  /\ \A i \in 1 .. Len(batch'[c]) : at'[c][i] # "absent"
                          /\ ContainsMutation(c)' =>
                              \A i, j \in 1 .. Len(batch'[c]) :
                                j < i /\ at'[c][i] \in Begun => at'[c][j] \in Ended
        BY DEF BatchOrder
      <3>1. CASE c = b
        BY <2>3, <3>1 DEF Begun, Active, Inside, Ended, Codes, Refused
      <3>2. CASE c # b
        <4>1. ContainsMutation(c)' = ContainsMutation(c)
          BY <2>4, <3>2 DEF ContainsMutation, Tool
        <4> QED BY <2>4, <3>2, <4>1 DEF OrderInv, BatchOrder
      <3> QED BY <3>1, <3>2
    <2>6. Dismissed'
      BY <2>1, <2>3, <2>4 DEF OrderInv, Dismissed
    <2> QED BY <2>5, <2>6 DEF OrderInv
  <1>2. CASE Cancel(b)
    <2>1. /\ at' = [at EXCEPT ![b] = [i \in Slots |->
                    CASE at[b][i] \in {"queued", "lane"} -> "cancelled"
                      [] at[b][i] \in Inside -> "unwinding"
                      [] OTHER -> at[b][i]]]
          /\ cancelled' = cancelled \cup {b} /\ batch' = batch
          /\ batch[b] # <<>>
      BY <1>2 DEF Cancel
    <2>2. \A c \in Batches, i \in Slots :
            \/ at'[c][i] = at[c][i]
            \/ c = b /\ at[c][i] \in {"queued", "lane"} /\ at'[c][i] = "cancelled"
            \/ c = b /\ at[c][i] \in Inside /\ at'[c][i] = "unwinding"
      BY <2>1 DEF OrderInv, TypeOK
    <2>3. \A i \in Slots : at'[b][i] \in Ended \cup {"absent", "unwinding"}
      BY <2>1 DEF OrderInv, TypeOK, Points, Active, Ended
    <2>4. Dismissed'
      BY <2>1, <2>2, <2>3 DEF OrderInv, Dismissed
    <2>5. BatchOrder'
      <3> SUFFICES ASSUME NEW c \in Batches
                   PROVE  /\ \A i \in 1 .. Len(batch[c]) : at'[c][i] # "absent"
                          /\ ContainsMutation(c) =>
                              \A i, j \in 1 .. Len(batch[c]) :
                                j < i /\ at'[c][i] \in Begun => at'[c][j] \in Ended
        BY <2>1 DEF BatchOrder, ContainsMutation, Tool
      <3>1. \A i \in 1 .. Len(batch[c]) :
                /\ at'[c][i] # "absent"
                /\ at'[c][i] \in Begun => at[c][i] \in Begun
                /\ at[c][i] \in Ended => at'[c][i] \in Ended
        BY <1>l, <2>2
        DEF OrderInv, BatchOrder, Begun, Active, Inside, Ended, Codes, Refused
      <3> QED BY <3>1 DEF OrderInv, BatchOrder
    <2> QED BY <2>4, <2>5 DEF OrderInv
  <1> QED BY <1>1, <1>2

\* The order, too, holds for every number of batches, calls and lanes.
THEOREM OrderInvariant == Spec => []OrderInv
PROOF
  <1>1. Init => OrderInv
    <2> SUFFICES ASSUME Init PROVE OrderInv
      OBVIOUS
    <2>1. TypeOK
      BY InitInv DEF PipelineInv
    <2>2. \A b \in Batches : batch[b] = <<>> /\ Len(batch[b]) = 0
      BY DEF Init
    <2>3. \A b \in Batches, i \in Slots : at[b][i] = "absent"
      BY DEF Init
    <2>4. BatchOrder
      BY <2>2 DEF BatchOrder
    <2>5. Dismissed
      BY <2>3 DEF Init, Dismissed
    <2> QED BY <2>1, <2>4, <2>5 DEF OrderInv
  <1>2. ASSUME OrderInv, PipelineInv', [Next]_vars
        PROVE  OrderInv'
    <2>1. TypeOK'
      BY <1>2 DEF PipelineInv
    <2>2. CASE UNCHANGED vars
      BY <1>2, <2>1, <2>2
      DEF vars, OrderInv, BatchOrder, Dismissed, ContainsMutation, Tool
    <2>3. CASE Next
      BY <1>2, <2>1, <2>3, ProceedKeepsOrder, BatchKeepsOrder DEF Next
    <2> QED BY <1>2, <2>2, <2>3
  <1> QED BY <1>1, <1>2, PipelineInvariant, PTL DEF Spec

\* execute_batch: while a call of a batch with a mutation is under way, those
\* before it have their results and those after it have not begun.
THEOREM MutatingBatchOrdered == Spec => []MutatingBatchInOrder
PROOF BY OrderSuffices, OrderInvariant, PTL

\* After the cancellation of its task a batch enters no handler any more,
\* for ever: Cancel leaves nothing of it that could still begin.
THEOREM CancelledEntersNothing == Spec => NothingAfterCancel
PROOF
  <1>1. ASSUME OrderInv, [Next]_vars
        PROVE  [\A b \in cancelled : entered'[b] = entered[b]]_vars
    <2> SUFFICES ASSUME Next, NEW b \in cancelled
                 PROVE  entered'[b] = entered[b]
      BY <1>1
    <2>1. /\ b \in Batches
          /\ \A i \in Slots : at[b][i] \in Ended \cup {"absent", "unwinding"}
      BY <1>1 DEF OrderInv, TypeOK, Dismissed
    <2>2. ASSUME NEW c \in Batches, NEW i \in Slots, Proceed(c, i)
          PROVE  entered'[b] = entered[b]
      <3>1. CASE entered' = entered
        BY <3>1
      <3>2. CASE entered' # entered
        <4>1. /\ at[c][i] \in {"before", "approval"}
              /\ entered' = [entered EXCEPT ![c][i] = @ + 1]
          BY <2>2, <3>2
          DEF Proceed, Begin, Invalid, TakeLane, Evaluate, Answer,
              HandlerReturns, Observe, Fails, Unwind, Move, End, EndAs
        <4>2. c # b
          BY <2>1, <4>1 DEF Ended, Codes, Refused
        <4> QED BY <1>1, <2>1, <4>1, <4>2 DEF OrderInv, TypeOK
      <3> QED BY <3>1, <3>2
    <2>3. ASSUME NEW c \in Batches,
                 (\E s \in Inputs[c] : ExecuteBatch(c, s)) \/ Cancel(c)
          PROVE  entered' = entered
      BY <2>3 DEF ExecuteBatch, Cancel
    <2> QED BY <2>2, <2>3 DEF Next
  <1> QED BY <1>1, OrderInvariant, PTL DEF Spec, NothingAfterCancel
=============================================================================
