---------------------------- MODULE ToolPipeline ----------------------------
(***************************************************************************)
(* agents/tool_pipeline.py: one RegistryToolExecutor and the calls of       *)
(* execute_batch that run on it at the same time.                           *)
(*                                                                         *)
(* A batch without mutations runs its calls concurrently, at most           *)
(* MaxReadConcurrency at once; a batch with a mutation runs them one after  *)
(* the other.  Across batches, the mutations of one lane are serialised by  *)
(* a lock.  Hooks, policy, approval provider and handlers are external:     *)
(* each may suspend, answer anything the code accepts, or raise, a          *)
(* ToolExecutionFailure with any ToolErrorCode included; and the task that  *)
(* runs a batch may be cancelled wherever it is suspended.                  *)
(***************************************************************************)
EXTENDS Naturals, Sequences, FiniteSets

CONSTANTS
    Batches,              \* concurrent calls of execute_batch
    Reads, Mutations,     \* registered tools, by effect, with their service
    Unknown,              \* names the registry does not resolve
    Lanes, LaneOf,        \* the lane of each mutation (_lane_for)
    Inputs,               \* what each of them may be given
    MaxLen,               \* bound: calls in one batch
    MaxReadConcurrency,   \* max_read_concurrency
    Chosen,               \* bound: the codes that external code may choose
    Nobody                \* holder of a free lane

\* ToolErrorCode: the codes of a refusal, and those of an execution.
Refused == {"unknown", "invalid", "denied", "approval_required",
            "approval_denied"}

Codes == Refused \cup {"failed", "timeout"}

Tools == Reads \cup Mutations \cup Unknown

ASSUME ToolsAssumption ==
    /\ Mutations \cap Reads = {} /\ Mutations \cap Unknown = {}
    /\ LaneOf \in [Mutations -> Lanes]
ASSUME InputsAssumption ==
    /\ MaxLen \in Nat /\ MaxReadConcurrency \in Nat \ {0}
    /\ \A b \in Batches : \A s \in Inputs[b] :
           s \in Seq(Tools) /\ Len(s) <= MaxLen
ASSUME ChosenAssumption == Chosen \subseteq Codes
ASSUME NobodyAssumption == Nobody \notin Batches \X (1 .. MaxLen)

VARIABLES
    provider,   \* is there an approval provider?
    batch,      \* the calls of each batch
    at,         \* where each call is, or how it ended
    holder,     \* the lane locks
    decisions,  \* approval_decisions: the calls whose approval was recorded
    cancelled,  \* batches whose task was cancelled
    entered,    \* history: how often a call's handler was entered
    foreign     \* history: calls answered with a code that external code chose

vars == <<provider, batch, at, holder, decisions, cancelled, entered, foreign>>

Slots == 1 .. MaxLen

\* A call inside execute(), from the lane on; it is suspended at each point.
Inside == {"before", "approval", "handler", "after", "unwinding"}

Active == Inside \cup {"lane"}

\* A code, a result, or an observation that is never made.
Ended == Codes \cup {"ok", "cancelled"}

Init ==
    /\ provider \in BOOLEAN
    /\ batch = [b \in Batches |-> <<>>]
    /\ at = [b \in Batches |-> [i \in Slots |-> "absent"]]
    /\ holder = [l \in Lanes |-> Nobody]
    /\ decisions = {}
    /\ cancelled = {}
    /\ entered = [b \in Batches |-> [i \in Slots |-> 0]]
    /\ foreign = {}

Tool(b, i) == batch[b][i]

\* Release of the lane lock, if the call holds it.
Released(b, i) ==
    [l \in Lanes |-> IF holder[l] = <<b, i>> THEN Nobody ELSE holder[l]]

\* A call moves on inside execute() ...
Move(b, i, point) ==
    /\ at' = [at EXCEPT ![b][i] = point]
    /\ entered' = IF point = "handler"
                  THEN [entered EXCEPT ![b][i] = @ + 1] ELSE entered
    /\ UNCHANGED <<provider, batch, holder, cancelled, foreign>>

\* ... or leaves it with an observation of the executor's own ...
End(b, i, result) ==
    /\ at' = [at EXCEPT ![b][i] = result]
    /\ holder' = Released(b, i)
    /\ UNCHANGED <<provider, batch, cancelled, entered, foreign>>

\* ... or with the error, of any code, that a hook, the policy, the provider
\* or the handler has chosen.
EndAs(b, i, code) ==
    /\ at' = [at EXCEPT ![b][i] = code]
    /\ holder' = Released(b, i)
    /\ foreign' = foreign \cup {<<b, i>>}
    /\ UNCHANGED <<provider, batch, cancelled, entered>>

-----------------------------------------------------------------------------
(* execute_batch                                                           *)

ExecuteBatch(b, s) ==
    /\ batch[b] = <<>> /\ s # <<>>
    /\ batch' = [batch EXCEPT ![b] = s]
    /\ at' = [at EXCEPT ![b] =
                [i \in Slots |-> IF i <= Len(s) THEN "queued" ELSE "absent"]]
    /\ UNCHANGED <<provider, holder, decisions, cancelled, entered, foreign>>

\* Mutant: only a batch that begins with a mutation is serial.
ContainsMutation_First(b) == batch[b] # <<>> /\ Tool(b, 1) \in Mutations

ContainsMutation(b) == \E i \in 1 .. Len(batch[b]) : Tool(b, i) \in Mutations

Concurrency(b) == IF ContainsMutation(b) THEN 1 ELSE MaxReadConcurrency

\* The schema of the tool refuses the arguments; which ones is left open.
Invalid(b, i) == Tool(b, i) \notin Unknown /\ End(b, i, "invalid")

\* The loop, or the semaphore, lets the next call in, in the order of the
\* batch; resolve and _validate come first and never suspend.
Begin(b, i) ==
    /\ at[b][i] = "queued"
    /\ \A j \in 1 .. i - 1 : at[b][j] # "queued"
    /\ Cardinality({j \in Slots : at[b][j] \in Active}) < Concurrency(b)
    /\ UNCHANGED decisions
    /\ \/ Tool(b, i) \in Unknown /\ End(b, i, "unknown")
       \/ Invalid(b, i)
       \/ Tool(b, i) \in Reads /\ Move(b, i, "before")
       \/ Tool(b, i) \in Mutations /\ Move(b, i, "lane")

\* Mutant: a lock of its own for every call.
TakeLane_PerCall(b, i) ==
    /\ at[b][i] = "lane"
    /\ Move(b, i, "before")
    /\ UNCHANGED decisions

\* Mutations of one service share a lane, of one tool where it names none.
LaneFor(b, i) == LaneOf[Tool(b, i)]

\* async with lock
TakeLane(b, i) ==
    /\ at[b][i] = "lane" /\ holder[LaneFor(b, i)] = Nobody
    /\ at' = [at EXCEPT ![b][i] = "before"]
    /\ holder' = [holder EXCEPT ![LaneFor(b, i)] = <<b, i>>]
    /\ UNCHANGED <<provider, batch, decisions, cancelled, entered, foreign>>

-----------------------------------------------------------------------------
(* _execute_validated                                                      *)

NeedsApproval(b, i, verdict) == verdict = "ask" \/ Tool(b, i) \in Mutations

\* before_tool hooks and the policy.
Evaluate(b, i, verdict) ==
    /\ at[b][i] = "before"
    /\ UNCHANGED decisions
    /\ \/ verdict = "deny" /\ End(b, i, "denied")
       \/ /\ verdict # "deny" /\ NeedsApproval(b, i, verdict)
          /\ IF provider THEN Move(b, i, "approval")
                         ELSE End(b, i, "approval_required")
       \/ /\ verdict # "deny" /\ ~NeedsApproval(b, i, verdict)
          /\ Move(b, i, "handler")

\* Mutant: a decision on another request is taken for this one.
Answer_AnyRequest(b, i, matches, approved) ==
    /\ at[b][i] = "approval"
    /\ decisions' = IF matches /\ approved
                    THEN decisions \cup {<<b, i>>} ELSE decisions
    /\ IF approved THEN Move(b, i, "handler")
                   ELSE End(b, i, "approval_denied")

\* The approval provider answers; an answer to another request raises.
Answer(b, i, matches, approved) ==
    /\ at[b][i] = "approval"
    /\ decisions' = IF matches /\ approved
                    THEN decisions \cup {<<b, i>>} ELSE decisions
    /\ \/ ~matches /\ End(b, i, "failed")
       \/ matches /\ ~approved /\ End(b, i, "approval_denied")
       \/ matches /\ approved /\ Move(b, i, "handler")

\* A result, or an error observation of the handler's own; the after_tool
\* hooks see which, the executor passes either on.
HandlerReturns(b, i) ==
    /\ at[b][i] = "handler"
    /\ Move(b, i, "after")
    /\ UNCHANGED decisions

\* The after_tool hooks have run.
Observe(b, i) ==
    /\ at[b][i] = "after"
    /\ End(b, i, "ok") \/ \E code \in Chosen : EndAs(b, i, code)
    /\ UNCHANGED decisions

\* Mutant: whatever else is raised is reported as a denial by the policy.
Fails_AsDenied(b, i) ==
    /\ at[b][i] \in Inside \ {"unwinding"}
    /\ End(b, i, "denied")
    /\ UNCHANGED decisions

\* A hook, the policy, the provider or the handler raises: its own code if it
\* is a ToolExecutionFailure, execution_failed otherwise; a mutation that has
\* run is reported so too when only its after_tool hook raises.
Fails(b, i) ==
    /\ at[b][i] \in Inside \ {"unwinding"}
    /\ End(b, i, "failed") \/ \E code \in Chosen : EndAs(b, i, code)
    /\ UNCHANGED decisions

-----------------------------------------------------------------------------
(* Cancellation of the task that awaits the batch                           *)

\* Mutant: the calls that have not begun are left in the queue.
Cancel_CurrentOnly(b) ==
    /\ batch[b] # <<>> /\ b \notin cancelled
    /\ \E i \in Slots : at[b][i] \in Active
    /\ cancelled' = cancelled \cup {b}
    /\ at' = [at EXCEPT ![b] = [i \in Slots |->
                CASE at[b][i] = "lane" -> "cancelled"
                  [] at[b][i] \in Inside -> "unwinding"
                  [] OTHER -> at[b][i]]]
    /\ UNCHANGED <<provider, batch, holder, decisions, entered, foreign>>

\* What has not begun never will; what is suspended gets a CancelledError,
\* which no except clause of the pipeline catches, and still has to unwind.
Cancel(b) ==
    /\ batch[b] # <<>> /\ b \notin cancelled
    /\ \E i \in Slots : at[b][i] \in Active
    /\ cancelled' = cancelled \cup {b}
    /\ at' = [at EXCEPT ![b] = [i \in Slots |->
                CASE at[b][i] \in {"queued", "lane"} -> "cancelled"
                  [] at[b][i] \in Inside -> "unwinding"
                  [] OTHER -> at[b][i]]]
    /\ UNCHANGED <<provider, batch, holder, decisions, entered, foreign>>

\* Mutant: the lock is not released on the way out.
Unwind_KeepsLane(b, i) ==
    /\ at[b][i] = "unwinding"
    /\ Move(b, i, "cancelled")
    /\ UNCHANGED decisions

Unwind(b, i) ==
    /\ at[b][i] = "unwinding"
    /\ End(b, i, "cancelled")
    /\ UNCHANGED decisions

-----------------------------------------------------------------------------

Verdict == {"allow", "ask", "deny"}

\* A call of a batch goes on.
Proceed(b, i) ==
    \/ Begin(b, i)
    \/ TakeLane(b, i)
    \/ \E verdict \in Verdict : Evaluate(b, i, verdict)
    \/ \E matches, approved \in BOOLEAN : Answer(b, i, matches, approved)
    \/ HandlerReturns(b, i)
    \/ Observe(b, i)
    \/ Fails(b, i)
    \/ Unwind(b, i)

Next ==
    \E b \in Batches :
        \/ \E s \in Inputs[b] : ExecuteBatch(b, s)
        \/ \E i \in Slots : Proceed(b, i)
        \/ Cancel(b)

Spec == Init /\ [][Next]_vars

\* Whatever is suspended is resumed: hooks, policies, providers and handlers
\* answer, raise or are cancelled by the timeout of the run that awaits them.
FairSpec == Spec /\ \A b \in Batches, i \in Slots : WF_vars(Proceed(b, i))

-----------------------------------------------------------------------------
(* Properties.                                                             *)

Points == {"absent", "queued"} \cup Active \cup Ended

\* Every variable has the type its declaration describes.
TypeOK ==
    /\ provider \in BOOLEAN
    /\ batch \in [Batches -> Seq(Tools)]
    /\ \A b \in Batches : Len(batch[b]) <= MaxLen
    /\ at \in [Batches -> [Slots -> Points]]
    /\ \A b \in Batches, i \in Slots : at[b][i] # "absent" => i <= Len(batch[b])
    /\ holder \in [Lanes -> (Batches \X Slots) \cup {Nobody}]
    /\ decisions \subseteq Batches \X Slots
    /\ cancelled \subseteq Batches
    /\ entered \in [Batches -> [Slots -> Nat]]
    /\ foreign \subseteq Batches \X Slots

\* A call that mutates and is in its handler, or still on its way out of it.
Mutating(b, i) == at[b][i] \in Inside /\ Tool(b, i) \in Mutations

\* test_same_service_mutations_never_overlap_in_named_lane, for any number of
\* batches, with failures and cancellations: whoever is inside a lane is
\* there alone, until it has unwound.
LaneExclusion ==
    \A b, c \in Batches : \A i, j \in Slots :
        /\ Mutating(b, i) /\ Mutating(c, j)
        /\ LaneOf[Tool(b, i)] = LaneOf[Tool(c, j)]
        => <<b, i>> = <<c, j>>

\* test_batch_with_any_mutation_runs_entire_batch_in_original_order: while a
\* call of such a batch is under way, those before it have their results and
\* those after it have not begun, reads too.
MutatingBatchInOrder ==
    \A b \in Batches : \A i, j, m \in 1 .. Len(batch[b]) :
        Tool(b, m) \in Mutations /\ at[b][i] \in Active =>
            /\ j < i => at[b][j] \in Ended
            /\ j > i => at[b][j] \in {"queued", "cancelled"}

\* test_mutation_executes_only_after_matching_approval: a mutation's handler
\* is entered at most once per call, and only after the executor recorded an
\* approval of this very call.
MutationApproved ==
    \A b \in Batches : \A i \in Slots :
        entered[b][i] > 0 /\ Tool(b, i) \in Mutations
            => entered[b][i] = 1 /\ <<b, i>> \in decisions

\* The argument for the two: who is inside a lane holds its lock, and no
\* handler has been entered before the point "handler".
LaneHeld ==
    \A b \in Batches : \A i \in Slots :
        Mutating(b, i) => holder[LaneOf[Tool(b, i)]] = <<b, i>>

NotYetEntered ==
    \A b \in Batches : \A i \in Slots :
        \/ at[b][i] \in {"absent", "queued", "lane", "before", "approval"}
        \/ at[b][i] \in Refused /\ <<b, i>> \notin foreign
        => entered[b][i] = 0

PipelineInv == TypeOK /\ LaneHeld /\ NotYetEntered /\ MutationApproved

\* What the executor itself refuses has not been executed, whatever failed in
\* between: its catch-all never turns a failure after the handler's entry into
\* a refusal.  The codes are not reserved to it: a handler or a hook may choose
\* one of them after the entry (ToolExecutionFailure), and such an answer says
\* nothing; the runtime takes every failed mutation for uncertain.
RefusedNotExecuted ==
    \A b \in Batches : \A i \in Slots :
        at[b][i] \in Refused /\ <<b, i>> \notin foreign => entered[b][i] = 0

\* Once its task is cancelled a batch enters no handler any more: neither the
\* call that was under way, nor one that waited for a lane or for its turn,
\* and not after the last of them has unwound either.
NothingAfterCancel ==
    [][\A b \in cancelled : entered'[b] = entered[b]]_vars

\* Every batch ends: no failure and no cancellation leaves a lane locked.
BatchEnds ==
    \A b \in Batches : batch[b] # <<>> ~>
        \A i \in 1 .. Len(batch[b]) : at[b][i] \in Ended
=============================================================================
