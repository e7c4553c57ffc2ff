--------------------------- MODULE ContextBudget ----------------------------
(***************************************************************************)
(* context/context_engine.py: which messages of a run the model is sent.    *)
(* EventContextProjector pins what must never be dropped; when the whole    *)
(* context is over the budget, ContextBudgetPolicy.apply keeps the pinned   *)
(* groups and adds the others newest first, a model's tool calls and their  *)
(* results being one group.                                                 *)
(*                                                                         *)
(* A message is its kind (the event it comes from), its estimated tokens,   *)
(* the ids it calls (an assistant's message), the id it answers and what a  *)
(* tool result says (its name and content).                                 *)
(***************************************************************************)
EXTENDS Naturals, Sequences, FiniteSets, FiniteSetsExt

CONSTANTS
    Snapshots,   \* contexts: sequences of messages
    Budgets,     \* token budgets
    Overhead     \* conversation_overhead

Kinds == {"operator", "inbox", "injected", "alert", "goal", "evidence",
          "assistant", "tool"}

ASSUME BudgetAssumption == Overhead \in Nat \ {0} /\ Budgets \subseteq Nat \ {0}
ASSUME SnapshotAssumption ==
    \A ms \in Snapshots :
        /\ Len(ms) \in Nat /\ DOMAIN ms = 1 .. Len(ms)
        /\ \A k \in DOMAIN ms :
            /\ ms[k].kind \in Kinds /\ ms[k].cost \in Nat \ {0}
            /\ ms[k].calls # {} => ms[k].kind = "assistant"

VARIABLES
    messages, budget,  \* the arguments of apply
    at,                \* control point
    selected,          \* groups chosen so far, by their first message
    left,              \* groups the loop has still to consider
    seen,              \* seen_tool_results
    outcome,           \* how apply ended
    result             \* indexes of the messages it returns

vars == <<messages, budget, at, selected, left, seen, outcome, result>>

-----------------------------------------------------------------------------
(* EventContextProjector._select_pins                                      *)

Latest(kinds) ==
    LET of == {k \in DOMAIN messages : messages[k].kind \in kinds}
    IN  {k \in of : \A j \in of : j <= k}

Pinned ==
    {k \in DOMAIN messages : messages[k].kind = "evidence"}
        \cup Latest({"alert"}) \cup Latest({"goal"})
        \cup Latest({"operator", "inbox"})

-----------------------------------------------------------------------------
(* ContextBudgetPolicy._group_messages and its estimates                   *)

IsTool(k) == messages[k].kind = "tool"

\* A group is named by the message it begins with.
Groups == {k \in DOMAIN messages : ~IsTool(k)}

Indexes(g) ==
    {k \in g .. Len(messages) : \A j \in g + 1 .. k : IsTool(j)}

\* A result that does not follow the message that calls for it.
Orphan ==
    \E k \in DOMAIN messages : IsTool(k) /\
        ~\E g \in Groups :
            k \in Indexes(g)
                /\ \A j \in g + 1 .. k : messages[j].id \in messages[g].calls

Complete(g) == {messages[k].id : k \in Indexes(g) \ {g}} = messages[g].calls

Signature(g) ==
    [n \in 1 .. Cardinality(Indexes(g)) - 1 |-> messages[g + n].content]

\* What the message at k adds to the estimate of a selection.
Share(indexes, k) == IF k \in indexes THEN messages[k].cost ELSE 0

Estimate(indexes) ==
    LET sum[k \in 0 .. Len(messages)] ==
            IF k = 0 THEN Overhead ELSE sum[k - 1] + Share(indexes, k)
    IN  sum[Len(messages)]

Selection(groups) == UNION {Indexes(g) : g \in groups}

Mandatory == {g \in Groups : Indexes(g) \cap Pinned # {}}

-----------------------------------------------------------------------------
(* ContextBudgetPolicy.apply                                               *)

Init ==
    /\ messages \in Snapshots /\ budget \in Budgets
    /\ at = "start"
    /\ selected = {} /\ left = {} /\ seen = {}
    /\ outcome = "none" /\ result = {}

Ends(how, indexes) ==
    /\ at' = "end" /\ outcome' = how /\ result' = indexes
    /\ UNCHANGED <<messages, budget, selected, left, seen>>

Fits(indexes) == Estimate(indexes) <= budget

Whole == at = "start" /\ Fits(DOMAIN messages) /\ Ends("whole", DOMAIN messages)

Refuse ==
    /\ at = "start" /\ ~Fits(DOMAIN messages) /\ Orphan
    /\ Ends("orphan_error", {})

Overflow ==
    /\ at = "start" /\ ~Fits(DOMAIN messages) /\ ~Orphan
    /\ ~Fits(Selection(Mandatory))
    /\ Ends(IF Mandatory = {} THEN "budget_error" ELSE "pinned_error", {})

\* Mutant: the loop starts from nothing.
Require_Nothing ==
    /\ at = "start" /\ ~Fits(DOMAIN messages) /\ ~Orphan
    /\ Fits(Selection(Mandatory))
    /\ at' = "select"
    /\ selected' = {} /\ seen' = {} /\ left' = Groups
    /\ UNCHANGED <<messages, budget, outcome, result>>

Require ==
    /\ at = "start" /\ ~Fits(DOMAIN messages) /\ ~Orphan
    /\ Fits(Selection(Mandatory))
    /\ at' = "select"
    /\ selected' = Mandatory
    /\ seen' = {Signature(g) : g \in Mandatory} \ {<<>>}
    /\ left' = Groups
    /\ UNCHANGED <<messages, budget, outcome, result>>

\* Mutant: a group whose results are not all there may be chosen.
Eligible_Incomplete(g) ==
    /\ g \notin selected /\ Signature(g) \notin seen
    /\ Fits(Selection(selected \cup {g}))

Eligible(g) ==
    /\ g \notin selected /\ Complete(g) /\ Signature(g) \notin seen
    /\ Fits(Selection(selected \cup {g}))

\* Mutant: oldest first.
Consider_OldestFirst ==
    /\ at = "select" /\ left # {}
    /\ LET g == Min(left)
       IN  /\ left' = left \ {g}
           /\ selected' = IF Eligible(g) THEN selected \cup {g} ELSE selected
           /\ seen' = IF Eligible(g) THEN (seen \cup {Signature(g)}) \ {<<>>}
                                     ELSE seen
    /\ UNCHANGED <<messages, budget, at, outcome, result>>

\* One turn of the loop over reversed(groups).
Consider ==
    /\ at = "select" /\ left # {}
    /\ LET g == Max(left)
       IN  /\ left' = left \ {g}
           /\ selected' = IF Eligible(g) THEN selected \cup {g} ELSE selected
           /\ seen' = IF Eligible(g) THEN (seen \cup {Signature(g)}) \ {<<>>}
                                     ELSE seen
    /\ UNCHANGED <<messages, budget, at, outcome, result>>

Return ==
    /\ at = "select" /\ left = {}
    /\ Ends("trimmed", Selection(selected))

Next == Whole \/ Refuse \/ Overflow \/ Require \/ Consider \/ Return

Spec == Init /\ [][Next]_vars

-----------------------------------------------------------------------------
(* Properties.                                                             *)

Sent == outcome \in {"whole", "trimmed"}

\* test_alert_goal_latest_operator_and_evidence_are_pinned: what is sent holds
\* all evidence, and the latest of each other kind that is pinned.  A budget
\* that is too small for them is an error, never a silent omission.
PinsSent ==
    Sent => \A k \in DOMAIN messages \ result :
        /\ messages[k].kind # "evidence"
        /\ \A kinds \in {{"alert"}, {"goal"}, {"operator", "inbox"}} :
               messages[k].kind \in kinds =>
                   \E j \in result : j > k /\ messages[j].kind \in kinds

\* test_tighter_budget_drops_entire_tool_pair_without_orphan_result, in both
\* directions: in a trimmed context every result follows the message that
\* called for it, and every call has its result.
PairsWhole ==
    outcome = "trimmed" =>
        /\ \A k \in result : IsTool(k) =>
               \E g \in result : g < k /\ messages[k].id \in messages[g].calls
                                 /\ \A j \in g + 1 .. k : j \in result
        /\ \A g \in result : \A id \in messages[g].calls :
               \E k \in result : k > g /\ messages[k].id = id

\* What apply promises, as one definition: among the selections that hold the
\* mandatory groups, whole and unrepeated groups otherwise, within the budget,
\* it returns the one that prefers newer groups, whatever older ones it costs.
Admissible(groups) ==
    /\ Mandatory \subseteq groups
    /\ \A g \in groups \ Mandatory :
           /\ Complete(g)
           /\ \A h \in groups \ {g} :
                  Signature(h) = Signature(g) => Signature(g) = <<>>
    /\ Estimate(Selection(groups)) <= budget

Newer(S, T) == \E g \in S \ T : \A h \in T \ S : h < g

NewestFirst ==
    outcome = "trimmed" =>
        /\ Admissible(selected)
        /\ \A S \in SUBSET Groups : Admissible(S) => ~Newer(S, selected)
=============================================================================
