------------------------- MODULE ContextBudgetProofs -------------------------
(***************************************************************************)
(* What ContextBudgetPolicy.apply may drop, for every context, every token  *)
(* budget and every estimate of a message's cost: never the latest of what  *)
(* is pinned, and never a half of a tool call and its results.              *)
(***************************************************************************)
EXTENDS ContextBudget, WellFoundedInduction, TLAPS

(***************************************************************************)
(* Numbers.                                                                *)
(***************************************************************************)

\* What holds of 0, and of a number after all that are less, holds of all.
LEMMA LeastNatural ==
    ASSUME NEW T, T \subseteq Nat, T # {}
    PROVE  \E m \in T : \A n \in T : m <= n
  <1>1. PICK m \in T : \A n \in T : ~ (<<n, m>> \in OpToRel(<, Nat))
    BY WFMin, NatLessThanWellFounded
  <1>2. \A n \in T : ~ (n < m)
    BY <1>1 DEF OpToRel
  <1> QED
    BY <1>2

LEMMA GreatestNatural ==
    ASSUME NEW T, NEW b \in Nat, T \subseteq 0 .. b, T # {}
    PROVE  \E m \in T : \A n \in T : n <= m
  <1> DEFINE U == {u \in Nat : b - u \in T}
  <1>1. U # {}
    <2>1. PICK n \in T : TRUE
      OBVIOUS
    <2>2. b - n \in U
      BY <2>1
    <2> QED
      BY <2>2
  <1>2. PICK u \in U : \A v \in U : u <= v
    BY <1>1, LeastNatural
  <1>3. ASSUME NEW n \in T
        PROVE  n <= b - u
    <2>1. b - n \in U
      OBVIOUS
    <2>2. u <= b - n
      BY <1>2, <2>1
    <2> QED
      BY <2>2
  <1> QED
    BY <1>3

(***************************************************************************)
(* The estimate.                                                           *)
(***************************************************************************)

\* The parameters of a call of apply.
Given == messages \in Snapshots /\ budget \in Budgets

\* The estimate of the first messages of a selection, one by one.
Sums(indexes, sum, n) ==
    sum = [k \in 0 .. n |->
              IF k = 0 THEN Overhead ELSE sum[k - 1] + Share(indexes, k)]

LEMMA ShareType ==
    ASSUME Given, NEW indexes, NEW k \in 1 .. Len(messages)
    PROVE  Share(indexes, k) \in Nat
BY SnapshotAssumption DEF Given, Share

\* There is such a sum.
LEMMA SumExists ==
    ASSUME Given, NEW indexes
    PROVE  \A n \in 0 .. Len(messages) : \E sum : Sums(indexes, sum, n)
  <1> DEFINE T == {n \in 0 .. Len(messages) : ~ \E sum : Sums(indexes, sum, n)}
  <1>1. Len(messages) \in Nat
    BY SnapshotAssumption DEF Given
  <1>2. ASSUME T # {}
        PROVE  FALSE
    <2>0. T \subseteq Nat
      BY <1>1
    <2>1. PICK m \in T : \A n \in T : m <= n
      <3> HIDE DEF T
      <3> QED
        BY <1>2, <2>0, LeastNatural
    <2>2. CASE m = 0
      <3>1. Sums(indexes, [k \in 0 .. 0 |-> Overhead], 0)
        BY DEF Sums
      <3> QED
        BY <2>2, <3>1
    <2>3. CASE m # 0
      <3>1. m - 1 \in 0 .. Len(messages) /\ ~ (m <= m - 1) /\ m \in Nat
        BY <1>1, <2>1, <2>3
      <3>2. PICK old : Sums(indexes, old, m - 1)
        BY <2>1, <3>1
      <3> DEFINE sum == [k \in 0 .. m |-> IF k = m THEN old[m - 1] + Share(indexes, m)
                                                  ELSE old[k]]
      <3>3. \A k \in 0 .. m : k # m => k \in 0 .. m - 1
        BY <3>1
      <3>4. \A k \in 0 .. m - 1 :
                old[k] = IF k = 0 THEN Overhead ELSE old[k - 1] + Share(indexes, k)
        BY <3>2 DEF Sums
      <3>5. \A k \in 0 .. m - 1 : k \in 0 .. m /\ k # m
        BY <3>1
      <3>6. \A k \in 0 .. m - 1 : sum[k] = old[k]
        BY <3>5
      <3>7. \A k \in 0 .. m : k # 0 => k - 1 \in 0 .. m - 1
        BY <3>1
      <3>8. \A k \in 0 .. m :
                sum[k] = IF k = 0 THEN Overhead ELSE sum[k - 1] + Share(indexes, k)
        <4> SUFFICES ASSUME NEW k \in 0 .. m
                     PROVE  sum[k] = IF k = 0 THEN Overhead
                                     ELSE sum[k - 1] + Share(indexes, k)
          OBVIOUS
        <4>1. CASE k = m
          <5>1. sum[k] = old[m - 1] + Share(indexes, m)
            BY <4>1
          <5>2. sum[m - 1] = old[m - 1]
            BY <2>3, <3>1, <3>6, <3>7
          <5> QED
            BY <2>3, <4>1, <5>1, <5>2
        <4>2. CASE k # m
          <5>1. k \in 0 .. m - 1
            BY <3>3, <4>2
          <5>2. k # 0 => sum[k - 1] = old[k - 1]
            BY <3>6, <3>7
          <5> QED
            BY <3>4, <3>6, <5>1, <5>2
        <4> QED
          BY <4>1, <4>2
      <3>9. Sums(indexes, sum, m)
        <4>1. sum = [k \in 0 .. m |-> sum[k]]
          OBVIOUS
        <4> HIDE DEF sum
        <4> QED
          BY <3>8, <4>1 DEF Sums
      <3> QED
        BY <3>9
    <2> QED
      BY <2>2, <2>3
  <1> QED
    BY <1>2

\* The estimate is the last of the sums.
LEMMA EstimateIsSum ==
    ASSUME Given, NEW indexes
    PROVE  \E sum : /\ Sums(indexes, sum, Len(messages))
                    /\ Estimate(indexes) = sum[Len(messages)]
  <1> DEFINE chosen == CHOOSE sum : Sums(indexes, sum, Len(messages))
  <1>1. Len(messages) \in 0 .. Len(messages)
    BY SnapshotAssumption DEF Given
  <1>2. \E sum : Sums(indexes, sum, Len(messages))
    BY <1>1, SumExists
  <1>3. Sums(indexes, chosen, Len(messages))
    BY <1>2
  <1>4. Estimate(indexes) = chosen[Len(messages)]
    BY DEF Estimate, Sums
  <1> QED
    BY <1>3, <1>4

\* A selection that holds more is estimated at least as high.
LEMMA EstimateMonotone ==
    ASSUME Given, NEW A, NEW B, A \subseteq B
    PROVE  /\ Estimate(A) \in Nat /\ Estimate(B) \in Nat
           /\ Estimate(A) <= Estimate(B)
  <1>1. PICK a : Sums(A, a, Len(messages)) /\ Estimate(A) = a[Len(messages)]
    BY EstimateIsSum
  <1>2. PICK b : Sums(B, b, Len(messages)) /\ Estimate(B) = b[Len(messages)]
    BY EstimateIsSum
  <1>3. Len(messages) \in Nat
    BY SnapshotAssumption DEF Given
  <1> DEFINE T == {n \in 0 .. Len(messages) :
                      ~ (a[n] \in Nat /\ b[n] \in Nat /\ a[n] <= b[n])}
  <1>4. ASSUME T # {}
        PROVE  FALSE
    <2>0. T \subseteq Nat
      BY <1>3
    <2>1. PICK m \in T : \A n \in T : m <= n
      <3> HIDE DEF T
      <3> QED
        BY <1>4, <2>0, LeastNatural
    <2>2. CASE m = 0
      <3>1. a[0] = Overhead /\ b[0] = Overhead
        BY <1>1, <1>2, <1>3 DEF Sums
      <3> QED
        BY <2>2, <3>1, BudgetAssumption
    <2>3. CASE m # 0
      <3>1. /\ m - 1 \in 0 .. Len(messages) /\ ~ (m <= m - 1)
            /\ m \in 1 .. Len(messages)
        BY <1>3, <2>1, <2>3
      <3>2. a[m - 1] \in Nat /\ b[m - 1] \in Nat /\ a[m - 1] <= b[m - 1]
        BY <2>1, <3>1
      <3>3. /\ a[m] = a[m - 1] + Share(A, m)
            /\ b[m] = b[m - 1] + Share(B, m)
        BY <1>1, <1>2, <2>1, <2>3 DEF Sums
      <3>4. /\ Share(A, m) \in Nat /\ Share(B, m) \in Nat
            /\ Share(A, m) <= Share(B, m)
        <4>1. Share(A, m) \in Nat /\ Share(B, m) \in Nat
          BY <3>1, ShareType
        <4>2. m \in A => Share(A, m) = Share(B, m)
          BY DEF Share
        <4>3. m \notin A => Share(A, m) = 0
          BY DEF Share
        <4> QED
          BY <4>1, <4>2, <4>3
      <3> QED
        BY <2>1, <3>2, <3>3, <3>4
    <2> QED
      BY <2>2, <2>3
  <1>5. Len(messages) \notin T
    BY <1>4
  <1> QED
    BY <1>1, <1>2, <1>3, <1>5

(***************************************************************************)
(* Groups.                                                                 *)
(***************************************************************************)

LEMMA MessagesAre ==
    ASSUME Given
    PROVE  /\ Len(messages) \in Nat /\ DOMAIN messages = 1 .. Len(messages)
           /\ \A k \in DOMAIN messages :
                messages[k].calls # {} => messages[k].kind = "assistant"
BY SnapshotAssumption DEF Given

\* A group holds its first message, and only tool results besides.
LEMMA GroupHolds ==
    ASSUME Given, NEW g \in Groups
    PROVE  /\ g \in Indexes(g)
           /\ \A k \in Indexes(g) : k # g => IsTool(k) /\ g < k
           /\ Indexes(g) \subseteq DOMAIN messages
  <1>1. /\ Len(messages) \in Nat /\ DOMAIN messages = 1 .. Len(messages)
        /\ g \in 1 .. Len(messages)
    BY MessagesAre DEF Groups
  <1>2. g \in Indexes(g)
    BY <1>1 DEF Indexes
  <1>3. ASSUME NEW k \in Indexes(g)
        PROVE  /\ k \in DOMAIN messages
               /\ k # g => IsTool(k) /\ g < k
    BY <1>1 DEF Indexes
  <1> QED
    BY <1>2, <1>3

\* No message is in two groups.
LEMMA GroupsDisjoint ==
    ASSUME Given, NEW g \in Groups, NEW h \in Groups,
           NEW k \in Indexes(g), k \in Indexes(h)
    PROVE  g = h
  <1>1. /\ Len(messages) \in Nat /\ DOMAIN messages = 1 .. Len(messages)
        /\ g \in 1 .. Len(messages) /\ h \in 1 .. Len(messages)
        /\ ~IsTool(g) /\ ~IsTool(h)
    BY MessagesAre DEF Groups
  <1>2. /\ k \in Nat /\ g <= k /\ h <= k
        /\ \A j \in g + 1 .. k : IsTool(j)
        /\ \A j \in h + 1 .. k : IsTool(j)
    BY <1>1 DEF Indexes
  <1>3. ~ (g < h)
    BY <1>1, <1>2
  <1>4. ~ (h < g)
    BY <1>1, <1>2
  <1> QED
    BY <1>1, <1>3, <1>4

\* What is pinned begins a group that must be sent, and calls no tool.
LEMMA PinnedGroups ==
    ASSUME Given
    PROVE  /\ Pinned \subseteq Mandatory
           /\ \A g \in Mandatory : g \in Pinned
           /\ \A g \in Mandatory : messages[g].calls = {}
  <1>1. \A k \in Pinned : /\ k \in DOMAIN messages
                          /\ messages[k].kind \notin {"tool", "assistant"}
    BY DEF Pinned, Latest
  <1>2. Pinned \subseteq Groups
    BY <1>1 DEF Groups, IsTool
  <1>3. Pinned \subseteq Mandatory
    BY <1>2, GroupHolds DEF Mandatory
  <1>4. ASSUME NEW g \in Mandatory
        PROVE  g \in Pinned
    <2>1. PICK k \in Indexes(g) : k \in Pinned
      BY DEF Mandatory
    <2>2. g \in Groups /\ ~IsTool(k)
      BY <1>2, <2>1 DEF Mandatory, Groups
    <2>3. k = g
      BY <2>1, <2>2, GroupHolds
    <2> QED
      BY <2>1, <2>3
  <1>5. \A g \in Mandatory : messages[g].calls = {}
    BY <1>1, <1>4, MessagesAre
  <1> QED
    BY <1>3, <1>4, <1>5

\* Of every kind that has messages there is a latest one.
LEMMA LatestExists ==
    ASSUME Given, NEW kinds, NEW k \in DOMAIN messages, messages[k].kind \in kinds
    PROVE  \E j \in Latest(kinds) : k <= j /\ messages[j].kind \in kinds
  <1> DEFINE of == {j \in DOMAIN messages : messages[j].kind \in kinds}
  <1>1. of \subseteq 0 .. Len(messages) /\ of # {} /\ Len(messages) \in Nat
    BY MessagesAre
  <1>2. PICK j \in of : \A i \in of : i <= j
    <2> HIDE DEF of
    <2> QED
      BY <1>1, GreatestNatural
  <1> QED
    BY <1>2 DEF Latest

(***************************************************************************)
(* The loop.                                                               *)
(***************************************************************************)

\* What was selected when g was considered.
Before(g) == Mandatory \cup {h \in selected : h > g}

\* g did not fit in, and cannot.
Rejected(g) ==
    \/ ~Complete(g)
    \/ Signature(g) # <<>> /\ \E h \in Before(g) : Signature(h) = Signature(g)
    \/ ~Fits(Selection(Before(g) \cup {g}))

\* The groups are considered from the newest on, and every one that is left
\* out was rejected.
Chosen ==
    /\ ~Orphan
    /\ left \subseteq Groups /\ selected \subseteq Groups
    /\ Mandatory \subseteq selected
    /\ \A g \in left : \A h \in Groups \ left : g < h
    /\ selected \ Mandatory \subseteq Groups \ left
    /\ seen = {Signature(g) : g \in selected} \ {<<>>}
    /\ Fits(Selection(selected))
    /\ \A g \in selected \ Mandatory :
        /\ Complete(g)
        /\ \A h \in selected \ {g} :
                Signature(h) = Signature(g) => Signature(g) = <<>>
    /\ \A g \in Groups \ (left \cup selected) : Rejected(g)

BudgetInv ==
    /\ Given
    /\ at \in {"start", "select"} => outcome = "none"
    /\ at \in {"start", "select", "end"}
    /\ at = "select" => Chosen
    /\ outcome = "whole" => result = DOMAIN messages
    /\ outcome = "trimmed" =>
            Chosen /\ left = {} /\ result = Selection(selected)

LEMMA BudgetInit == Init => BudgetInv
BY DEF Init, BudgetInv, Given

\* The newest of the groups that are left.
LEMMA NewestLeft ==
    ASSUME Given, left \subseteq Groups, left # {}
    PROVE  Max(left) \in left /\ \A g \in left : g <= Max(left)
  <1>1. left \subseteq 0 .. Len(messages) /\ Len(messages) \in Nat
    BY MessagesAre DEF Groups
  <1>2. \E m \in left : \A g \in left : g <= m
    BY <1>1, GreatestNatural
  <1>3. \E m \in left : \A g \in left : m >= g
    BY <1>1, <1>2
  <1>4. Max(left) \in left /\ \A g \in left : Max(left) >= g
    BY <1>3 DEF Max
  <1> QED
    BY <1>1, <1>4

\* One turn of the loop.
LEMMA ConsiderChooses ==
    ASSUME Given, Chosen, Consider
    PROVE  Chosen'
  <1>1. PICK g \in left : g = Max(left) /\ \A h \in left : h <= g
    BY NewestLeft DEF Chosen, Consider
  <1>2. Groups \subseteq Nat
    BY MessagesAre DEF Groups
  <1>3. /\ left' = left \ {g}
        /\ selected' = IF Eligible(g) THEN selected \cup {g} ELSE selected
        /\ seen' = IF Eligible(g) THEN (seen \cup {Signature(g)}) \ {<<>>} ELSE seen
        /\ UNCHANGED <<messages, budget>>
    BY <1>1 DEF Consider
  <1>4. /\ Groups' = Groups /\ Mandatory' = Mandatory /\ Orphan' = Orphan
        /\ \A h : Signature(h)' = Signature(h)
        /\ \A h : Complete(h)' = Complete(h)
        /\ \A S : Fits(Selection(S))' = Fits(Selection(S))
    BY <1>3 DEF Groups, Mandatory, Orphan, Signature, Complete, Fits, Selection,
                Estimate, Share, Indexes, IsTool, Pinned, Latest
  <1>5. \A h \in left' : h < g
    BY <1>1, <1>2, <1>3 DEF Chosen
  <1>6. \A h \in left' : \A i \in Groups' \ left' : h < i
    BY <1>1, <1>3, <1>4, <1>5 DEF Chosen
  <1>7. ASSUME NEW h \in Groups \ left
        PROVE  Before(h)' = Before(h)
    <2>1. g < h
      BY <1>1 DEF Chosen
    <2>2. g \in Nat /\ h \in Nat
      BY <1>1, <1>2 DEF Chosen
    <2>3. ~ (g > h)
      BY <2>1, <2>2
    <2> QED
      BY <1>3, <1>4, <2>3 DEF Before
  <1>8. ASSUME NEW h \in Groups \ (left \cup selected)
        PROVE  Rejected(h)'
    <2>1. Rejected(h) /\ Before(h)' = Before(h)
      BY <1>7 DEF Chosen
    <2> QED
      BY <1>4, <2>1 DEF Rejected
  <1>9. CASE Eligible(g)
    <2>1. /\ selected' = selected \cup {g}
          /\ seen' = (seen \cup {Signature(g)}) \ {<<>>}
          /\ g \notin selected /\ Complete(g) /\ Signature(g) \notin seen
          /\ Fits(Selection(selected \cup {g}))
      BY <1>3, <1>9 DEF Eligible
    <2>2. seen' = {Signature(h) : h \in selected'} \ {<<>>}
      <3>1. seen = {Signature(h) : h \in selected} \ {<<>>}
        BY DEF Chosen
      <3>2. {Signature(h) : h \in selected \cup {g}}
                = {Signature(h) : h \in selected} \cup {Signature(g)}
        OBVIOUS
      <3> QED
        BY <2>1, <3>1, <3>2
    <2>3. \A h \in selected :
                Signature(h) = Signature(g) => Signature(g) = <<>>
      BY <2>1 DEF Chosen
    <2>4. \A h \in selected' \ Mandatory :
            /\ Complete(h)
            /\ \A i \in selected' \ {h} :
                    Signature(i) = Signature(h) => Signature(h) = <<>>
      BY <2>1, <2>3 DEF Chosen
    <2>5. /\ left' \subseteq Groups /\ selected' \subseteq Groups
          /\ Mandatory \subseteq selected'
          /\ selected' \ Mandatory \subseteq Groups \ left'
      BY <1>1, <1>3, <2>1 DEF Chosen
    <2>6. Groups \ (left' \cup selected') \subseteq Groups \ (left \cup selected)
      BY <1>1, <1>3, <2>1
    <2>7. {Signature(h)' : h \in selected'} = {Signature(h) : h \in selected'}
      BY <1>4
    <2> QED
      BY <1>4, <1>6, <1>8, <2>1, <2>2, <2>4, <2>5, <2>6, <2>7 DEF Chosen
  <1>10. CASE ~Eligible(g)
    <2>1. selected' = selected /\ seen' = seen
      BY <1>3, <1>10
    <2>2. ASSUME g \notin selected
          PROVE  Rejected(g)'
      <3>1. \A h \in selected \ Mandatory : h > g
        BY <1>1, <1>2 DEF Chosen
      <3>2. Before(g) = selected
        BY <3>1 DEF Before, Chosen
      <3>3. Before(g)' = Before(g)
        BY <1>4, <2>1 DEF Before
      <3>4. \/ ~Complete(g) \/ Signature(g) \in seen
            \/ ~Fits(Selection(selected \cup {g}))
        BY <1>10, <2>2 DEF Eligible
      <3>5. Signature(g) \in seen =>
                Signature(g) # <<>> /\ \E h \in selected : Signature(h) = Signature(g)
        BY DEF Chosen
      <3> QED
        BY <1>4, <3>2, <3>3, <3>4, <3>5 DEF Rejected
    <2>3. \A h \in Groups \ (left' \cup selected') : Rejected(h)'
      BY <1>3, <1>8, <2>1, <2>2
    <2>4. /\ left' \subseteq Groups /\ selected' \subseteq Groups
          /\ Mandatory \subseteq selected'
          /\ selected' \ Mandatory \subseteq Groups \ left'
      BY <1>3, <2>1 DEF Chosen
    <2>5. {Signature(h)' : h \in selected'} = {Signature(h) : h \in selected}
      BY <1>4, <2>1
    <2> QED
      BY <1>4, <1>6, <2>1, <2>3, <2>4, <2>5 DEF Chosen
  <1> QED
    BY <1>9, <1>10

LEMMA BudgetStep == BudgetInv /\ [Next]_vars => BudgetInv'
  <1> SUFFICES ASSUME BudgetInv, [Next]_vars
               PROVE  BudgetInv'
    OBVIOUS
  <1>g. Given /\ Given'
    BY DEF BudgetInv, Given, vars, Next, Whole, Refuse, Overflow, Require,
           Consider, Return, Ends
  <1>1. CASE UNCHANGED vars
    <2>1. Chosen' = Chosen
      BY <1>1 DEF vars, Chosen, Rejected, Before, Groups, Mandatory, Orphan,
                  Signature, Complete, Fits, Selection, Estimate, Share, Indexes,
                  IsTool, Pinned, Latest
    <2>2. Selection(selected)' = Selection(selected)
      BY <1>1 DEF vars, Selection, Indexes, IsTool
    <2> QED
      BY <1>1, <1>g, <2>1, <2>2 DEF BudgetInv, vars
  <1>2. CASE Whole
    BY <1>2, <1>g DEF BudgetInv, Whole, Ends
  <1>3. CASE Refuse \/ Overflow
    BY <1>3, <1>g DEF BudgetInv, Refuse, Overflow, Ends
  <1>4. CASE Require
    <2>1. /\ UNCHANGED <<messages, budget>>
          /\ left' = Groups /\ selected' = Mandatory
          /\ seen' = {Signature(g) : g \in Mandatory} \ {<<>>}
          /\ ~Orphan /\ Fits(Selection(Mandatory))
      BY <1>4 DEF Require
    <2>2. /\ Groups' = Groups /\ Mandatory' = Mandatory /\ Orphan' = Orphan
          /\ \A h : Signature(h)' = Signature(h)
          /\ \A S : Fits(Selection(S))' = Fits(Selection(S))
      BY <2>1 DEF Groups, Mandatory, Orphan, Signature, Fits, Selection,
                  Estimate, Share, Indexes, IsTool, Pinned, Latest
    <2>3. {Signature(g)' : g \in Mandatory} = {Signature(g) : g \in Mandatory}
      BY <2>2
    <2>4. Chosen'
      BY <2>1, <2>2, <2>3 DEF Chosen, Mandatory
    <2> QED
      BY <1>4, <1>g, <2>4 DEF BudgetInv, Require
  <1>5. CASE Consider
    <2>1. Chosen'
      BY <1>5, <1>g, ConsiderChooses DEF BudgetInv, Consider
    <2> QED
      BY <1>5, <1>g, <2>1 DEF BudgetInv, Consider
  <1>6. CASE Return
    <2>1. UNCHANGED <<messages, budget, selected, left, seen>>
      BY <1>6 DEF Return, Ends
    <2>2. Chosen' = Chosen
      BY <2>1 DEF Chosen, Rejected, Before, Groups, Mandatory, Orphan,
                  Signature, Complete, Fits, Selection, Estimate, Share, Indexes,
                  IsTool, Pinned, Latest
    <2>3. Selection(selected)' = Selection(selected)
      BY <2>1 DEF Selection, Indexes, IsTool
    <2>4. Chosen /\ left = {} /\ result' = Selection(selected)
            /\ outcome' = "trimmed" /\ at' = "end"
      BY <1>6 DEF BudgetInv, Return, Ends
    <2> QED
      BY <1>g, <2>1, <2>2, <2>3, <2>4 DEF BudgetInv
  <1> QED
    BY <1>1, <1>2, <1>3, <1>4, <1>5, <1>6 DEF Next

LEMMA BudgetInvariant == Spec => []BudgetInv
  <1> QED
    BY BudgetInit, BudgetStep, PTL DEF Spec

(***************************************************************************)
(* What is sent.                                                           *)
(***************************************************************************)

\* PinsSent: what is sent holds all the pinned messages, so all the evidence
\* and the latest message of every kind that is pinned.
THEOREM PinsAreSent == Spec => []PinsSent
  <1>1. BudgetInv => PinsSent
    <2> SUFFICES ASSUME BudgetInv, Sent, NEW k \in DOMAIN messages \ result
                 PROVE  /\ messages[k].kind # "evidence"
                        /\ \A kinds \in {{"alert"}, {"goal"}, {"operator", "inbox"}} :
                               messages[k].kind \in kinds =>
                                   \E j \in result :
                                        j > k /\ messages[j].kind \in kinds
      BY DEF PinsSent
    <2>1. Given /\ Chosen /\ result = Selection(selected)
      BY DEF BudgetInv, Sent
    <2>2. Pinned \subseteq result
      <3>1. Pinned \subseteq selected /\ selected \subseteq Groups
        BY <2>1, PinnedGroups DEF Chosen
      <3> QED
        BY <2>1, <3>1, GroupHolds DEF Selection
    <2>3. messages[k].kind # "evidence"
      BY <2>2 DEF Pinned
    <2>4. ASSUME NEW kinds \in {{"alert"}, {"goal"}, {"operator", "inbox"}},
                 messages[k].kind \in kinds
          PROVE  \E j \in result : j > k /\ messages[j].kind \in kinds
      <3>1. PICK j \in Latest(kinds) : k <= j /\ messages[j].kind \in kinds
        BY <2>1, <2>4, LatestExists
      <3>2. j \in result
        BY <2>2 DEF Pinned
      <3>3. j \in Nat /\ k \in Nat /\ j # k
        BY <2>1, <3>1, <3>2, MessagesAre DEF Latest
      <3> QED
        BY <3>1, <3>2, <3>3
    <2> QED
      BY <2>3, <2>4
  <1> QED
    BY <1>1, BudgetInvariant, PTL

\* PairsWhole: a trimmed context holds no result without its call, and no call
\* without its results.
THEOREM PairsAreWhole == Spec => []PairsWhole
  <1>1. BudgetInv => PairsWhole
    <2> SUFFICES ASSUME BudgetInv, outcome = "trimmed"
                 PROVE  PairsWhole
      BY DEF PairsWhole
    <2>1. Given /\ Chosen /\ result = Selection(selected)
      BY DEF BudgetInv
    <2>2. selected \subseteq Groups
      BY <2>1 DEF Chosen
    <2>3. ASSUME NEW k \in result, IsTool(k)
          PROVE  \E g \in result : g < k /\ messages[k].id \in messages[g].calls
                                   /\ \A j \in g + 1 .. k : j \in result
      <3>1. PICK h \in selected : k \in Indexes(h)
        BY <2>1 DEF Selection
      <3>2. h \in Groups /\ k \in DOMAIN messages
        BY <2>1, <2>2, GroupHolds, <3>1
      <3>3. PICK g \in Groups :
                /\ k \in Indexes(g)
                /\ \A j \in g + 1 .. k : messages[j].id \in messages[g].calls
        BY <2>1, <2>3, <3>2 DEF Chosen, Orphan
      <3>4. g = h
        BY <2>1, <3>1, <3>2, <3>3, GroupsDisjoint
      <3>5. g \in result /\ g < k
        BY <2>1, <2>3, <3>1, <3>3, <3>4, GroupHolds DEF Selection, Groups
      <3>6. g \in Nat /\ k \in Nat /\ k \in g .. Len(messages)
              /\ \A j \in g + 1 .. k : IsTool(j)
        BY <2>1, <3>2, <3>3, MessagesAre DEF Indexes, Groups
      <3>7. k \in g + 1 .. k
        BY <3>5, <3>6
      <3>8. ASSUME NEW j \in g + 1 .. k
            PROVE  j \in result
        <4>1. j \in g .. Len(messages) /\ \A i \in g + 1 .. j : i \in g + 1 .. k
          BY <2>1, <3>6, MessagesAre
        <4>2. j \in Indexes(g)
          BY <3>6, <4>1 DEF Indexes
        <4> QED
          BY <2>1, <3>4, <4>2 DEF Selection
      <3> QED
        BY <3>3, <3>5, <3>7, <3>8
    <2>4. ASSUME NEW g \in result, NEW id \in messages[g].calls
          PROVE  \E k \in result : k > g /\ messages[k].id = id
      <3>1. PICK h \in selected : g \in Indexes(h)
        BY <2>1 DEF Selection
      <3>2. h \in Groups /\ g \in DOMAIN messages
        BY <2>1, <2>2, GroupHolds, <3>1
      <3>3. g = h
        <4>1. ~IsTool(g)
          BY <2>1, <2>4, <3>2, MessagesAre DEF IsTool
        <4> QED
          BY <2>1, <3>1, <3>2, <4>1, GroupHolds
      <3>4. g \notin Mandatory
        BY <2>1, <2>4, PinnedGroups
      <3>5. Complete(g)
        BY <2>1, <3>1, <3>3, <3>4 DEF Chosen
      <3>6. PICK k \in Indexes(g) \ {g} : messages[k].id = id
        BY <2>4, <3>5 DEF Complete
      <3>7. g < k /\ k \in DOMAIN messages
        BY <2>1, <3>2, <3>3, <3>6, GroupHolds
      <3>8. k > g
        BY <2>1, <3>2, <3>7, MessagesAre
      <3> QED
        BY <2>1, <3>1, <3>3, <3>6, <3>8 DEF Selection
    <2> QED
      BY <2>3, <2>4 DEF PairsWhole
  <1> QED
    BY <1>1, BudgetInvariant, PTL

\* NewestFirst: of all the selections that may be sent, the one that is sent
\* prefers the newer groups.
THEOREM NewestAreSent == Spec => []NewestFirst
  <1>1. BudgetInv => NewestFirst
    <2> SUFFICES ASSUME BudgetInv, outcome = "trimmed"
                 PROVE  NewestFirst
      BY DEF NewestFirst
    <2>1. Given /\ Chosen /\ left = {}
      BY DEF BudgetInv
    <2>2. Admissible(selected)
      BY <2>1 DEF Chosen, Admissible, Fits
    <2>3. ASSUME NEW S \in SUBSET Groups, Admissible(S), Newer(S, selected)
          PROVE  FALSE
      <3>1. PICK g \in S \ selected : \A h \in selected \ S : h < g
        BY <2>3 DEF Newer
      <3>2. Rejected(g) /\ g \notin Mandatory
        BY <2>1, <3>1 DEF Chosen
      <3>3. Groups \subseteq Nat
        BY <2>1, MessagesAre DEF Groups
      <3>4. Before(g) \subseteq S \ {g}
        <4>1. Mandatory \subseteq S
          BY <2>3 DEF Admissible
        <4>2. ASSUME NEW h \in selected, h > g
              PROVE  h \in S \ {g}
          BY <2>1, <3>1, <3>3, <4>2 DEF Chosen
        <4> QED
          BY <3>2, <4>1, <4>2 DEF Before
      <3>5. /\ Complete(g)
            /\ \A h \in S \ {g} : Signature(h) = Signature(g) => Signature(g) = <<>>
        BY <2>3, <3>1, <3>2 DEF Admissible
      <3>6. ~Fits(Selection(Before(g) \cup {g}))
        BY <3>2, <3>4, <3>5 DEF Rejected
      <3>7. Selection(Before(g) \cup {g}) \subseteq Selection(S)
        BY <3>1, <3>4 DEF Selection
      <3>8. /\ Estimate(Selection(Before(g) \cup {g})) \in Nat
            /\ Estimate(Selection(S)) \in Nat
            /\ Estimate(Selection(Before(g) \cup {g})) <= Estimate(Selection(S))
        BY <2>1, <3>7, EstimateMonotone
      <3>9. Estimate(Selection(S)) <= budget /\ budget \in Nat
        BY <2>1, <2>3, BudgetAssumption DEF Admissible, Given
      <3> QED
        BY <3>6, <3>8, <3>9 DEF Fits
    <2> QED
      BY <2>2, <2>3 DEF NewestFirst
  <1> QED
    BY <1>1, BudgetInvariant, PTL
=============================================================================
