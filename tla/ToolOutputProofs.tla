---------------------------- MODULE ToolOutputProofs ----------------------------
(***************************************************************************)
(* Proofs about ToolOutput, for any number of processes, contents, calls,   *)
(* watchers and crashes: every reference of a durable event loads, and what *)
(* a live watcher is told of results, questions and ends is what the stream *)
(* says, in its order.                                                      *)
(***************************************************************************)
EXTENDS ToolOutput, FiniteSetTheorems, WellFoundedInduction, TLAPS

LEMMA CurrentNat ==
    ASSUME NEW d \in Drivers PROVE Current(d) \in Nat
<1> DEFINE F == {n \in DOMAIN Plan[d] : Finished(d, n)}
<1>1. DOMAIN Plan[d] = 1 .. Len(Plan[d]) /\ Len(Plan[d]) \in Nat
    BY OutputAssumption
<1>2. IsFiniteSet(DOMAIN Plan[d])
    <2>1. IsFiniteSet(1 .. Len(Plan[d]))
        BY <1>1, FS_Interval
    <2> QED
        BY <1>1, <2>1
<1>3. IsFiniteSet(F)
    BY <1>2, FS_Subset
<1>4. Cardinality(F) \in Nat
    BY <1>3, FS_CardinalityType
<1> QED
    BY <1>4 DEF Current

\* What an append leaves in the stream.
LEMMA AppendsEvent ==
    ASSUME TypeOK, NEW d \in Drivers, NEW e \in Event, Appends(d, e)
    PROVE  /\ events' \in [Drivers -> Seq(Event)]
           /\ \A q \in Drivers :
                 ToSet(events'[q]) = ToSet(events[q]) \cup IF q = d THEN {e} ELSE {}
<1>1. \A q \in Drivers : events[q] \in Seq(Event)
    BY DEF TypeOK
<1>2. events' \in [Drivers -> Seq(Event)]
    BY <1>1 DEF TypeOK, Appends
<1>3. ASSUME NEW q \in Drivers
      PROVE  ToSet(events'[q]) = ToSet(events[q]) \cup IF q = d THEN {e} ELSE {}
    <2>1. CASE q = d
        <3>1. events'[q] = Append(events[q], e)
            BY <2>1 DEF TypeOK, Appends
        <3>2. /\ DOMAIN Append(events[q], e) = 1 .. Len(events[q]) + 1
              /\ DOMAIN events[q] = 1 .. Len(events[q])
              /\ Len(events[q]) \in Nat
              /\ \A i \in 1 .. Len(events[q]) : Append(events[q], e)[i] = events[q][i]
              /\ Append(events[q], e)[Len(events[q]) + 1] = e
            BY <1>1
        <3>3. 1 .. Len(events[q]) + 1 = (1 .. Len(events[q])) \cup {Len(events[q]) + 1}
            BY <3>2
        <3> QED
            BY <2>1, <3>1, <3>2, <3>3 DEF ToSet
    <2>2. CASE q # d
        BY <2>2 DEF TypeOK, Appends
    <2> QED
        BY <2>1, <2>2
<1> QED
    BY <1>2, <1>3

\* What a driver is about to record is in its file already.
Stored == \A d \in Drivers :
    (pc[d] = "append" /\ output[d].content \in Large) => files[output[d].content] = "whole"

\* A target is replaced as a whole, so that one that exists is whole.
NeverTorn == \A c \in Contents : files[c] \in {"absent", "whole"}

Kept == TypeOK /\ Stored /\ ReferencesLoad

IInv == Kept /\ NeverTorn

LEMMA ContentTyped ==
    ASSUME TypeOK, NEW d \in Drivers, NEW e \in Results(d) PROVE e.content \in Contents
<1>1. \A i \in DOMAIN events[d] : events[d][i] \in Event
    BY DEF TypeOK
<1>2. e \in Event /\ e.type \in ResultTypes
    BY <1>1 DEF Results, ToSet
<1> QED
    BY <1>2 DEF Event, Types, Terminal, ResultTypes

LEMMA PlainTyped ==
    ASSUME NEW d \in Drivers, NEW type \in Types
    PROVE  /\ Ev(d, type) \in Event /\ OperatorEv(d, type) \in Event
           /\ Ev(d, type).type = type /\ OperatorEv(d, type).type = type
           /\ Ev(d, type).by = "runtime" /\ OperatorEv(d, type).by = "operator"
           /\ Ev(d, type).call = Current(d)
           /\ type \notin ResultTypes
BY CurrentNat DEF Ev, OperatorEv, Event, Types, ResultTypes, Terminal

\* An event without content refers to no file.
LEMMA PlainEvent ==
    ASSUME IInv, NEW d \in Drivers, NEW type \in Types,
           Appends(d, Ev(d, type)) \/ Appends(d, OperatorEv(d, type)), UNCHANGED files
    PROVE  events' \in [Drivers -> Seq(Event)] /\ ReferencesLoad'
<1>1. PICK e \in Event : Appends(d, e) /\ e.type \notin ResultTypes
    BY PlainTyped
<1>3. events' \in [Drivers -> Seq(Event)]
    BY <1>1, AppendsEvent DEF IInv, Kept
<1>4. \A q \in Drivers : Results(q)' = Results(q)
    BY <1>1, AppendsEvent DEF IInv, Kept, Results
<1> QED
    BY <1>3, <1>4 DEF IInv, Kept, ReferencesLoad

\* A driver at "append" has a result whose content is in its file.
LEMMA ResultEvent ==
    ASSUME IInv, NEW d \in Drivers, pc[d] = "append", Appends(d, Result(d)), UNCHANGED files
    PROVE  /\ Result(d) \in Event
           /\ events' \in [Drivers -> Seq(Event)] /\ ReferencesLoad'
<1> DEFINE e == Result(d)
<1>1. output[d] \in [type : ResultTypes, content : Contents, by : {"runtime", "preflight"}]
    BY DEF IInv, Kept, TypeOK
<1>2. e \in Event
    BY <1>1, CurrentNat DEF Result, Event
<1>3. e.content \in Large => files[e.content] = "whole"
    BY DEF Result, IInv, Kept, Stored
<1> HIDE DEF e
<1>4. /\ events' \in [Drivers -> Seq(Event)]
      /\ \A q \in Drivers :
            ToSet(events'[q]) = ToSet(events[q]) \cup IF q = d THEN {e} ELSE {}
    BY <1>2, AppendsEvent DEF IInv, Kept, e
<1>5. ReferencesLoad'
    BY <1>3, <1>4 DEF IInv, Kept, ReferencesLoad, Results
<1> QED
    BY <1>2, <1>4, <1>5 DEF e

\* A step that leaves the stream and the files alone.
LEMMA QuietStep ==
    ASSUME IInv, UNCHANGED <<events, files>>
    PROVE  events' \in [Drivers -> Seq(Event)] /\ ReferencesLoad'
BY DEF IInv, Kept, TypeOK, ReferencesLoad, Results

LEMMA InvInit == Init => IInv
<1> SUFFICES ASSUME Init PROVE IInv
    OBVIOUS
<1>1. TypeOK
    BY DEF Init, TypeOK, NoOutput
<1>2. Stored
    BY DEF Init, Stored
<1>3. \A d \in Drivers : Results(d) = {}
    BY DEF Init, Results, ToSet
<1>4. NeverTorn
    BY DEF Init, NeverTorn
<1> QED
    BY <1>1, <1>2, <1>3, <1>4 DEF IInv, Kept, ReferencesLoad

\* Only os.replace changes a target.
LEMMA NeverTornNext == TypeOK /\ NeverTorn /\ [Next]_vars => NeverTorn'
<1> SUFFICES ASSUME TypeOK, NeverTorn, [Next]_vars PROVE NeverTorn'
    OBVIOUS
<1>1. ASSUME NEW d \in Drivers, Drive(d) PROVE NeverTorn'
    BY <1>1 DEF Drive, AsksApproval, Pauses, OvertakenByAnswer, CallsTool, DeniesTool,
        HandlerReturns, TargetExists, WriteTemporary, ReplaceTarget, RecordResult, Completes,
        Fails, Ends, FindsOver, Raises, quiet, NeverTorn, TypeOK
<1>2. ASSUME NEW d \in Drivers, RunStarts(d) \/ Resume(d) \/ Operate(d) \/ Crash(d)
      PROVE  NeverTorn'
    BY <1>2 DEF RunStarts, Resume, Operate, Approves, Rejects, RejectionFailsRun, Crash,
        NeverTorn
<1>3. ASSUME NEW w \in Watchers, Receive(w) \/ Leave(w) \/ \E d \in Watched : Subscribe(w, d)
      PROVE  NeverTorn'
    BY <1>3 DEF Receive, Leave, Subscribe, NeverTorn
<1>4. CASE UNCHANGED vars
    BY <1>4 DEF vars, NeverTorn
<1> QED
    BY <1>1, <1>2, <1>3, <1>4 DEF Next

LEMMA InvNext == IInv /\ [Next]_vars => IInv'
<1> SUFFICES ASSUME IInv, [Next]_vars PROVE IInv'
    OBVIOUS
<1> USE DEF IInv, Kept, Working
<1>1. ASSUME NEW d \in Drivers, RunStarts(d) PROVE Kept'
    <2>1. events' \in [Drivers -> Seq(Event)] /\ ReferencesLoad'
        BY <1>1, PlainEvent DEF RunStarts, Types
    <2>2. TypeOK'
        BY <1>1, <2>1 DEF RunStarts, TypeOK, Goes
    <2>3. Stored'
        BY <1>1 DEF RunStarts, TypeOK, Goes, Stored
    <2> QED
        BY <2>1, <2>2, <2>3
<1>2. ASSUME NEW d \in Drivers, Resume(d) PROVE Kept'
    <2>1. events' \in [Drivers -> Seq(Event)] /\ ReferencesLoad'
        BY <1>2, QuietStep DEF Resume
    <2>2. TypeOK'
        BY <1>2, <2>1 DEF Resume, TypeOK, Goes
    <2>3. Stored'
        BY <1>2 DEF Resume, TypeOK, Goes, Stored
    <2> QED
        BY <2>1, <2>2, <2>3
<1>3. ASSUME NEW d \in Drivers, Operate(d) PROVE Kept'
    <2>1. UNCHANGED <<files, pc, output>>
        BY <1>3 DEF Operate, Approves, Rejects, RejectionFailsRun
    <2>2. events' \in [Drivers -> Seq(Event)] /\ ReferencesLoad'
        <3>1. \/ UNCHANGED events
              \/ \E type \in Types : Appends(d, OperatorEv(d, type))
            BY <1>3 DEF Operate, Approves, Rejects, RejectionFailsRun, Types, Terminal
        <3> QED
            BY <2>1, <3>1, PlainEvent, QuietStep
    <2> QED
        BY <2>1, <2>2 DEF TypeOK, Stored
<1>4. ASSUME NEW d \in Drivers, AsksApproval(d) PROVE Kept'
    <2>1. events' \in [Drivers -> Seq(Event)] /\ ReferencesLoad'
        BY <1>4, PlainEvent DEF AsksApproval, Types
    <2>2. TypeOK'
        BY <1>4, <2>1 DEF AsksApproval, TypeOK, Goes
    <2>3. Stored'
        BY <1>4 DEF AsksApproval, TypeOK, Goes, Stored
    <2> QED
        BY <2>1, <2>2, <2>3
<1>4p. ASSUME NEW d \in Drivers, Pauses(d) \/ FindsOver(d) PROVE Kept'
    <2>1. events' \in [Drivers -> Seq(Event)] /\ ReferencesLoad'
        BY <1>4p, QuietStep DEF Pauses, FindsOver, quiet
    <2>2. TypeOK'
        BY <1>4p, <2>1 DEF Pauses, FindsOver, TypeOK, Goes
    <2>3. Stored'
        BY <1>4p DEF Pauses, FindsOver, TypeOK, Goes, Stored
    <2> QED
        BY <2>1, <2>2, <2>3
<1>4o. ASSUME NEW d \in Drivers, OvertakenByAnswer(d) PROVE Kept'
    <2>1. events' \in [Drivers -> Seq(Event)] /\ ReferencesLoad'
        BY <1>4o, PlainEvent DEF OvertakenByAnswer, Types
    <2>2. TypeOK'
        BY <1>4o, <2>1 DEF OvertakenByAnswer, TypeOK, Goes
    <2>3. Stored'
        BY <1>4o DEF OvertakenByAnswer, TypeOK, Goes, Stored
    <2> QED
        BY <2>1, <2>2, <2>3
<1>4r. ASSUME NEW d \in Drivers, Raises(d) PROVE Kept'
    <2>1. events' \in [Drivers -> Seq(Event)] /\ ReferencesLoad'
        <3>1. CASE UNCHANGED events
            BY <1>4r, <3>1, QuietStep DEF Raises
        <3>2. CASE pc[d] = "append" /\ Appends(d, Result(d))
            BY <1>4r, <3>2, ResultEvent DEF Raises
        <3>3. CASE Appends(d, Ev(d, "refused"))
            BY <1>4r, <3>3, PlainEvent DEF Raises, Types
        <3> QED
            BY <1>4r, <3>1, <3>2, <3>3 DEF Raises
    <2>2. TypeOK'
        BY <1>4r, <2>1 DEF Raises, TypeOK
    <2>3. Stored'
        BY <1>4r DEF Raises, TypeOK, Stored
    <2> QED
        BY <2>1, <2>2, <2>3
<1>5. ASSUME NEW d \in Drivers, CallsTool(d) PROVE Kept'
    <2>1. events' \in [Drivers -> Seq(Event)] /\ ReferencesLoad'
        <3>1. CASE Started(d)
            BY <1>5, <3>1, QuietStep DEF CallsTool
        <3>2. CASE ~Started(d)
            BY <1>5, <3>2, PlainEvent DEF CallsTool, Types
        <3> QED
            BY <3>1, <3>2
    <2>2. TypeOK'
        BY <1>5, <2>1 DEF CallsTool, TypeOK, Goes
    <2>3. Stored'
        BY <1>5 DEF CallsTool, TypeOK, Goes, Stored
    <2> QED
        BY <2>1, <2>2, <2>3
<1>6. ASSUME NEW d \in Drivers, NEW type \in ResultTypes,
             NEW by \in {"runtime", "preflight"}, Outputs(d, type, by), UNCHANGED files, events' \in [Drivers -> Seq(Event)]
      PROVE  TypeOK' /\ Stored'
    <2>1. PICK c \in Contents :
             /\ output' = [output EXCEPT ![d] = [type |-> type, content |-> c, by |-> by]]
             /\ pc' = [pc EXCEPT ![d] = IF c \in Large THEN "store" ELSE "append"]
        BY <1>6 DEF Outputs
    <2>2. [type |-> type, content |-> c, by |-> by] # NoOutput
        BY DEF NoOutput, ResultTypes
    <2>3. TypeOK'
        BY <1>6, <2>1, <2>2 DEF TypeOK
    <2>4. Stored'
        BY <1>6, <2>1 DEF TypeOK, Stored
    <2> QED
        BY <2>3, <2>4
<1>7. ASSUME NEW d \in Drivers, DeniesTool(d) PROVE Kept'
    <2>1. events' \in [Drivers -> Seq(Event)] /\ ReferencesLoad'
        BY <1>7, PlainEvent DEF DeniesTool, Types
    <2> QED
        BY <1>6, <1>7, <2>1 DEF DeniesTool, ResultTypes
<1>8. ASSUME NEW d \in Drivers, HandlerReturns(d) PROVE Kept'
    <2>1. events' \in [Drivers -> Seq(Event)] /\ ReferencesLoad'
        BY <1>8, QuietStep DEF HandlerReturns, quiet
    <2> QED
        BY <1>6, <1>8, <2>1 DEF HandlerReturns, ResultTypes
<1>9. ASSUME NEW d \in Drivers, TargetExists(d) PROVE Kept'
    <2>1. events' \in [Drivers -> Seq(Event)] /\ ReferencesLoad'
        BY <1>9, QuietStep DEF TargetExists, quiet
    <2>2. TypeOK'
        BY <1>9, <2>1 DEF TargetExists, quiet, TypeOK, Goes
    <2>3. output[d] # NoOutput /\ output[d].content \in Contents
        BY <1>9 DEF TargetExists, TypeOK
    <2>4. pc'[d] = "append" => files[output[d].content] # "absent"
        BY <1>9 DEF TargetExists, TypeOK, Goes
    <2>5. Stored'
        BY <1>9, <2>3, <2>4 DEF NeverTorn, TargetExists, quiet, TypeOK, Goes, Stored
    <2> QED
        BY <2>1, <2>2, <2>5
<1>10. ASSUME NEW d \in Drivers, WriteTemporary(d) PROVE Kept'
    <2>1. events' \in [Drivers -> Seq(Event)] /\ ReferencesLoad'
        BY <1>10, QuietStep DEF WriteTemporary, quiet
    <2>2. TypeOK'
        BY <1>10, <2>1 DEF WriteTemporary, TypeOK, Goes
    <2>3. Stored'
        BY <1>10 DEF WriteTemporary, TypeOK, Goes, Stored
    <2> QED
        BY <2>1, <2>2, <2>3
<1>11. ASSUME NEW d \in Drivers, ReplaceTarget(d) PROVE Kept'
    <2>1. \A c \in Contents : files[c] = "whole" => files'[c] = "whole"
        BY <1>11 DEF ReplaceTarget, TypeOK
    <2>2. TypeOK'
        BY <1>11 DEF ReplaceTarget, quiet, Goes, TypeOK
    <2>3. output[d] # NoOutput /\ output[d].content \in Contents
        BY <1>11 DEF ReplaceTarget, Goes, TypeOK
    <2>4. \A q \in Drivers : pc'[q] = "append" => output[q].content \in Contents
        BY <1>11, <2>2 DEF ReplaceTarget, TypeOK
    <2>5. Stored'
        BY <1>11, <2>1, <2>3, <2>4 DEF ReplaceTarget, quiet, Goes, TypeOK, Stored
    <2>6. ReferencesLoad'
        BY <1>11, <2>1, ContentTyped DEF ReplaceTarget, quiet, ReferencesLoad, Results
    <2> QED
        BY <2>2, <2>5, <2>6
<1>12. ASSUME NEW d \in Drivers, RecordResult(d) PROVE Kept'
    <2>1. events' \in [Drivers -> Seq(Event)] /\ ReferencesLoad'
        BY <1>12, ResultEvent DEF RecordResult, Goes
    <2>2. TypeOK'
        BY <1>12, <2>1 DEF RecordResult, Goes, TypeOK
    <2>3. Stored'
        BY <1>12 DEF RecordResult, Goes, TypeOK, Stored
    <2> QED
        BY <2>1, <2>2, <2>3
<1>13. ASSUME NEW d \in Drivers, NEW type \in Terminal, Ends(d, type) PROVE Kept'
    <2>1. events' \in [Drivers -> Seq(Event)] /\ ReferencesLoad'
        BY <1>13, PlainEvent DEF Ends, Types
    <2>2. TypeOK'
        BY <1>13, <2>1 DEF Ends, TypeOK
    <2>3. Stored'
        BY <1>13 DEF Ends, TypeOK, Stored
    <2> QED
        BY <2>1, <2>2, <2>3
<1>14. ASSUME NEW d \in Drivers, Crash(d) PROVE Kept'
    <2>1. events' \in [Drivers -> Seq(Event)] /\ ReferencesLoad'
        BY <1>14, QuietStep DEF Crash
    <2>2. TypeOK'
        BY <1>14, <2>1 DEF Crash, TypeOK
    <2>3. Stored'
        BY <1>14 DEF Crash, TypeOK, Stored
    <2> QED
        BY <2>1, <2>2, <2>3
<1>15. ASSUME UNCHANGED <<events, files, pc, output>> PROVE Kept'
    <2>1. events' \in [Drivers -> Seq(Event)] /\ ReferencesLoad'
        BY <1>15, QuietStep
    <2> QED
        BY <1>15, <2>1 DEF TypeOK, Stored
<1>16. ASSUME NEW d \in Drivers, Drive(d) PROVE Kept'
    <2>1. Completes(d) \/ Fails(d) => \E type \in Terminal : Ends(d, type)
        BY DEF Completes, Fails, Terminal
    <2> QED
        BY <1>4, <1>4p, <1>4o, <1>4r, <1>5, <1>7, <1>8, <1>9, <1>10, <1>11, <1>12, <1>13,
            <1>16, <2>1 DEF Drive
<1>17. ASSUME NEW w \in Watchers, Receive(w) \/ Leave(w) \/ \E d \in Watched : Subscribe(w, d)
       PROVE  Kept'
    BY <1>15, <1>17 DEF Receive, Leave, Subscribe
<1>18. NeverTorn'
    BY NeverTornNext
<1> QED
    BY <1>1, <1>2, <1>3, <1>14, <1>15, <1>16, <1>17, <1>18 DEF Next, vars

\* Every variable keeps its type: a driver that stores or records has a result
\* to store, and a recorded result has a content (event_runtime.py:701-716).
THEOREM OutputTypeCorrect == Spec => []TypeOK
<1>1. IInv => TypeOK
    BY DEF IInv, Kept
<1> QED
    BY <1>1, InvInit, InvNext, PTL DEF Spec

\* The file of every durable reference is there and whole, whoever stores the
\* same content at the same time and whoever dies while storing it
\* (artifact_store.py:44-79).
THEOREM DurableReferencesLoad == Spec => []ReferencesLoad
<1>1. IInv => ReferencesLoad
    BY DEF IInv, Kept
<1> QED
    BY <1>1, InvInit, InvNext, PTL DEF Spec
-----------------------------------------------------------------------------
(***************************************************************************)
(* What the watchers are told.                                             *)
(***************************************************************************)

\* Every set of numbers has a least one: what holds of 0, and of a number
\* after all that are less, holds of all.
LEMMA LeastNatural ==
    ASSUME NEW T, T \subseteq Nat, T # {}
    PROVE  \E m \in T : \A n \in T : m <= n
<1>1. PICK m \in T : \A n \in T : ~ (<<n, m>> \in OpToRel(<, Nat))
    BY WFMin, NatLessThanWellFounded
<1>2. \A n \in T : ~ (n < m)
    BY <1>1 DEF OpToRel
<1> QED
    BY <1>2

\* What is told of the first events of a sequence, one by one.
IsTold(s, told, n) ==
    told = [k \in 0 .. n |->
               IF k = 0 THEN <<>>
               ELSE IF s[k].type \in Facts THEN Append(told[k - 1], s[k])
               ELSE told[k - 1]]

LEMMA ToldExists ==
    ASSUME NEW s, Len(s) \in Nat
    PROVE  \A n \in 0 .. Len(s) : \E told : IsTold(s, told, n)
<1> DEFINE T == {n \in 0 .. Len(s) : ~ \E told : IsTold(s, told, n)}
<1>1. ASSUME T # {} PROVE FALSE
    <2>0. T \subseteq Nat
        OBVIOUS
    <2>1. PICK m \in T : \A n \in T : m <= n
        <3> HIDE DEF T
        <3> QED
            BY <1>1, <2>0, LeastNatural
    <2>2. CASE m = 0
        <3> DEFINE none == [k \in 0 .. 0 |-> <<>>]
        <3>1. IsTold(s, none, 0)
            BY DEF IsTold
        <3> QED
            BY <2>2, <3>1
    <2>3. CASE m # 0
        <3>1. m - 1 \in 0 .. Len(s) /\ ~ (m <= m - 1) /\ m \in Nat
            BY <2>1, <2>3
        <3>2. PICK old : IsTold(s, old, m - 1)
            BY <2>1, <3>1
        <3> DEFINE last == IF s[m].type \in Facts THEN Append(old[m - 1], s[m])
                           ELSE old[m - 1]
        <3> DEFINE told == [k \in 0 .. m |-> IF k = m THEN last ELSE old[k]]
        <3>3. \A k \in 0 .. m : /\ k # m => k \in 0 .. m - 1
                                /\ k # 0 => k - 1 \in 0 .. m - 1 /\ k - 1 # m
                                                /\ k - 1 \in 0 .. m
            BY <3>1
        <3>4. \A k \in 0 .. m - 1 :
                 old[k] = IF k = 0 THEN <<>>
                          ELSE IF s[k].type \in Facts THEN Append(old[k - 1], s[k])
                          ELSE old[k - 1]
            BY <3>2 DEF IsTold
        <3>5. ASSUME NEW k \in 0 .. m
              PROVE  told[k] = IF k = 0 THEN <<>>
                               ELSE IF s[k].type \in Facts THEN Append(told[k - 1], s[k])
                               ELSE told[k - 1]
            <4>1. k # 0 => told[k - 1] = old[k - 1]
                BY <3>3
            <4>2. k # m => told[k] = old[k]
                OBVIOUS
            <4>3. CASE k = m
                <5>1. told[k] = last
                    BY <4>3
                <5> QED
                    BY <2>3, <4>1, <4>3, <5>1
            <4>4. CASE k # m
                <5>1. k \in 0 .. m - 1
                    BY <3>3, <4>4
                <5> HIDE DEF told
                <5> QED
                    BY <3>4, <4>1, <4>2, <4>4, <5>1
            <4> QED
                BY <4>3, <4>4
        <3>6. told = [k \in 0 .. m |-> told[k]]
            OBVIOUS
        <3> HIDE DEF told
        <3>7. IsTold(s, told, m)
            BY <3>5, <3>6 DEF IsTold
        <3> QED
            BY <3>7
    <2> QED
        BY <2>2, <2>3
<1> QED
    BY <1>1

LEMMA ToldIs ==
    ASSUME NEW s, Len(s) \in Nat
    PROVE  \E told : IsTold(s, told, Len(s)) /\ Told(s) = told[Len(s)]
<1> DEFINE told == CHOOSE t : IsTold(s, t, Len(s))
<1>1. \E t : IsTold(s, t, Len(s))
    BY ToldExists
<1>2. IsTold(s, told, Len(s))
    BY <1>1
<1>3. Told(s) = told[Len(s)]
    BY DEF Told, IsTold
<1> QED
    BY <1>2, <1>3

\* One event more: it is told if it is a fact.
LEMMA ToldAppend ==
    ASSUME NEW S, NEW s \in Seq(S), NEW e \in S
    PROVE  Told(Append(s, e)) = IF e.type \in Facts THEN Append(Told(s), e) ELSE Told(s)
<1> DEFINE t == Append(s, e)
<1>1. /\ Len(s) \in Nat /\ Len(t) = Len(s) + 1 /\ t[Len(s) + 1] = e
      /\ \A k \in 1 .. Len(s) : t[k] = s[k]
    OBVIOUS
<1> HIDE DEF t
<1>2. PICK a : IsTold(s, a, Len(s)) /\ Told(s) = a[Len(s)]
    BY <1>1, ToldIs
<1>3. PICK b : IsTold(t, b, Len(t)) /\ Told(t) = b[Len(t)]
    <2>1. Len(t) \in Nat
        BY <1>1
    <2> QED
        BY <2>1, ToldIs
<1> DEFINE T == {n \in 0 .. Len(s) : a[n] # b[n]}
<1>4. ASSUME T # {} PROVE FALSE
    <2>0. T \subseteq Nat
        BY <1>1
    <2>1. PICK m \in T : \A n \in T : m <= n
        <3> HIDE DEF T
        <3> QED
            BY <1>4, <2>0, LeastNatural
    <2>2. m \in 0 .. Len(s) /\ m \in 0 .. Len(t)
        BY <1>1, <2>1
    <2>3. /\ a[m] = IF m = 0 THEN <<>>
                    ELSE IF s[m].type \in Facts THEN Append(a[m - 1], s[m])
                    ELSE a[m - 1]
          /\ b[m] = IF m = 0 THEN <<>>
                    ELSE IF t[m].type \in Facts THEN Append(b[m - 1], t[m])
                    ELSE b[m - 1]
        BY <1>2, <1>3, <2>2 DEF IsTold
    <2>4. m # 0 => s[m] = t[m] /\ a[m - 1] = b[m - 1]
        <3>1. m # 0 => m \in 1 .. Len(s) /\ m - 1 \in 0 .. Len(s) /\ ~ (m <= m - 1)
            BY <1>1, <2>2
        <3> QED
            BY <1>1, <2>1, <3>1
    <2>5. a[m] = b[m]
        BY <2>3, <2>4
    <2> QED
        BY <2>1, <2>5
<1>5. a[Len(s)] = b[Len(s)]
    BY <1>1, <1>4
<1>6. b[Len(t)] = IF e.type \in Facts THEN Append(b[Len(s)], e) ELSE b[Len(s)]
    <2>1. Len(t) \in 0 .. Len(t) /\ Len(t) # 0 /\ Len(t) - 1 = Len(s) /\ t[Len(t)] = e
        BY <1>1
    <2>2. b[Len(t)] = IF Len(t) = 0 THEN <<>>
                      ELSE IF t[Len(t)].type \in Facts
                           THEN Append(b[Len(t) - 1], t[Len(t)])
                      ELSE b[Len(t) - 1]
        BY <1>3, <2>1 DEF IsTold
    <2> QED
        BY <2>1, <2>2
<1> QED
    BY <1>2, <1>3, <1>5, <1>6 DEF t

\* The events of s after the first n as a watcher hears them; Durable of the
\* run whose stream is s.
Named(s, n) == [i \in 1 .. Len(s) - n |-> AsLive(s, n + i)]

\* What the broker hands on.
LiveEvent == [type : Types \cup {"resuming", "tool.finished", "silent"}, call : Nat]

\* What an event appended to s stands for.
Newest(s, e) == AsLive(Append(s, e), Len(s) + 1)

\* An event that no watcher is to hear of as a fact.
Untold(s, e) == e.by # "runtime" \/ Ended(s) \/ e.type \notin Facts \cup ResultTypes

LEMMA AsLiveTyped ==
    ASSUME NEW s \in Seq(Event), NEW i \in 1 .. Len(s) PROVE AsLive(s, i) \in LiveEvent
<1>1. s[i] \in Event
    OBVIOUS
<1>2. s[i].type \in Types \cup ResultTypes /\ s[i].call \in Nat
    BY <1>1 DEF Event
<1> QED
    BY <1>2 DEF AsLive, LiveEvent

LEMMA AsLiveAppend ==
    ASSUME NEW s \in Seq(Event), NEW e \in Event, NEW i \in 1 .. Len(s)
    PROVE  AsLive(Append(s, e), i) = AsLive(s, i)
<1> DEFINE t == Append(s, e)
<1>1. \A j \in 1 .. Len(s) : t[j] = s[j]
    OBVIOUS
<1>2. i \in 1 .. Len(s) /\ \A j \in 1 .. i - 1 : j \in 1 .. Len(s)
    OBVIOUS
<1> HIDE DEF t
<1>3. AsLive(t, i) = AsLive(s, i)
    BY <1>1, <1>2 DEF AsLive
<1> QED
    BY <1>3 DEF t

LEMMA NewestIs ==
    ASSUME NEW s \in Seq(Event), NEW e \in Event
    PROVE  /\ Newest(s, e) \in LiveEvent
           /\ Untold(s, e) => Newest(s, e).type \notin Facts
           /\ e.by = "runtime" /\ ~Ended(s) =>
                 Newest(s, e) =
                    [type |-> IF e.type \in ResultTypes THEN "tool.finished" ELSE e.type,
                     call |-> e.call]
<1> DEFINE t == Append(s, e)
<1>1. /\ t \in Seq(Event) /\ Len(t) = Len(s) + 1 /\ Len(s) \in Nat /\ t[Len(s) + 1] = e
      /\ DOMAIN s = 1 .. Len(s) /\ \A j \in 1 .. Len(s) : t[j] = s[j]
    OBVIOUS
<1> HIDE DEF t
<1>2. AsLive(t, Len(s) + 1) \in LiveEvent
    <2>1. Len(s) + 1 \in 1 .. Len(t)
        BY <1>1
    <2> QED
        BY <1>1, <2>1, AsLiveTyped
<1>3. (\E j \in 1 .. (Len(s) + 1) - 1 : t[j].type \in Terminal) <=> Ended(s)
    <2>1. 1 .. (Len(s) + 1) - 1 = DOMAIN s
        BY <1>1
    <2> QED
        BY <1>1, <2>1 DEF Ended
<1>4. AsLive(t, Len(s) + 1) =
        [type |-> IF e.by # "runtime" \/ Ended(s) THEN "silent"
                  ELSE IF e.type \in ResultTypes THEN "tool.finished" ELSE e.type,
         call |-> e.call]
    BY <1>1, <1>3 DEF AsLive
<1>5. "silent" \notin Facts /\ "tool.finished" \in Facts
    BY DEF Facts, Terminal
<1>6. Newest(s, e) = AsLive(t, Len(s) + 1)
    BY DEF Newest, t
<1> QED
    BY <1>2, <1>4, <1>5, <1>6 DEF Untold

LEMMA NamedAppend ==
    ASSUME NEW s \in Seq(Event), NEW e \in Event, NEW n \in Nat, n <= Len(s)
    PROVE  /\ Named(s, n) \in Seq(LiveEvent)
           /\ Newest(s, e) \in LiveEvent
           /\ Named(Append(s, e), n) = Append(Named(s, n), Newest(s, e))
<1> DEFINE m == Len(s) - n
<1>1. /\ Len(s) \in Nat /\ m \in Nat
      /\ \A i \in 1 .. m : n + i \in 1 .. Len(s)
      /\ n + (m + 1) = Len(s) + 1
    OBVIOUS
<1>2. Newest(s, e) \in LiveEvent
    BY NewestIs
<1>3. Named(s, n) \in Seq(LiveEvent) /\ Len(Named(s, n)) = m
    <2>1. \A i \in 1 .. m : AsLive(s, n + i) \in LiveEvent
        BY <1>1, AsLiveTyped
    <2>2. Named(s, n) \in [1 .. m -> LiveEvent]
        BY <2>1 DEF Named
    <2> QED
        BY <1>1, <2>2
<1> DEFINE t == Append(s, e)
<1>4. Len(t) - n = m + 1
    BY <1>1
<1>5. AsLive(t, n + (m + 1)) = Newest(s, e)
    BY <1>1 DEF Newest
<1>6. \A i \in 1 .. m : AsLive(t, n + i) = Named(s, n)[i]
    BY <1>1, AsLiveAppend DEF Named
<1> DEFINE u == Append(Named(s, n), Newest(s, e))
<1>7. /\ u \in Seq(LiveEvent) /\ DOMAIN u = 1 .. m + 1
      /\ \A i \in 1 .. m : u[i] = Named(s, n)[i]
      /\ u[m + 1] = Newest(s, e)
    BY <1>2, <1>3
<1> HIDE DEF t, u
<1>8. u = [i \in 1 .. m + 1 |-> u[i]]
    BY <1>7
<1>9. \A i \in 1 .. m + 1 : AsLive(t, n + i) = u[i]
    <2>1. \A i \in 1 .. m + 1 : i \in 1 .. m \/ i = m + 1
        BY <1>1
    <2> HIDE DEF m
    <2> QED
        BY <1>5, <1>6, <1>7, <2>1
<1>10. Named(t, n) = u
    <2>1. Named(t, n) = [i \in 1 .. m + 1 |-> AsLive(t, n + i)]
        BY <1>4 DEF Named
    <2> HIDE DEF m
    <2> QED
        BY <1>8, <1>9, <2>1
<1> QED
    BY <1>2, <1>3, <1>10 DEF t, u

\* A subscription in a process that is at a point of a run with a stream: it
\* was made when the stream was no longer than now, it is closed only when
\* the run has ended, and what it was told and will be told is what the stream
\* says since.
Subscription ==
    [on : {"open", "closed", "left", "ended", "gone"}, run : Drivers, since : Nat,
     queue : Seq(LiveEvent), heard : Seq(LiveEvent)]

Faithful(x, stream, point) ==
    /\ x \in Subscription
    /\ x.since <= Len(stream)
    /\ x.on \in {"closed", "ended"} => point = "ended"
    /\ x.on \in {"open", "closed", "ended"} =>
          Told(x.heard \o x.queue) = Told(Named(stream, x.since))

WatchInv ==
    /\ watch \in [Watchers -> {Unsubscribed} \cup Subscription]
    /\ \A w \in Watchers : watch[w] # Unsubscribed =>
          Faithful(watch[w], events[watch[w].run], pc[watch[w].run])

\* Events that no watcher is to hear of may be durable and not told,
LEMMA QuietAppend ==
    ASSUME NEW x, NEW s \in Seq(Event), NEW p, Faithful(x, s, p),
           NEW e \in Event, Untold(s, e)
    PROVE  Faithful(x, Append(s, e), p)
<1>1. x \in Subscription /\ x.since \in Nat /\ x.since <= Len(s)
    BY DEF Faithful, Subscription
<1>2. Told(Named(Append(s, e), x.since)) = Told(Named(s, x.since))
    <2>1. /\ Named(s, x.since) \in Seq(LiveEvent) /\ Newest(s, e) \in LiveEvent
          /\ Named(Append(s, e), x.since) = Append(Named(s, x.since), Newest(s, e))
        BY <1>1, NamedAppend
    <2>2. Newest(s, e).type \notin Facts
        BY NewestIs
    <2> QED
        BY <2>1, <2>2, ToldAppend
<1>3. Len(Append(s, e)) = Len(s) + 1 /\ Len(s) \in Nat
    OBVIOUS
<1> QED
    BY <1>1, <1>2, <1>3 DEF Faithful

\* or told and not durable.
LEMMA QuietTelling ==
    ASSUME NEW x, NEW s \in Seq(Event), NEW p, Faithful(x, s, p),
           NEW l \in LiveEvent, l.type \notin Facts
    PROVE  Faithful([x EXCEPT !.queue = Append(@, l)], s, p)
<1>1. x \in Subscription
    BY DEF Faithful
<1>2. Told(Append(x.heard \o x.queue, l)) = Told(x.heard \o x.queue)
    <2>1. x.heard \o x.queue \in Seq(LiveEvent)
        BY <1>1 DEF Subscription
    <2> QED
        BY <2>1, ToldAppend
<1>3. x.heard \o Append(x.queue, l) = Append(x.heard \o x.queue, l)
    BY <1>1 DEF Subscription
<1> DEFINE y == [x EXCEPT !.queue = Append(@, l)]
<1>4. /\ y \in Subscription /\ y.since = x.since /\ y.on = x.on
      /\ y.heard \o y.queue = Append(x.heard \o x.queue, l)
    <2>1. Append(x.queue, l) \in Seq(LiveEvent)
        BY <1>1 DEF Subscription
    <2>2. y \in Subscription
        BY <1>1, <2>1 DEF Subscription
    <2>3. y.since = x.since /\ y.on = x.on /\ y.heard = x.heard
              /\ y.queue = Append(x.queue, l)
        BY <1>1 DEF Subscription
    <2> QED
        BY <1>3, <2>2, <2>3
<1> HIDE DEF y
<1>5. Faithful(y, s, p)
    BY <1>2, <1>4 DEF Faithful
<1> QED
    BY <1>5 DEF y

\* What is durable and told at once is told in its place.
LEMMA ToldEvent ==
    ASSUME NEW x, NEW s \in Seq(Event), NEW p, Faithful(x, s, p),
           x.on = "open", NEW e \in Event,
           NEW on \in {"open", "closed"}, NEW q, on = "closed" => q = "ended"
    PROVE  Faithful([x EXCEPT !.queue = Append(@, Newest(s, e)), !.on = on],
                    Append(s, e), q)
<1> DEFINE l == Newest(s, e)
<1> DEFINE y == [x EXCEPT !.queue = Append(@, l), !.on = on]
<1>1. x \in Subscription /\ x.since \in Nat /\ x.since <= Len(s)
    BY DEF Faithful, Subscription
<1>2. /\ Named(s, x.since) \in Seq(LiveEvent) /\ l \in LiveEvent
      /\ Named(Append(s, e), x.since) = Append(Named(s, x.since), l)
    BY <1>1, NamedAppend
<1> HIDE DEF l
<1>3. x.heard \o x.queue \in Seq(LiveEvent)
    BY <1>1 DEF Subscription
<1>4. x.heard \o Append(x.queue, l) = Append(x.heard \o x.queue, l)
    BY <1>1, <1>2 DEF Subscription
<1>5. Told(x.heard \o x.queue) = Told(Named(s, x.since))
    BY DEF Faithful
<1>6. Told(Append(x.heard \o x.queue, l)) = Told(Named(Append(s, e), x.since))
    <2>1. Told(Append(x.heard \o x.queue, l))
             = IF l.type \in Facts THEN Append(Told(x.heard \o x.queue), l)
               ELSE Told(x.heard \o x.queue)
        BY <1>2, <1>3, ToldAppend
    <2>2. Told(Append(Named(s, x.since), l))
             = IF l.type \in Facts THEN Append(Told(Named(s, x.since)), l)
               ELSE Told(Named(s, x.since))
        BY <1>2, ToldAppend
    <2> QED
        BY <1>2, <1>5, <2>1, <2>2
<1>7. /\ y \in Subscription /\ y.since = x.since /\ y.on = on
      /\ y.heard \o y.queue = Append(x.heard \o x.queue, l)
    <2>1. Append(x.queue, l) \in Seq(LiveEvent)
        BY <1>1, <1>2 DEF Subscription
    <2>2. y \in Subscription
        BY <1>1, <2>1 DEF Subscription
    <2>3. y.since = x.since /\ y.on = on /\ y.heard = x.heard
              /\ y.queue = Append(x.queue, l)
        BY <1>1 DEF Subscription
    <2> QED
        BY <1>4, <2>2, <2>3
<1>8. Len(Append(s, e)) = Len(s) + 1 /\ Len(s) \in Nat
    OBVIOUS
<1>9. y.since <= Len(Append(s, e))
    BY <1>1, <1>7, <1>8
<1>10. Faithful(y, Append(s, e), q)
    <2> HIDE DEF y
    <2> QED
        BY <1>6, <1>7, <1>9 DEF Faithful
<1> QED
    BY <1>10 DEF l

\* A step of one run keeps the subscriptions to the others.
LEMMA OneRun ==
    ASSUME WatchInv, NEW d \in Drivers,
           watch' \in [Watchers -> {Unsubscribed} \cup Subscription],
           \A q \in Drivers \ {d} : events'[q] = events[q] /\ pc'[q] = pc[q],
           \A w \in Watchers :
               IF watch[w] # Unsubscribed /\ watch[w].run = d
               THEN watch'[w] # Unsubscribed =>
                       watch'[w].run = d /\ Faithful(watch'[w], events'[d], pc'[d])
               ELSE watch'[w] = watch[w]
    PROVE  WatchInv'
<1> SUFFICES ASSUME NEW w \in Watchers, watch'[w] # Unsubscribed
             PROVE  Faithful(watch'[w], events'[watch'[w].run], pc'[watch'[w].run])
    BY DEF WatchInv
<1>1. CASE watch[w] # Unsubscribed /\ watch[w].run = d
    <2>1. watch'[w].run = d /\ Faithful(watch'[w], events'[d], pc'[d])
        BY <1>1
    <2> QED
        BY <2>1
<1>2. CASE ~ (watch[w] # Unsubscribed /\ watch[w].run = d)
    <2>1. watch'[w] = watch[w]
        BY <1>2
    <2>2. watch[w].run \in Drivers \ {d}
        BY <1>2, <2>1 DEF WatchInv, Subscription
    <2>3. Faithful(watch[w], events[watch[w].run], pc[watch[w].run])
        BY <2>1 DEF WatchInv
    <2> QED
        BY <2>1, <2>2, <2>3
<1> QED
    BY <1>1, <1>2

\* A driver that is not at the end goes on and says nothing of importance.
LEMMA SilentStep ==
    ASSUME TypeOK, WatchInv, NEW d \in Drivers,
           pc[d] # "ended" \/ pc'[d] = pc[d],
           \A q \in Drivers \ {d} : pc'[q] = pc[q],
           UNCHANGED watch,
           \/ UNCHANGED events
           \/ \E e \in Event : Untold(events[d], e) /\ Appends(d, e)
    PROVE  WatchInv'
<1>1. \A q \in Drivers : events[q] \in Seq(Event)
    BY DEF TypeOK
<1>2. \A q \in Drivers \ {d} : events'[q] = events[q]
    BY DEF TypeOK, Appends
<1>3. ASSUME NEW w \in Watchers, watch[w] # Unsubscribed, watch[w].run = d
      PROVE  Faithful(watch[w], events'[d], pc'[d])
    <2>1. Faithful(watch[w], events[d], pc[d])
        BY <1>3 DEF WatchInv
    <2>2. Faithful(watch[w], events'[d], pc[d])
        <3>1. CASE UNCHANGED events
            BY <2>1, <3>1
        <3>2. CASE \E e \in Event : Untold(events[d], e) /\ Appends(d, e)
            <4>1. PICK e \in Event : Untold(events[d], e) /\ Appends(d, e)
                BY <3>2
            <4>2. events'[d] = Append(events[d], e)
                BY <4>1 DEF TypeOK, Appends
            <4>3. events[d] \in Seq(Event)
                BY <1>1
            <4> QED
                BY <2>1, <4>1, <4>2, <4>3, QuietAppend
        <3> QED
            BY <3>1, <3>2
    <2>3. watch[w].on \in {"closed", "ended"} => pc'[d] = "ended"
        BY <2>1 DEF Faithful
    <2> QED
        BY <2>2, <2>3 DEF Faithful
<1>4. watch' \in [Watchers -> {Unsubscribed} \cup Subscription]
    BY DEF WatchInv
<1>5. \A w \in Watchers :
         IF watch[w] # Unsubscribed /\ watch[w].run = d
         THEN watch'[w] # Unsubscribed =>
                 watch'[w].run = d /\ Faithful(watch'[w], events'[d], pc'[d])
         ELSE watch'[w] = watch[w]
    BY <1>3
<1> QED
    BY <1>2, <1>4, <1>5, OneRun

\* A driver that is not at the end tells what it appends, and closes the
\* subscriptions if that is the end.
LEMMA TellingStep ==
    ASSUME TypeOK, WatchInv, NEW d \in Drivers, pc[d] # "ended",
           \A q \in Drivers \ {d} : pc'[q] = pc[q],
           NEW e \in Event, Appends(d, e),
           NEW l, l = Newest(events[d], e),
           Emit(d, l) \/ (EmitAndClose(d, l) /\ pc'[d] = "ended")
    PROVE  WatchInv'
<1>1. events[d] \in Seq(Event) /\ events'[d] = Append(events[d], e)
    BY DEF TypeOK, Appends
<1>2. \A q \in Drivers \ {d} : events'[q] = events[q]
    BY DEF TypeOK, Appends
<1>3. l \in LiveEvent
    BY <1>1, NewestIs
<1>4. PICK on \in {"open", "closed"} :
         /\ on = "closed" => pc'[d] = "ended"
         /\ watch' = [w \in Watchers |->
                         IF w \in Subscribers(d)
                         THEN [watch[w] EXCEPT !.queue = Append(@, l), !.on = on]
                         ELSE watch[w]]
    <2>1. CASE EmitAndClose(d, l) /\ pc'[d] = "ended"
        BY <2>1 DEF EmitAndClose
    <2>2. CASE Emit(d, l)
        <3>1. \A w \in Subscribers(d) :
                 [watch[w] EXCEPT !.queue = Append(@, l)]
                    = [watch[w] EXCEPT !.queue = Append(@, l), !.on = "open"]
            <4> SUFFICES ASSUME NEW w \in Subscribers(d)
                         PROVE  [watch[w] EXCEPT !.queue = Append(@, l)]
                                   = [watch[w] EXCEPT !.queue = Append(@, l), !.on = "open"]
                OBVIOUS
            <4>1. watch[w].on = "open" /\ watch[w] \in Subscription
                BY DEF Subscribers, WatchInv, Unsubscribed
            <4> QED
                BY <4>1 DEF Subscription
        <3> QED
            BY <2>2, <3>1 DEF Emit
    <2> QED
        BY <2>1, <2>2
<1>5. ASSUME NEW w \in Watchers, w \in Subscribers(d)
      PROVE  /\ watch'[w] \in Subscription /\ watch'[w].run = d
             /\ Faithful(watch'[w], events'[d], pc'[d])
    <2>1. watch[w].on = "open" /\ watch[w].run = d /\ watch[w] # Unsubscribed
        BY <1>5 DEF Subscribers, Unsubscribed
    <2>2. Faithful(watch[w], events[d], pc[d])
        BY <2>1 DEF WatchInv
    <2>3. watch'[w] = [watch[w] EXCEPT !.queue = Append(@, l), !.on = on]
        BY <1>4, <1>5
    <2>4. Faithful([watch[w] EXCEPT !.queue = Append(@, Newest(events[d], e)), !.on = on],
                   Append(events[d], e), pc'[d])
        BY <1>1, <1>4, <2>1, <2>2, ToldEvent
    <2>5. Faithful(watch'[w], events'[d], pc'[d])
        BY <1>1, <2>3, <2>4
    <2>6. watch'[w].run = d
        BY <2>1, <2>2, <2>3 DEF Faithful, Subscription
    <2> QED
        BY <2>5, <2>6 DEF Faithful
<1>6. ASSUME NEW w \in Watchers, w \notin Subscribers(d),
             watch[w] # Unsubscribed, watch[w].run = d
      PROVE  watch'[w] = watch[w] /\ Faithful(watch'[w], events'[d], pc'[d])
    <2>1. watch'[w] = watch[w] /\ watch[w].on # "open"
        BY <1>4, <1>6 DEF Subscribers
    <2>2. Faithful(watch[w], events[d], pc[d])
        BY <1>6 DEF WatchInv
    <2>3. watch[w].on \in {"left", "gone"}
        BY <2>1, <2>2 DEF Faithful, Subscription
    <2>4. watch[w].since <= Len(events'[d])
        BY <1>1, <2>2 DEF Faithful, Subscription
    <2> QED
        BY <2>1, <2>2, <2>3, <2>4 DEF Faithful
<1>7. \A w \in Watchers : w \notin Subscribers(d) => watch'[w] = watch[w]
    BY <1>4
<1>8. watch' \in [Watchers -> {Unsubscribed} \cup Subscription]
    <2>1. \A w \in Watchers : watch'[w] \in {Unsubscribed} \cup Subscription
        BY <1>5, <1>7 DEF WatchInv
    <2>2. watch' = [w \in Watchers |-> watch'[w]]
        BY <1>4
    <2> QED
        BY <2>1, <2>2
<1>9. \A w \in Watchers : w \in Subscribers(d) =>
         watch[w] # Unsubscribed /\ watch[w].run = d
    BY DEF Subscribers, Unsubscribed
<1>10. \A w \in Watchers :
         IF watch[w] # Unsubscribed /\ watch[w].run = d
         THEN watch'[w] # Unsubscribed =>
                 watch'[w].run = d /\ Faithful(watch'[w], events'[d], pc'[d])
         ELSE watch'[w] = watch[w]
    BY <1>5, <1>6, <1>7, <1>9
<1> QED
    BY <1>2, <1>8, <1>10, OneRun

\* A driver that is not at the end tells what is no fact and not durable.
LEMMA ChatterStep ==
    ASSUME TypeOK, WatchInv, NEW d \in Drivers, pc[d] # "ended",
           \A q \in Drivers \ {d} : pc'[q] = pc[q],
           UNCHANGED events,
           NEW l \in LiveEvent, l.type \notin Facts, Emit(d, l)
    PROVE  WatchInv'
<1>1. events[d] \in Seq(Event)
    BY DEF TypeOK
<1>2. ASSUME NEW w \in Watchers, watch[w] # Unsubscribed, watch[w].run = d
      PROVE  /\ watch'[w] \in Subscription /\ watch'[w].run = d
             /\ Faithful(watch'[w], events'[d], pc'[d])
    <2>1. Faithful(watch[w], events[d], pc[d])
        BY <1>2 DEF WatchInv
    <2>2. Faithful(watch[w], events[d], pc'[d])
        BY <2>1 DEF Faithful
    <2>3. CASE w \in Subscribers(d)
        <3>1. watch'[w] = [watch[w] EXCEPT !.queue = Append(@, l)]
            BY <2>3 DEF Emit
        <3>2. Faithful([watch[w] EXCEPT !.queue = Append(@, l)], events[d], pc'[d])
            BY <1>1, <2>2, QuietTelling
        <3>3. watch'[w].run = d
            BY <1>2, <2>1, <3>1 DEF Faithful, Subscription
        <3> QED
            BY <3>1, <3>2, <3>3 DEF Faithful
    <2>4. CASE w \notin Subscribers(d)
        <3>1. watch'[w] = watch[w]
            BY <2>4 DEF Emit
        <3> QED
            BY <1>2, <2>2, <3>1 DEF Faithful
    <2> QED
        BY <2>3, <2>4
<1>3. \A w \in Watchers : w \in Subscribers(d) =>
         watch[w] # Unsubscribed /\ watch[w].run = d
    BY DEF Subscribers, Unsubscribed
<1>4. \A w \in Watchers : w \notin Subscribers(d) => watch'[w] = watch[w]
    BY DEF Emit
<1>5. watch' \in [Watchers -> {Unsubscribed} \cup Subscription]
    <2>1. \A w \in Watchers : watch'[w] \in {Unsubscribed} \cup Subscription
        BY <1>2, <1>3, <1>4 DEF WatchInv
    <2>2. watch' = [w \in Watchers |-> watch'[w]]
        BY DEF Emit
    <2> QED
        BY <2>1, <2>2
<1>6. \A w \in Watchers :
         IF watch[w] # Unsubscribed /\ watch[w].run = d
         THEN watch'[w] # Unsubscribed =>
                 watch'[w].run = d /\ Faithful(watch'[w], events'[d], pc'[d])
         ELSE watch'[w] = watch[w]
    BY <1>2, <1>3, <1>4
<1>7. \A q \in Drivers \ {d} : events'[q] = events[q]
    OBVIOUS
<1> QED
    BY <1>5, <1>6, <1>7, OneRun

\* A driver that comes to the end closes the subscriptions, and tells nothing.
LEMMA ClosingStep ==
    ASSUME TypeOK, WatchInv, NEW d \in Drivers, pc'[d] = "ended",
           \A q \in Drivers \ {d} : pc'[q] = pc[q],
           UNCHANGED events, CloseRun(d)
    PROVE  WatchInv'
<1>1. ASSUME NEW w \in Watchers, watch[w] # Unsubscribed, watch[w].run = d
      PROVE  /\ watch'[w] \in Subscription /\ watch'[w].run = d
             /\ Faithful(watch'[w], events'[d], pc'[d])
    <2>1. Faithful(watch[w], events[d], pc[d])
        BY <1>1 DEF WatchInv
    <2>2. CASE w \in Subscribers(d)
        <3> DEFINE y == [watch[w] EXCEPT !.on = "closed"]
        <3>1. watch'[w] = y
            BY <2>2 DEF CloseRun
        <3>2. /\ y \in Subscription /\ y.run = d /\ y.since = watch[w].since
              /\ y.heard = watch[w].heard /\ y.queue = watch[w].queue
            BY <1>1, <2>1 DEF Faithful, Subscription
        <3>3. watch[w].on = "open"
            BY <2>2 DEF Subscribers
        <3> HIDE DEF y
        <3> QED
            BY <2>1, <3>1, <3>2, <3>3 DEF Faithful
    <2>3. CASE w \notin Subscribers(d)
        <3>1. watch'[w] = watch[w]
            BY <2>3 DEF CloseRun
        <3> QED
            BY <1>1, <2>1, <3>1 DEF Faithful
    <2> QED
        BY <2>2, <2>3
<1>2. \A w \in Watchers : w \in Subscribers(d) =>
         watch[w] # Unsubscribed /\ watch[w].run = d
    BY DEF Subscribers, Unsubscribed
<1>3. \A w \in Watchers : w \notin Subscribers(d) => watch'[w] = watch[w]
    BY DEF CloseRun
<1>4. watch' \in [Watchers -> {Unsubscribed} \cup Subscription]
    <2>1. \A w \in Watchers : watch'[w] \in {Unsubscribed} \cup Subscription
        BY <1>1, <1>2, <1>3 DEF WatchInv
    <2>2. watch' = [w \in Watchers |-> watch'[w]]
        BY DEF CloseRun
    <2> QED
        BY <2>1, <2>2
<1>5. \A w \in Watchers :
         IF watch[w] # Unsubscribed /\ watch[w].run = d
         THEN watch'[w] # Unsubscribed =>
                 watch'[w].run = d /\ Faithful(watch'[w], events'[d], pc'[d])
         ELSE watch'[w] = watch[w]
    BY <1>1, <1>2, <1>3
<1> QED
    BY <1>4, <1>5, OneRun

\* What is received was at the head of what was to be heard.
LEMMA HeardInOrder ==
    ASSUME NEW S, NEW h \in Seq(S), NEW q \in Seq(S), q # <<>>
    PROVE  Append(h, Head(q)) \o Tail(q) = h \o q
<1> DEFINE left == Append(h, Head(q)) \o Tail(q)
<1> DEFINE right == h \o q
<1>1. Head(q) = q[1] /\ Head(q) \in S /\ Len(q) \in Nat /\ Len(q) >= 1 /\ Len(h) \in Nat
    OBVIOUS
<1>2. /\ Append(h, Head(q)) \in Seq(S) /\ Len(Append(h, Head(q))) = Len(h) + 1
      /\ Append(h, Head(q))[Len(h) + 1] = q[1]
      /\ \A k \in 1 .. Len(h) : Append(h, Head(q))[k] = h[k]
    BY <1>1
<1>3. /\ Tail(q) \in Seq(S) /\ Len(Tail(q)) = Len(q) - 1
      /\ \A k \in 1 .. Len(q) - 1 : Tail(q)[k] = q[k + 1]
    OBVIOUS
<1>4. left \in Seq(S) /\ right \in Seq(S)
    BY <1>2, <1>3
<1>5. Len(left) = Len(h) + Len(q) /\ Len(right) = Len(h) + Len(q)
    BY <1>1, <1>2, <1>3
<1>6. ASSUME NEW k \in 1 .. Len(h) + Len(q)
      PROVE  left[k] = right[k]
    <2>1. CASE k <= Len(h)
        <3>1. left[k] = Append(h, Head(q))[k]
            BY <1>1, <1>2, <1>3, <2>1
        <3>2. right[k] = h[k]
            BY <1>1, <2>1
        <3>3. k \in 1 .. Len(h)
            BY <1>1, <2>1
        <3> QED
            BY <1>2, <3>1, <3>2, <3>3
    <2>2. CASE k = Len(h) + 1
        <3>1. left[k] = Append(h, Head(q))[k]
            BY <1>1, <1>2, <1>3, <2>2
        <3>2. k - Len(h) = 1 /\ right[k] = q[k - Len(h)]
            BY <1>1, <2>2
        <3> QED
            BY <1>2, <2>2, <3>1, <3>2
    <2>3. CASE k > Len(h) + 1
        <3>1. left[k] = Tail(q)[k - (Len(h) + 1)]
            BY <1>1, <1>2, <1>3, <2>3
        <3>2. right[k] = q[k - Len(h)]
            BY <1>1, <2>3
        <3>3. k - (Len(h) + 1) \in 1 .. Len(q) - 1 /\ (k - (Len(h) + 1)) + 1 = k - Len(h)
            BY <1>1, <2>3
        <3> QED
            BY <1>3, <3>1, <3>2, <3>3
    <2> QED
        BY <1>1, <2>1, <2>2, <2>3
<1> HIDE DEF left, right
<1>7. left = right
    BY <1>4, <1>5, <1>6
<1> QED
    BY <1>7 DEF left, right

\* A subscription changes by itself.
LEMMA WatcherStep ==
    ASSUME TypeOK, WatchInv, NEW w \in Watchers, Receive(w) \/ Leave(w)
    PROVE  WatchInv'
<1> DEFINE x == watch[w]
<1> DEFINE d == watch[w].run
<1>1. /\ watch[w] # Unsubscribed /\ watch[w] \in Subscription
      /\ watch[w].run \in Drivers
      /\ Faithful(watch[w], events[watch[w].run], pc[watch[w].run])
    BY DEF Receive, Leave, WatchInv, Unsubscribed, Subscription
<1>2. /\ watch[w].heard \in Seq(LiveEvent) /\ watch[w].queue \in Seq(LiveEvent)
      /\ watch[w].on \in {"open", "closed", "left", "ended", "gone"}
      /\ watch[w].since \in Nat
    BY <1>1 DEF Subscription
<1>3. UNCHANGED <<events, pc>>
    BY DEF Receive, Leave
<1>4. PICK y \in Subscription :
         /\ watch' = [watch EXCEPT ![w] = y]
         /\ y.run = watch[w].run
         /\ Faithful(y, events[watch[w].run], pc[watch[w].run])
    <2>1. CASE Leave(w)
        <3> DEFINE y == [watch[w] EXCEPT !.on = "left"]
        <3>1. /\ y \in Subscription /\ y.run = watch[w].run
              /\ y.since = watch[w].since /\ y.on = "left"
            BY <1>1 DEF Subscription
        <3>2. watch' = [watch EXCEPT ![w] = y]
            BY <2>1 DEF Leave
        <3> HIDE DEF y
        <3> QED
            BY <1>1, <3>1, <3>2 DEF Faithful
    <2>2. CASE watch[w].queue # <<>> /\ Receive(w)
        <3> DEFINE y == [watch[w] EXCEPT !.heard = Append(@, Head(watch[w].queue)),
                                         !.queue = Tail(@)]
        <3>1. watch' = [watch EXCEPT ![w] = y]
            BY <2>2 DEF Receive
        <3>2. /\ Append(watch[w].heard, Head(watch[w].queue)) \in Seq(LiveEvent)
              /\ Tail(watch[w].queue) \in Seq(LiveEvent)
            BY <1>2, <2>2
        <3>3. Append(watch[w].heard, Head(watch[w].queue)) \o Tail(watch[w].queue)
                 = watch[w].heard \o watch[w].queue
            BY <1>2, <2>2, HeardInOrder
        <3>4. y \in Subscription
            BY <1>1, <3>2 DEF Subscription
        <3>5. /\ y.run = watch[w].run /\ y.since = watch[w].since /\ y.on = watch[w].on
              /\ y.heard = Append(watch[w].heard, Head(watch[w].queue))
              /\ y.queue = Tail(watch[w].queue)
            BY <1>1 DEF Subscription
        <3> HIDE DEF y
        <3> QED
            BY <1>1, <3>1, <3>3, <3>4, <3>5 DEF Faithful
    <2>3. CASE watch[w].queue = <<>> /\ Receive(w)
        <3> DEFINE on == IF watch[w].on = "closed" THEN "ended" ELSE "gone"
        <3> DEFINE y == [watch[w] EXCEPT !.on = on]
        <3>1. watch' = [watch EXCEPT ![w] = y]
            BY <2>3 DEF Receive
        <3>2. /\ y \in Subscription /\ y.run = watch[w].run
              /\ y.since = watch[w].since /\ y.on = on
              /\ y.heard = watch[w].heard /\ y.queue = watch[w].queue
            BY <1>1 DEF Subscription
        <3> HIDE DEF y
        <3> QED
            BY <1>1, <3>1, <3>2 DEF Faithful
    <2> QED
        BY <2>1, <2>2, <2>3
<1>5. /\ watch' \in [Watchers -> {Unsubscribed} \cup Subscription]
      /\ watch'[w] = y /\ \A v \in Watchers \ {w} : watch'[v] = watch[v]
    BY <1>4 DEF WatchInv
<1> SUFFICES ASSUME NEW v \in Watchers, watch'[v] # Unsubscribed
             PROVE  Faithful(watch'[v], events'[watch'[v].run], pc'[watch'[v].run])
    BY <1>5 DEF WatchInv
<1>6. CASE v = w
    BY <1>3, <1>4, <1>5, <1>6
<1>7. CASE v # w
    BY <1>3, <1>5, <1>7 DEF WatchInv
<1> QED
    BY <1>6, <1>7

\* A new subscription has nothing to hear, and the stream says nothing since.
LEMMA SubscribeStep ==
    ASSUME TypeOK, WatchInv, NEW w \in Watchers, NEW d \in Drivers, Subscribe(w, d)
    PROVE  WatchInv'
<1> DEFINE y == [on |-> "open", run |-> d, since |-> Len(events[d]),
                 queue |-> <<>>, heard |-> <<>>]
<1>1. events[d] \in Seq(Event) /\ Len(events[d]) \in Nat
    BY DEF TypeOK
<1>2. /\ y \in Subscription /\ y.on = "open" /\ y.run = d
      /\ y.since = Len(events[d]) /\ y.heard = <<>> /\ y.queue = <<>>
    BY <1>1 DEF Subscription
<1>3. Named(events[d], Len(events[d])) = <<>>
    <2>1. Len(events[d]) - Len(events[d]) = 0 /\ 1 .. 0 = {}
        BY <1>1
    <2>2. Named(events[d], Len(events[d])) \in Seq(LiveEvent)
              /\ Len(Named(events[d], Len(events[d]))) = 0
        BY <1>1, <2>1 DEF Named
    <2> QED
        BY <2>2
<1>4. <<>> \o <<>> = <<>>
    OBVIOUS
<1>5. watch' = [watch EXCEPT ![w] = y] /\ UNCHANGED <<events, pc>>
    BY DEF Subscribe
<1> HIDE DEF y
<1>6. Faithful(y, events[d], pc[d])
    BY <1>1, <1>2, <1>3, <1>4 DEF Faithful
<1>7. /\ watch' \in [Watchers -> {Unsubscribed} \cup Subscription]
      /\ watch'[w] = y /\ \A v \in Watchers \ {w} : watch'[v] = watch[v]
    BY <1>2, <1>5 DEF WatchInv
<1> SUFFICES ASSUME NEW v \in Watchers, watch'[v] # Unsubscribed
             PROVE  Faithful(watch'[v], events'[watch'[v].run], pc'[watch'[v].run])
    BY <1>7 DEF WatchInv
<1>8. CASE v = w
    BY <1>2, <1>5, <1>6, <1>7, <1>8
<1>9. CASE v # w
    BY <1>5, <1>7, <1>9 DEF WatchInv
<1> QED
    BY <1>8, <1>9

LEMMA WatchNext == TypeOK /\ WatchInv /\ [Next]_vars => WatchInv'
<1> SUFFICES ASSUME TypeOK, WatchInv, [Next]_vars PROVE WatchInv'
    OBVIOUS
<1>e. ASSUME NEW d \in Drivers, NEW type \in Types, ~Over(d)
      PROVE  Ev(d, type) \in Event /\ Newest(events[d], Ev(d, type)) = Live(d, type)
    <2>1. /\ Ev(d, type) \in Event /\ Ev(d, type).type = type /\ Ev(d, type).by = "runtime"
          /\ Ev(d, type).call = Current(d) /\ type \notin ResultTypes
        BY PlainTyped
    <2>2. events[d] \in Seq(Event) /\ ~Ended(events[d])
        BY <1>e DEF TypeOK, Over
    <2> QED
        BY <2>1, <2>2, NewestIs DEF Live
<1>p. ASSUME NEW d \in Drivers, NEW point, pc' = [pc EXCEPT ![d] = point]
      PROVE  pc'[d] = point /\ \A q \in Drivers \ {d} : pc'[q] = pc[q]
    BY <1>p DEF TypeOK
<1>1. ASSUME NEW d \in Drivers, RunStarts(d) \/ AsksApproval(d) PROVE WatchInv'
    <2>1. PICK type \in {"run.started", "approval.requested"} :
             Appends(d, Ev(d, type)) /\ Emit(d, Live(d, type))
        BY <1>1 DEF RunStarts, AsksApproval
    <2>2. pc[d] # "ended" /\ \A q \in Drivers \ {d} : pc'[q] = pc[q]
        BY <1>1, <1>p DEF RunStarts, AsksApproval, Goes
    <2>3. type \in Types
        BY DEF Types
    <2>4. ~Over(d)
        BY <1>1 DEF RunStarts, AsksApproval, Over, Ended
    <2> QED
        BY <1>e, <2>1, <2>2, <2>3, <2>4, TellingStep
<1>2. ASSUME NEW d \in Drivers, Resume(d) \/ CallsTool(d) PROVE WatchInv'
    <2>1. pc[d] # "ended" /\ \A q \in Drivers \ {d} : pc'[q] = pc[q]
        BY <1>2, <1>p DEF Resume, CallsTool, Goes
    <2>2. CASE CallsTool(d) /\ ~Started(d)
        <3>1. /\ Appends(d, Ev(d, "tool.started")) /\ Emit(d, Live(d, "tool.started"))
              /\ "tool.started" \in Types /\ ~Over(d)
            BY <2>2 DEF CallsTool, Types
        <3> QED
            BY <1>e, <2>1, <3>1, TellingStep
    <2>3. CASE Resume(d) \/ (CallsTool(d) /\ Started(d))
        <3>1. PICK l \in LiveEvent : l.type \notin Facts /\ Emit(d, l)
            <4>1. /\ Live(d, "resuming") \in LiveEvent /\ Live(d, "tool.started") \in LiveEvent
                  /\ Live(d, "resuming").type \notin Facts
                  /\ Live(d, "tool.started").type \notin Facts
                BY CurrentNat DEF Live, LiveEvent, Types, Facts, Terminal
            <4> QED
                BY <2>3, <4>1 DEF Resume, CallsTool
        <3>2. UNCHANGED events
            BY <2>3 DEF Resume, CallsTool
        <3> QED
            BY <2>1, <3>1, <3>2, ChatterStep
    <2> QED
        BY <1>2, <2>2, <2>3
<1>3. ASSUME NEW d \in Drivers, Operate(d) PROVE WatchInv'
    <2>1. \/ UNCHANGED events
          \/ \E type \in Types : Appends(d, OperatorEv(d, type))
        BY <1>3 DEF Operate, Approves, Rejects, RejectionFailsRun, Types, Terminal
    <2>2. UNCHANGED <<pc, watch>>
        BY <1>3 DEF Operate, Approves, Rejects, RejectionFailsRun
    <2>3. \A type \in Types : /\ OperatorEv(d, type) \in Event
                              /\ Untold(events[d], OperatorEv(d, type))
        BY PlainTyped DEF Untold
    <2> QED
        BY <2>1, <2>2, <2>3, SilentStep
<1>4. ASSUME NEW d \in Drivers, DeniesTool(d) \/ OvertakenByAnswer(d) PROVE WatchInv'
    <2>1. PICK type \in {"tool.started", "refused"} : Appends(d, Ev(d, type))
        BY <1>4 DEF DeniesTool, OvertakenByAnswer
    <2>2. type \in Types /\ type \notin Facts
        BY DEF Types, Facts, Terminal
    <2>3. Ev(d, type) \in Event /\ Untold(events[d], Ev(d, type))
        BY <2>2, PlainTyped DEF Untold
    <2>4. /\ pc[d] # "ended" /\ UNCHANGED watch
          /\ \A q \in Drivers \ {d} : pc'[q] = pc[q]
        BY <1>4, <1>p DEF DeniesTool, OvertakenByAnswer, Outputs, Goes
    <2> QED
        BY <2>1, <2>3, <2>4, SilentStep
<1>5. ASSUME NEW d \in Drivers, HandlerReturns(d) \/ TargetExists(d) \/ WriteTemporary(d)
                                  \/ ReplaceTarget(d) \/ Pauses(d)
      PROVE  WatchInv'
    <2>1. /\ pc[d] # "ended" /\ UNCHANGED <<events, watch>>
          /\ \A q \in Drivers \ {d} : pc'[q] = pc[q]
        BY <1>5, <1>p DEF HandlerReturns, TargetExists, WriteTemporary, ReplaceTarget,
            Pauses, Outputs, Goes, quiet
    <2> QED
        BY <2>1, SilentStep
<1>r. ASSUME NEW d \in Drivers, pc[d] = "append"
      PROVE  /\ Result(d) \in Event /\ Result(d).type \in ResultTypes
             /\ Result(d).by = output[d].by /\ Result(d).call = Current(d)
    <2>1. output[d] \in [type : ResultTypes, content : Contents, by : {"runtime", "preflight"}]
        BY <1>r DEF TypeOK
    <2> QED
        BY <2>1, CurrentNat DEF Result, Event
<1>6. ASSUME NEW d \in Drivers, RecordResult(d) PROVE WatchInv'
    <2>1. /\ pc[d] = "append" /\ Appends(d, Result(d)) /\ ~Over(d)
          /\ \A q \in Drivers \ {d} : pc'[q] = pc[q]
        BY <1>6, <1>p DEF RecordResult, Goes
    <2>2. events[d] \in Seq(Event) /\ ~Ended(events[d])
        BY <2>1 DEF TypeOK, Over
    <2>3. CASE output[d].by = "runtime"
        <3>1. Emit(d, Live(d, "tool.finished"))
            BY <1>6, <2>3 DEF RecordResult
        <3>2. Live(d, "tool.finished") = Newest(events[d], Result(d))
            BY <1>r, <2>1, <2>2, <2>3, NewestIs DEF Live
        <3> QED
            BY <1>r, <2>1, <3>1, <3>2, TellingStep
    <2>4. CASE output[d].by # "runtime"
        <3>1. UNCHANGED watch
            BY <1>6, <2>4 DEF RecordResult
        <3>2. Untold(events[d], Result(d))
            BY <1>r, <2>1, <2>4 DEF Untold
        <3> QED
            BY <1>r, <2>1, <3>1, <3>2, SilentStep
    <2> QED
        BY <2>3, <2>4
<1>7. ASSUME NEW d \in Drivers, Completes(d) \/ Fails(d) PROVE WatchInv'
    <2>1. PICK type \in Terminal : pc[d] # "ended" /\ Ends(d, type)
        BY <1>7 DEF Completes, Fails, Working, Terminal
    <2>2. /\ Appends(d, Ev(d, type)) /\ EmitAndClose(d, Live(d, type)) /\ ~Over(d)
          /\ pc'[d] = "ended" /\ \A q \in Drivers \ {d} : pc'[q] = pc[q]
        BY <1>p, <2>1 DEF Ends
    <2>3. type \in Types
        BY DEF Types
    <2> QED
        BY <1>e, <2>1, <2>2, <2>3, TellingStep
<1>f. ASSUME NEW d \in Drivers, FindsOver(d) PROVE WatchInv'
    <2>1. /\ pc'[d] = "ended" /\ \A q \in Drivers \ {d} : pc'[q] = pc[q]
          /\ UNCHANGED events /\ CloseRun(d)
        BY <1>f, <1>p DEF FindsOver
    <2> QED
        BY <2>1, ClosingStep
<1>x. ASSUME NEW d \in Drivers, Raises(d) PROVE WatchInv'
    <2>1. /\ pc[d] # "ended" /\ UNCHANGED watch
          /\ \A q \in Drivers \ {d} : pc'[q] = pc[q]
        BY <1>x, <1>p DEF Raises, Working
    <2>2. \/ UNCHANGED events
          \/ \E e \in Event : Untold(events[d], e) /\ Appends(d, e)
        <3>1. CASE Over(d) /\ pc[d] = "append" /\ Appends(d, Result(d))
            BY <1>r, <3>1 DEF Over, Untold
        <3>2. CASE Over(d) /\ Appends(d, Ev(d, "refused"))
            <4>1. "refused" \in Types
                BY DEF Types
            <4> QED
                BY <3>2, <4>1, PlainTyped DEF Over, Untold
        <3> QED
            BY <1>x, <3>1, <3>2 DEF Raises
    <2> QED
        BY <2>1, <2>2, SilentStep
<1>8. ASSUME NEW d \in Drivers, Crash(d) PROVE WatchInv'
    <2>1. \A w \in Watchers : watch[w] # Unsubscribed => watch[w].on # "off"
        BY DEF WatchInv, Subscription
    <2>2. \A w \in Watchers :
             watch'[w] = IF watch[w] # Unsubscribed /\ watch[w].run = d THEN Unsubscribed
                         ELSE watch[w]
        BY <1>8, <2>1 DEF Crash, Unsubscribed
    <2>3. watch' \in [Watchers -> {Unsubscribed} \cup Subscription]
        BY <1>8 DEF Crash, WatchInv
    <2>4. \A q \in Drivers \ {d} : events'[q] = events[q] /\ pc'[q] = pc[q]
        BY <1>8, <1>p DEF Crash
    <2> QED
        BY <2>2, <2>3, <2>4, OneRun
<1>9. ASSUME NEW w \in Watchers, Receive(w) \/ Leave(w) \/ \E d \in Watched : Subscribe(w, d)
      PROVE  WatchInv'
    BY <1>9, OutputAssumption, WatcherStep, SubscribeStep
<1>10. CASE UNCHANGED vars
    BY <1>10 DEF vars, WatchInv
<1> QED
    BY <1>1, <1>2, <1>3, <1>4, <1>5, <1>6, <1>7, <1>f, <1>x, <1>8, <1>9, <1>10 DEF Next, Drive

\* A watcher is told of every result, question and end that the driver has
\* written since the subscription, of no other, and in the stream's order, and
\* a subscription is closed only by a driver that has come to the end
\* (event_runtime.py:684, live_stream.py:70-88).  What the operator and
\* preflight write, and what lands behind the end, it is never told.
THEOREM WatchersAreTold == Spec => []WatchersAgree
<1>1. Init => WatchInv
    BY DEF Init, WatchInv
<1>2. WatchInv => WatchersAgree
    BY DEF WatchInv, Faithful, WatchersAgree, Durable, Named, Unsubscribed
<1> QED
    BY <1>1, <1>2, WatchNext, OutputTypeCorrect, PTL DEF Spec
=============================================================================
