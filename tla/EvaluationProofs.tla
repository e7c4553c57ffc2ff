-------------------------- MODULE EvaluationProofs --------------------------
(***************************************************************************)
(* Proofs about the evaluation harness and the runtime it drives, for every *)
(* provider, every batch of calls and all limits.                          *)
(***************************************************************************)
EXTENDS Evaluation, SequenceTheorems, WellFoundedInduction, TLAPS

(***************************************************************************)
(* Sequences.                                                              *)
(***************************************************************************)

\* Every set of numbers has a least one: what holds of the first number, and
\* of a number after all that are less, holds of all.
LEMMA LeastNatural ==
    ASSUME NEW T, T \subseteq Nat, T # {}
    PROVE  \E m \in T : \A n \in T : m <= n
  <1>1. PICK m \in T : \A n \in T : ~ (<<n, m>> \in OpToRel(<, Nat))
    BY WFMin, NatLessThanWellFounded
  <1>2. \A n \in T : ~ (n < m)
    BY <1>1 DEF OpToRel
  <1> QED
    BY <1>2

\* The first n sequences of ts, put together one by one.
IsFlat(ts, flat, n) ==
    flat = [i \in 1 .. n |-> IF i = 1 THEN ts[i] ELSE flat[i - 1] \o ts[i]]

LEMMA FlatExists ==
    ASSUME NEW ts, Len(ts) \in Nat
    PROVE  \A n \in 1 .. Len(ts) : \E flat : IsFlat(ts, flat, n)
  <1> DEFINE T == {n \in 1 .. Len(ts) : ~ \E flat : IsFlat(ts, flat, n)}
  <1>1. ASSUME T # {} PROVE FALSE
    <2>0. T \subseteq Nat
      OBVIOUS
    <2>1. PICK m \in T : \A n \in T : m <= n
      <3> HIDE DEF T
      <3> QED
        BY <1>1, <2>0, LeastNatural
    <2>2. CASE m = 1
      <3> DEFINE one == [i \in 1 .. 1 |-> ts[i]]
      <3>1. IsFlat(ts, one, 1)
        BY DEF IsFlat
      <3> QED
        BY <2>2, <3>1
    <2>3. CASE m # 1
      <3>1. m - 1 \in 1 .. Len(ts) /\ ~ (m <= m - 1) /\ m \in Nat
        BY <2>1, <2>3
      <3>2. PICK old : IsFlat(ts, old, m - 1)
        BY <2>1, <3>1
      <3> DEFINE last == old[m - 1] \o ts[m]
      <3> DEFINE flat == [i \in 1 .. m |-> IF i = m THEN last ELSE old[i]]
      <3>3. \A i \in 1 .. m : /\ i # m => i \in 1 .. m - 1
                              /\ i # 1 => i - 1 \in 1 .. m - 1 /\ i - 1 # m
                                              /\ i - 1 \in 1 .. m
        BY <3>1
      <3>4. \A i \in 1 .. m - 1 :
                old[i] = IF i = 1 THEN ts[i] ELSE old[i - 1] \o ts[i]
        BY <3>2 DEF IsFlat
      <3>5. ASSUME NEW i \in 1 .. m
            PROVE  flat[i] = IF i = 1 THEN ts[i] ELSE flat[i - 1] \o ts[i]
        <4>1. i # 1 => flat[i - 1] = old[i - 1]
          BY <3>3
        <4>2. i # m => flat[i] = old[i]
          OBVIOUS
        <4>3. CASE i = m
          <5>1. flat[i] = last
            BY <4>3
          <5> QED
            BY <2>3, <4>1, <4>3, <5>1
        <4>4. CASE i # m
          <5>1. i \in 1 .. m - 1
            BY <3>3, <4>4
          <5> HIDE DEF flat
          <5> QED
            BY <3>4, <4>1, <4>2, <4>4, <5>1
        <4> QED
          BY <4>3, <4>4
      <3>6. flat = [i \in 1 .. m |-> flat[i]]
        OBVIOUS
      <3> HIDE DEF flat
      <3>7. IsFlat(ts, flat, m)
        BY <3>5, <3>6 DEF IsFlat
      <3> QED
        BY <3>7
    <2> QED
      BY <2>2, <2>3
  <1> QED
    BY <1>1

LEMMA FlattenIs ==
    ASSUME NEW ts, Len(ts) \in Nat, Len(ts) # 0
    PROVE  \E flat : IsFlat(ts, flat, Len(ts)) /\ FlattenSeq(ts) = flat[Len(ts)]
  <1> DEFINE flat == CHOOSE f : IsFlat(ts, f, Len(ts))
  <1>1. \E f : IsFlat(ts, f, Len(ts))
    BY FlatExists
  <1>2. IsFlat(ts, flat, Len(ts))
    BY <1>1
  <1>3. FlattenSeq(ts) = flat[Len(ts)]
    BY DEF FlattenSeq, IsFlat
  <1> QED
    BY <1>2, <1>3

\* Flattening gives a sequence of what the sequences hold.
LEMMA FlattenType ==
    ASSUME NEW S, NEW ts \in Seq(Seq(S))
    PROVE  FlattenSeq(ts) \in Seq(S)
  <1>1. Len(ts) \in Nat /\ \A i \in 1 .. Len(ts) : ts[i] \in Seq(S)
    OBVIOUS
  <1>2. CASE Len(ts) = 0
    <2>1. FlattenSeq(ts) = <<>>
      BY <1>2 DEF FlattenSeq
    <2> QED
      BY <2>1
  <1>3. CASE Len(ts) # 0
    <2>1. PICK flat : IsFlat(ts, flat, Len(ts)) /\ FlattenSeq(ts) = flat[Len(ts)]
      BY <1>1, <1>3, FlattenIs
    <2> DEFINE T == {n \in 1 .. Len(ts) : flat[n] \notin Seq(S)}
    <2>2. ASSUME T # {} PROVE FALSE
      <3>0. T \subseteq Nat
        BY <1>1
      <3>1. PICK m \in T : \A n \in T : m <= n
        <4> HIDE DEF T
        <4> QED
          BY <2>2, <3>0, LeastNatural
      <3>2. flat[m] = IF m = 1 THEN ts[m] ELSE flat[m - 1] \o ts[m]
        BY <2>1, <3>1 DEF IsFlat
      <3>3. m # 1 => flat[m - 1] \in Seq(S)
        <4>1. m # 1 => m - 1 \in 1 .. Len(ts) /\ ~ (m <= m - 1)
          BY <1>1, <3>1
        <4> QED
          BY <3>1, <4>1
      <3>4. flat[m] \in Seq(S)
        BY <1>1, <3>1, <3>2, <3>3
      <3> QED
        BY <3>1, <3>4
    <2>3. Len(ts) \in 1 .. Len(ts)
      BY <1>1, <1>3
    <2> QED
      BY <2>1, <2>2, <2>3
  <1> QED
    BY <1>2, <1>3

\* One sequence more goes to the end.
LEMMA FlattenAppend ==
    ASSUME NEW S, NEW ts \in Seq(Seq(S)), NEW t \in Seq(S)
    PROVE  FlattenSeq(Append(ts, t)) = FlattenSeq(ts) \o t
  <1> DEFINE us == Append(ts, t)
  <1>1. /\ Len(ts) \in Nat /\ Len(us) = Len(ts) + 1 /\ us[Len(ts) + 1] = t
        /\ \A i \in 1 .. Len(ts) : us[i] = ts[i]
    OBVIOUS
  <1> HIDE DEF us
  <1>2. PICK b : IsFlat(us, b, Len(us)) /\ FlattenSeq(us) = b[Len(us)]
    <2>1. Len(us) \in Nat /\ Len(us) # 0
      BY <1>1
    <2> QED
      BY <2>1, FlattenIs
  <1>3. b[Len(us)] = IF Len(us) = 1 THEN us[Len(us)]
                     ELSE b[Len(us) - 1] \o us[Len(us)]
    <2>1. Len(us) \in 1 .. Len(us)
      BY <1>1
    <2> QED
      BY <1>2, <2>1 DEF IsFlat
  <1>4. CASE Len(ts) = 0
    <2>1. FlattenSeq(ts) = <<>>
      BY <1>4 DEF FlattenSeq
    <2>2. FlattenSeq(us) = t
      BY <1>1, <1>2, <1>3, <1>4
    <2>3. <<>> \o t = t
      OBVIOUS
    <2> QED
      BY <2>1, <2>2, <2>3 DEF us
  <1>5. CASE Len(ts) # 0
    <2>1. PICK a : IsFlat(ts, a, Len(ts)) /\ FlattenSeq(ts) = a[Len(ts)]
      BY <1>1, <1>5, FlattenIs
    <2> DEFINE T == {n \in 1 .. Len(ts) : a[n] # b[n]}
    <2>2. ASSUME T # {} PROVE FALSE
      <3>0. T \subseteq Nat
        BY <1>1
      <3>1. PICK m \in T : \A n \in T : m <= n
        <4> HIDE DEF T
        <4> QED
          BY <2>2, <3>0, LeastNatural
      <3>2. m \in 1 .. Len(ts) /\ m \in 1 .. Len(us)
        BY <1>1, <3>1
      <3>3. /\ a[m] = IF m = 1 THEN ts[m] ELSE a[m - 1] \o ts[m]
            /\ b[m] = IF m = 1 THEN us[m] ELSE b[m - 1] \o us[m]
        BY <1>2, <2>1, <3>2 DEF IsFlat
      <3>4. us[m] = ts[m] /\ (m # 1 => a[m - 1] = b[m - 1])
        <4>1. m # 1 => m - 1 \in 1 .. Len(ts) /\ ~ (m <= m - 1)
          BY <1>1, <3>2
        <4> QED
          BY <1>1, <3>1, <3>2, <4>1
      <3> QED
        BY <3>1, <3>3, <3>4
    <2>3. a[Len(ts)] = b[Len(ts)]
      <3>1. Len(ts) \in 1 .. Len(ts)
        BY <1>1, <1>5
      <3> QED
        BY <2>2, <3>1
    <2>4. Len(us) # 1 /\ Len(us) - 1 = Len(ts) /\ us[Len(us)] = t
      BY <1>1, <1>5
    <2> QED
      BY <1>2, <1>3, <2>1, <2>3, <2>4 DEF us
  <1> QED
    BY <1>4, <1>5

(***************************************************************************)
(* The calls of a batch.                                                   *)
(***************************************************************************)

\* What the first n calls of a batch make of the incident, one by one.
IsAfter(batch, state, n) ==
    state = [k \in 0 .. n |->
                IF k = 0 THEN incident ELSE Applied(state[k - 1], batch[k])]

LEMMA AfterExists ==
    \A batch : \A n \in Nat : \E state : IsAfter(batch, state, n)
  <1> SUFFICES ASSUME NEW batch
               PROVE  \A n \in Nat : \E state : IsAfter(batch, state, n)
    OBVIOUS
  <1> DEFINE T == {n \in Nat : ~ \E state : IsAfter(batch, state, n)}
  <1>1. ASSUME T # {} PROVE FALSE
    <2>1. PICK m \in T : \A n \in T : m <= n
      <3>1. T \subseteq Nat
        OBVIOUS
      <3> HIDE DEF T
      <3> QED
        BY <1>1, <3>1, LeastNatural
    <2>2. CASE m = 0
      <3> DEFINE none == [k \in 0 .. 0 |-> incident]
      <3>1. IsAfter(batch, none, 0)
        BY DEF IsAfter
      <3> QED
        BY <2>2, <3>1
    <2>3. CASE m # 0
      <3>1. m - 1 \in Nat /\ ~ (m <= m - 1) /\ m \in Nat
        BY <2>1, <2>3
      <3>2. PICK old : IsAfter(batch, old, m - 1)
        BY <2>1, <3>1
      <3> DEFINE last == Applied(old[m - 1], batch[m])
      <3> DEFINE state == [k \in 0 .. m |-> IF k = m THEN last ELSE old[k]]
      <3>3. \A k \in 0 .. m : /\ k # m => k \in 0 .. m - 1
                              /\ k # 0 => k - 1 \in 0 .. m - 1 /\ k - 1 # m
                                              /\ k - 1 \in 0 .. m
        BY <3>1
      <3>4. \A k \in 0 .. m - 1 :
                old[k] = IF k = 0 THEN incident ELSE Applied(old[k - 1], batch[k])
        BY <3>2 DEF IsAfter
      <3>5. ASSUME NEW k \in 0 .. m
            PROVE  state[k] = IF k = 0 THEN incident
                              ELSE Applied(state[k - 1], batch[k])
        <4>1. k # 0 => state[k - 1] = old[k - 1]
          BY <3>3
        <4>2. k # m => state[k] = old[k]
          OBVIOUS
        <4>3. CASE k = m
          <5>1. state[k] = last
            BY <4>3
          <5> QED
            BY <2>3, <4>1, <4>3, <5>1
        <4>4. CASE k # m
          <5>1. k \in 0 .. m - 1
            BY <3>3, <4>4
          <5> HIDE DEF state
          <5> QED
            BY <3>4, <4>1, <4>2, <4>4, <5>1
        <4> QED
          BY <4>3, <4>4
      <3>6. state = [k \in 0 .. m |-> state[k]]
        OBVIOUS
      <3> HIDE DEF state
      <3>7. IsAfter(batch, state, m)
        BY <3>5, <3>6 DEF IsAfter
      <3> QED
        BY <3>7
    <2> QED
      BY <2>2, <2>3
  <1> QED
    BY <1>1

\* The calls run one after the other.
LEMMA AfterStep ==
    \A batch : /\ After(batch, 0) = incident
               /\ \A n \in Nat \ {0} :
                     After(batch, n) = Applied(After(batch, n - 1), batch[n])
  <1> SUFFICES ASSUME NEW batch
               PROVE  /\ After(batch, 0) = incident
                      /\ \A n \in Nat \ {0} :
                            After(batch, n) = Applied(After(batch, n - 1), batch[n])
    OBVIOUS
  <1>1. ASSUME NEW n \in Nat
        PROVE  \E state : IsAfter(batch, state, n) /\ After(batch, n) = state[n]
    <2> DEFINE state == CHOOSE s : IsAfter(batch, s, n)
    <2>1. \E s : IsAfter(batch, s, n)
      BY AfterExists
    <2>2. IsAfter(batch, state, n)
      BY <2>1
    <2>3. After(batch, n) = state[n]
      BY DEF After, IsAfter
    <2> QED
      BY <2>2, <2>3
  <1>2. After(batch, 0) = incident
    <2>1. PICK state : IsAfter(batch, state, 0) /\ After(batch, 0) = state[0]
      BY <1>1
    <2> QED
      BY <2>1 DEF IsAfter
  <1>3. ASSUME NEW n \in Nat \ {0}
        PROVE  After(batch, n) = Applied(After(batch, n - 1), batch[n])
    <2>1. PICK b : IsAfter(batch, b, n) /\ After(batch, n) = b[n]
      BY <1>1
    <2>2. PICK a : IsAfter(batch, a, n - 1) /\ After(batch, n - 1) = a[n - 1]
      BY <1>1
    <2>3. b[n] = Applied(b[n - 1], batch[n])
      BY <2>1 DEF IsAfter
    <2> DEFINE T == {m \in 0 .. n - 1 : a[m] # b[m]}
    <2>4. ASSUME T # {} PROVE FALSE
      <3>0. T \subseteq Nat
        OBVIOUS
      <3>1. PICK m \in T : \A k \in T : m <= k
        <4> HIDE DEF T
        <4> QED
          BY <2>4, <3>0, LeastNatural
      <3>2. m \in 0 .. n - 1 /\ m \in 0 .. n
        BY <3>1
      <3>3. /\ a[m] = IF m = 0 THEN incident ELSE Applied(a[m - 1], batch[m])
            /\ b[m] = IF m = 0 THEN incident ELSE Applied(b[m - 1], batch[m])
        BY <2>1, <2>2, <3>2 DEF IsAfter
      <3>4. m # 0 => a[m - 1] = b[m - 1]
        <4>1. m # 0 => m - 1 \in 0 .. n - 1 /\ ~ (m <= m - 1)
          BY <3>2
        <4> QED
          BY <3>1, <4>1
      <3> QED
        BY <3>1, <3>3, <3>4
    <2>5. n - 1 \in 0 .. n - 1
      OBVIOUS
    <2>6. a[n - 1] = b[n - 1]
      BY <2>4, <2>5
    <2> QED
      BY <2>1, <2>2, <2>3, <2>6
  <1> QED
    BY <1>2, <1>3

Incidents ==
    [{"recovered", "mutated", "approved", "verified", "confirmed"} -> BOOLEAN]

\* A mutation recovers the service, and is approved; only a recovered service
\* is confirmed; the dependency's outage has no mutation.
Consistent(i) ==
    /\ i \in Incidents
    /\ i.recovered => i.mutated /\ i.approved
    /\ i.confirmed => i.recovered
    /\ scenario = "dependency_outage" => ~i.mutated

\* A verification that is confirmed by this call.
ConfirmedBy(i, call) == call.tool = "verify_recovery" /\ Confirms(i, call)

LEMMA AppliedKeeps ==
    ASSUME NEW i, Consistent(i), NEW call
    PROVE  /\ Consistent(Applied(i, call))
           /\ i.confirmed => Applied(i, call).confirmed
           /\ ConfirmedBy(i, call) => Applied(i, call).confirmed
           /\ Confirms(i, call) \in BOOLEAN
  <1>1. Confirms(i, call) \in BOOLEAN /\ (Confirms(i, call) => i.recovered)
    BY DEF Confirms, Consistent, Incidents
  <1>2. CASE Mutates(call)
    <2>1. CASE PolicyAsks(call)
      <3> DEFINE j == [i EXCEPT !.recovered = TRUE, !.mutated = TRUE,
                                !.approved = TRUE]
      <3>1. /\ j \in Incidents /\ j.recovered /\ j.mutated /\ j.approved
            /\ j.confirmed = i.confirmed
        BY DEF Consistent, Incidents
      <3>2. scenario # "dependency_outage"
        BY <2>1 DEF PolicyAsks
      <3>3. Applied(i, call) = j
        BY <1>2, <2>1 DEF Applied
      <3>4. call.tool # "verify_recovery"
        BY <1>2 DEF Mutates
      <3> HIDE DEF j
      <3> QED
        BY <1>1, <3>1, <3>2, <3>3, <3>4 DEF Consistent, ConfirmedBy
    <2>2. CASE ~PolicyAsks(call)
      <3>1. Applied(i, call) = i /\ call.tool # "verify_recovery"
        BY <1>2, <2>2 DEF Applied, Mutates
      <3> QED
        BY <1>1, <3>1 DEF ConfirmedBy
    <2> QED
      BY <2>1, <2>2
  <1>3. CASE ~Mutates(call) /\ call.tool = "verify_recovery"
    <2> DEFINE j == [i EXCEPT !.verified = TRUE,
                              !.confirmed = @ \/ Confirms(i, call)]
    <2>1. /\ j \in Incidents /\ j.recovered = i.recovered
          /\ j.mutated = i.mutated /\ j.approved = i.approved
          /\ j.confirmed = (i.confirmed \/ Confirms(i, call))
      BY <1>1 DEF Consistent, Incidents
    <2>2. Applied(i, call) = j
      BY <1>3 DEF Applied
    <2> HIDE DEF j
    <2> QED
      BY <1>1, <2>1, <2>2 DEF Consistent, ConfirmedBy
  <1>4. CASE ~Mutates(call) /\ call.tool # "verify_recovery"
    <2>1. Applied(i, call) = i
      BY <1>4 DEF Applied
    <2> QED
      BY <1>1, <1>4, <2>1 DEF ConfirmedBy
  <1> QED
    BY <1>2, <1>3, <1>4

\* After any number of calls the incident is consistent, and knows of every
\* verification that was confirmed, before the batch or in it.
LEMMA AfterKeeps ==
    ASSUME Consistent(incident)
    PROVE  \A batch : \A n \in Nat :
              /\ Consistent(After(batch, n))
              /\ incident.confirmed => After(batch, n).confirmed
              /\ \A k \in 1 .. n : ConfirmedBy(After(batch, k - 1), batch[k])
                                      => After(batch, n).confirmed
  <1> DEFINE Keeps(batch, n) ==
                /\ Consistent(After(batch, n))
                /\ incident.confirmed => After(batch, n).confirmed
                /\ \A k \in 1 .. n : ConfirmedBy(After(batch, k - 1), batch[k])
                                        => After(batch, n).confirmed
  <1> SUFFICES ASSUME NEW batch
               PROVE  \A n \in Nat : Keeps(batch, n)
    OBVIOUS
  <1> DEFINE T == {n \in Nat : ~Keeps(batch, n)}
  <1>1. ASSUME T # {} PROVE FALSE
    <2>1. PICK m \in T : \A n \in T : m <= n
      <3>1. T \subseteq Nat
        OBVIOUS
      <3> HIDE DEF T
      <3> QED
        BY <1>1, <3>1, LeastNatural
    <2>2. CASE m = 0
      <3>1. After(batch, 0) = incident /\ 1 .. 0 = {}
        BY AfterStep
      <3>2. Keeps(batch, 0)
        BY <3>1
      <3> QED
        BY <2>1, <2>2, <3>2
    <2>3. CASE m # 0
      <3>1. m - 1 \in Nat /\ ~ (m <= m - 1) /\ m \in Nat \ {0}
        BY <2>1, <2>3
      <3>2. Keeps(batch, m - 1)
        BY <2>1, <3>1
      <3>3. After(batch, m) = Applied(After(batch, m - 1), batch[m])
        BY <3>1, AfterStep
      <3>4. /\ Consistent(After(batch, m))
            /\ After(batch, m - 1).confirmed => After(batch, m).confirmed
            /\ ConfirmedBy(After(batch, m - 1), batch[m]) => After(batch, m).confirmed
        BY <3>2, <3>3, AppliedKeeps
      <3>5. \A k \in 1 .. m : k \in 1 .. m - 1 \/ k = m
        BY <3>1
      <3>6. Keeps(batch, m)
        BY <3>2, <3>4, <3>5
      <3> QED
        BY <2>1, <3>6
    <2> QED
      BY <2>2, <2>3
  <1> QED
    BY <1>1

\* What a call adds to the provider's counters.
LEMMA AppliedCounts ==
    ASSUME NEW i, Consistent(i), NEW call
    PROVE  /\ Applied(i, call).mutated
                 <=> i.mutated \/ (Mutates(call) /\ PolicyAsks(call))
           /\ Applied(i, call).verified
                 <=> i.verified \/ call.tool = "verify_recovery"
  <1>1. CASE Mutates(call)
    <2>1. call.tool # "verify_recovery"
      BY <1>1 DEF Mutates
    <2> QED
      BY <1>1, <2>1 DEF Applied, Consistent, Incidents
  <1>2. CASE ~Mutates(call)
    BY <1>2 DEF Applied, Consistent, Incidents
  <1> QED
    BY <1>1, <1>2

\* What a batch has added to them after n calls.
Counted(batch, n) ==
    /\ After(batch, n).mutated
          <=> \/ incident.mutated
              \/ \E k \in 1 .. n : Mutates(batch[k]) /\ PolicyAsks(batch[k])
    /\ After(batch, n).verified
          <=> \/ incident.verified
              \/ \E k \in 1 .. n : batch[k].tool = "verify_recovery"

LEMMA AfterCounts ==
    ASSUME Consistent(incident)
    PROVE  \A batch : \A n \in Nat : Counted(batch, n)
  <1> SUFFICES ASSUME NEW batch
               PROVE  \A n \in Nat : Counted(batch, n)
    OBVIOUS
  <1> DEFINE T == {n \in Nat : ~Counted(batch, n)}
  <1>1. ASSUME T # {} PROVE FALSE
    <2>1. PICK m \in T : \A n \in T : m <= n
      <3>1. T \subseteq Nat
        OBVIOUS
      <3> HIDE DEF T
      <3> QED
        BY <1>1, <3>1, LeastNatural
    <2>2. CASE m = 0
      <3>1. After(batch, 0) = incident /\ 1 .. 0 = {}
        BY AfterStep
      <3>2. Counted(batch, 0)
        BY <3>1 DEF Counted
      <3> QED
        BY <2>1, <2>2, <3>2
    <2>3. CASE m # 0
      <3>1. m - 1 \in Nat /\ ~ (m <= m - 1) /\ m \in Nat \ {0}
        BY <2>1, <2>3
      <3>2. Counted(batch, m - 1) /\ Consistent(After(batch, m - 1))
        BY <2>1, <3>1, AfterKeeps
      <3>3. After(batch, m) = Applied(After(batch, m - 1), batch[m])
        BY <3>1, AfterStep
      <3>4. /\ After(batch, m).mutated
                  <=> \/ After(batch, m - 1).mutated
                      \/ Mutates(batch[m]) /\ PolicyAsks(batch[m])
            /\ After(batch, m).verified
                  <=> \/ After(batch, m - 1).verified
                      \/ batch[m].tool = "verify_recovery"
        <4> DEFINE i == After(batch, m - 1)
                   call == batch[m]
        <4>1. Consistent(i) /\ After(batch, m) = Applied(i, call)
          BY <3>2, <3>3
        <4> HIDE DEF i, call
        <4>2. /\ Applied(i, call).mutated
                    <=> i.mutated \/ (Mutates(call) /\ PolicyAsks(call))
              /\ Applied(i, call).verified
                    <=> i.verified \/ call.tool = "verify_recovery"
          BY <4>1, AppliedCounts
        <4> QED
          BY <4>1, <4>2 DEF i, call
      <3>5. 1 .. m = (1 .. m - 1) \cup {m}
        BY <3>1
      <3>6. Counted(batch, m)
        BY <3>2, <3>4, <3>5 DEF Counted
      <3> QED
        BY <2>1, <3>6
    <2> QED
      BY <2>2, <2>3
  <1> QED
    BY <1>1

\* The counters grow exactly if a batch reports such a call.
LEMMA BatchCounts ==
    ASSUME Consistent(incident), NEW r \in Responses
    PROVE  /\ After(r.batch, r.calls).mutated
                 <=> \/ incident.mutated
                     \/ \E o \in Observations(r.batch) : Mutates(o)
           /\ After(r.batch, r.calls).verified
                 <=> \/ incident.verified
                     \/ \E o \in Observations(r.batch) : o.tool = "verify_recovery"
  <1>1. r.calls \in Nat /\ DOMAIN r.batch = 1 .. r.calls
    BY ReactResponses, EvaluationResponses
  <1>2. Counted(r.batch, r.calls)
    BY <1>1, AfterCounts
  <1> DEFINE b == r.batch
             seen(n) == [tool |-> b[n].tool, service |-> b[n].service,
                         recovered |-> After(b, n - 1).recovered,
                         confirmed |-> Confirms(After(b, n - 1), b[n])]
             told == {n \in DOMAIN b : ~Mutates(b[n]) \/ PolicyAsks(b[n])}
  <1>3. Observations(b) = {seen(n) : n \in told}
    BY DEF Observations
  <1>4. \A n : seen(n).tool = b[n].tool
    OBVIOUS
  <1> HIDE DEF seen
  <1>5. (\E o \in Observations(b) : Mutates(o))
            <=> \E n \in 1 .. r.calls : Mutates(b[n]) /\ PolicyAsks(b[n])
    BY <1>1, <1>3, <1>4 DEF Mutates
  <1>6. (\E o \in Observations(b) : o.tool = "verify_recovery")
            <=> \E n \in 1 .. r.calls : b[n].tool = "verify_recovery"
    BY <1>1, <1>3, <1>4 DEF Mutates
  <1> QED
    BY <1>2, <1>5, <1>6 DEF Counted

\* The calls the provider may make, and what they may report.
Calls == UNION {Range(r.batch) : r \in Responses}

Observation ==
    [tool : {c.tool : c \in Calls}, service : {c.service : c \in Calls},
     recovered : BOOLEAN, confirmed : BOOLEAN]

\* A batch reports no verification as confirmed that was not.
LEMMA BatchReports ==
    ASSUME Consistent(incident), NEW r \in Responses
    PROVE  /\ Observations(r.batch) \subseteq Observation
           /\ \A o \in Observations(r.batch) :
                 o.tool = "verify_recovery" /\ o.confirmed
                    => After(r.batch, r.calls).confirmed
  <1>1. r.calls \in Nat /\ DOMAIN r.batch = 1 .. r.calls
    BY ReactResponses, EvaluationResponses
  <1>2. ASSUME NEW n \in DOMAIN r.batch
        PROVE  /\ r.batch[n] \in Calls
               /\ n - 1 \in Nat
               /\ Consistent(After(r.batch, n - 1))
               /\ Confirms(After(r.batch, n - 1), r.batch[n]) \in BOOLEAN
               /\ After(r.batch, n - 1).recovered \in BOOLEAN
    <2>1. r.batch[n] \in Calls
      BY DEF Calls, Range
    <2>2. n - 1 \in Nat
      BY <1>1
    <2>3. Consistent(After(r.batch, n - 1))
      BY <2>2, AfterKeeps
    <2> QED
      BY <2>1, <2>2, <2>3, AppliedKeeps DEF Consistent, Incidents
  <1>3. ASSUME NEW o \in Observations(r.batch)
        PROVE  /\ o \in Observation
               /\ o.tool = "verify_recovery" /\ o.confirmed
                     => After(r.batch, r.calls).confirmed
    <2>1. PICK n \in DOMAIN r.batch :
             o = [tool |-> r.batch[n].tool, service |-> r.batch[n].service,
                  recovered |-> After(r.batch, n - 1).recovered,
                  confirmed |-> Confirms(After(r.batch, n - 1), r.batch[n])]
      BY DEF Observations
    <2>2. o \in Observation
      BY <1>2, <2>1 DEF Observation
    <2>3. o.tool = "verify_recovery" /\ o.confirmed
             => ConfirmedBy(After(r.batch, n - 1), r.batch[n])
      BY <2>1 DEF ConfirmedBy
    <2>4. n \in 1 .. r.calls
      BY <1>1
    <2> QED
      BY <1>1, <2>2, <2>3, <2>4, AfterKeeps
  <1> QED
    BY <1>3

(***************************************************************************)
(* The record of the run.                                                  *)
(***************************************************************************)

StepRecord ==
    [number : Nat, response : Responses, observations : SUBSET Observation]

RunTypes ==
    /\ at \in {"start", "model", "tools", "gate", "end"}
    /\ turns \in Seq(Seq(StepRecord)) /\ steps \in Seq(StepRecord)
    /\ given \in Seq(Responses)
    /\ at = "end" => status \in {"completed", "failed"}
    /\ status \in {"completed", "failed"} => at = "end"

\* The steps so far: those of the turns that are over, and, until the run
\* ends, those of the current one.
Record == IF at = "end" THEN Recorded ELSE Recorded \o steps

\* In every turn the steps are numbered from one.
InOrder(someSteps) == \A n \in DOMAIN someSteps : someSteps[n].number = n

Numbered ==
    /\ \A t \in DOMAIN turns : InOrder(turns[t])
    /\ InOrder(steps)

Answers(someSteps) == [n \in DOMAIN someSteps |-> someSteps[n].response]

\* An answer is recorded with its step; only the one whose tools are running is
\* not, and never will be if they are interrupted.
Answered ==
    IF at = "tools"
    THEN /\ response \in Responses /\ response.stop = "tool_use"
         /\ given = Append(Answers(Record), response)
    ELSE \/ given = Answers(Record)
         \/ /\ at = "end" /\ status = "failed"
            /\ \E r \in Responses : /\ r.stop = "tool_use"
                                    /\ given = Append(Answers(Record), r)

\* What the record reports has happened, and the evidence that the gate has
\* seen is in the record.
Shown ==
    /\ \A o \in Seen(Record) :
          o.tool = "verify_recovery" /\ o.confirmed => incident.confirmed
    /\ evidenceSeen \subseteq Evidence(Record)

\* While no batch was interrupted, what was mutated and what was verified is
\* exactly what the record reports.
Matches ==
    status # "failed" =>
        /\ incident.mutated <=> \E o \in Seen(Record) : Mutates(o)
        /\ incident.verified <=> \E o \in Seen(Record) : o.tool = "verify_recovery"

EvaluationInv ==
    /\ RunTypes /\ Numbered /\ Answered
    /\ Consistent(incident) /\ Shown /\ Matches /\ CompletedOnRecord

LEMMA RecordType ==
    ASSUME RunTypes
    PROVE  Recorded \in Seq(StepRecord) /\ Record \in Seq(StepRecord)
  <1>1. Recorded \in Seq(StepRecord)
    BY FlattenType DEF RunTypes, Recorded
  <1> QED
    BY <1>1 DEF RunTypes, Record

\* A step of the current turn, numbered after those before it.
LEMMA StepType ==
    ASSUME RunTypes, Numbered, NEW r \in Responses, NEW o \in SUBSET Observation
    PROVE  /\ Step(r, o) \in StepRecord
           /\ Step(r, o).response = r /\ Step(r, o).observations = o
           /\ Append(steps, Step(r, o)) \in Seq(StepRecord)
           /\ InOrder(Append(steps, Step(r, o)))
           /\ Recorded \o Append(steps, Step(r, o))
                 = Append(Recorded \o steps, Step(r, o))
  <1> DEFINE x == Step(r, o)
  <1>1. steps \in Seq(StepRecord) /\ Len(steps) + 1 \in Nat /\ Len(steps) \in Nat
    BY DEF RunTypes
  <1>2. /\ x \in StepRecord /\ x.response = r /\ x.observations = o
        /\ x.number = Len(steps) + 1
    BY <1>1 DEF Step, StepRecord
  <1> HIDE DEF x
  <1>3. /\ Append(steps, x) \in Seq(StepRecord)
        /\ Len(Append(steps, x)) = Len(steps) + 1
        /\ \A n \in 1 .. Len(steps) : Append(steps, x)[n] = steps[n]
        /\ Append(steps, x)[Len(steps) + 1] = x
    BY <1>1, <1>2
  <1>4. InOrder(Append(steps, x))
    <2>1. DOMAIN Append(steps, x) = 1 .. Len(steps) + 1
      BY <1>1, <1>3
    <2>2. \A n \in 1 .. Len(steps) : steps[n].number = n
      BY <1>1 DEF Numbered, InOrder
    <2>3. \A n \in 1 .. Len(steps) + 1 : n \in 1 .. Len(steps) \/ n = Len(steps) + 1
      BY <1>1
    <2> QED
      BY <1>2, <1>3, <2>1, <2>2, <2>3 DEF InOrder
  <1>5. Recorded \o Append(steps, x) = Append(Recorded \o steps, x)
    BY <1>1, <1>2, RecordType
  <1> QED
    BY <1>2, <1>3, <1>4, <1>5 DEF x

\* What the end of a turn or of the run does to the record.
LEMMA TurnEnds ==
    ASSUME RunTypes, Numbered, NEW done \in Seq(StepRecord), InOrder(done)
    PROVE  /\ Append(turns, done) \in Seq(Seq(StepRecord))
           /\ \A t \in DOMAIN Append(turns, done) : InOrder(Append(turns, done)[t])
           /\ FlattenSeq(Append(turns, done)) = Recorded \o done
           /\ Last(Append(turns, done)) = done
  <1>1. turns \in Seq(Seq(StepRecord)) /\ Len(turns) \in Nat
    BY DEF RunTypes
  <1>2. /\ Append(turns, done) \in Seq(Seq(StepRecord))
        /\ Len(Append(turns, done)) = Len(turns) + 1
        /\ \A t \in 1 .. Len(turns) : Append(turns, done)[t] = turns[t]
        /\ Append(turns, done)[Len(turns) + 1] = done
    BY <1>1
  <1>3. \A t \in DOMAIN Append(turns, done) : InOrder(Append(turns, done)[t])
    <2>1. DOMAIN Append(turns, done) = 1 .. Len(turns) + 1
      BY <1>1, <1>2
    <2>2. \A t \in 1 .. Len(turns) + 1 : t \in 1 .. Len(turns) \/ t = Len(turns) + 1
      BY <1>1
    <2>3. \A t \in 1 .. Len(turns) : InOrder(turns[t])
      BY <1>1 DEF Numbered
    <2> QED
      BY <1>2, <2>1, <2>2, <2>3
  <1>4. FlattenSeq(Append(turns, done)) = Recorded \o done
    BY <1>1, FlattenAppend DEF Recorded
  <1>5. Last(Append(turns, done)) = done
    BY <1>1, <1>2 DEF Last
  <1> QED
    BY <1>2, <1>3, <1>4, <1>5

LEMMA CloseRecords ==
    ASSUME RunTypes, Numbered, NEW final \in {"completed", "failed"},
           NEW done \in Seq(StepRecord), InOrder(done), Close(final, done),
           given' \in Seq(Responses)
    PROVE  RunTypes' /\ Numbered' /\ Record' = Recorded \o done
  <1>1. CASE done = <<>>
    <2>1. turns' = turns /\ UNCHANGED steps /\ at' = "end" /\ status' = final
      BY <1>1 DEF Close
    <2>2. Recorded \o done = Recorded
      BY <1>1, RecordType
    <2>3. Record' = Recorded
      BY <2>1 DEF Record, Recorded
    <2> QED
      BY <2>1, <2>2, <2>3 DEF RunTypes, Numbered
  <1>2. CASE done # <<>>
    <2>1. /\ turns' = Append(turns, done) /\ UNCHANGED steps /\ at' = "end"
          /\ status' = final
      BY <1>2 DEF Close
    <2>2. Record' = FlattenSeq(Append(turns, done))
      BY <2>1 DEF Record, Recorded
    <2> QED
      BY <2>1, <2>2, TurnEnds DEF RunTypes, Numbered
  <1> QED
    BY <1>1, <1>2

LEMMA AnswersAppend ==
    ASSUME NEW s \in Seq(StepRecord), NEW x \in StepRecord
    PROVE  Answers(Append(s, x)) = Append(Answers(s), x.response)
  <1>1. /\ Len(s) \in Nat /\ DOMAIN s = 1 .. Len(s)
        /\ DOMAIN Append(s, x) = 1 .. Len(s) + 1
        /\ \A n \in 1 .. Len(s) : Append(s, x)[n] = s[n]
        /\ Append(s, x)[Len(s) + 1] = x
    OBVIOUS
  <1>2. Answers(s) \in Seq(Responses) /\ Len(Answers(s)) = Len(s)
        /\ \A n \in 1 .. Len(s) : Answers(s)[n] = s[n].response
    <2>1. \A n \in 1 .. Len(s) : s[n] \in StepRecord
      OBVIOUS
    <2>2. \A n \in 1 .. Len(s) : s[n].response \in Responses
      BY <2>1 DEF StepRecord
    <2> QED
      BY <1>1, <2>2 DEF Answers
  <1>3. x.response \in Responses
    BY DEF StepRecord
  <1>4. /\ Append(Answers(s), x.response) \in Seq(Responses)
        /\ Len(Append(Answers(s), x.response)) = Len(s) + 1
        /\ \A n \in 1 .. Len(s) : Append(Answers(s), x.response)[n] = s[n].response
        /\ Append(Answers(s), x.response)[Len(s) + 1] = x.response
    BY <1>1, <1>2, <1>3
  <1>5. Append(Answers(s), x.response)
           = [n \in 1 .. Len(s) + 1 |-> Append(Answers(s), x.response)[n]]
    BY <1>1, <1>4
  <1>6. \A n \in 1 .. Len(s) + 1 :
           Append(s, x)[n].response = Append(Answers(s), x.response)[n]
    <2>1. \A n \in 1 .. Len(s) + 1 : n \in 1 .. Len(s) \/ n = Len(s) + 1
      BY <1>1
    <2> QED
      BY <1>1, <1>4, <2>1
  <1>7. Answers(Append(s, x)) = [n \in 1 .. Len(s) + 1 |-> Append(s, x)[n].response]
    BY <1>1 DEF Answers
  <1> QED
    BY <1>5, <1>6, <1>7

\* What a longer record has seen, and the evidence in it.
LEMMA SeenAppend ==
    ASSUME NEW s \in Seq(StepRecord), NEW x \in StepRecord
    PROVE  /\ Seen(Append(s, x)) = Seen(s) \cup x.observations
           /\ Evidence(s) \subseteq Evidence(Append(s, x))
  <1>1. /\ Len(s) \in Nat /\ DOMAIN s = 1 .. Len(s)
        /\ DOMAIN Append(s, x) = 1 .. Len(s) + 1
        /\ \A n \in 1 .. Len(s) : Append(s, x)[n] = s[n]
        /\ Append(s, x)[Len(s) + 1] = x
    OBVIOUS
  <1>2. 1 .. Len(s) + 1 = (1 .. Len(s)) \cup {Len(s) + 1}
    BY <1>1
  <1>3. Range(Append(s, x)) = Range(s) \cup {x}
    BY <1>1, <1>2 DEF Range
  <1>4. Seen(Append(s, x)) = Seen(s) \cup x.observations
    BY <1>3 DEF Seen
  <1>5. Evidence(s) \subseteq Evidence(Append(s, x))
    BY <1>4 DEF Evidence
  <1> QED
    BY <1>4, <1>5

\* The steps of the current turn are part of the record.
LEMMA TurnIsRecorded ==
    ASSUME RunTypes, at # "end"
    PROVE  Evidence(steps) \subseteq Evidence(Record)
  <1>1. /\ Recorded \in Seq(StepRecord) /\ steps \in Seq(StepRecord)
        /\ Record = Recorded \o steps
    BY RecordType DEF RunTypes, Record
  <1>2. ASSUME NEW n \in DOMAIN steps
        PROVE  steps[n] \in Range(Recorded \o steps)
    <2>1. n \in 1 .. Len(steps) /\ Len(steps) \in Nat /\ Len(Recorded) \in Nat
      BY <1>1
    <2>2. /\ Len(Recorded) + n \in DOMAIN (Recorded \o steps)
          /\ (Recorded \o steps)[Len(Recorded) + n] = steps[n]
      BY <1>1, <2>1
    <2> QED
      BY <2>2 DEF Range
  <1>3. Range(steps) \subseteq Range(Record)
    BY <1>1, <1>2 DEF Range
  <1>4. Seen(steps) \subseteq Seen(Record)
    BY <1>3 DEF Seen
  <1> QED
    BY <1>4 DEF Evidence

(***************************************************************************)
(* The steps.                                                              *)
(***************************************************************************)

\* A record that is as before, and an incident that has forgotten nothing.
LEMMA ShownKept ==
    ASSUME Shown, Record' = Record, UNCHANGED scenario,
           incident.confirmed => incident'.confirmed,
           evidenceSeen' \subseteq Evidence(Record)
    PROVE  Shown'
  <1>1. Evidence(Record)' = Evidence(Record)
    BY DEF Evidence, RequiredEvidence
  <1>2. Seen(Record)' = Seen(Record)
    BY DEF Seen
  <1> QED
    BY <1>1, <1>2 DEF Shown

\* A record that has grown by a step.
LEMMA ShownGrows ==
    ASSUME RunTypes, Shown, UNCHANGED scenario, NEW x \in StepRecord,
           Record' = Append(Record, x), UNCHANGED evidenceSeen,
           incident.confirmed => incident'.confirmed,
           \A o \in x.observations :
               o.tool = "verify_recovery" /\ o.confirmed => incident'.confirmed
    PROVE  Shown'
  <1>1. Record \in Seq(StepRecord)
    BY RecordType
  <1>2. Evidence(Record)' = Evidence(Append(Record, x))
    BY DEF Evidence, RequiredEvidence
  <1>3. Seen(Record)' = Seen(Record) \cup x.observations
    BY <1>1, SeenAppend DEF Seen
  <1>4. evidenceSeen' \subseteq Evidence(Record)'
    BY <1>1, <1>2, SeenAppend DEF Shown
  <1> QED
    BY <1>3, <1>4 DEF Shown

LEMMA MatchesKept ==
    ASSUME Matches, Record' = Record, UNCHANGED incident,
           status' # "failed" => status # "failed"
    PROVE  Matches'
  <1>1. Seen(Record)' = Seen(Record)
    BY DEF Seen
  <1> QED
    BY <1>1 DEF Matches, Mutates

\* A step that reports what its calls have added to the counters.
LEMMA MatchesGrows ==
    ASSUME RunTypes, Matches, NEW x \in StepRecord, Record' = Append(Record, x),
           status # "failed",
           incident'.mutated
               <=> incident.mutated \/ \E o \in x.observations : Mutates(o),
           incident'.verified
               <=> \/ incident.verified
                   \/ \E o \in x.observations : o.tool = "verify_recovery"
    PROVE  Matches'
  <1>1. Record \in Seq(StepRecord)
    BY RecordType
  <1>2. Seen(Record)' = Seen(Record) \cup x.observations
    BY <1>1, SeenAppend DEF Seen
  <1>3. /\ incident.mutated <=> \E o \in Seen(Record) : Mutates(o)
        /\ incident.verified <=> \E o \in Seen(Record) : o.tool = "verify_recovery"
    BY DEF Matches
  <1>4. (\E o \in Seen(Record)' : Mutates(o))
            <=> \/ \E o \in Seen(Record) : Mutates(o)
                \/ \E o \in x.observations : Mutates(o)
    BY <1>2
  <1>5. (\E o \in Seen(Record)' : o.tool = "verify_recovery")
            <=> \/ \E o \in Seen(Record) : o.tool = "verify_recovery"
                \/ \E o \in x.observations : o.tool = "verify_recovery"
    BY <1>2
  <1> QED
    BY <1>3, <1>4, <1>5 DEF Matches, Mutates

\* The run fails with the steps it has.
LEMMA FailKeeps ==
    ASSUME EvaluationInv, at # "end", Interrupted,
           UNCHANGED <<scenario, evidenceSeen>>,
           Consistent(incident'), incident.confirmed => incident'.confirmed
    PROVE  EvaluationInv'
  <1> USE DEF EvaluationInv
  <1>1. Close("failed", steps) /\ UNCHANGED <<response, given>>
    BY DEF Interrupted, Fail
  <1>2. /\ steps \in Seq(StepRecord) /\ InOrder(steps)
        /\ given' \in Seq(Responses) /\ at' = "end" /\ status' = "failed"
    BY <1>1 DEF RunTypes, Numbered, Close
  <1>3. RunTypes' /\ Numbered' /\ Record' = Record
    BY <1>1, <1>2, CloseRecords DEF Record
  <1>4. Answered'
    BY <1>1, <1>2, <1>3 DEF Answered, Answers
  <1>5. Shown'
    BY <1>3, ShownKept DEF Shown
  <1>6. CompletedOnRecord' /\ Matches'
    BY <1>2 DEF CompletedOnRecord, Matches
  <1>7. Consistent(incident)'
    BY DEF Consistent, Incidents
  <1> QED
    BY <1>3, <1>4, <1>5, <1>6, <1>7

\* The model answers: the answer is recorded, or its tools are called.
LEMMA ModelKeeps ==
    ASSUME EvaluationInv, NEW r \in Responses, ModelResponds(r),
           UNCHANGED <<scenario, incident, evidenceSeen>>
    PROVE  EvaluationInv'
  <1> USE DEF EvaluationInv
  <1> DEFINE x == Step(r, {})
  <1>1. /\ at = "model" /\ response' = r /\ given' = Append(given, r)
        /\ given = Answers(Record) /\ status \notin {"completed", "failed"}
    BY DEF ModelResponds, Answered, RunTypes
  <1>2. given' \in Seq(Responses)
    BY <1>1 DEF RunTypes
  <1>3. /\ x \in StepRecord /\ x.response = r /\ x.observations = {}
        /\ Append(steps, x) \in Seq(StepRecord) /\ InOrder(Append(steps, x))
        /\ Recorded \o Append(steps, x) = Append(Record, x)
    BY <1>1, StepType DEF Record
  <1>4. Consistent(incident)'
    BY DEF Consistent, Incidents
  <1>5. Answers(Append(Record, x)) = Append(Answers(Record), r)
    BY <1>3, RecordType, AnswersAppend
  <1> HIDE DEF x
  <1>6. ASSUME Record' = Append(Record, x), at' # "tools"
        PROVE  Answered' /\ Shown' /\ Matches'
    <2>1. given' = Answers(Record)'
      BY <1>1, <1>5, <1>6 DEF Answers
    <2>2. Shown'
      BY <1>3, <1>6, ShownGrows
    <2>3. Matches'
      BY <1>1, <1>3, <1>6, MatchesGrows
    <2> QED
      BY <1>6, <2>1, <2>2, <2>3 DEF Answered
  <1>7. ASSUME NEW final \in {"completed", "failed"},
               Close(final, Append(steps, x)), final = "completed" => ~gated
        PROVE  EvaluationInv'
    <2>1. RunTypes' /\ Numbered' /\ Record' = Append(Record, x)
      BY <1>2, <1>3, <1>7, CloseRecords
    <2>2. at' = "end" /\ status' = final /\ gated' = gated
      BY <1>7 DEF Close
    <2>3. CompletedOnRecord'
      BY <1>7, <2>2 DEF CompletedOnRecord
    <2> QED
      BY <1>4, <1>6, <2>1, <2>2, <2>3
  <1>8. CASE Fail(Append(steps, x))
    BY <1>7, <1>8 DEF Fail
  <1>9. CASE /\ r.stop = "tool_use" /\ at' = "tools"
             /\ UNCHANGED <<gated, status, turns, steps, iteration>>
    <2>1. Record' = Record
      BY <1>1, <1>9 DEF Record, Recorded
    <2>2. RunTypes' /\ Numbered'
      BY <1>1, <1>2, <1>9 DEF RunTypes, Numbered
    <2>3. Answered'
      BY <1>1, <1>9, <2>1 DEF Answered, Answers
    <2>4. Shown'
      BY <2>1, ShownKept DEF Shown
    <2>5. CompletedOnRecord'
      BY <1>1, <1>9 DEF CompletedOnRecord
    <2>6. Matches'
      BY <1>9, <2>1, MatchesKept
    <2> QED
      BY <1>4, <2>2, <2>3, <2>4, <2>5, <2>6
  <1>10. CASE /\ at' = "gate" /\ steps' = Append(steps, x)
              /\ UNCHANGED <<gated, status, turns, iteration>>
    <2>1. Record' = Append(Record, x)
      BY <1>3, <1>10 DEF Record, Recorded
    <2>2. RunTypes' /\ Numbered'
      BY <1>1, <1>2, <1>3, <1>10 DEF RunTypes, Numbered
    <2>3. CompletedOnRecord'
      BY <1>1, <1>10 DEF CompletedOnRecord
    <2> QED
      BY <1>4, <1>6, <1>10, <2>1, <2>2, <2>3
  <1>11. CASE ~gated /\ Close("completed", Append(steps, x))
    BY <1>7, <1>11
  <1> QED
    BY <1>8, <1>9, <1>10, <1>11 DEF ModelResponds, x

\* The tools return: their step is recorded with what they report.
LEMMA BatchKeeps ==
    ASSUME EvaluationInv, BatchReturns
    PROVE  EvaluationInv'
  <1> USE DEF EvaluationInv
  <1> DEFINE o == Observations(response.batch)
  <1> DEFINE x == Step(response, o)
  <1>1. /\ at = "tools" /\ at' = "model" /\ steps' = Append(steps, x)
        /\ UNCHANGED <<turns, response, given, gated, status, scenario, evidenceSeen>>
        /\ incident' = After(response.batch, response.calls)
    BY DEF BatchReturns, ToolsReturn, NextIteration
  <1>2. /\ response \in Responses
        /\ given = Append(Answers(Record), response)
    BY <1>1 DEF Answered
  <1>3. response.calls \in Nat
    BY <1>2, ReactResponses
  <1>4. /\ o \in SUBSET Observation
        /\ \A p \in o : p.tool = "verify_recovery" /\ p.confirmed
                           => incident'.confirmed
    BY <1>1, <1>2, BatchReports
  <1>5. Consistent(incident') /\ (incident.confirmed => incident'.confirmed)
    BY <1>1, <1>3, AfterKeeps
  <1>a. /\ incident'.mutated <=> incident.mutated \/ \E p \in o : Mutates(p)
        /\ incident'.verified
              <=> incident.verified \/ \E p \in o : p.tool = "verify_recovery"
    BY <1>1, <1>2, BatchCounts
  <1> HIDE DEF o
  <1>6. /\ x \in StepRecord /\ x.response = response /\ x.observations = o
        /\ Append(steps, x) \in Seq(StepRecord) /\ InOrder(Append(steps, x))
        /\ Recorded \o Append(steps, x) = Append(Record, x)
    BY <1>1, <1>2, <1>4, StepType DEF Record
  <1> HIDE DEF x
  <1>7. Record' = Append(Record, x)
    BY <1>1, <1>6 DEF Record, Recorded
  <1>8. Answered'
    <2>1. Answers(Append(Record, x)) = Append(Answers(Record), response)
      BY <1>6, RecordType, AnswersAppend
    <2>2. given' = Answers(Record)'
      BY <1>1, <1>2, <1>7, <2>1 DEF Answers
    <2> QED
      BY <1>1, <2>2 DEF Answered
  <1>9. Shown'
    BY <1>1, <1>4, <1>5, <1>6, <1>7, ShownGrows
  <1>10. RunTypes' /\ Numbered'
    BY <1>1, <1>6 DEF RunTypes, Numbered
  <1>11. CompletedOnRecord'
    BY <1>1 DEF CompletedOnRecord, RunTypes
  <1>12. Consistent(incident)'
    BY <1>1, <1>5 DEF Consistent, Incidents
  <1>13. Matches'
    BY <1>1, <1>6, <1>7, <1>a, MatchesGrows DEF RunTypes
  <1> QED
    BY <1>8, <1>9, <1>10, <1>11, <1>12, <1>13

\* The gate sends the run back, or lets it complete.
LEMMA GateKeeps ==
    ASSUME EvaluationInv, GateJudges
    PROVE  EvaluationInv'
  <1> USE DEF EvaluationInv
  <1> DEFINE seen == evidenceSeen \cup Evidence(steps)
  <1>1. /\ evidenceSeen' = seen /\ at = "gate"
        /\ UNCHANGED <<scenario, incident, response, given>>
    BY DEF GateJudges, GateRejects, GateAllows
  <1>2. seen \subseteq Evidence(Record)
    BY <1>1, TurnIsRecorded DEF Shown
  <1>3. steps \in Seq(StepRecord) /\ InOrder(steps) /\ given' \in Seq(Responses)
    BY <1>1 DEF RunTypes, Numbered
  <1>4. Consistent(incident)'
    BY <1>1 DEF Consistent, Incidents
  <1> HIDE DEF seen
  <1>5. CASE GateRejects(Goal(seen))
    <2>1. /\ turns' = Append(turns, steps) /\ steps' = <<>> /\ at' = "model"
          /\ status' = status
      BY <1>5 DEF GateRejects, NextIteration
    <2>2. Recorded' = Record
      BY <1>1, <1>3, <2>1, TurnEnds DEF Record, Recorded
    <2>3. Record' = Record
      <3>1. Record' = Recorded' \o <<>>
        BY <2>1 DEF Record
      <3>2. Record \o <<>> = Record
        BY RecordType
      <3> QED
        BY <2>2, <3>1, <3>2
    <2>4. RunTypes' /\ Numbered'
      <3>1. steps' \in Seq(StepRecord) /\ InOrder(steps)'
        BY <2>1 DEF InOrder
      <3> QED
        BY <1>1, <1>3, <2>1, <3>1, TurnEnds DEF RunTypes, Numbered
    <2>5. Answered'
      BY <1>1, <2>1, <2>3 DEF Answered, Answers
    <2>6. Shown'
      BY <1>1, <1>2, <2>3, ShownKept
    <2>7. CompletedOnRecord'
      BY <1>1, <2>1 DEF CompletedOnRecord, RunTypes
    <2>8. Matches'
      BY <1>1, <2>1, <2>3, MatchesKept
    <2> QED
      BY <1>4, <2>4, <2>5, <2>6, <2>7, <2>8
  <1>6. CASE GateAllows(Goal(seen))
    <2>1. Close("completed", steps) /\ Allowed(Goal(seen))
      BY <1>6 DEF GateAllows
    <2>2. RunTypes' /\ Numbered' /\ Record' = Record
      BY <1>1, <1>3, <2>1, CloseRecords DEF Record
    <2>3. at' = "end" /\ status' = "completed" /\ gated' = gated
      BY <2>1 DEF Close
    <2>4. Answered'
      BY <1>1, <2>2, <2>3 DEF Answered, Answers
    <2>5. Shown'
      BY <1>1, <1>2, <2>2, ShownKept
    <2>6. /\ RequiredEvidence \subseteq seen
          /\ incident.recovered \/ Escalation(seen)
      BY <2>1 DEF Allowed, Missing, Goal
    <2>7. Evidence(Recorded)' = RequiredEvidence'
      <3>1. Evidence(Record) = RequiredEvidence
        BY <1>2, <2>6 DEF Evidence
      <3>2. Recorded' = Record
        BY <2>2, <2>3 DEF Record
      <3> QED
        BY <1>1, <3>1, <3>2 DEF Evidence, RequiredEvidence
    <2>a. Matches'
      <3>1. status # "failed"
        BY <1>1 DEF Answered, RunTypes
      <3> QED
        BY <1>1, <2>2, <3>1, MatchesKept
    <2>b. /\ incident'.mutated <=> (\E o \in Seen(Recorded) : Mutates(o))'
          /\ incident'.verified
                <=> (\E o \in Seen(Recorded) : o.tool = "verify_recovery")'
      BY <2>3, <2>a DEF Matches, Record
    <2>8. CASE Escalation(seen)
      <3>1. scenario = "dependency_outage" /\ Escalates(steps) /\ ~incident.mutated
        BY <2>8 DEF Escalation, Consistent
      <3>2. turns' = Append(turns, steps)
        BY <2>1, <3>1 DEF Close, Escalates
      <3>3. Last(turns)' = steps
        BY <1>3, <3>2, TurnEnds
      <3> QED
        BY <1>1, <1>4, <2>2, <2>4, <2>5, <2>7, <2>a, <2>b, <3>1, <3>3
        DEF CompletedOnRecord, Escalates
    <2>9. CASE ~Escalation(seen)
      <3>1. incident.recovered /\ incident.approved
        BY <2>6, <2>9 DEF Consistent
      <3> QED
        BY <1>1, <1>4, <2>2, <2>4, <2>5, <2>7, <2>a, <2>b, <3>1
        DEF CompletedOnRecord
    <2> QED
      BY <2>8, <2>9
  <1> QED
    BY <1>5, <1>6 DEF GateJudges, seen

LEMMA EvaluationInit_Inv == EvaluationInit => EvaluationInv
  <1> SUFFICES ASSUME EvaluationInit
               PROVE  EvaluationInv
    OBVIOUS
  <1>1. /\ at = "start" /\ status = "created" /\ turns = <<>> /\ steps = <<>>
        /\ given = <<>> /\ incident = Untouched /\ evidenceSeen = {}
    BY DEF EvaluationInit, Init
  <1>2. RunTypes /\ Numbered
    BY <1>1 DEF RunTypes, Numbered, InOrder
  <1>3. Record = <<>>
    <2>1. Recorded = <<>>
      BY <1>1 DEF Recorded, FlattenSeq
    <2>2. <<>> \o <<>> = <<>>
      OBVIOUS
    <2> QED
      BY <1>1, <2>1, <2>2 DEF Record
  <1>4. Answered
    BY <1>1, <1>3 DEF Answered, Answers
  <1>5. Consistent(incident)
    BY <1>1 DEF Consistent, Incidents, Untouched
  <1>6. Shown
    BY <1>1, <1>3 DEF Shown, Seen, Range
  <1>7. CompletedOnRecord
    BY <1>1 DEF CompletedOnRecord
  <1>8. Matches
    BY <1>1, <1>3 DEF Matches, Seen, Range, Untouched
  <1> QED
    BY <1>2, <1>4, <1>5, <1>6, <1>7, <1>8 DEF EvaluationInv

LEMMA EvaluationStep ==
    EvaluationInv /\ [EvaluationNext]_evaluationVars => EvaluationInv'
  <1> SUFFICES ASSUME EvaluationInv, [EvaluationNext]_evaluationVars
               PROVE  EvaluationInv'
    OBVIOUS
  <1>1. CASE Start /\ UNCHANGED <<scenario, incident, evidenceSeen>>
    <2>1. /\ at = "start" /\ at' = "model" /\ status' = "running"
          /\ UNCHANGED <<turns, steps, response, given>>
      BY <1>1 DEF Start
    <2>2. Record' = Record
      BY <2>1 DEF Record, Recorded
    <2>3. RunTypes' /\ Numbered'
      BY <2>1 DEF EvaluationInv, RunTypes, Numbered
    <2>4. Answered'
      BY <2>1, <2>2 DEF EvaluationInv, Answered, Answers
    <2>5. Shown'
      BY <1>1, <2>2, ShownKept DEF EvaluationInv, Shown
    <2>6. CompletedOnRecord' /\ Consistent(incident)'
      BY <1>1, <2>1 DEF EvaluationInv, CompletedOnRecord, Consistent, Incidents
    <2>7. Matches'
      <3>1. status = "created"
        BY <1>1 DEF Start
      <3> QED
        BY <1>1, <2>2, <3>1, MatchesKept DEF EvaluationInv
    <2> QED
      BY <2>3, <2>4, <2>5, <2>6, <2>7 DEF EvaluationInv
  <1>2. ASSUME NEW r \in Responses, ModelResponds(r),
               UNCHANGED <<scenario, incident, evidenceSeen>>
        PROVE  EvaluationInv'
    BY <1>2, ModelKeeps
  <1>3. CASE /\ LoopEnds \/ (at # "tools" /\ Timeout) \/ ModelRaises \/ GateRaises
             /\ UNCHANGED <<scenario, incident, evidenceSeen>>
    <2>1. at # "end" /\ Interrupted
      BY <1>3 DEF LoopEnds, Timeout, ModelRaises, GateRaises, Interrupted
    <2> QED
      BY <1>3, <2>1, FailKeeps DEF EvaluationInv
  <1>4. ASSUME NEW n \in 0 .. response.calls, BatchInterrupted(n)
        PROVE  EvaluationInv'
    <2>1. at = "tools" /\ Interrupted /\ UNCHANGED <<scenario, evidenceSeen>>
      BY <1>4 DEF BatchInterrupted, Timeout, ToolsRaise
    <2>2. response.calls \in Nat
      BY <2>1, ReactResponses DEF EvaluationInv, Answered
    <2>3. n \in Nat
      BY <2>2
    <2>4. Consistent(incident') /\ (incident.confirmed => incident'.confirmed)
      BY <1>4, <2>3, AfterKeeps DEF BatchInterrupted, EvaluationInv
    <2> QED
      BY <2>1, <2>4, FailKeeps
  <1>5. CASE UNCHANGED evaluationVars
    <2>1. Record' = Record
      BY <1>5 DEF evaluationVars, vars, Record, Recorded
    <2>2. RunTypes' /\ Numbered'
      BY <1>5 DEF evaluationVars, vars, EvaluationInv, RunTypes, Numbered
    <2>3. Answered'
      BY <1>5, <2>1 DEF evaluationVars, vars, EvaluationInv, Answered, Answers
    <2>4. Shown'
      BY <1>5, <2>1, ShownKept DEF evaluationVars, vars, EvaluationInv, Shown
    <2>5. CompletedOnRecord' /\ Consistent(incident)'
      BY <1>5 DEF evaluationVars, vars, EvaluationInv, CompletedOnRecord,
          Consistent, Incidents, Evidence, RequiredEvidence, Recorded, Escalates,
          Seen, Mutates
    <2>6. Matches'
      BY <1>5, <2>1, MatchesKept DEF evaluationVars, vars, EvaluationInv
    <2> QED
      BY <2>2, <2>3, <2>4, <2>5, <2>6 DEF EvaluationInv
  <1> QED
    BY <1>1, <1>2, <1>3, <1>4, <1>5, BatchKeeps, GateKeeps
    DEF EvaluationNext, Elsewhere

THEOREM EvaluationInvariant == EvaluationSpec => []EvaluationInv
BY EvaluationInit_Inv, EvaluationStep, PTL DEF EvaluationSpec

(***************************************************************************)
(* What follows.                                                           *)
(***************************************************************************)

\* run() returns a terminal record in which every answer of the provider is
\* found once and in order; only the one in whose tools the run was interrupted
\* may be missing at its end (react_runtime.py:99-209).
THEOREM EveryAnswerRecorded == EvaluationSpec => []RecordedOnce
  <1>1. EvaluationInv => RecordedOnce
    <2> SUFFICES ASSUME EvaluationInv, at = "end"
                 PROVE  /\ status \in {"completed", "failed"}
                        /\ \A t \in DOMAIN turns : \A n \in DOMAIN turns[t] :
                               turns[t][n].number = n
                        /\ \/ Answers(Recorded) = given
                           \/ /\ Answers(Recorded) = Front(given)
                              /\ Last(given).stop = "tool_use"
                              /\ status = "failed"
      BY DEF RecordedOnce, Answers
    <2>1. /\ status \in {"completed", "failed"} /\ Record = Recorded
          /\ \A t \in DOMAIN turns : \A n \in DOMAIN turns[t] :
                 turns[t][n].number = n
      BY DEF EvaluationInv, RunTypes, Numbered, InOrder, Record
    <2>2. Answers(Recorded) \in Seq(Responses)
      <3>1. Recorded \in Seq(StepRecord)
        BY RecordType DEF EvaluationInv
      <3>2. \A n \in 1 .. Len(Recorded) : Recorded[n] \in StepRecord
        BY <3>1
      <3>3. \A n \in 1 .. Len(Recorded) : Recorded[n].response \in Responses
        BY <3>2 DEF StepRecord
      <3> QED
        BY <3>1, <3>3 DEF Answers
    <2>3. ASSUME NEW r \in Responses, r.stop = "tool_use",
                 given = Append(Answers(Recorded), r), status = "failed"
          PROVE  /\ Answers(Recorded) = Front(given)
                 /\ Last(given).stop = "tool_use"
      <3> DEFINE a == Answers(Recorded)
      <3>1. a \in Seq(Responses)
        BY <2>2
      <3> HIDE DEF a
      <3>2. /\ Len(a) \in Nat /\ Len(Append(a, r)) = Len(a) + 1
            /\ Append(a, r)[Len(a) + 1] = r
        BY <3>1
      <3>3. SubSeq(Append(a, r), 1, Len(a)) = a
        BY <3>1, <3>2
      <3>4. Len(Append(a, r)) - 1 = Len(a)
        BY <3>2
      <3> QED
        BY <2>3, <3>2, <3>3, <3>4 DEF Front, Last, a
    <2> QED
      BY <2>1, <2>3 DEF EvaluationInv, Answered
  <1> QED
    BY <1>1, EvaluationInvariant, PTL

\* What the gate judged of a run that it lets complete, the record of the run
\* shows: the evidence gathered over all its turns, the mutations and the calls
\* of verify_recovery that were counted; and the incident was recovered by an
\* approved mutation, or is the dependency's and was escalated untouched
\* (goal_gate.py:39-107, real_matrix.py:290-325).
THEOREM CompletionOnRecord == EvaluationSpec => []CompletedOnRecord
  <1>1. EvaluationInv => CompletedOnRecord
    BY DEF EvaluationInv
  <1> QED
    BY <1>1, EvaluationInvariant, PTL

\* The harness passes a run only if a verification after its mutation has
\* confirmed the recovery, or, for the dependency's outage, if nothing was
\* mutated (real_matrix.py:232-259, 411-435).
THEOREM PassingIsVerified == EvaluationSpec => []PassedIsVerified
  <1>1. EvaluationInv => PassedIsVerified
    <2> SUFFICES ASSUME EvaluationInv, at = "end", gated, Passed
                 PROVE  IF scenario = "dependency_outage"
                        THEN ~incident.mutated
                        ELSE incident.recovered /\ incident.approved /\ incident.confirmed
      BY DEF PassedIsVerified
    <2>1. Consistent(incident) /\ Record = Recorded /\ Shown
      BY DEF EvaluationInv, Record
    <2>2. CASE scenario = "dependency_outage"
      BY <2>1, <2>2 DEF Consistent
    <2>3. CASE scenario # "dependency_outage"
      <3>1. PICK o \in Seen(Recorded) : o.tool = "verify_recovery" /\ o.confirmed
        BY <2>3 DEF Passed, VerifiedPostcondition
      <3>2. incident.confirmed
        BY <2>1, <3>1 DEF Shown
      <3> QED
        BY <2>1, <2>3, <3>2 DEF Consistent
    <2> QED
      BY <2>2, <2>3
  <1> QED
    BY <1>1, EvaluationInvariant, PTL

=============================================================================
