-------------------------- MODULE IncidentLabProofs --------------------------
(***************************************************************************)
(* Proofs about IncidentLab, for every number of clients, servers, calls    *)
(* and injected faults: what a verification that nobody disturbed says of   *)
(* the containers.                                                         *)
(***************************************************************************)
EXTENDS IncidentLab, SequenceTheorems, TLAPS

(***************************************************************************)
(* The queues of requests.                                                 *)
(***************************************************************************)

Lab == [version : {"v1", "v2"}, up : BOOLEAN, hung : BOOLEAN,
        dependency : BOOLEAN]

Request == [call : Recoveries \cup {"verify"}, service : Services,
            awaited : BOOLEAN, phase : {"queued", "first", "second"}]

Outcome == {"none", "recovering", "recovered", "uncertain"}

\* A server works on the oldest request only.
HeadOnly(q) == \A k \in DOMAIN q : q[k].phase # "queued" => k = 1

LabTypes ==
    /\ lab \in Lab
    /\ server \in [Clients -> 0 .. MaxServers] /\ opened \in 0 .. MaxServers
    /\ outcome \in [Clients -> Outcome]
    /\ verified \in [Clients -> SUBSET Services]
    /\ undisturbed \in [Clients -> BOOLEAN]
    /\ injecting \in {Nothing} \cup [call : Injections, phase : {"first", "second"}]
    /\ requests \in [Clients -> [Servers -> Seq(Request)]]
    /\ \A c \in Clients, n \in Servers : HeadOnly(requests[c][n])

\* The requests of q are the last ones of s, with no more of them awaited.
Passed(q, s) ==
    \E i \in {0, 1} : \A k \in DOMAIN q :
        /\ k + i \in DOMAIN s
        /\ q[k].call = s[k + i].call
        /\ q[k].awaited => s[k + i].awaited

\* No step but one that sends a request does more to the queues.
Passes ==
    \A c \in Clients, n \in Servers : Passed(requests'[c][n], requests[c][n])

\* Only one queue is changed.
Only(c, n) ==
    \A d \in Clients, m \in Servers :
        d # c \/ m # n => requests'[d][m] = requests[d][m]

\* The first request is answered: the others move up.
LEMMA RemoveAtFirst ==
    ASSUME NEW S, NEW s \in Seq(S), 1 \in DOMAIN s
    PROVE  /\ RemoveAt(s, 1) \in Seq(S)
           /\ Len(RemoveAt(s, 1)) = Len(s) - 1
           /\ \A k \in 1 .. Len(s) - 1 : RemoveAt(s, 1)[k] = s[k + 1]
  <1>1. s # <<>> /\ Len(s) \in Nat
    OBVIOUS
  <1>2. RemoveAt(s, 1) = SubSeq(s, 1, 0) \o SubSeq(s, 2, Len(s))
    BY <1>1 DEF RemoveAt
  <1>3. SubSeq(s, 1, 0) = <<>>
    BY SubSeqEmpty
  <1>4. SubSeq(s, 2, Len(s)) = Tail(s)
    BY <1>1, TailIsSubSeq
  <1>5. /\ Tail(s) \in Seq(S) /\ Len(Tail(s)) = Len(s) - 1
        /\ \A k \in 1 .. Len(s) - 1 : Tail(s)[k] = s[k + 1]
    BY <1>1, HeadTailProperties
  <1>6. <<>> \o Tail(s) = Tail(s)
    BY <1>5, ConcatEmptySeq
  <1> QED
    BY <1>2, <1>3, <1>4, <1>5, <1>6

\* One queue is replaced by another one.
LEMMA QueueReplaced ==
    ASSUME LabTypes, NEW c \in Clients, NEW n \in Servers,
           HeadOnly(requests'[c][n]), Passed(requests'[c][n], requests[c][n]),
           Only(c, n)
    PROVE  /\ \A d \in Clients, m \in Servers : HeadOnly(requests'[d][m])
           /\ Passes
  <1>2. \A d \in Clients, m \in Servers : Passed(requests[d][m], requests[d][m])
    BY DEF LabTypes, Passed
  <1> QED
    BY <1>2 DEF LabTypes, Only, Passes

\* The phase of the first request is changed.
LEMMA PhaseOfFirst ==
    ASSUME NEW s \in Seq(Request), HeadOnly(s), 1 \in DOMAIN s,
           NEW ph \in {"queued", "first", "second"},
           NEW q, q = [s EXCEPT ![1] = [s[1] EXCEPT !.phase = ph]]
    PROVE  /\ q \in Seq(Request) /\ HeadOnly(q) /\ Passed(q, s)
           /\ DOMAIN q = DOMAIN s
           /\ q[1] = [s[1] EXCEPT !.phase = ph]
           /\ \A j \in DOMAIN q : j # 1 => q[j] = s[j]
  <1>1. s[1] \in Request
    OBVIOUS
  <1>2. [s[1] EXCEPT !.phase = ph] \in Request
    BY <1>1 DEF Request
  <1>3. /\ q \in Seq(Request) /\ DOMAIN q = DOMAIN s
        /\ q[1] = [s[1] EXCEPT !.phase = ph]
        /\ \A j \in DOMAIN q : j # 1 => q[j] = s[j]
    BY <1>2
  <1>4. HeadOnly(q)
    BY <1>3 DEF HeadOnly
  <1>5. q[1].call = s[1].call /\ q[1].awaited = s[1].awaited
    BY <1>1, <1>3 DEF Request
  <1>6. \A j \in DOMAIN q : /\ j + 0 \in DOMAIN s
                            /\ q[j].call = s[j + 0].call
                            /\ q[j].awaited => s[j + 0].awaited
    BY <1>3, <1>5
  <1> QED
    BY <1>3, <1>4, <1>6 DEF Passed

LEMMA PhaseSet ==
    ASSUME LabTypes, NEW c \in Clients, NEW n \in Servers,
           NEW k \in DOMAIN requests[c][n], k = 1,
           NEW ph \in {"queued", "first", "second"},
           requests' = [requests EXCEPT ![c][n][k].phase = ph]
    PROVE  /\ requests' \in [Clients -> [Servers -> Seq(Request)]]
           /\ \A d \in Clients, m \in Servers : HeadOnly(requests'[d][m])
           /\ Passes /\ Only(c, n)
           /\ DOMAIN requests'[c][n] = DOMAIN requests[c][n]
           /\ requests'[c][n][1] = [requests[c][n][1] EXCEPT !.phase = ph]
           /\ \A j \in DOMAIN requests[c][n] :
                 j # 1 => requests'[c][n][j] = requests[c][n][j]
  <1> DEFINE s == requests[c][n]
             q == [s EXCEPT ![1] = [s[1] EXCEPT !.phase = ph]]
  <1>1. Only(c, n) /\ requests'[c][n] = q
    BY DEF LabTypes, Only
  <1>2. s \in Seq(Request) /\ HeadOnly(s) /\ 1 \in DOMAIN s
    BY DEF LabTypes
  <1> HIDE DEF s
  <1>3. /\ q \in Seq(Request) /\ HeadOnly(q) /\ Passed(q, s)
        /\ DOMAIN q = DOMAIN s
        /\ q[1] = [s[1] EXCEPT !.phase = ph]
        /\ \A j \in DOMAIN q : j # 1 => q[j] = s[j]
    BY <1>2, PhaseOfFirst
  <1> HIDE DEF q
  <1>4. /\ \A d \in Clients, m \in Servers : HeadOnly(requests'[d][m])
        /\ Passes
    BY <1>1, <1>3, QueueReplaced DEF s
  <1>5. requests' \in [Clients -> [Servers -> Seq(Request)]]
    BY <1>3 DEF LabTypes, q, s
  <1> QED
    BY <1>1, <1>3, <1>4, <1>5 DEF s

\* The first request is answered.
LEMMA FirstAnswered ==
    ASSUME LabTypes, NEW c \in Clients, NEW n \in Servers,
           NEW k \in DOMAIN requests[c][n], k = 1,
           requests' = [requests EXCEPT ![c][n] = RemoveAt(@, k)]
    PROVE  /\ requests' \in [Clients -> [Servers -> Seq(Request)]]
           /\ \A d \in Clients, m \in Servers : HeadOnly(requests'[d][m])
           /\ Passes /\ Only(c, n)
           /\ \A j \in DOMAIN requests'[c][n] :
                 /\ j + 1 \in DOMAIN requests[c][n]
                 /\ requests'[c][n][j] = requests[c][n][j + 1]
                 /\ requests'[c][n][j].phase = "queued"
  <1> DEFINE s == requests[c][n]
             q == RemoveAt(s, 1)
  <1>1. Only(c, n) /\ requests'[c][n] = q
    BY DEF LabTypes, Only
  <1>2. s \in Seq(Request) /\ HeadOnly(s) /\ 1 \in DOMAIN s
    BY DEF LabTypes
  <1>3. /\ q \in Seq(Request) /\ Len(q) = Len(s) - 1
        /\ \A j \in 1 .. Len(s) - 1 : q[j] = s[j + 1]
    BY <1>2, RemoveAtFirst
  <1> HIDE DEF q
  <1>4. \A j \in DOMAIN q : j + 1 \in DOMAIN s /\ q[j] = s[j + 1]
    BY <1>2, <1>3
  <1>5. \A j \in DOMAIN q : q[j].phase = "queued"
    BY <1>2, <1>3, <1>4 DEF HeadOnly
  <1>6. HeadOnly(q) /\ Passed(q, s)
    BY <1>4, <1>5 DEF HeadOnly, Passed
  <1>7. /\ \A d \in Clients, m \in Servers : HeadOnly(requests'[d][m])
        /\ Passes
    BY <1>1, <1>6, QueueReplaced
  <1>8. requests' \in [Clients -> [Servers -> Seq(Request)]]
    BY <1>3 DEF LabTypes, q
  <1> QED
    BY <1>1, <1>4, <1>5, <1>7, <1>8

\* What happens to a request that nobody awaits any more.
LEMMA NoLongerAwaited ==
    ASSUME NEW s \in Seq(Request), HeadOnly(s), NEW q, DOMAIN q = DOMAIN s,
           \A k \in DOMAIN s : q[k] \in {s[k], [s[k] EXCEPT !.awaited = FALSE]},
           q = [k \in DOMAIN s |-> q[k]]
    PROVE  /\ q \in Seq(Request) /\ HeadOnly(q) /\ Passed(q, s)
           /\ \A k \in DOMAIN s : /\ q[k].call = s[k].call
                                  /\ q[k].phase = s[k].phase
                                  /\ q[k].awaited => s[k].awaited
  <1>1. \A k \in DOMAIN s : s[k] \in Request
    OBVIOUS
  <1>2. \A k \in DOMAIN s : /\ q[k] \in Request
                            /\ q[k].call = s[k].call
                            /\ q[k].phase = s[k].phase
                            /\ q[k].awaited => s[k].awaited
    BY <1>1 DEF Request
  <1>3. Len(s) \in Nat /\ DOMAIN s = 1 .. Len(s)
    OBVIOUS
  <1>4. q \in [1 .. Len(s) -> Request]
    BY <1>2, <1>3
  <1>5. q \in Seq(Request)
    BY <1>3, <1>4, SeqDef
  <1>6. HeadOnly(q)
    BY <1>2 DEF HeadOnly
  <1>7. \A k \in DOMAIN q : /\ k + 0 \in DOMAIN s
                            /\ q[k].call = s[k + 0].call
                            /\ q[k].awaited => s[k + 0].awaited
    BY <1>2, <1>3
  <1> QED
    BY <1>2, <1>5, <1>6, <1>7 DEF Passed

\* A client that is killed, or whose call times out, awaits nothing.
LEMMA GivesUp ==
    ASSUME LabTypes, NEW c \in Clients, Killed(c) \/ TimesOut(c)
    PROVE  /\ requests' \in [Clients -> [Servers -> Seq(Request)]]
           /\ \A d \in Clients, m \in Servers : HeadOnly(requests'[d][m])
           /\ Passes /\ server[c] \in Servers /\ Only(c, server[c])
           /\ DOMAIN requests'[c][server[c]] = DOMAIN requests[c][server[c]]
           /\ \A k \in DOMAIN requests[c][server[c]] :
                /\ requests'[c][server[c]][k].call = requests[c][server[c]][k].call
                /\ requests'[c][server[c]][k].phase = requests[c][server[c]][k].phase
                /\ requests'[c][server[c]][k].awaited
                        => requests[c][server[c]][k].awaited
  <1> DEFINE n == server[c]
             s == requests[c][n]
             q == requests'[c][n]
  <1>0. server[c] > 0
    BY DEF Killed, TimesOut, Awaits
  <1>1. n \in Servers
    BY <1>0, LabBounds DEF LabTypes, Servers
  <1>2. s \in Seq(Request) /\ HeadOnly(s)
    BY <1>1 DEF LabTypes
  <1>3. /\ Only(c, n) /\ DOMAIN q = DOMAIN s /\ q = [k \in DOMAIN s |-> q[k]]
        /\ \A k \in DOMAIN s : q[k] \in {s[k], [s[k] EXCEPT !.awaited = FALSE]}
    <2>1. CASE Killed(c)
      BY <1>1, <2>1 DEF LabTypes, Only, Killed
    <2>2. CASE TimesOut(c)
      <3>1. Len(s) \in Nat
        BY <1>2
      <3>2. q = [s EXCEPT ![Len(s)] = [s[Len(s)] EXCEPT !.awaited = FALSE]]
        BY <1>1, <2>2 DEF LabTypes, TimesOut
      <3>3. Only(c, n)
        BY <1>1, <2>2 DEF LabTypes, Only, TimesOut
      <3> QED
        BY <1>2, <3>1, <3>2, <3>3
    <2> QED
      BY <2>1, <2>2
  <1>4. /\ q \in Seq(Request) /\ HeadOnly(q) /\ Passed(q, s)
        /\ \A k \in DOMAIN s : /\ q[k].call = s[k].call
                               /\ q[k].phase = s[k].phase
                               /\ q[k].awaited => s[k].awaited
    <2> HIDE DEF q, s
    <2> QED
      BY <1>2, <1>3, NoLongerAwaited
  <1>5. /\ \A d \in Clients, m \in Servers : HeadOnly(requests'[d][m])
        /\ Passes
    BY <1>1, <1>3, <1>4, QueueReplaced
  <1>6. requests' \in [Clients -> [Servers -> Seq(Request)]]
    <2>1. CASE Killed(c)
      BY <1>1, <1>4, <2>1 DEF LabTypes, Killed
    <2>2. CASE TimesOut(c)
      BY <1>1, <1>4, <2>2 DEF LabTypes, TimesOut
    <2> QED
      BY <2>1, <2>2
  <1> QED
    BY <1>1, <1>3, <1>4, <1>5, <1>6

\* A request that is sent is the last one, and the one its client awaits.
LEMMA Sends ==
    ASSUME LabTypes, NEW c \in Clients, NEW call \in Recoveries \cup {"verify"},
           NEW service \in Services, Send(c, call, service)
    PROVE  LET n == server[c]
               s == requests[c][n]
               q == requests'[c][n]
           IN  /\ requests' \in [Clients -> [Servers -> Seq(Request)]]
               /\ \A d \in Clients, m \in Servers : HeadOnly(requests'[d][m])
               /\ n \in Servers /\ Only(c, n)
               /\ Len(s) \in Nat /\ DOMAIN s = 1 .. Len(s)
               /\ DOMAIN q = 1 .. Len(s) + 1
               /\ \A k \in DOMAIN s : q[k] = s[k]
               /\ q[Len(s) + 1] =
                    [call |-> call, service |-> service,
                     awaited |-> TRUE, phase |-> "queued"]
  <1> DEFINE n == server[c]
             s == requests[c][n]
             r == [call |-> call, service |-> service,
                   awaited |-> TRUE, phase |-> "queued"]
  <1>1. n \in Servers
    BY DEF LabTypes, Send, Servers
  <1>2. s \in Seq(Request) /\ HeadOnly(s) /\ r \in Request
    BY <1>1 DEF LabTypes, Request
  <1>3. Only(c, n) /\ requests'[c][n] = Append(s, r)
    BY <1>1 DEF LabTypes, Only, Send
  <1>4. Append(s, r) \in Seq(Request)
    BY <1>2
  <1>5. requests' \in [Clients -> [Servers -> Seq(Request)]]
    BY <1>1, <1>4 DEF LabTypes, Send
  <1> HIDE DEF s
  <1>6. /\ Len(s) \in Nat /\ DOMAIN s = 1 .. Len(s)
        /\ DOMAIN Append(s, r) = 1 .. Len(s) + 1
        /\ \A k \in DOMAIN s : Append(s, r)[k] = s[k]
        /\ Append(s, r)[Len(s) + 1] = r
    BY <1>2
  <1>7. HeadOnly(Append(s, r))
    <2>1. r.phase = "queued"
      OBVIOUS
    <2> HIDE DEF r
    <2> QED
      BY <1>2, <1>6, <2>1 DEF HeadOnly
  <1>8. \A d \in Clients, m \in Servers : HeadOnly(requests'[d][m])
    BY <1>3, <1>7 DEF LabTypes, Only
  <1> QED
    BY <1>1, <1>3, <1>5, <1>6, <1>8 DEF s

\* A server that is terminated leaves no requests.
LEMMA Terminates ==
    ASSUME LabTypes, NEW c \in Clients, NEW n \in Servers, Terminated(c, n)
    PROVE  /\ requests' \in [Clients -> [Servers -> Seq(Request)]]
           /\ \A d \in Clients, m \in Servers : HeadOnly(requests'[d][m])
           /\ Passes /\ Only(c, n) /\ requests'[c][n] = <<>>
  <1>1. /\ requests' \in [Clients -> [Servers -> Seq(Request)]]
        /\ Only(c, n) /\ requests'[c][n] = <<>>
    BY DEF LabTypes, Terminated, Only
  <1>2. HeadOnly(<<>>) /\ \A s : Passed(<<>>, s)
    BY DEF HeadOnly, Passed
  <1> QED
    BY <1>1, <1>2, QueueReplaced

\* What becomes of a queue when a container goes down.
LEMMA QueueBreaksOff ==
    ASSUME NEW s \in Seq(Request), HeadOnly(s), NEW q,
           q = [k \in DOMAIN s |->
                    IF s[k].call = "verify" /\ s[k].phase = "second"
                    THEN [s[k] EXCEPT !.phase = "first"] ELSE s[k]]
    PROVE  /\ q \in Seq(Request) /\ HeadOnly(q) /\ DOMAIN q = DOMAIN s
           /\ \A k \in DOMAIN s :
                /\ q[k].call = s[k].call /\ q[k].awaited = s[k].awaited
                /\ s[k].call # "verify" => q[k].phase = s[k].phase
                /\ s[k].call = "verify" => q[k].phase # "second"
  <1>1. \A k \in DOMAIN s : s[k] \in Request
    OBVIOUS
  <1>2. Len(s) \in Nat /\ DOMAIN s = 1 .. Len(s) /\ DOMAIN q = DOMAIN s
    OBVIOUS
  <1>3. \A k \in DOMAIN s :
            /\ q[k] \in Request
            /\ q[k].call = s[k].call /\ q[k].awaited = s[k].awaited
            /\ s[k].call # "verify" => q[k].phase = s[k].phase
            /\ s[k].call = "verify" => q[k].phase # "second"
            /\ q[k].phase # "queued" => s[k].phase # "queued"
    BY <1>1 DEF Request
  <1>4. q \in [1 .. Len(s) -> Request]
    BY <1>2, <1>3
  <1>5. q \in Seq(Request)
    BY <1>2, <1>4, SeqDef
  <1>6. HeadOnly(q)
    BY <1>2, <1>3 DEF HeadOnly
  <1> QED
    BY <1>2, <1>3, <1>5, <1>6

\* What becomes of all of them.
LEMMA BrokenOff ==
    ASSUME LabTypes, NEW call, NEW rs, rs = BreakOff(call, requests)
    PROVE  /\ rs \in [Clients -> [Servers -> Seq(Request)]]
           /\ \A d \in Clients, m \in Servers :
                /\ HeadOnly(rs[d][m]) /\ DOMAIN rs[d][m] = DOMAIN requests[d][m]
                /\ \A k \in DOMAIN rs[d][m] :
                    /\ rs[d][m][k].call = requests[d][m][k].call
                    /\ rs[d][m][k].awaited = requests[d][m][k].awaited
                    /\ requests[d][m][k].call # "verify" =>
                            rs[d][m][k].phase = requests[d][m][k].phase
                    /\ requests[d][m][k].call = "verify" /\ TakesDown(call) =>
                            rs[d][m][k].phase # "second"
  <1>t. \A d \in Clients, m \in Servers :
            requests[d][m] \in Seq(Request) /\ HeadOnly(requests[d][m])
    BY DEF LabTypes
  <1>1. CASE TakesDown(call)
    <2>1. rs = [c \in Clients |-> [n \in Servers |-> [k \in DOMAIN requests[c][n] |->
                    IF requests[c][n][k].call = "verify"
                        /\ requests[c][n][k].phase = "second"
                    THEN [requests[c][n][k] EXCEPT !.phase = "first"]
                    ELSE requests[c][n][k]]]]
      BY <1>1 DEF BreakOff
    <2>2. ASSUME NEW d \in Clients, NEW m \in Servers
          PROVE  rs[d][m] = [k \in DOMAIN requests[d][m] |->
                    IF requests[d][m][k].call = "verify"
                        /\ requests[d][m][k].phase = "second"
                    THEN [requests[d][m][k] EXCEPT !.phase = "first"]
                    ELSE requests[d][m][k]]
      BY <2>1
    <2>3. ASSUME NEW d \in Clients, NEW m \in Servers
          PROVE  /\ rs[d][m] \in Seq(Request) /\ HeadOnly(rs[d][m])
                 /\ DOMAIN rs[d][m] = DOMAIN requests[d][m]
                 /\ \A k \in DOMAIN requests[d][m] :
                     /\ rs[d][m][k].call = requests[d][m][k].call
                     /\ rs[d][m][k].awaited = requests[d][m][k].awaited
                     /\ requests[d][m][k].call # "verify" =>
                             rs[d][m][k].phase = requests[d][m][k].phase
                     /\ requests[d][m][k].call = "verify" =>
                             rs[d][m][k].phase # "second"
      <3> DEFINE s == requests[d][m]
                 q == rs[d][m]
      <3>1. s \in Seq(Request) /\ HeadOnly(s)
        BY <1>t
      <3>2. q = [k \in DOMAIN s |->
                    IF s[k].call = "verify" /\ s[k].phase = "second"
                    THEN [s[k] EXCEPT !.phase = "first"] ELSE s[k]]
        BY <2>2
      <3> HIDE DEF s, q
      <3>3. /\ q \in Seq(Request) /\ HeadOnly(q) /\ DOMAIN q = DOMAIN s
            /\ \A k \in DOMAIN s :
                 /\ q[k].call = s[k].call /\ q[k].awaited = s[k].awaited
                 /\ s[k].call # "verify" => q[k].phase = s[k].phase
                 /\ s[k].call = "verify" => q[k].phase # "second"
        BY <3>1, <3>2, QueueBreaksOff
      <3> QED
        BY <3>3 DEF s, q
    <2>4. /\ rs = [c \in Clients |-> rs[c]]
          /\ \A c \in Clients : rs[c] = [n \in Servers |-> rs[c][n]]
      BY <2>1
    <2>5. rs \in [Clients -> [Servers -> Seq(Request)]]
      BY <2>3, <2>4
    <2> QED
      BY <2>3, <2>5
  <1>2. CASE ~TakesDown(call)
    <2>1. rs = requests
      BY <1>2 DEF BreakOff
    <2> QED
      BY <1>2, <2>1 DEF LabTypes
  <1> QED
    BY <1>1, <1>2

\* The same requests are there, and of the verifications none is between its
\* two questions, if something goes down; recoveries are where they were.
AfterBreakOff(takesDown) ==
    /\ requests' \in [Clients -> [Servers -> Seq(Request)]]
    /\ \A d \in Clients, m \in Servers :
        /\ HeadOnly(requests'[d][m])
        /\ DOMAIN requests'[d][m] = DOMAIN requests[d][m]
        /\ \A k \in DOMAIN requests'[d][m] :
            /\ requests'[d][m][k].call = requests[d][m][k].call
            /\ requests'[d][m][k].awaited = requests[d][m][k].awaited
            /\ requests[d][m][k].call = "verify" /\ takesDown =>
                    requests'[d][m][k].phase # "second"
            /\ requests[d][m][k].call # "verify"
                 /\ requests[d][m][k].phase = "second" =>
                    requests'[d][m][k].phase = "second"

\* Then nothing new is awaited.
LEMMA BreakOffPasses ==
    ASSUME LabTypes, NEW b, AfterBreakOff(b)
    PROVE  Passes
  <1>1. \A d \in Clients, m \in Servers : requests'[d][m] \in Seq(Request)
    BY DEF AfterBreakOff
  <1>2. ASSUME NEW d \in Clients, NEW m \in Servers
        PROVE  \A k \in DOMAIN requests'[d][m] :
                    /\ k + 0 \in DOMAIN requests[d][m]
                    /\ requests'[d][m][k].call = requests[d][m][k + 0].call
                    /\ requests'[d][m][k].awaited
                         => requests[d][m][k + 0].awaited
    <2>1. \A k \in DOMAIN requests'[d][m] : k + 0 = k
      BY <1>1
    <2> QED
      BY <2>1 DEF AfterBreakOff
  <1> QED
    BY <1>2 DEF Passes, Passed

\* The operator's operation goes ahead.
LEMMA InjectionBreaksOff ==
    ASSUME LabTypes, InjectionStops
    PROVE  AfterBreakOff(TakesDown(injecting.call))
BY BrokenOff DEF InjectionStops, AfterBreakOff

\* A recovery goes ahead.
LEMMA RecoveryBreaksOff ==
    ASSUME LabTypes, NEW c \in Clients, NEW n \in Servers,
           NEW k \in DOMAIN requests[c][n], Stops(c, n, k)
    PROVE  /\ AfterBreakOff(TRUE)
           /\ k \in DOMAIN requests'[c][n] /\ requests'[c][n][k].phase = "second"
           /\ requests'[c][n][k].call \in Recoveries
  <1> DEFINE call == requests[c][n][k].call
             rs == BreakOff(call, requests)
             s == rs[c][n]
             q == [s EXCEPT ![1] = [s[1] EXCEPT !.phase = "second"]]
  <1>1. call \in Recoveries /\ TakesDown(call) /\ k = 1
    BY DEF LabTypes, HeadOnly, Stops, TakesDown, Recoveries
  <1>2. /\ rs \in [Clients -> [Servers -> Seq(Request)]]
        /\ \A d \in Clients, m \in Servers :
            /\ HeadOnly(rs[d][m]) /\ DOMAIN rs[d][m] = DOMAIN requests[d][m]
            /\ \A j \in DOMAIN rs[d][m] :
                /\ rs[d][m][j].call = requests[d][m][j].call
                /\ rs[d][m][j].awaited = requests[d][m][j].awaited
                /\ requests[d][m][j].call # "verify" =>
                        rs[d][m][j].phase = requests[d][m][j].phase
                /\ requests[d][m][j].call = "verify" => rs[d][m][j].phase # "second"
    BY <1>1, BrokenOff
  <1> HIDE DEF rs
  <1>3. requests' = [rs EXCEPT ![c][n][1].phase = "second"]
    BY <1>1 DEF Stops, rs
  <1>4. s \in Seq(Request) /\ HeadOnly(s) /\ 1 \in DOMAIN s
    BY <1>1, <1>2
  <1>5. /\ requests'[c][n] = q
        /\ \A d \in Clients, m \in Servers :
                d # c \/ m # n => requests'[d][m] = rs[d][m]
    BY <1>2, <1>3
  <1>6. /\ q \in Seq(Request) /\ HeadOnly(q) /\ DOMAIN q = DOMAIN s
        /\ q[1] = [s[1] EXCEPT !.phase = "second"]
        /\ \A j \in DOMAIN q : j # 1 => q[j] = s[j]
    BY <1>4, PhaseOfFirst
  <1>7. /\ q[1].phase = "second" /\ q[1].call = s[1].call
        /\ q[1].awaited = s[1].awaited
    <2>1. s[1] \in Request
      BY <1>4
    <2> QED
      BY <1>6, <2>1 DEF Request
  <1>8. requests' \in [Clients -> [Servers -> Seq(Request)]]
    BY <1>2, <1>3, <1>6
  <1> HIDE DEF q
  <1>9. s[1].call = call /\ call # "verify"
    BY <1>1, <1>2, <1>4 DEF Recoveries
  <1>10. ASSUME NEW d \in Clients, NEW m \in Servers
         PROVE  /\ HeadOnly(requests'[d][m])
                /\ DOMAIN requests'[d][m] = DOMAIN requests[d][m]
                /\ \A j \in DOMAIN requests'[d][m] :
                    /\ requests'[d][m][j].call = requests[d][m][j].call
                    /\ requests'[d][m][j].awaited = requests[d][m][j].awaited
                    /\ requests[d][m][j].call = "verify" =>
                            requests'[d][m][j].phase # "second"
                    /\ requests[d][m][j].call # "verify"
                         /\ requests[d][m][j].phase = "second" =>
                            requests'[d][m][j].phase = "second"
    <2>1. CASE d = c /\ m = n
      <3>1. DOMAIN q = DOMAIN requests[c][n]
        BY <1>2, <1>6
      <3>2. \A j \in DOMAIN q : j # 1 =>
                /\ q[j].call = requests[c][n][j].call
                /\ q[j].awaited = requests[c][n][j].awaited
                /\ requests[c][n][j].call # "verify" =>
                        q[j].phase = requests[c][n][j].phase
                /\ requests[c][n][j].call = "verify" => q[j].phase # "second"
        BY <1>2, <1>6
      <3>3. /\ q[1].call = requests[c][n][1].call
            /\ q[1].awaited = requests[c][n][1].awaited
            /\ q[1].call # "verify" /\ q[1].phase = "second"
        BY <1>2, <1>4, <1>7, <1>9
      <3>4. \A j \in DOMAIN q :
                /\ q[j].call = requests[c][n][j].call
                /\ q[j].awaited = requests[c][n][j].awaited
                /\ requests[c][n][j].call = "verify" => q[j].phase # "second"
                /\ requests[c][n][j].call # "verify"
                     /\ requests[c][n][j].phase = "second" =>
                        q[j].phase = "second"
        BY <1>7, <3>2, <3>3
      <3>5. HeadOnly(q) /\ requests'[d][m] = q /\ requests[d][m] = requests[c][n]
        BY <1>5, <1>6, <2>1
      <3> QED
        BY <3>1, <3>4, <3>5
    <2>2. CASE d # c \/ m # n
      BY <1>2, <1>5, <2>2
    <2> QED
      BY <2>1, <2>2
  <1>11. AfterBreakOff(TRUE)
    BY <1>8, <1>10 DEF AfterBreakOff
  <1>12. 1 \in DOMAIN requests'[c][n]
    BY <1>4, <1>5, <1>6
  <1> QED
    BY <1>1, <1>5, <1>7, <1>9, <1>11, <1>12

(***************************************************************************)
(* Types.  A step that sends nothing passes on what is there.               *)
(***************************************************************************)

LEMMA QueuesStay ==
    ASSUME LabTypes, requests' = requests
    PROVE  /\ requests' \in [Clients -> [Servers -> Seq(Request)]]
           /\ \A d \in Clients, m \in Servers : HeadOnly(requests'[d][m])
           /\ Passes
  <1>1. \A d \in Clients, m \in Servers : requests[d][m] \in Seq(Request)
    BY DEF LabTypes
  <1>2. \A d \in Clients, m \in Servers : Passed(requests[d][m], requests[d][m])
    <2> SUFFICES ASSUME NEW s \in Seq(Request)
                 PROVE  Passed(s, s)
      BY <1>1
    <2> QED
      BY DEF Passed
  <1> QED
    BY <1>2 DEF LabTypes, Passes

\* What the two halves of a compose operation do to the containers.
LEMMA Effects ==
    ASSUME LabTypes, NEW call
    PROVE  /\ FirstEffect(lab, call) \in Lab /\ SecondEffect(lab, call) \in Lab
           /\ call \in Recoveries =>
                /\ FirstEffect(lab, call).version = lab.version
                /\ ~FirstEffect(lab, call).hung
                /\ lab.dependency => FirstEffect(lab, call).dependency
                /\ SecondEffect(lab, call).up
                /\ lab.version = "v1" => SecondEffect(lab, call).version = "v1"
                /\ SecondEffect(lab, call).hung = lab.hung
                /\ SecondEffect(lab, call).dependency = lab.dependency
  <1>1. lab \in Lab
    BY DEF LabTypes
  <1>2. FirstEffect(lab, call) \in Lab
    BY <1>1 DEF Lab, FirstEffect
  <1>3. SecondEffect(lab, call) \in Lab
    BY <1>1 DEF Lab, SecondEffect
  <1>4. ASSUME call \in Recoveries
        PROVE  /\ FirstEffect(lab, call).version = lab.version
               /\ ~FirstEffect(lab, call).hung
               /\ lab.dependency => FirstEffect(lab, call).dependency
    BY <1>1, <1>4 DEF Lab, FirstEffect, Recoveries, TakesDown
  <1>5. ASSUME call \in Recoveries
        PROVE  /\ SecondEffect(lab, call).up
               /\ lab.version = "v1" => SecondEffect(lab, call).version = "v1"
               /\ SecondEffect(lab, call).hung = lab.hung
               /\ SecondEffect(lab, call).dependency = lab.dependency
    BY <1>1, <1>5 DEF Lab, SecondEffect, Recoveries
  <1> QED
    BY <1>2, <1>3, <1>4, <1>5

\* What a client makes of the end of a call.
LEMMA Learns ==
    ASSUME LabTypes, NEW c \in Clients, NEW r, NEW ok \in BOOLEAN,
           ok => r.service \in Services, Learn(c, r, ok)
    PROVE  /\ outcome' \in [Clients -> Outcome]
           /\ verified' \in [Clients -> SUBSET Services]
           /\ \A d \in Clients :
                \/ outcome'[d] = outcome[d]
                \/ d = c /\ outcome'[d] \in {"recovered", "uncertain"}
           /\ \A d \in Clients :
                \/ verified'[d] = verified[d]
                \/ /\ d = c /\ r.call = "verify" /\ ok
                   /\ outcome[d] = "recovered" /\ outcome'[d] = "recovered"
BY DEF LabTypes, Outcome, Learn

\* The request answered is the first one; the client learns of it or not.
LEMMA Answers ==
    ASSUME LabTypes, NEW c \in Clients, NEW n \in Servers,
           NEW k \in DOMAIN requests[c][n], k = 1, NEW ok \in BOOLEAN,
           Answer(c, n, k, ok)
    PROVE  /\ requests' \in [Clients -> [Servers -> Seq(Request)]]
           /\ \A d \in Clients, m \in Servers : HeadOnly(requests'[d][m])
           /\ Passes /\ Only(c, n)
           /\ \A j \in DOMAIN requests'[c][n] : requests'[c][n][j].phase = "queued"
           /\ outcome' \in [Clients -> Outcome]
           /\ verified' \in [Clients -> SUBSET Services]
           /\ \A d \in Clients :
                \/ outcome'[d] = outcome[d]
                \/ d = c /\ outcome'[d] \in {"recovered", "uncertain"}
           /\ \A d \in Clients :
                \/ verified'[d] = verified[d]
                \/ /\ d = c /\ requests[c][n][k].awaited
                   /\ requests[c][n][k].call = "verify" /\ ok
                   /\ outcome[d] = "recovered" /\ outcome'[d] = "recovered"
  <1> DEFINE r == requests[c][n][k]
  <1>1. requests' = [requests EXCEPT ![c][n] = RemoveAt(@, k)]
    BY DEF Answer
  <1>5. /\ requests' \in [Clients -> [Servers -> Seq(Request)]]
        /\ \A d \in Clients, m \in Servers : HeadOnly(requests'[d][m])
        /\ Passes /\ Only(c, n)
        /\ \A j \in DOMAIN requests'[c][n] : requests'[c][n][j].phase = "queued"
    BY <1>1, FirstAnswered
  <1>2. r.service \in Services
    <2>1. requests[c][n] \in Seq(Request)
      BY DEF LabTypes
    <2>2. r \in Request
      BY <2>1
    <2> QED
      BY <2>2 DEF Request
  <1>3. CASE r.awaited
    <2>1. Learn(c, r, ok)
      BY <1>3 DEF Answer
    <2> HIDE DEF r
    <2>2. /\ outcome' \in [Clients -> Outcome]
          /\ verified' \in [Clients -> SUBSET Services]
          /\ \A d \in Clients :
                \/ outcome'[d] = outcome[d]
                \/ d = c /\ outcome'[d] \in {"recovered", "uncertain"}
          /\ \A d \in Clients :
                \/ verified'[d] = verified[d]
                \/ /\ d = c /\ r.call = "verify" /\ ok
                   /\ outcome[d] = "recovered" /\ outcome'[d] = "recovered"
      BY <1>2, <2>1, Learns
    <2> QED
      BY <1>3, <1>5, <2>2 DEF r
  <1>4. CASE ~r.awaited
    <2>1. UNCHANGED <<outcome, verified>>
      BY <1>4 DEF Answer
    <2>2. /\ outcome' \in [Clients -> Outcome]
          /\ verified' \in [Clients -> SUBSET Services]
      BY <2>1 DEF LabTypes
    <2> QED
      BY <1>5, <2>1, <2>2
  <1> QED
    BY <1>3, <1>4

\* The part of LabTypes that is not about the queues.
Typed ==
    /\ lab \in Lab
    /\ server \in [Clients -> 0 .. MaxServers] /\ opened \in 0 .. MaxServers
    /\ outcome \in [Clients -> Outcome]
    /\ verified \in [Clients -> SUBSET Services]
    /\ undisturbed \in [Clients -> BOOLEAN]
    /\ injecting \in {Nothing} \cup [call : Injections, phase : {"first", "second"}]

QueuesTyped ==
    /\ requests \in [Clients -> [Servers -> Seq(Request)]]
    /\ \A c \in Clients, n \in Servers : HeadOnly(requests[c][n])

\* The operations of a client, except those that send a request.
LEMMA ClientTypes ==
    ASSUME LabTypes, NEW c \in Clients,
           Open(c) \/ Close(c) \/ Killed(c) \/ TimesOut(c)
             \/ \E n \in Servers : Terminated(c, n)
    PROVE  LabTypes' /\ Passes
  <1>1. CASE Open(c)
    <2>1. Typed'
      BY <1>1, LabBounds DEF LabTypes, Typed, Open
    <2>2. QueuesTyped' /\ Passes
      BY <1>1, QueuesStay DEF Open, QueuesTyped
    <2> QED
      BY <2>1, <2>2 DEF LabTypes, Typed, QueuesTyped
  <1>2. CASE Close(c)
    <2>c. server' \in [Clients -> 0 .. MaxServers]
      BY <1>2, LabBounds DEF LabTypes, Close
    <2>1. Typed'
      BY <1>2, <2>c DEF LabTypes, Typed, Close
    <2>2. QueuesTyped' /\ Passes
      BY <1>2, QueuesStay DEF Close, QueuesTyped
    <2> QED
      BY <2>1, <2>2 DEF LabTypes, Typed, QueuesTyped
  <1>3. CASE Killed(c)
    <2>b. outcome' \in [Clients -> Outcome]
      BY <1>3 DEF LabTypes, Killed, Outcome
    <2>c. server' \in [Clients -> 0 .. MaxServers]
      BY <1>3, LabBounds DEF LabTypes, Killed
    <2>1. Typed'
      BY <1>3, <2>b, <2>c DEF LabTypes, Typed, Killed
    <2>2. QueuesTyped' /\ Passes
      BY <1>3, GivesUp DEF QueuesTyped
    <2> QED
      BY <2>1, <2>2 DEF LabTypes, Typed, QueuesTyped
  <1>4. CASE TimesOut(c)
    <2>1. /\ outcome' \in [Clients -> Outcome]
          /\ verified' \in [Clients -> SUBSET Services]
      BY <1>4, Learns DEF TimesOut
    <2>2. Typed'
      BY <1>4, <2>1 DEF LabTypes, Typed, TimesOut
    <2>3. QueuesTyped' /\ Passes
      BY <1>4, GivesUp DEF QueuesTyped
    <2> QED
      BY <2>2, <2>3 DEF LabTypes, Typed, QueuesTyped
  <1>5. ASSUME NEW n \in Servers, Terminated(c, n)
        PROVE  LabTypes' /\ Passes
    <2>a. undisturbed' \in [Clients -> BOOLEAN]
      <3>1. CASE HalfwayIn(requests[c][n])
        BY <1>5, <3>1 DEF Terminated, Disturb
      <3>2. CASE ~HalfwayIn(requests[c][n])
        BY <1>5, <3>2 DEF LabTypes, Terminated
      <3> QED
        BY <3>1, <3>2
    <2>1. Typed'
      BY <1>5, <2>a DEF LabTypes, Typed, Terminated, apart
    <2>2. QueuesTyped' /\ Passes
      BY <1>5, Terminates DEF QueuesTyped
    <2> QED
      BY <2>1, <2>2 DEF LabTypes, Typed, QueuesTyped
  <1> QED
    BY <1>1, <1>2, <1>3, <1>4, <1>5

\* A handler is at work on the first request.
LEMMA AtFirst ==
    ASSUME LabTypes, NEW c \in Clients, NEW n \in Servers,
           NEW k \in DOMAIN requests[c][n], Handler(c, n, k)
    PROVE  k = 1
BY DEF LabTypes, HeadOnly, Handler, Begin, Stops, Starts, ComposeFails, Asks,
       Upstream, AsksDependency, Asking, Deadline

\* The handlers.
LEMMA HandlerTypes ==
    ASSUME LabTypes, NEW c \in Clients, NEW n \in Servers,
           NEW k \in DOMAIN requests[c][n], Handler(c, n, k)
    PROVE  LabTypes' /\ Passes
  <1>0. k = 1
    BY AtFirst
  <1>1. CASE \/ Begin(c, n, k) \/ Asks(c, n, k)
             \/ Upstream(c, n, k) /\ ~lab.dependency
    <2>1. Typed'
      BY <1>1 DEF LabTypes, Typed, Begin, Asks, Upstream, apart
    <2>2. PICK ph \in {"queued", "first", "second"} :
                requests' = [requests EXCEPT ![c][n][k].phase = ph]
      BY <1>1 DEF Begin, Asks, Upstream
    <2>3. QueuesTyped' /\ Passes
      BY <1>0, <2>2, PhaseSet DEF QueuesTyped
    <2> QED
      BY <2>1, <2>3 DEF LabTypes, Typed, QueuesTyped
  <1>2. CASE Stops(c, n, k)
    <2>1. Typed'
      BY <1>2, Effects DEF LabTypes, Typed, Stops, apart
    <2>2. AfterBreakOff(TRUE)
      BY <1>2, RecoveryBreaksOff
    <2>3. QueuesTyped' /\ Passes
      BY <2>2, BreakOffPasses DEF AfterBreakOff, QueuesTyped
    <2> QED
      BY <2>1, <2>3 DEF LabTypes, Typed, QueuesTyped
  <1>3. CASE \/ Starts(c, n, k) \/ ComposeFails(c, n, k) \/ Deadline(c, n, k)
             \/ (Upstream(c, n, k) /\ lab.dependency) \/ AsksDependency(c, n, k)
    <2>1. PICK ok \in BOOLEAN : Answer(c, n, k, ok)
      BY <1>3 DEF Starts, ComposeFails, Deadline, Upstream, AsksDependency
    <2>2. /\ QueuesTyped' /\ Passes
          /\ outcome' \in [Clients -> Outcome]
          /\ verified' \in [Clients -> SUBSET Services]
      BY <1>0, <2>1, Answers DEF QueuesTyped
    <2>3. /\ UNCHANGED <<server, opened, injecting>>
          /\ undisturbed' \in [Clients -> BOOLEAN]
          /\ lab' \in Lab
      BY <1>3, <2>1, Effects
      DEF LabTypes, Starts, ComposeFails, Deadline, Upstream, AsksDependency,
          Answer, Disturb, apart
    <2>4. Typed'
      BY <2>2, <2>3 DEF LabTypes, Typed
    <2> QED
      BY <2>2, <2>4 DEF LabTypes, Typed, QueuesTyped
  <1> QED
    BY <1>1, <1>2, <1>3 DEF Handler

\* Recover and Verify send a request.
LEMMA SendTypes ==
    ASSUME LabTypes, NEW c \in Clients, Recover(c) \/ Verify(c)
    PROVE  /\ LabTypes'
           /\ \E call \in Recoveries \cup {"verify"}, service \in Services :
                    Send(c, call, service)
  <1>1. Permitted(c) \subseteq Recoveries
    BY DEF Permitted, Recoveries
  <1>2. PICK call \in Recoveries \cup {"verify"}, service \in Services :
                Send(c, call, service)
    BY <1>1 DEF Recover, Verify, Services
  <1>3. Typed'
    BY <1>2 DEF LabTypes, Typed, Recover, Verify, Send, Outcome
  <1>4. QueuesTyped'
    BY <1>2, Sends DEF QueuesTyped
  <1> QED
    BY <1>2, <1>3, <1>4 DEF LabTypes, Typed, QueuesTyped

\* The operator.
LEMMA OperatorTypes ==
    ASSUME LabTypes, Operator
    PROVE  LabTypes' /\ Passes
  <1>1. CASE InjectionStops
    <2>1. PICK i \in [call : Injections, phase : {"first", "second"}] :
                injecting = i
      BY <1>1 DEF LabTypes, InjectionStops, Nothing
    <2>2. Typed'
      BY <1>1, <2>1, Effects DEF LabTypes, Typed, InjectionStops
    <2>3. AfterBreakOff(TakesDown(injecting.call))
      BY <1>1, InjectionBreaksOff
    <2>4. QueuesTyped' /\ Passes
      BY <2>3, BreakOffPasses DEF AfterBreakOff, QueuesTyped
    <2> QED
      BY <2>2, <2>4 DEF LabTypes, Typed, QueuesTyped
  <1>2. CASE ~InjectionStops
    <2>1. requests' = requests
      BY <1>2 DEF Operator, InjectHang, InjectionStarts, InjectionFails,
                  BeginInjection
    <2>2. Typed'
      <3>1. CASE InjectHang
        BY <3>1 DEF LabTypes, Typed, InjectHang, Lab, Disturb
      <3>2. CASE InjectionStarts
        BY <3>2, Effects DEF LabTypes, Typed, InjectionStarts, Injections
      <3>3. CASE InjectionFails
        BY <3>3 DEF LabTypes, Typed, InjectionFails
      <3>4. ASSUME NEW call \in Injections, BeginInjection(call)
            PROVE  Typed'
        BY <3>4 DEF LabTypes, Typed, BeginInjection, Disturb
      <3> QED
        BY <1>2, <3>1, <3>2, <3>3, <3>4 DEF Operator
    <2>3. QueuesTyped' /\ Passes
      BY <2>1, QueuesStay DEF QueuesTyped
    <2> QED
      BY <2>2, <2>3 DEF LabTypes, Typed, QueuesTyped
  <1> QED
    BY <1>1, <1>2

(***************************************************************************)
(* One call at a time.                                                     *)
(***************************************************************************)

\* A client awaits one request at most, of the server it has open.
OneAwaited ==
    \A c \in Clients, n \in Servers : \A k \in DOMAIN requests[c][n] :
        requests[c][n][k].awaited =>
            /\ n = server[c]
            /\ \A j \in DOMAIN requests[c][n] : requests[c][n][j].awaited => j = k

AwaitsNothing(c) ==
    \A n \in Servers : \A k \in DOMAIN requests[c][n] : ~requests[c][n][k].awaited

LEMMA AwaitsNone ==
    ASSUME OneAwaited, NEW c \in Clients, ~Awaits(c)
    PROVE  AwaitsNothing(c)
BY DEF OneAwaited, Awaits, AwaitsNothing, Servers

LEMMA PassesAwaited ==
    ASSUME LabTypes, LabTypes', OneAwaited, Passes,
           \A c \in Clients : server'[c] = server[c] \/ AwaitsNothing(c)
                                \/ AwaitsNothing(c)'
    PROVE  OneAwaited'
  <1> SUFFICES ASSUME NEW c \in Clients, NEW n \in Servers,
                      NEW k \in DOMAIN requests'[c][n], requests'[c][n][k].awaited
               PROVE  /\ n = server'[c]
                      /\ \A j \in DOMAIN requests'[c][n] :
                            requests'[c][n][j].awaited => j = k
    BY DEF OneAwaited
  <1>1. PICK i \in {0, 1} : \A j \in DOMAIN requests'[c][n] :
            /\ j + i \in DOMAIN requests[c][n]
            /\ requests'[c][n][j].awaited => requests[c][n][j + i].awaited
    BY DEF Passes, Passed
  <1>2. k + i \in DOMAIN requests[c][n] /\ requests[c][n][k + i].awaited
    BY <1>1
  <1>3. n = server'[c]
    BY <1>2 DEF AwaitsNothing, OneAwaited
  <1>4. ASSUME NEW j \in DOMAIN requests'[c][n], requests'[c][n][j].awaited
        PROVE  j = k
    <2>1. j + i \in DOMAIN requests[c][n] /\ requests[c][n][j + i].awaited
      BY <1>1, <1>4
    <2>2. j + i = k + i
      BY <1>2, <2>1 DEF OneAwaited
    <2>3. requests'[c][n] \in Seq(Request)
      BY DEF LabTypes
    <2>4. j \in Int /\ k \in Int
      BY <2>3
    <2> QED
      BY <2>2, <2>4
  <1> QED
    BY <1>3, <1>4

\* After a request is sent it is the only one that is awaited.
LEMMA SendAwaited ==
    ASSUME LabTypes, OneAwaited, NEW c \in Clients,
           NEW call \in Recoveries \cup {"verify"}, NEW service \in Services,
           Send(c, call, service)
    PROVE  OneAwaited'
  <1> DEFINE o == server[c]
             s == requests[c][o]
  <1>1. /\ o \in Servers /\ Only(c, o)
        /\ Len(s) \in Nat /\ DOMAIN s = 1 .. Len(s)
        /\ DOMAIN requests'[c][o] = 1 .. Len(s) + 1
        /\ \A k \in DOMAIN s : requests'[c][o][k] = s[k]
    BY Sends
  <1>2. AwaitsNothing(c) /\ server' = server
    BY AwaitsNone DEF Send
  <1>3. ASSUME NEW k \in DOMAIN requests'[c][o], requests'[c][o][k].awaited
        PROVE  k = Len(s) + 1
    <2>1. ASSUME k \in DOMAIN s
          PROVE  FALSE
      <3>1. requests'[c][o][k] = requests[c][o][k]
        BY <1>1, <2>1
      <3>2. ~requests[c][o][k].awaited
        BY <1>1, <1>2, <2>1 DEF AwaitsNothing
      <3> QED
        BY <1>3, <3>1, <3>2
    <2>2. k \in 1 .. Len(s) + 1 /\ k \notin 1 .. Len(s)
      BY <1>1, <2>1
    <2> QED
      BY <1>1, <2>2
  <1>4. ASSUME NEW d \in Clients, NEW n \in Servers,
               NEW k \in DOMAIN requests'[d][n], requests'[d][n][k].awaited
        PROVE  /\ n = server[d]
               /\ \A j \in DOMAIN requests'[d][n] :
                    requests'[d][n][j].awaited => j = k
    <2>1. CASE d = c /\ n = o
      BY <1>3, <1>4, <2>1
    <2>2. CASE d # c \/ n # o
      <3>1. requests'[d][n] = requests[d][n]
        BY <1>1, <2>2 DEF Only
      <3> QED
        BY <1>4, <3>1 DEF OneAwaited
    <2> QED
      BY <2>1, <2>2
  <1> QED
    BY <1>2, <1>4 DEF OneAwaited

\* A step that changes what is open changes it for a client that awaits nothing.
LEMMA ServersChange ==
    ASSUME LabTypes, LabTypes', OneAwaited, Next
    PROVE  \A c \in Clients : server'[c] = server[c] \/ AwaitsNothing(c)
                                \/ AwaitsNothing(c)'
  <1>1. CASE Operator
    BY <1>1 DEF Operator, InjectHang, InjectionStops, InjectionStarts,
                InjectionFails, BeginInjection
  <1>2. ASSUME NEW c \in Clients, Open(c)
        PROVE  \A d \in Clients : server'[d] = server[d] \/ AwaitsNothing(d)
    <2>1. AwaitsNothing(c)
      BY <1>2, AwaitsNone DEF Open, Awaits
    <2>2. \A d \in Clients : d # c => server'[d] = server[d]
      BY <1>2 DEF Open, LabTypes
    <2> QED
      BY <2>1, <2>2
  <1>3. ASSUME NEW c \in Clients, Close(c)
        PROVE  \A d \in Clients : server'[d] = server[d] \/ AwaitsNothing(d)
    <2>1. AwaitsNothing(c)
      BY <1>3, AwaitsNone DEF Close
    <2>2. \A d \in Clients : d # c => server'[d] = server[d]
      BY <1>3 DEF Close, LabTypes
    <2> QED
      BY <2>1, <2>2
  <1>4. ASSUME NEW c \in Clients, Killed(c)
        PROVE  \A d \in Clients : server'[d] = server[d] \/ AwaitsNothing(d)'
    <2>1. /\ server[c] \in Servers /\ Only(c, server[c])
          /\ DOMAIN requests'[c][server[c]] = DOMAIN requests[c][server[c]]
      BY <1>4, GivesUp
    <2>2. \A k \in DOMAIN requests'[c][server[c]] :
                ~requests'[c][server[c]][k].awaited
      <3>1. requests'[c][server[c]] =
                [k \in DOMAIN requests[c][server[c]] |->
                    [requests[c][server[c]][k] EXCEPT !.awaited = FALSE]]
        BY <1>4, <2>1 DEF Killed, LabTypes
      <3>2. requests[c][server[c]] \in Seq(Request)
        BY <2>1 DEF LabTypes
      <3>3. \A k \in DOMAIN requests[c][server[c]] :
                requests[c][server[c]][k] \in Request
        BY <3>2
      <3> QED
        BY <3>1, <3>3 DEF Request
    <2>3. \A n \in Servers : n # server[c] => requests'[c][n] = requests[c][n]
      BY <2>1 DEF Only
    <2>4. AwaitsNothing(c)'
      <3> SUFFICES ASSUME NEW n \in Servers, NEW k \in DOMAIN requests'[c][n]
                   PROVE  ~requests'[c][n][k].awaited
        BY DEF AwaitsNothing
      <3>1. CASE n = server[c]
        BY <2>2, <3>1
      <3>2. CASE n # server[c]
        <4>1. requests'[c][n] = requests[c][n]
          BY <2>3, <3>2
        <4> QED
          BY <3>2, <4>1 DEF OneAwaited
      <3> QED
        BY <3>1, <3>2
    <2>5. \A d \in Clients : d # c => server'[d] = server[d]
      BY <1>4 DEF Killed, LabTypes
    <2> QED
      BY <2>4, <2>5
  <1>5. ASSUME NEW c \in Clients,
               \/ Recover(c) \/ Verify(c) \/ TimesOut(c)
               \/ \E n \in Servers :
                    \/ Terminated(c, n)
                    \/ \E k \in DOMAIN requests[c][n] : Handler(c, n, k)
        PROVE  server' = server
    <2>1. CASE Recover(c) \/ Verify(c)
      BY <2>1 DEF Recover, Verify, Send
    <2>2. CASE TimesOut(c) \/ \E n \in Servers : Terminated(c, n)
      BY <2>2 DEF TimesOut, Terminated, apart
    <2>3. ASSUME NEW n \in Servers, NEW k \in DOMAIN requests[c][n],
                 Handler(c, n, k)
          PROVE  server' = server
      BY <2>3 DEF Handler, Begin, Stops, Starts, ComposeFails, Asks, Upstream,
                  AsksDependency, Deadline, Answer, apart
    <2> QED
      BY <1>5, <2>1, <2>2, <2>3
  <1> QED
    BY <1>1, <1>2, <1>3, <1>4, <1>5 DEF Next, Client

\* Every step keeps the types; it sends a request or passes on what is there.
LEMMA StepTypes ==
    ASSUME LabTypes, Next
    PROVE  /\ LabTypes'
           /\ \/ Passes
              \/ \E c \in Clients : \E call \in Recoveries \cup {"verify"},
                                        service \in Services : Send(c, call, service)
  <1>1. CASE Operator
    BY <1>1, OperatorTypes
  <1>2. ASSUME NEW c \in Clients, Client(c)
        PROVE  /\ LabTypes'
               /\ Passes \/ \E call \in Recoveries \cup {"verify"},
                               service \in Services : Send(c, call, service)
    <2>1. CASE Recover(c) \/ Verify(c)
      BY <2>1, SendTypes
    <2>2. CASE Open(c) \/ Close(c) \/ Killed(c) \/ TimesOut(c)
                 \/ \E n \in Servers : Terminated(c, n)
      BY <2>2, ClientTypes
    <2>3. ASSUME NEW n \in Servers, NEW k \in DOMAIN requests[c][n],
                 Handler(c, n, k)
          PROVE  LabTypes' /\ Passes
      BY <2>3, HandlerTypes
    <2> QED
      BY <1>2, <2>1, <2>2, <2>3 DEF Client
  <1> QED
    BY <1>1, <1>2 DEF Next

LEMMA StepAwaited ==
    ASSUME LabTypes, OneAwaited, Next
    PROVE  OneAwaited'
  <1>1. LabTypes'
    BY StepTypes
  <1>2. CASE Passes
    BY <1>1, <1>2, ServersChange, PassesAwaited
  <1>3. CASE ~Passes
    BY <1>3, StepTypes, SendAwaited
  <1> QED
    BY <1>2, <1>3

(***************************************************************************)
(* The operator, and what a run has seen so far.                           *)
(***************************************************************************)

\* While some client's recovery is undisturbed, the operator does nothing.
Quiet == (\E c \in Clients : undisturbed[c]) => injecting = Nothing

\* Nothing is verified before the recovery has succeeded.
NotYet == \A c \in Clients : outcome[c] \in {"none", "recovering"} => verified[c] = {}

\* What a step that disturbs leaves.
Disturbed == \A c \in Clients : ~undisturbed[c]

LEMMA OperatorDisturbs ==
    ASSUME LabTypes, Quiet, Operator
    PROVE  Disturbed'
  <1>1. CASE InjectHang \/ \E call \in Injections : BeginInjection(call)
    BY <1>1 DEF InjectHang, BeginInjection, Disturb, Disturbed
  <1>2. CASE InjectionStops \/ InjectionStarts \/ InjectionFails
    <2>1. injecting # Nothing /\ undisturbed' = undisturbed
      BY <1>2 DEF InjectionStops, InjectionStarts, InjectionFails, Nothing
    <2> QED
      BY <2>1 DEF Quiet, Disturbed
  <1> QED
    BY <1>1, <1>2 DEF Operator

\* A client's step only takes confidence away, or begins a recovery.
LEMMA ClientQuiet ==
    ASSUME LabTypes, NEW c \in Clients, Client(c)
    PROVE  /\ injecting' = injecting
           /\ \/ \A d \in Clients : undisturbed'[d] => undisturbed[d]
              \/ Recover(c) /\ (injecting = Nothing \/ ~undisturbed'[c])
                   /\ \A d \in Clients \ {c} : undisturbed'[d] = undisturbed[d]
  <1>1. CASE Open(c) \/ Close(c) \/ Killed(c) \/ TimesOut(c) \/ Verify(c)
    BY <1>1 DEF Open, Close, Killed, TimesOut, Verify, Send
  <1>2. CASE Recover(c)
    BY <1>2 DEF LabTypes, Recover, Send
  <1>3. ASSUME NEW n \in Servers, Terminated(c, n)
        PROVE  /\ injecting' = injecting
               /\ \A d \in Clients : undisturbed'[d] => undisturbed[d]
    BY <1>3 DEF Terminated, Disturb, apart
  <1>4. ASSUME NEW n \in Servers, NEW k \in DOMAIN requests[c][n],
               Handler(c, n, k)
        PROVE  /\ injecting' = injecting
               /\ \A d \in Clients : undisturbed'[d] => undisturbed[d]
    BY <1>4 DEF Handler, Begin, Stops, Starts, ComposeFails, Asks, Upstream,
                AsksDependency, Deadline, Answer, Disturb, apart
  <1> QED
    BY <1>1, <1>2, <1>3, <1>4 DEF Client

LEMMA StepQuiet ==
    ASSUME LabTypes, Quiet, Next
    PROVE  Quiet'
  <1>1. CASE Operator
    BY <1>1, OperatorDisturbs DEF Disturbed, Quiet
  <1>2. ASSUME NEW c \in Clients, Client(c)
        PROVE  Quiet'
    BY <1>2, ClientQuiet DEF Quiet
  <1> QED
    BY <1>1, <1>2 DEF Next

LEMMA StepNotYet ==
    ASSUME LabTypes, NotYet, Next
    PROVE  NotYet'
  <1>1. CASE Operator
    BY <1>1 DEF NotYet, Operator, InjectHang, InjectionStops, InjectionStarts,
                InjectionFails, BeginInjection
  <1>2. ASSUME NEW c \in Clients, Client(c)
        PROVE  NotYet'
    <2>1. CASE Open(c) \/ Close(c)
      BY <2>1 DEF NotYet, Open, Close
    <2>2. CASE Killed(c) \/ Recover(c) \/ Verify(c)
      BY <2>2 DEF LabTypes, NotYet, Killed, Recover, Verify, Send
    <2>3. CASE TimesOut(c)
      BY <2>3, Learns DEF NotYet, TimesOut
    <2>4. ASSUME NEW n \in Servers, Terminated(c, n)
          PROVE  NotYet'
      BY <2>4 DEF NotYet, Terminated
    <2>5. ASSUME NEW n \in Servers, NEW k \in DOMAIN requests[c][n],
                 Handler(c, n, k)
          PROVE  NotYet'
      <3>1. k = 1
        BY <2>5, AtFirst
      <3>2. \/ UNCHANGED <<outcome, verified>>
            \/ \E ok \in BOOLEAN : Answer(c, n, k, ok)
        BY <2>5 DEF Handler, Begin, Stops, Starts, ComposeFails, Asks, Upstream,
                    AsksDependency, Deadline
      <3>3. CASE UNCHANGED <<outcome, verified>>
        BY <3>3 DEF NotYet
      <3>4. ASSUME NEW ok \in BOOLEAN, Answer(c, n, k, ok)
            PROVE  NotYet'
        BY <3>1, <3>4, Answers DEF NotYet
      <3> QED
        BY <3>2, <3>3, <3>4
    <2> QED
      BY <1>2, <2>1, <2>2, <2>3, <2>4, <2>5 DEF Client
  <1> QED
    BY <1>1, <1>2 DEF Next

(***************************************************************************)
(* What the verification of an undisturbed recovery has seen.               *)
(***************************************************************************)

\* Its first question was answered by a service in order that still is: a
\* recovery that stops the service breaks the verification off, whoever began
\* it and whether or not anybody still waits for it.
Confirming ==
    \A c \in Clients, n \in Servers : \A k \in DOMAIN requests[c][n] :
        /\ undisturbed[c] /\ requests[c][n][k].awaited
        /\ requests[c][n][k].call = "verify" /\ requests[c][n][k].phase = "second"
        => SelfHealthy(lab)

\* What was verified is in order, or the service is down between two halves of
\* a recovery that will leave it in order.
Confirmed ==
    \A c \in Clients : undisturbed[c] =>
        /\ verified[c] # {} => lab.dependency
        /\ "payment-service" \in verified[c] =>
                lab.version = "v1" /\ ~lab.hung /\ (lab.up \/ Halfway)

\* No request comes to its second half, and none is newly awaited in it.
NoNewSecond ==
    \A c \in Clients, n \in Servers : \A k \in DOMAIN requests'[c][n] :
        requests'[c][n][k].phase = "second" =>
            /\ k \in DOMAIN requests[c][n]
            /\ requests[c][n][k].phase = "second"
            /\ requests[c][n][k].call = requests'[c][n][k].call
            /\ requests'[c][n][k].awaited => requests[c][n][k].awaited

\* No client learns anything of its recovery.
NoNews ==
    \A c \in Clients :
        undisturbed'[c] => undisturbed[c] /\ verified'[c] = verified[c]

LEMMA NothingSeen ==
    ASSUME Confirming, Confirmed, lab' = lab, NoNewSecond, NoNews,
           Halfway => Halfway'
    PROVE  Confirming' /\ Confirmed'
  <1>1. Confirming'
    BY DEF Confirming, NoNewSecond, NoNews, SelfHealthy
  <1>2. Confirmed'
    BY DEF Confirmed, NoNews
  <1> QED
    BY <1>1, <1>2

\* A recovery that is halfway stays so when something else is changed.
LEMMA StaysHalfway ==
    ASSUME NEW c \in Clients, NEW n \in Servers, Only(c, n), Halfway,
           \A k \in DOMAIN requests[c][n] :
                requests[c][n][k].call # "verify"
                  /\ requests[c][n][k].phase = "second" =>
                    /\ k \in DOMAIN requests'[c][n]
                    /\ requests'[c][n][k].call # "verify"
                    /\ requests'[c][n][k].phase = "second"
    PROVE  Halfway'
  <1>1. PICK d \in Clients, m \in Servers : \E k \in DOMAIN requests[d][m] :
            /\ requests[d][m][k].call # "verify"
            /\ requests[d][m][k].phase = "second"
    BY DEF Halfway, HalfwayIn
  <1>2. PICK k \in DOMAIN requests[d][m] :
            /\ requests[d][m][k].call # "verify"
            /\ requests[d][m][k].phase = "second"
    BY <1>1
  <1>3. /\ k \in DOMAIN requests'[d][m]
        /\ requests'[d][m][k].call # "verify"
        /\ requests'[d][m][k].phase = "second"
    BY <1>2 DEF Only
  <1> QED
    BY <1>3 DEF Halfway, HalfwayIn

\* In a queue without its first request nothing is in its second half.
LEMMA AnsweredSeconds ==
    ASSUME LabTypes, NEW c \in Clients, NEW n \in Servers, Only(c, n),
           \A j \in DOMAIN requests'[c][n] : requests'[c][n][j].phase = "queued"
    PROVE  NoNewSecond
BY DEF Only, NoNewSecond

\* A request is answered, or moved, that was not halfway in a recovery.
LEMMA OthersStayHalfway ==
    ASSUME LabTypes, NEW c \in Clients, NEW n \in Servers, Only(c, n), Halfway,
           NEW k \in DOMAIN requests[c][n], k = 1,
           requests[c][n][k].call = "verify" \/ requests[c][n][k].phase # "second"
    PROVE  Halfway'
  <1>1. \A j \in DOMAIN requests[c][n] :
            requests[c][n][j].call # "verify" => requests[c][n][j].phase # "second"
    <2>1. HeadOnly(requests[c][n])
      BY DEF LabTypes
    <2> QED
      BY <2>1 DEF HeadOnly
  <1> QED
    BY <1>1, StaysHalfway

\* The first request comes to a phase that is not the second.
LEMMA PhaseSeconds ==
    ASSUME LabTypes, NEW c \in Clients, NEW n \in Servers,
           NEW k \in DOMAIN requests[c][n], k = 1,
           requests' = [requests EXCEPT ![c][n][k].phase = "first"]
    PROVE  NoNewSecond /\ Only(c, n)
  <1>1. /\ Only(c, n)
        /\ DOMAIN requests'[c][n] = DOMAIN requests[c][n]
        /\ requests'[c][n][1] = [requests[c][n][1] EXCEPT !.phase = "first"]
        /\ \A j \in DOMAIN requests[c][n] :
                j # 1 => requests'[c][n][j] = requests[c][n][j]
    BY PhaseSet
  <1>2. requests'[c][n][1].phase # "second"
    <2>1. requests[c][n] \in Seq(Request)
      BY DEF LabTypes
    <2>2. requests[c][n][1] \in Request
      BY <2>1
    <2> QED
      BY <1>1, <2>2 DEF Request
  <1>3. ASSUME NEW d \in Clients, NEW m \in Servers,
               NEW j \in DOMAIN requests'[d][m], requests'[d][m][j].phase = "second"
        PROVE  /\ j \in DOMAIN requests[d][m]
               /\ requests[d][m][j].phase = "second"
               /\ requests[d][m][j].call = requests'[d][m][j].call
               /\ requests'[d][m][j].awaited => requests[d][m][j].awaited
    <2>1. /\ j \in DOMAIN requests[d][m]
          /\ requests'[d][m][j] = requests[d][m][j]
      <3>1. CASE d = c /\ m = n
        BY <1>1, <1>2, <1>3, <3>1
      <3>2. CASE d # c \/ m # n
        BY <1>1, <3>2 DEF Only
      <3> QED
        BY <3>1, <3>2
    <2> QED
      BY <1>3, <2>1
  <1> QED
    BY <1>1, <1>3 DEF NoNewSecond

\* A step that disturbs leaves nothing to confirm.
LEMMA DisturbedConfirms ==
    ASSUME Disturbed'
    PROVE  Confirming' /\ Confirmed'
BY DEF Disturbed, Confirming, Confirmed

\* A request that is sent is not begun, and nothing else is changed.
LEMMA SentSeconds ==
    ASSUME LabTypes, NEW c \in Clients, NEW call \in Recoveries \cup {"verify"},
           NEW service \in Services, Send(c, call, service)
    PROVE  NoNewSecond /\ (Halfway => Halfway')
  <1> DEFINE o == server[c]
             s == requests[c][o]
             r == [call |-> call, service |-> service,
                   awaited |-> TRUE, phase |-> "queued"]
  <1>1. /\ o \in Servers /\ Only(c, o)
        /\ Len(s) \in Nat /\ DOMAIN s = 1 .. Len(s)
        /\ DOMAIN requests'[c][o] = 1 .. Len(s) + 1
        /\ \A k \in DOMAIN s : requests'[c][o][k] = s[k]
        /\ requests'[c][o][Len(s) + 1] = r
    BY Sends
  <1>2. ASSUME NEW k \in DOMAIN requests'[c][o],
               requests'[c][o][k].phase = "second"
        PROVE  k \in DOMAIN s /\ requests'[c][o][k] = s[k]
    <2>1. k # Len(s) + 1
      BY <1>1, <1>2
    <2>2. k \in 1 .. Len(s)
      BY <1>1, <2>1
    <2> QED
      BY <1>1, <2>2
  <1>3. NoNewSecond
    BY <1>1, <1>2 DEF NoNewSecond, Only
  <1>4. \A k \in DOMAIN s : k \in DOMAIN requests'[c][o]
    BY <1>1
  <1>5. Halfway => Halfway'
    BY <1>1, <1>4, StaysHalfway
  <1> QED
    BY <1>3, <1>5

\* The client's operations.
LEMMA ClientConfirms ==
    ASSUME LabTypes, OneAwaited, NotYet, Confirming, Confirmed,
           NEW c \in Clients,
           \/ Open(c) \/ Close(c) \/ Killed(c) \/ TimesOut(c)
           \/ Recover(c) \/ Verify(c)
           \/ \E n \in Servers : Terminated(c, n)
    PROVE  Confirming' /\ Confirmed'
  <1>1. CASE Open(c) \/ Close(c)
    <2>1. UNCHANGED <<lab, verified, requests, undisturbed>>
      BY <1>1 DEF Open, Close
    <2>2. NoNewSecond /\ NoNews /\ Halfway' = Halfway
      BY <2>1 DEF NoNewSecond, NoNews, Halfway, HalfwayIn
    <2> QED
      BY <2>1, <2>2, NothingSeen
  <1>2. CASE Killed(c) \/ TimesOut(c)
    <2>1. UNCHANGED <<lab, undisturbed>>
      BY <1>2 DEF Killed, TimesOut
    <2>2. \A d \in Clients : verified'[d] = verified[d]
      <3>1. CASE Killed(c)
        BY <3>1 DEF Killed
      <3>2. CASE TimesOut(c)
        <4>1. PICK r : Learn(c, r, FALSE)
          BY <3>2 DEF TimesOut
        <4> QED
          BY <4>1, Learns
      <3> QED
        BY <1>2, <3>1, <3>2
    <2>3. /\ server[c] \in Servers /\ Only(c, server[c])
          /\ DOMAIN requests'[c][server[c]] = DOMAIN requests[c][server[c]]
          /\ \A k \in DOMAIN requests[c][server[c]] :
                /\ requests'[c][server[c]][k].call = requests[c][server[c]][k].call
                /\ requests'[c][server[c]][k].phase = requests[c][server[c]][k].phase
                /\ requests'[c][server[c]][k].awaited
                        => requests[c][server[c]][k].awaited
      BY <1>2, GivesUp
    <2>4. NoNewSecond
      BY <2>3 DEF NoNewSecond, Only
    <2>5. Halfway => Halfway'
      BY <2>3, StaysHalfway
    <2>6. NoNews
      BY <2>1, <2>2 DEF NoNews
    <2> QED
      BY <2>1, <2>4, <2>5, <2>6, NothingSeen
  <1>3. CASE Verify(c)
    <2>1. PICK service \in Services : Send(c, "verify", service)
      BY <1>3 DEF Verify
    <2>2. NoNewSecond /\ (Halfway => Halfway')
      BY <2>1, SentSeconds
    <2>3. NoNews /\ lab' = lab
      BY <1>3, <2>1 DEF NoNews, Verify, Send
    <2> QED
      BY <2>2, <2>3, NothingSeen
  <1>4. CASE Recover(c)
    <2>1. PICK call \in Recoveries \cup {"verify"}, service \in Services :
                Send(c, call, service)
      BY <1>4, SendTypes
    <2>2. NoNewSecond /\ (Halfway => Halfway')
      BY <2>1, SentSeconds
    <2>3. /\ UNCHANGED <<lab, verified>> /\ verified[c] = {} /\ AwaitsNothing(c)
          /\ \A d \in Clients \ {c} : undisturbed'[d] = undisturbed[d]
      BY <1>4, <2>1, AwaitsNone DEF LabTypes, NotYet, Recover, Send
    <2>4. Confirming'
      BY <2>2, <2>3 DEF Confirming, NoNewSecond, AwaitsNothing, SelfHealthy
    <2>5. Confirmed'
      BY <2>2, <2>3 DEF Confirmed
    <2> QED
      BY <2>4, <2>5
  <1>5. ASSUME NEW n \in Servers, Terminated(c, n)
        PROVE  Confirming' /\ Confirmed'
    <2>1. CASE HalfwayIn(requests[c][n])
      <3>1. Disturbed'
        BY <1>5, <2>1 DEF Terminated, Disturb, Disturbed
      <3> QED
        BY <3>1, DisturbedConfirms
    <2>2. CASE ~HalfwayIn(requests[c][n])
      <3>1. UNCHANGED <<lab, verified, undisturbed>>
        BY <1>5, <2>2 DEF Terminated
      <3>2. Only(c, n) /\ requests'[c][n] = <<>>
        BY <1>5, Terminates
      <3>3. NoNewSecond /\ NoNews
        BY <3>1, <3>2 DEF NoNewSecond, NoNews, Only
      <3>4. Halfway => Halfway'
        BY <2>2, <3>2, StaysHalfway DEF HalfwayIn
      <3> QED
        BY <3>1, <3>3, <3>4, NothingSeen
    <2> QED
      BY <2>1, <2>2
  <1> QED
    BY <1>1, <1>2, <1>3, <1>4, <1>5

\* The first half of a recovery breaks all verifications off.
LEMMA StopsConfirms ==
    ASSUME LabTypes, Confirming, Confirmed, NEW c \in Clients, NEW n \in Servers,
           NEW k \in DOMAIN requests[c][n], Stops(c, n, k)
    PROVE  Confirming' /\ Confirmed'
  <1>1. /\ AfterBreakOff(TRUE)
        /\ k \in DOMAIN requests'[c][n] /\ requests'[c][n][k].phase = "second"
        /\ requests'[c][n][k].call \in Recoveries
    BY RecoveryBreaksOff
  <1>2. ASSUME NEW d \in Clients, NEW m \in Servers,
               NEW j \in DOMAIN requests'[d][m],
               requests'[d][m][j].call = "verify"
        PROVE  requests'[d][m][j].phase # "second"
    <2>1. \A i \in DOMAIN requests'[d][m] :
            /\ requests'[d][m][i].call = requests[d][m][i].call
            /\ requests[d][m][i].call = "verify" =>
                    requests'[d][m][i].phase # "second"
      BY <1>1 DEF AfterBreakOff
    <2>2. requests[d][m][j].call = "verify"
      BY <1>2, <2>1
    <2> QED
      BY <2>1, <2>2
  <1>c. Confirming'
    BY <1>2 DEF Confirming
  <1>3. Halfway'
    BY <1>1 DEF Halfway, HalfwayIn, Recoveries
  <1>4. UNCHANGED <<verified, undisturbed>>
    BY DEF Stops
  <1>5. /\ lab'.version = lab.version /\ ~lab'.hung
        /\ lab.dependency => lab'.dependency
    BY Effects DEF Stops
  <1>6. Confirmed'
    BY <1>3, <1>4, <1>5 DEF Confirmed
  <1> QED
    BY <1>c, <1>6

\* The second half starts the service, whoever may have found it in order, and
\* whatever its client is told.
LEMMA StartsConfirms ==
    ASSUME LabTypes, Confirming, Confirmed,
           NEW c \in Clients, NEW n \in Servers,
           NEW k \in DOMAIN requests[c][n], k = 1, NEW ok \in BOOLEAN,
           Answer(c, n, k, ok), undisturbed' = undisturbed,
           requests[c][n][k].call \in Recoveries,
           lab' = SecondEffect(lab, requests[c][n][k].call)
    PROVE  Confirming' /\ Confirmed'
  <1>1. /\ Only(c, n)
        /\ \A j \in DOMAIN requests'[c][n] : requests'[c][n][j].phase = "queued"
        /\ \A d \in Clients : verified'[d] = verified[d]
    BY Answers DEF Recoveries
  <1>2. NoNewSecond
    BY <1>1, AnsweredSeconds
  <1>3. /\ lab'.up
        /\ lab.version = "v1" => lab'.version = "v1"
        /\ lab'.hung = lab.hung
        /\ lab'.dependency = lab.dependency
    BY Effects
  <1>4. Confirmed'
    BY <1>1, <1>3 DEF Confirmed
  <1>5. SelfHealthy(lab) => SelfHealthy(lab')
    BY <1>3 DEF SelfHealthy
  <1>6. Confirming'
    BY <1>2, <1>5 DEF Confirming, NoNewSecond, SelfHealthy
  <1> QED
    BY <1>4, <1>6

\* The verification asks the service itself.
LEMMA AsksConfirms ==
    ASSUME LabTypes, Confirming, Confirmed, NEW c \in Clients, NEW n \in Servers,
           NEW k \in DOMAIN requests[c][n], k = 1, Asks(c, n, k)
    PROVE  Confirming' /\ Confirmed'
  <1>1. /\ SelfHealthy(lab) /\ UNCHANGED <<lab, verified, undisturbed>>
        /\ requests[c][n][k].call = "verify"
    BY DEF Asks, Asking
  <1>2. Confirming'
    BY <1>1 DEF Confirming, SelfHealthy
  <1>3. Only(c, n)
    BY PhaseSet DEF Asks
  <1>4. Halfway => Halfway'
    BY <1>1, <1>3, OthersStayHalfway
  <1>5. Confirmed'
    BY <1>1, <1>4 DEF Confirmed
  <1> QED
    BY <1>2, <1>5

\* A yes: of the service it asked, and its upstream.
LEMMA YesConfirms ==
    ASSUME LabTypes, Confirming, Confirmed, NEW c \in Clients, NEW n \in Servers,
           NEW k \in DOMAIN requests[c][n], k = 1,
           requests[c][n][k].call = "verify",
           \/ requests[c][n][k].phase = "second"
           \/ requests[c][n][k].service = "dependency-service",
           lab.dependency, Answer(c, n, k, TRUE), UNCHANGED <<lab, undisturbed>>
    PROVE  Confirming' /\ Confirmed'
  <1> DEFINE r == requests[c][n][k]
  <1>0. PICK ok \in BOOLEAN : Answer(c, n, k, ok)
    OBVIOUS
  <1>1. /\ Only(c, n)
        /\ \A j \in DOMAIN requests'[c][n] : requests'[c][n][j].phase = "queued"
    BY <1>0, Answers
  <1>a. \A d \in Clients : d # c => verified'[d] = verified[d]
    BY DEF Answer, Learn, LabTypes
  <1>2. \/ verified'[c] = verified[c]
        \/ r.awaited /\ verified'[c] = verified[c] \cup {r.service}
    BY DEF Answer, Learn, LabTypes
  <1>3. NoNewSecond /\ (Halfway => Halfway')
    BY <1>1, AnsweredSeconds, OthersStayHalfway
  <1>4. Confirming'
    BY <1>3 DEF Confirming, NoNewSecond, SelfHealthy
  <1>5. undisturbed[c] /\ r.awaited /\ r.service = "payment-service"
            => SelfHealthy(lab)
    BY DEF Confirming
  <1>6. Confirmed'
    <2> SUFFICES ASSUME NEW d \in Clients, undisturbed[d]
                 PROVE  /\ "payment-service" \in verified'[d] =>
                            lab.version = "v1" /\ ~lab.hung /\ (lab.up \/ Halfway')
      BY DEF Confirmed
    <2>1. CASE d # c
      BY <1>a, <1>3, <2>1 DEF Confirmed
    <2>2. CASE d = c
      BY <1>2, <1>3, <1>5, <2>2 DEF Confirmed, SelfHealthy
    <2> QED
      BY <2>1, <2>2
  <1> QED
    BY <1>4, <1>6

\* The other steps of a verification say nothing of the service.
LEMMA VerificationConfirms ==
    ASSUME LabTypes, Confirming, Confirmed, NEW c \in Clients, NEW n \in Servers,
           NEW k \in DOMAIN requests[c][n], k = 1,
           \/ Begin(c, n, k) \/ Upstream(c, n, k)
           \/ AsksDependency(c, n, k) \/ Deadline(c, n, k)
    PROVE  Confirming' /\ Confirmed'
  <1>1. CASE Begin(c, n, k)
    <2>1. /\ requests' = [requests EXCEPT ![c][n][k].phase = "first"]
          /\ UNCHANGED <<lab, verified, undisturbed>>
          /\ requests[c][n][k].phase = "queued"
      BY <1>1 DEF Begin
    <2>2. NoNewSecond /\ (Halfway => Halfway')
      BY <2>1, PhaseSeconds, OthersStayHalfway
    <2> QED
      BY <2>1, <2>2, NothingSeen DEF NoNews
  <1>2. CASE (Upstream(c, n, k) /\ lab.dependency) \/ AsksDependency(c, n, k)
    BY <1>2, YesConfirms DEF Upstream, AsksDependency, Asking
  <1>3. CASE Upstream(c, n, k) /\ ~lab.dependency
    <2>1. /\ requests' = [requests EXCEPT ![c][n][k].phase = "first"]
          /\ UNCHANGED <<lab, verified, undisturbed>>
          /\ requests[c][n][k].call = "verify"
      BY <1>3 DEF Upstream
    <2>2. NoNewSecond /\ (Halfway => Halfway')
      BY <2>1, PhaseSeconds, OthersStayHalfway
    <2> QED
      BY <2>1, <2>2, NothingSeen DEF NoNews
  <1>4. CASE Deadline(c, n, k)
    <2>1. /\ Answer(c, n, k, FALSE) /\ UNCHANGED <<lab, undisturbed>>
          /\ requests[c][n][k].call = "verify"
      BY <1>4 DEF Deadline
    <2>2. /\ Only(c, n)
          /\ \A j \in DOMAIN requests'[c][n] : requests'[c][n][j].phase = "queued"
      BY <2>1, Answers
    <2>a. \A d \in Clients : verified'[d] = verified[d]
      BY <2>1 DEF Answer, Learn, LabTypes
    <2>3. NoNewSecond /\ (Halfway => Halfway')
      BY <2>1, <2>2, AnsweredSeconds, OthersStayHalfway
    <2> QED
      BY <2>1, <2>a, <2>3, NothingSeen DEF NoNews
  <1> QED
    BY <1>1, <1>2, <1>3, <1>4

\* A recovery ends, or fails before, between or after its two halves.
LEMMA RecoveryConfirms ==
    ASSUME LabTypes, Confirming, Confirmed, NEW c \in Clients, NEW n \in Servers,
           NEW k \in DOMAIN requests[c][n], k = 1,
           Starts(c, n, k) \/ ComposeFails(c, n, k)
    PROVE  Confirming' /\ Confirmed'
  <1>1. CASE Starts(c, n, k)
    BY <1>1, StartsConfirms DEF Starts
  <1>2. CASE ComposeFails(c, n, k)
    <2>1. Answer(c, n, k, FALSE) /\ requests[c][n][k].call \in Recoveries
      BY <1>2 DEF ComposeFails
    <2>2. CASE requests[c][n][k].phase = "first" /\ UNCHANGED <<lab, undisturbed>>
      <3>1. /\ Only(c, n)
            /\ \A j \in DOMAIN requests'[c][n] :
                    requests'[c][n][j].phase = "queued"
        BY <2>1, Answers
      <3>a. \A d \in Clients : verified'[d] = verified[d]
        BY <2>1 DEF Answer, Learn, LabTypes
      <3>2. NoNewSecond /\ (Halfway => Halfway')
        BY <2>2, <3>1, AnsweredSeconds, OthersStayHalfway
      <3> QED
        BY <2>2, <3>a, <3>2, NothingSeen DEF NoNews
    <2>3. CASE Disturb
      BY <2>3, DisturbedConfirms DEF Disturb, Disturbed
    <2>4. CASE /\ lab' = SecondEffect(lab, requests[c][n][k].call)
               /\ undisturbed' = undisturbed
      BY <2>1, <2>4, StartsConfirms
    <2> QED
      BY <1>2, <2>2, <2>3, <2>4 DEF ComposeFails
  <1> QED
    BY <1>1, <1>2

(***************************************************************************)
(* The invariant.                                                          *)
(***************************************************************************)

LabInv == LabTypes /\ OneAwaited /\ Quiet /\ NotYet /\ Confirming /\ Confirmed

LEMMA LabInit == Init => LabInv
  <1> SUFFICES ASSUME Init
               PROVE  LabInv
    OBVIOUS
  <1>1. LabTypes
    BY LabBounds DEF Init, LabTypes, Lab, Outcome, HeadOnly, Nothing
  <1>2. OneAwaited /\ Quiet /\ NotYet /\ Confirming /\ Confirmed
    BY DEF Init, OneAwaited, Quiet, NotYet, Confirming, Confirmed
  <1> QED
    BY <1>1, <1>2 DEF LabInv

LEMMA LabStep == LabInv /\ [Next]_vars => LabInv'
  <1> SUFFICES ASSUME LabInv, [Next]_vars
               PROVE  LabInv'
    OBVIOUS
  <1> USE DEF LabInv
  <1>1. CASE UNCHANGED vars
    BY <1>1 DEF vars, LabTypes, OneAwaited, Quiet, NotYet, Confirming, Confirmed,
                Halfway, HalfwayIn, SelfHealthy
  <1>2. CASE Next
    <2>1. LabTypes' /\ OneAwaited' /\ Quiet' /\ NotYet'
      BY <1>2, StepTypes, StepAwaited, StepQuiet, StepNotYet
    <2>2. CASE Operator
      BY <2>1, <2>2, OperatorDisturbs, DisturbedConfirms
    <2>3. ASSUME NEW c \in Clients, Client(c)
          PROVE  Confirming' /\ Confirmed'
      <3>1. CASE \/ Open(c) \/ Close(c) \/ Killed(c) \/ TimesOut(c)
                 \/ Recover(c) \/ Verify(c)
                 \/ \E n \in Servers : Terminated(c, n)
        BY <3>1, ClientConfirms
      <3>2. ASSUME NEW n \in Servers, NEW k \in DOMAIN requests[c][n],
                   Handler(c, n, k)
            PROVE  Confirming' /\ Confirmed'
        <4>1. k = 1
          BY <3>2, AtFirst
        <4> QED
          BY <3>2, <4>1, StopsConfirms, RecoveryConfirms, AsksConfirms,
             VerificationConfirms DEF Handler
      <3> QED
        BY <2>3, <3>1, <3>2 DEF Client
    <2> QED
      BY <1>2, <2>1, <2>2, <2>3 DEF Next
  <1> QED
    BY <1>1, <1>2

\* The invariant of the lab holds for every number of clients and faults.
THEOREM LabInvariant == Spec => []LabInv
  <1> QED
    BY LabInit, LabStep, PTL DEF Spec

\* VerifiedHolds: what a client saw verified after its recovery is in order, as
\* long as no fault was injected and no recovery was cut off while the service
\* was down, whatever abandoned recoveries its server still carries out.
THEOREM VerdictHolds == Spec => []VerifiedHolds
  <1>1. LabInv => VerifiedHolds
    BY DEF LabInv, LabTypes, Confirmed, VerifiedHolds, Healthy, SelfHealthy
  <1> QED
    BY <1>1, LabInvariant, PTL
=============================================================================
