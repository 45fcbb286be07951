------------------------- MODULE ClientServerProofs -------------------------
(***************************************************************************)
(* Proofs about the server and its clients, for every number of clients,   *)
(* of requests and of threads, every queue, every retry policy, all times  *)
(* and both frontier policies.                                             *)
(*                                                                         *)
(* The components meet only in the agenda, so every property is a balance  *)
(* between variables and numbers of entries.  The first part counts: what  *)
(* a handled entry and the entries it posts do to the amount of any kind   *)
(* of event.  The second has the steps of the server, the third those of   *)
(* a client, and the last part puts the inductive invariant IInv together. *)
(***************************************************************************)
EXTENDS ClientServer, SumTheorems

-----------------------------------------------------------------------------
(* Counting the entries of the agenda. *)

\* What a handler may ask of the agenda.
Orders == [delay : Nat, ev : EventTypes]

\* The entries of E whose event is in K, and the places of s that post one.
Having(E, K) == {f \in E : f.ev \in K}
Posting(s, K) == {i \in 1 .. Len(s) : s[i].ev \in K}
Amount(K) == Cardinality(Having(events, K))
Of(k) == {ev \in EventTypes : ev.kind = k}

\* Ids are handed out in order and no entry is in the past.
Stamped == \A f \in events : f.seq <= next_event_id /\ now <= f.time

\* The agenda is well formed: typed, finite and stamped.
AgendaOK ==
    /\ now \in Time
    /\ next_event_id \in Nat
    /\ events \subseteq [seq : Nat, time : Time, ev : EventTypes]
    /\ IsFiniteSet(events)
    /\ Stamped

\* Saturating addition stays within time and never goes back.
LEMMA AddTimeGrows ==
    ASSUME NEW t \in Time, NEW d \in Nat
    PROVE  AddTime(t, d) \in Time /\ t <= AddTime(t, d) /\ AddTime(t, 0) = t
BY MaxTimeAssumption DEF AddTime, Clamp, Time

\* The entries of a sequence of orders.
LEMMA EntriesFacts ==
    ASSUME NEW s \in Seq(Orders), NEW id \in Nat, NEW t \in Time
    PROVE  /\ IsFiniteSet(Entries(s, id, t))
           /\ Entries(s, id, t) \subseteq [seq : Nat, time : Time, ev : EventTypes]
           /\ \A f \in Entries(s, id, t) : id < f.seq /\ f.seq <= id + Len(s) /\ t <= f.time
           /\ \A i \in 1 .. Len(s) :
                 \E f \in Entries(s, id, t) : f.ev = s[i].ev /\ f.time = AddTime(t, s[i].delay)
<1> DEFINE n == Len(s)
           g == [i \in 1 .. n |-> [seq |-> id + i, time |-> AddTime(t, s[i].delay), ev |-> s[i].ev]]
           E == Entries(s, id, t)
<1>1. n \in Nat /\ \A i \in 1 .. n : s[i] \in Orders
  OBVIOUS
<1>2. \A i \in 1 .. n : s[i].delay \in Nat /\ s[i].ev \in EventTypes
  BY <1>1 DEF Orders
<1>3. IsFiniteSet(1 .. n)
  BY <1>1, FS_Interval
<1>4. E = {g[i] : i \in 1 .. n}
  BY DEF Entries
<1>5. IsFiniteSet(E)
  <2> HIDE DEF g, E
  <2>1. g \in [1 .. n -> E]
    BY <1>4 DEF g
  <2>2. g \in Surjection(1 .. n, E)
    BY <2>1, <1>4 DEF Surjection
  <2> QED
    BY <1>3, <2>2, FS_Surjection
<1>6. \A i \in 1 .. n : /\ g[i] \in [seq : Nat, time : Time, ev : EventTypes]
                        /\ id < g[i].seq /\ g[i].seq <= id + n /\ t <= g[i].time
                        /\ g[i].ev = s[i].ev /\ g[i].time = AddTime(t, s[i].delay)
  BY <1>1, <1>2, AddTimeGrows
<1> QED
  BY <1>4, <1>5, <1>6

\* A sequence of orders makes one entry for each of its places.
LEMMA EntriesCount ==
    ASSUME NEW s \in Seq(Orders), NEW id \in Nat, NEW t \in Time, NEW K
    PROVE  /\ IsFiniteSet(Posting(s, K))
           /\ Cardinality(Having(Entries(s, id, t), K)) = Cardinality(Posting(s, K))
<1> DEFINE n == Len(s)
           h(i) == [seq |-> id + i, time |-> AddTime(t, s[i].delay), ev |-> s[i].ev]
           P == Posting(s, K)
           H == Having(Entries(s, id, t), K)
           g == [i \in P |-> h(i)]
<1>1. n \in Nat /\ P \subseteq 1 .. n
  BY DEF Posting
<1>2. IsFiniteSet(P)
  <2> HIDE DEF n, P
  <2>1. IsFiniteSet(1 .. n)
    BY <1>1, FS_Interval
  <2> QED
    BY <1>1, <2>1, FS_Subset
<1>3. \A i \in 1 .. n : h(i).ev = s[i].ev /\ h(i).seq = id + i
  OBVIOUS
<1>4. H = {h(i) : i \in P}
  BY <1>3 DEF Having, Entries, Posting
<1>5. \A i, j \in P : h(i) = h(j) => i = j
  BY <1>1, <1>3
<1>6. g \in Bijection(P, H)
  <2> HIDE DEF h, P, H
  <2>1. g \in [P -> H]
    BY <1>4
  <2>2. g \in Surjection(P, H)
    BY <2>1, <1>4 DEF Surjection
  <2>3. g \in Injection(P, H)
    BY <2>1, <1>5 DEF Injection, IsInjective
  <2> QED
    BY <2>2, <2>3 DEF Bijection
<1> QED
  <2> HIDE DEF P, H, g
  <2>1. ExistsBijection(P, H)
    BY <1>6 DEF ExistsBijection
  <2>2. Cardinality(P) = Cardinality(H)
    BY <1>2, <2>1, FS_Bijection
  <2> QED
    BY <1>2, <2>2 DEF P, H

\* A handled entry leaves a well formed agenda; nothing else is lost.
LEMMA HandledFacts ==
    ASSUME AgendaOK, NEW s \in Seq(Orders), NEW e, Handled(e, s)
    PROVE  /\ AgendaOK'
           /\ e \in events /\ e.ev \in EventTypes /\ e.time \in Time
           /\ now <= e.time /\ \A f \in events : e.time <= f.time
           /\ now' = e.time
           /\ \A f \in events \ {e} : f \in events'
           /\ \A i \in 1 .. Len(s) :
                 \E f \in events' : f.ev = s[i].ev /\ f.time = AddTime(now', s[i].delay)
<1> DEFINE E == Entries(s, next_event_id, e.time)
<1>1. /\ e \in events /\ \A f \in events : e.time <= f.time
      /\ now' = e.time
      /\ events' = (events \ {e}) \cup E
      /\ next_event_id' = next_event_id + Len(s)
  BY DEF Handled, Choice
<1>2. e.ev \in EventTypes /\ e.time \in Time /\ now <= e.time
  BY <1>1 DEF AgendaOK, Stamped
<1>3. next_event_id \in Nat /\ Len(s) \in Nat
  BY DEF AgendaOK
<1>4. /\ IsFiniteSet(E)
      /\ E \subseteq [seq : Nat, time : Time, ev : EventTypes]
      /\ \A f \in E : next_event_id < f.seq /\ f.seq <= next_event_id + Len(s) /\ e.time <= f.time
      /\ \A i \in 1 .. Len(s) :
            \E f \in E : f.ev = s[i].ev /\ f.time = AddTime(e.time, s[i].delay)
  BY <1>2, <1>3, EntriesFacts
<1> HIDE DEF E
<1>5. IsFiniteSet(events')
  <2>1. IsFiniteSet(events \ {e})
    BY FS_Subset DEF AgendaOK
  <2> QED
    BY <2>1, <1>1, <1>4, FS_Union
<1>6. events' \subseteq [seq : Nat, time : Time, ev : EventTypes]
  BY <1>1, <1>4 DEF AgendaOK
<1>7. Stamped'
  <2> SUFFICES ASSUME NEW f \in events'
               PROVE  f.seq <= next_event_id' /\ now' <= f.time
    BY DEF Stamped
  <2>1. CASE f \in E
    BY <2>1, <1>1, <1>4
  <2>2. CASE f \in events
    <3>1. f.seq \in Nat /\ f.seq <= next_event_id
      BY <2>2 DEF AgendaOK, Stamped
    <3> QED
      BY <2>2, <3>1, <1>1, <1>3
  <2> QED
    BY <2>1, <2>2, <1>1
<1>8. AgendaOK'
  BY <1>1, <1>2, <1>3, <1>5, <1>6, <1>7 DEF AgendaOK
<1>9. \A i \in 1 .. Len(s) :
          \E f \in events' : f.ev = s[i].ev /\ f.time = AddTime(now', s[i].delay)
  BY <1>1, <1>4
<1> QED
  BY <1>1, <1>2, <1>8, <1>9

\* Amounts are numbers,
LEMMA HavingNat ==
    ASSUME NEW E, IsFiniteSet(E), NEW K
    PROVE  Cardinality(Having(E, K)) \in Nat
<1>1. IsFiniteSet(Having(E, K))
  BY FS_Subset DEF Having
<1> QED
  BY <1>1, FS_CardinalityType

\* in this state
LEMMA AmountNat == ASSUME AgendaOK, NEW K PROVE Amount(K) \in Nat
BY HavingNat DEF AgendaOK, Amount

\* and in the next.
LEMMA AmountNatNext == ASSUME AgendaOK', NEW K PROVE Amount(K)' \in Nat
BY HavingNat DEF AgendaOK, Amount

\* A condition as a number.
Once(b) == IF b THEN 1 ELSE 0

\* The amount of any set of events K after e was handled and s posted.
LEMMA HandledCount ==
    ASSUME AgendaOK, NEW s \in Seq(Orders), NEW e, Handled(e, s), NEW K
    PROVE  Amount(K)' = Amount(K) + Cardinality(Posting(s, K)) - Once(e.ev \in K)
<1> DEFINE E == Entries(s, next_event_id, e.time)
           H == Having(events, K)
           N == Having(E, K)
           R == IF e.ev \in K THEN H \ {e} ELSE H
<1>1. e \in events /\ events' = (events \ {e}) \cup E
  BY DEF Handled, Choice
<1>2. e.time \in Time /\ next_event_id \in Nat
  BY <1>1 DEF AgendaOK
<1>3. /\ IsFiniteSet(Posting(s, K))
      /\ Cardinality(N) = Cardinality(Posting(s, K))
  BY <1>2, EntriesCount
<1>4. IsFiniteSet(E) /\ \A f \in E : next_event_id < f.seq
  BY <1>2, EntriesFacts
<1>5. IsFiniteSet(H) /\ IsFiniteSet(N)
  BY <1>4, FS_Subset DEF AgendaOK, Having
<1>6. Cardinality(H) \in Nat /\ Cardinality(N) \in Nat
  BY <1>5, FS_CardinalityType
<1>7. R \cap N = {}
  BY <1>2, <1>4 DEF AgendaOK, Stamped, Having
<1>8. Having(events', K) = R \cup N
  BY <1>1 DEF Having
<1>9. IsFiniteSet(R) /\ Cardinality(R) + Once(e.ev \in K) = Cardinality(H) /\ Cardinality(R) \in Nat
  <2>1. CASE e.ev \in K
    <3>1. e \in H
      BY <1>1, <2>1 DEF Having
    <3>2. R = H \ {e}
      BY <2>1
    <3> HIDE DEF H, R
    <3>3. IsFiniteSet(R) /\ Cardinality(R) = Cardinality(H) - 1
      BY <3>1, <3>2, <1>5, FS_RemoveElement
    <3>4. Cardinality(R) \in Nat
      BY <3>3, FS_CardinalityType
    <3> QED
      BY <3>3, <3>4, <2>1, <1>6 DEF Once
  <2>2. CASE e.ev \notin K
    BY <2>2, <1>5, <1>6 DEF Once
  <2> QED
    BY <2>1, <2>2
<1>10. Cardinality(R \cup N) = Cardinality(R) + Cardinality(N)
  <2> HIDE DEF R, N, H, E
  <2>1. Cardinality(R \cap N) = 0
    BY <1>7, FS_EmptySet
  <2>2. Cardinality(R \cup N) = Cardinality(R) + Cardinality(N) - Cardinality(R \cap N)
    BY <1>5, <1>9, FS_Union
  <2> QED
    BY <2>1, <2>2, <1>6, <1>9
<1> HIDE DEF R, N, H, E
<1>11. Once(e.ev \in K) \in Nat
  BY DEF Once
<1>12. Amount(K) = Cardinality(H) /\ Amount(K)' = Cardinality(R \cup N)
  BY <1>8 DEF Amount, H
<1> QED
  BY <1>3, <1>6, <1>9, <1>10, <1>11, <1>12

\* How many of K the short sequences post.
LEMMA PostingFew ==
    ASSUME NEW K
    PROVE  /\ Cardinality(Posting(<<>>, K)) = 0
           /\ \A x \in Orders : Cardinality(Posting(<<x>>, K)) = Once(x.ev \in K)
           /\ \A x, y \in Orders :
                 Cardinality(Posting(<<x, y>>, K)) = Once(x.ev \in K) + Once(y.ev \in K)
<1>1. Posting(<<>>, K) = {}
  BY DEF Posting
<1>2. Cardinality({}) = 0 /\ Cardinality({1}) = 1 /\ Cardinality({2}) = 1 /\ Cardinality({1, 2}) = 2
  <2>1. Cardinality({}) = 0 /\ IsFiniteSet({})
    BY FS_EmptySet
  <2>2. Cardinality({1}) = 1 /\ IsFiniteSet({1}) /\ Cardinality({2}) = 1
    BY FS_Singleton
  <2>3. Cardinality({1} \cup {2}) = Cardinality({1}) + 1
    BY <2>2, FS_AddElement
  <2>4. {1} \cup {2} = {1, 2}
    OBVIOUS
  <2> QED
    BY <2>1, <2>2, <2>3, <2>4
<1>3. ASSUME NEW x \in Orders
      PROVE  Cardinality(Posting(<<x>>, K)) = Once(x.ev \in K)
  <2>1. Posting(<<x>>, K) = IF x.ev \in K THEN {1} ELSE {}
    BY DEF Posting
  <2> QED
    BY <2>1, <1>2 DEF Once
<1>4. ASSUME NEW x \in Orders, NEW y \in Orders
      PROVE  Cardinality(Posting(<<x, y>>, K)) = Once(x.ev \in K) + Once(y.ev \in K)
  <2>1. Posting(<<x, y>>, K) = (IF x.ev \in K THEN {1} ELSE {}) \cup (IF y.ev \in K THEN {2} ELSE {})
    BY DEF Posting
  <2>2. {1} \cup {} = {1} /\ {} \cup {2} = {2} /\ {} \cup {} = {} /\ {1} \cup {2} = {1, 2}
    OBVIOUS
  <2> QED
    BY <2>1, <2>2, <1>2 DEF Once
<1> QED
  BY <1>1, <1>2, <1>3, <1>4

\* The amounts that the invariants speak of, and a dequeue that is due.
Processing == Amount(Of("ProcessRequest"))
Serving == Amount(Of("RequestCompleted"))
SendsDue(c) == Amount({SendRequest(c)})
RetriesDue(c, r) == Amount({RetryRequest(c, r)})
Due == \E f \in events : f.ev = ProcessQueuedRequests /\ f.time = now

\* What the kind of an event says about its fields.
LEMMA EventShapes ==
    ASSUME NEW ev \in EventTypes
    PROVE  /\ ev.kind = "SendRequest" => ev.client \in Clients /\ ev = SendRequest(ev.client)
           /\ ev.kind = "RetryRequest" => /\ ev.client \in Clients /\ ev.request \in RequestIds
                                          /\ ev = RetryRequest(ev.client, ev.request)
           /\ ev.kind \in {"RequestTimeout", "ProcessRequest", "RequestCompleted", "ResponseReceived"}
                 => ev.attempt \in Attempts
           /\ ev.kind = "ResponseReceived" => ev.ok \in BOOLEAN
           /\ ev.kind = "ProcessQueuedRequests" => ev = ProcessQueuedRequests
<1>1. CASE ev \in [kind : {"SendRequest"}, client : Clients]
  BY <1>1 DEF SendRequest
<1>2. CASE ev \in [kind : {"RetryRequest"}, client : Clients, request : RequestIds]
  BY <1>2 DEF RetryRequest
<1>3. CASE ev \in [kind : {"RequestTimeout", "ProcessRequest", "RequestCompleted"}, attempt : Attempts]
  BY <1>3
<1>4. CASE ev \in [kind : {"ResponseReceived"}, attempt : Attempts, ok : BOOLEAN]
  BY <1>4
<1>5. CASE ev = ProcessQueuedRequests
  BY <1>5 DEF ProcessQueuedRequests
<1> QED
  BY <1>1, <1>2, <1>3, <1>4, <1>5 DEF EventTypes

\* Every event a handler posts is one.
LEMMA EventsTyped ==
    /\ \A a \in Attempts : /\ RequestTimeout(a) \in EventTypes /\ ProcessRequest(a) \in EventTypes
                           /\ RequestCompleted(a) \in EventTypes
                           /\ \A ok \in BOOLEAN : ResponseReceived(a, ok) \in EventTypes
    /\ \A c \in Clients : SendRequest(c) \in EventTypes
    /\ \A c \in Clients : \A r \in RequestIds : RetryRequest(c, r) \in EventTypes
    /\ ProcessQueuedRequests \in EventTypes
BY DEF EventTypes, RequestTimeout, ProcessRequest, RequestCompleted, ResponseReceived, SendRequest,
       RetryRequest, ProcessQueuedRequests

\* Events of different kinds differ, and so do those of different requests.
LEMMA EventKinds ==
    /\ \A a : /\ RequestTimeout(a).kind = "RequestTimeout" /\ ProcessRequest(a).kind = "ProcessRequest"
              /\ RequestCompleted(a).kind = "RequestCompleted"
              /\ \A ok : ResponseReceived(a, ok).kind = "ResponseReceived"
    /\ \A c : SendRequest(c).kind = "SendRequest"
    /\ \A c, r : RetryRequest(c, r).kind = "RetryRequest"
    /\ \A c, r, d, q : RetryRequest(c, r) = RetryRequest(d, q) => c = d /\ r = q
    /\ \A c, d : SendRequest(c) = SendRequest(d) => c = d
    /\ ProcessQueuedRequests.kind = "ProcessQueuedRequests"
<1>1. \A c, r, d, q : RetryRequest(c, r) = RetryRequest(d, q) => c = d /\ r = q
  <2> TAKE c, r, d, q
  <2> HAVE RetryRequest(c, r) = RetryRequest(d, q)
  <2>1. RetryRequest(c, r).client = c /\ RetryRequest(d, q).client = d
    BY DEF RetryRequest
  <2>2. RetryRequest(c, r).request = r /\ RetryRequest(d, q).request = q
    BY DEF RetryRequest
  <2> QED
    BY <2>1, <2>2
<1>2. \A c, d : SendRequest(c) = SendRequest(d) => c = d
  <2> TAKE c, d
  <2> HAVE SendRequest(c) = SendRequest(d)
  <2>1. SendRequest(c).client = c /\ SendRequest(d).client = d
    BY DEF SendRequest
  <2> QED
    BY <2>1
<1> QED
  BY <1>1, <1>2 DEF RequestTimeout, ProcessRequest, RequestCompleted, ResponseReceived, SendRequest,
       RetryRequest, ProcessQueuedRequests

\* should_retry: a retry that is granted is counted and within max_attempts.
LEMMA RetryFacts ==
    ASSUME NEW k \in PolicyParameters, NEW p \in PolicyState, NEW t \in Time
    PROVE  LET v == ShouldRetry(k, p, t) IN
           /\ v.policy \in PolicyState
           /\ v.delays \subseteq Nat
           /\ v.delays # {} => /\ v.policy.current = p.current + 1
                               /\ v.policy.current <= k.max_attempts
<1> DEFINE v == ShouldRetry(k, p, t)
           q == [p EXCEPT !.current = @ + 1]
<1>1. /\ k.max_attempts \in Nat /\ k.delay \in Time /\ k.max_delay \in Time /\ k.max_tokens \in Nat
      /\ k.period \in Nat \ {0}
  BY DEF PolicyParameters
<1>2. q \in PolicyState /\ q.current = p.current + 1 /\ p.current \in Nat
  BY DEF PolicyState
<1> HIDE DEF q
<1>3. CASE k.kind = "none"
  <2>1. v = [policy |-> p, delays |-> {}]
    BY <1>3 DEF ShouldRetry
  <2> QED
    BY <2>1
<1>4. CASE k.kind # "none" /\ ~WithinBudget(k, q.current)
  <2>1. v = [policy |-> q, delays |-> {}]
    BY <1>4 DEF ShouldRetry, q
  <2> QED
    BY <2>1, <1>2
<1>5. CASE k.kind = "token" /\ WithinBudget(k, q.current)
  <2> DEFINE u == Refilled(k, q, t)
  <2>1. v = TokenRetry(k, q, t)
    BY <1>5 DEF ShouldRetry, q
  <2>2. u \in PolicyState /\ u.current = q.current
    <3>1. CASE q.refilled = Nil
      BY <3>1, <1>2 DEF Refilled, PolicyState
    <3>2. CASE q.refilled # Nil
      <4> DEFINE added == SubTime(t, q.refilled) \div k.period
      <4>1. q.refilled \in Time /\ q.tokens \in Nat
        BY <3>2, <1>2 DEF PolicyState
      <4>2. SubTime(t, q.refilled) \in Nat
        BY <4>1, MaxTimeAssumption DEF SubTime, Time
      <4>3. added \in Nat
        <5> HIDE DEF q
        <5>1. \A x \in Nat, y \in Nat \ {0} : x \div y \in Nat
          OBVIOUS
        <5> QED
          BY <5>1, <4>2, <1>1
      <4>4. CASE added = 0
        BY <4>4, <3>2, <1>2 DEF Refilled
      <4>5. CASE added # 0
        <5> HIDE DEF added
        <5>1. u = [q EXCEPT !.tokens = Least(@ + added, k.max_tokens), !.refilled = t]
          BY <4>5, <3>2 DEF Refilled, added
        <5>2. Least(q.tokens + added, k.max_tokens) \in Nat
          BY <4>1, <4>3, <1>1 DEF Least
        <5> QED
          BY <5>1, <5>2, <1>2 DEF PolicyState
      <4> QED
        BY <4>4, <4>5
    <3> QED
      BY <3>1, <3>2
  <2> HIDE DEF u
  <2>3. CASE u.tokens > 0
    <3> DEFINE w == [u EXCEPT !.tokens = @ - 1]
    <3>1. v = [policy |-> w, delays |-> {0}]
      BY <2>1, <2>3 DEF TokenRetry, u
    <3>2. w \in PolicyState /\ w.current = u.current
      BY <2>2, <2>3 DEF PolicyState
    <3> HIDE DEF w
    <3> QED
      BY <3>1, <3>2, <2>2, <1>2, <1>5 DEF WithinBudget
  <2>4. CASE ~(u.tokens > 0)
    <3>1. v = [policy |-> u, delays |-> {k.delay}]
      BY <2>1, <2>4 DEF TokenRetry, u
    <3> QED
      BY <3>1, <2>2, <1>1, <1>2, <1>5 DEF WithinBudget, Time
  <2> QED
    BY <2>3, <2>4
<1>6. CASE k.kind = "exponential" /\ WithinBudget(k, q.current)
  <2>1. v = [policy |-> q, delays |-> BackoffDelays(k, q.current)]
    BY <1>6 DEF ShouldRetry, q
  <2> DEFINE d == Least(MulTime(k.delay, 2 ^ (q.current - 1)), k.max_delay)
  <2>2. d \in Nat
    <3>1. MulTime(k.delay, 2 ^ (q.current - 1)) \in Time
      <4>1. \A n : Clamp(n) \in Time
        BY MaxTimeAssumption DEF Clamp, Time
      <4> QED
        BY <4>1 DEF MulTime
    <3>2. \A x, y \in Time : Least(x, y) \in Nat
      BY MaxTimeAssumption DEF Least, Time
    <3> QED
      BY <3>1, <3>2, <1>1
  <2> HIDE DEF d
  <2>3. (3 * d) \div 4 .. (5 * d) \div 4 \subseteq Nat
    BY <2>2
  <2>4. BackoffDelays(k, q.current) \subseteq Nat
    BY <2>2, <2>3 DEF BackoffDelays, d
  <2> QED
    BY <2>1, <2>4, <1>2, <1>6 DEF WithinBudget
<1>7. CASE k.kind \notin {"none", "token", "exponential"} /\ WithinBudget(k, q.current)
  <2>1. v = [policy |-> q, delays |-> {k.delay}]
    BY <1>7 DEF ShouldRetry, q
  <2> QED
    BY <2>1, <1>1, <1>2, <1>7 DEF WithinBudget, Time
<1> QED
  BY <1>3, <1>4, <1>5, <1>6, <1>7

\* The named amounts are numbers,
LEMMA AmountsNat ==
    ASSUME AgendaOK
    PROVE  /\ Processing \in Nat /\ Serving \in Nat
           /\ \A c : SendsDue(c) \in Nat
           /\ \A c, r : RetriesDue(c, r) \in Nat
BY AmountNat DEF Processing, Serving, SendsDue, RetriesDue

\* those of the server
LEMMA ServerAmounts == ASSUME AgendaOK PROVE Processing \in Nat /\ Serving \in Nat
BY AmountNat DEF Processing, Serving

\* in the next state too,
LEMMA ServerAmountsNext == ASSUME AgendaOK' PROVE Processing' \in Nat /\ Serving' \in Nat
BY AmountNatNext DEF Processing, Serving

\* as are the others.
LEMMA AmountsNatNext ==
    ASSUME AgendaOK'
    PROVE  /\ Processing' \in Nat /\ Serving' \in Nat
           /\ \A c : SendsDue(c)' \in Nat
           /\ \A c, r : RetriesDue(c, r)' \in Nat
BY AmountNatNext DEF Processing, Serving, SendsDue, RetriesDue

\* No SendRequest and no RetryRequest comes or goes.
Quiet ==
    /\ \A c : SendsDue(c)' = SendsDue(c)
    /\ \A c, r : RetriesDue(c, r)' = RetriesDue(c, r)

\* An event that is neither.
OfServer(ev) == ev.kind \notin {"SendRequest", "RetryRequest"}

\* A step that handles and posts events of the server only is quiet.
LEMMA StaysQuiet ==
    ASSUME AgendaOK, NEW s \in Seq(Orders), NEW e, Handled(e, s), OfServer(e.ev),
           \A i \in 1 .. Len(s) : OfServer(s[i].ev)
    PROVE  Quiet
<1>1. ASSUME NEW x, ~OfServer(x) PROVE Amount({x})' = Amount({x})
  <2>1. Amount({x})' = Amount({x}) + Cardinality(Posting(s, {x})) - Once(e.ev \in {x})
    BY HandledCount
  <2>2. Posting(s, {x}) = {}
    BY <1>1 DEF Posting
  <2>3. Cardinality(Posting(s, {x})) = 0
    BY <2>2, FS_EmptySet
  <2>4. Once(e.ev \in {x}) = 0
    BY <1>1 DEF Once
  <2>5. Amount({x}) \in Nat
    BY AmountNat
  <2>6. AgendaOK'
    BY HandledFacts
  <2>7. Amount({x})' \in Nat
    BY <2>6, AmountNatNext
  <2> QED
    BY <2>1, <2>3, <2>4, <2>5, <2>7
<1>2. (\A c : ~OfServer(SendRequest(c))) /\ \A c, r : ~OfServer(RetryRequest(c, r))
  BY EventKinds DEF OfServer
<1>3. \A c : SendsDue(c)' = SendsDue(c)
  BY <1>1, <1>2 DEF SendsDue
<1>4. \A c, r : RetriesDue(c, r)' = RetriesDue(c, r)
  BY <1>1, <1>2 DEF RetriesDue
<1> QED
  BY <1>3, <1>4 DEF Quiet

\* Handling another event than ProcessQueuedRequests leaves a due one due.
LEMMA DueStays ==
    ASSUME AgendaOK, NEW s \in Seq(Orders), NEW e, Handled(e, s), e.ev # ProcessQueuedRequests, Due
    PROVE  Due'
<1>1. PICK f \in events : f.ev = ProcessQueuedRequests /\ f.time = now
  BY DEF Due
<1>2. /\ e \in events /\ e.time \in Time /\ now <= e.time /\ e.time <= f.time
      /\ now' = e.time /\ \A g \in events \ {e} : g \in events'
  BY HandledFacts
<1>3. f \in events' /\ f.time = now'
  <2>1. now \in Time
    BY DEF AgendaOK
  <2> QED
    BY <1>1, <1>2, <2>1 DEF Time
<1> QED
  BY <1>1, <1>3 DEF Due

\* What a step does to the agenda as the server sees it: e goes, and p attempts
\* and c completions are posted.
Effect(e, p, c) ==
    /\ AgendaOK'
    /\ Processing' = Processing + p - Once(e.ev.kind = "ProcessRequest")
    /\ Serving' = Serving + c - Once(e.ev.kind = "RequestCompleted")
    /\ e.ev.kind # "ProcessQueuedRequests" /\ Due => Due'

\* The effect of any step,
LEMMA EffectOf ==
    ASSUME AgendaOK, NEW s \in Seq(Orders), NEW e, Handled(e, s)
    PROVE  Effect(e, Cardinality(Posting(s, Of("ProcessRequest"))),
                     Cardinality(Posting(s, Of("RequestCompleted"))))
<1>1. AgendaOK' /\ e.ev \in EventTypes
  BY HandledFacts
<1>2. \A k : (e.ev \in Of(k)) = (e.ev.kind = k)
  BY <1>1 DEF Of
<1>3. Processing' = Processing + Cardinality(Posting(s, Of("ProcessRequest")))
                      - Once(e.ev.kind = "ProcessRequest")
  BY HandledCount, <1>2 DEF Processing
<1>4. Serving' = Serving + Cardinality(Posting(s, Of("RequestCompleted")))
                   - Once(e.ev.kind = "RequestCompleted")
  BY HandledCount, <1>2 DEF Serving
<1>5. e.ev.kind # "ProcessQueuedRequests" /\ Due => Due'
  BY DueStays, EventKinds
<1> QED
  BY <1>1, <1>3, <1>4, <1>5 DEF Effect

\* of one that posts nothing,
LEMMA EffectNone ==
    ASSUME AgendaOK, NEW e, Handled(e, <<>>)
    PROVE  Effect(e, 0, 0) /\ (OfServer(e.ev) => Quiet)
<1> DEFINE s == <<>>
<1>1. s \in Seq(Orders) /\ Len(s) = 0 /\ Handled(e, s)
  OBVIOUS
<1>2. \A K : Cardinality(Posting(s, K)) = 0
  BY PostingFew
<1> HIDE DEF s
<1>3. Effect(e, 0, 0)
  BY <1>1, <1>2, EffectOf
<1>4. \A i \in 1 .. Len(s) : OfServer(s[i].ev)
  BY <1>1
<1> QED
  BY <1>1, <1>3, <1>4, StaysQuiet

\* of one that posts one event,
LEMMA EffectOne ==
    ASSUME AgendaOK, NEW e, NEW d \in Nat, NEW ev \in EventTypes, Handled(e, <<After(d, ev)>>)
    PROVE  /\ Effect(e, Once(ev.kind = "ProcessRequest"), Once(ev.kind = "RequestCompleted"))
           /\ OfServer(e.ev) /\ OfServer(ev) => Quiet
<1> DEFINE x == After(d, ev)
           s == <<x>>
<1>1. x \in Orders /\ x.ev = ev
  BY DEF After, Orders
<1>2. Handled(e, s)
  OBVIOUS
<1> HIDE DEF x
<1>3. s \in Seq(Orders) /\ Len(s) = 1 /\ s[1] = x
  BY <1>1
<1>4. \A K : Cardinality(Posting(s, K)) = Once(ev \in K)
  BY <1>1, PostingFew
<1> HIDE DEF s
<1>5. \A k : (ev \in Of(k)) = (ev.kind = k)
  BY DEF Of
<1>6. Effect(e, Once(ev.kind = "ProcessRequest"), Once(ev.kind = "RequestCompleted"))
  <2>1. /\ Cardinality(Posting(s, Of("ProcessRequest"))) = Once(ev.kind = "ProcessRequest")
        /\ Cardinality(Posting(s, Of("RequestCompleted"))) = Once(ev.kind = "RequestCompleted")
    BY <1>4, <1>5
  <2>2. Effect(e, Cardinality(Posting(s, Of("ProcessRequest"))),
                  Cardinality(Posting(s, Of("RequestCompleted"))))
    BY <1>2, <1>3, EffectOf
  <2> QED
    BY <2>1, <2>2
<1>7. ASSUME OfServer(ev) PROVE \A i \in 1 .. Len(s) : OfServer(s[i].ev)
  BY <1>1, <1>3, <1>7
<1> QED
  BY <1>2, <1>3, <1>6, <1>7, StaysQuiet

\* and of one that posts two.
LEMMA EffectTwo ==
    ASSUME AgendaOK, NEW e, NEW d \in Nat, NEW ev \in EventTypes, NEW g \in Nat, NEW ew \in EventTypes,
           Handled(e, <<After(d, ev), After(g, ew)>>)
    PROVE  /\ Effect(e, Once(ev.kind = "ProcessRequest") + Once(ew.kind = "ProcessRequest"),
                        Once(ev.kind = "RequestCompleted") + Once(ew.kind = "RequestCompleted"))
           /\ OfServer(e.ev) /\ OfServer(ev) /\ OfServer(ew) => Quiet
           /\ \E f \in events' : f.ev = ew /\ f.time = AddTime(now', g)
<1> DEFINE x == After(d, ev)
           z == After(g, ew)
           s == <<x, z>>
<1>1. x \in Orders /\ x.ev = ev /\ z \in Orders /\ z.ev = ew /\ z.delay = g
  BY DEF After, Orders
<1>2. Handled(e, s)
  OBVIOUS
<1> HIDE DEF x, z
<1>3. s \in Seq(Orders) /\ Len(s) = 2 /\ s[1] = x /\ s[2] = z
  BY <1>1
<1>4. \A K : Cardinality(Posting(s, K)) = Once(ev \in K) + Once(ew \in K)
  BY <1>1, PostingFew
<1> HIDE DEF s
<1>5. \A k : (ev \in Of(k)) = (ev.kind = k) /\ (ew \in Of(k)) = (ew.kind = k)
  BY DEF Of
<1>6. Effect(e, Once(ev.kind = "ProcessRequest") + Once(ew.kind = "ProcessRequest"),
                Once(ev.kind = "RequestCompleted") + Once(ew.kind = "RequestCompleted"))
  <2>1. /\ Cardinality(Posting(s, Of("ProcessRequest")))
             = Once(ev.kind = "ProcessRequest") + Once(ew.kind = "ProcessRequest")
        /\ Cardinality(Posting(s, Of("RequestCompleted")))
             = Once(ev.kind = "RequestCompleted") + Once(ew.kind = "RequestCompleted")
    BY <1>4, <1>5
  <2>2. Effect(e, Cardinality(Posting(s, Of("ProcessRequest"))),
                  Cardinality(Posting(s, Of("RequestCompleted"))))
    BY <1>2, <1>3, EffectOf
  <2> QED
    BY <2>1, <2>2
<1>7. ASSUME OfServer(ev), OfServer(ew) PROVE \A i \in 1 .. Len(s) : OfServer(s[i].ev)
  BY <1>1, <1>3, <1>7
<1>8. \E f \in events' : f.ev = ew /\ f.time = AddTime(now', g)
  <2>1. \A i \in 1 .. Len(s) : \E f \in events' : f.ev = s[i].ev /\ f.time = AddTime(now', s[i].delay)
    BY <1>2, <1>3, HandledFacts
  <2> QED
    BY <2>1, <1>1, <1>3
<1>9. OfServer(e.ev) /\ OfServer(ev) /\ OfServer(ew) => Quiet
  BY <1>2, <1>3, <1>7, StaysQuiet
<1> QED
  BY <1>6, <1>8, <1>9

-----------------------------------------------------------------------------
(* The server. *)

\* The types of the server.
ServerTypes ==
    /\ active_threads \in Nat
    /\ queue \in Seq(Attempts)
    /\ requests_processed \in Nat /\ requests_rejected \in Nat /\ requests_queued \in Nat

\* Threads are completions that are due, and no request is stranded.
ServerInv ==
    /\ active_threads = Serving
    /\ active_threads <= ThreadCapacity
    /\ queue # <<>> /\ HasCapacity(active_threads) => Due

\* The attempts the server has seen or will see.
Held == Processing + Len(queue) + active_threads + requests_processed + requests_rejected

\* The constants of the server are numbers.
LEMMA ServerConstants == ThreadCapacity \in Nat /\ Latency \in Nat /\ ServiceTimes \subseteq Nat
BY ServerAssumption, MaxTimeAssumption DEF Time

\* handle_request: start, wait or reject.
LEMMA RequestSteps ==
    ASSUME AgendaOK, ServerTypes, ServerInv, NEW e, HandleRequest(e)
    PROVE  AgendaOK' /\ ServerTypes' /\ ServerInv' /\ Held' = Held /\ Quiet
<1> DEFINE a == e.ev.attempt
<1>1. e.ev.kind = "ProcessRequest" /\ e.ev \in EventTypes
  BY DEF HandleRequest, StartProcessing, EnqueueRequest, RejectRequest, Handled, Choice, AgendaOK
<1>2. a \in Attempts /\ OfServer(e.ev)
  BY <1>1, EventShapes DEF OfServer
<1>3. Once(e.ev.kind = "ProcessRequest") = 1 /\ Once(e.ev.kind = "RequestCompleted") = 0
  BY <1>1 DEF Once
<1>4. ThreadCapacity \in Nat /\ Latency \in Nat /\ ServiceTimes \subseteq Nat
  BY ServerConstants
<1>5. Processing \in Nat /\ Serving \in Nat
  BY ServerAmounts
<1>6. Len(queue) \in Nat /\ active_threads \in Nat /\ requests_processed \in Nat /\ requests_rejected \in Nat
  BY DEF ServerTypes
<1> HIDE DEF a
<1>7. CASE HasCapacity(active_threads) /\ StartProcessing(e, a)
  <2> DEFINE ev == RequestCompleted(a)
  <2>1. PICK d \in ServiceTimes : Handled(e, <<After(d, ev)>>)
    BY <1>7 DEF StartProcessing
  <2>2. d \in Nat /\ ev \in EventTypes /\ ev.kind = "RequestCompleted"
    BY <1>2, <1>4, EventsTyped, EventKinds
  <2>3. OfServer(ev) /\ Once(ev.kind = "ProcessRequest") = 0 /\ Once(ev.kind = "RequestCompleted") = 1
    BY <2>2 DEF OfServer, Once
  <2> HIDE DEF ev
  <2>4. Effect(e, Once(ev.kind = "ProcessRequest"), Once(ev.kind = "RequestCompleted")) /\ Quiet
    BY <2>1, <2>2, <2>3, <1>2, EffectOne
  <2>5. AgendaOK' /\ Processing' = Processing + 0 - 1 /\ Serving' = Serving + 1 - 0 /\ (Due => Due')
    BY <2>3, <2>4, <1>1, <1>3 DEF Effect
  <2>6. Processing' \in Nat /\ Serving' \in Nat
    BY <2>5, ServerAmountsNext
  <2>7. /\ active_threads' = active_threads + 1 /\ queue' = queue
        /\ requests_processed' = requests_processed /\ requests_rejected' = requests_rejected
        /\ requests_queued' = requests_queued
    BY <1>7 DEF StartProcessing
  <2>8. ServerTypes' /\ Held' = Held
    BY <2>5, <2>6, <2>7, <1>5, <1>6 DEF ServerTypes, Held
  <2>9. ServerInv'
    BY <2>5, <2>6, <2>7, <1>4, <1>5, <1>6, <1>7 DEF ServerInv, HasCapacity
  <2> QED
    BY <2>4, <2>5, <2>8, <2>9
<1>8. CASE ~HasCapacity(active_threads) /\ EnqueueRequest(e, a)
  <2>1. Handled(e, <<>>)
    BY <1>8 DEF EnqueueRequest
  <2>2. Effect(e, 0, 0) /\ Quiet
    BY <2>1, <1>2, EffectNone
  <2>3. AgendaOK' /\ Processing' = Processing + 0 - 1 /\ Serving' = Serving + 0 - 0
    BY <2>2, <1>3 DEF Effect
  <2>4. Processing' \in Nat /\ Serving' \in Nat
    BY <2>3, ServerAmountsNext
  <2>5. /\ active_threads' = active_threads /\ queue' = Append(queue, a)
        /\ requests_processed' = requests_processed /\ requests_rejected' = requests_rejected
        /\ requests_queued' = requests_queued + 1
    BY <1>8 DEF EnqueueRequest
  <2>6. queue' \in Seq(Attempts) /\ Len(queue') = Len(queue) + 1
    BY <2>5, <1>2 DEF ServerTypes
  <2>7. ServerTypes'
    BY <2>5, <2>6, <1>6 DEF ServerTypes
  <2>8. Held' = Held
    BY <2>3, <2>4, <2>5, <2>6, <1>5, <1>6 DEF Held
  <2>9. ServerInv'
    BY <2>3, <2>4, <2>5, <1>5, <1>8 DEF ServerInv, HasCapacity
  <2> QED
    BY <2>2, <2>3, <2>7, <2>8, <2>9
<1>9. CASE ~HasCapacity(active_threads) /\ RejectRequest(e, a)
  <2> DEFINE ev == ResponseReceived(a, FALSE)
  <2>1. Handled(e, <<After(Latency, ev)>>)
    BY <1>9 DEF RejectRequest
  <2>2. ev \in EventTypes /\ ev.kind = "ResponseReceived"
    BY <1>2, EventsTyped, EventKinds
  <2>3. OfServer(ev) /\ Once(ev.kind = "ProcessRequest") = 0 /\ Once(ev.kind = "RequestCompleted") = 0
    BY <2>2 DEF OfServer, Once
  <2> HIDE DEF ev
  <2>4. Effect(e, Once(ev.kind = "ProcessRequest"), Once(ev.kind = "RequestCompleted")) /\ Quiet
    BY <2>1, <2>2, <2>3, <1>2, <1>4, EffectOne
  <2>5. AgendaOK' /\ Processing' = Processing + 0 - 1 /\ Serving' = Serving + 0 - 0
    BY <2>3, <2>4, <1>3 DEF Effect
  <2>6. Processing' \in Nat /\ Serving' \in Nat
    BY <2>5, ServerAmountsNext
  <2>7. /\ active_threads' = active_threads /\ queue' = queue
        /\ requests_processed' = requests_processed /\ requests_rejected' = requests_rejected + 1
        /\ requests_queued' = requests_queued
    BY <1>9 DEF RejectRequest
  <2>8. ServerTypes' /\ Held' = Held
    BY <2>5, <2>6, <2>7, <1>5, <1>6 DEF ServerTypes, Held
  <2>9. ServerInv'
    BY <2>5, <2>6, <2>7, <1>5, <1>9 DEF ServerInv, HasCapacity
  <2> QED
    BY <2>4, <2>5, <2>8, <2>9
<1> QED
  BY <1>7, <1>8, <1>9 DEF HandleRequest, a

\* complete_request.
LEMMA CompleteSteps ==
    ASSUME AgendaOK, ServerTypes, ServerInv, NEW e, CompleteRequest(e)
    PROVE  AgendaOK' /\ ServerTypes' /\ ServerInv' /\ Held' = Held /\ Quiet
<1> DEFINE a == e.ev.attempt
           n == IF active_threads > 0 THEN active_threads - 1 ELSE 0
           ev == ResponseReceived(a, TRUE)
           ew == ProcessQueuedRequests
<1>1. e.ev.kind = "RequestCompleted" /\ e.ev \in EventTypes
  BY DEF CompleteRequest, Handled, Choice, AgendaOK
<1>2. a \in Attempts /\ OfServer(e.ev)
  BY <1>1, EventShapes DEF OfServer
<1>3. Once(e.ev.kind = "ProcessRequest") = 0 /\ Once(e.ev.kind = "RequestCompleted") = 1
  BY <1>1 DEF Once
<1>4. ThreadCapacity \in Nat /\ Latency \in Nat
  BY ServerConstants
<1>5. Processing \in Nat /\ Serving \in Nat
  BY ServerAmounts
<1>6. Len(queue) \in Nat /\ active_threads \in Nat /\ requests_processed \in Nat /\ requests_rejected \in Nat
  BY DEF ServerTypes
<1>7. /\ ev \in EventTypes /\ ev.kind = "ResponseReceived"
      /\ ew \in EventTypes /\ ew.kind = "ProcessQueuedRequests"
  BY <1>2, EventsTyped, EventKinds
<1>8. /\ active_threads' = n /\ queue' = queue
      /\ requests_processed' = requests_processed + 1 /\ requests_rejected' = requests_rejected
      /\ requests_queued' = requests_queued
  BY DEF CompleteRequest
<1>9. Handled(e, IF WakeQueue(n) THEN <<After(Latency, ev), After(0, ew)>> ELSE <<After(Latency, ev)>>)
  BY DEF CompleteRequest
<1> HIDE DEF ev, ew, a, n
<1>10. /\ OfServer(ev) /\ Once(ev.kind = "ProcessRequest") = 0 /\ Once(ev.kind = "RequestCompleted") = 0
       /\ OfServer(ew) /\ Once(ew.kind = "ProcessRequest") = 0 /\ Once(ew.kind = "RequestCompleted") = 0
  BY <1>7 DEF OfServer, Once
<1>11. Effect(e, 0, 0) /\ Quiet /\ (WakeQueue(n) => Due')
  <2>1. CASE WakeQueue(n)
    <3>1. Handled(e, <<After(Latency, ev), After(0, ew)>>)
      BY <1>9, <2>1
    <3>2. /\ Effect(e, Once(ev.kind = "ProcessRequest") + Once(ew.kind = "ProcessRequest"),
                       Once(ev.kind = "RequestCompleted") + Once(ew.kind = "RequestCompleted"))
          /\ Quiet
          /\ \E f \in events' : f.ev = ew /\ f.time = AddTime(now', 0)
      BY <3>1, <1>2, <1>4, <1>7, <1>10, EffectTwo
    <3>3. Effect(e, 0, 0)
      BY <3>2, <1>10
    <3>4. now' \in Time
      BY <3>3 DEF Effect, AgendaOK
    <3>5. AddTime(now', 0) = now'
      BY <3>4, AddTimeGrows
    <3>6. Due'
      BY <3>2, <3>5 DEF Due, ew
    <3> QED
      BY <3>2, <3>3, <3>6
  <2>2. CASE ~WakeQueue(n)
    <3>1. Handled(e, <<After(Latency, ev)>>)
      BY <1>9, <2>2
    <3>2. Effect(e, Once(ev.kind = "ProcessRequest"), Once(ev.kind = "RequestCompleted")) /\ Quiet
      BY <3>1, <1>2, <1>4, <1>7, <1>10, EffectOne
    <3> QED
      BY <3>2, <1>10, <2>2
  <2> QED
    BY <2>1, <2>2
<1>12. AgendaOK' /\ Processing' = Processing + 0 - 0 /\ Serving' = Serving + 0 - 1
  BY <1>3, <1>11 DEF Effect
<1>13. Serving' \in Nat /\ Processing' \in Nat
  BY <1>12, ServerAmountsNext
<1>14. n = active_threads - 1 /\ Serving' = n /\ n \in Nat
  BY <1>5, <1>6, <1>12, <1>13 DEF ServerInv, n
<1>15. ServerTypes' /\ Held' = Held
  BY <1>5, <1>6, <1>8, <1>12, <1>13, <1>14 DEF ServerTypes, Held
<1>16. queue # <<>> => Len(queue) > 0
  <2>1. queue \in Seq(Attempts)
    BY DEF ServerTypes
  <2> QED
    BY <2>1, EmptySeq, <1>6
<1>17. ServerInv'
  BY <1>4, <1>6, <1>8, <1>11, <1>14, <1>16 DEF ServerInv, WakeQueue, HasCapacity
<1> QED
  BY <1>11, <1>12, <1>15, <1>17

\* process_queued_requests.
LEMMA QueuedSteps ==
    ASSUME AgendaOK, ServerTypes, ServerInv, NEW e, ProcessQueued(e)
    PROVE  AgendaOK' /\ ServerTypes' /\ ServerInv' /\ Held' = Held /\ Quiet
<1> DEFINE n == Startable
<1>1. e.ev.kind = "ProcessQueuedRequests" /\ e.ev \in EventTypes
  BY DEF ProcessQueued, Handled, Choice, AgendaOK
<1>2. OfServer(e.ev) /\ Once(e.ev.kind = "ProcessRequest") = 0 /\ Once(e.ev.kind = "RequestCompleted") = 0
  BY <1>1 DEF OfServer, Once
<1>3. ThreadCapacity \in Nat /\ ServiceTimes \subseteq Nat
  BY ServerConstants
<1>4. Processing \in Nat /\ Serving \in Nat
  BY ServerAmounts
<1>5. /\ Len(queue) \in Nat /\ active_threads \in Nat /\ requests_processed \in Nat /\ requests_rejected \in Nat
      /\ queue \in Seq(Attempts)
  BY DEF ServerTypes
<1>6. /\ n \in Nat /\ n <= Len(queue) /\ active_threads + n <= ThreadCapacity
      /\ n = Len(queue) \/ active_threads + n = ThreadCapacity
  BY <1>3, <1>5 DEF Startable, ServerInv
<1>a. queue' = SubSeq(queue, n + 1, Len(queue))
  BY DEF ProcessQueued, Dequeued
<1>7. /\ active_threads' = active_threads + n
      /\ requests_processed' = requests_processed /\ requests_rejected' = requests_rejected
      /\ requests_queued' = requests_queued
  BY DEF ProcessQueued, Dequeued
<1>8. PICK d \in [1 .. n -> ServiceTimes] :
          Handled(e, [i \in 1 .. n |-> After(d[i], RequestCompleted(queue[i]))])
  BY DEF ProcessQueued
<1> HIDE DEF n
<1> DEFINE s == [i \in 1 .. n |-> After(d[i], RequestCompleted(queue[i]))]
<1>9. Handled(e, s)
  BY <1>8
<1>10. \A i \in 1 .. n : /\ s[i] \in Orders /\ s[i].ev.kind = "RequestCompleted" /\ s[i].ev \in EventTypes
  <2> TAKE i \in 1 .. n
  <2>1. queue[i] \in Attempts /\ d[i] \in Nat
    <3>1. i \in 1 .. Len(queue)
      BY <1>5, <1>6
    <3>2. d[i] \in ServiceTimes
      OBVIOUS
    <3>3. queue[i] \in Attempts
      BY <3>1, <1>5, ElementOfSeq
    <3> QED
      BY <3>2, <3>3, <1>3
  <2>2. RequestCompleted(queue[i]) \in EventTypes /\ RequestCompleted(queue[i]).kind = "RequestCompleted"
    BY <2>1, EventsTyped, EventKinds
  <2>3. /\ After(d[i], RequestCompleted(queue[i])) \in Orders
        /\ After(d[i], RequestCompleted(queue[i])).ev = RequestCompleted(queue[i])
    BY <2>1, <2>2 DEF After, Orders
  <2> QED
    BY <2>2, <2>3
<1>11. s \in Seq(Orders) /\ Len(s) = n
  <2>1. s \in [1 .. n -> Orders]
    BY <1>10
  <2> QED
    BY <2>1, <1>6
<1> HIDE DEF s
<1>12. Posting(s, Of("RequestCompleted")) = 1 .. n /\ Posting(s, Of("ProcessRequest")) = {}
  BY <1>10, <1>11 DEF Posting, Of
<1>13. Cardinality(1 .. n) = n /\ Cardinality({}) = 0
  <2>1. 0 \in Int /\ 1 \in Int /\ n \in Int
    BY <1>6
  <2>2. Cardinality(1 .. n) = IF 1 > n THEN 0 ELSE n - 1 + 1
    BY <2>1, FS_Interval
  <2> QED
    BY <2>2, <1>6, FS_EmptySet
<1>14. Effect(e, 0, n)
  BY <1>9, <1>11, <1>12, <1>13, EffectOf
<1>15. Quiet
  <2>1. \A i \in 1 .. Len(s) : OfServer(s[i].ev)
    BY <1>10, <1>11 DEF OfServer
  <2> QED
    BY <2>1, <1>2, <1>9, <1>11, StaysQuiet
<1>16. AgendaOK' /\ Processing' = Processing + 0 - 0 /\ Serving' = Serving + n - 0
  BY <1>2, <1>14 DEF Effect
<1>17. Serving' \in Nat /\ Processing' \in Nat
  BY <1>16, ServerAmountsNext
<1>18. queue' \in Seq(Attempts) /\ Len(queue') = Len(queue) - n
  <2>1. /\ SubSeq(queue, n + 1, Len(queue)) \in Seq(Attempts)
        /\ Len(SubSeq(queue, n + 1, Len(queue)))
             = IF n + 1 <= Len(queue) THEN Len(queue) - (n + 1) + 1 ELSE 0
    BY <1>5, <1>6, SubSeqProperties
  <2> QED
    BY <2>1, <1>5, <1>6, <1>a
<1>19. ServerTypes'
  BY <1>5, <1>6, <1>7, <1>18 DEF ServerTypes
<1>20. Held' = Held
  BY <1>4, <1>5, <1>6, <1>7, <1>16, <1>17, <1>18 DEF Held
<1>21. ServerInv'
  <2>1. queue' # <<>> => Len(queue') \in Nat \ {0}
    BY <1>18, EmptySeq
  <2>2. queue' # <<>> => ~HasCapacity(active_threads')
    BY <2>1, <1>3, <1>5, <1>6, <1>7, <1>18 DEF HasCapacity
  <2>3. active_threads' = Serving' /\ active_threads' <= ThreadCapacity
    BY <1>4, <1>5, <1>6, <1>7, <1>16, <1>17 DEF ServerInv
  <2> QED
    BY <2>2, <2>3 DEF ServerInv, HasCapacity
<1> QED
  BY <1>15, <1>16, <1>19, <1>20, <1>21

\* The amount of one event when it is among those handled and posted.
LEMMA CountNone ==
    ASSUME AgendaOK, NEW e, Handled(e, <<>>), NEW x
    PROVE  Amount({x})' = Amount({x}) - Once(e.ev = x)
<1>1. <<>> \in Seq(Orders)
  OBVIOUS
<1>2. Amount({x})' = Amount({x}) + Cardinality(Posting(<<>>, {x})) - Once(e.ev \in {x})
  BY <1>1, HandledCount
<1>3. Cardinality(Posting(<<>>, {x})) = 0 /\ (e.ev \in {x}) = (e.ev = x) /\ Amount({x}) \in Nat
  BY PostingFew, AmountNat
<1>4. Once(e.ev = x) \in Nat
  BY DEF Once
<1> QED
  BY <1>2, <1>3, <1>4

\* A step that posts one event.
LEMMA CountOne ==
    ASSUME AgendaOK, NEW e, NEW d \in Nat, NEW ev \in EventTypes, Handled(e, <<After(d, ev)>>), NEW x
    PROVE  Amount({x})' = Amount({x}) + Once(ev = x) - Once(e.ev = x)
<1> DEFINE y == After(d, ev)
<1>0. y \in Orders /\ y.ev = ev
  BY DEF After, Orders
<1> HIDE DEF y
<1>1. <<y>> \in Seq(Orders) /\ Handled(e, <<y>>)
  BY <1>0 DEF y
<1>2. Amount({x})' = Amount({x}) + Cardinality(Posting(<<y>>, {x})) - Once(e.ev \in {x})
  BY <1>1, HandledCount
<1>3. (e.ev \in {x}) = (e.ev = x) /\ (ev \in {x}) = (ev = x)
  OBVIOUS
<1>4. Cardinality(Posting(<<y>>, {x})) = Once(ev \in {x})
  BY <1>0, PostingFew
<1> QED
  BY <1>2, <1>3, <1>4

\* A step that posts two other events.
LEMMA CountTwo ==
    ASSUME AgendaOK, NEW e, NEW d \in Nat, NEW ev \in EventTypes, NEW g \in Nat, NEW ew \in EventTypes,
           Handled(e, <<After(d, ev), After(g, ew)>>), NEW x, x # ev, x # ew
    PROVE  Amount({x})' = Amount({x}) - Once(e.ev = x)
<1> DEFINE y == After(d, ev)
           z == After(g, ew)
           s == <<y, z>>
<1>0. y \in Orders /\ y.ev = ev /\ z \in Orders /\ z.ev = ew
  BY DEF After, Orders
<1>1. Handled(e, s)
  OBVIOUS
<1> HIDE DEF y, z
<1>2. s \in Seq(Orders)
  BY <1>0
<1>3. Cardinality(Posting(s, {x})) = Once(ev \in {x}) + Once(ew \in {x})
  BY <1>0, PostingFew
<1> HIDE DEF s
<1>4. Amount({x})' = Amount({x}) + Cardinality(Posting(s, {x})) - Once(e.ev \in {x})
  BY <1>1, <1>2, HandledCount
<1>5. (e.ev \in {x}) = (e.ev = x) /\ Once(ev \in {x}) = 0 /\ Once(ew \in {x}) = 0
  BY DEF Once
<1>6. Amount({x}) \in Nat /\ Once(e.ev = x) \in Nat
  BY AmountNat DEF Once
<1> QED
  BY <1>3, <1>4, <1>5, <1>6

-----------------------------------------------------------------------------
\* The types of the clients.
ClientTypes ==
    /\ next_request_id \in [Clients -> Nat] /\ next_attempt_id \in [Clients -> Nat]
    /\ active_requests \in
           [Clients -> [RequestIds -> [attempt : Attempts, policy : PolicyState] \cup {Nil}]]
    /\ succeeded \in [Clients -> Nat] /\ failed \in [Clients -> Nat] /\ scheduled \in [Clients -> Nat]

\* Attempts and due retries of request r are what the policy granted.
Balanced(c, r) ==
    /\ active_requests[c][r].attempt.number + RetriesDue(c, r) = 1 + active_requests[c][r].policy.current
    /\ active_requests[c][r].policy.current <= Policy[c].max_attempts

\* The balance of client c.  Its ids bound what is active, due or still to send.
ClientInv(c) ==
    /\ 1 <= next_attempt_id[c]
    /\ 1 <= next_request_id[c]
    /\ next_request_id[c] + SendsDue(c) <= Len(Sends) + 1
    /\ next_request_id[c] - 1 = succeeded[c] + failed[c] + Cardinality(Waiting(c))
    /\ \A r \in RequestIds : IsActive(c, r) => r < next_request_id[c] /\ Balanced(c, r)
    /\ \A r \in RequestIds : RetriesDue(c, r) # 0 => r < next_request_id[c]

\* The attempts that were made.
Total == SumFunctionOnSet([c \in Clients |-> next_attempt_id[c] - 1], Clients)

\* Nothing that ClientInv(c) speaks of changes.
SameClient(c) ==
    /\ next_attempt_id'[c] = next_attempt_id[c] /\ next_request_id'[c] = next_request_id[c]
    /\ active_requests'[c] = active_requests[c]
    /\ succeeded'[c] = succeeded[c] /\ failed'[c] = failed[c]
    /\ SendsDue(c)' = SendsDue(c)
    /\ \A r : RetriesDue(c, r)' = RetriesDue(c, r)

\* Such a step keeps the invariant of c.
LEMMA Untouched == ASSUME NEW c, ClientInv(c), SameClient(c) PROVE ClientInv(c)'
<1>1. \A r : IsActive(c, r)' = IsActive(c, r) /\ Balanced(c, r)' = Balanced(c, r)
  BY DEF SameClient, IsActive, Balanced
<1>2. Waiting(c)' = Waiting(c)
  BY <1>1 DEF Waiting
<1> QED
  BY <1>1, <1>2 DEF ClientInv, SameClient

\* A quiet step of the server keeps that of every client.
LEMMA QuietClients ==
    ASSUME Quiet, UNCHANGED client_vars, ClientTypes, \A c \in Clients : ClientInv(c)
    PROVE  ClientTypes' /\ (\A c \in Clients : ClientInv(c)') /\ Total' = Total
<1>1. \A c \in Clients : SameClient(c)
  BY DEF Quiet, client_vars, SameClient
<1>2. ClientTypes' /\ Total' = Total
  BY DEF client_vars, ClientTypes, Total
<1> QED
  BY <1>1, <1>2, Untouched

\* A step of a client adds p attempts to what the server holds.
LEMMA ServerUnmoved ==
    ASSUME AgendaOK, ServerTypes, ServerInv, UNCHANGED server_vars, NEW e, NEW p \in Nat, Effect(e, p, 0),
           e.ev.kind \notin {"ProcessRequest", "RequestCompleted", "ProcessQueuedRequests"}
    PROVE  AgendaOK' /\ ServerTypes' /\ ServerInv' /\ Held' = Held + p
<1>1. Once(e.ev.kind = "ProcessRequest") = 0 /\ Once(e.ev.kind = "RequestCompleted") = 0
  BY DEF Once
<1>2. Processing \in Nat /\ Serving \in Nat
  BY ServerAmounts
<1>3. AgendaOK' /\ Processing' = Processing + p /\ Serving' = Serving /\ (Due => Due')
  BY <1>1, <1>2 DEF Effect
<1>4. /\ active_threads' = active_threads /\ queue' = queue /\ requests_processed' = requests_processed
      /\ requests_rejected' = requests_rejected /\ requests_queued' = requests_queued
  BY DEF server_vars
<1>5. ServerTypes'
  BY <1>4 DEF ServerTypes
<1>6. ServerInv'
  BY <1>3, <1>4 DEF ServerInv, HasCapacity
<1>7. Len(queue) \in Nat /\ active_threads \in Nat /\ requests_processed \in Nat /\ requests_rejected \in Nat
  BY DEF ServerTypes
<1>8. Held' = Held + p
  BY <1>2, <1>3, <1>4, <1>7 DEF Held
<1> QED
  BY <1>3, <1>5, <1>6, <1>8

\* A new attempt is one more.
LEMMA TotalGrows ==
    ASSUME ClientTypes, \A c \in Clients : ClientInv(c), NEW c \in Clients, Count(next_attempt_id, c)
    PROVE  Total' = Total + 1 /\ next_attempt_id' \in [Clients -> Nat]
           /\ next_attempt_id'[c] = next_attempt_id[c] + 1
           /\ \A d \in Clients \ {c} : next_attempt_id'[d] = next_attempt_id[d]
<1> DEFINE f == [d \in Clients |-> next_attempt_id[d] - 1]
           g == [d \in Clients |-> next_attempt_id'[d] - 1]
<1>1. IsFiniteSet(Clients)
  BY ClientAssumption
<1>2. \A d \in Clients : next_attempt_id[d] \in Nat /\ 1 <= next_attempt_id[d]
  BY DEF ClientTypes, ClientInv
<1>3. /\ next_attempt_id' \in [Clients -> Nat]
      /\ next_attempt_id'[c] = next_attempt_id[c] + 1
      /\ \A d \in Clients \ {c} : next_attempt_id'[d] = next_attempt_id[d]
  BY <1>2 DEF Count, ClientTypes
<1>4. /\ \A d \in Clients : f[d] \in Nat /\ g[d] \in Nat
      /\ \A d \in Clients \ {c} : f[d] = g[d]
      /\ g[c] = f[c] + 1
  BY <1>2, <1>3
<1>5. Total = SumFunctionOnSet(f, Clients) /\ Total' = SumFunctionOnSet(g, Clients)
  BY DEF Total
<1> HIDE DEF f, g
<1>6. SumFunctionOnSet(g, Clients) + f[c] = SumFunctionOnSet(f, Clients) + g[c]
  BY <1>1, <1>4, SumChange
<1>7. SumFunctionOnSet(f, Clients) \in Nat /\ SumFunctionOnSet(g, Clients) \in Nat
  BY <1>1, <1>4, SumType
<1>8. SumFunctionOnSet(g, Clients) = SumFunctionOnSet(f, Clients) + 1
  BY <1>4, <1>6, <1>7
<1> QED
  BY <1>3, <1>5, <1>8

\* The values of active_requests.
Entry == [attempt : Attempts, policy : PolicyState]

\* One entry of active_requests is replaced.
LEMMA SetEntry ==
    ASSUME ClientTypes, NEW c \in Clients, NEW r \in RequestIds, NEW v \in Entry \cup {Nil},
           active_requests' = [active_requests EXCEPT ![c][r] = v]
    PROVE  /\ active_requests' \in [Clients -> [RequestIds -> Entry \cup {Nil}]]
           /\ \A d \in Clients \ {c} : active_requests'[d] = active_requests[d]
           /\ \A q \in RequestIds \ {r} : active_requests'[c][q] = active_requests[c][q]
           /\ active_requests'[c][r] = v
<1> DEFINE V == Entry \cup {Nil}
<1>1. active_requests \in [Clients -> [RequestIds -> V]]
  BY DEF ClientTypes, Entry
<1> HIDE DEF V
<1> QED
  BY <1>1 DEF V

\* One counter is incremented.
LEMMA CountUp ==
    ASSUME NEW counter \in [Clients -> Nat], NEW next, NEW c \in Clients,
           next = [counter EXCEPT ![c] = @ + 1]
    PROVE  /\ next \in [Clients -> Nat]
           /\ next[c] = counter[c] + 1
           /\ \A d \in Clients \ {c} : next[d] = counter[d]
OBVIOUS

-----------------------------------------------------------------------------
(* The clients. *)

\* The inductive invariant.
IInv ==
    /\ AgendaOK
    /\ ServerTypes /\ ServerInv
    /\ ClientTypes /\ \A c \in Clients : ClientInv(c)
    /\ Total = Held

\* The steps of a client leave the server alone.
ByClient(e) ==
    /\ UNCHANGED server_vars
    /\ e.ev \in EventTypes
    /\ e.ev.kind \in {"SendRequest", "ResponseReceived", "RequestTimeout", "RetryRequest"}

\* Held is a number.
LEMMA HeldNat == ASSUME AgendaOK, ServerTypes PROVE Held \in Nat
<1>1. Len(queue) \in Nat /\ active_threads \in Nat /\ requests_processed \in Nat /\ requests_rejected \in Nat
  BY DEF ServerTypes
<1> QED
  BY <1>1, ServerAmounts DEF Held

\* A response, a timeout or a retry that finds nothing to do.
LEMMA IgnoreSteps ==
    ASSUME IInv, NEW e, ByClient(e), Ignore(e),
           \/ e.ev.kind \in {"ResponseReceived", "RequestTimeout"}
           \/ e.ev.kind = "RetryRequest" /\ ~IsActive(e.ev.client, e.ev.request)
    PROVE  IInv'
<1>1. Handled(e, <<>>) /\ UNCHANGED client_vars
  BY DEF Ignore
<1>2. Effect(e, 0, 0)
  BY <1>1, EffectNone DEF IInv
<1>3. AgendaOK' /\ ServerTypes' /\ ServerInv' /\ Held' = Held + 0
  BY <1>2, ServerUnmoved DEF IInv, ByClient
<1>4. ClientTypes' /\ Total' = Total
  BY <1>1 DEF IInv, client_vars, ClientTypes, Total
<1>5. Total' = Held'
  BY <1>3, <1>4, HeldNat DEF IInv
<1>6. \A c \in Clients : ClientInv(c)'
  <2>1. CASE e.ev.kind \in {"ResponseReceived", "RequestTimeout"}
    <3>1. Quiet
      BY <2>1, <1>1, EffectNone DEF OfServer, IInv
    <3> QED
      BY <3>1, <1>1, QuietClients DEF IInv
  <2>2. CASE e.ev.kind = "RetryRequest" /\ ~IsActive(e.ev.client, e.ev.request)
    <3> TAKE c \in Clients
    <3>1. \A x : Amount({x})' = Amount({x}) - Once(e.ev = x)
      BY <1>1, CountNone DEF IInv
    <3>2. \A r : RetriesDue(c, r)' = RetriesDue(c, r) - Once(e.ev = RetryRequest(c, r))
      BY <3>1 DEF RetriesDue
    <3>3. SendsDue(c)' = SendsDue(c) - Once(e.ev = SendRequest(c))
      BY <3>1 DEF SendsDue
    <3>4. Once(e.ev = SendRequest(c)) = 0
      BY <2>2, EventKinds DEF Once
    <3>5. SendsDue(c)' = SendsDue(c)
      BY <3>3, <3>4, AmountsNat DEF IInv
    <3>6. /\ next_attempt_id' = next_attempt_id /\ next_request_id' = next_request_id
          /\ active_requests' = active_requests /\ succeeded' = succeeded /\ failed' = failed
      BY <1>1 DEF client_vars
    <3>7. ASSUME NEW r PROVE IsActive(c, r)' = IsActive(c, r)
      BY <3>6 DEF IsActive
    <3>8. Waiting(c)' = Waiting(c)
      BY <3>7 DEF Waiting
    <3>9. ASSUME NEW r \in RequestIds, IsActive(c, r) PROVE Balanced(c, r)' = Balanced(c, r)
      <4>1. e.ev # RetryRequest(c, r)
        <5>1. RetryRequest(c, r).client = c /\ RetryRequest(c, r).request = r
          BY DEF RetryRequest
        <5> QED
          BY <5>1, <2>2, <3>9
      <4>2. Once(e.ev = RetryRequest(c, r)) = 0 /\ RetriesDue(c, r) \in Nat
        BY <4>1, AmountsNat DEF Once, IInv
      <4>3. RetriesDue(c, r)' = RetriesDue(c, r)
        BY <3>2, <4>2
      <4> QED
        BY <4>3, <3>6 DEF Balanced
    <3>10. ASSUME NEW r \in RequestIds, RetriesDue(c, r)' # 0 PROVE RetriesDue(c, r) # 0
      <4>1. RetriesDue(c, r)' \in Nat
        BY <1>3, AmountsNatNext
      <4>2. RetriesDue(c, r) \in Nat
        BY AmountsNat DEF IInv
      <4> SUFFICES ASSUME RetriesDue(c, r) = 0 PROVE FALSE
        OBVIOUS
      <4>3. Once(e.ev = RetryRequest(c, r)) \in {0, 1}
        BY DEF Once
      <4>4. RetriesDue(c, r)' = 0 - Once(e.ev = RetryRequest(c, r))
        BY <3>2
      <4> QED
        BY <4>1, <4>3, <4>4, <3>10
    <3> QED
      BY <3>5, <3>6, <3>7, <3>8, <3>9, <3>10 DEF IInv, ClientInv
  <2> QED
    BY <2>1, <2>2
<1> QED
  BY <1>3, <1>4, <1>5, <1>6 DEF IInv

\* A request that succeeded or failed for good is active no longer.
LEMMA EndSteps ==
    ASSUME IInv, NEW e, ByClient(e), e.ev.kind \in {"ResponseReceived", "RequestTimeout"},
           NEW c \in Clients, NEW r \in RequestIds, IsActive(c, r),
           Handled(e, <<>>), Deactivate(c, r),
           next_request_id' = next_request_id, next_attempt_id' = next_attempt_id, scheduled' = scheduled,
           \/ Count(succeeded, c) /\ failed' = failed
           \/ Count(failed, c) /\ succeeded' = succeeded
    PROVE  IInv'
<1>1. Effect(e, 0, 0) /\ Quiet
  BY EffectNone DEF OfServer, IInv
<1>2. AgendaOK' /\ ServerTypes' /\ ServerInv' /\ Held' = Held + 0
  BY <1>1, ServerUnmoved DEF IInv, ByClient
<1>3. Total' = Total
  BY DEF Total
<1>4. Total' = Held'
  BY <1>2, <1>3, HeldNat DEF IInv
<1>5. /\ active_requests' \in [Clients -> [RequestIds -> Entry \cup {Nil}]]
      /\ \A d \in Clients \ {c} : active_requests'[d] = active_requests[d]
      /\ \A q \in RequestIds \ {r} : active_requests'[c][q] = active_requests[c][q]
      /\ active_requests'[c][r] = Nil
  BY SetEntry DEF Deactivate, IInv
<1>6. /\ succeeded \in [Clients -> Nat] /\ failed \in [Clients -> Nat]
      /\ next_request_id \in [Clients -> Nat] /\ next_attempt_id \in [Clients -> Nat]
      /\ scheduled \in [Clients -> Nat]
  BY DEF IInv, ClientTypes
<1>7. /\ succeeded' \in [Clients -> Nat] /\ failed' \in [Clients -> Nat]
      /\ \A d \in Clients \ {c} : succeeded'[d] = succeeded[d] /\ failed'[d] = failed[d]
      /\ succeeded'[c] + failed'[c] = succeeded[c] + failed[c] + 1
  <2>1. CASE Count(succeeded, c) /\ failed' = failed
    <3>1. /\ succeeded' \in [Clients -> Nat] /\ succeeded'[c] = succeeded[c] + 1
          /\ \A d \in Clients \ {c} : succeeded'[d] = succeeded[d]
      BY <2>1, <1>6, CountUp DEF Count
    <3>2. succeeded[c] \in Nat /\ failed[c] \in Nat
      BY <1>6
    <3>3. failed' = failed
      BY <2>1
    <3>4. succeeded'[c] + failed'[c] = succeeded[c] + failed[c] + 1
      BY <3>1, <3>2, <3>3
    <3> QED
      BY <3>1, <3>3, <3>4, <1>6
  <2>2. CASE Count(failed, c) /\ succeeded' = succeeded
    <3>1. /\ failed' \in [Clients -> Nat] /\ failed'[c] = failed[c] + 1
          /\ \A d \in Clients \ {c} : failed'[d] = failed[d]
      BY <2>2, <1>6, CountUp DEF Count
    <3>2. succeeded[c] \in Nat /\ failed[c] \in Nat
      BY <1>6
    <3>3. succeeded' = succeeded
      BY <2>2
    <3>4. succeeded'[c] + failed'[c] = succeeded[c] + failed[c] + 1
      BY <3>1, <3>2, <3>3
    <3> QED
      BY <3>1, <3>3, <3>4, <1>6
  <2> QED
    BY <2>1, <2>2
<1>8. ClientTypes'
  BY <1>5, <1>6, <1>7 DEF ClientTypes, Entry
<1>9. \A d \in Clients \ {c} : ClientInv(d)'
  <2> TAKE d \in Clients \ {c}
  <2>1. SameClient(d)
    BY <1>1, <1>5, <1>7 DEF SameClient, Quiet
  <2> QED
    BY <2>1, Untouched DEF IInv
<1>10. ClientInv(c)'
  <2>1. \A q : RetriesDue(c, q)' = RetriesDue(c, q)
    BY <1>1 DEF Quiet
  <2>2. SendsDue(c)' = SendsDue(c)
    BY <1>1 DEF Quiet
  <2>3. \A q \in RequestIds : IsActive(c, q)' <=> IsActive(c, q) /\ q # r
    BY <1>5 DEF IsActive
  <2>4. Waiting(c)' = Waiting(c) \ {r} /\ r \in Waiting(c)
    BY <2>3 DEF Waiting
  <2>5. IsFiniteSet(Waiting(c))
    <3>1. Len(Sends) \in Nat
      BY ClientAssumption
    <3>2. IsFiniteSet(RequestIds)
      BY <3>1, FS_Interval DEF RequestIds
    <3> QED
      BY <3>2, FS_Subset DEF Waiting
  <2>6. /\ Cardinality(Waiting(c)') = Cardinality(Waiting(c)) - 1
        /\ Cardinality(Waiting(c)) \in Nat
    BY <2>4, <2>5, FS_RemoveElement, FS_CardinalityType
  <2>7. \A q \in RequestIds : IsActive(c, q)' => Balanced(c, q)' = Balanced(c, q)
    <3> TAKE q \in RequestIds
    <3> HAVE IsActive(c, q)'
    <3>1. q # r
      BY <2>3
    <3>2. active_requests'[c][q] = active_requests[c][q]
      BY <3>1, <1>5
    <3> QED
      BY <3>2, <2>1 DEF Balanced
  <2>8. ClientInv(c)
    BY DEF IInv
  <2>9. next_request_id'[c] - 1 = succeeded'[c] + failed'[c] + Cardinality(Waiting(c)')
    <3>1. /\ succeeded[c] \in Nat /\ failed[c] \in Nat /\ succeeded'[c] \in Nat /\ failed'[c] \in Nat
          /\ next_request_id[c] \in Nat
      BY <1>6, <1>7
    <3>2. next_request_id[c] - 1 = succeeded[c] + failed[c] + Cardinality(Waiting(c))
      BY <2>8 DEF ClientInv
    <3> QED
      BY <3>1, <3>2, <2>6, <1>7
  <2> QED
    BY <2>1, <2>2, <2>3, <2>7, <2>8, <2>9 DEF ClientInv
<1> QED
  BY <1>2, <1>4, <1>8, <1>9, <1>10 DEF IInv

\* Every client has a policy.
LEMMA PolicyTyped == \A c \in Clients : Policy[c] \in PolicyParameters
BY ClientAssumption

\* An active request has a typed entry.
LEMMA EntryTyped ==
    ASSUME ClientTypes, NEW c \in Clients, NEW r \in RequestIds, IsActive(c, r)
    PROVE  /\ active_requests[c][r] \in Entry
           /\ active_requests[c][r].attempt \in Attempts /\ active_requests[c][r].policy \in PolicyState
           /\ active_requests[c][r].attempt.number \in Nat /\ active_requests[c][r].attempt.started_at \in Time
           /\ active_requests[c][r].policy.current \in Nat
<1>1. active_requests[c][r] \in Entry
  BY DEF ClientTypes, IsActive, Entry
<1>2. active_requests[c][r].attempt \in Attempts /\ active_requests[c][r].policy \in PolicyState
  BY <1>1 DEF Entry
<1> QED
  BY <1>1, <1>2 DEF Attempts, PolicyState

\* A failed attempt of an active request: its policy grants a retry, or not.
LEMMA FailedSteps ==
    ASSUME IInv, NEW e, ByClient(e), e.ev.kind \in {"ResponseReceived", "RequestTimeout"},
           NEW c \in Clients, NEW r \in RequestIds, IsActive(c, r), RetryOrFail(e, c, r),
           next_request_id' = next_request_id, next_attempt_id' = next_attempt_id, succeeded' = succeeded
    PROVE  IInv'
<1> DEFINE entry == active_requests[c][r]
           verdict == ShouldRetry(Policy[c], entry.policy, entry.attempt.started_at)
<1>1. CASE /\ verdict.delays = {} /\ Handled(e, <<>>) /\ Deactivate(c, r)
           /\ Count(failed, c) /\ scheduled' = scheduled
  BY <1>1, EndSteps
<1>2. CASE /\ \E d \in verdict.delays : Handled(e, <<After(d, RetryRequest(c, r))>>)
           /\ Activate(c, r, entry.attempt, verdict.policy)
           /\ Count(scheduled, c)
           /\ failed' = failed
  <2> DEFINE ev == RetryRequest(c, r)
             p == verdict.policy
  <2>1. PICK d \in verdict.delays : Handled(e, <<After(d, ev)>>)
    BY <1>2
  <2>2. /\ entry \in Entry /\ entry.attempt \in Attempts /\ entry.policy \in PolicyState
        /\ entry.attempt.number \in Nat /\ entry.attempt.started_at \in Time /\ entry.policy.current \in Nat
    BY EntryTyped DEF IInv
  <2>3. active_requests' = [active_requests EXCEPT ![c][r] = [attempt |-> entry.attempt, policy |-> p]]
    BY <1>2 DEF Activate
  <2> HIDE DEF entry
  <2>4. /\ p \in PolicyState /\ d \in Nat
        /\ p.current = entry.policy.current + 1 /\ p.current <= Policy[c].max_attempts
    BY <2>1, <2>2, PolicyTyped, RetryFacts
  <2> HIDE DEF verdict, p
  <2>5. ev \in EventTypes /\ ev.kind = "RetryRequest"
    BY EventsTyped, EventKinds
  <2> HIDE DEF ev
  <2>6. Once(ev.kind = "ProcessRequest") = 0 /\ Once(ev.kind = "RequestCompleted") = 0
    BY <2>5 DEF Once
  <2>7. Effect(e, Once(ev.kind = "ProcessRequest"), Once(ev.kind = "RequestCompleted"))
    BY <2>1, <2>4, <2>5, EffectOne DEF IInv
  <2>8. Effect(e, 0, 0)
    BY <2>6, <2>7
  <2>9. AgendaOK' /\ ServerTypes' /\ ServerInv' /\ Held' = Held + 0
    BY <2>8, ServerUnmoved DEF IInv, ByClient
  <2>10. Total' = Total
    BY DEF Total
  <2>11. Total' = Held'
    BY <2>9, <2>10, HeldNat DEF IInv
  <2> DEFINE v == [attempt |-> entry.attempt, policy |-> p]
  <2>12. v \in Entry /\ v.attempt = entry.attempt /\ v.policy = p /\ v # Nil
    BY <2>2, <2>4, NoneAssumption DEF Entry
  <2> HIDE DEF v
  <2>13. /\ active_requests' \in [Clients -> [RequestIds -> Entry \cup {Nil}]]
         /\ \A b \in Clients \ {c} : active_requests'[b] = active_requests[b]
         /\ \A q \in RequestIds \ {r} : active_requests'[c][q] = active_requests[c][q]
         /\ active_requests'[c][r] = v
    <3>1. active_requests' = [active_requests EXCEPT ![c][r] = v] /\ v \in Entry \cup {Nil}
      BY <2>3, <2>12 DEF v
    <3> QED
      BY <3>1, SetEntry DEF IInv
  <2>14. scheduled' \in [Clients -> Nat]
    <3>1. scheduled \in [Clients -> Nat]
      BY DEF IInv, ClientTypes
    <3> QED
      BY <3>1, <1>2, CountUp DEF Count
  <2>15. ClientTypes'
    BY <1>2, <2>13, <2>14 DEF ClientTypes, Entry, IInv
  <2>16. ASSUME NEW x PROVE Amount({x})' = Amount({x}) + Once(ev = x) - Once(e.ev = x)
    <3>1. AgendaOK
      BY DEF IInv
    <3>2. Handled(e, <<After(d, ev)>>) /\ d \in Nat /\ ev \in EventTypes
      BY <2>1, <2>4, <2>5
    <3> QED
      BY <3>1, <3>2, CountOne
  <2>17. ASSUME NEW b PROVE SendsDue(b)' = SendsDue(b)
    <3>1. SendsDue(b)' = SendsDue(b) + Once(ev = SendRequest(b)) - Once(e.ev = SendRequest(b))
      BY <2>16 DEF SendsDue
    <3>2. Once(ev = SendRequest(b)) = 0 /\ Once(e.ev = SendRequest(b)) = 0
      BY <2>5, EventKinds DEF Once
    <3> QED
      BY <3>1, <3>2, AmountsNat DEF IInv
  <2>18. ASSUME NEW b, NEW q PROVE RetriesDue(b, q)' = RetriesDue(b, q) + (IF b = c /\ q = r THEN 1 ELSE 0)
    <3>1. RetriesDue(b, q)' =
              RetriesDue(b, q) + Once(ev = RetryRequest(b, q)) - Once(e.ev = RetryRequest(b, q))
      BY <2>16 DEF RetriesDue
    <3>2. Once(e.ev = RetryRequest(b, q)) = 0
      BY EventKinds DEF Once
    <3>3. Once(ev = RetryRequest(b, q)) = IF b = c /\ q = r THEN 1 ELSE 0
      BY EventKinds DEF Once, ev
    <3> QED
      BY <3>1, <3>2, <3>3, AmountsNat DEF IInv
  <2>19. \A b \in Clients \ {c} : ClientInv(b)'
    <3> TAKE b \in Clients \ {c}
    <3>1. \A q : RetriesDue(b, q)' = RetriesDue(b, q)
      BY <2>18, AmountsNat DEF IInv
    <3>2. SameClient(b)
      BY <3>1, <1>2, <2>13, <2>17 DEF SameClient
    <3> QED
      BY <3>2, Untouched DEF IInv
  <2>20. ClientInv(c)'
    <3>1. ClientInv(c)
      BY DEF IInv
    <3>2. \A q \in RequestIds : IsActive(c, q)' <=> IsActive(c, q)
      BY <2>12, <2>13 DEF IsActive
    <3>3. Waiting(c)' = Waiting(c)
      BY <3>2 DEF Waiting
    <3>4. \A q \in RequestIds : IsActive(c, q) => Balanced(c, q)'
      <4> TAKE q \in RequestIds
      <4> HAVE IsActive(c, q)
      <4>1. Balanced(c, q) /\ RetriesDue(c, q) \in Nat
        BY <3>1, AmountsNat DEF ClientInv, IInv
      <4>2. CASE q = r
        <5>1. RetriesDue(c, r)' = RetriesDue(c, r) + 1
          BY <2>18
        <5>2. entry.attempt.number + RetriesDue(c, r) = 1 + entry.policy.current
          BY <4>1, <4>2 DEF Balanced, entry
        <5>3. /\ active_requests'[c][r].attempt.number = entry.attempt.number
              /\ active_requests'[c][r].policy.current = entry.policy.current + 1
              /\ active_requests'[c][r].policy.current <= Policy[c].max_attempts
          BY <2>4, <2>12, <2>13
        <5>4. entry.attempt.number + (RetriesDue(c, r) + 1) = 1 + (entry.policy.current + 1)
          BY <5>2, <2>2, <4>1, <4>2
        <5> QED
          BY <5>1, <5>3, <5>4, <4>2 DEF Balanced
      <4>3. CASE q # r
        <5>1. RetriesDue(c, q)' = RetriesDue(c, q)
          BY <4>1, <4>3, <2>18
        <5>2. active_requests'[c][q] = active_requests[c][q]
          BY <4>3, <2>13
        <5> QED
          BY <4>1, <5>1, <5>2 DEF Balanced
      <4> QED
        BY <4>2, <4>3
    <3>5. \A q \in RequestIds : RetriesDue(c, q)' # 0 => q < next_request_id[c]
      <4> TAKE q \in RequestIds
      <4>1. CASE q = r
        BY <4>1, <3>1 DEF ClientInv
      <4>2. CASE q # r
        <5>1. RetriesDue(c, q)' = RetriesDue(c, q)
          BY <4>2, <2>18, AmountsNat DEF IInv
        <5> QED
          BY <5>1, <3>1 DEF ClientInv
      <4> QED
        BY <4>1, <4>2
    <3>6. SendsDue(c)' = SendsDue(c)
      BY <2>17
    <3> QED
      BY <3>1, <3>2, <3>3, <3>4, <3>5, <3>6, <1>2 DEF ClientInv
  <2> QED
    BY <2>9, <2>11, <2>15, <2>19, <2>20 DEF IInv
<1> QED
  BY <1>1, <1>2 DEF RetryOrFail

\* What send_attempt does to the agenda: an attempt more is on its way.
LEMMA AttemptPosted ==
    ASSUME AgendaOK, NEW e, e.ev.kind \in {"SendRequest", "RetryRequest"},
           NEW a \in Attempts, Handled(e, PostAttempt(a))
    PROVE  /\ Effect(e, 1, 0)
           /\ \A b : SendsDue(b)' = SendsDue(b) - Once(e.ev = SendRequest(b))
           /\ \A b, q : RetriesDue(b, q)' = RetriesDue(b, q) - Once(e.ev = RetryRequest(b, q))
<1> DEFINE ev == RequestTimeout(a)
           ew == ProcessRequest(a)
<1>1. Timeout \in Nat
  BY ClientAssumption, MaxTimeAssumption DEF Time
<1>2. ev \in EventTypes /\ ev.kind = "RequestTimeout" /\ ew \in EventTypes /\ ew.kind = "ProcessRequest"
  BY EventsTyped, EventKinds
<1>3. Handled(e, <<After(Timeout, ev), After(0, ew)>>)
  BY DEF PostAttempt
<1> HIDE DEF ev, ew
<1>4. Effect(e, Once(ev.kind = "ProcessRequest") + Once(ew.kind = "ProcessRequest"),
                Once(ev.kind = "RequestCompleted") + Once(ew.kind = "RequestCompleted"))
  BY <1>1, <1>2, <1>3, EffectTwo
<1>5. /\ Once(ev.kind = "ProcessRequest") = 0 /\ Once(ew.kind = "ProcessRequest") = 1
      /\ Once(ev.kind = "RequestCompleted") = 0 /\ Once(ew.kind = "RequestCompleted") = 0
  BY <1>2 DEF Once
<1>6. Effect(e, 1, 0)
  BY <1>4, <1>5
<1>7. ASSUME NEW x, x.kind \in {"SendRequest", "RetryRequest"}
      PROVE  Amount({x})' = Amount({x}) - Once(e.ev = x)
  <2>1. x # ev /\ x # ew
    BY <1>2, <1>7
  <2>2. /\ AgendaOK /\ Handled(e, <<After(Timeout, ev), After(0, ew)>>)
        /\ Timeout \in Nat /\ 0 \in Nat /\ ev \in EventTypes /\ ew \in EventTypes
    BY <1>1, <1>2, <1>3
  <2> QED
    BY <2>1, <2>2, CountTwo
<1>8. \A b : SendsDue(b)' = SendsDue(b) - Once(e.ev = SendRequest(b))
  BY <1>7, EventKinds DEF SendsDue
<1>9. \A b, q : RetriesDue(b, q)' = RetriesDue(b, q) - Once(e.ev = RetryRequest(b, q))
  BY <1>7, EventKinds DEF RetriesDue
<1> QED
  BY <1>6, <1>8, <1>9

\* The retry of an active request.
LEMMA ResendSteps ==
    ASSUME IInv, NEW e, ByClient(e), e.time \in Time, e.ev.kind = "RetryRequest",
           NEW c \in Clients, NEW r \in RequestIds, e.ev = RetryRequest(c, r),
           IsActive(c, r), Resend(e, c, r),
           next_request_id' = next_request_id, succeeded' = succeeded, failed' = failed,
           scheduled' = scheduled
    PROVE  IInv'
<1> DEFINE entry == active_requests[c][r]
           a == NewAttempt(c, r, entry.attempt.number + 1, e.time)
           v == [attempt |-> a, policy |-> entry.policy]
<1>1. /\ entry \in Entry /\ entry.attempt \in Attempts /\ entry.policy \in PolicyState
      /\ entry.attempt.number \in Nat /\ entry.policy.current \in Nat
  BY EntryTyped DEF IInv
<1>2. /\ Handled(e, PostAttempt(a)) /\ Count(next_attempt_id, c)
      /\ active_requests' = [active_requests EXCEPT ![c][r] = v]
  BY DEF Resend, Activate
<1>3. next_attempt_id[c] \in Nat
  BY DEF IInv, ClientTypes
<1> HIDE DEF entry
<1>4. a \in Attempts /\ a.number = entry.attempt.number + 1
  BY <1>1, <1>3 DEF NewAttempt, Attempts
<1> HIDE DEF a
<1>5. v \in Entry /\ v.attempt = a /\ v.policy = entry.policy /\ v # Nil
  BY <1>1, <1>4, NoneAssumption DEF Entry
<1> HIDE DEF v
<1>6. /\ active_requests' \in [Clients -> [RequestIds -> Entry \cup {Nil}]]
      /\ \A b \in Clients \ {c} : active_requests'[b] = active_requests[b]
      /\ \A q \in RequestIds \ {r} : active_requests'[c][q] = active_requests[c][q]
      /\ active_requests'[c][r] = v
  <2>1. v \in Entry \cup {Nil}
    BY <1>5
  <2> QED
    BY <2>1, <1>2, SetEntry DEF IInv
<1>7. /\ Effect(e, 1, 0)
      /\ \A b : SendsDue(b)' = SendsDue(b) - Once(e.ev = SendRequest(b))
      /\ \A b, q : RetriesDue(b, q)' = RetriesDue(b, q) - Once(e.ev = RetryRequest(b, q))
  BY <1>2, <1>4, AttemptPosted DEF IInv
<1>8. AgendaOK' /\ ServerTypes' /\ ServerInv' /\ Held' = Held + 1
  BY <1>7, ServerUnmoved DEF IInv, ByClient
<1>9. /\ Total' = Total + 1 /\ next_attempt_id' \in [Clients -> Nat]
      /\ next_attempt_id'[c] = next_attempt_id[c] + 1
      /\ \A b \in Clients \ {c} : next_attempt_id'[b] = next_attempt_id[b]
  BY <1>2, TotalGrows DEF IInv
<1>10. Total' = Held'
  BY <1>8, <1>9 DEF IInv
<1>11. ClientTypes'
  BY <1>6, <1>9 DEF ClientTypes, Entry, IInv
<1>12. \A b : SendsDue(b)' = SendsDue(b)
  <2> TAKE b
  <2>1. Once(e.ev = SendRequest(b)) = 0
    BY EventKinds DEF Once
  <2>2. SendsDue(b) \in Nat
    BY AmountsNat DEF IInv
  <2>3. SendsDue(b)' = SendsDue(b) - Once(e.ev = SendRequest(b))
    BY <1>7
  <2> QED
    BY <2>1, <2>2, <2>3
<1>13. ASSUME NEW b, NEW q, ~(b = c /\ q = r) PROVE RetriesDue(b, q)' = RetriesDue(b, q)
  <2>1. Once(e.ev = RetryRequest(b, q)) = 0
    BY <1>13, EventKinds DEF Once
  <2>2. RetriesDue(b, q) \in Nat
    BY AmountsNat DEF IInv
  <2>3. RetriesDue(b, q)' = RetriesDue(b, q) - Once(e.ev = RetryRequest(b, q))
    BY <1>7
  <2> QED
    BY <2>1, <2>2, <2>3
<1>14. RetriesDue(c, r)' = RetriesDue(c, r) - 1
  <2>1. Once(e.ev = RetryRequest(c, r)) = 1
    BY DEF Once
  <2> QED
    BY <2>1, <1>7
<1>15. \A b \in Clients \ {c} : ClientInv(b)'
  <2> TAKE b \in Clients \ {c}
  <2>1. \A q : RetriesDue(b, q)' = RetriesDue(b, q)
    BY <1>13
  <2>2. SameClient(b)
    BY <2>1, <1>6, <1>9, <1>12 DEF SameClient
  <2> QED
    BY <2>2, Untouched DEF IInv
<1>16. ClientInv(c)'
  <2>1. ClientInv(c)
    BY DEF IInv
  <2>2. \A q \in RequestIds : IsActive(c, q)' <=> IsActive(c, q)
    BY <1>5, <1>6 DEF IsActive
  <2>3. Waiting(c)' = Waiting(c)
    BY <2>2 DEF Waiting
  <2>4. \A q \in RequestIds : IsActive(c, q) => Balanced(c, q)'
    <3> TAKE q \in RequestIds
    <3> HAVE IsActive(c, q)
    <3>1. Balanced(c, q) /\ RetriesDue(c, q) \in Nat
      BY <2>1, AmountsNat DEF ClientInv, IInv
    <3>2. CASE q = r
      <4>1. /\ entry.attempt.number + RetriesDue(c, r) = 1 + entry.policy.current
            /\ entry.policy.current <= Policy[c].max_attempts
        BY <3>1, <3>2 DEF Balanced, entry
      <4>2. /\ active_requests'[c][r].attempt.number = entry.attempt.number + 1
            /\ active_requests'[c][r].policy = entry.policy
        BY <1>4, <1>5, <1>6
      <4>3. (entry.attempt.number + 1) + (RetriesDue(c, r) - 1) = 1 + entry.policy.current
        BY <4>1, <1>1, <3>1, <3>2
      <4> QED
        BY <4>1, <4>2, <4>3, <1>14, <3>2 DEF Balanced
    <3>3. CASE q # r
      <4>1. RetriesDue(c, q)' = RetriesDue(c, q)
        BY <3>3, <1>13
      <4>2. active_requests'[c][q] = active_requests[c][q]
        BY <3>3, <1>6
      <4> QED
        BY <3>1, <4>1, <4>2 DEF Balanced
    <3> QED
      BY <3>2, <3>3
  <2>5. \A q \in RequestIds : RetriesDue(c, q)' # 0 => q < next_request_id[c]
    <3> TAKE q \in RequestIds
    <3>1. CASE q = r
      BY <3>1, <2>1 DEF ClientInv
    <3>2. CASE q # r
      <4>1. RetriesDue(c, q)' = RetriesDue(c, q)
        BY <3>2, <1>13
      <4> QED
        BY <4>1, <2>1 DEF ClientInv
    <3> QED
      BY <3>1, <3>2
  <2>6. 1 <= next_attempt_id'[c]
    BY <1>3, <1>9
  <2>7. SendsDue(c)' = SendsDue(c)
    BY <1>12
  <2> QED
    BY <2>1, <2>2, <2>3, <2>4, <2>5, <2>6, <2>7 DEF ClientInv
<1> QED
  BY <1>8, <1>10, <1>11, <1>15, <1>16 DEF IInv

\* A new request.
LEMMA SendSteps ==
    ASSUME IInv, NEW e, ByClient(e), e.time \in Time, HandleSend(e), NEW r, r = next_request_id[e.ev.client]
    PROVE  IInv'
<1> DEFINE c == e.ev.client
           a == NewAttempt(c, r, 1, e.time)
           v == [attempt |-> a, policy |-> NewPolicy(Policy[c])]
<1>1. /\ e.ev.kind = "SendRequest" /\ Handled(e, PostAttempt(a))
      /\ Count(next_request_id, c) /\ Count(next_attempt_id, c)
      /\ active_requests' = [active_requests EXCEPT ![c][r] = v]
      /\ succeeded' = succeeded /\ failed' = failed /\ scheduled' = scheduled
  BY DEF HandleSend, Activate
<1>2. c \in Clients /\ e.ev = SendRequest(c) /\ r = next_request_id[c]
  BY <1>1, EventShapes DEF ByClient
<1> HIDE DEF c
<1>3. ClientInv(c) /\ next_attempt_id[c] \in Nat /\ next_request_id \in [Clients -> Nat] /\ r \in Nat
  BY <1>2 DEF IInv, ClientTypes
<1>4. Len(Sends) \in Nat /\ SendsDue(c) \in Nat
  BY ClientAssumption, AmountsNat DEF IInv
<1>5. e \in events
  BY <1>1 DEF Handled, Choice
<1>6. SendsDue(c) >= 1
  <2> DEFINE H == Having(events, {SendRequest(c)})
  <2>1. e \in H /\ H \subseteq events
    BY <1>2, <1>5 DEF Having
  <2> HIDE DEF H
  <2>2. IsFiniteSet(H)
    BY <2>1, FS_Subset DEF IInv, AgendaOK
  <2>3. Cardinality(H) \in Nat /\ Cardinality(H) # 0
    BY <2>1, <2>2, FS_CardinalityType, FS_EmptySet
  <2> QED
    BY <2>3 DEF SendsDue, Amount, H
<1>7. r \in RequestIds
  BY <1>2, <1>3, <1>4, <1>6 DEF ClientInv, RequestIds
<1>8. Policy[c] \in PolicyParameters
  BY <1>2, PolicyTyped
<1>9. /\ NewPolicy(Policy[c]) \in PolicyState /\ NewPolicy(Policy[c]).current = 0
      /\ Policy[c].max_attempts \in Nat
  BY <1>8 DEF NewPolicy, PolicyParameters, PolicyState
<1>10. ~IsActive(c, r) /\ RetriesDue(c, r) = 0
  BY <1>2, <1>3, <1>7 DEF ClientInv
<1>11. next_request_id'[c] = r + 1 /\ next_request_id' \in [Clients -> Nat]
       /\ \A b \in Clients \ {c} : next_request_id'[b] = next_request_id[b]
  BY <1>1, <1>2, <1>3, CountUp DEF Count
<1>12. a \in Attempts /\ a.number = 1
  BY <1>2, <1>3, <1>7 DEF NewAttempt, Attempts
<1> HIDE DEF a
<1>13. v \in Entry /\ v.attempt = a /\ v.policy = NewPolicy(Policy[c]) /\ v # Nil
  BY <1>9, <1>12, NoneAssumption DEF Entry
<1> HIDE DEF v
<1>14. /\ active_requests' \in [Clients -> [RequestIds -> Entry \cup {Nil}]]
       /\ \A b \in Clients \ {c} : active_requests'[b] = active_requests[b]
       /\ \A q \in RequestIds \ {r} : active_requests'[c][q] = active_requests[c][q]
       /\ active_requests'[c][r] = v
  <2>1. v \in Entry \cup {Nil}
    BY <1>13
  <2> QED
    BY <2>1, <1>1, <1>2, <1>7, SetEntry DEF IInv
<1>15. /\ Effect(e, 1, 0)
       /\ \A b : SendsDue(b)' = SendsDue(b) - Once(e.ev = SendRequest(b))
       /\ \A b, q : RetriesDue(b, q)' = RetriesDue(b, q) - Once(e.ev = RetryRequest(b, q))
  BY <1>1, <1>12, AttemptPosted DEF IInv
<1>16. AgendaOK' /\ ServerTypes' /\ ServerInv' /\ Held' = Held + 1
  BY <1>1, <1>15, ServerUnmoved DEF IInv, ByClient
<1>17. /\ Total' = Total + 1 /\ next_attempt_id' \in [Clients -> Nat]
       /\ next_attempt_id'[c] = next_attempt_id[c] + 1
       /\ \A b \in Clients \ {c} : next_attempt_id'[b] = next_attempt_id[b]
  BY <1>1, <1>2, TotalGrows DEF IInv
<1>18. Total' = Held'
  BY <1>16, <1>17 DEF IInv
<1>19. ClientTypes'
  BY <1>1, <1>11, <1>14, <1>17 DEF ClientTypes, Entry, IInv
<1>20. \A b, q : RetriesDue(b, q)' = RetriesDue(b, q)
  <2> TAKE b, q
  <2>1. Once(e.ev = RetryRequest(b, q)) = 0
    BY <1>1, EventKinds DEF Once
  <2>2. RetriesDue(b, q) \in Nat
    BY AmountsNat DEF IInv
  <2>3. RetriesDue(b, q)' = RetriesDue(b, q) - Once(e.ev = RetryRequest(b, q))
    BY <1>15
  <2> QED
    BY <2>1, <2>2, <2>3
<1>21. ASSUME NEW b, b # c PROVE SendsDue(b)' = SendsDue(b)
  <2>1. Once(e.ev = SendRequest(b)) = 0
    BY <1>2, <1>21, EventKinds DEF Once
  <2>2. SendsDue(b) \in Nat
    BY AmountsNat DEF IInv
  <2>3. SendsDue(b)' = SendsDue(b) - Once(e.ev = SendRequest(b))
    BY <1>15
  <2> QED
    BY <2>1, <2>2, <2>3
<1>22. SendsDue(c)' = SendsDue(c) - 1
  <2>1. Once(e.ev = SendRequest(c)) = 1
    BY <1>2 DEF Once
  <2> QED
    BY <2>1, <1>15
<1>23. \A b \in Clients \ {c} : ClientInv(b)'
  <2> TAKE b \in Clients \ {c}
  <2>1. SendsDue(b)' = SendsDue(b) /\ \A q : RetriesDue(b, q)' = RetriesDue(b, q)
    BY <1>20, <1>21
  <2>2. SameClient(b)
    BY <2>1, <1>1, <1>11, <1>14, <1>17 DEF SameClient
  <2> QED
    BY <2>2, Untouched DEF IInv
<1>24. ClientInv(c)'
  <2>1. \A q \in RequestIds : IsActive(c, q)' <=> IsActive(c, q) \/ q = r
    BY <1>13, <1>14 DEF IsActive
  <2>2. Waiting(c)' = Waiting(c) \cup {r} /\ r \notin Waiting(c)
    BY <2>1, <1>7, <1>10 DEF Waiting
  <2>3. IsFiniteSet(Waiting(c))
    <3>1. IsFiniteSet(RequestIds)
      BY <1>4, FS_Interval DEF RequestIds
    <3> QED
      BY <3>1, FS_Subset DEF Waiting
  <2>4. /\ Cardinality(Waiting(c)') = Cardinality(Waiting(c)) + 1
        /\ Cardinality(Waiting(c)) \in Nat
    BY <2>2, <2>3, FS_AddElement, FS_CardinalityType
  <2>5. next_request_id'[c] - 1 = succeeded'[c] + failed'[c] + Cardinality(Waiting(c)')
    <3>1. succeeded[c] \in Nat /\ failed[c] \in Nat
      BY <1>2 DEF IInv, ClientTypes
    <3>2. r - 1 = succeeded[c] + failed[c] + Cardinality(Waiting(c))
      BY <1>2, <1>3 DEF ClientInv
    <3> QED
      BY <3>1, <3>2, <2>4, <1>1, <1>3, <1>11
  <2>6. next_request_id'[c] + SendsDue(c)' <= Len(Sends) + 1
    <3>1. r + SendsDue(c) <= Len(Sends) + 1
      BY <1>2, <1>3 DEF ClientInv
    <3>2. (r + 1) + (SendsDue(c) - 1) <= Len(Sends) + 1
      BY <3>1, <1>3, <1>4
    <3> QED
      BY <3>2, <1>11, <1>22
  <2>7. \A q \in RequestIds : (IsActive(c, q)' => q < r + 1) /\ (RetriesDue(c, q)' # 0 => q < r + 1)
    <3> TAKE q \in RequestIds
    <3>1. (IsActive(c, q) => q < r) /\ (RetriesDue(c, q) # 0 => q < r)
      BY <1>2, <1>3 DEF ClientInv
    <3>2. q \in Nat /\ RetriesDue(c, q)' = RetriesDue(c, q)
      BY <1>20 DEF RequestIds
    <3> QED
      BY <3>1, <3>2, <2>1, <1>3
  <2>8. \A q \in RequestIds : IsActive(c, q)' => Balanced(c, q)'
    <3> TAKE q \in RequestIds
    <3> HAVE IsActive(c, q)'
    <3>1. CASE q = r
      <4>1. /\ active_requests'[c][r].attempt.number = 1
            /\ active_requests'[c][r].policy.current = 0
        BY <1>9, <1>12, <1>13, <1>14
      <4>2. RetriesDue(c, r)' = 0
        BY <1>10, <1>20
      <4>3. 0 <= Policy[c].max_attempts
        BY <1>9
      <4> QED
        BY <4>1, <4>2, <4>3, <3>1 DEF Balanced
    <3>2. CASE q # r
      <4>1. Balanced(c, q)
        BY <3>2, <2>1, <1>3 DEF ClientInv
      <4>2. active_requests'[c][q] = active_requests[c][q] /\ RetriesDue(c, q)' = RetriesDue(c, q)
        BY <3>2, <1>14, <1>20
      <4> QED
        BY <4>1, <4>2 DEF Balanced
    <3> QED
      BY <3>1, <3>2
  <2>9. 1 <= next_attempt_id'[c] /\ 1 <= next_request_id'[c]
    BY <1>3, <1>11, <1>17
  <2> QED
    BY <2>5, <2>6, <2>7, <2>8, <2>9, <1>11 DEF ClientInv
<1> QED
  BY <1>16, <1>18, <1>19, <1>23, <1>24 DEF IInv

-----------------------------------------------------------------------------
(* The system. *)

\* The invariant holds when the program has scheduled its requests.
LEMMA InitInvariant == Init => IInv
<1> SUFFICES ASSUME Init PROVE IInv
  OBVIOUS
<1> DEFINE n == Len(Sends)
<1>1. n \in Nat /\ Sends \in Seq(Clients) /\ SendTimes \subseteq Time /\ IsFiniteSet(Clients)
  BY ClientAssumption
<1>2. PICK t \in [1 .. n -> SendTimes] : AgendaInit([i \in 1 .. n |-> After(t[i], SendRequest(Sends[i]))])
  BY DEF Init
<1> DEFINE s == [i \in 1 .. n |-> After(t[i], SendRequest(Sends[i]))]
<1> HIDE DEF n
<1>3. \A i \in 1 .. n : s[i] \in Orders /\ s[i].ev.kind = "SendRequest"
  <2> TAKE i \in 1 .. n
  <2>1. t[i] \in Nat /\ Sends[i] \in Clients
    <3>1. t[i] \in SendTimes /\ Time \subseteq Nat
      BY <1>2, MaxTimeAssumption DEF Time
    <3>2. Sends[i] \in Clients
      BY <1>1, ElementOfSeq DEF n
    <3> QED
      BY <3>1, <3>2, <1>1
  <2>2. SendRequest(Sends[i]) \in EventTypes /\ SendRequest(Sends[i]).kind = "SendRequest"
    BY <2>1, EventsTyped, EventKinds
  <2>3. /\ After(t[i], SendRequest(Sends[i])) \in Orders
        /\ After(t[i], SendRequest(Sends[i])).ev = SendRequest(Sends[i])
    BY <2>1, <2>2 DEF After, Orders
  <2> QED
    BY <2>2, <2>3
<1>4. s \in Seq(Orders) /\ Len(s) = n
  <2>1. s \in [1 .. n -> Orders]
    BY <1>3
  <2> QED
    BY <2>1, <1>1
<1>5. now = 0 /\ events = Entries(s, 0, 0) /\ next_event_id = n
  BY <1>2, <1>4 DEF AgendaInit
<1> HIDE DEF s
<1>6. 0 \in Time /\ 0 \in Nat
  BY MaxTimeAssumption DEF Time
<1>7. /\ IsFiniteSet(events)
      /\ events \subseteq [seq : Nat, time : Time, ev : EventTypes]
      /\ \A f \in events : 0 < f.seq /\ f.seq <= 0 + n /\ 0 <= f.time
  BY <1>4, <1>5, <1>6, EntriesFacts
<1>8. AgendaOK
  BY <1>1, <1>5, <1>6, <1>7 DEF AgendaOK, Stamped
<1>9. \A K : Amount(K) = Cardinality(Posting(s, K)) /\ IsFiniteSet(Posting(s, K))
  BY <1>4, <1>5, <1>6, EntriesCount DEF Amount
<1>10. ASSUME NEW K, \A ev \in K : ev.kind # "SendRequest" PROVE Amount(K) = 0
  <2>1. Posting(s, K) = {}
    BY <1>3, <1>4, <1>10 DEF Posting
  <2> QED
    BY <2>1, <1>9, FS_EmptySet
<1>11. Processing = 0 /\ Serving = 0
  BY <1>10 DEF Processing, Serving, Of
<1>12. \A c, r : RetriesDue(c, r) = 0
  BY <1>10, EventKinds DEF RetriesDue
<1>13. \A c : SendsDue(c) \in Nat /\ SendsDue(c) <= n
  <2> TAKE c
  <2> DEFINE P == Posting(s, {SendRequest(c)})
  <2>1. SendsDue(c) = Cardinality(P)
    BY <1>9 DEF SendsDue
  <2>2. P \subseteq 1 .. n
    BY <1>4 DEF Posting
  <2> HIDE DEF P
  <2>3. IsFiniteSet(1 .. n) /\ Cardinality(1 .. n) = IF 1 > n THEN 0 ELSE n - 1 + 1
    BY <1>1, FS_Interval
  <2>4. Cardinality(P) <= Cardinality(1 .. n) /\ IsFiniteSet(P)
    BY <2>2, <2>3, FS_Subset
  <2>5. Cardinality(P) \in Nat
    BY <2>4, FS_CardinalityType
  <2> QED
    BY <2>1, <2>3, <2>4, <2>5, <1>1
<1>14. /\ active_threads = 0 /\ queue = <<>>
       /\ requests_processed = 0 /\ requests_rejected = 0 /\ requests_queued = 0
  BY DEF Init, ServerInit
<1>15. ServerTypes /\ ServerInv /\ Held = 0
  <2>1. ServerTypes
    BY <1>14 DEF ServerTypes
  <2>2. ServerInv
    BY <1>11, <1>14, ServerConstants DEF ServerInv
  <2>3. Held = 0
    BY <1>11, <1>14 DEF Held
  <2> QED
    BY <2>1, <2>2, <2>3
<1>16. /\ next_request_id = [c \in Clients |-> 1]
       /\ next_attempt_id = [c \in Clients |-> 1]
       /\ active_requests = [c \in Clients |-> [r \in RequestIds |-> Nil]]
       /\ succeeded = [c \in Clients |-> 0]
       /\ failed = [c \in Clients |-> 0]
       /\ scheduled = [c \in Clients |-> 0]
  BY DEF Init
<1>17. ClientTypes
  BY <1>16 DEF ClientTypes
<1>18. \A c \in Clients : ClientInv(c)
  <2> TAKE c \in Clients
  <2>1. \A r \in RequestIds : ~IsActive(c, r)
    BY <1>16 DEF IsActive
  <2>2. Waiting(c) = {}
    BY <2>1 DEF Waiting
  <2>3. Cardinality(Waiting(c)) = 0
    BY <2>2, FS_EmptySet
  <2>4. next_request_id[c] = 1 /\ next_attempt_id[c] = 1 /\ succeeded[c] = 0 /\ failed[c] = 0
    BY <1>16
  <2>5. 1 + SendsDue(c) <= n + 1
    BY <1>1, <1>13
  <2> QED
    BY <2>1, <2>3, <2>4, <2>5, <1>12 DEF ClientInv, n
<1>19. Total = 0
  <2> DEFINE f == [c \in Clients |-> next_attempt_id[c] - 1]
  <2>1. \A c \in Clients : f[c] = 0 /\ f[c] \in Nat
    BY <1>16
  <2>2. Total = SumFunctionOnSet(f, Clients)
    BY DEF Total
  <2> HIDE DEF f
  <2>3. SumFunctionOnSet(f, Clients) = SumFunctionOnSet(f, {})
    <3>1. {} \in SUBSET Clients /\ \A c \in Clients \ {} : f[c] = 0
      BY <2>1
    <3> QED
      BY <3>1, <2>1, <1>1, SumSupport
  <2> QED
    BY <2>2, <2>3, SumEmpty
<1> QED
  BY <1>8, <1>15, <1>17, <1>18, <1>19 DEF IInv

\* The steps of the server.
LEMMA ServerSteps ==
    ASSUME IInv, NEW e, ServerStep(e), UNCHANGED client_vars
    PROVE  IInv'
<1>1. AgendaOK' /\ ServerTypes' /\ ServerInv' /\ Held' = Held /\ Quiet
  <2>1. AgendaOK /\ ServerTypes /\ ServerInv
    BY DEF IInv
  <2> QED
    BY <2>1, RequestSteps, CompleteSteps, QueuedSteps DEF ServerStep
<1>2. ClientTypes' /\ (\A c \in Clients : ClientInv(c)') /\ Total' = Total
  BY <1>1, QuietClients DEF IInv
<1> QED
  BY <1>1, <1>2 DEF IInv

\* The steps of a client.
LEMMA ClientSteps ==
    ASSUME IInv, NEW e \in events, ClientStep(e)
    PROVE  IInv'
<1>1. e.ev \in EventTypes /\ e.time \in Time
  BY DEF IInv, AgendaOK
<1>2. ByClient(e)
  BY <1>1 DEF ByClient, ClientStep, HandleSend, HandleResponse, HandleTimeout, HandleRetry
<1>3. CASE HandleSend(e)
  BY <1>1, <1>2, <1>3, SendSteps
<1>4. CASE HandleResponse(e)
  <2> DEFINE c == e.ev.attempt.client
             r == e.ev.attempt.request
  <2>1. e.ev.kind = "ResponseReceived"
    BY <1>4 DEF HandleResponse
  <2>2. e.ev.attempt \in Attempts
    BY <1>1, <2>1, EventShapes
  <2>3. c \in Clients /\ r \in RequestIds
    BY <2>2 DEF Attempts
  <2>4. CASE Ignore(e)
    BY <2>1, <2>4, <1>2, IgnoreSteps
  <2>5. CASE /\ IsActive(c, r) /\ Handled(e, <<>>) /\ Deactivate(c, r) /\ Count(succeeded, c)
             /\ UNCHANGED <<next_request_id, next_attempt_id, failed, scheduled>>
    BY <2>1, <2>3, <2>5, <1>2, EndSteps
  <2>6. CASE /\ IsActive(c, r) /\ RetryOrFail(e, c, r)
             /\ UNCHANGED <<next_request_id, next_attempt_id, succeeded>>
    BY <2>1, <2>3, <2>6, <1>2, FailedSteps
  <2> QED
    BY <1>4, <2>4, <2>5, <2>6 DEF HandleResponse
<1>5. CASE HandleTimeout(e)
  <2> DEFINE c == e.ev.attempt.client
             r == e.ev.attempt.request
  <2>1. e.ev.kind = "RequestTimeout"
    BY <1>5 DEF HandleTimeout
  <2>2. e.ev.attempt \in Attempts
    BY <1>1, <2>1, EventShapes
  <2>3. c \in Clients /\ r \in RequestIds
    BY <2>2 DEF Attempts
  <2>4. CASE Ignore(e)
    BY <2>1, <2>4, <1>2, IgnoreSteps
  <2>5. CASE /\ IsActive(c, r) /\ RetryOrFail(e, c, r)
             /\ UNCHANGED <<next_request_id, next_attempt_id, succeeded>>
    BY <2>1, <2>3, <2>5, <1>2, FailedSteps
  <2> QED
    BY <1>5, <2>4, <2>5 DEF HandleTimeout, OfCurrentAttempt
<1>6. CASE HandleRetry(e)
  <2> DEFINE c == e.ev.client
             r == e.ev.request
  <2>1. e.ev.kind = "RetryRequest"
    BY <1>6 DEF HandleRetry
  <2>2. c \in Clients /\ r \in RequestIds /\ e.ev = RetryRequest(c, r)
    BY <1>1, <2>1, EventShapes
  <2>3. CASE ~IsActive(c, r) /\ Ignore(e)
    BY <2>1, <2>3, <1>2, IgnoreSteps
  <2>4. CASE /\ IsActive(c, r) /\ Resend(e, c, r)
             /\ UNCHANGED <<next_request_id, succeeded, failed, scheduled>>
    BY <2>1, <2>2, <2>4, <1>1, <1>2, ResendSteps
  <2> QED
    BY <1>6, <2>3, <2>4 DEF HandleRetry
<1> QED
  BY <1>3, <1>4, <1>5, <1>6 DEF ClientStep

\* Every step keeps it.
LEMMA NextInvariant == IInv /\ [Next]_vars => IInv'
<1> SUFFICES ASSUME IInv, [Next]_vars PROVE IInv'
  OBVIOUS
<1>1. CASE Next
  <2>1. PICK e \in Choice : ClientStep(e) \/ (ServerStep(e) /\ UNCHANGED client_vars)
    BY <1>1 DEF Next
  <2>2. e \in events
    BY DEF Choice
  <2> QED
    BY <2>1, <2>2, ClientSteps, ServerSteps
<1>2. CASE UNCHANGED vars
  <2>1. UNCHANGED <<now, events, next_event_id>> /\ UNCHANGED server_vars /\ UNCHANGED client_vars
    BY <1>2 DEF vars, agenda_vars
  <2>2. \A K : Amount(K)' = Amount(K)
    BY <2>1 DEF Amount
  <2>3. Quiet /\ Processing' = Processing /\ Serving' = Serving
    BY <2>2 DEF Quiet, SendsDue, RetriesDue, Processing, Serving
  <2>4. AgendaOK' /\ Due' = Due
    BY <2>1 DEF IInv, AgendaOK, Stamped, Due
  <2>5. ServerTypes' /\ ServerInv' /\ Held' = Held
    BY <2>1, <2>3, <2>4 DEF IInv, ServerTypes, ServerInv, Held, server_vars, HasCapacity
  <2>6. ClientTypes' /\ (\A c \in Clients : ClientInv(c)') /\ Total' = Total
    BY <2>1, <2>3, QuietClients DEF IInv
  <2> QED
    BY <2>4, <2>5, <2>6 DEF IInv
<1> QED
  BY <1>1, <1>2

\* The invariant holds throughout: agenda, server and clients are in balance
\* after every step of the simulation, in whatever order timeouts, responses,
\* completions and retries are handled.
THEOREM ClientServerInvariant == Spec => []IInv
BY InitInvariant, NextInvariant, PTL DEF Spec

\* The amounts are those that the properties speak of.
LEMMA Views ==
    ASSUME AgendaOK
    PROVE  /\ \A k : Cardinality(OfKind(k)) = Amount(Of(k))
           /\ \A c, r : Cardinality(Retries(c, r)) = RetriesDue(c, r)
<1>1. \A k : OfKind(k) = Having(events, Of(k))
  BY DEF OfKind, Having, Of, AgendaOK
<1>2. \A c, r : Retries(c, r) = Having(events, {RetryRequest(c, r)})
  BY DEF Retries, EntriesFor, Having
<1> QED
  BY <1>1, <1>2 DEF Amount, RetriesDue

\* Every value has its type: a client never runs out of request ids, and the
\* saturating time stays a time.
THEOREM ClientServerTypes == Spec => []TypeOK
<1>1. IInv => TypeOK
  BY DEF IInv, AgendaOK, ServerTypes, ClientTypes, TypeOK
<1> QED
  BY <1>1, ClientServerInvariant, PTL

\* server.rs: active_threads is the number of requests in service, never more
\* than thread_capacity, and no request waits in the queue beside a free thread
\* unless its ProcessQueuedRequests is due at this very time.
THEOREM ServerIsExact == Spec => []ServerExact
<1>1. IInv => ServerExact
  <2> SUFFICES ASSUME IInv PROVE ServerExact
    OBVIOUS
  <2>1. Cardinality({e \in events : e.ev.kind = "RequestCompleted"}) = Serving
    BY Views DEF IInv, OfKind, Serving
  <2>2. ThreadsExact
    BY <2>1 DEF IInv, ServerInv, ThreadsExact
  <2>3. QueueNotStranded
    BY DEF IInv, ServerInv, QueueNotStranded, Due, EntriesFor
  <2> QED
    BY <2>2, <2>3 DEF ServerExact
<1> QED
  BY <1>1, ClientServerInvariant, PTL

\* simple_client.rs: every request is active, succeeded or failed for good,
\* once, and its attempts and due retries are exactly what its policy granted,
\* within max_attempts, also when a timeout races with a late response.
THEOREM ClientIsExact == Spec => []ClientExact
<1>1. IInv => ClientExact
  <2> SUFFICES ASSUME IInv PROVE ClientExact
    OBVIOUS
  <2>1. RequestsAccounted
    BY DEF IInv, ClientInv, RequestsAccounted
  <2>2. RetriesAccounted
    <3> SUFFICES ASSUME NEW c \in Clients, NEW r \in Waiting(c)
                 PROVE  /\ active_requests[c][r].attempt.number + Cardinality(Retries(c, r))
                             = 1 + active_requests[c][r].policy.current
                        /\ active_requests[c][r].policy.current <= Policy[c].max_attempts
      BY DEF RetriesAccounted
    <3>1. Cardinality(Retries(c, r)) = RetriesDue(c, r)
      BY Views DEF IInv
    <3>2. Balanced(c, r)
      BY DEF IInv, ClientInv, Waiting
    <3> QED
      BY <3>1, <3>2 DEF Balanced
  <2> QED
    BY <2>1, <2>2 DEF ClientExact
<1> QED
  BY <1>1, ClientServerInvariant, PTL

\* simple_client.rs, server.rs: every attempt that a client made is on its way,
\* in the queue, in service, processed or rejected, and in one place only.
THEOREM NoAttemptIsLost == Spec => []AttemptsConserved
<1>1. IInv => AttemptsConserved
  <2> SUFFICES ASSUME IInv PROVE AttemptsConserved
    OBVIOUS
  <2>1. Cardinality(OfKind("ProcessRequest")) = Processing
    BY Views DEF IInv, Processing
  <2> QED
    BY <2>1 DEF IInv, AttemptsConserved, Total, Held
<1> QED
  BY <1>1, ClientServerInvariant, PTL
=============================================================================
