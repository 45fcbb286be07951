---------------------------- MODULE TowerProofs -----------------------------
(***************************************************************************)
(* Proofs about the middleware of des-tower, for every number of tasks,    *)
(* services and backends, and every capacity, limit, rate and bound.       *)
(*                                                                         *)
(* MCTower puts the components side by side.  ComponentSteps says that a   *)
(* step of the composition is a step of each of them or leaves it alone;   *)
(* each section then has the inductive invariant of one component and the  *)
(* proof that its steps keep it, and the theorems at the end conjoin them. *)
(***************************************************************************)
EXTENDS MCTower, SumTheorems, Sequences

\* A step of the composition is a step of every component, or leaves it alone.
LEMMA ComponentSteps ==
    ASSUME [Next]_vars
    PROVE  /\ [Request!Next]_(Request!vars)
           /\ [Breaker!Next]_(Breaker!vars)
           /\ [Limits!Next]_(Limits!vars)
           /\ [Bucket!Next]_(Bucket!vars)
           /\ [Balancer!Next]_(Balancer!vars)
<1>1. CASE UNCHANGED vars
  BY <1>1 DEF vars, call, breaker, limits, rate, balancer, Request!vars, Request!service,
     Breaker!vars, Limits!vars, Bucket!vars, Balancer!vars, Balancer!history
<1>2. CASE Next
  <2> USE <1>2 DEF Next, CallStep, BreakerStep, LimitsStep, BalancerStep, On
  <2>1. [Request!Next]_(Request!vars)
    BY DEF call, Request!vars, Request!service, Request!Next
  <2>2. [Breaker!Next]_(Breaker!vars)
    BY DEF breaker, Breaker!Next, Breaker!vars
  <2>3. [Limits!Next]_(Limits!vars)
    BY DEF limits, Limits!Next, Limits!vars
  <2>4. [Bucket!Next]_(Bucket!vars)
    BY DEF rate, Bucket!Next, Bucket!vars
  <2>5. [Balancer!Next]_(Balancer!vars)
    BY DEF balancer, Balancer!Next, Balancer!vars, Balancer!history
  <2> QED
    BY <2>1, <2>2, <2>3, <2>4, <2>5
<1> QED
  BY <1>1, <1>2

\* The operators that the components take from the library are the library's.
LEMMA LibraryOperators ==
    /\ \A S : Limits!Cardinality(S) = Cardinality(S)
    /\ \A S : Limits!IsFiniteSet(S) = IsFiniteSet(S)
    /\ \A S : Request!Cardinality(S) = Cardinality(S)
    /\ \A S : Request!IsFiniteSet(S) = IsFiniteSet(S)
    /\ \A f, S : Bucket!SumFunctionOnSet(f, S) = SumFunctionOnSet(f, S)
<1>1. \A S : Limits!Cardinality(S) = Cardinality(S)
  BY DEF Limits!Cardinality, Cardinality
<1>2. \A S : Limits!IsFiniteSet(S) = IsFiniteSet(S)
  BY Zenon DEF Limits!IsFiniteSet, IsFiniteSet
<1>3. \A S : Request!Cardinality(S) = Cardinality(S)
  BY DEF Request!Cardinality, Cardinality
<1>4. \A S : Request!IsFiniteSet(S) = IsFiniteSet(S)
  BY Zenon DEF Request!IsFiniteSet, IsFiniteSet
<1>5. \A f, S : Bucket!SumFunctionOnSet(f, S) = SumFunctionOnSet(f, S)
  BY DEF Bucket!SumFunctionOnSet, Bucket!FoldFunctionOnSet, Bucket!MapThenFoldSet,
     SumFunctionOnSet, FoldFunctionOnSet, MapThenFoldSet
<1> QED
  BY <1>1, <1>2, <1>3, <1>4, <1>5

----------------------------------------------------------------------------
(* The circuit breaker. *)

\* An open breaker is in generation 1, as every opening is, and a recovery of
\* that generation is due in time.
BreakerInv ==
    /\ state \in [kind : {"closed", "open", "half_open"}, failure_count : Nat, generation : {0, 1}]
    /\ state.kind = "open" => state.generation = 1
    /\ \A r \in recoveries : /\ r = [id |-> r.id, left |-> r.left, generation |-> r.generation]
                             /\ r.left \in Nat
    /\ open_for \in Nat
    /\ Breaker!OpeningEnds

\* A circuit breaker starts closed, with no opening to end.
LEMMA BreakerInit == ASSUME Breaker!Init PROVE BreakerInv
BY DEF Breaker!Init, Breaker!Closed, BreakerInv, Breaker!OpeningEnds

\* Every step of the breaker (poll_ready, call, the answer) keeps its invariant.
LEMMA BreakerNext ==
    ASSUME BreakerInv, [Breaker!Next]_(Breaker!vars)
    PROVE  BreakerInv'
<1> USE DEF BreakerInv, Breaker!OpeningEnds
<1>1. CASE UNCHANGED Breaker!vars
  BY <1>1 DEF Breaker!vars
<1>2. ASSUME NEW t \in Tasks, Breaker!PollErr(t)
      PROVE  BreakerInv'
  <2>1. RecoveryTimeout \in Nat
    BY TowerAssumption DEF TowerAssumption, Breaker!BreakerAssumption
  <2>2. CASE Breaker!OnError.opens
    <3> DEFINE r == [id |-> Breaker!FreeId, left |-> RecoveryTimeout, generation |-> 1]
    <3>1. recoveries' = recoveries \cup {r}
      BY <1>2, <2>2 DEF Breaker!PollErr, Breaker!OnError
    <3>2. open_for' = 0
      BY <1>2, <2>2 DEF Breaker!PollErr
    <3>3. state' = Breaker!Open(1)
      BY <1>2, <2>2 DEF Breaker!PollErr, Breaker!OnError
    <3> QED
      <4>0. r \in recoveries' /\ r.generation = 1 /\ r.left = RecoveryTimeout
        BY <3>1
      <4>1. Breaker!OpeningEnds'
        <5> HIDE DEF r
        <5>1. r.left + open_for' <= RecoveryTimeout /\ r.generation = state'.generation
          BY <2>1, <3>2, <3>3, <4>0 DEF Breaker!Open
        <5> QED
          BY <4>0, <5>1
      <4>2. \A x \in recoveries' : /\ x = [id |-> x.id, left |-> x.left, generation |-> x.generation]
                                   /\ x.left \in Nat
        BY <2>1, <3>1
      <4>3. Breaker!Open(1) \in [kind : {"closed", "open", "half_open"}, failure_count : Nat,
                                generation : {0, 1}]
        BY DEF Breaker!Open
      <4> QED
        BY <3>2, <3>3, <4>1, <4>2, <4>3 DEF Breaker!Open
  <2>3. CASE ~Breaker!OnError.opens
    <3>1. recoveries' = recoveries /\ open_for' = open_for
      BY <1>2, <2>3 DEF Breaker!PollErr, Breaker!OnError
    <3>2. state' = IF state.kind = "open" THEN state ELSE Breaker!Closed(state.failure_count + 1)
      BY <1>2, <2>3 DEF Breaker!PollErr, Breaker!OnError
    <3> QED
      BY <3>1, <3>2 DEF Breaker!Closed
  <2> QED
    BY <2>2, <2>3
<1>3. ASSUME NEW r \in recoveries, Breaker!Recover(r)
      PROVE  BreakerInv'
  BY <1>3 DEF Breaker!Recover, Breaker!HalfOpen
<1>4. CASE Breaker!Tick
  <2> DEFINE Later(r) == [r EXCEPT !.left = @ - 1]
  <2>1. recoveries' = {Later(r) : r \in recoveries} /\ state' = state
    BY <1>4 DEF Breaker!Tick
  <2>2. ASSUME NEW r \in recoveries
        PROVE  /\ Later(r) = [id |-> r.id, left |-> r.left - 1, generation |-> r.generation]
               /\ r.left - 1 \in Nat
    BY <1>4 DEF Breaker!Tick
  <2>3. open_for' = IF state.kind = "open" THEN open_for + 1 ELSE open_for
    BY <1>4 DEF Breaker!Tick
  <2>4. ASSUME NEW x \in recoveries'
        PROVE  x = [id |-> x.id, left |-> x.left, generation |-> x.generation] /\ x.left \in Nat
    BY <2>1, <2>2
  <2>5. ASSUME state'.kind = "open"
        PROVE  \E x \in recoveries' : /\ x.generation = state'.generation
                                      /\ x.left + open_for' <= RecoveryTimeout
    <3>1. PICK r \in recoveries : r.generation = state.generation /\ r.left + open_for <= RecoveryTimeout
      BY <2>1, <2>5
    <3>2. Later(r) \in recoveries'
      BY <2>1
    <3>3. Later(r).generation = state.generation /\ Later(r).left = r.left - 1
      BY <2>2, <3>1
    <3> HIDE DEF Later
    <3>4. open_for' = open_for + 1
      BY <2>1, <2>3, <2>5
    <3>5. r.left \in Nat /\ open_for \in Nat /\ RecoveryTimeout \in Nat
      BY TowerAssumption DEF TowerAssumption, Breaker!BreakerAssumption
    <3>6. Later(r).left + open_for' <= RecoveryTimeout
      BY <3>1, <3>3, <3>4, <3>5
    <3> QED
      BY <2>1, <3>2, <3>3, <3>6
  <2> QED
    BY <2>1, <2>3, <2>4, <2>5
<1>5. ASSUME NEW t \in Tasks,
             \/ Breaker!PollReady(t) \/ Breaker!Call(t) \/ Breaker!PollRefused(t)
             \/ Breaker!PollOk(t) \/ Breaker!DropCall(t)
      PROVE  BreakerInv'
  BY <1>5 DEF Breaker!PollReady, Breaker!Call, Breaker!PollRefused, Breaker!PollOk,
     Breaker!DropCall, Breaker!Closed
<1> QED
  BY <1>1, <1>2, <1>3, <1>4, <1>5 DEF Breaker!Next

----------------------------------------------------------------------------
(* The rate limit. *)

Sum(a, b) == SumFunctionOnSet(admitted, a .. b)
Full == Burst * SharesPerToken

\* What was admitted in an interval that ends now, and the tokens that are left,
\* came out of the full bucket and what the rate brought up to the last refill;
\* nothing was admitted since.
RateInv ==
    /\ now \in 0 .. MaxTime /\ last_refill \in 0 .. now
    /\ tokens \in Nat /\ tokens <= Full
    /\ admitted \in [0 .. MaxTime -> Nat]
    /\ \A i \in 0 .. MaxTime : i > now => admitted[i] = 0
    /\ \A a \in 0 .. now : a > last_refill => Sum(a, now) = 0
    /\ \A a \in 0 .. last_refill :
           SharesPerToken * Sum(a, now) + tokens <= Full + Rate * (last_refill - a)
    /\ \A b \in 0 .. now : b < now => \A a \in 0 .. b :
           SharesPerToken * Sum(a, b) <= Full + Rate * (b - a)

\* The numbers of the token bucket, and its capacity counted in shares.
LEMMA RateConstants ==
    /\ SharesPerToken \in Nat \ {0} /\ Rate \in Nat /\ Burst \in Nat /\ MaxTime \in Nat
    /\ Full \in Nat
<1>1. SharesPerToken \in Nat \ {0} /\ Rate \in Nat /\ Burst \in Nat /\ MaxTime \in Nat
  BY TowerAssumption DEF TowerAssumption, Bucket!RateAssumption
<1> QED
  BY <1>1 DEF Full

\* The requests admitted over an interval of instants can be summed.
LEMMA SumOfInterval ==
    ASSUME NEW f \in [0 .. MaxTime -> Nat], NEW a \in Nat, NEW b \in 0 .. MaxTime
    PROVE  /\ IsFiniteSet(a .. b)
           /\ \A x \in a .. b : f[x] \in Nat
           /\ SumFunctionOnSet(f, a .. b) \in Nat
<1>1. IsFiniteSet(a .. b)
  BY RateConstants, FS_Interval
<1>2. \A x \in a .. b : f[x] \in Nat
  BY RateConstants
<1> QED
  BY <1>1, <1>2, SumType

\* The bucket starts full and has admitted nothing.
LEMMA RateInit == ASSUME Bucket!Init PROVE RateInv
<1> USE RateConstants DEF Bucket!Init
<1>1. tokens = Full
  BY DEF Full
<1>2. Sum(0, 0) = 0
  <2>1. 0 .. 0 = {0} /\ admitted[0] = 0
    OBVIOUS
  <2> QED
    BY <2>1, SumSingle DEF Sum
<1>3. SharesPerToken * 0 = 0 /\ Rate * (0 - 0) = 0
  OBVIOUS
<1> QED
  BY <1>1, <1>2, <1>3 DEF RateInv

\* The invariant bounds every interval up to now: one that ends now by what was
\* left in the bucket, one that ended before by what held then.
LEMMA RateUpToNow ==
    ASSUME RateInv, NEW b \in 0 .. now, NEW a \in 0 .. b
    PROVE  SharesPerToken * Sum(a, b) <= Full + Rate * (b - a)
<1> USE RateConstants
<1>1. /\ now \in 0 .. MaxTime /\ last_refill \in 0 .. now /\ admitted \in [0 .. MaxTime -> Nat]
      /\ tokens \in Nat
  BY DEF RateInv
<1>2. CASE b < now
  BY <1>1, <1>2 DEF RateInv
<1>3. CASE b = now /\ a > last_refill
  <2>1. Sum(a, b) = 0
    BY <1>1, <1>3 DEF RateInv
  <2>2. Rate * (b - a) \in Nat
    BY <1>1
  <2> QED
    BY <2>1, <2>2
<1>4. CASE b = now /\ a <= last_refill
  <2>1. SharesPerToken * Sum(a, now) + tokens <= Full + Rate * (last_refill - a)
    BY <1>1, <1>4 DEF RateInv
  <2>2. Rate * (now - a) = Rate * (last_refill - a) + Rate * (now - last_refill)
    BY <1>1
  <2>3. Rate * (now - last_refill) \in Nat /\ Rate * (last_refill - a) \in Nat
    BY <1>1, <1>4
  <2>4. Sum(a, now) \in Nat
    <3>1. a \in Nat
      BY <1>1
    <3> QED
      BY <1>1, <3>1, SumOfInterval DEF Sum
  <2>5. SharesPerToken * Sum(a, now) \in Nat
    BY <2>4
  <2> DEFINE x == SharesPerToken * Sum(a, now)
             y == Rate * (last_refill - a)
             z == Rate * (now - last_refill)
  <2>6. x + tokens <= Full + y /\ x \in Nat /\ y \in Nat /\ z \in Nat /\ Rate * (now - a) = y + z
    BY <2>1, <2>2, <2>3, <2>5
  <2> HIDE DEF x, y, z
  <2>7. x <= Full + Rate * (now - a)
    BY <1>1, <2>6
  <2> QED
    BY <1>4, <2>7 DEF x
<1> QED
  BY <1>1, <1>2, <1>3, <1>4

\* Time goes on: nothing is admitted yet at the new time.
LEMMA RateTick == ASSUME RateInv, Bucket!Tick PROVE RateInv'
<1> USE RateConstants
<1>1. /\ now \in 0 .. MaxTime /\ last_refill \in 0 .. now /\ admitted \in [0 .. MaxTime -> Nat]
      /\ now' = now + 1 /\ now' \in 0 .. MaxTime
      /\ UNCHANGED <<tokens, last_refill, admitted>>
      /\ admitted[now + 1] = 0
  BY DEF RateInv, Bucket!Tick
<1>2. ASSUME NEW a \in 0 .. now + 1
      PROVE  Sum(a, now + 1) = IF a = now + 1 THEN 0 ELSE Sum(a, now)
  <2>1. CASE a = now + 1
    <3>1. a .. now + 1 = {now + 1}
      BY <1>1, <2>1
    <3> QED
      BY <1>1, <2>1, <3>1, SumSingle DEF Sum
  <2>2. CASE a # now + 1
    <3>1. a .. now + 1 = (a .. now) \cup {now + 1} /\ now + 1 \notin a .. now /\ a \in Nat
      BY <1>1, <2>2
    <3>2. /\ IsFiniteSet(a .. now) /\ \A x \in a .. now : admitted[x] \in Nat
          /\ SumFunctionOnSet(admitted, a .. now) \in Nat
      BY <1>1, <3>1, SumOfInterval
    <3>3. SumFunctionOnSet(admitted, (a .. now) \cup {now + 1})
            = admitted[now + 1] + SumFunctionOnSet(admitted, a .. now)
      BY <1>1, <3>1, <3>2, SumAdd
    <3>4. SumFunctionOnSet(admitted, a .. now + 1) = SumFunctionOnSet(admitted, a .. now)
      <4> DEFINE s1 == SumFunctionOnSet(admitted, a .. now)
                 s2 == SumFunctionOnSet(admitted, a .. now + 1)
      <4>1. s2 = 0 + s1 /\ s1 \in Nat
        BY <1>1, <3>1, <3>2, <3>3
      <4> HIDE DEF s1, s2
      <4>2. s2 = s1
        BY <4>1
      <4> QED
        BY <4>2 DEF s1, s2
    <3> QED
      BY <2>2, <3>4 DEF Sum
  <2> QED
    BY <2>1, <2>2
<1>3. \A a, b : Sum(a, b)' = SumFunctionOnSet(admitted, a' .. b')
  BY <1>1 DEF Sum
<1>4. \A a \in 0 .. now' : a > last_refill' => Sum(a, now + 1) = 0
  BY <1>1, <1>2 DEF RateInv
<1>5. \A a \in 0 .. last_refill' :
        SharesPerToken * Sum(a, now + 1) + tokens' <= Full + Rate * (last_refill' - a)
  BY <1>1, <1>2 DEF RateInv
<1>6. \A b \in 0 .. now' : b < now' => \A a \in 0 .. b :
        SharesPerToken * Sum(a, b) <= Full + Rate * (b - a)
  BY <1>1, RateUpToNow
<1> QED
  BY <1>1, <1>4, <1>5, <1>6 DEF RateInv, Sum
\* What a call inside of an event finds in the bucket.
LEMMA RefilledBound ==
    ASSUME RateInv
    PROVE  /\ Bucket!Refilled(now) \in Nat
           /\ Bucket!Refilled(now) <= Full
           /\ Bucket!Refilled(now) <= tokens + Rate * (now - last_refill)
           /\ tokens \in Nat /\ Rate * (now - last_refill) \in Nat
<1>1. now \in Nat /\ last_refill \in Nat /\ last_refill <= now /\ tokens \in Nat /\ tokens <= Full
  BY RateConstants DEF RateInv
<1> DEFINE e == IF now > last_refill THEN now - last_refill ELSE 0
<1>2. e = now - last_refill /\ e \in Nat
  BY <1>1
<1>3. e * Rate = Rate * (now - last_refill) /\ e * Rate \in Nat
  BY <1>1, <1>2, RateConstants
<1>4. Bucket!Refilled(now) = IF tokens + e * Rate > Full THEN Full ELSE tokens + e * Rate
  BY DEF Bucket!Refilled, Full
<1> HIDE DEF e
<1> QED
  BY <1>1, <1>3, <1>4, RateConstants

\* The invariant of the rate limit, with the sums up to now: what a call has to
\* show, whether it got a token or not.
LEMMA RateCall ==
    ASSUME RateInv, CallsOutside = FALSE, NEW inside \in BOOLEAN, Bucket!Call(inside)
    PROVE  RateInv'
<1> USE RateConstants
<1> DEFINE refilled == Bucket!Refilled(now)
           due == Rate * (now - last_refill)
<1>1. /\ now \in 0 .. MaxTime /\ last_refill \in 0 .. now /\ admitted \in [0 .. MaxTime -> Nat]
      /\ now' = now /\ last_refill' = now /\ now \in Nat /\ last_refill \in Nat
      /\ Bucket!TryAcquireToken(now)
  BY DEF RateInv, Bucket!Call, Bucket!TryAcquireToken
<1>2. /\ refilled \in Nat /\ refilled <= Full /\ refilled <= tokens + due
      /\ tokens \in Nat /\ due \in Nat
  BY RefilledBound
<1>3. PICK n \in {0, 1} : /\ tokens' = refilled - SharesPerToken * n
                          /\ tokens' \in Nat
                          /\ admitted' = [admitted EXCEPT ![now] = @ + n]
  <2>1. CASE refilled >= SharesPerToken
    <3>1. /\ tokens' = refilled - SharesPerToken * 1 /\ tokens' \in Nat
          /\ admitted' = [admitted EXCEPT ![now] = @ + 1]
      BY <1>1, <1>2, <2>1 DEF Bucket!TryAcquireToken
    <3> QED
      BY <3>1
  <2>2. CASE ~(refilled >= SharesPerToken)
    <3>1. tokens' = refilled - SharesPerToken * 0 /\ tokens' \in Nat
      BY <1>1, <1>2, <2>2 DEF Bucket!TryAcquireToken
    <3>2. admitted' = admitted /\ admitted[now] + 0 = admitted[now]
      BY <1>1, <1>2, <2>2 DEF Bucket!TryAcquireToken
    <3>3. admitted' = [admitted EXCEPT ![now] = @ + 0]
      BY <1>1, <3>2
    <3> QED
      BY <3>1, <3>3
  <2> QED
    BY <2>1, <2>2
<1>4. /\ n \in Nat /\ SharesPerToken * n \in Nat
      /\ admitted' \in [0 .. MaxTime -> Nat] /\ admitted'[now] = admitted[now] + n
      /\ \A x \in 0 .. MaxTime : x # now => admitted'[x] = admitted[x]
  BY <1>1, <1>3
<1> HIDE DEF refilled, due
<1>5. ASSUME NEW a \in 0 .. now
      PROVE  /\ SumFunctionOnSet(admitted', a .. now) = Sum(a, now) + n
             /\ Sum(a, now) \in Nat
  <2>1. a \in Nat /\ a <= now
    BY <1>1
  <2>2. /\ IsFiniteSet(a .. now) /\ Sum(a, now) \in Nat
        /\ \A x \in a .. now : admitted[x] \in Nat
    BY <1>1, <2>1, SumOfInterval DEF Sum
  <2>3. /\ SumFunctionOnSet(admitted', a .. now) \in Nat
        /\ \A x \in a .. now : admitted'[x] \in Nat
    BY <1>1, <1>4, <2>1, SumOfInterval
  <2>4. /\ now \in a .. now /\ admitted[now] \in Nat
        /\ \A x \in (a .. now) \ {now} : admitted[x] = admitted'[x]
    BY <1>1, <1>4, <2>1
  <2>5. SumFunctionOnSet(admitted', a .. now) + admitted[now]
          = SumFunctionOnSet(admitted, a .. now) + admitted'[now]
    BY <2>2, <2>3, <2>4, SumChange
  <2> DEFINE s1 == SumFunctionOnSet(admitted', a .. now)
             s2 == SumFunctionOnSet(admitted, a .. now)
  <2>6. /\ s1 \in Nat /\ s2 \in Nat /\ s2 = Sum(a, now)
        /\ s1 + admitted[now] = s2 + (admitted[now] + n)
    BY <1>4, <2>2, <2>3, <2>5 DEF Sum
  <2> HIDE DEF s1, s2
  <2>7. s1 = s2 + n
    BY SMTT(30), <1>4, <2>4, <2>6
  <2> QED
    BY <2>2, <2>6, <2>7 DEF s1
<1>6. ASSUME NEW a \in 0 .. now
      PROVE  SharesPerToken * SumFunctionOnSet(admitted', a .. now) + tokens' <= Full + Rate * (now - a)
  <2> DEFINE s == Sum(a, now)
  <2>1. SharesPerToken * (s + n) + tokens' = SharesPerToken * s + refilled
    <3>1. s \in Nat
      BY <1>5
    <3> HIDE DEF s
    <3>2. SharesPerToken * (s + n) = SharesPerToken * s + SharesPerToken * n
      BY <1>4, <3>1
    <3>3. SharesPerToken * s \in Nat
      BY <3>1
    <3> QED
      BY <1>2, <1>3, <1>4, <3>2, <3>3
  <2>2. SharesPerToken * s + refilled <= Full + Rate * (now - a)
    <3>1. CASE a > last_refill
      <4>1. s = 0
        BY <1>1, <3>1 DEF RateInv
      <4>2. SharesPerToken * 0 = 0 /\ Rate * (now - a) \in Nat
        BY <1>1
      <4> HIDE DEF s
      <4> QED
        BY <1>2, <4>1, <4>2
    <3>2. CASE a <= last_refill
      <4>1. SharesPerToken * s + tokens <= Full + Rate * (last_refill - a)
        BY <1>1, <3>2 DEF RateInv
      <4>2. Rate * (now - a) = Rate * (last_refill - a) + due
        BY <1>1 DEF due
      <4>3. Rate * (last_refill - a) \in Nat
        BY <1>1, <3>2
      <4>4. s \in Nat
        BY <1>5
      <4> HIDE DEF s
      <4>5. SharesPerToken * s \in Nat
        BY <4>4
      <4> QED
        BY <1>2, <4>1, <4>2, <4>3, <4>5
    <3> QED
      BY <1>1, <3>1, <3>2
  <2> QED
    BY <1>5, <2>1, <2>2
<1>7. ASSUME NEW b \in 0 .. now, b < now, NEW a \in 0 .. b
      PROVE  SharesPerToken * SumFunctionOnSet(admitted', a .. b) <= Full + Rate * (b - a)
  <2>1. a \in Nat /\ b \in 0 .. MaxTime /\ b < now
    BY <1>1, <1>7
  <2>2. /\ IsFiniteSet(a .. b)
        /\ \A x \in a .. b : admitted[x] \in Nat
    BY <1>1, <2>1, SumOfInterval
  <2>3. \A x \in a .. b : admitted[x] = admitted'[x]
    BY <1>1, <1>4, <2>1
  <2>4. SumFunctionOnSet(admitted, a .. b) = SumFunctionOnSet(admitted', a .. b)
    BY <2>2, <2>3, SumSame
  <2> QED
    BY <1>7, <2>4 DEF RateInv, Sum
<1>8. tokens' <= Full
  BY <1>2, <1>3, <1>4
<1>9. \A i \in 0 .. MaxTime : i > now => admitted'[i] = 0
  BY <1>1, <1>4 DEF RateInv
<1>10. \A a \in 0 .. now : ~(a > now)
  BY <1>1
<1>11. now \in 0 .. now
  BY <1>1
<1> HIDE RateConstants
<1> QED
  BY <1>1, <1>3, <1>4, <1>6, <1>7, <1>8, <1>9, <1>10, <1>11 DEF RateInv, Sum, Full

\* While calls are made within events, every step keeps the invariant.
LEMMA RateNext ==
    ASSUME RateInv, CallsOutside = FALSE, [Bucket!Next]_(Bucket!vars)
    PROVE  RateInv'
<1>1. CASE UNCHANGED Bucket!vars
  BY <1>1 DEF Bucket!vars, RateInv, Sum
<1>2. ASSUME NEW inside \in BOOLEAN, Bucket!Call(inside)
      PROVE  RateInv'
  BY <1>2, RateCall
<1> QED
  BY <1>1, <1>2, RateTick DEF Bucket!Next

\* The invariant gives the bound.
LEMMA RateWithin == ASSUME RateInv PROVE Bucket!AdmittedWithinRate
<1>1. \A b \in 0 .. now : \A a \in 0 .. b : SharesPerToken * Sum(a, b) <= Full + Rate * (b - a)
  BY RateUpToNow
<1>2. now \in Nat
  BY RateConstants DEF RateInv
<1>3. \A a \in 0 .. now : \A b \in a .. now : b \in 0 .. now /\ a \in 0 .. b
  BY <1>2
<1> QED
  BY <1>1, <1>3, LibraryOperators DEF Bucket!AdmittedWithinRate, Sum, Full
----------------------------------------------------------------------------
(* The load balancer. *)

\* A balancer has a backend, and every draw names one.
LEMMA BalancerConstants ==
    /\ Backends \in Nat \ {0} /\ MaxCalls \in Nat /\ First \in Handles
    /\ \A n \in 0 .. MaxCalls : Draws[n + 1] \in Balancer!Backend
<1>1. /\ Backends \in Nat \ {0} /\ MaxCalls \in Nat /\ First \in Handles
      /\ Draws \in Seq(0 .. Backends - 1) /\ MaxCalls < Len(Draws)
  BY TowerAssumption DEF TowerAssumption, Balancer!BalancerAssumption
<1> QED
  BY <1>1 DEF Balancer!Backend

\* A handle's generator and index are where its calls brought them.  What
\* poll_ready offered is what it remembers, and as long as all backends were
\* ready, what it remembers is what the strategy is due to pick.
BalancerInv ==
    /\ current_index \in [Handles -> Balancer!Backend]
    /\ turns \in [Handles -> 0 .. MaxCalls] /\ drawn \in [Handles -> 0 .. MaxCalls]
    /\ ready_index \in [Handles -> Balancer!Backend \cup {Balancer!None}]
    /\ offered \in [Handles -> Balancer!Backend \cup {Balancer!None}]
    /\ readiness \in [Balancer!Backend -> {"ready", "pending", "failed"}]
    /\ called \in [Handles -> Balancer!Backend \cup {Balancer!None}]
    /\ made \subseteq Handles
    /\ \A h \in Handles \ made : ready_index[h] = Balancer!None
    /\ \A h \in Handles : offered[h] # Balancer!None => ready_index[h] = offered[h]
    /\ IF strategy = "Random" THEN drawn = turns ELSE drawn = [h \in Handles |-> 0]
    /\ steady =>
         /\ \A b \in Balancer!Backend : readiness[b] = "ready"
         /\ \A h \in Handles : /\ strategy # "Random" => current_index[h] = turns[h] % Backends
                               /\ ready_index[h] # Balancer!None => ready_index[h] = Balancer!Due(turns[h])

\* The first handle starts at backend 0 with nothing cached.
LEMMA BalancerInit == ASSUME Balancer!Init PROVE BalancerInv
<1>1. 0 % Backends = 0 /\ 0 \in 0 .. Backends - 1 /\ 0 \in 0 .. MaxCalls /\ First \in Handles
  BY BalancerConstants
<1> QED
  BY <1>1 DEF Balancer!Init, BalancerInv, Balancer!Backend, Balancer!None

\* What the strategy would pick is a backend, and the one due while all were ready.
LEMMA PeekIsDue ==
    ASSUME BalancerInv, NEW h \in Handles
    PROVE  /\ Balancer!PeekStartIndex(h) \in Balancer!Backend
           /\ steady => Balancer!PeekStartIndex(h) = Balancer!Due(turns[h])
BY BalancerConstants DEF BalancerInv, Balancer!PeekStartIndex, Balancer!Due

\* The search finds a backend or none, and the first one it asks when all are ready.
LEMMA SearchFinds ==
    ASSUME BalancerInv, NEW start \in Balancer!Backend
    PROVE  /\ Balancer!FirstNotPending(start) \in Balancer!Backend \cup {Balancer!None}
           /\ steady => Balancer!FirstNotPending(start) = start
<1> DEFINE at(i) == (start + i) % Backends
           found == {i \in Balancer!Backend : readiness[at(i)] # "pending"}
           least == CHOOSE i \in found : \A j \in found : i <= j
<1>1. Balancer!FirstNotPending(start) = IF found = {} THEN Balancer!None ELSE at(least)
  BY DEF Balancer!FirstNotPending
<1>2. \A i \in Nat : at(i) \in Balancer!Backend
  BY BalancerConstants, NextTurn DEF Balancer!Backend
<1>3. found \subseteq Nat
  BY BalancerConstants DEF Balancer!Backend
<1>4. ASSUME found # {}
      PROVE  least \in found /\ \A j \in found : least <= j
  <2>1. \E i \in found : \A j \in found : i <= j
    <3> HIDE DEF found
    <3> QED
      BY <1>3, <1>4, LeastNatural
  <2> HIDE DEF found
  <2> QED
    BY <2>1
<1>5. ASSUME steady
      PROVE  Balancer!FirstNotPending(start) = start
  <2>1. 0 \in Balancer!Backend /\ start + 0 = start /\ start \in Nat /\ start < Backends
    BY BalancerConstants DEF Balancer!Backend
  <2>2. at(0) = start
    BY <2>1, BalancerConstants
  <2>3. 0 \in found
    BY <1>5, <2>1, <2>2 DEF BalancerInv
  <2>4. least = 0
    <3> HIDE DEF found
    <3>1. least \in Nat /\ least <= 0
      BY <1>3, <1>4, <2>3
    <3> HIDE DEF least
    <3> QED
      BY <3>1
  <2> HIDE DEF at, found, least
  <2> QED
    BY <1>1, <2>2, <2>3, <2>4
<1>6. Balancer!FirstNotPending(start) \in Balancer!Backend \cup {Balancer!None}
  <2>1. CASE found = {}
    BY <1>1, <2>1
  <2>2. CASE found # {}
    <3>1. least \in Nat
      BY <1>3, <1>4, <2>2
    <3> HIDE DEF at, found, least
    <3> QED
      BY <1>1, <1>2, <2>2, <3>1
  <2> QED
    BY <2>1, <2>2
<1> QED
  BY <1>5, <1>6

\* poll_ready keeps the cached index that is still ready, or caches the first backend
\* in the order of its policy that is not pending: the invariant is kept.
LEMMA BalancerPollReady ==
    ASSUME BalancerInv, NEW h \in Handles, Balancer!PollReady(h)
    PROVE  BalancerInv'
<1> DEFINE kept == ready_index[h] # Balancer!None /\ readiness[ready_index[h]] # "pending"
           idx == IF kept THEN ready_index[h]
                  ELSE Balancer!FirstNotPending(Balancer!PeekStartIndex(h))
           ready == idx # Balancer!None /\ readiness[idx] = "ready"
<1>1. /\ ready_index' = [ready_index EXCEPT ![h] = IF kept THEN idx
                                                   ELSE IF ready THEN idx ELSE Balancer!None]
      /\ offered' = [offered EXCEPT ![h] = IF ready THEN idx ELSE Balancer!None]
      /\ h \in made
      /\ UNCHANGED <<strategy, current_index, drawn, made, readiness, called, turns, steady>>
  BY DEF Balancer!PollReady
<1>2. idx \in Balancer!Backend \cup {Balancer!None}
  BY PeekIsDue, SearchFinds DEF BalancerInv
<1>3. steady /\ idx # Balancer!None => idx = Balancer!Due(turns[h])
  BY PeekIsDue, SearchFinds DEF BalancerInv
<1>4. kept => ready_index[h] = idx /\ idx # Balancer!None
  OBVIOUS
<1> HIDE DEF kept, idx
<1> QED
  BY <1>1, <1>2, <1>3, <1>4 DEF BalancerInv, Balancer!Due

\* A call goes where it is due, and leaves the handle where the next is due.
LEMMA BalancerCall ==
    ASSUME BalancerInv, NEW h \in Handles, Balancer!Call(h)
    PROVE  /\ BalancerInv'
           /\ turns' = [turns EXCEPT ![h] = @ + 1]
           /\ offered[h] # Balancer!None => called'[h] = offered[h]
           /\ steady => called'[h] = Balancer!Due(turns[h])
<1> DEFINE idx == Balancer!SelectService(h)
<1>1. /\ h \in made /\ turns[h] < MaxCalls
      /\ ready_index' = [ready_index EXCEPT ![h] = Balancer!None]
      /\ called' = [called EXCEPT ![h] = idx]
      /\ turns' = [turns EXCEPT ![h] = @ + 1]
      /\ offered' = [offered EXCEPT ![h] = Balancer!None]
      /\ Balancer!CommitSelectedIndex(h, idx)
      /\ UNCHANGED <<strategy, made, readiness, steady>>
  BY DEF Balancer!Call
<1>2. idx \in Balancer!Backend /\ (steady => idx = Balancer!Due(turns[h]))
  BY PeekIsDue DEF BalancerInv, Balancer!SelectService
<1>3. offered[h] # Balancer!None => idx = offered[h]
  BY DEF BalancerInv, Balancer!SelectService
<1> HIDE DEF idx
<1>4. turns[h] \in Nat /\ turns[h] + 1 \in 0 .. MaxCalls
  BY <1>1, BalancerConstants DEF BalancerInv
<1>5. CASE strategy = "Random"
  <2>1. drawn' = turns' /\ current_index' = current_index
    BY <1>1, <1>5 DEF BalancerInv, Balancer!CommitSelectedIndex
  <2> QED
    BY <1>1, <1>2, <1>3, <1>4, <1>5, <2>1 DEF BalancerInv, Balancer!Due
<1>6. CASE strategy # "Random"
  <2>1. drawn' = drawn /\ current_index' = [current_index EXCEPT ![h] = (idx + 1) % Backends]
    BY <1>1, <1>6 DEF Balancer!CommitSelectedIndex
  <2>2. (idx + 1) % Backends \in Balancer!Backend
    BY <1>2, NextTurn, BalancerConstants DEF Balancer!Backend
  <2>3. steady => (idx + 1) % Backends = (turns[h] + 1) % Backends
    BY <1>2, <1>4, <1>6, NextTurn, BalancerConstants DEF Balancer!Due
  <2> QED
    BY <1>1, <1>2, <1>3, <1>4, <1>6, <2>1, <2>2, <2>3 DEF BalancerInv, Balancer!Due
<1> QED
  BY <1>5, <1>6

\* Every step of the balancer keeps the invariant, and a call goes where it is due.
LEMMA BalancerNext ==
    ASSUME BalancerInv, [Balancer!Next]_(Balancer!vars)
    PROVE  /\ BalancerInv'
           /\ \A h \in made : turns'[h] # turns[h] =>
                  /\ offered[h] # Balancer!None => called'[h] = offered[h]
                  /\ steady => called'[h] = Balancer!Due(turns[h])
<1>1. CASE UNCHANGED Balancer!vars
  BY <1>1 DEF Balancer!vars, Balancer!history, BalancerInv, Balancer!Due
<1>2. ASSUME NEW h \in Handles, Balancer!PollReady(h)
      PROVE  BalancerInv' /\ turns' = turns
  BY <1>2, BalancerPollReady DEF Balancer!PollReady
<1>3. ASSUME NEW h \in Handles, Balancer!Call(h), NEW g \in made, turns'[g] # turns[g]
      PROVE  g = h
  BY <1>3, BalancerCall DEF BalancerInv
<1>4. ASSUME NEW h \in Handles, NEW c \in Handles, Balancer!Clone(h, c)
      PROVE  BalancerInv' /\ \A g \in made : turns'[g] = turns[g]
  <2>1. /\ h \in made /\ c \notin made /\ made' = made \cup {c}
        /\ current_index' = [current_index EXCEPT ![c] = current_index[h]]
        /\ drawn' = [drawn EXCEPT ![c] = drawn[h]]
        /\ turns' = [turns EXCEPT ![c] = turns[h]]
        /\ UNCHANGED <<strategy, ready_index, status, readiness, offered, called, steady>>
    BY <1>4 DEF Balancer!Clone
  <2>2. /\ current_index' \in [Handles -> Balancer!Backend]
        /\ turns' \in [Handles -> 0 .. MaxCalls] /\ drawn' \in [Handles -> 0 .. MaxCalls]
        /\ \A g \in made : turns'[g] = turns[g]
    BY <2>1 DEF BalancerInv
  <2>3. IF strategy' = "Random" THEN drawn' = turns' ELSE drawn' = [g \in Handles |-> 0]
    <3>1. CASE strategy = "Random"
      BY <2>1, <3>1 DEF BalancerInv
    <3>2. CASE strategy # "Random"
      <4>1. drawn = [g \in Handles |-> 0] /\ h \in Handles
        BY <3>2 DEF BalancerInv
      <4>2. drawn' = drawn
        BY <2>1, <4>1
      <4> QED
        BY <2>1, <3>2, <4>1, <4>2
    <3> QED
      BY <3>1, <3>2
  <2>4. ready_index[c] = Balancer!None
    BY <2>1 DEF BalancerInv
  <2>5. ASSUME steady, NEW g \in Handles
        PROVE  /\ strategy # "Random" => current_index'[g] = turns'[g] % Backends
               /\ ready_index[g] # Balancer!None =>
                      ready_index[g] = IF strategy = "Random" THEN Draws[turns'[g] + 1]
                                       ELSE turns'[g] % Backends
    BY <2>1, <2>4, <2>5 DEF BalancerInv, Balancer!Due
  <2> QED
    BY <2>1, <2>2, <2>3, <2>5 DEF BalancerInv, Balancer!Due
<1>5. ASSUME NEW b \in Balancer!Backend, NEW r \in {"ready", "pending", "failed"}, Balancer!Shift(b, r)
      PROVE  BalancerInv' /\ turns' = turns
  BY <1>5 DEF Balancer!Shift, BalancerInv
<1> QED
  BY <1>1, <1>2, <1>3, <1>4, <1>5, BalancerCall DEF Balancer!Next
----------------------------------------------------------------------------
(* The concurrency limits. *)

\* The tasks are finite in number, each calls one service, and both limits are numbers.
LEMMA LimitsConstants ==
    /\ IsFiniteSet(Tasks) /\ ServiceOf \in [Tasks -> Services]
    /\ Max \in Nat /\ GlobalMax \in Nat
BY TowerAssumption, LibraryOperators DEF TowerAssumption, Limits!LimitsAssumption

\* The tasks that hold a slot of a service's limit, and of the global one.
Holding(s) == {t \in Limits!Clones(s) : permit[t] \/ limit_phase[t] \in {"calling", "failed"}}
GlobalHolding == {t \in Tasks : global_permit[t] \/ limit_phase[t] = "calling"}

\* Permits are kept where their phase says: a clone that is ready has both, one
\* that waits may have the global one, and the futures have taken theirs over.
LimitsFlags ==
    \A t \in Tasks : /\ permit[t] <=> limit_phase[t] = "ready"
                     /\ limit_phase[t] = "ready" => global_permit[t]
                     /\ global_permit[t] => limit_phase[t] \in {"pending", "ready"}

LimitsInv == Limits!TypeOK /\ LimitsFlags /\ Limits!SlotsExact /\ Limits!LimitWakes

\* The holders of a limit's slots can be counted.
LEMMA HoldingFinite ==
    /\ IsFiniteSet(GlobalHolding) /\ Cardinality(GlobalHolding) \in Nat
    /\ \A s : IsFiniteSet(Holding(s)) /\ Cardinality(Holding(s)) \in Nat
<1>1. GlobalHolding \subseteq Tasks /\ \A s : Holding(s) \subseteq Tasks
  BY DEF GlobalHolding, Holding, Limits!Clones
<1> QED
  BY <1>1, LimitsConstants, FS_Subset, FS_CardinalityType

\* SlotsExact in the words of this module.
LEMMA SlotsExactly ==
    Limits!SlotsExact <=>
        /\ global <= GlobalMax
        /\ global = Cardinality(GlobalHolding) + dropped.global
        /\ \A s \in Services : /\ current[s] <= Max
                               /\ current[s] = Cardinality(Holding(s)) + dropped.service[s]
BY LibraryOperators DEF Limits!SlotsExact, GlobalHolding, Holding

\* What a step of t may do to a counter n with the holders S and d permits lost:
\* nothing, take a slot, give it back, or lose it with its holder.
SlotMove(t, limit, n, S, d, n1, S1, d1) ==
    \/ n1 = n /\ S1 = S /\ d1 = d
    \/ n1 = n + 1 /\ n < limit /\ t \notin S /\ S1 = S \cup {t} /\ d1 = d
    \/ n1 = n - 1 /\ t \in S /\ S1 = S \ {t} /\ d1 = d
    \/ n1 = n /\ t \in S /\ S1 = S \ {t} /\ d1 = d + 1

\* A slot that is taken, is given back, or stays counted after its holder was dropped
\* keeps the count exact and within the limit.
LEMMA SlotMoves ==
    ASSUME NEW t, NEW limit \in Nat, NEW n \in Nat, NEW S, NEW d \in Nat, NEW n1, NEW S1, NEW d1,
           IsFiniteSet(S), n = Cardinality(S) + d, n <= limit,
           SlotMove(t, limit, n, S, d, n1, S1, d1)
    PROVE  n1 \in Nat /\ n1 <= limit /\ n1 = Cardinality(S1) + d1
<1>1. Cardinality(S) \in Nat
  BY FS_CardinalityType
<1>2. t \notin S => Cardinality(S \cup {t}) = Cardinality(S) + 1
  BY FS_AddElement
<1>3. t \in S => Cardinality(S \ {t}) = Cardinality(S) - 1 /\ Cardinality(S \ {t}) \in Nat
  BY FS_RemoveElement, FS_CardinalityType
<1> QED
  BY <1>1, <1>2, <1>3 DEF SlotMove

\* A step of t that does only this to each of the counters keeps them exact.
LEMMA SlotsStep ==
    ASSUME LimitsInv, NEW t,
           SlotMove(t, GlobalMax, global, GlobalHolding, dropped.global,
                    global', GlobalHolding', dropped'.global),
           \A s \in Services : SlotMove(t, Max, current[s], Holding(s), dropped.service[s],
                                        current'[s], Holding(s)', dropped'.service[s])
    PROVE  /\ Limits!SlotsExact'
           /\ global' \in Nat /\ \A s \in Services : current'[s] \in Nat
<1>1. /\ global \in Nat /\ dropped.global \in Nat
      /\ \A s \in Services : current[s] \in Nat /\ dropped.service[s] \in Nat
  BY DEF LimitsInv, Limits!TypeOK
<1>2. Limits!SlotsExact
  BY DEF LimitsInv
<1>3. global' \in Nat /\ global' <= GlobalMax /\ global' = Cardinality(GlobalHolding') + dropped'.global
  <2>1. global <= GlobalMax /\ global = Cardinality(GlobalHolding) + dropped.global
    BY <1>2, SlotsExactly
  <2> QED
    BY <1>1, <2>1, LimitsConstants, HoldingFinite, SlotMoves
<1>4. ASSUME NEW s \in Services
      PROVE  /\ current'[s] \in Nat /\ current'[s] <= Max
             /\ current'[s] = Cardinality(Holding(s)') + dropped'.service[s]
  <2>1. current[s] <= Max /\ current[s] = Cardinality(Holding(s)) + dropped.service[s]
    BY <1>2, SlotsExactly
  <2> QED
    BY <1>1, <2>1, LimitsConstants, HoldingFinite, SlotMoves
<1> QED
  BY <1>3, <1>4, LibraryOperators DEF Limits!SlotsExact, GlobalHolding, Holding

\* A limit starts with no slot taken and nobody waiting.
LEMMA LimitsInit == ASSUME Limits!Init PROVE LimitsInv
<1> USE LimitsConstants DEF Limits!Init, Limits!LimitInit, Limits!GlobalInit
<1>1. GlobalHolding = {} /\ \A s \in Services : Holding(s) = {}
  BY DEF GlobalHolding, Holding, Limits!Clones
<1>2. Limits!SlotsExact
  BY SMTT(30), <1>1, SlotsExactly, FS_EmptySet
<1>3. Limits!TypeOK
  BY DEF Limits!TypeOK
<1> QED
  BY <1>2, <1>3 DEF LimitsInv, LimitsFlags, Limits!LimitWakes

\* A flag that is set or cleared.
LEMMA FlagType ==
    ASSUME NEW f \in [Tasks -> BOOLEAN], NEW t, NEW v \in BOOLEAN
    PROVE  [f EXCEPT ![t] = v] \in [Tasks -> BOOLEAN]
BY Zenon

\* poll_ready of both limits takes a slot or registers the task: the invariant is kept.
LEMMA LimitsPollReady ==
    ASSUME LimitsInv, NEW t \in Tasks, Limits!PollReady(t)
    PROVE  LimitsInv'
<1> USE LimitsConstants DEF LimitsInv
<1> DEFINE s == ServiceOf[t]
<1>1. /\ s \in Services /\ limit_phase[t] \in {"idle", "pending"} /\ ~permit[t] /\ dropped' = dropped
      /\ limit_woken' \subseteq Tasks /\ dropped \in [service : [Services -> Nat], global : Nat]
  BY DEF Limits!PollReady, Limits!TypeOK, LimitsFlags
<1>2. /\ limit_phase' \in [Tasks -> {"idle", "pending", "ready", "calling", "failed"}]
      /\ waiters' \in [Services -> SUBSET Tasks] /\ current' \in [Services -> Nat]
  BY <1>1 DEF Limits!PollReady, Limits!TypeOK
<1>3. /\ permit' \in [Tasks -> BOOLEAN] /\ global_permit' \in [Tasks -> BOOLEAN]
      /\ global_waiters' \subseteq Tasks /\ global' \in Nat
  <2>1. permit' \in {permit, [permit EXCEPT ![t] = TRUE]}
    BY DEF Limits!PollReady
  <2>2. global_permit' \in {global_permit, [global_permit EXCEPT ![t] = TRUE]}
    BY DEF Limits!PollReady, Limits!GlobalPollReady
  <2>3. permit \in [Tasks -> BOOLEAN] /\ global_permit \in [Tasks -> BOOLEAN]
    BY DEF Limits!TypeOK
  <2>4. global_waiters' \subseteq Tasks /\ global' \in Nat
    BY DEF Limits!PollReady, Limits!GlobalPollReady, Limits!TypeOK
  <2> QED
    BY <2>1, <2>2, <2>3, <2>4, FlagType
<1>4. LimitsFlags'
  BY <1>1 DEF Limits!PollReady, Limits!GlobalPollReady, Limits!TypeOK, LimitsFlags
<1>5. SlotMove(t, GlobalMax, global, GlobalHolding, dropped.global,
               global', GlobalHolding', dropped'.global)
  BY <1>1 DEF Limits!PollReady, Limits!GlobalPollReady, Limits!GlobalMayAcquire, GlobalHolding,
              Limits!TypeOK, SlotMove
<1>6. ASSUME NEW x \in Services
      PROVE  SlotMove(t, Max, current[x], Holding(x), dropped.service[x],
                      current'[x], Holding(x)', dropped'.service[x])
  BY <1>1 DEF Limits!PollReady, Limits!MayAcquire, Holding, Limits!TypeOK, Limits!Clones, SlotMove
<1>7. Limits!SlotsExact'
  BY <1>5, <1>6, SlotsStep
<1>8. Limits!LimitWakes'
  BY <1>1 DEF Limits!PollReady, Limits!GlobalPollReady, Limits!TypeOK, Limits!LimitWakes,
              Limits!MayAcquire, Limits!GlobalMayAcquire, LimitsFlags
<1> QED
  BY <1>1, <1>2, <1>3, <1>4, <1>7, <1>8 DEF Limits!TypeOK

\* call spends the slot poll_ready took, or takes one now: the invariant is kept.
LEMMA LimitsCall ==
    ASSUME LimitsInv, NEW t \in Tasks, Limits!Call(t)
    PROVE  LimitsInv'
<1> USE LimitsConstants DEF LimitsInv
<1> DEFINE s == ServiceOf[t]
<1>1. /\ s \in Services /\ limit_phase[t] \in {"idle", "ready"}
      /\ UNCHANGED <<waiters, global_waiters, limit_woken, dropped>>
      /\ permit' = [permit EXCEPT ![t] = FALSE]
  BY DEF Limits!Call
<1>2. /\ limit_phase' \in [Tasks -> {"idle", "pending", "ready", "calling", "failed"}]
      /\ current' \in [Services -> Nat] /\ global' \in Nat
  BY <1>1 DEF Limits!Call, Limits!GlobalCall, Limits!TypeOK
<1>3. permit' \in [Tasks -> BOOLEAN] /\ global_permit' \in [Tasks -> BOOLEAN]
  <2>1. global_permit' \in {global_permit, [global_permit EXCEPT ![t] = FALSE]}
    BY DEF Limits!Call, Limits!GlobalCall
  <2>2. permit \in [Tasks -> BOOLEAN] /\ global_permit \in [Tasks -> BOOLEAN]
    BY DEF Limits!TypeOK
  <2> QED
    BY <1>1, <2>1, <2>2, FlagType
<1>4. LimitsFlags'
  BY <1>1 DEF Limits!Call, Limits!GlobalCall, Limits!TypeOK, LimitsFlags
<1>5. SlotMove(t, GlobalMax, global, GlobalHolding, dropped.global,
               global', GlobalHolding', dropped'.global)
  BY <1>1 DEF Limits!Call, Limits!GlobalCall, Limits!GlobalAcquired, Limits!GlobalMayAcquire,
              GlobalHolding, Limits!TypeOK, SlotMove, LimitsFlags
<1>6. ASSUME NEW x \in Services
      PROVE  SlotMove(t, Max, current[x], Holding(x), dropped.service[x],
                      current'[x], Holding(x)', dropped'.service[x])
  BY <1>1 DEF Limits!Call, Limits!MayAcquire, Holding, Limits!TypeOK, Limits!Clones, SlotMove,
              LimitsFlags
<1>7. Limits!SlotsExact'
  BY <1>5, <1>6, SlotsStep
<1>8. Limits!LimitWakes'
  <2>1. /\ global' >= global
        /\ \A x \in Services : current'[x] >= current[x]
    BY <1>1 DEF Limits!Call, Limits!GlobalCall, Limits!TypeOK
  <2>2. ASSUME NEW u \in Tasks, limit_phase'[u] = "pending"
        PROVE  limit_phase[u] = "pending" /\ global_permit'[u] = global_permit[u]
    BY <1>1, <2>2 DEF Limits!Call, Limits!GlobalCall, Limits!TypeOK
  <2>3. /\ global \in Nat /\ ServiceOf \in [Tasks -> Services]
        /\ current \in [Services -> Nat]
    BY DEF Limits!TypeOK
  <2> QED
    BY <1>1, <1>2, <2>1, <2>2, <2>3 DEF Limits!LimitWakes, Limits!MayAcquire, Limits!GlobalMayAcquire
<1> QED
  BY <1>1, <1>2, <1>3, <1>4, <1>7, <1>8 DEF Limits!TypeOK

\* The end of a future, however it ends: those who wait for its slots are woken.
LEMMA LimitsEndCall ==
    ASSUME LimitsInv, NEW t \in Tasks, NEW finished, Limits!EndCall(t, finished)
    PROVE  LimitsInv'
<1> USE LimitsConstants DEF LimitsInv
<1> DEFINE s == ServiceOf[t]
<1>1. /\ s \in Services /\ limit_phase[t] \in {"calling", "failed"}
      /\ UNCHANGED <<permit, global_permit, dropped>>
      /\ limit_phase' = [limit_phase EXCEPT ![t] = "idle"]
      /\ current' = [current EXCEPT ![s] = @ - 1] /\ waiters' = [waiters EXCEPT ![s] = {}]
      /\ limit_woken' = limit_woken \cup waiters[s]
                          \cup (IF limit_phase[t] = "calling" THEN global_waiters ELSE {})
      /\ \/ limit_phase[t] = "calling" /\ global' = global - 1 /\ global_waiters' = {}
         \/ limit_phase[t] = "failed" /\ UNCHANGED <<global, global_waiters>>
  BY DEF Limits!EndCall, Limits!Release, Limits!GlobalRelease
<1>2. LimitsFlags'
  BY <1>1 DEF Limits!TypeOK, LimitsFlags
<1>3. SlotMove(t, GlobalMax, global, GlobalHolding, dropped.global,
               global', GlobalHolding', dropped'.global)
  BY <1>1 DEF GlobalHolding, Limits!TypeOK, SlotMove, LimitsFlags
<1>4. ASSUME NEW x \in Services
      PROVE  SlotMove(t, Max, current[x], Holding(x), dropped.service[x],
                      current'[x], Holding(x)', dropped'.service[x])
  BY <1>1 DEF Holding, Limits!TypeOK, Limits!Clones, SlotMove, LimitsFlags
<1>5. Limits!SlotsExact' /\ global' \in Nat /\ \A x \in Services : current'[x] \in Nat
  BY <1>3, <1>4, SlotsStep
<1>6. Limits!LimitWakes'
  BY <1>1 DEF Limits!TypeOK, Limits!LimitWakes, Limits!MayAcquire, Limits!GlobalMayAcquire, LimitsFlags
<1>7. Limits!TypeOK'
  BY <1>1, <1>5 DEF Limits!TypeOK
<1> QED
  BY <1>2, <1>5, <1>6, <1>7

\* Dropping a clone of the service that was ready or waiting keeps the invariant.
LEMMA LimitsDropClone ==
    ASSUME LimitsInv, NEW t \in Tasks, Limits!DropClone(t)
    PROVE  LimitsInv'
<1> USE LimitsConstants DEF LimitsInv
<1> DEFINE s == ServiceOf[t]
<1>1. /\ s \in Services /\ limit_phase[t] \in {"ready", "pending"}
      /\ UNCHANGED <<current, global, waiters, global_waiters, limit_woken>>
      /\ limit_phase' = [limit_phase EXCEPT ![t] = "idle"]
      /\ permit' = [permit EXCEPT ![t] = FALSE]
      /\ global_permit' = [global_permit EXCEPT ![t] = FALSE]
  BY DEF Limits!DropClone
<1>2. dropped'.service = IF permit[t] THEN [dropped.service EXCEPT ![s] = @ + 1] ELSE dropped.service
  BY DEF Limits!DropClone
<1>3. dropped'.global = IF global_permit[t] THEN dropped.global + 1 ELSE dropped.global
  BY DEF Limits!DropClone
<1>4. dropped' \in [service : [Services -> Nat], global : Nat]
  <2>1. dropped.service \in [Services -> Nat] /\ dropped.global \in Nat
    BY DEF Limits!TypeOK
  <2>2. dropped'.service \in [Services -> Nat] /\ dropped'.global \in Nat
    BY <1>1, <1>2, <1>3, <2>1
  <2>3. dropped' = [service |-> dropped'.service, global |-> dropped'.global]
    BY DEF Limits!DropClone
  <2> QED
    BY <2>2, <2>3
<1>5. permit' \in [Tasks -> BOOLEAN] /\ global_permit' \in [Tasks -> BOOLEAN]
  BY <1>1, FlagType DEF Limits!TypeOK
<1>6. LimitsFlags'
  BY <1>1 DEF Limits!TypeOK, LimitsFlags
<1>7. SlotMove(t, GlobalMax, global, GlobalHolding, dropped.global,
               global', GlobalHolding', dropped'.global)
  BY <1>1, <1>3 DEF GlobalHolding, Limits!TypeOK, SlotMove, LimitsFlags
<1>8. ASSUME NEW x \in Services
      PROVE  SlotMove(t, Max, current[x], Holding(x), dropped.service[x],
                      current'[x], Holding(x)', dropped'.service[x])
  <2>1. dropped.service \in [Services -> Nat] /\ permit \in [Tasks -> BOOLEAN]
    BY DEF Limits!TypeOK
  <2> QED
    BY <1>1, <1>2, <2>1 DEF Holding, Limits!TypeOK, Limits!Clones, SlotMove, LimitsFlags
<1>9. Limits!SlotsExact'
  BY <1>7, <1>8, SlotsStep
<1>10. Limits!LimitWakes'
  BY <1>1 DEF Limits!TypeOK, Limits!LimitWakes, Limits!MayAcquire, Limits!GlobalMayAcquire
<1>11. limit_phase' \in [Tasks -> {"idle", "pending", "ready", "calling", "failed"}]
  BY <1>1 DEF Limits!TypeOK
<1> QED
  BY <1>1, <1>4, <1>5, <1>6, <1>9, <1>10, <1>11 DEF Limits!TypeOK

\* Every step of the concurrency limits keeps their invariant.
LEMMA LimitsNext ==
    ASSUME LimitsInv, [Limits!Next]_(Limits!vars)
    PROVE  LimitsInv'
<1>1. CASE UNCHANGED Limits!vars
  BY <1>1 DEF Limits!vars, LimitsInv, Limits!TypeOK, LimitsFlags, Limits!SlotsExact,
     Limits!Clones, Limits!LimitWakes, Limits!MayAcquire, Limits!GlobalMayAcquire
<1>2. ASSUME NEW t \in Tasks, Limits!PollFinished(t) \/ Limits!DropFuture(t)
      PROVE  LimitsInv'
  BY <1>2, LimitsEndCall DEF Limits!PollFinished, Limits!DropFuture
<1> QED
  BY <1>1, <1>2, LimitsPollReady, LimitsCall, LimitsDropClone DEF Limits!Next
----------------------------------------------------------------------------
(* A request through the service. *)

\* The numbers of the simulated service and of the layers over it.
LEMMA CallConstants ==
    /\ IsFiniteSet(Callers) /\ Capacity \in Nat \ {0} /\ MaxRetries \in Nat
    /\ ServiceTimes \in SUBSET Nat /\ Timeout \in Nat /\ RetryDelay \in Nat
BY TowerAssumption, LibraryOperators DEF TowerAssumption, Request!CallAssumption

\* Every attempt on its way is that of one future, which the table knows, and
\* is in one place only.
Attempts(S) == {a.attempt : a \in S}
OnTheirWay ==
    /\ \A a \in arriving \cup busy \cup responses :
           /\ a.attempt \in DOMAIN pending_responses
           /\ pending_responses[a.attempt] = a.by
    /\ \A S \in {arriving, busy, responses} : \A a, b \in S : a.attempt = b.attempt => a = b
    /\ \A a \in arriving : a.attempt \notin Attempts(busy) \cup Attempts(responses)
    /\ \A b \in busy : b.attempt \notin Attempts(responses)
    /\ \A n \in DOMAIN pending_responses : n < next_attempt_id

\* What a channel holds is the response for the future that receives from it.
Response == [attempt : Nat, by : Request!Receivers, ok : BOOLEAN]
OwnChannels == \A k \in DOMAIN channel : channel[k] \in Response /\ channel[k].by = k

FiniteLoad ==
    /\ IsFiniteSet(DOMAIN pending_responses)
    /\ IsFiniteSet(arriving) /\ IsFiniteSet(busy) /\ IsFiniteSet(responses)

RequestInv ==
    /\ Request!TypeOK /\ FiniteLoad /\ OnTheirWay /\ OwnChannels
    /\ \A t \in Callers : future[t].outcome # "none" => future[t].phase = "done"
    /\ Request!LoadExact /\ Request!AnswerIsOwn /\ Request!ServiceWakes

\* LoadExact in the words of this module.
LEMMA LoadExactly ==
    Request!LoadExact <=>
        /\ current_load = Cardinality(DOMAIN pending_responses)
        /\ DOMAIN pending_responses = Attempts(arriving) \cup Attempts(busy) \cup Attempts(responses)
        /\ current_load = Cardinality(arriving) + Cardinality(busy) + Cardinality(responses)
        /\ Cardinality(busy) <= Capacity
BY LibraryOperators DEF Request!LoadExact, Attempts

\* With no future and an idle server the tables of attempts and answers agree.
LEMMA RequestInit == ASSUME Request!Init PROVE RequestInv
<1> USE CallConstants DEF Request!Init
<1>1. DOMAIN <<>> = {}
  OBVIOUS
<1>2. Request!TypeOK
  BY <1>1 DEF Request!TypeOK, Request!Future, Request!Receivers
<1>3. FiniteLoad
  BY <1>1, FS_EmptySet DEF FiniteLoad
<1>4. OnTheirWay /\ OwnChannels
  BY <1>1 DEF OnTheirWay, OwnChannels, Attempts
<1>5. Request!LoadExact
  BY <1>1, FS_EmptySet, LoadExactly DEF Attempts
<1>6. Request!AnswerIsOwn /\ Request!ServiceWakes
  BY DEF Request!AnswerIsOwn, Request!ServiceWakes
<1> QED
  BY <1>2, <1>3, <1>4, <1>5, <1>6 DEF RequestInv

\* The actions that leave the service alone but for what the tasks wait for.
LEMMA RequestPolls ==
    ASSUME RequestInv, NEW t \in Callers,
           \/ Request!PollReady(t) \/ Request!PollAnswered(t) \/ Request!PollElapsed(t)
           \/ Request!DropCall(t)
    PROVE  RequestInv'
<1> USE CallConstants DEF RequestInv
<1>1. /\ UNCHANGED <<current_load, pending_responses, next_attempt_id, arriving, busy, responses>>
      /\ wakers' \subseteq Callers /\ service_woken' \subseteq Callers
  BY DEF Request!PollReady, Request!PollAnswered, Request!PollElapsed, Request!DropCall,
     Request!service, Request!TypeOK
<1>2. /\ future \in [Callers -> Request!Future]
      /\ \A u \in Callers : future[u] = [phase |-> future[u].phase, left |-> future[u].left,
             call |-> future[u].call, retries |-> future[u].retries, attempt |-> future[u].attempt,
             answer |-> future[u].answer, outcome |-> future[u].outcome]
  BY DEF Request!TypeOK, Request!Future
<1>3. /\ future'[t] \in Request!Future /\ future'[t].call = future[t].call
      /\ future'[t].outcome # "none" => future'[t].phase = "done"
      /\ future'[t].outcome \in {"ok", "rejected"} => future'[t].answer = Request!Receiver(t)
      /\ future'[t].phase = "waiting" => Request!PollReady(t)
  <2>0. future[t] \in Request!Future /\ Request!AnswerIsOwn
    BY <1>2
  <2>1. CASE Request!PollReady(t)
    <3>1. PICK p \in {"ready", "waiting"} : future'[t] = [future[t] EXCEPT !.phase = p]
      BY <1>2, <2>1 DEF Request!PollReady
    <3>2. future[t].outcome = "none"
      BY <2>1 DEF Request!PollReady
    <3> QED
      BY <1>2, <2>0, <2>1, <3>1, <3>2 DEF Request!Future
  <2>2. CASE Request!PollAnswered(t)
    <3> DEFINE r == channel[Request!Receiver(t)]
    <3>1. r \in Response /\ r.by = Request!Receiver(t)
      BY <2>2 DEF Request!PollAnswered, OwnChannels
    <3>2. PICK o \in {"ok", "rejected"} :
            future'[t] = [future[t] EXCEPT !.phase = "done", !.answer = r.by, !.outcome = o]
      BY <1>2, <2>2 DEF Request!PollAnswered
    <3>3. r.by \in Request!Receivers
      BY <3>1 DEF Response
    <3> HIDE DEF r
    <3> QED
      BY <1>2, <2>0, <3>1, <3>2, <3>3 DEF Request!Future
  <2>3. CASE Request!PollElapsed(t)
    <3>1. future[t].outcome = "none"
      BY <2>3 DEF Request!PollElapsed
    <3>2. \/ future'[t] = [future[t] EXCEPT !.phase = "sleeping", !.left = RetryDelay,
                                            !.retries = future[t].retries + 1]
          \/ future'[t] = [future[t] EXCEPT !.phase = "done", !.outcome = "timeout"]
      BY <1>2, <2>3 DEF Request!PollElapsed
    <3>3. future[t].retries + 1 \in Nat
      BY <2>0 DEF Request!Future
    <3> QED
      BY <1>2, <2>0, <3>1, <3>2, <3>3 DEF Request!Future
  <2>4. CASE Request!DropCall(t)
    <3>1. future'[t] = [future[t] EXCEPT !.phase = "done", !.outcome = "dropped"]
      BY <1>2, <2>4 DEF Request!DropCall
    <3> QED
      BY <1>2, <2>0, <3>1 DEF Request!Future
  <2> QED
    BY <2>1, <2>2, <2>3, <2>4
<1>9. future' = [future EXCEPT ![t] = future'[t]]
  BY <1>2 DEF Request!PollReady, Request!PollAnswered, Request!PollElapsed, Request!DropCall
<1>4. Request!TypeOK'
  BY <1>1, <1>2, <1>3, <1>9 DEF Request!TypeOK
<1>5. OwnChannels'
  <2>1. channel' = channel \/ channel' = Request!Without(channel, Request!Receiver(t))
    BY DEF Request!PollReady, Request!PollAnswered, Request!PollElapsed, Request!DropCall,
       Request!service
  <2>2. \A k \in DOMAIN channel' : k \in DOMAIN channel /\ channel'[k] = channel[k]
    BY <2>1 DEF Request!Without, Request!Restrict
  <2> QED
    BY <2>2 DEF OwnChannels, Response
<1>6. Request!AnswerIsOwn' /\ \A u \in Callers : future'[u].outcome # "none" => future'[u].phase = "done"
  BY <1>2, <1>3, <1>9 DEF Request!AnswerIsOwn, Request!Receiver
<1>7. Request!ServiceWakes'
  <2>1. CASE Request!PollReady(t)
    <3>1. /\ wakers' = IF Request!has_capacity THEN wakers ELSE wakers \cup {t}
          /\ service_woken' = service_woken \ {t}
          /\ Request!has_capacity => future'[t].phase = "ready"
      BY <1>2, <2>1 DEF Request!PollReady
    <3> QED
      BY <1>1, <1>2, <1>9, <3>1 DEF Request!ServiceWakes, Request!has_capacity
  <2>2. CASE ~Request!PollReady(t)
    <3>1. UNCHANGED <<wakers, service_woken>>
      BY <2>2 DEF Request!PollAnswered, Request!PollElapsed, Request!DropCall, Request!service
    <3> QED
      BY <1>1, <1>2, <1>3, <1>9, <2>2, <3>1 DEF Request!ServiceWakes, Request!has_capacity
  <2> QED
    BY <2>1, <2>2
<1>8. OnTheirWay' /\ FiniteLoad' /\ Request!LoadExact'
  BY <1>1 DEF OnTheirWay, FiniteLoad, Request!LoadExact, Attempts
<1> QED
  BY <1>4, <1>5, <1>6, <1>7, <1>8
\* A set of which an element was taken or to which one was added.
LEMMA OneMore ==
    ASSUME NEW S, IsFiniteSet(S), NEW x
    PROVE  /\ Cardinality(S) \in Nat
           /\ IsFiniteSet(S \cup {x}) /\ IsFiniteSet(S \ {x})
           /\ Cardinality(S \cup {x}) \in Nat /\ Cardinality(S \ {x}) \in Nat
           /\ x \notin S => Cardinality(S \cup {x}) = Cardinality(S) + 1
           /\ x \in S => Cardinality(S \ {x}) = Cardinality(S) - 1
BY FS_AddElement, FS_RemoveElement, FS_CardinalityType

\* An attempt is made: it gets an id that no attempt on its way has.
LEMMA RequestCallService ==
    ASSUME RequestInv, NEW t \in Callers, Request!CallService(t), future[t].outcome = "none"
    PROVE  RequestInv'
<1> USE CallConstants DEF RequestInv
<1> DEFINE n == next_attempt_id
           by == <<t, future[t].call + 1>>
           new == [attempt |-> n, by |-> by]
<1>1. /\ current_load' = current_load + 1 /\ next_attempt_id' = n + 1
      /\ pending_responses' = Request!With(pending_responses, n, by)
      /\ arriving' = arriving \cup {new}
      /\ UNCHANGED <<wakers, busy, responses, channel, service_woken>>
      /\ future' = [future EXCEPT ![t].phase = "calling", ![t].left = Timeout, ![t].call = @ + 1,
                                  ![t].attempt = n]
  BY DEF Request!CallService, Request!ScheduleRequest, Request!AttemptId
<1>2. /\ n \in Nat /\ current_load \in Nat /\ future \in [Callers -> Request!Future]
      /\ DOMAIN pending_responses \subseteq Nat /\ n \notin DOMAIN pending_responses
  BY DEF Request!TypeOK, OnTheirWay
<1>3. future[t].call \in Nat /\ future[t].call + 1 \in Nat
  BY <1>2 DEF Request!Future
<1>4. by \in Request!Receivers
  BY <1>3 DEF Request!Receivers
<1>5. /\ DOMAIN pending_responses' = DOMAIN pending_responses \cup {n}
      /\ pending_responses'[n] = by
      /\ \A m \in DOMAIN pending_responses : pending_responses'[m] = pending_responses[m]
  BY <1>1, <1>2 DEF Request!With
<1>6. future'[t] \in Request!Future /\ future'[t].outcome = "none" /\ future'[t].phase = "calling"
  <2>1. future'[t] = [future[t] EXCEPT !.phase = "calling", !.left = Timeout,
                                       !.call = future[t].call + 1, !.attempt = n]
    BY <1>1, <1>2
  <2>2. future[t] = [phase |-> future[t].phase, left |-> future[t].left, call |-> future[t].call,
                     retries |-> future[t].retries, attempt |-> future[t].attempt,
                     answer |-> future[t].answer, outcome |-> future[t].outcome]
    BY <1>2 DEF Request!Future
  <2> QED
    BY <1>2, <1>3, <2>1, <2>2 DEF Request!Future
<1>7. future' = [future EXCEPT ![t] = future'[t]]
  BY <1>1, <1>2
<1> HIDE DEF by
<1>8. Request!TypeOK'
  <2>1. new \in [attempt : Nat, by : Request!Receivers]
    BY <1>2, <1>4
  <2> HIDE DEF new
  <2> QED
    BY <1>1, <1>2, <1>5, <1>6, <1>7, <2>1 DEF Request!TypeOK
<1>9. new.attempt = n /\ new.by = by
  OBVIOUS
<1> HIDE DEF new
<1>10. ASSUME NEW a \in arriving \cup busy \cup responses
       PROVE  a.attempt \in DOMAIN pending_responses /\ a.attempt # n
  BY <1>2 DEF OnTheirWay
<1>11. OnTheirWay'
  BY <1>1, <1>2, <1>5, <1>9, <1>10 DEF OnTheirWay, Attempts
<1>12. new \notin arriving
  BY <1>9, <1>10
<1>13. FiniteLoad' /\ Request!LoadExact'
  <2>1. Attempts(arriving') = Attempts(arriving) \cup {n}
    BY <1>1, <1>9 DEF Attempts
  <2>2. /\ IsFiniteSet(DOMAIN pending_responses) /\ IsFiniteSet(arriving)
        /\ Cardinality(busy) \in Nat /\ Cardinality(responses) \in Nat
    BY OneMore DEF FiniteLoad
  <2>3. /\ IsFiniteSet(DOMAIN pending_responses')
        /\ Cardinality(DOMAIN pending_responses') = Cardinality(DOMAIN pending_responses) + 1
    BY <1>2, <1>5, <2>2, OneMore
  <2>4. /\ IsFiniteSet(arriving') /\ Cardinality(arriving) \in Nat
        /\ Cardinality(arriving') = Cardinality(arriving) + 1
    BY <1>1, <1>12, <2>2, OneMore
  <2>5. /\ current_load = Cardinality(DOMAIN pending_responses)
        /\ DOMAIN pending_responses = Attempts(arriving) \cup Attempts(busy) \cup Attempts(responses)
        /\ current_load = Cardinality(arriving) + Cardinality(busy) + Cardinality(responses)
        /\ Cardinality(busy) <= Capacity
    BY LoadExactly
  <2>6. DOMAIN pending_responses' = Attempts(arriving') \cup Attempts(busy) \cup Attempts(responses)
    BY <1>5, <2>1, <2>5
  <2>7. /\ current_load' = Cardinality(DOMAIN pending_responses')
        /\ current_load' = Cardinality(arriving') + Cardinality(busy) + Cardinality(responses)
    BY <1>1, <2>2, <2>3, <2>4, <2>5
  <2> QED
    BY <1>1, <2>3, <2>4, <2>5, <2>6, <2>7, LibraryOperators DEF FiniteLoad, Request!LoadExact, Attempts
<1>14. OwnChannels'
  BY <1>1 DEF OwnChannels
<1>15. Request!AnswerIsOwn' /\ \A u \in Callers : future'[u].outcome # "none" => future'[u].phase = "done"
  BY <1>2, <1>6, <1>7 DEF Request!AnswerIsOwn, Request!Receiver
<1>16. Request!ServiceWakes'
  BY <1>1, <1>2, <1>6, <1>7 DEF Request!ServiceWakes, Request!has_capacity
<1> QED
  BY <1>8, <1>11, <1>13, <1>14, <1>15, <1>16
\* What the steps of the server and of the router leave alone.
LEMMA RequestFutures ==
    ASSUME RequestInv, UNCHANGED future
    PROVE  /\ Request!AnswerIsOwn'
           /\ \A t \in Callers : future'[t].outcome # "none" => future'[t].phase = "done"
           /\ UNCHANGED <<wakers, service_woken, current_load>> => Request!ServiceWakes'
           /\ UNCHANGED channel => OwnChannels'
BY DEF RequestInv, Request!AnswerIsOwn, Request!Receiver, Request!ServiceWakes,
   Request!has_capacity, OwnChannels

\* The server takes an attempt, or rejects it.
LEMMA RequestProcess ==
    ASSUME RequestInv, NEW a \in arriving, Request!ProcessRequest(a)
    PROVE  RequestInv'
<1> USE CallConstants DEF RequestInv
<1>1. /\ arriving' = arriving \ {a}
      /\ UNCHANGED <<current_load, pending_responses, wakers, next_attempt_id, channel, future,
                     service_woken>>
  BY DEF Request!ProcessRequest
<1>2. /\ a.attempt \in Nat /\ a.by \in Request!Receivers
      /\ a.attempt \notin Attempts(busy) \cup Attempts(responses)
      /\ pending_responses[a.attempt] = a.by /\ a.attempt \in DOMAIN pending_responses
      /\ \A x \in arriving \ {a} : x.attempt # a.attempt
  BY DEF Request!TypeOK, OnTheirWay
<1>3. /\ IsFiniteSet(arriving') /\ IsFiniteSet(busy) /\ IsFiniteSet(responses)
      /\ IsFiniteSet(DOMAIN pending_responses)
      /\ Cardinality(arriving') = Cardinality(arriving) - 1
      /\ Cardinality(arriving) \in Nat /\ Cardinality(busy) \in Nat /\ Cardinality(responses) \in Nat
  BY <1>1, OneMore DEF FiniteLoad
<1>4. /\ current_load = Cardinality(DOMAIN pending_responses)
      /\ DOMAIN pending_responses = Attempts(arriving) \cup Attempts(busy) \cup Attempts(responses)
      /\ current_load = Cardinality(arriving) + Cardinality(busy) + Cardinality(responses)
      /\ Cardinality(busy) <= Capacity
  BY LoadExactly
<1>5. Attempts(arriving') = Attempts(arriving) \ {a.attempt} /\ a.attempt \in Attempts(arriving)
  BY <1>1, <1>2 DEF Attempts
<1>6. /\ Request!AnswerIsOwn' /\ Request!ServiceWakes' /\ OwnChannels'
      /\ \A t \in Callers : future'[t].outcome # "none" => future'[t].phase = "done"
  BY <1>1, RequestFutures
<1>7. CASE /\ Cardinality(busy) < Capacity
           /\ \E time \in ServiceTimes :
                 busy' = busy \cup {[attempt |-> a.attempt, by |-> a.by, left |-> time]}
           /\ UNCHANGED responses
  <2>1. PICK b : /\ busy' = busy \cup {b} /\ b.attempt = a.attempt /\ b.by = a.by
                 /\ b \in [attempt : Nat, by : Request!Receivers, left : Nat]
    <3>1. PICK time \in ServiceTimes :
            busy' = busy \cup {[attempt |-> a.attempt, by |-> a.by, left |-> time]}
      BY <1>7
    <3> DEFINE x == [attempt |-> a.attempt, by |-> a.by, left |-> time]
    <3>2. /\ x.attempt = a.attempt /\ x.by = a.by
          /\ x \in [attempt : Nat, by : Request!Receivers, left : Nat]
      BY <1>2
    <3> HIDE DEF x
    <3> QED
      BY <3>1, <3>2 DEF x
  <2>2. b \notin busy /\ Attempts(busy') = Attempts(busy) \cup {a.attempt}
    BY <1>2, <2>1 DEF Attempts
  <2>3. IsFiniteSet(busy') /\ Cardinality(busy') = Cardinality(busy) + 1
    BY <1>3, <2>1, <2>2, OneMore
  <2>4. Request!TypeOK'
    BY <1>1, <1>7, <2>1 DEF Request!TypeOK
  <2>5. OnTheirWay'
    BY <1>1, <1>2, <1>7, <2>1 DEF OnTheirWay, Attempts
  <2>6. DOMAIN pending_responses = Attempts(arriving') \cup Attempts(busy') \cup Attempts(responses)
    BY <1>4, <1>5, <2>2
  <2>7. /\ current_load = Cardinality(arriving') + Cardinality(busy') + Cardinality(responses)
        /\ Cardinality(busy') <= Capacity
    BY <1>3, <1>4, <1>7, <2>3
  <2>8. Request!LoadExact' /\ FiniteLoad'
    BY <1>1, <1>3, <1>4, <1>7, <2>3, <2>6, <2>7, LibraryOperators
    DEF Request!LoadExact, FiniteLoad, Attempts
  <2> QED
    BY <1>6, <2>4, <2>5, <2>8
<1>8. CASE /\ responses' = responses \cup {[attempt |-> a.attempt, by |-> a.by, ok |-> FALSE]}
           /\ UNCHANGED busy
  <2>1. PICK r : /\ responses' = responses \cup {r} /\ r.attempt = a.attempt /\ r.by = a.by
                 /\ r \in [attempt : Nat, by : Request!Receivers, ok : BOOLEAN]
    <3> DEFINE x == [attempt |-> a.attempt, by |-> a.by, ok |-> FALSE]
    <3>1. /\ x.attempt = a.attempt /\ x.by = a.by
          /\ x \in [attempt : Nat, by : Request!Receivers, ok : BOOLEAN]
      BY <1>2
    <3>2. responses' = responses \cup {x}
      BY <1>8
    <3> HIDE DEF x
    <3> QED
      BY <3>1, <3>2
  <2>2. r \notin responses /\ Attempts(responses') = Attempts(responses) \cup {a.attempt}
    BY <1>2, <2>1 DEF Attempts
  <2>3. IsFiniteSet(responses') /\ Cardinality(responses') = Cardinality(responses) + 1
    BY <1>3, <2>1, <2>2, OneMore
  <2>4. Request!TypeOK'
    BY <1>1, <1>8, <2>1 DEF Request!TypeOK
  <2>5. OnTheirWay'
    BY <1>1, <1>2, <1>8, <2>1 DEF OnTheirWay, Attempts
  <2>6. DOMAIN pending_responses = Attempts(arriving') \cup Attempts(busy) \cup Attempts(responses')
    BY <1>4, <1>5, <2>2
  <2>7. current_load = Cardinality(arriving') + Cardinality(busy) + Cardinality(responses')
    BY <1>3, <1>4, <2>3
  <2>8. Request!LoadExact' /\ FiniteLoad'
    BY <1>1, <1>3, <1>4, <1>8, <2>3, <2>6, <2>7, LibraryOperators
    DEF Request!LoadExact, FiniteLoad, Attempts
  <2> QED
    BY <1>6, <2>4, <2>5, <2>8
<1> QED
  BY <1>7, <1>8, LibraryOperators DEF Request!ProcessRequest

\* A thread is done, and its response is on its way.
LEMMA RequestFinish ==
    ASSUME RequestInv, NEW b \in busy, Request!FinishWork(b)
    PROVE  RequestInv'
<1> USE CallConstants DEF RequestInv
<1>1. /\ busy' = busy \ {b}
      /\ responses' = responses \cup {[attempt |-> b.attempt, by |-> b.by, ok |-> TRUE]}
      /\ UNCHANGED <<current_load, pending_responses, wakers, next_attempt_id, arriving, channel,
                     future, service_woken>>
  BY DEF Request!FinishWork
<1>2. /\ b.attempt \in Nat /\ b.by \in Request!Receivers
      /\ b.attempt \notin Attempts(arriving) \cup Attempts(responses)
      /\ pending_responses[b.attempt] = b.by /\ b.attempt \in DOMAIN pending_responses
      /\ \A x \in busy \ {b} : x.attempt # b.attempt
  BY DEF Request!TypeOK, OnTheirWay, Attempts
<1>3. PICK r : /\ responses' = responses \cup {r} /\ r.attempt = b.attempt /\ r.by = b.by
               /\ r \in [attempt : Nat, by : Request!Receivers, ok : BOOLEAN]
  <2> DEFINE x == [attempt |-> b.attempt, by |-> b.by, ok |-> TRUE]
  <2>1. /\ x.attempt = b.attempt /\ x.by = b.by
        /\ x \in [attempt : Nat, by : Request!Receivers, ok : BOOLEAN]
    BY <1>2
  <2>2. responses' = responses \cup {x}
    BY <1>1
  <2> HIDE DEF x
  <2> QED
    BY <2>1, <2>2
<1>4. /\ IsFiniteSet(arriving) /\ IsFiniteSet(busy') /\ IsFiniteSet(responses)
      /\ IsFiniteSet(DOMAIN pending_responses)
      /\ Cardinality(busy') = Cardinality(busy) - 1
      /\ Cardinality(arriving) \in Nat /\ Cardinality(busy) \in Nat /\ Cardinality(responses) \in Nat
  BY <1>1, OneMore DEF FiniteLoad
<1>5. r \notin responses /\ Attempts(responses') = Attempts(responses) \cup {b.attempt}
  BY <1>2, <1>3 DEF Attempts
<1>6. IsFiniteSet(responses') /\ Cardinality(responses') = Cardinality(responses) + 1
  BY <1>3, <1>4, <1>5, OneMore
<1>7. /\ current_load = Cardinality(DOMAIN pending_responses)
      /\ DOMAIN pending_responses = Attempts(arriving) \cup Attempts(busy) \cup Attempts(responses)
      /\ current_load = Cardinality(arriving) + Cardinality(busy) + Cardinality(responses)
      /\ Cardinality(busy) <= Capacity
  BY LoadExactly
<1>8. Attempts(busy') = Attempts(busy) \ {b.attempt} /\ b.attempt \in Attempts(busy)
  BY <1>1, <1>2 DEF Attempts
<1>9. Request!TypeOK'
  BY <1>1, <1>3 DEF Request!TypeOK
<1>10. OnTheirWay'
  BY <1>1, <1>2, <1>3 DEF OnTheirWay, Attempts
<1>11. DOMAIN pending_responses = Attempts(arriving) \cup Attempts(busy') \cup Attempts(responses')
  BY <1>5, <1>7, <1>8
<1>12. /\ current_load = Cardinality(arriving) + Cardinality(busy') + Cardinality(responses')
       /\ Cardinality(busy') <= Capacity
  BY <1>4, <1>6, <1>7
<1>13. Request!LoadExact' /\ FiniteLoad'
  BY <1>1, <1>4, <1>6, <1>7, <1>11, <1>12, LibraryOperators
  DEF Request!LoadExact, FiniteLoad, Attempts
<1> QED
  BY <1>1, <1>9, <1>10, <1>13, RequestFutures

\* The router sees a response: it is taken off the load, and all who wait are woken.
LEMMA RequestRoute ==
    ASSUME RequestInv, NEW r \in responses, Request!Route(r)
    PROVE  RequestInv'
<1> USE CallConstants DEF RequestInv
<1>1. /\ responses' = responses \ {r} /\ current_load' = current_load - 1
      /\ pending_responses' = Request!Without(pending_responses, r.attempt)
      /\ channel' = IF Request!Awaited(r.attempt)
                    THEN Request!With(channel, pending_responses[r.attempt], r) ELSE channel
      /\ service_woken' = service_woken \cup wakers /\ wakers' = {}
      /\ UNCHANGED <<next_attempt_id, arriving, busy, future>>
  BY DEF Request!Route
<1>2. /\ r \in Response
      /\ r.attempt \notin Attempts(arriving) \cup Attempts(busy)
      /\ pending_responses[r.attempt] = r.by /\ r.attempt \in DOMAIN pending_responses
      /\ \A x \in responses \ {r} : x.attempt # r.attempt
  BY DEF Request!TypeOK, OnTheirWay, Attempts, Response
<1>3. /\ DOMAIN pending_responses' = DOMAIN pending_responses \ {r.attempt}
      /\ \A m \in DOMAIN pending_responses' : pending_responses'[m] = pending_responses[m]
  BY <1>1 DEF Request!Without, Request!Restrict
<1>4. /\ IsFiniteSet(arriving) /\ IsFiniteSet(busy)
      /\ IsFiniteSet(responses) /\ IsFiniteSet(DOMAIN pending_responses)
      /\ Cardinality(arriving) \in Nat /\ Cardinality(busy) \in Nat /\ Cardinality(responses) \in Nat
  BY OneMore DEF FiniteLoad
<1>5. /\ IsFiniteSet(responses') /\ Cardinality(responses') = Cardinality(responses) - 1
      /\ Cardinality(responses') \in Nat
  BY <1>1, <1>4, OneMore
<1>6. /\ IsFiniteSet(DOMAIN pending_responses')
      /\ Cardinality(DOMAIN pending_responses') = Cardinality(DOMAIN pending_responses) - 1
      /\ Cardinality(DOMAIN pending_responses') \in Nat
  BY <1>2, <1>3, <1>4, OneMore
<1>7. /\ current_load = Cardinality(DOMAIN pending_responses)
      /\ DOMAIN pending_responses = Attempts(arriving) \cup Attempts(busy) \cup Attempts(responses)
      /\ current_load = Cardinality(arriving) + Cardinality(busy) + Cardinality(responses)
      /\ Cardinality(busy) <= Capacity
  BY LoadExactly
<1>8. Attempts(responses') = Attempts(responses) \ {r.attempt}
  BY <1>1, <1>2 DEF Attempts
<1>9. current_load' \in Nat /\ current_load' = Cardinality(DOMAIN pending_responses')
      /\ current_load' = Cardinality(arriving) + Cardinality(busy) + Cardinality(responses')
  BY <1>1, <1>4, <1>5, <1>6, <1>7
<1>10. DOMAIN pending_responses' = Attempts(arriving) \cup Attempts(busy) \cup Attempts(responses')
  BY <1>2, <1>3, <1>7, <1>8
<1>11. Request!LoadExact' /\ FiniteLoad'
  BY <1>1, <1>4, <1>5, <1>6, <1>7, <1>9, <1>10, LibraryOperators
  DEF Request!LoadExact, FiniteLoad, Attempts
<1>12. Request!TypeOK'
  BY <1>1, <1>3, <1>9 DEF Request!TypeOK
<1>13. OnTheirWay'
  BY <1>1, <1>2, <1>3 DEF OnTheirWay, Attempts
<1>14. OwnChannels'
  <2>1. CASE channel' = channel
    BY <2>1 DEF OwnChannels, Response
  <2>2. CASE channel' = Request!With(channel, r.by, r)
    <3>1. \A k \in DOMAIN channel' : channel'[k] = IF k = r.by THEN r ELSE channel[k]
      BY <2>2 DEF Request!With
    <3>2. \A k \in DOMAIN channel' : k = r.by \/ k \in DOMAIN channel
      BY <2>2 DEF Request!With
    <3> QED
      BY <1>2, <3>1, <3>2 DEF OwnChannels, Response
  <2> QED
    BY <1>1, <1>2, <2>1, <2>2
<1>15. Request!ServiceWakes'
  BY <1>1 DEF Request!ServiceWakes
<1> QED
  BY <1>1, <1>11, <1>12, <1>13, <1>14, <1>15, RequestFutures
\* Time goes on: every thread has less to do, and each future less to wait.
LEMMA RequestTick == ASSUME RequestInv, Request!Tick PROVE RequestInv'
<1> USE CallConstants DEF RequestInv
<1> DEFINE Later(b) == [b EXCEPT !.left = @ - 1]
<1>1. /\ \A b \in busy : b.left > 0
      /\ busy' = {Later(b) : b \in busy}
      /\ \A t \in Callers : ~Request!DueNow(t)
      /\ future' = [t \in Callers |-> IF Request!Timed(t) THEN [future[t] EXCEPT !.left = @ - 1]
                                      ELSE future[t]]
      /\ UNCHANGED <<current_load, pending_responses, wakers, next_attempt_id, arriving, responses,
                     channel, service_woken>>
  BY DEF Request!Tick
<1>2. ASSUME NEW b \in busy
      PROVE  /\ b = [attempt |-> b.attempt, by |-> b.by, left |-> b.left]
             /\ Later(b) = [attempt |-> b.attempt, by |-> b.by, left |-> b.left - 1]
             /\ Later(b).attempt = b.attempt /\ Later(b).by = b.by
             /\ Later(b) \in [attempt : Nat, by : Request!Receivers, left : Nat]
             /\ Later(b) \in busy'
  BY <1>1 DEF Request!TypeOK
<1> HIDE DEF Later
<1>3. ASSUME NEW t \in Callers
      PROVE  /\ future'[t] \in Request!Future /\ future'[t].phase = future[t].phase
             /\ future'[t].outcome = future[t].outcome /\ future'[t].call = future[t].call
             /\ future'[t].answer = future[t].answer
  <2>1. future[t] \in Request!Future
    BY DEF Request!TypeOK
  <2>2. CASE Request!Timed(t)
    <3>1. future'[t] = [future[t] EXCEPT !.left = future[t].left - 1]
      BY <1>1, <2>2
    <3>2. future[t].left \in Nat /\ future[t].left # 0
      BY <1>1, <2>1, <2>2 DEF Request!Future, Request!DueNow
    <3> QED
      BY <2>1, <3>1, <3>2 DEF Request!Future
  <2>3. CASE ~Request!Timed(t)
    BY <1>1, <2>1, <2>3
  <2> QED
    BY <2>2, <2>3
<1>4. Attempts(busy') = Attempts(busy)
  BY <1>1, <1>2 DEF Attempts
<1>5. \A x, y \in busy : Later(x) = Later(y) => x = y
  BY <1>2 DEF OnTheirWay
<1>6. IsFiniteSet(busy') /\ Cardinality(busy') = Cardinality(busy)
  <2> DEFINE f == [b \in busy |-> Later(b)]
  <2>1. f \in Bijection(busy, busy')
    <3>1. f \in [busy -> busy']
      BY <1>2
    <3>2. \A x, y \in busy : f[x] = f[y] => x = y
      BY <1>5
    <3>3. \A y \in busy' : \E x \in busy : f[x] = y
      BY <1>1
    <3> HIDE DEF f
    <3> QED
      BY <3>1, <3>2, <3>3 DEF Bijection, Injection, Surjection, IsInjective
  <2>2. ExistsBijection(busy, busy')
    BY <2>1 DEF ExistsBijection
  <2> QED
    BY <2>2, FS_Bijection DEF FiniteLoad
<1>7. Request!TypeOK'
  <2>1. busy' \subseteq [attempt : Nat, by : Request!Receivers, left : Nat]
    BY <1>1, <1>2
  <2>2. future' \in [Callers -> Request!Future]
    BY <1>1, <1>3
  <2> QED
    BY <1>1, <2>1, <2>2 DEF Request!TypeOK
<1>8. OnTheirWay'
  BY <1>1, <1>2, <1>4 DEF OnTheirWay, Attempts
<1>9. Request!LoadExact' /\ FiniteLoad'
  BY <1>1, <1>4, <1>6, LibraryOperators DEF Request!LoadExact, FiniteLoad, Attempts
<1>10. Request!AnswerIsOwn' /\ \A t \in Callers : future'[t].outcome # "none" => future'[t].phase = "done"
  BY <1>3 DEF Request!AnswerIsOwn, Request!Receiver
<1>11. Request!ServiceWakes' /\ OwnChannels'
  BY <1>1, <1>3 DEF Request!ServiceWakes, Request!has_capacity, OwnChannels
<1> QED
  BY <1>7, <1>8, <1>9, <1>10, <1>11

\* Every step of a request (the layers, the service, its server) keeps the invariant.
LEMMA RequestNext ==
    ASSUME RequestInv, [Request!Next]_(Request!vars)
    PROVE  RequestInv'
<1>1. CASE UNCHANGED Request!vars
  <2>1. UNCHANGED <<current_load, pending_responses, wakers, next_attempt_id, arriving, busy,
                    responses, channel, future, service_woken>>
    BY <1>1 DEF Request!vars, Request!service
  <2> QED
    BY <2>1 DEF RequestInv, Request!TypeOK, FiniteLoad, OnTheirWay, OwnChannels, Attempts,
       Request!LoadExact, Request!AnswerIsOwn, Request!Receiver, Request!ServiceWakes,
       Request!has_capacity
<1>2. ASSUME NEW t \in Callers, Request!Call(t) \/ Request!PollSlept(t)
      PROVE  RequestInv'
  <2>1. future[t].outcome = "none" /\ Request!CallService(t)
    BY <1>2 DEF RequestInv, Request!Call, Request!PollSlept
  <2> QED
    BY <2>1, RequestCallService
<1> QED
  BY <1>1, <1>2, RequestPolls, RequestProcess, RequestFinish, RequestRoute, RequestTick
  DEF Request!Next, Request!Events, Request!Poll

----------------------------------------------------------------------------
(* The middleware. *)

TowerInv == RequestInv /\ BreakerInv /\ LimitsInv /\ BalancerInv

\* The conjunction of the components' invariants is inductive, hence holds always.
LEMMA TowerInvariant == Spec => []TowerInv
<1>1. Init => TowerInv
  BY RequestInit, BreakerInit, LimitsInit, BalancerInit DEF Init, TowerInv
<1>2. TowerInv /\ [Next]_vars => TowerInv'
  BY ComponentSteps, RequestNext, BreakerNext, LimitsNext, BalancerNext DEF TowerInv
<1> QED
  BY <1>1, <1>2, PTL DEF Spec

\* service/mod.rs, limit/concurrency and limit/global_concurrency: the load and
\* the slots are counted exactly, whatever is dropped, times out or is retried.
THEOREM LoadIsExact == Spec => []LoadExact
<1>1. TowerInv => LoadExact
  BY DEF TowerInv, RequestInv, LimitsInv, LoadExact
<1> QED
  BY <1>1, TowerInvariant, PTL

\* service/mod.rs, retry/mod.rs: a request ends with the answer to its last
\* attempt, never with a late one to an attempt that timed out.
THEOREM AnswersAreOwn == Spec => []AnswerIsOwn
<1>1. TowerInv => AnswerIsOwn
  BY DEF TowerInv, RequestInv, AnswerIsOwn
<1> QED
  BY <1>1, TowerInvariant, PTL

\* service/mod.rs, both limits and circuit_breaker/mod.rs: who sleeps in
\* poll_ready is registered with what it waits for, and every opening of the
\* breaker has a recovery on its way.
THEOREM NothingIsStuck == Spec => []NothingStuck
<1>1. TowerInv => NothingStuck
  BY DEF TowerInv, RequestInv, LimitsInv, BreakerInv, NothingStuck
<1> QED
  BY <1>1, TowerInvariant, PTL

\* limit/rate/mod.rs: when every call is made within an event, no interval of
\* time admits more than the burst and the rate allow.
THEOREM RateIsKept ==
    ASSUME CallsOutside = FALSE
    PROVE  Spec => []AdmittedWithinRate
<1>1. Init => RateInv
  BY RateInit DEF Init
<1>2. RateInv /\ [Next]_vars => RateInv'
  BY ComponentSteps, RateNext
<1>3. RateInv => AdmittedWithinRate
  BY RateWithin DEF AdmittedWithinRate
<1> QED
  BY <1>1, <1>2, <1>3, PTL DEF Spec

\* load_balancer/mod.rs: a call goes to the backend that poll_ready reported
\* ready, and while all are ready to the one that round robin or the generator is due to
\* pick.
THEOREM CallsGoAsDue == Spec => CallsAsDue
<1>1. BalancerInv /\ [Next]_vars =>
        [\A h \in made : turns'[h] # turns[h] =>
            /\ offered[h] # Balancer!None => called'[h] = offered[h]
            /\ steady /\ strategy # "LeastConnections" =>
                  called'[h] = Balancer!Due(turns[h])]_(Balancer!vars)
  BY ComponentSteps, BalancerNext
<1>2. TowerInv => BalancerInv
  BY DEF TowerInv
<1> QED
  BY <1>1, <1>2, TowerInvariant, PTL DEF Spec, CallsAsDue, Balancer!CallsAsDue
=============================================================================
