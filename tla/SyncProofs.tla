----------------------------- MODULE SyncProofs -----------------------------
(***************************************************************************)
(* Proofs about the primitives of des-tokio, for any number of tasks, any  *)
(* capacities and durations, and whatever bounds the model has.            *)
(*                                                                         *)
(* First the semaphore, and the reader-writer lock that is one.  The       *)
(* argument is about the queue.  A grant satisfies the first k waiters and *)
(* gives what is left to the next (GrantShape); it moves permits from      *)
(* where they come from to ready waiters, to the queue or to the available *)
(* ones (GrantSums).  A dropped acquire is a grant of what it had to the   *)
(* queue without it (CancelShape).  So the sum of all permits is kept, and *)
(* bounds any two guards of the lock (RwFits).                             *)
(*                                                                         *)
(* Then the others.  MCSync puts the primitives side by side:              *)
(* ComponentSteps says that a step of the composition is a step of each of *)
(* them or leaves it alone; each section has the inductive invariant of    *)
(* one primitive and the proof that its steps keep it, and the theorems at *)
(* the end conjoin them.                                                   *)
(***************************************************************************)
EXTENDS MCSync, SumTheorems

-----------------------------------------------------------------------------
(* The steps of a semaphore, and those of the lock as steps of a semaphore.  *)

\* The library's operators are the same under the names they have in Semaphore.
LEMMA SemaphoreLibrary ==
    /\ \A S : Acquires!IsFiniteSet(S) = IsFiniteSet(S)
    /\ \A f, S : Acquires!SumFunctionOnSet(f, S) = SumFunctionOnSet(f, S)
    /\ \A f, S : Lock!SumFunctionOnSet(f, S) = SumFunctionOnSet(f, S)
    /\ \A s, i : Acquires!RemoveAt(s, i) = SubSeq(s, 1, i - 1) \o SubSeq(s, i + 1, Len(s))
    /\ \A s, i : Lock!RemoveAt(s, i) = SubSeq(s, 1, i - 1) \o SubSeq(s, i + 1, Len(s))
<1>1. \A S : Acquires!IsFiniteSet(S) = IsFiniteSet(S)
  BY Zenon DEF Acquires!IsFiniteSet, IsFiniteSet
<1>2. \A f, S : Acquires!SumFunctionOnSet(f, S) = SumFunctionOnSet(f, S)
  BY DEF Acquires!SumFunctionOnSet, Acquires!FoldFunctionOnSet, Acquires!MapThenFoldSet,
     SumFunctionOnSet, FoldFunctionOnSet, MapThenFoldSet
<1>3. \A f, S : Lock!SumFunctionOnSet(f, S) = SumFunctionOnSet(f, S)
  BY DEF Lock!SumFunctionOnSet, Lock!FoldFunctionOnSet, Lock!MapThenFoldSet,
     SumFunctionOnSet, FoldFunctionOnSet, MapThenFoldSet
<1>4. \A s, i : Acquires!RemoveAt(s, i) = SubSeq(s, 1, i - 1) \o SubSeq(s, i + 1, Len(s))
  BY DEF Acquires!RemoveAt
<1>5. \A s, i : Lock!RemoveAt(s, i) = SubSeq(s, 1, i - 1) \o SubSeq(s, i + 1, Len(s))
  BY DEF Lock!RemoveAt
<1> QED
  BY <1>1, <1>2, <1>3, <1>4, <1>5

\* The steps of a semaphore, whatever amounts it is asked for.
SemaphoreSteps ==
    \/ \E t \in Tasks, n \in Nat \ {0} : Acquires!Acquire(t, n) \/ Acquires!TryAcquire(t, n)
    \/ \E t \in Tasks : \/ Acquires!Poll(t) \/ Acquires!DropAcquire(t)
                        \/ Acquires!Release(t) \/ Acquires!Forget(t)
    \/ \E n \in Nat \ {0} : Acquires!AddPermits(n)
    \/ Acquires!Close

\* The lock grants permits as any semaphore does.
LEMMA LockGrants ==
    ASSUME NEW q, NEW r, NEW n, NEW w, Lock!Grant(q, r, n, w)
    PROVE  Acquires!Grant(q, r, n, w)
<1>1. \A k : Lock!Lacking(q, k) = Acquires!Lacking(q, k)
  BY SemaphoreLibrary DEF Lock!Lacking, Acquires!Lacking
<1>2. Lock!Satisfied(q, n) = Acquires!Satisfied(q, n)
  BY <1>1 DEF Lock!Satisfied, Acquires!Satisfied
<1> QED
  BY <1>1, <1>2 DEF Lock!Grant, Acquires!Grant

\* A cancelled wait for the lock is one for a semaphore.
LEMMA LockCancels ==
    ASSUME NEW t, NEW w, Lock!CancelWaiter(t, w)
    PROVE  Acquires!CancelWaiter(t, w)
<1>1. \A s, i : Lock!RemoveAt(s, i) = Acquires!RemoveAt(s, i)
  BY SemaphoreLibrary
<1> DEFINE mine == {i \in 1 .. Len(queue) : queue[i].task = t}
           at == CHOOSE i \in mine : TRUE
           others == IF mine = {} THEN queue ELSE Acquires!RemoveAt(queue, at)
           given == IF t \in ready THEN asked[t]
                    ELSE IF mine = {} THEN 0 ELSE queue[at].required - queue[at].remaining
<1>2. IF given = 0 THEN queue' = others /\ acquire_woken' = w /\ UNCHANGED <<available, ready>>
                   ELSE Lock!Grant(others, ready \ {t}, available + given, w)
  <2>1. others = IF mine = {} THEN queue ELSE Lock!RemoveAt(queue, at)
    <3> HIDE DEF mine, at
    <3> QED
      BY <1>1
  <2> QED
    BY <2>1, Zenon DEF Lock!CancelWaiter
<1>3. IF given = 0 THEN queue' = others /\ acquire_woken' = w /\ UNCHANGED <<available, ready>>
                   ELSE Acquires!Grant(others, ready \ {t}, available + given, w)
  <2> HIDE DEF others, given
  <2> QED
    BY <1>2, LockGrants
<1> QED
  BY <1>3, Zenon DEF Acquires!CancelWaiter

\* What the constants of the semaphore and the lock are.
LEMMA SemaphoreConstants ==
    /\ IsFiniteSet(Tasks) /\ Permits \in Nat /\ Amounts \subseteq Nat \ {0}
    /\ MaxReaders \in Nat /\ MaxReaders > 1
    /\ MaxAdded \in Nat /\ MaxForgotten \in Nat
BY SemaphoreLibrary, SyncAssumption
   DEF SyncAssumption, Acquires!SemaphoreAssumption, Lock!MaxReadsAssumption,
       Lock!SemaphoreAssumption

\* What either of them does is a step of a semaphore.
LEMMA EitherSteps ==
    ASSUME [IF using = "rwlock" THEN Lock!RwNext ELSE Acquires!Next]_semaphore
    PROVE  [SemaphoreSteps]_semaphore
<1> USE SemaphoreConstants
<1>1. CASE UNCHANGED semaphore
  BY <1>1
<1>2. CASE Acquires!Next
  BY <1>2 DEF Acquires!Next, SemaphoreSteps
<1>3. CASE Lock!RwNext
  <2>1. PICK t \in Tasks :
           \/ Lock!Read(t) \/ Lock!Write(t) \/ Lock!TryRead(t) \/ Lock!TryWrite(t)
           \/ Lock!PollReady(t) \/ Lock!PollPending(t) \/ Lock!DropAcquire(t) \/ Lock!Release(t)
    BY <1>3 DEF Lock!RwNext
  <2>2. CASE Lock!Read(t) \/ Lock!Write(t)
    <3>1. \E n \in Nat \ {0} : Lock!Acquire(t, n)
      BY <2>2 DEF Lock!Read, Lock!Write, Lock!MaxReads
    <3>2. \E n \in Nat \ {0} : Acquires!Acquire(t, n)
      BY <3>1 DEF Lock!Acquire, Acquires!Acquire, Lock!Idle, Acquires!Idle, Lock!MayTake,
         Acquires!MayTake, Lock!TakePermits, Acquires!TakePermits, Lock!EnqueueWaiter,
         Acquires!EnqueueWaiter
    <3> QED
      BY <3>2 DEF SemaphoreSteps
  <2>3. CASE Lock!TryRead(t) \/ Lock!TryWrite(t)
    <3>1. \E n \in Nat \ {0} : Lock!TryAcquire(t, n)
      BY <2>3 DEF Lock!TryRead, Lock!TryWrite, Lock!MaxReads
    <3>2. \E n \in Nat \ {0} : Acquires!TryAcquire(t, n)
      BY <3>1 DEF Lock!TryAcquire, Acquires!TryAcquire, Lock!Idle, Acquires!Idle, Lock!MayTake,
         Acquires!MayTake, Lock!TakePermits, Acquires!TakePermits
    <3> QED
      BY <3>2 DEF SemaphoreSteps
  <2>4. CASE Lock!PollReady(t) \/ Lock!PollPending(t)
    <3>1. Acquires!Poll(t)
      BY <2>4 DEF Lock!PollReady, Lock!PollPending, Acquires!Poll, Acquires!PollReady,
         Acquires!PollPending, Lock!Queued, Acquires!Queued
    <3> QED
      BY <3>1 DEF SemaphoreSteps
  <2>5. CASE Lock!DropAcquire(t)
    <3>1. Acquires!DropAcquire(t)
      BY <2>5, LockCancels DEF Lock!DropAcquire, Acquires!DropAcquire
    <3> QED
      BY <3>1 DEF SemaphoreSteps
  <2>6. CASE Lock!Release(t)
    <3>1. Acquires!Release(t)
      BY <2>6, LockGrants DEF Lock!Release, Acquires!Release
    <3> QED
      BY <3>1 DEF SemaphoreSteps
  <2> QED
    BY <2>1, <2>2, <2>3, <2>4, <2>5, <2>6
<1> QED
  BY <1>1, <1>2, <1>3

-----------------------------------------------------------------------------
(* The queue, and what a grant makes of it.                                  *)

\* An entry of the queue: its task, the permits it asked for and those it still lacks.
Waiter == [task : Tasks, required : Nat \ {0}, remaining : Nat \ {0}]

\* What the waiters of q were given, what they lack, and what they are owed.
Given(q) == [i \in 1 .. Len(q) |-> q[i].required - q[i].remaining]
Lack(q) == [i \in 1 .. Len(q) |-> q[i].remaining]
Owed(q) == [i \in 1 .. Len(q) |-> q[i].required]

\* A queue of waiters: each is of another task, asks for what its task asks for
\* and lacks no more than that.
QueueInv(q) ==
    /\ q \in Seq(Waiter)
    /\ \A i \in 1 .. Len(q) : q[i].required = asked[q[i].task] /\ q[i].remaining <= q[i].required
    /\ \A i, j \in 1 .. Len(q) : q[i].task = q[j].task => i = j

\* The numbers of a queue.
LEMMA QueueNumbers ==
    ASSUME NEW q, QueueInv(q)
    PROVE  /\ Len(q) \in Nat
           /\ \A i \in 1 .. Len(q) :
                 /\ q[i].task \in Tasks /\ q[i].required \in Nat \ {0} /\ q[i].remaining \in Nat \ {0}
                 /\ q[i].remaining <= q[i].required
                 /\ Given(q)[i] \in Nat /\ Lack(q)[i] \in Nat /\ Owed(q)[i] \in Nat
                 /\ Given(q)[i] = q[i].required - q[i].remaining
                 /\ Lack(q)[i] = q[i].remaining /\ Owed(q)[i] = Given(q)[i] + Lack(q)[i]
<1>1. Len(q) \in Nat /\ \A i \in 1 .. Len(q) : q[i] \in Waiter /\ q[i].remaining <= q[i].required
  BY DEF QueueInv
<1>2. \A i \in 1 .. Len(q) :
         /\ q[i].task \in Tasks /\ q[i].required \in Nat \ {0} /\ q[i].remaining \in Nat \ {0}
         /\ q[i].remaining <= q[i].required
  BY <1>1 DEF Waiter
<1>3. \A i \in 1 .. Len(q) : Given(q)[i] = q[i].required - q[i].remaining
                             /\ Lack(q)[i] = q[i].remaining /\ Owed(q)[i] = q[i].required
  BY DEF Given, Lack, Owed
<1> QED
  BY <1>1, <1>2, <1>3

\* n permits satisfy as many waiters as they can.
LEMMA SatisfiedExact ==
    ASSUME NEW q, QueueInv(q), NEW n \in Nat
    PROVE  LET k == Acquires!Satisfied(q, n) IN
           /\ k \in 0 .. Len(q)
           /\ Acquires!Lacking(q, k) = SumFunctionOnSet(Lack(q), 1 .. k)
           /\ Acquires!Lacking(q, k) \in Nat /\ Acquires!Lacking(q, k) <= n
           /\ k < Len(q) => n < Acquires!Lacking(q, k) + q[k + 1].remaining
<1> DEFINE L(k) == Acquires!Lacking(q, k)
           Fits(k) == L(k) <= n /\ (k < Len(q) => n < L(k + 1))
           Over == {j \in 0 .. Len(q) : n < L(j)}
<1>1. \A k : L(k) = SumFunctionOnSet(Lack(q), 1 .. k)
  BY SemaphoreLibrary DEF Acquires!Lacking, Lack
<1>2. Len(q) \in Nat /\ \A i \in 1 .. Len(q) : Lack(q)[i] \in Nat /\ Lack(q)[i] = q[i].remaining
  BY QueueNumbers
<1>3. /\ L(0) = 0 /\ (\A k \in 0 .. Len(q) : L(k) \in Nat)
      /\ \A k \in 0 .. Len(q) - 1 : L(k + 1) = L(k) + q[k + 1].remaining
  <2>1. /\ L(0) = 0 /\ (\A k \in 0 .. Len(q) : L(k) \in Nat)
        /\ \A k \in 0 .. Len(q) - 1 : L(k + 1) = L(k) + Lack(q)[k + 1]
    BY <1>1, <1>2, SumUpTo
  <2>2. \A k \in 0 .. Len(q) - 1 : k + 1 \in 1 .. Len(q)
    BY <1>2
  <2> QED
    BY <1>2, <2>1, <2>2
<1> HIDE DEF L
<1>4. \E k \in 0 .. Len(q) : Fits(k)
  <2>1. CASE Over = {}
    <3>1. Len(q) \in 0 .. Len(q)
      BY <1>2
    <3>2. Len(q) \notin Over
      BY <2>1
    <3>3. Fits(Len(q))
      BY <1>2, <1>3, <3>1, <3>2
    <3> QED
      BY <3>1, <3>3
  <2>2. CASE Over # {}
    <3>1. PICK j \in Over : \A i \in Over : j <= i
      <4>1. Over \subseteq Nat
        BY <1>2
      <4> HIDE DEF Over
      <4> QED
        BY <2>2, <4>1, LeastNatural
    <3>2. j # 0
      BY <1>3, <3>1
    <3>3. j - 1 \in 0 .. Len(q) /\ j - 1 \notin Over /\ (j - 1) + 1 = j
      BY <1>2, <3>1, <3>2
    <3>4. Fits(j - 1)
      BY <1>2, <1>3, <3>1, <3>3
    <3> QED
      BY <3>3, <3>4
  <2> QED
    BY <2>1, <2>2
<1> DEFINE k == Acquires!Satisfied(q, n)
<1>5. k \in 0 .. Len(q) /\ Fits(k)
  <2>1. k = CHOOSE i \in 0 .. Len(q) : Fits(i)
    BY DEF Acquires!Satisfied, L
  <2> HIDE DEF k, Fits
  <2> QED
    BY <1>4, <2>1
<1> HIDE DEF k
<1>6. k < Len(q) => n < L(k) + q[k + 1].remaining
  BY <1>2, <1>3, <1>5
<1> QED
  BY <1>1, <1>3, <1>5, <1>6 DEF k, L

\* What a grant of n permits to the waiters of q leaves: the first k are
\* satisfied, and what is left goes to the next or becomes available.
Granted(q, r, n, w, k, left) ==
    /\ k \in 0 .. Len(q) /\ left \in Nat
    /\ n = SumFunctionOnSet(Lack(q), 1 .. k) + left
    /\ ready' = r \cup {q[i].task : i \in 1 .. k}
    /\ acquire_woken' = w \cup {q[i].task : i \in 1 .. k}
    /\ queue' \in Seq(Waiter) /\ Len(queue') = Len(q) - k
    /\ \A i \in 1 .. Len(q) - k : /\ queue'[i].task = q[k + i].task
                                  /\ queue'[i].required = q[k + i].required
                                  /\ queue'[i].remaining <= q[k + i].remaining
                                  /\ i > 1 => queue'[i].remaining = q[k + i].remaining
    /\ k = Len(q) => available' = left
    /\ k < Len(q) => available' = 0 /\ queue'[1].remaining = q[k + 1].remaining - left

\* A grant is of that shape.
LEMMA GrantShape ==
    ASSUME NEW q, QueueInv(q), NEW r, NEW n \in Nat, NEW w, Acquires!Grant(q, r, n, w)
    PROVE  \E k, left : Granted(q, r, n, w, k, left)
<1> DEFINE k == Acquires!Satisfied(q, n)
           left == n - Acquires!Lacking(q, k)
           rest == SubSeq(q, k + 1, Len(q))
<1>1. /\ k \in 0 .. Len(q)
      /\ Acquires!Lacking(q, k) = SumFunctionOnSet(Lack(q), 1 .. k)
      /\ Acquires!Lacking(q, k) \in Nat /\ Acquires!Lacking(q, k) <= n
      /\ k < Len(q) => n < Acquires!Lacking(q, k) + q[k + 1].remaining
  BY SatisfiedExact
<1>2. left \in Nat /\ n = SumFunctionOnSet(Lack(q), 1 .. k) + left
  BY <1>1
<1>3. /\ available' = (IF rest = <<>> THEN left ELSE 0)
      /\ queue' = (IF rest = <<>> THEN rest
                   ELSE [rest EXCEPT ![1] = [rest[1] EXCEPT !.remaining = @ - left]])
      /\ ready' = r \cup {q[i].task : i \in 1 .. k}
      /\ acquire_woken' = w \cup {q[i].task : i \in 1 .. k}
  BY DEF Acquires!Grant
<1>4. Len(q) \in Nat /\ q \in Seq(Waiter)
  BY DEF QueueInv
<1>5. k < Len(q) => left < q[k + 1].remaining /\ q[k + 1] \in Waiter /\ q[k + 1].remaining \in Nat
  <2> HAVE k < Len(q)
  <2>1. k + 1 \in 1 .. Len(q)
    BY <1>1, <1>4
  <2>2. q[k + 1] \in Waiter /\ q[k + 1].remaining \in Nat
    <3>1. q[k + 1].remaining \in Nat \ {0}
      BY <2>1, QueueNumbers
    <3> QED
      BY <1>4, <2>1, <3>1
  <2>3. left < q[k + 1].remaining
    BY <1>1, <2>2
  <2> QED
    BY <2>2, <2>3
<1> HIDE DEF k, left
<1>6. /\ rest \in Seq(Waiter) /\ Len(rest) = Len(q) - k
      /\ \A i \in 1 .. Len(q) - k : rest[i] = q[k + i]
  BY SMTT(30), <1>1, <1>4
<1> HIDE DEF rest
<1>7. CASE k = Len(q)
  <2>1. rest = <<>>
    BY <1>1, <1>4, <1>6, <1>7
  <2>2. available' = left /\ queue' = rest
    BY <1>3, <2>1
  <2>3. Granted(q, r, n, w, k, left)
    BY <1>1, <1>2, <1>3, <1>4, <1>6, <1>7, <2>2 DEF Granted
  <2> QED
    BY <2>3
<1>8. CASE k < Len(q)
  <2>1. rest # <<>> /\ 1 \in 1 .. Len(rest) /\ rest[1] = q[k + 1]
    BY <1>1, <1>4, <1>6, <1>8
  <2> DEFINE h == [rest[1] EXCEPT !.remaining = @ - left]
  <2>2. /\ h.task = q[k + 1].task /\ h.required = q[k + 1].required
        /\ h.remaining = q[k + 1].remaining - left /\ h \in Waiter
    <3>1. h = [task |-> rest[1].task, required |-> rest[1].required,
               remaining |-> rest[1].remaining - left]
      BY <1>5, <1>8, <2>1 DEF Waiter
    <3>2. rest[1].remaining - left \in Nat \ {0} /\ rest[1].task \in Tasks
          /\ rest[1].required \in Nat \ {0}
      BY <1>2, <1>5, <1>8, <2>1 DEF Waiter
    <3> QED
      BY <2>1, <3>1, <3>2 DEF Waiter
  <2>3. available' = 0 /\ queue' = [rest EXCEPT ![1] = h]
    BY <1>3, <2>1
  <2> HIDE DEF h
  <2>4. /\ queue' \in Seq(Waiter) /\ Len(queue') = Len(rest) /\ queue'[1] = h
        /\ \A i \in 1 .. Len(rest) : i > 1 => queue'[i] = rest[i]
    BY <1>6, <2>1, <2>2, <2>3
  <2>5. \A i \in 1 .. Len(q) - k : i > 1 \/ i = 1
    OBVIOUS
  <2>6. \A i \in 1 .. Len(q) - k : /\ queue'[i].task = q[k + i].task
                                   /\ queue'[i].required = q[k + i].required
                                   /\ queue'[i].remaining <= q[k + i].remaining
                                   /\ i > 1 => queue'[i].remaining = q[k + i].remaining
    <3> TAKE i \in 1 .. Len(q) - k
    <3>1. CASE i = 1
      BY <1>2, <1>5, <1>8, <2>2, <2>4, <3>1
    <3>2. CASE i > 1
      <4>1. queue'[i] = q[k + i] /\ k + i \in 1 .. Len(q)
        BY SMTT(30), <1>1, <1>4, <1>6, <2>4, <3>2
      <4>2. q[k + i].remaining \in Nat
        <5>1. q[k + i].remaining \in Nat \ {0}
          BY <4>1, QueueNumbers
        <5> QED
          BY <5>1
      <4> QED
        BY <4>1, <4>2
    <3> QED
      BY <2>5, <3>1, <3>2
  <2>7. Granted(q, r, n, w, k, left)
    BY <1>1, <1>2, <1>3, <1>4, <1>6, <1>8, <2>2, <2>3, <2>4, <2>6 DEF Granted
  <2> QED
    BY <2>7
<1> QED
  BY <1>1, <1>4, <1>7, <1>8

\* The tasks that wait in a queue.
Who(q) == {q[i].task : i \in 1 .. Len(q)}

\* The sum over a set of tasks, as one over all of them.
LEMMA SumWithin ==
    ASSUME NEW f, NEW S, IsFiniteSet(S), \A x \in S : f[x] \in Nat, NEW R \in SUBSET S
    PROVE  /\ SumFunctionOnSet(f, R) = SumFunctionOnSet([x \in S |-> IF x \in R THEN f[x] ELSE 0], S)
           /\ SumFunctionOnSet(f, R) \in Nat
<1> DEFINE g == [x \in S |-> IF x \in R THEN f[x] ELSE 0]
<1>1. (\A x \in S : g[x] \in Nat) /\ (\A x \in S \ R : g[x] = 0) /\ \A x \in R : f[x] \in Nat /\ f[x] = g[x]
  OBVIOUS
<1> HIDE DEF g
<1>2. SumFunctionOnSet(g, S) = SumFunctionOnSet(g, R)
  BY <1>1, SumSupport
<1>3. IsFiniteSet(R)
  BY FS_Subset
<1>4. SumFunctionOnSet(f, R) = SumFunctionOnSet(g, R) /\ SumFunctionOnSet(f, R) \in Nat
  BY <1>1, <1>3, SumSame, SumType
<1> QED
  BY <1>2, <1>4 DEF g

\* Who is satisfied by a grant counts with what it asked for.
LEMMA GrantReady ==
    ASSUME asked \in [Tasks -> Nat], NEW q, QueueInv(q), NEW r \in SUBSET Tasks,
           \A i \in 1 .. Len(q) : q[i].task \notin r, NEW k \in 0 .. Len(q),
           ready' = r \cup {q[i].task : i \in 1 .. k}
    PROVE  /\ SumFunctionOnSet(asked, ready')
                  = SumFunctionOnSet(asked, r) + SumFunctionOnSet(Owed(q), 1 .. k)
           /\ SumFunctionOnSet(asked, r) \in Nat /\ SumFunctionOnSet(asked, ready') \in Nat
<1> DEFINE f == [t \in Tasks |-> IF t \in r THEN asked[t] ELSE 0]
           g == [t \in Tasks |-> IF t \in ready' THEN asked[t] ELSE 0]
           s == [i \in 1 .. k |-> q[i].task]
<1>1. /\ IsFiniteSet(Tasks) /\ Len(q) \in Nat /\ k \in Nat /\ \A i \in 1 .. k : i \in 1 .. Len(q)
  BY SemaphoreConstants, QueueNumbers
<1>2. \A i \in 1 .. k : /\ q[i].task \in Tasks /\ Owed(q)[i] \in Nat /\ q[i].task \notin r
                        /\ Owed(q)[i] = asked[q[i].task]
  <2>1. \A i \in 1 .. Len(q) : q[i].required = asked[q[i].task] /\ Owed(q)[i] = q[i].required
    BY DEF QueueInv, Owed
  <2> QED
    BY <1>1, <2>1, QueueNumbers
<1>3. \A i, j \in 1 .. k : q[i].task = q[j].task => i = j
  BY <1>1 DEF QueueInv
<1>4. ready' \in SUBSET Tasks
  BY <1>2
<1>5. (\A x \in Tasks : f[x] \in Nat /\ g[x] \in Nat) /\ \A i \in 1 .. k : s[i] = q[i].task
  BY <1>1
<1>6. \A i \in 1 .. k : s[i] \in Tasks /\ Owed(q)[i] \in Nat /\ g[s[i]] = f[s[i]] + Owed(q)[i]
  <2> TAKE i \in 1 .. k
  <2>1. q[i].task \in Tasks /\ q[i].task \in ready' /\ q[i].task \notin r /\ s[i] = q[i].task
    BY <1>2
  <2>2. g[s[i]] = asked[q[i].task] /\ f[s[i]] = 0
    BY <2>1
  <2> QED
    BY <1>2, <2>1, <2>2
<1>7. \A x \in Tasks : (\A i \in 1 .. k : s[i] # x) => g[x] = f[x]
  OBVIOUS
<1>8. \A i, j \in 1 .. k : s[i] = s[j] => i = j
  BY <1>3, <1>5
<1> HIDE DEF f, g, s
<1>9. SumFunctionOnSet(g, Tasks) = SumFunctionOnSet(f, Tasks) + SumFunctionOnSet(Owed(q), 1 .. k)
  <2>1. IsFiniteSet(Tasks) /\ k \in Nat
    BY <1>1
  <2>2. \A x \in Tasks : f[x] \in Nat /\ g[x] \in Nat
    BY <1>5
  <2>3. Grows(f, g, Tasks, k, s, Owed(q))
    BY <1>6, <1>7, <1>8, <2>2, Zenon DEF Grows
  <2> QED
    BY <2>1, <2>3, SumGrow
<1>10. \A x \in Tasks : asked[x] \in Nat
  OBVIOUS
<1>11. /\ SumFunctionOnSet(asked, r) = SumFunctionOnSet(f, Tasks) /\ SumFunctionOnSet(asked, r) \in Nat
  BY <1>1, <1>10, SumWithin DEF f
<1>12. /\ SumFunctionOnSet(asked, ready') = SumFunctionOnSet(g, Tasks)
       /\ SumFunctionOnSet(asked, ready') \in Nat
  BY <1>1, <1>4, <1>10, SumWithin DEF g
<1> QED
  BY <1>9, <1>11, <1>12

\* What waiters are owed is what they were given and what they lack.
LEMMA OwedSplits ==
    ASSUME NEW q, QueueInv(q), NEW k \in 0 .. Len(q)
    PROVE  /\ SumFunctionOnSet(Owed(q), 1 .. k)
                  = SumFunctionOnSet(Given(q), 1 .. k) + SumFunctionOnSet(Lack(q), 1 .. k)
           /\ SumFunctionOnSet(Given(q), 1 .. k) \in Nat /\ SumFunctionOnSet(Lack(q), 1 .. k) \in Nat
<1> DEFINE s == [i \in 1 .. k |-> i]
<1>1. /\ Len(q) \in Nat /\ k \in Nat /\ \A i \in 1 .. k : i \in 1 .. Len(q)
  BY QueueNumbers
<1>2. \A i \in 1 .. k : /\ Given(q)[i] \in Nat /\ Lack(q)[i] \in Nat /\ Owed(q)[i] \in Nat
                        /\ Owed(q)[i] = Given(q)[i] + Lack(q)[i] /\ s[i] = i
  BY <1>1, QueueNumbers
<1>3. IsFiniteSet(1 .. k)
  BY <1>1, FS_Interval
<1>4. (\A i, j \in 1 .. k : s[i] = s[j] => i = j) /\ \A x \in 1 .. k : \E i \in 1 .. k : s[i] = x
  BY <1>2
<1> HIDE DEF s
<1>5. /\ \A i \in 1 .. k : s[i] \in 1 .. k /\ Lack(q)[i] \in Nat /\ Owed(q)[s[i]] = Given(q)[s[i]] + Lack(q)[i]
      /\ \A x \in 1 .. k : (\A i \in 1 .. k : s[i] # x) => Owed(q)[x] = Given(q)[x]
  BY <1>2, <1>4
<1>6. \A x \in 1 .. k : Given(q)[x] \in Nat /\ Owed(q)[x] \in Nat
  BY <1>2
<1>7. SumFunctionOnSet(Owed(q), 1 .. k)
          = SumFunctionOnSet(Given(q), 1 .. k) + SumFunctionOnSet(Lack(q), 1 .. k)
  <2>1. k \in Nat
    BY <1>1
  <2>2. \A i \in 1 .. k : s[i] \in 1 .. k /\ Lack(q)[i] \in Nat /\ Owed(q)[s[i]] = Given(q)[s[i]] + Lack(q)[i]
    BY <1>5
  <2>3. \A x \in 1 .. k : (\A i \in 1 .. k : s[i] # x) => Owed(q)[x] = Given(q)[x]
    BY <1>5
  <2>4. \A i, j \in 1 .. k : s[i] = s[j] => i = j
    BY <1>4
  <2>5. Grows(Given(q), Owed(q), 1 .. k, k, s, Lack(q))
    BY <1>6, <2>2, <2>3, <2>4, Zenon DEF Grows
  <2> QED
    BY <1>3, <2>1, <2>5, SumGrow
<1>8. SumFunctionOnSet(Given(q), 1 .. k) \in Nat /\ SumFunctionOnSet(Lack(q), 1 .. k) \in Nat
  BY <1>2, <1>3, SumType
<1> QED
  BY <1>7, <1>8

\* The permits that are available, with satisfied waiters r and with the waiters of q.
Around(n, r, q) ==
    n + SumFunctionOnSet(asked, r) + SumFunctionOnSet(Given(q), 1 .. Len(q))

\* A grant moves permits, and no more.
LEMMA GrantSums ==
    ASSUME asked \in [Tasks -> Nat], NEW q, QueueInv(q), NEW r \in SUBSET Tasks,
           \A i \in 1 .. Len(q) : q[i].task \notin r, NEW n \in Nat, NEW w, NEW k, NEW left,
           Granted(q, r, n, w, k, left)
    PROVE  /\ available' \in Nat
           /\ available' + SumFunctionOnSet(asked, ready')
                  + SumFunctionOnSet(Given(queue'), 1 .. Len(queue')) = Around(n, r, q)
<1>1. /\ k \in 0 .. Len(q) /\ left \in Nat /\ n = SumFunctionOnSet(Lack(q), 1 .. k) + left
      /\ queue' \in Seq(Waiter) /\ Len(queue') = Len(q) - k
      /\ k = Len(q) => available' = left
      /\ k < Len(q) => available' = 0
  BY DEF Granted
<1>2. Len(q) \in Nat /\ \A i \in 1 .. Len(q) : Given(q)[i] \in Nat
  BY QueueNumbers
<1> DEFINE m == Len(q) - k
           F == [i \in 1 .. m |-> Given(q)[k + i]]
           A == SumFunctionOnSet(asked, r)
           G == SumFunctionOnSet(Given(q), 1 .. k)
           R == SumFunctionOnSet(F, 1 .. m)
           Q == SumFunctionOnSet(Given(queue'), 1 .. m)
<1>3. m \in Nat /\ k \in Nat /\ k + m = Len(q) /\ \A i \in 1 .. m : k + i \in 1 .. Len(q)
  BY <1>1, <1>2
<1>4. \A i \in 1 .. m : F[i] = Given(q)[k + i] /\ F[i] \in Nat
  BY <1>2, <1>3
<1> HIDE DEF F
<1>5. SumFunctionOnSet(Given(q), 1 .. Len(q)) = G + R
  <2>1. \A i \in 1 .. k + m : Given(q)[i] \in Nat
    BY <1>2, <1>3
  <2>2. SumFunctionOnSet(Given(q), 1 .. k + m) = G + R
    <3>1. \A i \in 1 .. m : F[i] = Given(q)[k + i]
      BY <1>4
    <3>2. m \in Nat /\ k \in Nat
      BY <1>3
    <3> HIDE DEF m
    <3>3. Shifts(Given(q), F, k, m)
      BY <2>1, <3>1 DEF Shifts
    <3> QED
      BY <3>2, <3>3, SumShift
  <2> QED
    BY <1>3, <2>2
<1>6. IsFiniteSet(1 .. m) /\ R \in Nat
  <2>1. m \in Nat /\ \A i \in 1 .. m : F[i] \in Nat
    BY <1>3, <1>4
  <2> HIDE DEF m
  <2>2. IsFiniteSet(1 .. m)
    BY <2>1, FS_Interval
  <2> QED
    BY <2>1, <2>2, SumType
<1>7. SumFunctionOnSet(asked, ready') = A + G + SumFunctionOnSet(Lack(q), 1 .. k)
      /\ A \in Nat /\ G \in Nat /\ SumFunctionOnSet(Lack(q), 1 .. k) \in Nat
  <2>1. ready' = r \cup {q[i].task : i \in 1 .. k}
    BY DEF Granted
  <2>2. SumFunctionOnSet(asked, ready') = A + SumFunctionOnSet(Owed(q), 1 .. k) /\ A \in Nat
    BY <1>1, <2>1, GrantReady
  <2>3. SumFunctionOnSet(Owed(q), 1 .. k) = G + SumFunctionOnSet(Lack(q), 1 .. k)
        /\ G \in Nat /\ SumFunctionOnSet(Lack(q), 1 .. k) \in Nat
    BY <1>1, OwedSplits
  <2> QED
    BY <2>2, <2>3
<1>8. CASE k = Len(q)
  <2>1. m = 0 /\ available' = left
    BY <1>1, <1>2, <1>8
  <2>2. R = 0 /\ Q = 0
    <3>1. 1 .. m = {}
      BY <2>1
    <3> QED
      BY <3>1, SumEmpty
  <2> QED
    BY <1>1, <1>5, <1>7, <2>1, <2>2 DEF Around
<1>9. CASE k < Len(q)
  <2>1. 1 \in 1 .. m
    BY <1>1, <1>2, <1>9
  <2>2. \A i \in 1 .. m : /\ queue'[i].required = q[k + i].required
                          /\ i > 1 => queue'[i].remaining = q[k + i].remaining
    BY DEF Granted
  <2>3. queue'[1].remaining = q[k + 1].remaining - left
    BY <1>9 DEF Granted
  <2>4. \A i \in 1 .. m : Given(queue')[i] = queue'[i].required - queue'[i].remaining
    BY <1>1 DEF Given
  <2>5. \A i \in 1 .. m : /\ F[i] = q[k + i].required - q[k + i].remaining
                          /\ q[k + i].required \in Nat \ {0} /\ q[k + i].remaining \in Nat \ {0}
    BY <1>3, <1>4, QueueNumbers
  <2>6. \A i \in 1 .. m : i > 1 => Given(queue')[i] = F[i]
    BY <2>2, <2>4, <2>5
  <2>7. Given(queue')[1] = F[1] + left
    BY <1>1, <2>1, <2>2, <2>3, <2>4, <2>5
  <2>8. \A i \in (1 .. m) \ {1} : F[i] = Given(queue')[i]
    BY <2>6
  <2>9. \A i \in 1 .. m : F[i] \in Nat /\ Given(queue')[i] \in Nat
    BY <1>1, <1>4, <2>6, <2>7
  <2>10. Q + F[1] = R + Given(queue')[1]
    <3>1. IsFiniteSet(1 .. m)
      BY <1>6
    <3> DEFINE g == Given(queue')
               S == 1 .. m
    <3>2. \A i \in S : F[i] \in Nat /\ g[i] \in Nat
      BY <2>9
    <3>3. 1 \in S /\ IsFiniteSet(S) /\ \A i \in S \ {1} : F[i] = g[i]
      BY <2>1, <2>8, <3>1
    <3> HIDE DEF g, S
    <3>4. SumFunctionOnSet(g, S) + F[1] = SumFunctionOnSet(F, S) + g[1]
      BY <3>2, <3>3, SumChange
    <3> QED
      BY <3>4 DEF g, S
  <2>11. Q \in Nat
    BY <1>6, <2>9, SumType
  <2>12. F[1] \in Nat
    BY <2>1, <2>9
  <2>13. Q = R + left
    <3>1. R \in Nat /\ left \in Nat
      BY <1>1, <1>6
    <3> HIDE DEF Q, R, m
    <3> QED
      BY <2>7, <2>10, <2>11, <2>12, <3>1
  <2>14. available' = 0
    BY <1>1, <1>9
  <2>15. SumFunctionOnSet(Given(queue'), 1 .. Len(queue')) = Q
    BY <1>1
  <2>16. R \in Nat
    BY <1>6
  <2> HIDE DEF Q, R, G, A, m
  <2>17. SumFunctionOnSet(asked, r) = A
    BY DEF A
  <2> QED
    BY SMTT(30), <1>1, <1>5, <1>7, <2>13, <2>14, <2>15, <2>16, <2>17 DEF Around
<1> QED
  BY <1>1, <1>2, <1>8, <1>9

\* The queue a grant leaves, given that those who wait ask for as much as before.
LEMMA GrantQueue ==
    ASSUME NEW q, QueueInv(q), NEW r, NEW n, NEW w, NEW k, NEW left,
           Granted(q, r, n, w, k, left),
           \A i \in 1 .. Len(q) : asked'[q[i].task] = asked[q[i].task]
    PROVE  /\ QueueInv(queue)'
           /\ Who(queue') = {q[i].task : i \in k + 1 .. Len(q)}
           /\ \A t \in Who(q) : t \in Who(queue') \/ t \in {q[i].task : i \in 1 .. k}
           /\ \A i \in 1 .. k : q[i].task \notin Who(queue')
<1>1. /\ k \in 0 .. Len(q) /\ queue' \in Seq(Waiter) /\ Len(queue') = Len(q) - k
      /\ \A i \in 1 .. Len(q) - k : /\ queue'[i].task = q[k + i].task
                                    /\ queue'[i].required = q[k + i].required
                                    /\ queue'[i].remaining <= q[k + i].remaining
  BY DEF Granted
<1>2. /\ Len(q) \in Nat /\ k \in Nat /\ \A i \in 1 .. Len(q) - k : k + i \in 1 .. Len(q)
      /\ \A i \in k + 1 .. Len(q) : i - k \in 1 .. Len(q) - k /\ k + (i - k) = i
      /\ \A i \in 1 .. Len(q) : i \in 1 .. k \/ i \in k + 1 .. Len(q)
  <2>1. Len(q) \in Nat
    BY QueueNumbers
  <2> QED
    BY <1>1, <2>1
<1>3. /\ \A i \in 1 .. Len(q) : q[i].required = asked[q[i].task] /\ q[i].remaining <= q[i].required
      /\ \A i, j \in 1 .. Len(q) : q[i].task = q[j].task => i = j
  BY DEF QueueInv
<1>4. \A i \in 1 .. Len(queue') : /\ queue'[i].required = asked'[queue'[i].task]
                                  /\ queue'[i].remaining <= queue'[i].required
  <2> TAKE i \in 1 .. Len(queue')
  <2>1. k + i \in 1 .. Len(q) /\ i \in 1 .. Len(q) - k
    BY <1>1, <1>2
  <2>2. queue'[i] \in Waiter
    BY <1>1
  <2>3. queue'[i].remaining \in Nat /\ queue'[i].required \in Nat
    BY <2>2 DEF Waiter
  <2>4. q[k + i].remaining \in Nat \ {0} /\ q[k + i].required \in Nat \ {0}
    BY <2>1, QueueNumbers
  <2>5. /\ queue'[i].task = q[k + i].task
        /\ queue'[i].required = q[k + i].required
        /\ queue'[i].remaining <= q[k + i].remaining
    BY <1>1, <2>1
  <2> QED
    BY <1>3, <2>1, <2>3, <2>4, <2>5
<1>5. \A i, j \in 1 .. Len(queue') : queue'[i].task = queue'[j].task => i = j
  <2> TAKE i, j \in 1 .. Len(queue')
  <2> HAVE queue'[i].task = queue'[j].task
  <2>1. k + i \in 1 .. Len(q) /\ k + j \in 1 .. Len(q) /\ q[k + i].task = q[k + j].task
    BY <1>1, <1>2
  <2>2. k + i = k + j
    BY <1>3, <2>1
  <2> QED
    BY <1>2, <2>2
<1>6. Who(queue') = {q[i].task : i \in k + 1 .. Len(q)}
  <2>1. ASSUME NEW i \in 1 .. Len(queue')
        PROVE  queue'[i].task = q[k + i].task /\ k + i \in k + 1 .. Len(q)
    BY <1>1, <1>2
  <2>2. ASSUME NEW i \in k + 1 .. Len(q)
        PROVE  i - k \in 1 .. Len(queue') /\ queue'[i - k].task = q[i].task
    BY <1>1, <1>2
  <2>3. ASSUME NEW t \in Who(queue')
        PROVE  \E i \in k + 1 .. Len(q) : q[i].task = t
    <3>1. PICK i \in 1 .. Len(queue') : queue'[i].task = t
      BY DEF Who
    <3> QED
      BY <2>1, <3>1
  <2>4. ASSUME NEW i \in k + 1 .. Len(q)
        PROVE  q[i].task \in Who(queue')
    BY <2>2 DEF Who
  <2> QED
    BY <2>3, <2>4
<1>7. \A t \in Who(q) : t \in Who(queue') \/ t \in {q[i].task : i \in 1 .. k}
  BY <1>2, <1>6 DEF Who
<1>8. \A i \in 1 .. k : q[i].task \notin Who(queue')
  <2> TAKE i \in 1 .. k
  <2>1. i \in 1 .. Len(q) /\ \A j \in k + 1 .. Len(q) : j \in 1 .. Len(q) /\ i # j
    BY <1>1, <1>2
  <2> QED
    BY <1>3, <1>6, <2>1
<1> QED
  BY <1>1, <1>4, <1>5, <1>6, <1>7, <1>8 DEF QueueInv

-----------------------------------------------------------------------------
(* A dropped acquire.                                                        *)

\* The waiters of p come in the order they have in q.
InOrder(p, q) ==
    \A a, b \in 1 .. Len(p), i, j \in 1 .. Len(q) :
        q[i].task = p[a].task /\ q[j].task = p[b].task /\ i < j => a < b

\* A queue without its i-th waiter is a queue, in order, and what that waiter was
\* given is missing from it.
LEMMA RemoveWaiter ==
    ASSUME NEW q, QueueInv(q), NEW i \in 1 .. Len(q), NEW p,
           p = Acquires!RemoveAt(q, i)
    PROVE  /\ QueueInv(p) /\ InOrder(p, q)
           /\ Who(p) = Who(q) \ {q[i].task}
           /\ SumFunctionOnSet(Given(q), 1 .. Len(q))
                = SumFunctionOnSet(Given(p), 1 .. Len(p)) + (q[i].required - q[i].remaining)
<1>1. /\ q \in Seq(Waiter)
      /\ \A j \in 1 .. Len(q) : q[j].required = asked[q[j].task] /\ q[j].remaining <= q[j].required
      /\ \A j, l \in 1 .. Len(q) : q[j].task = q[l].task => j = l
  BY DEF QueueInv
<1>2. /\ p \in Seq(Waiter) /\ Len(p) = Len(q) - 1
      /\ \A j \in 1 .. Len(p) : p[j] = IF j < i THEN q[j] ELSE q[j + 1]
  <2>1. p = SubSeq(q, 1, i - 1) \o SubSeq(q, i + 1, Len(q))
    BY SemaphoreLibrary
  <2>2. /\ SubSeq(q, 1, i - 1) \o SubSeq(q, i + 1, Len(q)) \in Seq(Waiter)
        /\ Len(SubSeq(q, 1, i - 1) \o SubSeq(q, i + 1, Len(q))) = Len(q) - 1
        /\ \A j \in 1 .. Len(SubSeq(q, 1, i - 1) \o SubSeq(q, i + 1, Len(q))) :
              (SubSeq(q, 1, i - 1) \o SubSeq(q, i + 1, Len(q)))[j] = IF j < i THEN q[j] ELSE q[j + 1]
    BY <1>1, RemoveIth
  <2> QED
    BY <2>1, <2>2, Zenon
<1>3. Len(q) \in Nat /\ Len(p) \in Nat
  BY <1>1, <1>2
<1> DEFINE At(j) == IF j < i THEN j ELSE j + 1
<1>4. /\ \A j \in 1 .. Len(p) : At(j) \in 1 .. Len(q) /\ At(j) # i
      /\ \A j, l \in 1 .. Len(p) : At(j) = At(l) => j = l
      /\ \A j, l \in 1 .. Len(p) : At(j) < At(l) => j < l
      /\ \A l \in 1 .. Len(q) : l # i => \E j \in 1 .. Len(p) : At(j) = l
  <2>1. \A l \in 1 .. Len(q) : l # i => \E j \in 1 .. Len(p) : At(j) = l
    <3> TAKE l \in 1 .. Len(q)
    <3> HAVE l # i
    <3>1. CASE l < i
      <4>1. l \in 1 .. Len(p) /\ At(l) = l
        BY <1>2, <1>3, <3>1
      <4> QED
        BY <4>1
    <3>2. CASE l > i
      <4>1. l - 1 \in 1 .. Len(p) /\ At(l - 1) = l
        BY <1>2, <1>3, <3>2
      <4> QED
        BY <4>1
    <3> QED
      BY <3>1, <3>2
  <2> QED
    BY <1>2, <1>3, <2>1
<1>5. \A j \in 1 .. Len(p) : p[j] = q[At(j)]
  BY <1>2
<1> HIDE DEF At
<1>6. QueueInv(p)
  <2>1. \A j \in 1 .. Len(p) : p[j].required = asked[p[j].task] /\ p[j].remaining <= p[j].required
    BY <1>1, <1>4, <1>5
  <2>2. \A j, l \in 1 .. Len(p) : p[j].task = p[l].task => j = l
    <3> TAKE j, l \in 1 .. Len(p)
    <3> HAVE p[j].task = p[l].task
    <3>1. At(j) \in 1 .. Len(q) /\ At(l) \in 1 .. Len(q) /\ q[At(j)].task = q[At(l)].task
      BY <1>4, <1>5
    <3>2. At(j) = At(l)
      BY <1>1, <3>1
    <3> QED
      BY <1>4, <3>2
  <2> QED
    BY <1>2, <2>1, <2>2 DEF QueueInv
<1>7. InOrder(p, q)
  <2> SUFFICES ASSUME NEW a \in 1 .. Len(p), NEW b \in 1 .. Len(p),
                      NEW j \in 1 .. Len(q), NEW l \in 1 .. Len(q),
                      q[j].task = p[a].task, q[l].task = p[b].task, j < l
               PROVE  a < b
    BY DEF InOrder
  <2>1. /\ At(a) \in 1 .. Len(q) /\ At(b) \in 1 .. Len(q)
        /\ q[j].task = q[At(a)].task /\ q[l].task = q[At(b)].task
    BY <1>4, <1>5
  <2>2. j = At(a) /\ l = At(b)
    BY <1>1, <2>1
  <2> QED
    BY <1>4, <2>2
<1>8. Who(p) = Who(q) \ {q[i].task}
  <2>1. ASSUME NEW j \in 1 .. Len(p)
        PROVE  p[j].task \in Who(q) /\ p[j].task # q[i].task
    <3>1. At(j) \in 1 .. Len(q) /\ At(j) # i /\ p[j] = q[At(j)]
      BY <1>4, <1>5
    <3>2. q[At(j)].task # q[i].task
      BY <1>1, <3>1
    <3> QED
      BY <3>1, <3>2 DEF Who
  <2>2. ASSUME NEW l \in 1 .. Len(q), q[l].task # q[i].task
        PROVE  q[l].task \in Who(p)
    <3>1. PICK j \in 1 .. Len(p) : At(j) = l
      BY <1>4, <2>2
    <3>2. p[j].task = q[l].task
      BY <1>5, <3>1
    <3> QED
      BY <3>2 DEF Who
  <2>3. \A t \in Who(p) : \E j \in 1 .. Len(p) : p[j].task = t
    BY DEF Who
  <2>4. \A t \in Who(q) : \E l \in 1 .. Len(q) : q[l].task = t
    BY DEF Who
  <2> QED
    BY <2>1, <2>2, <2>3, <2>4
<1>9. SumFunctionOnSet(Given(q), 1 .. Len(q))
          = SumFunctionOnSet(Given(p), 1 .. Len(p)) + (q[i].required - q[i].remaining)
  <2> DEFINE v == Given(q)
             u == Given(p)
             c == i - 1
             m == Len(q) - i
             F == [j \in 1 .. 1 + m |-> v[c + j]]
             H == [j \in 1 .. m |-> v[i + j]]
  <2>1. c \in Nat /\ m \in Nat /\ Len(q) = c + (1 + m) /\ Len(p) = c + m /\ 1 + m \in Nat /\ i \in Nat
    BY SMTT(30), <1>2, <1>3
  <2>2. /\ \A j \in 1 .. c + (1 + m) : v[j] \in Nat
        /\ \A j \in 1 .. c + m : u[j] \in Nat
        /\ v[i] = q[i].required - q[i].remaining
    BY <1>6, <2>1, QueueNumbers
  <2>3. /\ \A j \in 1 .. c : u[j] = v[j]
        /\ \A j \in 1 .. m : u[c + j] = v[i + j]
    <3>1. /\ \A j \in 1 .. Len(p) : u[j] = p[j].required - p[j].remaining
          /\ \A j \in 1 .. Len(q) : v[j] = q[j].required - q[j].remaining
      BY DEF Given
    <3>2. \A j \in 1 .. c : j \in 1 .. Len(p) /\ j \in 1 .. Len(q) /\ p[j] = q[j]
      BY <1>2, <1>3, <2>1
    <3>3. \A j \in 1 .. m : c + j \in 1 .. Len(p) /\ i + j \in 1 .. Len(q) /\ p[c + j] = q[i + j]
      BY <1>2, <1>3, <2>1
    <3> HIDE DEF u, v, c, m
    <3>4. \A j \in 1 .. c : u[j] = v[j]
      BY <3>1, <3>2
    <3>5. \A j \in 1 .. m : u[c + j] = v[i + j]
      BY <3>1, <3>3
    <3> QED
      BY <3>4, <3>5
  <2>4. /\ \A j \in 1 .. 1 + m : F[j] = v[c + j] /\ F[j] \in Nat
        /\ \A j \in 1 .. m : H[j] = v[i + j] /\ H[j] = F[1 + j] /\ H[j] = u[c + j]
    <3>1. \A j \in 1 .. 1 + m : c + j \in 1 .. c + (1 + m)
      BY <2>1
    <3>2. \A j \in 1 .. m : 1 + j \in 1 .. 1 + m /\ c + (1 + j) = i + j
      BY <2>1
    <3> QED
      BY <2>2, <2>3, <3>1, <3>2
  <2>5. F[1] = v[i]
    BY <2>1, <2>4
  <2> HIDE DEF v, u, c, m, F, H
  <2>6. SumFunctionOnSet(v, 1 .. c + (1 + m))
            = SumFunctionOnSet(v, 1 .. c) + SumFunctionOnSet(F, 1 .. 1 + m)
    <3>1. \A j \in 1 .. 1 + m : F[j] = v[c + j]
      BY <2>4
    <3>2. \A j \in 1 .. c + (1 + m) : v[j] \in Nat
      BY <2>2
    <3>3. c \in Nat /\ 1 + m \in Nat
      BY <2>1
    <3> DEFINE n == 1 + m
    <3> HIDE DEF n
    <3>4. /\ \A j \in 1 .. n : F[j] = v[c + j]
          /\ \A j \in 1 .. c + n : v[j] \in Nat
          /\ n \in Nat
      BY <3>1, <3>2, <3>3 DEF n
    <3>5. SumFunctionOnSet(v, 1 .. c + n) = SumFunctionOnSet(v, 1 .. c) + SumFunctionOnSet(F, 1 .. n)
      <4>1. Shifts(v, F, c, n)
        BY <3>4 DEF Shifts
      <4> QED
        BY <3>3, <3>4, <4>1, SumShift
    <3> QED
      BY <3>5 DEF n
  <2>7. SumFunctionOnSet(F, 1 .. 1 + m)
            = SumFunctionOnSet(F, 1 .. 1) + SumFunctionOnSet(H, 1 .. m)
    <3>4. Shifts(F, H, 1, m)
      <4>1. \A j \in 1 .. m : H[j] = F[1 + j]
        BY <2>4
      <4>2. \A j \in 1 .. 1 + m : F[j] \in Nat
        BY <2>4
      <4> QED
        BY <4>1, <4>2 DEF Shifts
    <3> DEFINE one == 1
    <3>3. one \in Nat /\ m \in Nat /\ Shifts(F, H, one, m)
      BY <2>1, <3>4
    <3> HIDE DEF one
    <3>5. SumFunctionOnSet(F, 1 .. one + m)
              = SumFunctionOnSet(F, 1 .. one) + SumFunctionOnSet(H, 1 .. m)
      BY <3>3, SumShift
    <3> QED
      BY <3>5 DEF one
  <2>8. SumFunctionOnSet(u, 1 .. c + m) = SumFunctionOnSet(u, 1 .. c) + SumFunctionOnSet(H, 1 .. m)
    <3>1. \A j \in 1 .. m : H[j] = u[c + j]
      BY <2>4
    <3>2. \A j \in 1 .. c + m : u[j] \in Nat
      BY <2>2
    <3>3. c \in Nat /\ m \in Nat
      BY <2>1
    <3>4. Shifts(u, H, c, m)
      BY <3>1, <3>2 DEF Shifts
    <3> QED
      BY <3>3, <3>4, SumShift
  <2>9. SumFunctionOnSet(F, 1 .. 1) = v[i] /\ v[i] \in Nat
    <3>1. F[1] \in Nat /\ 1 .. 1 = {1}
      BY <2>1, <2>4
    <3> QED
      BY <2>5, <3>1, SumSingle
  <2>10. /\ SumFunctionOnSet(v, 1 .. c) = SumFunctionOnSet(u, 1 .. c)
         /\ SumFunctionOnSet(u, 1 .. c) \in Nat
    <3>1. IsFiniteSet(1 .. c)
      BY <2>1, FS_Interval
    <3>2. \A j \in 1 .. c : u[j] \in Nat /\ u[j] = v[j]
      BY <2>1, <2>2, <2>3
    <3> QED
      BY <3>1, <3>2, SumSame, SumType
  <2>11. SumFunctionOnSet(H, 1 .. m) \in Nat
    <3>1. IsFiniteSet(1 .. m)
      BY <2>1, FS_Interval
    <3>2. \A j \in 1 .. m : H[j] \in Nat
      <4>1. \A j \in 1 .. m : 1 + j \in 1 .. 1 + m
        BY <2>1
      <4> QED
        BY <2>4, <4>1
    <3> QED
      BY <3>1, <3>2, SumType
  <2>12. SumFunctionOnSet(v, 1 .. c + (1 + m)) = SumFunctionOnSet(u, 1 .. c + m) + v[i]
    BY <2>6, <2>7, <2>8, <2>9, <2>10, <2>11
  <2> QED
    BY <2>1, <2>2, <2>12 DEF v, u
<1> QED
  BY <1>6, <1>7, <1>8, <1>9

\* The state of a semaphore: types,
SemTypes ==
    /\ available \in Nat /\ QueueInv(queue) /\ ready \subseteq Tasks
    /\ asked \in [Tasks -> Nat] /\ held \in [Tasks -> Nat]
    /\ added \in Nat /\ forgotten \in Nat

\* who waits and how, and that permits go to who waits,
SemWaits ==
    /\ queue # <<>> => available = 0 /\ ~closed
    /\ \A t \in ready : asked[t] > 0 /\ t \notin Who(queue)
    /\ \A t \in Tasks : asked[t] > 0 => /\ held[t] = 0
                                        /\ ~closed => t \in ready \cup Who(queue)
                                        /\ t \in ready \/ closed => t \in acquire_woken

\* A grant to nobody.
LEMMA NothingGranted ==
    ASSUME NEW q, QueueInv(q), NEW r, NEW w, available \in Nat, q # <<>> => available = 0,
           queue' = q, available' = available, ready' = r, acquire_woken' = w
    PROVE  Granted(q, r, available, w, 0, available)
<1>1. /\ Len(q) \in Nat /\ q \in Seq(Waiter)
      /\ \A i \in 1 .. Len(q) : q[i].remaining \in Nat \ {0}
  BY QueueNumbers DEF QueueInv
<1>2. SumFunctionOnSet(Lack(q), 1 .. 0) = 0
  <2>1. 1 .. 0 = {}
    OBVIOUS
  <2> QED
    BY <2>1, SumEmpty
<1>3. {q[i].task : i \in 1 .. 0} = {}
  OBVIOUS
<1>4. 0 < Len(q) => q # <<>> /\ 1 \in 1 .. Len(q)
  BY <1>1
<1>5. \A i \in 1 .. Len(q) - 0 : 0 + i = i /\ i \in 1 .. Len(q)
  BY <1>1
<1>6. 0 < Len(q) => available' = 0 /\ queue'[1].remaining = q[0 + 1].remaining - available
  <2> HAVE 0 < Len(q)
  <2>1. q[1].remaining \in Nat \ {0} /\ available = 0 /\ 0 + 1 = 1
    BY <1>1, <1>4
  <2> QED
    BY <2>1
<1>7. \A i \in 1 .. Len(q) - 0 : /\ queue'[i].task = q[0 + i].task
                                 /\ queue'[i].required = q[0 + i].required
                                 /\ queue'[i].remaining <= q[0 + i].remaining
                                 /\ i > 1 => queue'[i].remaining = q[0 + i].remaining
  BY <1>1, <1>5
<1> QED
  BY <1>1, <1>2, <1>3, <1>6, <1>7 DEF Granted

\* What a cancelled waiter had goes to the others.
LEMMA CancelShape ==
    ASSUME SemTypes, SemWaits, NEW t \in Tasks, asked[t] > 0, NEW w, Acquires!CancelWaiter(t, w)
    PROVE  \E q, k, left : \E n \in Nat :
              /\ QueueInv(q) /\ Granted(q, ready \ {t}, n, w, k, left)
              /\ Who(q) = Who(queue) \ {t} /\ InOrder(q, queue)
              /\ Around(n, ready \ {t}, q) = Around(available, ready, queue)
<1> DEFINE mine == {i \in 1 .. Len(queue) : queue[i].task = t}
           at == CHOOSE i \in mine : TRUE
           others == IF mine = {} THEN queue ELSE Acquires!RemoveAt(queue, at)
           given == IF t \in ready THEN asked[t]
                    ELSE IF mine = {} THEN 0 ELSE queue[at].required - queue[at].remaining
<1>1. IF given = 0 THEN queue' = others /\ acquire_woken' = w /\ UNCHANGED <<available, ready>>
                   ELSE Acquires!Grant(others, ready \ {t}, available + given, w)
  BY Zenon DEF Acquires!CancelWaiter
<1>2. mine # {} => at \in mine
  <2> HIDE DEF mine
  <2> QED
    OBVIOUS
<1>3. t \in Who(queue) <=> mine # {}
  BY DEF Who
<1>4. mine # {} => at \in 1 .. Len(queue) /\ queue[at].task = t
  <2> HIDE DEF at
  <2> QED
    BY <1>2
<1>5. /\ QueueInv(queue) /\ asked \in [Tasks -> Nat] /\ available \in Nat /\ ready \subseteq Tasks
      /\ queue # <<>> => available = 0
      /\ IsFiniteSet(Tasks)
  BY SemaphoreConstants DEF SemTypes, SemWaits
<1>6. /\ SumFunctionOnSet(asked, ready) \in Nat /\ SumFunctionOnSet(asked, ready \ {t}) \in Nat
      /\ SumFunctionOnSet(asked, ready) = SumFunctionOnSet(asked, ready \ {t})
                                          + IF t \in ready THEN asked[t] ELSE 0
  <2>1. IsFiniteSet(ready) /\ \A x \in ready : asked[x] \in Nat
    BY <1>5, FS_Subset
  <2>2. IsFiniteSet(ready \ {t}) /\ \A x \in ready \ {t} : asked[x] \in Nat
    BY <2>1, FS_Subset
  <2>3. SumFunctionOnSet(asked, ready) \in Nat /\ SumFunctionOnSet(asked, ready \ {t}) \in Nat
    BY <2>1, <2>2, SumType
  <2>4. CASE t \in ready
    BY <2>1, <2>3, <2>4, SumRemove
  <2>5. CASE t \notin ready
    <3>1. ready \ {t} = ready
      BY <2>5
    <3> QED
      BY <2>3, <2>5, <3>1
  <2> QED
    BY <2>4, <2>5
<1>7. SumFunctionOnSet(Given(queue), 1 .. Len(queue)) \in Nat
  <2>1. Len(queue) \in Nat /\ \A i \in 1 .. Len(queue) : Given(queue)[i] \in Nat
    BY <1>5, QueueNumbers
  <2>2. IsFiniteSet(1 .. Len(queue))
    BY <2>1, FS_Interval
  <2> QED
    BY <2>1, <2>2, SumType
<1>8. InOrder(queue, queue)
  BY <1>5 DEF QueueInv, InOrder
<1>9. others = IF mine = {} THEN queue ELSE Acquires!RemoveAt(queue, at)
  OBVIOUS
<1>10. given = IF t \in ready THEN asked[t]
               ELSE IF mine = {} THEN 0 ELSE queue[at].required - queue[at].remaining
  OBVIOUS
<1> HIDE DEF mine, at, others, given
<1>11. CASE t \in ready
  <2>1. mine = {} /\ others = queue /\ given = asked[t] /\ Who(queue) \ {t} = Who(queue)
    BY <1>3, <1>9, <1>10, <1>11 DEF SemWaits
  <2> DEFINE n == available + asked[t]
  <2>2. n \in Nat /\ asked[t] \in Nat
    BY <1>5
  <2>3. Acquires!Grant(queue, ready \ {t}, n, w)
    BY <1>1, <1>5, <2>1
  <2>4. Around(n, ready \ {t}, queue) = Around(available, ready, queue)
    BY <1>5, <1>6, <1>7, <1>11, <2>2 DEF Around
  <2> HIDE DEF n
  <2>5. \E k, left : Granted(queue, ready \ {t}, n, w, k, left)
    BY <1>5, <2>2, <2>3, GrantShape
  <2> QED
    BY <1>5, <1>8, <2>1, <2>2, <2>4, <2>5
<1>12. CASE t \notin ready /\ mine = {}
  <2>1. others = queue /\ given = 0 /\ Who(queue) \ {t} = Who(queue) /\ ready \ {t} = ready
    BY <1>3, <1>9, <1>10, <1>12
  <2>2. queue' = queue /\ acquire_woken' = w /\ available' = available /\ ready' = ready
    BY <1>1, <2>1
  <2>3. Granted(queue, ready, available, w, 0, available)
    BY <1>5, <2>2, NothingGranted
  <2> QED
    BY <1>5, <1>8, <2>1, <2>3
<1>13. CASE t \notin ready /\ mine # {}
  <2>1. /\ others = Acquires!RemoveAt(queue, at) /\ at \in 1 .. Len(queue) /\ queue[at].task = t
        /\ given = queue[at].required - queue[at].remaining /\ ready \ {t} = ready
    BY <1>4, <1>9, <1>10, <1>13
  <2>2. /\ QueueInv(others) /\ InOrder(others, queue)
        /\ Who(others) = Who(queue) \ {t}
        /\ SumFunctionOnSet(Given(queue), 1 .. Len(queue))
             = SumFunctionOnSet(Given(others), 1 .. Len(others)) + given
    BY <1>5, <2>1, RemoveWaiter
  <2>3. given \in Nat
    <3>1. /\ queue[at].required \in Nat \ {0} /\ queue[at].remaining \in Nat \ {0}
          /\ queue[at].remaining <= queue[at].required
      BY <1>5, <2>1, QueueNumbers
    <3> QED
      BY <2>1, <3>1
  <2>4. SumFunctionOnSet(Given(others), 1 .. Len(others)) \in Nat
    <3>1. Len(others) \in Nat /\ \A i \in 1 .. Len(others) : Given(others)[i] \in Nat
      BY <2>2, QueueNumbers
    <3>2. IsFiniteSet(1 .. Len(others))
      BY <3>1, FS_Interval
    <3> QED
      BY <3>1, <3>2, SumType
  <2> DEFINE n == available + given
  <2>5. n \in Nat
    BY <1>5, <2>3
  <2>6. Around(n, ready, others) = Around(available, ready, queue)
    BY <1>5, <1>6, <2>2, <2>3, <2>4 DEF Around
  <2>7. \E k, left : Granted(others, ready, n, w, k, left)
    <3>1. CASE given = 0
      <4>1. /\ queue' = others /\ acquire_woken' = w /\ available' = available /\ ready' = ready
        BY <1>1, <3>1
      <4>2. queue # <<>>
        BY <2>1
      <4>3. n = available /\ available = 0
        BY <1>5, <3>1, <4>2
      <4>4. Granted(others, ready, available, w, 0, available)
        BY <1>5, <2>2, <4>1, <4>3, NothingGranted
      <4> QED
        BY <4>3, <4>4
    <3>2. CASE given # 0
      <4>1. Acquires!Grant(others, ready, n, w)
        BY <1>1, <2>1, <3>2
      <4> HIDE DEF n
      <4> QED
        BY <2>2, <2>5, <4>1, GrantShape
    <3> QED
      BY <3>1, <3>2
  <2> HIDE DEF n
  <2>8. PICK k, left : Granted(others, ready, n, w, k, left)
    BY <2>7
  <2>9. /\ QueueInv(others) /\ Granted(others, ready \ {t}, n, w, k, left)
        /\ Who(others) = Who(queue) \ {t} /\ InOrder(others, queue)
        /\ Around(n, ready \ {t}, others) = Around(available, ready, queue)
    BY <2>1, <2>2, <2>6, <2>8
  <2> QED
    BY <2>5, <2>9, Zenon
<1> QED
  BY <1>11, <1>12, <1>13

\* A grant keeps the waiters in order.
LEMMA GrantInv ==
    ASSUME SemTypes, SemWaits, NEW q, QueueInv(q), NEW r \in SUBSET ready, NEW n \in Nat, NEW w,
           NEW k, NEW left, Granted(q, r, n, w, k, left), Who(q) \subseteq Who(queue),
           asked' \in [Tasks -> Nat], held' \in [Tasks -> Nat], added' \in Nat, forgotten' \in Nat,
           UNCHANGED closed,
           \A t \in Tasks : asked'[t] > 0 =>
               /\ held'[t] = 0 /\ asked'[t] = asked[t]
               /\ (t \in ready => t \in r) /\ (t \in Who(queue) => t \in Who(q))
               /\ (t \in acquire_woken => t \in w),
           \A t \in r \cup Who(q) : asked'[t] = asked[t]
    PROVE  SemTypes' /\ SemWaits' /\ Around(available, ready, queue)' = Around(n, r, q)
<1>1. /\ k \in 0 .. Len(q) /\ Len(queue') = Len(q) - k /\ queue' \in Seq(Waiter)
      /\ ready' = r \cup {q[i].task : i \in 1 .. k}
      /\ acquire_woken' = w \cup {q[i].task : i \in 1 .. k}
      /\ k < Len(q) => available' = 0
  BY DEF Granted
<1>2. \A i \in 1 .. Len(q) : q[i].task \in Who(q) /\ q[i].task \in Tasks /\ q[i].task \notin r
  <2>1. \A i \in 1 .. Len(q) : q[i].task \in Who(q) /\ q[i].task \in Tasks
    BY QueueNumbers DEF Who
  <2> QED
    BY <2>1 DEF SemWaits
<1>3. /\ QueueInv(queue)'
      /\ Who(queue') = {q[i].task : i \in k + 1 .. Len(q)}
      /\ \A t \in Who(q) : t \in Who(queue') \/ t \in {q[i].task : i \in 1 .. k}
      /\ \A i \in 1 .. k : q[i].task \notin Who(queue')
  BY <1>2, GrantQueue
<1>4. Len(q) \in Nat /\ \A i \in 1 .. k : i \in 1 .. Len(q)
  BY <1>1, QueueNumbers
<1>5. r \in SUBSET Tasks /\ asked \in [Tasks -> Nat]
  BY DEF SemTypes
<1>6. /\ available' \in Nat
      /\ available' + SumFunctionOnSet(asked, ready')
             + SumFunctionOnSet(Given(queue'), 1 .. Len(queue')) = Around(n, r, q)
  BY <1>2, <1>5, GrantSums
<1>7. ready' \subseteq Tasks /\ ready' \subseteq r \cup Who(q)
  BY <1>1, <1>2, <1>4, <1>5
<1>8. Around(available, ready, queue)' = Around(n, r, q)
  <2>1. IsFiniteSet(ready') /\ \A x \in ready' : asked[x] \in Nat /\ asked[x] = asked'[x]
    BY <1>5, <1>7, SemaphoreConstants, FS_Subset
  <2>2. SumFunctionOnSet(asked, ready') = SumFunctionOnSet(asked', ready')
    BY <2>1, SumSame
  <2> QED
    BY <1>6, <2>2 DEF Around
<1>9. SemTypes'
  BY <1>3, <1>6, <1>7 DEF SemTypes
<1>10. queue' # <<>> => available' = 0 /\ ~closed'
  <2> HAVE queue' # <<>>
  <2>1. k < Len(q)
    BY <1>1, <1>4
  <2>2. Who(q) # {}
    <3>1. 1 \in 1 .. Len(q)
      BY <1>1, <1>4, <2>1
    <3> QED
      BY <1>2, <3>1
  <2>3. queue # <<>>
    <3>1. Who(queue) # {}
      BY <2>2
    <3> QED
      BY <3>1 DEF Who
  <2> QED
    BY <1>1, <2>1, <2>3 DEF SemWaits
<1>11. ASSUME NEW t \in ready'
       PROVE  asked'[t] > 0 /\ t \notin Who(queue')
  <2>1. CASE t \in r
    <3>1. asked'[t] > 0 /\ t \notin Who(queue)
      BY <2>1 DEF SemWaits
    <3>2. Who(queue') \subseteq Who(q)
      <4>1. \A i \in k + 1 .. Len(q) : i \in 1 .. Len(q)
        BY <1>1, <1>4
      <4> QED
        BY <1>2, <1>3, <4>1
    <3> QED
      BY <3>1, <3>2
  <2>2. CASE t \notin r
    <3>1. PICK i \in 1 .. k : t = q[i].task
      BY <1>1, <2>2
    <3>2. q[i].required \in Nat \ {0} /\ q[i].required = asked[q[i].task]
      BY <1>4, QueueNumbers DEF QueueInv
    <3>3. asked'[t] = asked[t]
      BY <1>2, <1>4, <3>1
    <3> QED
      BY <1>3, <3>1, <3>2, <3>3
  <2> QED
    BY <2>1, <2>2
<1>12. ASSUME NEW t \in Tasks, asked'[t] > 0
       PROVE  /\ held'[t] = 0
              /\ ~closed' => t \in ready' \cup Who(queue')
              /\ t \in ready' \/ closed' => t \in acquire_woken'
  <2>1. /\ held'[t] = 0 /\ asked[t] > 0
        /\ (t \in ready => t \in r) /\ (t \in Who(queue) => t \in Who(q))
        /\ (t \in acquire_woken => t \in w)
    BY <1>12
  <2>2. /\ ~closed => t \in ready \cup Who(queue)
        /\ t \in ready \/ closed => t \in acquire_woken
    BY <2>1 DEF SemWaits
  <2>3. ~closed' => t \in ready' \cup Who(queue')
    BY <1>1, <1>3, <2>1, <2>2
  <2>4. t \in ready' \/ closed' => t \in acquire_woken'
    BY <1>1, <2>1, <2>2
  <2> QED
    BY <2>1, <2>3, <2>4
<1>13. SemWaits'
  BY <1>10, <1>11, <1>12 DEF SemWaits
<1> QED
  BY <1>8, <1>9, <1>13

-----------------------------------------------------------------------------
(* The number of permits, and the invariant.                                 *)

\* and how many permits there are: none is lost before the semaphore is closed.
Cap == IF using = "rwlock" THEN MaxReaders ELSE Permits
Total == Around(available, ready, queue) + SumFunctionOnSet(held, Tasks) + forgotten
SemCount == Total <= Cap + added /\ (~closed => Total = Cap + added)

SemInv == SemTypes /\ SemWaits /\ SemCount

\* The sums are natural numbers.
LEMMA SemSums ==
    ASSUME SemTypes
    PROVE  /\ SumFunctionOnSet(asked, ready) \in Nat /\ SumFunctionOnSet(held, Tasks) \in Nat
           /\ SumFunctionOnSet(Given(queue), 1 .. Len(queue)) \in Nat
           /\ Around(available, ready, queue) \in Nat /\ Cap \in Nat
<1>1. IsFiniteSet(Tasks) /\ IsFiniteSet(ready) /\ Cap \in Nat
  BY SemaphoreConstants, FS_Subset DEF SemTypes, Cap
<1>2. (\A t \in ready : asked[t] \in Nat) /\ \A t \in Tasks : held[t] \in Nat
  BY DEF SemTypes
<1>3. SumFunctionOnSet(asked, ready) \in Nat /\ SumFunctionOnSet(held, Tasks) \in Nat
  BY <1>1, <1>2, SumType
<1>4. SumFunctionOnSet(Given(queue), 1 .. Len(queue)) \in Nat
  <2>1. Len(queue) \in Nat /\ \A i \in 1 .. Len(queue) : Given(queue)[i] \in Nat
    BY QueueNumbers DEF SemTypes
  <2>2. IsFiniteSet(1 .. Len(queue))
    BY <2>1, FS_Interval
  <2> QED
    BY <2>1, <2>2, SumType
<1> QED
  BY <1>1, <1>3, <1>4 DEF Around, SemTypes

\* A new semaphore has its permits.
LEMMA SemInit ==
    ASSUME IF using = "rwlock" THEN Lock!Init ELSE Acquires!Init
    PROVE  SemInv
<1>1. /\ available = Cap /\ ~closed /\ queue = <<>> /\ ready = {}
      /\ asked = [t \in Tasks |-> 0] /\ held = [t \in Tasks |-> 0] /\ added = 0 /\ forgotten = 0
  BY DEF Lock!Init, Acquires!Init, Cap
<1>2. Cap \in Nat /\ IsFiniteSet(Tasks)
  BY SemaphoreConstants DEF Cap
<1>3. QueueInv(queue)
  BY <1>1 DEF QueueInv
<1>4. SemTypes
  BY <1>1, <1>2, <1>3 DEF SemTypes
<1>5. SemWaits
  BY <1>1 DEF SemWaits
<1>6. SumFunctionOnSet(held, Tasks) = 0
  <2>1. (\A t \in Tasks : held[t] \in Nat) /\ {} \in SUBSET Tasks /\ \A t \in Tasks \ {} : held[t] = 0
    BY <1>1
  <2> QED
    BY <1>2, <2>1, SumSupport, SumEmpty
<1>7. SumFunctionOnSet(asked, ready) = 0
  BY <1>1, SumEmpty
<1>8. SumFunctionOnSet(Given(queue), 1 .. Len(queue)) = 0
  <2>1. 1 .. Len(queue) = {}
    BY <1>1
  <2> QED
    BY <2>1, SumEmpty
<1>9. SemCount
  BY <1>1, <1>2, <1>6, <1>7, <1>8 DEF SemCount, Total, Around
<1> QED
  BY <1>4, <1>5, <1>9 DEF SemInv

\* One guard changes, and the sum of the guards with it.
LEMMA HeldChange ==
    ASSUME SemTypes, NEW t \in Tasks, NEW n \in Nat, held' = [held EXCEPT ![t] = n]
    PROVE  /\ held' \in [Tasks -> Nat] /\ held'[t] = n /\ held[t] \in Nat
           /\ \A u \in Tasks : u # t => held'[u] = held[u]
           /\ SumFunctionOnSet(held', Tasks) + held[t] = SumFunctionOnSet(held, Tasks) + n
           /\ SumFunctionOnSet(held', Tasks) \in Nat /\ SumFunctionOnSet(held, Tasks) \in Nat
<1>1. held \in [Tasks -> Nat] /\ IsFiniteSet(Tasks)
  BY SemaphoreConstants DEF SemTypes
<1>2. held' \in [Tasks -> Nat] /\ held'[t] = n /\ \A u \in Tasks : u # t => held'[u] = held[u]
  BY <1>1
<1>3. (\A u \in Tasks : held[u] \in Nat /\ held'[u] \in Nat) /\ \A u \in Tasks \ {t} : held[u] = held'[u]
  BY <1>1, <1>2
<1>4. SumFunctionOnSet(held', Tasks) + held[t] = SumFunctionOnSet(held, Tasks) + held'[t]
  <2>1. PICK f, g : f = held /\ g = held'
    OBVIOUS
  <2>2. (\A u \in Tasks : f[u] \in Nat /\ g[u] \in Nat) /\ \A u \in Tasks \ {t} : f[u] = g[u]
    BY <1>3, <2>1
  <2>3. SumFunctionOnSet(g, Tasks) + f[t] = SumFunctionOnSet(f, Tasks) + g[t]
    BY <1>1, <2>2, SumChange
  <2> QED
    BY <2>1, <2>3
<1>5. SumFunctionOnSet(held', Tasks) \in Nat /\ SumFunctionOnSet(held, Tasks) \in Nat
  BY <1>1, <1>3, SumType
<1> QED
  BY <1>1, <1>2, <1>4, <1>5

\* Taken permits are held.
LEMMA SemTake ==
    ASSUME SemInv, UNCHANGED using, NEW t \in Tasks, NEW n \in Nat \ {0},
           Acquires!Idle(t), Acquires!MayTake(n), Acquires!TakePermits(t, n),
           UNCHANGED <<closed, ready, acquire_woken, added, forgotten>>
    PROVE  SemInv'
<1>1. /\ SemTypes /\ available' = available - n /\ held' = [held EXCEPT ![t] = n]
      /\ UNCHANGED <<queue, asked, closed, ready, acquire_woken, added, forgotten, using>>
      /\ queue = <<>> /\ available >= n /\ asked[t] = 0 /\ held[t] = 0
  BY DEF SemInv, Acquires!Idle, Acquires!MayTake, Acquires!TakePermits
<1>2. /\ held' \in [Tasks -> Nat] /\ (\A u \in Tasks : u # t => held'[u] = held[u])
      /\ SumFunctionOnSet(held', Tasks) + held[t] = SumFunctionOnSet(held, Tasks) + n
      /\ SumFunctionOnSet(held', Tasks) \in Nat /\ SumFunctionOnSet(held, Tasks) \in Nat
  BY <1>1, HeldChange
<1>3. SemTypes'
  <2>1. QueueInv(queue)'
    BY <1>1 DEF SemTypes, QueueInv
  <2>2. available' \in Nat
    BY <1>1 DEF SemTypes
  <2> QED
    BY <1>1, <1>2, <2>1, <2>2 DEF SemTypes
<1>4. SemWaits'
  BY <1>1, <1>2 DEF SemWaits, SemInv, Who
<1>5. Around(available, ready, queue)' = Around(available, ready, queue) - n
  <2>1. available \in Nat
    BY <1>1 DEF SemTypes
  <2>2. SumFunctionOnSet(asked, ready) \in Nat
        /\ SumFunctionOnSet(Given(queue), 1 .. Len(queue)) \in Nat
    BY <1>1, SemSums
  <2>3. Around(available, ready, queue)'
            = (available - n) + SumFunctionOnSet(asked, ready)
              + SumFunctionOnSet(Given(queue), 1 .. Len(queue))
    BY <1>1 DEF Around, Given
  <2> QED
    BY <2>1, <2>2, <2>3 DEF Around
<1>6. Total' = Total
  <2>1. Around(available, ready, queue) \in Nat /\ forgotten \in Nat /\ forgotten' = forgotten
    BY <1>1, SemSums DEF SemTypes
  <2>2. SumFunctionOnSet(held', Tasks) = SumFunctionOnSet(held, Tasks) + n
    BY <1>1, <1>2
  <2> QED
    BY <1>2, <1>5, <2>1, <2>2 DEF Total
<1>7. SemCount'
  BY <1>1, <1>6 DEF SemCount, Cap, SemInv
<1> QED
  BY <1>3, <1>4, <1>7 DEF SemInv

\* A new waiter is last, with the permits that were left.
LEMMA SemEnqueue ==
    ASSUME SemInv, UNCHANGED using, NEW t \in Tasks, NEW n \in Nat \ {0},
           Acquires!Idle(t), ~closed, ~Acquires!MayTake(n), Acquires!EnqueueWaiter(t, n),
           UNCHANGED <<closed, ready, acquire_woken, added, forgotten>>
    PROVE  SemInv'
<1> DEFINE reserved == IF queue = <<>> THEN available ELSE 0
           new == [task |-> t, required |-> n, remaining |-> n - reserved]
           l == Len(queue)
<1>1. /\ SemTypes /\ SemWaits /\ available' = available - reserved /\ queue' = Append(queue, new)
      /\ asked' = [asked EXCEPT ![t] = n]
      /\ UNCHANGED <<held, closed, ready, acquire_woken, added, forgotten, using>>
      /\ ~(queue = <<>> /\ available >= n) /\ asked[t] = 0 /\ held[t] = 0
  BY DEF SemInv, Acquires!Idle, Acquires!MayTake, Acquires!EnqueueWaiter
<1>2. /\ available \in Nat /\ ready \subseteq Tasks /\ asked \in [Tasks -> Nat] /\ QueueInv(queue)
      /\ held \in [Tasks -> Nat] /\ added \in Nat /\ forgotten \in Nat
  BY <1>1 DEF SemTypes
<1>3. reserved \in Nat /\ reserved < n /\ available - reserved = 0
  BY <1>1, <1>2 DEF SemWaits
<1> HIDE DEF reserved
<1>4. new \in Waiter /\ new.task = t /\ new.required = n /\ new.remaining = n - reserved
  BY <1>3 DEF Waiter
<1> HIDE DEF new
<1>5. queue \in Seq(Waiter) /\ l \in Nat
  BY <1>2 DEF QueueInv
<1>6. /\ queue' \in Seq(Waiter) /\ Len(queue') = l + 1 /\ queue'[l + 1] = new
      /\ \A i \in 1 .. l : queue'[i] = queue[i]
  BY <1>1, <1>4, <1>5
<1>7. \A i \in 1 .. l + 1 : i \in 1 .. l \/ i = l + 1
  BY <1>5
<1>8. asked' \in [Tasks -> Nat] /\ asked'[t] = n /\ \A u \in Tasks : u # t => asked'[u] = asked[u]
  BY <1>1, <1>2
<1>9. t \notin Who(queue) /\ t \notin ready
  <2>1. \A i \in 1 .. l : queue[i].task # t
    <3> TAKE i \in 1 .. l
    <3>1. asked[queue[i].task] = queue[i].required
      BY <1>2 DEF QueueInv
    <3>2. queue[i].required \in Nat \ {0}
      BY <1>2, QueueNumbers
    <3> QED
      BY <1>1, <3>1, <3>2
  <2> QED
    BY <1>1, <2>1 DEF Who, SemWaits
<1>10. Who(queue') = Who(queue) \cup {t}
  <2>1. \A u : u \in Who(queue') <=> \E i \in 1 .. l + 1 : u = queue'[i].task
    BY <1>6 DEF Who
  <2>2. \A u : u \in Who(queue) <=> \E i \in 1 .. l : u = queue[i].task
    BY DEF Who
  <2>3. l + 1 \in 1 .. l + 1 /\ \A i \in 1 .. l : i \in 1 .. l + 1
    BY <1>5
  <2> QED
    BY <1>4, <1>6, <1>7, <2>1, <2>2, <2>3
<1>11. QueueInv(queue)'
  <2>1. \A i \in 1 .. l : /\ queue[i].required = asked[queue[i].task]
                          /\ queue[i].remaining <= queue[i].required
                          /\ queue[i].task \in Tasks /\ queue[i].task # t
    BY <1>2, <1>9, QueueNumbers DEF QueueInv, Who
  <2>2. \A i \in 1 .. l + 1 : /\ queue'[i].required = asked'[queue'[i].task]
                              /\ queue'[i].remaining <= queue'[i].required
    <3> TAKE i \in 1 .. l + 1
    <3>1. CASE i \in 1 .. l
      BY <1>6, <1>8, <2>1, <3>1
    <3>2. CASE i = l + 1
      BY <1>3, <1>4, <1>6, <1>8, <3>2
    <3> QED
      BY <1>7, <3>1, <3>2
  <2>3. \A i, j \in 1 .. l + 1 : queue'[i].task = queue'[j].task => i = j
    <3>1. \A i, j \in 1 .. l : queue[i].task = queue[j].task => i = j
      BY <1>2 DEF QueueInv
    <3> QED
      BY <1>4, <1>6, <1>7, <2>1, <3>1
  <2> QED
    BY <1>6, <2>2, <2>3 DEF QueueInv
<1>12. SemTypes'
  BY <1>1, <1>2, <1>3, <1>8, <1>11 DEF SemTypes
<1>13. SemWaits'
  <2>1. ~closed'
    BY <1>1
  <2>2. available' = 0
    BY <1>1, <1>3
  <2>3. \A u \in ready' : asked'[u] > 0 /\ u \notin Who(queue')
    <3>1. \A u \in ready : asked[u] > 0 /\ u \notin Who(queue) /\ u # t /\ u \in Tasks
      BY <1>1, <1>2, <1>9 DEF SemWaits
    <3> QED
      BY <1>1, <1>8, <1>10, <3>1
  <2>4. ASSUME NEW u \in Tasks, asked'[u] > 0
        PROVE  /\ held'[u] = 0
               /\ ~closed' => u \in ready' \cup Who(queue')
               /\ u \in ready' \/ closed' => u \in acquire_woken'
    <3>1. CASE u = t
      BY <1>1, <1>9, <1>10, <2>1, <3>1
    <3>2. CASE u # t
      <4>1. asked[u] > 0
        BY <1>8, <2>4, <3>2
      <4>2. /\ held[u] = 0
            /\ ~closed => u \in ready \cup Who(queue)
            /\ u \in ready \/ closed => u \in acquire_woken
        BY <1>1, <4>1 DEF SemWaits
      <4> QED
        BY <1>1, <1>10, <4>2
    <3> QED
      BY <3>1, <3>2
  <2> QED
    BY <2>1, <2>2, <2>3, <2>4 DEF SemWaits
<1>14. SumFunctionOnSet(asked', ready') = SumFunctionOnSet(asked, ready)
  <2>1. IsFiniteSet(ready) /\ \A u \in ready : asked[u] \in Nat /\ asked[u] = asked'[u]
    BY <1>2, <1>8, <1>9, SemaphoreConstants, FS_Subset
  <2>2. SumFunctionOnSet(asked, ready) = SumFunctionOnSet(asked', ready)
    BY <2>1, SumSame
  <2> QED
    BY <1>1, <2>2
<1>15. SumFunctionOnSet(Given(queue'), 1 .. Len(queue'))
           = SumFunctionOnSet(Given(queue), 1 .. l) + reserved
  <2> DEFINE u == Given(queue')
             v == Given(queue)
  <2>1. u[l + 1] = reserved
    <3>1. u[l + 1] = queue'[l + 1].required - queue'[l + 1].remaining
      BY <1>5, <1>6 DEF Given
    <3> QED
      BY <1>3, <1>4, <1>6, <3>1
  <2>2. \A i \in 1 .. l : v[i] \in Nat /\ u[i] = v[i]
    <3>1. \A i \in 1 .. l : v[i] \in Nat
      BY <1>2, QueueNumbers
    <3>2. \A i \in 1 .. l : u[i] = v[i]
      <4>1. \A i \in 1 .. l : u[i] = queue'[i].required - queue'[i].remaining
        BY <1>5, <1>6 DEF Given
      <4>2. \A i \in 1 .. l : v[i] = queue[i].required - queue[i].remaining
        BY <1>5 DEF Given
      <4> QED
        BY <1>6, <4>1, <4>2
    <3> QED
      BY <3>1, <3>2
  <2>3. \A i \in 1 .. l + 1 : u[i] \in Nat
    BY <1>3, <1>7, <2>1, <2>2
  <2> HIDE DEF u, v
  <2>4. SumFunctionOnSet(u, 1 .. l + 1) = SumFunctionOnSet(u, 1 .. l) + u[l + 1]
    <3>1. l + 1 \in Nat /\ l \in 0 .. (l + 1) - 1
      BY <1>5
    <3> QED
      BY <2>3, <3>1, SumUpTo
  <2>5. SumFunctionOnSet(v, 1 .. l) = SumFunctionOnSet(u, 1 .. l)
    <3>1. IsFiniteSet(1 .. l)
      BY <1>5, FS_Interval
    <3> QED
      BY <2>2, <3>1, SumSame
  <2> QED
    BY <1>6, <2>1, <2>4, <2>5 DEF u, v
<1>16. Around(available, ready, queue)' = Around(available, ready, queue)
  <2>1. SumFunctionOnSet(asked, ready) \in Nat /\ SumFunctionOnSet(Given(queue), 1 .. l) \in Nat
    BY <1>1, SemSums
  <2>2. Around(available, ready, queue)'
            = (available - reserved) + SumFunctionOnSet(asked', ready')
              + SumFunctionOnSet(Given(queue'), 1 .. Len(queue'))
    BY <1>1 DEF Around, Given
  <2>3. Around(available, ready, queue)
            = available + SumFunctionOnSet(asked, ready) + SumFunctionOnSet(Given(queue), 1 .. l)
    BY DEF Around
  <2> HIDE DEF l
  <2> QED
    BY <1>2, <1>3, <1>14, <1>15, <2>1, <2>2, <2>3
<1>17. Total' = Total
  BY <1>1, <1>16 DEF Total
<1>18. SemCount'
  BY <1>1, <1>17 DEF SemCount, Cap, SemInv
<1> QED
  BY <1>12, <1>13, <1>18 DEF SemInv

\* A satisfied waiter is polled: what it asked for is held.
LEMMA SemPollReady ==
    ASSUME SemInv, UNCHANGED using, NEW t \in Tasks, Acquires!PollReady(t)
    PROVE  SemInv'
<1>1. /\ SemTypes /\ SemWaits /\ asked[t] > 0 /\ ~closed /\ t \in ready
      /\ ready' = ready \ {t} /\ held' = [held EXCEPT ![t] = asked[t]]
      /\ asked' = [asked EXCEPT ![t] = 0] /\ acquire_woken' = acquire_woken \ {t}
      /\ UNCHANGED <<available, closed, queue, added, forgotten, using>>
  BY DEF SemInv, Acquires!PollReady
<1>2. /\ available \in Nat /\ ready \subseteq Tasks /\ asked \in [Tasks -> Nat] /\ QueueInv(queue)
      /\ added \in Nat /\ forgotten \in Nat /\ asked[t] \in Nat
  BY <1>1 DEF SemTypes
<1>3. held[t] = 0 /\ t \notin Who(queue)
  BY <1>1 DEF SemWaits
<1>4. /\ held' \in [Tasks -> Nat] /\ (\A u \in Tasks : u # t => held'[u] = held[u])
      /\ SumFunctionOnSet(held', Tasks) + held[t] = SumFunctionOnSet(held, Tasks) + asked[t]
      /\ SumFunctionOnSet(held', Tasks) \in Nat /\ SumFunctionOnSet(held, Tasks) \in Nat
  BY <1>1, <1>2, HeldChange
<1>5. asked' \in [Tasks -> Nat] /\ asked'[t] = 0 /\ \A u \in Tasks : u # t => asked'[u] = asked[u]
  BY <1>1, <1>2
<1>6. QueueInv(queue)' /\ Who(queue') = Who(queue)
  <2>1. \A i \in 1 .. Len(queue) : asked'[queue[i].task] = asked[queue[i].task]
    <3>1. \A i \in 1 .. Len(queue) : queue[i].task \in Tasks /\ queue[i].task # t
      BY <1>2, <1>3, QueueNumbers DEF Who
    <3> QED
      BY <1>5, <3>1
  <2> QED
    BY <1>1, <1>2, <2>1 DEF QueueInv, Who
<1>7. SemTypes'
  BY <1>1, <1>2, <1>4, <1>5, <1>6 DEF SemTypes
<1>8. SemWaits'
  <2>1. queue' # <<>> => available' = 0 /\ ~closed'
    BY <1>1 DEF SemWaits
  <2>2. \A u \in ready' : asked'[u] > 0 /\ u \notin Who(queue')
    BY <1>1, <1>2, <1>5, <1>6 DEF SemWaits
  <2>3. ASSUME NEW u \in Tasks, asked'[u] > 0
        PROVE  /\ held'[u] = 0
               /\ ~closed' => u \in ready' \cup Who(queue')
               /\ u \in ready' \/ closed' => u \in acquire_woken'
    <3>1. u # t /\ asked[u] > 0
      BY <1>5, <2>3
    <3>2. /\ held[u] = 0
          /\ ~closed => u \in ready \cup Who(queue)
          /\ u \in ready \/ closed => u \in acquire_woken
      BY <1>1, <3>1 DEF SemWaits
    <3> QED
      BY <1>1, <1>4, <1>6, <3>1, <3>2
  <2> QED
    BY <2>1, <2>2, <2>3 DEF SemWaits
<1>9. SumFunctionOnSet(asked, ready) = asked[t] + SumFunctionOnSet(asked', ready')
      /\ SumFunctionOnSet(asked', ready') \in Nat
  <2>1. IsFiniteSet(ready) /\ \A u \in ready : asked[u] \in Nat
    BY <1>2, SemaphoreConstants, FS_Subset
  <2>2. SumFunctionOnSet(asked, ready) = asked[t] + SumFunctionOnSet(asked, ready \ {t})
    BY <1>1, <2>1, SumRemove
  <2>3. IsFiniteSet(ready \ {t}) /\ \A u \in ready \ {t} : asked[u] \in Nat /\ asked[u] = asked'[u]
    BY <1>2, <1>5, <2>1, FS_Subset
  <2>4. SumFunctionOnSet(asked, ready \ {t}) = SumFunctionOnSet(asked', ready \ {t})
        /\ SumFunctionOnSet(asked, ready \ {t}) \in Nat
    BY <2>3, SumSame, SumType
  <2> QED
    BY <1>1, <2>2, <2>4
<1>10. /\ Around(available, ready, queue)' + asked[t] = Around(available, ready, queue)
       /\ Around(available, ready, queue)' \in Nat
  <2>1. SumFunctionOnSet(Given(queue), 1 .. Len(queue)) \in Nat
    BY <1>1, SemSums
  <2>2. Around(available, ready, queue)'
            = available + SumFunctionOnSet(asked', ready')
              + SumFunctionOnSet(Given(queue), 1 .. Len(queue))
    BY <1>1 DEF Around, Given
  <2> QED
    BY <1>2, <1>9, <2>1, <2>2 DEF Around
<1>11. Total' = Total
  <2>1. Around(available, ready, queue) \in Nat /\ Around(available, ready, queue)' \in Nat
    BY <1>1, <1>10, SemSums
  <2>2. forgotten' = forgotten /\ held[t] = 0
    BY <1>1, <1>3
  <2> QED
    BY <1>2, <1>4, <1>10, <2>1, <2>2 DEF Total
<1>12. SemCount'
  BY <1>1, <1>11 DEF SemCount, Cap, SemInv
<1> QED
  BY <1>7, <1>8, <1>12 DEF SemInv

\* A queued waiter is polled again.
LEMMA SemPollPending ==
    ASSUME SemInv, UNCHANGED using, NEW t \in Tasks, Acquires!PollPending(t)
    PROVE  SemInv'
<1>1. /\ ~closed /\ t \in Who(queue) /\ acquire_woken' = acquire_woken \ {t}
      /\ UNCHANGED <<available, closed, queue, ready, asked, held, added, forgotten, using>>
      /\ SemTypes /\ SemWaits /\ SemCount
  BY DEF SemInv, Acquires!PollPending, Acquires!Queued, Who
<1>2. SemTypes' /\ SemCount'
  BY <1>1 DEF SemTypes, QueueInv, SemCount, Total, Cap, Around, Given
<1>3. SemWaits'
  BY <1>1 DEF SemWaits, Who
<1> QED
  BY <1>2, <1>3 DEF SemInv

\* A pending acquire is dropped, or polled after closing.
LEMMA SemCancel ==
    ASSUME SemInv, UNCHANGED using, NEW t \in Tasks, asked[t] > 0, NEW w,
           Acquires!CancelWaiter(t, w), acquire_woken \ {t} \subseteq w,
           asked' = [asked EXCEPT ![t] = 0], UNCHANGED <<closed, held, added, forgotten>>
    PROVE  SemInv'
<1>1. SemTypes /\ SemWaits /\ SemCount
  BY DEF SemInv
<1>2. PICK q, k, left : \E n \in Nat :
              /\ QueueInv(q) /\ Granted(q, ready \ {t}, n, w, k, left)
              /\ Who(q) = Who(queue) \ {t} /\ InOrder(q, queue)
              /\ Around(n, ready \ {t}, q) = Around(available, ready, queue)
  BY <1>1, CancelShape
<1>3. PICK n \in Nat :
              /\ QueueInv(q) /\ Granted(q, ready \ {t}, n, w, k, left)
              /\ Who(q) = Who(queue) \ {t}
              /\ Around(n, ready \ {t}, q) = Around(available, ready, queue)
  BY <1>2
<1>4. /\ held \in [Tasks -> Nat] /\ asked \in [Tasks -> Nat] /\ added \in Nat /\ forgotten \in Nat
      /\ ready \subseteq Tasks
  BY <1>1 DEF SemTypes
<1>5. asked' \in [Tasks -> Nat] /\ asked'[t] = 0 /\ \A u \in Tasks : u # t => asked'[u] = asked[u]
  BY <1>4
<1>6. Who(q) \subseteq Tasks
  BY <1>3, QueueNumbers DEF Who
<1>7. \A u \in Tasks : asked'[u] > 0 =>
               /\ held'[u] = 0 /\ asked'[u] = asked[u]
               /\ (u \in ready => u \in ready \ {t}) /\ (u \in Who(queue) => u \in Who(q))
               /\ (u \in acquire_woken => u \in w)
  <2> TAKE u \in Tasks
  <2> HAVE asked'[u] > 0
  <2>1. u # t /\ asked'[u] = asked[u]
    BY <1>5
  <2>2. held'[u] = 0
    BY <1>1, <2>1 DEF SemWaits
  <2> QED
    BY <1>3, <2>1, <2>2
<1>8. \A u \in (ready \ {t}) \cup Who(q) : asked'[u] = asked[u]
  BY <1>3, <1>4, <1>5, <1>6
<1>9. /\ ready \ {t} \in SUBSET ready /\ Who(q) \subseteq Who(queue)
      /\ held' \in [Tasks -> Nat] /\ added' \in Nat /\ forgotten' \in Nat
  BY <1>3, <1>4
<1>10. SemTypes' /\ SemWaits' /\ Around(available, ready, queue)' = Around(n, ready \ {t}, q)
  BY <1>1, <1>3, <1>5, <1>7, <1>8, <1>9, GrantInv
<1>11. Total' = Total
  BY <1>3, <1>10 DEF Total
<1>12. SemCount'
  BY <1>1, <1>11 DEF SemCount, Cap
<1> QED
  BY <1>10, <1>12 DEF SemInv

\* Two sides that grow alike stay in balance.
LEMMA Balance ==
    ASSUME NEW a \in Nat, NEW b \in Nat, NEW c \in Nat, NEW x \in Nat, NEW y \in Nat, a + x = b + y
    PROVE  (b <= c + x => a <= c + y) /\ (b = c + x => a = c + y)
OBVIOUS

\* Permits come back to the semaphore.
LEMMA SemReturn ==
    ASSUME SemInv, UNCHANGED <<using, closed, asked>>, NEW d \in Nat,
           Acquires!Grant(queue, ready, available + d, acquire_woken),
           held' \in [Tasks -> Nat], \A t \in Tasks : held[t] = 0 => held'[t] = 0,
           added' \in Nat, UNCHANGED forgotten,
           SumFunctionOnSet(held', Tasks) \in Nat,
           SumFunctionOnSet(held', Tasks) + d + added = SumFunctionOnSet(held, Tasks) + added'
    PROVE  SemInv'
<1>1. SemTypes /\ SemWaits /\ SemCount
  BY DEF SemInv
<1>2. /\ held \in [Tasks -> Nat] /\ asked \in [Tasks -> Nat] /\ added \in Nat /\ forgotten \in Nat
      /\ ready \subseteq Tasks /\ QueueInv(queue) /\ available \in Nat
  BY <1>1 DEF SemTypes
<1> DEFINE n == available + d
<1>3. n \in Nat
  BY <1>2
<1>4. Around(n, ready, queue) = Around(available, ready, queue) + d
  <2>1. SumFunctionOnSet(asked, ready) \in Nat /\ SumFunctionOnSet(Given(queue), 1 .. Len(queue)) \in Nat
    BY <1>1, SemSums
  <2> QED
    BY <1>2, <2>1 DEF Around
<1>5. Acquires!Grant(queue, ready, n, acquire_woken)
  OBVIOUS
<1> HIDE DEF n
<1>6. PICK k, left : Granted(queue, ready, n, acquire_woken, k, left)
  BY <1>2, <1>3, <1>5, GrantShape
<1>7. \A u \in Tasks : asked'[u] > 0 =>
               /\ held'[u] = 0 /\ asked'[u] = asked[u]
               /\ (u \in ready => u \in ready) /\ (u \in Who(queue) => u \in Who(queue))
               /\ (u \in acquire_woken => u \in acquire_woken)
  BY <1>1 DEF SemWaits
<1>8. \A u \in ready \cup Who(queue) : asked'[u] = asked[u]
  OBVIOUS
<1>9. /\ ready \in SUBSET ready /\ Who(queue) \subseteq Who(queue) /\ UNCHANGED closed
      /\ asked' \in [Tasks -> Nat] /\ forgotten' \in Nat
  BY <1>2
<1>10. SemTypes' /\ SemWaits' /\ Around(available, ready, queue)' = Around(n, ready, queue)
  BY <1>1, <1>2, <1>3, <1>6, <1>7, <1>8, <1>9, GrantInv
<1>11. /\ Around(available, ready, queue) \in Nat /\ SumFunctionOnSet(held, Tasks) \in Nat
       /\ Cap \in Nat
  BY <1>1, SemSums
<1>12. Total' + added = Total + added' /\ Total \in Nat /\ Total' \in Nat
  BY <1>2, <1>4, <1>10, <1>11 DEF Total
<1>13. SemCount'
  <2>1. Cap' = Cap /\ closed' = closed
    BY DEF Cap
  <2>2. Total <= Cap + added /\ (~closed => Total = Cap + added)
    BY <1>1 DEF SemCount
  <2>3. (Total <= Cap + added => Total' <= Cap + added') /\ (Total = Cap + added => Total' = Cap + added')
    <3>1. Total' \in Nat /\ Total \in Nat /\ Cap \in Nat /\ added \in Nat /\ added' \in Nat
          /\ Total' + added = Total + added'
      BY <1>2, <1>11, <1>12
    <3>2. PICK a \in Nat, b \in Nat, c \in Nat, x \in Nat, y \in Nat :
             a = Total' /\ b = Total /\ c = Cap /\ x = added /\ y = added'
      BY <3>1, Zenon
    <3>3. a + x = b + y
      BY <3>1, <3>2, Zenon
    <3>4. (b <= c + x => a <= c + y) /\ (b = c + x => a = c + y)
      BY <3>3, Balance
    <3> QED
      BY <3>2, <3>4, Zenon
  <2>4. Total' <= Cap + added' /\ (~closed => Total' = Cap + added')
    BY <2>2, <2>3, Zenon
  <2> QED
    BY <2>1, <2>4 DEF SemCount
<1> QED
  BY <1>10, <1>13 DEF SemInv

\* A permit is forgotten.
LEMMA SemForget ==
    ASSUME SemInv, UNCHANGED using, NEW t \in Tasks, Acquires!Forget(t)
    PROVE  SemInv'
<1>1. /\ held' = [held EXCEPT ![t] = 0] /\ forgotten' = forgotten + held[t]
      /\ UNCHANGED <<available, closed, queue, ready, asked, acquire_woken, added, using>>
      /\ SemTypes /\ SemWaits /\ SemCount
  BY DEF SemInv, Acquires!Forget
<1>2. /\ held' \in [Tasks -> Nat] /\ held'[t] = 0 /\ (\A u \in Tasks : u # t => held'[u] = held[u])
      /\ SumFunctionOnSet(held', Tasks) + held[t] = SumFunctionOnSet(held, Tasks) + 0
      /\ SumFunctionOnSet(held', Tasks) \in Nat /\ SumFunctionOnSet(held, Tasks) \in Nat
      /\ held[t] \in Nat
  BY <1>1, HeldChange
<1>3. SemTypes'
  <2>1. QueueInv(queue)'
    BY <1>1 DEF SemTypes, QueueInv
  <2>2. forgotten' \in Nat
    BY <1>1, <1>2 DEF SemTypes
  <2> QED
    BY <1>1, <1>2, <2>1, <2>2 DEF SemTypes
<1>4. SemWaits'
  <2>1. \A u \in Tasks : held[u] = 0 => held'[u] = 0
    BY <1>2
  <2> QED
    BY <1>1, <2>1 DEF SemWaits, Who
<1>5. Around(available, ready, queue)' = Around(available, ready, queue)
  BY <1>1 DEF Around, Given
<1>6. Total' = Total
  <2>1. Around(available, ready, queue) \in Nat /\ forgotten \in Nat
    BY <1>1, SemSums DEF SemTypes
  <2> QED
    BY <1>1, <1>2, <1>5, <2>1 DEF Total
<1>7. SemCount'
  BY <1>1, <1>6 DEF SemCount, Cap
<1> QED
  BY <1>3, <1>4, <1>7 DEF SemInv

\* Closing wakes who waits; what they were given is lost.
LEMMA SemClose ==
    ASSUME SemInv, UNCHANGED using, Acquires!Close
    PROVE  SemInv'
<1>1. /\ ~closed /\ closed' = TRUE /\ queue' = <<>> /\ acquire_woken' = acquire_woken \cup Who(queue)
      /\ UNCHANGED <<available, ready, asked, held, added, forgotten, using>>
      /\ SemTypes /\ SemWaits /\ SemCount
  BY DEF SemInv, Acquires!Close, Acquires!Queued, Who
<1>2. QueueInv(queue)' /\ Who(queue)' = {}
  BY <1>1 DEF QueueInv, Who
<1>3. SemTypes'
  BY <1>1, <1>2 DEF SemTypes
<1>4. SemWaits'
  <2>1. \A u \in ready' : asked'[u] > 0 /\ u \notin Who(queue)'
    BY <1>1, <1>2 DEF SemWaits
  <2>2. ASSUME NEW u \in Tasks, asked'[u] > 0
        PROVE  held'[u] = 0 /\ u \in acquire_woken'
    BY <1>1, <2>2 DEF SemWaits
  <2> QED
    BY <1>1, <2>1, <2>2 DEF SemWaits
<1>5. SumFunctionOnSet(Given(queue), 1 .. Len(queue))' = 0
  <2>1. 1 .. Len(queue') = {}
    BY <1>1
  <2> QED
    BY <2>1, SumEmpty
<1>6. /\ SumFunctionOnSet(asked, ready) \in Nat /\ SumFunctionOnSet(held, Tasks) \in Nat
      /\ SumFunctionOnSet(Given(queue), 1 .. Len(queue)) \in Nat
      /\ Cap \in Nat /\ available \in Nat /\ forgotten \in Nat /\ added \in Nat
  BY <1>1, SemSums DEF SemTypes
<1>7. Total' = available + SumFunctionOnSet(asked, ready) + 0 + SumFunctionOnSet(held, Tasks) + forgotten
  BY <1>1, <1>5 DEF Total, Around
<1>8. Total = available + SumFunctionOnSet(asked, ready) + SumFunctionOnSet(Given(queue), 1 .. Len(queue))
              + SumFunctionOnSet(held, Tasks) + forgotten
  BY DEF Total, Around
<1>9. Total <= Cap + added
  BY <1>1 DEF SemCount
<1>10. Total' <= Cap + added
  BY <1>6, <1>7, <1>8, <1>9
<1>11. SemCount'
  BY <1>1, <1>10 DEF SemCount, Cap
<1> QED
  BY <1>3, <1>4, <1>11 DEF SemInv

\* The invariant is kept.
LEMMA SemNext ==
    ASSUME SemInv, UNCHANGED using, [SemaphoreSteps]_semaphore
    PROVE  SemInv'
<1>1. CASE UNCHANGED semaphore
  BY <1>1 DEF semaphore, SemInv, SemTypes, SemWaits, SemCount, Total, Cap, Around, Given, QueueInv, Who
<1>2. ASSUME NEW t \in Tasks, NEW n \in Nat \ {0}, Acquires!Acquire(t, n) \/ Acquires!TryAcquire(t, n)
      PROVE  SemInv'
  <2>1. /\ Acquires!Idle(t) /\ ~closed
        /\ UNCHANGED <<closed, ready, acquire_woken, added, forgotten>>
        /\ \/ Acquires!MayTake(n) /\ Acquires!TakePermits(t, n)
           \/ ~Acquires!MayTake(n) /\ Acquires!EnqueueWaiter(t, n)
    BY <1>2 DEF Acquires!Acquire, Acquires!TryAcquire
  <2> QED
    BY <2>1, SemTake, SemEnqueue
<1>3. ASSUME NEW t \in Tasks, Acquires!Poll(t)
      PROVE  SemInv'
  <2>1. CASE Acquires!PollClosed(t)
    <3>1. /\ asked[t] > 0 /\ Acquires!CancelWaiter(t, acquire_woken \ {t})
          /\ asked' = [asked EXCEPT ![t] = 0] /\ UNCHANGED <<closed, held, added, forgotten>>
      BY <2>1 DEF Acquires!PollClosed
    <3> QED
      BY <3>1, SemCancel
  <2> QED
    BY <1>3, <2>1, SemPollReady, SemPollPending DEF Acquires!Poll
<1>4. ASSUME NEW t \in Tasks, Acquires!DropAcquire(t)
      PROVE  SemInv'
  <2>1. /\ asked[t] > 0 /\ Acquires!CancelWaiter(t, acquire_woken)
        /\ asked' = [asked EXCEPT ![t] = 0] /\ UNCHANGED <<closed, held, added, forgotten>>
    BY <1>4 DEF Acquires!DropAcquire
  <2>2. acquire_woken \ {t} \subseteq acquire_woken
    OBVIOUS
  <2> QED
    BY <2>1, <2>2, SemCancel
<1>5. ASSUME NEW t \in Tasks, Acquires!Release(t)
      PROVE  SemInv'
  <2>1. /\ Acquires!Grant(queue, ready, available + held[t], acquire_woken)
        /\ held' = [held EXCEPT ![t] = 0] /\ UNCHANGED <<closed, asked, added, forgotten>>
        /\ SemTypes
    BY <1>5 DEF Acquires!Release, SemInv
  <2>2. /\ held' \in [Tasks -> Nat] /\ held'[t] = 0 /\ (\A u \in Tasks : u # t => held'[u] = held[u])
        /\ SumFunctionOnSet(held', Tasks) + held[t] = SumFunctionOnSet(held, Tasks) + 0
        /\ SumFunctionOnSet(held', Tasks) \in Nat /\ SumFunctionOnSet(held, Tasks) \in Nat
        /\ held[t] \in Nat
    BY <2>1, HeldChange
  <2>3. added \in Nat /\ added' \in Nat
    BY <2>1 DEF SemTypes
  <2>4. SumFunctionOnSet(held', Tasks) + held[t] + added = SumFunctionOnSet(held, Tasks) + added'
    BY <2>1, <2>2, <2>3
  <2>5. \A u \in Tasks : held[u] = 0 => held'[u] = 0
    BY <2>2
  <2> DEFINE d == held[t]
  <2>6. d \in Nat /\ Acquires!Grant(queue, ready, available + d, acquire_woken)
        /\ SumFunctionOnSet(held', Tasks) + d + added = SumFunctionOnSet(held, Tasks) + added'
    BY <2>1, <2>2, <2>4
  <2> HIDE DEF d
  <2> QED
    BY <2>1, <2>2, <2>3, <2>5, <2>6, SemReturn
<1>6. ASSUME NEW n \in Nat \ {0}, Acquires!AddPermits(n)
      PROVE  SemInv'
  <2>1. /\ Acquires!Grant(queue, ready, available + n, acquire_woken)
        /\ added' = added + n /\ UNCHANGED <<closed, asked, held, forgotten>>
        /\ SemTypes
    BY <1>6 DEF Acquires!AddPermits, SemInv
  <2>2. added \in Nat /\ added' \in Nat /\ held' \in [Tasks -> Nat] /\ n \in Nat
        /\ \A u \in Tasks : held[u] = 0 => held'[u] = 0
    BY <2>1 DEF SemTypes
  <2>3. SumFunctionOnSet(held', Tasks) \in Nat /\ SumFunctionOnSet(held, Tasks) \in Nat
        /\ SumFunctionOnSet(held', Tasks) = SumFunctionOnSet(held, Tasks)
    BY <2>1, SemSums
  <2>4. SumFunctionOnSet(held', Tasks) + n + added = SumFunctionOnSet(held, Tasks) + added'
    BY <2>1, <2>2, <2>3
  <2> QED
    BY <2>1, <2>2, <2>3, <2>4, SemReturn
<1> QED
  BY <1>1, <1>2, <1>3, <1>4, <1>5, <1>6, SemForget, SemClose DEF SemaphoreSteps

-----------------------------------------------------------------------------
(* What follows from the invariant.                                          *)

\* What the invariant says of the properties of the run.
LEMMA SemSafe ==
    ASSUME SemInv
    PROVE  /\ IF using = "rwlock" THEN Lock!PermitsConserved ELSE Acquires!PermitsConserved
           /\ Acquires!WaiterRegistered /\ Acquires!NoLostWakeup
<1>1. SemTypes /\ SemWaits /\ SemCount
  BY DEF SemInv
<1> DEFINE A == SumFunctionOnSet(asked, ready)
           H == SumFunctionOnSet(held, Tasks)
           G == SumFunctionOnSet(Given(queue), 1 .. Len(queue))
           T == available + H + A + G + forgotten
<1>2. T <= Cap + added /\ (~closed => T = Cap + added)
  <2>1. A \in Nat /\ H \in Nat /\ G \in Nat /\ available \in Nat /\ forgotten \in Nat
    BY <1>1, SemSums DEF SemTypes
  <2>2. Total = available + A + G + H + forgotten
    BY DEF Total, Around
  <2> HIDE DEF A, H, G
  <2>3. T = Total
    BY <2>1, <2>2
  <2> QED
    BY <1>1, <2>3 DEF SemCount
<1>3. ASSUME using = "rwlock"
      PROVE  Lock!PermitsConserved
  <2>1. Cap = MaxReaders
    BY <1>3 DEF Cap
  <2> QED
    <3>1. /\ Lock!SumFunctionOnSet(held, Tasks) = H
          /\ Lock!SumFunctionOnSet(asked, ready) = A
          /\ Lock!SumFunctionOnSet([i \in 1 .. Len(queue) |-> queue[i].required - queue[i].remaining],
                                   1 .. Len(queue)) = G
      BY SemaphoreLibrary DEF Given
    <3> HIDE DEF H, A, G
    <3>2. Lock!PermitsConserved <=>
            /\ available + H + A + G + forgotten <= Cap + added
            /\ ~closed => available + H + A + G + forgotten = Cap + added
      BY <2>1, <3>1 DEF Lock!PermitsConserved
    <3> QED
      BY <1>2, <1>3, <3>2
<1>4. ASSUME using # "rwlock"
      PROVE  Acquires!PermitsConserved
  <2>1. Cap = Permits
    BY <1>4 DEF Cap
  <2> QED
    <3>1. /\ Acquires!SumFunctionOnSet(held, Tasks) = H
          /\ Acquires!SumFunctionOnSet(asked, ready) = A
          /\ Acquires!SumFunctionOnSet([i \in 1 .. Len(queue) |-> queue[i].required - queue[i].remaining],
                                   1 .. Len(queue)) = G
      BY SemaphoreLibrary DEF Given
    <3> HIDE DEF H, A, G
    <3>2. Acquires!PermitsConserved <=>
            /\ available + H + A + G + forgotten <= Cap + added
            /\ ~closed => available + H + A + G + forgotten = Cap + added
      BY <2>1, <3>1 DEF Acquires!PermitsConserved
    <3> QED
      BY <1>2, <1>4, <3>2
<1>5. Acquires!Queued = Who(queue)
  BY DEF Acquires!Queued, Who
<1>6. Acquires!WaiterRegistered
  <2>1. \A i \in 1 .. Len(queue) : asked[queue[i].task] > 0
    <3> TAKE i \in 1 .. Len(queue)
    <3>1. queue[i].required = asked[queue[i].task] /\ queue[i].required \in Nat \ {0}
      BY <1>1, QueueNumbers DEF SemTypes, QueueInv
    <3> QED
      BY <3>1
  <2>2. \A t \in Who(queue) : asked[t] > 0
    BY <2>1 DEF Who
  <2>3. \A t \in ready : asked[t] > 0 /\ t \notin Who(queue)
    BY <1>1 DEF SemWaits
  <2>4. \A t \in Tasks : asked[t] > 0 /\ ~closed => t \in ready \cup Who(queue)
    BY <1>1 DEF SemWaits
  <2>5. \A i, j \in 1 .. Len(queue) : queue[i].task = queue[j].task => i = j
    BY <1>1 DEF SemTypes, QueueInv
  <2>6. \A t \in Tasks : asked[t] > 0 /\ ~closed => (t \in ready) # (t \in Who(queue))
    BY <2>3, <2>4, Zenon
  <2>7. \A t \in Tasks : t \in ready \cup Who(queue) => asked[t] > 0
    BY <2>2, <2>3
  <2> QED
    BY <1>5, <2>5, <2>6, <2>7, Zenon DEF Acquires!WaiterRegistered
<1>7. Acquires!NoLostWakeup
  BY <1>1 DEF Acquires!NoLostWakeup, SemWaits
<1> QED
  BY <1>3, <1>4, <1>6, <1>7

\* What first come, first served asks of a step.
Fair ==
    /\ \A i, j \in 1 .. Len(queue) :
          i < j /\ queue[j].task \in ready' \ ready => queue[i].task \notin Acquires!Queued'
    /\ \A t \in Tasks : held'[t] > held[t] /\ t \notin ready => queue = <<>>

\* A grant serves the first.
LEMMA GrantFair ==
    ASSUME SemTypes, NEW q, QueueInv(q), NEW r \in SUBSET ready, NEW n, NEW w, NEW k, NEW left,
           Granted(q, r, n, w, k, left), Who(q) \subseteq Who(queue), InOrder(q, queue),
           \A i \in 1 .. Len(q) : asked'[q[i].task] = asked[q[i].task],
           NEW i \in 1 .. Len(queue), NEW j \in 1 .. Len(queue), i < j,
           queue[j].task \in ready' \ ready
    PROVE  queue[i].task \notin Acquires!Queued'
<1>1. k \in 0 .. Len(q) /\ ready' = r \cup {q[a].task : a \in 1 .. k}
  BY DEF Granted
<1>2. Len(q) \in Nat
  BY QueueNumbers
<1>3. Who(queue') = {q[a].task : a \in k + 1 .. Len(q)}
  BY GrantQueue
<1>4. PICK b \in 1 .. k : queue[j].task = q[b].task
  BY <1>1
<1>5. Acquires!Queued' = Who(queue')
  BY DEF Acquires!Queued, Who
<1> SUFFICES ASSUME queue[i].task \in Who(queue')
             PROVE  FALSE
  BY <1>5
<1>6. PICK a \in k + 1 .. Len(q) : queue[i].task = q[a].task
  BY <1>3
<1>7. a \in 1 .. Len(q) /\ b \in 1 .. Len(q) /\ b < a
  BY <1>1, <1>2
<1>8. a < b
  BY <1>4, <1>6, <1>7 DEF InOrder
<1> QED
  BY <1>2, <1>7, <1>8

\* Every step of a semaphore is fair.
LEMMA SemFair ==
    ASSUME SemInv, [SemaphoreSteps]_semaphore
    PROVE  [Fair]_semaphore
<1>1. SemTypes /\ SemWaits
  BY DEF SemInv
<1>2. ready \subseteq Tasks /\ QueueInv(queue) /\ held \in [Tasks -> Nat] /\ asked \in [Tasks -> Nat]
      /\ available \in Nat
  BY <1>1 DEF SemTypes
<1>3. \A i, j \in 1 .. Len(queue) : queue[i].task = queue[j].task => i = j
  BY <1>2 DEF QueueInv
<1>4. InOrder(queue, queue)
  BY <1>3 DEF InOrder
<1>5. ASSUME ready' \subseteq ready, \A t \in Tasks : held'[t] > held[t] /\ t \notin ready => queue = <<>>
      PROVE  Fair
  BY <1>5 DEF Fair
<1>6. ASSUME NEW d \in Nat, Acquires!Grant(queue, ready, available + d, acquire_woken),
             UNCHANGED asked, \A t \in Tasks : ~(held'[t] > held[t])
      PROVE  Fair
  <2> DEFINE n == available + d
  <2>1. n \in Nat /\ Acquires!Grant(queue, ready, n, acquire_woken)
    BY <1>2, <1>6
  <2> HIDE DEF n
  <2>2. PICK k, left : Granted(queue, ready, n, acquire_woken, k, left)
    BY <1>2, <2>1, GrantShape
  <2>3. /\ ready \in SUBSET ready /\ Who(queue) \subseteq Who(queue)
        /\ \A i \in 1 .. Len(queue) : asked'[queue[i].task] = asked[queue[i].task]
    BY <1>6
  <2>4. \A i, j \in 1 .. Len(queue) :
          i < j /\ queue[j].task \in ready' \ ready => queue[i].task \notin Acquires!Queued'
    BY <1>1, <1>2, <1>4, <2>2, <2>3, GrantFair
  <2> QED
    BY <1>6, <2>4 DEF Fair
<1>7. ASSUME NEW t \in Tasks, asked[t] > 0, NEW w, Acquires!CancelWaiter(t, w),
             asked' = [asked EXCEPT ![t] = 0], UNCHANGED held
      PROVE  Fair
  <2>1. PICK q, k, left : \E n \in Nat :
                /\ QueueInv(q) /\ Granted(q, ready \ {t}, n, w, k, left)
                /\ Who(q) = Who(queue) \ {t} /\ InOrder(q, queue)
                /\ Around(n, ready \ {t}, q) = Around(available, ready, queue)
    BY <1>1, <1>7, CancelShape
  <2>2. PICK n \in Nat :
                /\ QueueInv(q) /\ Granted(q, ready \ {t}, n, w, k, left)
                /\ Who(q) = Who(queue) \ {t} /\ InOrder(q, queue)
    BY <2>1
  <2>3. \A i \in 1 .. Len(q) : asked'[q[i].task] = asked[q[i].task]
    <3>1. \A i \in 1 .. Len(q) : q[i].task \in Who(q) /\ q[i].task \in Tasks
      BY <2>2, QueueNumbers DEF Who
    <3> QED
      BY <1>2, <1>7, <2>2, <3>1
  <2>4. ready \ {t} \in SUBSET ready /\ Who(q) \subseteq Who(queue)
    BY <2>2
  <2>5. \A i, j \in 1 .. Len(queue) :
          i < j /\ queue[j].task \in ready' \ ready => queue[i].task \notin Acquires!Queued'
    BY <1>1, <2>2, <2>3, <2>4, GrantFair
  <2>6. \A u \in Tasks : ~(held'[u] > held[u])
    BY <1>2, <1>7
  <2> QED
    BY <2>5, <2>6 DEF Fair
<1>8. CASE UNCHANGED semaphore
  BY <1>8
<1>9. ASSUME NEW t \in Tasks, NEW n \in Nat \ {0}, Acquires!Acquire(t, n) \/ Acquires!TryAcquire(t, n)
      PROVE  Fair
  <2>1. CASE Acquires!MayTake(n) /\ Acquires!TakePermits(t, n)
    BY <1>5, <1>9, <2>1 DEF Acquires!Acquire, Acquires!TryAcquire, Acquires!MayTake
  <2>2. CASE Acquires!EnqueueWaiter(t, n)
    BY <1>2, <1>5, <1>9, <2>2 DEF Acquires!Acquire, Acquires!TryAcquire, Acquires!EnqueueWaiter
  <2> QED
    BY <1>9, <2>1, <2>2 DEF Acquires!Acquire, Acquires!TryAcquire
<1>10. ASSUME NEW t \in Tasks, Acquires!Poll(t) \/ Acquires!DropAcquire(t) \/ Acquires!Release(t)
                               \/ Acquires!Forget(t)
       PROVE  Fair
  <2>1. CASE Acquires!PollReady(t)
    BY <1>2, <1>5, <2>1 DEF Acquires!PollReady
  <2>2. CASE Acquires!PollPending(t)
    BY <1>2, <1>5, <2>2 DEF Acquires!PollPending
  <2>3. CASE Acquires!PollClosed(t)
    BY <1>7, <2>3 DEF Acquires!PollClosed
  <2>4. CASE Acquires!DropAcquire(t)
    BY <1>7, <2>4 DEF Acquires!DropAcquire
  <2>5. CASE Acquires!Release(t)
    <3>1. Acquires!Grant(queue, ready, available + held[t], acquire_woken) /\ UNCHANGED asked
          /\ held' = [held EXCEPT ![t] = 0] /\ held[t] \in Nat
      BY <1>2, <2>5 DEF Acquires!Release
    <3>2. \A u \in Tasks : ~(held'[u] > held[u])
      BY <1>2, <3>1
    <3> QED
      BY <1>6, <3>1, <3>2
  <2>6. CASE Acquires!Forget(t)
    BY <1>2, <1>5, <2>6 DEF Acquires!Forget
  <2> QED
    BY <1>10, <2>1, <2>2, <2>3, <2>4, <2>5, <2>6 DEF Acquires!Poll
<1>11. ASSUME NEW n \in Nat \ {0}, Acquires!AddPermits(n)
       PROVE  Fair
  <2>1. Acquires!Grant(queue, ready, available + n, acquire_woken) /\ UNCHANGED <<asked, held>>
    BY <1>11 DEF Acquires!AddPermits
  <2>2. \A u \in Tasks : ~(held'[u] > held[u])
    BY <1>2, <2>1
  <2> QED
    BY <1>6, <2>1, <2>2
<1>12. ASSUME Acquires!Close
       PROVE  Fair
  BY <1>2, <1>5, <1>12 DEF Acquires!Close
<1> QED
  BY <1>8, <1>9, <1>10, <1>11, <1>12 DEF SemaphoreSteps

-----------------------------------------------------------------------------
(* The reader-writer lock.                                                   *)

\* The lock is never closed, no permit is added or forgotten, and guards and requests
\* are of one permit or of all.
RwSizes == {0, 1, MaxReaders}

RwInv ==
    using = "rwlock" => /\ ~closed /\ added = 0 /\ forgotten = 0
                        /\ asked \in [Tasks -> RwSizes] /\ held \in [Tasks -> RwSizes]

\* Two guards never have more permits than there are.
HeldFits ==
    using = "rwlock" => \A t, u \in Tasks : t # u => held[t] + held[u] <= MaxReaders

\* A lock starts with all permits available and no guard.
LEMMA RwInit ==
    ASSUME IF using = "rwlock" THEN Lock!Init ELSE Acquires!Init
    PROVE  RwInv
BY DEF RwInv, RwSizes, Lock!Init

\* What a step of the lock does to the guards.
RwGuards ==
    \/ UNCHANGED held
    \/ \E t \in Tasks : /\ held[t] = 0
                        /\ held' = [held EXCEPT ![t] = 1] \/ held' = [held EXCEPT ![t] = MaxReaders]
    \/ \E t \in Tasks : held[t] > 0 /\ held' = [held EXCEPT ![t] = 0]

\* Every step of the lock keeps the sizes of its guards and moves guards as RwGuards says.
LEMMA RwSteps ==
    ASSUME SemInv, RwInv, using = "rwlock", UNCHANGED using, [Lock!RwNext]_semaphore
    PROVE  RwInv' /\ RwGuards
<1>1. /\ ~closed /\ added = 0 /\ forgotten = 0
      /\ asked \in [Tasks -> RwSizes] /\ held \in [Tasks -> RwSizes]
  BY DEF RwInv
<1>2. CASE UNCHANGED semaphore
  BY <1>2 DEF semaphore, RwInv, RwGuards
<1>3. ASSUME NEW t \in Tasks, NEW n \in {1, MaxReaders}, Lock!Acquire(t, n) \/ Lock!TryAcquire(t, n)
      PROVE  RwInv' /\ RwGuards
  <2>1. /\ UNCHANGED <<closed, added, forgotten>> /\ held[t] = 0
        /\ \/ held' = [held EXCEPT ![t] = n] /\ UNCHANGED asked
           \/ asked' = [asked EXCEPT ![t] = n] /\ UNCHANGED held
    BY <1>3 DEF Lock!Acquire, Lock!TryAcquire, Lock!Idle, Lock!TakePermits, Lock!EnqueueWaiter
  <2>2. n \in RwSizes
    BY DEF RwSizes
  <2>3. asked' \in [Tasks -> RwSizes] /\ held' \in [Tasks -> RwSizes]
    BY <1>1, <2>1, <2>2
  <2>4. RwGuards
    BY <2>1 DEF RwGuards
  <2> QED
    BY <1>1, <2>1, <2>3, <2>4 DEF RwInv
<1>4. ASSUME NEW t \in Tasks, Lock!PollReady(t)
      PROVE  RwInv' /\ RwGuards
  <2>1. /\ asked[t] > 0 /\ UNCHANGED <<closed, added, forgotten>>
        /\ held' = [held EXCEPT ![t] = asked[t]] /\ asked' = [asked EXCEPT ![t] = 0]
    BY <1>4 DEF Lock!PollReady
  <2>2. held[t] = 0
    BY <2>1 DEF SemInv, SemWaits
  <2>3. asked[t] \in {1, MaxReaders}
    BY <1>1, <2>1 DEF RwSizes
  <2>4. RwGuards
    BY <2>1, <2>2, <2>3 DEF RwGuards
  <2>5. asked' \in [Tasks -> RwSizes] /\ held' \in [Tasks -> RwSizes]
    BY <1>1, <2>1 DEF RwSizes
  <2> QED
    BY <1>1, <2>1, <2>4, <2>5 DEF RwInv
<1>5. ASSUME NEW t \in Tasks, Lock!PollPending(t)
      PROVE  RwInv' /\ RwGuards
  BY <1>1, <1>5 DEF Lock!PollPending, RwInv, RwGuards
<1>6. ASSUME NEW t \in Tasks, Lock!DropAcquire(t)
      PROVE  RwInv' /\ RwGuards
  <2>1. UNCHANGED <<closed, held, added, forgotten>> /\ asked' = [asked EXCEPT ![t] = 0]
    BY <1>6 DEF Lock!DropAcquire
  <2> QED
    BY <1>1, <2>1 DEF RwInv, RwGuards, RwSizes
<1>7. ASSUME NEW t \in Tasks, Lock!Release(t)
      PROVE  RwInv' /\ RwGuards
  <2>1. /\ UNCHANGED <<closed, asked, added, forgotten>> /\ held[t] > 0
        /\ held' = [held EXCEPT ![t] = 0]
    BY <1>7 DEF Lock!Release
  <2> QED
    BY <1>1, <2>1 DEF RwInv, RwGuards, RwSizes
<1>8. ASSUME Lock!RwNext
      PROVE  RwInv' /\ RwGuards
  <2>1. PICK t \in Tasks :
           \/ Lock!Read(t) \/ Lock!Write(t) \/ Lock!TryRead(t) \/ Lock!TryWrite(t)
           \/ Lock!PollReady(t) \/ Lock!PollPending(t) \/ Lock!DropAcquire(t) \/ Lock!Release(t)
    BY <1>8 DEF Lock!RwNext
  <2>2. CASE Lock!Read(t) \/ Lock!Write(t) \/ Lock!TryRead(t) \/ Lock!TryWrite(t)
    <3>1. \E n \in {1, MaxReaders} : Lock!Acquire(t, n) \/ Lock!TryAcquire(t, n)
      BY <2>2 DEF Lock!Read, Lock!Write, Lock!TryRead, Lock!TryWrite, Lock!MaxReads
    <3> QED
      BY <1>3, <3>1
  <2> QED
    BY <1>4, <1>5, <1>6, <1>7, <2>1, <2>2
<1> QED
  BY <1>2, <1>8

\* The invariant of the lock is kept.
LEMMA RwNextInv ==
    ASSUME SemInv, RwInv, UNCHANGED using,
           [IF using = "rwlock" THEN Lock!RwNext ELSE Acquires!Next]_semaphore
    PROVE  RwInv'
<1>1. CASE using = "rwlock"
  BY <1>1, RwSteps
<1>2. CASE using # "rwlock"
  BY <1>2 DEF RwInv
<1> QED
  BY <1>1, <1>2

\* The count of the permits bounds any two guards.
LEMMA RwFits ==
    ASSUME SemInv, RwInv
    PROVE  HeldFits
<1> SUFFICES ASSUME using = "rwlock", NEW t \in Tasks, NEW u \in Tasks, t # u
             PROVE  held[t] + held[u] <= MaxReaders
  BY DEF HeldFits
<1>1. ~closed /\ added = 0 /\ forgotten = 0 /\ Cap = MaxReaders /\ SemTypes
  BY DEF RwInv, Cap, SemInv
<1>2. Total = MaxReaders + 0
  BY <1>1 DEF SemInv, SemCount
<1>3. /\ Around(available, ready, queue) \in Nat /\ SumFunctionOnSet(held, Tasks) \in Nat
      /\ MaxReaders \in Nat
  BY <1>1, SemSums, SemaphoreConstants
<1>4. SumFunctionOnSet(held, Tasks) <= MaxReaders
  BY <1>1, <1>2, <1>3 DEF Total
<1>5. IsFiniteSet(Tasks) /\ (\A x \in Tasks : held[x] \in Nat) /\ u \in Tasks \ {t}
  BY <1>1, SemaphoreConstants DEF SemTypes
<1>6. held[t] + held[u] <= SumFunctionOnSet(held, Tasks)
  BY <1>5, SumMembers
<1>7. held[t] \in Nat /\ held[u] \in Nat
  BY <1>5
<1> QED
  BY <1>3, <1>4, <1>6, <1>7

\* The modes of the guards, as the reader-writer lock has them.
RwMode == [t \in Tasks |-> IF using = "rwlock" THEN Lock!Mode(t) ELSE "none"]

\* Every step of the lock is a step of a reader-writer lock.
LEMMA RwRefines ==
    ASSUME SemInv, RwInv, HeldFits', UNCHANGED using,
           [IF using = "rwlock" THEN Lock!RwNext ELSE Acquires!Next]_semaphore
    PROVE  [Abstract!Next]_RwMode
<1>1. CASE using # "rwlock"
  BY <1>1 DEF RwMode
<1>2. CASE using = "rwlock"
  <2>1. /\ RwGuards /\ held \in [Tasks -> RwSizes] /\ MaxReaders \in Nat /\ MaxReaders > 1
        /\ \A t, u \in Tasks : t # u => held'[t] + held'[u] <= MaxReaders
    BY <1>2, RwSteps, SemaphoreConstants DEF RwInv, HeldFits
  <2>2. /\ \A t \in Tasks : RwMode[t] = IF held[t] = 0 THEN "none"
                                        ELSE IF held[t] = MaxReaders THEN "write" ELSE "read"
        /\ \A t \in Tasks : RwMode'[t] = IF held'[t] = 0 THEN "none"
                                         ELSE IF held'[t] = MaxReaders THEN "write" ELSE "read"
        /\ DOMAIN RwMode = Tasks /\ DOMAIN RwMode' = Tasks
        /\ RwMode = [t \in Tasks |-> RwMode[t]] /\ RwMode' = [t \in Tasks |-> RwMode'[t]]
    BY <1>2 DEF RwMode, Lock!Mode, Lock!MaxReads
  <2>3. CASE UNCHANGED held
    BY <1>2, <2>3 DEF RwMode, Lock!Mode, Lock!MaxReads
  <2>4. ASSUME NEW t \in Tasks, held[t] = 0, NEW n \in {1, MaxReaders}, held' = [held EXCEPT ![t] = n]
        PROVE  Abstract!Next
    <3>1. /\ held'[t] = n /\ n # 0 /\ n \in Nat
          /\ \A u \in Tasks : u # t => held'[u] = held[u] /\ held[u] + n <= MaxReaders
      <4>1. held'[t] = n /\ n # 0 /\ n \in Nat /\ \A u \in Tasks : u # t => held'[u] = held[u]
        BY <2>1, <2>4
      <4>2. \A u \in Tasks : u # t => held[u] + n <= MaxReaders
        BY <2>1, <4>1
      <4> QED
        BY <4>1, <4>2
    <3>2. \A u \in Tasks : held[u] \in Nat
      BY <2>1 DEF RwSizes
    <3>3. RwMode[t] = "none" /\ \A u \in Tasks : u # t => RwMode'[u] = RwMode[u]
      BY <2>2, <2>4, <3>1
    <3>4. CASE n = 1
      <4>1. RwMode'[t] = "read"
        BY <2>1, <2>2, <3>1, <3>4
      <4>2. \A u \in Tasks : RwMode[u] # "write"
        BY <2>1, <2>2, <2>4, <3>1, <3>2, <3>4
      <4>3. RwMode' = [RwMode EXCEPT ![t] = "read"]
        BY <2>2, <3>3, <4>1
      <4> QED
        BY <3>3, <4>2, <4>3 DEF Abstract!Next, Abstract!AcquireRead, RwMode
    <3>5. CASE n = MaxReaders
      <4>1. RwMode'[t] = "write"
        BY <2>1, <2>2, <3>1, <3>5
      <4>2. \A u \in Tasks : RwMode[u] = "none"
        <5> TAKE u \in Tasks
        <5>1. held[u] = 0
          BY <2>1, <2>4, <3>1, <3>2, <3>5
        <5> QED
          BY <2>2, <5>1
      <4>3. RwMode' = [RwMode EXCEPT ![t] = "write"]
        BY <2>2, <3>3, <4>1
      <4> QED
        BY <4>2, <4>3 DEF Abstract!Next, Abstract!AcquireWrite, RwMode
    <3> QED
      BY <2>4, <3>4, <3>5
  <2>5. ASSUME NEW t \in Tasks, held[t] > 0, held' = [held EXCEPT ![t] = 0]
        PROVE  Abstract!Next
    <3>1. held'[t] = 0 /\ \A u \in Tasks : u # t => held'[u] = held[u]
      BY <2>1, <2>5
    <3>2. RwMode[t] # "none" /\ RwMode'[t] = "none" /\ \A u \in Tasks : u # t => RwMode'[u] = RwMode[u]
      BY <2>2, <2>5, <3>1
    <3>3. RwMode' = [RwMode EXCEPT ![t] = "none"]
      BY <2>2, <3>2
    <3> QED
      BY <3>2, <3>3 DEF Abstract!Next, Abstract!Drop, RwMode
  <2>6. CASE RwGuards
    BY <2>3, <2>4, <2>5, <2>6 DEF RwGuards
  <2> QED
    BY <2>1, <2>6
<1> QED
  BY <1>1, <1>2

-----------------------------------------------------------------------------
(* The other primitives of the composition. *)

\* The steps of the one task that waits for a channel or for an interval.
ClockNext ==
    \/ Clock!Tick \/ Clock!Send \/ Clock!DropSender \/ Clock!Receive
    \/ \E d \in Durations : Clock!ReceiveWithin(d)
    \/ Clock!Repoll \/ Clock!DropWait
    \/ Clock!StartTick \/ Clock!FinishTick \/ Clock!DropTick
    \/ \E b \in Clock!Behaviors : Clock!SetMissedTickBehavior(b)
    \/ Clock!Reset \/ Clock!ResetImmediately
    \/ \E d \in Durations : Clock!ResetAfter(d)
    \/ \E t \in 0 .. Horizon : Clock!ResetAt(t)

\* Everything but the primitive p stays as it is.
Aside(p) ==
    /\ UNCHANGED using
    /\ p # "mutex" => UNCHANGED mutex
    /\ p # "notify" => UNCHANGED notify
    /\ p # "mpsc" => UNCHANGED mpsc
    /\ p # "join_set" => UNCHANGED join_set
    /\ p # "barrier" => UNCHANGED barrier
    /\ p # "watch" => UNCHANGED watch
    /\ p \notin {"semaphore", "rwlock"} => UNCHANGED semaphore
    /\ p \notin {"timeout", "interval"} => UNCHANGED time

\* A step of the composition is a step of every primitive, or leaves it alone.
LEMMA ComponentSteps ==
    ASSUME [Next]_vars
    PROVE  /\ [Mutex!Next]_(Mutex!vars)
           /\ [Notification!Next]_(Notification!vars)
           /\ [Channel!Next]_(Channel!vars)
           /\ [Joins!Next]_(Joins!vars)
           /\ [Meeting!Next]_(Meeting!vars)
           /\ [Value!Next]_(Value!vars)
           /\ [ClockNext]_time
           /\ using' = using
           /\ [IF using = "rwlock" THEN Lock!RwNext ELSE Acquires!Next]_semaphore
<1> USE DEF On, Aside
<1>1. CASE UNCHANGED vars
  BY <1>1 DEF vars, mutex, notify, mpsc, join_set, barrier, watch, semaphore, time, Mutex!vars,
     Notification!vars, Channel!vars, Joins!vars, Meeting!vars, Value!vars
<1>2. ASSUME NEW t \in Tasks, MutexStep(t)
      PROVE  Mutex!Next /\ Aside("mutex")
  BY <1>2 DEF MutexStep, Mutex!Next
<1>3. ASSUME NEW t \in Tasks, NotifyStep(t)
      PROVE  Notification!Next /\ Aside("notify")
  BY <1>3 DEF NotifyStep, Notification!Next
<1>4. ASSUME NEW t \in Tasks, ChannelStep(t)
      PROVE  Channel!Next /\ Aside("mpsc")
  BY <1>4 DEF ChannelStep, Channel!Next
<1>5. ASSUME NEW t \in Tasks, JoinStep(t)
      PROVE  Joins!Next /\ Aside("join_set")
  BY <1>5 DEF JoinStep, Joins!Next
<1>6. ASSUME NEW t \in Tasks, BarrierStep(t)
      PROVE  Meeting!Next /\ Aside("barrier")
  BY <1>6 DEF BarrierStep, Meeting!Next
<1>7. ASSUME NEW r \in Receivers, WatchStep(r)
      PROVE  Value!Next /\ Aside("watch")
  BY <1>7 DEF WatchStep, Value!Next
<1>8. ASSUME NEW t \in Tasks, SemaphoreStep(t)
      PROVE  using = "semaphore" /\ Acquires!Next /\ Aside("semaphore")
  BY <1>8 DEF SemaphoreStep, Acquires!Next, Acquires!Poll
<1>9. ASSUME NEW t \in Tasks, LockStep(t)
      PROVE  using = "rwlock" /\ Lock!RwNext /\ Aside("rwlock")
  BY <1>9 DEF LockStep, Lock!RwNext
<1>10. ASSUME TimeoutStep \/ IntervalStep
       PROVE  ClockNext /\ Aside("timeout")
  BY <1>10 DEF TimeoutStep, IntervalStep, ClockNext
<1>11. ASSUME \/ \E n \in Amounts : On("semaphore", Acquires!AddPermits(n))
              \/ On("semaphore", Acquires!Close)
       PROVE  using = "semaphore" /\ Acquires!Next /\ Aside("semaphore")
  BY <1>11 DEF Acquires!Next
<1>12. ASSUME \/ On("notify", Notification!NotifyOne) \/ On("notify", Notification!NotifyWaiters)
       PROVE  Notification!Next /\ Aside("notify")
  BY <1>12 DEF Notification!Next
<1>13. ASSUME \/ On("mpsc", Channel!Recv) \/ On("mpsc", Channel!DropRecv)
              \/ On("mpsc", Channel!DropReceiver)
       PROVE  Channel!Next /\ Aside("mpsc")
  BY <1>13 DEF Channel!Next
<1>14. ASSUME \/ On("join_set", Joins!AbortAll) \/ On("join_set", Joins!DetachAll)
              \/ On("join_set", Joins!DropSet) \/ On("join_set", Joins!JoinNext)
              \/ On("join_set", Joins!DropJoinNext)
       PROVE  Joins!Next /\ Aside("join_set")
  BY <1>14 DEF Joins!Next
<1>15. ASSUME \/ On("watch", Value!Send) \/ On("watch", Value!SendReplace)
              \/ On("watch", Value!CloneSender) \/ On("watch", Value!DropSender)
       PROVE  Value!Next /\ Aside("watch")
  BY <1>15 DEF Value!Next
<1> HIDE DEF On, Aside
<1>16. ASSUME Next
       PROVE  \/ Mutex!Next /\ Aside("mutex")
              \/ Notification!Next /\ Aside("notify")
              \/ Channel!Next /\ Aside("mpsc")
              \/ Joins!Next /\ Aside("join_set")
              \/ Meeting!Next /\ Aside("barrier")
              \/ Value!Next /\ Aside("watch")
              \/ using = "semaphore" /\ Acquires!Next /\ Aside("semaphore")
              \/ using = "rwlock" /\ Lock!RwNext /\ Aside("rwlock")
              \/ ClockNext /\ Aside("timeout")
  <2>1. CASE TimeoutStep \/ IntervalStep
    BY <1>10, <2>1, Zenon
  <2>2. ASSUME NEW t \in Tasks,
               \/ MutexStep(t) \/ NotifyStep(t) \/ ChannelStep(t) \/ JoinStep(t) \/ BarrierStep(t)
               \/ SemaphoreStep(t) \/ LockStep(t)
        PROVE  \/ Mutex!Next /\ Aside("mutex")
               \/ Notification!Next /\ Aside("notify")
               \/ Channel!Next /\ Aside("mpsc")
               \/ Joins!Next /\ Aside("join_set")
               \/ Meeting!Next /\ Aside("barrier")
               \/ using = "semaphore" /\ Acquires!Next /\ Aside("semaphore")
               \/ using = "rwlock" /\ Lock!RwNext /\ Aside("rwlock")
    <3>1. CASE MutexStep(t)
      BY <1>2, <3>1
    <3>2. CASE NotifyStep(t)
      BY <1>3, <3>2
    <3>3. CASE ChannelStep(t)
      BY <1>4, <3>3
    <3>4. CASE JoinStep(t)
      BY <1>5, <3>4
    <3>5. CASE BarrierStep(t)
      BY <1>6, <3>5
    <3>6. CASE SemaphoreStep(t)
      BY <1>8, <3>6
    <3>7. CASE LockStep(t)
      BY <1>9, <3>7
    <3> QED
      BY <2>2, <3>1, <3>2, <3>3, <3>4, <3>5, <3>6, <3>7
  <2>3. ASSUME NEW r \in Receivers, WatchStep(r)
        PROVE  Value!Next /\ Aside("watch")
    BY <1>7, <2>3, Zenon
  <2>4. CASE \/ \E n \in Amounts : On("semaphore", Acquires!AddPermits(n))
             \/ On("semaphore", Acquires!Close)
    BY <1>11, <2>4
  <2>5. CASE \/ On("notify", Notification!NotifyOne) \/ On("notify", Notification!NotifyWaiters)
    BY <1>12, <2>5
  <2>6. CASE \/ On("mpsc", Channel!Recv) \/ On("mpsc", Channel!DropRecv)
             \/ On("mpsc", Channel!DropReceiver)
    BY <1>13, <2>6
  <2>7. CASE \/ On("join_set", Joins!AbortAll) \/ On("join_set", Joins!DetachAll)
             \/ On("join_set", Joins!DropSet) \/ On("join_set", Joins!JoinNext)
             \/ On("join_set", Joins!DropJoinNext)
    BY <1>14, <2>7
  <2>8. CASE \/ On("watch", Value!Send) \/ On("watch", Value!SendReplace)
             \/ On("watch", Value!CloneSender) \/ On("watch", Value!DropSender)
    BY <1>15, <2>8
  <2>9. CASE \E t \in Tasks : \/ MutexStep(t) \/ NotifyStep(t) \/ ChannelStep(t) \/ JoinStep(t)
                             \/ BarrierStep(t) \/ SemaphoreStep(t) \/ LockStep(t)
    BY <2>2, <2>9
  <2>10. CASE \E r \in Receivers : WatchStep(r)
    BY <2>3, <2>10
  <2> QED
    BY <1>16, <2>1, <2>4, <2>5, <2>6, <2>7, <2>8, <2>9, <2>10 DEF Next
<1> QED
  BY <1>1, <1>16 DEF Aside, mutex, notify, mpsc, join_set, barrier, watch, Mutex!vars,
     Notification!vars, Channel!vars, Joins!vars, Meeting!vars, Value!vars

-----------------------------------------------------------------------------
(* The watch channel: who waits has been woken, or has a waker in the map of *)
(* an open channel and has seen the present version.                         *)

Reachable(r) == r \in receiver_wakers /\ sender_alive /\ version = seen_version[r]

WatchInv ==
    /\ seen_version \in [Receivers -> Int] /\ version \in Int
    /\ wanted \in [Receivers -> SUBSET Value!Versions]
    /\ alive \subseteq Receivers
    /\ \A r \in Receivers \ alive : wanted[r] = {}
    /\ \A r \in Receivers : wanted[r] # {} => r \in watch_woken \/ Reachable(r)

\* The channel starts without anybody who waits.
LEMMA WatchInit == ASSUME Value!Init PROVE WatchInv
BY DEF Value!Init, WatchInv

\* A poll of a wait that ends with the versions of W keeps the invariant.
LEMMA WatchPoll ==
    ASSUME WatchInv, NEW r \in alive, NEW W \in SUBSET Value!Versions, Value!PollWait(r, W)
    PROVE  WatchInv'
BY DEF WatchInv, Reachable, Value!PollWait, Value!AwaitChange

\* Every step of the channel keeps it.
LEMMA WatchNext == ASSUME WatchInv, [Value!Next]_(Value!vars) PROVE WatchInv'
<1>1. CASE UNCHANGED Value!vars
  BY <1>1 DEF WatchInv, Reachable, Value!vars
<1>2. CASE Value!Send \/ Value!SendReplace
  BY <1>2 DEF WatchInv, Reachable, Value!Send, Value!SendReplace, Value!NewVersion, Value!WakeAll
<1>3. CASE Value!CloneSender
  BY <1>3 DEF WatchInv, Reachable, Value!CloneSender
<1>4. CASE Value!DropSender
  BY <1>4 DEF WatchInv, Reachable, Value!DropSender, Value!CloseChannel, Value!WakeAll
<1>5. ASSUME NEW r \in Receivers, Value!NewReceiver(r) \/ Value!BorrowAndUpdate(r)
      PROVE  WatchInv'
  BY <1>5 DEF WatchInv, Reachable, Value!NewReceiver, Value!BorrowAndUpdate, Value!Waiting
<1>6. ASSUME NEW r \in Receivers, Value!DropReceiver(r) \/ Value!DropWait(r)
      PROVE  WatchInv'
  BY <1>6 DEF WatchInv, Reachable, Value!DropReceiver, Value!RemoveReceiver, Value!DropWait,
     Value!Waiting
<1>7. ASSUME NEW r \in Receivers, Value!Changed(r) \/ Value!WaitFor(r) \/ Value!Repoll(r)
      PROVE  WatchInv'
  <2>1. r \in alive
    BY <1>7 DEF Value!Changed, Value!WaitFor, Value!Repoll, Value!Waiting
  <2>2. \E W \in SUBSET Value!Versions : Value!PollWait(r, W)
    BY <1>7 DEF WatchInv, Value!Changed, Value!WaitFor, Value!Repoll
  <2> QED
    BY <2>1, <2>2, WatchPoll
<1> QED
  BY <1>1, <1>2, <1>3, <1>4, <1>5, <1>6, <1>7 DEF Value!Next

\* No change and no closing of the channel is missed.
LEMMA WatchSafe == ASSUME WatchInv PROVE Value!ChangeWoken
BY DEF WatchInv, Reachable, Value!ChangeWoken, Value!Waiting

-----------------------------------------------------------------------------
(* Timeouts and the oneshot channel.                                         *)

\* Who awaits the channel has been polled for it, or is reached by what comes.
WaitInv ==
    /\ instant \in Nat /\ timer \in Nat \cup {Nil} /\ target \in Nat \cup {Nil}
    /\ poll_due \in BOOLEAN /\ waker \in BOOLEAN
    /\ tx_alive \in BOOLEAN /\ rx_alive \in BOOLEAN
    /\ value \in {Nil, "v"} /\ sent \in {Nil, "ok", "err"}
    /\ waits \in Clock!Waits \cup {Nil} /\ outcome \in Clock!Outcomes \cup {Nil}
    /\ rx_alive = (outcome = Nil)
    /\ tx_alive => sent = Nil
    /\ sent = "ok" => outcome \in {Nil, "value", "dropped"}
    /\ sent = "ok" /\ rx_alive => value # Nil
    /\ sent = "err" => ~rx_alive
    /\ value # Nil => ~tx_alive
    /\ waits \in {"receiver", "timeout"} => rx_alive
    /\ waits \in {"receiver", "timeout"} => poll_due \/ (waker /\ value = Nil /\ tx_alive)
    /\ waits = "receiver" => target = Nil
    /\ waits = "timeout" =>
          target \in Nat /\ (timer = target \/ (timer = Nil /\ instant = target /\ poll_due))
    /\ timer # Nil => waits # Nil /\ timer = target /\ timer > instant

\* What the constants of the clock are.
LEMMA ClockConstants ==
    /\ Durations \subseteq Nat /\ Period \in Nat \ {0} /\ Horizon \in Nat
    /\ Nil \notin Nat
    /\ Nil \notin {"receiver", "timeout", "tick", "value", "closed", "elapsed", "dropped",
                   "v", "ok", "err"}
BY SyncAssumption DEF SyncAssumption, Clock!TimeAssumption, Clock!Waits, Clock!Outcomes

\* The channel is open and nobody waits.
LEMMA WaitInit == ASSUME Clock!TimeInit PROVE WaitInv
BY ClockConstants DEF Clock!TimeInit, WaitInv

\* A poll of the receiver keeps the invariant.
LEMMA WaitPoll ==
    ASSUME WaitInv, rx_alive, NEW t \in Nat \cup {Nil}, t \in Nat => instant <= t,
           Clock!PollWait(t)
    PROVE  WaitInv'
<1> USE ClockConstants DEF Clock!PollWait, Clock!interval_vars, WaitInv, Clock!Waits, Clock!Outcomes
<1>1. CASE Clock!TimeoutPoll(t) = Nil
  <2>1. value = Nil /\ tx_alive /\ (t # Nil => instant < t)
    BY <1>1 DEF Clock!TimeoutPoll, Clock!Received
  <2> QED
    BY <1>1, <2>1 DEF Clock!Asleep
<1>2. CASE Clock!TimeoutPoll(t) # Nil
  <2>1. Clock!TimeoutPoll(t) \in {"value", "closed", "elapsed"}
    BY <1>2 DEF Clock!TimeoutPoll, Clock!Received
  <2>2. value # Nil => Clock!TimeoutPoll(t) = "value"
    BY DEF Clock!TimeoutPoll, Clock!Received
  <2> QED
    BY <1>2, <2>1, <2>2 DEF Clock!EndWait, Clock!Awake
<1> QED
  BY <1>1, <1>2

\* Every step of the clock keeps it.
LEMMA WaitNext ==
    ASSUME WaitInv, next_tick \in Nat, [ClockNext]_time
    PROVE  WaitInv'
<1> USE ClockConstants
<1>1. CASE UNCHANGED time
  BY <1>1 DEF WaitInv, time
<1>2. CASE Clock!Tick
  BY <1>2 DEF WaitInv, Clock!Tick, Clock!channel_vars, Clock!Waits, Clock!Outcomes
<1>3. CASE Clock!Send \/ Clock!DropSender
  BY ZenonT(30), <1>3 DEF WaitInv, Clock!Send, Clock!DropSender, Clock!WakeReceiver, Clock!interval_vars,
     Clock!Waits, Clock!Outcomes
<1>4. CASE Clock!Receive
  BY <1>4, WaitPoll DEF Clock!Receive
<1>5. ASSUME NEW d \in Durations, Clock!ReceiveWithin(d)
      PROVE  WaitInv'
  <2>1. instant + d \in Nat /\ instant <= instant + d
    BY DEF WaitInv
  <2> QED
    BY <1>5, <2>1, WaitPoll DEF Clock!ReceiveWithin
<1>6. CASE Clock!Repoll
  <2>1. rx_alive /\ target \in Nat \cup {Nil} /\ (target \in Nat => instant <= target)
    BY <1>6 DEF WaitInv, Clock!Repoll
  <2> QED
    BY <1>6, <2>1, WaitPoll DEF Clock!Repoll
<1>7. CASE Clock!DropWait
  BY <1>7 DEF WaitInv, Clock!DropWait, Clock!EndWait, Clock!Awake, Clock!interval_vars,
     Clock!Waits, Clock!Outcomes
<1>8. CASE Clock!StartTick \/ Clock!FinishTick \/ Clock!DropTick
  <2>1. CASE Clock!Ticked /\ (waits = Nil \/ waits = "tick")
    BY <2>1 DEF WaitInv, Clock!Ticked, Clock!Awake, Clock!channel_vars, Clock!Waits, Clock!Outcomes
  <2>2. CASE Clock!DropTick
    BY <2>2 DEF WaitInv, Clock!DropTick, Clock!Awake, Clock!channel_vars, Clock!Waits,
       Clock!Outcomes
  <2>3. CASE Clock!StartTick /\ ~Clock!Ticked
    BY <2>3 DEF WaitInv, Clock!StartTick, Clock!Asleep, Clock!channel_vars, Clock!Waits,
       Clock!Outcomes
  <2> QED
    BY <1>8, <2>1, <2>2, <2>3 DEF Clock!StartTick, Clock!FinishTick
<1>9. ASSUME NEW b, Clock!SetMissedTickBehavior(b)
      PROVE  WaitInv'
  BY <1>9 DEF WaitInv, Clock!SetMissedTickBehavior, Clock!channel_vars
<1>10. ASSUME NEW t, Clock!ResetAt(t)
       PROVE  WaitInv'
  BY <1>10 DEF WaitInv, Clock!ResetAt, Clock!channel_vars
<1> QED
  BY <1>1, <1>2, <1>3, <1>4, <1>5, <1>6, <1>7, <1>8, <1>9, <1>10
  DEF ClockNext, Clock!Reset, Clock!ResetImmediately, Clock!ResetAfter

\* No accepted value is answered by a timeout, and nobody sleeps beside one.
LEMMA WaitSafe == ASSUME WaitInv PROVE Clock!TimeoutsExact /\ Clock!ReceiverWakes
<1> USE ClockConstants DEF WaitInv, Clock!Waits, Clock!Outcomes
<1>1. Clock!ReceiverWakes
  BY DEF Clock!ReceiverWakes, Clock!Received
<1>2. sent = "err" => outcome \in Clock!Outcomes
  OBVIOUS
<1>3. waits = "timeout" => instant <= target /\ (instant = target => poll_due)
  OBVIOUS
<1> QED
  BY <1>1, <1>2, <1>3 DEF Clock!TimeoutsExact

-----------------------------------------------------------------------------
(* The interval: the next tick is a number of periods after the start of the *)
(* schedule, and a tick that waits sleeps up to it.                          *)

TickInv ==
    /\ next_tick \in Nat /\ grid \in Nat /\ ticks \in Nat /\ bursts \in BOOLEAN
    /\ missed_tick_behavior \in Clock!Behaviors
    /\ \E k \in Nat : next_tick = grid + k * Period
    /\ bursts => next_tick = grid + ticks * Period
    /\ waits = "tick" => target = next_tick
    /\ last # Nil => /\ last.due \in Nat /\ last.at \in Nat
                     /\ last.due <= last.at /\ last.due < next_tick
                     /\ last.at > last.due /\ last.behavior = "Skip" =>
                            last.at < next_tick /\ next_tick - Period <= last.at
                     /\ last.at > last.due /\ last.behavior = "Delay" =>
                            next_tick = last.at + Period

\* A multiple of the period leaves no rest, and division leaves less than it.
LEMMA Multiples ==
    ASSUME NEW p \in Nat \ {0}
    PROVE  /\ \A k \in Nat : (k * p) % p = 0
           /\ \A n \in Nat : \E q \in Nat : n = q * p + (n % p) /\ n % p \in 0 .. p - 1
<1>1. \A k \in Nat : (k * p) % p = 0
  OBVIOUS
<1>2. ASSUME NEW n \in Nat
      PROVE  \E q \in Nat : n = q * p + (n % p) /\ n % p \in 0 .. p - 1
  <2>1. n \div p \in Nat /\ n = (n \div p) * p + (n % p) /\ n % p \in 0 .. p - 1
    OBVIOUS
  <2> QED
    BY <2>1
<1> QED
  BY <1>1, <1>2

\* The interval starts on its schedule.
LEMMA TickInit == ASSUME Clock!TimeInit PROVE TickInv
<1>1. 0 = 0 + 0 * Period
  BY ClockConstants
<1> QED
  BY <1>1, ClockConstants DEF Clock!TimeInit, TickInv, Clock!Behaviors

\* A tick moves the interval by some periods: by one, unless ticks were missed.
LEMMA TickMoves ==
    ASSUME TickInv, WaitInv, instant >= next_tick, Clock!Ticked
    PROVE  TickInv'
<1> USE ClockConstants
<1>1. instant \in Nat /\ next_tick \in Nat /\ Period \in Nat /\ grid \in Nat /\ ticks \in Nat
  BY DEF WaitInv, TickInv
<1>2. PICK k \in Nat : next_tick = grid + k * Period
  BY DEF TickInv
<1>3. (k + 1) * Period = k * Period + Period /\ (ticks + 1) * Period = ticks * Period + Period
      /\ k * Period \in Nat /\ ticks * Period \in Nat
  BY <1>1
<1>4. waits' = Nil /\ missed_tick_behavior' \in Clock!Behaviors
  BY DEF Clock!Ticked, TickInv
<1>5. last' = [due |-> next_tick, at |-> instant, behavior |-> missed_tick_behavior]
  BY DEF Clock!Ticked
<1>6. last'.due = next_tick /\ last'.at = instant /\ last'.behavior = missed_tick_behavior
  BY <1>5
<1>7. CASE instant > next_tick /\ missed_tick_behavior = "Skip"
  <2> DEFINE late == instant - next_tick
             r == late % Period
  <2>a. next_tick' = instant + Period - r
    BY <1>7 DEF Clock!Ticked, Clock!NextTimeout
  <2>b. grid' = grid /\ ticks' = ticks + 1
    BY <1>7 DEF Clock!Ticked
  <2>c. ~(missed_tick_behavior = "Burst" \/ instant <= next_tick)
    BY <1>1, <1>7
  <2>d. bursts' = FALSE
    BY <1>7, <2>c DEF Clock!Ticked
  <2>2. next_tick' = instant + Period - r /\ grid' = grid /\ ticks' = ticks + 1 /\ bursts' = FALSE
    BY <2>a, <2>b, <2>d
  <2>e. late \in Nat /\ late = instant - next_tick
    BY <1>1, <1>7
  <2> HIDE DEF late
  <2>1. PICK q \in Nat : late = q * Period + (late % Period) /\ late % Period \in 0 .. Period - 1
    BY <1>1, <2>e, Multiples
  <2>3. r \in 0 .. Period - 1 /\ instant - next_tick = q * Period + r
    BY <2>1, <2>e
  <2> HIDE DEF r
  <2>4. (k + q + 1) * Period = k * Period + q * Period + Period /\ q * Period \in Nat
    BY <1>1
  <2>5. next_tick' = grid' + (k + q + 1) * Period
    BY <1>1, <1>2, <1>3, <2>2, <2>3, <2>4
  <2>6. next_tick' \in Nat /\ instant < next_tick' /\ next_tick' - Period <= instant
    BY <1>1, <2>2, <2>3
  <2>7. PICK j \in Nat : j = k + q + 1
    OBVIOUS
  <2>8. \E i \in Nat : next_tick' = grid' + i * Period
    BY <2>5, <2>7
  <2>9. /\ last'.due \in Nat /\ last'.at \in Nat
        /\ last'.due <= last'.at /\ last'.due < next_tick'
        /\ last'.at < next_tick' /\ next_tick' - Period <= last'.at
        /\ last'.behavior = "Skip"
    <3>1. next_tick <= instant /\ next_tick < next_tick'
      BY <1>1, <1>7, <2>6
    <3> QED
      BY <1>1, <1>6, <1>7, <2>6, <3>1, Zenon
  <2>10. ticks' \in Nat /\ grid' \in Nat
    BY <1>1, <2>2
  <2> QED
    BY <1>4, <2>2, <2>6, <2>8, <2>9, <2>10 DEF TickInv
<1>8. CASE instant > next_tick /\ missed_tick_behavior = "Delay"
  <2>1. next_tick' = instant + Period /\ grid' = instant /\ ticks' = 1 /\ bursts' = TRUE
    BY <1>8 DEF Clock!Ticked, Clock!NextTimeout
  <2>2. next_tick' = grid' + 1 * Period
    BY <1>1, <2>1
  <2> QED
    BY <1>1, <1>4, <1>6, <1>8, <2>1, <2>2 DEF TickInv
<1>9. CASE ~(instant > next_tick /\ missed_tick_behavior \in {"Skip", "Delay"})
  <2>1. next_tick' = next_tick + Period /\ grid' = grid /\ ticks' = ticks + 1
    BY <1>1, <1>9 DEF Clock!Ticked, Clock!NextTimeout, TickInv, Clock!Behaviors
  <2>2. bursts' = bursts
    BY <1>1, <1>9 DEF Clock!Ticked, TickInv, Clock!Behaviors
  <2>3. next_tick' = grid' + (k + 1) * Period
    BY <1>1, <1>2, <1>3, <2>1
  <2>4. bursts' => next_tick' = grid' + ticks' * Period
    BY <1>1, <1>3, <2>1, <2>2 DEF TickInv
  <2>5. bursts' \in BOOLEAN
    BY <2>2 DEF TickInv
  <2> QED
    BY <1>1, <1>4, <1>6, <1>9, <2>1, <2>3, <2>4, <2>5 DEF TickInv
<1> QED
  BY <1>7, <1>8, <1>9

\* The schedule starts anew.
LEMMA TickReset ==
    ASSUME TickInv, NEW t \in Nat, Clock!ResetAt(t)
    PROVE  TickInv'
<1>1. t = t + 0 * Period
  BY ClockConstants
<1> QED
  BY <1>1, ClockConstants DEF TickInv, Clock!ResetAt

\* Every step of the clock keeps it.
LEMMA TickNext == ASSUME TickInv, WaitInv, [ClockNext]_time PROVE TickInv'
<1> USE ClockConstants
<1>1. CASE UNCHANGED <<next_tick, grid, ticks, bursts, last, missed_tick_behavior>>
           /\ (waits' = "tick" => target' = next_tick)
  BY <1>1 DEF TickInv
<1>2. CASE UNCHANGED time
  BY <1>1, <1>2 DEF time, TickInv
<1>3. CASE Clock!Tick \/ Clock!Send \/ Clock!DropSender
  BY <1>1, <1>3 DEF TickInv, Clock!Tick, Clock!Send, Clock!DropSender, Clock!interval_vars
<1>4. ASSUME NEW t, Clock!PollWait(t)
      PROVE  TickInv'
  BY <1>1, <1>4 DEF Clock!PollWait, Clock!EndWait, Clock!interval_vars
<1>5. CASE Clock!DropWait
  BY <1>1, <1>5 DEF Clock!DropWait, Clock!EndWait, Clock!interval_vars
<1>6. CASE Clock!StartTick
  BY <1>1, <1>6, TickMoves DEF Clock!StartTick, Clock!Asleep, Clock!interval_vars
<1>7. CASE Clock!FinishTick
  BY <1>7, TickMoves DEF Clock!FinishTick, TickInv
<1>8. CASE Clock!DropTick
  BY <1>1, <1>8 DEF Clock!DropTick, Clock!interval_vars
<1>9. ASSUME NEW b \in Clock!Behaviors, Clock!SetMissedTickBehavior(b)
      PROVE  TickInv'
  BY <1>9 DEF TickInv, Clock!SetMissedTickBehavior
<1>10. ASSUME NEW t \in Nat, Clock!ResetAt(t)
       PROVE  TickInv'
  BY <1>10, TickReset
<1>11. instant \in Nat /\ instant + Period \in Nat /\ (\A d \in Durations : instant + d \in Nat)
       /\ 0 .. Horizon \subseteq Nat
  BY DEF WaitInv
<1> QED
  BY <1>2, <1>3, <1>4, <1>5, <1>6, <1>7, <1>8, <1>9, <1>10, <1>11
  DEF ClockNext, Clock!Receive, Clock!ReceiveWithin, Clock!Repoll, Clock!Reset,
      Clock!ResetImmediately, Clock!ResetAfter

\* Ticks keep to their schedule.
LEMMA TickSafe == ASSUME TickInv PROVE Clock!TicksExact
<1>1. PICK k \in Nat : next_tick = grid + k * Period
  BY DEF TickInv
<1>2. next_tick - grid = k * Period
  BY <1>1, ClockConstants DEF TickInv
<1>3. (k * Period) % Period = 0
  BY ClockConstants, Multiples
<1>4. (next_tick - grid) % Period = 0
  BY <1>2, <1>3
<1> QED
  BY <1>4 DEF TickInv, Clock!TicksExact

-----------------------------------------------------------------------------
(* JoinSet: a task whose handle is in the set still runs or is settled, what *)
(* completed has finished, and a Cancel event is under way for aborted tasks *)
(* only.                                                                     *)

JoinInv ==
    /\ handles \in Seq(Tasks)
    /\ \A i \in 1 .. Len(handles) : handles[i] \in running \cup cancelled \cup completed
    /\ completed \subseteq finished
    /\ cancels \subseteq cancelled
    /\ \A j \in joined : j.ok => j.task \in finished

\* The set starts empty.
LEMMA JoinInit == ASSUME Joins!Init PROVE JoinInv
BY DEF Joins!Init, JoinInv

\* The tasks of a sequence of handles.
LEMMA HandleSet ==
    ASSUME handles \in Seq(Tasks)
    PROVE  Joins!ToSet(handles) = {handles[i] : i \in 1 .. Len(handles)}
BY DEF Joins!ToSet

\* Rotation drops the handle that was ready and makes up none.
LEMMA RotatedHandles ==
    ASSUME handles \in Seq(Tasks), NEW k \in 1 .. Len(handles)
    PROVE  /\ Joins!Rotated(k) \in Seq(Tasks)
           /\ \A i \in 1 .. Len(Joins!Rotated(k)) :
                 \E j \in 1 .. Len(handles) : Joins!Rotated(k)[i] = handles[j]
<1> DEFINE s == SubSeq(handles, k + 1, Len(handles))
           r == SubSeq(handles, 1, k - 1)
<1>1. /\ s \in Seq(Tasks) /\ Len(s) = Len(handles) - k
      /\ \A i \in 1 .. Len(s) : s[i] = handles[k + i] /\ k + i \in 1 .. Len(handles)
  OBVIOUS
<1>2. /\ r \in Seq(Tasks) /\ Len(r) = k - 1
      /\ \A i \in 1 .. Len(r) : r[i] = handles[i] /\ i \in 1 .. Len(handles)
  OBVIOUS
<1> HIDE DEF s, r
<1>3. /\ s \o r \in Seq(Tasks) /\ Len(s \o r) = Len(s) + Len(r)
      /\ \A i \in 1 .. Len(s \o r) : (s \o r)[i] = IF i <= Len(s) THEN s[i] ELSE r[i - Len(s)]
  BY <1>1, <1>2
<1>4. ASSUME NEW i \in 1 .. Len(s \o r)
      PROVE  \E j \in 1 .. Len(handles) : (s \o r)[i] = handles[j]
  <2>1. CASE i <= Len(s)
    BY <1>1, <1>3, <2>1
  <2>2. CASE ~(i <= Len(s))
    <3>1. i - Len(s) \in 1 .. Len(r)
      BY <1>1, <1>2, <1>3, <2>2
    <3> QED
      BY <1>2, <1>3, <2>2, <3>1
  <2> QED
    BY <2>1, <2>2
<1> QED
  BY <1>3, <1>4 DEF s, r, Joins!Rotated

\* Every step of the set keeps it.
LEMMA JoinNextInv == ASSUME JoinInv, [Joins!Next]_(Joins!vars) PROVE JoinInv'
<1> USE DEF JoinInv
<1>1. CASE UNCHANGED Joins!vars
  BY <1>1 DEF Joins!vars
<1>2. ASSUME NEW t \in Tasks, Joins!Spawn(t)
      PROVE  JoinInv'
  <2>1. /\ handles' \in Seq(Tasks) /\ Len(handles') = Len(handles) + 1
        /\ \A i \in 1 .. Len(handles') : handles'[i] = IF i <= Len(handles) THEN handles[i] ELSE t
    BY <1>2 DEF Joins!Spawn
  <2> QED
    BY <1>2, <2>1 DEF Joins!Spawn
<1>3. ASSUME NEW t \in Tasks, Joins!Complete(t) \/ Joins!HandleCancel(t) \/ Joins!Abort(t)
      PROVE  JoinInv'
  BY <1>3 DEF Joins!Complete, Joins!HandleCancel, Joins!Abort
<1>4. CASE Joins!AbortAll \/ Joins!DetachAll \/ Joins!DropSet
  <2>1. PICK S : cancelled' = cancelled \cup S /\ cancels' = cancels \cup S
    <3>1. CASE Joins!DetachAll
      BY <3>1 DEF Joins!DetachAll
    <3>2. CASE Joins!AbortAll \/ Joins!DropSet
      BY <3>2 DEF Joins!AbortAll, Joins!DropSet
    <3> QED
      BY <1>4, <3>1, <3>2
  <2>2. handles' = handles \/ handles' = <<>>
    BY <1>4 DEF Joins!AbortAll, Joins!DetachAll, Joins!DropSet
  <2>3. UNCHANGED <<running, completed, finished, joined>>
    BY <1>4 DEF Joins!AbortAll, Joins!DetachAll, Joins!DropSet
  <2>4. handles' \in Seq(Tasks) /\ \A i \in 1 .. Len(handles') :
                                      handles'[i] \in running' \cup cancelled' \cup completed'
    <3>1. CASE handles' = handles
      BY <2>1, <2>3, <3>1
    <3>2. CASE handles' = <<>>
      BY <3>2
    <3> QED
      BY <2>2, <3>1, <3>2
  <2> QED
    BY <2>1, <2>3, <2>4
<1>5. CASE Joins!JoinNext
  <2>1. UNCHANGED <<running, cancels, completed, cancelled, finished>>
    BY <1>5 DEF Joins!JoinNext
  <2>2. CASE Joins!JoinPending
    BY <2>1, <2>2 DEF Joins!JoinPending
  <2>3. ASSUME NEW k \in 1 .. Len(handles), Joins!JoinOne(k)
        PROVE  JoinInv'
    <3>1. handles' = Joins!Rotated(k)
          /\ joined' = joined \cup {[task |-> handles[k], ok |-> handles[k] \notin cancelled]}
          /\ handles[k] \in cancelled \cup completed
      BY <2>3 DEF Joins!JoinOne, Joins!ReadyHandles, Joins!Settled
    <3>2. /\ handles' \in Seq(Tasks)
          /\ \A i \in 1 .. Len(handles') : \E j \in 1 .. Len(handles) : handles'[i] = handles[j]
      BY <3>1, RotatedHandles
    <3>3. \A j \in joined' : j.ok => j.task \in finished'
      <4> DEFINE n == [task |-> handles[k], ok |-> handles[k] \notin cancelled]
      <4>1. n.ok = (handles[k] \notin cancelled) /\ n.task = handles[k]
        OBVIOUS
      <4>2. n.ok => n.task \in finished
        BY <3>1, <4>1
      <4>3. joined' = joined \cup {n}
        BY <3>1
      <4> HIDE DEF n
      <4> QED
        BY <2>1, <4>2, <4>3
    <3> QED
      BY <2>1, <3>2, <3>3
  <2> QED
    BY <1>5, <2>2, <2>3 DEF Joins!JoinNext
<1>6. CASE Joins!DropJoinNext
  BY <1>6 DEF Joins!DropJoinNext
<1> QED
  BY <1>1, <1>2, <1>3, <1>4, <1>5, <1>6 DEF Joins!Next

\* What was joined with a value ran to its end, and no join waits in vain.
LEMMA JoinSafe == ASSUME JoinInv PROVE Joins!JoinTruthful
BY HandleSet DEF JoinInv, Joins!JoinTruthful, Joins!Settled

-----------------------------------------------------------------------------
(* The barrier: who arrived in the present generation is who waits in it.    *)

Present == {t \in Tasks : wait[t].registered /\ wait[t].generation = generation}

BarrierTypes ==
    /\ generation \in Meeting!Generations /\ arrived \in Nat
    /\ wait \in [Tasks -> [made : BOOLEAN, generation : Nat, registered : BOOLEAN]]
    /\ arrivals \in [Meeting!Generations -> SUBSET Tasks]
    /\ leader \in [Meeting!Generations -> SUBSET Tasks]

BarrierInv ==
    /\ BarrierTypes
    /\ \A t \in Tasks : wait[t].registered => wait[t].made /\ wait[t].generation <= generation
    /\ arrivals[generation] = Present
    /\ arrived = Cardinality(Present) /\ arrived < Parties
    /\ \A g \in Meeting!Generations :
          /\ g < generation => Cardinality(arrivals[g]) = Parties /\ Cardinality(leader[g]) = 1
          /\ g >= generation => leader[g] = {}
          /\ g > generation => arrivals[g] = {}

\* The library's operators are the same under the names they have in Barrier.
LEMMA BarrierLibrary ==
    /\ \A S : Meeting!Cardinality(S) = Cardinality(S)
    /\ \A S : Meeting!IsFiniteSet(S) = IsFiniteSet(S)
<1>1. \A S : Meeting!Cardinality(S) = Cardinality(S)
  BY DEF Meeting!Cardinality, Cardinality
<1>2. \A S : Meeting!IsFiniteSet(S) = IsFiniteSet(S)
  BY Zenon DEF Meeting!IsFiniteSet, IsFiniteSet
<1> QED
  BY <1>1, <1>2

\* What the constants of the barrier are.
LEMMA BarrierConstants ==
    /\ IsFiniteSet(Tasks) /\ Parties \in Nat \ {0} /\ MaxGeneration \in Nat
    /\ Meeting!Generations = 0 .. MaxGeneration
    /\ \A S \in SUBSET Tasks : IsFiniteSet(S) /\ Cardinality(S) \in Nat
<1>1. IsFiniteSet(Tasks) /\ Parties \in Nat \ {0} /\ MaxGeneration \in Nat
  BY SyncAssumption, BarrierLibrary DEF SyncAssumption, Meeting!BarrierAssumption
<1>2. \A S \in SUBSET Tasks : IsFiniteSet(S) /\ Cardinality(S) \in Nat
  BY <1>1, FS_Subset, FS_CardinalityType
<1> QED
  BY <1>1, <1>2 DEF Meeting!Generations

\* The barrier starts in generation 0, and nobody waits.
LEMMA BarrierInit == ASSUME Meeting!Init PROVE BarrierInv
<1> USE BarrierConstants DEF Meeting!Init, Meeting!NoWait
<1>1. BarrierTypes
  BY DEF BarrierTypes
<1>2. Present = {}
  BY DEF Present
<1>3. 0 \in Meeting!Generations /\ \A g \in Meeting!Generations : g >= 0
  OBVIOUS
<1> QED
  BY <1>1, <1>2, <1>3, FS_EmptySet DEF BarrierInv

\* A task that did not wait arrives.
LEMMA BarrierArrive ==
    ASSUME BarrierInv, NEW t \in Tasks, ~wait[t].registered, Meeting!Arrive(generation, t)
    PROVE  BarrierInv'
<1> USE BarrierConstants
<1>t. BarrierTypes
  BY DEF BarrierInv
<1>1. t \notin Present /\ Present \in SUBSET Tasks
  BY DEF Present
<1>2. /\ IsFiniteSet(Present \cup {t})
      /\ Cardinality(Present \cup {t}) = arrived + 1
  BY <1>1, FS_AddElement DEF BarrierInv
<1>3. arrivals' = [arrivals EXCEPT ![generation] = Present \cup {t}]
  BY DEF Meeting!Arrive, Meeting!AddTo, BarrierInv, BarrierTypes
<1>4. CASE Meeting!Release(t) /\ leader' = Meeting!AddTo(leader, generation, t)
           /\ wait' = [wait EXCEPT ![t] = Meeting!NoWait]
  <2>1. /\ generation' = generation + 1 /\ arrived' = 0 /\ arrived + 1 = Parties
        /\ generation' \in Meeting!Generations /\ generation \in Meeting!Generations
    BY <1>4 DEF Meeting!Release, BarrierInv, BarrierTypes
  <2>2. leader' = [leader EXCEPT ![generation] = {t}]
    <3>1. leader[generation] = {}
      BY <1>t, <2>1 DEF BarrierInv, BarrierTypes
    <3>2. leader' = [leader EXCEPT ![generation] = leader[generation] \cup {t}]
      BY <1>4 DEF Meeting!AddTo
    <3> QED
      BY <3>1, <3>2
  <2>3. BarrierTypes'
    BY <1>1, <1>3, <1>4, <1>t, <2>1, <2>2 DEF BarrierTypes, Meeting!NoWait
  <2>4. \A u \in Tasks : wait'[u] = IF u = t THEN Meeting!NoWait ELSE wait[u]
    BY <1>4, <1>t DEF BarrierTypes
  <2>5. \A u \in Tasks : wait'[u].registered =>
            wait'[u].made /\ wait'[u].generation <= generation /\ wait'[u].generation \in Nat
    BY SMTT(30), <2>4, <1>t DEF BarrierInv, BarrierTypes, Meeting!NoWait
  <2>6. Present' = {}
    BY <2>1, <2>5, <1>t DEF Present, BarrierTypes
  <2>7. Cardinality(Present') = 0
    BY <2>6, FS_EmptySet
  <2>8. arrivals'[generation'] = {}
    BY <1>3, <1>t, <2>1 DEF BarrierInv, BarrierTypes
  <2>9. ASSUME NEW g \in Meeting!Generations
        PROVE  /\ g < generation' => Cardinality(arrivals'[g]) = Parties
                                     /\ Cardinality(leader'[g]) = 1
               /\ g >= generation' => leader'[g] = {}
               /\ g > generation' => arrivals'[g] = {}
    <3>1. Cardinality({t}) = 1
      BY FS_Singleton
    <3>2. CASE g = generation
      BY <1>2, <1>3, <1>t, <2>1, <2>2, <3>1, <3>2 DEF BarrierTypes
    <3>3. CASE g # generation
      <4>1. arrivals'[g] = arrivals[g] /\ leader'[g] = leader[g]
        BY <1>3, <1>t, <2>2, <3>3 DEF BarrierTypes
      <4>2. (g < generation' => g < generation) /\ (g >= generation' => g > generation)
        BY <2>1, <3>3
      <4> QED
        BY <2>1, <4>1, <4>2 DEF BarrierInv
    <3> QED
      BY <3>2, <3>3
  <2>10. \A u \in Tasks : wait'[u].registered => wait'[u].made /\ wait'[u].generation <= generation'
    BY <2>1, <2>5
  <2> QED
    BY <2>1, <2>3, <2>6, <2>7, <2>8, <2>9, <2>10 DEF BarrierInv
<1>5. CASE /\ arrived + 1 # Parties
           /\ arrived' = arrived + 1
           /\ wait' = [wait EXCEPT ![t] = [made |-> TRUE, generation |-> generation,
                                           registered |-> TRUE]]
           /\ UNCHANGED <<generation, leader>>
  <2>1. BarrierTypes'
    BY <1>1, <1>3, <1>5, <1>t DEF BarrierTypes
  <2>2. \A u \in Tasks : wait'[u] = IF u = t THEN [made |-> TRUE, generation |-> generation,
                                                   registered |-> TRUE]
                                    ELSE wait[u]
    BY <1>5, <1>t DEF BarrierTypes
  <2>3. Present' = Present \cup {t}
    BY <1>5, <2>2 DEF Present
  <2>4. arrivals'[generation'] = Present'
    BY <1>3, <1>5, <1>t, <2>3 DEF BarrierTypes
  <2>5. arrived' = Cardinality(Present') /\ arrived' < Parties
    BY <1>2, <1>5, <1>t, <2>3 DEF BarrierInv, BarrierTypes
  <2>6. \A u \in Tasks : wait'[u].registered => wait'[u].made /\ wait'[u].generation <= generation'
    BY <1>5, <1>t, <2>2 DEF BarrierInv, BarrierTypes
  <2>7. \A g \in Meeting!Generations : g # generation => arrivals'[g] = arrivals[g]
    BY <1>3, <1>t DEF BarrierTypes
  <2>8. \A g \in Meeting!Generations : (g < generation \/ g > generation) => g # generation
    BY <1>t DEF BarrierTypes
  <2> QED
    BY <1>5, <2>1, <2>4, <2>5, <2>6, <2>7, <2>8 DEF BarrierInv
<1> QED
  BY <1>4, <1>5 DEF Meeting!Arrive

\* A step that leaves all but the wait of t as it is, and t outside before and after.
LEMMA BarrierAside ==
    ASSUME BarrierInv, NEW t \in Tasks, t \notin Present, NEW w,
           w \in [made : BOOLEAN, generation : Nat, registered : BOOLEAN], ~w.registered,
           wait' = [wait EXCEPT ![t] = w],
           UNCHANGED <<arrived, generation, arrivals, leader>>
    PROVE  BarrierInv'
<1>t. BarrierTypes
  BY DEF BarrierInv
<1>1. BarrierTypes'
  BY <1>t DEF BarrierTypes
<1>2. \A u \in Tasks : wait'[u] = IF u = t THEN w ELSE wait[u]
  BY <1>t DEF BarrierTypes
<1>3. Present' = Present
  BY <1>2 DEF Present
<1>4. \A u \in Tasks : wait'[u].registered => wait'[u].made /\ wait'[u].generation <= generation'
  BY <1>2 DEF BarrierInv
<1> QED
  BY <1>1, <1>3, <1>4 DEF BarrierInv

\* Every step of the barrier keeps it.
LEMMA BarrierNext == ASSUME BarrierInv, [Meeting!Next]_(Meeting!vars) PROVE BarrierInv'
<1> USE BarrierConstants
<1>t. BarrierTypes
  BY DEF BarrierInv
<1>n. Meeting!NoWait \in [made : BOOLEAN, generation : Nat, registered : BOOLEAN]
      /\ ~Meeting!NoWait.registered
  BY DEF Meeting!NoWait
<1>1. CASE UNCHANGED Meeting!vars
  BY <1>1 DEF BarrierInv, BarrierTypes, Present, Meeting!vars
<1>2. ASSUME NEW t \in Tasks, Meeting!Pass(t)
      PROVE  BarrierInv'
  BY <1>2, <1>n, BarrierAside DEF Meeting!Pass, Present
<1>3. ASSUME NEW t \in Tasks, Meeting!Wait(t)
      PROVE  BarrierInv'
  BY <1>3, BarrierArrive DEF Meeting!Wait, BarrierInv
<1>4. ASSUME NEW t \in Tasks, Meeting!MakeWait(t)
      PROVE  BarrierInv'
  <2> DEFINE w == [made |-> TRUE, generation |-> generation, registered |-> FALSE]
  <2>1. w \in [made : BOOLEAN, generation : Nat, registered : BOOLEAN] /\ ~w.registered
    BY <1>t DEF BarrierTypes
  <2>2. wait' = [wait EXCEPT ![t] = w] /\ UNCHANGED <<arrived, generation, arrivals, leader>>
    BY <1>4 DEF Meeting!MakeWait
  <2>3. t \notin Present
    BY <1>4 DEF Meeting!MakeWait, BarrierInv, Present
  <2> HIDE DEF w
  <2> QED
    BY <2>1, <2>2, <2>3, BarrierAside
<1>5. ASSUME NEW t \in Tasks, Meeting!FirstPoll(t)
      PROVE  BarrierInv'
  BY <1>2, <1>5, BarrierArrive DEF Meeting!FirstPoll
<1>6. ASSUME NEW t \in Tasks, Meeting!DropWait(t)
      PROVE  BarrierInv'
  <2>1. CASE ~(wait[t].registered /\ generation = wait[t].generation)
    BY <1>6, <1>n, <2>1, BarrierAside DEF Meeting!DropWait, Present
  <2>2. CASE wait[t].registered /\ generation = wait[t].generation
    <3>1. t \in Present /\ Present \in SUBSET Tasks
      BY <2>2 DEF Present
    <3>2. /\ IsFiniteSet(Present \ {t})
          /\ Cardinality(Present \ {t}) = arrived - 1
      BY <3>1, FS_RemoveElement DEF BarrierInv
    <3>3. /\ arrived' = arrived - 1
          /\ UNCHANGED <<generation, leader>>
          /\ wait' = [wait EXCEPT ![t] = Meeting!NoWait]
      BY <1>6, <2>2 DEF Meeting!DropWait, Meeting!Leave
    <3>4. arrivals' = [arrivals EXCEPT ![generation] = Present \ {t}]
      BY <1>6, <1>t, <2>2 DEF Meeting!DropWait, BarrierInv, BarrierTypes
    <3>5. arrived' \in Nat
      BY <3>1, <3>2, <3>3
    <3>6. BarrierTypes'
      BY <1>n, <1>t, <3>1, <3>3, <3>4, <3>5 DEF BarrierTypes
    <3>7. \A u \in Tasks : wait'[u] = IF u = t THEN Meeting!NoWait ELSE wait[u]
      BY <1>t, <3>3 DEF BarrierTypes
    <3>8. Present' = Present \ {t}
      BY <1>n, <3>3, <3>7 DEF Present
    <3>9. arrivals'[generation'] = Present'
      BY <1>t, <3>3, <3>4, <3>8 DEF BarrierTypes
    <3>10. arrived' = Cardinality(Present') /\ arrived' < Parties
      BY <1>t, <3>2, <3>3, <3>5, <3>8 DEF BarrierInv, BarrierTypes
    <3>11. \A u \in Tasks : wait'[u].registered =>
               wait'[u].made /\ wait'[u].generation <= generation'
      BY <1>n, <3>3, <3>7 DEF BarrierInv
    <3>12. \A g \in Meeting!Generations : g # generation => arrivals'[g] = arrivals[g]
      BY <1>t, <3>4 DEF BarrierTypes
    <3>13. \A g \in Meeting!Generations : (g < generation \/ g > generation) => g # generation
      BY <1>t DEF BarrierTypes
    <3> QED
      BY <3>3, <3>6, <3>9, <3>10, <3>11, <3>12, <3>13 DEF BarrierInv
  <2> QED
    BY <2>1, <2>2
<1> QED
  BY <1>1, <1>2, <1>3, <1>4, <1>5, <1>6 DEF Meeting!Next, Meeting!Repoll

\* A generation is released by Parties tasks that were there together.
LEMMA BarrierSafe == ASSUME BarrierInv PROVE Meeting!ReleasedByParties
BY BarrierConstants, BarrierLibrary DEF BarrierInv, BarrierTypes, Meeting!ReleasedByParties

-----------------------------------------------------------------------------
(* The mutex: the guard, the flag and the owner agree; and as long as lock   *)
(* futures are polled when woken and not dropped, the waiters are pending    *)
(* tasks, each once and none of them woken, and who is pending waits or has  *)
(* been woken.                                                               *)

MutexTypes ==
    /\ locked \in BOOLEAN /\ lock_disturbed \in BOOLEAN
    /\ lock_waiters \in Seq(Tasks)
    /\ phase \in [Tasks -> {"idle", "locking", "holding"}]

WaitersInOrder ==
    /\ \A i \in 1 .. Len(lock_waiters) :
          phase[lock_waiters[i]] = "locking" /\ lock_waiters[i] \notin lock_woken
    /\ \A i, j \in 1 .. Len(lock_waiters) : lock_waiters[i] = lock_waiters[j] => i = j
    /\ \A t \in Tasks : phase[t] = "locking" =>
          t \in lock_woken \/ \E i \in 1 .. Len(lock_waiters) : lock_waiters[i] = t
    /\ ~locked /\ (\E t \in Tasks : phase[t] = "locking") =>
          \E t \in lock_woken \cap Tasks : phase[t] = "locking"

MutexInv ==
    /\ MutexTypes
    /\ Mutex!MutualExclusion
    /\ ~lock_disturbed => WaitersInOrder

\* The lock is free and nobody waits.
LEMMA MutexInit == ASSUME Mutex!Init PROVE MutexInv
<1>1. MutexTypes
  <2>1. lock_waiters \in Seq(Tasks)
    BY DEF Mutex!Init
  <2>2. phase \in [Tasks -> {"idle", "locking", "holding"}]
    BY DEF Mutex!Init
  <2> QED
    BY <2>1, <2>2 DEF Mutex!Init, MutexTypes
<1>2. Mutex!MutualExclusion
  BY DEF Mutex!Init, Mutex!MutualExclusion
<1>3. WaitersInOrder
  BY DEF Mutex!Init, WaitersInOrder
<1> QED
  BY <1>1, <1>2, <1>3 DEF MutexInv

\* The lock is taken: nobody has it before, and t afterwards.
LEMMA MutexTake ==
    ASSUME MutexInv, NEW t \in Tasks, Mutex!TakeLock(t), ~locked, phase[t] # "holding",
           lock_woken' \in {lock_woken, lock_woken \ {t}}, lock_disturbed' \in BOOLEAN,
           ~lock_disturbed' => ~lock_disturbed /\ (phase[t] = "idle" \/ t \in lock_woken)
    PROVE  MutexInv'
<1>1. MutexTypes'
  BY DEF MutexInv, MutexTypes, Mutex!TakeLock
<1>2. \A u \in Tasks : phase'[u] = IF u = t THEN "holding" ELSE phase[u]
  BY DEF MutexInv, MutexTypes, Mutex!TakeLock
<1>3. Mutex!MutualExclusion'
  BY <1>2 DEF MutexInv, Mutex!MutualExclusion, Mutex!TakeLock
<1>4. ASSUME ~lock_disturbed'
      PROVE  WaitersInOrder'
  <2>1. lock_waiters' = lock_waiters /\ locked'
    BY DEF Mutex!TakeLock
  <2>2. \A i \in 1 .. Len(lock_waiters) : lock_waiters[i] \in Tasks /\ lock_waiters[i] # t
    BY <1>4 DEF MutexInv, MutexTypes, WaitersInOrder
  <2> QED
    BY <1>2, <1>4, <2>1, <2>2 DEF MutexInv, WaitersInOrder
<1> QED
  BY <1>1, <1>3, <1>4 DEF MutexInv

\* The lock is held: t queues, unless it is queued.
LEMMA MutexEnqueue ==
    ASSUME MutexInv, NEW t \in Tasks, Mutex!EnqueueWaiter(t), locked, phase[t] # "holding",
           lock_woken' = lock_woken \ {t}, lock_disturbed' \in BOOLEAN,
           ~lock_disturbed' => ~lock_disturbed
    PROVE  MutexInv'
<1>q. /\ lock_waiters' \in Seq(Tasks)
      /\ \A i \in 1 .. Len(lock_waiters) : i \in 1 .. Len(lock_waiters')
                                           /\ lock_waiters'[i] = lock_waiters[i]
      /\ \E i \in 1 .. Len(lock_waiters') : lock_waiters'[i] = t
      /\ \A i \in 1 .. Len(lock_waiters') \ 1 .. Len(lock_waiters) : lock_waiters'[i] = t
      /\ \A i, j \in 1 .. Len(lock_waiters') :
            lock_waiters'[i] = t /\ lock_waiters'[j] = t =>
               i = j \/ (i \in 1 .. Len(lock_waiters) /\ j \in 1 .. Len(lock_waiters))
  <2>1. CASE Mutex!Contains(lock_waiters, t)
    <3>1. lock_waiters' = lock_waiters
      BY <2>1 DEF Mutex!EnqueueWaiter
    <3>2. \E i \in 1 .. Len(lock_waiters) : lock_waiters[i] = t
      BY <2>1 DEF Mutex!Contains
    <3> QED
      BY <3>1, <3>2 DEF MutexInv, MutexTypes
  <2>2. CASE ~Mutex!Contains(lock_waiters, t)
    <3>1. lock_waiters' = Append(lock_waiters, t)
      BY <2>2 DEF Mutex!EnqueueWaiter
    <3>2. \A i \in 1 .. Len(lock_waiters) : lock_waiters[i] # t
      BY <2>2 DEF Mutex!Contains
    <3>3. lock_waiters \in Seq(Tasks)
      BY DEF MutexInv, MutexTypes
    <3>4. /\ lock_waiters' \in Seq(Tasks) /\ Len(lock_waiters') = Len(lock_waiters) + 1
          /\ lock_waiters'[Len(lock_waiters) + 1] = t
          /\ \A i \in 1 .. Len(lock_waiters) : lock_waiters'[i] = lock_waiters[i]
      BY <3>1, <3>3
    <3> QED
      BY <3>2, <3>3, <3>4
  <2> QED
    BY <2>1, <2>2
<1>1. MutexTypes'
  BY <1>q DEF MutexInv, MutexTypes, Mutex!EnqueueWaiter
<1>2. \A u \in Tasks : phase'[u] = IF u = t THEN "locking" ELSE phase[u]
  BY DEF MutexInv, MutexTypes, Mutex!EnqueueWaiter
<1>3. Mutex!MutualExclusion'
  BY <1>2 DEF MutexInv, Mutex!MutualExclusion, Mutex!EnqueueWaiter
<1>4. ASSUME ~lock_disturbed'
      PROVE  WaitersInOrder'
  <2>1. locked'
    BY DEF Mutex!EnqueueWaiter
  <2>2. WaitersInOrder
    BY <1>4 DEF MutexInv
  <2>3. \A i \in 1 .. Len(lock_waiters') :
           phase'[lock_waiters'[i]] = "locking" /\ lock_waiters'[i] \notin lock_woken'
    BY <1>1, <1>2, <1>q, <2>2 DEF WaitersInOrder, MutexTypes
  <2>4. \A i, j \in 1 .. Len(lock_waiters') : lock_waiters'[i] = lock_waiters'[j] => i = j
    BY <1>q, <2>2 DEF WaitersInOrder
  <2>5. \A u \in Tasks : phase'[u] = "locking" =>
           u \in lock_woken' \/ \E i \in 1 .. Len(lock_waiters') : lock_waiters'[i] = u
    BY <1>2, <1>q, <2>2 DEF WaitersInOrder
  <2> QED
    BY <2>1, <2>3, <2>4, <2>5 DEF WaitersInOrder
<1> QED
  BY <1>1, <1>3, <1>4 DEF MutexInv

\* The guard is dropped: a waiter is woken, if there is one.
LEMMA MutexUnlock ==
    ASSUME MutexInv, NEW t \in Tasks, Mutex!Unlock(t)
    PROVE  MutexInv'
<1>1. /\ phase[t] = "holding" /\ locked' = FALSE /\ lock_disturbed' = lock_disturbed
      /\ \A u \in Tasks : phase'[u] = IF u = t THEN "idle" ELSE phase[u]
      /\ phase' \in [Tasks -> {"idle", "locking", "holding"}]
  BY DEF MutexInv, MutexTypes, Mutex!Unlock
<1>2. Mutex!MutualExclusion'
  BY <1>1 DEF MutexInv, Mutex!MutualExclusion
<1>3. CASE lock_waiters = <<>>
  <2>1. lock_waiters' = lock_waiters /\ lock_woken' = lock_woken /\ Len(lock_waiters) = 0
    BY <1>3 DEF Mutex!Unlock
  <2>2. MutexTypes'
    BY <1>1, <2>1 DEF MutexInv, MutexTypes
  <2>3. ASSUME ~lock_disturbed'
        PROVE  WaitersInOrder'
    BY <1>1, <2>1, <2>3 DEF MutexInv, WaitersInOrder
  <2> QED
    BY <1>2, <2>2, <2>3 DEF MutexInv
<1>4. CASE lock_waiters # <<>>
  <2>1. PICK i \in 1 .. Len(lock_waiters) : /\ lock_waiters' = Mutex!RemoveAt(lock_waiters, i)
                                            /\ lock_woken' = lock_woken \cup {lock_waiters[i]}
    BY <1>4 DEF Mutex!Unlock, Mutex!WakeWaiter, Mutex!Chosen
  <2>2. lock_waiters \in Seq(Tasks)
    BY DEF MutexInv, MutexTypes
  <2>3. /\ lock_waiters' \in Seq(Tasks) /\ Len(lock_waiters') = Len(lock_waiters) - 1
        /\ \A j \in 1 .. Len(lock_waiters') :
              lock_waiters'[j] = IF j < i THEN lock_waiters[j] ELSE lock_waiters[j + 1]
    BY <2>1, <2>2, RemoveIth DEF Mutex!RemoveAt
  <2>4. MutexTypes'
    BY <1>1, <2>3 DEF MutexInv, MutexTypes
  <2>5. ASSUME ~lock_disturbed'
        PROVE  WaitersInOrder'
    <3>1. WaitersInOrder
      BY <1>1, <2>5 DEF MutexInv
    <3>2. lock_waiters[i] \in Tasks /\ phase[lock_waiters[i]] = "locking"
      BY <2>1, <2>2, <3>1 DEF WaitersInOrder
    <3>3. phase'[lock_waiters[i]] = "locking" /\ lock_waiters[i] \in lock_woken'
      BY <1>1, <2>1, <3>2
    <3>4. \A j \in 1 .. Len(lock_waiters') :
             \E k \in 1 .. Len(lock_waiters) : k # i /\ lock_waiters'[j] = lock_waiters[k]
      BY <2>2, <2>3
    <3>5. \A j \in 1 .. Len(lock_waiters') :
             phase'[lock_waiters'[j]] = "locking" /\ lock_waiters'[j] \notin lock_woken'
      BY <1>1, <2>1, <2>2, <3>1, <3>4 DEF WaitersInOrder
    <3>6. \A j, k \in 1 .. Len(lock_waiters') : lock_waiters'[j] = lock_waiters'[k] => j = k
      BY <2>2, <2>3, <3>1 DEF WaitersInOrder
    <3>7. ASSUME NEW u \in Tasks, phase'[u] = "locking", u \notin lock_woken'
          PROVE  \E j \in 1 .. Len(lock_waiters') : lock_waiters'[j] = u
      <4>1. PICK k \in 1 .. Len(lock_waiters) : lock_waiters[k] = u
        BY <1>1, <2>1, <3>1, <3>7 DEF WaitersInOrder
      <4>2. k # i
        BY <2>1, <3>7, <4>1
      <4>3. CASE k < i
        BY <2>2, <2>3, <4>1, <4>3
      <4>4. CASE k > i
        <5>1. k - 1 \in 1 .. Len(lock_waiters') /\ ~(k - 1 < i) /\ (k - 1) + 1 = k
          BY <2>2, <2>3, <4>4
        <5> QED
          BY <2>3, <4>1, <5>1
      <4> QED
        BY <2>2, <4>2, <4>3, <4>4
    <3> QED
      BY <3>2, <3>3, <3>5, <3>6, <3>7 DEF WaitersInOrder
  <2> QED
    BY <1>2, <2>4, <2>5 DEF MutexInv
<1> QED
  BY <1>3, <1>4

\* Every step of the mutex keeps it.
LEMMA MutexNext == ASSUME MutexInv, [Mutex!Next]_(Mutex!vars) PROVE MutexInv'
<1>1. CASE UNCHANGED Mutex!vars
  BY <1>1 DEF MutexInv, MutexTypes, WaitersInOrder, Mutex!MutualExclusion, Mutex!vars
<1>2. ASSUME NEW t \in Tasks, Mutex!Lock(t) \/ Mutex!Repoll(t)
      PROVE  MutexInv'
  <2>1. /\ phase[t] # "holding" /\ Mutex!PollLock(t) /\ lock_woken' = lock_woken \ {t}
        /\ lock_disturbed' \in BOOLEAN /\ (~lock_disturbed' => ~lock_disturbed)
        /\ ~lock_disturbed' => phase[t] = "idle" \/ t \in lock_woken
    BY <1>2 DEF Mutex!Lock, Mutex!Repoll, Mutex!PollLock, MutexInv, MutexTypes
  <2>2. CASE locked
    BY <2>1, <2>2, MutexEnqueue DEF Mutex!PollLock
  <2>3. CASE ~locked
    BY <2>1, <2>3, MutexTake DEF Mutex!PollLock
  <2> QED
    BY <2>2, <2>3
<1>3. ASSUME NEW t \in Tasks, Mutex!TryLock(t)
      PROVE  MutexInv'
  BY <1>3, MutexTake DEF Mutex!TryLock, MutexInv, MutexTypes
<1>4. ASSUME NEW t \in Tasks, Mutex!DropLock(t)
      PROVE  MutexInv'
  <2>1. \A u \in Tasks : phase'[u] = IF u = t THEN "idle" ELSE phase[u]
    BY <1>4 DEF MutexInv, MutexTypes, Mutex!DropLock
  <2> QED
    BY <1>4, <2>1 DEF MutexInv, MutexTypes, Mutex!MutualExclusion, Mutex!DropLock
<1> QED
  BY <1>1, <1>2, <1>3, <1>4, MutexUnlock DEF Mutex!Next

\* A free lock is not left alone by those who wait for it.
LEMMA MutexSafe == ASSUME MutexInv PROVE Mutex!MutualExclusion /\ Mutex!NoStrandedWaiter
BY DEF MutexInv, WaitersInOrder, Mutex!NoStrandedWaiter, Mutex!Pending

-----------------------------------------------------------------------------
(* Notify: as long as futures are polled when woken and not dropped, the     *)
(* wakers are those of pending tasks that were not woken, each once; and     *)
(* while there are any, every permit has a woken task that comes for it.     *)

NotifyTypes ==
    /\ permits \in Nat /\ notify_disturbed \in BOOLEAN
    /\ notify_waiters \in Seq(Tasks)
    /\ notified \subseteq Tasks

WakersInOrder ==
    /\ notify_woken \subseteq notified
    /\ \A i \in 1 .. Len(notify_waiters) : notify_waiters[i] \in notified \ notify_woken
    /\ \A i, j \in 1 .. Len(notify_waiters) : notify_waiters[i] = notify_waiters[j] => i = j
    /\ \A t \in notified \ notify_woken :
          \E i \in 1 .. Len(notify_waiters) : notify_waiters[i] = t
    /\ notify_waiters # <<>> => permits <= Cardinality(notify_woken)

NotifyInv == NotifyTypes /\ (~notify_disturbed => WakersInOrder)

\* There are no permits and no wakers.
LEMMA NotifyInit == ASSUME Notification!Init PROVE NotifyInv
<1>1. NotifyTypes
  <2>1. notify_waiters \in Seq(Tasks) /\ permits \in Nat /\ notified \subseteq Tasks
    BY DEF Notification!Init
  <2> QED
    BY <2>1 DEF Notification!Init, NotifyTypes
<1>2. WakersInOrder
  BY DEF Notification!Init, WakersInOrder
<1> QED
  BY <1>1, <1>2 DEF NotifyInv

\* A task is polled that does not wait, or was woken.
LEMMA NotifyPoll ==
    ASSUME NotifyInv, NEW t \in Tasks, Notification!PollNotified(t), notify_disturbed' \in BOOLEAN,
           ~notify_disturbed' => ~notify_disturbed /\ (t \in notified => t \in notify_woken)
    PROVE  NotifyInv'
<1> USE BarrierConstants
<1>0. notify_woken' = notify_woken \ {t}
  BY DEF Notification!PollNotified
<1>1. CASE permits > 0 /\ permits' = permits - 1 /\ notified' = notified \ {t}
           /\ notify_waiters' = notify_waiters
  <2>1. NotifyTypes'
    BY <1>1 DEF NotifyInv, NotifyTypes
  <2>2. ASSUME ~notify_disturbed'
        PROVE  WakersInOrder'
    <3>1. WakersInOrder /\ (t \in notified => t \in notify_woken)
      BY <2>2 DEF NotifyInv
    <3>2. ASSUME notify_waiters # <<>>
          PROVE  permits' <= Cardinality(notify_woken')
      <4>1. permits \in Nat /\ permits <= Cardinality(notify_woken)
        BY <3>1, <3>2 DEF WakersInOrder, NotifyInv, NotifyTypes
      <4>2. IsFiniteSet(notify_woken) /\ Cardinality(notify_woken) \in Nat
        BY <3>1 DEF WakersInOrder, NotifyInv, NotifyTypes
      <4>3. CASE t \in notify_woken
        <5>1. Cardinality(notify_woken') = Cardinality(notify_woken) - 1
          BY <1>0, <4>2, <4>3, FS_RemoveElement
        <5> QED
          BY <1>1, <4>1, <4>2, <5>1
      <4>4. CASE t \notin notify_woken
        <5>1. notify_woken' = notify_woken
          BY <1>0, <4>4
        <5> QED
          BY <1>1, <4>1, <4>2, <5>1
      <4> QED
        BY <4>3, <4>4
    <3>3. \A i \in 1 .. Len(notify_waiters) : notify_waiters[i] # t
      BY <3>1 DEF WakersInOrder
    <3> QED
      BY <1>0, <1>1, <3>1, <3>2, <3>3 DEF WakersInOrder
  <2> QED
    BY <2>1, <2>2 DEF NotifyInv
<1>2. CASE permits = 0 /\ notify_waiters' = Append(notify_waiters, t)
           /\ notified' = notified \cup {t} /\ permits' = permits
  <2>1. notify_waiters \in Seq(Tasks)
    BY DEF NotifyInv, NotifyTypes
  <2>2. /\ notify_waiters' \in Seq(Tasks) /\ Len(notify_waiters') = Len(notify_waiters) + 1
        /\ notify_waiters'[Len(notify_waiters) + 1] = t
        /\ \A i \in 1 .. Len(notify_waiters) : notify_waiters'[i] = notify_waiters[i]
    BY <1>2, <2>1
  <2>3. NotifyTypes'
    BY <1>2, <2>2 DEF NotifyInv, NotifyTypes
  <2>4. ASSUME ~notify_disturbed'
        PROVE  WakersInOrder'
    <3>1. WakersInOrder /\ (t \in notified => t \in notify_woken)
      BY <2>4 DEF NotifyInv
    <3>2. \A i \in 1 .. Len(notify_waiters) : notify_waiters[i] # t
      BY <3>1 DEF WakersInOrder
    <3>3. permits' <= Cardinality(notify_woken')
      <4>1. notify_woken' \in SUBSET Tasks
        BY <1>0, <3>1 DEF WakersInOrder, NotifyInv, NotifyTypes
      <4>2. Cardinality(notify_woken') \in Nat
        BY <4>1
      <4> QED
        BY <1>2, <4>2
    <3>4. \A i \in 1 .. Len(notify_waiters') :
             i = Len(notify_waiters) + 1 \/ i \in 1 .. Len(notify_waiters)
      BY <2>1, <2>2
    <3>5. \A i \in 1 .. Len(notify_waiters') : notify_waiters'[i] \in notified' \ notify_woken'
      BY <1>0, <1>2, <2>2, <3>1, <3>2, <3>4 DEF WakersInOrder
    <3>6. \A i, j \in 1 .. Len(notify_waiters') : notify_waiters'[i] = notify_waiters'[j] => i = j
      BY <2>2, <3>1, <3>2, <3>4 DEF WakersInOrder
    <3>7. \A u \in notified' \ notify_woken' :
             \E i \in 1 .. Len(notify_waiters') : notify_waiters'[i] = u
      <4>1. Len(notify_waiters) + 1 \in 1 .. Len(notify_waiters')
            /\ 1 .. Len(notify_waiters) \subseteq 1 .. Len(notify_waiters')
        BY <2>1, <2>2
      <4> QED
        BY <1>0, <1>2, <2>2, <3>1, <4>1 DEF WakersInOrder
    <3>8. notify_woken' \subseteq notified'
      BY <1>0, <1>2, <3>1 DEF WakersInOrder
    <3> QED
      BY <3>3, <3>5, <3>6, <3>7, <3>8 DEF WakersInOrder
  <2> QED
    BY <2>3, <2>4 DEF NotifyInv
<1> QED
  BY <1>1, <1>2 DEF Notification!PollNotified, Notification!RegisterWaker

\* One permit more: the oldest waker is called, if there is one.
LEMMA NotifyOneInv == ASSUME NotifyInv, Notification!NotifyOne PROVE NotifyInv'
<1> USE BarrierConstants
<1>0. permits' = permits + 1 /\ notified' = notified /\ notify_disturbed' = notify_disturbed
  BY DEF Notification!NotifyOne
<1>1. CASE notify_waiters = <<>>
  <2>1. notify_waiters' = notify_waiters /\ notify_woken' = notify_woken
    BY <1>1 DEF Notification!NotifyOne
  <2> QED
    BY <1>0, <1>1, <2>1 DEF NotifyInv, NotifyTypes, WakersInOrder
<1>2. CASE notify_waiters # <<>>
  <2>1. notify_waiters \in Seq(Tasks)
    BY DEF NotifyInv, NotifyTypes
  <2>2. /\ notify_waiters' \in Seq(Tasks) /\ Len(notify_waiters') = Len(notify_waiters) - 1
        /\ \A i \in 1 .. Len(notify_waiters') : notify_waiters'[i] = notify_waiters[i + 1]
        /\ notify_woken' = notify_woken \cup {notify_waiters[1]} /\ 1 \in 1 .. Len(notify_waiters)
    BY <1>2, <2>1 DEF Notification!NotifyOne
  <2>3. NotifyTypes'
    BY <1>0, <2>2 DEF NotifyInv, NotifyTypes
  <2>4. ASSUME ~notify_disturbed'
        PROVE  WakersInOrder'
    <3>1. WakersInOrder
      BY <1>0, <2>4 DEF NotifyInv
    <3>2. notify_waiters[1] \in notified \ notify_woken
      BY <2>2, <3>1 DEF WakersInOrder
    <3>3. permits' <= Cardinality(notify_woken')
      <4>1. IsFiniteSet(notify_woken) /\ Cardinality(notify_woken) \in Nat /\ permits \in Nat
        BY <3>1 DEF WakersInOrder, NotifyInv, NotifyTypes
      <4>2. Cardinality(notify_woken') = Cardinality(notify_woken) + 1
        BY <2>2, <3>2, <4>1, FS_AddElement
      <4> QED
        BY <1>0, <1>2, <3>1, <4>1, <4>2 DEF WakersInOrder
    <3>4. \A i \in 1 .. Len(notify_waiters') : i + 1 \in 1 .. Len(notify_waiters) /\ i + 1 # 1
      BY <2>1, <2>2
    <3>5. \A i \in 1 .. Len(notify_waiters') : notify_waiters'[i] \in notified' \ notify_woken'
      BY SMTT(30), <1>0, <2>2, <3>1, <3>4 DEF WakersInOrder
    <3>6. ASSUME NEW i \in 1 .. Len(notify_waiters'), NEW j \in 1 .. Len(notify_waiters'),
                 notify_waiters'[i] = notify_waiters'[j]
          PROVE  i = j
      <4>1. i + 1 = j + 1
        BY <2>2, <3>1, <3>4, <3>6 DEF WakersInOrder
      <4> QED
        BY <4>1
    <3>7. ASSUME NEW u \in notified' \ notify_woken'
          PROVE  \E i \in 1 .. Len(notify_waiters') : notify_waiters'[i] = u
      <4>1. PICK k \in 1 .. Len(notify_waiters) : notify_waiters[k] = u
        BY <1>0, <2>2, <3>1 DEF WakersInOrder
      <4>2. k # 1
        BY <2>2, <4>1
      <4>3. k - 1 \in 1 .. Len(notify_waiters') /\ (k - 1) + 1 = k
        BY <2>1, <2>2, <4>2
      <4> QED
        BY <2>2, <4>1, <4>3
    <3>8. notify_woken' \subseteq notified'
      BY <1>0, <2>2, <3>1, <3>2 DEF WakersInOrder
    <3> QED
      BY <3>3, <3>5, <3>6, <3>7, <3>8 DEF WakersInOrder
  <2> QED
    BY <2>3, <2>4 DEF NotifyInv
<1> QED
  BY <1>1, <1>2

\* Every step of Notify keeps it.
LEMMA NotifyNext == ASSUME NotifyInv, [Notification!Next]_(Notification!vars) PROVE NotifyInv'
<1>1. CASE UNCHANGED Notification!vars
  BY <1>1 DEF NotifyInv, NotifyTypes, WakersInOrder, Notification!vars
<1>2. ASSUME NEW t \in Tasks, Notification!Wait(t) \/ Notification!Repoll(t)
      PROVE  NotifyInv'
  <2>1. /\ Notification!PollNotified(t) /\ notify_disturbed' \in BOOLEAN
        /\ ~notify_disturbed' => ~notify_disturbed /\ (t \in notified => t \in notify_woken)
    BY <1>2 DEF Notification!Wait, Notification!Repoll, NotifyInv, NotifyTypes
  <2> QED
    BY <2>1, NotifyPoll
<1>3. ASSUME NEW t \in Tasks, Notification!DropNotified(t)
      PROVE  NotifyInv'
  BY <1>3 DEF Notification!DropNotified, NotifyInv, NotifyTypes
<1>4. CASE Notification!NotifyWaiters
  <2>1. notify_waiters \in Seq(Tasks) /\ permits \in Nat
    BY DEF NotifyInv, NotifyTypes
  <2>2. /\ notify_waiters' = <<>> /\ notified' = notified /\ notify_disturbed' = notify_disturbed
        /\ notify_woken' = notify_woken \cup {notify_waiters[i] : i \in 1 .. Len(notify_waiters)}
        /\ permits' \in Nat
    BY <1>4, <2>1 DEF Notification!NotifyWaiters
  <2>3. NotifyTypes'
    BY <2>2 DEF NotifyInv, NotifyTypes
  <2>4. ASSUME ~notify_disturbed'
        PROVE  WakersInOrder'
    <3>1. WakersInOrder
      BY <2>2, <2>4 DEF NotifyInv
    <3>2. Len(notify_waiters') = 0
      BY <2>2
    <3>3. notify_woken' = notified'
      BY <2>2, <3>1 DEF WakersInOrder
    <3> QED
      BY <2>2, <3>2, <3>3 DEF WakersInOrder
  <2> QED
    BY <2>3, <2>4 DEF NotifyInv
<1> QED
  BY <1>1, <1>2, <1>3, <1>4, NotifyOneInv DEF Notification!Next

\* A permit that is left is not beside tasks of which none was told.
LEMMA NotifySafe == ASSUME NotifyInv PROVE Notification!NoLostNotification
<1> SUFFICES ASSUME ~notify_disturbed, permits > 0, notified # {}, notified \cap notify_woken = {}
             PROVE  FALSE
  BY DEF Notification!NoLostNotification, Notification!Lost
<1>1. WakersInOrder /\ permits \in Nat
  BY DEF NotifyInv, NotifyTypes
<1>2. notify_woken = {}
  BY <1>1 DEF WakersInOrder
<1>3. notify_waiters # <<>>
  BY <1>1, <1>2 DEF WakersInOrder
<1>4. permits <= 0
  BY <1>1, <1>2, <1>3, FS_EmptySet DEF WakersInOrder
<1> QED
  BY <1>1, <1>4

-----------------------------------------------------------------------------
(* The bounded channel: the wakers in the map are those of pending senders   *)
(* that were not woken, under the ids they have; who is pending was woken or *)
(* is in the map and in the order; and as many senders were woken as there   *)
(* are free slots, or all of them.                                           *)

Waking == {t \in Tasks : waiter[t] # Nil /\ t \in channel_woken}
Asleep(t) == waiter[t] # Nil /\ t \notin channel_woken

MpscTypes ==
    /\ len \in Nat /\ next_waiter_id \in Nat
    /\ receiver_alive \in BOOLEAN /\ receiver_waker \in BOOLEAN /\ receiving \in BOOLEAN
    /\ send_wait_order \in Seq(Nat)
    /\ send_waiters \subseteq [id : Nat, task : Tasks]
    /\ waiter \in [Tasks -> Nat \cup {Nil}]

\* The ids are those of their senders.
IdsInOrder ==
    /\ \A t, u \in Tasks : waiter[t] # Nil /\ waiter[u] = waiter[t] => u = t
    /\ \A t \in Tasks : waiter[t] # Nil => waiter[t] < next_waiter_id
    /\ \A w \in send_waiters : waiter[w.task] = w.id /\ w.task \notin channel_woken

\* Who sleeps can be reached.
SleepersKnown ==
    \A t \in Tasks : Asleep(t) =>
        /\ receiver_alive
        /\ [id |-> waiter[t], task |-> t] \in send_waiters
        /\ \E i \in 1 .. Len(send_wait_order) : send_wait_order[i] = waiter[t]

\* Free slots are on offer.
SlotsKnown ==
    receiver_alive /\ ~abandoned =>
        Capacity <= len + Cardinality(Waking) \/ \A t \in Tasks : ~Asleep(t)

ReceiverKnown == receiving => Receiver \in channel_woken \/ (receiver_waker /\ len = 0 /\ senders # {})

MpscInv == MpscTypes /\ IdsInOrder /\ SleepersKnown /\ SlotsKnown /\ ReceiverKnown

\* The library's operators are the same under the names they have in Mpsc.
LEMMA MpscLibrary ==
    /\ \A S : Channel!Cardinality(S) = Cardinality(S)
    /\ \A S : Channel!IsFiniteSet(S) = IsFiniteSet(S)
<1>1. \A S : Channel!Cardinality(S) = Cardinality(S)
  BY DEF Channel!Cardinality, Cardinality
<1>2. \A S : Channel!IsFiniteSet(S) = IsFiniteSet(S)
  BY Zenon DEF Channel!IsFiniteSet, IsFiniteSet
<1> QED
  BY <1>1, <1>2

\* What the constants of the channel are.
LEMMA MpscConstants ==
    /\ Capacity \in Nat \ {0} /\ Nil \notin Nat /\ Receiver \notin Tasks
    /\ \A S \in SUBSET Tasks : IsFiniteSet(S) /\ Cardinality(S) \in Nat
<1>1. Capacity \in Nat \ {0} /\ Nil \notin Int /\ Receiver \notin Tasks
  BY SyncAssumption DEF SyncAssumption, Channel!MpscAssumption
<1> QED
  BY <1>1, BarrierConstants

\* The channel is empty and nobody waits.
LEMMA MpscInit == ASSUME Channel!Init PROVE MpscInv
<1> USE MpscConstants DEF Channel!Init
<1>1. MpscTypes
  <2>1. send_wait_order \in Seq(Nat) /\ waiter \in [Tasks -> Nat \cup {Nil}]
    OBVIOUS
  <2>2. len \in Nat /\ next_waiter_id \in Nat /\ send_waiters \subseteq [id : Nat, task : Tasks]
    OBVIOUS
  <2> QED
    BY <2>1, <2>2 DEF MpscTypes
<1>2. \A t \in Tasks : waiter[t] = Nil
  OBVIOUS
<1>3. IdsInOrder /\ SleepersKnown /\ SlotsKnown
  BY <1>2 DEF IdsInOrder, SleepersKnown, SlotsKnown, Asleep
<1>4. ReceiverKnown
  BY DEF ReceiverKnown
<1> QED
  BY <1>1, <1>3, <1>4 DEF MpscInv

\* A send ends: its sender leaves the map.
LEMMA MpscUnregister ==
    ASSUME MpscTypes, IdsInOrder, SleepersKnown, NEW t \in Tasks, Channel!Unregister(t),
           channel_woken' \cap Tasks \in {channel_woken \cap Tasks, (channel_woken \cap Tasks) \ {t}},
           UNCHANGED <<next_waiter_id, send_wait_order, receiver_alive>>
    PROVE  /\ send_waiters' \subseteq [id : Nat, task : Tasks]
           /\ waiter' \in [Tasks -> Nat \cup {Nil}]
           /\ \A u \in Tasks : waiter'[u] = IF u = t THEN Nil ELSE waiter[u]
           /\ IdsInOrder' /\ SleepersKnown'
<1> USE MpscConstants
<1>1. /\ send_waiters' \subseteq [id : Nat, task : Tasks]
      /\ waiter' \in [Tasks -> Nat \cup {Nil}]
      /\ \A u \in Tasks : waiter'[u] = IF u = t THEN Nil ELSE waiter[u]
      /\ \A w : w \in send_waiters' <=> w \in send_waiters /\ w.id # waiter[t]
  BY DEF MpscTypes, Channel!Unregister
<1>2. \A u \in Tasks : u \in channel_woken' => u \in channel_woken
  OBVIOUS
<1>3. IdsInOrder'
  <2>1. \A w \in send_waiters' : waiter'[w.task] = w.id /\ w.task \notin channel_woken'
    <3> TAKE w \in send_waiters'
    <3>1. w \in send_waiters /\ w.task \in Tasks /\ w.id # waiter[t]
      BY <1>1 DEF MpscTypes
    <3> QED
      BY <1>1, <1>2, <3>1 DEF IdsInOrder
  <2> QED
    BY <1>1, <2>1 DEF IdsInOrder
<1>4. ASSUME NEW u \in Tasks, Asleep(u)'
      PROVE  /\ receiver_alive'
             /\ [id |-> waiter'[u], task |-> u] \in send_waiters'
             /\ \E i \in 1 .. Len(send_wait_order') : send_wait_order'[i] = waiter'[u]
  <2>1. u # t /\ waiter'[u] = waiter[u] /\ waiter[u] # Nil
    BY <1>1, <1>4 DEF Asleep
  <2>2. Asleep(u)
    BY <1>4, <2>1 DEF Asleep
  <2>3. waiter[u] # waiter[t]
    BY <2>1 DEF IdsInOrder
  <2>4. [id |-> waiter[u], task |-> u].id # waiter[t]
    BY <2>3
  <2> QED
    BY <1>1, <2>1, <2>2, <2>4 DEF SleepersKnown
<1> QED
  BY <1>1, <1>3, <1>4 DEF SleepersKnown

\* The receiver is woken, if it has a waker, and w with it.
LEMMA MpscWakeReceiver ==
    ASSUME NEW w, Channel!WakeReceiver(w), ReceiverKnown, UNCHANGED receiving,
           Receiver \in channel_woken => Receiver \in w
    PROVE  ReceiverKnown' /\ channel_woken' \cap Tasks = w \cap Tasks /\ receiver_waker' = FALSE
BY MpscConstants DEF Channel!WakeReceiver, ReceiverKnown

\* A poll of a send keeps the invariant.
LEMMA MpscPoll ==
    ASSUME MpscInv, NEW t \in Tasks, Channel!PollSend(t),
           UNCHANGED <<senders, receiver_alive, receiving, abandoned>>
    PROVE  MpscInv'
<1> USE MpscConstants
<1>t. MpscTypes /\ IdsInOrder /\ SleepersKnown /\ SlotsKnown /\ ReceiverKnown
  BY DEF MpscInv
<1>1. CASE /\ ~receiver_alive /\ Channel!Unregister(t) /\ channel_woken' = channel_woken \ {t}
           /\ UNCHANGED <<len, receiver_waker, next_waiter_id, send_wait_order>>
  <2>1. channel_woken' \cap Tasks = (channel_woken \cap Tasks) \ {t}
    BY <1>1
  <2>2. MpscTypes' /\ IdsInOrder' /\ SleepersKnown'
    BY <1>1, <1>t, <2>1, MpscUnregister DEF MpscTypes
  <2>3. SlotsKnown' /\ ReceiverKnown'
    BY <1>1, <1>t DEF SlotsKnown, ReceiverKnown
  <2> QED
    BY <2>2, <2>3 DEF MpscInv
<1>2. CASE /\ receiver_alive /\ ~Channel!IsFull /\ len' = len + 1
           /\ Channel!WakeReceiver(channel_woken \ {t}) /\ Channel!Unregister(t)
           /\ UNCHANGED <<next_waiter_id, send_wait_order>>
  <2>1. /\ ReceiverKnown' /\ receiver_waker' = FALSE
        /\ channel_woken' \cap Tasks = (channel_woken \cap Tasks) \ {t}
    <3> DEFINE w == channel_woken \ {t}
    <3>1. Receiver \in channel_woken => Receiver \in w
      OBVIOUS
    <3>2. w \cap Tasks = (channel_woken \cap Tasks) \ {t}
      OBVIOUS
    <3>3. Channel!WakeReceiver(w)
      BY <1>2
    <3> HIDE DEF w
    <3> QED
      BY <1>t, <3>1, <3>2, <3>3, MpscWakeReceiver
  <2>a. /\ send_waiters' \subseteq [id : Nat, task : Tasks]
        /\ waiter' \in [Tasks -> Nat \cup {Nil}]
        /\ \A u \in Tasks : waiter'[u] = IF u = t THEN Nil ELSE waiter[u]
        /\ IdsInOrder' /\ SleepersKnown'
    BY <1>2, <1>t, <2>1, MpscUnregister
  <2>b. len' \in Nat
    BY <1>2, <1>t DEF MpscTypes
  <2>2. /\ MpscTypes' /\ IdsInOrder' /\ SleepersKnown'
        /\ \A u \in Tasks : waiter'[u] = IF u = t THEN Nil ELSE waiter[u]
    BY <1>2, <1>t, <2>1, <2>a, <2>b DEF MpscTypes
  <2>3. Waking' = Waking \ {t} /\ Waking \in SUBSET Tasks
    BY <2>1, <2>2 DEF Waking
  <2>4. \A u \in Tasks : Asleep(u)' => Asleep(u)
    BY <2>1, <2>2 DEF Asleep
  <2>5. Cardinality(Waking) <= Cardinality(Waking') + 1
    <3>1. CASE t \in Waking
      BY <2>3, <3>1, FS_RemoveElement
    <3>2. CASE t \notin Waking
      <4>1. Waking' = Waking
        BY <2>3, <3>2
      <4> QED
        BY <2>3, <4>1
    <3> QED
      BY <3>1, <3>2
  <2>6. SlotsKnown'
    <3>1. len \in Nat /\ Cardinality(Waking) \in Nat /\ Cardinality(Waking') \in Nat
      BY <1>t, <2>3 DEF MpscTypes
    <3> QED
      BY <1>2, <1>t, <2>4, <2>5, <3>1 DEF SlotsKnown
  <2> QED
    BY <2>1, <2>2, <2>6 DEF MpscInv
<1>3. CASE /\ receiver_alive /\ Channel!IsFull /\ Channel!RegisterSender(t)
           /\ channel_woken' = channel_woken \ {t}
           /\ UNCHANGED <<len, receiver_waker>>
  <2> DEFINE id == IF waiter[t] = Nil THEN next_waiter_id ELSE waiter[t]
  <2>1. /\ next_waiter_id' = (IF waiter[t] = Nil THEN id + 1 ELSE next_waiter_id)
        /\ send_wait_order' = Append(send_wait_order, id)
        /\ send_waiters' = {w \in send_waiters : w.id # id} \cup {[id |-> id, task |-> t]}
        /\ waiter' = [waiter EXCEPT ![t] = id]
    BY <1>3 DEF Channel!RegisterSender
  <2>2. /\ id \in Nat /\ next_waiter_id' \in Nat
        /\ id < next_waiter_id' /\ next_waiter_id <= next_waiter_id'
        /\ waiter[t] # Nil => id = waiter[t]
        /\ \A u \in Tasks \ {t} : waiter[u] # Nil => waiter[u] # id
    BY <1>t, <2>1 DEF MpscTypes, IdsInOrder
  <2> HIDE DEF id
  <2>3. \A u \in Tasks : waiter'[u] = IF u = t THEN id ELSE waiter[u]
    BY <1>t, <2>1 DEF MpscTypes
  <2>4. /\ send_wait_order' \in Seq(Nat) /\ Len(send_wait_order') = Len(send_wait_order) + 1
        /\ \A i \in 1 .. Len(send_wait_order) : send_wait_order'[i] = send_wait_order[i]
        /\ send_wait_order'[Len(send_wait_order) + 1] = id
        /\ Len(send_wait_order) \in Nat
    BY <1>t, <2>1, <2>2 DEF MpscTypes
  <2>5. MpscTypes'
    BY <1>3, <1>t, <2>1, <2>2, <2>4 DEF MpscTypes
  <2>6. IdsInOrder'
    <3>1. \A u, v \in Tasks : waiter'[u] # Nil /\ waiter'[v] = waiter'[u] => v = u
      BY <1>t, <2>2, <2>3 DEF IdsInOrder
    <3>2. \A u \in Tasks : waiter'[u] # Nil => waiter'[u] < next_waiter_id'
      BY <1>t, <2>2, <2>3 DEF IdsInOrder, MpscTypes
    <3>3. ASSUME NEW w \in send_waiters'
          PROVE  waiter'[w.task] = w.id /\ w.task \notin channel_woken'
      <4>1. CASE w = [id |-> id, task |-> t]
        BY <1>3, <2>3, <4>1
      <4>2. CASE w \in send_waiters /\ w.id # id
        <5>1. w.task \in Tasks /\ waiter[w.task] = w.id /\ w.id \in Nat /\ w.task \notin channel_woken
          BY <1>t, <4>2 DEF IdsInOrder, MpscTypes
        <5>2. w.task # t
          BY <2>2, <4>2, <5>1
        <5> QED
          BY <1>3, <2>3, <5>1, <5>2
      <4> QED
        BY <2>1, <4>1, <4>2
    <3> QED
      BY <3>1, <3>2, <3>3 DEF IdsInOrder
  <2>7. ASSUME NEW u \in Tasks, Asleep(u)'
        PROVE  /\ receiver_alive'
               /\ [id |-> waiter'[u], task |-> u] \in send_waiters'
               /\ \E i \in 1 .. Len(send_wait_order') : send_wait_order'[i] = waiter'[u]
    <3>1. CASE u = t
      BY <1>3, <2>1, <2>3, <2>4, <3>1
    <3>2. CASE u # t
      <4>1. Asleep(u) /\ waiter'[u] = waiter[u] /\ waiter[u] # id
        BY <1>3, <2>2, <2>3, <2>7, <3>2 DEF Asleep
      <4>2. PICK i \in 1 .. Len(send_wait_order) : send_wait_order[i] = waiter[u]
        BY <1>t, <4>1 DEF SleepersKnown
      <4>3. i \in 1 .. Len(send_wait_order') /\ send_wait_order'[i] = waiter'[u]
        BY <2>4, <4>1, <4>2
      <4>4. [id |-> waiter[u], task |-> u] \in send_waiters /\ [id |-> waiter[u], task |-> u].id # id
        BY <1>t, <4>1 DEF SleepersKnown
      <4> QED
        BY <1>3, <2>1, <4>1, <4>3, <4>4
    <3> QED
      BY <3>1, <3>2
  <2>8. SlotsKnown'
    <3>1. Waking' \in SUBSET Tasks
      BY DEF Waking
    <3>2. Cardinality(Waking') \in Nat /\ len \in Nat /\ Capacity <= len
      BY <1>3, <1>t, <3>1 DEF Channel!IsFull, MpscTypes
    <3> QED
      BY <1>3, <3>2 DEF SlotsKnown
  <2>9. ReceiverKnown'
    BY <1>3, <1>t DEF ReceiverKnown
  <2> QED
    BY <2>5, <2>6, <2>7, <2>8, <2>9 DEF MpscInv, SleepersKnown
<1> QED
  BY <1>1, <1>2, <1>3 DEF Channel!PollSend

\* A message is taken: the first sender of the order that is in the map is woken.
LEMMA MpscTake == ASSUME MpscInv, Channel!TakeMessage PROVE MpscInv'
<1> USE MpscConstants
<1>t. MpscTypes /\ IdsInOrder /\ SleepersKnown /\ SlotsKnown /\ ReceiverKnown
  BY DEF MpscInv
<1>0. /\ len > 0 /\ len' = len - 1 /\ receiving' = FALSE /\ Channel!WakeOneSender
      /\ UNCHANGED <<senders, receiver_alive, receiver_waker, next_waiter_id, waiter, abandoned>>
  BY DEF Channel!TakeMessage
<1>1. ReceiverKnown'
  BY <1>0 DEF ReceiverKnown
<1>2. len' \in Nat /\ len = len' + 1
  BY <1>0, <1>t DEF MpscTypes
<1> DEFINE n == Len(send_wait_order)
           live == {i \in 1 .. n : Channel!Waiting(send_wait_order[i])}
           first == CHOOSE i \in live : \A j \in live : i <= j
<1>3. n \in Nat /\ send_wait_order \in Seq(Nat)
  BY <1>t DEF MpscTypes
<1>4. CASE live = {}
  <2>1. send_wait_order' = <<>> /\ send_waiters' = send_waiters
        /\ channel_woken' = channel_woken \ {Receiver}
    BY <1>0, <1>4 DEF Channel!WakeOneSender
  <2>2. ASSUME NEW t \in Tasks, Asleep(t)
        PROVE  FALSE
    <3>1. PICK i \in 1 .. n : send_wait_order[i] = waiter[t]
      BY <1>t, <2>2 DEF SleepersKnown
    <3>2. Channel!Waiting(send_wait_order[i])
      <4>1. [id |-> waiter[t], task |-> t] \in send_waiters
            /\ [id |-> waiter[t], task |-> t].id = waiter[t]
        BY <1>t, <2>2 DEF SleepersKnown
      <4> QED
        BY <3>1, <4>1 DEF Channel!Waiting
    <3> QED
      BY <1>4, <3>1, <3>2
  <2>3. \A t \in Tasks : (t \in channel_woken') = (t \in channel_woken)
    BY <2>1
  <2>4. \A t \in Tasks : ~Asleep(t)'
    BY <1>0, <2>2, <2>3 DEF Asleep
  <2>5. SleepersKnown' /\ SlotsKnown'
    BY <2>4 DEF SleepersKnown, SlotsKnown
  <2>6. IdsInOrder'
    BY <1>0, <1>t, <2>1 DEF IdsInOrder
  <2>7. send_wait_order' \in Seq(Nat)
    BY <2>1
  <2>8. MpscTypes'
    BY <1>0, <1>2, <1>t, <2>1, <2>7 DEF MpscTypes
  <2> QED
    BY <1>1, <2>5, <2>6, <2>8 DEF MpscInv
<1>5. CASE live # {}
  <2>1. first \in live /\ \A j \in live : first <= j
    <3>1. live \subseteq Nat
      BY <1>3
    <3>2. \E i \in live : \A j \in live : i <= j
      BY <1>5, <3>1, LeastNatural
    <3> QED
      BY <3>2
  <2> DEFINE id == send_wait_order[first]
  <2>2. /\ send_wait_order' = SubSeq(send_wait_order, first + 1, n)
        /\ send_waiters' = {w \in send_waiters : w.id # id}
        /\ channel_woken' = (channel_woken \ {Receiver})
                               \cup {w.task : w \in {x \in send_waiters : x.id = id}}
    BY <1>0, <1>5 DEF Channel!WakeOneSender
  <2>3. first \in 1 .. n /\ id \in Nat
    BY <1>3, <2>1
  <2> HIDE DEF first
  <2>4. PICK w \in send_waiters : w.id = id
    BY <2>1 DEF Channel!Waiting
  <2>5. w.task \in Tasks /\ waiter[w.task] = id /\ w.task \notin channel_woken
    BY <1>t, <2>4 DEF MpscTypes, IdsInOrder
  <2>6. \A i \in 1 .. n : i < first => ~Channel!Waiting(send_wait_order[i])
    <3> TAKE i \in 1 .. n
    <3> HAVE i < first
    <3>1. i \notin live
      BY <1>3, <2>1, <2>3
    <3> QED
      BY <3>1
  <2>7. /\ send_wait_order' \in Seq(Nat) /\ Len(send_wait_order') = n - first
        /\ \A i \in 1 .. n - first : send_wait_order'[i] = send_wait_order[first + i]
    BY <1>3, <2>2, <2>3
  <2> HIDE DEF id, n
  <2>8. \A x \in send_waiters : x.id = id => x.task = w.task
    BY <1>t, <2>3, <2>4, <2>5 DEF IdsInOrder, MpscTypes
  <2>9. \A t \in Tasks : (t \in channel_woken') = (t \in channel_woken \/ t = w.task)
    BY <2>2, <2>4, <2>5, <2>8
  <2>10. MpscTypes'
    BY <1>0, <1>2, <1>t, <2>2, <2>7 DEF MpscTypes
  <2>11. IdsInOrder'
    <3>1. ASSUME NEW x \in send_waiters'
          PROVE  waiter'[x.task] = x.id /\ x.task \notin channel_woken'
      <4>1. x \in send_waiters /\ x.id # id /\ x.task \in Tasks /\ waiter[x.task] = x.id
            /\ x.task \notin channel_woken
        BY <1>t, <2>2 DEF MpscTypes, IdsInOrder
      <4>2. x.task # w.task
        BY <2>5, <4>1
      <4> QED
        BY <1>0, <2>9, <4>1, <4>2
    <3> QED
      BY <1>0, <1>t, <3>1 DEF IdsInOrder
  <2>12. ASSUME NEW t \in Tasks, Asleep(t)'
         PROVE  /\ receiver_alive'
                /\ [id |-> waiter'[t], task |-> t] \in send_waiters'
                /\ \E i \in 1 .. Len(send_wait_order') : send_wait_order'[i] = waiter'[t]
    <3>1. Asleep(t) /\ t # w.task /\ waiter[t] # Nil
      BY <1>0, <2>9, <2>12 DEF Asleep
    <3>2. waiter[t] # id
      BY <1>t, <2>3, <2>5, <3>1 DEF IdsInOrder
    <3>3. PICK i \in 1 .. n : send_wait_order[i] = waiter[t]
      BY <1>t, <3>1 DEF SleepersKnown, n
    <3>4. [id |-> waiter[t], task |-> t] \in send_waiters
          /\ [id |-> waiter[t], task |-> t].id = waiter[t]
      BY <1>t, <3>1 DEF SleepersKnown
    <3>5. Channel!Waiting(send_wait_order[i])
      BY <3>3, <3>4 DEF Channel!Waiting
    <3>6. i # first
      BY <3>2, <3>3 DEF id
    <3>7. i > first
      BY <1>3, <2>3, <2>6, <3>5, <3>6
    <3>8. i - first \in 1 .. n - first /\ first + (i - first) = i
      BY <1>3, <2>3, <3>7
    <3>9. send_wait_order'[i - first] = waiter[t]
      BY <2>7, <3>3, <3>8
    <3> QED
      BY <1>0, <1>t, <2>2, <2>7, <3>1, <3>2, <3>4, <3>8, <3>9 DEF SleepersKnown
  <2>13. SlotsKnown'
    <3>1. Waking' = Waking \cup {w.task} /\ w.task \notin Waking /\ Waking \in SUBSET Tasks
      BY <1>0, <2>3, <2>5, <2>9 DEF Waking
    <3>2. Cardinality(Waking') = Cardinality(Waking) + 1 /\ Cardinality(Waking) \in Nat
      BY <3>1, FS_AddElement
    <3>3. \A t \in Tasks : Asleep(t)' => Asleep(t)
      BY <1>0, <2>9 DEF Asleep
    <3> QED
      BY <1>0, <1>2, <1>t, <3>2, <3>3 DEF SlotsKnown
  <2> QED
    BY <1>1, <2>10, <2>11, <2>12, <2>13 DEF MpscInv, SleepersKnown
<1> QED
  BY <1>4, <1>5

\* The handles of senders, the receiver's polls of an empty queue, a send that
\* does not wait: the waiting senders are as they were.
LEMMA MpscAside ==
    ASSUME MpscInv, ReceiverKnown', len' \in Nat, len <= len',
           receiver_waker' \in BOOLEAN, receiving' \in BOOLEAN,
           channel_woken' \cap Tasks = channel_woken \cap Tasks,
           UNCHANGED <<receiver_alive, next_waiter_id, send_wait_order, send_waiters, waiter,
                       abandoned>>
    PROVE  MpscInv'
<1> USE MpscConstants
<1>t. MpscTypes /\ IdsInOrder /\ SleepersKnown /\ SlotsKnown
  BY DEF MpscInv
<1>1. MpscTypes'
  BY <1>t DEF MpscTypes
<1>2. \A t \in Tasks : (t \in channel_woken') = (t \in channel_woken)
  OBVIOUS
<1>3. IdsInOrder'
  <2>1. \A w \in send_waiters : w.task \in Tasks
    BY <1>t DEF MpscTypes
  <2> QED
    BY <1>2, <1>t, <2>1 DEF IdsInOrder
<1>4. Waking' = Waking /\ \A t \in Tasks : Asleep(t)' = Asleep(t)
  BY <1>2 DEF Waking, Asleep
<1>5. SleepersKnown'
  BY <1>4, <1>t DEF SleepersKnown
<1>6. SlotsKnown'
  <2>1. Waking \in SUBSET Tasks
    BY DEF Waking
  <2>2. Cardinality(Waking) \in Nat /\ len \in Nat
    BY <1>t, <2>1 DEF MpscTypes
  <2> QED
    BY <1>4, <1>t, <2>2 DEF SlotsKnown
<1> QED
  BY <1>1, <1>3, <1>5, <1>6 DEF MpscInv

\* Every step of the channel keeps the invariant.
LEMMA MpscNext == ASSUME MpscInv, [Channel!Next]_(Channel!vars) PROVE MpscInv'
<1> USE MpscConstants
<1>t. MpscTypes /\ IdsInOrder /\ SleepersKnown /\ SlotsKnown /\ ReceiverKnown
  BY DEF MpscInv
<1>1. CASE UNCHANGED Channel!vars
  BY <1>1, <1>t, MpscAside DEF Channel!vars, MpscTypes, ReceiverKnown
<1>2. ASSUME NEW t \in Tasks, Channel!Send(t) \/ Channel!Resend(t)
      PROVE  MpscInv'
  BY <1>2, MpscPoll DEF Channel!Send, Channel!Resend
<1>3. ASSUME NEW t \in Tasks, Channel!TrySend(t)
      PROVE  MpscInv'
  <2>1. len' = len + 1 /\ Channel!WakeReceiver(channel_woken)
        /\ UNCHANGED <<senders, receiver_alive, receiving, next_waiter_id, send_wait_order,
                       send_waiters, waiter, abandoned>>
    BY <1>3 DEF Channel!TrySend
  <2>2. ReceiverKnown' /\ channel_woken' \cap Tasks = channel_woken \cap Tasks
        /\ receiver_waker' = FALSE
    BY <1>t, <2>1, MpscWakeReceiver
  <2>3. len' \in Nat /\ len <= len'
    BY <1>t, <2>1 DEF MpscTypes
  <2> QED
    BY <1>t, <2>1, <2>2, <2>3, MpscAside DEF MpscTypes
<1>4. ASSUME NEW t \in Tasks, Channel!DropSend(t)
      PROVE  MpscInv'
  <2>1. /\ Channel!Unregister(t) /\ abandoned' = TRUE
        /\ UNCHANGED <<len, senders, receiver_alive, receiver_waker, receiving, next_waiter_id,
                       send_wait_order, channel_woken>>
    BY <1>4 DEF Channel!DropSend
  <2>2. /\ send_waiters' \subseteq [id : Nat, task : Tasks]
        /\ waiter' \in [Tasks -> Nat \cup {Nil}]
        /\ IdsInOrder' /\ SleepersKnown'
    BY <1>t, <2>1, MpscUnregister
  <2> QED
    BY <1>t, <2>1, <2>2 DEF MpscInv, MpscTypes, SlotsKnown, ReceiverKnown
<1>5. ASSUME NEW t \in Tasks, Channel!CloneSender(t)
      PROVE  MpscInv'
  BY <1>5, <1>t, MpscAside DEF Channel!CloneSender, ReceiverKnown, MpscTypes
<1>6. ASSUME NEW t \in Tasks, Channel!DropSender(t)
      PROVE  MpscInv'
  <2>1. /\ senders' = senders \ {t}
        /\ UNCHANGED <<len, receiver_alive, receiving, next_waiter_id, send_wait_order,
                       send_waiters, waiter, abandoned>>
    BY <1>6 DEF Channel!DropSender
  <2>2. CASE senders = {t}
    <3>1. Channel!WakeReceiver(channel_woken)
      BY <1>6, <2>2 DEF Channel!DropSender
    <3>2. ReceiverKnown' /\ channel_woken' \cap Tasks = channel_woken \cap Tasks
          /\ receiver_waker' = FALSE
      BY <1>t, <2>1, <3>1, MpscWakeReceiver
    <3>3. len' \in Nat /\ len <= len'
      BY <1>t, <2>1 DEF MpscTypes
    <3>4. receiving' \in BOOLEAN /\ receiver_waker' \in BOOLEAN
      BY <1>t, <2>1, <3>2, Zenon DEF MpscTypes
    <3> QED
      BY <2>1, <3>2, <3>3, <3>4, MpscAside
  <2>3. CASE senders # {t}
    <3>1. UNCHANGED <<receiver_waker, channel_woken>> /\ senders \ {t} # {}
      BY <1>6, <2>3 DEF Channel!DropSender
    <3>2. ReceiverKnown'
      BY <1>t, <2>1, <3>1 DEF ReceiverKnown
    <3> QED
      BY <1>t, <2>1, <3>1, <3>2, MpscAside DEF MpscTypes
  <2> QED
    BY <2>2, <2>3
<1>7. CASE Channel!PollEmpty
  <2>1. /\ len = 0 /\ len' = len /\ channel_woken' = channel_woken \ {Receiver}
        /\ UNCHANGED <<senders, receiver_alive, next_waiter_id, send_wait_order, send_waiters,
                       waiter, abandoned>>
    BY <1>7 DEF Channel!PollEmpty
  <2>2. receiving' \in BOOLEAN /\ receiver_waker' \in BOOLEAN
        /\ (receiving' => receiver_waker' /\ senders # {})
    BY <1>7, <1>t DEF Channel!PollEmpty, MpscTypes
  <2>3. ReceiverKnown'
    BY <2>1, <2>2 DEF ReceiverKnown
  <2>4. channel_woken' \cap Tasks = channel_woken \cap Tasks
    BY <2>1
  <2> QED
    BY <1>t, <2>1, <2>2, <2>3, <2>4, MpscAside DEF MpscTypes
<1>8. CASE Channel!Recv
  BY <1>7, <1>8, MpscTake DEF Channel!Recv
<1>9. CASE Channel!DropRecv
  <2>1. /\ receiving' = FALSE
        /\ UNCHANGED <<len, receiver_alive, receiver_waker, next_waiter_id, send_wait_order,
                       send_waiters, waiter, channel_woken, abandoned>>
    BY <1>9 DEF Channel!DropRecv
  <2>2. ReceiverKnown'
    BY <2>1 DEF ReceiverKnown
  <2>3. len' \in Nat /\ len <= len'
    BY <1>t, <2>1 DEF MpscTypes
  <2>4. receiving' \in BOOLEAN /\ receiver_waker' \in BOOLEAN
    BY <1>t, <2>1, Zenon DEF MpscTypes
  <2>5. channel_woken' \cap Tasks = channel_woken \cap Tasks
    BY <2>1
  <2> QED
    BY <2>1, <2>2, <2>3, <2>4, <2>5, MpscAside
<1>10. CASE Channel!DropReceiver
  <2>1. /\ receiver_alive' = FALSE /\ receiver_waker' = FALSE
        /\ send_wait_order' = <<>> /\ send_waiters' = {}
        /\ channel_woken' = channel_woken \cup {w.task : w \in send_waiters}
        /\ ~receiving
        /\ UNCHANGED <<len, senders, receiving, next_waiter_id, waiter, abandoned>>
    BY <1>10 DEF Channel!DropReceiver
  <2>2. send_wait_order' \in Seq(Nat)
    BY <2>1
  <2>3. MpscTypes'
    BY <1>t, <2>1, <2>2 DEF MpscTypes
  <2>4. \A t \in Tasks : ~Asleep(t)'
    <3> SUFFICES ASSUME NEW t \in Tasks, waiter[t] # Nil, t \notin channel_woken
                 PROVE  t \in channel_woken'
      BY <2>1 DEF Asleep
    <3>1. [id |-> waiter[t], task |-> t] \in send_waiters /\ [id |-> waiter[t], task |-> t].task = t
      BY <1>t DEF SleepersKnown, Asleep
    <3> QED
      BY <2>1, <3>1
  <2> QED
    BY <1>t, <2>1, <2>3, <2>4 DEF MpscInv, IdsInOrder, SleepersKnown, SlotsKnown, ReceiverKnown
<1> QED
  BY <1>1, <1>2, <1>3, <1>4, <1>5, <1>6, <1>8, <1>9, <1>10 DEF Channel!Next

\* Free slots do not lie idle, and who waits can be reached.
LEMMA MpscSafe ==
    ASSUME MpscInv
    PROVE  Channel!NoLostSender /\ Channel!SenderRegistered /\ Channel!ReceiverWoken
<1> USE MpscConstants
<1>t. MpscTypes /\ IdsInOrder /\ SleepersKnown /\ SlotsKnown /\ ReceiverKnown
  BY DEF MpscInv
<1>1. Channel!SenderRegistered
  BY <1>t DEF SleepersKnown, Asleep, Channel!SenderRegistered, Channel!Pending
<1>2. Channel!ReceiverWoken
  BY <1>t DEF ReceiverKnown, Channel!ReceiverWoken
<1>3. ASSUME receiver_alive, ~abandoned
      PROVE  Channel!Lesser(Capacity - len, Cardinality(Channel!Pending))
                <= Cardinality(Channel!Pending \cap channel_woken)
  <2>1. Channel!Pending \cap channel_woken = Waking /\ Channel!Pending \in SUBSET Tasks
    BY DEF Waking, Channel!Pending
  <2>2. Cardinality(Channel!Pending) \in Nat /\ len \in Nat /\ Cardinality(Waking) \in Nat
    BY <1>t, <2>1 DEF MpscTypes, Waking
  <2>3. CASE Capacity <= len + Cardinality(Waking)
    BY <2>1, <2>2, <2>3 DEF Channel!Lesser
  <2>4. CASE \A t \in Tasks : ~Asleep(t)
    <3>1. Channel!Pending = Waking
      BY <2>4 DEF Asleep, Waking, Channel!Pending
    <3> QED
      BY <2>1, <2>2, <3>1 DEF Channel!Lesser
  <2> QED
    BY <1>3, <1>t, <2>3, <2>4 DEF SlotsKnown
<1>4. Channel!NoLostSender
  BY <1>3, MpscLibrary DEF Channel!NoLostSender, Channel!SlotsOffered
<1> QED
  BY <1>1, <1>2, <1>4

-----------------------------------------------------------------------------
(* The primitives together.                                                  *)

SyncInv ==
    /\ MutexInv /\ NotifyInv /\ MpscInv /\ JoinInv /\ BarrierInv /\ WatchInv
    /\ WaitInv /\ TickInv /\ SemInv /\ RwInv

\* The initial states satisfy the invariants of all primitives.
LEMMA SyncInit == ASSUME Init PROVE SyncInv
BY MutexInit, NotifyInit, MpscInit, JoinInit, BarrierInit, WatchInit, WaitInit, TickInit,
   SemInit, RwInit DEF Init, SyncInv

\* Every step keeps them.
LEMMA SyncNext == ASSUME SyncInv, [Next]_vars PROVE SyncInv'
<1>1. /\ [Mutex!Next]_(Mutex!vars) /\ [Notification!Next]_(Notification!vars)
      /\ [Channel!Next]_(Channel!vars) /\ [Joins!Next]_(Joins!vars)
      /\ [Meeting!Next]_(Meeting!vars) /\ [Value!Next]_(Value!vars)
      /\ [ClockNext]_time /\ using' = using
      /\ [IF using = "rwlock" THEN Lock!RwNext ELSE Acquires!Next]_semaphore
  BY ComponentSteps
<1>2. /\ MutexInv /\ NotifyInv /\ MpscInv /\ JoinInv /\ BarrierInv /\ WatchInv
      /\ WaitInv /\ TickInv /\ SemInv /\ RwInv
  BY DEF SyncInv
<1>3. MutexInv' /\ NotifyInv' /\ MpscInv'
  BY <1>1, <1>2, MutexNext, NotifyNext, MpscNext
<1>4. JoinInv' /\ BarrierInv' /\ WatchInv'
  BY <1>1, <1>2, JoinNextInv, BarrierNext, WatchNext
<1>5. WaitInv' /\ TickInv'
  <2>1. next_tick \in Nat
    BY <1>2 DEF TickInv
  <2> QED
    BY <1>1, <1>2, <2>1, WaitNext, TickNext
<1>6. SemInv' /\ RwInv'
  <2>1. [SemaphoreSteps]_semaphore
    BY <1>1, EitherSteps
  <2> QED
    BY <1>1, <1>2, <2>1, SemNext, RwNextInv
<1> QED
  BY <1>3, <1>4, <1>5, <1>6 DEF SyncInv

\* The invariants of the primitives hold in every state of the composition.
THEOREM SyncInvariant == Spec => []SyncInv
<1>1. Init => SyncInv
  BY SyncInit
<1>2. SyncInv /\ [Next]_vars => SyncInv'
  BY SyncNext
<1> QED
  BY <1>1, <1>2, PTL DEF Spec

\* mutex.rs, batch_semaphore.rs and rwlock.rs: one guard of a mutex at a time,
\* and no permit is lost or made up, for any number of tasks and permits.
THEOREM GuardsAreExact == Spec => []GuardsExact
<1>1. SyncInv => GuardsExact
  BY MutexSafe, SemSafe DEF SyncInv, GuardsExact
<1> QED
  BY <1>1, SyncInvariant, PTL

\* Nobody sleeps beside what it waits for: semaphore, lock, mutex, notify, mpsc,
\* watch and oneshot channel.
THEOREM NoWakeupIsLost == Spec => []NoLostWakeup
<1>1. SyncInv => NoLostWakeup
  <2> SUFFICES ASSUME SyncInv
               PROVE  NoLostWakeup
    OBVIOUS
  <2>1. MutexInv /\ NotifyInv /\ MpscInv /\ WatchInv /\ WaitInv /\ SemInv
    BY DEF SyncInv
  <2>2. Acquires!WaiterRegistered /\ Acquires!NoLostWakeup /\ Mutex!NoStrandedWaiter
    BY <2>1, SemSafe, MutexSafe
  <2>3. /\ Notification!NoLostNotification /\ Value!ChangeWoken /\ Clock!ReceiverWakes
        /\ Channel!NoLostSender /\ Channel!SenderRegistered /\ Channel!ReceiverWoken
    BY <2>1, NotifySafe, WatchSafe, WaitSafe, MpscSafe
  <2> QED
    BY <2>2, <2>3 DEF NoLostWakeup
<1> QED
  BY <1>1, SyncInvariant, PTL

\* task.rs, barrier.rs and time.rs: joins, barrier waits, timeouts and ticks end
\* when and only when they may.
THEOREM WaitsAreTruthful == Spec => []WaitsTruthful
<1>1. SyncInv => WaitsTruthful
  BY JoinSafe, BarrierSafe, WaitSafe, TickSafe DEF SyncInv, WaitsTruthful
<1> QED
  BY <1>1, SyncInvariant, PTL

\* batch_semaphore.rs: first come, first served, readers and writers included.
THEOREM NobodyOvertakes == Spec => NoOvertaking
<1>1. SyncInv /\ [Next]_vars => [Fair]_semaphore
  BY ComponentSteps, EitherSteps, SemFair DEF SyncInv
<1>2. Spec => [][Fair]_semaphore
  BY <1>1, SyncInvariant, PTL DEF Spec
<1> QED
  BY <1>2 DEF NoOvertaking, Acquires!NoOvertaking, Acquires!vars, semaphore, Fair

\* rwlock.rs: a semaphore whose readers take one permit and whose writers take all
\* of them implements a reader-writer lock.
THEOREM LockIsReadersWriter == Spec => ImplementsReadersWriter
<1>1. Init => Abstract!Init
  BY DEF Init, Abstract!Init, Lock!Init, Lock!Mode
<1>2. SyncInv /\ HeldFits' /\ [Next]_vars => [Abstract!Next]_RwMode
  BY ComponentSteps, RwRefines DEF SyncInv
<1>3. SyncInv => HeldFits
  BY RwFits DEF SyncInv
<1>4. Spec => [][Abstract!Next]_RwMode
  BY <1>2, <1>3, SyncInvariant, PTL DEF Spec
<1> QED
  BY <1>1, <1>4, PTL DEF Spec, ImplementsReadersWriter, Abstract!Spec, RwMode
=============================================================================
