------------------------------ MODULE Semaphore ------------------------------
(***************************************************************************)
(* The fair semaphore of des-tokio (sync/batch_semaphore.rs, and           *)
(* sync/semaphore.rs, which wraps it in permits that are returned when     *)
(* dropped).                                                               *)
(*                                                                         *)
(* A task has at most one acquire and one permit at a time; a task that    *)
(* polls several acquires counts as several tasks, and so the task stands  *)
(* for the waiter_id.  Every operation holds the lock of the state for as  *)
(* long as it runs, so it is one step.  A task may be polled when it was   *)
(* not woken (another branch of its select! was): woken records who was.   *)
(***************************************************************************)
EXTENDS Integers, Sequences, FiniteSets, SequencesExt

CONSTANTS Tasks,
          Permits,      \* the permits it starts with
          Amounts,      \* how many permits a task may ask for at once
          MaxAdded,     \* bound: permits added by add_permits
          MaxForgotten, \* bound: permits forgotten
          MayClose      \* whether the program closes the semaphore

SemaphoreAssumption ==
    /\ IsFiniteSet(Tasks)
    /\ Permits \in Nat /\ MaxAdded \in Nat /\ MaxForgotten \in Nat
    /\ Amounts \in SUBSET (Nat \ {0})
    /\ MayClose \in BOOLEAN

VARIABLES
    permits,    \* State::permits
    closed,
    queue,      \* [task, required, remaining], the head is served first
    ready,      \* tasks that were satisfied and have not been polled since
    asked,      \* per task: what its pending Acquire asks for, 0 for none
    held,       \* per task: the size of its SemaphorePermit, 0 for none
    woken,      \* tasks whose waker was called and that were not polled since
    added,      \* history: permits added
    forgotten   \* history: permits forgotten

vars == <<permits, closed, queue, ready, asked, held, woken, added, forgotten>>

Waiter == [task : Tasks, required : Nat \ {0}, remaining : Nat \ {0}]

TypeOK ==
    /\ permits \in Nat
    /\ closed \in BOOLEAN
    /\ queue \in Seq(Waiter)
    /\ ready \subseteq Tasks /\ woken \subseteq Tasks
    /\ asked \in [Tasks -> Nat] /\ held \in [Tasks -> Nat]
    /\ added \in Nat /\ forgotten \in Nat

Init ==
    /\ permits = Permits
    /\ closed = FALSE
    /\ queue = <<>>
    /\ ready = {} /\ woken = {}
    /\ asked = [t \in Tasks |-> 0]
    /\ held = [t \in Tasks |-> 0]
    /\ added = 0 /\ forgotten = 0

Queued == {queue[i].task : i \in 1 .. Len(queue)}

\* What the first k waiters of q lack.
Lacking(q, k) == SumFunctionOnSet([i \in 1 .. Len(q) |-> q[i].remaining], 1 .. k)

\* The waiters of q that n permits satisfy in full.
Satisfied(q, n) == CHOOSE k \in 0 .. Len(q) :
    Lacking(q, k) <= n /\ (k < Len(q) => n < Lacking(q, k + 1))

\* Mutant: the newest waiter is served first.
GrantNewest(q, r, n, w) ==
    LET l == Len(q)
        served == l > 0 /\ q[l].remaining <= n
    IN  /\ permits' = IF served THEN n - q[l].remaining ELSE n
        /\ queue' = IF served THEN SubSeq(q, 1, l - 1) ELSE q
        /\ ready' = r \cup (IF served THEN {q[l].task} ELSE {})
        /\ woken' = w \cup (IF served THEN {q[l].task} ELSE {})

\* add_permits_locked: n permits go to the waiters of q from the head on; the
\* first that they do not satisfy keeps what is left, and without one the rest
\* is available.  r and w are the ready and the woken tasks before it.
Grant(q, r, n, w) ==
    LET k == Satisfied(q, n)
        left == n - Lacking(q, k)
        rest == SubSeq(q, k + 1, Len(q))
    IN  /\ permits' = IF rest = <<>> THEN left ELSE 0
        /\ queue' = IF rest = <<>> THEN rest
                    ELSE [rest EXCEPT ![1] = [rest[1] EXCEPT !.remaining = @ - left]]
        /\ ready' = r \cup {q[i].task : i \in 1 .. k}
        /\ woken' = w \cup {q[i].task : i \in 1 .. k}

\* The first poll of an Acquire that has to wait: with an empty queue it takes
\* what there is.
EnqueueWaiter(t, n) ==
    LET reserved == IF queue = <<>> THEN permits ELSE 0 IN
    /\ permits' = permits - reserved
    /\ queue' = Append(queue, [task |-> t, required |-> n, remaining |-> n - reserved])
    /\ asked' = [asked EXCEPT ![t] = n]
    /\ UNCHANGED held

\* Nobody waits and there are enough permits.
MayTake(n) == queue = <<>> /\ permits >= n

\* Mutant: any request costs one permit.
TakeOne(t, n) ==
    /\ permits' = permits - 1
    /\ held' = [held EXCEPT ![t] = n]
    /\ UNCHANGED <<queue, asked>>

\* The permits are taken and returned as a guard.
TakePermits(t, n) ==
    /\ permits' = permits - n
    /\ held' = [held EXCEPT ![t] = n]
    /\ UNCHANGED <<queue, asked>>

Idle(t) == asked[t] = 0 /\ held[t] = 0

\* acquire_many(n).await up to its first poll.  A closed semaphore returns an
\* error and nothing changes.
Acquire(t, n) ==
    /\ Idle(t) /\ ~closed
    /\ \/ MayTake(n) /\ TakePermits(t, n)
       \/ ~MayTake(n) /\ EnqueueWaiter(t, n)
    /\ UNCHANGED <<closed, ready, woken, added, forgotten>>

\* try_acquire_many(n) that succeeds; otherwise nothing changes.
TryAcquire(t, n) ==
    /\ Idle(t) /\ ~closed /\ MayTake(n)
    /\ TakePermits(t, n)
    /\ UNCHANGED <<closed, ready, woken, added, forgotten>>

\* A waiter that was satisfied is polled.
PollReady(t) ==
    /\ asked[t] > 0 /\ ~closed /\ t \in ready
    /\ ready' = ready \ {t}
    /\ held' = [held EXCEPT ![t] = asked[t]]
    /\ asked' = [asked EXCEPT ![t] = 0]
    /\ woken' = woken \ {t}
    /\ UNCHANGED <<permits, closed, queue, added, forgotten>>

\* A waiter that is still queued is polled: its waker is replaced.
PollPending(t) ==
    /\ asked[t] > 0 /\ ~closed /\ t \in Queued
    /\ woken' = woken \ {t}
    /\ UNCHANGED <<permits, closed, queue, ready, asked, held, added, forgotten>>

\* Mutant: what was given to the waiter is lost with it.
CancelAndLose(t, w) ==
    /\ queue' = SelectSeq(queue, LAMBDA x : x.task # t)
    /\ ready' = ready \ {t}
    /\ woken' = w
    /\ UNCHANGED permits

\* cancel_locked: a satisfied waiter returns everything, a queued one what it
\* was given so far.
CancelWaiter(t, w) ==
    LET mine == {i \in 1 .. Len(queue) : queue[i].task = t}
        at == CHOOSE i \in mine : TRUE
        others == IF mine = {} THEN queue ELSE RemoveAt(queue, at)
        given == IF t \in ready THEN asked[t]
                 ELSE IF mine = {} THEN 0 ELSE queue[at].required - queue[at].remaining
    IN  IF given = 0 THEN /\ queue' = others
                          /\ woken' = w
                          /\ UNCHANGED <<permits, ready>>
                     ELSE Grant(others, ready \ {t}, permits + given, w)

\* A waiter is polled after the semaphore was closed: an error, and the future
\* is dropped.
PollClosed(t) ==
    /\ asked[t] > 0 /\ closed
    /\ CancelWaiter(t, woken \ {t})
    /\ asked' = [asked EXCEPT ![t] = 0]
    /\ UNCHANGED <<closed, held, added, forgotten>>

\* A pending Acquire is dropped (a branch of select! that lost, a timeout).
DropAcquire(t) ==
    /\ asked[t] > 0
    /\ CancelWaiter(t, woken)
    /\ asked' = [asked EXCEPT ![t] = 0]
    /\ UNCHANGED <<closed, held, added, forgotten>>

\* SemaphorePermit::drop.
Release(t) ==
    /\ held[t] > 0
    /\ Grant(queue, ready, permits + held[t], woken)
    /\ held' = [held EXCEPT ![t] = 0]
    /\ UNCHANGED <<closed, asked, added, forgotten>>

\* SemaphorePermit::forget.
Forget(t) ==
    /\ held[t] > 0 /\ forgotten + held[t] <= MaxForgotten
    /\ held' = [held EXCEPT ![t] = 0]
    /\ forgotten' = forgotten + held[t]
    /\ UNCHANGED <<permits, closed, queue, ready, asked, woken, added>>

\* add_permits(n).
AddPermits(n) ==
    /\ added + n <= MaxAdded
    /\ Grant(queue, ready, permits + n, woken)
    /\ added' = added + n
    /\ UNCHANGED <<closed, asked, held, forgotten>>

\* close: the queue is emptied and its waiters are woken.
Close ==
    /\ MayClose /\ ~closed
    /\ closed' = TRUE
    /\ queue' = <<>>
    /\ woken' = woken \cup Queued
    /\ UNCHANGED <<permits, ready, asked, held, added, forgotten>>

Poll(t) == PollReady(t) \/ PollPending(t) \/ PollClosed(t)

Next ==
    \/ \E t \in Tasks, n \in Amounts : Acquire(t, n) \/ TryAcquire(t, n)
    \/ \E t \in Tasks : Poll(t) \/ DropAcquire(t) \/ Release(t) \/ Forget(t)
    \/ \E n \in Amounts : AddPermits(n)
    \/ Close

Spec == Init /\ [][Next]_vars

-----------------------------------------------------------------------------
\* No permit is lost or made up when acquires are dropped halfway, satisfied
\* unobserved, or forgotten: all are available, held, or with a waiter.  Close
\* alone drops what queued waiters were given.
PermitsConserved ==
    LET given == [i \in 1 .. Len(queue) |-> queue[i].required - queue[i].remaining]
        total == permits
                 + SumFunctionOnSet(held, Tasks)
                 + SumFunctionOnSet(asked, ready)
                 + SumFunctionOnSet(given, 1 .. Len(queue))
                 + forgotten
    IN  /\ total <= Permits + added
        /\ ~closed => total = Permits + added

\* A pending acquire is queued or satisfied, never both, as long as the
\* semaphore is open: the branch of poll that "treats as ready" an acquire
\* that is neither is never taken.
WaiterRegistered ==
    \A t \in Tasks :
        /\ asked[t] > 0 /\ ~closed => (t \in ready) # (t \in Queued)
        /\ t \in ready \cup Queued => asked[t] > 0
        /\ \A i, j \in 1 .. Len(queue) : queue[i].task = queue[j].task => i = j

\* No wakeup is lost: a pending acquire that would complete has been woken.
NoLostWakeup == \A t \in Tasks : asked[t] > 0 /\ (t \in ready \/ closed) => t \in woken

\* First come, first served: no step satisfies a waiter while one before it
\* stays in the queue, and nobody gets permits around the queue.
NoOvertaking ==
    [][/\ \A i, j \in 1 .. Len(queue) :
              i < j /\ queue[j].task \in ready' \ ready => queue[i].task \notin Queued'
       /\ \A t \in Tasks : held'[t] > held[t] /\ t \notin ready => queue = <<>>]_vars

-----------------------------------------------------------------------------
(* The reader-writer lock (sync/rwlock.rs): a semaphore with MAX_READS       *)
(* permits, of which a reader takes one and a writer all.  It is never       *)
(* closed, and no permit is added or forgotten.                              *)

MaxReads == Permits     \* MAX_READS

MaxReadsAssumption == SemaphoreAssumption /\ Permits > 1

\* read().await and write().await up to the first poll, try_read, try_write.
Read(t) == Acquire(t, 1)
Write(t) == Acquire(t, MaxReads)
TryRead(t) == TryAcquire(t, 1)
TryWrite(t) == TryAcquire(t, MaxReads)

RwNext ==
    \E t \in Tasks :
        \/ Read(t) \/ Write(t) \/ TryRead(t) \/ TryWrite(t)
        \/ PollReady(t) \/ PollPending(t) \/ DropAcquire(t) \/ Release(t)

\* The guard a task has.
Mode(t) == IF held[t] = 0 THEN "none" ELSE IF held[t] = MaxReads THEN "write" ELSE "read"

\* A writer is not starved by readers that keep coming: what waits gets the
\* lock or is dropped.
WriterNotStarved ==
    \A t \in Tasks : asked[t] = MaxReads ~> asked[t] = 0
=============================================================================
