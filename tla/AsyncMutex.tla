----------------------------- MODULE AsyncMutex -----------------------------
(***************************************************************************)
(* The asynchronous mutex of des-tokio (sync/mutex.rs).                    *)
(*                                                                         *)
(* A release does not hand the lock over: it removes one waiter, wakes it, *)
(* and whoever polls first gets the lock.  A LockFuture that is dropped    *)
(* leaves its waiter behind.  A task has one lock future at a time, and    *)
(* the code keeps one waiter per task.                                     *)
(***************************************************************************)
EXTENDS Sequences, Integers, FiniteSets, SequencesExt

CONSTANTS Tasks,
          Nil,
          FifoWaiters   \* FifoMutexWaiterPolicy; otherwise any choice

MutexAssumption == Nil \notin Tasks /\ FifoWaiters \in BOOLEAN

VARIABLES
    locked,
    owner,      \* owner_task_id
    waiters,    \* the tasks of the waiters
    phase,      \* per task: "idle", "locking" (lock() is pending) or "holding" (it has the guard)
    woken,      \* tasks that were woken and not polled since
    disturbed   \* history: a pending future was dropped, or polled by a task woken for something else

vars == <<locked, owner, waiters, phase, woken, disturbed>>

TypeOK ==
    /\ locked \in BOOLEAN
    /\ owner \in Tasks \cup {Nil}
    /\ waiters \in Seq(Tasks)
    /\ phase \in [Tasks -> {"idle", "locking", "holding"}]
    /\ woken \subseteq Tasks
    /\ disturbed \in BOOLEAN

Init ==
    /\ locked = FALSE
    /\ owner = Nil
    /\ waiters = <<>>
    /\ phase = [t \in Tasks |-> "idle"]
    /\ woken = {}
    /\ disturbed = FALSE

\* The guard is made for t; its waiter, if it has one, is not looked for.
TakeLock(t) ==
    /\ locked' = TRUE
    /\ owner' = t
    /\ phase' = [phase EXCEPT ![t] = "holding"]
    /\ UNCHANGED waiters

\* The lock is taken: t waits, with one waiter however often it is polled.
EnqueueWaiter(t) ==
    /\ phase' = [phase EXCEPT ![t] = "locking"]
    /\ waiters' = IF Contains(waiters, t) THEN waiters ELSE Append(waiters, t)
    /\ UNCHANGED <<locked, owner>>

\* LockFuture::poll.
PollLock(t) ==
    /\ woken' = woken \ {t}
    /\ IF locked THEN EnqueueWaiter(t) ELSE TakeLock(t)

\* lock().await up to its first poll, and the polls that follow.
Lock(t) == phase[t] = "idle" /\ PollLock(t) /\ UNCHANGED disturbed
Repoll(t) ==
    /\ phase[t] = "locking"
    /\ PollLock(t)
    /\ disturbed' = (disturbed \/ t \notin woken)

\* try_lock that succeeds; otherwise nothing changes.
TryLock(t) == phase[t] = "idle" /\ ~locked /\ TakeLock(t) /\ UNCHANGED <<woken, disturbed>>

\* A pending LockFuture is dropped.  There is no Drop: the waiter stays.
DropLock(t) ==
    /\ phase[t] = "locking"
    /\ phase' = [phase EXCEPT ![t] = "idle"]
    /\ disturbed' = TRUE
    /\ UNCHANGED <<locked, owner, waiters, woken>>

\* choose_mutex_waiter.
Chosen == IF FifoWaiters THEN {1} ELSE 1 .. Len(waiters)

\* The waiter the policy chooses is removed and woken.
WakeWaiter == \E i \in Chosen : /\ waiters' = RemoveAt(waiters, i)
                                 /\ woken' = woken \cup {waiters[i]}

\* MutexGuard::drop.
Unlock(t) ==
    /\ phase[t] = "holding"
    /\ locked' = FALSE
    /\ owner' = Nil
    /\ phase' = [phase EXCEPT ![t] = "idle"]
    /\ IF waiters = <<>> THEN UNCHANGED <<waiters, woken>> ELSE WakeWaiter
    /\ UNCHANGED disturbed

Next == \E t \in Tasks : Lock(t) \/ Repoll(t) \/ TryLock(t) \/ DropLock(t) \/ Unlock(t)

Spec == Init /\ [][Next]_vars

-----------------------------------------------------------------------------
\* At most one task has the guard, and locked and owner_task_id tell which:
\* the guards' access to the UnsafeCell is exclusive.
MutualExclusion ==
    /\ \A t \in Tasks : phase[t] = "holding" => locked /\ owner = t
    /\ locked => \E t \in Tasks : phase[t] = "holding"

Pending == {t \in Tasks : phase[t] = "locking"}

\* When the lock is free and tasks wait for it, one of them has been woken:
\* the lock is not left alone, as long as a lock future is polled only when
\* its own waiter was woken and is not dropped.
NoStrandedWaiter ==
    ~disturbed /\ ~locked /\ Pending # {} => Pending \cap woken # {}
=============================================================================
