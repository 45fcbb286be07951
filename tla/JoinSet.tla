------------------------------ MODULE JoinSet -------------------------------
(***************************************************************************)
(* Spawned tasks, their JoinHandles and the JoinSet that joins them        *)
(* (des-tokio, task.rs).                                                   *)
(*                                                                         *)
(* Aborting sets a flag that the joiner sees and posts a Cancel event to   *)
(* the runtime; until that event is handled the task may still run.  One   *)
(* task, the joiner, owns the set; AbortHandles are used by anybody.       *)
(***************************************************************************)
EXTENDS Integers, Sequences, FiniteSets, SequencesExt

CONSTANTS Tasks,        \* the tasks that may be spawned
          LateAbort     \* whether AbortHandles are used while join_next is pending

JoinAssumption == LateAbort \in BOOLEAN

VARIABLES
    handles,    \* JoinSet::handles
    running,    \* spawned tasks that the runtime still has
    cancels,    \* tasks with a Cancel event under way
    completed, cancelled, wakers,   \* the tasks whose JoinState says so, or holds a waker
    pending,    \* whether a join_next() is pending
    woken,      \* whether the joiner was woken since
    joined,     \* history: what join_next returned, [task, ok]
    finished,   \* history: the tasks that ran to completion
    detached    \* history: the tasks whose handles were dropped

vars == <<handles, running, cancels, completed, cancelled, wakers, pending, woken, joined,
          finished, detached>>

TypeOK ==
    /\ handles \in Seq(Tasks)
    /\ \A S \in {running, cancels, completed, cancelled, wakers, finished, detached} :
         S \subseteq Tasks
    /\ pending \in BOOLEAN /\ woken \in BOOLEAN
    /\ joined \subseteq [task : Tasks, ok : BOOLEAN]

Init ==
    /\ handles = <<>> /\ joined = {} /\ finished = {}
    /\ running = {} /\ cancels = {} /\ completed = {} /\ cancelled = {}
    /\ wakers = {} /\ detached = {}
    /\ pending = FALSE /\ woken = FALSE

JoinedTasks == {j.task : j \in joined}
Spawned == ToSet(handles) \cup JoinedTasks \cup detached

\* JoinSet::spawn, spawn_local.
Spawn(t) ==
    /\ ~pending /\ t \notin Spawned
    /\ handles' = Append(handles, t)
    /\ running' = running \cup {t}
    /\ UNCHANGED <<cancels, completed, cancelled, wakers, pending, woken, joined, finished, detached>>

\* The waker of every task of S that has one is taken and called.
WakeJoiner(S) ==
    /\ wakers' = wakers \ S
    /\ woken' = (woken \/ S \cap wakers # {})

\* Mutant: the joiner is not woken.
CompleteSilently(t) ==
    /\ t \in running
    /\ running' = running \ {t}
    /\ finished' = finished \cup {t}
    /\ completed' = completed \cup {t}
    /\ UNCHANGED <<handles, cancels, cancelled, wakers, pending, woken, joined, detached>>

\* The task's future is ready: JoinState::complete.
Complete(t) ==
    /\ t \in running
    /\ running' = running \ {t}
    /\ finished' = finished \cup {t}
    /\ completed' = completed \cup {t}
    /\ WakeJoiner({t})
    /\ UNCHANGED <<handles, cancels, cancelled, pending, joined, detached>>

\* The runtime handles Cancel: the task is gone, if it was still there.
HandleCancel(t) ==
    /\ t \in cancels
    /\ cancels' = cancels \ {t}
    /\ running' = running \ {t}
    /\ UNCHANGED <<handles, completed, cancelled, wakers, pending, woken, joined, finished, detached>>

\* AbortHandle::abort.
Abort(t) ==
    /\ t \in Spawned \ cancelled
    /\ LateAbort \/ ~pending
    /\ cancelled' = cancelled \cup {t}
    /\ cancels' = cancels \cup {t}
    /\ UNCHANGED <<handles, running, completed, wakers, pending, woken, joined, finished, detached>>

\* JoinSet::abort_all, with JoinHandle::abort for every handle.
AbortAll ==
    /\ ~pending /\ handles # <<>>
    /\ cancelled' = cancelled \cup ToSet(handles)
    /\ cancels' = cancels \cup ToSet(handles)
    /\ WakeJoiner(ToSet(handles))
    /\ UNCHANGED <<handles, running, completed, pending, joined, finished, detached>>

\* JoinSet::detach_all.
DetachAll ==
    /\ ~pending /\ handles # <<>>
    /\ detached' = detached \cup ToSet(handles)
    /\ handles' = <<>>
    /\ UNCHANGED <<running, cancels, completed, cancelled, wakers, pending, woken, joined, finished>>

\* JoinSet::drop: abort_all, and the handles are dropped.  The joiner may make
\* another set.
DropSet ==
    /\ ~pending /\ handles # <<>>
    /\ cancelled' = cancelled \cup ToSet(handles)
    /\ cancels' = cancels \cup ToSet(handles)
    /\ WakeJoiner(ToSet(handles))
    /\ detached' = detached \cup ToSet(handles)
    /\ handles' = <<>>
    /\ UNCHANGED <<running, completed, pending, joined, finished>>

\* JoinHandle::poll would be ready.
Settled(t) == t \in cancelled \cup completed

ReadyHandles == {i \in 1 .. Len(handles) : Settled(handles[i])}

\* The handles after the k-th was ready: those before it went to the end.
Rotated(k) == SubSeq(handles, k + 1, Len(handles)) \o SubSeq(handles, 1, k - 1)

\* The handles polled before the k-th: each keeps the joiner's waker.
PolledBefore(k) == {handles[i] : i \in 1 .. k - 1}

\* poll_join_next: the first handle that is ready is returned.
JoinOne(k) ==
    /\ k \in ReadyHandles /\ \A i \in ReadyHandles : k <= i
    /\ handles' = Rotated(k)
    /\ wakers' = wakers \cup PolledBefore(k)
    /\ joined' = joined \cup {[task |-> handles[k], ok |-> handles[k] \notin cancelled]}
    /\ pending' = FALSE

\* No handle is ready.
JoinPending ==
    /\ handles # <<>> /\ ReadyHandles = {}
    /\ wakers' = wakers \cup PolledBefore(Len(handles) + 1)
    /\ pending' = TRUE
    /\ UNCHANGED <<handles, joined>>

\* A poll of join_next: the first, or one that follows a wake.  On an empty set
\* it returns None and changes nothing.
JoinNext ==
    /\ pending => woken
    /\ (\E k \in 1 .. Len(handles) : JoinOne(k)) \/ JoinPending
    /\ woken' = FALSE
    /\ UNCHANGED <<running, cancels, completed, cancelled, finished, detached>>

\* A pending join_next() is dropped.
DropJoinNext ==
    /\ pending
    /\ pending' = FALSE
    /\ UNCHANGED <<handles, running, cancels, completed, cancelled, wakers, woken, joined,
                   finished, detached>>

Next ==
    \/ \E t \in Tasks : Spawn(t) \/ Complete(t) \/ HandleCancel(t) \/ Abort(t)
    \/ AbortAll \/ DetachAll \/ DropSet \/ JoinNext \/ DropJoinNext

Spec == Init /\ [][Next]_vars

-----------------------------------------------------------------------------
\* A task that was joined with a value ran to completion, and one whose handle
\* is in the set, not aborted and not running, is settled: no join waits for a
\* task that will never tell.
JoinTruthful ==
    /\ \A j \in joined : j.ok => j.task \in finished
    /\ \A t \in ToSet(handles) : t \in running \/ Settled(t)

\* join_next returns once tasks come to an end.
JoinReturns == pending ~> ~pending
=============================================================================
