----------------------------- MODULE TowerLimits ----------------------------
(***************************************************************************)
(* The concurrency limits of des-tower: DesConcurrencyLimit, whose clones  *)
(* share a limit (limit/concurrency/mod.rs), around a                      *)
(* DesGlobalConcurrencyLimit, which shares one among services              *)
(* (limit/global_concurrency/mod.rs).                                      *)
(*                                                                         *)
(* A task has a clone of one of the services, its own flags of permit, and *)
(* one call at a time.  The service below is always ready, and when its    *)
(* futures return is a choice.  A clone may be dropped with its permits,   *)
(* and replaced by a new one.                                              *)
(***************************************************************************)
EXTENDS Integers, FiniteSets

CONSTANTS Tasks, Services,
          ServiceOf,    \* the service a task has a clone of
          Max,          \* max_concurrency of each service's limit
          GlobalMax,    \* max_concurrency of the global limit
          MaxDropped    \* bound: clones dropped while they hold a permit

LimitsAssumption ==
    /\ IsFiniteSet(Tasks) /\ IsFiniteSet(Services)
    /\ ServiceOf \in [Tasks -> Services]
    /\ Max \in Nat /\ GlobalMax \in Nat /\ MaxDropped \in Nat

VARIABLES
    current,        \* current_concurrency, per service
    global,         \* current_concurrency of GlobalConcurrencyLimitState
    waiters,        \* per service: tasks whose wakers are registered
    global_waiters,
    permit,         \* per task: the permit of its clone of DesConcurrencyLimit
    global_permit,  \* per task: the permit of the clone within
    phase,          \* per task: "idle", "pending" (in poll_ready), "ready", "calling" or "failed"
    woken,          \* tasks that were woken and not polled since
    dropped         \* history: clones dropped with permits, [service : of the service's limit, global]

vars == <<current, global, waiters, global_waiters, permit, global_permit, phase, woken, dropped>>

TypeOK ==
    /\ current \in [Services -> Nat] /\ global \in Nat
    /\ waiters \in [Services -> SUBSET Tasks] /\ global_waiters \subseteq Tasks
    /\ permit \in [Tasks -> BOOLEAN] /\ global_permit \in [Tasks -> BOOLEAN]
    /\ phase \in [Tasks -> {"idle", "pending", "ready", "calling", "failed"}]
    /\ woken \subseteq Tasks
    /\ dropped \in [service : [Services -> Nat], global : Nat]

LimitInit ==
    /\ current = [s \in Services |-> 0]
    /\ waiters = [s \in Services |-> {}]
    /\ permit = [t \in Tasks |-> FALSE]

GlobalInit ==
    /\ global = 0
    /\ global_waiters = {}
    /\ global_permit = [t \in Tasks |-> FALSE]

Init ==
    /\ LimitInit /\ GlobalInit
    /\ phase = [t \in Tasks |-> "idle"]
    /\ woken = {}
    /\ dropped = [service |-> [s \in Services |-> 0], global |-> 0]

\* try_acquire of the service's limit; tasks do not run in parallel, so the
\* exchange of the counter finds what was loaded.
MayAcquire(s) == current[s] < Max

\* try_acquire of the global limit.
GlobalMayAcquire == global < GlobalMax

\* poll_ready of the global limit: its permit is kept by the clone.
GlobalPollReady(t) ==
    \/ /\ global_permit[t]
       /\ UNCHANGED <<global, global_permit, global_waiters>>
    \/ /\ ~global_permit[t] /\ GlobalMayAcquire
       /\ global' = global + 1
       /\ global_permit' = [global_permit EXCEPT ![t] = TRUE]
       /\ UNCHANGED global_waiters
    \/ /\ ~global_permit[t] /\ ~GlobalMayAcquire
       /\ global_waiters' = global_waiters \cup {t}
       /\ UNCHANGED <<global, global_permit>>

\* poll_ready of the service's limit: the service within is asked first, so the
\* task may wait here with the global permit in hand.  A clone that has its
\* permit already is "ready" and stays so.
PollReady(t) ==
    LET s == ServiceOf[t] IN
    /\ phase[t] \in {"idle", "pending"}
    /\ GlobalPollReady(t)
    /\ \/ /\ global_permit'[t] /\ MayAcquire(s)
          /\ phase' = [phase EXCEPT ![t] = "ready"]
          /\ current' = [current EXCEPT ![s] = @ + 1]
          /\ permit' = [permit EXCEPT ![t] = TRUE]
          /\ UNCHANGED waiters
       \/ /\ global_permit'[t] /\ ~MayAcquire(s)
          /\ phase' = [phase EXCEPT ![t] = "pending"]
          /\ waiters' = [waiters EXCEPT ![s] = @ \cup {t}]
          /\ UNCHANGED <<current, permit>>
       \/ /\ ~global_permit'[t]
          /\ phase' = [phase EXCEPT ![t] = "pending"]
          /\ UNCHANGED <<current, permit, waiters>>
    /\ woken' = woken \ {t}
    /\ UNCHANGED dropped

\* call of the global limit: with the permit of poll_ready, or without one, if
\* there is room.  The future is acquired or fails with NotReady.
GlobalCall(t) ==
    /\ global' = IF ~global_permit[t] /\ GlobalMayAcquire THEN global + 1 ELSE global
    /\ global_permit' = [global_permit EXCEPT ![t] = FALSE]

\* Whether the call of the global limit gives a future that holds a slot.
GlobalAcquired(t) == global_permit[t] \/ GlobalMayAcquire

\* call of the service's limit: without a slot the service within is not called.
\* A future whose inner one has no global slot fails at its first poll, and
\* releases the slot of the service then.
Call(t) ==
    LET s == ServiceOf[t] IN
    /\ phase[t] \in {"idle", "ready"}
    /\ permit' = [permit EXCEPT ![t] = FALSE]
    /\ \/ /\ permit[t] \/ MayAcquire(s)
          /\ current' = IF permit[t] THEN current ELSE [current EXCEPT ![s] = @ + 1]
          /\ GlobalCall(t)
          /\ phase' = [phase EXCEPT ![t] = IF GlobalAcquired(t) THEN "calling" ELSE "failed"]
       \/ /\ ~permit[t] /\ ~MayAcquire(s)
          /\ UNCHANGED <<current, global, global_permit, phase>>
    /\ UNCHANGED <<waiters, global_waiters, woken, dropped>>

\* release of the global limit: every waiter is woken.
GlobalRelease == global' = global - 1 /\ global_waiters' = {}

\* Mutant: the slot is not given back by a future that is dropped.
ReleaseOfFinished(t, finished) ==
    LET s == ServiceOf[t] IN
    /\ current' = IF finished THEN [current EXCEPT ![s] = @ - 1] ELSE current
    /\ waiters' = [waiters EXCEPT ![s] = {}]

\* The slot of the service is released: every waiter is woken.
Release(t, finished) ==
    LET s == ServiceOf[t] IN
    /\ current' = [current EXCEPT ![s] = @ - 1]
    /\ waiters' = [waiters EXCEPT ![s] = {}]

\* The end of a future that holds the slot of its service: it returns, or it is
\* dropped.  The future within holds a global slot unless it has failed.
EndCall(t, finished) ==
    /\ phase[t] \in {"calling", "failed"}
    /\ Release(t, finished)
    /\ \/ phase[t] = "calling" /\ GlobalRelease
       \/ phase[t] = "failed" /\ UNCHANGED <<global, global_waiters>>
    /\ woken' = woken \cup waiters[ServiceOf[t]]
                      \cup (IF phase[t] = "calling" THEN global_waiters ELSE {})
    /\ phase' = [phase EXCEPT ![t] = "idle"]
    /\ UNCHANGED <<permit, global_permit, dropped>>

\* The future returns: the inner one did, or it has its immediate error.
PollFinished(t) == EndCall(t, TRUE)

\* PinnedDrop of the futures.
DropFuture(t) == EndCall(t, FALSE)

\* The clone is dropped before the call that its permits were for: there is no
\* Drop for the services, and the slots stay taken.  The task takes a new clone.
DropClone(t) ==
    /\ phase[t] \in {"ready", "pending"}
    /\ dropped.global < MaxDropped
    /\ dropped' = [service |-> IF permit[t] THEN [dropped.service EXCEPT ![ServiceOf[t]] = @ + 1]
                               ELSE dropped.service,
                   global |-> IF global_permit[t] THEN dropped.global + 1 ELSE dropped.global]
    /\ permit' = [permit EXCEPT ![t] = FALSE]
    /\ global_permit' = [global_permit EXCEPT ![t] = FALSE]
    /\ phase' = [phase EXCEPT ![t] = "idle"]
    /\ UNCHANGED <<current, global, waiters, global_waiters, woken>>

Next == \E t \in Tasks : \/ PollReady(t) \/ Call(t) \/ PollFinished(t)
                         \/ DropFuture(t) \/ DropClone(t)

Spec == Init /\ [][Next]_vars

-----------------------------------------------------------------------------
Clones(s) == {t \in Tasks : ServiceOf[t] = s}

\* Both counters count exactly the permits that clones hold, the futures that
\* have a slot and the permits that were lost with a clone, and so never pass
\* their limits: no end of a future gives a slot back twice or not at all.
SlotsExact ==
    /\ global <= GlobalMax
    /\ global = Cardinality({t \in Tasks : global_permit[t] \/ phase[t] = "calling"}) + dropped.global
    /\ \A s \in Services :
        /\ current[s] <= Max
        /\ current[s] = Cardinality({t \in Clones(s) : permit[t] \/ phase[t] \in {"calling", "failed"}})
                        + dropped.service[s]

\* A task that sleeps in poll_ready sleeps beside a limit that is reached, and
\* its waker is registered there: the next slot that is released wakes it.
LimitWakes ==
    \A t \in Tasks : phase[t] = "pending" /\ t \notin woken =>
        LET s == ServiceOf[t] IN
        \/ global_permit[t] /\ ~MayAcquire(s) /\ t \in waiters[s]
        \/ ~global_permit[t] /\ ~GlobalMayAcquire /\ t \in global_waiters
=============================================================================
