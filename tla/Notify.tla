------------------------------- MODULE Notify -------------------------------
(***************************************************************************)
(* Notify of des-tokio (sync/notify.rs): permits, and wakers in a queue.   *)
(* A Notified completes by taking a permit when it is polled, whoever was  *)
(* woken for it; every poll without a permit adds a waker, and nothing     *)
(* removes one except a notification.                                      *)
(***************************************************************************)
EXTENDS Sequences, Integers, FiniteSets

CONSTANTS Tasks,
          MaxPermits,   \* bound on the permits
          MaxWakers     \* bound on the wakers in the queue

NotifyAssumption == IsFiniteSet(Tasks) /\ MaxPermits \in Nat /\ MaxWakers \in Nat

VARIABLES
    permits,
    waiters,    \* the tasks of the wakers, oldest first
    pending,    \* the tasks with a Notified that was polled and not completed
    woken,      \* tasks that were woken and not polled since
    disturbed   \* history: a pending future was dropped, or polled by a task woken for something else

vars == <<permits, waiters, pending, woken, disturbed>>

TypeOK ==
    /\ permits \in Nat
    /\ waiters \in Seq(Tasks)
    /\ pending \subseteq Tasks /\ woken \subseteq Tasks
    /\ disturbed \in BOOLEAN

Init == permits = 0 /\ waiters = <<>> /\ pending = {} /\ woken = {} /\ disturbed = FALSE

RegisterWaker(t) == waiters' = Append(waiters, t)

\* Notified::poll.
PollNotified(t) ==
    /\ woken' = woken \ {t}
    /\ \/ /\ permits > 0
          /\ permits' = permits - 1
          /\ pending' = pending \ {t}
          /\ UNCHANGED waiters
       \/ /\ permits = 0 /\ Len(waiters) < MaxWakers
          /\ RegisterWaker(t)
          /\ pending' = pending \cup {t}
          /\ UNCHANGED permits

\* notified().await up to its first poll, and the polls that follow.
Wait(t) == t \notin pending /\ PollNotified(t) /\ UNCHANGED disturbed
Repoll(t) == t \in pending /\ PollNotified(t) /\ disturbed' = (disturbed \/ t \notin woken)

\* A pending Notified is dropped; its wakers stay.
DropNotified(t) ==
    /\ t \in pending
    /\ pending' = pending \ {t}
    /\ disturbed' = TRUE
    /\ UNCHANGED <<permits, waiters, woken>>

\* notify_one: a permit, and the oldest waker is called.
NotifyOne ==
    /\ permits < MaxPermits
    /\ permits' = permits + 1
    /\ waiters' = IF waiters = <<>> THEN waiters ELSE Tail(waiters)
    /\ woken' = IF waiters = <<>> THEN woken ELSE woken \cup {Head(waiters)}
    /\ UNCHANGED <<pending, disturbed>>

\* notify_waiters: a permit for every waker, and all are called.
NotifyWaiters ==
    /\ permits + Len(waiters) <= MaxPermits
    /\ permits' = permits + Len(waiters)
    /\ woken' = woken \cup {waiters[i] : i \in 1 .. Len(waiters)}
    /\ waiters' = <<>>
    /\ UNCHANGED <<pending, disturbed>>

Next ==
    \/ \E t \in Tasks : Wait(t) \/ Repoll(t) \/ DropNotified(t)
    \/ NotifyOne \/ NotifyWaiters

Spec == Init /\ [][Next]_vars

-----------------------------------------------------------------------------
\* A permit is left, tasks wait, and nobody was told.
Lost == permits > 0 /\ pending # {} /\ pending \cap woken = {}

\* No notification is lost: while a permit is left and tasks wait, one of them
\* has been woken to take it, as long as a Notified is polled only when its
\* waker was called and is not dropped.
NoLostNotification == ~disturbed => ~Lost

\* Wakers of futures that were dropped or are complete do no harm (notify.rs:
\* "waking a stale waker is benign in this single-threaded DES runtime").
StaleWakersAreBenign == ~Lost
=============================================================================
