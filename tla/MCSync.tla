------------------------------- MODULE MCSync -------------------------------
(***************************************************************************)
(* The primitives of des-tokio side by side, its time included.  They      *)
(* share no state, so one run covers them: the initial state says which of *)
(* them the tasks use, and the others stay as they were made.              *)
(***************************************************************************)
EXTENDS Integers, FiniteSets

CONSTANTS Tasks, Nil,
          MaxPermits, MaxWakers,              \* Notify
          Receiver, Capacity, MaxId, MaxOrder,  \* Mpsc
          LateAbort,                          \* JoinSet
          Parties, MaxGeneration,             \* Barrier
          Receivers, MaxVersion, MaxSenders,  \* Watch
          Permits, Amounts, MaxAdded, MaxForgotten, MayClose,  \* Semaphore
          MaxReaders,                         \* RwLock, a Semaphore
          Durations, Period, Horizon          \* TokioTime

VARIABLES
    using,
    locked, owner, phase, lock_waiters, lock_woken, lock_disturbed,
    permits, notify_waiters, notified, notify_woken, notify_disturbed,
    len, senders, receiver_alive, receiver_waker, receiving, next_waiter_id,
    send_wait_order, send_waiters, waiter, channel_woken, abandoned,
    handles, running, cancels, completed, cancelled, wakers, joining, joiner_woken,
    joined, finished, detached,
    arrived, generation, barrier_waiters, wait, barrier_woken, arrivals, leader,
    sender_alive, version, watch_senders, alive, receiver_wakers, seen_version, wanted,
    watch_woken,
    available, closed, queue, ready, asked, held, acquire_woken, added, forgotten,
    instant, timer, poll_due, value, waker, tx_alive, rx_alive, sent, waits, target,
    outcome, next_tick, missed_tick_behavior, grid, ticks, bursts, last

mutex == <<locked, owner, phase, lock_waiters, lock_woken, lock_disturbed>>
notify == <<permits, notify_waiters, notified, notify_woken, notify_disturbed>>
mpsc == <<len, senders, receiver_alive, receiver_waker, receiving, next_waiter_id,
          send_wait_order, send_waiters, waiter, channel_woken, abandoned>>
join_set == <<handles, running, cancels, completed, cancelled, wakers, joining, joiner_woken,
              joined, finished, detached>>
barrier == <<arrived, generation, barrier_waiters, wait, barrier_woken, arrivals, leader>>
watch == <<sender_alive, version, watch_senders, alive, receiver_wakers, seen_version, wanted,
           watch_woken>>
semaphore == <<available, closed, queue, ready, asked, held, acquire_woken, added, forgotten>>
time == <<instant, timer, poll_due, value, waker, tx_alive, rx_alive, sent, waits, target,
          outcome, next_tick, missed_tick_behavior, grid, ticks, bursts, last>>

vars == <<using, mutex, notify, mpsc, join_set, barrier, watch, semaphore, time>>

Mutex == INSTANCE AsyncMutex WITH
    FifoWaiters <- FALSE,
    waiters <- lock_waiters, woken <- lock_woken, disturbed <- lock_disturbed

Notification == INSTANCE Notify WITH
    waiters <- notify_waiters, pending <- notified, woken <- notify_woken,
    disturbed <- notify_disturbed

Channel == INSTANCE Mpsc WITH Senders <- Tasks, woken <- channel_woken

Joins == INSTANCE JoinSet WITH pending <- joining, woken <- joiner_woken

Meeting == INSTANCE Barrier WITH
    waiters <- barrier_waiters, woken <- barrier_woken

Value == INSTANCE Watch WITH senders <- watch_senders, woken <- watch_woken

Acquires == INSTANCE Semaphore WITH permits <- available, woken <- acquire_woken

\* The lock is a semaphore too, and uses the same variables.
Lock == INSTANCE Semaphore WITH
    Permits <- MaxReaders, MaxAdded <- 0, MaxForgotten <- 0, MayClose <- FALSE,
    permits <- available, woken <- acquire_woken

Clock == INSTANCE TokioTime WITH sender_alive <- tx_alive, receiver_alive <- rx_alive

ASSUME SyncAssumption ==
    /\ Mutex!MutexAssumption
    /\ Notification!NotifyAssumption
    /\ Channel!MpscAssumption
    /\ Joins!JoinAssumption
    /\ Meeting!BarrierAssumption
    /\ Value!WatchAssumption
    /\ Acquires!SemaphoreAssumption
    /\ Lock!MaxReadsAssumption
    /\ Clock!TimeAssumption

Primitives == {"mutex", "notify", "mpsc", "join_set", "barrier", "watch",
               "semaphore", "rwlock", "timeout", "interval"}

Init ==
    /\ using \in Primitives
    /\ Mutex!Init /\ Notification!Init /\ Channel!Init
    /\ Joins!Init /\ Meeting!Init /\ Value!Init /\ Clock!TimeInit
    /\ IF using = "rwlock" THEN Lock!Init ELSE Acquires!Init
    /\ using # "watch" => alive = {CHOOSE r \in Receivers : TRUE}

\* A step of p: the primitive in use is p, and it alone changes.
On(p, Action) ==
    /\ using = p
    /\ Action
    /\ UNCHANGED using
    /\ p # "mutex" => UNCHANGED mutex
    /\ p # "notify" => UNCHANGED notify
    /\ p # "mpsc" => UNCHANGED mpsc
    /\ p # "join_set" => UNCHANGED join_set
    /\ p # "barrier" => UNCHANGED barrier
    /\ p # "watch" => UNCHANGED watch
    /\ p \notin {"semaphore", "rwlock"} => UNCHANGED semaphore
    /\ p \notin {"timeout", "interval"} => UNCHANGED time

MutexStep(t) ==
    \/ On("mutex", Mutex!Lock(t))
    \/ On("mutex", Mutex!Repoll(t))
    \/ On("mutex", Mutex!TryLock(t))
    \/ On("mutex", Mutex!DropLock(t))
    \/ On("mutex", Mutex!Unlock(t))

NotifyStep(t) ==
    \/ On("notify", Notification!Wait(t))
    \/ On("notify", Notification!Repoll(t))
    \/ On("notify", Notification!DropNotified(t))

ChannelStep(t) ==
    \/ On("mpsc", Channel!Send(t))
    \/ On("mpsc", Channel!Resend(t))
    \/ On("mpsc", Channel!TrySend(t))
    \/ On("mpsc", Channel!DropSend(t))
    \/ On("mpsc", Channel!CloneSender(t))
    \/ On("mpsc", Channel!DropSender(t))

JoinStep(t) ==
    \/ On("join_set", Joins!Spawn(t))
    \/ On("join_set", Joins!Complete(t))
    \/ On("join_set", Joins!HandleCancel(t))
    \/ On("join_set", Joins!Abort(t))

BarrierStep(t) ==
    \/ On("barrier", Meeting!Wait(t))
    \/ On("barrier", Meeting!MakeWait(t))
    \/ On("barrier", Meeting!FirstPoll(t))
    \/ On("barrier", Meeting!Repoll(t))
    \/ On("barrier", Meeting!DropWait(t))

WatchStep(r) ==
    \/ On("watch", Value!NewReceiver(r))
    \/ On("watch", Value!DropReceiver(r))
    \/ On("watch", Value!BorrowAndUpdate(r))
    \/ On("watch", Value!Changed(r))
    \/ On("watch", Value!WaitFor(r))
    \/ On("watch", Value!Repoll(r))
    \/ On("watch", Value!DropWait(r))

SemaphoreStep(t) ==
    \/ \E n \in Amounts : On("semaphore", Acquires!Acquire(t, n))
    \/ \E n \in Amounts : On("semaphore", Acquires!TryAcquire(t, n))
    \/ On("semaphore", Acquires!PollReady(t))
    \/ On("semaphore", Acquires!PollPending(t))
    \/ On("semaphore", Acquires!PollClosed(t))
    \/ On("semaphore", Acquires!DropAcquire(t))
    \/ On("semaphore", Acquires!Release(t))
    \/ On("semaphore", Acquires!Forget(t))

LockStep(t) ==
    \/ On("rwlock", Lock!Read(t))
    \/ On("rwlock", Lock!Write(t))
    \/ On("rwlock", Lock!TryRead(t))
    \/ On("rwlock", Lock!TryWrite(t))
    \/ On("rwlock", Lock!PollReady(t))
    \/ On("rwlock", Lock!PollPending(t))
    \/ On("rwlock", Lock!DropAcquire(t))
    \/ On("rwlock", Lock!Release(t))

TimeoutStep ==
    \/ On("timeout", Clock!Tick)
    \/ On("timeout", Clock!Send)
    \/ On("timeout", Clock!DropSender)
    \/ On("timeout", Clock!Receive)
    \/ \E d \in Durations : On("timeout", Clock!ReceiveWithin(d))
    \/ On("timeout", Clock!Repoll)
    \/ On("timeout", Clock!DropWait)

IntervalStep ==
    \/ On("interval", Clock!Tick)
    \/ On("interval", Clock!StartTick)
    \/ On("interval", Clock!FinishTick)
    \/ On("interval", Clock!DropTick)
    \/ \E b \in Clock!Behaviors : On("interval", Clock!SetMissedTickBehavior(b))
    \/ On("interval", Clock!Reset)
    \/ On("interval", Clock!ResetImmediately)
    \/ \E d \in Durations : On("interval", Clock!ResetAfter(d))
    \/ \E t \in 0 .. Horizon : On("interval", Clock!ResetAt(t))

Next ==
    \/ TimeoutStep \/ IntervalStep
    \/ \E t \in Tasks : \/ MutexStep(t) \/ NotifyStep(t) \/ ChannelStep(t)
                        \/ JoinStep(t) \/ BarrierStep(t)
                        \/ SemaphoreStep(t) \/ LockStep(t)
    \/ \E n \in Amounts : On("semaphore", Acquires!AddPermits(n))
    \/ On("semaphore", Acquires!Close)
    \/ \E r \in Receivers : WatchStep(r)
    \/ On("notify", Notification!NotifyOne)
    \/ On("notify", Notification!NotifyWaiters)
    \/ On("mpsc", Channel!Recv)
    \/ On("mpsc", Channel!DropRecv)
    \/ On("mpsc", Channel!DropReceiver)
    \/ On("join_set", Joins!AbortAll)
    \/ On("join_set", Joins!DetachAll)
    \/ On("join_set", Joins!DropSet)
    \/ On("join_set", Joins!JoinNext)
    \/ On("join_set", Joins!DropJoinNext)
    \/ On("watch", Value!Send)
    \/ On("watch", Value!SendReplace)
    \/ On("watch", Value!CloneSender)
    \/ On("watch", Value!DropSender)

\* The runtime polls the tasks that were woken (AsyncRuntime), spawned tasks
\* come to an end, Cancel events are handled, the program gives every guard of a
\* reader-writer lock back in the end, and time goes on.
Spec ==
    /\ Init /\ [][Next]_vars
    /\ WF_vars(On("join_set", \E t \in Tasks : Joins!Complete(t) \/ Joins!HandleCancel(t)))
    /\ WF_vars(joiner_woken /\ joining /\ On("join_set", Joins!JoinNext))
    /\ \A t \in Tasks : WF_vars(t \in barrier_woken /\ On("barrier", Meeting!Repoll(t)))
    /\ \A t \in Tasks : WF_vars(t \in acquire_woken /\ On("rwlock", Lock!PollReady(t)))
    /\ \A t \in Tasks : WF_vars(On("rwlock", Lock!Release(t)))
    /\ WF_vars(On("timeout", Clock!Tick))
    /\ WF_vars(poll_due /\ On("timeout", Clock!Repoll))

-----------------------------------------------------------------------------
(* The properties of the primitives, under the names they have in this run. *)

\* mutex.rs: one guard at a time (AsyncMutex); batch_semaphore.rs: no permit is
\* lost or made up (Semaphore).
GuardsExact ==
    /\ Mutex!MutualExclusion
    /\ IF using = "rwlock" THEN Lock!PermitsConserved ELSE Acquires!PermitsConserved

\* Nobody sleeps beside what it waits for, and who waits can be reached.
\* batch_semaphore.rs: satisfied and closed acquires are woken (Semaphore);
\* mutex.rs: a free lock is not left alone by its waiters (AsyncMutex);
\* notify.rs: no notification is lost (Notify); mpsc.rs: free slots do not lie
\* idle beside senders, nor messages beside the receiver (Mpsc); watch.rs: no
\* change and no closing is missed (Watch); oneshot.rs: nor a value (TokioTime).
NoLostWakeup ==
    /\ Acquires!WaiterRegistered /\ Acquires!NoLostWakeup
    /\ Mutex!NoStrandedWaiter
    /\ Notification!NoLostNotification
    /\ Channel!NoLostSender /\ Channel!SenderRegistered /\ Channel!ReceiverWoken
    /\ Value!ChangeWoken
    /\ Clock!ReceiverWakes

\* notify.rs: stale wakers do no harm (Notify).
StaleWakersAreBenign == Notification!StaleWakersAreBenign

\* task.rs: no join waits for a task that will never tell (JoinSet); barrier.rs: a
\* generation is released by Parties tasks (Barrier); time.rs: a timeout is exact and
\* takes no accepted value away, and ticks keep to their schedule (TokioTime).
WaitsTruthful ==
    /\ Joins!JoinTruthful
    /\ Meeting!ReleasedByParties
    /\ Clock!TimeoutsExact /\ Clock!TicksExact

\* batch_semaphore.rs: first come, first served, for readers and writers too
\* (Semaphore).
NoOvertaking == Acquires!NoOvertaking

\* rwlock.rs: a semaphore with MAX_READS permits makes a reader-writer lock: the
\* permits alone justify the unsafe access of the guards to the value
\* (Semaphore, ReadersWriter).
Abstract == INSTANCE ReadersWriter WITH
    mode <- [t \in Tasks |-> IF using = "rwlock" THEN Lock!Mode(t) ELSE "none"]

ImplementsReadersWriter == Abstract!Spec

\* task.rs: join_next returns once tasks come to an end (JoinSet).
JoinReturns == Joins!JoinReturns

\* What can end, ends.  task.rs: join_next (JoinSet); barrier.rs: the waits of a
\* released generation (Barrier); rwlock.rs: the wait of a writer, beside readers
\* that keep coming (Semaphore); time.rs: a wait with a timeout (TokioTime).
WaitersReturn ==
    /\ Joins!JoinReturns
    /\ Meeting!ReleasedPass
    /\ using = "rwlock" => Lock!WriterNotStarved
    /\ Clock!TimeoutsEnd
=============================================================================
