---------------------------- MODULE AsyncRuntime ----------------------------
(***************************************************************************)
(* DesRuntime, the async runtime of des-core (async_runtime.rs), with the  *)
(* wakers of waker.rs and the SimSleep future.  The runtime is a component *)
(* of the simulation: it lives off RuntimeEvents, and the code of a task   *)
(* reaches it only through wakes deferred to the end of the step.          *)
(*                                                                         *)
(* The event queue is the one EventQueue specifies: an entry of the lowest *)
(* time is taken, the oldest one if Fifo, any one otherwise (Scheduler is  *)
(* shown to implement it).  A task is user code.  Between the start and    *)
(* the end of a poll it makes any of the calls below; its futures are the  *)
(* SimSleeps it holds in its slots, all of which it polls whenever it is   *)
(* polled (as select!, join! and timeout do).                              *)
(***************************************************************************)
EXTENDS SimTime, SequencesExt

CONSTANTS
    Slot,        \* the SimSleeps a task can hold at once
    Delay,       \* durations a task sleeps for
    Fifo,        \* TRUE: FifoFrontierPolicy; FALSE: any frontier policy
    FifoReady,   \* TRUE: FifoReadyTaskPolicy; FALSE: any ready-task policy
    BetweenSteps,\* TRUE: the program uses the handles between steps, too
    MaxTask,     \* bound on the tasks spawned
    MaxCalls,    \* bound on the calls made by user code
    Nil          \* Option::None

ASSUME RuntimeAssumption ==
    /\ Delay \subseteq Time
    /\ Fifo \in BOOLEAN /\ FifoReady \in BOOLEAN /\ BetweenSteps \in BOOLEAN
    /\ MaxTask \in Nat /\ MaxCalls \in Nat
    /\ Nil \notin Nat

TaskId == 1 .. MaxTask

\* RuntimeEvent.
RuntimeEvent(op, t, d) == [op |-> op, task |-> t, deadline |-> d]
Poll == RuntimeEvent("Poll", Nil, Nil)
TimerTick == RuntimeEvent("TimerTick", Nil, Nil)
Wake(t) == RuntimeEvent("Wake", t, Nil)
Cancel(t) == RuntimeEvent("Cancel", t, Nil)
RegisterTimer(t, d) == RuntimeEvent("RegisterTimer", t, d)
CancelTimer(t, d) == RuntimeEvent("CancelTimer", t, d)

RuntimeEvents ==
    {Poll, TimerTick} \cup {Wake(t) : t \in TaskId} \cup {Cancel(t) : t \in TaskId}
      \cup {RegisterTimer(t, d) : t \in TaskId, d \in Time}
      \cup {CancelTimer(t, d) : t \in TaskId, d \in Time}

VARIABLES
    \* the simulation
    now,                  \* Scheduler::clock
    events,               \* Scheduler::events
    next_event_id,        \* Scheduler::next_event_id
    deferred,             \* DEFERRED_WAKES
    \* DesRuntime
    next_task_id,         \* ids given out so far
    tasks,                \* keys of DesRuntime::tasks
    queued,               \* the tasks with Task::queued set
    ready_queue,
    spawn_queue,
    spawn_queue_local,
    timers,               \* deadline -> registrations; <<>> for an absent key
    next_timer_deadline,
    \* the step under way
    in_step,              \* a RuntimeEvent is being processed
    poll_set,             \* poll_ready_tasks: the tasks of this cycle still to poll
    polling,              \* CURRENT_TASK_ID
    \* user code
    sleeps,               \* task -> slot -> target_time of a pending SimSleep, or Nil
    calls,                \* calls made by user code
    \* history
    cancelled             \* tasks cancel() was called for

queue_vars == <<now, events, next_event_id>>
runtime_vars == <<next_task_id, tasks, queued, ready_queue, spawn_queue, spawn_queue_local>>
timer_vars == <<timers, next_timer_deadline>>
step_vars == <<in_step, poll_set, polling>>
user_vars == <<sleeps, calls, cancelled>>
vars == <<queue_vars, deferred, runtime_vars, timer_vars, step_vars, user_vars>>

Event == [seq : Nat, time : Time, ev : RuntimeEvents]

TypeOK ==
    /\ now \in Time /\ events \subseteq Event /\ next_event_id \in Nat
    /\ deferred \in Seq(RuntimeEvents)
    /\ next_task_id \in 0 .. MaxTask
    /\ tasks \subseteq TaskId /\ queued \subseteq tasks
    /\ ready_queue \in Seq(TaskId)
    /\ spawn_queue \in Seq(TaskId) /\ spawn_queue_local \in Seq(TaskId)
    /\ timers \in [Time -> Seq(TaskId)]
    /\ next_timer_deadline \in Time \cup {Nil}
    /\ in_step \in BOOLEAN
    /\ poll_set \in Seq(TaskId)
    /\ polling \in tasks \cup {Nil}
    /\ sleeps \in [TaskId -> [Slot -> Time \cup {Nil}]]
    /\ calls \in 0 .. MaxCalls
    /\ cancelled \subseteq TaskId

\* install: the runtime is a component and its first Poll is scheduled at zero.
Init ==
    /\ now = 0
    /\ events = {[seq |-> 1, time |-> 0, ev |-> Poll]} /\ next_event_id = 1
    /\ deferred = <<>>
    /\ next_task_id = 0 /\ tasks = {} /\ queued = {} /\ ready_queue = <<>>
    /\ spawn_queue = <<>> /\ spawn_queue_local = <<>>
    /\ timers = [d \in Time |-> <<>>] /\ next_timer_deadline = Nil
    /\ in_step = FALSE /\ poll_set = <<>> /\ polling = Nil
    /\ sleeps = [t \in TaskId |-> [s \in Slot |-> Nil]]
    /\ calls = 0 /\ cancelled = {}

----------------------------------------------------------------------------
(* Calls of user code: from the poll of a task; from outside a step while   *)
(* the program is set up or, if BetweenSteps, at any time.                  *)

\* The Poll that install scheduled is still to be processed.
InSetup == ~in_step /\ \E e \in events : e.seq = 1

UserCodeRuns == polling # Nil \/ InSetup \/ (BetweenSteps /\ ~in_step)

CountCall == calls < MaxCalls /\ calls' = calls + 1

\* Mutant: the runtime is not told.
DeferNever(ev) == UNCHANGED deferred

\* defer_wake, when there is a scheduler context.
DeferInStep(ev) == deferred' = IF in_step THEN Append(deferred, ev) ELSE deferred

FreshTask == next_task_id < MaxTask /\ next_task_id' = next_task_id + 1

\* DesRuntimeHandle::spawn, DesRuntimeLocalHandle::spawn_local.
Spawn ==
    /\ UserCodeRuns
    /\ CountCall /\ FreshTask
    /\ \/ /\ spawn_queue' = Append(spawn_queue, next_task_id')
          /\ UNCHANGED spawn_queue_local
       \/ /\ spawn_queue_local' = Append(spawn_queue_local, next_task_id')
          /\ UNCHANGED spawn_queue
    /\ DeferInStep(Poll)
    /\ UNCHANGED <<queue_vars, tasks, queued, ready_queue, timer_vars, step_vars, sleeps, cancelled>>

\* DesRuntime::spawn, on a runtime that is not installed yet.
SpawnDirectly ==
    /\ InSetup
    /\ CountCall /\ FreshTask
    /\ tasks' = tasks \cup {next_task_id'}
    /\ queued' = queued \cup {next_task_id'}
    /\ ready_queue' = Append(ready_queue, next_task_id')
    /\ UNCHANGED <<queue_vars, deferred, spawn_queue, spawn_queue_local, timer_vars, step_vars,
                   sleeps, cancelled>>

\* Those tasks of s that are in A, in their order; each of them once, if once: what
\* retain keeps of a queue, and what a series of wakes adds to one.
Gather(s, A, once) ==
    LET got[i \in 0 .. Len(s)] ==
          IF i = 0 THEN <<>>
          ELSE IF s[i] \in A /\ ~(once /\ s[i] \in ToSet(got[i - 1]))
                 THEN Append(got[i - 1], s[i])
                 ELSE got[i - 1]
    IN  got[Len(s)]

\* The tasks of q after those of t are filtered out of it.
Without(q, t) == Gather(q, TaskId \ {t}, FALSE)

\* cancel of the handle that spawned t: out of the spawn queue at once, and a
\* Cancel event for the case that it is already installed.  Outside a step a
\* task that is installed is not cancelled.
CancelTask(t) ==
    LET waiting == ToSet(spawn_queue \o spawn_queue_local) IN
    /\ UserCodeRuns
    /\ t <= next_task_id
    /\ CountCall
    /\ spawn_queue' = Without(spawn_queue, t)
    /\ spawn_queue_local' = Without(spawn_queue_local, t)
    /\ DeferInStep(Cancel(t))
    /\ cancelled' = IF in_step \/ t \in waiting THEN cancelled \cup {t} ELSE cancelled
    /\ UNCHANGED <<queue_vars, next_task_id, tasks, queued, ready_queue, timer_vars, step_vars,
                   sleeps>>

\* A waker of task t fires (create_des_waker); t may be over by now.
WakeTask(t) ==
    /\ polling # Nil
    /\ t <= next_task_id
    /\ CountCall
    /\ deferred' = Append(deferred, Wake(t))
    /\ UNCHANGED <<queue_vars, runtime_vars, timer_vars, step_vars, sleeps, cancelled>>

\* The first poll of a SimSleep: it fixes its target and registers a timer; a
\* target that is not ahead of the clock is ready at once.
SleepStarts(s, d) ==
    LET target == AddTime(now, d) IN
    /\ polling # Nil
    /\ sleeps[polling][s] = Nil
    /\ CountCall
    /\ IF target <= now
         THEN UNCHANGED <<sleeps, deferred>>
         ELSE /\ sleeps' = [sleeps EXCEPT ![polling][s] = target]
              /\ deferred' = Append(deferred, RegisterTimer(polling, target))
    /\ UNCHANGED <<queue_vars, runtime_vars, timer_vars, step_vars, cancelled>>

\* A later poll of a SimSleep, its target reached: ready, with timer_scheduled
\* reset, so that its Drop leaves the timers alone.
SleepEnds(s) ==
    /\ polling # Nil
    /\ sleeps[polling][s] # Nil
    /\ sleeps[polling][s] <= now
    /\ sleeps' = [sleeps EXCEPT ![polling][s] = Nil]
    /\ UNCHANGED <<queue_vars, deferred, runtime_vars, timer_vars, step_vars, calls, cancelled>>

\* A SimSleep is dropped before it was ready: its Drop cancels the timer.
SleepDropped(s) ==
    /\ polling # Nil
    /\ sleeps[polling][s] # Nil
    /\ sleeps' = [sleeps EXCEPT ![polling][s] = Nil]
    /\ deferred' = Append(deferred, CancelTimer(polling, sleeps[polling][s]))
    /\ UNCHANGED <<queue_vars, runtime_vars, timer_vars, step_vars, calls, cancelled>>

----------------------------------------------------------------------------
(* Timers *)

Deadlines(tm) == {d \in Time : tm[d] # <<>>}

Earliest(S) == IF S = {} THEN Nil ELSE CHOOSE d \in S : \A f \in S : d <= f

\* self.timers.keys().next(): the BTreeMap is ordered.
NextDeadline(tm) == Earliest(Deadlines(tm))

\* Mutant: a tick that is outstanding is taken to be enough.
NextTickOnce(tm, known, t) ==
    IF known # Nil \/ NextDeadline(tm) = Nil THEN {}
    ELSE {[seq  |-> next_event_id + 1,
           time |-> AddTime(t, SubTime(NextDeadline(tm), t)),
           ev   |-> TimerTick]}

\* schedule_next_timer_tick at time t over the timers tm, when known is the
\* deadline a tick was last scheduled for: the entries it adds to the heap.
NextTick(tm, known, t) ==
    IF NextDeadline(tm) \in {known, Nil} THEN {}
    ELSE {[seq  |-> next_event_id + 1,
           time |-> AddTime(t, SubTime(NextDeadline(tm), t)),
           ev   |-> TimerTick]}

\* register_timer.
Registered(t, d) == [timers EXCEPT ![d] = Append(@, t)]

\* Mutant: timers.remove(&deadline).
RetractedForAll(t, d) == [timers EXCEPT ![d] = <<>>]

\* cancel_timer: retain drops every registration of t at d.
Retracted(t, d) == [timers EXCEPT ![d] = Without(@, t)]

\* cancel_task: no registration of t is left.
Purged(t) == [d \in Time |-> Without(timers[d], t)]

\* handle_timer_tick: the deadlines that are due are popped.
Remaining(t) == [d \in Time |-> IF d <= t THEN <<>> ELSE timers[d]]

\* The registrations up to each time, in the order handle_timer_tick wakes them.
RegisteredUpTo ==
    LET upto[d \in Time] == IF d = 0 THEN timers[0] ELSE upto[d - 1] \o timers[d]
    IN  upto

----------------------------------------------------------------------------
(* Simulation::step with an event for the runtime *)

\* Mutant: a tick wakes one task.
WokenFirst(s) == IF s # <<>> /\ s[1] \in tasks \ queued THEN <<s[1]>> ELSE <<>>

\* wake_task for each of a sequence of tasks: those that exist and are not in
\* the ready queue yet are appended, once.
Woken(s) == Gather(s, tasks \ queued, TRUE)

\* poll_ready_tasks up to its loop, after the tasks s were woken: the spawn
\* queues are drained, and what is ready now is polled in this cycle.
StartCycle(s) ==
    LET spawned == spawn_queue \o spawn_queue_local
        ready   == ready_queue \o Woken(s) \o spawned
    IN  /\ tasks' = tasks \cup ToSet(spawned)
        /\ queued' = queued \cup ToSet(Woken(s)) \cup ToSet(spawned)
        /\ spawn_queue' = <<>> /\ spawn_queue_local' = <<>>
        /\ ready_queue' = <<>>
        /\ poll_set' = ready
        /\ in_step' = TRUE
        /\ UNCHANGED <<next_task_id, polling, deferred, sleeps, calls, cancelled>>

\* pop_with_policy.
Choice ==
    {e \in events : \A f \in events : /\ e.time <= f.time
                                      /\ Fifo /\ e.time = f.time => e.seq <= f.seq}

\* Simulation::step hands e to process_event.
Taken(e) ==
    /\ ~in_step
    /\ e \in Choice
    /\ now' = e.time

\* What the end of process_event and of the step schedule, all at the current
\* time: another Poll if tasks are ready, then the deferred wakes.
Trailing == (IF ready_queue # <<>> THEN <<Poll>> ELSE <<>>) \o deferred

\* The entries of a sequence of events scheduled at time t with the ids after id.
Scheduled(s, id, t) == {[seq |-> id + i, time |-> t, ev |-> s[i]] : i \in 1 .. Len(s)}

ProcessPoll(e) ==
    /\ Taken(e) /\ e.ev = Poll
    /\ events' = events \ {e}
    /\ StartCycle(<<>>)
    /\ UNCHANGED <<next_event_id, timer_vars>>

ProcessWake(e) ==
    /\ Taken(e) /\ e.ev.op = "Wake"
    /\ events' = events \ {e}
    /\ StartCycle(<<e.ev.task>>)
    /\ UNCHANGED <<next_event_id, timer_vars>>

\* handle_timer_tick: next_timer_deadline is reset before the reschedule.
ProcessTimerTick(e) ==
    LET tick == NextTick(Remaining(e.time), Nil, e.time) IN
    /\ Taken(e) /\ e.ev = TimerTick
    /\ timers' = Remaining(e.time)
    /\ next_timer_deadline' = NextDeadline(timers')
    /\ events' = (events \ {e}) \cup tick
    /\ next_event_id' = next_event_id + Cardinality(tick)
    /\ StartCycle(RegisteredUpTo[e.time])

\* A handler that only changes the timers, to tm; reschedule says whether it
\* calls schedule_next_timer_tick.  Nothing is polled, the step is over.
HandleTimers(e, tm, reschedule) ==
    LET tick == IF reschedule THEN NextTick(tm, next_timer_deadline, e.time) ELSE {}
        id   == next_event_id + Cardinality(tick)
    IN  /\ timers' = tm
        /\ next_timer_deadline' = IF reschedule THEN NextDeadline(tm) ELSE next_timer_deadline
        /\ events' = (events \ {e}) \cup tick \cup Scheduled(Trailing, id, e.time)
        /\ next_event_id' = id + Len(Trailing)
        /\ deferred' = <<>>
        /\ UNCHANGED <<next_task_id, ready_queue, spawn_queue, spawn_queue_local, step_vars,
                       calls, cancelled>>

\* Mutant: no contains_key.
AcceptsAny(t) == TRUE

\* register_timer ignores a task that is over.
Accepts(t) == t \in tasks

ProcessRegisterTimer(e) ==
    LET t == e.ev.task
        d == e.ev.deadline
    IN  /\ Taken(e) /\ e.ev.op = "RegisterTimer"
        /\ IF Accepts(t) THEN HandleTimers(e, Registered(t, d), TRUE)
                         ELSE HandleTimers(e, timers, FALSE)
        /\ UNCHANGED <<tasks, queued, sleeps>>

\* cancel_timer reschedules only if it removed the deadline.
ProcessCancelTimer(e) ==
    LET tm == Retracted(e.ev.task, e.ev.deadline)
    IN  /\ Taken(e) /\ e.ev.op = "CancelTimer"
        /\ HandleTimers(e, tm, Deadlines(tm) # Deadlines(timers))
        /\ UNCHANGED <<tasks, queued, sleeps>>

\* cancel_task drops the future outside a poll, where the Drop of its SimSleeps
\* has no task to cancel timers for; the id may stay in the ready queue.
ProcessCancel(e) ==
    LET t == e.ev.task
    IN  /\ Taken(e) /\ e.ev.op = "Cancel"
        /\ tasks' = tasks \ {t} /\ queued' = queued \ {t}
        /\ sleeps' = [sleeps EXCEPT ![t] = [s \in Slot |-> Nil]]
        /\ HandleTimers(e, Purged(t), TRUE)

\* Vec::swap_remove: the last element takes the place of the one removed.
SwapRemove(s, i) == [j \in 1 .. Len(s) - 1 |-> IF j = i THEN s[Len(s)] ELSE s[j]]

\* Mutant: the flag is not reset before the poll.
FlagKept(t) == queued

\* task.queued = false.
FlagReset(t) == queued \ {t}

\* The loop of poll_ready_tasks takes the task at index i; one that was
\* cancelled is skipped.
ChoosePoll(i) ==
    /\ in_step /\ polling = Nil
    /\ FifoReady => i = 1
    /\ poll_set' = SwapRemove(poll_set, i)
    /\ queued' = FlagReset(poll_set[i])
    /\ polling' = IF poll_set[i] \in tasks THEN poll_set[i] ELSE Nil
    /\ UNCHANGED <<queue_vars, deferred, next_task_id, tasks, ready_queue, spawn_queue,
                   spawn_queue_local, timer_vars, in_step, user_vars>>

\* The future returns Poll::Pending; the sleeps it still holds are not due.
PollPending ==
    /\ polling # Nil
    /\ \A s \in Slot : sleeps[polling][s] # Nil => sleeps[polling][s] > now
    /\ polling' = Nil
    /\ UNCHANGED <<queue_vars, deferred, runtime_vars, timer_vars, in_step, poll_set,
                   user_vars>>

\* The future returns Poll::Ready, having dropped what it held.
PollReady ==
    /\ polling # Nil
    /\ \A s \in Slot : sleeps[polling][s] = Nil
    /\ tasks' = tasks \ {polling}
    /\ polling' = Nil
    /\ UNCHANGED <<queue_vars, deferred, next_task_id, queued, ready_queue, spawn_queue,
                   spawn_queue_local, timer_vars, in_step, poll_set, user_vars>>

\* The cycle is over, and with it process_event and the step.
EndCycle ==
    /\ in_step /\ polling = Nil /\ poll_set = <<>>
    /\ events' = events \cup Scheduled(Trailing, next_event_id, now)
    /\ next_event_id' = next_event_id + Len(Trailing)
    /\ deferred' = <<>>
    /\ in_step' = FALSE
    /\ UNCHANGED <<now, runtime_vars, timer_vars, poll_set, polling, user_vars>>

UserCall ==
    \/ Spawn \/ SpawnDirectly
    \/ \E t \in TaskId : CancelTask(t) \/ WakeTask(t)
    \/ \E s \in Slot, d \in Delay : SleepStarts(s, d)
    \/ \E s \in Slot : SleepDropped(s)

ProcessEvent ==
    \E e \in events : \/ ProcessPoll(e) \/ ProcessWake(e) \/ ProcessTimerTick(e)
                      \/ ProcessRegisterTimer(e) \/ ProcessCancelTimer(e) \/ ProcessCancel(e)

\* What the simulation does on its own, once user code is called.
Step ==
    \/ ProcessEvent
    \/ \E i \in 1 .. Len(poll_set) : ChoosePoll(i)
    \/ \E s \in Slot : SleepEnds(s)
    \/ PollPending \/ PollReady \/ EndCycle

Next == UserCall \/ Step

Spec == Init /\ [][Next]_vars

\* Executor::unbound steps until nothing is left, and every poll returns.
FairSpec == Spec /\ WF_vars(Step)

----------------------------------------------------------------------------
(* Properties *)

Pending(ev) == ev \in {e.ev : e \in events} \cup ToSet(deferred)

\* Task::queued is exact: an installed task is flagged exactly while it waits
\* in the ready queue or in the cycle, and waits there once.  A flag left set
\* would swallow every later wake of the task; one left clear would poll it twice.
QueuedFlagExact ==
    LET waiting == ready_queue \o poll_set IN
    /\ \A t \in tasks : t \in queued <=> t \in ToSet(waiting)
    /\ \A i, j \in 1 .. Len(waiting) : waiting[i] = waiting[j] => i = j

\* A task that was cancelled is gone once its Cancel event was processed: it
\* is not installed, not about to be installed and holds no timer, although
\* wakes, timer registrations and spawn requests of it may still arrive.
CancelledIsGone ==
    \A t \in cancelled : ~Pending(Cancel(t)) =>
        /\ t \notin tasks
        /\ t \notin ToSet(spawn_queue \o spawn_queue_local)
        /\ \A d \in Time : t \notin ToSet(timers[d])

\* A pending SimSleep has a wake to come: its registration is on the way or in
\* the timers, or its task is about to be polled.  (SimSleep::poll: "Register
\* a timer for the task. The runtime will wake this task ... when `target` is
\* reached.")
SleepHasTimer ==
    \A t \in tasks, s \in Slot :
        LET d == sleeps[t][s] IN
        d # Nil => \/ Pending(RegisterTimer(t, d))
                   \/ t \in ToSet(timers[d])
                   \/ t \in queued \/ polling = t

\* What was spawned gets polled (DesRuntimeHandle::spawn: "Ensure the runtime
\* gets polled"): between steps, a Poll for it is due at the current time.
SpawnedIsPolled ==
    ~in_step /\ (spawn_queue # <<>> \/ spawn_queue_local # <<>>) =>
        \E e \in events : e.ev = Poll /\ e.time = now

\* The clock moves on only when no task is ready and no spawned task waits,
\* and never past a registered deadline: no sleeper oversleeps, however ticks
\* are rescheduled by registrations and cancellations.
ClockWaitsForWork ==
    [][now' # now => /\ ready_queue = <<>>
                     /\ spawn_queue = <<>> /\ spawn_queue_local = <<>>
                     /\ \A d \in Deadlines(timers) : now' <= d]_vars

\* Every sleep ends: it becomes ready, is dropped, or its task is cancelled.
SleepersWake ==
    \A t \in TaskId, s \in Slot : sleeps[t][s] # Nil ~> sleeps[t][s] = Nil
=============================================================================
