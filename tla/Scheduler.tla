----------------------------- MODULE Scheduler -----------------------------
(***************************************************************************)
(* The discrete-event core of des-core: the Scheduler (scheduler.rs), the  *)
(* task system it runs (task.rs) and the step of a Simulation (lib.rs).    *)
(*                                                                         *)
(* Simulation::step pops one event, runs its handler with the scheduler    *)
(* locked, and then drains the wakes the handler deferred.  A handler is   *)
(* user code: between the pop and the end of the step it makes any number  *)
(* of scheduler calls, each an action below.  The same calls are open to   *)
(* the program between steps (Simulation's methods, a SchedulerHandle).    *)
(*                                                                         *)
(* The heap is the set of its entries: entries are ordered by (time, seq)  *)
(* and seq is unique, so the heap order is a function of the set.  A task  *)
(* id is the counter that deterministic_uuid hashes.                       *)
(***************************************************************************)
EXTENDS SimTime, Sequences, FiniteSets

CONSTANTS
    Component,     \* component ids that can be registered
    Delay,         \* delays the program asks for
    NewTask,       \* tasks the program schedules
    Fifo,          \* TRUE: FifoFrontierPolicy; FALSE: any policy
    MaxCount,      \* u32::MAX, the width of PeriodicTask's counter
    MaxEventId,    \* bound on next_event_id
    MaxTaskId,     \* bound on next_task_id
    MaxDeferred,   \* bound on the deferred buffer
    Nil            \* Option::None

\* remaining_executions = None: a PeriodicTask::new that never stops.
Unlimited == -1

\* ClosureTask and TimeoutTask carry no data; RetryTask carries max_attempts,
\* current_attempt and base_delay; PeriodicTask remaining_executions and interval.
TaskBody == [kind    : {"closure", "timeout", "retry", "periodic"},
             limit   : Nat \cup {Unlimited},
             attempt : Nat,
             delay   : Time]

ASSUME SchedulerAssumption ==
    /\ Delay \subseteq Time
    /\ NewTask \subseteq TaskBody
    /\ Fifo \in BOOLEAN
    /\ MaxCount \in Nat /\ MaxEventId \in Nat
    /\ MaxTaskId \in Nat /\ MaxDeferred \in Nat
    /\ Nil \notin TaskBody
    /\ Nil \notin Nat

TaskId == 1 .. MaxTaskId

VARIABLES
    clock,                   \* Scheduler::clock
    next_event_id,           \* Scheduler::next_event_id
    next_task_id,            \* Scheduler::next_task_id
    events,                  \* Scheduler::events, the heap
    pending_tasks,           \* Scheduler::pending_tasks, Nil where absent
    completed_task_results,  \* keys of Scheduler::completed_task_results
    cancelled_tasks,         \* Scheduler::cancelled_tasks
    executing,               \* the task being executed, or Nil
    components,              \* keys of Components::components
    current,                 \* the event last popped
    in_context,              \* CURRENT_CLOCK is set: a step is under way
    deferred_wakes,          \* DEFERRED_WAKES
    cancel_answer            \* history: what cancel_task answered for each task

vars == <<clock, next_event_id, next_task_id, events, pending_tasks,
          completed_task_results, cancelled_tasks, executing, components,
          current, in_context, deferred_wakes, cancel_answer>>

\* EventEntry: what the order and the dispatch of an entry depend on.
Event == [seq : Nat, time : Time, kind : {"component", "task"},
          target : Component \cup TaskId]

TypeOK ==
    /\ clock \in Time
    /\ next_event_id \in Nat /\ next_task_id \in 0 .. MaxTaskId
    /\ events \subseteq Event
    /\ pending_tasks \in [TaskId -> TaskBody \cup {Nil}]
    /\ completed_task_results \subseteq TaskId
    /\ cancelled_tasks \subseteq TaskId
    /\ executing \in TaskBody \cup {Nil}
    /\ components \subseteq Component
    /\ current \in Event \cup {Nil}
    /\ in_context \in BOOLEAN
    /\ deferred_wakes \in Seq([delay : Time, component : Component])
    /\ cancel_answer \in [TaskId -> {"none", "granted", "refused"}]

Init ==
    /\ clock = 0 /\ next_event_id = 0 /\ next_task_id = 0
    /\ events = {}
    /\ pending_tasks = [t \in TaskId |-> Nil]
    /\ completed_task_results = {} /\ cancelled_tasks = {}
    /\ executing = Nil
    /\ components = Component
    /\ current = Nil /\ in_context = FALSE
    /\ deferred_wakes = <<>>
    /\ cancel_answer = [t \in TaskId |-> "none"]

----------------------------------------------------------------------------
(* Calls a handler, or the program between two steps, makes. *)

\* The user code that may call the scheduler now: the program between two
\* steps, the closure of the executing task, or a registered component.
\* An event for a component that was removed runs no code at all.
UserCodeRuns ==
    in_context => IF current.kind = "task" THEN executing # Nil
                                           ELSE current.target \in components

ComponentEvent(id, t, c) == [seq |-> id, time |-> t, kind |-> "component", target |-> c]

TaskEvent(id, t, k) == [seq |-> id, time |-> t, kind |-> "task", target |-> k]

\* Scheduler::schedule: the delay counts from the clock.
Schedule(c, d) ==
    /\ UserCodeRuns
    /\ next_event_id < MaxEventId
    /\ next_event_id' = next_event_id + 1
    /\ events' = events \cup {ComponentEvent(next_event_id', AddTime(clock, d), c)}
    /\ UNCHANGED <<clock, next_task_id, pending_tasks, completed_task_results, cancelled_tasks,
                   executing, components, current, in_context, deferred_wakes, cancel_answer>>

\* Scheduler::schedule_task (schedule_closure and timeout call it): a fresh
\* task id, then schedule_task_at.
ScheduleTask(body, d) ==
    /\ UserCodeRuns
    /\ next_event_id < MaxEventId /\ next_task_id < MaxTaskId
    /\ next_event_id' = next_event_id + 1
    /\ next_task_id' = next_task_id + 1
    /\ pending_tasks' = [pending_tasks EXCEPT ![next_task_id'] = body]
    /\ events' = events \cup {TaskEvent(next_event_id', AddTime(clock, d), next_task_id')}
    /\ UNCHANGED <<clock, completed_task_results, cancelled_tasks, executing, components,
                   current, in_context, deferred_wakes, cancel_answer>>

\* Mutant: the body is copied, not taken, out of pending_tasks.
TaskNotTaken(t) == pending_tasks

\* pending_tasks.remove(t).
TaskTaken(t) == [pending_tasks EXCEPT ![t] = Nil]

\* Scheduler::cancel_task on the handle of a task.  It answers was_pending;
\* only a pending task is marked, and its entry stays in the heap as a tombstone.
CancelTask(t) ==
    LET was_pending == pending_tasks[t] # Nil IN
    /\ UserCodeRuns
    /\ t <= next_task_id
    /\ pending_tasks' = TaskTaken(t)
    /\ cancelled_tasks' = IF was_pending THEN cancelled_tasks \cup {t} ELSE cancelled_tasks
    /\ cancel_answer' = [cancel_answer EXCEPT ![t] =
                            IF was_pending THEN "granted"
                            ELSE IF @ = "none" THEN "refused" ELSE @]
    /\ UNCHANGED <<clock, next_event_id, next_task_id, events, completed_task_results,
                   executing, components, current, in_context, deferred_wakes>>

\* Scheduler::get_task_result takes the result out of the table.
GetTaskResult(t) ==
    /\ UserCodeRuns
    /\ t \in completed_task_results
    /\ completed_task_results' = completed_task_results \ {t}
    /\ UNCHANGED <<clock, next_event_id, next_task_id, events, pending_tasks, cancelled_tasks,
                   executing, components, current, in_context, deferred_wakes, cancel_answer>>

\* defer_wake_after (defer_wake is the zero delay): no scheduler access.
DeferWakeAfter(c, d) ==
    /\ UserCodeRuns
    /\ Len(deferred_wakes) < MaxDeferred
    /\ deferred_wakes' = Append(deferred_wakes, [delay |-> d, component |-> c])
    /\ UNCHANGED <<clock, next_event_id, next_task_id, events, pending_tasks,
                   completed_task_results, cancelled_tasks, executing, components, current,
                   in_context, cancel_answer>>

\* Simulation::remove_component; it needs the Simulation, so never in a step.
RemoveComponent(c) ==
    /\ ~in_context
    /\ c \in components
    /\ components' = components \ {c}
    /\ UNCHANGED <<clock, next_event_id, next_task_id, events, pending_tasks,
                   completed_task_results, cancelled_tasks, executing, current, in_context,
                   deferred_wakes, cancel_answer>>

----------------------------------------------------------------------------
(* Simulation::step *)

\* Mutant: cancelled entries are not recognised.
NoTombstone(e) == FALSE

\* is_cancelled_task_event: the entry of a cancelled task.
Tombstone(e) == e.kind = "task" /\ e.target \in cancelled_tasks

Live == {e \in events : ~Tombstone(e)}

\* The same-time frontier that pop_with_policy offers to the policy.
Frontier == {e \in Live : \A f \in Live : e.time <= f.time}

\* Mutant: max_by_key instead of min_by_key.
LifoChoice == {e \in Frontier : Fifo => \A f \in Frontier : e.seq >= f.seq}

\* FifoFrontierPolicy takes the lowest seq; another policy takes any entry
\* (an index out of range is clamped to the last one).
Choice == {e \in Frontier : Fifo => \A f \in Frontier : e.seq <= f.seq}

\* Tombstones pop_with_policy meets and drops: the ones ahead of the first
\* live entry and all those of the frontier's time.
Dropped(t) == {e \in events : Tombstone(e) /\ e.time <= t}

\* Mutant: contains instead of remove, the ids of dropped tombstones stay.
TargetsKept(E) == {}

\* The task ids is_cancelled_task_event removes with the tombstones E.
TargetsOf(E) == {e.target : e \in E}

\* The first half of Simulation::step: pop_with_policy, the scheduler context,
\* and for a task the start of execute_task, which takes the body out.
Pop(e) ==
    /\ ~in_context
    /\ e \in Choice
    /\ clock' = e.time
    /\ events' = events \ (Dropped(e.time) \cup {e})
    /\ cancelled_tasks' = cancelled_tasks \ TargetsOf(Dropped(e.time))
    /\ current' = e
    /\ in_context' = TRUE
    /\ IF e.kind = "task"
         THEN /\ executing' = pending_tasks[e.target]
              /\ pending_tasks' = TaskTaken(e.target)
         ELSE UNCHANGED <<executing, pending_tasks>>
    /\ UNCHANGED <<next_event_id, next_task_id, completed_task_results, components,
                   deferred_wakes, cancel_answer>>

\* pop_with_policy finds tombstones only: it drops them all and the step
\* returns false, with the clock where it was and the deferred wakes not drained.
PopNothing ==
    /\ ~in_context
    /\ events # {} /\ Live = {}
    /\ events' = {}
    /\ cancelled_tasks' = cancelled_tasks \ TargetsOf(events)
    /\ UNCHANGED <<clock, next_event_id, next_task_id, pending_tasks, completed_task_results,
                   executing, components, current, in_context, deferred_wakes, cancel_answer>>

\* Mutant: the delay is taken for an absolute time.
DrainedAbsolute(id) ==
    {ComponentEvent(id + i, deferred_wakes[i].delay, deferred_wakes[i].component)
        : i \in 1 .. Len(deferred_wakes)}

\* drain_deferred_wakes after the entries E were scheduled with ids up to id:
\* each wake is scheduled in order, relative to the clock at the drain.
Drained(id) ==
    {ComponentEvent(id + i, AddTime(clock, deferred_wakes[i].delay), deferred_wakes[i].component)
        : i \in 1 .. Len(deferred_wakes)}

\* The second half of Simulation::step once the handler has scheduled E.
EndStep(E, id) ==
    /\ id + Len(deferred_wakes) <= MaxEventId
    /\ events' = events \cup E \cup Drained(id)
    /\ next_event_id' = id + Len(deferred_wakes)
    /\ deferred_wakes' = <<>>
    /\ in_context' = FALSE
    /\ UNCHANGED <<clock, next_task_id, cancelled_tasks, components, current, cancel_answer>>

\* The handler of a component returns, or there was no component or no task
\* body to run (execute_task returns false).
EndHandler ==
    /\ in_context
    /\ executing = Nil
    /\ EndStep({}, next_event_id)
    /\ UNCHANGED <<pending_tasks, completed_task_results, executing>>

\* The task ends.  execute_task keeps its result unless it is the unit value.
FinishTask(has_result) ==
    /\ EndStep({}, next_event_id)
    /\ completed_task_results' =
         completed_task_results \cup (IF has_result THEN {current.target} ELSE {})
    /\ executing' = Nil
    /\ UNCHANGED pending_tasks

\* The task reschedules itself under its own id (schedule_task_at): it is
\* pending again and keeps no result.
Reschedule(body, d) ==
    LET id == next_event_id + 1 IN
    /\ EndStep({TaskEvent(id, AddTime(clock, d), current.target)}, id)
    /\ pending_tasks' = [pending_tasks EXCEPT ![current.target] = body]
    /\ executing' = Nil
    /\ UNCHANGED completed_task_results

ClosureReturns == executing.kind = "closure" /\ FinishTask(TRUE)

TimeoutReturns == executing.kind = "timeout" /\ FinishTask(FALSE)

\* RetryTask::execute, operation succeeded or attempts used up.
RetryEnds ==
    /\ executing.kind = "retry"
    /\ FinishTask(TRUE)

\* RetryTask::execute, operation failed: exponential backoff.
RetryAgain ==
    LET attempt == executing.attempt + 1 IN
    /\ executing.kind = "retry"
    /\ attempt < executing.limit
    /\ Reschedule([executing EXCEPT !.attempt = attempt],
                  MulTime(executing.delay, 2 ^ (attempt - 1)))

\* *remaining -= 1 on a u32.  A release build wraps at zero; a debug build
\* panics there and the simulation is over.
Decremented(n) == IF n = 0 THEN MaxCount ELSE n - 1

PeriodicEnds ==
    /\ executing.kind = "periodic"
    /\ executing.limit # Unlimited
    /\ Decremented(executing.limit) = 0
    /\ FinishTask(FALSE)

PeriodicAgain ==
    /\ executing.kind = "periodic"
    /\ \/ /\ executing.limit = Unlimited
          /\ Reschedule(executing, executing.delay)
       \/ /\ executing.limit # Unlimited
          /\ Decremented(executing.limit) # 0
          /\ Reschedule([executing EXCEPT !.limit = Decremented(executing.limit)],
                        executing.delay)

TaskReturns ==
    /\ in_context
    /\ executing # Nil
    /\ ClosureReturns \/ TimeoutReturns \/ RetryEnds \/ RetryAgain \/ PeriodicEnds \/ PeriodicAgain

Call ==
    \/ \E c \in Component, d \in Delay : Schedule(c, d) \/ DeferWakeAfter(c, d)
    \/ \E body \in NewTask, d \in Delay : ScheduleTask(body, d)
    \/ \E t \in TaskId : CancelTask(t) \/ GetTaskResult(t)
    \/ \E c \in Component : RemoveComponent(c)

Step == (\E e \in events : Pop(e)) \/ PopNothing \/ EndHandler \/ TaskReturns

Next == Call \/ Step

Spec == Init /\ [][Next]_vars

----------------------------------------------------------------------------
(* Properties *)

\* pop_with_policy: no live entry is ever left behind the clock, although the
\* clock jumps over tombstones, ties are broken by any policy, and delays
\* saturate.  (Tombstones are not behind it either: they were dropped.)
NoEntryInPast == \A e \in events : e.time >= clock

TaskEntries(t) == {e \in events : e.kind = "task" /\ e.target = t}

\* The heap and the two task tables agree: a task waits for its one entry
\* exactly while it is pending or a tombstone, never both, and an executing
\* task has none.  A task left without an entry would never run; a second
\* entry would run it twice or swallow a later cancellation.
EntriesMatchTasks ==
    \A t \in TaskId :
        /\ (pending_tasks[t] # Nil \/ t \in cancelled_tasks) <=> TaskEntries(t) # {}
        /\ \A e, f \in TaskEntries(t) : e = f
        /\ ~(pending_tasks[t] # Nil /\ t \in cancelled_tasks)
        /\ executing # Nil /\ current.target = t => TaskEntries(t) = {}

\* cancel_task returned true: neither the task nor a later link of its retry
\* or periodic chain runs or leaves a result.
CancelIsFinal ==
    \A t \in TaskId : cancel_answer[t] = "granted" =>
        /\ pending_tasks[t] = Nil
        /\ ~(executing # Nil /\ current.target = t)
        /\ t \notin completed_task_results

\* execute_task keeps a result only for a task that is over: its handle never
\* shows the intermediate error of a retry chain that still runs.
ResultIsFinal ==
    \A t \in completed_task_results :
        pending_tasks[t] = Nil /\ t \notin cancelled_tasks /\ TaskEntries(t) = {}

Precedes(e, f) == e.time < f.time \/ (e.time = f.time /\ e.seq < f.seq)

\* Under FifoFrontierPolicy events are handled in the order of (time, seq):
\* nothing that is still to be handled, however it was scheduled (by a
\* handler, a task that rescheduled itself, or the drain), precedes the event
\* handled last.
FifoOrder == Fifo /\ current # Nil => \A e \in Live : Precedes(current, e)

\* A step moves the clock only to do work, and never back: a task entry that
\* is popped still has its body (a cancelled task does not advance time).
ClockMovesOnlyToWork ==
    [][clock' # clock => /\ clock' > clock
                         /\ current'.kind = "task" => executing' # Nil]_vars

\* The scheduler implements the abstract event queue: tombstones, the task
\* tables and the deferred buffer cannot be told apart from an agenda whose
\* entries are withdrawn at once.
Queue == INSTANCE EventQueue WITH now <- clock, agenda <- Live

ImplementsEventQueue == Queue!QSpec

----------------------------------------------------------------------------
(* The tasks of the instance TLC checks *)

MCTask(k, l, d) == [kind |-> k, limit |-> l, attempt |-> 0, delay |-> d]

\* One task of each kind; the retry task may fail once, the periodic one runs twice.
MCNewTask == {MCTask("closure", 0, 0), MCTask("timeout", 0, 0),
              MCTask("retry", 2, 1), MCTask("periodic", 2, 1)}
=============================================================================
