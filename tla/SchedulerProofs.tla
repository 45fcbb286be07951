--------------------------- MODULE SchedulerProofs ---------------------------
(***************************************************************************)
(* Proofs about Scheduler and, at the end, the Executor that drives it,    *)
(* for every set of components, delays, tasks and limits and every bound.  *)
(* The safety invariants of Scheduler are not inductive one by one: that a *)
(* task has one entry needs fresh task ids, that a cancellation is final   *)
(* needs the entry of a cancelled task to be its only one, that FIFO order *)
(* holds needs unique event ids and a clock that stands at the event last  *)
(* popped.  IndInv conjoins them.                                          *)
(***************************************************************************)
EXTENDS Executor, TLAPS

\* Event ids are fresh, and task entries carry task ids already given out.
Numbered ==
    /\ \A e \in events : e.seq <= next_event_id
    /\ \A e, f \in events : e.seq = f.seq => e = f
    /\ \A e \in events : e.kind = "task" => e.target \in 1 .. next_task_id

\* A task executes only within a step, under its own entry, with its result
\* still to come; the clock stands at the event last popped.
Stepping ==
    /\ ~in_context => executing = Nil
    /\ executing # Nil => /\ current.kind = "task"
                          /\ current.target \in 1 .. next_task_id
                          /\ current.target \notin completed_task_results
    /\ current # Nil => current.time = clock /\ current.seq <= next_event_id

\* Nothing is known yet of a task id that was not given out.
FreshIds ==
    \A t \in TaskId : t > next_task_id =>
        cancel_answer[t] = "none" /\ t \notin completed_task_results

IndInv ==
    /\ TypeOK /\ Numbered /\ Stepping /\ FreshIds
    /\ NoEntryInPast /\ EntriesMatchTasks /\ CancelIsFinal /\ ResultIsFinal /\ FifoOrder

----------------------------------------------------------------------------
(* The arithmetic of simulated time. *)

\* AddTime saturates: the sum is a time, and never before the base.
LEMMA AddTimeBounds ==
    ASSUME NEW t \in Time, NEW d \in Time
    PROVE  AddTime(t, d) \in Time /\ AddTime(t, d) >= t
BY MaxTimeAssumption DEF AddTime, Clamp, Time

\* A saturated product is a time whatever the factor.
LEMMA MulTimeBounds ==
    ASSUME NEW t, NEW n
    PROVE  MulTime(t, n) \in Time
BY MaxTimeAssumption DEF MulTime, Clamp, Time

----------------------------------------------------------------------------
(* The ways a task's execute returns, reduced to two. *)

TaskOver ==
    /\ in_context /\ executing # Nil
    /\ \E b \in BOOLEAN : FinishTask(b)

TaskGoesOn ==
    /\ in_context /\ executing # Nil
    /\ \E body \in TaskBody, d \in Time : Reschedule(body, d)

\* However task.rs returns, the task is over or it rescheduled itself with a
\* well-formed body and delay (the backoff saturates, the counter wraps).
LEMMA TaskReturnsCases ==
    ASSUME TypeOK, TaskReturns
    PROVE  TaskOver \/ TaskGoesOn
<1>1. executing \in TaskBody /\ in_context /\ executing # Nil
  BY DEF TypeOK, TaskReturns
<1>2. CASE ClosureReturns \/ TimeoutReturns \/ RetryEnds \/ PeriodicEnds
  BY <1>1, <1>2 DEF ClosureReturns, TimeoutReturns, RetryEnds, PeriodicEnds, TaskOver
<1>3. CASE RetryAgain
  <2> DEFINE attempt == executing.attempt + 1
             body == [executing EXCEPT !.attempt = attempt]
             d == MulTime(executing.delay, 2 ^ (attempt - 1))
  <2>1. body \in TaskBody
    BY <1>1 DEF TaskBody
  <2>2. d \in Time
    BY MulTimeBounds
  <2>3. Reschedule(body, d)
    BY <1>3 DEF RetryAgain
  <2> QED
    BY <1>1, <2>1, <2>2, <2>3 DEF TaskGoesOn
<1>4. CASE PeriodicAgain
  <2>1. executing.delay \in Time
    BY <1>1 DEF TaskBody
  <2>2. CASE executing.limit = Unlimited /\ Reschedule(executing, executing.delay)
    BY <1>1, <2>1, <2>2 DEF TaskGoesOn
  <2>3. CASE /\ executing.limit # Unlimited
             /\ Reschedule([executing EXCEPT !.limit = Decremented(executing.limit)],
                           executing.delay)
    <3>1. Decremented(executing.limit) \in Nat
      BY <1>1, <2>3, SchedulerAssumption DEF TaskBody, Decremented, Unlimited
    <3>2. [executing EXCEPT !.limit = Decremented(executing.limit)] \in TaskBody
      BY <1>1, <3>1 DEF TaskBody
    <3> QED
      BY <1>1, <2>1, <2>3, <3>2 DEF TaskGoesOn
  <2> QED
    BY <1>4, <2>2, <2>3 DEF PeriodicAgain
<1> QED
  BY <1>2, <1>3, <1>4 DEF TaskReturns

\* The steps an inductive proof distinguishes.
LEMMA NextCases ==
    ASSUME TypeOK, [Next]_vars
    PROVE  \/ \E c \in Component, d \in Delay : Schedule(c, d) \/ DeferWakeAfter(c, d)
           \/ \E body \in NewTask, d \in Delay : ScheduleTask(body, d)
           \/ \E t \in TaskId : CancelTask(t) \/ GetTaskResult(t)
           \/ \E c \in Component : RemoveComponent(c)
           \/ \E e \in events : Pop(e)
           \/ PopNothing \/ EndHandler \/ TaskOver \/ TaskGoesOn
           \/ UNCHANGED vars
BY TaskReturnsCases DEF Next, Call, Step

\* What EndStep does to the heap: the new entries carry fresh ids, none is due
\* before the clock, and the drained ones are component events.
LEMMA DrainedEntries ==
    ASSUME TypeOK, NEW id \in Nat
    PROVE  /\ Drained(id) \subseteq Event
           /\ \A e \in Drained(id) : /\ e.kind = "component" /\ e.time >= clock
                                     /\ e.seq > id /\ e.seq <= id + Len(deferred_wakes)
           /\ \A e, f \in Drained(id) : e.seq = f.seq => e = f
<1> DEFINE n == Len(deferred_wakes)
<1>1. n \in Nat /\ clock \in Time
  BY DEF TypeOK
<1>2. \A i \in 1 .. n : /\ deferred_wakes[i].delay \in Time
                        /\ deferred_wakes[i].component \in Component
  <2> DEFINE Wake == [delay : Time, component : Component]
  <2>1. deferred_wakes \in Seq(Wake)
    BY DEF TypeOK
  <2>2. \A w \in Wake : w.delay \in Time /\ w.component \in Component
    OBVIOUS
  <2> HIDE DEF Wake
  <2>3. \A i \in 1 .. n : deferred_wakes[i] \in Wake
    BY <2>1
  <2> QED
    BY <2>2, <2>3
<1> DEFINE entry(i) == ComponentEvent(id + i, AddTime(clock, deferred_wakes[i].delay),
                                      deferred_wakes[i].component)
<1>3. \A i \in 1 .. n : /\ entry(i) \in Event
                        /\ entry(i).kind = "component" /\ entry(i).time >= clock
                        /\ entry(i).seq = id + i
  <2> SUFFICES ASSUME NEW i \in 1 .. n
               PROVE  /\ entry(i) \in Event
                      /\ entry(i).kind = "component" /\ entry(i).time >= clock
                      /\ entry(i).seq = id + i
    OBVIOUS
  <2>1. /\ AddTime(clock, deferred_wakes[i].delay) \in Time
        /\ AddTime(clock, deferred_wakes[i].delay) >= clock
    BY <1>1, <1>2, AddTimeBounds
  <2> QED
    BY <1>1, <1>2, <2>1 DEF ComponentEvent, Event
<1>4. \A e \in Drained(id) : \E i \in 1 .. n : e = entry(i)
  BY DEF Drained
<1> HIDE DEF entry
<1> QED
  BY <1>1, <1>3, <1>4

----------------------------------------------------------------------------
(* Type correctness. *)

\* A task id that was given out is within the bound.
LEMMA IssuedIds ==
    ASSUME TypeOK, NEW t \in 1 .. next_task_id
    PROVE  t \in TaskId
BY SchedulerAssumption DEF TypeOK, TaskId

\* A scheduler made by with_seed has the right types.
LEMMA TypeInit == Init => TypeOK
<1> SUFFICES ASSUME Init PROVE TypeOK
  OBVIOUS
<1>1. clock \in Time
  BY MaxTimeAssumption DEF Init, Time
<1>2. next_event_id \in Nat /\ next_task_id \in 0 .. MaxTaskId
  BY SchedulerAssumption DEF Init
<1>3. deferred_wakes \in Seq([delay : Time, component : Component])
  BY DEF Init
<1> QED
  BY <1>1, <1>2, <1>3 DEF Init, TypeOK

\* The end of a step keeps the types, whatever entries the handler leaves.
LEMMA EndStepType ==
    ASSUME TypeOK, NEW id \in Nat, NEW E \in SUBSET Event, EndStep(E, id)
    PROVE  /\ events' \subseteq Event /\ next_event_id' \in Nat
           /\ deferred_wakes' \in Seq([delay : Time, component : Component])
           /\ in_context' \in BOOLEAN
           /\ UNCHANGED <<clock, next_task_id, cancelled_tasks, components, current,
                          cancel_answer>>
<1>1. Drained(id) \subseteq Event
  BY DrainedEntries
<1>2. Len(deferred_wakes) \in Nat
  BY DEF TypeOK
<1>3. deferred_wakes' \in Seq([delay : Time, component : Component])
  BY DEF EndStep
<1>4. events' \subseteq Event
  BY <1>1 DEF EndStep, TypeOK
<1>5. next_event_id' \in Nat
  BY <1>2 DEF EndStep
<1> QED
  BY <1>3, <1>4, <1>5 DEF EndStep

\* Every call and every half of a step keeps the types of the scheduler.
LEMMA TypeNext ==
    ASSUME TypeOK, Stepping, Numbered, [Next]_vars
    PROVE  TypeOK'
<1> USE DEF TypeOK
<1>1. ASSUME NEW c \in Component, NEW d \in Delay, Schedule(c, d)
      PROVE  TypeOK'
  <2>1. AddTime(clock, d) \in Time
    BY AddTimeBounds, SchedulerAssumption
  <2>2. ComponentEvent(next_event_id', AddTime(clock, d), c) \in Event
    BY <1>1, <2>1 DEF Schedule, ComponentEvent, Event
  <2> QED
    BY <1>1, <2>2 DEF Schedule
<1>2. ASSUME NEW c \in Component, NEW d \in Delay, DeferWakeAfter(c, d)
      PROVE  TypeOK'
  <2> DEFINE Wake == [delay : Time, component : Component]
  <2>1. [delay |-> d, component |-> c] \in Wake
    BY SchedulerAssumption
  <2>2. deferred_wakes' \in Seq(Wake)
    <3>1. deferred_wakes \in Seq(Wake)
      OBVIOUS
    <3> HIDE DEF Wake
    <3> QED
      BY <1>2, <2>1, <3>1 DEF DeferWakeAfter
  <2> QED
    BY <1>2, <2>2 DEF DeferWakeAfter
<1>3. ASSUME NEW body \in NewTask, NEW d \in Delay, ScheduleTask(body, d)
      PROVE  TypeOK'
  <2>1. AddTime(clock, d) \in Time
    BY AddTimeBounds, SchedulerAssumption
  <2>2. next_task_id' \in TaskId
    BY <1>3, SchedulerAssumption DEF ScheduleTask, TaskId
  <2>3. TaskEvent(next_event_id', AddTime(clock, d), next_task_id') \in Event
    BY <1>3, <2>1, <2>2 DEF ScheduleTask, TaskEvent, Event
  <2>4. pending_tasks' \in [TaskId -> TaskBody \cup {Nil}]
    BY <1>3, SchedulerAssumption DEF ScheduleTask
  <2> QED
    BY <1>3, <2>2, <2>3, <2>4 DEF ScheduleTask, TaskId
<1>4. ASSUME NEW t \in TaskId, CancelTask(t)
      PROVE  TypeOK'
  BY <1>4 DEF CancelTask, TaskTaken
<1>5. ASSUME NEW t \in TaskId, GetTaskResult(t)
      PROVE  TypeOK'
  BY <1>5 DEF GetTaskResult
<1>6. ASSUME NEW c \in Component, RemoveComponent(c)
      PROVE  TypeOK'
  BY <1>6 DEF RemoveComponent
<1>7. ASSUME NEW e \in events, Pop(e)
      PROVE  TypeOK'
  <2>1. e \in Event
    OBVIOUS
  <2>2. e.time \in Time
    BY <2>1 DEF Event
  <2>3. pending_tasks' \in [TaskId -> TaskBody \cup {Nil}] /\ executing' \in TaskBody \cup {Nil}
    <3>1. CASE e.kind = "task"
      <4>1. e.target \in TaskId
        BY <3>1, IssuedIds DEF Numbered
      <4> QED
        BY <1>7, <3>1, <4>1 DEF Pop, TaskTaken
    <3>2. CASE e.kind # "task"
      BY <1>7, <3>2 DEF Pop
    <3> QED
      BY <3>1, <3>2
  <2> QED
    BY <1>7, <2>1, <2>2, <2>3 DEF Pop
<1>8. CASE PopNothing
  BY <1>8 DEF PopNothing
<1>9. CASE EndHandler
  BY <1>9, EndStepType DEF EndHandler
<1>10. CASE TaskOver
  <2>1. PICK b \in BOOLEAN : FinishTask(b)
    BY <1>10 DEF TaskOver
  <2>2. current.target \in TaskId
    BY <1>10, IssuedIds DEF TaskOver, Stepping
  <2> QED
    BY <2>1, <2>2, EndStepType DEF FinishTask
<1>11. CASE TaskGoesOn
  <2>1. PICK body \in TaskBody, d \in Time : Reschedule(body, d)
    BY <1>11 DEF TaskGoesOn
  <2>2. current.target \in TaskId
    BY <1>11, IssuedIds DEF TaskGoesOn, Stepping
  <2> DEFINE id == next_event_id + 1
             entry == TaskEvent(id, AddTime(clock, d), current.target)
  <2>3. entry \in Event
    BY <2>2, AddTimeBounds DEF TaskEvent, Event
  <2>4. id \in Nat /\ EndStep({entry}, id)
    BY <2>1 DEF Reschedule
  <2>5. pending_tasks' \in [TaskId -> TaskBody \cup {Nil}] /\ executing' = Nil
    BY <2>1, <2>2 DEF Reschedule
  <2>6. UNCHANGED completed_task_results
    BY <2>1 DEF Reschedule
  <2> HIDE DEF id, entry
  <2>7. /\ events' \subseteq Event /\ next_event_id' \in Nat
        /\ deferred_wakes' \in Seq([delay : Time, component : Component])
        /\ in_context' \in BOOLEAN
        /\ UNCHANGED <<clock, next_task_id, cancelled_tasks, components, current, cancel_answer>>
    BY <2>3, <2>4, EndStepType
  <2> QED
    BY <2>5, <2>6, <2>7
<1>12. CASE UNCHANGED vars
  BY <1>12 DEF vars
<1> QED
  BY <1>1, <1>2, <1>3, <1>4, <1>5, <1>6, <1>7, <1>8, <1>9, <1>10, <1>11, <1>12,
     NextCases

----------------------------------------------------------------------------
(* What the steps that add entries do to the heap. *)

\* The heap grows by New: fresh event ids, nothing due before the clock.
Grows(New) ==
    /\ New \subseteq Event
    /\ events' = events \cup New
    /\ clock' = clock
    /\ next_event_id' \in Nat /\ next_event_id' >= next_event_id
    /\ \A e \in New : e.time >= clock /\ e.seq > next_event_id /\ e.seq <= next_event_id'
    /\ \A e, f \in New : e.seq = f.seq => e = f

\* Only component entries are new.
GrowsByComponents == \E New : Grows(New) /\ \A e \in New : e.kind = "component"

\* One task entry is new, that of task t.
GrowsByTask(t) ==
    \E New : \E x \in New : /\ Grows(New)
                            /\ x.kind = "task" /\ x.target = t
                            /\ \A e \in New : e # x => e.kind = "component"

\* Scheduler::schedule adds one component entry, numbered next and not in the past.
LEMMA ScheduleGrows ==
    ASSUME TypeOK, NEW c \in Component, NEW d \in Delay, Schedule(c, d)
    PROVE  GrowsByComponents
<1> DEFINE x == ComponentEvent(next_event_id', AddTime(clock, d), c)
<1>1. AddTime(clock, d) \in Time /\ AddTime(clock, d) >= clock
  BY AddTimeBounds, SchedulerAssumption DEF TypeOK
<1>2. next_event_id' = next_event_id + 1 /\ next_event_id \in Nat
  BY DEF Schedule, TypeOK
<1>3. /\ x \in Event /\ x.time >= clock /\ x.seq = next_event_id' /\ x.kind = "component"
  BY <1>1, <1>2 DEF ComponentEvent, Event
<1>4. events' = events \cup {x} /\ clock' = clock
  BY DEF Schedule
<1> HIDE DEF x
<1>5. Grows({x})
  BY <1>2, <1>3, <1>4 DEF Grows
<1> QED
  BY <1>3, <1>5 DEF GrowsByComponents

\* Scheduler::schedule_task adds one entry, of the task id it hands out.
LEMMA ScheduleTaskGrows ==
    ASSUME TypeOK, NEW body \in NewTask, NEW d \in Delay, ScheduleTask(body, d)
    PROVE  GrowsByTask(next_task_id')
<1> DEFINE x == TaskEvent(next_event_id', AddTime(clock, d), next_task_id')
<1>1. AddTime(clock, d) \in Time /\ AddTime(clock, d) >= clock
  BY AddTimeBounds, SchedulerAssumption DEF TypeOK
<1>2. next_event_id' = next_event_id + 1 /\ next_event_id \in Nat
  BY DEF ScheduleTask, TypeOK
<1>3. next_task_id' \in TaskId
  BY SchedulerAssumption DEF ScheduleTask, TaskId, TypeOK
<1>4. /\ x \in Event /\ x.time >= clock /\ x.seq = next_event_id'
      /\ x.kind = "task" /\ x.target = next_task_id'
  BY <1>1, <1>2, <1>3 DEF TaskEvent, Event
<1>5. events' = events \cup {x} /\ clock' = clock
  BY DEF ScheduleTask
<1> HIDE DEF x
<1>6. Grows({x})
  BY <1>2, <1>4, <1>5 DEF Grows
<1> QED
  BY <1>4, <1>6 DEF GrowsByTask

\* The end of a step adds what the handler left (E) and the drained wakes.
LEMMA EndStepGrows ==
    ASSUME TypeOK, NEW id \in Nat, id >= next_event_id, NEW E \in SUBSET Event,
           \A e \in E : e.time >= clock /\ e.seq > next_event_id /\ e.seq <= id,
           \A e, f \in E : e = f,
           EndStep(E, id)
    PROVE  Grows(E \cup Drained(id))
<1> DEFINE n == Len(deferred_wakes)
           D == Drained(id)
<1>1. n \in Nat /\ next_event_id \in Nat
  BY DEF TypeOK
<1>2. /\ D \subseteq Event
      /\ \A e \in D : e.time >= clock /\ e.seq > id /\ e.seq <= id + n
      /\ \A e, f \in D : e.seq = f.seq => e = f
  BY DrainedEntries
<1>3. events' = events \cup (E \cup D) /\ next_event_id' = id + n /\ clock' = clock
  BY DEF EndStep
<1>4. \A e \in Event : e.seq \in Nat
  BY DEF Event
<1> HIDE DEF n, D
<1>5. \A e \in E \cup D : e.time >= clock /\ e.seq > next_event_id /\ e.seq <= next_event_id'
  BY <1>1, <1>2, <1>3, <1>4
<1>6. \A e, f \in E \cup D : e.seq = f.seq => e = f
  BY <1>2, <1>4
<1> QED
  BY <1>1, <1>2, <1>3, <1>5, <1>6 DEF Grows, D

\* A step that reschedules no task adds component entries only.
LEMMA EndWithoutTaskGrows ==
    ASSUME TypeOK, EndStep({}, next_event_id)
    PROVE  GrowsByComponents
<1>1. Grows({} \cup Drained(next_event_id))
  BY EndStepGrows DEF TypeOK
<1>2. \A e \in Drained(next_event_id) : e.kind = "component"
  BY DrainedEntries DEF TypeOK
<1> QED
  BY <1>1, <1>2 DEF GrowsByComponents

\* A task that reschedules itself gets one new entry under its own id.
LEMMA TaskGoesOnGrows ==
    ASSUME TypeOK, Stepping, NEW body \in TaskBody, NEW d \in Time,
           executing # Nil, Reschedule(body, d)
    PROVE  GrowsByTask(current.target)
<1> DEFINE id == next_event_id + 1
           x == TaskEvent(id, AddTime(clock, d), current.target)
<1>1. id \in Nat /\ id > next_event_id /\ next_event_id \in Nat
  BY DEF TypeOK
<1>2. current.target \in TaskId
  BY IssuedIds DEF Stepping
<1>3. AddTime(clock, d) \in Time /\ AddTime(clock, d) >= clock
  BY AddTimeBounds DEF TypeOK
<1>4. /\ x \in Event /\ x.time >= clock /\ x.seq = id
      /\ x.kind = "task" /\ x.target = current.target
  BY <1>1, <1>2, <1>3 DEF TaskEvent, Event
<1>5. EndStep({x}, id)
  BY DEF Reschedule
<1> HIDE DEF x, id
<1>6. Grows({x} \cup Drained(id))
  BY <1>1, <1>4, <1>5, EndStepGrows
<1>7. \A e \in Drained(id) : e.kind = "component"
  BY <1>1, DrainedEntries
<1> QED
  BY <1>4, <1>6, <1>7 DEF GrowsByTask

----------------------------------------------------------------------------
(* The heap part of the invariant. *)

\* Growth keeps event ids unique and entries due.
LEMMA GrowthKeepsHeap ==
    ASSUME TypeOK, Numbered, NoEntryInPast, NEW New, Grows(New)
    PROVE  /\ \A e \in events' : e.seq <= next_event_id'
           /\ \A e, f \in events' : e.seq = f.seq => e = f
           /\ NoEntryInPast'
<1>1. \A e \in events \cup New : e.seq \in Nat /\ e.time \in Nat
  BY MaxTimeAssumption DEF TypeOK, Grows, Event, Time
<1>2. next_event_id \in Nat /\ clock \in Nat
  BY MaxTimeAssumption DEF TypeOK, Time
<1>3. \A e \in events : e.seq <= next_event_id /\ e.time >= clock
  BY DEF Numbered, NoEntryInPast
<1> QED
  BY <1>1, <1>2, <1>3 DEF Grows, Numbered, NoEntryInPast

\* What is due when Pop(e) is taken: e is live and minimal, a task entry has
\* its body, and dropping tombstones revives no other entry.
LEMMA PopFacts ==
    ASSUME IndInv, NEW e \in events, Pop(e)
    PROVE  /\ executing = Nil
           /\ e \in Live /\ \A f \in Live : e.time <= f.time
           /\ e.kind = "task" => /\ e.target \in 1 .. next_task_id /\ e.target \in TaskId
                                 /\ pending_tasks[e.target] # Nil
                                 /\ e.target \notin cancelled_tasks
           /\ Live' = Live \ {e}
<1>1. executing = Nil
  BY DEF IndInv, Stepping, Pop
<1>2. e \in Live /\ \A f \in Live : e.time <= f.time
  BY DEF Pop, Choice, Frontier
<1>3. ASSUME e.kind = "task"
      PROVE  /\ e.target \in 1 .. next_task_id /\ e.target \in TaskId
             /\ pending_tasks[e.target] # Nil
             /\ e.target \notin cancelled_tasks
  <2>1. e.target \in 1 .. next_task_id /\ e.target \in TaskId
    BY <1>3, IssuedIds DEF IndInv, Numbered
  <2>2. e.target \notin cancelled_tasks
    BY <1>2, <1>3 DEF Live, Tombstone
  <2>3. TaskEntries(e.target) # {}
    BY <1>3 DEF TaskEntries
  <2> QED
    BY <2>1, <2>2, <2>3 DEF IndInv, EntriesMatchTasks
<1>4. ASSUME NEW f \in events, NEW g \in events, f.kind = "task", g.kind = "task",
             f.target = g.target
      PROVE  f = g
  <2>1. f.target \in TaskId
    BY <1>4, IssuedIds DEF IndInv, Numbered
  <2>2. f \in TaskEntries(f.target) /\ g \in TaskEntries(f.target)
    BY <1>4 DEF TaskEntries
  <2> QED
    BY <2>1, <2>2 DEF IndInv, EntriesMatchTasks
<1>5. /\ events' = events \ (Dropped(e.time) \cup {e})
      /\ cancelled_tasks' = cancelled_tasks \ TargetsOf(Dropped(e.time))
  BY DEF Pop
<1>6. ASSUME NEW f \in events'
      PROVE  Tombstone(f)' <=> Tombstone(f)
  <2>1. f \in events /\ f \notin Dropped(e.time)
    BY <1>5
  <2>2. f.kind = "task" => f.target \notin TargetsOf(Dropped(e.time))
    BY <1>4, <2>1 DEF TargetsOf, Dropped, Tombstone
  <2> QED
    BY <1>5, <2>2 DEF Tombstone
<1>7. Live' = Live \ {e}
  <2>1. \A f \in Dropped(e.time) : f \notin Live
    BY DEF Dropped, Live
  <2>2. Live' = {f \in events' : ~Tombstone(f)}
    BY <1>6 DEF Live
  <2> QED
    BY <1>5, <2>1, <2>2 DEF Live
<1> QED
  BY <1>1, <1>2, <1>3, <1>7

\* Event ids stay unique and no entry falls behind the clock.
LEMMA HeapNext ==
    ASSUME IndInv, [Next]_vars
    PROVE  Numbered' /\ NoEntryInPast'
<1> USE DEF IndInv
<1>0. next_task_id \in Nat /\ next_event_id \in Nat
  BY DEF TypeOK
<1>1. ASSUME GrowsByComponents, next_task_id' = next_task_id
      PROVE  Numbered' /\ NoEntryInPast'
  <2>1. PICK New : Grows(New) /\ \A e \in New : e.kind = "component"
    BY <1>1 DEF GrowsByComponents
  <2> QED
    BY <1>1, <2>1, GrowthKeepsHeap DEF Numbered, Grows
<1>2. ASSUME NEW t, GrowsByTask(t), t \in 1 .. next_task_id', next_task_id' \in Nat,
             next_task_id' >= next_task_id
      PROVE  Numbered' /\ NoEntryInPast'
  <2>1. PICK New : \E x \in New : /\ Grows(New)
                                  /\ x.kind = "task" /\ x.target = t
                                  /\ \A e \in New : e # x => e.kind = "component"
    BY <1>2 DEF GrowsByTask
  <2>2. \A e \in events' : e.kind = "task" => e.target \in 1 .. next_task_id'
    BY <1>0, <1>2, <2>1 DEF Grows, Numbered
  <2> QED
    BY <2>1, <2>2, GrowthKeepsHeap DEF Numbered
<1>3. ASSUME events' \subseteq events, UNCHANGED <<clock, next_event_id, next_task_id>>
      PROVE  Numbered' /\ NoEntryInPast'
  BY <1>3 DEF Numbered, NoEntryInPast
<1>4. ASSUME NEW c \in Component, NEW d \in Delay, Schedule(c, d)
      PROVE  Numbered' /\ NoEntryInPast'
  BY <1>1, <1>4, ScheduleGrows DEF Schedule
<1>5. ASSUME NEW body \in NewTask, NEW d \in Delay, ScheduleTask(body, d)
      PROVE  Numbered' /\ NoEntryInPast'
  <2>1. /\ next_task_id' \in Nat /\ next_task_id' \in 1 .. next_task_id'
        /\ next_task_id' >= next_task_id
    BY <1>0, <1>5 DEF ScheduleTask
  <2> QED
    BY <1>2, <1>5, <2>1, ScheduleTaskGrows
<1>6. ASSUME NEW e \in events, Pop(e)
      PROVE  Numbered' /\ NoEntryInPast'
  <2>1. \A f \in events' : f \in events /\ e.time <= f.time
    <3> SUFFICES ASSUME NEW f \in events' PROVE f \in events /\ e.time <= f.time
      OBVIOUS
    <3>1. f \in events /\ f \notin Dropped(e.time)
      BY <1>6 DEF Pop
    <3>2. e.time \in Int /\ f.time \in Int
      BY <3>1, MaxTimeAssumption DEF TypeOK, Event, Time
    <3> QED
      BY <1>6, <3>1, <3>2, PopFacts DEF Dropped, Live
  <2> QED
    BY <1>6, <2>1 DEF Pop, Numbered, NoEntryInPast
<1>7. CASE PopNothing
  BY <1>3, <1>7 DEF PopNothing
<1>8. CASE EndHandler
  BY <1>1, <1>8, EndWithoutTaskGrows DEF EndHandler, EndStep
<1>9. CASE TaskOver
  BY <1>1, <1>9, EndWithoutTaskGrows DEF TaskOver, FinishTask, EndStep
<1>10. CASE TaskGoesOn
  <2>1. PICK body \in TaskBody, d \in Time : Reschedule(body, d)
    BY <1>10 DEF TaskGoesOn
  <2>2. next_task_id' = next_task_id
    BY <2>1 DEF Reschedule, EndStep
  <2>3. current.target \in 1 .. next_task_id
    BY <1>10 DEF TaskGoesOn, Stepping
  <2>4. GrowsByTask(current.target)
    BY <1>10, <2>1, TaskGoesOnGrows DEF TaskGoesOn
  <2> QED
    BY <1>0, <1>2, <2>2, <2>3, <2>4
<1>11. ASSUME NEW t \in TaskId, CancelTask(t) \/ GetTaskResult(t)
       PROVE  Numbered' /\ NoEntryInPast'
  BY <1>3, <1>11 DEF CancelTask, GetTaskResult
<1>12. ASSUME NEW c \in Component, NEW d \in Delay, DeferWakeAfter(c, d)
       PROVE  Numbered' /\ NoEntryInPast'
  BY <1>3, <1>12 DEF DeferWakeAfter
<1>13. ASSUME NEW c \in Component, RemoveComponent(c)
       PROVE  Numbered' /\ NoEntryInPast'
  BY <1>3, <1>13 DEF RemoveComponent
<1>14. CASE UNCHANGED vars
  BY <1>3, <1>14 DEF vars
<1> QED
  BY <1>4, <1>5, <1>6, <1>7, <1>8, <1>9, <1>10, <1>11, <1>12, <1>13, <1>14, NextCases

----------------------------------------------------------------------------
(* The step under way, and the task ids still to be given out. *)

\* The relation of current, executing and the context is kept by every step.
LEMMA SteppingNext ==
    ASSUME IndInv, [Next]_vars
    PROVE  Stepping'
<1> USE DEF IndInv
<1>0. next_task_id \in Nat /\ next_event_id \in Nat /\ (current # Nil => current.seq \in Nat)
  BY DEF TypeOK, Event
<1>1. ASSUME UNCHANGED <<clock, next_task_id, current>>,
             next_event_id' >= next_event_id, next_event_id' \in Nat,
             in_context' = FALSE, executing' = Nil
      PROVE  Stepping'
  BY <1>0, <1>1 DEF Stepping
<1>2. ASSUME UNCHANGED <<clock, current, in_context, executing>>,
             completed_task_results' \subseteq completed_task_results,
             next_event_id' >= next_event_id, next_event_id' \in Nat,
             next_task_id' >= next_task_id, next_task_id' \in Nat
      PROVE  Stepping'
  BY <1>0, <1>2 DEF Stepping
<1>3. ASSUME NEW c \in Component, NEW d \in Delay, Schedule(c, d)
      PROVE  Stepping'
  BY <1>0, <1>2, <1>3 DEF Schedule
<1>4. ASSUME NEW c \in Component, NEW d \in Delay, DeferWakeAfter(c, d)
      PROVE  Stepping'
  BY <1>0, <1>2, <1>4 DEF DeferWakeAfter
<1>5. ASSUME NEW body \in NewTask, NEW d \in Delay, ScheduleTask(body, d)
      PROVE  Stepping'
  BY <1>0, <1>2, <1>5 DEF ScheduleTask
<1>6. ASSUME NEW t \in TaskId, CancelTask(t) \/ GetTaskResult(t)
      PROVE  Stepping'
  BY <1>0, <1>2, <1>6 DEF CancelTask, GetTaskResult
<1>7. ASSUME NEW c \in Component, RemoveComponent(c)
      PROVE  Stepping'
  BY <1>0, <1>2, <1>7 DEF RemoveComponent
<1>8. ASSUME NEW e \in events, Pop(e)
      PROVE  Stepping'
  <2>1. /\ clock' = e.time /\ current' = e /\ in_context' = TRUE
        /\ UNCHANGED <<next_task_id, next_event_id, completed_task_results>>
    BY <1>8 DEF Pop
  <2>2. e.seq <= next_event_id
    BY DEF Numbered
  <2>3. executing' # Nil => /\ e.kind = "task" /\ e.target \in 1 .. next_task_id
                            /\ e.target \notin completed_task_results
    <3>1. CASE e.kind = "task"
      BY <1>8, <3>1, PopFacts DEF ResultIsFinal
    <3>2. CASE e.kind # "task"
      BY <1>8, <3>2, PopFacts DEF Pop
    <3> QED
      BY <3>1, <3>2
  <2> QED
    BY <2>1, <2>2, <2>3 DEF Stepping
<1>9. CASE PopNothing
  BY <1>0, <1>2, <1>9 DEF PopNothing
<1>10. CASE EndHandler
  BY <1>0, <1>1, <1>10, EndWithoutTaskGrows DEF EndHandler, EndStep, GrowsByComponents, Grows
<1>11. CASE TaskOver
  BY <1>0, <1>1, <1>11, EndWithoutTaskGrows
     DEF TaskOver, FinishTask, EndStep, GrowsByComponents, Grows
<1>12. CASE TaskGoesOn
  <2>1. PICK body \in TaskBody, d \in Time : Reschedule(body, d)
    BY <1>12 DEF TaskGoesOn
  <2>2. next_event_id' >= next_event_id /\ next_event_id' \in Nat
    BY <1>12, <2>1, TaskGoesOnGrows DEF TaskGoesOn, GrowsByTask, Grows
  <2> QED
    BY <1>1, <2>1, <2>2 DEF Reschedule, EndStep
<1>13. CASE UNCHANGED vars
  BY <1>0, <1>2, <1>13 DEF vars
<1> QED
  BY <1>3, <1>4, <1>5, <1>6, <1>7, <1>8, <1>9, <1>10, <1>11, <1>12, <1>13, NextCases

\* Task ids that were not handed out yet stay unused.
LEMMA FreshIdsNext ==
    ASSUME IndInv, [Next]_vars
    PROVE  FreshIds'
<1> USE DEF IndInv
<1>0. next_task_id \in Nat /\ \A t \in TaskId : t \in Nat
  BY SchedulerAssumption DEF TypeOK, TaskId
<1>1. ASSUME cancel_answer' = cancel_answer, next_task_id' \in Nat, next_task_id' >= next_task_id,
             completed_task_results' \subseteq completed_task_results
      PROVE  FreshIds'
  BY <1>0, <1>1 DEF FreshIds
<1>2. ASSUME NEW c \in Component, NEW d \in Delay, Schedule(c, d) \/ DeferWakeAfter(c, d)
      PROVE  FreshIds'
  BY <1>0, <1>1, <1>2 DEF Schedule, DeferWakeAfter
<1>3. ASSUME NEW body \in NewTask, NEW d \in Delay, ScheduleTask(body, d)
      PROVE  FreshIds'
  BY <1>0, <1>1, <1>3 DEF ScheduleTask
<1>4. ASSUME NEW t \in TaskId, CancelTask(t)
      PROVE  FreshIds'
  <2>1. /\ t <= next_task_id
        /\ UNCHANGED <<next_task_id, completed_task_results>>
        /\ \A u \in TaskId : u # t => cancel_answer'[u] = cancel_answer[u]
    BY <1>4 DEF CancelTask, TypeOK
  <2> QED
    BY <1>0, <2>1 DEF FreshIds
<1>5. ASSUME NEW t \in TaskId, GetTaskResult(t)
      PROVE  FreshIds'
  BY <1>0, <1>1, <1>5 DEF GetTaskResult
<1>6. ASSUME NEW c \in Component, RemoveComponent(c)
      PROVE  FreshIds'
  BY <1>0, <1>1, <1>6 DEF RemoveComponent
<1>7. CASE (\E e \in events : Pop(e)) \/ PopNothing \/ EndHandler \/ UNCHANGED vars
  BY <1>0, <1>1, <1>7 DEF Pop, PopNothing, EndHandler, EndStep, vars
<1>8. CASE TaskOver
  <2>1. current.target \in 1 .. next_task_id
    BY <1>8 DEF TaskOver, Stepping
  <2>2. /\ UNCHANGED <<next_task_id, cancel_answer>>
        /\ completed_task_results' \subseteq completed_task_results \cup {current.target}
    BY <1>8 DEF TaskOver, FinishTask, EndStep
  <2> QED
    BY <1>0, <2>1, <2>2 DEF FreshIds
<1>9. CASE TaskGoesOn
  BY <1>0, <1>1, <1>9 DEF TaskGoesOn, Reschedule, EndStep
<1> QED
  BY <1>2, <1>3, <1>4, <1>5, <1>6, <1>7, <1>8, <1>9, NextCases

----------------------------------------------------------------------------
(* The task tables. *)

\* New component entries change the entries of no task.
LEMMA ComponentGrowthEntries ==
    ASSUME GrowsByComponents
    PROVE  \A t : TaskEntries(t)' = TaskEntries(t)
<1>1. PICK New : Grows(New) /\ \A e \in New : e.kind = "component"
  BY DEF GrowsByComponents
<1> QED
  BY <1>1 DEF Grows, TaskEntries

\* A new task entry changes the entries of that task only.
LEMMA TaskGrowthEntries ==
    ASSUME NEW k, GrowsByTask(k)
    PROVE  /\ \E x : TaskEntries(k)' = TaskEntries(k) \cup {x}
           /\ \A t : t # k => TaskEntries(t)' = TaskEntries(t)
<1>1. PICK New : \E x \in New : /\ Grows(New)
                                /\ x.kind = "task" /\ x.target = k
                                /\ \A e \in New : e # x => e.kind = "component"
  BY DEF GrowsByTask
<1>2. PICK x \in New : /\ Grows(New)
                       /\ x.kind = "task" /\ x.target = k
                       /\ \A e \in New : e # x => e.kind = "component"
  BY <1>1
<1>3. TaskEntries(k)' = TaskEntries(k) \cup {x}
  BY <1>2 DEF Grows, TaskEntries
<1>4. \A t : t # k => TaskEntries(t)' = TaskEntries(t)
  BY <1>2 DEF Grows, TaskEntries
<1> QED
  BY <1>3, <1>4

\* What EntriesMatchTasks, CancelIsFinal and ResultIsFinal say of one task.
TaskInv(t) ==
    /\ (pending_tasks[t] # Nil \/ t \in cancelled_tasks) <=> TaskEntries(t) # {}
    /\ \A e, f \in TaskEntries(t) : e = f
    /\ ~(pending_tasks[t] # Nil /\ t \in cancelled_tasks)
    /\ executing # Nil /\ current.target = t => TaskEntries(t) = {}
    /\ cancel_answer[t] = "granted" => /\ pending_tasks[t] = Nil
                                       /\ ~(executing # Nil /\ current.target = t)
                                       /\ t \notin completed_task_results
    /\ t \in completed_task_results => /\ pending_tasks[t] = Nil
                                       /\ t \notin cancelled_tasks
                                       /\ TaskEntries(t) = {}

\* The invariants about tasks hold iff they hold of each task.
LEMMA TaskInvEquiv ==
    ASSUME TypeOK
    PROVE  (\A t \in TaskId : TaskInv(t)) <=> EntriesMatchTasks /\ CancelIsFinal /\ ResultIsFinal
BY DEF TypeOK, TaskInv, EntriesMatchTasks, CancelIsFinal, ResultIsFinal

\* What is true of one task (its entry, tables, cancellation, result) is kept by
\* every call and every step.
LEMMA TaskInvNext ==
    ASSUME IndInv, [Next]_vars, NEW t \in TaskId
    PROVE  TaskInv(t)'
<1>0. TypeOK /\ Stepping /\ TaskInv(t)
  BY TaskInvEquiv DEF IndInv
<1>1. ASSUME TaskEntries(t)' = TaskEntries(t), pending_tasks'[t] = pending_tasks[t],
             cancel_answer'[t] = cancel_answer[t],
             t \in cancelled_tasks' <=> t \in cancelled_tasks,
             t \in completed_task_results' => t \in completed_task_results,
             executing' = Nil \/ (executing' = executing /\ current' = current)
      PROVE  TaskInv(t)'
  BY <1>0, <1>1 DEF TaskInv
<1>2. ASSUME NEW c \in Component, NEW d \in Delay, Schedule(c, d)
      PROVE  TaskInv(t)'
  <2>1. TaskEntries(t)' = TaskEntries(t)
    BY <1>0, <1>2, ScheduleGrows, ComponentGrowthEntries
  <2> QED
    BY <1>1, <1>2, <2>1 DEF Schedule
<1>3. ASSUME NEW c \in Component, NEW d \in Delay, DeferWakeAfter(c, d)
      PROVE  TaskInv(t)'
  BY <1>1, <1>3 DEF DeferWakeAfter, TaskEntries
<1>4. ASSUME NEW body \in NewTask, NEW d \in Delay, ScheduleTask(body, d)
      PROVE  TaskInv(t)'
  <2>0. PICK k : k = next_task_id'
    OBVIOUS
  <2>1. /\ \E x : TaskEntries(k)' = TaskEntries(k) \cup {x}
        /\ \A u : u # k => TaskEntries(u)' = TaskEntries(u)
    BY <1>0, <1>4, <2>0, ScheduleTaskGrows, TaskGrowthEntries
  <2>2. CASE t # k
    <3>1. pending_tasks'[t] = pending_tasks[t]
      BY <1>0, <1>4, <2>0, <2>2 DEF ScheduleTask, TypeOK
    <3> QED
      BY <1>1, <1>4, <2>1, <2>2, <3>1 DEF ScheduleTask
  <2>3. CASE t = k
    <3>1. t > next_task_id /\ t \notin 1 .. next_task_id
      BY <1>0, <1>4, <2>0, <2>3 DEF ScheduleTask, TypeOK
    <3>2. TaskEntries(t) = {}
      BY <3>1 DEF IndInv, Numbered, TaskEntries
    <3>3. /\ pending_tasks'[t] = body /\ body # Nil
          /\ UNCHANGED <<cancelled_tasks, cancel_answer, executing, current,
                         completed_task_results>>
      BY <1>0, <1>4, <2>0, <2>3, SchedulerAssumption DEF ScheduleTask, TypeOK
    <3>4. cancel_answer[t] = "none" /\ t \notin completed_task_results
      BY <3>1 DEF IndInv, FreshIds
    <3>5. ~(executing # Nil /\ current.target = t)
      BY <1>0, <3>1 DEF Stepping
    <3>6. t \notin cancelled_tasks
      BY <1>0, <3>2 DEF TaskInv
    <3>7. PICK x : TaskEntries(t)' = {x}
      BY <2>1, <2>3, <3>2
    <3> QED
      BY <3>3, <3>4, <3>5, <3>6, <3>7 DEF TaskInv
  <2> QED
    BY <2>2, <2>3
<1>5. ASSUME NEW u \in TaskId, CancelTask(u)
      PROVE  TaskInv(t)'
  <2>1. TaskEntries(t)' = TaskEntries(t)
    BY <1>5 DEF CancelTask, TaskEntries
  <2>2. CASE t # u
    <3>1. pending_tasks'[t] = pending_tasks[t] /\ cancel_answer'[t] = cancel_answer[t]
      BY <1>0, <1>5, <2>2 DEF CancelTask, TaskTaken, TypeOK
    <3> QED
      BY <1>1, <1>5, <2>1, <2>2, <3>1 DEF CancelTask
  <2>3. CASE t = u /\ pending_tasks[t] = Nil
    <3>1. /\ pending_tasks'[t] = pending_tasks[t]
          /\ cancel_answer'[t] = "granted" => cancel_answer[t] = "granted"
          /\ UNCHANGED <<cancelled_tasks, executing, current, completed_task_results>>
      BY <1>0, <1>5, <2>3 DEF CancelTask, TaskTaken, TypeOK
    <3> QED
      BY <1>0, <2>1, <3>1 DEF TaskInv
  <2>4. CASE t = u /\ pending_tasks[t] # Nil
    <3>1. /\ pending_tasks'[t] = Nil
          /\ cancelled_tasks' = cancelled_tasks \cup {t}
          /\ UNCHANGED <<executing, current, completed_task_results>>
      BY <1>0, <1>5, <2>4 DEF CancelTask, TaskTaken, TypeOK
    <3> QED
      BY <1>0, <2>1, <2>4, <3>1 DEF TaskInv
  <2> QED
    BY <2>2, <2>3, <2>4
<1>6. ASSUME NEW u \in TaskId, GetTaskResult(u)
      PROVE  TaskInv(t)'
  BY <1>1, <1>6 DEF GetTaskResult, TaskEntries
<1>7. ASSUME NEW c \in Component, RemoveComponent(c)
      PROVE  TaskInv(t)'
  BY <1>1, <1>7 DEF RemoveComponent, TaskEntries
<1>8. ASSUME NEW e \in events, Pop(e)
      PROVE  TaskInv(t)'
  <2>1. /\ TaskEntries(t)' = TaskEntries(t) \ (Dropped(e.time) \cup {e})
        /\ current' = e
        /\ cancelled_tasks' = cancelled_tasks \ TargetsOf(Dropped(e.time))
        /\ UNCHANGED <<completed_task_results, cancel_answer>>
    BY <1>8 DEF Pop, TaskEntries
  <2>2. CASE e.kind = "task" /\ e.target = t
    <3>1. e \in TaskEntries(t)
      BY <2>2 DEF TaskEntries
    <3>2. TaskEntries(t)' = {}
      BY <1>0, <2>1, <3>1 DEF TaskInv
    <3>3. t \notin cancelled_tasks /\ pending_tasks[t] # Nil
      BY <1>8, <2>2, PopFacts
    <3>4. pending_tasks'[t] = Nil
      BY <1>0, <1>8, <2>2 DEF Pop, TaskTaken, TypeOK
    <3> QED
      BY <1>0, <2>1, <3>2, <3>3, <3>4 DEF TaskInv
  <2>3. CASE ~(e.kind = "task" /\ e.target = t)
    <3>1. pending_tasks'[t] = pending_tasks[t]
      BY <1>0, <1>8, <2>3 DEF Pop, TaskTaken, TypeOK
    <3>2. ~(executing' # Nil /\ current'.target = t)
      BY <1>8, <2>1, <2>3, PopFacts DEF Pop
    <3>3. e \notin TaskEntries(t)
      BY <2>3 DEF TaskEntries
    <3>4. CASE t \in TargetsOf(Dropped(e.time))
      <4>1. PICK f \in Dropped(e.time) : f.target = t
        BY <3>4 DEF TargetsOf
      <4>2. f \in TaskEntries(t) /\ t \in cancelled_tasks
        BY <4>1 DEF Dropped, Tombstone, TaskEntries
      <4>3. TaskEntries(t)' = {} /\ pending_tasks'[t] = Nil
        BY <1>0, <2>1, <3>1, <4>1, <4>2 DEF TaskInv
      <4>4. t \notin cancelled_tasks'
        BY <2>1, <3>4
      <4> QED
        BY <1>0, <2>1, <3>2, <4>2, <4>3, <4>4 DEF TaskInv
    <3>5. CASE t \notin TargetsOf(Dropped(e.time))
      <4>1. TaskEntries(t)' = TaskEntries(t)
        BY <2>1, <3>3, <3>5 DEF TargetsOf, TaskEntries
      <4> QED
        BY <1>0, <2>1, <3>1, <3>2, <3>5, <4>1 DEF TaskInv
    <3> QED
      BY <3>4, <3>5
  <2> QED
    BY <2>2, <2>3
<1>9. CASE PopNothing
  <2>1. /\ events' = {} /\ executing' = executing /\ current' = current
        /\ cancelled_tasks' = cancelled_tasks \ TargetsOf(events)
        /\ UNCHANGED <<pending_tasks, completed_task_results, cancel_answer>>
    BY <1>9 DEF PopNothing
  <2>2. TaskEntries(t)' = {}
    BY <2>1 DEF TaskEntries
  <2>3. CASE TaskEntries(t) = {}
    BY <1>0, <2>1, <2>2, <2>3 DEF TaskInv
  <2>4. CASE TaskEntries(t) # {}
    <3>1. PICK f \in events : f.kind = "task" /\ f.target = t
      BY <2>4 DEF TaskEntries
    <3>2. t \in cancelled_tasks /\ t \in TargetsOf(events)
      BY <1>9, <3>1 DEF PopNothing, Live, Tombstone, TargetsOf
    <3> QED
      BY <1>0, <2>1, <2>2, <3>2 DEF TaskInv
  <2> QED
    BY <2>3, <2>4
<1>10. CASE EndHandler
  <2>1. TaskEntries(t)' = TaskEntries(t)
    BY <1>0, <1>10, EndWithoutTaskGrows, ComponentGrowthEntries DEF EndHandler
  <2> QED
    BY <1>1, <1>10, <2>1 DEF EndHandler, EndStep
<1>11. CASE TaskOver
  <2>1. PICK b \in BOOLEAN : FinishTask(b)
    BY <1>11 DEF TaskOver
  <2>2. TaskEntries(t)' = TaskEntries(t)
    BY <1>0, <2>1, EndWithoutTaskGrows, ComponentGrowthEntries DEF FinishTask
  <2>3. /\ executing' = Nil /\ current' = current
        /\ UNCHANGED <<pending_tasks, cancelled_tasks, cancel_answer>>
        /\ completed_task_results' \subseteq completed_task_results \cup {current.target}
    BY <2>1 DEF FinishTask, EndStep
  <2>4. executing # Nil
    BY <1>11 DEF TaskOver
  <2> QED
    BY <1>0, <2>2, <2>3, <2>4 DEF TaskInv
<1>12. CASE TaskGoesOn
  <2>1. PICK body \in TaskBody, d \in Time : Reschedule(body, d)
    BY <1>12 DEF TaskGoesOn
  <2>2. executing # Nil
    BY <1>12 DEF TaskGoesOn
  <2>0. PICK k : k = current.target
    OBVIOUS
  <2>3. k \in TaskId /\ k \notin completed_task_results
    BY <1>0, <2>0, <2>2, IssuedIds DEF Stepping
  <2>4. /\ \E x : TaskEntries(k)' = TaskEntries(k) \cup {x}
        /\ \A u : u # k => TaskEntries(u)' = TaskEntries(u)
    BY <1>0, <2>0, <2>1, <2>2, TaskGoesOnGrows, TaskGrowthEntries
  <2>5. /\ executing' = Nil /\ current' = current
        /\ UNCHANGED <<cancelled_tasks, cancel_answer, completed_task_results>>
        /\ pending_tasks' = [pending_tasks EXCEPT ![k] = body]
    BY <2>0, <2>1 DEF Reschedule, EndStep
  <2>6. CASE t = k
    <3>1. TaskEntries(t) = {} /\ cancel_answer[t] # "granted"
      BY <1>0, <2>0, <2>2, <2>6 DEF TaskInv
    <3>2. PICK x : TaskEntries(t)' = {x}
      BY <2>4, <2>6, <3>1
    <3>3. t \notin cancelled_tasks
      BY <1>0, <3>1 DEF TaskInv
    <3>4. pending_tasks'[t] = body /\ body # Nil
      BY <1>0, <2>1, <2>3, <2>5, <2>6, SchedulerAssumption DEF TypeOK
    <3> QED
      BY <2>3, <2>5, <2>6, <3>1, <3>2, <3>3, <3>4 DEF TaskInv
  <2>7. CASE t # k
    <3>1. pending_tasks'[t] = pending_tasks[t]
      BY <1>0, <2>5, <2>7 DEF TypeOK
    <3> QED
      BY <1>1, <2>4, <2>5, <2>7, <3>1
  <2> QED
    BY <2>6, <2>7
<1>13. CASE UNCHANGED vars
  BY <1>1, <1>13 DEF vars, TaskEntries
<1> QED
  BY <1>0, <1>2, <1>3, <1>4, <1>5, <1>6, <1>7, <1>8, <1>9, <1>10, <1>11, <1>12, <1>13, NextCases

----------------------------------------------------------------------------
(* The agenda: what each step does to the entries still to be handled. *)

\* New component entries are live and disturb no live entry.
LEMMA ComponentGrowthLive ==
    ASSUME GrowsByComponents, cancelled_tasks' = cancelled_tasks
    PROVE  /\ Live \subseteq Live'
           /\ \E New : Grows(New) /\ Live' \subseteq Live \cup New
<1>1. PICK New : Grows(New) /\ \A e \in New : e.kind = "component"
  BY DEF GrowsByComponents
<1>2. \A e : Tombstone(e)' <=> Tombstone(e)
  BY DEF Tombstone
<1> QED
  BY <1>1, <1>2 DEF Grows, Live

\* A new task entry disturbs no live entry.
LEMMA TaskGrowthLive ==
    ASSUME NEW k, GrowsByTask(k), cancelled_tasks' = cancelled_tasks
    PROVE  /\ Live \subseteq Live'
           /\ \E New : Grows(New) /\ Live' \subseteq Live \cup New
<1>1. PICK New : Grows(New)
  BY DEF GrowsByTask
<1>2. \A e : Tombstone(e)' <=> Tombstone(e)
  BY DEF Tombstone
<1> QED
  BY <1>1, <1>2 DEF Grows, Live

\* A step adds entries to the agenda, takes a minimal one, withdraws one, or
\* leaves clock and agenda alone.
LEMMA AgendaNext ==
    ASSUME IndInv, [Next]_vars
    PROVE  \/ /\ current' = current /\ Live \subseteq Live'
              /\ \E New : Grows(New) /\ Live' \subseteq Live \cup New
           \/ \E e \in Live : /\ current' = e /\ clock' = e.time /\ Live' = Live \ {e}
                              /\ next_event_id' = next_event_id
                              /\ e \in Choice
           \/ \E e \in Live : /\ Live' = Live \ {e}
                              /\ UNCHANGED <<clock, current, next_event_id>>
           \/ Live' = Live /\ UNCHANGED <<clock, current, next_event_id>>
<1> USE DEF IndInv
<1>1. ASSUME NEW c \in Component, NEW d \in Delay, Schedule(c, d)
      PROVE  /\ current' = current /\ Live \subseteq Live'
             /\ \E New : Grows(New) /\ Live' \subseteq Live \cup New
  BY <1>1, ScheduleGrows, ComponentGrowthLive DEF Schedule
<1>2. ASSUME NEW body \in NewTask, NEW d \in Delay, ScheduleTask(body, d)
      PROVE  /\ current' = current /\ Live \subseteq Live'
             /\ \E New : Grows(New) /\ Live' \subseteq Live \cup New
  <2>1. PICK k : k = next_task_id'
    OBVIOUS
  <2> QED
    BY <1>2, <2>1, ScheduleTaskGrows, TaskGrowthLive DEF ScheduleTask
<1>3. CASE EndHandler
  BY <1>3, EndWithoutTaskGrows, ComponentGrowthLive DEF EndHandler, EndStep
<1>4. CASE TaskOver
  BY <1>4, EndWithoutTaskGrows, ComponentGrowthLive DEF TaskOver, FinishTask, EndStep
<1>5. CASE TaskGoesOn
  <2>1. PICK body \in TaskBody, d \in Time : Reschedule(body, d)
    BY <1>5 DEF TaskGoesOn
  <2>2. PICK k : k = current.target
    OBVIOUS
  <2>3. GrowsByTask(k)
    BY <1>5, <2>1, <2>2, TaskGoesOnGrows DEF TaskGoesOn
  <2> QED
    BY <2>1, <2>3, TaskGrowthLive DEF Reschedule, EndStep
<1>6. ASSUME NEW e \in events, Pop(e)
      PROVE  \E x \in Live : /\ current' = x /\ clock' = x.time /\ Live' = Live \ {x}
                             /\ next_event_id' = next_event_id
                             /\ x \in Choice
  BY <1>6, PopFacts DEF Pop
<1>7. ASSUME PopNothing
      PROVE  Live' = Live /\ UNCHANGED <<clock, current, next_event_id>>
  BY <1>7 DEF PopNothing, Live, Tombstone
<1>8. ASSUME NEW t \in TaskId, CancelTask(t)
      PROVE  \/ \E e \in Live : /\ Live' = Live \ {e}
                                /\ UNCHANGED <<clock, current, next_event_id>>
             \/ Live' = Live /\ UNCHANGED <<clock, current, next_event_id>>
  <2>1. UNCHANGED <<clock, current, next_event_id, events>>
    BY <1>8 DEF CancelTask
  <2>2. CASE pending_tasks[t] = Nil
    BY <1>8, <2>1, <2>2 DEF CancelTask, Live, Tombstone
  <2>3. CASE pending_tasks[t] # Nil
    <3>1. cancelled_tasks' = cancelled_tasks \cup {t}
      BY <1>8, <2>3 DEF CancelTask
    <3>2. /\ TaskEntries(t) # {} /\ t \notin cancelled_tasks
          /\ \A e, f \in TaskEntries(t) : e = f
      BY <2>3 DEF EntriesMatchTasks
    <3>3. PICK e \in events : e.kind = "task" /\ e.target = t
      BY <3>2 DEF TaskEntries
    <3>4. \A f \in events : f.kind = "task" /\ f.target = t => f = e
      BY <3>2, <3>3 DEF TaskEntries
    <3>5. e \in Live
      BY <3>2, <3>3 DEF Live, Tombstone
    <3>6. Live' = Live \ {e}
      BY <2>1, <3>1, <3>3, <3>4 DEF Live, Tombstone
    <3> QED
      BY <2>1, <3>5, <3>6
  <2> QED
    BY <2>2, <2>3
<1>9. ASSUME \/ \E t \in TaskId : GetTaskResult(t)
             \/ \E c \in Component, d \in Delay : DeferWakeAfter(c, d)
             \/ \E c \in Component : RemoveComponent(c)
             \/ UNCHANGED vars
      PROVE  Live' = Live /\ UNCHANGED <<clock, current, next_event_id>>
  BY <1>9 DEF GetTaskResult, DeferWakeAfter, RemoveComponent, vars, Live, Tombstone
<1> QED
  BY <1>1, <1>2, <1>3, <1>4, <1>5, <1>6, <1>7, <1>8, <1>9, NextCases

\* pop_with_policy with FifoFrontierPolicy keeps the order of (time, seq).
LEMMA FifoNext ==
    ASSUME IndInv, [Next]_vars
    PROVE  FifoOrder'
<1> SUFFICES ASSUME Fifo, current' # Nil, NEW f \in Live'
             PROVE  Precedes(current', f)
  BY DEF FifoOrder, Precedes
<1>1. \A e \in events : e.seq \in Nat /\ e.time \in Nat
  BY MaxTimeAssumption DEF IndInv, TypeOK, Event, Time
<1>2. Live \subseteq events
  BY DEF Live
<1>3. current # Nil => /\ current.time = clock /\ current.seq <= next_event_id
                       /\ current.seq \in Nat
  BY DEF IndInv, TypeOK, Stepping, Event
<1>4. current # Nil => \A e \in Live : Precedes(current, e)
  BY DEF IndInv, FifoOrder
<1>5. CASE /\ current' = current /\ Live \subseteq Live'
           /\ \E New : Grows(New) /\ Live' \subseteq Live \cup New
  <2>1. PICK New : Grows(New) /\ Live' \subseteq Live \cup New
    BY <1>5
  <2>2. CASE f \in Live
    BY <1>4, <1>5, <2>2
  <2>3. CASE f \in New
    <3>1. f.time >= clock /\ f.seq > next_event_id /\ f \in Event
      BY <2>1, <2>3 DEF Grows
    <3>2. f.time \in Nat /\ f.seq \in Nat /\ clock \in Nat /\ next_event_id \in Nat
      BY <3>1, MaxTimeAssumption DEF Event, Time, IndInv, TypeOK
    <3> QED
      BY <1>3, <1>5, <3>1, <3>2 DEF Precedes
  <2> QED
    BY <2>1, <2>2, <2>3
<1>6. CASE \E e \in Live : current' = e /\ Live' = Live \ {e} /\ e \in Choice
  <2>1. PICK e \in Live : current' = e /\ Live' = Live \ {e} /\ e \in Choice
    BY <1>6
  <2>2. f \in Live /\ f # e
    BY <2>1
  <2>3. e.time <= f.time
    BY <2>1, <2>2 DEF Choice, Frontier
  <2>4. e.time = f.time => e.seq <= f.seq
    <3> SUFFICES ASSUME e.time = f.time PROVE e.seq <= f.seq
      OBVIOUS
    <3>1. f \in Frontier
      BY <2>1, <2>2 DEF Choice, Frontier
    <3> QED
      BY <2>1, <3>1 DEF Choice
  <2>5. e.seq # f.seq
    BY <1>2, <2>2 DEF IndInv, Numbered
  <2> QED
    BY <1>1, <1>2, <2>1, <2>2, <2>3, <2>4, <2>5 DEF Precedes
<1>7. CASE Live' \subseteq Live /\ current' = current
  BY <1>4, <1>7
<1> QED
  BY <1>5, <1>6, <1>7, AgendaNext

----------------------------------------------------------------------------
(* The theorems. *)

\* The inductive invariant holds of a new scheduler.
LEMMA InitInv == Init => IndInv
<1> SUFFICES ASSUME Init PROVE IndInv
  OBVIOUS
<1>1. TypeOK
  BY TypeInit
<1>2. Numbered /\ Stepping /\ FreshIds /\ NoEntryInPast
  BY DEF Init, Numbered, Stepping, FreshIds, NoEntryInPast
<1>3. FifoOrder
  BY DEF Init, FifoOrder
<1>4. \A t \in TaskId : TaskInv(t)
  BY DEF Init, TaskInv, TaskEntries
<1> QED
  BY <1>1, <1>2, <1>3, <1>4, TaskInvEquiv DEF IndInv

\* The inductive invariant is kept by every call and every step.
LEMMA NextInv == IndInv /\ [Next]_vars => IndInv'
<1> SUFFICES ASSUME IndInv, [Next]_vars PROVE IndInv'
  OBVIOUS
<1>1. TypeOK'
  BY TypeNext DEF IndInv
<1>2. \A t \in TaskId : TaskInv(t)'
  BY TaskInvNext
<1>3. EntriesMatchTasks' /\ CancelIsFinal' /\ ResultIsFinal'
  BY <1>1, <1>2 DEF TypeOK, TaskInv, EntriesMatchTasks, CancelIsFinal, ResultIsFinal
<1> QED
  BY <1>1, <1>3, HeapNext, SteppingNext, FreshIdsNext, FifoNext DEF IndInv

\* The inductive invariant holds of every behaviour of the scheduler.
THEOREM Invariance == Spec => []IndInv
BY InitInv, NextInv, PTL DEF Spec

\* Every variable keeps its type (the counters within their bounds, times
\* within u64), whatever handlers and tasks do.
THEOREM TypeCorrect == Spec => []TypeOK
<1>1. IndInv => TypeOK
  BY DEF IndInv
<1> QED
  BY <1>1, Invariance, PTL

\* scheduler.rs pop: no entry of the heap is ever due before the clock.
THEOREM NothingInThePast == Spec => []NoEntryInPast
<1>1. IndInv => NoEntryInPast
  BY DEF IndInv
<1> QED
  BY <1>1, Invariance, PTL

\* The heap and the task tables agree for any number of tasks, cancellations
\* and reschedulings.
THEOREM TablesAgree == Spec => []EntriesMatchTasks
<1>1. IndInv => EntriesMatchTasks
  BY DEF IndInv
<1> QED
  BY <1>1, Invariance, PTL

\* cancel_task that returned true is final for the whole chain of a task.
THEOREM CancellationIsFinal == Spec => []CancelIsFinal
<1>1. IndInv => CancelIsFinal
  BY DEF IndInv
<1> QED
  BY <1>1, Invariance, PTL

\* execute_task keeps results of tasks that are over, only.
THEOREM ResultsAreFinal == Spec => []ResultIsFinal
<1>1. IndInv => ResultIsFinal
  BY DEF IndInv
<1> QED
  BY <1>1, Invariance, PTL

\* Under FifoFrontierPolicy events are handled in the order of (time, seq).
THEOREM HandledInOrder == Spec => []FifoOrder
<1>1. IndInv => FifoOrder
  BY DEF IndInv
<1> QED
  BY <1>1, Invariance, PTL

\* The clock never moves back, and moves only for an entry with work to do.
THEOREM ClockMonotone == Spec => ClockMovesOnlyToWork
<1>1. IndInv /\ [Next]_vars =>
        [clock' # clock => /\ clock' > clock
                           /\ current'.kind = "task" => executing' # Nil]_vars
  <2> SUFFICES ASSUME IndInv, [Next]_vars, clock' # clock
               PROVE  /\ clock' > clock
                      /\ current'.kind = "task" => executing' # Nil
    OBVIOUS
  <2>1. PICK e \in events : Pop(e)
    BY NextCases DEF IndInv, Schedule, DeferWakeAfter, ScheduleTask, CancelTask, GetTaskResult,
       RemoveComponent, PopNothing, EndHandler, TaskOver, FinishTask, TaskGoesOn, Reschedule,
       EndStep, vars
  <2>2. clock' = e.time /\ e.time >= clock /\ e.time \in Nat /\ clock \in Nat
    BY <2>1, MaxTimeAssumption DEF Pop, IndInv, NoEntryInPast, TypeOK, Event, Time
  <2>3. current'.kind = "task" => executing' # Nil
    BY <2>1, PopFacts DEF Pop
  <2> QED
    BY <2>2, <2>3
<1> QED
  BY <1>1, Invariance, PTL DEF Spec, ClockMovesOnlyToWork

\* The scheduler implements the abstract event queue.
THEOREM Refinement == Spec => ImplementsEventQueue
<1>1. Init => Queue!QInit
  BY DEF Init, Queue!QInit, Live
<1>2. IndInv /\ [Next]_vars => [Queue!QNext]_(Queue!qvars)
  <2> SUFFICES ASSUME IndInv, [Next]_vars
               PROVE  [Queue!QNext]_(Queue!qvars)
    OBVIOUS
  <2>1. ASSUME NEW New, Grows(New), Live \subseteq Live', Live' \subseteq Live \cup New
        PROVE  Queue!Add
    BY <2>1 DEF Queue!Add, Grows
  <2>2. ASSUME NEW e \in Live, clock' = e.time, Live' = Live \ {e}, e \in Choice
        PROVE  Queue!Fire
    BY <2>2 DEF Queue!Fire, Choice, Frontier
  <2>3. ASSUME NEW e \in Live, Live' = Live \ {e}, UNCHANGED clock
        PROVE  Queue!Withdraw
    BY <2>3 DEF Queue!Withdraw
  <2> QED
    BY <2>1, <2>2, <2>3, AgendaNext DEF Queue!QNext, Queue!qvars
<1> QED
  BY <1>1, <1>2, Invariance, PTL DEF Spec, ImplementsEventQueue, Queue!QSpec

----------------------------------------------------------------------------
(* The executor. *)

\* The executor changes the scheduler by the scheduler's own steps only: what
\* holds of every behaviour of the scheduler holds of every run.
THEOREM ExecutorRefinement == ExecutorSpec => Spec
<1>1. ExecutorInit => Init
  BY DEF ExecutorInit
<1>2. [ExecutorNext]_evars => [Next]_vars
  <2> SUFFICES ASSUME [ExecutorNext]_evars PROVE [Next]_vars
    OBVIOUS
  <2>1. CASE Start
    BY <2>1 DEF Start, Execute
  <2>2. CASE LoopPops
    BY <2>2 DEF LoopPops, Next, Step
  <2>3. CASE LoopPopsNothing
    BY <2>3 DEF LoopPopsNothing, Next, Step
  <2>4. CASE LoopEnds
    BY <2>4 DEF LoopEnds
  <2>5. CASE UserCall
    BY <2>5 DEF UserCall, Next
  <2>6. CASE EndHandler \/ TaskReturns
    BY <2>6 DEF Next, Step
  <2>7. CASE UNCHANGED evars
    BY <2>7 DEF evars
  <2> QED
    BY <2>1, <2>2, <2>3, <2>4, <2>5, <2>6, <2>7 DEF ExecutorNext
<1> QED
  BY <1>1, <1>2, PTL DEF ExecutorSpec, Spec

\* The end condition of a run is one of the three kinds, with its own fields.
LEMMA EndConditionKinds ==
    ASSUME NEW r \in EndCondition
    PROVE  /\ r # Nil
           /\ \/ r.mode = "timed" /\ r.limit \in Time
              \/ r.mode = "steps" /\ r.left \in Nat /\ r = [mode |-> "steps", left |-> r.left]
              \/ r.mode = "unbound"
<1>1. r # Nil
  BY ExecutorAssumption
<1>2. CASE r \in [mode : {"timed"}, limit : TimeLimit, start : Time]
  BY <1>1, <1>2, ExecutorAssumption
<1>3. CASE r \in [mode : {"steps"}, left : Nat]
  BY <1>1, <1>3
<1>4. CASE r \in [mode : {"unbound"}]
  BY <1>1, <1>4
<1> QED
  BY <1>2, <1>3, <1>4 DEF EndCondition

\* A run is under way with an end condition of its kind: the steps left never
\* go below zero.
LEMMA ExecutorTypeNext ==
    TypeOK /\ ExecutorTypeOK /\ [ExecutorNext]_evars => ExecutorTypeOK'
<1> SUFFICES ASSUME TypeOK, ExecutorTypeOK, [ExecutorNext]_evars PROVE ExecutorTypeOK'
  OBVIOUS
<1>1. CASE Start
  <2>1. \A t \in TimeLimit : [mode |-> "timed", limit |-> t, start |-> clock] \in EndCondition
    BY DEF EndCondition, TypeOK
  <2>2. \A n \in StepLimit : [mode |-> "steps", left |-> n] \in EndCondition
    BY ExecutorAssumption DEF EndCondition
  <2>3. [mode |-> "unbound"] \in EndCondition
    BY DEF EndCondition
  <2> QED
    BY <1>1, <2>1, <2>2, <2>3 DEF Start, Execute, ExecutorTypeOK
<1>2. CASE LoopPops
  <2>1. run \in EndCondition
    BY <1>2 DEF LoopPops, ExecutorTypeOK
  <2>2. CASE run.mode = "steps"
    <3>1. run.left \in Nat /\ run = [mode |-> "steps", left |-> run.left]
      BY <2>1, <2>2, EndConditionKinds
    <3>2. run.left > 0
      BY <1>2, <2>2 DEF LoopPops, LoopContinues, StepsLeft
    <3>3. run' = [mode |-> "steps", left |-> run.left - 1]
      BY <1>2, <2>2, <3>1 DEF LoopPops
    <3> QED
      BY <3>1, <3>2, <3>3 DEF ExecutorTypeOK, EndCondition
  <2>3. CASE run.mode # "steps"
    BY <1>2, <2>1, <2>3 DEF LoopPops, ExecutorTypeOK
  <2> QED
    BY <2>2, <2>3
<1>3. CASE LoopPopsNothing
  BY <1>3 DEF LoopPopsNothing, ExecutorTypeOK
<1>4. CASE LoopEnds
  BY <1>4 DEF LoopEnds, ExecutorTypeOK
<1>5. CASE UNCHANGED run
  BY <1>5 DEF ExecutorTypeOK
<1> QED
  BY <1>1, <1>2, <1>3, <1>4, <1>5 DEF ExecutorNext, UserCall, evars

\* Whatever handlers, side effects and cancellations do between two steps, a
\* run of execute.rs ends with its work done, for every limit and every policy.
THEOREM RunsDoTheirWork == ExecutorSpec => RunEndsWithWorkDone
<1>1. ExecutorInit => ExecutorTypeOK
  BY DEF ExecutorInit, ExecutorTypeOK
<1>2. TypeOK /\ ExecutorTypeOK /\ [ExecutorNext]_evars =>
        [run # Nil /\ run' = Nil =>
           CASE run.mode = "timed"   -> \A e \in Live : e.time > run.limit
             [] run.mode = "steps"   -> run.left = 0 \/ Live = {}
             [] run.mode = "unbound" -> Live = {}]_evars
  <2> SUFFICES ASSUME TypeOK, ExecutorTypeOK, ExecutorNext, run # Nil, run' = Nil
               PROVE  CASE run.mode = "timed"   -> \A e \in Live : e.time > run.limit
                        [] run.mode = "steps"   -> run.left = 0 \/ Live = {}
                        [] run.mode = "unbound" -> Live = {}
    OBVIOUS
  <2>1. run \in EndCondition
    BY DEF ExecutorTypeOK
  <2>2. LoopEnds \/ LoopPopsNothing
    <3>1. ~LoopPops
      <4> SUFFICES ASSUME LoopPops PROVE FALSE
        OBVIOUS
      <4>1. run.mode = "steps"
        BY DEF LoopPops
      <4>2. run' = [mode |-> "steps", left |-> run.left - 1]
        BY <2>1, <4>1, EndConditionKinds DEF LoopPops
      <4>3. run.left \in Nat /\ run.left > 0
        BY <2>1, <4>1, EndConditionKinds DEF LoopPops, LoopContinues, StepsLeft
      <4>4. run' \in EndCondition
        BY <4>2, <4>3 DEF EndCondition
      <4> QED
        BY <4>4, ExecutorAssumption
    <3> QED
      BY <3>1 DEF ExecutorNext, Start, Execute, UserCall
  <2>3. CASE LoopPopsNothing
    <3>1. run.mode # "timed"
      BY <2>3 DEF LoopPopsNothing
    <3>2. Live = {}
      BY <2>3 DEF LoopPopsNothing, PopNothing, Live
    <3> QED
      BY <2>1, <3>1, <3>2, EndConditionKinds
  <2>4. CASE LoopEnds
    <3>1. ASSUME run.mode = "timed", NEW e \in Live
          PROVE  e.time > run.limit
      <4>1. e.time \in Nat /\ run.limit \in Nat
        BY <2>1, <3>1, EndConditionKinds, MaxTimeAssumption DEF Live, TypeOK, Event, Time
      <4>2. ~(e.time <= run.limit)
        BY <2>4, <3>1 DEF LoopEnds, LoopContinues, DueBy, Live
      <4> QED
        BY <4>1, <4>2
    <3>2. run.mode = "steps" => run.left = 0
      BY <2>1, <2>4, EndConditionKinds DEF LoopEnds, LoopContinues, StepsLeft
    <3>3. run.mode # "unbound"
      BY <2>4 DEF LoopEnds, LoopContinues
    <3> QED
      BY <2>1, <3>1, <3>2, <3>3, EndConditionKinds
  <2> QED
    BY <2>2, <2>3, <2>4
<1> QED
  BY <1>1, <1>2, ExecutorTypeNext, ExecutorRefinement, TypeCorrect, PTL
     DEF ExecutorSpec, RunEndsWithWorkDone
=============================================================================
