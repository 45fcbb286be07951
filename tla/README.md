# DesCartes in TLA+

A verification project for DesCartes, a deterministic discrete-event simulator in
Rust: TLA+ modules of its scheduler, executor and async runtime, of its client, server
and network components, of the synchronisation primitives, middleware and RPC libraries
on top of them and of its record, replay and search tools; the TLC runs that check them on
small instances; and TLAPS proofs, for instances of any size, of the properties of the scheduler,
of the runtime, of the client and the server, of the synchronisation primitives and of the middleware.

`PROJECT.json` holds what a machine can use: the components, the runs and their
properties, a mutant for every property, the source lines of every definition, the
findings, the hazards and the theorems.

## 1. The system

A simulation is a heap of events over simulated time. Everything else is built on
it: components handle events, an async runtime is one of the components, and
tokio-, tower-, tonic- and axum-like libraries run on that runtime. One thread runs
a simulation, so the hard behaviour is not in data races but in the order of events
of one instant, which a frontier policy may choose freely (that is what des-explore
explores), in wakes that are deferred to the end of a step, and in futures that are
polled for a reason of their own, or dropped while they wait.

| Part (crate) | State | Operations | Correct if |
|---|---|---|---|
| Simulated time (des-core) | - | saturating addition, subtraction, multiplication | never wraps |
| Scheduler and task system (des-core) | clock, heap, ids, pending, completed and cancelled tasks, deferred wakes | schedule, schedule_task, cancel_task, step, the four kinds of task, defer_wake | time does not run back; one entry per waiting task; cancellation is final; FIFO order if asked for |
| Executor (des-core) | the loop's position | unbound, timed, steps, side effects | a run ends when its work is done and not later than its limit |
| Async runtime (des-core) | tasks, ready queue, spawn queues, timers, next deadline | spawn, wake, cancel, sleep, poll cycle, timer tick | no wake, spawn or deadline is passed; cancelled tasks leave nothing |
| Client, retry policies (des-components) | active requests, ids, counters, policy state | send, response, timeout, retry | each request settles, once; retries stay within the policy |
| Server, queue (des-components) | active threads, queue, counters | request, completion, queue processing | threads are exact; nobody is stranded in the queue |
| Transport, network models, endpoint registry (des-components) | handlers, endpoints, in-flight messages | send, deliver, register, select | messages reach the handler that is there |
| Synchronisation primitives (des-tokio) | permits, waiter queues, wakers, generations, versions | acquire, lock, notify, send/recv, wait, changed; drops of all of them | no permit lost or made up, mutual exclusion, no lost wakeup |
| Tasks and JoinSet (des-tokio) | join states, wakers | spawn, abort, join_next, detach | every join returns, and says what happened |
| Time, oneshot, fs, threads, traced atomics (des-tokio) | timers, cells, files | sleep, timeout, interval, send, read | a timeout leaves nothing behind |
| Tower services (des-tower) | pending responses, breaker state, permits, tokens, chosen service | poll_ready, call, respond, open/half-open/close | capacity is respected and comes back |
| gRPC (des-tonic) and HTTP (des-axum) | pending calls, streams, reorder buffers | unary, stream frames, timeout, cancel | each call is answered once, frames in order |
| Record, replay, exploration (des-explore) | traces, scripts, cursors | record, replay, diverge | a replay is the recorded run or is refused |
| Metrics, charts, umbrella crate | output | - | - |

How they interact: components call the scheduler (directly in a handler, through
a handle between steps) and are called by `Simulation::step`; code of a task reaches
the runtime only by deferred wakes, which become events of the runtime when the step
ends; primitives talk to tasks by wakers only, each of which is a `Wake` event; client,
server and the RPC layers exchange events with a latency.

The hazards, each at the line where it bites and with the properties that cover it, are listed in
`PROJECT.json`.

## 2. The modules

```
SimTime <- Scheduler <- Executor          Agenda <- Server <- ClientServer
              | implements                  ^
              v                             +---- Transport --+
          EventQueue                              | implements |
                                                  v            v
SimTime <- AsyncRuntime                        Network      Calls <- MCTonic
                                                Registry ------^
Semaphore (as RwLock) implements ReadersWriter  RpcStream, TypedStream implement StreamPipe; Wire

MCSync:    Semaphore (also as RwLock), AsyncMutex, Notify, Mpsc, JoinSet, Barrier, Watch, TokioTime
MCTower:   TowerCall, CircuitBreaker, TowerLimits, RateLimit, LoadBalancer
MCTonic:   Calls, RpcStream, TypedStream, Wire
MCExplore: Replay, Monitor, PolicySearch, Splitting
Proofs:    SchedulerProofs (Scheduler, Executor), AsyncRuntimeProofs (AsyncRuntime),
           SumTheorems <- ClientServerProofs (ClientServer), SumTheorems <- TowerProofs (MCTower),
           SumTheorems <- SyncProofs (MCSync), SumTheorems <- TonicProofs (MCTonic),
           SumTheorems <- ExploreProofs (MCExplore, but for Replay)
```

The four modules below "MCSync" instantiate parts that share no state. A variable `using` (in MCTonic `stack`)
says in the initial state which of them the program uses, so that one run covers them without building
their product.

### Core (des-core)

**SimTime** is `SimTime`'s arithmetic, which saturates; `u64::MAX` is the constant
`MaxTime`, so that small instances reach the end of time.

**EventQueue** says what a scheduler promises: an agenda whose entries are never due in the
past; time moves only by taking one of the earliest, and a withdrawn entry is never taken.

**Scheduler** (`scheduler.rs`, `task.rs`, `Simulation::step`). The heap is the set of its
entries; the order is by `(time, seq)` with unique `seq`, so the set
determines it. A step is split where user code runs: `Pop` takes an entry
(dropping the tombstones of cancelled tasks on the way), the handler makes any number of
scheduler calls, each an action, and the end of the handler runs the rest of the
step: the task's table entries, its rescheduling, the drain of the deferred wakes.
`Fifo = FALSE` lets the frontier policy choose any entry of the earliest time.
`cancel_answer` is a history of what `cancel_task` answered.

**Executor** (`execute.rs`) adds the three loops around `Simulation::step`, with the peek of
the timed loop, which sees tombstones that the pop skips.

**AsyncRuntime** (`async_runtime.rs`, `waker.rs`). Events are the
`RuntimeEvent`s; a poll cycle is a step in which the tasks of `poll_set` are polled
one after the other, and a task's code calls spawn, cancel, wake, sleep and drops
sleeps between the start and the end of its poll. All of that is deferred, as in the code,
and drained at the end of the step. `BetweenSteps` says whether the program also
uses handles from outside between two steps.

### Components and network (des-components)

**Agenda** is the event queue as components see it; **Server** (`server.rs`, `queue.rs`) and
**ClientServer** (`simple_client.rs`, with the policies of `retry_policy.rs` as operators on a policy's
parameters and state) are the components over it. Each handler is one
action: it takes its entry, and what it schedules goes to the agenda in the order of the code.

**Transport** (`sim_transport.rs`, `network_model.rs`) is another component over Agenda: a message enters by
an event or by a call, is dropped or delayed by one of the two network models, and is forwarded to
the handler registered when it arrives. It implements **Network**, in which a message is handed over at
most once and, if `Ordered`, in order per pair of endpoints. **Registry** (`endpoint_registry.rs`,
`wait_for_endpoint`) has the endpoints of a service, the turns of the selection, and the tasks that wait
for a change through a Notify, whose permits and wakers are kept apart as in that module.

### Primitives and time (des-tokio)

**Semaphore** (`batch_semaphore.rs`, `semaphore.rs`) keeps the queue of waiters with what
each still needs. The reader-writer lock (`rwlock.rs`), at the end of that module, is the semaphore with
`MAX_READS` permits, a reader taking one and a writer all; it implements **ReadersWriter**.

**AsyncMutex**, **Notify**, **Mpsc**, **JoinSet**, **Barrier**, **Watch** model the files of
these names in `des-tokio/src/sync` and `task.rs`. In all of them `woken` is the set of tasks whose waker was
called and that were not polled since; a task may be polled without being woken by the
primitive (a `select!`, a `join!`), and a future may be dropped at any time. The
histories `disturbed` (Mutex, Notify) and `abandoned` (Mpsc) record that this has happened where a
promise of the primitive is conditional on it not happening.

**TokioTime** (`time.rs`, `sync/oneshot.rs`) has a oneshot channel whose receiver is awaited with or without a
Timeout, and an Interval with its three behaviours for missed ticks, over the timers that AsyncRuntime keeps.

### Middleware (des-tower)

**TowerCall** is a request through retry, timeout and service to a simulated server and back through the
response router; futures are dropped at any moment. **CircuitBreaker**, **TowerLimits** (a concurrency limit around a
global one), **RateLimit** and **LoadBalancer** are the other layers, each around a service whose
readiness and answers are choices. Time is kept as what is left of sleeps.

### RPC (des-tonic, des-axum)

**Calls** composes Transport and Registry with unary gRPC calls and with HTTP requests, which differ in
when the timeout runs and in what it leaves behind; it also has programs that use the transport or the registry alone.
**RpcStream** is a streaming RPC of each kind: frames under way are sets from which any one may arrive
next or never, both endpoints have reorder buffers and bounded channels, and the applications read, drop, answer and fail.
**TypedStream** is the task that encodes or decodes at each of the four ends of a stream. Both implement **StreamPipe**: what is read is
what was sent, in order and without gaps. **Wire** encodes and decodes the bytes of the messages.

### Exploration (des-explore)

**Replay** runs a small program under recording, and once more from its trace, as a replay or under a script of decisions.
A program is a table that says what an event draws, schedules and wakes; the second run may be of another one.
**Monitor** sums observations up window by window, under the loop of `run_until_end_or`: a step moves the clock and runs handlers, which
observe (and flush for themselves), the loop flushes after it and may stop, and a last flush goes to the end time, which the clock may have passed; **PolicySearch** and **Splitting** are the search
and the estimates over runs, of which only the outcome and the scores are kept.

Definitions whose comment starts with "Mutant:" are wrong on purpose. Nothing uses them; put in the place
of the definition they precede, each makes a property fail, which shows
that the property depends on that part of the code.

## 3. The runs

| Run | Checks | Shows |
|---|---|---|
| MCScheduler (Scheduler) | `TypeOK`, `EntriesMatchTasks`, `CancelIsFinal`, `ClockMovesOnlyToWork`, `ImplementsEventQueue` | under any frontier policy, with all kinds of task, cancels in handlers and between steps, deferred wakes and saturated times, heap and tables agree and the scheduler implements EventQueue |
| MCExecutor (Executor) | `FifoOrder`, `RunEndsWithWorkDone` | order by `(time, seq)` with FIFO frontiers; a run ends only with its work done, although `step` returns false when only tombstones are left |
| MCAsyncRuntime | `QueuedFlagExact`, `CancelledIsGone`, `SpawnedIsPolled`, `ClockWaitsForWork` | under any frontier and ready-task policy |
| MCAsyncFair | `SleepHasTimer`, `SleepersWake` | with FIFO frontiers and one sleep per task at a time, every sleep has a wake to come and ends |
| MCAsyncTwoSleeps | `SleepHasTimer` - violated | finding 1 |
| MCClientServer | `ServerExact`, `ClientExact`, `AttemptsConserved`, `RequestsSettle` | attempts, timeouts, completions, late responses and retries in any order of one instant: threads, queue, requests and retries are exact, and every request settles |
| MCSync | `GuardsExact`, `NoLostWakeup`, `WaitsTruthful`, `NoOvertaking`, `ImplementsReadersWriter`, `WaitersReturn` | nine primitives with futures polled for other reasons and dropped; each property is the conjunction of the primitives' own, see MCSync.tla |
| MCJoinSetAbort | `JoinReturns` - violated | finding 2 |
| MCTower | `LoadExact`, `AnswerIsOwn`, `NothingStuck`, `AdmittedWithinRate`, `CallsAsDue`, `CallsEnd` | load and slots are exact although futures and clones are dropped and timeouts race responses; nobody sleeps beside free capacity and no breaker is open for good; a late answer never passes for that of a retry; the rate is kept in every interval; calls go to the backend that was found ready, and under RoundRobin and Random to the one whose turn it is; requests end |
| MCTonic | `TransportExact`, `DiscoverySound`, `AnswersHonest`, `WireExact`, `ImplementsNetwork`, `ImplementsPipes`, `EveryCallReturns` | with loss, delay and reordering, endpoints that come and go and late answers: the transport is a network, streams are pipes, calls get their own answers and return in time (an entry may stay pending for a call that was dropped or a gRPC call that timed out), a stream's end that looks clean is one unless a full channel or reorder buffer cut it off, bytes cut off anywhere are refused |
| MCStreamEarly | `BuffersDrain` - violated | finding 3 |
| MCExplore | `ReplayExact`, `ControlExact`, `MonitorExact`, `SearchSound` | a replay repeats the run or notes the first choice at which it cannot; control departs only where told; every observation is counted once, in the window of its time, whoever is first to tell the monitor of the time; results are backed by runs |

### Bounds, and why they are enough

- **MCScheduler, MCExecutor**: times 0..3, where 3 is the end of time, so additions
  saturate; two task ids and four event ids, so a tombstone can stand before, at and
  after the time of a live entry and be followed by a chain of a retry or periodic task; one
  deferred wake. The limit of the timed run is 1 and that of the stepped run 2: events lie before, at and beyond them.
- **MCAsyncRuntime, MCAsyncFair**: times 0..3, two tasks, five calls of user code: enough to
  spawn both, let both sleep, and cancel, wake or drop one of them at any moment. MCAsyncTwoSleeps has one task with two sleeps.
- **MCClientServer**: three requests of two clients (exponential backoff with jitter and two attempts; a
  token bucket of one token), one thread, a queue of one, service time 2, latency 1, timeout 3. The third
  request is turned away while one is served and one waits, timeouts fall on the instants of
  responses, and retries meet late successes. Time never gets near the bound of 40. The other three policies are operators of
  ClientServer that this run does not choose.
- **MCSync**: three tasks, so that there is one between the one that acts and the one that
  sleeps. Acquires of 1, 2 and 3 of three permits, one permit added and one forgotten: a large acquire that
  was partly served stands before small ones. `MAX_READS` is 4, more than there can be readers, as in the code. Channels of two slots, barriers of
  two parties and two generations, two receivers and two versions of a watch. Wakers and permits are bounded by 4, more than the live
  futures, so that stale wakers fit. Timeouts of 0 and 2 and intervals of 2 within 6 instants: several periods can be missed, by a multiple of the period and not.
- **MCTower**: two callers with one retry each on a server of two threads, service times below and above the timeout; three tasks on a breaker that
  opens at two failures, with up to three recovery tasks; three tasks on limits of 1 (for each of two services) and 2 (global);
  a rate of half a token per instant with a burst of two, for six instants; two backends, two handles, three calls.
- **MCTonic**: two calls, one of them to a pinned endpoint, two servers of which one can be withdrawn once, two messages for programs that use the transport
  alone, timeout 3 against a round trip of 3: the answer comes on the instant of the timeout, or the handler was
  reached too late. Streams of two items each way, channels of one slot and reorder buffers of two frames, so that both overflow; every
  subset of frames may arrive, in every order. Wire: texts and payloads of 0 and 2 bytes (payloads with a byte that no text has), metadata of 0, 1 and 2
  entries, sequence numbers up to 70000, two codes, cut off after every byte. Numbers on the wire stay below 2^24 (`Limit`).
- **MCExplore**: programs of up to four events, two or three of one instant and two tasks of one poll, three programs so that a second run differs in a choice set, in
  a draw or not at all; windows of 2, an end time of 6 and steps of up to 5, so that a step passes two windows or the end before anything is observed; two policies of two trials; two levels and two particles.

`CHECK_DEADLOCK FALSE` stands where the system may stop: a simulation whose heap is
empty or whose bound is reached, tasks that all wait for a permit nobody will release.

### Fairness

- `AsyncRuntime!FairSpec`: weak fairness of `Step`. `Executor::unbound` steps until the heap is empty,
  a poll returns, and polls make finitely many calls.
- `ClientServer!FairSpec`: weak fairness of `Next`. Every action handles an entry of the agenda,
  and the executor works the agenda off; nothing is said about which entry of an instant comes first.
- `MCSync!Spec`: a woken wait (barrier, `join_next`, lock, timeout) is polled, because its `Wake` event is handled; tasks complete, or their `Cancel` event
  is handled; a guard of the reader-writer lock is dropped at some time; time goes on. New readers are neither required to come nor kept from coming.
- `MCTower!Spec`: events are handled, what is due is polled and time goes on. Nothing makes a task ask again that was not woken.
- `MCTonic!MCSpec`: entries of the agenda are handled and woken calls polled; of a stream, timers fire and the client reads. No frame is ever required to
  arrive, no handler to answer.

## 4. Findings

Each of these is the result of a run in which TLC finds a property violated.

1. **MCAsyncTwoSleeps** (`des-core/src/async_runtime.rs:704`). `cancel_timer` drops all registrations of a
   task for a deadline. When one of two sleeps of a task with one deadline is dropped, the other
   never ends. `async_runtime.rs:875` promises the wake.
2. **MCJoinSetAbort** (`des-tokio/src/task.rs:39`). `AbortHandle::abort` does not wake a pending
   `join_next`, and the task that would is gone. `tests/join_set.rs:96` expects the join to return `Cancelled`.
3. **MCStreamEarly** (`des-tonic/src/server.rs:705`). A frame that arrives before the Open of its stream is dropped, not
   buffered as `doc/ai/des_tonic_streaming_design.md:138` says, and those behind it wait for ever.

The following properties are stated in the modules and are violated as well. They have no run of their own;
naming the property in the cfg given shows the trace.

- `TimedRunStaysWithinLimit` (MCExecutor.cfg; `des-core/src/execute.rs:164`). The timed loop peeks at the heap with
  tombstones in it: a cancelled entry within the limit makes it call `step`, which runs the next
  live event, however far beyond the limit. `execute.rs:35`: "Simulation will be run no longer than the given time."
- `StaleWakersAreBenign` (MCSync.cfg; `des-tokio/src/sync/notify.rs:36`). `notify_one` can pop the waker of a dropped
  `Notified`; a live waiter sleeps on beside the permit. `notify.rs:19` calls stale wakers benign.
- `EndpointAlwaysSeen` (MCTonic.cfg; `des-tower/src/tower/discovery/mod.rs:31`). After a withdrawal one waiter can take the
  permits of two and leave a waker; the other sleeps beside an endpoint that is registered then. `DiscoverySound` is therefore
  stated for runs without withdrawals.
- `OpeningLasts` (MCTower.cfg; `des-tower/src/tower/circuit_breaker/mod.rs:158`). Every opening has generation 1, so the recovery task of an
  earlier opening half-opens a later one before its timeout is over. `doc/mdbook/src/chapter_07/server_side_throttling.md:441` calls the timeout "Time to wait before trying half-open".
- `AdmittedWithinRate` with `CallsOutside = TRUE` (MCTower.cfg; `limit/rate/mod.rs:101`). A call outside of an event takes the time to
  be zero and moves `last_refill` back, so the next call refills for the whole past.
- `ExampleIsCounted` (MCExplore.cfg; `des-explore/src/estimate.rs:307`). A run can end in a terminal state before it reaches the next
  level: the estimate is 0 and yet has an example.

Other places where code and comment or document part, met while modelling. The models follow the code:

- `task.rs:318` against `:316`: the handle of a periodic or retry task is refused while the task's own callback runs, and the chain goes on.
  `task.rs:306`: a periodic task with count 0 decrements a zero, which wraps in a release build.
- `lib.rs:370`: a step on an empty heap does not drain deferred wakes.
- `async_runtime.rs:894` against `:890`: under a policy that is not FIFO a `CancelTimer` can be handled before
  the `RegisterTimer` it takes back; `SleepHasTimer` and `SleepersWake` are therefore stated for FIFO frontiers.
- `async_runtime.rs:172` against `:167`: a task spawned from outside a step after the initial poll has no poll to come, hence `BetweenSteps`.
- `async_runtime.rs:620` against `:344`: taking ready tasks with `swap_remove` polls A, B, C as A, C, B.
- `simple_client.rs:325` against `:90`: `max_requests` is never read. `simple_client.rs:330` against
  `retry_policy.rs:258`: each request has a clone of the token bucket, so tokens are not shared.
- `retry_policy.rs:118` against `:42`: jitter is added after the cap, so a delay can exceed `max_delay`.
- `network_model.rs:203`: what LatencyJitterModel returns as a latency is the time of arrival, which the transport adds to the time of sending.
- `mutex.rs:219`: a lock future dropped while it waits leaves a waiter that absorbs a wake.
  `mpsc.rs:340` against `:300-302`: a send dropped after its wake loses the wake of the next sender.
- `task.rs:213` against `doc/human/des-tokio.md:16`: `join_next` returns the first settled handle in the order of spawning,
  not of completion. `task.rs:113` against `:23`: a task that completed and was aborted afterwards is joined as cancelled.
- `barrier.rs:56` against `:34`: the generation of a wait is fixed when `wait()` is called, not when it is first polled.
- `load_balancer/mod.rs:158`, `:176` against `:9` ("Least Connections: Routes to service with fewest active connections"): that strategy takes the same branch as
  RoundRobin, and no connections are counted. `CallsAsDue` therefore leaves open which backend is due under it, and only says that it calls the one found ready.
- des-tower: a rejection of the server is an answer with status 503, which neither retry nor breaker count as a failure;
  a permit of a clone that is dropped between `poll_ready` and `call` is lost (`dropped` in TowerLimits counts these, and `LoadExact` allows for them).
- des-tonic: a unary call that times out leaves its entry in the pending map until the response comes, if it does. Two clients of one name share an endpoint
  and their correlation ids. A Cancel has sequence number 0, below the next expected, so the server never drains it and its handler goes on
  (`doc/ai/des_tonic_streaming_design.md:132`, `:352`). A full channel or reorder buffer ends a stream so that it looks complete (`client_cut`, `server_cut` in
  RpcStream); errors of a request stream look like its end.
- des-axum: discovery and response each have the whole timeout, so a request may take twice as long (`EndsInTime`).
- des-explore: a replay that ends before its trace does is not refused, nor is one of a trace without decisions (`harness.rs:709`); `mutate_one` of the policy search
  changes only decisions of the earliest time.

## 5. The proofs

**SchedulerProofs**, from `MaxTimeAssumption`, `SchedulerAssumption` and `ExecutorAssumption` (types of the constants;
in particular for every set of components, delays and tasks, every policy and every bound):
`TypeCorrect`, `NothingInThePast`, `TablesAgree`, `CancellationIsFinal`, `ResultsAreFinal`, `HandledInOrder`,
`ClockMonotone` and `Refinement` (the scheduler implements EventQueue).

The invariants are not inductive one by one. That a task has one entry needs fresh
task ids (`FreshIds`, `Numbered`); that a cancellation is final needs the entry of a cancelled task to be its only
one; that the order is FIFO needs unique event ids and a clock that stands at the event last
popped (`Stepping`). `IndInv` conjoins them. Most actions only add to the heap: `ScheduleGrows` and
its siblings say what they add, and `GrowthKeepsHeap`, `ComponentGrowthEntries` and `TaskGrowthEntries` that such an addition keeps the
invariant, so that only `Pop` (`PopFacts`), the cancellation and the end of a task need an argument of their own.
`NoEntryInPast` and `ResultIsFinal` are proved and not repeated in a run.

The executor takes the scheduler's own steps only (`ExecutorRefinement`: `ExecutorSpec => Spec`), so all of this holds during a run as
well. With it and with the types of the end condition (`ExecutorTypeNext`: the steps left never go below zero),
`RunsDoTheirWork` proves `RunEndsWithWorkDone` for every limit, every count and every policy. The run also checks `FifoOrder` under the
executor, which is `HandledInOrder` through the refinement.

**AsyncRuntimeProofs**, from the assumptions on the constants and `BetweenSteps = FALSE` (the program uses the
runtime in setup and in polls): `SpawnedArePolled` and `NoWorkIsPassed`, under any frontier policy and any ready-task policy.
`IndInv` has three parts. `Entries`: nothing on the heap is behind the clock, and its first entry is the poll of
`install`. `Ticks`: the remembered deadline is the earliest one, and a tick is on the heap in time for it, which is why stale
ticks, never removed, do no harm. `Polls`: between steps a poll is due now for whatever is ready or spawned; within a step it is deferred.

The same module proves, for every program (`BetweenSteps` included) and every policy, `RuntimeInvariant`, `FlagsAreExact` and
`CancelledAreGone`. `RuntimeInv` has, besides the types, `Phases` (within a step the ready queue is empty, between steps there is
no cycle and nothing deferred), `Flags` (the flagged tasks are the installed ones that are due, each due once), `Spawns` (a task to be
installed is in one spawn queue, once, and nowhere else: not installed, not due, not cancelled, without timers) and `Cancels`
(what is left of a cancelled task has its `Cancel` on the heap or deferred). `Gather` is one recursive function behind
`retain` and repeated wakes; `GatherFacts` says what it returns, again by a least counterexample.

`SleepsHaveTimers` assumes a FIFO frontier and one slot, as its run does: a registration and its cancellation are two events, so
with another policy the cancellation may overtake, and two sleeps of a task with one deadline share a timer
(finding 1). `SleepInv` says that every pending sleep is that of an installed task and is provided for in one of three ways: its deadline is reached and
its task is due or being polled (`WakeIsDue`); its timer is set and no cancellation is on the way (`TimerIsSet`); or its registration is on
the way and no cancellation behind it (`TimerIsAsked`). `Stamps` gives the order: whatever is on the heap and is no tick is due now, so
of two such events the older one is taken first.

**ClientServerProofs**, from the assumptions on the constants (the clients finitely many, times times, `Nil` no entry of
`active_requests`): `ServerIsExact`, `ClientIsExact` and `NoAttemptIsLost`, for every number of clients, requests and threads,
every queue, every policy and delay, and both frontier policies. Server and clients meet only in the agenda, so the three properties
are balances between variables and numbers of entries, and `HandledCount` is the heart of the proof: for any set of events, how many
are on the agenda after one was handled and others were posted; it needs ids that grow (`Stamped`), so that no two posts are one entry. `IInv` adds what makes the
balances inductive: request ids and the `SendRequest` entries still due fit in what the program scheduled, and whatever is active or has a
retry due is below the next id, so that a new request starts with nothing to its name (`ClientInv`). A step of the server is
`Quiet` for the clients (`QuietClients`), one of a client adds attempts and nothing else to what the server holds (`ServerUnmoved`);
a `ProcessQueuedRequests` that is due stays due because nothing on the agenda is earlier (`DueStays`).

**SyncProofs**, from `SyncAssumption` (the assumptions of the primitives: numbers are
natural numbers, the tasks finitely many, a barrier has a party and a channel a slot, `MAX_READS` is more than
one, `Nil` is no other value): for every number of tasks, permits, slots, parties,
receivers and periods, `GuardsAreExact`, `NoWakeupIsLost`, `WaitsAreTruthful`, `NobodyOvertakes` and `LockIsReadersWriter`.
They follow from `SyncInvariant`. `SyncInv` has one part per primitive, and `ComponentSteps` says that a step of the
composition is one of the primitive in use and leaves the others alone, so that each part is proved against its own module:

- Semaphore (`SemInv`). Permits are available, handed out, promised to acquires that were
  granted and not polled, or given in advance to acquires that still lack some; `SemCount` says that these sums
  make up what there was. That no permit is idle beside the queue, and that who waits is in the queue or granted
  and woken, is `SemWaits`. `Grant` serves the queue from its head by a fold: `GrantSums`, `GrantQueue` and `GrantShape` say what it moves and
  that what is left is the tail of the queue with one new head, `RemoveWaiter` what a cancelled acquire gives back.
  `GrantFair` and `SemFair`: nobody before a waiter lacks permits when that waiter has been granted.
- Lock (`RwInv`). Guards are of one permit or of all, the semaphore is never closed, and by `SemCount` two guards fit
  together only as two readers (`HeldFits`), which gives the refinement.
- Mutex, Notify. While no future was dropped or polled without a wake, the queue of wakers is without repetition, has
  everybody who sleeps, and somebody who was woken stands for a free lock or a permit (`WaitersInOrder`, `WakersInOrder`).
- mpsc (`MpscInv`). Waker ids grow along the queue, whoever sleeps has one there, and free slots are at most as many as
  senders that were woken (`SlotsKnown`).
- JoinSet, Barrier, watch, Timeout, Interval. A handle belongs to a task that runs or is settled; the arrivals of the present
  generation are the registered waits; a waiting receiver is woken or reachable; a timeout's timer is
  its deadline; the next tick is a whole number of periods after the start of the schedule.

**TowerProofs**, from `TowerAssumption` (the same kind of assumptions on the middleware's parameters): `LoadIsExact`, `AnswersAreOwn`,
`NothingIsStuck`, `CallsGoAsDue`, and `RateIsKept`, the last one under `CallsOutside = FALSE` (every call is made within an event;
section 4 says what happens otherwise). `TowerInv` adds to the properties: every attempt on its way is one the table of pending
responses knows, under an id of its own (`OnTheirWay`); the answer in a channel is that channel's own (`OwnChannels`); permits are where the
phase of their clone says (`LimitsFlags`); a balancer's generator and index are where its calls brought them. The rate needs an
invariant over all intervals (`RateInv`): what was admitted from `a` up to now and the tokens that are left came out of the full bucket and of
the refills since `a`.

**TonicProofs**, from `TonicAssumption` (finite sets of endpoints and tasks, latencies that are
numbers, servers and the client among the endpoints, `Nil` not the result of a call, channels with a slot, texts of ASCII bytes, lengths and numbers below `Limit`), over `MCSpec`, so with everything that runs on the transport:
`DiscoveryIsSound`, `TransportIsExact`, `TransportIsNetwork`, `AnswersAreHonest`, `StreamsArePipes` and `WireIsExact`, for every number of endpoints, tasks, messages and items, both network models, with and
without loss, every timeout, and both frontier policies (the order per pair only under FIFO, as Network asks). `RegistrySteps`,
`TransportSteps` and `CallsSteps` reduce a step of the composition to what it is for each part.

- Registry (`RegistryInv`). An endpoint is listed once; the picks since the last change go backwards from the counter, one round of
  them (`RoundKnown`), which gives the rotation wherever the counter stood. Before the first endpoint everybody who waits
  has a waker and there is no permit, after it nobody who waits lacks one (`WaitersKnown`): this is what a removal breaks (section 4).
- Transport (`TransportInv`). An id that was asked for is below the counter, of one sender and not in the network (`IdsKnown`). An entry that
  delivers carries one message that entered and was not handed over, and no other entry carries it (`WayKnown`), so that the history's search by
  id finds that message (`PlaceFacts`). The order needs three facts together (`OrderKnown`): no message arrives after the `Horizon` of its
  pair, at which the next one arrives; of two messages of a pair the earlier one is ahead on the same leg or a leg further; and a
  message for a handler is due now. A step that neither adds nor takes a delivery keeps all of it (`CalmKeeps`); sending, entering, arriving and handing over have a lemma each.
- Calls (`CallsInv`). A correlation id was given to one call (`IdsOfCalls`). Whatever carries an id, on its way to the server, in a handler
  or on its way back, is the request or the answer of that call (`MessagesKnown`); a call that was sent has its entry in `pending` until its answer is in its
  oneshot, and after its end only if it was dropped or, with gRPC, timed out (`CallsKnown`). So a late answer, even one that finds such a leftover entry,
  never ends another call.
- Typed streams (`TypedInv`). The items read, those in the channel, the one that the forwarding task holds and those still at the source are,
  in this order, the items offered (`TypedFlow`); only a failure at the end of the channel or a dropped reader breaks the row off.
- Streams of frames (`StreamInv`). Each end knows something of the other: a frame on its way is one that the other end has sent,
  with the number of its item, and a successful `Close` is numbered behind all of them (`RepliesKnown`, `AsksKnown`). What an end has read and has
  in its inbox is what lies below its `next_expected` (`RepliesFlow`, `RequestsFlow`, `AnswerFlow`, `RequestFlow`), and an inbox that was closed without
  a failure and without a frame that was cut off holds all there was. The loop that empties a reorder buffer is a fold over a
  set of frames; `ServerLoop`, `StreamLoop`, `RequestLoop` and `AnswerLoop` turn it into a walk along consecutive frames, and each kind of turn keeps
  its part of the invariant. Since what an end knows of the other only says that it has come at least so far, a step of one end leaves
  the other end's view true (`ClientViewStays`, `ServerViewStays`). The pipes are then read off the invariant, step by step.
- Wire (`WireInv`), for all texts, payloads, metadata, codes and numbers. The step is easy (a byte less arrives); the work is in the decoders. `Reads` says what a `get_` function
  makes of a buffer that begins with the encoding of a value and is cut off anywhere: an error if bytes of the value are missing, the value and
  the rest otherwise. `On` says the same of a decoder in the middle of a message, in terms of how many bytes are missing at the end, so that
  a field's lemma (`ThenStringOn`, `ThenKvOn`, ...) carries it over that field and `EndOn` reads off the result. Metadata is an induction over the entries (`ReadTo`), and `RequestExact`,
  `ResponseExact` and `FrameExact` put the fields together.

**ExploreProofs**, from `ExploreAssumption` (the budgets and numbers of trials, particles, branches and windows are natural numbers, lengths of queues too, and
`Nil` is no other value): `SearchIsSound` and `MonitorIsExact`.

- Policy search (`SearchInv`). The failures kept are the first of all that were met, as many as fit (`FailuresKnown`), and the best table is the
  first of those with the most successes among the evaluations (`BestKnown`), which is why only a strictly better one may replace it; a candidate forces
  only choices that some rollout has seen.
- Splitting (`SplittingInv`), for any loads. `PrefixesNest` (what a particle captures continues the prefix it was split from) is not inductive: a score that reaches the
  level inside the prefix would capture less than the prefix. It does not, because a prefix was captured at the first score that reached the level below, so
  all before its last score are below that level, and levels grow (`IsSplit`, `Below`). `RunKnown` says the same of the run of a particle.
- Monitor (`MonitorInv`), for any window, warm-up, hold and number of queues. In a step the monitor may be behind the clock: it stands at the time of some flush, in
  the window of that time (`IsCurrent`), every observation brings it up to the clock first (`ObservationKeeps`), and between steps it stands at the clock. Everything it holds is a function of the observations (`Known`): the state of a queue its integral from the start of the window to
  `last_time` and its length from then on (`QueueKnown`), the counters what was seen from the start of the window on, a summary what was seen in its window, and the two streaks
  exactly the last windows judged so (`IsStreak`). `flush_up_to` is a loop over the windows that are over: `FlushKnown` for one of them, `NextWindow` while there is a next,
  `UppedKnown` for what is left of the time, and the induction in `FlushUpToKnown`. The final flush may go to a time that is past: durations saturate, no
  window is closed and the queues alone are set back (`FlushPast`), after which only what is reported is claimed (`IsReported`). An observation at the present changes no sum over
  the past (`LenAtAppend`, `SeenAppend`, `TimelineAppend`).

**SumTheorems** has what these need of sums over finite sets: a sum is a natural number, grows by an added element, is
unchanged or changed by a known amount when the function is, splits, and is bounded by its parts. The library's induction theorems cannot be instantiated with these
provers, so the lemmas look at a counterexample of least cardinality (`LeastNatural`, `SmallestSet`): that the
fold behind the sum exists, and that the order in which it takes the elements does not matter. With them are facts that several
components need: induction up to a bound, a sequence without one of its places, a counter that goes round, and several sequences put one behind the other.

Only model-checked: liveness (`SleepersWake`, `RequestsSettle`, `WaitersReturn`, `CallsEnd`, `EveryCallReturns`),
which is out of the prover's reach; and replay and control (`ReplayExact`, `ControlExact`), which compare two runs with each other, the first of which
has left its trace and not its states.

## 6. Not modelled

Random sampling and ids (a sampled delay is any delay of a set, a UUID the counter it is made of),
logging, metrics, charts, formal helpers over floating-point samples, and code generation: output or
data without control. Floating-point statistics (confidence intervals, distances and score weights of the monitor, `recovery_time`) are left
open where a decision depends on them. The in-memory file system has no protocol. Encodings that libraries do (serde, prost, trace files) are taken
to be right. The attic is not compiled. `add_component` during a run, priorities of the server's queue, the arithmetic of `Instant`, the layer wrappers of the service builder, the
hedge layer (a placeholder that makes one call), metadata and addresses, and the mutex waiter policy of the harness, whose choices are neither recorded nor
replayed, are left out of parts that are modelled; `PROJECT.json` says so for each. So are an error while the body of an HTTP response is
collected (`des-axum/src/client.rs:226`) and a stream frame that does not decode (`des-tonic/src/channel.rs:1098`); the backoff of a client's retries doubles, where `retry_policy.rs:94` has a
multiplier, and that of a retry task is a power without the overflow of `task.rs:232`. Of the lines that the map does not cover most are
examples, distributions, metrics, charts and the attic.

## 7. Plan

Done: models of every crate that has control of its own, and the proofs of the scheduler, the executor and the async runtime, the client and the server, the primitives, the middleware, RPC with its registry, transport, calls, streams and wire format, and of exploration the search, the splitting methods and the monitor. What is left is to prove `ReplayExact` and `ControlExact` (Replay): that two runs which were given the same choices are in the same state after as many steps.
