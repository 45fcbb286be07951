------------------------------ MODULE TowerCall -----------------------------
(***************************************************************************)
(* A request through DesRetry(DesTimeout(DesService)): retry/mod.rs,       *)
(* timeout/mod.rs and service/mod.rs of des-tower.                         *)
(*                                                                         *)
(* The clones of a DesService share a load counter, the table of pending   *)
(* responses and the wakers.  An attempt is an event to the simulated      *)
(* server (Server, without a queue: it rejects what it has no thread for), *)
(* its response an event to the ResponseRouter.  A task makes one request; *)
(* a future is named by its task and the number of the call.  Time is kept *)
(* as what is left of the sleeps and of the work; it goes on only when no  *)
(* event is left at this instant and the futures that are due were polled. *)
(***************************************************************************)
EXTENDS Integers, FiniteSets, Functions

CONSTANTS Tasks,
          Capacity,     \* thread_capacity, of the handle and of the server
          ServiceTimes, \* what the service time distribution may give
          Timeout, RetryDelay,
          MaxRetries

CallAssumption ==
    /\ IsFiniteSet(Tasks)
    /\ Capacity \in Nat \ {0} /\ MaxRetries \in Nat
    /\ ServiceTimes \in SUBSET Nat /\ Timeout \in Nat /\ RetryDelay \in Nat

VARIABLES
    current_load, pending_responses, wakers, next_attempt_id,
    arriving,   \* ProcessRequest events at this instant: [attempt, by]
    busy,       \* the server's threads: [attempt, by, left]
    responses,  \* ResponseReceived events at this instant: [attempt, by, ok]
    future,     \* per task: its future's state, see Future
    channel,    \* what the oneshots of live receivers hold: [task, call] -> response
    woken       \* tasks woken in poll_ready and not polled since

service == <<current_load, pending_responses, wakers, next_attempt_id, arriving, busy, responses, channel>>
vars == <<service, future, woken>>

\* phase: "idle", "waiting" and "ready" (poll_ready), RetryState "calling" and
\* "sleeping", or "done" with an outcome.  left is what remains of the timeout
\* or of the retry's sleep; call counts the calls made, retries what the policy
\* granted.  As history, by is the future that an attempt was made for, and
\* answer the one that the response received was for.
Receivers == Tasks \X Nat
Future == [phase : {"idle", "waiting", "ready", "calling", "sleeping", "done"},
           left : Nat, call : Nat, retries : Nat, attempt : Nat, answer : Receivers,
           outcome : {"none", "ok", "rejected", "timeout", "dropped"}]

TypeOK ==
    /\ current_load \in Nat /\ next_attempt_id \in Nat
    /\ DOMAIN pending_responses \subseteq Nat
    /\ wakers \subseteq Tasks /\ woken \subseteq Tasks
    /\ arriving \subseteq [attempt : Nat, by : Receivers]
    /\ busy \subseteq [attempt : Nat, by : Receivers, left : Nat]
    /\ responses \subseteq [attempt : Nat, by : Receivers, ok : BOOLEAN]
    /\ future \in [Tasks -> Future]

\* DesServiceBuilder::build: the server, the router and the handle.
Init ==
    /\ current_load = 0 /\ pending_responses = <<>> /\ wakers = {} /\ next_attempt_id = 1
    /\ arriving = {} /\ busy = {} /\ responses = {} /\ channel = <<>>
    /\ future = [t \in Tasks |-> [phase |-> "idle", left |-> 0, call |-> 0, retries |-> 0,
                                  attempt |-> 0, answer |-> <<t, 0>>, outcome |-> "none"]]
    /\ woken = {}

With(f, x, y) == [z \in DOMAIN f \cup {x} |-> IF z = x THEN y ELSE f[z]]
Without(f, x) == Restrict(f, DOMAIN f \ {x})
Receiver(t) == <<t, future[t].call>>

has_capacity == current_load < Capacity

\* poll_ready of the three layers: that of DesService.
PollReady(t) ==
    /\ future[t].phase \in {"idle", "waiting"}
    /\ future' = [future EXCEPT ![t].phase = IF has_capacity THEN "ready" ELSE "waiting"]
    /\ wakers' = IF has_capacity THEN wakers ELSE wakers \cup {t}
    /\ woken' = woken \ {t}
    /\ UNCHANGED <<current_load, pending_responses, next_attempt_id, arriving, busy, responses, channel>>

\* Mutant: an attempt takes the id of its request.
AttemptOfRequest(t) == IF future[t].call = 0 THEN next_attempt_id ELSE future[t].attempt

\* create_request_attempt: a new id for every attempt.
AttemptId(t) == next_attempt_id

\* schedule_request: the load is counted, the channel stored, and the request
\* scheduled for this instant.  There is no check of the capacity here.
ScheduleRequest(t, attempt) ==
    /\ current_load' = current_load + 1
    /\ next_attempt_id' = next_attempt_id + 1
    /\ pending_responses' = With(pending_responses, attempt, <<t, future[t].call + 1>>)
    /\ arriving' = arriving \cup {[attempt |-> attempt, by |-> <<t, future[t].call + 1>>]}
    /\ UNCHANGED <<wakers, busy, responses>>

\* call of the timeout around the service: the timeout starts.
CallService(t) ==
    /\ ScheduleRequest(t, AttemptId(t))
    /\ future' = [future EXCEPT ![t].phase = "calling", ![t].left = Timeout, ![t].call = @ + 1,
                             ![t].attempt = AttemptId(t)]
    /\ UNCHANGED <<channel, woken>>

\* DesRetry::call, after poll_ready or without.
Call(t) == future[t].phase \in {"idle", "ready"} /\ CallService(t)

\* ServerEvent::ProcessRequest, see Server: a thread takes it or it is rejected.
ProcessRequest(a) ==
    /\ a \in arriving
    /\ arriving' = arriving \ {a}
    /\ \/ /\ Cardinality(busy) < Capacity
          /\ \E time \in ServiceTimes :
                busy' = busy \cup {[attempt |-> a.attempt, by |-> a.by, left |-> time]}
          /\ UNCHANGED responses
       \/ /\ Cardinality(busy) = Capacity
          /\ responses' = responses \cup {[attempt |-> a.attempt, by |-> a.by, ok |-> FALSE]}
          /\ UNCHANGED busy
    /\ UNCHANGED <<current_load, pending_responses, wakers, next_attempt_id, channel, future, woken>>

\* A thread of the server is done.
FinishWork(b) ==
    /\ b.left = 0
    /\ busy' = busy \ {b}
    /\ responses' = responses \cup {[attempt |-> b.attempt, by |-> b.by, ok |-> TRUE]}
    /\ UNCHANGED <<current_load, pending_responses, wakers, next_attempt_id, arriving, channel, future, woken>>

\* Whether the receiver of the channel of attempt a is still there.
Awaited(a) ==
    /\ a \in DOMAIN pending_responses
    /\ \E t \in Tasks : future[t].phase = "calling" /\ pending_responses[a] = Receiver(t)

\* ResponseRouter: the load is counted down, whoever waits for the response,
\* the response goes to the channel of its attempt, and every task that waits
\* in poll_ready is woken.  A channel whose receiver is gone takes nothing.
Route(r) ==
    /\ responses' = responses \ {r}
    /\ current_load' = current_load - 1
    /\ pending_responses' = Without(pending_responses, r.attempt)
    /\ channel' = IF Awaited(r.attempt) THEN With(channel, pending_responses[r.attempt], r) ELSE channel
    /\ woken' = woken \cup wakers /\ wakers' = {}
    /\ UNCHANGED <<next_attempt_id, arriving, busy, future>>

\* The future of the service returns: response_to_http makes a rejection a
\* response like any other, so the retry ends with it.
PollAnswered(t) ==
    /\ future[t].phase = "calling" /\ Receiver(t) \in DOMAIN channel
    /\ LET r == channel[Receiver(t)] IN
       future' = [future EXCEPT ![t].phase = "done", ![t].answer = r.by,
                                ![t].outcome = IF r.ok THEN "ok" ELSE "rejected"]
    /\ channel' = Without(channel, Receiver(t))
    /\ UNCHANGED <<current_load, pending_responses, wakers, next_attempt_id, arriving, busy, responses, woken>>

\* The timeout is over when the service has not answered: its future is dropped,
\* and DesRetryPolicy grants a retry while it has some left.
PollElapsed(t) ==
    /\ future[t].phase = "calling" /\ Receiver(t) \notin DOMAIN channel /\ future[t].left = 0
    /\ LET f == future[t] IN
       future' = [future EXCEPT ![t] =
                    IF f.retries < MaxRetries
                    THEN [f EXCEPT !.phase = "sleeping", !.left = RetryDelay, !.retries = f.retries + 1]
                    ELSE [f EXCEPT !.phase = "done", !.outcome = "timeout"]]
    /\ UNCHANGED <<service, woken>>

\* The sleep before a retry is over: the service is called again, without
\* poll_ready.
PollSlept(t) == future[t].phase = "sleeping" /\ future[t].left = 0 /\ CallService(t)

\* The caller drops the request.
DropCall(t) ==
    /\ future[t].phase \in {"waiting", "calling", "sleeping"}
    /\ future' = [future EXCEPT ![t].phase = "done", ![t].outcome = "dropped"]
    /\ channel' = Without(channel, Receiver(t))
    /\ UNCHANGED <<current_load, pending_responses, wakers, next_attempt_id, arriving, busy, responses, woken>>

\* Mutant: the sleep before a retry is made and not polled, so no waker is kept.
TimedWhileCalling(t) == future[t].phase = "calling"

\* A future that has a timer, and whether it is to be polled at this instant.
Timed(t) == future[t].phase \in {"calling", "sleeping"}
DueNow(t) == Timed(t) /\ (future[t].left = 0 \/ Receiver(t) \in DOMAIN channel)

Tick ==
    /\ arriving = {} /\ responses = {} /\ \A b \in busy : b.left > 0
    /\ \A t \in Tasks : ~DueNow(t) /\ ~(t \in woken /\ future[t].phase = "waiting")
    /\ busy # {} \/ \E t \in Tasks : Timed(t)
    /\ busy' = {[b EXCEPT !.left = @ - 1] : b \in busy}
    /\ future' = [t \in Tasks |-> IF Timed(t) THEN [future[t] EXCEPT !.left = @ - 1] ELSE future[t]]
    /\ UNCHANGED <<current_load, pending_responses, wakers, next_attempt_id, arriving, responses, channel, woken>>

Poll(t) == PollAnswered(t) \/ PollElapsed(t) \/ PollSlept(t)

Events == \/ \E a \in arriving : ProcessRequest(a)
          \/ \E b \in busy : FinishWork(b)
          \/ \E r \in responses : Route(r)

Next ==
    \/ \E t \in Tasks : PollReady(t) \/ Call(t) \/ Poll(t) \/ DropCall(t)
    \/ Events
    \/ Tick

Spec == Init /\ [][Next]_vars

-----------------------------------------------------------------------------
\* current_load counts exactly the attempts that the router has not seen the
\* response of, each of them in one place on its way, however many futures were
\* dropped or timed out in the meantime; so the load goes back to zero.
LoadExact ==
    /\ current_load = Cardinality(DOMAIN pending_responses)
    /\ DOMAIN pending_responses = {a.attempt : a \in arriving} \cup {b.attempt : b \in busy} \cup {r.attempt : r \in responses}
    /\ current_load = Cardinality(arriving) + Cardinality(busy) + Cardinality(responses)
    /\ Cardinality(busy) <= Capacity

\* A response that a request ends with is the response to its last attempt: the
\* late answer to an attempt that timed out never passes for that of a retry.
AnswerIsOwn ==
    \A t \in Tasks : future[t].outcome \in {"ok", "rejected"} => future[t].answer = Receiver(t)

\* A task sleeps in poll_ready only while the service is full, and the next
\* response wakes it.
ServiceWakes ==
    \A t \in Tasks : future[t].phase = "waiting" /\ t \notin woken => ~has_capacity /\ t \in wakers

\* A request that was made ends, with its response or after its last retry.
CallsEnd == \A t \in Tasks : future[t].phase = "calling" ~> future[t].phase = "done"
=============================================================================
