---------------------------- MODULE ClientServer ----------------------------
(***************************************************************************)
(* Clients with timeouts and retries (des-components/src/simple_client.rs) *)
(* and the server they share.  They interact only through the agenda: an   *)
(* attempt, its timeout, its completion, its response and the retry of its *)
(* request are entries that race with each other.                          *)
(*                                                                         *)
(* The program schedules the SendRequest entries (examples and tests use   *)
(* a PeriodicTask or schedule them directly); Sends says which client each *)
(* of them is for, and any time of SendTimes may be chosen for it.         *)
(***************************************************************************)
EXTENDS Server, FiniteSetsExt

CONSTANT Nil    \* Option::None

-----------------------------------------------------------------------------
(* The retry policies (retry_policy.rs): what should_retry answers and how it *)
(* changes the policy.  A policy k is the record of its parameters; its state *)
(* p is                                                                       *)
(*   current   the retries asked for so far (current_attempt)                 *)
(*   tokens    current_tokens of a token bucket                               *)
(*   refilled  last_refill of a token bucket, or Nil                          *)
(* A token bucket refills one token per `period` units of time (the inverse   *)
(* of refill_rate).  SuccessBasedRetryPolicy chooses its delay by the         *)
(* outcomes that record_outcome reports; no component reports any, so the     *)
(* delay it starts with is `delay` for good.                                  *)

PolicyParameters ==
    [kind : {"none", "fixed", "exponential", "token", "success"},
     max_attempts : Nat, delay : Time, max_delay : Time, jitter : BOOLEAN,
     max_tokens : Nat, period : Nat \ {0}]

ASSUME PolicyAssumption == Nil \notin Int

PolicyState == [current : Nat, tokens : Nat, refilled : Time \cup {Nil}]

\* The policy as the program constructed it; reset restores current only.
NewPolicy(k) == [current |-> 0, tokens |-> k.max_tokens, refilled |-> Nil]

Least(x, y) == IF x <= y THEN x ELSE y

\* ExponentialBackoffPolicy::calculate_delay for the n-th retry: doubled every
\* time (the cast to u64 saturates), capped at max_delay, and then 25% less to
\* 25% more with jitter.
BackoffDelays(k, n) ==
    LET d == Least(MulTime(k.delay, 2 ^ (n - 1)), k.max_delay) IN
    IF k.jitter THEN (3 * d) \div 4 .. (5 * d) \div 4 ELSE {d}

\* refill_tokens at time t; last_refill moves only when a token was added.
Refilled(k, p, t) ==
    IF p.refilled = Nil THEN [p EXCEPT !.refilled = t]
    ELSE LET added == SubTime(t, p.refilled) \div k.period IN
         IF added = 0 THEN p
         ELSE [p EXCEPT !.tokens = Least(@ + added, k.max_tokens), !.refilled = t]

\* try_consume_token: a token pays for a retry at once, otherwise the delay is due.
TokenRetry(k, p, t) ==
    LET q == Refilled(k, p, t) IN
    IF q.tokens > 0 THEN [policy |-> [q EXCEPT !.tokens = @ - 1], delays |-> {0}]
                    ELSE [policy |-> q, delays |-> {k.delay}]

\* Mutant: the limit is compared before the increment.
OneTooMany(k, n) == n <= k.max_attempts + 1

\* current_attempt > max_attempts ends the retries.
WithinBudget(k, n) == n <= k.max_attempts

\* should_retry for a failed attempt that started at time t: the new state of
\* the policy and the possible delays, none when there is no retry.
ShouldRetry(k, p, t) ==
    LET q == [p EXCEPT !.current = @ + 1] IN
    IF k.kind = "none" THEN [policy |-> p, delays |-> {}]
    ELSE IF ~WithinBudget(k, q.current) THEN [policy |-> q, delays |-> {}]
    ELSE IF k.kind = "token" THEN TokenRetry(k, q, t)
    ELSE IF k.kind = "exponential" THEN [policy |-> q, delays |-> BackoffDelays(k, q.current)]
    ELSE [policy |-> q, delays |-> {k.delay}]

-----------------------------------------------------------------------------
(* The clients. *)

CONSTANTS Clients,
          Sends,        \* the client of every SendRequest that is scheduled
          SendTimes,    \* when they may be scheduled
          Timeout,      \* request_timeout
          Policy        \* per client: the parameters of its retry policy

ASSUME ClientAssumption ==
    /\ IsFiniteSet(Clients)
    /\ Sends \in Seq(Clients)
    /\ SendTimes \in SUBSET Time /\ SendTimes # {}
    /\ Timeout \in Time
    /\ Policy \in [Clients -> PolicyParameters]

VARIABLES
    next_request_id,    \* per client, as are the variables below
    next_attempt_id,
    active_requests,    \* request id -> [attempt, policy], or Nil
    succeeded,          \* the responses_success counter
    failed,             \* the requests_failed_permanently counter
    scheduled           \* the retries_scheduled counter

client_vars == <<next_request_id, next_attempt_id, active_requests, succeeded, failed, scheduled>>

vars == <<agenda_vars, server_vars, client_vars>>

\* The events of a client; ResponseReceived is in Server.
SendRequest(c) == [kind |-> "SendRequest", client |-> c]
RequestTimeout(a) == [kind |-> "RequestTimeout", attempt |-> a]
RetryRequest(c, r) == [kind |-> "RetryRequest", client |-> c, request |-> r]

\* A client can send no more requests than there are SendRequest entries.
RequestIds == 1 .. Len(Sends)

Attempts ==
    [id : Nat, request : RequestIds, client : Clients, number : Nat, started_at : Time]

\* None is not Some.
ASSUME NoneAssumption == Nil \notin [attempt : Attempts, policy : PolicyState]

Init ==
    /\ \E t \in [1 .. Len(Sends) -> SendTimes] :
           AgendaInit([i \in 1 .. Len(Sends) |-> After(t[i], SendRequest(Sends[i]))])
    /\ ServerInit
    /\ next_request_id = [c \in Clients |-> 1]
    /\ next_attempt_id = [c \in Clients |-> 1]
    /\ active_requests = [c \in Clients |-> [r \in RequestIds |-> Nil]]
    /\ succeeded = [c \in Clients |-> 0]
    /\ failed = [c \in Clients |-> 0]
    /\ scheduled = [c \in Clients |-> 0]

\* The attempt that send_attempt makes.
NewAttempt(c, r, n, t) ==
    [id |-> next_attempt_id[c], request |-> r, client |-> c, number |-> n, started_at |-> t]

\* What send_attempt schedules: the timeout, then the attempt itself.
PostAttempt(a) == <<After(Timeout, RequestTimeout(a)), After(0, ProcessRequest(a))>>

\* Request r of client c is active with attempt a and policy state p.
Activate(c, r, a, p) ==
    active_requests' = [active_requests EXCEPT ![c][r] = [attempt |-> a, policy |-> p]]

\* active_requests.remove.
Deactivate(c, r) == active_requests' = [active_requests EXCEPT ![c][r] = Nil]

IsActive(c, r) == active_requests[c][r] # Nil

Count(counter, c) == counter' = [counter EXCEPT ![c] = @ + 1]

\* ClientEvent::SendRequest.  max_requests is not consulted.
HandleSend(e) ==
    LET c == e.ev.client
        r == next_request_id[c]
        a == NewAttempt(c, r, 1, e.time)
    IN  /\ e.ev.kind = "SendRequest"
        /\ Handled(e, PostAttempt(a))
        /\ Count(next_request_id, c)
        /\ Count(next_attempt_id, c)
        /\ Activate(c, r, a, NewPolicy(Policy[c]))
        /\ UNCHANGED <<server_vars, succeeded, failed, scheduled>>

\* A failed attempt a of the active request r: another attempt after a delay of
\* the policy, or the request has failed for good.
RetryOrFail(e, c, r) ==
    LET entry == active_requests[c][r]
        verdict == ShouldRetry(Policy[c], entry.policy, entry.attempt.started_at)
    IN  \/ /\ \E d \in verdict.delays : Handled(e, <<After(d, RetryRequest(c, r))>>)
           /\ Activate(c, r, entry.attempt, verdict.policy)
           /\ Count(scheduled, c)
           /\ UNCHANGED failed
        \/ /\ verdict.delays = {}
           /\ Handled(e, <<>>)
           /\ Deactivate(c, r)
           /\ Count(failed, c)
           /\ UNCHANGED scheduled

\* The event finds nothing to do.
Ignore(e) == Handled(e, <<>>) /\ UNCHANGED client_vars

\* handle_response: the response is for the request, whichever of its attempts
\* it answers.
HandleResponse(e) ==
    LET c == e.ev.attempt.client
        r == e.ev.attempt.request
    IN  /\ e.ev.kind = "ResponseReceived"
        /\ UNCHANGED server_vars
        /\ \/ ~IsActive(c, r) /\ Ignore(e)
           \/ /\ IsActive(c, r) /\ e.ev.ok
              /\ Handled(e, <<>>)
              /\ Deactivate(c, r)
              /\ Count(succeeded, c)
              /\ UNCHANGED <<next_request_id, next_attempt_id, failed, scheduled>>
           \/ /\ IsActive(c, r) /\ ~e.ev.ok
              /\ RetryOrFail(e, c, r)
              /\ UNCHANGED <<next_request_id, next_attempt_id, succeeded>>

\* handle_timeout acts only on the current attempt of an active request.
OfCurrentAttempt(c, r, a) == IsActive(c, r) /\ active_requests[c][r].attempt.id = a.id

\* handle_timeout.
HandleTimeout(e) ==
    LET a == e.ev.attempt IN
    /\ e.ev.kind = "RequestTimeout"
    /\ UNCHANGED server_vars
    /\ \/ ~OfCurrentAttempt(a.client, a.request, a) /\ Ignore(e)
       \/ /\ OfCurrentAttempt(a.client, a.request, a)
          /\ RetryOrFail(e, a.client, a.request)
          /\ UNCHANGED <<next_request_id, next_attempt_id, succeeded>>

\* Mutant: the request is no longer active when its retry is due.
ForgetRetried(e, c, r) == Handled(e, <<>>) /\ Deactivate(c, r) /\ UNCHANGED next_attempt_id

\* The retry of an active request: a new attempt with the next number.
Resend(e, c, r) ==
    LET entry == active_requests[c][r]
        a == NewAttempt(c, r, entry.attempt.number + 1, e.time)
    IN  /\ Handled(e, PostAttempt(a))
        /\ Count(next_attempt_id, c)
        /\ Activate(c, r, a, entry.policy)

\* handle_retry.
HandleRetry(e) ==
    LET c == e.ev.client
        r == e.ev.request
    IN  /\ e.ev.kind = "RetryRequest"
        /\ UNCHANGED server_vars
        /\ \/ ~IsActive(c, r) /\ Ignore(e)
           \/ /\ IsActive(c, r)
              /\ Resend(e, c, r)
              /\ UNCHANGED <<next_request_id, succeeded, failed, scheduled>>

\* Component::process_event of the client.
ClientStep(e) == HandleSend(e) \/ HandleResponse(e) \/ HandleTimeout(e) \/ HandleRetry(e)

\* One step of the simulation: the scheduler pops an entry, its component
\* handles it.  The simulation ends when the agenda is empty.
Next == \E e \in Choice : ClientStep(e) \/ (ServerStep(e) /\ UNCHANGED client_vars)

Spec == Init /\ [][Next]_vars

\* Simulation::run steps as long as there are entries.
FairSpec == Spec /\ WF_vars(Next)

-----------------------------------------------------------------------------
EventTypes ==
    [kind : {"SendRequest"}, client : Clients]
    \cup [kind : {"RetryRequest"}, client : Clients, request : RequestIds]
    \cup [kind : {"RequestTimeout", "ProcessRequest", "RequestCompleted"}, attempt : Attempts]
    \cup [kind : {"ResponseReceived"}, attempt : Attempts, ok : BOOLEAN]
    \cup {ProcessQueuedRequests}

TypeOK ==
    /\ now \in Time
    /\ events \subseteq [seq : Nat, time : Time, ev : EventTypes]
    /\ next_event_id \in Nat
    /\ active_threads \in Nat
    /\ queue \in Seq(Attempts)
    /\ requests_processed \in Nat /\ requests_rejected \in Nat /\ requests_queued \in Nat
    /\ next_request_id \in [Clients -> Nat] /\ next_attempt_id \in [Clients -> Nat]
    /\ active_requests \in
           [Clients -> [RequestIds -> [attempt : Attempts, policy : PolicyState] \cup {Nil}]]
    /\ succeeded \in [Clients -> Nat] /\ failed \in [Clients -> Nat] /\ scheduled \in [Clients -> Nat]

\* The requests of c that wait for an answer, and the entries of one kind.
Waiting(c) == {r \in RequestIds : IsActive(c, r)}
OfKind(k) == {e \in events : e.ev.kind = k}
Retries(c, r) == EntriesFor(RetryRequest(c, r))

\* Every attempt is in one place: on its way to the server, in the queue, in
\* service, or answered.  The counters of the server, those of the clients and
\* the agenda agree, whatever order the handlers ran in.
AttemptsConserved ==
    SumFunctionOnSet([c \in Clients |-> next_attempt_id[c] - 1], Clients) =
        Cardinality(OfKind("ProcessRequest")) + Len(queue) + active_threads
            + requests_processed + requests_rejected

\* Every request that was sent has succeeded, has failed for good, or is still
\* active: none is counted twice when a timeout races with a late response,
\* and none is dropped.
RequestsAccounted ==
    \A c \in Clients :
        next_request_id[c] - 1 = succeeded[c] + failed[c] + Cardinality(Waiting(c))

\* The attempts of a request and the retries that are due never exceed what the
\* policy granted, also when a failure response and a timeout of one attempt
\* both ask for a retry.
RetriesAccounted ==
    \A c \in Clients : \A r \in Waiting(c) :
        LET entry == active_requests[c][r] IN
        /\ entry.attempt.number + Cardinality(Retries(c, r)) = 1 + entry.policy.current
        /\ entry.policy.current <= Policy[c].max_attempts

\* server.rs, queue.rs: threads and queue agree with the agenda (Server).
ServerExact == ThreadsExact /\ QueueNotStranded

\* simple_client.rs, retry_policy.rs: requests and retries are accounted for.
ClientExact == RequestsAccounted /\ RetriesAccounted

\* Every request the program scheduled comes to an end, with success or for
\* good without, as the simulation runs on.
RequestsSettle ==
    <>[](/\ events = {}
         /\ SumFunctionOnSet([c \in Clients |-> succeeded[c] + failed[c]], Clients) = Len(Sends))

-----------------------------------------------------------------------------
(* The parameters of the instance that TLC checks. *)

\* One client backs off, twice at most, with jitter; the other has a token bucket.
MCPolicy ==
    [c \in Clients |->
        [kind |-> IF c = "c1" THEN "exponential" ELSE "token",
         max_attempts |-> 2, delay |-> 2, max_delay |-> 3, jitter |-> TRUE,
         max_tokens |-> 1, period |-> 2]]

MCSends == <<"c1", "c2", "c1">>
=============================================================================
