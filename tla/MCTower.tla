------------------------------- MODULE MCTower ------------------------------
(***************************************************************************)
(* The middleware of des-tower side by side: a request through retry,      *)
(* timeout and service, the circuit breaker, the concurrency limits, the   *)
(* rate limit and the load balancer.  They share no state: the initial     *)
(* state says which of them is in use, and the others stay as they were    *)
(* made.                                                                   *)
(***************************************************************************)
EXTENDS Integers, FiniteSets

CONSTANTS Tasks,
          Callers, Capacity, ServiceTimes, Timeout, RetryDelay, MaxRetries,           \* TowerCall
          FailureThreshold, RecoveryTimeout, MaxRecoveries,                 \* CircuitBreaker
          Services, Max, GlobalMax, MaxDropped,                             \* TowerLimits
          SharesPerToken, Rate, Burst, CallsOutside, MaxTime,               \* RateLimit
          Handles, First, Backends, Strategies, MaxCalls                    \* LoadBalancer

VARIABLES
    using,
    current_load, pending_responses, wakers, next_attempt_id, arriving, busy, responses,
    future, channel, service_woken,
    state, breaker_phase, recoveries, open_for,
    current, global, waiters, global_waiters, permit, global_permit, limit_phase, limit_woken,
    dropped,
    now, tokens, last_refill, admitted,
    strategy, current_index, drawn, ready_index, made, status, readiness, offered, called, turns,
    steady

call == <<current_load, pending_responses, wakers, next_attempt_id, arriving, busy, responses,
          future, channel, service_woken>>
breaker == <<state, breaker_phase, recoveries, open_for>>
limits == <<current, global, waiters, global_waiters, permit, global_permit, limit_phase,
            limit_woken, dropped>>
rate == <<now, tokens, last_refill, admitted>>
balancer == <<strategy, current_index, drawn, ready_index, made, status, readiness, offered,
              called, turns, steady>>

vars == <<using, call, breaker, limits, rate, balancer>>

\* One task has a clone of a service of its own, the others share one.
ServiceOf == [t \in Tasks |->
                 LET own == CHOOSE x \in Tasks : TRUE
                     s == CHOOSE x \in Services : TRUE
                 IN  IF t = own THEN s ELSE CHOOSE x \in Services : x # s \/ Services = {s}]

\* A stream of draws that prefers no backend and repeats itself.
Draws == [i \in 1 .. MaxCalls + 1 |-> ((i * i) \div 2) % Backends]

Request == INSTANCE TowerCall WITH Tasks <- Callers, woken <- service_woken
Breaker == INSTANCE CircuitBreaker WITH phase <- breaker_phase
Limits == INSTANCE TowerLimits WITH phase <- limit_phase, woken <- limit_woken
Bucket == INSTANCE RateLimit
Balancer == INSTANCE LoadBalancer

ASSUME TowerAssumption ==
    /\ Request!CallAssumption
    /\ Breaker!BreakerAssumption
    /\ Limits!LimitsAssumption
    /\ Bucket!RateAssumption
    /\ Balancer!BalancerAssumption

Init ==
    /\ using \in {"call", "breaker", "limits", "rate", "balancer"}
    /\ Request!Init /\ Breaker!Init /\ Limits!Init /\ Bucket!Init /\ Balancer!Init
    /\ using # "balancer" => strategy = CHOOSE s \in Strategies : TRUE

\* A step of p: the middleware in use is p, and it alone changes.
On(p, Action) ==
    /\ using = p
    /\ Action
    /\ UNCHANGED using
    /\ p # "call" => UNCHANGED call
    /\ p # "breaker" => UNCHANGED breaker
    /\ p # "limits" => UNCHANGED limits
    /\ p # "rate" => UNCHANGED rate
    /\ p # "balancer" => UNCHANGED balancer

CallStep(t) ==
    \/ On("call", Request!PollReady(t))
    \/ On("call", Request!Call(t))
    \/ On("call", Request!Poll(t))
    \/ On("call", Request!DropCall(t))

BreakerStep(t) ==
    \/ On("breaker", Breaker!PollReady(t))
    \/ On("breaker", Breaker!Call(t))
    \/ On("breaker", Breaker!PollRefused(t))
    \/ On("breaker", Breaker!PollOk(t))
    \/ On("breaker", Breaker!PollErr(t))
    \/ On("breaker", Breaker!DropCall(t))

LimitsStep(t) ==
    \/ On("limits", Limits!PollReady(t))
    \/ On("limits", Limits!Call(t))
    \/ On("limits", Limits!PollFinished(t))
    \/ On("limits", Limits!DropFuture(t))
    \/ On("limits", Limits!DropClone(t))

BalancerStep(h) ==
    \/ On("balancer", Balancer!PollReady(h))
    \/ On("balancer", Balancer!Call(h))
    \/ On("balancer", \E c \in Handles : Balancer!Clone(h, c))

Next ==
    \/ \E t \in Callers : CallStep(t)
    \/ \E t \in Tasks : BreakerStep(t) \/ LimitsStep(t)
    \/ On("call", Request!Events)
    \/ On("call", Request!Tick)
    \/ On("breaker", \E r \in recoveries : Breaker!Recover(r))
    \/ On("breaker", Breaker!Tick)
    \/ On("rate", Bucket!Tick)
    \/ On("rate", \E inside \in BOOLEAN : Bucket!Call(inside))
    \/ \E h \in Handles : BalancerStep(h)
    \/ On("balancer", \E b \in Balancer!Backend, r \in {"ready", "pending", "failed"} :
                          Balancer!Shift(b, r))

\* The simulation handles its events, polls what is due and lets time pass.
Spec ==
    /\ Init /\ [][Next]_vars
    /\ WF_vars(On("call", Request!Events))
    /\ WF_vars(On("call", Request!Tick))
    /\ \A t \in Callers : /\ WF_vars(On("call", Request!Poll(t)))
                          /\ WF_vars(t \in service_woken /\ On("call", Request!PollReady(t)))

-----------------------------------------------------------------------------
(* The properties of the middleware, under the names they have in this run. *)

\* service/mod.rs: the load is what the server has not answered (TowerCall);
\* limit/concurrency, limit/global_concurrency: slots are neither lost nor made
\* up by the futures (TowerLimits).
LoadExact == Request!LoadExact /\ Limits!SlotsExact

\* service/mod.rs, retry/mod.rs: no late answer passes for another (TowerCall).
AnswerIsOwn == Request!AnswerIsOwn

\* retry/mod.rs, timeout/mod.rs: every request ends (TowerCall).
CallsEnd == Request!CallsEnd

\* service/mod.rs and both limits: nobody sleeps in poll_ready beside free
\* capacity (TowerCall, TowerLimits); circuit_breaker/mod.rs: no opening is for
\* good (CircuitBreaker).
NothingStuck == Request!ServiceWakes /\ Limits!LimitWakes /\ Breaker!OpeningEnds

\* circuit_breaker/mod.rs: an opening lasts for the recovery timeout (CircuitBreaker).
OpeningLasts == Breaker!OpeningLasts

\* limit/rate/mod.rs: never more than the burst and the rate allow (RateLimit).
AdmittedWithinRate == Bucket!AdmittedWithinRate

\* load_balancer/mod.rs: calls go where they are due (LoadBalancer).
CallsAsDue == Balancer!CallsAsDue
=============================================================================
