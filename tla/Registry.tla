------------------------------ MODULE Registry ------------------------------
(***************************************************************************)
(* The endpoint registry (des-components/src/transport/                    *)
(* endpoint_registry.rs), for one service, and the tasks that wait for an  *)
(* endpoint of it (wait_for_endpoint of des-tower/src/tower/discovery, and *)
(* the same loop in des-axum/src/client.rs).                               *)
(*                                                                         *)
(* Changes are announced through a Notify whose permits are not tied to    *)
(* the tasks that were woken: see the module Notify.                       *)
(***************************************************************************)
EXTENDS Integers, FiniteSets, SequencesExt

CONSTANTS Servers,      \* the endpoints that may be registered
          Waiters,      \* the tasks
          MaxRemovals   \* bound: endpoints unregistered

RegistryAssumption == IsFiniteSet(Servers) /\ IsFiniteSet(Waiters) /\ MaxRemovals \in Nat

VARIABLES
    services,       \* the endpoints of the service, in order of registration
    round_robin,    \* round_robin_counters of the service
    permits,        \* of notify
    wakers,         \* of notify, oldest first: a task for every waker
    waiting,        \* tasks in changed().await
    registry_woken, \* tasks that were woken and not polled since
    picks,          \* history: the endpoints handed out since services changed
    removals        \* history: how many endpoints were unregistered

registry_vars == <<services, round_robin, permits, wakers, waiting, registry_woken, picks, removals>>

RegistryInit ==
    /\ services = <<>> /\ round_robin = 0
    /\ permits = 0 /\ wakers = <<>>
    /\ waiting = {} /\ registry_woken = {}
    /\ picks = <<>> /\ removals = 0

IsRegistered(s) == \E i \in 1 .. Len(services) : services[i] = s

\* Mutant: nobody is told of the change.
NotifyNobody == UNCHANGED <<permits, wakers, registry_woken>>

\* notify_waiters, after every change: a permit for every waker, those of tasks
\* that no longer wait included.
NotifyWaiters ==
    /\ permits' = permits + Len(wakers)
    /\ registry_woken' = registry_woken \cup ({wakers[i] : i \in 1 .. Len(wakers)} \cap waiting)
    /\ wakers' = <<>>

\* register_endpoint; an endpoint that is registered already is an error.
Register(s) ==
    /\ ~IsRegistered(s)
    /\ services' = Append(services, s)
    /\ picks' = <<>>
    /\ NotifyWaiters
    /\ UNCHANGED <<round_robin, waiting, removals>>

\* unregister_endpoint: retain drops the one place of s, and the counter goes with
\* the last endpoint.
Unregister(s) ==
    /\ IsRegistered(s) /\ removals < MaxRemovals
    /\ \E i \in 1 .. Len(services) : services[i] = s /\ services' = RemoveAt(services, i)
    /\ round_robin' = IF Len(services) = 1 THEN 0 ELSE round_robin
    /\ picks' = <<>>
    /\ removals' = removals + 1
    /\ NotifyWaiters
    /\ UNCHANGED waiting

\* get_endpoint_for_service: the endpoint whose turn it is.
Chosen == services[(round_robin % Len(services)) + 1]

\* ... and whose turn is next.
GetEndpoint ==
    /\ services # <<>>
    /\ round_robin' = (round_robin + 1) % Len(services)
    /\ picks' = Append(picks, Chosen)

\* A poll of wait_for_endpoint by t finds an endpoint.  A task that was waiting
\* needs a permit of the Notify first.
FoundEndpoint(t) ==
    /\ t \in waiting => permits > 0
    /\ GetEndpoint
    /\ permits' = IF t \in waiting THEN permits - 1 ELSE permits
    /\ waiting' = waiting \ {t}
    /\ registry_woken' = registry_woken \ {t}
    /\ UNCHANGED <<services, wakers, removals>>

\* ... or does not: there is none, and every turn of the loop takes a permit
\* while there are any; or t has no permit, and does not look.  The last turn
\* leaves a waker.
NoEndpoint(t) ==
    /\ \/ services = <<>> /\ permits' = 0
       \/ services # <<>> /\ t \in waiting /\ permits = 0 /\ UNCHANGED permits
    /\ wakers' = Append(wakers, t)
    /\ registry_woken' = registry_woken \ {t}
    /\ UNCHANGED <<services, round_robin, picks, removals>>

StillWaiting(t) == NoEndpoint(t) /\ waiting' = waiting \cup {t}

\* The same poll, by a task whose time is over: by the timeout around the loop,
GiveUp(t) == NoEndpoint(t) /\ waiting' = waiting \ {t}

\* or by the check in the loop, after one more change.
GiveUpInLoop(t) ==
    /\ \/ permits > 0 /\ services = <<>> /\ permits' = permits - 1 /\ UNCHANGED wakers
       \/ permits = 0 /\ wakers' = Append(wakers, t) /\ UNCHANGED permits
    /\ waiting' = waiting \ {t}
    /\ registry_woken' = registry_woken \ {t}
    /\ UNCHANGED <<services, round_robin, picks, removals>>

\* The task is aborted: changed() is dropped, its wakers stay.
StopWaiting(t) ==
    /\ waiting' = waiting \ {t}
    /\ registry_woken' = registry_woken \ {t}
    /\ UNCHANGED <<services, round_robin, permits, wakers, picks, removals>>

-----------------------------------------------------------------------------
\* While the endpoints stay the same, each gets its turn before any gets
\* another, wherever the counter was when they changed.
TurnsRotate ==
    \A i, j \in 1 .. Len(picks) : i < j /\ j - i < Len(services) => picks[i] # picks[j]

\* No task sleeps beside an endpoint it waits for, as long as endpoints only
\* come: it has been woken, and finds a permit.
EndpointSeen ==
    removals = 0 /\ services # <<>> =>
        /\ waiting \subseteq registry_woken
        /\ Cardinality(waiting) <= permits

\* endpoint_registry.rs, discovery/mod.rs: endpoints are found, and in turn.
DiscoverySound == TurnsRotate /\ EndpointSeen

\* "Returns immediately if an endpoint exists ... Otherwise, waits for registry
\* change notifications" (discovery/mod.rs), also when endpoints come and go.
EndpointAlwaysSeen == services # <<>> => waiting \subseteq registry_woken
=============================================================================
