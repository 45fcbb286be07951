--------------------------- MODULE CircuitBreaker ---------------------------
(***************************************************************************)
(* The circuit breaker layer of des-tower (circuit_breaker/mod.rs).        *)
(*                                                                         *)
(* The clones of a breaker share its state.  A task makes one call at a    *)
(* time; what the inner service answers, and whether it is ready, is a     *)
(* choice.  Each opening spawns a recovery task that sleeps for            *)
(* RecoveryTimeout ticks: time is kept as what is left of the sleeps.      *)
(***************************************************************************)
EXTENDS Integers, FiniteSets

CONSTANTS Tasks,
          FailureThreshold,
          RecoveryTimeout,
          MaxRecoveries     \* bound: recovery tasks asleep at a time

BreakerAssumption ==
    /\ IsFiniteSet(Tasks)
    /\ FailureThreshold \in Nat /\ RecoveryTimeout \in Nat
    /\ MaxRecoveries \in Nat

VARIABLES
    state,      \* CircuitBreakerState
    phase,      \* per task: "idle", "ready", "refused" or "calling"
    recoveries, \* recovery tasks: [id, left, generation]
    open_for    \* history: ticks since the breaker opened

vars == <<state, phase, recoveries, open_for>>

Closed(n) == [kind |-> "closed", failure_count |-> n, generation |-> 0]
Open(g) == [kind |-> "open", failure_count |-> 0, generation |-> g]
HalfOpen == [kind |-> "half_open", failure_count |-> 0, generation |-> 0]

TypeOK ==
    /\ \/ \E n \in Nat : state = Closed(n)
       \/ \E g \in Nat : state = Open(g)
       \/ state = HalfOpen
    /\ phase \in [Tasks -> {"idle", "ready", "refused", "calling"}]
    /\ recoveries \subseteq [id : 1 .. MaxRecoveries, left : 0 .. RecoveryTimeout, generation : Nat]
    /\ open_for \in 0 .. RecoveryTimeout

Init ==
    /\ state = Closed(0)
    /\ phase = [t \in Tasks |-> "idle"]
    /\ recoveries = {}
    /\ open_for = 0

should_allow_request == state.kind # "open"

Goes(t, p) == phase' = [phase EXCEPT ![t] = p]

\* poll_ready: Overloaded while the breaker is open, else what the inner service says.
PollReady(t) ==
    /\ phase[t] = "idle" /\ should_allow_request
    /\ Goes(t, "ready")
    /\ UNCHANGED <<state, recoveries, open_for>>

\* call looks again: the breaker may have opened since poll_ready.
Call(t) ==
    /\ phase[t] \in {"idle", "ready"}
    /\ Goes(t, IF should_allow_request THEN "calling" ELSE "refused")
    /\ UNCHANGED <<state, recoveries, open_for>>

\* The future of a refused call returns its immediate error.
PollRefused(t) ==
    /\ phase[t] = "refused"
    /\ Goes(t, "idle")
    /\ UNCHANGED <<state, recoveries, open_for>>

\* The inner future returns a response: whatever the state, the breaker closes.
PollOk(t) ==
    /\ phase[t] = "calling"
    /\ Goes(t, "idle")
    /\ state' = Closed(0)
    /\ UNCHANGED <<recoveries, open_for>>

\* Mutant: a probe that fails reopens the breaker and spawns no recovery.
FailedProbeForgotten ==
    LET opens == state.kind = "half_open"
                   \/ (state.kind = "closed" /\ state.failure_count + 1 >= FailureThreshold)
    IN [state |-> IF opens THEN Open(1)
                  ELSE IF state.kind = "open" THEN state ELSE Closed(state.failure_count + 1),
        opens |-> opens,
        spawns |-> IF opens /\ state.kind = "closed" THEN {1} ELSE {}]

\* What an error makes of the state, and the generations of the recoveries it
\* spawns: the state is never open where it opens, so it is generation 1 each time.
OnError ==
    LET opens == state.kind = "half_open"
                   \/ (state.kind = "closed" /\ state.failure_count + 1 >= FailureThreshold)
    IN [state |-> IF opens THEN Open(1)
                  ELSE IF state.kind = "open" THEN state ELSE Closed(state.failure_count + 1),
        opens |-> opens,
        spawns |-> IF opens THEN {1} ELSE {}]

FreeId == CHOOSE i \in 1 .. MaxRecoveries : \A r \in recoveries : r.id # i

\* The inner future returns an error.
PollErr(t) ==
    /\ phase[t] = "calling"
    /\ Cardinality(recoveries) < MaxRecoveries
    /\ Goes(t, "idle")
    /\ state' = OnError.state
    /\ recoveries' = recoveries \cup {[id |-> FreeId, left |-> RecoveryTimeout, generation |-> g]
                                         : g \in OnError.spawns}
    /\ open_for' = IF OnError.opens THEN 0 ELSE open_for

\* The caller drops the future (a timeout further out): the breaker learns nothing.
DropCall(t) ==
    /\ phase[t] \in {"calling", "refused"}
    /\ Goes(t, "idle")
    /\ UNCHANGED <<state, recoveries, open_for>>

\* A recovery task wakes up.
Recover(r) ==
    /\ r.left = 0
    /\ recoveries' = recoveries \ {r}
    /\ state' = IF state.kind = "open" /\ state.generation = r.generation THEN HalfOpen ELSE state
    /\ UNCHANGED <<phase, open_for>>

\* Time goes on when no recovery is due.
Tick ==
    /\ recoveries # {} /\ \A r \in recoveries : r.left > 0
    /\ recoveries' = {[r EXCEPT !.left = @ - 1] : r \in recoveries}
    /\ open_for' = IF state.kind = "open" THEN open_for + 1 ELSE open_for
    /\ UNCHANGED <<state, phase>>

Next ==
    \/ \E t \in Tasks : \/ PollReady(t) \/ Call(t) \/ PollRefused(t)
                        \/ PollOk(t) \/ PollErr(t) \/ DropCall(t)
    \/ \E r \in recoveries : Recover(r)
    \/ Tick

Spec == Init /\ [][Next]_vars

-----------------------------------------------------------------------------
\* An open breaker always has a recovery task of its generation, due within
\* RecoveryTimeout of the opening, whatever calls of before the opening return
\* in the meantime: it is never open for good.
OpeningEnds ==
    state.kind = "open" =>
        \E r \in recoveries : r.generation = state.generation /\ r.left + open_for <= RecoveryTimeout

\* A breaker that opens stays open for RecoveryTimeout, unless a call that was
\* under way succeeds.
OpeningLasts ==
    [][state.kind = "open" /\ state'.kind = "half_open" => open_for >= RecoveryTimeout]_vars
=============================================================================
