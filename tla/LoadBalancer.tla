---------------------------- MODULE LoadBalancer ----------------------------
(***************************************************************************)
(* The load balancer of des-tower (load_balancer/mod.rs).                  *)
(*                                                                         *)
(* Each handle (the balancer and its clones) has an index, a random number *)
(* generator and a choice of its own.  The generator is the position in a  *)
(* fixed stream of draws.  Readiness of the backends changes at any time.  *)
(***************************************************************************)
EXTENDS Integers, Sequences, FiniteSets

CONSTANTS Handles,
          First,        \* the handle that was built; the others are clones
          Backends,     \* their number, at least one
          Strategies,   \* "RoundRobin", "Random", "LeastConnections"
          Draws,        \* the draws of the seed, a sequence of backends 0 .. Backends - 1
          MaxCalls      \* bound: calls of a handle and of what it was cloned from

BalancerAssumption ==
    /\ IsFiniteSet(Handles) /\ First \in Handles
    /\ Backends \in Nat \ {0} /\ MaxCalls \in Nat
    /\ Strategies \subseteq {"RoundRobin", "Random", "LeastConnections"}
    /\ Draws \in Seq(0 .. Backends - 1) /\ MaxCalls < Len(Draws)

Backend == 0 .. Backends - 1
None == Backends

VARIABLES
    strategy,
    current_index,  \* per handle
    drawn,          \* per handle: draws consumed by its generator
    ready_index,    \* per handle: the backend poll_ready chose, or None
    made,           \* the handles there are
    status,         \* per handle: what its last poll_ready returned since its last call
    readiness,      \* per backend: "ready", "pending" or "failed"
    offered,        \* history, per handle: the backend whose readiness poll_ready reported, or None
    called,         \* history, per handle: the backend it called last, or None
    turns,          \* history, per handle: calls made, by it and by what it was cloned from
    steady          \* history: all backends were ready so far

history == <<offered, called, turns, steady>>
vars == <<strategy, current_index, drawn, ready_index, made, status, readiness, history>>

TypeOK ==
    /\ strategy \in Strategies
    /\ current_index \in [Handles -> Backend] /\ drawn \in [Handles -> 0 .. MaxCalls]
    /\ ready_index \in [Handles -> Backend \cup {None}]
    /\ made \subseteq Handles
    /\ status \in [Handles -> {"unknown", "ready", "pending", "failed"}]
    /\ readiness \in [Backend -> {"ready", "pending", "failed"}]
    /\ offered \in [Handles -> Backend \cup {None}]
    /\ called \in [Handles -> Backend \cup {None}]
    /\ turns \in [Handles -> Nat]
    /\ steady \in BOOLEAN

\* new, with_seed.
Init ==
    /\ strategy \in Strategies
    /\ current_index = [h \in Handles |-> 0]
    /\ drawn = [h \in Handles |-> 0]
    /\ ready_index = [h \in Handles |-> None]
    /\ made = {First}
    /\ status = [h \in Handles |-> "unknown"]
    /\ readiness = [b \in Backend |-> "ready"]
    /\ offered = [h \in Handles |-> None]
    /\ called = [h \in Handles |-> None]
    /\ turns = [h \in Handles |-> 0]
    /\ steady = TRUE

\* Clone: index and generator are copied, the choice is not.
Clone(h, c) ==
    /\ h \in made /\ c \notin made
    /\ made' = made \cup {c}
    /\ current_index' = [current_index EXCEPT ![c] = current_index[h]]
    /\ drawn' = [drawn EXCEPT ![c] = drawn[h]]
    /\ turns' = [turns EXCEPT ![c] = turns[h]]
    /\ UNCHANGED <<strategy, ready_index, status, readiness, offered, called, steady>>

\* peek_start_index: LeastConnections goes round robin, too; no connections are counted.
PeekStartIndex(h) ==
    IF strategy = "Random" THEN Draws[drawn[h] + 1] ELSE current_index[h]

\* The first backend from start on that is not pending, or None.
FirstNotPending(start) ==
    LET at(i) == (start + i) % Backends
        found == {i \in Backend : readiness[at(i)] # "pending"}
    IN  IF found = {} THEN None
        ELSE at(CHOOSE i \in found : \A j \in found : i <= j)

\* poll_ready: a backend that was chosen is asked again; the search starts anew
\* when it is pending.  A backend that fails makes the balancer fail.
PollReady(h) ==
    LET kept == ready_index[h] # None /\ readiness[ready_index[h]] # "pending"
        idx == IF kept THEN ready_index[h] ELSE FirstNotPending(PeekStartIndex(h))
    IN  /\ h \in made
        /\ status' = [status EXCEPT ![h] = IF idx = None THEN "pending" ELSE readiness[idx]]
        /\ ready_index' = [ready_index EXCEPT ![h] =
                              IF kept THEN idx
                              ELSE IF idx # None /\ readiness[idx] = "ready" THEN idx ELSE None]
        /\ offered' = [offered EXCEPT ![h] = IF idx # None /\ readiness[idx] = "ready" THEN idx ELSE None]
        /\ UNCHANGED <<strategy, current_index, drawn, made, readiness, called, turns, steady>>

\* commit_selected_index.
CommitSelectedIndex(h, idx) ==
    IF strategy = "Random"
    THEN drawn' = [drawn EXCEPT ![h] = @ + 1] /\ UNCHANGED current_index
    ELSE current_index' = [current_index EXCEPT ![h] = (idx + 1) % Backends] /\ UNCHANGED drawn

\* Mutant: the choice of poll_ready is forgotten.
SelectAnew(h) == PeekStartIndex(h)

\* select_service: the choice of poll_ready, or the strategy's when there is none.
SelectService(h) == IF ready_index[h] # None THEN ready_index[h] ELSE PeekStartIndex(h)

\* call, after poll_ready or without.
Call(h) ==
    LET idx == SelectService(h) IN
    /\ h \in made /\ status[h] \in {"ready", "unknown"} /\ turns[h] < MaxCalls
    /\ CommitSelectedIndex(h, idx)
    /\ ready_index' = [ready_index EXCEPT ![h] = None]
    /\ called' = [called EXCEPT ![h] = idx]
    /\ turns' = [turns EXCEPT ![h] = @ + 1]
    /\ status' = [status EXCEPT ![h] = "unknown"]
    /\ offered' = [offered EXCEPT ![h] = None]
    /\ UNCHANGED <<strategy, made, readiness, steady>>

\* A backend fills up, fails or recovers.
Shift(b, r) ==
    /\ readiness[b] # r
    /\ readiness' = [readiness EXCEPT ![b] = r]
    /\ steady' = FALSE
    /\ UNCHANGED <<strategy, current_index, drawn, ready_index, made, status, offered, called, turns>>

Next ==
    \/ \E h \in Handles : PollReady(h) \/ Call(h) \/ \E c \in Handles : Clone(h, c)
    \/ \E b \in Backend, r \in {"ready", "pending", "failed"} : Shift(b, r)

Spec == Init /\ [][Next]_vars

-----------------------------------------------------------------------------
\* The backend that round robin or the generator is due to pick after n calls.
Due(n) == IF strategy = "Random" THEN Draws[n + 1] ELSE n % Backends

\* A call goes to the backend whose readiness poll_ready reported, and as long
\* as all backends are ready, to the one that RoundRobin or Random is due to pick,
\* however often readiness was polled: polling consumes neither a turn nor a draw,
\* and a call consumes one.  Which backend is due under LeastConnections is left
\* open: its documentation promises the one with the fewest active connections,
\* which the code does not know.
CallsAsDue ==
    [][\A h \in made : turns'[h] # turns[h] =>
           /\ offered[h] # None => called'[h] = offered[h]
           /\ steady /\ strategy # "LeastConnections" => called'[h] = Due(turns[h])]_vars
=============================================================================
