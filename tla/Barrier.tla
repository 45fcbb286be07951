------------------------------- MODULE Barrier ------------------------------
(***************************************************************************)
(* The barrier of des-tokio (sync/barrier.rs).                             *)
(*                                                                         *)
(* wait() notes the generation when it is called and arrives when it is    *)
(* first polled.  The last to arrive of a generation releases it.  A task  *)
(* has one wait at a time.                                                 *)
(***************************************************************************)
EXTENDS Integers, Sequences, FiniteSets, SequencesExt

CONSTANTS Tasks,
          Parties,
          MaxGeneration     \* bound on the generations

BarrierAssumption ==
    /\ IsFiniteSet(Tasks)
    /\ Parties \in Nat \ {0} /\ MaxGeneration \in Nat

VARIABLES
    arrived, generation,
    waiters,    \* the tasks of the waiters
    wait,       \* per task: the Wait future it has, [made, generation, registered]
    woken,      \* tasks that were woken and not polled since
    arrivals,   \* history, per generation: the tasks that arrived and did not leave
    leader      \* history, per generation: the tasks that were told that they lead

vars == <<arrived, generation, waiters, wait, woken, arrivals, leader>>

Generations == 0 .. MaxGeneration
NoWait == [made |-> FALSE, generation |-> 0, registered |-> FALSE]

TypeOK ==
    /\ arrived \in 0 .. Parties /\ generation \in Generations
    /\ waiters \in Seq(Tasks) /\ woken \subseteq Tasks
    /\ wait \in [Tasks -> [made : BOOLEAN, generation : Generations, registered : BOOLEAN]]
    /\ \A f \in {arrivals, leader} : f \in [Generations -> SUBSET Tasks]

Init ==
    /\ arrived = 0 /\ generation = 0 /\ waiters = <<>>
    /\ wait = [t \in Tasks |-> NoWait]
    /\ woken = {}
    /\ arrivals = [g \in Generations |-> {}]
    /\ leader = arrivals

AddTo(f, g, t) == [f EXCEPT ![g] = @ \cup {t}]

\* The generation was released in the meantime: the wait returns.
Pass(t) ==
    /\ generation # wait[t].generation
    /\ wait' = [wait EXCEPT ![t] = NoWait]
    /\ woken' = woken \ {t}
    /\ UNCHANGED <<arrived, generation, waiters, arrivals, leader>>

\* The last to arrive releases the generation and wakes the others.
Release(t) ==
    /\ generation < MaxGeneration
    /\ arrived + 1 = Parties
    /\ generation' = generation + 1
    /\ arrived' = 0
    /\ waiters' = <<>>
    /\ woken' = (woken \cup ToSet(waiters)) \ {t}

\* A first poll in generation g.
Arrive(g, t) ==
    /\ arrivals' = AddTo(arrivals, g, t)
    /\ \/ /\ Release(t)
          /\ leader' = AddTo(leader, g, t)
          /\ wait' = [wait EXCEPT ![t] = NoWait]
       \/ /\ arrived + 1 # Parties
          /\ arrived' = arrived + 1
          /\ waiters' = Append(waiters, t)
          /\ wait' = [wait EXCEPT ![t] = [made |-> TRUE, generation |-> g, registered |-> TRUE]]
          /\ woken' = woken \ {t}
          /\ UNCHANGED <<generation, leader>>

\* wait() is called, and polled at once: wait().await.
Wait(t) == ~wait[t].made /\ Arrive(generation, t)

\* wait() is called; the future is polled later.
MakeWait(t) ==
    /\ ~wait[t].made
    /\ wait' = [wait EXCEPT ![t] = [made |-> TRUE, generation |-> generation, registered |-> FALSE]]
    /\ UNCHANGED <<arrived, generation, waiters, woken, arrivals, leader>>

\* The first poll of a wait that was made before.
FirstPoll(t) ==
    /\ wait[t].made /\ ~wait[t].registered
    /\ Pass(t) \/ (generation = wait[t].generation /\ Arrive(generation, t))

\* A poll of a registered wait; in the same generation it only renews the waker.
Repoll(t) == wait[t].registered /\ Pass(t)

\* The waiter leaves its generation.
Leave(t) == waiters' = Remove(waiters, t) /\ arrived' = arrived - 1

\* Mutant: a wait that never arrived leaves, too.
DropUnregistered(t) ==
    /\ wait[t].made
    /\ wait' = [wait EXCEPT ![t] = NoWait]
    /\ Leave(t)
    /\ arrivals' = [arrivals EXCEPT ![generation] = @ \ {t}]
    /\ UNCHANGED <<generation, woken, leader>>

\* Wait::drop.
DropWait(t) ==
    /\ wait[t].made
    /\ wait' = [wait EXCEPT ![t] = NoWait]
    /\ IF wait[t].registered /\ generation = wait[t].generation
       THEN Leave(t) /\ arrivals' = [arrivals EXCEPT ![generation] = @ \ {t}]
       ELSE UNCHANGED <<waiters, arrived, arrivals>>
    /\ UNCHANGED <<generation, woken, leader>>

Next == \E t \in Tasks : Wait(t) \/ MakeWait(t) \/ FirstPoll(t) \/ Repoll(t) \/ DropWait(t)

Spec == Init /\ [][Next]_vars

-----------------------------------------------------------------------------
\* A generation is released by exactly Parties tasks that were there together:
\* those that left before the release do not count.
ReleasedByParties ==
    \A g \in Generations :
        /\ g < generation => Cardinality(arrivals[g]) = Parties /\ Cardinality(leader[g]) = 1
        /\ g > generation => arrivals[g] = {}
        /\ g = generation => arrived = Cardinality(arrivals[g]) /\ arrived < Parties

\* Whoever waits in a released generation gets past the barrier or leaves.
ReleasedPass ==
    \A t \in Tasks : wait[t].registered /\ wait[t].generation # generation ~> ~wait[t].registered
=============================================================================
