----------------------------- MODULE MCExplore ------------------------------
(***************************************************************************)
(* The parts of des-explore side by side: record and replay, the monitor,  *)
(* the policy search and the splitting methods.  They share no state: the  *)
(* initial state says which of them is in use, and the others stay as they *)
(* were made.                                                              *)
(***************************************************************************)
EXTENDS Integers, FiniteSets

CONSTANTS Nil, Values,                                                         \* Replay
          Queues, Lengths, Window, Warmup, Hold, Persist, RecoveryLimit, SpikeEnds,
          Counted, MaxEnd, MaxObservations,                                             \* Monitor
          BudgetPolicies, TrialsPerPolicy, HoldoutTrials, MaxFailureTraces,    \* PolicySearch
          Methods, Loads, Particles, BranchFactor, Horizon                     \* Splitting

VARIABLES
    using,
    run, program, cfg, control, pending, next_seq, clock, ready, events, done, decided, draws,
    next, error, result, base,
    mon, observations, sim_time, phase,
    stage, best_policy, best_successes, candidate, trial, successes, eval_keys, eval_failures,
    evaluations, failures, observed_keys, hits,
    method, level, particles, p, history, captured, next_level, stage_successes, example,
    finished, seen_terminal

replay == <<run, program, cfg, control, pending, next_seq, clock, ready, events, done, decided,
            draws, next, error, result, base>>
monitor == <<mon, observations, sim_time, phase>>
search == <<stage, best_policy, best_successes, candidate, trial, successes, eval_keys,
            eval_failures, evaluations, failures, observed_keys, hits>>
splitting == <<method, level, particles, p, history, captured, next_level, stage_successes,
               example, finished, seen_terminal>>

vars == <<using, replay, monitor, search, splitting>>

-----------------------------------------------------------------------------
(* The programs: two events at the same time, which may schedule others for the *)
(* same time, draw and wake tasks. *)

Does(drawing, then, tasks) == [draws |-> drawing, then |-> then, tasks |-> tasks]
Later(l, d) == [label |-> l, delay |-> d]
Program(a, b) ==
    [l \in {"start", "a", "b", "c"} |->
        CASE l = "start" -> Does(FALSE, <<Later("a", 0), Later("b", 0)>>, <<>>)
          [] l = "a" -> a
          [] l = "b" -> b
          [] l = "c" -> Does(FALSE, <<>>, <<>>)]

Drawing == Does(TRUE, <<Later("c", 1)>>, <<>>)

MCPrograms ==
    {Program(Drawing, Does(FALSE, <<Later("c", 1)>>, <<1, 2>>)),
     Program(Drawing, Does(FALSE, <<Later("c", 0), Later("c", 1)>>, <<1>>)),
     Program(Drawing, Does(TRUE, <<Later("c", 1)>>, <<2, 3>>))}

Policies == {Nil, [policy |-> "random", record |-> TRUE], [policy |-> "fifo", record |-> TRUE],
             [policy |-> "random", record |-> FALSE]}
Random == [policy |-> "random", record |-> TRUE]
Config(f, r, c, t) == [frontier |-> f, ready |-> r, concurrency |-> c, tokio |-> t]

MCConfigs ==
    {Config(f, r, c, TRUE) : f \in Policies, r \in {Nil, Random}, c \in BOOLEAN}
    \cup {Config(Random, Nil, c, FALSE) : c \in BOOLEAN}

MCKeys ==
    {[kind |-> "ready", time |-> 0, ordinal |-> 0, choice_set |-> {1, 2}],
     [kind |-> "frontier", time |-> 0, ordinal |-> 0, choice_set |-> {1, 2, 3}],
     [kind |-> "ready", time |-> 1, ordinal |-> 1, choice_set |-> {1}]}

Again == INSTANCE Replay WITH Programs <- MCPrograms, Configs <- MCConfigs
Watched == INSTANCE Monitor
Search == INSTANCE PolicySearch WITH Keys <- MCKeys
Split == INSTANCE Splitting WITH Levels <- <<1, 2>>

ASSUME ExploreAssumption ==
    /\ Again!ReplayAssumption
    /\ Watched!MonitorAssumption
    /\ Search!SearchAssumption
    /\ Split!SplittingAssumption

-----------------------------------------------------------------------------
Init ==
    /\ using \in {"replay", "monitor", "search", "splitting"}
    /\ Again!ReplayInit /\ Watched!MonitorInit /\ Search!SearchInit /\ Split!SplittingInit
    /\ using # "replay" => program = Program(Drawing, Does(FALSE, <<Later("c", 1)>>, <<1, 2>>))
                           /\ cfg = Config(Nil, Nil, FALSE, TRUE)
    /\ using # "splitting" => method = CHOOSE m \in Methods : TRUE

\* A step of part u: it is in use, and it alone changes.
On(u, Action) ==
    /\ using = u
    /\ Action
    /\ UNCHANGED using
    /\ u # "replay" => UNCHANGED replay
    /\ u # "monitor" => UNCHANGED monitor
    /\ u # "search" => UNCHANGED search
    /\ u # "splitting" => UNCHANGED splitting

\* A second run: a replay with or without the runtime, or one that is refused;
\* or one under the control of a trace that tells all.
SecondRun ==
    \E q \in MCPrograms :
        \/ \E c \in {Config(Nil, Nil, TRUE, TRUE), Config(Nil, Nil, FALSE, FALSE),
                     Config(Random, Nil, FALSE, TRUE)}, how \in {"full", "indexed", "bare"} :
               Again!RunReplayed(q, c, how)
        \/ /\ cfg = Config(Random, Random, FALSE, TRUE)
           /\ \/ \E how \in {"full", "indexed"} :
                     Again!RunControlled(q, Config(Random, Random, FALSE, TRUE), Again!Kinds, how)
              \/ Again!RunControlled(q, Config(Nil, Nil, FALSE, TRUE), {"frontier"}, "full")
              \/ Again!RunControlled(q, Config(Nil, Nil, FALSE, FALSE), Again!Kinds, "full")

Next ==
    \/ On("replay", Again!Step)
    \/ On("replay", Again!Poll)
    \/ On("replay", Again!Finish)
    \/ On("replay", SecondRun)
    \/ On("monitor", Watched!MonitorNext)
    \/ On("search", Search!SearchNext)
    \/ On("splitting", Split!SplittingNext)

Spec == Init /\ [][Next]_vars

-----------------------------------------------------------------------------
(* The properties of the parts, under the names they have in this run. *)

\* harness.rs, frontier.rs, ready_task.rs: a replay repeats the recorded run, and
\* notes the first choice at which it does not (Replay).
ReplayExact == Again!ReplayFaithful /\ Again!FirstDifferenceFound

\* schedule_explore.rs, policy.rs: a controlled run departs from the recorded one
\* at the replaced decision, and not before (Replay).
ControlExact == Again!ControlExact

\* monitor.rs: what the monitor reports is what was observed (Monitor).
MonitorExact == Watched!MonitorExact

\* policy_search.rs, splitting.rs, estimate.rs: the result of a search is backed
\* by the runs it made (PolicySearch, Splitting).
SearchSound == Search!SearchHonest /\ Split!SplittingSound

\* estimate.rs: an estimate is not zero where an example was found (Splitting).
ExampleIsCounted == Split!ExampleIsCounted
=============================================================================
