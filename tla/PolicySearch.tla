---------------------------- MODULE PolicySearch ----------------------------
(***************************************************************************)
(* des-explore, policy_search.rs: search_policy climbs from the base       *)
(* schedule to one that makes a predicate likely.  A policy is a table of  *)
(* forced decisions; the base policy and its mutations are each evaluated  *)
(* by rollouts, and the best one once more by others.  A rollout is left   *)
(* open: it hits or not (a panic is a hit) and observes some decisions.    *)
(***************************************************************************)
EXTENDS Integers, Sequences, FiniteSets, FiniteSetsExt, SequencesExt

CONSTANTS Keys,             \* the DecisionKeys: [kind, time, ordinal, choice_set]
          BudgetPolicies, TrialsPerPolicy, HoldoutTrials, MaxFailureTraces

VARIABLES
    stage,          \* "baseline", "candidate", "holdout", "report"
    best_policy,    \* the table: a set of [key, chosen_id]
    best_successes, \* what the best objective value comes from
    candidate,      \* the policy under evaluation
    trial, successes, eval_keys, eval_failures,   \* eval_policy
    evaluations,    \* [policy, successes] of every policy tried
    failures,       \* the kept ones: [stage, policy_index, trial]
    observed_keys,
    hits            \* history: every failure, in order

search_vars == <<stage, best_policy, best_successes, candidate, trial, successes, eval_keys,
                 eval_failures, evaluations, failures, observed_keys, hits>>

SearchAssumption ==
    /\ TrialsPerPolicy \in Nat \ {0} /\ HoldoutTrials \in Nat \ {0}
    /\ BudgetPolicies \in Nat /\ MaxFailureTraces \in Nat

SearchInit ==
    /\ stage = "baseline"
    /\ best_policy = {} /\ candidate = {} /\ best_successes = 0
    /\ trial = 0 /\ successes = 0 /\ eval_keys = {} /\ eval_failures = <<>>
    /\ evaluations = <<>> /\ failures = <<>> /\ observed_keys = {} /\ hits = <<>>

\* The smaller of two.
AtMost(a, b) == IF a < b THEN a ELSE b

\* What is left of max_failure_traces.
Room == IF Len(failures) < MaxFailureTraces THEN MaxFailureTraces - Len(failures) ELSE 0

Failure == [stage |-> IF stage = "holdout" THEN "holdout" ELSE "search",
            policy_index |-> Len(evaluations), trial |-> trial]

Trials == IF stage = "holdout" THEN HoldoutTrials ELSE TrialsPerPolicy

\* One turn of eval_policy: a rollout.
Rollout ==
    /\ stage # "report" /\ trial < Trials
    /\ \E hit \in BOOLEAN, seen \in SUBSET Keys :
        /\ eval_keys' = eval_keys \cup seen
        /\ successes' = IF hit THEN successes + 1 ELSE successes
        /\ eval_failures' = IF hit /\ Len(eval_failures) < Room
                            THEN Append(eval_failures, Failure) ELSE eval_failures
        /\ hits' = IF hit THEN Append(hits, Failure) ELSE hits
    /\ trial' = trial + 1
    /\ UNCHANGED <<stage, best_policy, best_successes, candidate, evaluations, failures,
                   observed_keys>>

\* The keys that may be mutated: of those with a choice the earliest, ready tasks
\* before frontiers.
Mutable(keys) ==
    LET multi == {k \in keys : Cardinality(k.choice_set) > 1}
        earliest == {k \in multi : \A l \in multi : k.time <= l.time}
        tokio_ready == {k \in earliest : k.kind = "ready"}
    IN  IF tokio_ready # {} THEN tokio_ready ELSE earliest

\* What a table has for a key; the first of the choices if nothing.
CurrentId(table, k) ==
    LET set == {e \in table : e.key = k} IN
    IF set = {} THEN Min(k.choice_set) ELSE (CHOOSE e \in set : TRUE).chosen_id

\* mutate_one: the tables that differ in one decision.
Mutations(table, keys) ==
    UNION {{(table \ {e \in table : e.key = k}) \cup {[key |-> k, chosen_id |-> id]}
               : id \in k.choice_set \ {CurrentId(table, k)}} : k \in Mutable(keys)}

\* The next evaluation, or the last.
NextEvaluation(table, keys, n) ==
    \/ /\ n < BudgetPolicies
       /\ candidate' \in Mutations(table, keys)
       /\ stage' = "candidate"
    \/ /\ n = BudgetPolicies \/ Mutations(table, keys) = {}
       /\ candidate' = table
       /\ stage' = "holdout"

\* Mutant: as good is good enough.
BetterOrEqual(n) == n >= best_successes

\* Both objectives grow with the successes.
Better(n) == n > best_successes

\* The evaluation of a policy is over.
Evaluated ==
    /\ trial = Trials /\ stage \in {"baseline", "candidate"}
    /\ observed_keys' = observed_keys \cup eval_keys
    /\ failures' = failures \o eval_failures
    /\ evaluations' = Append(evaluations, [policy |-> candidate, successes |-> successes])
    /\ \/ /\ stage = "baseline" \/ Better(successes)
          /\ best_policy' = candidate /\ best_successes' = successes
       \/ /\ stage = "candidate" /\ ~Better(successes)
          /\ UNCHANGED <<best_policy, best_successes>>
    /\ NextEvaluation(best_policy', observed_keys', Len(evaluations))
    /\ trial' = 0 /\ successes' = 0 /\ eval_keys' = {} /\ eval_failures' = <<>>
    /\ UNCHANGED hits

\* ... and so is the last one: the report.
HoldoutEvaluated ==
    /\ trial = Trials /\ stage = "holdout"
    /\ failures' = failures \o eval_failures
    /\ stage' = "report"
    /\ UNCHANGED <<best_policy, best_successes, candidate, trial, successes, eval_keys,
                   eval_failures, evaluations, observed_keys, hits>>

SearchNext == Rollout \/ Evaluated \/ HoldoutEvaluated

-----------------------------------------------------------------------------
\* The kept failures are the first ones, as many as may be kept, whichever
\* evaluation they are from.
FirstFailuresKept ==
    LET kept == IF stage = "report" THEN failures ELSE failures \o eval_failures IN
    kept = SubSeq(hits, 1, AtMost(Len(hits), MaxFailureTraces))

\* The policy that is evaluated once more is the first of the best, the base
\* policy included.
BestIsFirstBest ==
    stage \in {"holdout", "report"} =>
        \E i \in DOMAIN evaluations :
            /\ evaluations[i] = [policy |-> candidate, successes |-> best_successes]
            /\ \A j \in DOMAIN evaluations :
                /\ evaluations[j].successes <= evaluations[i].successes
                /\ j < i => evaluations[j].successes < evaluations[i].successes

\* What a policy forces is one of the choices of a decision that some rollout met; it
\* may be what would be chosen anyway, when a decision was changed back.
ForcedWasObserved ==
    \A i \in DOMAIN evaluations : \A e \in evaluations[i].policy :
        e.key \in observed_keys /\ e.chosen_id \in e.key.choice_set

\* policy_search.rs: the report is of the search that was made.
SearchHonest == FirstFailuresKept /\ BestIsFirstBest /\ ForcedWasObserved
=============================================================================
