--------------------------- MODULE ExploreProofs ----------------------------
(***************************************************************************)
(* Proofs about the parts of des-explore: the policy search (SearchInv),   *)
(* the splitting methods (SplittingInv) and the monitor (MonitorInv).      *)
(* The search keeps the first of the best tables and the first failures;   *)
(* a particle repeats the whole prefix it was split from, because no score *)
(* before the end of the prefix reaches the level; and the monitor, always *)
(* brought up to the time of the simulation, knows of every queue its      *)
(* length from then on and its integral over the window so far.            *)
(***************************************************************************)
EXTENDS MCExplore, SumTheorems

-----------------------------------------------------------------------------
(* The policy search. *)

\* The entries of tables, the kept failures and the evaluations.
Entries == [key : MCKeys, chosen_id : UNION {k.choice_set : k \in MCKeys}]
Failures == [stage : {"search", "holdout"}, policy_index : Nat, trial : Nat]
Evaluations == [policy : SUBSET Entries, successes : Nat]

SearchTypes ==
    /\ stage \in {"baseline", "candidate", "holdout", "report"}
    /\ best_policy \subseteq Entries /\ candidate \subseteq Entries
    /\ best_successes \in Nat /\ trial \in Nat /\ successes \in Nat
    /\ eval_keys \subseteq MCKeys /\ observed_keys \subseteq MCKeys
    /\ evaluations \in Seq(Evaluations)
    /\ failures \in Seq(Failures) /\ eval_failures \in Seq(Failures) /\ hits \in Seq(Failures)

\* kept is as much of all as fits.
IsKept(kept, all) == kept = SubSeq(all, 1, Search!AtMost(Len(all), MaxFailureTraces))

FailuresKnown ==
    IsKept(IF stage = "report" THEN failures ELSE failures \o eval_failures, hits)

\* A table t with n successes is the first of the best evaluations.
IsFirstBest(all, t, n) ==
    \E i \in DOMAIN all :
        /\ all[i] = [policy |-> t, successes |-> n]
        /\ \A j \in DOMAIN all : /\ all[j].successes <= all[i].successes
                                 /\ j < i => all[j].successes < all[i].successes

\* So is the best policy from the first evaluation on.
BestKnown ==
    /\ stage = "baseline" => evaluations = <<>>
    /\ stage # "baseline" => IsFirstBest(evaluations, best_policy, best_successes)
    /\ stage \in {"holdout", "report"} => candidate = best_policy

\* What table t forces is a choice that was seen.
IsForced(t, keys) == \A e \in t : e.key \in keys /\ e.chosen_id \in e.key.choice_set

ForcedKnown ==
    /\ IsForced(best_policy, observed_keys) /\ IsForced(candidate, observed_keys)
    /\ \A i \in DOMAIN evaluations : IsForced(evaluations[i].policy, observed_keys)

SearchInv == SearchTypes /\ FailuresKnown /\ BestKnown /\ ForcedKnown

\* The assumptions on the search's constants.
LEMMA SearchConstants ==
    /\ TrialsPerPolicy \in Nat /\ HoldoutTrials \in Nat
    /\ BudgetPolicies \in Nat /\ MaxFailureTraces \in Nat
BY ExploreAssumption DEF ExploreAssumption, Search!SearchAssumption

\* A step is one of the search, or leaves it alone.
LEMMA SearchSteps ==
    ASSUME [Next]_vars
    PROVE  Search!SearchNext \/ UNCHANGED search
BY DEF Next, On, vars

\* A failure more is kept if there is room, and only then.
LEMMA KeepOneMore ==
    ASSUME NEW kept \in Seq(Failures), NEW all \in Seq(Failures), IsKept(kept, all),
           NEW f \in Failures
    PROVE  /\ Len(kept) < MaxFailureTraces => IsKept(Append(kept, f), Append(all, f))
           /\ ~(Len(kept) < MaxFailureTraces) => IsKept(kept, Append(all, f))
<1> USE SearchConstants
<1>1. /\ Len(all) \in Nat /\ Len(Append(all, f)) = Len(all) + 1
      /\ Append(all, f) \in Seq(Failures)
      /\ \A i \in 1 .. Len(all) : Append(all, f)[i] = all[i]
  OBVIOUS
<1>2. Len(kept) = Search!AtMost(Len(all), MaxFailureTraces)
  BY <1>1 DEF IsKept, Search!AtMost
<1>3. CASE Len(all) < MaxFailureTraces
  <2>1. kept = all
    BY <1>1, <1>3 DEF IsKept, Search!AtMost
  <2>2. Len(kept) < MaxFailureTraces
    BY <1>3, <2>1
  <2>3. IsKept(Append(all, f), Append(all, f))
    BY <1>1, <1>3 DEF IsKept, Search!AtMost
  <2> QED
    BY <2>1, <2>2, <2>3
<1>4. CASE ~(Len(all) < MaxFailureTraces)
  <2>1. ~(Len(kept) < MaxFailureTraces)
    BY <1>1, <1>2, <1>4 DEF Search!AtMost
  <2>2. kept = SubSeq(all, 1, MaxFailureTraces)
    BY <1>4 DEF IsKept, Search!AtMost
  <2>3. SubSeq(Append(all, f), 1, MaxFailureTraces) = SubSeq(all, 1, MaxFailureTraces)
    BY <1>1, <1>4
  <2>4. Search!AtMost(Len(all) + 1, MaxFailureTraces) = MaxFailureTraces
    BY <1>1, <1>4 DEF Search!AtMost
  <2> QED
    BY <1>1, <2>1, <2>2, <2>3, <2>4 DEF IsKept
<1> QED
  BY <1>3, <1>4

\* What is mutated was seen, and is set to a choice of its own.
LEMMA MutationForced ==
    ASSUME NEW t \in SUBSET Entries, NEW keys \in SUBSET MCKeys, IsForced(t, keys),
           NEW u \in Search!Mutations(t, keys)
    PROVE  u \subseteq Entries /\ IsForced(u, keys)
<1>1. PICK k \in Search!Mutable(keys) : \E id \in k.choice_set :
          u = (t \ {e \in t : e.key = k}) \cup {[key |-> k, chosen_id |-> id]}
  BY DEF Search!Mutations
<1>2. PICK id \in k.choice_set :
          u = (t \ {e \in t : e.key = k}) \cup {[key |-> k, chosen_id |-> id]}
  BY <1>1
<1>3. k \in keys
  BY DEF Search!Mutable
<1> QED
  BY <1>2, <1>3 DEF IsForced, Entries

\* An evaluation more: the best is still the best, or the new one is.
LEMMA StillFirstBest ==
    ASSUME NEW all \in Seq(Evaluations), NEW t, NEW n \in Nat, IsFirstBest(all, t, n),
           NEW x \in Evaluations
    PROVE  /\ x.successes <= n => IsFirstBest(Append(all, x), t, n)
           /\ x.successes > n => IsFirstBest(Append(all, x), x.policy, x.successes)
<1> DEFINE m == Len(all) + 1
           more == Append(all, x)
<1>1. /\ m \in Nat /\ DOMAIN all = 1 .. m - 1 /\ DOMAIN more = 1 .. m /\ more[m] = x
      /\ \A i \in 1 .. m - 1 : more[i] = all[i] /\ all[i].successes \in Nat
  <2>1. \A i \in 1 .. Len(all) : all[i] \in Evaluations
    OBVIOUS
  <2>2. \A i \in 1 .. Len(all) : all[i].successes \in Nat
    BY <2>1 DEF Evaluations
  <2>3. /\ m \in Nat /\ DOMAIN all = 1 .. m - 1 /\ DOMAIN more = 1 .. m /\ more[m] = x
        /\ \A i \in 1 .. m - 1 : more[i] = all[i]
    OBVIOUS
  <2> QED
    BY <2>2, <2>3
<1>2. PICK i \in 1 .. m - 1 :
          /\ all[i] = [policy |-> t, successes |-> n]
          /\ \A j \in 1 .. m - 1 : /\ all[j].successes <= all[i].successes
                                   /\ j < i => all[j].successes < all[i].successes
  BY <1>1 DEF IsFirstBest
<1>3. x.successes \in Nat /\ x = [policy |-> x.policy, successes |-> x.successes]
  BY DEF Evaluations
<1> HIDE DEF m, more
<1>4. ASSUME x.successes <= n PROVE IsFirstBest(more, t, n)
  <2>1. \A j \in 1 .. m : /\ more[j].successes <= more[i].successes
                          /\ j < i => more[j].successes < more[i].successes
    BY <1>1, <1>2, <1>3, <1>4
  <2> QED
    BY <1>1, <1>2, <2>1 DEF IsFirstBest
<1>5. ASSUME x.successes > n PROVE IsFirstBest(more, x.policy, x.successes)
  <2>1. \A j \in 1 .. m : /\ more[j].successes <= more[m].successes
                          /\ j < m => more[j].successes < more[m].successes
    BY <1>1, <1>2, <1>3, <1>5
  <2> QED
    BY <1>1, <1>3, <2>1 DEF IsFirstBest
<1> QED
  BY <1>4, <1>5 DEF more

\* The first evaluation is the best.
LEMMA FirstIsBest ==
    ASSUME NEW x \in Evaluations
    PROVE  IsFirstBest(Append(<<>>, x), x.policy, x.successes)
<1>1. /\ DOMAIN Append(<<>>, x) = {1} /\ Append(<<>>, x)[1] = x
      /\ x = [policy |-> x.policy, successes |-> x.successes] /\ x.successes \in Nat
  BY DEF Evaluations
<1> QED
  BY <1>1 DEF IsFirstBest

\* A rollout.
LEMMA RolloutKeeps ==
    ASSUME SearchInv, Search!Rollout
    PROVE  SearchInv'
<1> USE SearchConstants
<1>1. /\ UNCHANGED <<stage, best_policy, best_successes, candidate, evaluations, failures,
                     observed_keys>>
      /\ stage # "report" /\ trial' = trial + 1
  BY DEF Search!Rollout
<1>2. PICK hit \in BOOLEAN, seen \in SUBSET MCKeys :
          /\ eval_keys' = eval_keys \cup seen
          /\ successes' = IF hit THEN successes + 1 ELSE successes
          /\ eval_failures' = IF hit /\ Len(eval_failures) < Search!Room
                              THEN Append(eval_failures, Search!Failure) ELSE eval_failures
          /\ hits' = IF hit THEN Append(hits, Search!Failure) ELSE hits
  BY DEF Search!Rollout
<1>3. /\ failures \in Seq(Failures) /\ eval_failures \in Seq(Failures) /\ hits \in Seq(Failures)
      /\ Search!Failure \in Failures /\ Len(failures) \in Nat /\ Len(eval_failures) \in Nat
  BY DEF SearchInv, SearchTypes, Search!Failure, Failures
<1> DEFINE kept == failures \o eval_failures
           f == Search!Failure
<1>4. kept \in Seq(Failures) /\ Len(kept) = Len(failures) + Len(eval_failures)
  BY <1>3
<1>5. Len(eval_failures) < Search!Room <=> Len(kept) < MaxFailureTraces
  BY <1>3, <1>4 DEF Search!Room
<1>6. failures \o Append(eval_failures, f) = Append(kept, f)
  BY <1>3, <1>4
<1>7. IsKept(kept, hits)
  BY <1>1 DEF SearchInv, FailuresKnown
<1>8. eval_failures' \in Seq(Failures) /\ hits' \in Seq(Failures)
  BY <1>2, <1>3
<1> HIDE DEF kept, f
<1>9. IsKept(failures \o eval_failures', hits')
  <2>1. CASE ~hit
    BY <1>2, <1>7, <2>1 DEF kept
  <2>2. CASE hit /\ Len(kept) < MaxFailureTraces
    BY <1>2, <1>3, <1>4, <1>5, <1>6, <1>7, <2>2, KeepOneMore DEF f
  <2>3. CASE hit /\ ~(Len(kept) < MaxFailureTraces)
    <3>1. eval_failures' = eval_failures /\ hits' = Append(hits, f)
      BY <1>2, <1>5, <2>3 DEF f
    <3> QED
      BY <1>3, <1>4, <1>7, <2>3, <3>1, KeepOneMore DEF kept, f
  <2> QED
    BY <2>1, <2>2, <2>3
<1>10. FailuresKnown'
  BY <1>1, <1>9 DEF FailuresKnown
<1>11. SearchTypes'
  BY <1>1, <1>2, <1>8 DEF SearchInv, SearchTypes
<1>12. BestKnown' /\ ForcedKnown'
  BY <1>1 DEF SearchInv, BestKnown, ForcedKnown
<1> QED
  BY <1>10, <1>11, <1>12 DEF SearchInv

\* The end of an evaluation.
LEMMA EvaluatedKeeps ==
    ASSUME SearchInv, Search!Evaluated
    PROVE  SearchInv'
<1> DEFINE x == [policy |-> candidate, successes |-> successes]
<1>1. /\ stage \in {"baseline", "candidate"}
      /\ observed_keys' = observed_keys \cup eval_keys
      /\ failures' = failures \o eval_failures
      /\ evaluations' = Append(evaluations, x)
      /\ trial' = 0 /\ successes' = 0 /\ eval_keys' = {} /\ eval_failures' = <<>>
      /\ UNCHANGED hits
      /\ \/ /\ stage = "baseline" \/ successes > best_successes
            /\ best_policy' = candidate /\ best_successes' = successes
         \/ /\ stage = "candidate" /\ ~(successes > best_successes)
            /\ UNCHANGED <<best_policy, best_successes>>
  BY DEF Search!Evaluated, Search!Better
<1>2. \/ candidate' \in Search!Mutations(best_policy', observed_keys') /\ stage' = "candidate"
      \/ candidate' = best_policy' /\ stage' = "holdout"
  BY DEF Search!Evaluated, Search!NextEvaluation
<1>3. /\ failures \in Seq(Failures) /\ eval_failures \in Seq(Failures)
      /\ x \in Evaluations /\ evaluations \in Seq(Evaluations)
      /\ x.policy = candidate /\ x.successes = successes
      /\ successes \in Nat /\ best_successes \in Nat
  BY DEF SearchInv, SearchTypes, Evaluations
<1> HIDE DEF x
<1>4. FailuresKnown'
  <2>1. /\ failures \o eval_failures \in Seq(Failures)
        /\ (failures \o eval_failures) \o <<>> = failures \o eval_failures
    BY <1>3
  <2>2. IsKept(failures \o eval_failures, hits)
    BY <1>1 DEF SearchInv, FailuresKnown
  <2> QED
    BY <1>1, <1>2, <2>1, <2>2 DEF FailuresKnown
<1>5. IsFirstBest(evaluations', best_policy', best_successes')
  <2>1. CASE stage = "baseline"
    <3>1. evaluations' = Append(<<>>, x)
      BY <1>1, <2>1 DEF SearchInv, BestKnown
    <3>2. best_policy' = x.policy /\ best_successes' = x.successes
      BY <1>1, <1>3, <2>1
    <3> QED
      BY <1>3, <3>1, <3>2, FirstIsBest
  <2>2. CASE stage = "candidate"
    <3>1. IsFirstBest(evaluations, best_policy, best_successes)
      BY <2>2 DEF SearchInv, BestKnown
    <3>2. CASE successes > best_successes
      <4>1. best_policy' = x.policy /\ best_successes' = x.successes
        BY <1>1, <1>3, <3>2
      <4> QED
        BY <1>1, <1>3, <3>1, <3>2, <4>1, StillFirstBest
    <3>3. CASE ~(successes > best_successes)
      <4>1. best_policy' = best_policy /\ best_successes' = best_successes
        BY <1>1, <2>2, <3>3
      <4>2. x.successes <= best_successes
        BY <1>3, <3>3
      <4> QED
        BY <1>1, <1>3, <3>1, <4>1, <4>2, StillFirstBest
    <3> QED
      BY <3>2, <3>3
  <2> QED
    BY <1>1, <2>1, <2>2
<1>6. BestKnown'
  BY <1>2, <1>5 DEF BestKnown
<1>7. /\ best_policy' \subseteq Entries /\ observed_keys' \subseteq MCKeys
      /\ IsForced(best_policy', observed_keys') /\ IsForced(candidate, observed_keys')
  <2>1. /\ observed_keys \subseteq observed_keys' /\ observed_keys' \subseteq MCKeys
        /\ best_policy \subseteq Entries /\ candidate \subseteq Entries
    BY <1>1 DEF SearchInv, SearchTypes
  <2>2. IsForced(best_policy, observed_keys') /\ IsForced(candidate, observed_keys')
    BY <2>1 DEF SearchInv, ForcedKnown, IsForced
  <2> QED
    BY <1>1, <2>1, <2>2
<1>8. candidate' \subseteq Entries /\ IsForced(candidate', observed_keys')
  BY <1>2, <1>7, MutationForced
<1>9. ForcedKnown'
  <2>1. ASSUME NEW i \in DOMAIN evaluations'
        PROVE  IsForced(evaluations'[i].policy, observed_keys')
    <3>1. /\ i \in 1 .. Len(evaluations) + 1
          /\ i \in 1 .. Len(evaluations) => evaluations'[i] = evaluations[i]
          /\ i = Len(evaluations) + 1 => evaluations'[i] = x
      BY <1>1, <1>3
    <3>2. i \in 1 .. Len(evaluations) => IsForced(evaluations[i].policy, observed_keys)
      BY <1>3 DEF SearchInv, ForcedKnown
    <3>3. observed_keys \subseteq observed_keys'
      BY <1>1
    <3> QED
      BY <1>3, <1>7, <3>1, <3>2, <3>3 DEF IsForced
  <2> QED
    BY <1>7, <1>8, <2>1 DEF ForcedKnown
<1>10. SearchTypes'
  BY <1>1, <1>2, <1>3, <1>7, <1>8 DEF SearchInv, SearchTypes
<1> QED
  BY <1>4, <1>6, <1>9, <1>10 DEF SearchInv

\* Nothing is asserted of the search that its steps do not keep.
LEMMA SearchNextKeeps ==
    ASSUME SearchInv, [Next]_vars
    PROVE  SearchInv'
<1>1. CASE UNCHANGED search
  BY <1>1 DEF search, SearchInv, SearchTypes, FailuresKnown, BestKnown, ForcedKnown
<1>2. CASE Search!HoldoutEvaluated
  <2>1. /\ stage = "holdout" /\ stage' = "report" /\ failures' = failures \o eval_failures
        /\ UNCHANGED <<best_policy, best_successes, candidate, trial, successes, eval_keys,
                       eval_failures, evaluations, observed_keys, hits>>
    BY <1>2 DEF Search!HoldoutEvaluated
  <2>2. failures' \in Seq(Failures)
    BY <2>1 DEF SearchInv, SearchTypes
  <2>3. SearchTypes'
    BY <2>1, <2>2 DEF SearchInv, SearchTypes
  <2> QED
    BY <2>1, <2>3 DEF SearchInv, FailuresKnown, BestKnown, ForcedKnown
<1> QED
  BY <1>1, <1>2, RolloutKeeps, EvaluatedKeeps, SearchSteps DEF Search!SearchNext

\* It holds at the start,
LEMMA SearchStarts ==
    ASSUME Init
    PROVE  SearchInv
<1>1. /\ stage = "baseline" /\ best_policy = {} /\ candidate = {} /\ best_successes = 0
      /\ trial = 0 /\ successes = 0 /\ eval_keys = {} /\ eval_failures = <<>>
      /\ evaluations = <<>> /\ failures = <<>> /\ observed_keys = {} /\ hits = <<>>
  BY DEF Init, Search!SearchInit
<1>2. <<>> \in Seq(Failures) /\ <<>> \in Seq(Evaluations)
  OBVIOUS
<1>3. SearchTypes
  BY <1>1, <1>2 DEF SearchTypes
<1>4. IsKept(<<>> \o <<>>, <<>>)
  BY SearchConstants DEF IsKept, Search!AtMost
<1>5. FailuresKnown
  BY <1>1, <1>4 DEF FailuresKnown
<1> QED
  BY <1>1, <1>3, <1>5 DEF SearchInv, BestKnown, ForcedKnown, IsForced

\* and says that the report is honest.
LEMMA SearchReports ==
    ASSUME SearchInv
    PROVE  Search!SearchHonest
<1>1. Search!FirstFailuresKept
  BY DEF SearchInv, FailuresKnown, IsKept, Search!FirstFailuresKept
<1>2. Search!BestIsFirstBest
  BY DEF SearchInv, BestKnown, IsFirstBest, Search!BestIsFirstBest
<1>3. Search!ForcedWasObserved
  BY DEF SearchInv, ForcedKnown, IsForced, Search!ForcedWasObserved
<1> QED
  BY <1>1, <1>2, <1>3 DEF Search!SearchHonest

-----------------------------------------------------------------------------
(* Splitting. *)

\* The levels, and the number of the stage above them.
Thresholds == <<1, 2>>
Top == Len(Thresholds) + 1

\* The assumptions on the constants of the splitting methods.
LEMMA SplittingConstants ==
    /\ Particles \in Nat /\ Particles > 0 /\ BranchFactor \in Nat
    /\ Loads \subseteq Int /\ Nil \notin Seq(Loads)
    /\ Top \in Nat /\ Top > 1 /\ \A i \in 1 .. Top - 1 : Thresholds[i] \in Int
    /\ \A i, j \in 1 .. Top - 1 : i < j => Thresholds[i] < Thresholds[j]
BY ExploreAssumption DEF ExploreAssumption, Split!SplittingAssumption, Top, Thresholds

\* A step is one of the splitting methods, or leaves them alone.
LEMMA SplittingSteps ==
    ASSUME [Next]_vars
    PROVE  Split!SplittingNext \/ UNCHANGED splitting
BY DEF Next, On, vars

\* s is the beginning of h.
Begins(s, h) == Len(s) <= Len(h) /\ \A i \in 1 .. Len(s) : s[i] = h[i]

\* The first n scores of s are below level l.
Below(s, n, l) == \A i \in 1 .. n : s[i] < Thresholds[l]

\* s may be continued at level l: it reached the level before with its last draw.
IsSplit(s, l) == IF l = 1 THEN s = <<>> ELSE Below(s, Len(s) - 1, l - 1)

\* A run h of a particle that continues s at level l, with what it has captured.
RunKnown(h, c, s, l) ==
    /\ Begins(h, s) \/ Begins(s, h)
    /\ l = Top => c = Nil
    /\ l < Top /\ c = Nil => /\ Below(h, Len(h) - 1, l)
                             /\ ~Split!Terminal(h) => Below(h, Len(h), l)
    /\ c # Nil => Begins(s, c) /\ IsSplit(c, l + 1)

SplittingTypes ==
    /\ level \in 1 .. Top
    /\ particles \in Seq(Seq(Loads)) /\ p \in 1 .. Len(particles)
    /\ history \in Seq(Loads) /\ captured \in Seq(Loads) \cup {Nil}
    /\ next_level \in Seq(Seq(Loads))
    /\ stage_successes \in Seq(Nat) /\ example \in Seq(Loads) \cup {Nil}
    /\ finished \in BOOLEAN /\ seen_terminal \in BOOLEAN

\* The particles of a level, and those of the next.
AllSplit(ps, l) == \A i \in 1 .. Len(ps) : IsSplit(ps[i], l)

ParticlesKnown ==
    /\ AllSplit(particles, level)
    /\ level < Top => AllSplit(next_level, level + 1)
    /\ RunKnown(history, captured, particles[p], level)

ParticlesCounted ==
    /\ Len(particles) <= Particles /\ Len(next_level) <= Particles
    /\ method = "find" => level < Top
    /\ method # "find" => Len(particles) = Particles /\ Len(next_level) < p

\* A terminal run was found: there is an example of it.
ExampleKnown ==
    /\ method = "find" => IF finished THEN example # Nil <=> seen_terminal
                                      ELSE example = Nil /\ ~seen_terminal
    /\ method = "estimate" /\ level = Top /\ next_level # <<>> => example # Nil
    /\ finished /\ method = "estimate" /\ Split!EstimatedPositive => example # Nil

SplittingInv == SplittingTypes /\ ParticlesKnown /\ ParticlesCounted /\ ExampleKnown

\* Begins is the library's IsPrefix.
LEMMA BeginsIsPrefix ==
    ASSUME NEW s \in Seq(Loads), NEW h \in Seq(Loads), Begins(s, h)
    PROVE  Split!IsPrefix(s, h)
<1>1. /\ Len(s) \in Nat /\ Len(h) \in Nat /\ SubSeq(s, 1, Len(s)) \in Seq(Loads)
      /\ SubSeq(h, 1, Len(s)) \in Seq(Loads)
      /\ Len(SubSeq(s, 1, Len(s))) = Len(s) /\ Len(SubSeq(h, 1, Len(s))) = Len(s)
  BY DEF Begins
<1>2. \A i \in 1 .. Len(s) : SubSeq(s, 1, Len(s))[i] = SubSeq(h, 1, Len(s))[i]
  BY <1>1 DEF Begins
<1>3. SubSeq(s, 1, Len(s)) = SubSeq(h, 1, Len(s))
  BY <1>1, <1>2, SeqEqual
<1> QED
  BY <1>3 DEF Begins, Split!IsPrefix

\* The start of a run.
LEMMA NewRunKnown ==
    ASSUME NEW s \in Seq(Loads), NEW l \in 1 .. Top
    PROVE  RunKnown(<<>>, Nil, s, l)
<1>1. Len(<<>>) = 0 /\ Len(s) \in Nat
  OBVIOUS
<1> QED
  BY <1>1 DEF RunKnown, Begins, Below

\* A run goes on: what it captures has all of its prefix, because before the
\* prefix ends no score reaches the level.
LEMMA RunGoesOn ==
    ASSUME NEW s \in Seq(Loads), NEW h \in Seq(Loads), NEW c \in Seq(Loads) \cup {Nil},
           NEW l \in 1 .. Top, IsSplit(s, l), RunKnown(h, c, s, l), ~Split!Terminal(h),
           NEW v \in Loads, Len(h) < Len(s) => v = s[Len(h) + 1]
    PROVE  LET g == Append(h, v)
               d == IF c = Nil /\ l # Top /\ ~Split!Terminal(g) /\ g[Len(g)] >= Thresholds[l]
                    THEN g ELSE c
           IN  RunKnown(g, d, s, l)
<1> USE SplittingConstants
<1> DEFINE g == Append(h, v)
           n == Len(g)
           d == IF c = Nil /\ l # Top /\ ~Split!Terminal(g) /\ g[n] >= Thresholds[l]
                THEN g ELSE c
<1>1. /\ g \in Seq(Loads) /\ n \in Nat /\ n > 0 /\ n = Len(h) + 1 /\ g[n] = v
      /\ \A i \in 1 .. n - 1 : g[i] = h[i]
      /\ Len(s) \in Nat /\ Len(h) = n - 1 /\ v \in Int
      /\ \A i \in 1 .. Len(s) : s[i] \in Int
  <2>1. /\ g \in Seq(Loads) /\ n \in Nat /\ n > 0 /\ n = Len(h) + 1 /\ g[n] = v
        /\ Len(s) \in Nat /\ Len(h) = n - 1 /\ v \in Int
    OBVIOUS
  <2>2. \A i \in 1 .. Len(h) : g[i] = h[i]
    OBVIOUS
  <2>3. \A i \in 1 .. Len(s) : s[i] \in Loads
    OBVIOUS
  <2> HIDE DEF g, n
  <2> QED
    BY <2>1, <2>2, <2>3
<1> HIDE DEF g, n
<1>2. Begins(g, s) \/ Begins(s, g)
  <2>1. CASE Begins(h, s) /\ n <= Len(s)
    <3>1. v = s[n]
      BY <1>1, <2>1
    <3>2. \A i \in 1 .. n - 1 : g[i] = s[i]
      BY <1>1, <2>1 DEF Begins
    <3>3. \A i \in 1 .. n : g[i] = s[i]
      BY <1>1, <3>1, <3>2
    <3> QED
      BY <1>1, <2>1, <3>3 DEF Begins, n
  <2>2. CASE Begins(h, s) /\ ~(n <= Len(s))
    BY <1>1, <2>2 DEF Begins, n
  <2>3. CASE Begins(s, h)
    BY <1>1, <2>3 DEF Begins, n
  <2> QED
    BY <2>1, <2>2, <2>3 DEF RunKnown
<1>3. ASSUME l < Top, c = Nil, ~(g[n] >= Thresholds[l]) \/ Split!Terminal(g)
      PROVE  /\ Below(g, n - 1, l)
             /\ ~Split!Terminal(g) => Below(g, n, l)
  <2>1. Below(h, n - 1, l)
    BY <1>1, <1>3 DEF RunKnown
  <2>2. Below(g, n - 1, l)
    BY <1>1, <2>1 DEF Below
  <2>3. ASSUME ~Split!Terminal(g) PROVE Below(g, n, l)
    <3>1. g[n] < Thresholds[l]
      BY <1>1, <1>3, <2>3
    <3> QED
      BY <1>1, <2>2, <3>1 DEF Below
  <2> QED
    BY <2>2, <2>3
<1>4. ASSUME l < Top, c = Nil, g[n] >= Thresholds[l]
      PROVE  Begins(s, g) /\ IsSplit(g, l + 1)
  <2>1. Below(h, n - 1, l)
    BY <1>1, <1>4 DEF RunKnown
  <2>2. IsSplit(g, l + 1)
    BY <1>1, <1>4, <2>1 DEF Below, IsSplit, n
  <2>3. ASSUME n < Len(s), Begins(g, s) PROVE FALSE
    <3>1. l # 1
      BY <1>1, <2>3 DEF IsSplit
    <3>2. s[n] < Thresholds[l - 1]
      BY <1>1, <2>3, <3>1 DEF IsSplit, Below
    <3>3. s[n] = g[n]
      BY <1>1, <2>3 DEF Begins, n
    <3>4. Thresholds[l - 1] < Thresholds[l] /\ Thresholds[l - 1] \in Int /\ Thresholds[l] \in Int
      BY <1>4, <3>1
    <3> QED
      BY <1>1, <1>4, <3>2, <3>3, <3>4
  <2>4. ASSUME Begins(g, s) PROVE Begins(s, g)
    BY <1>1, <2>3, <2>4 DEF Begins, n
  <2> QED
    BY <1>2, <2>2, <2>4
<1>5. ASSUME c = Nil, l # Top, ~Split!Terminal(g), g[n] >= Thresholds[l]
      PROVE  RunKnown(g, d, s, l)
  <2>1. g # Nil /\ l < Top /\ d = g
    BY <1>1, <1>5
  <2>2. Begins(s, g) /\ IsSplit(g, l + 1)
    BY <1>4, <1>5, <2>1
  <2> HIDE DEF d
  <2> QED
    BY <2>1, <2>2 DEF RunKnown
<1>6. ASSUME ~(c = Nil /\ l # Top /\ ~Split!Terminal(g) /\ g[n] >= Thresholds[l])
      PROVE  RunKnown(g, d, s, l)
  <2>1. d = c
    BY <1>6
  <2>2. l < Top /\ c = Nil => ~(g[n] >= Thresholds[l]) \/ Split!Terminal(g)
    BY <1>6
  <2> HIDE DEF d
  <2>3. ASSUME l < Top, c = Nil
        PROVE  Below(g, n - 1, l) /\ (~Split!Terminal(g) => Below(g, n, l))
    BY <1>3, <2>2, <2>3
  <2>4. (l = Top => c = Nil) /\ (c # Nil => Begins(s, c) /\ IsSplit(c, l + 1))
    BY DEF RunKnown
  <2> QED
    BY <1>2, <2>1, <2>3, <2>4 DEF RunKnown, n
<1>7. RunKnown(g, d, s, l)
  BY <1>5, <1>6
<1> QED
  BY <1>7 DEF g, n

\* One particle more for the next level.
LEMMA OneMoreSplit ==
    ASSUME NEW ps \in Seq(Seq(Loads)), NEW l, AllSplit(ps, l), NEW c \in Seq(Loads), IsSplit(c, l)
    PROVE  /\ Append(ps, c) \in Seq(Seq(Loads)) /\ AllSplit(Append(ps, c), l)
           /\ Len(Append(ps, c)) = Len(ps) + 1
<1>1. /\ Append(ps, c) \in Seq(Seq(Loads)) /\ Len(Append(ps, c)) = Len(ps) + 1 /\ Len(ps) \in Nat
      /\ Append(ps, c)[Len(ps) + 1] = c
      /\ \A i \in 1 .. Len(ps) : Append(ps, c)[i] = ps[i]
  OBVIOUS
<1> QED
  BY <1>1 DEF AllSplit

\* The continuations of a captured prefix.
LEMMA SpawnedSplit ==
    ASSUME next_level \in Seq(Seq(Loads)), Len(next_level) <= Particles,
           NEW l, AllSplit(next_level, l), NEW c \in Seq(Loads), IsSplit(c, l)
    PROVE  /\ Split!Spawned(c) \in Seq(Seq(Loads)) /\ AllSplit(Split!Spawned(c), l)
           /\ Len(Split!Spawned(c)) <= Particles
<1> USE SplittingConstants
<1> DEFINE room == Particles - Len(next_level)
           n == IF room < BranchFactor THEN room ELSE BranchFactor
           more == [i \in 1 .. n |-> c]
<1>1. n \in Nat /\ n <= room /\ Len(next_level) \in Nat
  OBVIOUS
<1>2. Split!Spawned(c) = next_level \o more
  BY DEF Split!Spawned
<1> HIDE DEF n
<1>3. more \in Seq(Seq(Loads)) /\ Len(more) = n
  BY <1>1
<1>4. \A i \in 1 .. n : more[i] = c
  OBVIOUS
<1> HIDE DEF more
<1>5. /\ next_level \o more \in Seq(Seq(Loads)) /\ Len(next_level \o more) = Len(next_level) + n
      /\ \A i \in 1 .. Len(next_level) + n :
             (next_level \o more)[i] = IF i <= Len(next_level) THEN next_level[i]
                                       ELSE more[i - Len(next_level)]
  BY <1>3
<1>6. ASSUME NEW i \in 1 .. Len(next_level) + n PROVE IsSplit((next_level \o more)[i], l)
  <2>1. CASE i <= Len(next_level)
    BY <1>1, <1>5, <2>1 DEF AllSplit
  <2>2. CASE ~(i <= Len(next_level))
    <3>1. i - Len(next_level) \in 1 .. n
      BY <1>1, <2>2
    <3> QED
      BY <1>4, <1>5, <2>2, <3>1
  <2> QED
    BY <2>1, <2>2
<1>7. Len(next_level) + n <= Particles
  BY <1>1
<1> QED
  BY <1>2, <1>5, <1>6, <1>7 DEF AllSplit

\* The next run starts afresh.
LEMMA NextRun ==
    ASSUME NEW l \in 1 .. Top, NEW ps \in Seq(Seq(Loads)), AllSplit(ps, l),
           NEW n \in 1 .. Len(ps), Split!Continue(l, ps, n),
           next_level' \in Seq(Seq(Loads)), l < Top => AllSplit(next_level', l + 1)
    PROVE  /\ level' \in 1 .. Top
           /\ particles' \in Seq(Seq(Loads)) /\ p' \in 1 .. Len(particles')
           /\ history' \in Seq(Loads) /\ captured' \in Seq(Loads) \cup {Nil}
           /\ ParticlesKnown'
<1>1. /\ level' = l /\ particles' = ps /\ p' = n /\ history' = <<>> /\ captured' = Nil
  BY DEF Split!Continue
<1>2. ps[n] \in Seq(Loads) /\ <<>> \in Seq(Loads)
  OBVIOUS
<1>3. RunKnown(<<>>, Nil, ps[n], l)
  BY <1>2, NewRunKnown
<1> QED
  BY <1>1, <1>2, <1>3 DEF ParticlesKnown

\* A step of a run.
LEMMA RunStepKeeps ==
    ASSUME SplittingInv, Split!RunStep
    PROVE  SplittingInv'
<1> USE SplittingConstants
<1>1. /\ UNCHANGED <<method, level, particles, p, next_level, stage_successes, example, finished,
                     seen_terminal>>
      /\ ~Split!Terminal(history)
  BY DEF Split!RunStep
<1>2. PICK v \in Split!NextLoads :
          /\ history' = Append(history, v)
          /\ captured' = IF captured = Nil /\ ~Split!TerminalStage
                            /\ ~Split!Terminal(Append(history, v))
                            /\ Split!Score(Append(history, v)) >= Thresholds[level]
                         THEN Append(history, v) ELSE captured
  BY DEF Split!RunStep, Thresholds
<1>3. /\ particles \in Seq(Seq(Loads)) /\ p \in 1 .. Len(particles)
      /\ history \in Seq(Loads) /\ captured \in Seq(Loads) \cup {Nil} /\ level \in 1 .. Top
  BY DEF SplittingInv, SplittingTypes
<1>4. particles[p] \in Seq(Loads) /\ Len(history) \in Nat
  BY <1>3
<1>5. /\ v \in Loads
      /\ Len(history) < Len(particles[p]) => v = particles[p][Len(history) + 1]
  BY <1>4 DEF Split!NextLoads
<1>6. Append(history, v) \in Seq(Loads)
  BY <1>3, <1>5
<1>7. /\ IsSplit(particles[p], level)
      /\ RunKnown(history, captured, particles[p], level)
  BY <1>3 DEF SplittingInv, ParticlesKnown, AllSplit
<1>8. Split!TerminalStage <=> level = Top
  BY DEF Split!TerminalStage, Top, Thresholds
<1>9. Split!Score(Append(history, v)) = Append(history, v)[Len(Append(history, v))]
  BY DEF Split!Score
<1>10. RunKnown(history', captured', particles[p], level)
  BY <1>1, <1>2, <1>3, <1>4, <1>5, <1>7, <1>8, <1>9, RunGoesOn
<1>11. SplittingTypes'
  BY <1>1, <1>2, <1>3, <1>6 DEF SplittingInv, SplittingTypes
<1>12. ParticlesKnown'
  BY <1>1, <1>10 DEF SplittingInv, ParticlesKnown
<1>13. ParticlesCounted' /\ ExampleKnown'
  BY <1>1 DEF SplittingInv, ParticlesCounted, ExampleKnown, Split!EstimatedPositive
<1> QED
  BY <1>11, <1>12, <1>13 DEF SplittingInv

\* The end of a run of find_with_splitting.
LEMMA FindKeeps ==
    ASSUME SplittingInv, NEW hit \in BOOLEAN, Split!FindRunEnds(hit)
    PROVE  SplittingInv'
<1> USE SplittingConstants
<1>1. /\ method = "find" /\ ~finished /\ UNCHANGED <<method, stage_successes>>
      /\ seen_terminal' = (seen_terminal \/ hit)
  BY DEF Split!FindRunEnds, Split!RunEnds
<1>2. /\ level \in 1 .. Top /\ level < Top /\ particles \in Seq(Seq(Loads))
      /\ p \in 1 .. Len(particles) /\ Len(particles) \in Nat
      /\ history \in Seq(Loads) /\ captured \in Seq(Loads) \cup {Nil}
      /\ next_level \in Seq(Seq(Loads)) /\ example = Nil /\ seen_terminal = FALSE
      /\ Len(particles) <= Particles /\ Len(next_level) <= Particles
      /\ AllSplit(particles, level) /\ AllSplit(next_level, level + 1)
      /\ stage_successes \in Seq(Nat)
  BY <1>1 DEF SplittingInv, SplittingTypes, ParticlesKnown, ParticlesCounted, ExampleKnown
<1> DEFINE spawned == IF captured = Nil THEN next_level ELSE Split!Spawned(captured)
<1>3. /\ spawned \in Seq(Seq(Loads)) /\ AllSplit(spawned, level + 1) /\ Len(spawned) <= Particles
  <2>1. CASE captured = Nil
    BY <1>2, <2>1
  <2>2. CASE captured # Nil
    <3>1. IsSplit(captured, level + 1) /\ captured \in Seq(Loads)
      BY <1>2, <2>2 DEF SplittingInv, ParticlesKnown, RunKnown
    <3>2. spawned = Split!Spawned(captured)
      BY <2>2
    <3> HIDE DEF spawned
    <3> QED
      BY <1>2, <3>1, <3>2, SpawnedSplit
  <2> QED
    BY <2>1, <2>2
<1>4. \/ /\ hit /\ example' = history /\ Split!Return
      \/ /\ ~hit /\ p < Len(particles) /\ next_level' = spawned
         /\ Split!Continue(level, particles, p + 1) /\ UNCHANGED example
      \/ /\ ~hit /\ spawned # <<>> /\ level < Top - 1 /\ next_level' = <<>>
         /\ Split!Continue(level + 1, spawned, 1) /\ UNCHANGED example
      \/ /\ ~hit /\ Split!Return /\ UNCHANGED example
  BY DEF Split!FindRunEnds, Top, Thresholds
<1> HIDE DEF spawned
<1>5. ASSUME Split!Return, example' = IF hit THEN history ELSE Nil
      PROVE  SplittingInv'
  <2>1. /\ finished' = TRUE /\ UNCHANGED <<level, particles, p, history, captured, next_level>>
    BY <1>5 DEF Split!Return
  <2>2. SplittingTypes'
    BY <1>1, <1>2, <1>5, <2>1 DEF SplittingTypes
  <2>3. ParticlesKnown' /\ ParticlesCounted'
    BY <1>1, <2>1 DEF SplittingInv, ParticlesKnown, ParticlesCounted
  <2>4. ExampleKnown'
    BY <1>1, <1>2, <1>5, <2>1 DEF ExampleKnown
  <2> QED
    BY <2>2, <2>3, <2>4 DEF SplittingInv
<1>6. ASSUME NEW l \in 1 .. Top, l < Top, NEW ps \in Seq(Seq(Loads)), AllSplit(ps, l),
             Len(ps) <= Particles, NEW n \in 1 .. Len(ps), Split!Continue(l, ps, n),
             next_level' \in Seq(Seq(Loads)), AllSplit(next_level', l + 1),
             Len(next_level') <= Particles, ~hit, UNCHANGED example
      PROVE  SplittingInv'
  <2>1. /\ level' \in 1 .. Top
        /\ particles' \in Seq(Seq(Loads)) /\ p' \in 1 .. Len(particles')
        /\ history' \in Seq(Loads) /\ captured' \in Seq(Loads) \cup {Nil}
        /\ ParticlesKnown'
    BY <1>6, NextRun
  <2>2. level' = l /\ particles' = ps /\ finished' = FALSE
    BY <1>1, <1>6 DEF Split!Continue, SplittingInv, SplittingTypes
  <2>3. SplittingTypes'
    BY <1>1, <1>2, <1>6, <2>1, <2>2 DEF SplittingTypes
  <2>4. ParticlesCounted' /\ ExampleKnown'
    BY <1>1, <1>2, <1>6, <2>2 DEF ParticlesCounted, ExampleKnown
  <2> QED
    BY <2>1, <2>3, <2>4 DEF SplittingInv
<1>7. CASE hit /\ example' = history /\ Split!Return
  BY <1>5, <1>7
<1>8. CASE ~hit /\ Split!Return /\ UNCHANGED example
  BY <1>2, <1>5, <1>8
<1>9. CASE /\ ~hit /\ p < Len(particles) /\ next_level' = spawned
           /\ Split!Continue(level, particles, p + 1) /\ UNCHANGED example
  <2>1. p + 1 \in 1 .. Len(particles)
    BY <1>2, <1>9
  <2> QED
    BY <1>2, <1>3, <1>6, <1>9, <2>1
<1>10. CASE /\ ~hit /\ spawned # <<>> /\ level < Top - 1 /\ next_level' = <<>>
            /\ Split!Continue(level + 1, spawned, 1) /\ UNCHANGED example
  <2>1. 1 \in 1 .. Len(spawned) /\ level + 1 \in 1 .. Top /\ level + 1 < Top
    BY <1>2, <1>3, <1>10, EmptySeq
  <2>2. /\ next_level' \in Seq(Seq(Loads)) /\ AllSplit(next_level', level + 1 + 1)
        /\ Len(next_level') = 0
    BY <1>10 DEF AllSplit
  <2> QED
    BY <1>3, <1>6, <1>10, <2>1, <2>2
<1> QED
  BY <1>4, <1>7, <1>8, <1>9, <1>10

\* The end of a run of an estimate, at a level.
LEMMA LevelKeeps ==
    ASSUME SplittingInv, NEW hit \in BOOLEAN, Split!LevelRunEnds(hit)
    PROVE  SplittingInv'
<1> USE SplittingConstants
<1>1. /\ method = "estimate" /\ ~finished /\ UNCHANGED method
      /\ seen_terminal' = (seen_terminal \/ hit)
      /\ example' = IF hit /\ example = Nil THEN history ELSE example
      /\ level # Top
  BY DEF Split!LevelRunEnds, Split!RunEnds, Split!TerminalStage, Top, Thresholds
<1>2. /\ level \in 1 .. Top /\ level < Top /\ particles \in Seq(Seq(Loads))
      /\ p \in 1 .. Len(particles) /\ Len(particles) = Particles /\ p \in Nat
      /\ history \in Seq(Loads) /\ captured \in Seq(Loads) \cup {Nil}
      /\ next_level \in Seq(Seq(Loads)) /\ Len(next_level) \in Nat /\ Len(next_level) < p
      /\ AllSplit(particles, level) /\ AllSplit(next_level, level + 1)
      /\ stage_successes \in Seq(Nat) /\ example \in Seq(Loads) \cup {Nil}
      /\ seen_terminal \in BOOLEAN /\ finished = FALSE
  BY <1>1 DEF SplittingInv, SplittingTypes, ParticlesKnown, ParticlesCounted
<1> DEFINE good == IF captured = Nil THEN next_level ELSE Append(next_level, captured)
<1>3. /\ good \in Seq(Seq(Loads)) /\ AllSplit(good, level + 1)
      /\ Len(good) \in Nat /\ Len(good) <= p
  <2>1. CASE captured = Nil
    BY <1>2, <2>1
  <2>2. CASE captured # Nil
    <3>1. IsSplit(captured, level + 1) /\ captured \in Seq(Loads)
      BY <1>2, <2>2 DEF SplittingInv, ParticlesKnown, RunKnown
    <3>2. good = Append(next_level, captured)
      BY <2>2
    <3> HIDE DEF good
    <3> QED
      BY <1>2, <3>1, <3>2, OneMoreSplit
  <2> QED
    BY <2>1, <2>2
<1>4. \/ /\ p < Particles /\ next_level' = good
         /\ Split!Continue(level, particles, p + 1) /\ UNCHANGED stage_successes
      \/ /\ p = Particles /\ stage_successes' = Append(stage_successes, Len(good))
         /\ \/ good = <<>> /\ Split!Return
            \/ /\ good # <<>> /\ next_level' = <<>>
               /\ \E picks \in [1 .. Particles -> DOMAIN good] :
                      Split!Continue(level + 1, [j \in 1 .. Particles |-> good[picks[j]]], 1)
  BY DEF Split!LevelRunEnds
<1> HIDE DEF good
<1>5. example' \in Seq(Loads) \cup {Nil} /\ seen_terminal' \in BOOLEAN
  BY <1>1, <1>2
<1>6. ASSUME NEW l \in 1 .. Top, NEW ps \in Seq(Seq(Loads)), AllSplit(ps, l),
             Len(ps) = Particles, NEW n \in 1 .. Len(ps), Split!Continue(l, ps, n),
             next_level' \in Seq(Seq(Loads)), Len(next_level') < n,
             l < Top => AllSplit(next_level', l + 1), l = Top => next_level' = <<>>,
             stage_successes' \in Seq(Nat)
      PROVE  SplittingInv'
  <2>1. /\ level' \in 1 .. Top
        /\ particles' \in Seq(Seq(Loads)) /\ p' \in 1 .. Len(particles')
        /\ history' \in Seq(Loads) /\ captured' \in Seq(Loads) \cup {Nil}
        /\ ParticlesKnown'
    BY <1>6, NextRun
  <2>2. level' = l /\ particles' = ps /\ p' = n /\ finished' = FALSE
    BY <1>2, <1>6 DEF Split!Continue
  <2>3. SplittingTypes'
    BY <1>5, <1>6, <2>1, <2>2 DEF SplittingTypes
  <2>4. ParticlesCounted'
    <3>1. Len(next_level') \in Nat /\ Len(next_level') <= Particles
      BY <1>6
    <3> QED
      BY <1>1, <1>6, <2>2, <3>1 DEF ParticlesCounted
  <2>5. ExampleKnown'
    BY <1>1, <1>6, <2>2 DEF ExampleKnown
  <2> QED
    BY <2>1, <2>3, <2>4, <2>5 DEF SplittingInv
<1>7. CASE /\ p < Particles /\ next_level' = good
           /\ Split!Continue(level, particles, p + 1) /\ UNCHANGED stage_successes
  <2>1. p + 1 \in 1 .. Len(particles) /\ Len(good) < p + 1
    BY <1>2, <1>3, <1>7
  <2> QED
    BY <1>2, <1>3, <1>6, <1>7, <2>1
<1>8. CASE stage_successes' = Append(stage_successes, Len(good)) /\ good = <<>> /\ Split!Return
  <2>1. /\ finished' = TRUE /\ UNCHANGED <<level, particles, p, history, captured, next_level>>
    BY <1>8 DEF Split!Return
  <2>2. stage_successes' \in Seq(Nat)
    BY <1>2, <1>3, <1>8
  <2>3. SplittingTypes'
    BY <1>2, <1>5, <2>1, <2>2 DEF SplittingTypes
  <2>4. ParticlesKnown' /\ ParticlesCounted'
    BY <1>1, <2>1 DEF SplittingInv, ParticlesKnown, ParticlesCounted
  <2>5. ~Split!EstimatedPositive'
    <3>1. Len(stage_successes) \in Nat /\ Len(good) = 0
      BY <1>2, <1>8
    <3>2. /\ Len(stage_successes) + 1 \in DOMAIN stage_successes'
          /\ stage_successes'[Len(stage_successes) + 1] = 0
      BY <1>2, <1>8, <3>1
    <3> QED
      BY <3>2 DEF Split!EstimatedPositive
  <2>6. ExampleKnown'
    BY <1>1, <2>1, <2>5 DEF ExampleKnown
  <2> QED
    BY <2>3, <2>4, <2>6 DEF SplittingInv
<1>9. CASE /\ stage_successes' = Append(stage_successes, Len(good))
           /\ good # <<>> /\ next_level' = <<>>
           /\ \E picks \in [1 .. Particles -> DOMAIN good] :
                  Split!Continue(level + 1, [j \in 1 .. Particles |-> good[picks[j]]], 1)
  <2>1. PICK picks \in [1 .. Particles -> DOMAIN good] :
            Split!Continue(level + 1, [j \in 1 .. Particles |-> good[picks[j]]], 1)
    BY <1>9
  <2> DEFINE ps == [j \in 1 .. Particles |-> good[picks[j]]]
  <2>2. \A j \in 1 .. Particles : picks[j] \in 1 .. Len(good)
    BY <1>3
  <2>3. \A j \in 1 .. Particles :
           good[picks[j]] \in Seq(Loads) /\ IsSplit(good[picks[j]], level + 1)
    BY <1>3, <2>2 DEF AllSplit
  <2>4. ps \in Seq(Seq(Loads)) /\ Len(ps) = Particles
    BY <2>3
  <2>5. AllSplit(ps, level + 1)
    BY <2>3, <2>4 DEF AllSplit
  <2>6. /\ level + 1 \in 1 .. Top /\ 1 \in 1 .. Len(ps) /\ Len(next_level') = 0
        /\ next_level' \in Seq(Seq(Loads)) /\ AllSplit(next_level', level + 1 + 1)
    BY <1>2, <1>9, <2>4 DEF AllSplit
  <2>7. stage_successes' \in Seq(Nat)
    BY <1>2, <1>3, <1>9
  <2> HIDE DEF ps
  <2>8. Split!Continue(level + 1, ps, 1)
    BY <2>1 DEF ps
  <2> QED
    BY <1>6, <1>9, <2>4, <2>5, <2>6, <2>7, <2>8
<1> QED
  BY <1>4, <1>7, <1>8, <1>9

\* The end of a run in the terminal stage.
LEMMA TerminalKeeps ==
    ASSUME SplittingInv, NEW hit \in BOOLEAN, Split!TerminalRunEnds(hit)
    PROVE  SplittingInv'
<1> USE SplittingConstants
<1>1. /\ level = Top /\ ~finished /\ UNCHANGED method
      /\ seen_terminal' = (seen_terminal \/ hit)
      /\ example' = IF hit /\ example = Nil /\ method = "estimate" THEN history ELSE example
  BY DEF Split!TerminalRunEnds, Split!RunEnds, Split!TerminalStage, Top, Thresholds
<1>2. /\ particles \in Seq(Seq(Loads)) /\ method # "find" /\ level \in 1 .. Top
      /\ p \in 1 .. Len(particles) /\ Len(particles) = Particles /\ p \in Nat
      /\ history \in Seq(Loads)
      /\ next_level \in Seq(Seq(Loads)) /\ Len(next_level) \in Nat /\ Len(next_level) < p
      /\ AllSplit(particles, level)
      /\ stage_successes \in Seq(Nat) /\ example \in Seq(Loads) \cup {Nil}
      /\ seen_terminal \in BOOLEAN /\ finished = FALSE
  BY <1>1 DEF SplittingInv, SplittingTypes, ParticlesKnown, ParticlesCounted
<1> DEFINE good == IF hit THEN Append(next_level, history) ELSE next_level
<1>3. /\ good \in Seq(Seq(Loads)) /\ Len(good) \in Nat /\ Len(good) <= p
  BY <1>2
<1>4. \/ /\ p < Particles /\ next_level' = good
         /\ Split!Continue(level, particles, p + 1) /\ UNCHANGED stage_successes
      \/ stage_successes' = Append(stage_successes, Len(good)) /\ Split!Return
  BY DEF Split!TerminalRunEnds
<1>5. example' \in Seq(Loads) \cup {Nil} /\ seen_terminal' \in BOOLEAN
  BY <1>1, <1>2
<1>6. method = "estimate" /\ good # <<>> => example' # Nil
  BY <1>1, <1>2 DEF SplittingInv, ExampleKnown
<1> HIDE DEF good
<1>7. CASE /\ p < Particles /\ next_level' = good
           /\ Split!Continue(level, particles, p + 1) /\ UNCHANGED stage_successes
  <2>1. p + 1 \in 1 .. Len(particles) /\ Len(good) < p + 1 /\ Len(good) <= Particles
    BY <1>2, <1>3, <1>7
  <2>2. /\ level' \in 1 .. Top
        /\ particles' \in Seq(Seq(Loads)) /\ p' \in 1 .. Len(particles')
        /\ history' \in Seq(Loads) /\ captured' \in Seq(Loads) \cup {Nil}
        /\ ParticlesKnown'
    BY <1>1, <1>2, <1>3, <1>7, <2>1, NextRun
  <2>3. level' = Top /\ particles' = particles /\ p' = p + 1 /\ finished' = FALSE
    BY <1>1, <1>2, <1>7 DEF Split!Continue
  <2>4. SplittingTypes'
    BY <1>2, <1>3, <1>5, <1>7, <2>2, <2>3 DEF SplittingTypes
  <2>5. ParticlesCounted'
    BY <1>1, <1>2, <1>7, <2>1, <2>3 DEF ParticlesCounted
  <2>6. ExampleKnown'
    BY <1>1, <1>2, <1>6, <1>7, <2>3 DEF ExampleKnown
  <2> QED
    BY <2>2, <2>4, <2>5, <2>6 DEF SplittingInv
<1>8. CASE stage_successes' = Append(stage_successes, Len(good)) /\ Split!Return
  <2>1. /\ finished' = TRUE /\ UNCHANGED <<level, particles, p, history, captured, next_level>>
    BY <1>8 DEF Split!Return
  <2>2. stage_successes' \in Seq(Nat)
    BY <1>2, <1>3, <1>8
  <2>3. SplittingTypes'
    BY <1>5, <2>1, <2>2 DEF SplittingInv, SplittingTypes
  <2>4. ParticlesKnown' /\ ParticlesCounted'
    BY <1>1, <2>1 DEF SplittingInv, ParticlesKnown, ParticlesCounted
  <2>5. ASSUME Split!EstimatedPositive' PROVE good # <<>>
    <3>1. /\ Len(stage_successes) + 1 \in DOMAIN stage_successes'
          /\ stage_successes'[Len(stage_successes) + 1] = Len(good)
      BY <1>2, <1>3, <1>8
    <3> QED
      BY <1>3, <2>5, <3>1 DEF Split!EstimatedPositive
  <2>6. next_level # <<>> /\ method = "estimate" => example' # Nil
    BY <1>1, <1>2 DEF SplittingInv, ExampleKnown
  <2>7. ExampleKnown'
    BY <1>1, <1>2, <1>6, <2>1, <2>5, <2>6 DEF ExampleKnown
  <2> QED
    BY <2>3, <2>4, <2>7 DEF SplittingInv
<1> QED
  BY <1>4, <1>7, <1>8

\* Every step keeps what is known of the particles.
LEMMA SplittingNextKeeps ==
    ASSUME SplittingInv, [Next]_vars
    PROVE  SplittingInv'
<1>1. CASE UNCHANGED splitting
  BY <1>1 DEF splitting, SplittingInv, SplittingTypes, ParticlesKnown, ParticlesCounted,
     ExampleKnown, Split!EstimatedPositive
<1> QED
  BY <1>1, RunStepKeeps, FindKeeps, LevelKeeps, TerminalKeeps, SplittingSteps
  DEF Split!SplittingNext

\* It is so at the start,
LEMMA SplittingStarts ==
    ASSUME Init
    PROVE  SplittingInv
<1> USE SplittingConstants
<1>1. /\ history = <<>> /\ captured = Nil /\ next_level = <<>>
      /\ stage_successes = <<>> /\ example = Nil
      /\ finished = FALSE /\ seen_terminal = FALSE
  BY DEF Init, Split!SplittingInit
<1>l. p = 1 /\ (level = Top \/ level = 1) /\ (method = "find" => level = 1)
  BY DEF Init, Split!SplittingInit, Top, Thresholds
<1>n. Top \in Nat /\ Top > 1
  OBVIOUS
<1>m. level \in 1 .. Top
  BY <1>l, <1>n
<1>2. /\ <<>> \in Seq(Loads) /\ <<>> \in Seq(Seq(Loads)) /\ <<>> \in Seq(Nat)
      /\ Len(<<>>) = 0
  OBVIOUS
<1>3. /\ particles \in Seq(Seq(Loads))
      /\ Len(particles) = IF method = "find" THEN 1 ELSE Particles
      /\ \A i \in 1 .. Len(particles) : particles[i] = <<>>
  <2>1. CASE method = "find"
    <3>1. particles = <<(<<>>)>>
      BY <2>1 DEF Init, Split!SplittingInit
    <3>2. /\ particles \in Seq(Seq(Loads)) /\ Len(particles) = 1 /\ particles[1] = <<>>
      BY <1>2, <3>1
    <3> QED
      BY <2>1, <3>2
  <2>2. CASE method # "find"
    <3>1. particles = [i \in 1 .. Particles |-> <<>>]
      BY <2>2 DEF Init, Split!SplittingInit
    <3>2. /\ particles \in Seq(Seq(Loads)) /\ Len(particles) = Particles
      BY <1>2, <3>1
    <3>3. \A i \in 1 .. Particles : particles[i] = <<>>
      BY <3>1
    <3> QED
      BY <2>2, <3>2, <3>3
  <2> QED
    BY <2>1, <2>2
<1>4. AllSplit(particles, level) /\ particles[p] = <<>> /\ p \in 1 .. Len(particles)
  <2>1. IsSplit(<<>>, level)
    BY <1>2 DEF IsSplit, Below
  <2>2. Len(particles) >= 1
    BY <1>3
  <2>3. p \in 1 .. Len(particles)
    BY <1>3, <1>l, <2>2
  <2> QED
    BY <1>3, <2>1, <2>3 DEF AllSplit
<1>5. RunKnown(<<>>, Nil, particles[p], level)
  BY <1>2, <1>4, <1>m, NewRunKnown
<1>6. SplittingTypes
  BY <1>1, <1>2, <1>3, <1>4, <1>m DEF SplittingTypes
<1>7. ParticlesKnown
  <2>1. AllSplit(next_level, level + 1)
    BY <1>1, <1>2 DEF AllSplit
  <2> QED
    BY <1>1, <1>4, <1>5, <2>1 DEF ParticlesKnown
<1>8. ParticlesCounted
  <2>1. Len(next_level) = 0
    BY <1>1, <1>2
  <2> QED
    BY <1>3, <1>l, <2>1 DEF ParticlesCounted
<1>9. ExampleKnown
  BY <1>1 DEF ExampleKnown
<1> QED
  BY <1>6, <1>7, <1>8, <1>9 DEF SplittingInv

\* and means that particles continue their prefixes and results have witnesses.
LEMMA SplittingReports ==
    ASSUME SplittingInv
    PROVE  Split!SplittingSound
<1>1. /\ particles[p] \in Seq(Loads) /\ history \in Seq(Loads)
      /\ captured \in Seq(Loads) \cup {Nil}
  BY DEF SplittingInv, SplittingTypes
<1>2. Split!PrefixesNest
  BY <1>1, BeginsIsPrefix DEF SplittingInv, ParticlesKnown, RunKnown, Split!PrefixesNest
<1>3. Split!ParticlesBounded
  BY DEF SplittingInv, ParticlesCounted, Split!ParticlesBounded
<1>4. Split!ResultsWitnessed
  BY DEF SplittingInv, ExampleKnown, Split!ResultsWitnessed
<1> QED
  BY <1>2, <1>3, <1>4 DEF Split!SplittingSound

\* policy_search.rs, splitting.rs, estimate.rs: the report of a search is of the
\* rollouts it made, the first failures and the first of the best policies; a
\* particle repeats the whole prefix that it was split from; and a search that found
\* nothing has met nothing.
THEOREM SearchIsSound == Spec => []SearchSound
<1>1. Init => SearchInv /\ SplittingInv
  BY SearchStarts, SplittingStarts
<1>2. SearchInv /\ SplittingInv /\ [Next]_vars => (SearchInv /\ SplittingInv)'
  BY SearchNextKeeps, SplittingNextKeeps
<1>3. SearchInv /\ SplittingInv => SearchSound
  BY SearchReports, SplittingReports DEF SearchSound
<1> QED
  BY <1>1, <1>2, <1>3, PTL DEF Spec

-----------------------------------------------------------------------------
(* The monitor. *)

\* No event is later, the last step being taken before the end.
Latest == MaxEnd + 2 * Window + 1

\* The assumptions on the monitor's constants.
LEMMA MonitorConstants ==
    /\ Window \in Nat /\ Window > 0 /\ Hold \in Nat /\ Hold > 0 /\ Persist \in Nat /\ Persist > 0
    /\ Warmup \in Nat /\ MaxEnd \in Nat /\ Lengths \subseteq Nat /\ SpikeEnds \subseteq Nat
    /\ Latest \in Nat /\ MaxEnd <= Latest
    /\ Nil \notin Queues /\ Nil # TRUE /\ Nil # FALSE /\ "queue" \notin Counted
<1>1. Watched!MonitorAssumption
  BY ExploreAssumption DEF ExploreAssumption
<1>2. Nil \notin Queues \cup BOOLEAN /\ "queue" \notin Counted
  BY <1>1, Zenon DEF Watched!MonitorAssumption
<1>3. Nil \notin Queues /\ Nil # TRUE /\ Nil # FALSE
  BY <1>2, Zenon
<1>4. /\ Window \in Nat \ {0} /\ Hold \in Nat \ {0} /\ Persist \in Nat \ {0}
      /\ Warmup \in Nat /\ MaxEnd \in Nat /\ Lengths \subseteq Nat /\ SpikeEnds \subseteq Nat
  BY <1>1, Zenon DEF Watched!MonitorAssumption
<1>5. \A x \in Nat \ {0} : x \in Nat /\ x > 0
  OBVIOUS
<1>6. Latest \in Nat /\ MaxEnd <= Latest
  BY <1>4 DEF Latest
<1> QED
  BY <1>2, <1>3, <1>4, <1>5, <1>6, Zenon

\* A step is one of the monitor, or leaves it alone.
LEMMA MonitorSteps ==
    ASSUME [Next]_vars
    PROVE  Watched!MonitorNext \/ UNCHANGED monitor
BY DEF Next, On, vars

\* What the monitor counts and sums with.
LEMMA MonitorCounts ==
    /\ \A S : Watched!Cardinality(S) = Cardinality(S)
    /\ \A f : Watched!SumFunction(f) = SumFunctionOnSet(f, DOMAIN f)
<1>1. \A S : Watched!Cardinality(S) = Cardinality(S)
  BY DEF Watched!Cardinality, Cardinality
<1>2. \A f : Watched!SumFunction(f) = SumFunctionOnSet(f, DOMAIN f)
  BY DEF Watched!SumFunction, Watched!SumFunctionOnSet, Watched!FoldFunctionOnSet,
     Watched!MapThenFoldSet, SumFunctionOnSet, FoldFunctionOnSet, MapThenFoldSet
<1> QED
  BY <1>1, <1>2

Observations ==
    [time : Nat, kind : Counted \cup {"queue"}, queue : Queues \cup {Nil}, len : Nat]

\* The observations of queue q up to t, and its length then.
KnownAt(obs, q, t) == {i \in DOMAIN obs : obs[i].queue = q /\ obs[i].time <= t}
LenAt(obs, q, t) ==
    IF KnownAt(obs, q, t) = {} THEN 0 ELSE obs[Watched!Max(KnownAt(obs, q, t))].len

\* Its integral from a up to b.
Total(obs, q, a, b) == SumFunctionOnSet([t \in a .. b - 1 |-> LenAt(obs, q, t)], a .. b - 1)

\* The observations of kind c from a up to b.
SeenIn(obs, c, a, b) ==
    Cardinality({i \in DOMAIN obs : obs[i].kind = c /\ a <= obs[i].time /\ obs[i].time < b})

\* The last of some places.
LEMMA MaxIn ==
    ASSUME NEW n \in Nat, NEW S \in SUBSET (1 .. n), S # {}
    PROVE  /\ Watched!Max(S) \in S /\ \A x \in S : x <= Watched!Max(S)
           /\ \A y \in S : (\A x \in S : x <= y) => y = Watched!Max(S)
<1> DEFINE D == {k \in Nat : \E x \in S : x + k = n}
<1>1. D \subseteq Nat /\ D # {}
  <2>1. PICK x \in S : TRUE
    OBVIOUS
  <2>2. n - x \in Nat /\ x + (n - x) = n
    BY <2>1
  <2> QED
    BY <2>1, <2>2
<1> HIDE DEF D
<1>2. PICK k \in D : \A j \in D : k <= j
  BY <1>1, LeastNatural
<1>3. PICK z \in S : z + k = n
  BY <1>2 DEF D
<1>4. \A x \in S : x <= z
  <2> TAKE x \in S
  <2>1. n - x \in Nat /\ x + (n - x) = n
    OBVIOUS
  <2>2. n - x \in D
    BY <2>1 DEF D
  <2>3. k <= n - x
    BY <1>2, <2>2
  <2> QED
    BY <1>2, <1>3, <2>3 DEF D
<1>5. \E y \in S : \A x \in S : y >= x
  BY <1>4
<1>6. Watched!Max(S) \in S /\ \A x \in S : Watched!Max(S) >= x
  BY <1>5 DEF Watched!Max
<1>7. \A x \in S : x \in Int
  OBVIOUS
<1>8. \A x, y \in Int : x >= y => y <= x
  OBVIOUS
<1>9. \A x \in S : x <= Watched!Max(S)
  BY <1>6, <1>7, <1>8
<1>10. \A x, y \in Int : x <= y /\ y <= x => x = y
  OBVIOUS
<1> QED
  BY <1>6, <1>7, <1>9, <1>10

\* The length is a number.
LEMMA LenAtType ==
    ASSUME NEW obs \in Seq(Observations), NEW q, NEW t
    PROVE  LenAt(obs, q, t) \in Nat
<1>1. Len(obs) \in Nat /\ KnownAt(obs, q, t) \subseteq 1 .. Len(obs)
  BY DEF KnownAt
<1>2. \A i \in 1 .. Len(obs) : obs[i].len \in Nat
  <2>1. \A i \in 1 .. Len(obs) : obs[i] \in Observations
    OBVIOUS
  <2> QED
    BY <2>1 DEF Observations
<1> QED
  BY <1>1, <1>2, MaxIn DEF LenAt

\* It stays when nothing is observed any more.
LEMMA LenAtLater ==
    ASSUME NEW obs \in Seq(Observations), NEW q, NEW s \in Nat, NEW t \in Nat, s <= t,
           \A i \in 1 .. Len(obs) : obs[i].time <= s
    PROVE  LenAt(obs, q, t) = LenAt(obs, q, s)
<1>1. \A i \in 1 .. Len(obs) : obs[i].time \in Nat
  <2>1. \A i \in 1 .. Len(obs) : obs[i] \in Observations
    OBVIOUS
  <2> QED
    BY <2>1 DEF Observations
<1>2. KnownAt(obs, q, t) = KnownAt(obs, q, s)
  BY <1>1 DEF KnownAt
<1> QED
  BY <1>2 DEF LenAt

\* An observation more: it counts from its time on, for its queue.
LEMMA LenAtAppend ==
    ASSUME NEW obs \in Seq(Observations), NEW o \in Observations, NEW q, NEW t \in Nat
    PROVE  /\ o.queue # q \/ t < o.time => LenAt(Append(obs, o), q, t) = LenAt(obs, q, t)
           /\ o.queue = q /\ o.time <= t => LenAt(Append(obs, o), q, t) = o.len
<1> DEFINE n == Len(obs) + 1
           more == Append(obs, o)
<1>1. /\ n \in Nat /\ DOMAIN obs = 1 .. n - 1 /\ DOMAIN more = 1 .. n /\ more[n] = o
      /\ \A i \in 1 .. n - 1 : more[i] = obs[i]
      /\ o.time \in Nat
  BY DEF Observations
<1> HIDE DEF n, more
<1>2. ASSUME o.queue # q \/ t < o.time
      PROVE  LenAt(more, q, t) = LenAt(obs, q, t)
  <2>1. KnownAt(more, q, t) = KnownAt(obs, q, t)
    BY <1>1, <1>2 DEF KnownAt
  <2>2. KnownAt(obs, q, t) \in SUBSET (1 .. n - 1) /\ n - 1 \in Nat
    BY <1>1 DEF KnownAt, n
  <2>3. KnownAt(obs, q, t) # {} => Watched!Max(KnownAt(obs, q, t)) \in 1 .. n - 1
    BY <2>2, MaxIn
  <2> QED
    BY <1>1, <2>1, <2>3 DEF LenAt
<1>3. ASSUME o.queue = q, o.time <= t
      PROVE  LenAt(more, q, t) = o.len
  <2>1. n \in KnownAt(more, q, t) /\ KnownAt(more, q, t) \in SUBSET (1 .. n)
    BY <1>1, <1>3 DEF KnownAt, n
  <2>2. n = Watched!Max(KnownAt(more, q, t))
    BY <1>1, <2>1, MaxIn
  <2> QED
    BY <1>1, <2>1, <2>2 DEF LenAt
<1> QED
  BY <1>2, <1>3 DEF more

\* An integral is a number, nothing over no time, and grows by the length.
LEMMA TotalSteps ==
    ASSUME NEW obs \in Seq(Observations), NEW q, NEW a \in Nat
    PROVE  /\ Total(obs, q, a, a) = 0
           /\ \A b \in Nat : Total(obs, q, a, b) \in Nat
           /\ \A b \in Nat : a <= b =>
                 Total(obs, q, a, b + 1) = Total(obs, q, a, b) + LenAt(obs, q, b)
<1> DEFINE f(b) == [t \in a .. b - 1 |-> LenAt(obs, q, t)]
<1>1. \A b \in Nat : /\ IsFiniteSet(a .. b - 1)
                     /\ \A t \in a .. b - 1 : f(b)[t] = LenAt(obs, q, t) /\ f(b)[t] \in Nat
  BY LenAtType, FS_Interval
<1>2. Total(obs, q, a, a) = 0
  <2>1. a .. a - 1 = {}
    OBVIOUS
  <2> QED
    BY <2>1, SumEmpty DEF Total
<1>3. \A b \in Nat : Total(obs, q, a, b) \in Nat
  <2> TAKE b \in Nat
  <2>1. SumFunctionOnSet(f(b), a .. b - 1) \in Nat
    BY <1>1, SumType
  <2> QED
    BY <2>1 DEF Total
<1>4. ASSUME NEW b \in Nat, a <= b
      PROVE  Total(obs, q, a, b + 1) = Total(obs, q, a, b) + LenAt(obs, q, b)
  <2>1. b + 1 \in Nat /\ a .. (b + 1) - 1 = (a .. b - 1) \cup {b} /\ b \notin a .. b - 1
        /\ b \in a .. (b + 1) - 1
    BY <1>4
  <2>2. f(b + 1)[b] = LenAt(obs, q, b) /\ f(b + 1)[b] \in Nat
    BY <1>1, <2>1
  <2>3. IsFiniteSet(a .. b - 1) /\ \A t \in a .. b - 1 : f(b + 1)[t] \in Nat
                                                        /\ f(b + 1)[t] = f(b)[t]
    BY <1>1, <2>1
  <2>4. Total(obs, q, a, b + 1) = SumFunctionOnSet(f(b + 1), (a .. b - 1) \cup {b})
    BY <2>1 DEF Total
  <2>5. Total(obs, q, a, b) = SumFunctionOnSet(f(b), a .. b - 1)
    BY DEF Total
  <2> HIDE DEF f
  <2>6. SumFunctionOnSet(f(b + 1), (a .. b - 1) \cup {b})
           = f(b + 1)[b] + SumFunctionOnSet(f(b + 1), a .. b - 1)
    BY <2>1, <2>2, <2>3, SumAdd
  <2>7. SumFunctionOnSet(f(b + 1), a .. b - 1) = SumFunctionOnSet(f(b), a .. b - 1)
    BY <2>3, SumSame
  <2>8. Total(obs, q, a, b) \in Nat
    BY <1>3
  <2> QED
    BY <2>2, <2>4, <2>5, <2>6, <2>7, <2>8
<1> QED
  BY <1>2, <1>3, <1>4

\* From c on, the length stays l.
Stays(obs, q, c, l) == \A t \in Nat : c <= t => LenAt(obs, q, t) = l

\* It does in an interval from a to b, and the integral grows with it.
IsStretch(obs, q, a, c, b, l) ==
    a \in Nat /\ c \in Nat /\ b \in Nat /\ l \in Nat /\ a <= c /\ c <= b /\ Stays(obs, q, c, l)
IsGrown(obs, q, a, c, b, l) == Total(obs, q, a, b) = Total(obs, q, a, c) + l * (b - c)

\* While the length stays, it grows by so much a moment.
LEMMA TotalStretch ==
    ASSUME NEW obs \in Seq(Observations), NEW q, NEW a, NEW c, NEW b, NEW l,
           IsStretch(obs, q, a, c, b, l)
    PROVE  IsGrown(obs, q, a, c, b, l)
<1>a. a \in Nat /\ c \in Nat /\ b \in Nat /\ l \in Nat /\ a <= c /\ c <= b /\ Stays(obs, q, c, l)
  BY DEF IsStretch
<1> DEFINE B == {k \in Nat : Total(obs, q, a, k) = Total(obs, q, a, c) + l * (k - c)}
<1>1. Total(obs, q, a, c) \in Nat
  BY <1>a, TotalSteps
<1>2. c \in B
  <2>1. l * (c - c) = 0
    BY <1>a
  <2> QED
    BY <1>a, <1>1, <2>1
<1>3. ASSUME NEW k \in c .. b - 1, k \in B
      PROVE  k + 1 \in B
  <2>1. k \in Nat /\ k + 1 \in Nat /\ a <= k /\ c <= k
    BY <1>3, <1>a
  <2>l. LenAt(obs, q, k) = l
    BY <2>1, <1>a DEF Stays
  <2>2. Total(obs, q, a, k + 1) = Total(obs, q, a, k) + l
    BY <1>a, <2>1, <2>l, TotalSteps
  <2>3. k - c \in Nat /\ (k + 1) - c = (k - c) + 1
    BY <1>a, <2>1
  <2>4. \A d \in Nat : l * (d + 1) = l * d + l /\ l * d \in Nat
    BY <1>a
  <2>5. l * ((k + 1) - c) = l * (k - c) + l /\ l * (k - c) \in Nat
    BY <2>3, <2>4
  <2>6. Total(obs, q, a, k) = Total(obs, q, a, c) + l * (k - c)
    BY <1>3
  <2> QED
    BY <1>a, <1>1, <2>1, <2>2, <2>5, <2>6
<1> HIDE DEF B
<1>4. b \in B
  <2>1. \A k \in c .. b : k \in B
    BY <1>a, <1>2, <1>3, UpTo
  <2> QED
    BY <1>a, <2>1
<1> QED
  BY <1>4 DEF B, IsGrown

\* It is of the lengths alone.
LEMMA TotalSame ==
    ASSUME NEW obs \in Seq(Observations), NEW o2, NEW q, NEW a \in Nat, NEW b \in Nat,
           \A t \in Nat : t < b => LenAt(obs, q, t) = LenAt(o2, q, t)
    PROVE  Total(obs, q, a, b) = Total(o2, q, a, b)
<1>1. \A t \in a .. b - 1 : LenAt(obs, q, t) = LenAt(o2, q, t)
  OBVIOUS
<1>2. [t \in a .. b - 1 |-> LenAt(obs, q, t)] = [t \in a .. b - 1 |-> LenAt(o2, q, t)]
  BY <1>1
<1> QED
  BY <1>2 DEF Total

\* An observation more counts in the intervals that its time is in.
LEMMA SeenAppend ==
    ASSUME NEW obs \in Seq(Observations), NEW o \in Observations, NEW c,
           NEW a \in Nat, NEW b \in Nat
    PROVE  /\ SeenIn(obs, c, a, b) \in Nat
           /\ o.kind # c \/ b <= o.time => SeenIn(Append(obs, o), c, a, b) = SeenIn(obs, c, a, b)
           /\ o.kind = c /\ a <= o.time /\ o.time < b =>
                 SeenIn(Append(obs, o), c, a, b) = SeenIn(obs, c, a, b) + 1
<1> DEFINE n == Len(obs) + 1
           more == Append(obs, o)
           In(s) == {i \in DOMAIN s : s[i].kind = c /\ a <= s[i].time /\ s[i].time < b}
<1>1. /\ n \in Nat /\ DOMAIN obs = 1 .. n - 1 /\ DOMAIN more = 1 .. n /\ more[n] = o
      /\ \A i \in 1 .. n - 1 : more[i] = obs[i]
      /\ o.time \in Nat
  BY DEF Observations
<1> HIDE DEF n, more
<1>2. In(obs) \subseteq 1 .. n - 1 /\ n \notin In(obs)
  BY <1>1
<1>3. IsFiniteSet(In(obs))
  <2>1. IsFiniteSet(1 .. n - 1)
    BY <1>1, FS_Interval
  <2> QED
    BY <1>2, <2>1, FS_Subset
<1>4. Cardinality(In(obs)) \in Nat
  BY <1>3, FS_CardinalityType
<1>5. o.kind # c \/ b <= o.time => In(more) = In(obs)
  BY <1>1
<1>6. o.kind = c /\ a <= o.time /\ o.time < b => In(more) = In(obs) \cup {n}
  <2>1. 1 .. n = (1 .. n - 1) \cup {n} /\ n \notin 1 .. n - 1
    BY <1>1 DEF n
  <2> QED
    BY <1>1, <2>1
<1>7. Cardinality(In(obs) \cup {n}) = Cardinality(In(obs)) + 1
  BY <1>2, <1>3, FS_AddElement
<1>8. SeenIn(obs, c, a, b) = Cardinality(In(obs)) /\ SeenIn(more, c, a, b) = Cardinality(In(more))
  BY DEF SeenIn
<1> HIDE DEF In
<1> QED
  BY <1>4, <1>5, <1>6, <1>7, <1>8 DEF more

\* All was observed before b.
ObservedBefore(obs, b) == \A i \in 1 .. Len(obs) : obs[i].time < b

\* Nothing is seen after the last observation, and all of it up to then.
LEMMA SeenBefore ==
    ASSUME NEW obs \in Seq(Observations), NEW c, NEW a \in Nat, NEW b \in Nat, NEW e \in Nat,
           ObservedBefore(obs, b), ObservedBefore(obs, e)
    PROVE  /\ SeenIn(obs, c, b, e) = 0
           /\ SeenIn(obs, c, a, e) = SeenIn(obs, c, a, b)
<1>1. \A i \in 1 .. Len(obs) : obs[i].time \in Nat
  <2>1. \A i \in 1 .. Len(obs) : obs[i] \in Observations
    OBVIOUS
  <2> QED
    BY <2>1 DEF Observations
<1>2. {i \in DOMAIN obs : obs[i].kind = c /\ b <= obs[i].time /\ obs[i].time < e} = {}
  BY <1>1 DEF ObservedBefore
<1>3. {i \in DOMAIN obs : obs[i].kind = c /\ a <= obs[i].time /\ obs[i].time < e}
         = {i \in DOMAIN obs : obs[i].kind = c /\ a <= obs[i].time /\ obs[i].time < b}
  BY <1>1 DEF ObservedBefore
<1> QED
  BY <1>2, <1>3, FS_EmptySet DEF SeenIn

\* The records of the monitor.
Tables(R) == UNION {[S -> R] : S \in SUBSET Queues}
QueueStates == [len : Nat, max : Nat, last_time : Nat, integral : Nat]
Summaries ==
    [start : Nat, end : Nat, counts : [Counted -> Nat], integral : Tables(Nat),
     max : {Watched!Max(S) : S \in SUBSET Nat}, near : BOOLEAN \cup {Nil}]
Monitors ==
    [window_start : Nat, queues : Tables(QueueStates), counts : [Counted -> Nat],
     warm : Nat, recovered_hold : Nat, metastable_persist : Nat,
     post_spike_start : Nat \cup {Nil}, timeline : Seq(Summaries)]

\* What queue state x of q says of the window from ws on,
QueueKnown(x, obs, q, ws) ==
    /\ ws <= x.last_time
    /\ x.integral = Total(obs, q, ws, x.last_time)
    /\ Stays(obs, q, x.last_time, x.len)

QueuesKnown(m, obs) ==
    /\ \A q \in DOMAIN m.queues : QueueKnown(m.queues[q], obs, q, m.window_start)
    /\ \A q \in Queues \ DOMAIN m.queues : Stays(obs, q, 0, 0)

\* the counters of it,
CountsKnown(m, obs) ==
    \A c \in Counted : m.counts[c] = SeenIn(obs, c, m.window_start, Latest + 1)

\* and the summaries of those before.
SummaryKnown(w, obs, i) ==
    /\ w.start = (i - 1) * Window /\ w.end = i * Window
    /\ \A c \in Counted : w.counts[c] = SeenIn(obs, c, w.start, w.end)
    /\ \A q \in DOMAIN w.integral : w.integral[q] = Total(obs, q, w.start, w.end)

TimelineKnown(m, obs) ==
    /\ m.window_start = Len(m.timeline) * Window
    /\ \A i \in 1 .. Len(m.timeline) : SummaryKnown(m.timeline[i], obs, i)

\* The last r windows, and no more, were judged v.
IsStreak(tl, r, v) ==
    /\ r <= Len(tl)
    /\ \A i \in Len(tl) - r + 1 .. Len(tl) : tl[i].near = v
    /\ r < Len(tl) => tl[Len(tl) - r].near # v

StreaksKnown(m) ==
    /\ IsStreak(m.timeline, m.recovered_hold, TRUE)
    /\ IsStreak(m.timeline, m.metastable_persist, FALSE)
    /\ m.warm # Warmup => m.recovered_hold = 0 /\ m.metastable_persist = 0

\* All of it.
Known(m, obs) ==
    /\ m \in Monitors
    /\ QueuesKnown(m, obs) /\ CountsKnown(m, obs) /\ TimelineKnown(m, obs)
    /\ StreaksKnown(m)

\* The queues were brought up to a time in the window, not after t, and nothing was
\* observed after the window.
IsUpTo(m, obs, t) ==
    /\ \A q \in DOMAIN m.queues :
          m.queues[q].last_time <= t /\ m.queues[q].last_time < m.window_start + Window
    /\ ObservedBefore(obs, m.window_start + Window) /\ ObservedBefore(obs, Latest + 1)

-----------------------------------------------------------------------------
\* A table is a function on some of the queues.
LEMMA TableIn ==
    ASSUME NEW R, NEW f
    PROVE  f \in Tables(R) <=> DOMAIN f \subseteq Queues /\ f \in [DOMAIN f -> R]
BY DEF Tables

\* A window more ends a streak or adds to it.
LEMMA StreakAppend ==
    ASSUME NEW tl \in Seq(Summaries), NEW w \in Summaries, NEW r \in Nat, NEW v, IsStreak(tl, r, v)
    PROVE  /\ w.near = v => IsStreak(Append(tl, w), r + 1, v)
           /\ w.near # v => IsStreak(Append(tl, w), 0, v)
<1> DEFINE n == Len(tl)
           more == Append(tl, w)
<1>1. /\ n \in Nat /\ Len(more) = n + 1 /\ more[n + 1] = w
      /\ \A i \in 1 .. n : more[i] = tl[i]
  OBVIOUS
<1>2. /\ r <= n
      /\ \A i \in n - r + 1 .. n : tl[i].near = v
      /\ r < n => tl[n - r].near # v
  BY DEF IsStreak
<1> HIDE DEF n, more
<1>3. ASSUME w.near = v
      PROVE  IsStreak(more, r + 1, v)
  <2>1. r + 1 <= n + 1
    BY <1>1, <1>2
  <2>2. ASSUME NEW i \in (n + 1) - (r + 1) + 1 .. n + 1
        PROVE  more[i].near = v
    <3>1. CASE i = n + 1
      BY <1>1, <1>3, <3>1
    <3>2. CASE i # n + 1
      <4>1. i \in n - r + 1 .. n /\ i \in 1 .. n
        BY <1>1, <1>2, <2>2, <3>2
      <4> QED
        BY <1>1, <1>2, <4>1
    <3> QED
      BY <3>1, <3>2
  <2>3. r + 1 < n + 1 => more[(n + 1) - (r + 1)].near # v
    <3>1. ASSUME r + 1 < n + 1
          PROVE  r < n /\ (n + 1) - (r + 1) = n - r /\ n - r \in 1 .. n
      BY <1>1, <3>1
    <3> QED
      BY <1>1, <1>2, <3>1
  <2> QED
    BY <1>1, <2>1, <2>2, <2>3 DEF IsStreak
<1>4. ASSUME w.near # v
      PROVE  IsStreak(more, 0, v)
  <2>1. /\ 0 <= n + 1 /\ (n + 1) - 0 = n + 1 /\ (n + 1) - 0 + 1 .. n + 1 = {}
        /\ more[n + 1].near # v
    BY <1>1, <1>4
  <2> QED
    BY <1>1, <2>1 DEF IsStreak
<1> QED
  BY <1>3, <1>4 DEF more

\* What flush_window notes.
Summary(m, near) ==
    LET end == m.window_start + Window
        closed == [q \in DOMAIN m.queues |-> Watched!Integrated(m.queues[q], end)]
    IN  [start |-> m.window_start, end |-> end, counts |-> m.counts,
         integral |-> [q \in DOMAIN m.queues |-> closed[q].integral],
         max |-> Watched!Max({0} \cup {closed[q].max : q \in DOMAIN m.queues}),
         near |-> IF m.warm = Warmup THEN near ELSE Nil]

\* Where the streaks stand after a window.
Warmer(m) == IF m.warm = Warmup THEN m.warm ELSE m.warm + 1
Held(m, near) ==
    IF m.warm # Warmup THEN m.recovered_hold ELSE IF near THEN m.recovered_hold + 1 ELSE 0
Persisted(m, near) ==
    IF m.warm # Warmup THEN m.metastable_persist
    ELSE IF near THEN 0 ELSE m.metastable_persist + 1

\* What flush_window leaves.
LEMMA FlushFields ==
    ASSUME NEW m \in Monitors, NEW near
    PROVE  LET end == m.window_start + Window
               f == Watched!FlushWindow(m, near)
               reset == [q \in DOMAIN m.queues |->
                            Watched!ResetQueue(Watched!Integrated(m.queues[q], end), end)]
           IN  /\ f.window_start = end /\ f.queues = reset /\ f.counts = Watched!NoCounts
               /\ f.warm = Warmer(m) /\ f.recovered_hold = Held(m, near)
               /\ f.metastable_persist = Persisted(m, near)
               /\ f.timeline = Append(m.timeline, Summary(m, near))
               /\ /\ end \in Nat /\ reset \in Tables(QueueStates)
                  /\ Watched!NoCounts \in [Counted -> Nat] /\ Warmer(m) \in Nat
                  /\ Held(m, near) \in Nat /\ Persisted(m, near) \in Nat
                  /\ Append(m.timeline, Summary(m, near)) \in Seq(Summaries)
                  => f \in Monitors
<1> DEFINE end == m.window_start + Window
           closed == [q \in DOMAIN m.queues |-> Watched!Integrated(m.queues[q], end)]
           summary == [start |-> m.window_start, end |-> end, counts |-> m.counts,
                       integral |-> [q \in DOMAIN closed |-> closed[q].integral],
                       max |-> Watched!Max({0} \cup {closed[q].max : q \in DOMAIN closed}),
                       near |-> IF m.warm = Warmup THEN near ELSE Nil]
           reset == [q \in DOMAIN closed |-> Watched!ResetQueue(closed[q], end)]
           noted == Append(m.timeline, summary)
           fresh == [q \in DOMAIN m.queues |->
                        Watched!ResetQueue(Watched!Integrated(m.queues[q], end), end)]
           f == Watched!FlushWindow(m, near)
<1>1. DOMAIN closed = DOMAIN m.queues
  OBVIOUS
<1>2. summary = Summary(m, near)
  BY <1>1 DEF Summary
<1>3. reset = fresh
  OBVIOUS
<1>4. f = [m EXCEPT !.window_start = end, !.queues = reset, !.counts = Watched!NoCounts,
                    !.warm = Warmer(m), !.recovered_hold = Held(m, near),
                    !.metastable_persist = Persisted(m, near), !.timeline = noted]
  BY DEF Watched!FlushWindow, Warmer, Held, Persisted
<1>5. noted = Append(m.timeline, Summary(m, near))
  BY <1>2
<1> HIDE DEF reset, noted, end, f, fresh
<1>6. f = [m EXCEPT !.window_start = end, !.queues = fresh, !.counts = Watched!NoCounts,
                    !.warm = Warmer(m), !.recovered_hold = Held(m, near),
                    !.metastable_persist = Persisted(m, near),
                    !.timeline = Append(m.timeline, Summary(m, near))]
  BY <1>3, <1>4, <1>5
<1>7. /\ f.window_start = end /\ f.queues = fresh /\ f.counts = Watched!NoCounts
      /\ f.warm = Warmer(m) /\ f.recovered_hold = Held(m, near)
      /\ f.metastable_persist = Persisted(m, near)
      /\ f.timeline = Append(m.timeline, Summary(m, near))
      /\ /\ end \in Nat /\ fresh \in Tables(QueueStates)
         /\ Watched!NoCounts \in [Counted -> Nat] /\ Warmer(m) \in Nat
         /\ Held(m, near) \in Nat /\ Persisted(m, near) \in Nat
         /\ Append(m.timeline, Summary(m, near)) \in Seq(Summaries)
         => f \in Monitors
  BY <1>6 DEF Monitors
<1> QED
  BY <1>7 DEF end, f, fresh

-----------------------------------------------------------------------------
\* A queue whose state is known, at a later time:
LEMMA IntegratedKnown ==
    ASSUME NEW obs \in Seq(Observations), NEW q, NEW x \in QueueStates, NEW ws \in Nat,
           QueueKnown(x, obs, q, ws), NEW t \in Nat, x.last_time <= t
    PROVE  LET y == Watched!Integrated(x, t) IN
           /\ y \in QueueStates /\ QueueKnown(y, obs, q, ws)
           /\ y.last_time = t /\ y.len = x.len
<1> DEFINE y == Watched!Integrated(x, t)
           l == x.len * (t - x.last_time)
<1>1. /\ x.len \in Nat /\ x.max \in Nat /\ x.last_time \in Nat /\ x.integral \in Nat
      /\ t - x.last_time \in Nat
  BY DEF QueueStates
<1>2. l \in Nat
  <2>1. \A i, j \in Nat : i * j \in Nat
    OBVIOUS
  <2> QED
    BY <1>1, <2>1
<1> HIDE DEF l
<1>3. x.integral + l \in Nat
  BY <1>1, <1>2
<1>4. y \in QueueStates /\ y.len = x.len /\ y.last_time = t /\ y.integral = x.integral + l
  <2>1. y = [x EXCEPT !.integral = x.integral + l, !.last_time = t]
    <3>1. Watched!DurationSince(t, x.last_time) = t - x.last_time
      BY <1>1 DEF Watched!DurationSince
    <3> QED
      BY <3>1 DEF Watched!Integrated, l
  <2>2. \A a \in Nat : LET z == [x EXCEPT !.integral = a, !.last_time = t] IN
           z \in QueueStates /\ z.len = x.len /\ z.last_time = t /\ z.integral = a
    BY DEF QueueStates
  <2> HIDE DEF y
  <2> QED
    BY <1>3, <2>1, <2>2
<1> HIDE DEF y
<1>5. /\ ws <= x.last_time /\ x.integral = Total(obs, q, ws, x.last_time)
      /\ Stays(obs, q, x.last_time, x.len)
  BY DEF QueueKnown
<1>6. Total(obs, q, ws, t) = Total(obs, q, ws, x.last_time) + l
  <2> DEFINE c == x.last_time
             k == x.len
  <2>1. c \in Nat /\ k \in Nat /\ ws <= c /\ c <= t /\ Stays(obs, q, c, k)
    BY <1>1, <1>5
  <2>2. l = k * (t - c)
    BY DEF l
  <2> HIDE DEF c, k
  <2>3. IsStretch(obs, q, ws, c, t, k)
    BY <2>1 DEF IsStretch
  <2>4. IsGrown(obs, q, ws, c, t, k)
    BY <2>3, TotalStretch
  <2> QED
    BY <2>2, <2>4 DEF c, IsGrown
<1>7. Stays(obs, q, t, x.len)
  BY <1>1, <1>5 DEF Stays
<1>8. QueueKnown(y, obs, q, ws)
  BY <1>1, <1>4, <1>5, <1>6, <1>7 DEF QueueKnown
<1> QED
  BY <1>4, <1>8 DEF y

\* and in a new window.
LEMMA ResetKnown ==
    ASSUME NEW obs \in Seq(Observations), NEW q, NEW x \in QueueStates, NEW ws \in Nat,
           QueueKnown(x, obs, q, ws), NEW t \in Nat, x.last_time = t
    PROVE  LET y == Watched!ResetQueue(x, t) IN
           y \in QueueStates /\ QueueKnown(y, obs, q, t) /\ y.last_time = t
<1> DEFINE y == Watched!ResetQueue(x, t)
<1>2. y \in QueueStates /\ y.last_time = t /\ y.integral = 0 /\ y.len = x.len
  BY DEF QueueStates, Watched!ResetQueue
<1> HIDE DEF y
<1>3. Total(obs, q, t, t) = 0
  BY TotalSteps
<1>4. Stays(obs, q, t, x.len)
  BY DEF QueueKnown
<1>5. QueueKnown(y, obs, q, t)
  BY <1>2, <1>3, <1>4 DEF QueueKnown
<1> QED
  BY <1>2, <1>5 DEF y

\* The fields of a monitor.
LEMMA MonitorFields ==
    ASSUME NEW m \in Monitors
    PROVE  /\ m.window_start \in Nat /\ m.counts \in [Counted -> Nat] /\ m.warm \in Nat
           /\ m.recovered_hold \in Nat /\ m.metastable_persist \in Nat
           /\ m.timeline \in Seq(Summaries) /\ Len(m.timeline) \in Nat
           /\ m.post_spike_start \in Nat \cup {Nil}
           /\ DOMAIN m.queues \subseteq Queues
           /\ \A q \in DOMAIN m.queues : m.queues[q] \in QueueStates
           /\ m.window_start + Window \in Nat /\ Window \in Nat /\ Window > 0
<1>1. /\ m.window_start \in Nat /\ m.counts \in [Counted -> Nat] /\ m.warm \in Nat
      /\ m.recovered_hold \in Nat /\ m.metastable_persist \in Nat
      /\ m.timeline \in Seq(Summaries) /\ m.post_spike_start \in Nat \cup {Nil}
      /\ m.queues \in Tables(QueueStates)
  BY DEF Monitors
<1>2. DOMAIN m.queues \subseteq Queues /\ m.queues \in [DOMAIN m.queues -> QueueStates]
  BY <1>1, TableIn
<1>3. \A q \in DOMAIN m.queues : m.queues[q] \in QueueStates
  BY <1>2
<1>4. Window \in Nat /\ Window > 0
  BY MonitorConstants
<1> QED
  BY <1>1, <1>2, <1>3, <1>4

\* The queues at the end of the window.
LEMMA ClosedQueues ==
    ASSUME NEW obs \in Seq(Observations), NEW m \in Monitors, QueuesKnown(m, obs),
           NEW t, IsUpTo(m, obs, t), NEW q \in DOMAIN m.queues
    PROVE  LET end == m.window_start + Window
               y == Watched!Integrated(m.queues[q], end)
               z == Watched!ResetQueue(y, end)
           IN  /\ y \in QueueStates /\ QueueKnown(y, obs, q, m.window_start) /\ y.last_time = end
               /\ y.integral = Total(obs, q, m.window_start, end)
               /\ z \in QueueStates /\ QueueKnown(z, obs, q, end) /\ z.last_time = end
<1> DEFINE end == m.window_start + Window
           x == m.queues[q]
           y == Watched!Integrated(x, end)
<1>1. m.window_start \in Nat /\ end \in Nat /\ x \in QueueStates
  BY MonitorFields
<1>2. QueueKnown(x, obs, q, m.window_start) /\ x.last_time < end
  BY DEF QueuesKnown, IsUpTo
<1>3. x.last_time \in Nat
  BY <1>1 DEF QueueStates
<1> HIDE DEF x, end
<1>4. x.last_time <= end
  BY <1>1, <1>2, <1>3
<1>5. y \in QueueStates /\ QueueKnown(y, obs, q, m.window_start) /\ y.last_time = end
  <2> DEFINE ws == m.window_start
  <2> HIDE DEF ws
  <2>1. ws \in Nat /\ QueueKnown(x, obs, q, ws)
    BY <1>1, <1>2 DEF ws
  <2>a. end \in Nat /\ x \in QueueStates
    BY <1>1
  <2>2. y \in QueueStates /\ QueueKnown(y, obs, q, ws) /\ y.last_time = end
    BY <2>a, <1>4, <2>1, IntegratedKnown
  <2> QED
    BY <2>2 DEF ws
<1> HIDE DEF y
<1>6. y.integral = Total(obs, q, m.window_start, end)
  BY <1>5 DEF QueueKnown
<1>7. LET z == Watched!ResetQueue(y, end) IN
         z \in QueueStates /\ QueueKnown(z, obs, q, end) /\ z.last_time = end
  BY <1>1, <1>5, ResetKnown
<1> QED
  BY <1>5, <1>6, <1>7 DEF x, y, end

\* What is noted of the window is a summary,
LEMMA SummaryIn ==
    ASSUME NEW obs \in Seq(Observations), NEW m \in Monitors, QueuesKnown(m, obs),
           NEW t, IsUpTo(m, obs, t), NEW near \in BOOLEAN
    PROVE  Summary(m, near) \in Summaries
<1> DEFINE end == m.window_start + Window
           closed == [q \in DOMAIN m.queues |-> Watched!Integrated(m.queues[q], end)]
           sums == [q \in DOMAIN m.queues |-> closed[q].integral]
           longest == {0} \cup {closed[q].max : q \in DOMAIN m.queues}
           judged == IF m.warm = Warmup THEN near ELSE Nil
<1>1. m.window_start \in Nat /\ end \in Nat /\ m.counts \in [Counted -> Nat]
      /\ DOMAIN m.queues \subseteq Queues
  BY MonitorFields
<1>2. \A q \in DOMAIN m.queues : closed[q].integral \in Nat /\ closed[q].max \in Nat
  <2> TAKE q \in DOMAIN m.queues
  <2>1. Watched!Integrated(m.queues[q], end) \in QueueStates
    BY ClosedQueues
  <2>2. closed[q] \in QueueStates
    BY <2>1
  <2> QED
    BY <2>2 DEF QueueStates
<1> HIDE DEF closed, end
<1>3. sums \in [DOMAIN m.queues -> Nat] /\ DOMAIN sums = DOMAIN m.queues
  BY <1>2
<1>4. sums \in Tables(Nat)
  BY <1>1, <1>3, TableIn
<1>5. longest \in SUBSET Nat
  BY <1>2
<1>6. Watched!Max(longest) \in {Watched!Max(S) : S \in SUBSET Nat}
  BY <1>5
<1>7. judged \in BOOLEAN \cup {Nil}
  BY Zenon
<1>8. Summary(m, near) = [start |-> m.window_start, end |-> end, counts |-> m.counts,
                          integral |-> sums, max |-> Watched!Max(longest), near |-> judged]
  BY DEF Summary, closed, end
<1> HIDE DEF sums, longest, judged
<1> QED
  BY <1>1, <1>4, <1>6, <1>7, <1>8 DEF Summaries

\* and it is exact.
LEMMA SummaryExact ==
    ASSUME NEW obs \in Seq(Observations), NEW m \in Monitors, QueuesKnown(m, obs),
           CountsKnown(m, obs), TimelineKnown(m, obs), NEW t, IsUpTo(m, obs, t), NEW near
    PROVE  SummaryKnown(Summary(m, near), obs, Len(m.timeline) + 1)
<1> DEFINE end == m.window_start + Window
           n == Len(m.timeline)
           w == Summary(m, near)
<1>1. m.window_start \in Nat /\ end \in Nat /\ n \in Nat /\ Window \in Nat /\ Latest \in Nat
  BY MonitorFields, MonitorConstants
<1>2. /\ w.start = m.window_start /\ w.end = end /\ w.counts = m.counts
      /\ DOMAIN w.integral = DOMAIN m.queues
      /\ \A q \in DOMAIN m.queues :
            w.integral[q] = Watched!Integrated(m.queues[q], end).integral
  BY DEF Summary
<1>3. ASSUME NEW q \in DOMAIN m.queues
      PROVE  w.integral[q] = Total(obs, q, w.start, w.end)
  BY <1>2, <1>3, ClosedQueues
<1>4. w.start = ((n + 1) - 1) * Window /\ w.end = (n + 1) * Window
  <2>1. m.window_start = n * Window
    BY DEF TimelineKnown
  <2>2. (n + 1) - 1 = n /\ (n + 1) * Window = n * Window + Window
    BY <1>1
  <2> HIDE DEF w, n
  <2> QED
    BY <1>2, <2>1, <2>2
<1>5. ASSUME NEW c \in Counted
      PROVE  w.counts[c] = SeenIn(obs, c, w.start, w.end)
  <2>1. m.counts[c] = SeenIn(obs, c, m.window_start, Latest + 1)
    BY DEF CountsKnown
  <2> DEFINE e == Latest + 1
  <2>2. ObservedBefore(obs, end) /\ ObservedBefore(obs, e) /\ e \in Nat
    BY <1>1 DEF IsUpTo
  <2> HIDE DEF end, w, e
  <2>a. end \in Nat /\ m.window_start \in Nat
    BY <1>1
  <2>3. SeenIn(obs, c, m.window_start, e) = SeenIn(obs, c, m.window_start, end)
    BY <2>a, <2>2, SeenBefore
  <2> QED
    BY <1>2, <2>1, <2>3 DEF e
<1> HIDE DEF w, n, end
<1>6. \A q \in DOMAIN w.integral : w.integral[q] = Total(obs, q, w.start, w.end)
  BY <1>2, <1>3
<1>7. SummaryKnown(w, obs, n + 1)
  BY <1>4, <1>5, <1>6 DEF SummaryKnown
<1> QED
  BY <1>7 DEF w, n

\* After a window the streaks are those of the windows again.
LEMMA FlushStreaks ==
    ASSUME NEW m \in Monitors, StreaksKnown(m), NEW near \in BOOLEAN, NEW w \in Summaries,
           w.near = IF m.warm = Warmup THEN near ELSE Nil
    PROVE  /\ IsStreak(Append(m.timeline, w), Held(m, near), TRUE)
           /\ IsStreak(Append(m.timeline, w), Persisted(m, near), FALSE)
           /\ Warmer(m) # Warmup => Held(m, near) = 0 /\ Persisted(m, near) = 0
           /\ Warmer(m) \in Nat /\ Held(m, near) \in Nat /\ Persisted(m, near) \in Nat
<1> DEFINE r == m.recovered_hold
           s == m.metastable_persist
           tl == m.timeline
<1>1. /\ r \in Nat /\ s \in Nat /\ tl \in Seq(Summaries) /\ m.warm \in Nat
      /\ IsStreak(tl, r, TRUE) /\ IsStreak(tl, s, FALSE)
      /\ m.warm # Warmup => r = 0 /\ s = 0
  BY MonitorFields DEF StreaksKnown
<1> HIDE DEF r, s, tl
<1>2. /\ w.near = TRUE => IsStreak(Append(tl, w), r + 1, TRUE)
      /\ w.near # TRUE => IsStreak(Append(tl, w), 0, TRUE)
  BY <1>1, StreakAppend
<1>3. /\ w.near = FALSE => IsStreak(Append(tl, w), s + 1, FALSE)
      /\ w.near # FALSE => IsStreak(Append(tl, w), 0, FALSE)
  BY <1>1, StreakAppend
<1>4. Nil # TRUE /\ Nil # FALSE
  BY MonitorConstants
<1>5. CASE m.warm # Warmup
  <2>1. w.near = Nil
    BY <1>5
  <2>2. w.near # TRUE /\ w.near # FALSE
    BY <1>4, <2>1, Zenon
  <2>3. Held(m, near) = 0 /\ Persisted(m, near) = 0 /\ Warmer(m) \in Nat
    BY <1>1, <1>5 DEF Held, Persisted, Warmer, r, s
  <2>4. IsStreak(Append(tl, w), 0, TRUE) /\ IsStreak(Append(tl, w), 0, FALSE)
    BY <1>2, <1>3, <2>2
  <2>8. /\ IsStreak(Append(m.timeline, w), Held(m, near), TRUE)
        /\ IsStreak(Append(m.timeline, w), Persisted(m, near), FALSE)
    BY <2>3, <2>4, Zenon DEF tl
  <2>9. /\ Warmer(m) # Warmup => Held(m, near) = 0 /\ Persisted(m, near) = 0
        /\ Warmer(m) \in Nat /\ Held(m, near) \in Nat /\ Persisted(m, near) \in Nat
    BY <2>3
  <2> QED
    BY <2>8, <2>9
<1>6. CASE m.warm = Warmup /\ near = TRUE
  <2>1. w.near = TRUE /\ w.near # FALSE
    BY <1>6
  <2>2. Held(m, near) = r + 1 /\ Persisted(m, near) = 0 /\ Warmer(m) = Warmup
    BY <1>6 DEF Held, Persisted, Warmer, r, s
  <2>3. IsStreak(Append(tl, w), r + 1, TRUE) /\ IsStreak(Append(tl, w), 0, FALSE)
    BY <1>2, <1>3, <2>1
  <2>8. /\ IsStreak(Append(m.timeline, w), Held(m, near), TRUE)
        /\ IsStreak(Append(m.timeline, w), Persisted(m, near), FALSE)
    BY <2>2, <2>3, Zenon DEF tl
  <2>9. /\ Warmer(m) # Warmup => Held(m, near) = 0 /\ Persisted(m, near) = 0
        /\ Warmer(m) \in Nat /\ Held(m, near) \in Nat /\ Persisted(m, near) \in Nat
    BY <1>1, <1>6, <2>2
  <2> QED
    BY <2>8, <2>9
<1>7. CASE m.warm = Warmup /\ near = FALSE
  <2>1. w.near = FALSE /\ w.near # TRUE
    BY <1>7
  <2>2. Held(m, near) = 0 /\ Persisted(m, near) = s + 1 /\ Warmer(m) = Warmup
    BY <1>7 DEF Held, Persisted, Warmer, r, s
  <2>3. IsStreak(Append(tl, w), 0, TRUE) /\ IsStreak(Append(tl, w), s + 1, FALSE)
    BY <1>2, <1>3, <2>1
  <2>8. /\ IsStreak(Append(m.timeline, w), Held(m, near), TRUE)
        /\ IsStreak(Append(m.timeline, w), Persisted(m, near), FALSE)
    BY <2>2, <2>3, Zenon DEF tl
  <2>9. /\ Warmer(m) # Warmup => Held(m, near) = 0 /\ Persisted(m, near) = 0
        /\ Warmer(m) \in Nat /\ Held(m, near) \in Nat /\ Persisted(m, near) \in Nat
    BY <1>1, <1>7, <2>2
  <2> QED
    BY <2>8, <2>9
<1> QED
  BY <1>5, <1>6, <1>7

\* The state after a window is known again.
LEMMA FlushKnown ==
    ASSUME NEW obs \in Seq(Observations), NEW m, Known(m, obs), NEW t, IsUpTo(m, obs, t),
           NEW near \in BOOLEAN
    PROVE  LET f == Watched!FlushWindow(m, near) IN
           /\ Known(f, obs) /\ f.window_start = m.window_start + Window
           /\ \A q \in DOMAIN f.queues : f.queues[q].last_time = f.window_start
<1> DEFINE end == m.window_start + Window
           f == Watched!FlushWindow(m, near)
           w == Summary(m, near)
           reset == [q \in DOMAIN m.queues |->
                        Watched!ResetQueue(Watched!Integrated(m.queues[q], end), end)]
           n == Len(m.timeline)
<1>1. /\ m \in Monitors /\ QueuesKnown(m, obs) /\ CountsKnown(m, obs) /\ TimelineKnown(m, obs)
      /\ StreaksKnown(m)
  BY DEF Known
<1>2. end \in Nat /\ n \in Nat /\ Window \in Nat /\ m.timeline \in Seq(Summaries)
      /\ DOMAIN m.queues \subseteq Queues
  BY <1>1, MonitorFields
<1>3. w \in Summaries /\ SummaryKnown(w, obs, n + 1)
  BY <1>1, SummaryIn, SummaryExact
<1>4. w.near = IF m.warm = Warmup THEN near ELSE Nil
  BY DEF Summary
<1>5. /\ DOMAIN reset = DOMAIN m.queues
      /\ \A q \in DOMAIN m.queues : reset[q] \in QueueStates /\ QueueKnown(reset[q], obs, q, end)
                                    /\ reset[q].last_time = end
  BY <1>1, ClosedQueues
<1> HIDE DEF end, w, reset, n
<1>6. reset \in Tables(QueueStates)
  <2>1. reset \in [DOMAIN reset -> QueueStates]
    BY <1>5 DEF reset
  <2> QED
    BY <1>2, <1>5, <2>1, TableIn
<1>7. /\ IsStreak(Append(m.timeline, w), Held(m, near), TRUE)
      /\ IsStreak(Append(m.timeline, w), Persisted(m, near), FALSE)
      /\ Warmer(m) # Warmup => Held(m, near) = 0 /\ Persisted(m, near) = 0
      /\ Warmer(m) \in Nat /\ Held(m, near) \in Nat /\ Persisted(m, near) \in Nat
  BY <1>1, <1>3, <1>4, FlushStreaks
<1>8. Append(m.timeline, w) \in Seq(Summaries) /\ Watched!NoCounts \in [Counted -> Nat]
  BY <1>2, <1>3 DEF Watched!NoCounts
<1>9. /\ f.window_start = end /\ f.queues = reset /\ f.counts = Watched!NoCounts
      /\ f.warm = Warmer(m) /\ f.recovered_hold = Held(m, near)
      /\ f.metastable_persist = Persisted(m, near)
      /\ f.timeline = Append(m.timeline, w)
      /\ /\ end \in Nat /\ reset \in Tables(QueueStates)
         /\ Watched!NoCounts \in [Counted -> Nat] /\ Warmer(m) \in Nat
         /\ Held(m, near) \in Nat /\ Persisted(m, near) \in Nat
         /\ Append(m.timeline, w) \in Seq(Summaries)
         => f \in Monitors
  BY <1>1, FlushFields DEF end, reset, w
<1>10. f \in Monitors
  BY <1>2, <1>6, <1>7, <1>8, <1>9
<1> HIDE DEF f
<1>11. QueuesKnown(f, obs)
  BY <1>1, <1>5, <1>9 DEF QueuesKnown
<1>12. CountsKnown(f, obs)
  <2> DEFINE e == Latest + 1
  <2>1. ObservedBefore(obs, end) /\ ObservedBefore(obs, e) /\ e \in Nat /\ end \in Nat
    BY <1>2, MonitorConstants DEF IsUpTo, end
  <2> HIDE DEF e
  <2>2. \A c \in Counted : SeenIn(obs, c, end, e) = 0
    BY <2>1, SeenBefore
  <2>3. \A c \in Counted : f.counts[c] = 0
    BY <1>9 DEF Watched!NoCounts
  <2> QED
    BY <1>9, <2>2, <2>3 DEF CountsKnown, e
<1>13. TimelineKnown(f, obs)
  <2>1. /\ Len(f.timeline) = n + 1 /\ f.timeline[n + 1] = w
        /\ \A i \in 1 .. n : f.timeline[i] = m.timeline[i]
    BY <1>2, <1>3, <1>9 DEF n
  <2>2. m.window_start = n * Window /\ \A i \in 1 .. n : SummaryKnown(m.timeline[i], obs, i)
    BY <1>1 DEF TimelineKnown, n
  <2>3. f.window_start = (n + 1) * Window
    <3>1. (n + 1) * Window = n * Window + Window
      BY <1>2
    <3> QED
      BY <1>9, <2>2, <3>1 DEF end
  <2>4. ASSUME NEW i \in 1 .. n + 1
        PROVE  SummaryKnown(f.timeline[i], obs, i)
    <3>1. CASE i = n + 1
      BY <1>3, <2>1, <3>1
    <3>2. CASE i # n + 1
      <4>1. i \in 1 .. n
        BY <1>2, <3>2
      <4> QED
        BY <2>1, <2>2, <4>1
    <3> QED
      BY <3>1, <3>2
  <2> QED
    BY <2>1, <2>3, <2>4 DEF TimelineKnown
<1>14. StreaksKnown(f)
  BY <1>7, <1>9 DEF StreaksKnown
<1>15. \A q \in DOMAIN f.queues : f.queues[q].last_time = f.window_start
  BY <1>5, <1>9
<1>16. Known(f, obs)
  BY <1>10, <1>11, <1>12, <1>13, <1>14 DEF Known
<1> QED
  BY <1>9, <1>15, <1>16 DEF f, end

\* g[k] is the monitor after k windows.
IsFlushes(g, m, nears, n) ==
    g = [k \in 0 .. n |-> IF k = 0 THEN m ELSE Watched!FlushWindow(g[k - 1], nears[k])]

HasFlushes(m, nears, n) == \E g : IsFlushes(g, m, nears, n)

\* There are such monitors.
LEMMA FlushesExist ==
    ASSUME NEW m, NEW nears, NEW n \in Nat
    PROVE  HasFlushes(m, nears, n)
<1> DEFINE B == {k \in Nat : HasFlushes(m, nears, k)}
<1>1. 0 \in B
  <2> DEFINE g == [k \in 0 .. 0 |-> m]
  <2>1. g = [k \in 0 .. 0 |-> IF k = 0 THEN m ELSE Watched!FlushWindow(g[k - 1], nears[k])]
    OBVIOUS
  <2>2. IsFlushes(g, m, nears, 0)
    BY <2>1 DEF IsFlushes
  <2> HIDE DEF g
  <2> QED
    BY <2>2 DEF HasFlushes
<1>2. ASSUME NEW j \in 0 .. n - 1, j \in B
      PROVE  j + 1 \in B
  <2>1. PICK g : IsFlushes(g, m, nears, j)
    BY <1>2 DEF HasFlushes
  <2> DEFINE h == [k \in 0 .. j + 1 |-> IF k = j + 1 THEN Watched!FlushWindow(g[j], nears[j + 1])
                                        ELSE g[k]]
  <2>2. \A k \in 0 .. j :
           g[k] = IF k = 0 THEN m ELSE Watched!FlushWindow(g[k - 1], nears[k])
    BY <2>1 DEF IsFlushes
  <2>3. ASSUME NEW k \in 0 .. j + 1
        PROVE  h[k] = IF k = 0 THEN m ELSE Watched!FlushWindow(h[k - 1], nears[k])
    <3>1. CASE k = j + 1
      <4>1. k # 0 /\ k - 1 = j /\ j \in 0 .. j + 1 /\ j # j + 1
        BY <3>1
      <4>2. h[k - 1] = g[j] /\ h[k] = Watched!FlushWindow(g[j], nears[j + 1])
        BY <3>1, <4>1
      <4> QED
        BY <3>1, <4>1, <4>2
    <3>2. CASE k = 0
      <4>1. h[k] = g[0] /\ g[0] = m
        BY <2>2, <3>2
      <4> QED
        BY <3>2, <4>1
    <3>3. CASE k # 0 /\ k # j + 1
      <4>1. k \in 0 .. j /\ k - 1 \in 0 .. j + 1 /\ k - 1 # j + 1
        BY <3>3
      <4>2. h[k] = g[k] /\ h[k - 1] = g[k - 1]
        BY <3>3, <4>1
      <4>3. g[k] = Watched!FlushWindow(g[k - 1], nears[k])
        BY <2>2, <3>3, <4>1
      <4> QED
        BY <3>3, <4>2, <4>3
    <3> QED
      BY <3>1, <3>2, <3>3
  <2>4. h = [k \in 0 .. j + 1 |-> IF k = 0 THEN m ELSE Watched!FlushWindow(h[k - 1], nears[k])]
    <3>1. h = [k \in 0 .. j + 1 |-> h[k]]
      OBVIOUS
    <3> HIDE DEF h
    <3> QED
      BY <2>3, <3>1
  <2>5. IsFlushes(h, m, nears, j + 1)
    BY <2>4 DEF IsFlushes
  <2> HIDE DEF h
  <2> QED
    BY <2>5 DEF HasFlushes
<1> HIDE DEF B
<1>3. \A k \in 0 .. n : k \in B
  <2>1. 0 \in Nat /\ 0 <= n
    OBVIOUS
  <2> QED
    BY <1>1, <1>2, <2>1, UpTo
<1>4. n \in B
  BY <1>3
<1> QED
  BY <1>4 DEF B

\* The queues of monitor f brought up to t.
Upped(f, t) == [f EXCEPT !.queues = [q \in DOMAIN f.queues |-> Watched!Integrated(f.queues[q], t)]]

\* flush_up_to leaves the last of them, brought up to t.
LEMMA FlushUpToIs ==
    ASSUME NEW m, NEW t, NEW nears, Len(nears) \in Nat
    PROVE  \E g : IsFlushes(g, m, nears, Len(nears))
                  /\ Watched!FlushUpTo(m, t, nears) = Upped(g[Len(nears)], t)
<1> DEFINE g == CHOOSE g : IsFlushes(g, m, nears, Len(nears))
<1>1. IsFlushes(g, m, nears, Len(nears))
  BY FlushesExist DEF HasFlushes
<1>2. Watched!FlushUpTo(m, t, nears) = Upped(g[Len(nears)], t)
  BY DEF Watched!FlushUpTo, Upped, IsFlushes
<1> HIDE DEF g
<1> QED
  BY <1>1, <1>2

\* How many windows are over.
LEMMA WindowsOverIs ==
    ASSUME NEW a \in Nat, NEW t \in Nat, a <= t, NEW W \in Nat, W > 0
    PROVE  LET n == (t - a) \div W IN
           n \in Nat /\ a + n * W <= t /\ t < a + n * W + W
<1> DEFINE d == t - a
<1>1. d \in Nat /\ W \in Nat \ {0} /\ t = a + d
  OBVIOUS
<1> HIDE DEF d
<1>2. d \div W \in Nat /\ d = (d \div W) * W + (d % W) /\ d % W \in 0 .. W - 1
  BY <1>1
<1>3. (d \div W) * W \in Nat
  BY <1>2
<1> DEFINE p2 == (d \div W) * W
<1>4. p2 <= d /\ d < p2 + W
  BY <1>2, <1>3, <1>1
<1> QED
  BY <1>1, <1>2, <1>3, <1>4 DEF d

\* What was observed before a time was so before a later one.
LEMMA ObservedLater ==
    ASSUME NEW obs \in Seq(Observations), NEW a \in Nat, NEW b \in Nat, a <= b,
           ObservedBefore(obs, a)
    PROVE  ObservedBefore(obs, b)
<1>1. \A i \in 1 .. Len(obs) : obs[i].time \in Nat
  <2>1. \A i \in 1 .. Len(obs) : obs[i] \in Observations
    OBVIOUS
  <2> QED
    BY <2>1 DEF Observations
<1> QED
  BY <1>1 DEF ObservedBefore

\* Up to t a window more can be flushed if it is over then.
LEMMA NextWindow ==
    ASSUME NEW obs \in Seq(Observations), NEW m, Known(m, obs), NEW t \in Nat, IsUpTo(m, obs, t),
           m.window_start + Window <= t, NEW near \in BOOLEAN
    PROVE  LET f == Watched!FlushWindow(m, near) IN
           Known(f, obs) /\ IsUpTo(f, obs, t) /\ f.window_start = m.window_start + Window
<1> DEFINE f == Watched!FlushWindow(m, near)
           end == m.window_start + Window
<1>1. /\ Known(f, obs) /\ f.window_start = end
      /\ \A q \in DOMAIN f.queues : f.queues[q].last_time = f.window_start
  BY FlushKnown
<1>2. end \in Nat /\ Window \in Nat /\ Window > 0 /\ end + Window \in Nat /\ end <= end + Window
  BY MonitorFields DEF Known
<1>3. ObservedBefore(obs, end) /\ ObservedBefore(obs, Latest + 1)
  BY DEF IsUpTo
<1> HIDE DEF f
<1>4. ObservedBefore(obs, end + Window)
  <2> DEFINE l == end + Window
  <2>1. end \in Nat /\ l \in Nat /\ end <= l
    BY <1>2
  <2> HIDE DEF end, l
  <2>2. ObservedBefore(obs, l)
    BY <1>3, <2>1, ObservedLater
  <2> QED
    BY <2>2 DEF l
<1>5. end <= t /\ end < end + Window
  BY <1>2
<1> HIDE DEF end
<1>6. \A q \in DOMAIN f.queues : f.queues[q].last_time <= t
                                 /\ f.queues[q].last_time < f.window_start + Window
  BY <1>1, <1>5
<1>7. IsUpTo(f, obs, t)
  BY <1>1, <1>3, <1>4, <1>6 DEF IsUpTo
<1> QED
  BY <1>1, <1>7 DEF f, end

\* The queues brought up to a time in the window.
LEMMA UppedKnown ==
    ASSUME NEW obs \in Seq(Observations), NEW m, Known(m, obs), NEW t \in Nat, IsUpTo(m, obs, t),
           m.window_start <= t, t < m.window_start + Window
    PROVE  LET f == Upped(m, t) IN
           /\ Known(f, obs) /\ IsUpTo(f, obs, t) /\ f.window_start = m.window_start
           /\ \A q \in DOMAIN f.queues : f.queues[q].last_time = t
<1> DEFINE qs == [q \in DOMAIN m.queues |-> Watched!Integrated(m.queues[q], t)]
           f == Upped(m, t)
<1>1. /\ m \in Monitors /\ QueuesKnown(m, obs) /\ CountsKnown(m, obs) /\ TimelineKnown(m, obs)
      /\ StreaksKnown(m)
  BY DEF Known
<1>2. m.window_start \in Nat /\ DOMAIN m.queues \subseteq Queues
  BY <1>1, MonitorFields
<1>3. ASSUME NEW q \in DOMAIN m.queues
      PROVE  LET y == Watched!Integrated(m.queues[q], t) IN
             y \in QueueStates /\ QueueKnown(y, obs, q, m.window_start) /\ y.last_time = t
  <2> DEFINE x == m.queues[q]
             ws == m.window_start
  <2>1. x \in QueueStates /\ QueueKnown(x, obs, q, ws) /\ x.last_time <= t /\ ws \in Nat
    BY <1>1, <1>2, MonitorFields DEF QueuesKnown, IsUpTo
  <2> HIDE DEF x, ws
  <2>2. LET y == Watched!Integrated(x, t) IN
        y \in QueueStates /\ QueueKnown(y, obs, q, ws) /\ y.last_time = t
    BY <2>1, IntegratedKnown
  <2> QED
    BY <2>2 DEF x, ws
<1>4. /\ DOMAIN qs = DOMAIN m.queues /\ qs \in [DOMAIN qs -> QueueStates]
      /\ \A q \in DOMAIN qs : QueueKnown(qs[q], obs, q, m.window_start) /\ qs[q].last_time = t
  BY <1>3
<1> HIDE DEF qs
<1>5. qs \in Tables(QueueStates)
  BY <1>2, <1>4, TableIn
<1>6. f = [m EXCEPT !.queues = qs]
  BY DEF Upped, qs
<1>7. /\ f \in Monitors /\ f.queues = qs /\ f.window_start = m.window_start
      /\ f.counts = m.counts /\ f.timeline = m.timeline /\ f.warm = m.warm
      /\ f.recovered_hold = m.recovered_hold /\ f.metastable_persist = m.metastable_persist
  <2> HIDE DEF f
  <2> QED
    BY <1>1, <1>5, <1>6 DEF Monitors
<1> HIDE DEF f
<1>8. QueuesKnown(f, obs)
  BY <1>1, <1>4, <1>7 DEF QueuesKnown
<1>9. CountsKnown(f, obs) /\ TimelineKnown(f, obs) /\ StreaksKnown(f)
  BY <1>1, <1>7, Zenon DEF CountsKnown, TimelineKnown, StreaksKnown
<1>10. \A q \in DOMAIN f.queues : f.queues[q].last_time = t
  BY <1>4, <1>7
<1>11. IsUpTo(f, obs, t)
  BY <1>7, <1>10 DEF IsUpTo
<1>12. Known(f, obs)
  BY <1>7, <1>8, <1>9 DEF Known
<1> QED
  BY <1>7, <1>10, <1>11, <1>12 DEF f

\* flush_up_to leaves the monitor in the window of t, with all known.
LEMMA FlushUpToKnown ==
    ASSUME NEW obs \in Seq(Observations), NEW m, Known(m, obs), NEW t \in Nat, IsUpTo(m, obs, t),
           m.window_start <= t, NEW nears \in [1 .. Watched!WindowsOver(m, t) -> BOOLEAN]
    PROVE  LET f == Watched!FlushUpTo(m, t, nears) IN
           /\ Known(f, obs) /\ IsUpTo(f, obs, t)
           /\ f.window_start <= t /\ t < f.window_start + Window
           /\ \A q \in DOMAIN f.queues : f.queues[q].last_time = t
<1> DEFINE n == Watched!WindowsOver(m, t)
           ws == m.window_start
<1>1. ws \in Nat /\ Window \in Nat /\ Window > 0 /\ ws <= t
  BY MonitorFields DEF Known
<1>2. n \in Nat /\ ws + n * Window <= t /\ t < ws + n * Window + Window
  <2> HIDE DEF ws
  <2>1. n = (t - ws) \div Window
    BY <1>1 DEF Watched!WindowsOver, Watched!DurationSince, ws
  <2> QED
    BY <1>1, <2>1, WindowsOverIs
<1>3. Len(nears) = n /\ \A k \in 1 .. n : nears[k] \in BOOLEAN
  <2>1. nears \in Seq(BOOLEAN) /\ Len(nears) = n
    BY <1>2
  <2> QED
    BY <2>1
<1>4. PICK g : IsFlushes(g, m, nears, n) /\ Watched!FlushUpTo(m, t, nears) = Upped(g[n], t)
  BY <1>2, <1>3, FlushUpToIs
<1>5. g[0] = m /\ \A k \in 1 .. n : g[k] = Watched!FlushWindow(g[k - 1], nears[k])
  BY <1>2, <1>4 DEF IsFlushes
<1> HIDE DEF n, ws
<1> DEFINE B == {k \in Nat : /\ Known(g[k], obs) /\ IsUpTo(g[k], obs, t)
                             /\ g[k].window_start = ws + k * Window}
<1>6. 0 \in B
  <2>1. ws = ws + 0 * Window
    BY <1>1
  <2> QED
    BY <1>5, <2>1 DEF ws
<1>7. ASSUME NEW k \in 0 .. n - 1, k \in B
      PROVE  k + 1 \in B
  <2>1. k + 1 \in 1 .. n /\ (k + 1) - 1 = k /\ k \in Nat /\ k + 1 \in Nat
    BY <1>2
  <2>2. g[k + 1] = Watched!FlushWindow(g[k], nears[k + 1]) /\ nears[k + 1] \in BOOLEAN
    BY <1>3, <1>5, <2>1
  <2>3. ws + (k + 1) * Window = (ws + k * Window) + Window /\ (k + 1) * Window <= n * Window
    <3>1. (k + 1) * Window = k * Window + Window /\ k * Window \in Nat
      BY <1>1, <2>1
    <3>2. n - (k + 1) \in Nat /\ n * Window \in Nat
      BY <1>1, <1>2, <2>1
    <3>3. n * Window = (k + 1) * Window + (n - (k + 1)) * Window
      BY <1>1, <1>2, <2>1
    <3>4. (n - (k + 1)) * Window \in Nat
      BY <1>1, <3>2
    <3> QED
      BY <1>1, <3>1, <3>2, <3>3, <3>4
  <2>4. Known(g[k], obs) /\ IsUpTo(g[k], obs, t) /\ g[k].window_start = ws + k * Window
    BY <1>7
  <2>5. g[k].window_start + Window <= t
    <3>1. n * Window \in Nat /\ (k + 1) * Window \in Nat
      BY <1>1, <1>2, <2>1
    <3>2. ws + (k + 1) * Window <= t
      BY <1>1, <1>2, <2>3, <3>1
    <3> QED
      BY <2>3, <2>4, <3>2
  <2>6. /\ Known(g[k + 1], obs) /\ IsUpTo(g[k + 1], obs, t)
        /\ g[k + 1].window_start = g[k].window_start + Window
    BY <2>2, <2>4, <2>5, NextWindow
  <2> QED
    BY <2>1, <2>3, <2>4, <2>6
<1> HIDE DEF B
<1>8. n \in B
  <2>1. 0 \in Nat /\ 0 <= n /\ n \in 0 .. n
    BY <1>2
  <2>2. \A k \in 0 .. n : k \in B
    BY <1>2, <1>6, <1>7, <2>1, UpTo
  <2> QED
    BY <2>1, <2>2
<1>9. Known(g[n], obs) /\ IsUpTo(g[n], obs, t) /\ g[n].window_start = ws + n * Window
  BY <1>8 DEF B
<1>10. g[n].window_start <= t /\ t < g[n].window_start + Window
  BY <1>2, <1>9
<1>11. LET f == Upped(g[n], t) IN
       /\ Known(f, obs) /\ IsUpTo(f, obs, t) /\ f.window_start = g[n].window_start
       /\ \A q \in DOMAIN f.queues : f.queues[q].last_time = t
  BY <1>9, <1>10, UppedKnown
<1> QED
  BY <1>4, <1>10, <1>11

\* The monitor is brought up to the time of the simulation, with all known.
IsCurrent(m, obs, t) ==
    /\ obs \in Seq(Observations) /\ t \in Nat /\ t <= Latest
    /\ ObservedBefore(obs, t + 1)
    /\ Known(m, obs)
    /\ \A q \in DOMAIN m.queues : m.queues[q].last_time = t
    /\ m.window_start <= t /\ t < m.window_start + Window

\* What it reports is so, although its queues may have been set back.
IsReported(m, obs, t) ==
    /\ obs \in Seq(Observations) /\ ObservedBefore(obs, t + 1)
    /\ m \in Monitors /\ CountsKnown(m, obs) /\ TimelineKnown(m, obs) /\ StreaksKnown(m)

\* In a step the monitor may be behind the clock, and is brought up to it by whoever
\* observes; then it is current until the run is over.
MonitorInv ==
    /\ phase \in {"setup", "step", "between", "over"}
    /\ sim_time \in Nat /\ sim_time <= Latest
    /\ phase # "over" => \E s \in Nat : s <= sim_time /\ IsCurrent(mon, observations, s)
    /\ phase \in {"setup", "between"} => IsCurrent(mon, observations, sim_time)
    /\ phase = "over" => /\ IsReported(mon, observations, sim_time)
                         /\ sim_time < mon.window_start + Window

\* What was observed is within the window then,
LEMMA CurrentIsUpTo ==
    ASSUME NEW m, NEW obs, NEW s, IsCurrent(m, obs, s), NEW t \in Nat, s <= t
    PROVE  IsUpTo(m, obs, t) /\ m.window_start <= t
<1>1. /\ obs \in Seq(Observations) /\ s \in Nat /\ s <= Latest /\ ObservedBefore(obs, s + 1)
      /\ \A q \in DOMAIN m.queues : m.queues[q].last_time = s
      /\ m.window_start <= s /\ s < m.window_start + Window
      /\ m.window_start \in Nat /\ Latest \in Nat /\ Window \in Nat
  BY MonitorFields, MonitorConstants DEF IsCurrent, Known
<1> DEFINE a == s + 1
           b == m.window_start + Window
           c == Latest + 1
<1>2. a \in Nat /\ b \in Nat /\ c \in Nat /\ a <= b /\ a <= c /\ ObservedBefore(obs, a)
  BY <1>1
<1> HIDE DEF a, b, c
<1>3. ObservedBefore(obs, b) /\ ObservedBefore(obs, c)
  <2>1. obs \in Seq(Observations)
    BY <1>1
  <2>2. ObservedBefore(obs, b)
    BY <1>2, <2>1, ObservedLater
  <2>3. ObservedBefore(obs, c)
    BY <1>2, <2>1, ObservedLater
  <2> QED
    BY <2>2, <2>3
<1>4. m.window_start <= t /\ s < m.window_start + Window
  BY <1>1
<1>5. \A q \in DOMAIN m.queues : m.queues[q].last_time <= t
                                 /\ m.queues[q].last_time < m.window_start + Window
  BY <1>1
<1> QED
  BY <1>3, <1>4, <1>5 DEF IsUpTo, b, c

\* and a flush keeps it so.
LEMMA FlushCurrent ==
    ASSUME NEW s, IsCurrent(mon, observations, s), NEW t \in Nat, s <= t, t <= Latest,
           NEW m \in Watched!Flushed(t)
    PROVE  IsCurrent(m, observations, t)
<1>1. PICK nears \in [1 .. Watched!WindowsOver(mon, t) -> BOOLEAN] :
         m = Watched!FlushUpTo(mon, t, nears)
  BY DEF Watched!Flushed
<1>2. IsUpTo(mon, observations, t) /\ mon.window_start <= t
  BY CurrentIsUpTo
<1>3. /\ observations \in Seq(Observations) /\ Known(mon, observations) /\ s \in Nat
      /\ ObservedBefore(observations, s + 1)
  BY DEF IsCurrent
<1>4. /\ Known(m, observations) /\ IsUpTo(m, observations, t)
      /\ m.window_start <= t /\ t < m.window_start + Window
      /\ \A q \in DOMAIN m.queues : m.queues[q].last_time = t
  BY <1>1, <1>2, <1>3, FlushUpToKnown
<1>5. ObservedBefore(observations, t + 1)
  <2> DEFINE a == s + 1
             b == t + 1
  <2>1. a \in Nat /\ b \in Nat /\ a <= b /\ ObservedBefore(observations, a)
    BY <1>3
  <2>2. observations \in Seq(Observations)
    BY <1>3
  <2> HIDE DEF a, b
  <2>3. ObservedBefore(observations, b)
    BY <2>1, <2>2, ObservedLater
  <2> QED
    BY <2>3 DEF b
<1> QED
  BY <1>3, <1>4, <1>5 DEF IsCurrent

-----------------------------------------------------------------------------
\* An observation at the present leaves what is known of earlier windows,
LEMMA TimelineAppend ==
    ASSUME NEW m, NEW obs, NEW t, IsCurrent(m, obs, t), NEW o \in Observations, o.time = t
    PROVE  TimelineKnown(m, Append(obs, o))
<1> DEFINE n == Len(m.timeline)
           more == Append(obs, o)
<1>1. /\ obs \in Seq(Observations) /\ t \in Nat /\ m \in Monitors /\ TimelineKnown(m, obs)
      /\ m.window_start <= t
  BY DEF IsCurrent, Known
<1>2. n \in Nat /\ Window \in Nat /\ Window > 0
  BY <1>1, MonitorFields
<1>3. m.window_start = n * Window /\ \A i \in 1 .. n : SummaryKnown(m.timeline[i], obs, i)
  BY <1>1 DEF TimelineKnown
<1> HIDE DEF n
<1>4. ASSUME NEW i \in 1 .. n
      PROVE  SummaryKnown(m.timeline[i], more, i)
  <2> DEFINE w == m.timeline[i]
             a == (i - 1) * Window
             b == i * Window
  <2>1. a \in Nat /\ b \in Nat /\ b <= t
    <3>1. i - 1 \in Nat /\ i \in Nat /\ n - i \in Nat
      BY <1>2
    <3>2. a \in Nat /\ b \in Nat /\ (n - i) * Window \in Nat
      BY <1>2, <3>1
    <3>3. n * Window = i * Window + (n - i) * Window
      BY <1>2, <3>1
    <3> QED
      BY <1>1, <1>3, <3>2, <3>3
  <2>2. SummaryKnown(w, obs, i)
    BY <1>3
  <2>3. w.start = a /\ w.end = b
    BY <2>2 DEF SummaryKnown
  <2> HIDE DEF w, a, b, more
  <2>4. obs \in Seq(Observations) /\ b <= o.time
    BY <1>1, <2>1
  <2>5. ASSUME NEW c \in Counted
        PROVE  SeenIn(more, c, a, b) = SeenIn(obs, c, a, b)
    BY <2>1, <2>4, SeenAppend DEF more
  <2>6. ASSUME NEW q
        PROVE  Total(obs, q, a, b) = Total(more, q, a, b)
    <3>1. ASSUME NEW u \in Nat, u < b
          PROVE  LenAt(obs, q, u) = LenAt(more, q, u)
      <4>1. u < o.time
        BY <1>1, <2>1, <3>1
      <4>2. obs \in Seq(Observations)
        BY <1>1
      <4> QED
        BY <4>1, <4>2, LenAtAppend DEF more
    <3>2. \A u \in Nat : u < b => LenAt(obs, q, u) = LenAt(more, q, u)
      BY <3>1
    <3> QED
      BY <2>1, <2>4, <3>2, TotalSame
  <2>7. SummaryKnown(w, more, i)
    <3>1. \A c \in Counted : w.counts[c] = SeenIn(more, c, w.start, w.end)
      BY <2>2, <2>3, <2>5 DEF SummaryKnown
    <3>2. \A q \in DOMAIN w.integral : w.integral[q] = Total(more, q, w.start, w.end)
      BY <2>2, <2>3, <2>6 DEF SummaryKnown
    <3> QED
      BY <2>3, <3>1, <3>2 DEF SummaryKnown, a, b
  <2> QED
    BY <2>7 DEF w
<1> QED
  BY <1>3, <1>4 DEF TimelineKnown, n

\* and of the queues that are not observed.
LEMMA QueueAppend ==
    ASSUME NEW obs \in Seq(Observations), NEW o \in Observations, NEW q, o.queue # q,
           NEW x \in QueueStates, NEW ws \in Nat, QueueKnown(x, obs, q, ws)
    PROVE  QueueKnown(x, Append(obs, o), q, ws)
<1> DEFINE more == Append(obs, o)
<1>1. \A u \in Nat : LenAt(obs, q, u) = LenAt(more, q, u)
  BY LenAtAppend
<1>2. x.last_time \in Nat
  BY DEF QueueStates
<1> HIDE DEF more
<1>3. Total(obs, q, ws, x.last_time) = Total(more, q, ws, x.last_time)
  <2> DEFINE b == x.last_time
  <2>1. b \in Nat
    BY <1>2
  <2> HIDE DEF b
  <2>2. Total(obs, q, ws, b) = Total(more, q, ws, b)
    BY <1>1, <2>1, TotalSame
  <2> QED
    BY <2>2 DEF b
<1> QED
  BY <1>1, <1>3 DEF QueueKnown, Stays, more

\* What was observed up to now, with an observation more.
LEMMA ObservedAppend ==
    ASSUME NEW obs \in Seq(Observations), NEW t \in Nat, NEW o \in Observations, o.time = t,
           ObservedBefore(obs, t + 1)
    PROVE  Append(obs, o) \in Seq(Observations) /\ ObservedBefore(Append(obs, o), t + 1)
<1> DEFINE n == Len(obs) + 1
           more == Append(obs, o)
<1>1. /\ n \in Nat /\ Len(more) = n /\ more[n] = o /\ \A i \in 1 .. n - 1 : more[i] = obs[i]
      /\ more \in Seq(Observations) /\ n - 1 = Len(obs)
  OBVIOUS
<1> HIDE DEF n, more
<1>2. ASSUME NEW i \in 1 .. n
      PROVE  more[i].time < t + 1
  <2>1. CASE i = n
    BY <1>1, <2>1
  <2>2. CASE i # n
    <3>1. i \in 1 .. n - 1
      BY <1>1, <2>2
    <3> QED
      BY <1>1, <3>1 DEF ObservedBefore
  <2> QED
    BY <2>1, <2>2
<1> QED
  BY <1>1, <1>2 DEF ObservedBefore, more

\* observe_drop and the like: a counter goes up.
LEMMA CountKnown ==
    ASSUME NEW m, NEW obs, NEW t, IsCurrent(m, obs, t), NEW c \in Counted, NEW o \in Observations,
           o.time = t, o.kind = c, o.queue = Nil
    PROVE  IsCurrent([m EXCEPT !.counts[c] = @ + 1], Append(obs, o), t)
<1> DEFINE f == [m EXCEPT !.counts[c] = @ + 1]
           more == Append(obs, o)
           up == [m.counts EXCEPT ![c] = @ + 1]
<1>1. /\ obs \in Seq(Observations) /\ t \in Nat /\ t <= Latest /\ ObservedBefore(obs, t + 1)
      /\ m \in Monitors /\ QueuesKnown(m, obs) /\ CountsKnown(m, obs) /\ StreaksKnown(m)
      /\ \A q \in DOMAIN m.queues : m.queues[q].last_time = t
      /\ m.window_start <= t /\ t < m.window_start + Window
  BY DEF IsCurrent, Known
<1>2. /\ m.window_start \in Nat /\ m.counts \in [Counted -> Nat] /\ Latest \in Nat
      /\ DOMAIN m.queues \subseteq Queues /\ \A q \in DOMAIN m.queues : m.queues[q] \in QueueStates
      /\ Nil \notin Queues
  BY <1>1, MonitorFields, MonitorConstants
<1>3. more \in Seq(Observations) /\ ObservedBefore(more, t + 1)
  BY <1>1, ObservedAppend
<1>4. /\ up \in [Counted -> Nat] /\ up[c] = m.counts[c] + 1
      /\ \A e \in Counted \ {c} : up[e] = m.counts[e]
  BY <1>2
<1>5. f = [m EXCEPT !.counts = up]
  BY <1>1 DEF Monitors
<1> HIDE DEF f, up
<1>6. /\ f \in Monitors /\ f.queues = m.queues /\ f.window_start = m.window_start
      /\ f.counts = up /\ f.timeline = m.timeline /\ f.warm = m.warm
      /\ f.recovered_hold = m.recovered_hold /\ f.metastable_persist = m.metastable_persist
  BY <1>1, <1>4, <1>5 DEF Monitors
<1>7. TimelineKnown(f, more)
  <2>1. TimelineKnown(m, more)
    BY TimelineAppend
  <2> QED
    BY <1>6, <2>1, Zenon DEF TimelineKnown
<1>8. StreaksKnown(f)
  BY <1>1, <1>6, Zenon DEF StreaksKnown
<1>9. QueuesKnown(f, more)
  <2>1. ASSUME NEW q \in DOMAIN m.queues
        PROVE  QueueKnown(m.queues[q], more, q, m.window_start)
    <3> DEFINE x == m.queues[q]
               ws == m.window_start
    <3>1. x \in QueueStates /\ ws \in Nat /\ QueueKnown(x, obs, q, ws) /\ o.queue # q
          /\ obs \in Seq(Observations)
      BY <1>1, <1>2 DEF QueuesKnown
    <3> HIDE DEF x, ws
    <3>2. QueueKnown(x, more, q, ws)
      BY <3>1, QueueAppend
    <3> QED
      BY <3>2 DEF x, ws
  <2>2. ASSUME NEW q \in Queues \ DOMAIN m.queues
        PROVE  Stays(more, q, 0, 0)
    <3>1. Stays(obs, q, 0, 0) /\ o.queue # q /\ obs \in Seq(Observations)
      BY <1>1, <1>2 DEF QueuesKnown
    <3>2. \A u \in Nat : LenAt(more, q, u) = LenAt(obs, q, u)
      BY <3>1, LenAtAppend
    <3> QED
      BY <3>1, <3>2 DEF Stays
  <2> QED
    BY <1>6, <2>1, <2>2 DEF QueuesKnown
<1>10. CountsKnown(f, more)
  <2> DEFINE e == Latest + 1
             ws == m.window_start
  <2>1. e \in Nat /\ ws \in Nat /\ ws <= o.time /\ o.time < e /\ obs \in Seq(Observations)
    BY <1>1, <1>2
  <2>2. \A k \in Counted : m.counts[k] = SeenIn(obs, k, ws, e)
    BY <1>1 DEF CountsKnown
  <2> HIDE DEF e, ws
  <2>3. SeenIn(more, c, ws, e) = SeenIn(obs, c, ws, e) + 1
    BY <2>1, SeenAppend
  <2>4. \A k \in Counted \ {c} : SeenIn(more, k, ws, e) = SeenIn(obs, k, ws, e)
    BY <2>1, SeenAppend
  <2>5. \A k \in Counted : up[k] = SeenIn(more, k, ws, e)
    BY <1>4, <2>2, <2>3, <2>4
  <2> QED
    BY <1>6, <2>5 DEF CountsKnown, e, ws
<1>11. Known(f, more)
  BY <1>6, <1>7, <1>8, <1>9, <1>10 DEF Known
<1>12. IsCurrent(f, more, t)
  BY <1>1, <1>3, <1>6, <1>11 DEF IsCurrent
<1> QED
  BY <1>12 DEF f

\* observe_queue_len: the state of the observed queue.
LEMMA ObserveLenKnown ==
    ASSUME NEW obs \in Seq(Observations), NEW t \in Nat, NEW o \in Observations, NEW q,
           o.time = t, o.queue = q, NEW x \in QueueStates, NEW ws \in Nat,
           QueueKnown(x, obs, q, ws), x.last_time <= t, ws <= t
    PROVE  LET y == Watched!ObserveLen(x, t, o.len) IN
           y \in QueueStates /\ QueueKnown(y, Append(obs, o), q, ws) /\ y.last_time = t
<1> DEFINE z == Watched!Integrated(x, t)
           y == Watched!ObserveLen(x, t, o.len)
           more == Append(obs, o)
<1>1. z \in QueueStates /\ QueueKnown(z, obs, q, ws) /\ z.last_time = t
  BY IntegratedKnown
<1>2. o.len \in Nat
  BY DEF Observations
<1> HIDE DEF z
<1>3. /\ y \in QueueStates /\ y.len = o.len /\ y.last_time = t /\ y.integral = z.integral
  <2>1. y = [z EXCEPT !.len = o.len, !.max = IF o.len > @ THEN o.len ELSE @]
    BY DEF Watched!ObserveLen, z
  <2> HIDE DEF y
  <2> QED
    BY <1>1, <1>2, <2>1 DEF QueueStates
<1> HIDE DEF y, more
<1>4. z.integral = Total(obs, q, ws, t)
  BY <1>1 DEF QueueKnown
<1>5. Total(obs, q, ws, t) = Total(more, q, ws, t)
  <2>1. ASSUME NEW u \in Nat, u < t
        PROVE  LenAt(obs, q, u) = LenAt(more, q, u)
    BY <2>1, LenAtAppend DEF more
  <2> QED
    BY <2>1, TotalSame
<1>6. Stays(more, q, t, o.len)
  <2>1. \A u \in Nat : t <= u => LenAt(more, q, u) = o.len
    BY LenAtAppend DEF more
  <2> QED
    BY <2>1 DEF Stays
<1>7. QueueKnown(y, more, q, ws)
  BY <1>3, <1>4, <1>5, <1>6 DEF QueueKnown
<1> QED
  BY <1>3, <1>7 DEF y, more

\* A queue observed for the first time has been empty so far.
LEMMA NewQueueKnown ==
    ASSUME NEW obs \in Seq(Observations), NEW q, NEW ws \in Nat, Stays(obs, q, 0, 0)
    PROVE  LET x == Watched!NewQueue(ws) IN
           x \in QueueStates /\ QueueKnown(x, obs, q, ws) /\ x.last_time = ws
<1> DEFINE x == Watched!NewQueue(ws)
<1>1. x \in QueueStates /\ x.last_time = ws /\ x.len = 0 /\ x.integral = 0
  BY DEF Watched!NewQueue, QueueStates
<1> HIDE DEF x
<1>2. Total(obs, q, ws, ws) = 0
  BY TotalSteps
<1>3. Stays(obs, q, ws, 0)
  BY DEF Stays
<1>4. QueueKnown(x, obs, q, ws)
  BY <1>1, <1>2, <1>3 DEF QueueKnown
<1> QED
  BY <1>1, <1>4 DEF x

\* The queues after an observation of q at t.
Observed(m, q, t, len) ==
    LET old == IF q \in DOMAIN m.queues THEN m.queues[q] ELSE Watched!NewQueue(m.window_start)
    IN  [j \in DOMAIN m.queues \cup {q} |->
            IF j = q THEN Watched!ObserveLen(old, t, len) ELSE m.queues[j]]

\* observe_queue_len
LEMMA QueueLenKnown ==
    ASSUME NEW m, NEW obs, NEW t, IsCurrent(m, obs, t), NEW q \in Queues, NEW o \in Observations,
           o.time = t, o.kind = "queue", o.queue = q
    PROVE  IsCurrent([m EXCEPT !.queues = Observed(m, q, t, o.len)], Append(obs, o), t)
<1> DEFINE f == [m EXCEPT !.queues = Observed(m, q, t, o.len)]
           more == Append(obs, o)
           qs == Observed(m, q, t, o.len)
           old == IF q \in DOMAIN m.queues THEN m.queues[q] ELSE Watched!NewQueue(m.window_start)
           ws == m.window_start
<1>1. /\ obs \in Seq(Observations) /\ t \in Nat /\ t <= Latest /\ ObservedBefore(obs, t + 1)
      /\ m \in Monitors /\ QueuesKnown(m, obs) /\ CountsKnown(m, obs) /\ StreaksKnown(m)
      /\ \A j \in DOMAIN m.queues : m.queues[j].last_time = t
      /\ ws <= t /\ t < ws + Window
  BY DEF IsCurrent, Known
<1>2. /\ ws \in Nat /\ m.counts \in [Counted -> Nat] /\ Latest \in Nat
      /\ DOMAIN m.queues \subseteq Queues /\ \A j \in DOMAIN m.queues : m.queues[j] \in QueueStates
      /\ "queue" \notin Counted
  BY <1>1, MonitorFields, MonitorConstants
<1>3. more \in Seq(Observations) /\ ObservedBefore(more, t + 1)
  BY <1>1, ObservedAppend
<1>4. old \in QueueStates /\ QueueKnown(old, obs, q, ws) /\ old.last_time <= t
  <2>1. CASE q \in DOMAIN m.queues
    <3>1. old = m.queues[q]
      BY <2>1
    <3> HIDE DEF old
    <3>2. old.last_time = t
      BY <1>1, <2>1, <3>1
    <3> QED
      BY <1>1, <1>2, <2>1, <3>1, <3>2 DEF QueuesKnown
  <2>2. CASE q \notin DOMAIN m.queues
    <3>1. old = Watched!NewQueue(ws)
      BY <2>2
    <3>2. Stays(obs, q, 0, 0) /\ obs \in Seq(Observations) /\ ws \in Nat
      BY <1>1, <1>2, <2>2 DEF QueuesKnown
    <3> HIDE DEF old, ws
    <3>3. old \in QueueStates /\ QueueKnown(old, obs, q, ws) /\ old.last_time = ws
      BY <3>1, <3>2, NewQueueKnown
    <3> QED
      BY <1>1, <3>3
  <2> QED
    BY <2>1, <2>2
<1> DEFINE y == Watched!ObserveLen(old, t, o.len)
<1>5. y \in QueueStates /\ QueueKnown(y, more, q, ws) /\ y.last_time = t
  <2> HIDE DEF old, ws
  <2>1. obs \in Seq(Observations) /\ t \in Nat /\ ws \in Nat /\ ws <= t
    BY <1>1, <1>2
  <2> QED
    BY <1>4, <2>1, ObserveLenKnown
<1>6. /\ DOMAIN qs = DOMAIN m.queues \cup {q} /\ qs[q] = y
      /\ \A j \in DOMAIN m.queues \ {q} : qs[j] = m.queues[j]
  BY DEF Observed
<1>7. qs = [j \in DOMAIN m.queues \cup {q} |-> qs[j]]
  BY DEF Observed
<1> HIDE DEF qs, y, old, ws
<1>8. \A j \in DOMAIN qs : qs[j] \in QueueStates /\ qs[j].last_time = t
  BY <1>1, <1>2, <1>5, <1>6
<1>9. qs \in Tables(QueueStates)
  <2>1. qs \in [DOMAIN qs -> QueueStates] /\ DOMAIN qs \subseteq Queues
    BY <1>2, <1>6, <1>7, <1>8
  <2> QED
    BY <2>1, TableIn
<1>10. f = [m EXCEPT !.queues = qs]
  BY DEF qs
<1> HIDE DEF f
<1>11. /\ f \in Monitors /\ f.queues = qs /\ f.window_start = m.window_start
       /\ f.counts = m.counts /\ f.timeline = m.timeline /\ f.warm = m.warm
       /\ f.recovered_hold = m.recovered_hold /\ f.metastable_persist = m.metastable_persist
  BY <1>1, <1>9, <1>10 DEF Monitors
<1>12. TimelineKnown(f, more)
  <2>1. TimelineKnown(m, more)
    BY TimelineAppend
  <2> QED
    BY <1>11, <2>1, Zenon DEF TimelineKnown
<1>13. StreaksKnown(f)
  BY <1>1, <1>11, Zenon DEF StreaksKnown
<1>14. QueuesKnown(f, more)
  <2>1. ASSUME NEW j \in DOMAIN m.queues \ {q}
        PROVE  QueueKnown(qs[j], more, j, ws)
    <3> DEFINE x == m.queues[j]
    <3>1. x \in QueueStates /\ ws \in Nat /\ QueueKnown(x, obs, j, ws) /\ o.queue # j
          /\ obs \in Seq(Observations) /\ qs[j] = x
      BY <1>1, <1>2, <1>6 DEF QueuesKnown, ws
    <3> HIDE DEF x
    <3>2. QueueKnown(x, more, j, ws)
      BY <3>1, QueueAppend
    <3> QED
      BY <3>1, <3>2
  <2>2. ASSUME NEW j \in Queues \ DOMAIN qs
        PROVE  Stays(more, j, 0, 0)
    <3>1. Stays(obs, j, 0, 0) /\ o.queue # j /\ obs \in Seq(Observations)
      BY <1>1, <1>6 DEF QueuesKnown
    <3>2. \A u \in Nat : LenAt(more, j, u) = LenAt(obs, j, u)
      BY <3>1, LenAtAppend
    <3> QED
      BY <3>1, <3>2 DEF Stays
  <2>3. \A j \in DOMAIN qs : QueueKnown(qs[j], more, j, ws)
    BY <1>5, <1>6, <2>1
  <2> QED
    BY <1>11, <2>2, <2>3 DEF QueuesKnown, ws
<1>15. CountsKnown(f, more)
  <2> DEFINE e == Latest + 1
  <2>1. e \in Nat /\ ws \in Nat /\ obs \in Seq(Observations) /\ \A k \in Counted : o.kind # k
    BY <1>1, <1>2
  <2>2. \A k \in Counted : m.counts[k] = SeenIn(obs, k, ws, e)
    BY <1>1 DEF CountsKnown, ws
  <2> HIDE DEF e
  <2>3. \A k \in Counted : SeenIn(more, k, ws, e) = SeenIn(obs, k, ws, e)
    BY <2>1, SeenAppend
  <2> QED
    BY <1>11, <2>2, <2>3 DEF CountsKnown, e, ws
<1>16. Known(f, more)
  BY <1>11, <1>12, <1>13, <1>14, <1>15 DEF Known
<1>17. IsCurrent(f, more, t)
  BY <1>1, <1>3, <1>8, <1>11, <1>16 DEF IsCurrent, ws
<1> QED
  BY <1>17 DEF f

-----------------------------------------------------------------------------
\* A monitor that is current reports what was observed up to then, and later.
LEMMA CurrentReports ==
    ASSUME NEW m, NEW obs, NEW s, IsCurrent(m, obs, s), NEW t \in Nat, s <= t
    PROVE  IsReported(m, obs, t)
<1>1. obs \in Seq(Observations) /\ s \in Nat /\ ObservedBefore(obs, s + 1) /\ Known(m, obs)
  BY DEF IsCurrent
<1>2. ObservedBefore(obs, t + 1)
  <2> DEFINE a == s + 1
             b == t + 1
  <2>1. a \in Nat /\ b \in Nat /\ a <= b /\ ObservedBefore(obs, a) /\ obs \in Seq(Observations)
    BY <1>1
  <2> HIDE DEF a, b
  <2>2. ObservedBefore(obs, b)
    BY <2>1, ObservedLater
  <2> QED
    BY <2>2 DEF b
<1> QED
  BY <1>1, <1>2 DEF IsReported, Known

\* To a time that is past a queue adds nothing,
LEMMA IntegratedPast ==
    ASSUME NEW x \in QueueStates, NEW t \in Nat, t < x.last_time
    PROVE  Watched!Integrated(x, t) \in QueueStates
<1>1. x.len \in Nat /\ x.integral \in Nat /\ x.len * 0 = 0
  BY DEF QueueStates
<1>2. Watched!DurationSince(t, x.last_time) = 0
  BY DEF Watched!DurationSince
<1>3. Watched!Integrated(x, t) = [x EXCEPT !.integral = x.integral + x.len * 0, !.last_time = t]
  BY <1>2 DEF Watched!Integrated
<1>4. x.integral + x.len * 0 = x.integral
  BY <1>1
<1>5. \A a \in Nat : [x EXCEPT !.integral = a, !.last_time = t] \in QueueStates
  BY DEF QueueStates
<1> QED
  BY <1>1, <1>3, <1>4, <1>5

\* and a flush to it closes no window.
LEMMA FlushPast ==
    ASSUME NEW s, IsCurrent(mon, observations, s), NEW t \in Nat, t < s,
           NEW m \in Watched!Flushed(t)
    PROVE  IsReported(m, observations, s) /\ m.window_start = mon.window_start
<1>1. PICK nears \in [1 .. Watched!WindowsOver(mon, t) -> BOOLEAN] :
         m = Watched!FlushUpTo(mon, t, nears)
  BY DEF Watched!Flushed
<1>2. /\ observations \in Seq(Observations) /\ Known(mon, observations) /\ s \in Nat
      /\ \A q \in DOMAIN mon.queues : mon.queues[q].last_time = s
      /\ s < mon.window_start + Window /\ mon \in Monitors
  BY DEF IsCurrent, Known
<1>3. mon.window_start \in Nat /\ DOMAIN mon.queues \subseteq Queues /\ Window \in Nat /\ Window > 0
      /\ \A q \in DOMAIN mon.queues : mon.queues[q] \in QueueStates
  BY <1>2, MonitorFields, MonitorConstants
<1>4. Watched!WindowsOver(mon, t) = 0
  <2> DEFINE d == Watched!DurationSince(t, mon.window_start)
  <2>1. d \in 0 .. Window - 1
    BY <1>2, <1>3 DEF Watched!DurationSince
  <2> HIDE DEF d
  <2>2. d \div Window = 0
    BY <1>3, <2>1
  <2> QED
    BY <2>2 DEF Watched!WindowsOver, d
<1>5. Len(nears) = 0
  <2>1. 1 .. Watched!WindowsOver(mon, t) = {}
    BY <1>4
  <2>2. nears \in [{} -> BOOLEAN]
    BY <2>1
  <2>3. nears = <<>>
    BY <2>2
  <2> QED
    BY <2>3
<1>6. PICK g : IsFlushes(g, mon, nears, 0) /\ m = Upped(g[0], t)
  BY <1>1, <1>5, FlushUpToIs
<1>7. m = Upped(mon, t)
  BY <1>6 DEF IsFlushes
<1> DEFINE qs == [q \in DOMAIN mon.queues |-> Watched!Integrated(mon.queues[q], t)]
<1>8. \A q \in DOMAIN mon.queues : Watched!Integrated(mon.queues[q], t) \in QueueStates
  BY <1>2, <1>3, IntegratedPast
<1>9. qs \in Tables(QueueStates)
  <2>1. DOMAIN qs = DOMAIN mon.queues /\ qs \in [DOMAIN qs -> QueueStates]
    BY <1>8
  <2> HIDE DEF qs
  <2> QED
    BY <1>3, <2>1, TableIn
<1>10. m = [mon EXCEPT !.queues = qs]
  BY <1>7 DEF Upped
<1> HIDE DEF qs
<1>11. /\ m \in Monitors /\ m.window_start = mon.window_start
       /\ m.counts = mon.counts /\ m.timeline = mon.timeline /\ m.warm = mon.warm
       /\ m.recovered_hold = mon.recovered_hold /\ m.metastable_persist = mon.metastable_persist
  BY <1>2, <1>9, <1>10 DEF Monitors
<1>12. CountsKnown(m, observations) /\ TimelineKnown(m, observations) /\ StreaksKnown(m)
  BY <1>2, <1>11, Zenon DEF Known, CountsKnown, TimelineKnown, StreaksKnown
<1>13. ObservedBefore(observations, s + 1)
  BY DEF IsCurrent
<1> QED
  BY <1>2, <1>11, <1>12, <1>13 DEF IsReported

\* Whoever observes finds the monitor brought up to the clock by its own flush, and leaves
\* it so.
LEMMA ObservationKeeps ==
    ASSUME MonitorInv, Watched!UsersTurn, phase' = phase, sim_time' = sim_time,
           IsCurrent(mon', observations', sim_time)
    PROVE  MonitorInv'
<1>1. /\ phase' \in {"setup", "step"} /\ sim_time' \in Nat /\ sim_time' <= Latest
      /\ sim_time' <= sim_time' /\ IsCurrent(mon', observations', sim_time')
  BY DEF MonitorInv, Watched!UsersTurn
<1>2. \E s \in Nat : s <= sim_time' /\ IsCurrent(mon', observations', s)
  BY <1>1
<1> QED
  BY <1>1, <1>2 DEF MonitorInv

\* Every step of the monitor keeps the invariant.
LEMMA MonitorNextKeeps ==
    ASSUME MonitorInv, [Next]_vars
    PROVE  MonitorInv'
<1>1. sim_time \in Nat /\ sim_time <= Latest /\ phase \in {"setup", "step", "between", "over"}
  BY DEF MonitorInv
<1>2. ASSUME phase # "over"
      PROVE  \A m \in Watched!Flushed(sim_time) : IsCurrent(m, observations, sim_time)
  <2>1. PICK s \in Nat : s <= sim_time /\ IsCurrent(mon, observations, s)
    BY <1>2 DEF MonitorInv
  <2> QED
    BY <1>1, <2>1, FlushCurrent
<1>3. ASSUME NEW c \in Counted, Watched!Count(c)
      PROVE  MonitorInv'
  <2> DEFINE o == [time |-> sim_time, kind |-> c, queue |-> Nil, len |-> 0]
  <2>1. PICK m \in Watched!Flushed(sim_time) : mon' = [m EXCEPT !.counts[c] = @ + 1]
    BY <1>3 DEF Watched!Count
  <2>2. /\ observations' = Append(observations, o) /\ sim_time' = sim_time /\ phase' = phase
        /\ Watched!UsersTurn
    BY <1>3 DEF Watched!Count, Watched!Observe
  <2>3. o \in Observations /\ o.time = sim_time /\ o.kind = c /\ o.queue = Nil
    BY <1>1 DEF Observations
  <2> HIDE DEF o
  <2>4. IsCurrent(m, observations, sim_time)
    BY <1>2, <2>1, <2>2 DEF Watched!UsersTurn
  <2>5. IsCurrent([m EXCEPT !.counts[c] = @ + 1], Append(observations, o), sim_time)
    BY <2>3, <2>4, CountKnown
  <2> QED
    BY <2>1, <2>2, <2>5, ObservationKeeps
<1>4. ASSUME NEW q \in Queues, NEW len \in Lengths, Watched!ObserveQueueLen(q, len)
      PROVE  MonitorInv'
  <2> DEFINE o == [time |-> sim_time, kind |-> "queue", queue |-> q, len |-> len]
  <2>1. PICK m \in Watched!Flushed(sim_time) :
           mon' = [m EXCEPT !.queues = Observed(m, q, sim_time, len)]
    BY <1>4 DEF Watched!ObserveQueueLen, Observed
  <2>2. /\ observations' = Append(observations, o) /\ sim_time' = sim_time /\ phase' = phase
        /\ Watched!UsersTurn
    BY <1>4 DEF Watched!ObserveQueueLen, Watched!Observe
  <2>3. o \in Observations /\ o.time = sim_time /\ o.kind = "queue" /\ o.queue = q /\ o.len = len
    <3>1. len \in Nat
      BY MonitorConstants
    <3> QED
      BY <1>1, <3>1 DEF Observations
  <2> HIDE DEF o
  <2>4. IsCurrent(m, observations, sim_time)
    BY <1>2, <2>1, <2>2 DEF Watched!UsersTurn
  <2>5. IsCurrent([m EXCEPT !.queues = Observed(m, q, sim_time, o.len)],
                  Append(observations, o), sim_time)
    BY <2>3, <2>4, QueueLenKnown
  <2> QED
    BY <2>1, <2>2, <2>3, <2>5, ObservationKeeps
<1>5. ASSUME NEW t \in SpikeEnds, Watched!MarkPostSpikeStart(t)
      PROVE  MonitorInv'
  <2>1. /\ mon' = [mon EXCEPT !.post_spike_start = t] /\ t \in Nat
        /\ observations' = observations /\ sim_time' = sim_time /\ phase' = phase
        /\ Watched!UsersTurn
    BY <1>5, MonitorConstants DEF Watched!MarkPostSpikeStart
  <2>2. ASSUME NEW s, IsCurrent(mon, observations, s)
        PROVE  IsCurrent(mon', observations, s)
    <3>1. Known(mon, observations) /\ mon \in Monitors
      BY <2>2 DEF IsCurrent, Known
    <3>2. /\ mon' \in Monitors /\ mon'.queues = mon.queues /\ mon'.window_start = mon.window_start
          /\ mon'.counts = mon.counts /\ mon'.timeline = mon.timeline /\ mon'.warm = mon.warm
          /\ mon'.recovered_hold = mon.recovered_hold
          /\ mon'.metastable_persist = mon.metastable_persist
      BY <2>1, <3>1 DEF Monitors
    <3>3. /\ QueuesKnown(mon', observations) /\ CountsKnown(mon', observations)
          /\ TimelineKnown(mon', observations) /\ StreaksKnown(mon')
      BY <3>1, <3>2, Zenon DEF Known, QueuesKnown, CountsKnown, TimelineKnown, StreaksKnown
    <3>4. Known(mon', observations)
      BY <3>2, <3>3 DEF Known
    <3> QED
      BY <2>2, <3>2, <3>4 DEF IsCurrent
  <2>3. phase \in {"setup", "step"}
    BY <2>1 DEF Watched!UsersTurn
  <2>4. PICK s \in Nat : s <= sim_time /\ IsCurrent(mon, observations, s)
    BY <2>3 DEF MonitorInv
  <2>5. IsCurrent(mon', observations', s) /\ s <= sim_time'
    BY <2>1, <2>2, <2>4
  <2>6. phase' \in {"setup", "between"} => IsCurrent(mon', observations', sim_time')
    BY <2>1, <2>2 DEF MonitorInv
  <2>7. \E u \in Nat : u <= sim_time' /\ IsCurrent(mon', observations', u)
    BY <2>5
  <2> QED
    BY <1>1, <2>1, <2>3, <2>6, <2>7 DEF MonitorInv
<1>6. ASSUME NEW d \in 0 .. Watched!LongestStep, Watched!SimulationStep(d)
      PROVE  MonitorInv'
  <2>1. /\ sim_time' = sim_time + d /\ sim_time < MaxEnd /\ phase \in {"setup", "between"}
        /\ phase' = "step" /\ observations' = observations /\ mon' = mon
    BY <1>6 DEF Watched!SimulationStep
  <2>2. sim_time' \in Nat /\ sim_time <= sim_time' /\ sim_time' <= Latest
    BY <1>1, <2>1, MonitorConstants DEF Latest, Watched!LongestStep
  <2>3. IsCurrent(mon', observations', sim_time)
    BY <2>1 DEF MonitorInv
  <2>4. \E s \in Nat : s <= sim_time' /\ IsCurrent(mon', observations', s)
    BY <1>1, <2>2, <2>3
  <2> QED
    BY <2>1, <2>2, <2>4 DEF MonitorInv
<1>7. ASSUME Watched!FlushAfterStep
      PROVE  MonitorInv'
  <2>1. /\ sim_time' = sim_time /\ observations' = observations /\ phase # "over"
        /\ mon' \in Watched!Flushed(sim_time) /\ phase' \in {"between", "over"}
    BY <1>7 DEF Watched!FlushAfterStep
  <2>2. IsCurrent(mon', observations', sim_time')
    BY <1>2, <2>1
  <2>3. IsReported(mon', observations', sim_time')
    BY <1>1, <2>1, <2>2, CurrentReports
  <2>4. \E s \in Nat : s <= sim_time' /\ IsCurrent(mon', observations', s)
    BY <1>1, <2>1, <2>2
  <2>5. sim_time' < mon'.window_start + Window
    BY <2>2 DEF IsCurrent
  <2> QED
    BY <1>1, <2>1, <2>2, <2>3, <2>4, <2>5 DEF MonitorInv
<1>8. ASSUME Watched!FinalFlush
      PROVE  MonitorInv'
  <2>1. /\ sim_time' = sim_time /\ observations' = observations
        /\ phase \in {"setup", "between"}
        /\ mon' \in Watched!Flushed(MaxEnd) /\ phase' = "over"
    BY <1>8 DEF Watched!FinalFlush
  <2>2. IsCurrent(mon, observations, sim_time) /\ MaxEnd \in Nat /\ MaxEnd <= Latest
    BY <2>1, MonitorConstants DEF MonitorInv
  <2>3. /\ IsReported(mon', observations, sim_time) /\ sim_time < mon'.window_start + Window
    <3>1. CASE sim_time <= MaxEnd
      <4>1. IsCurrent(mon', observations, MaxEnd)
        BY <1>1, <2>1, <2>2, <3>1, FlushCurrent
      <4>2. /\ MaxEnd < mon'.window_start + Window /\ mon'.window_start \in Nat
            /\ Window \in Nat /\ mon' \in Monitors /\ CountsKnown(mon', observations)
            /\ TimelineKnown(mon', observations) /\ StreaksKnown(mon')
        BY <4>1, MonitorFields, MonitorConstants DEF IsCurrent, Known
      <4>3. observations \in Seq(Observations) /\ ObservedBefore(observations, sim_time + 1)
        BY <2>2 DEF IsCurrent
      <4> QED
        BY <1>1, <2>2, <3>1, <4>2, <4>3 DEF IsReported
    <3>2. CASE MaxEnd < sim_time
      <4>1. IsReported(mon', observations, sim_time) /\ mon'.window_start = mon.window_start
        BY <2>1, <2>2, <3>2, FlushPast
      <4> QED
        BY <2>2, <4>1 DEF IsCurrent
    <3> QED
      BY <1>1, <2>2, <3>1, <3>2
  <2> QED
    BY <1>1, <2>1, <2>3 DEF MonitorInv
<1>9. ASSUME UNCHANGED monitor
      PROVE  MonitorInv'
  BY <1>9 DEF MonitorInv, monitor
<1> QED
  BY <1>3, <1>4, <1>5, <1>6, <1>7, <1>8, <1>9, MonitorSteps DEF Watched!MonitorNext

\* It starts so,
LEMMA MonitorStarts ==
    ASSUME Init
    PROVE  MonitorInv
<1>1. /\ mon = [window_start |-> 0, queues |-> [q \in {} |-> Nil], counts |-> Watched!NoCounts,
                warm |-> 0, recovered_hold |-> 0, metastable_persist |-> 0,
                post_spike_start |-> Nil, timeline |-> <<>>]
      /\ observations = <<>> /\ sim_time = 0 /\ phase = "setup"
  BY DEF Init, Watched!MonitorInit
<1>2. observations \in Seq(Observations) /\ Len(observations) = 0
  BY <1>1
<1>3. /\ mon.window_start = 0 /\ mon.queues = [q \in {} |-> Nil] /\ mon.counts = Watched!NoCounts
      /\ mon.timeline = <<>> /\ mon.recovered_hold = 0 /\ mon.metastable_persist = 0
  BY <1>1
<1>4. mon.queues \in Tables(QueueStates) /\ DOMAIN mon.queues = {}
  <2>1. DOMAIN mon.queues = {} /\ mon.queues \in [{} -> QueueStates]
    BY <1>3
  <2> QED
    BY <2>1, TableIn
<1>5. /\ mon.counts \in [Counted -> Nat] /\ \A c \in Counted : mon.counts[c] = 0
  BY <1>3 DEF Watched!NoCounts
<1>6. mon.timeline \in Seq(Summaries) /\ Len(mon.timeline) = 0
  BY <1>3
<1>7. mon \in Monitors
  BY <1>1, <1>4, <1>5, <1>6 DEF Monitors
<1>8. QueuesKnown(mon, observations)
  <2>1. ASSUME NEW q, NEW t \in Nat
        PROVE  LenAt(observations, q, t) = 0
    <3>1. KnownAt(observations, q, t) = {}
      BY <1>1 DEF KnownAt
    <3> QED
      BY <3>1 DEF LenAt
  <2> QED
    BY <1>4, <2>1 DEF QueuesKnown, Stays
<1>9. ObservedBefore(observations, 0) /\ ObservedBefore(observations, sim_time + 1)
  BY <1>2 DEF ObservedBefore
<1>10. CountsKnown(mon, observations)
  <2> DEFINE e == Latest + 1
  <2>1. e \in Nat /\ 0 \in Nat /\ ObservedBefore(observations, e)
    BY <1>2, MonitorConstants DEF ObservedBefore
  <2> HIDE DEF e
  <2>2. \A c \in Counted : SeenIn(observations, c, 0, e) = 0
    BY <1>2, <1>9, <2>1, SeenBefore
  <2> QED
    BY <1>3, <1>5, <2>2 DEF CountsKnown, e
<1>11. TimelineKnown(mon, observations)
  <2>1. 0 = 0 * Window /\ 1 .. 0 = {}
    BY MonitorConstants
  <2> QED
    BY <1>3, <1>6, <2>1 DEF TimelineKnown
<1>12. StreaksKnown(mon)
  <2>1. \A v : IsStreak(mon.timeline, 0, v)
    BY <1>6 DEF IsStreak
  <2> QED
    BY <1>3, <2>1, Zenon DEF StreaksKnown
<1>13. Known(mon, observations)
  BY <1>7, <1>8, <1>10, <1>11, <1>12 DEF Known
<1>14. IsCurrent(mon, observations, sim_time) /\ sim_time \in Nat /\ sim_time <= sim_time
       /\ sim_time <= Latest
  BY <1>1, <1>2, <1>3, <1>4, <1>9, <1>13, MonitorConstants DEF IsCurrent
<1>15. \E s \in Nat : s <= sim_time /\ IsCurrent(mon, observations, s)
  BY <1>14
<1> QED
  BY <1>1, <1>14, <1>15 DEF MonitorInv

\* A streak is at least k long when the last k windows were judged so.
LEMMA StreakIs ==
    ASSUME NEW tl \in Seq(Summaries), NEW r \in Nat, NEW v, IsStreak(tl, r, v), NEW k \in Nat
    PROVE  LET n == Len(tl) IN
           r >= k <=> (n >= k /\ \A i \in n - k + 1 .. n : tl[i].near = v)
<1> DEFINE n == Len(tl)
<1>1. /\ n \in Nat /\ r <= n
      /\ \A i \in n - r + 1 .. n : tl[i].near = v
      /\ r < n => tl[n - r].near # v
  BY DEF IsStreak
<1> HIDE DEF n
<1>2. ASSUME r >= k
      PROVE  n >= k /\ \A i \in n - k + 1 .. n : tl[i].near = v
  <2>1. n >= k
    BY <1>1, <1>2
  <2>2. \A i \in n - k + 1 .. n : i \in n - r + 1 .. n
    BY <1>1, <1>2
  <2> QED
    BY <1>1, <2>1, <2>2
<1>3. ASSUME n >= k, \A i \in n - k + 1 .. n : tl[i].near = v, ~(r >= k)
      PROVE  FALSE
  <2>1. r < n /\ n - r \in n - k + 1 .. n
    BY <1>1, <1>3
  <2> QED
    BY <1>1, <1>3, <2>1
<1> QED
  BY <1>2, <1>3 DEF n

\* and then what the monitor reports is what was observed.
LEMMA MonitorReports ==
    ASSUME MonitorInv
    PROVE  Watched!MonitorExact
<1> DEFINE tl == mon.timeline
           n == Len(tl)
<1>0. IsReported(mon, observations, sim_time) /\ sim_time \in Nat /\ sim_time <= Latest
  <2>1. CASE phase = "over"
    BY <2>1 DEF MonitorInv
  <2>2. CASE phase # "over"
    <3>1. PICK s \in Nat : s <= sim_time /\ IsCurrent(mon, observations, s)
      BY <2>2 DEF MonitorInv
    <3>2. sim_time \in Nat /\ sim_time <= Latest
      BY DEF MonitorInv
    <3> QED
      BY <3>1, <3>2, CurrentReports
  <2> QED
    BY <2>1, <2>2
<1>1. /\ observations \in Seq(Observations) /\ mon \in Monitors /\ CountsKnown(mon, observations)
      /\ TimelineKnown(mon, observations) /\ StreaksKnown(mon)
      /\ ObservedBefore(observations, sim_time + 1)
  BY <1>0 DEF IsReported
<1>2. tl \in Seq(Summaries) /\ n \in Nat /\ DOMAIN tl = 1 .. n
      /\ mon.recovered_hold \in Nat /\ mon.metastable_persist \in Nat
  BY <1>1, MonitorFields
<1>3. \A i \in 1 .. n : SummaryKnown(tl[i], observations, i)
  BY <1>1 DEF TimelineKnown
<1>4. \A c, s, t : Watched!Seen(c, s, t) = SeenIn(observations, c, s, t)
  BY MonitorCounts DEF Watched!Seen, SeenIn
<1>5. \A q, t : Watched!LengthAt(q, t) = LenAt(observations, q, t)
  BY DEF Watched!LengthAt, LenAt, KnownAt
<1>6. Watched!CountsExact
  <2>1. ASSUME NEW i \in DOMAIN tl
        PROVE  /\ tl[i].start = (i - 1) * Window /\ tl[i].end = i * Window
               /\ \A c \in Counted : tl[i].counts[c] = Watched!Seen(c, tl[i].start, tl[i].end)
    BY <1>2, <1>3, <1>4 DEF SummaryKnown
  <2>2. \A c \in Counted : mon.counts[c] = SeenIn(observations, c, mon.window_start, Latest + 1)
    BY <1>1 DEF CountsKnown
  <2>3. \A c \in Counted : SeenIn(observations, c, mon.window_start, Latest + 1)
                              = SeenIn(observations, c, mon.window_start, sim_time + 1)
    <3> DEFINE ws == mon.window_start
               e == Latest + 1
               b == sim_time + 1
    <3>1. /\ ws \in Nat /\ e \in Nat /\ b \in Nat /\ b <= e
          /\ ObservedBefore(observations, b) /\ observations \in Seq(Observations)
      BY <1>0, <1>1, MonitorFields, MonitorConstants
    <3> HIDE DEF ws, e, b
    <3>2. ObservedBefore(observations, e)
      BY <3>1, ObservedLater
    <3>3. \A c \in Counted : SeenIn(observations, c, ws, e) = SeenIn(observations, c, ws, b)
      BY <3>1, <3>2, SeenBefore
    <3> QED
      BY <3>3 DEF ws, e, b
  <2>4. \A c \in Counted : mon.counts[c] = Watched!Seen(c, mon.window_start, sim_time + 1)
    BY <1>4, <2>2, <2>3
  <2>5. ~Watched!UsersTurn => sim_time < mon.window_start + Window
    BY DEF MonitorInv, IsCurrent, Watched!UsersTurn
  <2> QED
    BY <2>1, <2>4, <2>5 DEF Watched!CountsExact
<1>7. Watched!MeansExact
  <2>1. ASSUME NEW i \in DOMAIN tl, NEW q \in DOMAIN tl[i].integral
        PROVE  tl[i].integral[q] = Watched!SumFunction(
                  [t \in tl[i].start .. tl[i].end - 1 |-> Watched!LengthAt(q, t)])
    <3> DEFINE a == tl[i].start
               b == tl[i].end
               f == [t \in a .. b - 1 |-> Watched!LengthAt(q, t)]
    <3>1. tl[i].integral[q] = Total(observations, q, a, b)
      BY <1>2, <1>3 DEF SummaryKnown
    <3>2. f = [t \in a .. b - 1 |-> LenAt(observations, q, t)] /\ DOMAIN f = a .. b - 1
      BY <1>5
    <3>3. Watched!SumFunction(f) = SumFunctionOnSet(f, DOMAIN f)
      BY MonitorCounts
    <3>4. SumFunctionOnSet(f, DOMAIN f) = Total(observations, q, a, b)
      <4> HIDE DEF f, a, b
      <4> QED
        BY <3>2 DEF Total
    <3> QED
      BY <3>1, <3>3, <3>4
  <2> QED
    BY <2>1 DEF Watched!MeansExact
<1>8. Watched!JudgedByLast
  <2> DEFINE r == mon.recovered_hold
             s == mon.metastable_persist
             Last(k, near) == n >= k /\ \A i \in n - k + 1 .. n : tl[i].near = near
  <2>1. r \in Nat /\ s \in Nat /\ Hold \in Nat /\ Hold > 0 /\ Persist \in Nat /\ Persist > 0
    BY <1>2, MonitorConstants
  <2>2. IsStreak(tl, r, TRUE) /\ IsStreak(tl, s, FALSE)
    BY <1>1 DEF StreaksKnown
  <2> HIDE DEF r, s, tl
  <2>3. r >= Hold <=> Last(Hold, TRUE)
    BY <1>2, <2>1, <2>2, StreakIs
  <2>4. s >= Persist <=> Last(Persist, FALSE)
    BY <1>2, <2>1, <2>2, StreakIs
  <2>5. ~(r >= Hold /\ s >= Persist)
    <3>1. SUFFICES ASSUME r >= Hold, s >= Persist PROVE FALSE
      OBVIOUS
    <3>2. n >= 1 /\ n \in n - Hold + 1 .. n /\ n \in n - Persist + 1 .. n
      BY <1>2, <2>1, <2>3, <3>1
    <3>3. tl[n].near = TRUE /\ tl[n].near = FALSE
      BY <2>3, <2>4, <3>1, <3>2
    <3> QED
      BY <3>3, Zenon
  <2>6. ~(Watched!Recovered /\ Watched!Metastable)
    BY <2>5 DEF Watched!Recovered, Watched!Metastable, r, s
  <2>7. Watched!Recovered <=> Last(Hold, TRUE)
    BY <2>3 DEF Watched!Recovered, r
  <2>8. mon.metastable_persist >= Persist <=> Last(Persist, FALSE)
    BY <2>4 DEF s
  <2> QED
    BY <2>6, <2>7, <2>8, Zenon DEF Watched!JudgedByLast, tl
<1> QED
  BY <1>6, <1>7, <1>8 DEF Watched!MonitorExact

\* monitor.rs: every observation is counted once, in the window that its time is in,
\* the mean of a queue is that of its length at every moment, and a system is called
\* recovered or metastable by its last windows.
THEOREM MonitorIsExact == Spec => []MonitorExact
<1>1. Init => MonitorInv
  BY MonitorStarts
<1>2. MonitorInv /\ [Next]_vars => MonitorInv'
  BY MonitorNextKeeps
<1>3. MonitorInv => MonitorExact
  BY MonitorReports DEF MonitorExact
<1> QED
  BY <1>1, <1>2, <1>3, PTL DEF Spec
=============================================================================
