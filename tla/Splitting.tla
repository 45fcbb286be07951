----------------------------- MODULE Splitting ------------------------------
(***************************************************************************)
(* des-explore, splitting.rs and estimate.rs: rare behaviour is found, or  *)
(* its probability estimated, level by level.  A particle runs the         *)
(* simulation from the start: it replays the draws of its prefix, then     *)
(* draws afresh, and when its score first reaches the level the draws so   *)
(* far are captured as a prefix for the next level.  Monte Carlo runs      *)
(* without levels.  The score of a run is that of its last window, here    *)
(* what was drawn last, and a run is terminal (metastable) when the last   *)
(* two windows were as bad as can be.                                      *)
(***************************************************************************)
EXTENDS Integers, Sequences, FiniteSets, SequencesExt

CONSTANTS Methods,      \* "find", "estimate", "monte carlo"
          Loads,        \* what is drawn
          Levels,       \* the thresholds, increasing
          Particles,    \* particles per level, or trials
          BranchFactor, \* continuations of a captured prefix ("find")
          Horizon,      \* end_time, in steps
          Nil

VARIABLES
    method,
    level,          \* the number of the level, Len(Levels) + 1 in the terminal stage
    particles,      \* the prefixes to continue
    p,              \* the particle that runs
    history,        \* its draws
    captured,       \* the prefix at the threshold, or Nil
    next_level,     \* the prefixes for the next level
    stage_successes,
    example,        \* the draws of a terminal run, or Nil
    finished,       \* the method has returned
    seen_terminal   \* history: some run was terminal

splitting_vars == <<method, level, particles, p, history, captured, next_level, stage_successes,
                    example, finished, seen_terminal>>

SplittingAssumption ==
    /\ Particles \in Nat \ {0} /\ BranchFactor \in Nat
    /\ Loads \subseteq Int /\ Levels \in Seq(Int) /\ Nil \notin Seq(Loads)
    /\ \A i, j \in DOMAIN Levels : i < j => Levels[i] < Levels[j]

SplittingInit ==
    /\ method \in Methods
    /\ level = IF method = "monte carlo" THEN Len(Levels) + 1 ELSE 1
    /\ particles = IF method = "find" THEN <<(<<>>)>> ELSE [i \in 1 .. Particles |-> <<>>]
    /\ p = 1 /\ history = <<>> /\ captured = Nil /\ next_level = <<>>
    /\ stage_successes = <<>> /\ example = Nil
    /\ finished = FALSE /\ seen_terminal = FALSE

-----------------------------------------------------------------------------
Score(h) == h[Len(h)]

Terminal(h) ==
    /\ Len(h) >= 2
    /\ \A i \in Len(h) - 1 .. Len(h), l \in Loads : h[i] >= l

\* What may be drawn next: the prefix first.
NextLoads ==
    IF Len(history) < Len(particles[p]) THEN {particles[p][Len(history) + 1]} ELSE Loads

TerminalStage == level = Len(Levels) + 1

\* run_until_threshold_or_end, run_until_end_or: one step.  A terminal run stops
\* before its score is looked at.
RunStep ==
    /\ ~finished /\ Len(history) < Horizon /\ ~Terminal(history)
    /\ \E v \in NextLoads :
        LET h == Append(history, v) IN
        /\ history' = h
        /\ captured' = IF captured = Nil /\ ~TerminalStage /\ ~Terminal(h)
                          /\ Score(h) >= Levels[level]
                       THEN h ELSE captured
    /\ UNCHANGED <<method, level, particles, p, next_level, stage_successes, example, finished,
                   seen_terminal>>

\* The run is over: with what it captured, and whether it was terminal, if only
\* by the windows that the final flush closes.
RunEnds(hit) ==
    /\ ~finished
    /\ \/ Terminal(history) /\ hit
       \/ ~Terminal(history) /\ Len(history) = Horizon
    /\ seen_terminal' = (seen_terminal \/ hit)

\* The method returns.
Return ==
    /\ finished' = TRUE
    /\ UNCHANGED <<level, particles, p, history, captured, next_level>>

\* The next run, of particle n of prefixes ps, at level l.
Continue(l, ps, n) ==
    /\ level' = l /\ particles' = ps /\ p' = n
    /\ history' = <<>> /\ captured' = Nil
    /\ UNCHANGED finished

\* The continuations of a captured prefix, within max_particles_per_level.
Spawned(c) ==
    LET room == Particles - Len(next_level) IN
    next_level \o [i \in 1 .. (IF room < BranchFactor THEN room ELSE BranchFactor) |-> c]

\* find_with_splitting: the end of a run.
FindRunEnds(hit) ==
    /\ method = "find" /\ RunEnds(hit)
    /\ LET spawned == IF captured = Nil THEN next_level ELSE Spawned(captured) IN
       \/ /\ hit
          /\ example' = history
          /\ Return
       \/ /\ ~hit /\ p < Len(particles)
          /\ next_level' = spawned
          /\ Continue(level, particles, p + 1)
          /\ UNCHANGED example
       \/ /\ ~hit /\ p = Len(particles) /\ spawned # <<>> /\ level < Len(Levels)
          /\ next_level' = <<>>
          /\ Continue(level + 1, spawned, 1)
          /\ UNCHANGED example
       \/ /\ ~hit /\ p = Len(particles) /\ (spawned = <<>> \/ level = Len(Levels))
          /\ Return
          /\ UNCHANGED example
    /\ UNCHANGED <<method, stage_successes>>

\* estimate_with_splitting: the end of a run at a level.  The next level continues
\* prefixes picked from the captured ones.
LevelRunEnds(hit) ==
    /\ method = "estimate" /\ ~TerminalStage /\ RunEnds(hit)
    /\ example' = IF hit /\ example = Nil THEN history ELSE example
    /\ LET successful == IF captured = Nil THEN next_level ELSE Append(next_level, captured) IN
       \/ /\ p < Particles
          /\ next_level' = successful
          /\ Continue(level, particles, p + 1)
          /\ UNCHANGED stage_successes
       \/ /\ p = Particles
          /\ stage_successes' = Append(stage_successes, Len(successful))
          /\ \/ /\ successful = <<>>
                /\ Return
             \/ /\ successful # <<>>
                /\ next_level' = <<>>
                /\ \E picks \in [1 .. Particles -> DOMAIN successful] :
                    Continue(level + 1, [j \in 1 .. Particles |-> successful[picks[j]]], 1)
    /\ UNCHANGED method

\* ... and in the terminal stage; estimate_monte_carlo has only that.
TerminalRunEnds(hit) ==
    /\ TerminalStage /\ RunEnds(hit)
    /\ example' = IF hit /\ example = Nil /\ method = "estimate" THEN history ELSE example
    /\ LET successful == IF hit THEN Append(next_level, history) ELSE next_level IN
       \/ /\ p < Particles
          /\ next_level' = successful
          /\ Continue(level, particles, p + 1)
          /\ UNCHANGED stage_successes
       \/ /\ p = Particles
          /\ stage_successes' = Append(stage_successes, Len(successful))
          /\ Return
    /\ UNCHANGED method

SplittingNext ==
    \/ RunStep
    \/ \E hit \in BOOLEAN : FindRunEnds(hit) \/ LevelRunEnds(hit) \/ TerminalRunEnds(hit)

-----------------------------------------------------------------------------
\* The product of the conditional probabilities of the stages is positive.
EstimatedPositive == \A i \in DOMAIN stage_successes : stage_successes[i] > 0

\* A particle continues what it was split from: its run repeats the whole prefix,
\* and what it captures at the next level contains it.
PrefixesNest ==
    /\ IsPrefix(history, particles[p]) \/ IsPrefix(particles[p], history)
    /\ captured # Nil => IsPrefix(particles[p], captured)

\* No level has more particles than allowed.
ParticlesBounded == Len(particles) <= Particles /\ Len(next_level) <= Particles

\* A search that returns nothing has met nothing, and an estimate above zero
\* comes with an example.
ResultsWitnessed ==
    /\ finished /\ method = "find" => (example # Nil <=> seen_terminal)
    /\ finished /\ method = "estimate" /\ EstimatedPositive => example # Nil

\* splitting.rs, estimate.rs: particles go on from where they were split, and the
\* result is backed by what happened.
SplittingSound == PrefixesNest /\ ParticlesBounded /\ ResultsWitnessed

\* "Estimated probability of satisfying the terminal predicate" (estimate.rs): it
\* is not zero where a run satisfied it.
ExampleIsCounted == finished /\ method = "estimate" /\ example # Nil => EstimatedPositive
=============================================================================
