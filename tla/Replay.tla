------------------------------- MODULE Replay -------------------------------
(***************************************************************************)
(* des-explore: a run of a simulated program is recorded (run_recorded),   *)
(* and its trace then either replayed (run_replayed) or used to control    *)
(* another run (run_controlled), of the same program or of a changed one.  *)
(* A program is what the simulation makes of choices: an event draws a     *)
(* random number or not, schedules events and makes tasks ready.  The      *)
(* choices are among events of the same time ("frontier") and among ready  *)
(* tasks ("ready").                                                        *)
(***************************************************************************)
EXTENDS Integers, Sequences, FiniteSets, SequencesExt

CONSTANTS Programs,  \* what the event of a label does in each program
          Values,    \* what a draw may give
          Configs,   \* the HarnessConfigs of the first run
          Nil

VARIABLES
    run,        \* "recorded", "replayed" or "controlled"
    program,    \* the program that runs
    cfg,        \* HarnessConfig
    control,    \* HarnessControl: what is explored, and the decision script
    pending,    \* the scheduled events, [seq, time, label]
    next_seq,
    clock,
    ready,      \* the poll set of the runtime, in order
    events,     \* the trace recorded so far
    done,       \* what the run has done: labels and tasks with their times
    decided,    \* the choices that policies were asked for, and what they chose
    draws,      \* the draws still to be replayed
    next,       \* how many decisions (and concurrency events) were replayed, by kind
    error,      \* the first mismatch, by kind
    result,     \* of the run: Nil while it lasts
    base        \* the first run, once it is over

run_vars == <<pending, next_seq, clock, ready, done, decided>>
trace_vars == <<events, draws, next, error>>
replay_vars == <<run, program, cfg, control, run_vars, trace_vars, result, base>>

Kinds == {"frontier", "ready"}
Streams == Kinds \cup {"concurrency"}
Start == "start"

ReplayAssumption == Nil \notin {"ok", "panic", "refused"} \cup Streams

-----------------------------------------------------------------------------
(* Traces. *)

\* The events of one type, in order.
Of(type, trace) == SelectSeq(trace, LAMBDA e : e.type = type)

RandomDraw(site, v) == [type |-> "draw", site |-> site, value |-> v]
Decision(k, t, ids, i) ==
    [type |-> k, time |-> t, index |-> i, chosen |-> ids[i], ids |-> ids]
Concurrency(task, t) == [type |-> "concurrency", task |-> task, time |-> t]

\* Older traces lack ids: that of the choice, or also those it was made from.
Stripped(trace, how) ==
    [i \in DOMAIN trace |->
        IF trace[i].type \notin Kinds \/ how = "full" THEN trace[i]
        ELSE IF how = "indexed" THEN [trace[i] EXCEPT !.chosen = Nil]
        ELSE [trace[i] EXCEPT !.chosen = Nil, !.ids = <<>>]]

\* DecisionKey::new: the ids are normalized.
DecisionKey(k, t, n, ids) == [kind |-> k, time |-> t, ordinal |-> n, choice_set |-> ToSet(ids)]

\* The chosen id, found by its index if the trace has no id.
ChosenIn(e) == IF e.chosen = Nil THEN e.ids[e.index] ELSE e.chosen

\* extract_decisions: the ordinals count each kind by itself.
ExtractDecisions(trace) ==
    UNION {LET own == Of(k, trace) IN
           {[key |-> DecisionKey(k, own[n].time, n - 1, own[n].ids), ids |-> {ChosenIn(own[n])}]
               : n \in DOMAIN own} : k \in Kinds}

-----------------------------------------------------------------------------
(* The policies: at a choice of kind k among ids, what each may choose. *)

Swapped(s, i) ==
    IF i = Len(s) THEN Front(s) ELSE [Front(s) EXCEPT ![i] = Last(s)]

\* The configured policy: first come first served if there is none.
BaseChoice(k, ids) ==
    IF cfg[k] # Nil /\ cfg[k].policy = "random" THEN DOMAIN ids ELSE {1}

\* Mutant: decisions of both kinds are counted together.
OrdinalOfAny(k) == Len(decided)

\* How many decisions of the kind were made.
Ordinal(k) == Len(Of(k, decided))

\* The entries that force a choice.
Forced(k, t, ids) ==
    {e \in control.script : e.key = DecisionKey(k, t, Ordinal(k), ids)}

\* choose_from_key: what a table leaves for the key, one id or several.
ForcedIds(k, t, ids) == UNION {e.ids : e \in Forced(k, t, ids)}

\* TableFrontierPolicy, TableReadyTaskPolicy: the ids that can be chosen.
TableChoice(forced, ids) == {i \in DOMAIN ids : ids[i] \in forced}

\* ExplorationFrontierPolicy, ExplorationReadyTaskPolicy and the policies over a
\* table: an entry forces its choice, if it can be made.
ExploredChoice(k, t, ids) ==
    LET forced == ForcedIds(k, t, ids) IN
    TableChoice(forced, ids)
        \cup (IF forced # {} /\ forced \subseteq ToSet(ids) THEN {} ELSE BaseChoice(k, ids))

\* The decisions that ReplayFrontierPolicy and ReplayReadyTaskPolicy replay.
Decisions(k) == Of(k, control.trace)

\* Mutant: only as many ids as there were.
SameNumber(d, ids) == d.ids = <<>> \/ Len(d.ids) = Len(ids)

\* The choice is among the same ids, whatever their order.
SameChoices(d, ids) == d.ids = <<>> \/ ToSet(d.ids) = ToSet(ids)

\* What is wrong with replaying d among ids, or Nil.
Mismatch(k, t, d, ids) ==
    IF d.time # t THEN "time"
    ELSE IF ~SameChoices(d, ids) THEN "choices"
    ELSE IF d.chosen # Nil
         THEN IF d.chosen \in ToSet(ids) THEN Nil ELSE "not found"
         ELSE IF k = "frontier" /\ d.index > Len(ids) THEN "out of bounds" ELSE Nil

\* A mismatch is kept, and the run goes on with the first of the ids.
Replayed(k, t, ids) ==
    IF error[k] # Nil \/ Decisions(k) = <<>>
    THEN [index |-> 1, next |-> next[k], error |-> error[k]]
    ELSE IF next[k] = Len(Decisions(k))
    THEN [index |-> 1, next |-> next[k], error |-> [at |-> next[k] + 1, what |-> "out of decisions"]]
    ELSE LET d == Decisions(k)[next[k] + 1]
             wrong == Mismatch(k, t, d, ids)
             clamped == IF d.index > Len(ids) THEN Len(ids) ELSE d.index
         IN  [next |-> next[k] + 1,
              error |-> IF wrong = Nil THEN Nil ELSE [at |-> next[k] + 1, what |-> wrong],
              index |-> IF d.chosen = Nil /\ wrong \in {Nil, "out of bounds"} THEN clamped
                        ELSE IF wrong = Nil THEN CHOOSE i \in DOMAIN ids : ids[i] = d.chosen
                        ELSE 1]

\* What the policy of kind k may choose at time t,
MayChoose(k, t, ids) ==
    IF run = "replayed" THEN {Replayed(k, t, ids).index}
    ELSE IF k \in control.explore THEN ExploredChoice(k, t, ids)
    ELSE BaseChoice(k, ids)

\* the entry it leaves in the trace,
Recorded(k, t, ids, i) ==
    IF run # "replayed" /\ (k \in control.explore \/ (cfg[k] # Nil /\ cfg[k].record))
    THEN <<Decision(k, t, ids, i)>> ELSE <<>>

\* and what it remembers.
Decide(k, t, ids, i) ==
    /\ decided' = Append(decided, Decision(k, t, ids, i))
    /\ \/ run # "replayed" /\ UNCHANGED <<next, error>>
       \/ /\ run = "replayed"
          /\ next' = [next EXCEPT ![k] = Replayed(k, t, ids).next]
          /\ error' = [error EXCEPT ![k] = Replayed(k, t, ids).error]

-----------------------------------------------------------------------------
(* Randomness. *)

\* SharedChainedRandomProvider: recorded draws first, then fresh ones.  {} is a
\* panic: the recorded draw was made at another site.
DrawAt(site) ==
    IF draws = <<>> THEN Values
    ELSE IF Head(draws).site = site THEN {Head(draws).value} ELSE {}

\* ReplayRandomProvider: every draw is replayed once.
DrawsLeft == IF draws = <<>> THEN <<>> ELSE Tail(draws)

-----------------------------------------------------------------------------
(* A run. *)

NewRun(p) ==
    /\ program' = p
    /\ pending' = {[seq |-> 0, time |-> 0, label |-> Start]}
    /\ next_seq' = 1
    /\ clock' = 0
    /\ ready' = <<>>
    /\ events' = <<>> /\ done' = <<>> /\ decided' = <<>>
    /\ next' = [k \in Streams |-> 0]
    /\ error' = [k \in Streams |-> Nil]

\* The checks on a configuration: nothing can be set of a runtime that is not
\* installed.  The policy of mutex waiters, which is checked likewise, is left out of
\* the configurations.
Refused(c, explore) ==
    ~c.tokio /\ (c.ready # Nil \/ c.concurrency \/ "ready" \in explore)

\* run_recorded: the first run.
ReplayInit ==
    /\ run = "recorded"
    /\ program \in Programs
    /\ cfg \in Configs
    /\ control = [explore |-> {}, script |-> {}, trace |-> <<>>]
    /\ pending = {[seq |-> 0, time |-> 0, label |-> Start]}
    /\ next_seq = 1 /\ clock = 0 /\ ready = <<>>
    /\ events = <<>> /\ done = <<>> /\ decided = <<>> /\ draws = <<>>
    /\ next = [k \in Streams |-> 0]
    /\ error = [k \in Streams |-> Nil]
    /\ result = IF Refused(cfg, {}) THEN "refused" ELSE Nil
    /\ base = Nil

\* The events of the earliest time, in the order of their seqs.
Frontier ==
    LET first == {e \in pending : \A f \in pending : e.time <= f.time} IN
    SetToSortSeq(first, LAMBDA e, f : e.seq < f.seq)

\* The event e is handled at its time: with v drawn, what its label leads to.
Handle(e, v) ==
    LET does == program[e.label]
        child(n) == [seq |-> next_seq + n - 1, label |-> does.then[n].label,
                     time |-> e.time + does.then[n].delay + v]
    IN  /\ pending' = (pending \ {e}) \cup {child(n) : n \in DOMAIN does.then}
        /\ next_seq' = next_seq + Len(does.then)
        /\ clock' = e.time
        /\ ready' = IF cfg.tokio THEN does.tasks ELSE <<>>
        /\ done' = Append(done, [label |-> e.label, task |-> 0, time |-> e.time])

\* ... with its entries in the trace; rec is the entry of the choice of e.
HandleRecorded(e, rec) ==
    \/ /\ ~program[e.label].draws
       /\ Handle(e, 0)
       /\ events' = events \o rec
       /\ UNCHANGED <<draws, result>>
    \/ /\ program[e.label].draws
       /\ \E v \in DrawAt(e.label) :
           /\ Handle(e, v)
           /\ events' = events \o rec \o <<RandomDraw(e.label, v)>>
           /\ draws' = DrawsLeft
           /\ UNCHANGED result
    \/ /\ program[e.label].draws /\ DrawAt(e.label) = {}
       /\ events' = events \o rec
       /\ result' = "panic"
       /\ UNCHANGED <<pending, next_seq, clock, ready, done, draws>>

\* A step of the simulation: a policy is asked only when there is a choice.
Step ==
    /\ result = Nil /\ ready = <<>> /\ pending # {}
    /\ LET ids == [i \in DOMAIN Frontier |-> Frontier[i].seq]
           t == Frontier[1].time
       IN  \/ /\ Len(ids) = 1
              /\ HandleRecorded(Frontier[1], <<>>)
              /\ UNCHANGED <<decided, next, error>>
           \/ /\ Len(ids) > 1
              /\ \E i \in MayChoose("frontier", t, ids) :
                  /\ Decide("frontier", t, ids, i)
                  /\ HandleRecorded(Frontier[i], Recorded("frontier", t, ids, i))
    /\ UNCHANGED <<run, program, cfg, control, base>>

\* ReplayConcurrencyValidator: what the primitives report must be what they
\* reported, as far as anything was recorded.
Expected == Of("concurrency", control.trace)

Validated(e) ==
    IF Expected = <<>> \/ error["concurrency"] # Nil THEN <<next["concurrency"], error["concurrency"]>>
    ELSE LET n == next["concurrency"] + 1 IN
         IF n > Len(Expected) THEN <<n - 1, [at |-> n, what |-> "out of events"]>>
         ELSE IF Expected[n] # e THEN <<n - 1, [at |-> n, what |-> "event"]>>
         ELSE <<n, Nil>>

\* The runtime polls one of the ready tasks, which uses a primitive.
Poll ==
    /\ result = Nil /\ ready # <<>>
    /\ \E i \in MayChoose("ready", clock, ready) :
        LET e == Concurrency(ready[i], clock)
            verdict == IF run = "replayed" THEN Replayed("ready", clock, ready)
                       ELSE [next |-> next["ready"], error |-> error["ready"]]
            validated == IF run = "replayed" THEN Validated(e)
                         ELSE <<next["concurrency"], error["concurrency"]>>
        IN  /\ decided' = Append(decided, Decision("ready", clock, ready, i))
            /\ next' = [next EXCEPT !["ready"] = verdict.next, !["concurrency"] = validated[1]]
            /\ error' = [error EXCEPT !["ready"] = verdict.error, !["concurrency"] = validated[2]]
            /\ events' = events \o Recorded("ready", clock, ready, i)
                         \o (IF cfg.concurrency THEN <<e>> ELSE <<>>)
            /\ ready' = Swapped(ready, i)
            /\ done' = Append(done, [label |-> "poll", task |-> ready[i], time |-> clock])
    /\ UNCHANGED <<run, program, cfg, control, pending, next_seq, clock, draws, result, base>>

\* The outcome of a replay: the mismatches go before a panic.
Verdict ==
    IF run # "replayed" THEN IF result = Nil THEN "ok" ELSE result
    ELSE IF error["ready"] # Nil THEN "ready"
    ELSE IF error["frontier"] # Nil THEN "frontier"
    ELSE IF error["concurrency"] # Nil THEN "concurrency"
    ELSE IF result = Nil THEN "ok" ELSE result

\* The run is over, and its trace written.
Finish ==
    /\ \/ result = Nil /\ ready = <<>> /\ pending = {}
       \/ result = "panic" /\ Verdict # "panic"
    /\ result' = Verdict
    /\ UNCHANGED <<run, program, cfg, control, run_vars, trace_vars, base>>

\* A second run can be made from the trace of the first.
Again(r, p, c, ctl) ==
    /\ run = "recorded" /\ result = "ok"
    /\ run' = r /\ cfg' = c /\ control' = ctl
    /\ base' = [program |-> program, cfg |-> cfg, events |-> events, done |-> done,
                decided |-> decided]
    /\ NewRun(p)

\* run_replayed of a trace, with a setup that wires in its draws.
RunReplayed(p, c, how) ==
    /\ LET trace == Stripped(events, how) IN
        /\ Again("replayed", p, c, [explore |-> {}, script |-> {}, trace |-> trace])
        /\ draws' = Of("draw", trace)
    /\ result' = IF c.frontier # Nil \/ c.ready # Nil THEN "refused" ELSE Nil

\* DecisionScript::insert: an entry replaces the one of the same key.
Insert(script, e) == {f \in script : f.key # e.key} \cup {e}

\* ActionDistribution: one id, of the choice or not (Nil), or any of them.
Actions(key) == {{id} : id \in key.choice_set \cup {Nil}} \cup {key.choice_set}

\* run_controlled, with the decisions of the trace as a script, one of which is
\* replaced (by itself, if by nothing else).
RunControlled(p, c, explore, how) ==
    /\ LET observed == ExtractDecisions(Stripped(events, how)) IN
       \E d \in observed : \E ids \in Actions(d.key) :
        Again("controlled", p, c,
              [explore |-> explore, trace |-> events, replaced |-> d.key,
               script |-> Insert(observed, [d EXCEPT !.ids = ids])])
    /\ draws' = Of("draw", events)
    /\ result' = IF Refused(c, explore) THEN "refused" ELSE Nil

-----------------------------------------------------------------------------
\* A run whose trace tells all: what was chosen at random was recorded.
Told(c) ==
    /\ \A k \in Kinds : c[k] # Nil /\ c[k].policy = "random" => c[k].record

Same(d, e) == d.time = e.time /\ ToSet(d.ids) = ToSet(e.ids) /\ d.ids[d.index] = e.chosen

\* harness.rs, run_replayed: the replay of a program that has not changed does
\* what the recorded run did, step by step, and finds nothing wrong, from an old
\* trace too.
ReplayFaithful ==
    /\ run = "replayed" /\ result # "refused" /\ program = base.program
    /\ cfg.tokio = base.cfg.tokio /\ Told(base.cfg)
    => /\ result \in {Nil, "ok"} /\ \A k \in Streams : error[k] = Nil
       /\ IsPrefix(done, base.done)
       /\ result = "ok" => done = base.done

\* frontier.rs, ready_task.rs: a replay agrees with the recorded run choice by
\* choice until a mismatch is noted, and that is noted at the first choice at
\* which they disagree, whatever the programs.
FirstDifferenceFound ==
    run = "replayed" =>
        \A k \in Kinds :
            LET mine == Of(k, decided)
                kept == IF error[k] = Nil THEN Len(mine) ELSE error[k].at - 1
                recorded == Of(k, base.events)
            IN  Decisions(k) # <<>> /\ Decisions(k)[1].ids # <<>> =>
                /\ kept <= Len(recorded)
                /\ \A n \in 1 .. kept : Same(mine[n], recorded[n])
                /\ error[k] # Nil /\ error[k].at <= Len(recorded) =>
                       mine[kept + 1].time # recorded[kept + 1].time
                       \/ ToSet(mine[kept + 1].ids) # ToSet(recorded[kept + 1].ids)

\* policy.rs, schedule_explore.rs: a run controlled by the decisions of a recorded
\* one, of the same program, does what that did, whatever the base policy, up to
\* the decision that was replaced, and there does as told.
ControlExact ==
    /\ run = "controlled" /\ result # "refused" /\ program = base.program
    /\ cfg.tokio = base.cfg.tokio /\ control.explore = Kinds
    /\ \A k \in Kinds : base.cfg[k] # Nil /\ base.cfg[k].record
    => \A n \in DOMAIN decided :
           (\A i \in 1 .. n - 1 : decided[i] = base.decided[i]) =>
               \/ decided[n] = base.decided[n]
               \/ LET d == decided[n] IN
                  /\ control.replaced = DecisionKey(d.type, d.time,
                         Len(Of(d.type, SubSeq(decided, 1, n - 1))), d.ids)
                  /\ \A e \in control.script : e.key = control.replaced /\ e.ids # {Nil}
                                                => d.chosen \in e.ids
=============================================================================
