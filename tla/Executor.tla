------------------------------ MODULE Executor ------------------------------
(***************************************************************************)
(* Executor::execute (execute.rs): the loop that drives Simulation::step   *)
(* until a time, for a number of steps, or until no event is left.  A side *)
(* effect registered with the executor runs between two steps and may call *)
(* the scheduler through a SchedulerHandle, so Scheduler's calls stay open *)
(* while a run is under way.                                               *)
(***************************************************************************)
EXTENDS Scheduler

CONSTANTS TimeLimit,   \* limits the program passes to Executor::timed
          StepLimit    \* counts the program passes to Executor::steps

VARIABLE run   \* the end condition of the executor under way, or Nil

evars == <<vars, run>>

EndCondition == [mode : {"timed"}, limit : TimeLimit, start : Time]
                  \cup [mode : {"steps"}, left : Nat]
                  \cup [mode : {"unbound"}]

ASSUME ExecutorAssumption ==
    /\ TimeLimit \subseteq Time
    /\ StepLimit \subseteq Nat
    /\ Nil \notin EndCondition

ExecutorTypeOK == run \in EndCondition \cup {Nil}

ExecutorInit == Init /\ run = Nil

\* Executor::timed / steps / unbound followed by execute.
Execute(condition) ==
    /\ ~in_context
    /\ run = Nil
    /\ run' = condition
    /\ UNCHANGED vars

Start ==
    \/ \E t \in TimeLimit : Execute([mode |-> "timed", limit |-> t, start |-> clock])
    \/ \E n \in StepLimit : Execute([mode |-> "steps", left |-> n])
    \/ Execute([mode |-> "unbound"])

\* Mutant: the limit itself is excluded.
DueStrictly(limit) == \E e \in events : e.time < limit

\* execute_until: peek_next_event_time().is_some_and(|t| t <= time).  The peek
\* does not skip the entries of cancelled tasks.
DueBy(limit) == \E e \in events : e.time <= limit

\* execute_steps: for i in 0..steps.
StepsLeft(n) == n > 0

\* The loop calls step once more.
LoopContinues ==
    CASE run.mode = "timed"   -> DueBy(run.limit)
      [] run.mode = "steps"   -> StepsLeft(run.left)
      [] run.mode = "unbound" -> TRUE

\* step returns true.
LoopPops ==
    /\ run # Nil /\ ~in_context
    /\ LoopContinues
    /\ \E e \in events : Pop(e)
    /\ run' = IF run.mode = "steps" THEN [run EXCEPT !.left = @ - 1] ELSE run

\* step returns false: only execute_until ignores that and looks at the heap again.
LoopPopsNothing ==
    /\ run # Nil /\ ~in_context
    /\ LoopContinues
    /\ PopNothing \/ (events = {} /\ UNCHANGED vars)
    /\ run' = IF run.mode = "timed" THEN run ELSE Nil

LoopEnds ==
    /\ run # Nil /\ ~in_context
    /\ ~LoopContinues
    /\ run' = Nil
    /\ UNCHANGED vars

\* Calls of a handler, of a side effect, or of the program between two runs.
\* The executor borrows the Simulation: no component is removed during a run.
UserCall ==
    /\ Call
    /\ run # Nil => UNCHANGED components
    /\ UNCHANGED run

ExecutorNext ==
    \/ Start
    \/ LoopPops \/ LoopPopsNothing \/ LoopEnds
    \/ UserCall
    \/ (EndHandler \/ TaskReturns) /\ UNCHANGED run

ExecutorSpec == ExecutorInit /\ [][ExecutorNext]_evars

----------------------------------------------------------------------------
(* Properties *)

\* A run ends with its work done: a timed run leaves no live event due by its
\* limit, a stepped run ends early only without live events, an unbound run
\* only without them.  Tombstones at the head of the heap, which make step
\* return false or the peek look early, do not end a run too soon.
RunEndsWithWorkDone ==
    [][run # Nil /\ run' = Nil =>
         CASE run.mode = "timed"   -> \A e \in Live : e.time > run.limit
           [] run.mode = "steps"   -> run.left = 0 \/ Live = {}
           [] run.mode = "unbound" -> Live = {}]_evars

\* Executor::timed: "Simulation will be run no longer than the given time."
TimedRunStaysWithinLimit ==
    run # Nil /\ run.mode = "timed" => clock <= run.limit \/ clock = run.start

----------------------------------------------------------------------------
(* The tasks of the instance TLC checks *)

\* A closure, and a periodic task that never stops.
MCForever == {MCTask("closure", 0, 0), MCTask("periodic", Unlimited, 1)}
=============================================================================
