------------------------------ MODULE Monitor -------------------------------
(***************************************************************************)
(* des-explore, monitor.rs: what is observed of a simulation is summed up  *)
(* window by window; windows after the warm-up are compared with the       *)
(* baseline, and those near it and far from it are counted to tell a       *)
(* recovered system from a metastable one.  Means and rates are kept as    *)
(* the sums they are computed from, and whether a window is near the       *)
(* baseline (a distance of floats) is left open.                           *)
(***************************************************************************)
EXTENDS Integers, Sequences, FiniteSets, FiniteSetsExt, Functions

CONSTANTS Queues, Lengths, Window,
          Warmup,         \* baseline_warmup_windows
          Hold,           \* recovery_hold_windows
          Persist,        \* metastable_persist_windows
          RecoveryLimit,  \* recovery_time_limit
          SpikeEnds,      \* times that mark_post_spike_start is called with
          Counted,        \* what is only counted: "in_time", "late", "drop", "timeout", "retry"
          MaxEnd,         \* end_time: no step is taken from then on
          MaxObservations,
          Nil

VARIABLES
    mon,           \* the Monitor
    observations,  \* what was observed: [time, kind, queue, len], in order
    sim_time,
    phase          \* of run_until_end_or: "setup", "step" (handlers run), "between" steps, "over"

monitor_vars == <<mon, observations, sim_time, phase>>

MonitorAssumption ==
    /\ Window \in Nat \ {0} /\ Hold \in Nat \ {0} /\ Persist \in Nat \ {0}
    /\ Warmup \in Nat /\ RecoveryLimit \in Nat \cup {Nil} /\ MaxEnd \in Nat
    /\ Lengths \subseteq Nat /\ SpikeEnds \subseteq Nat
    /\ Nil \notin Queues \cup BOOLEAN /\ "queue" \notin Counted

NoCounts == [c \in Counted |-> 0]

\* QueueState::new
NewQueue(t) == [len |-> 0, max |-> 0, last_time |-> t, integral |-> 0]

MonitorInit ==
    /\ mon = [window_start |-> 0, queues |-> [q \in {} |-> Nil], counts |-> NoCounts,
              warm |-> 0, recovered_hold |-> 0, metastable_persist |-> 0,
              post_spike_start |-> Nil, timeline |-> <<>>]
    /\ observations = <<>>
    /\ sim_time = 0
    /\ phase = "setup"

-----------------------------------------------------------------------------
\* SimTime::duration_since, which saturates.
DurationSince(t, earlier) == IF t < earlier THEN 0 ELSE t - earlier

\* QueueState: the integral of the length up to t; a time that is past adds nothing,
Integrated(q, t) ==
    [q EXCEPT !.integral = @ + q.len * DurationSince(t, q.last_time), !.last_time = t]

\* observe_len,
ObserveLen(q, t, len) ==
    [Integrated(q, t) EXCEPT !.len = len, !.max = IF len > @ THEN len ELSE @]

\* reset_for_next_window.
ResetQueue(q, t) == [q EXCEPT !.last_time = t, !.max = q.len, !.integral = 0]

\* flush_window at the end of the window; near: the distance to the baseline is
\* at most baseline_epsilon.
FlushWindow(m, near) ==
    LET end == m.window_start + Window
        closed == [q \in DOMAIN m.queues |-> Integrated(m.queues[q], end)]
        judged == m.warm = Warmup
        summary == [start |-> m.window_start, end |-> end, counts |-> m.counts,
                    integral |-> [q \in DOMAIN closed |-> closed[q].integral],
                    max |-> Max({0} \cup {closed[q].max : q \in DOMAIN closed}),
                    near |-> IF judged THEN near ELSE Nil]
    IN  [m EXCEPT !.window_start = end,
                  !.queues = [q \in DOMAIN closed |-> ResetQueue(closed[q], end)],
                  !.counts = NoCounts,
                  !.warm = IF judged THEN @ ELSE @ + 1,
                  !.recovered_hold = IF ~judged THEN @ ELSE IF near THEN @ + 1 ELSE 0,
                  !.metastable_persist = IF ~judged THEN @ ELSE IF near THEN 0 ELSE @ + 1,
                  !.timeline = Append(@, summary)]

\* How many windows are over at t, none when it is past,
WindowsOver(m, t) == DurationSince(t, m.window_start) \div Window

\* flush_up_to: they are flushed one after the other.
FlushUpTo(m, t, nears) ==
    LET F[n \in 0 .. Len(nears)] == IF n = 0 THEN m ELSE FlushWindow(F[n - 1], nears[n])
        flushed == F[Len(nears)]
    IN  [flushed EXCEPT !.queues = [q \in DOMAIN @ |-> Integrated(@[q], t)]]

\* The monitors that flush_up_to may leave.
Flushed(t) ==
    {FlushUpTo(mon, t, nears) : nears \in [1 .. WindowsOver(mon, t) -> BOOLEAN]}

-----------------------------------------------------------------------------
\* Where the code of a user runs: when the simulation is set up, and in its handlers.
UsersTurn == phase \in {"setup", "step"}

Observe(o) ==
    /\ UsersTurn
    /\ Len(observations) < MaxObservations
    /\ observations' = Append(observations, o)
    /\ UNCHANGED <<sim_time, phase>>

\* Mutant: what is counted does not flush the windows that are over.
CountUnflushed(c) ==
    /\ mon' = [mon EXCEPT !.counts[c] = @ + 1]
    /\ Observe([time |-> sim_time, kind |-> c, queue |-> Nil, len |-> 0])

\* observe_drop, observe_timeout, observe_retry, observe_complete
Count(c) ==
    /\ \E m \in Flushed(sim_time) : mon' = [m EXCEPT !.counts[c] = @ + 1]
    /\ Observe([time |-> sim_time, kind |-> c, queue |-> Nil, len |-> 0])

\* observe_queue_len: a queue is known from its first observation on.
ObserveQueueLen(q, len) ==
    /\ \E m \in Flushed(sim_time) :
        LET old == IF q \in DOMAIN m.queues THEN m.queues[q] ELSE NewQueue(m.window_start) IN
        mon' = [m EXCEPT !.queues = [p \in DOMAIN @ \cup {q} |->
                                        IF p = q THEN ObserveLen(old, sim_time, len) ELSE @[p]]]
    /\ Observe([time |-> sim_time, kind |-> "queue", queue |-> q, len |-> len])

\* mark_post_spike_start: at any time, of any time, and again.
MarkPostSpikeStart(t) ==
    /\ UsersTurn
    /\ mon' = [mon EXCEPT !.post_spike_start = t]
    /\ UNCHANGED <<observations, sim_time, phase>>

-----------------------------------------------------------------------------
(* run_until_end_or *)

\* sim.step(): the clock moves to the next event, which may be later than the end, and
\* its handlers run; the monitor hears of the time by what they observe.
SimulationStep(d) ==
    /\ phase \in {"setup", "between"} /\ sim_time < MaxEnd
    /\ sim_time' = sim_time + d
    /\ phase' = "step"
    /\ UNCHANGED <<mon, observations>>

\* flush_up_to(now) after the step; stop, any predicate of the status, may end the run.
FlushAfterStep ==
    /\ phase = "step"
    /\ mon' \in Flushed(sim_time)
    /\ phase' \in {"between", "over"}
    /\ UNCHANGED <<observations, sim_time>>

\* flush_up_to(end_time): no event is left, or the end is reached, maybe passed.
FinalFlush ==
    /\ phase \in {"setup", "between"}
    /\ mon' \in Flushed(MaxEnd)
    /\ phase' = "over"
    /\ UNCHANGED <<observations, sim_time>>

-----------------------------------------------------------------------------
(* status *)

Recovered == mon.recovered_hold >= Hold

LastEnd == mon.timeline[Len(mon.timeline)].end

\* is_metastable
Metastable ==
    \/ mon.metastable_persist >= Persist
    \/ /\ RecoveryLimit # Nil /\ mon.post_spike_start # Nil /\ mon.timeline # <<>>
       /\ DurationSince(LastEnd, mon.post_spike_start) >= RecoveryLimit
       /\ ~Recovered

\* Bound: an event is at most so far off, more than two windows.
LongestStep == 2 * Window + 1

MonitorNext ==
    \/ \E c \in Counted : Count(c)
    \/ \E q \in Queues, len \in Lengths : ObserveQueueLen(q, len)
    \/ \E t \in SpikeEnds : MarkPostSpikeStart(t)
    \/ \E d \in 0 .. LongestStep : SimulationStep(d)
    \/ FlushAfterStep
    \/ FinalFlush

-----------------------------------------------------------------------------
\* How often c was observed from s on and before t.
Seen(c, s, t) ==
    Cardinality({i \in DOMAIN observations :
                    observations[i].kind = c /\ s <= observations[i].time /\ observations[i].time < t})

\* The length of q at t: what was observed last.
LengthAt(q, t) ==
    LET known == {i \in DOMAIN observations :
                     observations[i].queue = q /\ observations[i].time <= t}
    IN  IF known = {} THEN 0 ELSE observations[Max(known)].len

\* Every observation is counted, once, and in the window that its time is in, also one at
\* the very end of a window or the first after many; and no window that is over is
\* missing when stop or the caller reads the status.
CountsExact ==
    /\ \A i \in DOMAIN mon.timeline :
        LET w == mon.timeline[i] IN
        /\ w.start = (i - 1) * Window /\ w.end = i * Window
        /\ \A c \in Counted : w.counts[c] = Seen(c, w.start, w.end)
    /\ \A c \in Counted : mon.counts[c] = Seen(c, mon.window_start, sim_time + 1)
    /\ ~UsersTurn => sim_time < mon.window_start + Window

\* The mean of a queue in a window is that of its length at every moment of it,
\* whenever it was observed.
MeansExact ==
    \A i \in DOMAIN mon.timeline :
        LET w == mon.timeline[i] IN
        \A q \in DOMAIN w.integral :
            w.integral[q] = SumFunction([t \in w.start .. w.end - 1 |-> LengthAt(q, t)])

\* A system is not recovered and metastable at once, and either is said of the
\* last windows: so many of them, one after the other, were near or far.
JudgedByLast ==
    LET n == Len(mon.timeline)
        last(k, near) == n >= k /\ \A i \in n - k + 1 .. n : mon.timeline[i].near = near
    IN  /\ ~(Recovered /\ Metastable)
        /\ Recovered <=> last(Hold, TRUE)
        /\ mon.metastable_persist >= Persist <=> last(Persist, FALSE)

\* monitor.rs: what the monitor reports is what was observed.
MonitorExact == CountsExact /\ MeansExact /\ JudgedByLast
=============================================================================
