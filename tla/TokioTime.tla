----------------------------- MODULE TokioTime ------------------------------
(***************************************************************************)
(* The time of des-tokio (time.rs) over the timers of the runtime: a       *)
(* Timeout, here around the receiver of a oneshot channel                  *)
(* (sync/oneshot.rs), as the calls of the RPC libraries use it, and an     *)
(* Interval with its three behaviours for missed ticks.  One task waits    *)
(* for either; sleeps are those of AsyncRuntime, whose clock waits for     *)
(* tasks that were woken.                                                  *)
(***************************************************************************)
EXTENDS Integers, FiniteSets

CONSTANTS Durations,    \* of timeouts and of reset_after
          Period,       \* of the interval
          Horizon,      \* bound: how long time is
          Nil

\* What a wait is for, what became of it, and what send returned.
Waits == {"receiver", "timeout", "tick"}
Outcomes == {"value", "closed", "elapsed", "dropped"}

TimeAssumption ==
    /\ Durations \subseteq Nat /\ Period \in Nat \ {0} /\ Horizon \in Nat
    /\ Nil \notin Nat \cup Waits \cup Outcomes \cup {"v", "ok", "err"}

Behaviors == {"Burst", "Delay", "Skip"}

VARIABLES
    instant,        \* Instant::now()
    timer,          \* the deadline that the runtime has for the task, or Nil
    poll_due,       \* the task was woken and not polled since
    value, waker, sender_alive, receiver_alive,    \* oneshot State
    sent,           \* what send returned: "ok", "err", or Nil
    waits,          \* the task awaits "receiver", "timeout" or "tick"; Nil: none of them
    target,         \* SimSleep::target_time, or Nil
    outcome,        \* of the wait for the channel: "value", "closed", "elapsed", "dropped"
    next_tick, missed_tick_behavior,    \* Interval
    grid,           \* history: a tick of the present schedule,
    ticks,          \* how many ticks were made since,
    bursts,         \* whether none of them was to be skipped,
    last            \* and the last one: [due, at, behavior], or Nil

channel_vars == <<value, waker, sender_alive, receiver_alive, sent, outcome>>
interval_vars == <<next_tick, missed_tick_behavior, grid, ticks, bursts, last>>
time_vars == <<instant, timer, poll_due, waits, target, channel_vars, interval_vars>>

\* oneshot::channel(); interval(period).
TimeInit ==
    /\ instant = 0 /\ timer = Nil /\ poll_due = FALSE
    /\ value = Nil /\ waker = FALSE /\ sender_alive = TRUE /\ receiver_alive = TRUE
    /\ sent = Nil /\ outcome = Nil
    /\ waits = Nil /\ target = Nil
    /\ next_tick = 0 /\ missed_tick_behavior = "Burst"
    /\ grid = 0 /\ ticks = 0 /\ bursts = TRUE /\ last = Nil

-----------------------------------------------------------------------------
(* The runtime. *)

\* The clock goes on; a timer that is due is taken and wakes the task.
Tick ==
    /\ ~poll_due /\ instant < Horizon
    /\ instant' = instant + 1
    /\ timer' = IF timer = instant + 1 THEN Nil ELSE timer
    /\ poll_due' = (timer = instant + 1)
    /\ UNCHANGED <<waits, target, channel_vars, interval_vars>>

\* SimSleep::poll, where it is pending: a timer is registered once.
Asleep(t) == target' = t /\ timer' = t

\* The sleep is over, or dropped: a timer that is left is cancelled.
Awake == target' = Nil /\ timer' = Nil

-----------------------------------------------------------------------------
(* The oneshot channel and the Timeout. *)

\* The waker is taken and called.
WakeReceiver ==
    /\ waker' = FALSE
    /\ poll_due' = (poll_due \/ waker)

\* Sender::send, and the drop of the sender that follows it.
Send ==
    /\ sender_alive
    /\ sender_alive' = FALSE
    /\ WakeReceiver
    /\ \/ receiver_alive /\ value' = "v" /\ sent' = "ok"
       \/ ~receiver_alive /\ sent' = "err" /\ UNCHANGED value
    /\ UNCHANGED <<instant, timer, waits, target, receiver_alive, outcome, interval_vars>>

\* Sender::drop.
DropSender ==
    /\ sender_alive
    /\ sender_alive' = FALSE
    /\ WakeReceiver
    /\ UNCHANGED <<instant, timer, waits, target, value, receiver_alive, sent, outcome,
                   interval_vars>>

\* What a poll of the receiver gives: Nil while it is pending.
Received == IF value # Nil THEN "value" ELSE IF ~sender_alive THEN "closed" ELSE Nil

\* The wait ends with o, and its futures are dropped.
EndWait(o) ==
    /\ outcome' = o
    /\ waits' = Nil
    /\ Awake
    /\ value' = Nil
    /\ receiver_alive' = FALSE /\ waker' = FALSE

\* Timeout::poll: the future goes before the sleep, whose deadline is t.
TimeoutPoll(t) ==
    IF Received # Nil THEN Received
    ELSE IF t # Nil /\ instant >= t THEN "elapsed" ELSE Nil

\* A poll of the receiver, with a timeout if t is not Nil.
PollWait(t) ==
    /\ poll_due' = FALSE
    /\ \/ TimeoutPoll(t) # Nil /\ EndWait(TimeoutPoll(t))
       \/ /\ TimeoutPoll(t) = Nil
          /\ waker' = TRUE
          /\ waits' = IF t = Nil THEN "receiver" ELSE "timeout"
          /\ Asleep(t)
          /\ UNCHANGED <<value, receiver_alive, outcome>>
    /\ UNCHANGED <<instant, sender_alive, sent, interval_vars>>

\* rx.await, and timeout(d, rx).await: the first poll fixes the deadline.
Receive == waits = Nil /\ receiver_alive /\ PollWait(Nil)
ReceiveWithin(d) == waits = Nil /\ receiver_alive /\ PollWait(instant + d)

\* The task is polled again, because it was woken or for another reason.
Repoll == waits \in {"receiver", "timeout"} /\ PollWait(target)

\* The future is dropped.
DropWait ==
    /\ waits \in {"receiver", "timeout"}
    /\ EndWait("dropped")
    /\ poll_due' = FALSE
    /\ UNCHANGED <<instant, sender_alive, sent, interval_vars>>

-----------------------------------------------------------------------------
(* The Interval. *)

\* MissedTickBehavior::next_timeout, of a tick that was due at t.
NextTimeout(t) ==
    CASE missed_tick_behavior = "Burst" -> t + Period
      [] missed_tick_behavior = "Delay" -> instant + Period
      [] missed_tick_behavior = "Skip" -> instant + Period - ((instant - t) % Period)

\* Interval::tick returns.
Ticked ==
    /\ next_tick' = IF instant > next_tick THEN NextTimeout(next_tick) ELSE next_tick + Period
    /\ last' = [due |-> next_tick, at |-> instant, behavior |-> missed_tick_behavior]
    /\ IF instant > next_tick /\ missed_tick_behavior = "Delay"
       THEN grid' = instant /\ ticks' = 1 /\ bursts' = TRUE
       ELSE /\ ticks' = ticks + 1
            /\ bursts' = (bursts /\ (missed_tick_behavior = "Burst" \/ instant <= next_tick))
            /\ UNCHANGED grid
    /\ waits' = Nil
    /\ Awake
    /\ poll_due' = FALSE
    /\ UNCHANGED <<instant, missed_tick_behavior, channel_vars>>

\* tick().await up to its first wait.
StartTick ==
    /\ waits = Nil /\ next_tick <= Horizon
    /\ \/ instant >= next_tick /\ Ticked
       \/ /\ instant < next_tick
          /\ waits' = "tick" /\ Asleep(next_tick)
          /\ UNCHANGED <<instant, poll_due, channel_vars, interval_vars>>

\* ... and when its sleep is over.
FinishTick == waits = "tick" /\ poll_due /\ instant >= target /\ Ticked

\* A tick that waits is dropped, which leaves the interval as it was.
DropTick ==
    /\ waits = "tick"
    /\ waits' = Nil /\ Awake
    /\ poll_due' = FALSE
    /\ UNCHANGED <<instant, channel_vars, interval_vars>>

SetMissedTickBehavior(b) ==
    /\ waits = Nil /\ b # missed_tick_behavior
    /\ missed_tick_behavior' = b
    /\ UNCHANGED <<instant, timer, poll_due, waits, target, channel_vars, next_tick, grid, ticks,
                   bursts, last>>

\* reset_at, and reset, reset_immediately, reset_after: the schedule starts anew at t.
ResetAt(t) ==
    /\ waits = Nil
    /\ next_tick' = t
    /\ grid' = t /\ ticks' = 0 /\ bursts' = TRUE /\ last' = Nil
    /\ UNCHANGED <<instant, timer, poll_due, waits, target, channel_vars, missed_tick_behavior>>

Reset == ResetAt(instant + Period)
ResetImmediately == ResetAt(instant)
ResetAfter(d) == ResetAt(instant + d)

-----------------------------------------------------------------------------
\* oneshot.rs: the receiver does not sleep beside a value or without a sender.
ReceiverWakes ==
    waits \in {"receiver", "timeout"} /\ Received # Nil => poll_due

\* time.rs, Timeout: a value that was accepted is not answered by a timeout, also
\* when both fall on one instant; a timeout is exact; and no timer outlives the
\* wait it was set for.
TimeoutsExact ==
    /\ sent = "ok" => outcome \in {Nil, "value", "dropped"}
    /\ sent = "err" => outcome \in {"value", "closed", "elapsed", "dropped"}
    /\ timer # Nil => waits # Nil /\ timer = target /\ timer > instant
    /\ waits = "timeout" => instant <= target /\ (instant = target => poll_due)

\* time.rs, Interval: ticks stay on the schedule, which only a reset or a late
\* tick under Delay moves; a burst leaves none of them out; and after a late
\* tick under Skip the next one is the first of the schedule that is still ahead.
TicksExact ==
    /\ (next_tick - grid) % Period = 0
    /\ bursts => next_tick = grid + ticks * Period
    /\ last # Nil =>
        /\ last.due <= last.at /\ last.due < next_tick
        /\ last.at > last.due /\ last.behavior = "Skip" =>
               last.at < next_tick /\ next_tick - Period <= last.at
        /\ last.at > last.due /\ last.behavior = "Delay" => next_tick = last.at + Period

\* A wait with a timeout comes to an end, if time goes on.
TimeoutsEnd == waits = "timeout" /\ target <= Horizon ~> waits # "timeout"
=============================================================================
