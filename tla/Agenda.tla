------------------------------- MODULE Agenda -------------------------------
(***************************************************************************)
(* The scheduler as a component sees it: what Scheduler is shown to        *)
(* implement (EventQueue), with the FIFO order among entries of one time   *)
(* that FifoFrontierPolicy adds.  The components of des-components are     *)
(* built on it: a component handles one entry and schedules others, all in *)
(* one step.                                                               *)
(***************************************************************************)
EXTENDS SimTime, Sequences

CONSTANT Fifo   \* TRUE: FifoFrontierPolicy; FALSE: any frontier policy

ASSUME FifoAssumption == Fifo \in BOOLEAN

VARIABLES
    now,            \* Scheduler::clock
    events,         \* Scheduler::events
    next_event_id   \* Scheduler::next_event_id

agenda_vars == <<now, events, next_event_id>>

\* What a handler asks for: an event after a delay.
After(d, ev) == [delay |-> d, ev |-> ev]

\* The entries of a sequence of requests made at time t with the ids after id.
Entries(s, id, t) ==
    {[seq |-> id + i, time |-> AddTime(t, s[i].delay), ev |-> s[i].ev] : i \in 1 .. Len(s)}

\* Components are set up: the program schedules the sequence s.
AgendaInit(s) ==
    /\ now = 0
    /\ events = Entries(s, 0, 0)
    /\ next_event_id = Len(s)

\* pop_with_policy.
Choice ==
    {e \in events : \A f \in events : /\ e.time <= f.time
                                      /\ Fifo /\ e.time = f.time => e.seq <= f.seq}

\* The step that handles e and schedules the sequence s, in order.
Handled(e, s) ==
    /\ e \in Choice
    /\ now' = e.time
    /\ events' = (events \ {e}) \cup Entries(s, next_event_id, e.time)
    /\ next_event_id' = next_event_id + Len(s)

\* The entries in the agenda for the event ev.
EntriesFor(ev) == {e \in events : e.ev = ev}
=============================================================================
