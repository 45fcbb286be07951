----------------------------- MODULE EventQueue -----------------------------
(***************************************************************************)
(* What the discrete-event core promises to everything built on it: an     *)
(* agenda of entries, each due at a time that has not passed; entries can  *)
(* be added and withdrawn; time moves only by taking an entry that no      *)
(* other entry of the agenda precedes in time.  There are no tombstones,   *)
(* no task tables and no deferred buffers here: Scheduler is shown to      *)
(* implement this specification, and AsyncRuntime is built on it.          *)
(***************************************************************************)
EXTENDS Integers

VARIABLES now,     \* the simulated clock
          agenda   \* the entries that will still be handled

qvars == <<now, agenda>>

QInit ==
    /\ now = 0
    /\ agenda = {}

\* New entries, none of them due in the past.
Add ==
    /\ agenda \subseteq agenda'
    /\ \A e \in agenda' \ agenda : e.time >= now
    /\ now' = now

\* An entry is withdrawn: it will never be handled and never move the clock.
Withdraw ==
    \E e \in agenda :
        /\ agenda' = agenda \ {e}
        /\ now' = now

\* The next entry is taken; the clock moves to its time.
Fire ==
    \E e \in agenda :
        /\ \A f \in agenda : e.time <= f.time
        /\ agenda' = agenda \ {e}
        /\ now' = e.time

QNext == Add \/ Withdraw \/ Fire

QSpec == QInit /\ [][QNext]_qvars
=============================================================================
