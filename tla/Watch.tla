-------------------------------- MODULE Watch -------------------------------
(***************************************************************************)
(* The watch channel of des-tokio (sync/watch.rs): one value with a        *)
(* version, and receivers that each remember the version they have seen.   *)
(* A receiver that waits for a change keeps one waker; a change takes and  *)
(* calls the wakers of all receivers.                                      *)
(*                                                                         *)
(* A value is its version.  A receiver is used by one task.                *)
(***************************************************************************)
EXTENDS Integers, FiniteSets

CONSTANTS Receivers,
          MaxVersion,   \* bound on the version
          MaxSenders    \* bound on the clones of the sender

WatchAssumption ==
    /\ IsFiniteSet(Receivers)
    /\ MaxVersion \in Nat /\ MaxSenders \in Nat \ {0}

VARIABLES
    sender_alive, version,
    senders,            \* the number of Sender handles
    alive,              \* the receivers in receiver_alive and receiver_order
    receiver_wakers,    \* the receivers with a waker in the map
    seen_version,       \* per receiver
    wanted,             \* per receiver: the versions that end its pending wait; {} if it has none
    woken               \* receivers that were woken and not polled since

vars == <<sender_alive, version, senders, alive, receiver_wakers, seen_version, wanted, woken>>

Versions == 0 .. MaxVersion

TypeOK ==
    /\ sender_alive \in BOOLEAN /\ version \in Versions /\ senders \in 0 .. MaxSenders
    /\ alive \subseteq Receivers /\ receiver_wakers \subseteq alive /\ woken \subseteq Receivers
    /\ seen_version \in [Receivers -> Versions]
    /\ wanted \in [Receivers -> SUBSET Versions]

\* channel(): one sender and one receiver.
Init ==
    /\ sender_alive = TRUE /\ version = 0 /\ senders = 1
    /\ \E r \in Receivers : alive = {r}
    /\ receiver_wakers = {} /\ woken = {}
    /\ seen_version = [r \in Receivers |-> 0]
    /\ wanted = [r \in Receivers |-> {}]

Waiting == {r \in alive : wanted[r] # {}}

\* wake_all.
WakeAll ==
    /\ woken' = woken \cup receiver_wakers
    /\ receiver_wakers' = {}

NewVersion ==
    /\ version < MaxVersion
    /\ version' = version + 1
    /\ WakeAll
    /\ UNCHANGED <<sender_alive, senders, alive, seen_version, wanted>>

\* send fails once any Sender is gone; send_replace and send_if_modified do not ask.
Send == senders > 0 /\ sender_alive /\ NewVersion
SendReplace == senders > 0 /\ NewVersion

\* Sender::clone.
CloneSender ==
    /\ senders \in 1 .. MaxSenders - 1
    /\ senders' = senders + 1
    /\ UNCHANGED <<sender_alive, version, alive, receiver_wakers, seen_version, wanted, woken>>

\* The first Sender to be dropped closes the channel.
CloseChannel ==
    /\ sender_alive' = FALSE
    /\ IF sender_alive THEN WakeAll ELSE UNCHANGED <<receiver_wakers, woken>>

\* Sender::drop.
DropSender ==
    /\ senders > 0
    /\ senders' = senders - 1
    /\ CloseChannel
    /\ UNCHANGED <<version, alive, seen_version, wanted>>

\* subscribe and Receiver::clone.
NewReceiver(r) ==
    /\ r \notin alive /\ (senders > 0 \/ alive # {})
    /\ alive' = alive \cup {r}
    /\ seen_version' = [seen_version EXCEPT ![r] = version]
    /\ UNCHANGED <<sender_alive, version, senders, receiver_wakers, wanted, woken>>

\* remove_receiver.
RemoveReceiver(r) ==
    /\ alive' = alive \ {r}
    /\ receiver_wakers' = receiver_wakers \ {r}

\* Receiver::drop, with what it waits for.
DropReceiver(r) ==
    /\ r \in alive
    /\ RemoveReceiver(r)
    /\ wanted' = [wanted EXCEPT ![r] = {}]
    /\ woken' = woken \ {r}
    /\ UNCHANGED <<sender_alive, version, senders, seen_version>>

\* borrow_and_update.
BorrowAndUpdate(r) ==
    /\ r \in alive \ Waiting
    /\ seen_version' = [seen_version EXCEPT ![r] = version]
    /\ UNCHANGED <<sender_alive, version, senders, alive, receiver_wakers, wanted, woken>>

\* poll_changed without a change: an error, or the waker is kept and the
\* versions of W end the wait.
AwaitChange(r, W) ==
    /\ IF sender_alive THEN /\ receiver_wakers' = receiver_wakers \cup {r}
                            /\ wanted' = [wanted EXCEPT ![r] = W]
                       ELSE /\ wanted' = [wanted EXCEPT ![r] = {}]
                            /\ UNCHANGED receiver_wakers

\* The poll of a wait that ends with the versions of W: changed() when W is all
\* versions but the one seen.  wait_for looks at every version it finds and
\* waits for the next when the condition does not hold.
PollWait(r, W) ==
    /\ seen_version' = [seen_version EXCEPT ![r] = version]
    /\ IF version \in W THEN wanted' = [wanted EXCEPT ![r] = {}] /\ UNCHANGED receiver_wakers
                        ELSE AwaitChange(r, W)
    /\ woken' = woken \ {r}
    /\ UNCHANGED <<sender_alive, version, senders, alive>>

Changed(r) == r \in alive \ Waiting /\ PollWait(r, Versions \ {seen_version[r]})

WaitFor(r) ==
    /\ r \in alive \ Waiting
    /\ \E W \in SUBSET Versions : W # {} /\ PollWait(r, W)

\* The polls that follow.  A wait_for that sees no change does not look at the
\* value again: it knows that the condition does not hold.
Repoll(r) == r \in Waiting /\ PollWait(r, wanted[r])

\* A pending changed() or wait_for() is dropped; the waker stays.
DropWait(r) ==
    /\ r \in Waiting
    /\ wanted' = [wanted EXCEPT ![r] = {}]
    /\ UNCHANGED <<sender_alive, version, senders, alive, receiver_wakers, seen_version, woken>>

Next ==
    \/ Send \/ SendReplace \/ CloneSender \/ DropSender
    \/ \E r \in Receivers : \/ NewReceiver(r) \/ DropReceiver(r) \/ BorrowAndUpdate(r)
                            \/ Changed(r) \/ WaitFor(r) \/ Repoll(r) \/ DropWait(r)

Spec == Init /\ [][Next]_vars

-----------------------------------------------------------------------------
\* No change is missed: a receiver that waits has been woken if the value is
\* one it waits for, or if the channel is closed.
ChangeWoken ==
    \A r \in Waiting : version # seen_version[r] \/ ~sender_alive => r \in woken
=============================================================================
