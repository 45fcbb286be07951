-------------------------------- MODULE Mpsc --------------------------------
(***************************************************************************)
(* The bounded channel of des-tokio (sync/mpsc.rs).                        *)
(*                                                                         *)
(* A sender that finds the queue full gets a waiter id, which is put into  *)
(* the wait order, and its waker into a map.  Taking a message wakes the   *)
(* first sender of the order that is still in the map.  A sender that was  *)
(* woken has no claim on the slot: it competes when it is polled, and      *)
(* queues again if it lost.  A send that is dropped leaves the map only.   *)
(*                                                                         *)
(* Messages are counted.  A task has one Sender and one send at a time.    *)
(***************************************************************************)
EXTENDS Integers, Sequences, FiniteSets

CONSTANTS Senders,
          Receiver,     \* the task of the receiver
          Capacity,
          Nil,
          MaxId,        \* bound on the waiter ids
          MaxOrder      \* bound on the length of the wait order when a send is polled again

MpscAssumption ==
    /\ IsFiniteSet(Senders) /\ Receiver \notin Senders
    /\ Capacity \in Nat \ {0} /\ MaxId \in Nat /\ MaxOrder \in Nat /\ Nil \notin Int

VARIABLES
    len,                \* the length of the queue
    senders,            \* the tasks that have a Sender: sender_count of them
    receiver_alive,
    receiver_waker,     \* whether it is set
    receiving,          \* whether a recv() is pending
    next_waiter_id,
    send_wait_order,    \* waiter ids
    send_waiters,       \* waiter id -> task: [id, task] for every waker in the map
    waiter,             \* per sender: the waiter_id of its pending send, or Nil
    woken,              \* tasks that were woken since the last poll of what they wait for
    abandoned           \* history: a pending send was dropped

vars == <<len, senders, receiver_alive, receiver_waker, receiving, next_waiter_id,
          send_wait_order, send_waiters, waiter, woken, abandoned>>

Init ==
    /\ len = 0
    /\ senders = Senders
    /\ receiver_alive = TRUE /\ receiver_waker = FALSE /\ receiving = FALSE
    /\ next_waiter_id = 0
    /\ send_wait_order = <<>> /\ send_waiters = {}
    /\ waiter = [t \in Senders |-> Nil]
    /\ woken = {} /\ abandoned = FALSE

Pending == {t \in Senders : waiter[t] # Nil}
Waiting(id) == \E w \in send_waiters : w.id = id

\* wake_receiver, with w the tasks woken before.
WakeReceiver(w) ==
    /\ receiver_waker' = FALSE
    /\ woken' = IF receiver_waker THEN w \cup {Receiver} ELSE w

\* Mutant: the first id of the order is looked up, and no other.
WakeFirst ==
    LET id == Head(send_wait_order) IN
    IF send_wait_order = <<>> THEN UNCHANGED <<send_wait_order, send_waiters, woken>>
    ELSE /\ send_wait_order' = Tail(send_wait_order)
         /\ send_waiters' = {w \in send_waiters : w.id # id}
         /\ woken' = woken \cup {w.task : w \in {x \in send_waiters : x.id = id}}

\* wake_one_sender, called by the receiver: ids are popped up to the first that
\* is in the map.
WakeOneSender ==
    LET n == Len(send_wait_order)
        live == {i \in 1 .. n : Waiting(send_wait_order[i])}
        first == CHOOSE i \in live : \A j \in live : i <= j
    IN  IF live = {} THEN /\ send_wait_order' = <<>>
                          /\ woken' = woken \ {Receiver}
                          /\ UNCHANGED send_waiters
        ELSE LET id == send_wait_order[first] IN
             /\ send_wait_order' = SubSeq(send_wait_order, first + 1, n)
             /\ send_waiters' = {w \in send_waiters : w.id # id}
             /\ woken' = (woken \ {Receiver}) \cup {w.task : w \in {x \in send_waiters : x.id = id}}

IsFull == len >= Capacity

\* The queue is full: a new id or the one of an earlier poll goes to the end of
\* the order, and the waker into the map.
RegisterSender(t) ==
    LET id == IF waiter[t] = Nil THEN next_waiter_id ELSE waiter[t] IN
    /\ next_waiter_id' = IF waiter[t] = Nil THEN id + 1 ELSE next_waiter_id
    /\ send_wait_order' = Append(send_wait_order, id)
    /\ send_waiters' = {w \in send_waiters : w.id # id} \cup {[id |-> id, task |-> t]}
    /\ waiter' = [waiter EXCEPT ![t] = id]

\* The send is over, and its waker leaves the map.
Unregister(t) ==
    /\ send_waiters' = {w \in send_waiters : w.id # waiter[t]}
    /\ waiter' = [waiter EXCEPT ![t] = Nil]

\* SendFuture::poll.  The lock is released and taken again in the code; no
\* other task runs in between in this single-threaded runtime.
PollSend(t) ==
    \/ /\ ~receiver_alive
       /\ Unregister(t)
       /\ woken' = woken \ {t}
       /\ UNCHANGED <<len, receiver_waker, next_waiter_id, send_wait_order>>
    \/ /\ receiver_alive /\ IsFull
       /\ RegisterSender(t)
       /\ woken' = woken \ {t}
       /\ UNCHANGED <<len, receiver_waker>>
    \/ /\ receiver_alive /\ ~IsFull
       /\ len' = len + 1
       /\ WakeReceiver(woken \ {t})
       /\ Unregister(t)
       /\ UNCHANGED <<next_waiter_id, send_wait_order>>

\* send().await up to its first poll, and the polls that follow.
Send(t) ==
    /\ t \in senders /\ waiter[t] = Nil
    /\ IsFull => next_waiter_id < MaxId
    /\ PollSend(t)
    /\ UNCHANGED <<senders, receiver_alive, receiving, abandoned>>

Resend(t) ==
    /\ waiter[t] # Nil
    /\ Len(send_wait_order) < MaxOrder
    /\ PollSend(t)
    /\ UNCHANGED <<senders, receiver_alive, receiving, abandoned>>

\* try_send that succeeds; otherwise nothing changes.
TrySend(t) ==
    /\ t \in senders /\ waiter[t] = Nil /\ receiver_alive /\ ~IsFull
    /\ len' = len + 1
    /\ WakeReceiver(woken)
    /\ UNCHANGED <<senders, receiver_alive, receiving, next_waiter_id, send_wait_order, send_waiters, waiter, abandoned>>

\* SendFuture::drop of a pending send.
DropSend(t) ==
    /\ waiter[t] # Nil
    /\ Unregister(t)
    /\ abandoned' = TRUE
    /\ UNCHANGED <<len, senders, receiver_alive, receiver_waker, receiving, next_waiter_id,
                   send_wait_order, woken>>

\* Sender::clone for a task that has none.
CloneSender(t) ==
    /\ senders # {} /\ t \notin senders
    /\ senders' = senders \cup {t}
    /\ UNCHANGED <<len, receiver_alive, receiver_waker, receiving, next_waiter_id,
                   send_wait_order, send_waiters, waiter, woken, abandoned>>

\* Sender::drop; the last one wakes the receiver.
DropSender(t) ==
    /\ t \in senders /\ waiter[t] = Nil
    /\ senders' = senders \ {t}
    /\ IF senders = {t} THEN WakeReceiver(woken) ELSE UNCHANGED <<receiver_waker, woken>>
    /\ UNCHANGED <<len, receiver_alive, receiving, next_waiter_id, send_wait_order, send_waiters, waiter, abandoned>>

\* A message is taken (recv, try_recv or poll_next).
TakeMessage ==
    /\ len > 0
    /\ len' = len - 1
    /\ receiving' = FALSE
    /\ WakeOneSender
    /\ UNCHANGED <<senders, receiver_alive, receiver_waker, next_waiter_id, waiter, abandoned>>

\* RecvFuture::poll and poll_next on an empty queue: None when there is no
\* sender, otherwise the waker is kept.
PollEmpty ==
    /\ len = 0
    /\ IF senders = {} THEN receiving' = FALSE /\ UNCHANGED receiver_waker
                       ELSE receiving' = TRUE /\ receiver_waker' = TRUE
    /\ woken' = woken \ {Receiver}
    /\ UNCHANGED <<len, senders, receiver_alive, next_waiter_id, send_wait_order, send_waiters, waiter, abandoned>>

Recv ==
    /\ receiver_alive
    /\ TakeMessage \/ PollEmpty

\* A pending recv() is dropped; the waker stays.
DropRecv ==
    /\ receiving
    /\ receiving' = FALSE
    /\ UNCHANGED <<len, senders, receiver_alive, receiver_waker, next_waiter_id,
                   send_wait_order, send_waiters, waiter, woken, abandoned>>

\* Receiver::drop, wake_all_senders.
DropReceiver ==
    /\ receiver_alive /\ ~receiving
    /\ receiver_alive' = FALSE /\ receiver_waker' = FALSE
    /\ send_wait_order' = <<>> /\ send_waiters' = {}
    /\ woken' = woken \cup {w.task : w \in send_waiters}
    /\ UNCHANGED <<len, senders, receiving, next_waiter_id, waiter, abandoned>>

Next ==
    \/ \E t \in Senders : \/ Send(t) \/ Resend(t) \/ TrySend(t) \/ DropSend(t)
                          \/ CloneSender(t) \/ DropSender(t)
    \/ Recv \/ DropRecv \/ DropReceiver

Spec == Init /\ [][Next]_vars

-----------------------------------------------------------------------------
Lesser(x, y) == IF x <= y THEN x ELSE y

TypeOK ==
    /\ len \in 0 .. Capacity
    /\ senders \subseteq Senders
    /\ receiver_alive \in BOOLEAN /\ receiver_waker \in BOOLEAN /\ receiving \in BOOLEAN
    /\ next_waiter_id \in Nat
    /\ send_wait_order \in Seq(Nat)
    /\ send_waiters \subseteq [id : Nat, task : Senders]
    /\ waiter \in [Senders -> Nat \cup {Nil}]
    /\ woken \subseteq Senders \cup {Receiver} /\ abandoned \in BOOLEAN

\* Free slots do not lie idle: as many pending senders have been woken as
\* there are slots for, so none sleeps beside a slot it could use.
SlotsOffered ==
    receiver_alive => Lesser(Capacity - len, Cardinality(Pending)) <= Cardinality(Pending \cap woken)

\* That holds with every interleaving of polls, as long as no pending send is
\* dropped after it was woken for a slot.
NoLostSender == abandoned \/ SlotsOffered

\* A pending sender can be reached: it has been woken, or its waker is in the
\* map and its id in the order.  When the receiver is gone it has been woken.
SenderRegistered ==
    \A t \in Pending :
        \/ t \in woken
        \/ /\ receiver_alive
           /\ [id |-> waiter[t], task |-> t] \in send_waiters
           /\ \E i \in 1 .. Len(send_wait_order) : send_wait_order[i] = waiter[t]

\* A pending recv() has been woken when there is a message, or nobody left to
\* send one.
ReceiverWoken == receiving /\ (len > 0 \/ senders = {}) => Receiver \in woken
=============================================================================
