------------------------------- MODULE Server -------------------------------
(***************************************************************************)
(* The server of des-components (server.rs) and its queue (queue.rs).      *)
(*                                                                         *)
(* A server simulates ThreadCapacity threads.  A request that finds no     *)
(* free thread waits in the queue, or is rejected when the queue is full   *)
(* (a server without a queue is one with QueueCapacity 0).  Every request  *)
(* in service has a RequestCompleted entry in the agenda; its handler      *)
(* frees the thread, answers, and posts ProcessQueuedRequests when         *)
(* requests wait.  FifoQueue and PriorityQueue behave alike here: the      *)
(* server gives every item the priority 0.                                 *)
(*                                                                         *)
(* An attempt is [id, request, client, number, started_at]; the client     *)
(* stands for client_id, which the queue keeps as a UUID.  Metrics, the    *)
(* payload and what the distribution makes of it are left out: a service   *)
(* time is any of ServiceTimes.                                            *)
(***************************************************************************)
EXTENDS Agenda, FiniteSets

CONSTANTS ThreadCapacity,   \* thread_capacity
          QueueCapacity,    \* the capacity of the queue
          ServiceTimes,     \* what sample_service_time may return
          Latency           \* the millisecond a response takes

ASSUME ServerAssumption ==
    /\ ThreadCapacity \in Nat
    /\ QueueCapacity \in Nat
    /\ ServiceTimes \in SUBSET Time /\ ServiceTimes # {}
    /\ Latency \in Time

VARIABLES
    active_threads,
    queue,              \* the attempts in the queue, oldest first
    requests_processed,
    requests_rejected,
    requests_queued

server_vars == <<active_threads, queue, requests_processed, requests_rejected, requests_queued>>

\* The events of a server, and the one it sends.
ProcessRequest(a) == [kind |-> "ProcessRequest", attempt |-> a]
RequestCompleted(a) == [kind |-> "RequestCompleted", attempt |-> a]
ProcessQueuedRequests == [kind |-> "ProcessQueuedRequests"]
ResponseReceived(a, ok) == [kind |-> "ResponseReceived", attempt |-> a, ok |-> ok]

ServerInit ==
    /\ active_threads = 0
    /\ queue = <<>>
    /\ requests_processed = 0
    /\ requests_rejected = 0
    /\ requests_queued = 0

\* has_capacity with n active threads.
HasCapacity(n) == n < ThreadCapacity

\* Queue::is_full.
QueueIsFull == Len(queue) >= QueueCapacity

\* start_processing_request: a thread is taken until the service time is over.
StartProcessing(e, a) ==
    /\ active_threads' = active_threads + 1
    /\ \E d \in ServiceTimes : Handled(e, <<After(d, RequestCompleted(a))>>)
    /\ UNCHANGED <<queue, requests_processed, requests_rejected, requests_queued>>

\* The queue has room: the attempt waits.
EnqueueRequest(e, a) ==
    /\ queue' = Append(queue, a)
    /\ requests_queued' = requests_queued + 1
    /\ Handled(e, <<>>)
    /\ UNCHANGED <<active_threads, requests_processed, requests_rejected>>

\* Mutant: the rejection is not counted.
RejectUncounted(e, a) ==
    /\ Handled(e, <<After(Latency, ResponseReceived(a, FALSE))>>)
    /\ UNCHANGED server_vars

\* reject_request: a failure response, and no thread was taken.
RejectRequest(e, a) ==
    /\ requests_rejected' = requests_rejected + 1
    /\ Handled(e, <<After(Latency, ResponseReceived(a, FALSE))>>)
    /\ UNCHANGED <<active_threads, queue, requests_processed, requests_queued>>

\* handle_request.
HandleRequest(e) ==
    /\ e.ev.kind = "ProcessRequest"
    /\ \/ HasCapacity(active_threads) /\ StartProcessing(e, e.ev.attempt)
       \/ ~HasCapacity(active_threads) /\ ~QueueIsFull /\ EnqueueRequest(e, e.ev.attempt)
       \/ ~HasCapacity(active_threads) /\ QueueIsFull /\ RejectRequest(e, e.ev.attempt)

\* Mutant: the capacity is looked at before the thread is released.
WakeQueueEarly(n) == HasCapacity(n + 1) /\ Len(queue) > 0

\* complete_request looks for waiting requests once n threads remain active.
WakeQueue(n) == HasCapacity(n) /\ Len(queue) > 0

\* complete_request.
CompleteRequest(e) ==
    LET n == IF active_threads > 0 THEN active_threads - 1 ELSE 0
        response == After(Latency, ResponseReceived(e.ev.attempt, TRUE))
    IN  /\ e.ev.kind = "RequestCompleted"
        /\ active_threads' = n
        /\ requests_processed' = requests_processed + 1
        /\ Handled(e, IF WakeQueue(n) THEN <<response, After(0, ProcessQueuedRequests)>>
                                      ELSE <<response>>)
        /\ UNCHANGED <<queue, requests_rejected, requests_queued>>

\* How many times the loop of process_queued_requests dequeues.
Startable ==
    LET free == ThreadCapacity - active_threads IN
    IF free <= 0 THEN 0 ELSE IF free <= Len(queue) THEN free ELSE Len(queue)

\* The queue after n calls of dequeue.
Dequeued(n) == SubSeq(queue, n + 1, Len(queue))

\* process_queued_requests: free threads take the oldest attempts.
ProcessQueued(e) ==
    /\ e.ev.kind = "ProcessQueuedRequests"
    /\ active_threads' = active_threads + Startable
    /\ queue' = Dequeued(Startable)
    /\ \E d \in [1 .. Startable -> ServiceTimes] :
           Handled(e, [i \in 1 .. Startable |-> After(d[i], RequestCompleted(queue[i]))])
    /\ UNCHANGED <<requests_processed, requests_rejected, requests_queued>>

\* Component::process_event of the server.
ServerStep(e) == HandleRequest(e) \/ CompleteRequest(e) \/ ProcessQueued(e)

-----------------------------------------------------------------------------
\* The attempts in service are those whose completion is in the agenda, one
\* thread each, and there are no more of them than threads: active_threads is
\* a plain counter that two handlers keep in step with the agenda.
ThreadsExact ==
    /\ active_threads <= ThreadCapacity
    /\ active_threads = Cardinality({e \in events : e.ev.kind = "RequestCompleted"})

\* A request never waits in the queue beside a free thread for good: when
\* requests wait and a thread is free, a ProcessQueuedRequests is due at this
\* very time.
QueueNotStranded ==
    queue # <<>> /\ HasCapacity(active_threads) =>
        \E e \in EntriesFor(ProcessQueuedRequests) : e.time = now
=============================================================================
