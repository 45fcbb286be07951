------------------------------- MODULE Calls --------------------------------
(***************************************************************************)
(* Unary calls over the simulated transport: those of a gRPC channel       *)
(* (des-tonic/src/channel.rs and server.rs) and the HTTP requests of       *)
(* des-axum (client.rs, server.rs), which differ in when the timeout runs  *)
(* and in what it leaves behind.  One client makes several calls at a      *)
(* time; a call waits for an endpoint, sends its request, and waits for    *)
(* the response that has its correlation id, while its timeout runs.       *)
(*                                                                         *)
(* A payload is the call it belongs to.  The handlers of the application   *)
(* answer, well or with an error, after a time of HandlerTimes (their own  *)
(* and processing_delay).                                                  *)
(***************************************************************************)
EXTENDS Transport, Registry

CONSTANTS Client,         \* the endpoint of the client
          Hosts,          \* the servers that the program starts
          Uses,           \* of {"grpc", "http", "transport", "registry", "stream", "typed", "wire"}
          Pinned,         \* the calls of a channel that is connected to Target
          Target,         \* and the server it is connected to
          Timeout,        \* of every call, or Nil
          HandlerTimes,
          MaxSubmitted,   \* bound: messages that the program sends by itself
          MaxPicks,       \* bound: endpoints that it picks, and wakers of its tasks
          Nil

\* What a call may end with.
Results ==
    [kind : {"ok", "error", "timeout", "dropped", "unavailable", "not found"}, of : Waiters]

CallsAssumption ==
    /\ Nil \notin Results
    /\ Client \in Endpoints /\ Servers \subseteq Endpoints
    /\ Hosts \subseteq Servers
    /\ Pinned \subseteq Waiters /\ Target \in Servers
    /\ Timeout \in Nat \cup {Nil} /\ HandlerTimes \subseteq Nat
    /\ MaxSubmitted \in Nat /\ MaxPicks \in Nat

\* The calls are the tasks that wait for an endpoint.
Call == Waiters

VARIABLES
    stack,          \* what the program uses: a library, or the transport or registry directly
    connected,      \* a channel was connected to Target
    phase,          \* per call: "idle", "selecting", "sent" or "done"
    correlation,    \* per call: its correlation id, 0 for none
    next_counter,   \* the last correlation id that was taken
    pending,        \* ClientEndpoint::pending: correlation id -> call, as a set of pairs
    answer,         \* per call: what its oneshot holds, or Nil
    started,        \* per call: when it was first polled
    deadline,       \* per call: of the timeout that is running, or Nil
    result,         \* per call: [kind, of], or Nil
    answered        \* calls that were woken for their answer or their timeout and not polled since

call_vars == <<stack, connected, phase, correlation, next_counter, pending, answer, started,
               deadline, result,
               answered>>

vars == <<agenda_vars, transport_vars, registry_vars, call_vars>>

\* What travels: the request of a call, and its response.
RequestOf(c) == [type |-> "UnaryRequest", id |-> correlation'[c], of |-> c]
ResponseTo(q, ok) == [type |-> "UnaryResponse", id |-> q.id, of |-> q.of, ok |-> ok]

\* Other entries of the agenda: the timer of a call, and the end of a handler, with
\* an error if the request or the response could not be converted.
Elapsed(c, d) == [kind |-> "Elapsed", call |-> c, deadline |-> d]
HandlerDone(m, ok) == [kind |-> "HandlerDone", message |-> m, ok |-> ok]

\* ClientBuilder::install registers the handler of the client.
ClientInstalled == message_handlers = {Client}

\* The client is installed, its maps are empty; servers are not installed.
Init ==
    /\ stack \in Uses /\ connected = FALSE
    /\ TransportInit /\ RegistryInit
    /\ AgendaInit(<<>>)
    /\ ClientInstalled
    /\ phase = [c \in Call |-> "idle"]
    /\ correlation = [c \in Call |-> 0] /\ next_counter = 0
    /\ pending = {}
    /\ answer = [c \in Call |-> Nil]
    /\ started = [c \in Call |-> Nil] /\ deadline = [c \in Call |-> Nil]
    /\ result = [c \in Call |-> Nil]
    /\ answered = {}

\* Entries scheduled outside of the handling of an entry of the agenda, or by a
\* task (deferred until its poll ends).
Scheduled(s) ==
    /\ events' = events \cup Entries(s, next_event_id, now)
    /\ next_event_id' = next_event_id + Len(s)
    /\ UNCHANGED now

\* A server is installed: its endpoint is registered, then its handler.
InstallServer(s) ==
    /\ s \in Hosts
    /\ Register(s)
    /\ message_handlers' = message_handlers \cup {s}
    /\ UNCHANGED <<agenda_vars, call_vars, model, next_message_id, stats, queue_times, network,
                   carried>>

ServeGrpc(s) == stack = "grpc" /\ InstallServer(s)
InstallHttpServer(s) == InstallServer(s)
ServeHttp(s) == stack = "http" /\ InstallHttpServer(s)

\* A channel, or an HTTP client, is connected to an address: somebody must be
\* registered there.
ConnectGrpc ==
    /\ stack = "grpc" /\ ~connected /\ IsRegistered(Target)
    /\ connected' = TRUE
    /\ UNCHANGED <<agenda_vars, transport_vars, registry_vars, stack, phase, correlation,
                   next_counter, pending, answer, started, deadline, result, answered>>

ConnectHttp ==
    /\ stack = "http" /\ ~connected /\ IsRegistered(Target)
    /\ connected' = TRUE
    /\ UNCHANGED <<agenda_vars, transport_vars, registry_vars, stack, phase, correlation,
                   next_counter, pending, answer, started, deadline, result, answered>>

\* The program takes an endpoint out of the registry; its handler stays.
Withdraw(s) ==
    /\ stack \in {"grpc", "http"}
    /\ Unregister(s)
    /\ UNCHANGED <<agenda_vars, transport_vars, call_vars>>

\* next_correlation_id.
TakeCorrelation(c) ==
    /\ next_counter' = next_counter + 1
    /\ correlation' = [correlation EXCEPT ![c] = next_counter + 1]

\* Mutant: the timer of a call starts with its request, and not with its discovery.
TimerOfRequest(c) ==
    IF Timeout = Nil \/ services = <<>> THEN <<>>
    ELSE <<After(Timeout, Elapsed(c, now + Timeout))>>

\* The timer of a timeout, if the call has one.
Timer(c) == IF Timeout = Nil THEN <<>> ELSE <<After(Timeout, Elapsed(c, now + Timeout))>>
NewDeadline == IF Timeout = Nil THEN Nil ELSE now + Timeout

\* The oneshot of the call is pending under its correlation id.
Insert(c) == pending' = pending \cup {[id |-> correlation'[c], call |-> c]}

Sent(c) == phase' = [phase EXCEPT ![c] = "sent"]

\* The request to s is scheduled for the transport.
PostRequest(c, s) == <<After(0, SendMessage(TransportMessage(0, Client, s, 1, RequestOf(c))))>>

\* A call ends with r.
Finish(c, r) ==
    /\ phase' = [phase EXCEPT ![c] = "done"]
    /\ result' = [result EXCEPT ![c] = r]
    /\ deadline' = [deadline EXCEPT ![c] = Nil]

\* select_target, for a channel that is connected to a server: it must still be
\* registered.
PinnedTarget(c) ==
    /\ c \in Pinned /\ connected
    /\ UNCHANGED registry_vars

\* Channel::unary up to its first wait: the timeout covers discovery, request
\* and response, and the correlation id is taken when an endpoint was found.
StartGrpc(c) ==
    /\ stack = "grpc" /\ phase[c] = "idle"
    /\ started' = [started EXCEPT ![c] = now]
    /\ \/ /\ c \notin Pinned /\ FoundEndpoint(c)
          /\ TakeCorrelation(c)
          /\ Insert(c) /\ Sent(c)
          /\ deadline' = [deadline EXCEPT ![c] = NewDeadline]
          /\ Scheduled(Timer(c) \o PostRequest(c, Chosen))
          /\ UNCHANGED result
       \/ /\ c \notin Pinned /\ StillWaiting(c)
          /\ phase' = [phase EXCEPT ![c] = "selecting"]
          /\ deadline' = [deadline EXCEPT ![c] = NewDeadline]
          /\ Scheduled(Timer(c))
          /\ UNCHANGED <<correlation, next_counter, pending, result>>
       \/ /\ PinnedTarget(c) /\ IsRegistered(Target)
          /\ TakeCorrelation(c)
          /\ Insert(c) /\ Sent(c)
          /\ deadline' = [deadline EXCEPT ![c] = NewDeadline]
          /\ Scheduled(Timer(c) \o PostRequest(c, Target))
          /\ UNCHANGED result
       \/ /\ PinnedTarget(c) /\ ~IsRegistered(Target)
          /\ Finish(c, [kind |-> "unavailable", of |-> c])
          /\ UNCHANGED <<agenda_vars, correlation, next_counter, pending>>
    /\ UNCHANGED <<transport_vars, stack, connected, answer, answered>>

\* The call is polled while it waits for an endpoint: the wait and what follows
\* it first, then the timeout around them, which may end a call whose request
\* was sent in the same poll.
PollSelectGrpc(c) ==
    LET over == deadline[c] # Nil /\ now >= deadline[c] IN
    /\ stack = "grpc" /\ phase[c] = "selecting"
    /\ c \in registry_woken \cup answered
    /\ \/ /\ FoundEndpoint(c)
          /\ TakeCorrelation(c)
          /\ Insert(c)
          /\ Scheduled(PostRequest(c, Chosen))
          /\ \/ over /\ Finish(c, [kind |-> "timeout", of |-> c])
             \/ ~over /\ Sent(c) /\ UNCHANGED <<deadline, result>>
       \/ /\ ~over /\ StillWaiting(c)
          /\ UNCHANGED <<agenda_vars, phase, correlation, next_counter, pending, deadline, result>>
       \/ /\ over /\ GiveUp(c)
          /\ Finish(c, [kind |-> "timeout", of |-> c])
          /\ UNCHANGED <<agenda_vars, correlation, next_counter, pending>>
    /\ answered' = answered \ {c}
    /\ UNCHANGED <<transport_vars, stack, connected, answer, started>>

\* Client::request up to its first wait: the correlation id is taken first; a
\* timeout runs for the discovery alone, and another for the response.
StartHttp(c) ==
    /\ stack = "http" /\ phase[c] = "idle"
    /\ started' = [started EXCEPT ![c] = now]
    /\ TakeCorrelation(c)
    /\ \/ /\ c \notin Pinned /\ FoundEndpoint(c)
          /\ Insert(c) /\ Sent(c)
          /\ deadline' = [deadline EXCEPT ![c] = NewDeadline]
          /\ Scheduled(PostRequest(c, Chosen) \o Timer(c))
          /\ UNCHANGED result
       \/ /\ c \notin Pinned /\ StillWaiting(c)
          /\ phase' = [phase EXCEPT ![c] = "selecting"]
          /\ deadline' = [deadline EXCEPT ![c] = NewDeadline]
          /\ Scheduled(Timer(c))
          /\ UNCHANGED <<pending, result>>
       \/ /\ PinnedTarget(c) /\ IsRegistered(Target)
          /\ Insert(c) /\ Sent(c)
          /\ deadline' = [deadline EXCEPT ![c] = NewDeadline]
          /\ Scheduled(PostRequest(c, Target) \o Timer(c))
          /\ UNCHANGED result
       \/ /\ PinnedTarget(c) /\ ~IsRegistered(Target)
          /\ Finish(c, [kind |-> "not found", of |-> c])
          /\ UNCHANGED <<agenda_vars, pending>>
    /\ UNCHANGED <<transport_vars, stack, connected, answer, answered>>

\* The loop of select_target is polled: an endpoint, or the change it waits for,
\* or the end of the time for it; a new timeout starts with the request.
PollSelectHttp(c) ==
    LET over == deadline[c] # Nil /\ now >= deadline[c] IN
    /\ stack = "http" /\ phase[c] = "selecting"
    /\ c \in registry_woken \cup answered
    /\ \/ /\ FoundEndpoint(c)
          /\ UNCHANGED correlation
          /\ Insert(c) /\ Sent(c)
          /\ deadline' = [deadline EXCEPT ![c] = NewDeadline]
          /\ Scheduled(PostRequest(c, Chosen) \o Timer(c))
          /\ UNCHANGED result
       \/ /\ ~over /\ StillWaiting(c)
          /\ UNCHANGED <<agenda_vars, phase, correlation, pending, deadline, result>>
       \/ /\ over /\ GiveUpInLoop(c)
          /\ Finish(c, [kind |-> "timeout", of |-> c])
          /\ UNCHANGED <<agenda_vars, correlation, pending>>
    /\ answered' = answered \ {c}
    /\ UNCHANGED <<transport_vars, stack, connected, next_counter, answer, started>>

\* The end of a call whose response is there: the answer is taken before the
\* timeout is looked at.
TakeAnswer(c) ==
    /\ answer[c] # Nil
    /\ Finish(c, answer[c])
    /\ answer' = [answer EXCEPT ![c] = Nil]
    /\ UNCHANGED pending

\* The timeout of a gRPC call drops unary_inner and its receiver: the entry of
\* the pending map stays until a response comes, if one does.
GrpcTimedOut(c) ==
    /\ stack = "grpc"
    /\ Finish(c, [kind |-> "timeout", of |-> c])
    /\ UNCHANGED pending

\* That of an HTTP request removes its entry.
HttpTimedOut(c) ==
    /\ stack = "http"
    /\ Finish(c, [kind |-> "timeout", of |-> c])
    /\ pending' = {p \in pending : p.id # correlation[c]}

\* A poll of a call that waits for its response.
PollResponse(c) ==
    /\ phase[c] = "sent" /\ c \in answered
    /\ \/ TakeAnswer(c)
       \/ /\ answer[c] = Nil /\ deadline[c] # Nil /\ now >= deadline[c]
          /\ GrpcTimedOut(c) \/ HttpTimedOut(c)
          /\ UNCHANGED answer
       \/ /\ answer[c] = Nil /\ (deadline[c] = Nil \/ now < deadline[c])
          /\ UNCHANGED <<phase, result, deadline, answer, pending>>
    /\ answered' = answered \ {c}
    /\ UNCHANGED <<agenda_vars, transport_vars, registry_vars, stack, connected, correlation,
                   next_counter,
                   started>>

\* The task that awaits the call is aborted: the entry stays in both libraries.
DropCall(c) ==
    /\ phase[c] \in {"selecting", "sent"}
    /\ StopWaiting(c)
    /\ Finish(c, [kind |-> "dropped", of |-> c])
    /\ answer' = [answer EXCEPT ![c] = Nil]
    /\ answered' = answered \ {c}
    /\ UNCHANGED <<agenda_vars, transport_vars, stack, connected, correlation, next_counter,
                   pending, started>>

\* The clock goes on when nobody is left to be polled (AsyncRuntime).
TasksWait == answered = {} /\ registry_woken = {}
Due(e) == e \in Choice /\ (e.time > now => TasksWait)

\* ClientEndpoint::process_event: the call of the correlation id gets the
\* response, if it still waits for it.
HandleResponse(e) ==
    /\ Due(e)
    /\ e.ev.kind = "MessageDelivered" /\ e.ev.message.destination = Client
    /\ stack \in {"grpc", "http"}
    /\ HandedOver(e, <<>>)
    /\ LET r == e.ev.message.content
           found == {p \in pending : p.id = r.id}
           alive == {p \in found : phase[p.call] = "sent"}
       IN  /\ pending' = pending \ found
           /\ answer' = [c \in Call |-> IF \E p \in alive : p.call = c
                                        THEN [kind |-> IF r.ok THEN "ok" ELSE "error", of |-> r.of]
                                        ELSE answer[c]]
           /\ answered' = answered \cup {p.call : p \in alive}
    /\ UNCHANGED <<registry_vars, stack, connected, phase, correlation, next_counter, started,
                   deadline, result>>

\* ServerEndpoint::process_event of a gRPC request: a task runs the handler,
\* and answers; a method that is not routed, a request that does not decode and
\* a handler that fails give an error.
HandleGrpcRequest(e) ==
    /\ Due(e) /\ stack = "grpc"
    /\ e.ev.kind = "MessageDelivered" /\ e.ev.message.destination \in Servers
    /\ \E t \in HandlerTimes, ok \in BOOLEAN :
           HandedOver(e, <<After(t, HandlerDone(e.ev.message, ok))>>)
    /\ UNCHANGED <<registry_vars, call_vars>>

\* ServerEndpoint::process_event of an HTTP request: a failure is a response
\* with status 500.
HandleHttpRequest(e) ==
    /\ Due(e) /\ stack = "http"
    /\ e.ev.kind = "MessageDelivered" /\ e.ev.message.destination \in Servers
    /\ \E t \in HandlerTimes, ok \in BOOLEAN :
           HandedOver(e, <<After(t, HandlerDone(e.ev.message, ok))>>)
    /\ UNCHANGED <<registry_vars, call_vars>>

\* The response goes back to the source, with the correlation id of the request.
Respond(m, ok) ==
    <<After(0, SendMessage(TransportMessage(0, m.destination, m.source, 1,
                                            ResponseTo(m.content, ok))))>>

\* The task of a handler comes to its end.
HandleDone(e) ==
    /\ Due(e)
    /\ e.ev.kind = "HandlerDone"
    /\ Handled(e, Respond(e.ev.message, e.ev.ok))
    /\ UNCHANGED <<transport_vars, registry_vars, call_vars>>

\* A timer wakes the call it was set for, if it still runs.
HandleElapsed(e) ==
    /\ Due(e)
    /\ e.ev.kind = "Elapsed"
    /\ Handled(e, <<>>)
    /\ answered' = IF phase[e.ev.call] \in {"selecting", "sent"} THEN answered \cup {e.ev.call}
                   ELSE answered
    /\ UNCHANGED <<transport_vars, registry_vars, stack, connected, phase, correlation,
                   next_counter, pending,
                   answer, started, deadline, result>>

\* A program that uses the transport alone: it lets the transport number its
\* message, as the libraries do, or takes the number itself.
Submit(d) ==
    /\ stack = "transport" /\ next_event_id < MaxSubmitted
    /\ Scheduled(<<After(0, SendMessage(TransportMessage(0, Client, d, 1, "none")))>>)
    /\ UNCHANGED <<transport_vars, registry_vars, call_vars>>

Send(d) ==
    /\ stack = "transport"
    /\ SendThrough(Client, d, 1)
    /\ UNCHANGED <<registry_vars, call_vars>>

\* Its handlers do nothing with what they get.
HandleMessage(e) ==
    /\ stack = "transport"
    /\ HandedOver(e, <<>>)
    /\ UNCHANGED <<registry_vars, call_vars>>

Listen(s) == stack = "transport" /\ RegisterHandler(s) /\ UNCHANGED <<registry_vars, call_vars>>
Ignore(s) == stack = "transport" /\ UnregisterHandler(s) /\ UNCHANGED <<registry_vars, call_vars>>
Reset == stack = "transport" /\ ResetStats /\ UNCHANGED <<registry_vars, call_vars>>

\* A program that uses the registry alone: its tasks wait for endpoints.
Enlist(s) == stack = "registry" /\ Register(s) /\ UNCHANGED <<agenda_vars, transport_vars,
                                                              call_vars>>
Retire(s) == stack = "registry" /\ Unregister(s) /\ UNCHANGED <<agenda_vars, transport_vars,
                                                                call_vars>>

PollWait(c) ==
    /\ stack = "registry"
    /\ c \in waiting => c \in registry_woken
    /\ \/ Len(picks) < MaxPicks /\ FoundEndpoint(c)
       \/ Len(wakers) + permits < MaxPicks /\ StillWaiting(c)
    /\ UNCHANGED <<agenda_vars, transport_vars, call_vars>>

Deliver(e) ==
    /\ Due(e) /\ TransportStep(e)
    /\ UNCHANGED <<registry_vars, call_vars>>

Poll(c) ==
    \/ PollSelectGrpc(c) \/ PollSelectHttp(c) \/ PollResponse(c)

Handle(e) ==
    \/ Deliver(e) \/ HandleResponse(e) \/ HandleGrpcRequest(e) \/ HandleHttpRequest(e)
    \/ HandleDone(e) \/ HandleElapsed(e) \/ HandleMessage(e)

Next ==
    \/ \E s \in Servers : ServeGrpc(s) \/ ServeHttp(s) \/ Withdraw(s) \/ Enlist(s) \/ Retire(s)
    \/ \E c \in Call : StartGrpc(c) \/ StartHttp(c) \/ Poll(c) \/ DropCall(c) \/ PollWait(c)
    \/ \E e \in events : Handle(e)
    \/ \E s \in Servers : Submit(s) \/ Send(s) \/ Listen(s) \/ Ignore(s)
    \/ Reset \/ ConnectGrpc \/ ConnectHttp

\* The simulation goes on as long as there is an entry to handle or a task that
\* was woken (Simulation::execute, AsyncRuntime).
Runtime == (\E e \in events : Handle(e)) \/ (\E c \in Call : Poll(c))

Spec == Init /\ [][Next]_vars /\ WF_vars(Runtime)

-----------------------------------------------------------------------------
\* A call that returns an answer returns its own, whatever responses come late.
AnswerIsOwn == \A c \in Call : result[c] # Nil => result[c].of = c

\* The pending map has an entry for exactly the calls that have been sent and
\* not been answered, and for those that were given up with their request
\* unanswered: dropped ones, and gRPC calls that have timed out.
PendingExact ==
    /\ \A p \in pending : p.id = correlation[p.call]
    /\ \A c \in Call :
        LET listed == \E p \in pending : p.call = c IN
        /\ phase[c] = "sent" => (listed <=> answer[c] = Nil)
        /\ phase[c] = "done" /\ listed =>
               result[c].kind \in {"dropped"} \cup (IF stack = "grpc" THEN {"timeout"} ELSE {})

\* channel.rs, client.rs: answers and pending entries are those of their calls.
CallsExact == AnswerIsOwn /\ PendingExact

Running == {c \in Call : phase[c] \in {"selecting", "sent"}}

\* A gRPC call ends within its timeout, and an HTTP request within twice its
\* timeout: once for the discovery, once for the response.
EndsInTime ==
    \A c \in Call : Timeout # Nil /\ c \in Running =>
        now - started[c] <= (IF stack = "grpc" THEN Timeout ELSE 2 * Timeout)

\* Calls with a timeout return, in time, whatever is lost.
CallsReturn ==
    /\ []EndsInTime
    /\ (Timeout # Nil /\ Running # {}) ~> Running = {}
=============================================================================
