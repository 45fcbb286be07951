----------------------------- MODULE RpcStream ------------------------------
(***************************************************************************)
(* A streaming RPC of des-tonic (channel.rs, server.rs): Open, Data, Close *)
(* and Cancel frames with sequence numbers in each direction, reordered by *)
(* the network, put back in order by both endpoints, and handed to the     *)
(* applications through bounded channels.                                  *)
(*                                                                         *)
(* The network is that of the module Network without its order: a frame in *)
(* flight is delivered at any time, at most once, and one that is lost is  *)
(* one that is never delivered, for nothing says that it must be.  A channel *)
(* between an application and the task that forwards its items only delays *)
(* them, and is part of the network here; the channels that an endpoint    *)
(* fills with try_send are modelled, because they can be full.             *)
(***************************************************************************)
EXTENDS Integers, SequencesExt, FiniteSets

CONSTANTS Modes,        \* of {"Client", "Server", "Bidi", "Unknown"}: which side streams, or
                        \* a method that the router does not know
          MaxItems,     \* bound: items that an application streams
          Cap,          \* capacity of the channels to the applications (16 in the code)
          MaxReorder,   \* MAX_REORDER_FRAMES (64 in the code)
          HasTimeout    \* the stream was opened with a timeout

StreamAssumption ==
    /\ Modes \subseteq {"Client", "Server", "Bidi", "Unknown"}
    /\ MaxItems \in Nat /\ Cap \in Nat \ {0} /\ MaxReorder \in Nat \ {0}
    /\ HasTimeout \in BOOLEAN

VARIABLES
    mode,
    c2s, s2c,       \* the frames in flight, by direction
    request,        \* the client's sending side: [sent, state]; state "idle", "open" or "closed"
    client,         \* ClientStreamState, or Gone
    inbox,          \* the channel to the client's application: items, or Failure
    inbox_open,     \* its sender is alive
    expiring,       \* the timer holds that sender, and waits for room
    response,       \* the oneshot of a client-streaming call: "none", "error", "ok" or "empty"
    client_end,     \* what the client's application has seen of the end, "no" before it
    got,            \* the items it has read
    client_cut,     \* history: a try_send to it failed
    server,         \* ServerStreamState, or Gone
    server_inbox, server_inbox_open,
    handler,        \* the task of the handler: "none", "running", "responding" or "done"
    replied,        \* the Data frames it has sent
    heard,          \* the items that the handler has read
    heard_end,      \* what it has seen of their end: "no", "end", or "dropped" by itself
    server_cut      \* history: a try_send to the handler failed, or frames were too many

client_vars == <<request, client, inbox, inbox_open, expiring, response, client_end, got, client_cut>>
server_vars == <<server, server_inbox, server_inbox_open, handler, replied, heard, heard_end,
                 server_cut>>
vars == <<mode, c2s, s2c, client_vars, server_vars>>

Gone == [gone |-> TRUE]

\* An Err(status) in a channel; the items are the numbers from 1.
Failure == 0

\* StreamFrameWire.
Open == [kind |-> "Open", seq |-> 0, item |-> 0, ok |-> TRUE]
Data(n) == [kind |-> "Data", seq |-> n, item |-> n, ok |-> TRUE]
Close(n, ok) == [kind |-> "Close", seq |-> n, item |-> 0, ok |-> ok]

\* The best-effort cancel of a client has sequence number 0, like its Open.
Cancel == [kind |-> "Cancel", seq |-> 0, item |-> 0, ok |-> FALSE]

\* A task or the endpoint sends frames to the client, or to the server.
ToClient(frames) == s2c' = s2c \cup frames
ToServer(frames) == c2s' = c2s \cup frames

Init ==
    /\ mode \in Modes
    /\ c2s = {} /\ s2c = {}
    /\ request = [sent |-> 0, state |-> "idle"]
    /\ client = Gone /\ inbox = <<>> /\ inbox_open = FALSE /\ expiring = FALSE
    /\ response = "none" /\ client_end = "no" /\ got = <<>> /\ client_cut = FALSE
    /\ server = Gone /\ server_inbox = <<>> /\ server_inbox_open = FALSE
    /\ handler = "none" /\ replied = 0
    /\ heard = <<>> /\ heard_end = "no" /\ server_cut = FALSE

\* What the calls that open a stream register for its answers.
OpenedClient == [next |-> 0, saw_open |-> FALSE, reorder |-> {}, payload |-> 0]

\* client_streaming: a oneshot for the answer.
OpenClientStreaming ==
    /\ mode = "Client" /\ request.state = "idle"
    /\ client' = OpenedClient
    /\ ToServer({Open})
    /\ request' = [request EXCEPT !.state = "open"]
    /\ UNCHANGED <<mode, s2c, inbox, inbox_open, expiring, response, client_end, got, client_cut,
                   server_vars>>

\* server_streaming: the only request goes out at once.
OpenServerStreaming ==
    /\ mode = "Server" /\ request.state = "idle"
    /\ client' = OpenedClient /\ inbox_open' = TRUE
    /\ ToServer({Open, Data(1), Close(2, TRUE)})
    /\ request' = [sent |-> 1, state |-> "closed"]
    /\ UNCHANGED <<mode, s2c, inbox, expiring, response, client_end, got, client_cut, server_vars>>

\* bidirectional_streaming, also when the router knows the method by another
\* kind or not at all.
OpenBidiStreaming ==
    /\ mode \in {"Bidi", "Unknown"} /\ request.state = "idle"
    /\ client' = OpenedClient /\ inbox_open' = TRUE
    /\ ToServer({Open})
    /\ request' = [request EXCEPT !.state = "open"]
    /\ UNCHANGED <<mode, s2c, inbox, expiring, response, client_end, got, client_cut, server_vars>>

\* The application sends an item, and the task forwards it.
SendItem ==
    /\ request.state = "open" /\ request.sent < MaxItems
    /\ request' = [request EXCEPT !.sent = @ + 1]
    /\ ToServer({Data(request.sent + 1)})
    /\ UNCHANGED <<mode, s2c, client, inbox, inbox_open, expiring, response, client_end, got,
                   client_cut, server_vars>>

\* Mutant: the number of the last item is taken again.
CloseWithLast ==
    /\ request.state = "open"
    /\ request' = [request EXCEPT !.state = "closed"]
    /\ ToServer({Close(request.sent, TRUE)})
    /\ UNCHANGED <<mode, s2c, client, inbox, inbox_open, expiring, response, client_end, got,
                   client_cut, server_vars>>

\* The senders are dropped, and the task closes the direction.
CloseRequests ==
    /\ request.state = "open"
    /\ request' = [request EXCEPT !.state = "closed"]
    /\ ToServer({Close(request.sent + 1, TRUE)})
    /\ UNCHANGED <<mode, s2c, client, inbox, inbox_open, expiring, response, client_end, got,
                   client_cut, server_vars>>

-----------------------------------------------------------------------------
(* Frames are put back in order.                                            *)

\* reorder.insert: a frame replaces one with its number.
Insert(reorder, f) == {g \in reorder : g.seq # f.seq} \cup {f}

\* Mutant: whatever waits is handed on, gaps or not.
RunWithGaps(reorder, next) == {f \in reorder : f.seq >= next}

\* The frames that the loop over reorder.remove(&next_expected) finds.
Run(reorder, next) ==
    {f \in reorder : f.seq >= next /\ \A s \in next .. f.seq : \E g \in reorder : g.seq = s}

\* The last of some frames.
LastOf(frames) == CHOOSE f \in frames : \A g \in frames : g.seq <= f.seq

\* A loop over frames, in the order of their numbers.
Loop(Turn(_, _), begin, frames) ==
    MapThenFoldSet(LAMBDA f, a : Turn(a, f), begin, LAMBDA f : f, LastOf, frames)

\* A try_send to a channel that holds q and whose receiver is alive or not.
HasRoom(q, alive) == alive /\ Len(q) < Cap

\* One turn of the client's loop in server and bidi mode.  a is what the loop
\* works on: the channel q, its sender tx, the state's flag, whether the state
\* was removed, and whether a try_send has failed.
ClientTurn(a, f) ==
    LET room == HasRoom(a.q, client_end # "dropped")
        error == [a EXCEPT !.q = IF room THEN Append(@, Failure) ELSE @,
                           !.tx = FALSE, !.removed = TRUE, !.cut = @ \/ ~room]
    IN  CASE a.removed -> a
        [] ~a.removed /\ f.kind = "Open" -> [a EXCEPT !.saw = TRUE]
        [] ~a.removed /\ f.kind = "Data" /\ a.saw /\ room -> [a EXCEPT !.q = Append(@, f.item)]
        [] ~a.removed /\ f.kind = "Data" /\ a.saw /\ ~room ->
               [a EXCEPT !.tx = FALSE, !.removed = TRUE, !.cut = TRUE]
        [] ~a.removed /\ f.kind = "Close" /\ f.ok -> [a EXCEPT !.tx = FALSE, !.removed = TRUE]
        [] OTHER -> error

\* One turn of the loop in client mode: one Data frame is the answer, Close
\* hands it to the oneshot.
AnswerTurn(a, f) ==
    CASE a.removed -> a
    [] ~a.removed /\ f.kind = "Open" -> [a EXCEPT !.saw = TRUE]
    [] ~a.removed /\ f.kind = "Data" /\ a.saw /\ a.payload = 0 -> [a EXCEPT !.payload = f.item]
    [] ~a.removed /\ f.kind = "Close" /\ f.ok ->
           [a EXCEPT !.answer = IF a.payload = 0 THEN "empty" ELSE "ok", !.removed = TRUE]
    [] OTHER -> [a EXCEPT !.answer = "error", !.removed = TRUE]

\* A server that sends no Open begins with frame 1.
OpensImplicitly(reorder) ==
    /\ ~client.saw_open /\ client.next = 0
    /\ ~\E g \in reorder : g.seq = 0
    /\ \E g \in reorder : g.seq = 1

\* The frames that wait when f arrives, and the number that the loop begins at.
WithFrame(f) == Insert(client.reorder, f)
Start(f) == IF OpensImplicitly(WithFrame(f)) THEN 1 ELSE client.next

\* The loop of the client over the frames that are in order once f is inserted.
ClientLoop(f) ==
    LET run == Run(WithFrame(f), Start(f))
        begin == [q |-> inbox, tx |-> inbox_open, payload |-> client.payload, answer |-> response,
                  saw |-> client.saw_open \/ OpensImplicitly(WithFrame(f)),
                  removed |-> FALSE, cut |-> client_cut]
    IN  IF mode = "Client" THEN Loop(AnswerTurn, begin, run)
                           ELSE Loop(ClientTurn, begin, run)

\* ClientEndpoint::process_event, of a frame of a stream that is pending.
ClientReceive(f) ==
    LET a == ClientLoop(f)
        run == Run(WithFrame(f), Start(f))
    IN  /\ f \in s2c /\ client # Gone
        /\ Cardinality(client.reorder) < MaxReorder
        /\ s2c' = s2c \ {f}
        /\ client' = IF a.removed THEN Gone
                     ELSE [next |-> Start(f) + Cardinality(run), saw_open |-> a.saw,
                           reorder |-> WithFrame(f) \ run, payload |-> a.payload]
        /\ inbox' = a.q /\ inbox_open' = a.tx
        /\ response' = a.answer
        /\ client_cut' = a.cut
        /\ UNCHANGED <<mode, c2s, request, expiring, client_end, got, server_vars>>

\* Too many frames wait: the stream fails, whichever frame this is.
ClientOverflow(f) ==
    LET room == HasRoom(inbox, client_end # "dropped")
    IN  /\ f \in s2c /\ client # Gone
        /\ Cardinality(client.reorder) >= MaxReorder
        /\ s2c' = s2c \ {f}
        /\ client' = Gone
        /\ \/ /\ mode = "Client"
              /\ response' = "error"
              /\ UNCHANGED <<inbox, inbox_open, client_cut>>
           \/ /\ mode # "Client"
              /\ inbox' = IF room THEN Append(inbox, Failure) ELSE inbox
              /\ inbox_open' = FALSE
              /\ client_cut' = (client_cut \/ ~room)
              /\ UNCHANGED response
        /\ UNCHANGED <<mode, c2s, request, expiring, client_end, got, server_vars>>

\* A frame of a stream that is not pending any more.
ClientIgnore(f) ==
    /\ f \in s2c /\ client = Gone
    /\ s2c' = s2c \ {f}
    /\ UNCHANGED <<mode, c2s, client_vars, server_vars>>

-----------------------------------------------------------------------------
(* The server.                                                              *)

\* An Open frame: the stream gets a state, and, unless its only request must
\* come first, a channel and the task of its handler.
ServerOpen ==
    /\ Open \in c2s /\ server = Gone /\ mode # "Unknown"
    /\ c2s' = c2s \ {Open}
    /\ server' = [next |-> 1, reorder |-> {}, payload |-> 0, closed |-> FALSE]
    /\ server_inbox_open' = (mode # "Server")
    /\ handler' = IF mode = "Server" THEN "none" ELSE "running"
    /\ UNCHANGED <<mode, s2c, client_vars, server_inbox, replied, heard, heard_end, server_cut>>

\* The method is not routed.
ServerRefuse ==
    /\ Open \in c2s /\ mode = "Unknown"
    /\ c2s' = c2s \ {Open}
    /\ ToClient({Close(1, FALSE)})
    /\ UNCHANGED <<mode, client_vars, server_vars>>

\* A frame without a stream, be it too late or too early.
ServerIgnore(f) ==
    /\ f \in c2s /\ f.kind # "Open" /\ server = Gone
    /\ c2s' = c2s \ {f}
    /\ UNCHANGED <<mode, s2c, client_vars, server, server_inbox, server_inbox_open, handler,
                   replied, heard, heard_end, server_cut>>

\* One turn of the server's loop in client and bidi mode, on the channel to the
\* handler.
ServerTurn(a, f) ==
    LET room == HasRoom(a.q, heard_end # "dropped")
    IN  CASE a.removed -> a
        [] ~a.removed /\ f.kind = "Data" /\ a.tx /\ room -> [a EXCEPT !.q = Append(@, f.item)]
        [] ~a.removed /\ f.kind = "Data" /\ a.tx /\ ~room ->
               [a EXCEPT !.tx = FALSE, !.removed = TRUE, !.cut = TRUE]
        [] ~a.removed /\ f.kind = "Close" -> [a EXCEPT !.tx = FALSE]
        [] ~a.removed /\ f.kind = "Cancel" -> [a EXCEPT !.tx = FALSE, !.removed = TRUE]
        [] OTHER -> a

\* ServerEndpoint::process_event of a frame in client and bidi mode.
ServerReceive(f) ==
    LET reorder == Insert(server.reorder, f)
        run == Run(reorder, server.next)
        a == Loop(ServerTurn, [q |-> server_inbox, tx |-> server_inbox_open, removed |-> FALSE,
                               cut |-> server_cut], run)
    IN  /\ f \in c2s /\ f.kind # "Open" /\ server # Gone /\ mode \in {"Client", "Bidi"}
        /\ Cardinality(server.reorder) < MaxReorder
        /\ c2s' = c2s \ {f}
        /\ server' = IF a.removed \/ (~a.tx /\ reorder = run) THEN Gone
                     ELSE [server EXCEPT !.next = @ + Cardinality(run), !.reorder = reorder \ run]
        /\ server_inbox' = a.q /\ server_inbox_open' = a.tx
        /\ server_cut' = a.cut
        /\ UNCHANGED <<mode, s2c, client_vars, handler, replied, heard, heard_end>>

\* In server mode the loop collects the only request; two of them are an error.
RequestTurn(a, f) ==
    CASE a.removed -> a
    [] ~a.removed /\ f.kind = "Data" /\ a.payload = 0 -> [a EXCEPT !.payload = f.item]
    [] ~a.removed /\ f.kind = "Data" /\ a.payload # 0 -> [a EXCEPT !.removed = TRUE, !.error = TRUE]
    [] ~a.removed /\ f.kind = "Close" -> [a EXCEPT !.closed = TRUE]
    [] OTHER -> [a EXCEPT !.removed = TRUE]

\* When the requests are closed, the task of the handler gets the request and
\* the state is removed.
RequestReceive(f) ==
    LET reorder == Insert(server.reorder, f)
        run == Run(reorder, server.next)
        a == Loop(RequestTurn, [payload |-> server.payload, closed |-> server.closed,
                                removed |-> FALSE, error |-> FALSE], run)
        starts == ~a.removed /\ a.closed /\ a.payload # 0
        fails == a.error \/ (~a.removed /\ a.closed /\ a.payload = 0)
    IN  /\ f \in c2s /\ f.kind # "Open" /\ server # Gone /\ mode = "Server"
        /\ Cardinality(server.reorder) < MaxReorder
        /\ c2s' = c2s \ {f}
        /\ server' = IF a.removed \/ a.closed THEN Gone
                     ELSE [server EXCEPT !.next = @ + Cardinality(run), !.reorder = reorder \ run,
                                         !.payload = a.payload]
        /\ ToClient(IF fails THEN {Close(1, FALSE)} ELSE {})
        /\ handler' = IF starts THEN "running" ELSE handler
        /\ heard' = IF starts THEN <<a.payload>> ELSE heard
        /\ heard_end' = IF starts THEN "end" ELSE heard_end
        /\ UNCHANGED <<mode, client_vars, server_inbox, server_inbox_open, replied, server_cut>>

\* Too many frames wait: the stream is forgotten, and the handler sees an end.
ServerOverflow(f) ==
    /\ f \in c2s /\ f.kind # "Open" /\ server # Gone
    /\ Cardinality(server.reorder) >= MaxReorder
    /\ c2s' = c2s \ {f}
    /\ server' = Gone /\ server_inbox_open' = FALSE
    /\ server_cut' = TRUE
    /\ UNCHANGED <<mode, s2c, client_vars, server_inbox, handler, replied, heard, heard_end>>

-----------------------------------------------------------------------------
(* The handler of the server's application, and the task that forwards what *)
(* it answers.                                                              *)

Reads == handler \in {"running", "responding"} /\ heard_end = "no"

HandlerRead ==
    /\ Reads /\ server_inbox # <<>>
    /\ heard' = Append(heard, Head(server_inbox))
    /\ server_inbox' = Tail(server_inbox)
    /\ UNCHANGED <<mode, c2s, s2c, client_vars, server, server_inbox_open, handler, replied,
                   heard_end, server_cut>>

HandlerSeesEnd ==
    /\ Reads /\ server_inbox = <<>> /\ ~server_inbox_open
    /\ heard_end' = "end"
    /\ UNCHANGED <<mode, c2s, s2c, client_vars, server, server_inbox, server_inbox_open, handler,
                   replied, heard, server_cut>>

\* It reads no further.
HandlerDropsRequests ==
    /\ Reads
    /\ heard_end' = "dropped" /\ server_inbox' = <<>>
    /\ UNCHANGED <<mode, c2s, s2c, client_vars, server, server_inbox_open, handler, replied, heard,
                   server_cut>>

\* A client-streaming handler returns: Open, then the answer and Close or the error.
HandlerAnswer(ok) ==
    /\ handler = "running" /\ mode = "Client"
    /\ handler' = "done"
    /\ replied' = IF ok THEN 1 ELSE 0
    /\ ToClient({Open} \cup (IF ok THEN {Data(1), Close(2, TRUE)} ELSE {Close(1, FALSE)}))
    /\ heard_end' = IF heard_end = "no" THEN "dropped" ELSE heard_end
    /\ server_inbox' = <<>>
    /\ UNCHANGED <<mode, c2s, client_vars, server, server_inbox_open, heard, server_cut>>

\* Another handler returns a stream, or fails.
StartReplies(ok) ==
    /\ handler = "running"
    /\ handler' = IF ok THEN "responding" ELSE "done"
    /\ ToClient({Open} \cup (IF ok THEN {} ELSE {Close(1, FALSE)}))
    /\ heard_end' = IF ~ok /\ heard_end = "no" THEN "dropped" ELSE heard_end
    /\ server_inbox' = IF ok THEN server_inbox ELSE <<>>
    /\ UNCHANGED <<mode, c2s, client_vars, server, server_inbox_open, replied, heard, server_cut>>

\* An item of that stream is sent.
SendReply ==
    /\ handler = "responding" /\ replied < MaxItems
    /\ replied' = replied + 1
    /\ ToClient({Data(replied + 1)})
    /\ UNCHANGED <<mode, c2s, client_vars, server, server_inbox, server_inbox_open, handler, heard,
                   heard_end, server_cut>>

\* It ends, well or with an error, and takes the requests with it.
EndReplies(ok) ==
    /\ handler = "responding"
    /\ handler' = "done"
    /\ ToClient({Close(replied + 1, ok)})
    /\ heard_end' = IF heard_end = "no" THEN "dropped" ELSE heard_end
    /\ server_inbox' = <<>>
    /\ UNCHANGED <<mode, c2s, client_vars, server, server_inbox_open, replied, heard, server_cut>>

\* The task of a bidi handler, and that of a server-streaming handler.
BidiRespond(ok) == mode = "Bidi" /\ StartReplies(ok)
BidiReply == mode = "Bidi" /\ SendReply
BidiEnd(ok) == mode = "Bidi" /\ EndReplies(ok)
ServerRespond(ok) == mode = "Server" /\ StartReplies(ok)
ServerReply == mode = "Server" /\ SendReply
ServerEnd(ok) == mode = "Server" /\ EndReplies(ok)

-----------------------------------------------------------------------------
(* The client's application, and the timeout of the stream.                 *)

ReadItem ==
    /\ client_end = "no" /\ inbox # <<>> /\ Head(inbox) # Failure
    /\ got' = Append(got, Head(inbox))
    /\ inbox' = Tail(inbox)
    /\ UNCHANGED <<mode, c2s, s2c, request, client, inbox_open, expiring, response, client_end,
                   client_cut, server_vars>>

ReadFailure ==
    /\ client_end = "no" /\ inbox # <<>> /\ Head(inbox) = Failure
    /\ client_end' = "error"
    /\ inbox' = Tail(inbox)
    /\ UNCHANGED <<mode, c2s, s2c, request, client, inbox_open, expiring, response, got,
                   client_cut, server_vars>>

SeeEnd ==
    /\ client_end = "no" /\ mode # "Client" /\ request.state # "idle"
    /\ inbox = <<>> /\ ~inbox_open
    /\ client_end' = "end"
    /\ UNCHANGED <<mode, c2s, s2c, request, client, inbox, inbox_open, expiring, response, got,
                   client_cut, server_vars>>

\* The future of a client-streaming call is polled: an answer comes first.
TakeResponse ==
    /\ client_end = "no" /\ response # "none"
    /\ client_end' = IF response = "error" THEN "error" ELSE "end"
    /\ got' = IF response = "ok" THEN <<1>> ELSE <<>>
    /\ UNCHANGED <<mode, c2s, s2c, request, client, inbox, inbox_open, expiring, response,
                   client_cut, server_vars>>

\* It elapses: the stream is forgotten, and the server told.
ResponseTimedOut ==
    /\ HasTimeout /\ mode = "Client" /\ request.state # "idle"
    /\ client_end = "no" /\ response = "none"
    /\ client' = Gone /\ client_end' = "timeout"
    /\ ToServer({Cancel})
    /\ UNCHANGED <<mode, s2c, request, inbox, inbox_open, expiring, response, got, client_cut,
                   server_vars>>

\* The application drops its end.
DropStream ==
    /\ client_end = "no" /\ request.state # "idle"
    /\ client_end' = "dropped" /\ inbox' = <<>>
    /\ UNCHANGED <<mode, c2s, s2c, request, client, inbox_open, expiring, response, got,
                   client_cut, server_vars>>

\* The end of the timer task: its error is sent, once there is room, or is
\* refused because nobody reads; then Cancel.
TimerSends ==
    /\ client_end # "no" \/ Len(inbox) < Cap
    /\ inbox' = IF client_end = "dropped" THEN inbox ELSE Append(inbox, Failure)
    /\ inbox_open' = FALSE
    /\ expiring' = FALSE
    /\ ToServer({Cancel})

\* The timer of a stream that is still pending: its state is removed, and its
\* sender taken.
StreamTimedOut ==
    /\ HasTimeout /\ mode # "Client" /\ client # Gone
    /\ client' = Gone
    /\ \/ TimerSends
       \/ /\ client_end # "dropped" /\ Len(inbox) >= Cap
          /\ expiring' = TRUE
          /\ UNCHANGED <<c2s, inbox, inbox_open>>
    /\ UNCHANGED <<mode, s2c, request, response, client_end, got, client_cut, server_vars>>

TimerFinishes ==
    /\ expiring
    /\ TimerSends
    /\ UNCHANGED <<mode, s2c, request, client, response, client_end, got, client_cut, server_vars>>

Opening == OpenClientStreaming \/ OpenServerStreaming \/ OpenBidiStreaming
Requests == SendItem \/ CloseRequests
Reading == ReadItem \/ ReadFailure \/ SeeEnd \/ TakeResponse
Timing == ResponseTimedOut \/ StreamTimedOut \/ TimerFinishes
Handling ==
    \/ HandlerRead \/ HandlerSeesEnd \/ HandlerDropsRequests
    \/ \E ok \in BOOLEAN : \/ HandlerAnswer(ok) \/ BidiRespond(ok) \/ BidiEnd(ok)
                          \/ ServerRespond(ok) \/ ServerEnd(ok)
    \/ BidiReply \/ ServerReply

ClientFrame(f) == ClientReceive(f) \/ ClientOverflow(f) \/ ClientIgnore(f)
ServerFrame(f) ==
    \/ ServerIgnore(f) \/ ServerReceive(f) \/ RequestReceive(f) \/ ServerOverflow(f)

Next ==
    \/ Opening \/ Requests \/ Reading \/ Timing \/ Handling \/ DropStream
    \/ ServerOpen \/ ServerRefuse
    \/ \E f \in s2c : ClientFrame(f)
    \/ \E f \in c2s : ServerFrame(f)

\* Timers fire, and the client's application reads what there is.
Runtime == Reading \/ Timing

Spec == Init /\ [][Next]_vars /\ WF_vars(Runtime)

-----------------------------------------------------------------------------
\* An end that looks clean is one: the application at that end has read all that
\* was sent, unless a channel or a reorder buffer was full before.
EndIsHonest ==
    /\ client_end = "end" /\ ~client_cut => Len(got) = replied /\ handler = "done"
    /\ heard_end = "end" /\ ~server_cut => Len(heard) = request.sent /\ request.state = "closed"

\* channel.rs and server.rs: both directions are pipes.  What the applications
\* read is what was sent, in order and without gaps, however the frames are
\* reordered or lost.
Requested == INSTANCE StreamPipe WITH
    sent <- request.sent, received <- heard, ended <- heard_end # "no"
Responded == INSTANCE StreamPipe WITH
    sent <- replied, received <- got, ended <- client_end # "no"
ImplementsPipes == Requested!Spec /\ Responded!Spec

\* The application sees the end of every stream with a timeout, whatever is lost
\* and wherever the timer finds the stream.
StreamsEnd == (request.state # "idle" /\ HasTimeout) ~> client_end # "no"

\* "buffer frames until next_expected_seq is present, then drain in-order": when
\* everything has arrived, no frame waits at the server.
BuffersDrain ==
    c2s = {} /\ server # Gone => server.reorder = {}
=============================================================================
