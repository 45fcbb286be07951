----------------------------- MODULE Transport ------------------------------
(***************************************************************************)
(* SimTransport and its network models (des-components/src/transport):     *)
(* messages enter as SendMessage events, are dropped or delayed by the     *)
(* network model, and are forwarded to the handler that is registered for  *)
(* the destination when they arrive.                                       *)
(*                                                                         *)
(* A payload is its size.  Random draws (loss, jitter) are choices.        *)
(***************************************************************************)
EXTENDS Agenda, FiniteSets

CONSTANTS Endpoints,
          Models,       \* the network models to choose from: "simple", "jitter"
          Base,         \* base_latency
          Jittered,     \* the latencies that a draw of the jitter may give
          ByteDelay,    \* the bandwidth delay of a byte; 0 is unlimited
          Lossy,        \* packet_loss_rate > 0
          MaxMessages   \* bound: messages sent

TransportAssumption ==
    /\ IsFiniteSet(Endpoints)
    /\ Models \subseteq {"simple", "jitter"}
    /\ Base \in Nat /\ Jittered \subseteq Nat /\ ByteDelay \in Nat
    /\ Lossy \in BOOLEAN /\ MaxMessages \in Nat

VARIABLES
    model,              \* which NetworkModel is installed
    next_message_id,
    message_handlers,   \* the endpoints with a handler
    stats,              \* TransportStats: messages [sent, delivered, dropped]
    queue_times,        \* LatencyJitterModel: when the last message of a pair arrives
    network,            \* history: what the endpoints see, [accepted, handed] of Network
    carried             \* history: in the network when the statistics were last reset

transport_vars == <<model, next_message_id, message_handlers, stats, queue_times, network, carried>>

\* TransportEvent.  Of a MessageDelivered, at says whether it is addressed to the
\* transport or forwarded to the handler.
SendMessage(m) == [kind |-> "SendMessage", message |-> m]
MessageDelivered(m, at) == [kind |-> "MessageDelivered", message |-> m, at |-> at]
MessageDropped(m) == [kind |-> "MessageDropped", message |-> m]

\* TransportMessage::new.  content stands for the payload, the correlation id
\* and the message type.
TransportMessage(id, s, d, size, content) ==
    [id |-> id, source |-> s, destination |-> d, size |-> size, content |-> content]

TransportInit ==
    /\ model \in Models
    /\ next_message_id = 1
    /\ stats = [sent |-> 0, delivered |-> 0, dropped |-> 0]
    /\ queue_times = [p \in Endpoints \X Endpoints |-> 0]
    /\ network = [accepted |-> <<>>, handed |-> <<>>]
    /\ carried = 0

\* send_message, send_message_with_correlation: the id is taken at once, and the
\* event is scheduled for now.  A step of the program, between events.
SendThrough(s, d, size) ==
    /\ next_message_id <= MaxMessages
    /\ next_message_id' = next_message_id + 1
    /\ events' = events \cup
           Entries(<<After(0, SendMessage(TransportMessage(next_message_id, s, d, size, "none")))>>,
                   next_event_id, now)
    /\ next_event_id' = next_event_id + 1
    /\ UNCHANGED <<now, model, message_handlers, stats, queue_times, network, carried>>

RegisterHandler(ep) ==
    /\ message_handlers' = message_handlers \cup {ep}
    /\ UNCHANGED <<agenda_vars, model, next_message_id, stats, queue_times, network, carried>>

UnregisterHandler(ep) ==
    /\ ep \in message_handlers
    /\ message_handlers' = message_handlers \ {ep}
    /\ UNCHANGED <<agenda_vars, model, next_message_id, stats, queue_times, network, carried>>

\* The messages on their way.
InNetwork == {e \in events : e.ev.kind = "MessageDelivered" /\ e.ev.at = "transport"}

ResetStats ==
    /\ stats # [sent |-> 0, delivered |-> 0, dropped |-> 0]
    /\ stats' = [sent |-> 0, delivered |-> 0, dropped |-> 0]
    /\ carried' = Cardinality(InNetwork)
    /\ UNCHANGED <<agenda_vars, model, next_message_id, message_handlers, queue_times, network>>

\* The id of a message: its own, or the next one.
AssignedId(m) == IF m.id = 0 THEN next_message_id ELSE m.id

\* Mutant: the counter advances only past the ids that came with a message.
NextOfGiven(m) == IF m.id >= next_message_id THEN m.id + 1 ELSE next_message_id

\* The counter after it.
NextMessageId(m) ==
    IF m.id = 0 THEN next_message_id + 1
    ELSE IF m.id >= next_message_id THEN m.id + 1 ELSE next_message_id

LargerOf(a, b) == IF a > b THEN a ELSE b

\* The bandwidth delay: proportional to the size.
BandwidthDelay(m) == m.size * ByteDelay

\* Mutant: a message does not queue behind the last one of its pair.
QueueNot(t, m) == t

\* LatencyJitterModel: a message queues behind the last one of its pair.
QueueFrom(t, m) == LargerOf(queue_times[<<m.source, m.destination>>], t)

\* SimpleNetworkModel: the base latency.
SimpleLatency == {Base}

\* That of LatencyJitterModel is not a latency, but the time of arrival.
JitteredArrival(m, t) == {QueueFrom(t, m) + sample + BandwidthDelay(m) : sample \in Jittered}

\* The Durations that calculate_latency may give for a message sent at t.
CalculateLatency(m, t) ==
    IF model = "simple" THEN SimpleLatency ELSE JitteredArrival(m, t)

\* LatencyJitterModel notes the time of arrival.
NoteArrival(m, d) ==
    \/ model = "simple" /\ UNCHANGED queue_times
    \/ model = "jitter" /\ queue_times' = [queue_times EXCEPT ![<<m.source, m.destination>>] = d]

\* process_event of SendMessage: the message enters the network.
HandleSend(e) ==
    /\ e.ev.kind = "SendMessage"
    /\ LET m == [e.ev.message EXCEPT !.id = AssignedId(e.ev.message)] IN
        /\ next_message_id' = NextMessageId(e.ev.message)
        /\ network' = [network EXCEPT !.accepted = Append(@, [id |-> m.id, source |-> m.source,
                                                              destination |-> m.destination])]
        /\ \/ /\ Lossy
              /\ stats' = [stats EXCEPT !.sent = @ + 1, !.dropped = @ + 1]
              /\ Handled(e, <<After(0, MessageDropped(m))>>)
              /\ UNCHANGED queue_times
           \/ \E d \in CalculateLatency(m, e.time) :
              /\ NoteArrival(m, d)
              /\ stats' = [stats EXCEPT !.sent = @ + 1]
              /\ Handled(e, <<After(d, MessageDelivered(m, "transport"))>>)
    /\ UNCHANGED <<model, message_handlers, carried>>

\* handle_message_delivered: counted, and forwarded if somebody listens.
HandleDelivered(e) ==
    /\ e.ev.kind = "MessageDelivered" /\ e.ev.at = "transport"
    /\ stats' = [stats EXCEPT !.delivered = @ + 1]
    /\ \/ /\ e.ev.message.destination \in message_handlers
          /\ Handled(e, <<After(0, MessageDelivered(e.ev.message, "handler"))>>)
       \/ /\ e.ev.message.destination \notin message_handlers
          /\ Handled(e, <<>>)
    /\ UNCHANGED <<model, next_message_id, message_handlers, queue_times, network, carried>>

\* handle_message_dropped: the loss was counted when the message was sent.
HandleDropped(e) ==
    /\ e.ev.kind = "MessageDropped"
    /\ Handled(e, <<>>)
    /\ UNCHANGED transport_vars

\* The event of a handler: m was handed over.  The handler schedules s.
HandedOver(e, s) ==
    /\ e.ev.kind = "MessageDelivered" /\ e.ev.at = "handler"
    /\ Handled(e, s)
    /\ network' = [network EXCEPT !.handed = Append(@,
           CHOOSE i \in 1 .. Len(network.accepted) : network.accepted[i].id = e.ev.message.id)]
    /\ UNCHANGED <<model, next_message_id, message_handlers, stats, queue_times, carried>>

\* What the transport does by itself.
TransportStep(e) == HandleSend(e) \/ HandleDelivered(e) \/ HandleDropped(e)

-----------------------------------------------------------------------------
\* The statistics account for every message that entered the network: it was
\* delivered, dropped, or is on its way, and nothing is counted twice.
StatsExact ==
    stats.sent + carried = stats.delivered + stats.dropped + Cardinality(InNetwork)

\* Message ids are unique in the network, whether the sender asked for one
\* (send_message) or left it to the transport (0).
MessageIdsUnique ==
    \A i, j \in 1 .. Len(network.accepted) :
        network.accepted[i].id = network.accepted[j].id => i = j

\* sim_transport.rs: every message is one message, in the books and by its id.
TransportExact == StatsExact /\ MessageIdsUnique

Promise == INSTANCE Network WITH
    Ordered <- Fifo,
    accepted <- [i \in DOMAIN network.accepted |->
                    [source |-> network.accepted[i].source,
                     destination |-> network.accepted[i].destination]],
    handed <- network.handed

\* The transport implements the network that the endpoints are promised.
ImplementsNetwork == Promise!Spec
=============================================================================
