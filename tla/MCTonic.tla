------------------------------ MODULE MCTonic -------------------------------
(***************************************************************************)
(* The network of a simulation and what runs over it, for TLC: programs    *)
(* that use the transport or the registry directly, unary gRPC calls, HTTP *)
(* requests, or a stream, as the initial state says, and the typed ends    *)
(* of streams and the bytes of messages on their own.                      *)
(***************************************************************************)
EXTENDS Calls, TypedStream, Wire

CONSTANTS Modes, MaxItems, Cap, MaxReorder, HasTimeout     \* RpcStream

VARIABLES mode, c2s, s2c, request, client, inbox, inbox_open, expiring, response, client_end, got,
          client_cut, server, server_inbox, server_inbox_open, handler, replied, heard, heard_end,
          server_cut

stream_vars == <<mode, c2s, s2c, request, client, inbox, inbox_open, expiring, response, client_end,
                 got, client_cut, server, server_inbox, server_inbox_open, handler, replied, heard,
                 heard_end, server_cut>>

Stream == INSTANCE RpcStream

ASSUME TonicAssumption ==
    /\ TransportAssumption /\ RegistryAssumption /\ CallsAssumption
    /\ Stream!StreamAssumption /\ TypedAssumption /\ WireAssumption

\* Bytes that occur: none, and two, which are no text in a payload.
MCTexts == {<<>>, <<65, 1>>}
MCPayloads == {<<>>, <<255, 1>>}
MCMetadata == {<<>>, << << <<65, 1>>, <<>> >> >>, << << <<>>, <<65, 1>> >>, << <<65, 1>>, <<>> >> >>}

alone_vars == <<typed_vars, wire_vars>>

\* Latencies vary where messages meet; calls go one way and back.  Who is not
\* looked at is in a state of its choice.
MCInit ==
    /\ Init /\ Stream!Init /\ TypedInit /\ WireInit
    /\ stack \in {"grpc", "http", "stream"} => model = "simple"
    /\ stack # "stream" => mode = "Bidi"
    /\ stack # "typed" => end = "send requests"
    /\ stack # "wire" => message = [form |-> "request", fields |-> << <<>>, <<>>, <<>> >>]
    /\ stack \in {"typed", "wire"} => model = "simple"

CallStep == Next /\ UNCHANGED <<stream_vars, alone_vars>>
StreamStep == stack = "stream" /\ Stream!Next /\ UNCHANGED <<vars, alone_vars>>
TypedStep == stack = "typed" /\ TypedNext /\ UNCHANGED <<vars, stream_vars, wire_vars>>
WireStep == stack = "wire" /\ Truncate /\ UNCHANGED <<vars, stream_vars, typed_vars>>
MCNext == CallStep \/ StreamStep \/ TypedStep \/ WireStep

MCSpec ==
    /\ MCInit /\ [][MCNext]_<<vars, stream_vars, alone_vars>>
    /\ WF_<<vars, stream_vars>>(IF stack = "stream"
                                THEN Stream!Runtime /\ UNCHANGED <<vars, alone_vars>>
                                ELSE Runtime /\ UNCHANGED <<stream_vars, alone_vars>>)

-----------------------------------------------------------------------------
\* channel.rs, client.rs, server.rs, router.rs: a call ends with its own answer and
\* leaves no pending entry behind, unless it was dropped or is a gRPC call that timed
\* out (Calls); an end of a stream that looks clean is one, unless a full channel or
\* reorder buffer cut the stream off, client_cut and server_cut (RpcStream, TypedStream).
AnswersHonest == CallsExact /\ Stream!EndIsHonest /\ TypedEndIsHonest

\* channel.rs, server.rs, router.rs: the directions of a stream are pipes, and
\* its typed ends are (RpcStream, TypedStream).
ImplementsPipes == Stream!ImplementsPipes /\ ImplementsTypedPipe

\* channel.rs, client.rs: a call or a stream with a timeout comes to its end,
\* and a call in time (Calls, RpcStream).
EveryCallReturns == CallsReturn /\ (stack = "stream" => Stream!StreamsEnd)

\* doc/ai/des_tonic_streaming_design.md: frames that are early wait (RpcStream).
BuffersDrain == Stream!BuffersDrain
=============================================================================
