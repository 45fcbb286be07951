----------------------------- MODULE TypedStream ----------------------------
(***************************************************************************)
(* The typed ends of a stream (the _prost functions of channel.rs and      *)
(* router.rs, stream.rs): a task forwards from one channel to another and  *)
(* encodes or decodes on the way.  Requests are encoded by the client and  *)
(* decoded for the handler, replies are encoded for it and decoded by the  *)
(* client; a stream has one such task on each side of each direction.  An  *)
(* application sends nothing after an error.                               *)
(***************************************************************************)
EXTENDS Integers, Sequences

CONSTANTS Ends,         \* of {"send requests", "hear requests", "send replies", "hear replies"}
          MaxTyped,     \* bound: items
          TypedCap      \* capacity of both channels (16 in the code)

TypedAssumption ==
    /\ Ends \subseteq {"send requests", "hear requests", "send replies", "hear replies"}
    /\ MaxTyped \in Nat /\ TypedCap \in Nat \ {0}

VARIABLES
    end,            \* which of the tasks this is
    offered,        \* items put into the source
    source,         \* the channel it reads: items, or TypedFailure
    source_state,   \* "open", "failed" after an Err, or "closed"
    task,           \* "reads", "holds" an item or error that it sends, or "stopped"
    holds,          \* that item
    typed,          \* the channel it fills
    typed_read,     \* the items read from it
    typed_end       \* what its reader has seen of the end: "no", "end", "error" or "dropped"

typed_vars == <<end, offered, source, source_state, task, holds, typed, typed_read, typed_end>>

TypedFailure == 0

TypedInit ==
    /\ end \in Ends
    /\ offered = 0 /\ source = <<>> /\ source_state = "open"
    /\ task = "reads" /\ holds = TypedFailure
    /\ typed = <<>> /\ typed_read = <<>> /\ typed_end = "no"

\* Sender::send of what the task reads from.
Offer ==
    /\ source_state = "open" /\ offered < MaxTyped /\ Len(source) < TypedCap /\ task # "stopped"
    /\ offered' = offered + 1
    /\ source' = Append(source, offered + 1)
    /\ UNCHANGED <<end, source_state, task, holds, typed, typed_read, typed_end>>

\* send_err.
OfferError ==
    /\ source_state = "open" /\ Len(source) < TypedCap /\ task # "stopped"
    /\ source' = Append(source, TypedFailure)
    /\ source_state' = "failed"
    /\ UNCHANGED <<end, offered, task, holds, typed, typed_read, typed_end>>

\* The senders are closed or dropped.
CloseSource ==
    /\ source_state \in {"open", "failed"}
    /\ source_state' = "closed"
    /\ UNCHANGED <<end, offered, source, task, holds, typed, typed_read, typed_end>>

\* Does the task decode, and may it fail at that?
Decodes == end \in {"hear requests", "hear replies"}

\* The loop takes an item: encoded it is to be sent, and so is what decoding it
\* gives, an item or an error.
TakeItem ==
    /\ task = "reads" /\ source # <<>> /\ Head(source) # TypedFailure
    /\ source' = Tail(source)
    /\ task' = "holds"
    /\ \/ holds' = Head(source)
       \/ Decodes /\ holds' = TypedFailure
    /\ UNCHANGED <<end, offered, source_state, typed, typed_read, typed_end>>

\* It takes an error: the stream ends with it, except that "there is no
\* request-stream error signaling on the wire yet".
TakeError ==
    /\ task = "reads" /\ source # <<>> /\ Head(source) = TypedFailure
    /\ source' = Tail(source)
    /\ holds' = TypedFailure
    /\ task' = IF end = "send requests" THEN "stopped" ELSE "holds"
    /\ UNCHANGED <<end, offered, source_state, typed, typed_read, typed_end>>

\* The send completes when there is room, or fails because nobody reads; the
\* client's encoder goes on all the same.
SendHeld ==
    /\ task = "holds"
    /\ \/ /\ typed_end # "dropped" /\ Len(typed) < TypedCap
          /\ typed' = Append(typed, holds)
          /\ task' = IF holds = TypedFailure THEN "stopped" ELSE "reads"
       \/ /\ typed_end = "dropped"
          /\ task' = IF end = "send requests" /\ holds # TypedFailure THEN "reads" ELSE "stopped"
          /\ UNCHANGED typed
    /\ UNCHANGED <<end, offered, source, source_state, holds, typed_read, typed_end>>

\* The source has ended: the other channel is closed.
Stop ==
    /\ task = "reads" /\ source = <<>> /\ source_state = "closed"
    /\ task' = "stopped"
    /\ UNCHANGED <<end, offered, source, source_state, holds, typed, typed_read, typed_end>>

\* DesStreaming::next of the reader: an item,
NextItem ==
    /\ typed_end = "no" /\ typed # <<>> /\ Head(typed) # TypedFailure
    /\ typed_read' = Append(typed_read, Head(typed))
    /\ typed' = Tail(typed)
    /\ UNCHANGED <<end, offered, source, source_state, task, holds, typed_end>>

\* an error, or the end.
NextEnd ==
    /\ typed_end = "no"
    /\ \/ typed # <<>> /\ Head(typed) = TypedFailure /\ typed_end' = "error"
       \/ typed = <<>> /\ task = "stopped" /\ typed_end' = "end"
    /\ UNCHANGED <<end, offered, source, source_state, task, holds, typed, typed_read>>

\* The reader is dropped.
DropTyped ==
    /\ typed_end = "no"
    /\ typed_end' = "dropped" /\ typed' = <<>>
    /\ UNCHANGED <<end, offered, source, source_state, task, holds, typed_read>>

TypedNext ==
    \/ Offer \/ OfferError \/ CloseSource \/ TakeItem \/ TakeError \/ SendHeld \/ Stop
    \/ NextItem \/ NextEnd \/ DropTyped

-----------------------------------------------------------------------------
\* channel.rs, router.rs: the reader of a typed end sees a clean end only when
\* everything that was offered was read.
TypedEndIsHonest ==
    typed_end = "end" => Len(typed_read) = offered

\* channel.rs, router.rs: a typed end is a pipe.
Forwarded == INSTANCE StreamPipe WITH
    sent <- offered, received <- typed_read, ended <- typed_end # "no"
ImplementsTypedPipe == Forwarded!Spec
=============================================================================
