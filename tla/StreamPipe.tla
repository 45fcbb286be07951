----------------------------- MODULE StreamPipe -----------------------------
(***************************************************************************)
(* What one direction of a stream promises to the applications at its      *)
(* ends ("per-stream in-order delivery as observed by the application",    *)
(* doc/ai/des_tonic_streaming_design.md): the items that are read are the  *)
(* items that were sent, in order and without gaps, and nothing is read    *)
(* after the end.                                                          *)
(***************************************************************************)
EXTENDS Naturals, Sequences

VARIABLES sent,       \* how many items were sent; item i is the number i
          received,   \* the items that were read
          ended       \* the reader has seen the end

vars == <<sent, received, ended>>

Init == sent = 0 /\ received = <<>> /\ ended = FALSE

Put == sent' = sent + 1 /\ UNCHANGED <<received, ended>>

Get ==
    /\ ~ended /\ Len(received) < sent
    /\ received' = Append(received, Len(received) + 1)
    /\ UNCHANGED <<sent, ended>>

\* The last item and the end in one step, where a single item is expected.
GetLast ==
    /\ ~ended /\ Len(received) < sent
    /\ received' = Append(received, Len(received) + 1)
    /\ ended' = TRUE
    /\ UNCHANGED sent

End == ~ended /\ ended' = TRUE /\ UNCHANGED <<sent, received>>

Next == Put \/ Get \/ GetLast \/ End

Spec == Init /\ [][Next]_vars
=============================================================================
