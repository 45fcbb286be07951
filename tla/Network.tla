------------------------------ MODULE Network -------------------------------
(***************************************************************************)
(* What the simulated transport promises to the endpoints: a message that  *)
(* was accepted is handed to its destination at most once, or is lost;     *)
(* and, when Ordered, a message is never handed over after one that was    *)
(* accepted later on the same pair of endpoints ("to ensure FIFO           *)
(* semantics", network_model.rs).                                          *)
(***************************************************************************)
EXTENDS Naturals, Sequences

CONSTANTS Endpoints,
          Ordered   \* TRUE: the messages of a pair of endpoints are kept in order

VARIABLES
    accepted,   \* the messages that entered the network, in order: [source, destination]
    handed      \* the positions in accepted of the messages handed over, in order

vars == <<accepted, handed>>

Init == accepted = <<>> /\ handed = <<>>

Accept(s, d) ==
    /\ accepted' = Append(accepted, [source |-> s, destination |-> d])
    /\ UNCHANGED handed

SamePair(i, j) ==
    /\ accepted[i].source = accepted[j].source
    /\ accepted[i].destination = accepted[j].destination

HandOver(i) ==
    /\ \A k \in 1 .. Len(handed) :
        /\ handed[k] # i
        /\ Ordered /\ SamePair(handed[k], i) => handed[k] < i
    /\ handed' = Append(handed, i)
    /\ UNCHANGED accepted

Next ==
    \/ \E s, d \in Endpoints : Accept(s, d)
    \/ \E i \in 1 .. Len(accepted) : HandOver(i)

Spec == Init /\ [][Next]_vars
=============================================================================
