------------------------------ MODULE RateLimit -----------------------------
(***************************************************************************)
(* The token bucket of des-tower (limit/rate/mod.rs).                      *)
(*                                                                         *)
(* Tokens are counted in shares: a token has SharesPerToken of them, and a *)
(* tick brings Rate, exactly (the code adds f64 numbers).  The clones of a *)
(* limiter share the bucket.  A call within an event sees the simulation's *)
(* clock; outside of one, scheduler::current_time() is None and the code   *)
(* takes time zero.                                                        *)
(***************************************************************************)
EXTENDS Integers, Functions

CONSTANTS SharesPerToken, Rate,
          Burst,        \* in tokens
          CallsOutside, \* whether calls are made outside of events, too
          MaxTime       \* bound on the clock

RateAssumption ==
    /\ SharesPerToken \in Nat \ {0} /\ Rate \in Nat /\ Burst \in Nat
    /\ CallsOutside \in BOOLEAN /\ MaxTime \in Nat

VARIABLES
    now,
    tokens,         \* in shares
    last_refill,
    admitted        \* history: calls that got a token, per time

vars == <<now, tokens, last_refill, admitted>>

TypeOK ==
    /\ now \in 0 .. MaxTime /\ last_refill \in 0 .. MaxTime
    /\ tokens \in 0 .. Burst * SharesPerToken
    /\ admitted \in [0 .. MaxTime -> Nat]

Init ==
    /\ now = 0 /\ last_refill = 0
    /\ tokens = Burst * SharesPerToken
    /\ admitted = [i \in 0 .. MaxTime |-> 0]

\* Mutant: the bucket overflows.
RefilledAt(time) == tokens + (IF time > last_refill THEN time - last_refill ELSE 0) * Rate

\* The bucket at current_time: what elapsed since the last refill is added, up
\* to the burst (duration_since is zero when time seems to go back).
Refilled(time) ==
    LET elapsed == IF time > last_refill THEN time - last_refill ELSE 0
        full == Burst * SharesPerToken
    IN IF tokens + elapsed * Rate > full THEN full ELSE tokens + elapsed * Rate

\* try_acquire_token.
TryAcquireToken(time) ==
    /\ last_refill' = time
    /\ \/ /\ Refilled(time) >= SharesPerToken
          /\ tokens' = Refilled(time) - SharesPerToken
          /\ admitted' = [admitted EXCEPT ![now] = @ + 1]
       \/ /\ Refilled(time) < SharesPerToken
          /\ tokens' = Refilled(time)
          /\ UNCHANGED admitted

\* call: the inner service is called with a token; without one the future
\* returns Overloaded.
Call(inside) ==
    /\ inside \/ CallsOutside
    /\ TryAcquireToken(IF inside THEN now ELSE 0)
    /\ UNCHANGED now

Tick == now < MaxTime /\ now' = now + 1 /\ UNCHANGED <<tokens, last_refill, admitted>>

Next == Tick \/ \E inside \in BOOLEAN : Call(inside)

Spec == Init /\ [][Next]_vars

-----------------------------------------------------------------------------
\* In every interval of time the calls admitted are at most the burst plus what
\* the rate brings in that time.
AdmittedWithinRate ==
    \A a \in 0 .. now : \A b \in a .. now :
        SharesPerToken * SumFunctionOnSet(admitted, a .. b) <= Burst * SharesPerToken + Rate * (b - a)
=============================================================================
