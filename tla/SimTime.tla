------------------------------ MODULE SimTime ------------------------------
(***************************************************************************)
(* Simulated time (des-core/src/time.rs).  SimTime wraps a u64 count of    *)
(* nanoseconds; its arithmetic saturates.  MaxTime stands for u64::MAX, so *)
(* a small MaxTime makes TLC reach the saturation that the code reaches    *)
(* after 584 years of simulated time.                                      *)
(***************************************************************************)
EXTENDS Integers

CONSTANT MaxTime   \* u64::MAX

ASSUME MaxTimeAssumption == MaxTime \in Nat

Time == 0 .. MaxTime

\* Mutant: no saturation.
ClampNot(n) == n

\* A result that does not fit saturates at the largest value.
Clamp(n) == IF n \in Time THEN n ELSE MaxTime

\* impl Add<SimTime> for SimTime: saturating_add.
AddTime(t, d) == Clamp(t + d)

\* impl Mul<u64> for SimTime: saturating_mul.
MulTime(t, n) == Clamp(t * n)

\* duration_since / impl Sub<SimTime>: saturating_sub.
SubTime(t, u) == IF u <= t THEN t - u ELSE 0
=============================================================================
