---------------------------- MODULE SumTheorems -----------------------------
(***************************************************************************)
(* What the proofs need to know about SumFunctionOnSet, the sum of a       *)
(* function over a finite set: it may be taken apart at any element.  The  *)
(* definition folds over the set in an order fixed by CHOOSE, as a         *)
(* recursive function on its subsets; that this function exists, and that  *)
(* the order does not matter, is proved by looking at a counterexample of  *)
(* least cardinality.                                                      *)
(*                                                                         *)
(* With it, facts that several components need: induction up to a bound    *)
(* (UpTo), a sequence without one of its places (RemoveIth), a counter     *)
(* that goes round (NextTurn), the places of pairs laid end to end         *)
(* (Halves, OddOrEven) and several sequences put one behind the other      *)
(* (FiveInARow, EightInARow).                                              *)
(***************************************************************************)
EXTENDS Integers, Functions, FiniteSetTheorems, SequenceTheorems, TLAPS

\* A non-empty set of naturals has a least element.
LEMMA LeastNatural ==
    ASSUME NEW S, S \subseteq Nat, S # {}
    PROVE  \E x \in S : \A y \in S : x <= y
<1>1. PICK R : IsWellFoundedOn(R, Nat) /\ \A x, y \in Nat : y < x => <<y, x>> \in R
  <2> DEFINE L == OpToRel(<, Nat)
  <2>1. IsWellFoundedOn(L, Nat)
    BY NatLessThanWellFounded
  <2>2. \A x, y \in Nat : y < x => <<y, x>> \in L
    BY DEF OpToRel
  <2> HIDE DEF L
  <2> QED
    BY <2>1, <2>2
<1>2. \E x \in S : \A y \in S : ~ (<<y, x>> \in R)
  BY <1>1, WFMin
<1>3. PICK x \in S : \A y \in S : ~ (<<y, x>> \in R)
  BY <1>2
<1>4. ASSUME NEW y \in S
      PROVE  x <= y
  <2>1. x \in Nat /\ y \in Nat
    OBVIOUS
  <2>2. ~(y < x)
    BY <1>1, <1>3, <2>1
  <2> QED
    BY <2>1, <2>2
<1> QED
  BY <1>4

\* Induction up to m.
LEMMA UpTo ==
    ASSUME NEW n \in Nat, NEW m \in Nat, n <= m, NEW B, n \in B,
           \A k \in n .. m - 1 : k \in B => k + 1 \in B
    PROVE  \A k \in n .. m : k \in B
<1> DEFINE Missed == {k \in n .. m : k \notin B}
<1>1. SUFFICES ASSUME Missed # {} PROVE FALSE
  OBVIOUS
<1>2. Missed \subseteq Nat
  OBVIOUS
<1> HIDE DEF Missed
<1>3. PICK k \in Missed : \A j \in Missed : k <= j
  BY <1>1, <1>2, LeastNatural
<1>4. k \in n .. m /\ k \notin B /\ k # n
  BY <1>3 DEF Missed
<1>5. k - 1 \in n .. m - 1 /\ k - 1 \in n .. m /\ ~(k <= k - 1) /\ k - 1 + 1 = k
  BY <1>4
<1>6. k - 1 \in B
  BY <1>3, <1>5 DEF Missed
<1> QED
  BY <1>4, <1>5, <1>6

\* A non-empty family of finite sets has a member of least cardinality.
LEMMA SmallestSet ==
    ASSUME NEW F, F # {}, \A T \in F : IsFiniteSet(T)
    PROVE  \E T \in F : \A U \in F : Cardinality(T) <= Cardinality(U)
<1> DEFINE N == {Cardinality(T) : T \in F}
<1>1. N \subseteq Nat /\ N # {}
  BY FS_CardinalityType
<1> HIDE DEF N
<1>2. PICK n \in N : \A m \in N : n <= m
  BY <1>1, LeastNatural
<1> QED
  BY <1>2 DEF N

\* A set without one of its elements is finite and smaller.
LEMMA Shrink ==
    ASSUME NEW T, IsFiniteSet(T), NEW x \in T
    PROVE  /\ IsFiniteSet(T \ {x})
           /\ ~(Cardinality(T) <= Cardinality(T \ {x}))
<1>1. /\ IsFiniteSet(T \ {x})
      /\ Cardinality(T \ {x}) = Cardinality(T) - 1
  BY FS_RemoveElement
<1>2. Cardinality(T) \in Nat
  BY FS_CardinalityType
<1> QED
  BY <1>1, <1>2

----------------------------------------------------------------------------
(* The fold. *)

Pick(s) == CHOOSE x \in s : TRUE

\* What the fold defines for s, given the function g that it defines.
Folded(f, g, s) == IF s = {} THEN 0 ELSE f[Pick(s)] + g[s \ {Pick(s)}]

\* g is the function that the fold of f over S defines.
Folds(f, S, g) == g = [s \in SUBSET S |-> Folded(f, g, s)]

Fold(f, S) == CHOOSE g : Folds(f, S, g)

\* The element picked from a set that has one is in it.
LEMMA PickIn == ASSUME NEW s, s # {} PROVE Pick(s) \in s
BY DEF Pick

\* SumFunctionOnSet is that fold.
LEMMA SumIsFold ==
    ASSUME NEW f, NEW S
    PROVE  SumFunctionOnSet(f, S) = Fold(f, S)[S]
BY DEF SumFunctionOnSet, FoldFunctionOnSet, MapThenFoldSet, Fold, Folds, Folded, Pick

\* Two such functions agree where both are defined, on natural numbers.
LEMMA FoldUnique ==
    ASSUME NEW f, NEW S, NEW U, NEW g, NEW h, Folds(f, S, g), Folds(f, U, h),
           NEW s, s \subseteq S, s \subseteq U, IsFiniteSet(s), \A x \in s : f[x] \in Nat
    PROVE  g[s] = h[s] /\ g[s] \in Nat
<1> DEFINE Bad == {u \in SUBSET s : ~(g[u] = h[u] /\ g[u] \in Nat)}
<1>1. SUFFICES ASSUME Bad # {}
               PROVE  FALSE
  OBVIOUS
<1>2. \A u \in Bad : IsFiniteSet(u)
  BY FS_Subset
<1>3. PICK u \in Bad : \A v \in Bad : Cardinality(u) <= Cardinality(v)
  <2> HIDE DEF Bad
  <2> QED
    BY <1>1, <1>2, SmallestSet
<1>4. g[u] = Folded(f, g, u) /\ h[u] = Folded(f, h, u)
  BY DEF Folds
<1>5. u # {}
  BY <1>4 DEF Folded
<1>6. Pick(u) \in u /\ f[Pick(u)] \in Nat
  BY <1>5, PickIn
<1>7. u \ {Pick(u)} \notin Bad
  BY <1>2, <1>3, <1>6, Shrink
<1>8. g[u \ {Pick(u)}] = h[u \ {Pick(u)}] /\ g[u \ {Pick(u)}] \in Nat
  BY <1>7
<1> QED
  BY <1>4, <1>5, <1>6, <1>8 DEF Folded

\* There is such a function for every finite set.
LEMMA FoldExists ==
    ASSUME NEW f, NEW S, IsFiniteSet(S), \A x \in S : f[x] \in Nat
    PROVE  Folds(f, S, Fold(f, S))
<1> DEFINE Bad == {T \in SUBSET S : ~Folds(f, T, Fold(f, T))}
<1>1. SUFFICES ASSUME Bad # {}
               PROVE  FALSE
  OBVIOUS
<1>2. \A T \in Bad : IsFiniteSet(T)
  BY FS_Subset
<1>3. PICK T \in Bad : \A U \in Bad : Cardinality(T) <= Cardinality(U)
  <2> HIDE DEF Bad
  <2> QED
    BY <1>1, <1>2, SmallestSet
<1>4. \A g : ~Folds(f, T, g)
  BY DEF Fold
<1> DEFINE Rest(s) == s \ {Pick(s)}
           g == [s \in SUBSET T |-> Folded(f, Fold(f, Rest(s)), s)]
<1>5. ASSUME NEW s \in SUBSET T, s # T
      PROVE  Folds(f, s, Fold(f, s))
  <2>1. IsFiniteSet(T) /\ IsFiniteSet(s) /\ Cardinality(s) \in Nat /\ Cardinality(T) \in Nat
    BY <1>2, FS_Subset, FS_CardinalityType
  <2>2. Cardinality(s) < Cardinality(T)
    BY <1>5, <2>1, FS_Subset
  <2>3. s \notin Bad
    BY <1>3, <2>1, <2>2
  <2> QED
    BY <2>3
<1>6. ASSUME NEW s \in SUBSET T
      PROVE  g[s] = Folded(f, g, s)
  <2>1. CASE s = {}
    BY <2>1 DEF Folded
  <2>2. CASE s # {}
    <3> DEFINE u == Rest(s)
    <3>1. Pick(s) \in s /\ u \in SUBSET T /\ u # T /\ Pick(s) \notin u
      BY <2>2, PickIn
    <3>2. Folds(f, u, Fold(f, u))
      BY <1>5, <3>1
    <3>3. Fold(f, u)[u] = Folded(f, Fold(f, u), u)
      BY <3>2 DEF Folds
    <3>4. g[u] = Folded(f, Fold(f, Rest(u)), u)
      BY <3>1
    <3>5. g[u] = Fold(f, u)[u]
      <4>1. CASE u = {}
        BY <3>3, <3>4, <4>1 DEF Folded
      <4>2. CASE u # {}
        <5> DEFINE v == Rest(u)
        <5>1. Pick(u) \in u /\ v \in SUBSET u /\ v \in SUBSET T /\ v # T
          BY <3>1, <4>2, PickIn
        <5>2. Folds(f, v, Fold(f, v))
          BY <1>5, <5>1
        <5>3. IsFiniteSet(v) /\ \A x \in v : f[x] \in Nat
          BY <1>2, <5>1, FS_Subset
        <5>4. Fold(f, v)[v] = Fold(f, u)[v]
          BY <3>2, <5>1, <5>2, <5>3, FoldUnique
        <5> QED
          BY <3>3, <3>4, <4>2, <5>4 DEF Folded
      <4> QED
        BY <4>1, <4>2
    <3>6. g[s] = f[Pick(s)] + Fold(f, u)[u]
      BY <2>2 DEF Folded
    <3> QED
      BY <2>2, <3>5, <3>6 DEF Folded
  <2> QED
    BY <2>1, <2>2
<1>7. Folds(f, T, g)
  BY <1>6 DEF Folds
<1> QED
  BY <1>4, <1>7

----------------------------------------------------------------------------
(* The sum. *)

\* The sum over no element is zero.
LEMMA SumEmpty == ASSUME NEW f PROVE SumFunctionOnSet(f, {}) = 0
<1>1. Folds(f, {}, Fold(f, {}))
  BY FoldExists, FS_EmptySet
<1> QED
  BY <1>1, SumIsFold DEF Folds, Folded

\* The sum of naturals is one.
LEMMA SumType ==
    ASSUME NEW f, NEW S, IsFiniteSet(S), \A x \in S : f[x] \in Nat
    PROVE  SumFunctionOnSet(f, S) \in Nat
BY FoldExists, FoldUnique, SumIsFold

\* The fold takes the sum apart at the element it picks,
LEMMA SumPick ==
    ASSUME NEW f, NEW S, IsFiniteSet(S), \A x \in S : f[x] \in Nat, S # {}
    PROVE  SumFunctionOnSet(f, S) = f[Pick(S)] + SumFunctionOnSet(f, S \ {Pick(S)})
<1> DEFINE T == S \ {Pick(S)}
<1>1. Folds(f, S, Fold(f, S))
  BY FoldExists
<1>2. IsFiniteSet(T) /\ \A x \in T : f[x] \in Nat
  BY FS_Subset
<1>3. Folds(f, T, Fold(f, T))
  BY <1>2, FoldExists
<1>4. Fold(f, S)[T] = Fold(f, T)[T]
  BY <1>1, <1>2, <1>3, FoldUnique
<1>5. Fold(f, S)[S] = f[Pick(S)] + Fold(f, S)[T]
  BY <1>1 DEF Folds, Folded
<1> QED
  BY <1>4, <1>5, SumIsFold

\* and so at any other.
LEMMA SumRemove ==
    ASSUME NEW f, NEW S, IsFiniteSet(S), \A x \in S : f[x] \in Nat, NEW e \in S
    PROVE  SumFunctionOnSet(f, S) = f[e] + SumFunctionOnSet(f, S \ {e})
<1> DEFINE Sum(s) == SumFunctionOnSet(f, s)
           Bad == {T \in SUBSET S : \E x \in T : Sum(T) # f[x] + Sum(T \ {x})}
<1>1. SUFFICES ASSUME Bad # {}
               PROVE  FALSE
  OBVIOUS
<1>2. \A T \in Bad : IsFiniteSet(T)
  BY FS_Subset
<1>3. PICK T \in Bad : \A U \in Bad : Cardinality(T) <= Cardinality(U)
  <2> HIDE DEF Bad
  <2> QED
    BY <1>1, <1>2, SmallestSet
<1>4. PICK x \in T : Sum(T) # f[x] + Sum(T \ {x})
  OBVIOUS
<1> DEFINE c == Pick(T)
<1>5. c \in T /\ IsFiniteSet(T) /\ \A y \in T : f[y] \in Nat
  BY <1>2, PickIn
<1>6. Sum(T) = f[c] + Sum(T \ {c})
  BY <1>5, SumPick
<1>7. x # c
  BY <1>4, <1>6
<1>8. /\ IsFiniteSet(T \ {c}) /\ T \ {c} \notin Bad
      /\ IsFiniteSet(T \ {x}) /\ T \ {x} \notin Bad
  BY <1>2, <1>3, <1>5, Shrink
<1>9. /\ Sum(T \ {c}) = f[x] + Sum((T \ {c}) \ {x})
      /\ Sum(T \ {x}) = f[c] + Sum((T \ {x}) \ {c})
  BY <1>5, <1>7, <1>8
<1>10. (T \ {c}) \ {x} = (T \ {x}) \ {c}
  OBVIOUS
<1>11. Sum((T \ {c}) \ {x}) \in Nat
  <2>1. IsFiniteSet((T \ {c}) \ {x})
    BY <1>5, FS_Subset
  <2> QED
    BY <1>5, <2>1, SumType
<1> HIDE DEF Sum
<1>12. f[x] \in Nat /\ f[c] \in Nat
  BY <1>5
<1> QED
  BY <1>4, <1>6, <1>9, <1>10, <1>11, <1>12

\* A new element adds its value.
LEMMA SumAdd ==
    ASSUME NEW f, NEW S, IsFiniteSet(S), \A x \in S : f[x] \in Nat,
           NEW e, e \notin S, f[e] \in Nat
    PROVE  SumFunctionOnSet(f, S \cup {e}) = f[e] + SumFunctionOnSet(f, S)
<1>1. IsFiniteSet(S \cup {e}) /\ (S \cup {e}) \ {e} = S
  BY FS_AddElement
<1> QED
  BY <1>1, SumRemove

\* The sum over one element is its value.
LEMMA SumSingle ==
    ASSUME NEW f, NEW e, f[e] \in Nat
    PROVE  SumFunctionOnSet(f, {e}) = f[e]
<1>1. SumFunctionOnSet(f, {} \cup {e}) = f[e] + SumFunctionOnSet(f, {})
  BY FS_EmptySet, SumAdd
<1> QED
  BY <1>1, SumEmpty

\* Functions that agree on the set have the same sum.
LEMMA SumSame ==
    ASSUME NEW f, NEW g, NEW S, IsFiniteSet(S), \A x \in S : f[x] \in Nat /\ f[x] = g[x]
    PROVE  SumFunctionOnSet(f, S) = SumFunctionOnSet(g, S)
<1> DEFINE Bad == {T \in SUBSET S : SumFunctionOnSet(f, T) # SumFunctionOnSet(g, T)}
<1>1. SUFFICES ASSUME Bad # {}
               PROVE  FALSE
  OBVIOUS
<1>2. \A T \in Bad : IsFiniteSet(T)
  BY FS_Subset
<1>3. PICK T \in Bad : \A U \in Bad : Cardinality(T) <= Cardinality(U)
  <2> HIDE DEF Bad
  <2> QED
    BY <1>1, <1>2, SmallestSet
<1>4. T # {}
  BY SumEmpty
<1>5. PICK x \in T : TRUE
  BY <1>4
<1>6. T \ {x} \notin Bad
  BY <1>2, <1>3, Shrink
<1>7. /\ SumFunctionOnSet(f, T) = f[x] + SumFunctionOnSet(f, T \ {x})
      /\ SumFunctionOnSet(g, T) = g[x] + SumFunctionOnSet(g, T \ {x})
  BY <1>2, SumRemove
<1> QED
  BY <1>6, <1>7

\* A function that differs at one element differs by as much in the sum.
LEMMA SumChange ==
    ASSUME NEW f, NEW g, NEW S, IsFiniteSet(S), NEW e \in S,
           \A x \in S : f[x] \in Nat /\ g[x] \in Nat,
           \A x \in S \ {e} : f[x] = g[x]
    PROVE  SumFunctionOnSet(g, S) + f[e] = SumFunctionOnSet(f, S) + g[e]
<1>1. IsFiniteSet(S \ {e})
  BY FS_Subset
<1>2. SumFunctionOnSet(f, S \ {e}) = SumFunctionOnSet(g, S \ {e})
  BY <1>1, SumSame
<1>3. SumFunctionOnSet(f, S \ {e}) \in Nat
  BY <1>1, SumType
<1>4. /\ SumFunctionOnSet(f, S) = f[e] + SumFunctionOnSet(f, S \ {e})
      /\ SumFunctionOnSet(g, S) = g[e] + SumFunctionOnSet(g, S \ {e})
  BY SumRemove
<1> QED
  BY <1>2, <1>3, <1>4

\* What is not less everywhere is not less in the sum.
LEMMA SumMonotone ==
    ASSUME NEW f, NEW g, NEW S, IsFiniteSet(S),
           \A x \in S : f[x] \in Nat /\ g[x] \in Nat /\ f[x] <= g[x]
    PROVE  SumFunctionOnSet(f, S) <= SumFunctionOnSet(g, S)
<1> DEFINE Bad == {T \in SUBSET S : ~(SumFunctionOnSet(f, T) <= SumFunctionOnSet(g, T))}
<1> SUFFICES ASSUME Bad # {}
             PROVE  FALSE
  OBVIOUS
<1>1. \A T \in Bad : IsFiniteSet(T)
  BY FS_Subset
<1>2. PICK T \in Bad : \A U \in Bad : Cardinality(T) <= Cardinality(U)
  <2> HIDE DEF Bad
  <2> QED
    BY <1>1, SmallestSet
<1>3. T \in SUBSET S /\ IsFiniteSet(T) /\ T # {}
  <2>1. SumFunctionOnSet(f, {}) = 0 /\ SumFunctionOnSet(g, {}) = 0
    BY SumEmpty
  <2> QED
    BY <1>1, <2>1
<1>4. PICK x \in T : TRUE
  BY <1>3
<1>5. IsFiniteSet(T \ {x}) /\ T \ {x} \notin Bad
  BY <1>2, <1>3, Shrink
<1>6. SumFunctionOnSet(f, T \ {x}) <= SumFunctionOnSet(g, T \ {x})
  BY <1>3, <1>5
<1>7. /\ SumFunctionOnSet(f, T) = f[x] + SumFunctionOnSet(f, T \ {x})
      /\ SumFunctionOnSet(g, T) = g[x] + SumFunctionOnSet(g, T \ {x})
  BY <1>3, <1>4, SumRemove
<1>8. SumFunctionOnSet(f, T \ {x}) \in Nat /\ SumFunctionOnSet(g, T \ {x}) \in Nat
  BY <1>3, <1>5, SumType
<1>9. f[x] \in Nat /\ g[x] \in Nat /\ f[x] <= g[x]
  BY <1>3, <1>4
<1>10. SumFunctionOnSet(f, T) <= SumFunctionOnSet(g, T)
  BY <1>6, <1>7, <1>8, <1>9
<1> QED
  BY <1>2, <1>10

\* Elements of value zero do not count.
LEMMA SumSupport ==
    ASSUME NEW f, NEW S, IsFiniteSet(S), \A x \in S : f[x] \in Nat,
           NEW R \in SUBSET S, \A x \in S \ R : f[x] = 0
    PROVE  SumFunctionOnSet(f, S) = SumFunctionOnSet(f, R)
<1> DEFINE Bad == {T \in SUBSET S : R \subseteq T /\ SumFunctionOnSet(f, T) # SumFunctionOnSet(f, R)}
<1> SUFFICES ASSUME Bad # {}
             PROVE  FALSE
  OBVIOUS
<1>1. \A T \in Bad : IsFiniteSet(T)
  BY FS_Subset
<1>2. PICK T \in Bad : \A U \in Bad : Cardinality(T) <= Cardinality(U)
  <2> HIDE DEF Bad
  <2> QED
    BY <1>1, SmallestSet
<1>3. T \in SUBSET S /\ IsFiniteSet(T) /\ R \subseteq T /\ T # R
  BY <1>1
<1>4. PICK x \in T : x \notin R
  BY <1>3
<1>5. IsFiniteSet(T \ {x}) /\ T \ {x} \notin Bad
  BY <1>2, <1>3, Shrink
<1>6. SumFunctionOnSet(f, T \ {x}) = SumFunctionOnSet(f, R)
  BY <1>3, <1>4, <1>5
<1>7. SumFunctionOnSet(f, T) = f[x] + SumFunctionOnSet(f, T \ {x})
  BY <1>3, <1>4, SumRemove
<1>8. SumFunctionOnSet(f, T \ {x}) \in Nat /\ f[x] = 0
  BY <1>3, <1>4, <1>5, SumType
<1>9. SumFunctionOnSet(f, T) = SumFunctionOnSet(f, R)
  BY <1>6, <1>7, <1>8
<1> QED
  BY <1>2, <1>9

\* The sum is no less than what one or two elements add to it.
LEMMA SumMembers ==
    ASSUME NEW f, NEW S, IsFiniteSet(S), \A x \in S : f[x] \in Nat, NEW a \in S
    PROVE  /\ f[a] <= SumFunctionOnSet(f, S)
           /\ \A b \in S \ {a} : f[a] + f[b] <= SumFunctionOnSet(f, S)
<1>1. IsFiniteSet(S \ {a}) /\ SumFunctionOnSet(f, S) = f[a] + SumFunctionOnSet(f, S \ {a})
  BY Shrink, SumRemove
<1>2. SumFunctionOnSet(f, S \ {a}) \in Nat
  BY <1>1, SumType
<1>3. f[a] <= SumFunctionOnSet(f, S)
  BY <1>1, <1>2
<1>4. ASSUME NEW b \in S \ {a}
      PROVE  f[a] + f[b] <= SumFunctionOnSet(f, S)
  <2>1. IsFiniteSet((S \ {a}) \ {b})
        /\ SumFunctionOnSet(f, S \ {a}) = f[b] + SumFunctionOnSet(f, (S \ {a}) \ {b})
    BY <1>1, Shrink, SumRemove
  <2>2. SumFunctionOnSet(f, (S \ {a}) \ {b}) \in Nat
    BY <2>1, SumType
  <2>3. f[a] \in Nat /\ f[b] \in Nat
    OBVIOUS
  <2> QED
    BY <1>1, <2>1, <2>2, <2>3
<1> QED
  BY <1>3, <1>4

\* Sums over the first numbers: the last one added.
LEMMA SumUpTo ==
    ASSUME NEW d, NEW m \in Nat, \A i \in 1 .. m : d[i] \in Nat
    PROVE  /\ SumFunctionOnSet(d, 1 .. 0) = 0
           /\ \A k \in 0 .. m : SumFunctionOnSet(d, 1 .. k) \in Nat
           /\ \A k \in 0 .. m - 1 :
                 SumFunctionOnSet(d, 1 .. k + 1) = SumFunctionOnSet(d, 1 .. k) + d[k + 1]
<1>1. 1 .. 0 = {}
  OBVIOUS
<1>2. SumFunctionOnSet(d, 1 .. 0) = 0
  BY <1>1, SumEmpty
<1>3. ASSUME NEW k \in 0 .. m
      PROVE  SumFunctionOnSet(d, 1 .. k) \in Nat
  <2>1. IsFiniteSet(1 .. k) /\ \A i \in 1 .. k : d[i] \in Nat
    BY FS_Interval
  <2> QED
    BY <2>1, SumType
<1>4. ASSUME NEW k \in 0 .. m - 1
      PROVE  SumFunctionOnSet(d, 1 .. k + 1) = SumFunctionOnSet(d, 1 .. k) + d[k + 1]
  <2> DEFINE Below == 1 .. k
             Upto == 1 .. k + 1
  <2>1. IsFiniteSet(Below) /\ (\A i \in Below : d[i] \in Nat) /\ k + 1 \notin Below
        /\ d[k + 1] \in Nat /\ Upto = Below \cup {k + 1}
    BY FS_Interval
  <2> HIDE DEF Below, Upto
  <2>2. SumFunctionOnSet(d, Upto) = d[k + 1] + SumFunctionOnSet(d, Below)
    BY <2>1, SumAdd
  <2>3. SumFunctionOnSet(d, Below) \in Nat
    BY <2>1, SumType
  <2>4. SumFunctionOnSet(d, Upto) = SumFunctionOnSet(d, Below) + d[k + 1]
    BY <2>1, <2>2, <2>3
  <2> QED
    BY <2>4 DEF Below, Upto
<1> QED
  BY <1>2, <1>3, <1>4

\* f grows to g on S by d[i] at s[i], for i up to m, and nowhere else.
Grows(f, g, S, m, s, d) ==
    /\ \A x \in S : f[x] \in Nat /\ g[x] \in Nat
    /\ \A i \in 1 .. m : s[i] \in S /\ d[i] \in Nat /\ g[s[i]] = f[s[i]] + d[i]
    /\ \A i, j \in 1 .. m : s[i] = s[j] => i = j
    /\ \A x \in S : (\A i \in 1 .. m : s[i] # x) => g[x] = f[x]

\* A function that grows at m different elements grows by as much in the sum.
LEMMA SumGrow ==
    ASSUME NEW f, NEW g, NEW S, IsFiniteSet(S), NEW m \in Nat, NEW s, NEW d, Grows(f, g, S, m, s, d)
    PROVE  SumFunctionOnSet(g, S) = SumFunctionOnSet(f, S) + SumFunctionOnSet(d, 1 .. m)
<1> USE DEF Grows
<1> DEFINE h(k) == [x \in S |-> IF \E i \in 1 .. k : s[i] = x THEN g[x] ELSE f[x]]
           Grown(k) == SumFunctionOnSet(h(k), S) = SumFunctionOnSet(f, S) + SumFunctionOnSet(d, 1 .. k)
           Bad == {k \in 0 .. m : ~Grown(k)}
<1>1. SumFunctionOnSet(f, S) \in Nat
  BY SumType
<1>2. /\ SumFunctionOnSet(d, 1 .. 0) = 0
      /\ \A k \in 0 .. m : SumFunctionOnSet(d, 1 .. k) \in Nat
      /\ \A k \in 0 .. m - 1 :
            SumFunctionOnSet(d, 1 .. k + 1) = SumFunctionOnSet(d, 1 .. k) + d[k + 1]
  BY SumUpTo
<1>3. \A k : \A x \in S : h(k)[x] \in Nat
  OBVIOUS
<1>4. Grown(0)
  <2>1. \A x \in S : f[x] = h(0)[x]
    OBVIOUS
  <2>2. SumFunctionOnSet(f, S) = SumFunctionOnSet(h(0), S)
    BY <2>1, SumSame
  <2> QED
    BY <1>1, <1>2, <2>2
<1>5. ASSUME NEW k \in 0 .. m - 1, Grown(k)
      PROVE  Grown(k + 1)
  <2>1. s[k + 1] \in S /\ k + 1 \in 1 .. m
    OBVIOUS
  <2>2. h(k)[s[k + 1]] = f[s[k + 1]]
    <3>1. ~\E i \in 1 .. k : s[i] = s[k + 1]
      <4>1. \A i \in 1 .. k : i \in 1 .. m /\ i # k + 1
        OBVIOUS
      <4> QED
        BY <2>1, <4>1
    <3> QED
      BY <2>1, <3>1
  <2>3. h(k + 1)[s[k + 1]] = f[s[k + 1]] + d[k + 1]
    <3>1. k + 1 \in 1 .. k + 1
      OBVIOUS
    <3> QED
      BY <2>1, <3>1
  <2>4. \A x \in S \ {s[k + 1]} : h(k)[x] = h(k + 1)[x]
    <3> TAKE x \in S \ {s[k + 1]}
    <3>1. (\E i \in 1 .. k : s[i] = x) <=> (\E i \in 1 .. k + 1 : s[i] = x)
      OBVIOUS
    <3> QED
      BY <3>1
  <2>5. SumFunctionOnSet(h(k + 1), S) + h(k)[s[k + 1]]
           = SumFunctionOnSet(h(k), S) + h(k + 1)[s[k + 1]]
    <3> HIDE DEF h
    <3> QED
      BY <1>3, <2>1, <2>4, SumChange
  <2>6. SumFunctionOnSet(h(k + 1), S) \in Nat /\ SumFunctionOnSet(h(k), S) \in Nat
    <3> HIDE DEF h
    <3> QED
      BY <1>3, SumType
  <2>7. f[s[k + 1]] \in Nat /\ d[k + 1] \in Nat
    BY <2>1
  <2>8. k \in 0 .. m
    OBVIOUS
  <2>9. SumFunctionOnSet(d, 1 .. k) \in Nat
    BY <1>2, <2>8
  <2>10. SumFunctionOnSet(d, 1 .. k + 1) = SumFunctionOnSet(d, 1 .. k) + d[k + 1]
    BY <1>2
  <2>11. SumFunctionOnSet(h(k), S) = SumFunctionOnSet(f, S) + SumFunctionOnSet(d, 1 .. k)
    BY <1>5
  <2> HIDE DEF h
  <2>12. SumFunctionOnSet(h(k + 1), S) = SumFunctionOnSet(h(k), S) + d[k + 1]
    BY <2>2, <2>3, <2>5, <2>6, <2>7
  <2> QED
    BY <1>1, <2>6, <2>7, <2>9, <2>10, <2>11, <2>12
<1>6. Bad = {}
  <2> SUFFICES ASSUME Bad # {}
               PROVE  FALSE
    OBVIOUS
  <2> HIDE DEF h, Grown
  <2>1. Bad \subseteq Nat
    OBVIOUS
  <2>2. PICK k \in Bad : \A j \in Bad : k <= j
    <3> HIDE DEF Bad
    <3> QED
      BY <2>1, LeastNatural
  <2>3. k # 0
    BY <1>4, <2>2
  <2>4. k - 1 \in 0 .. m - 1 /\ (k - 1) + 1 = k /\ k - 1 \notin Bad
    BY <2>2, <2>3
  <2>5. Grown(k - 1)
    BY <2>4
  <2>6. Grown((k - 1) + 1)
    BY <1>5, <2>4, <2>5
  <2> QED
    BY <2>2, <2>4, <2>6
<1>7. Grown(m)
  <2> HIDE DEF h, Grown
  <2> QED
    BY <1>6
<1>8. \A x \in S : h(m)[x] \in Nat /\ h(m)[x] = g[x]
  OBVIOUS
<1>9. SumFunctionOnSet(h(m), S) = SumFunctionOnSet(g, S)
  <2> HIDE DEF h
  <2> QED
    BY <1>8, SumSame
<1> QED
  BY <1>7, <1>9

\* f is what g has after k, up to k + m.
Shifts(g, f, k, m) ==
    /\ \A i \in 1 .. k + m : g[i] \in Nat
    /\ \A i \in 1 .. m : f[i] = g[k + i]

\* A sum over the first numbers may be split after any of them.
LEMMA SumShift ==
    ASSUME NEW g, NEW f, NEW k \in Nat, NEW m \in Nat, Shifts(g, f, k, m)
    PROVE  SumFunctionOnSet(g, 1 .. k + m) = SumFunctionOnSet(g, 1 .. k) + SumFunctionOnSet(f, 1 .. m)
<1> USE DEF Shifts
<1> DEFINE G(i) == SumFunctionOnSet(g, 1 .. i)
           F(i) == SumFunctionOnSet(f, 1 .. i)
           Bad == {j \in 0 .. m : G(k + j) # G(k) + F(j)}
<1>1. \A i \in 1 .. m : f[i] \in Nat
  OBVIOUS
<1>2. F(0) = 0 /\ (\A j \in 0 .. m : F(j) \in Nat) /\ \A j \in 0 .. m - 1 : F(j + 1) = F(j) + f[j + 1]
  BY <1>1, SumUpTo
<1>3. (\A j \in 0 .. k + m : G(j) \in Nat) /\ \A j \in 0 .. k + m - 1 : G(j + 1) = G(j) + g[j + 1]
  <2>1. k + m \in Nat
    OBVIOUS
  <2> QED
    BY <2>1, SumUpTo
<1> HIDE DEF F, G
<1>4. Bad = {}
  <2> SUFFICES ASSUME Bad # {}
               PROVE  FALSE
    OBVIOUS
  <2>1. PICK j \in Bad : \A i \in Bad : j <= i
    <3>1. Bad \subseteq Nat
      OBVIOUS
    <3> HIDE DEF Bad
    <3> QED
      BY <3>1, LeastNatural
  <2>2. j \in 0 .. m /\ G(k + j) # G(k) + F(j)
    OBVIOUS
  <2>3. j # 0
    <3>1. k \in 0 .. k + m /\ k + 0 = k
      OBVIOUS
    <3>2. G(k) \in Nat
      BY <1>3, <3>1
    <3> QED
      BY <1>2, <2>2, <3>1, <3>2
  <2>4. PICK i \in 0 .. m - 1 : j = i + 1
    BY <2>2, <2>3
  <2>5. i \notin Bad
    BY <2>1, <2>4
  <2>6. G(k + i) = G(k) + F(i)
    BY <2>5
  <2>7. F(i + 1) = F(i) + f[i + 1] /\ f[i + 1] = g[k + (i + 1)] /\ F(i) \in Nat
    BY <1>2, <2>4
  <2>8. k + i \in 0 .. k + m - 1 /\ (k + i) + 1 = k + (i + 1) /\ k \in 0 .. k + m
    BY <2>4
  <2>9. G(k + (i + 1)) = G(k + i) + g[k + (i + 1)] /\ G(k) \in Nat
    BY <1>3, <2>8
  <2>10. g[k + (i + 1)] \in Nat
    BY <2>4
  <2> QED
    BY <2>2, <2>4, <2>6, <2>7, <2>9, <2>10
<1>5. G(k + m) = G(k) + F(m)
  BY <1>4
<1> QED
  BY <1>5 DEF F, G

-----------------------------------------------------------------------------
(* Sequences and remainders. *)

\* Without its i-th element a sequence is one shorter, and the others are in order.
LEMMA RemoveIth ==
    ASSUME NEW S, NEW s \in Seq(S), NEW i \in 1 .. Len(s)
    PROVE  LET r == SubSeq(s, 1, i - 1) \o SubSeq(s, i + 1, Len(s)) IN
           /\ r \in Seq(S) /\ Len(r) = Len(s) - 1
           /\ \A j \in 1 .. Len(r) : r[j] = IF j < i THEN s[j] ELSE s[j + 1]
<1> DEFINE a == SubSeq(s, 1, i - 1)
           b == SubSeq(s, i + 1, Len(s))
<1>1. a \in Seq(S) /\ Len(a) = i - 1 /\ \A j \in 1 .. i - 1 : a[j] = s[j]
  OBVIOUS
<1>2. /\ b \in Seq(S) /\ Len(b) = Len(s) - i
      /\ \A j \in 1 .. Len(s) - i : b[j] = s[i + j]
  OBVIOUS
<1> HIDE DEF a, b
<1>3. /\ a \o b \in Seq(S) /\ Len(a \o b) = Len(a) + Len(b)
      /\ \A j \in 1 .. Len(a) + Len(b) : (a \o b)[j] = IF j <= Len(a) THEN a[j] ELSE b[j - Len(a)]
  <2>1. a \in Seq(S) /\ b \in Seq(S)
    BY <1>1, <1>2
  <2> QED
    BY <2>1, ConcatProperties, Zenon
<1>4. ASSUME NEW j \in 1 .. Len(a \o b)
      PROVE  (a \o b)[j] = IF j < i THEN s[j] ELSE s[j + 1]
  <2>1. CASE j < i
    BY <1>1, <1>2, <1>3, <2>1
  <2>2. CASE ~(j < i)
    <3>1. j - Len(a) \in 1 .. Len(s) - i /\ i + (j - Len(a)) = j + 1
      BY <1>1, <1>2, <1>3, <2>2
    <3>2. (a \o b)[j] = b[j - Len(a)]
      BY <1>1, <1>2, <1>3, <2>2
    <3> QED
      BY <1>2, <2>2, <3>1, <3>2
  <2> QED
    BY <2>1, <2>2
<1>5. Len(a \o b) = Len(s) - 1
  BY <1>1, <1>2, <1>3
<1> QED
  BY <1>3, <1>4, <1>5 DEF a, b

\* Going round once more is one turn more.
LEMMA NextTurn ==
    ASSUME NEW n \in Nat, NEW b \in Nat \ {0}
    PROVE  /\ n % b \in 0 .. b - 1
           /\ ((n % b) + 1) % b = (n + 1) % b
<1>1. n \div b \in Nat /\ n % b \in 0 .. b - 1 /\ n = b * (n \div b) + (n % b)
  OBVIOUS
<1> DEFINE q == n \div b
           r == n % b
<1>2. q \in Nat /\ r \in 0 .. b - 1 /\ n = b * q + r
  BY <1>1
<1> HIDE DEF q, r
<1>3. \A p, m \in Nat : m < b => (b * p + m) % b = m
  OBVIOUS
<1>4. CASE r + 1 < b
  <2>1. n + 1 = b * q + (r + 1)
    BY <1>2
  <2>2. (n + 1) % b = r + 1 /\ (r + 1) % b = r + 1
    BY <1>2, <1>3, <1>4, <2>1
  <2> QED
    BY <1>1, <2>2 DEF r
<1>5. CASE r + 1 = b
  <2>1. n + 1 = b * (q + 1) + 0 /\ q + 1 \in Nat
    BY <1>2, <1>5
  <2>2. r + 1 = b * 1 + 0
    BY <1>5
  <2>3. (n + 1) % b = 0 /\ (r + 1) % b = 0
    BY <1>3, <2>1, <2>2
  <2> QED
    BY <1>1, <2>3 DEF r
<1> QED
  BY <1>2, <1>4, <1>5

\* Where the two halves of the i-th pair are in a list of pairs laid end to end.
LEMMA Halves ==
    ASSUME NEW i \in Nat
    PROVE  /\ (2 * i + 1) % 2 = 1 /\ (2 * i + 1 + 1) \div 2 = i + 1
           /\ (2 * i + 2) % 2 = 0 /\ (2 * i + 2) \div 2 = i + 1 /\ (2 * i) \div 2 = i
BY SMT

\* Any place is one or the other.
LEMMA OddOrEven ==
    ASSUME NEW j \in Nat, j > 0
    PROVE  \E i \in Nat : j = 2 * i + 1 \/ j = 2 * i + 2
<1>1. (j - 1) \div 2 \in Nat /\ (j = 2 * ((j - 1) \div 2) + 1 \/ j = 2 * ((j - 1) \div 2) + 2)
  BY SMT
<1> QED
  BY <1>1

\* One sequence behind another, as an operator that the provers leave alone.
Cat(x, y) == x \o y

\* It is associative.
LEMMA CatAssociative ==
    ASSUME NEW T
    PROVE  \A x, y, z \in Seq(T) : Cat(x, Cat(y, z)) = Cat(Cat(x, y), z) /\ Cat(x, y) \in Seq(T)
<1> SUFFICES ASSUME NEW x \in Seq(T), NEW y \in Seq(T), NEW z \in Seq(T)
             PROVE  (x \o (y \o z)) = ((x \o y) \o z) /\ x \o y \in Seq(T)
  BY DEF Cat
<1>1. x \o y \in Seq(T)
  BY ConcatProperties
<1>2. (x \o y) \o z = x \o (y \o z)
  BY ConcatAssociative
<1> QED
  BY <1>1, <1>2

\* Five sequences, one behind the other.
Regroup5(a, b, c, e, g) ==
    (((a \o b) \o c) \o e) \o g
    = a \o (b \o (c \o (e \o g)))

\* It does not matter which two of them are put together first.
LEMMA FiveInARow ==
    ASSUME NEW T, NEW a \in Seq(T), NEW b \in Seq(T), NEW c \in Seq(T), NEW e \in Seq(T),
           NEW g \in Seq(T)
    PROVE  Regroup5(a, b, c, e, g)
<1>1. \A x, y, z \in Seq(T) : Cat(x, Cat(y, z)) = Cat(Cat(x, y), z) /\ Cat(x, y) \in Seq(T)
  BY CatAssociative
<1>2. \A x, y \in Seq(T) : Cat(x, y) \in Seq(T)
  BY <1>1
<1>3. Cat(a, b) \in Seq(T)
  BY <1>2
<1>4. Cat(Cat(a, b), c) \in Seq(T)
  BY <1>2, <1>3
<1>5. Cat(Cat(Cat(a, b), c), e) \in Seq(T)
  BY <1>2, <1>4
<1>6. Cat(e, g) \in Seq(T)
  BY <1>2
<1>7. Cat(c, Cat(e, g)) \in Seq(T)
  BY <1>2, <1>6
<1>8. Cat(b, Cat(c, Cat(e, g))) \in Seq(T)
  BY <1>2, <1>7
<1>9. Cat(Cat(Cat(Cat(a, b), c), e), g) = Cat(Cat(Cat(a, b), c), Cat(e, g))
  BY <1>1, <1>4
<1>10. Cat(Cat(Cat(a, b), c), Cat(e, g)) = Cat(Cat(a, b), Cat(c, Cat(e, g)))
  BY <1>1, <1>3, <1>6
<1>11. Cat(Cat(a, b), Cat(c, Cat(e, g))) = Cat(a, Cat(b, Cat(c, Cat(e, g))))
  BY <1>1, <1>7
<1>12. Cat(Cat(Cat(Cat(a, b), c), e), g) = Cat(a, Cat(b, Cat(c, Cat(e, g))))
  BY <1>9, <1>10, <1>11
<1> QED
  BY <1>12 DEF Cat, Regroup5

\* Eight sequences, one behind the other.
Regroup8(a, b, c, e, g, h, k, m) ==
    ((((((a \o b) \o c) \o e) \o g) \o h) \o k) \o m
    = a \o (b \o (c \o (e \o (g \o (h \o (k \o m))))))

\* It does not matter which two of them are put together first.
LEMMA EightInARow ==
    ASSUME NEW T, NEW a \in Seq(T), NEW b \in Seq(T), NEW c \in Seq(T), NEW e \in Seq(T),
           NEW g \in Seq(T), NEW h \in Seq(T), NEW k \in Seq(T), NEW m \in Seq(T)
    PROVE  Regroup8(a, b, c, e, g, h, k, m)
<1>1. \A x, y, z \in Seq(T) : Cat(x, Cat(y, z)) = Cat(Cat(x, y), z) /\ Cat(x, y) \in Seq(T)
  BY CatAssociative
<1>2. \A x, y \in Seq(T) : Cat(x, y) \in Seq(T)
  BY <1>1
<1>3. Cat(a, b) \in Seq(T)
  BY <1>2
<1>4. Cat(Cat(a, b), c) \in Seq(T)
  BY <1>2, <1>3
<1>5. Cat(Cat(Cat(a, b), c), e) \in Seq(T)
  BY <1>2, <1>4
<1>6. Cat(Cat(Cat(Cat(a, b), c), e), g) \in Seq(T)
  BY <1>2, <1>5
<1>7. Cat(Cat(Cat(Cat(Cat(a, b), c), e), g), h) \in Seq(T)
  BY <1>2, <1>6
<1>8. Cat(Cat(Cat(Cat(Cat(Cat(a, b), c), e), g), h), k) \in Seq(T)
  BY <1>2, <1>7
<1>9. Cat(k, m) \in Seq(T)
  BY <1>2
<1>10. Cat(h, Cat(k, m)) \in Seq(T)
  BY <1>2, <1>9
<1>11. Cat(g, Cat(h, Cat(k, m))) \in Seq(T)
  BY <1>2, <1>10
<1>12. Cat(e, Cat(g, Cat(h, Cat(k, m)))) \in Seq(T)
  BY <1>2, <1>11
<1>13. Cat(c, Cat(e, Cat(g, Cat(h, Cat(k, m))))) \in Seq(T)
  BY <1>2, <1>12
<1>14. Cat(b, Cat(c, Cat(e, Cat(g, Cat(h, Cat(k, m)))))) \in Seq(T)
  BY <1>2, <1>13
<1>15. Cat(Cat(Cat(Cat(Cat(Cat(Cat(a, b), c), e), g), h), k), m) = Cat(Cat(Cat(Cat(Cat(Cat(a, b), c), e), g), h), Cat(k, m))
  BY <1>1, <1>7
<1>16. Cat(Cat(Cat(Cat(Cat(Cat(a, b), c), e), g), h), Cat(k, m)) = Cat(Cat(Cat(Cat(Cat(a, b), c), e), g), Cat(h, Cat(k, m)))
  BY <1>1, <1>6, <1>9
<1>17. Cat(Cat(Cat(Cat(Cat(a, b), c), e), g), Cat(h, Cat(k, m))) = Cat(Cat(Cat(Cat(a, b), c), e), Cat(g, Cat(h, Cat(k, m))))
  BY <1>1, <1>5, <1>10
<1>18. Cat(Cat(Cat(Cat(a, b), c), e), Cat(g, Cat(h, Cat(k, m)))) = Cat(Cat(Cat(a, b), c), Cat(e, Cat(g, Cat(h, Cat(k, m)))))
  BY <1>1, <1>4, <1>11
<1>19. Cat(Cat(Cat(a, b), c), Cat(e, Cat(g, Cat(h, Cat(k, m))))) = Cat(Cat(a, b), Cat(c, Cat(e, Cat(g, Cat(h, Cat(k, m))))))
  BY <1>1, <1>3, <1>12
<1>20. Cat(Cat(a, b), Cat(c, Cat(e, Cat(g, Cat(h, Cat(k, m)))))) = Cat(a, Cat(b, Cat(c, Cat(e, Cat(g, Cat(h, Cat(k, m)))))))
  BY <1>1, <1>13
<1>21. Cat(Cat(Cat(Cat(Cat(Cat(Cat(a, b), c), e), g), h), k), m) = Cat(a, Cat(b, Cat(c, Cat(e, Cat(g, Cat(h, Cat(k, m)))))))
  BY <1>15, <1>16, <1>17, <1>18, <1>19, <1>20
<1> QED
  BY <1>21 DEF Cat, Regroup8
=============================================================================
