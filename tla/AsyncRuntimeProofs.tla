------------------------- MODULE AsyncRuntimeProofs -------------------------
(***************************************************************************)
(* Proofs about AsyncRuntime, in three parts.                              *)
(*                                                                         *)
(* The clock never passes work that is due.  DesRuntime remembers in       *)
(* next_timer_deadline the deadline it scheduled a tick for, reschedules   *)
(* only when the earliest deadline changes and never takes a stale tick    *)
(* off the heap.  IndInv says why that suffices: whatever was registered   *)
(* and cancelled meanwhile, the remembered deadline is the earliest one    *)
(* and some tick is on the heap in time.                                   *)
(*                                                                         *)
(* The tasks.  RuntimeInv relates the flags, the queues and the timers to  *)
(* the tasks: no task is due twice, none is in two places, and what is     *)
(* left of a cancelled one has its Cancel to come.                         *)
(*                                                                         *)
(* The sleeps.  SleepInv follows a SimSleep from the registration of its   *)
(* timer, which travels as an event, to the poll after its deadline.       *)
(***************************************************************************)
EXTENDS AsyncRuntime, FiniteSetTheorems, TLAPS

IsSequence(s) == \E S : s \in Seq(S)

\* Entries carry ids given out, are due, and the first one is install's Poll.
Entries ==
    /\ now \in Time
    /\ next_event_id \in Nat /\ next_event_id > 0
    /\ \A e \in events : /\ e.seq \in Nat /\ e.seq <= next_event_id
                         /\ e.time \in Time /\ e.time >= now
                         /\ e.seq = 1 => e.ev = Poll /\ e.time = 0

\* A tick is on the heap for the earliest deadline of the timers tm.
TickFor(tm) ==
    NextDeadline(tm) # Nil =>
        \E e \in events : e.ev = TimerTick /\ (e.time = now \/ e.time <= NextDeadline(tm))

Ticks == next_timer_deadline = NextDeadline(timers) /\ TickFor(timers)

Work == ready_queue # <<>> \/ spawn_queue # <<>> \/ spawn_queue_local # <<>>

\* Between steps a Poll is due for the work there is; within a step it is deferred.
Polls ==
    /\ polling # Nil => in_step
    /\ in_step => ready_queue = <<>>
    /\ IsSequence(deferred)
    /\ ~in_step /\ Work => \E e \in events : e.ev = Poll /\ e.time = now
    /\ in_step /\ Work => \E i \in 1 .. Len(deferred) : deferred[i] = Poll

IndInv == Entries /\ Ticks /\ Polls

----------------------------------------------------------------------------
(* Simulated time and the earliest deadline. *)

\* A tick for deadline d scheduled at t is due at the later of the two.
LEMMA TickTime ==
    ASSUME NEW t \in Time, NEW d \in Time
    PROVE  LET u == AddTime(t, SubTime(d, t))
           IN  u \in Time /\ u >= t /\ (u = t \/ u <= d)
BY MaxTimeAssumption DEF AddTime, SubTime, Clamp, Time

\* A non-empty set of naturals has a least element.
LEMMA LeastNatural ==
    ASSUME NEW S, S \subseteq Nat, S # {}
    PROVE  \E x \in S : \A y \in S : x <= y
<1>1. PICK R : IsWellFoundedOn(R, Nat) /\ \A x, y \in Nat : y < x => <<y, x>> \in R
  <2> DEFINE L == OpToRel(<, Nat)
  <2>1. IsWellFoundedOn(L, Nat)
    BY NatLessThanWellFounded
  <2>2. \A x, y \in Nat : y < x => <<y, x>> \in L
    BY DEF OpToRel
  <2> HIDE DEF L
  <2> QED
    BY <2>1, <2>2
<1>2. \E x \in S : \A y \in S : ~ (<<y, x>> \in R)
  BY <1>1, WFMin
<1>3. PICK x \in S : \A y \in S : ~ (<<y, x>> \in R)
  BY <1>2
<1>4. ASSUME NEW y \in S
      PROVE  x <= y
  <2>1. x \in Nat /\ y \in Nat
    OBVIOUS
  <2>2. ~(y < x)
    BY <1>1, <1>3, <2>1
  <2> QED
    BY <2>1, <2>2
<1> QED
  BY <1>4

\* NextDeadline is the first key of the BTreeMap.
LEMMA NextDeadlineIsLeast ==
    ASSUME NEW tm
    PROVE  /\ NextDeadline(tm) \in Time \cup {Nil}
           /\ NextDeadline(tm) = Nil => Deadlines(tm) = {}
           /\ NextDeadline(tm) # Nil => \A d \in Deadlines(tm) : NextDeadline(tm) <= d
<1>1. Deadlines(tm) \subseteq Nat /\ Deadlines(tm) \subseteq Time
  BY MaxTimeAssumption DEF Deadlines, Time
<1>2. CASE Deadlines(tm) = {}
  BY <1>2 DEF NextDeadline, Earliest
<1>3. CASE Deadlines(tm) # {}
  <2>1. \E d \in Deadlines(tm) : \A f \in Deadlines(tm) : d <= f
    BY <1>1, <1>3, LeastNatural
  <2>2. /\ NextDeadline(tm) \in Deadlines(tm)
        /\ \A f \in Deadlines(tm) : NextDeadline(tm) <= f
    BY <1>3, <2>1 DEF NextDeadline, Earliest
  <2>3. NextDeadline(tm) # Nil
    BY <1>1, <2>2, RuntimeAssumption
  <2> QED
    BY <1>1, <2>2, <2>3
<1> QED
  BY <1>2, <1>3

\* The entries NextTick adds.
LEMMA NextTickEntries ==
    ASSUME NEW tm, NEW known, NEW t \in Time, next_event_id \in Nat
    PROVE  LET tick == NextTick(tm, known, t)
           IN  /\ Cardinality(tick) \in Nat
               /\ \A e \in tick : /\ e.seq \in Nat /\ e.seq > next_event_id
                                  /\ e.seq <= next_event_id + Cardinality(tick)
                                  /\ e.time \in Time /\ e.time >= t
                                  /\ e.ev = TimerTick
                                  /\ e.time = t \/ e.time <= NextDeadline(tm)
               /\ NextDeadline(tm) \notin {known, Nil} => tick # {}
<1>1. CASE NextDeadline(tm) \in {known, Nil}
  BY <1>1, FS_EmptySet DEF NextTick
<1>2. CASE NextDeadline(tm) \notin {known, Nil}
  <2> DEFINE x == [seq |-> next_event_id + 1,
                   time |-> AddTime(t, SubTime(NextDeadline(tm), t)), ev |-> TimerTick]
  <2>1. NextTick(tm, known, t) = {x}
    BY <1>2 DEF NextTick
  <2>2. Cardinality({x}) = 1
    BY FS_Singleton
  <2>3. NextDeadline(tm) \in Time
    BY <1>2, NextDeadlineIsLeast
  <2>4. x.time \in Time /\ x.time >= t /\ (x.time = t \/ x.time <= NextDeadline(tm))
    BY <2>3, TickTime
  <2>5. x.seq = next_event_id + 1 /\ x.ev = TimerTick
    OBVIOUS
  <2> HIDE DEF x
  <2> QED
    BY <2>1, <2>2, <2>4, <2>5
<1> QED
  BY <1>1, <1>2

----------------------------------------------------------------------------
(* Sequences of tasks: what Gather takes and what the timers hold. *)

NoRepeats(s) == \A i, j \in 1 .. Len(s) : s[i] = s[j] => i = j

\* The elements of a sequence.
LEMMA ToSetOf ==
    ASSUME NEW S, NEW s \in Seq(S)
    PROVE  ToSet(s) = {s[i] : i \in 1 .. Len(s)} /\ ToSet(s) \subseteq S
BY DEF ToSet

\* One step of Gather after the first i - 1 tasks, of which g tells.
GatherStep(s, A, once, g, i) ==
    IF i = 0 THEN <<>>
    ELSE IF s[i] \in A /\ ~(once /\ s[i] \in ToSet(g[i - 1]))
           THEN Append(g[i - 1], s[i])
           ELSE g[i - 1]

Gathers(s, A, once, n, g) == g = [i \in 0 .. n |-> GatherStep(s, A, once, g, i)]

\* Gather is defined for every sequence.
LEMMA GatherExists ==
    ASSUME NEW s, NEW A, NEW once, NEW m \in Nat
    PROVE  \E g : Gathers(s, A, once, m, g)
<1> DEFINE Bad == {n \in Nat : ~\E g : Gathers(s, A, once, n, g)}
<1>1. SUFFICES ASSUME Bad # {}
               PROVE  FALSE
  OBVIOUS
<1>2. PICK n \in Bad : \A k \in Bad : n <= k
  <2>1. Bad \subseteq Nat
    OBVIOUS
  <2> HIDE DEF Bad
  <2> QED
    BY <1>1, <2>1, LeastNatural
<1>3. n \in Nat /\ ~\E g : Gathers(s, A, once, n, g)
  OBVIOUS
<1>4. CASE n = 0
  <2> DEFINE g == [i \in 0 .. 0 |-> <<>>]
  <2>1. \A i \in 0 .. 0 : GatherStep(s, A, once, g, i) = <<>>
    BY DEF GatherStep
  <2>2. Gathers(s, A, once, 0, g)
    BY <2>1 DEF Gathers
  <2> QED
    BY <1>3, <1>4, <2>2
<1>5. CASE n > 0
  <2>1. n - 1 \in Nat /\ n - 1 \notin Bad
    BY <1>2, <1>3, <1>5
  <2>2. PICK g : Gathers(s, A, once, n - 1, g)
    BY <2>1
  <2> DEFINE h == [i \in 0 .. n |-> IF i < n THEN g[i] ELSE GatherStep(s, A, once, g, n)]
  <2>3. \A i \in 0 .. n : i > 0 => h[i - 1] = g[i - 1]
    BY <1>3
  <2>4. ASSUME NEW i \in 0 .. n
        PROVE  h[i] = GatherStep(s, A, once, h, i)
    <3>1. GatherStep(s, A, once, h, i) = GatherStep(s, A, once, g, i)
      BY <1>3, <2>3 DEF GatherStep
    <3>2. i < n => g[i] = GatherStep(s, A, once, g, i)
      BY <1>3, <2>2 DEF Gathers
    <3>3. i = n \/ i < n
      BY <1>3
    <3> QED
      BY <3>1, <3>2, <3>3
  <2>5. Gathers(s, A, once, n, h)
    BY <2>4 DEF Gathers
  <2> QED
    BY <1>3, <2>5
<1> QED
  BY <1>3, <1>4, <1>5

\* The value of Gather, as the last of its steps.
LEMMA GatherIs ==
    ASSUME NEW s, NEW A, NEW once, Len(s) \in Nat
    PROVE  \E g : Gathers(s, A, once, Len(s), g) /\ Gather(s, A, once) = g[Len(s)]
<1> DEFINE c == CHOOSE g : Gathers(s, A, once, Len(s), g)
<1>1. Gathers(s, A, once, Len(s), c)
  BY GatherExists
<1>2. Gather(s, A, once) = c[Len(s)]
  BY DEF Gather, Gathers, GatherStep
<1> QED
  BY <1>1, <1>2

\* There is nothing to filter out of an empty queue.
LEMMA WithoutNothing == ASSUME NEW t PROVE Without(<<>>, t) = <<>>
<1>1. Len(<<>>) = 0
  OBVIOUS
<1>2. PICK g : Gathers(<<>>, TaskId \ {t}, FALSE, 0, g) /\ Without(<<>>, t) = g[0]
  BY <1>1, GatherIs DEF Without
<1>3. g[0] = GatherStep(<<>>, TaskId \ {t}, FALSE, g, 0)
  BY <1>2 DEF Gathers
<1> QED
  BY <1>2, <1>3 DEF GatherStep

\* A sequence with one more element.
LEMMA Appended ==
    ASSUME NEW S, NEW q \in Seq(S), NEW x \in S
    PROVE  /\ Append(q, x) \in Seq(S) /\ ToSet(Append(q, x)) = ToSet(q) \cup {x}
           /\ NoRepeats(q) /\ x \notin ToSet(q) => NoRepeats(Append(q, x))
<1>1. /\ Append(q, x) \in Seq(S) /\ Len(Append(q, x)) = Len(q) + 1 /\ Len(q) \in Nat
      /\ \A i \in 1 .. Len(q) : Append(q, x)[i] = q[i]
      /\ Append(q, x)[Len(q) + 1] = x
  OBVIOUS
<1> DEFINE p == Append(q, x)
<1>2. \A i \in 1 .. Len(p) : i \in 1 .. Len(q) \/ i = Len(q) + 1
  BY <1>1
<1>3. ToSet(p) = {p[i] : i \in 1 .. Len(p)} /\ ToSet(q) = {q[i] : i \in 1 .. Len(q)}
  BY <1>1, ToSetOf
<1> HIDE DEF p
<1>4. /\ Len(p) = Len(q) + 1 /\ p[Len(q) + 1] = x /\ \A i \in 1 .. Len(q) : p[i] = q[i]
  BY <1>1 DEF p
<1>5. \A i \in 1 .. Len(q) : i \in 1 .. Len(p)
  BY <1>1, <1>4
<1>6. Len(q) + 1 \in 1 .. Len(p)
  BY <1>1, <1>4
<1>7. ToSet(p) = ToSet(q) \cup {x}
  <2>1. ToSet(p) \subseteq ToSet(q) \cup {x}
    BY <1>2, <1>3, <1>4
  <2>2. ToSet(q) \subseteq ToSet(p) /\ x \in ToSet(p)
    BY <1>3, <1>4, <1>5, <1>6
  <2> QED
    BY <2>1, <2>2
<1>8. ASSUME NoRepeats(q), x \notin ToSet(q)
      PROVE  NoRepeats(p)
  <2>1. \A i \in 1 .. Len(q) : q[i] # x
    BY <1>3, <1>8
  <2> SUFFICES ASSUME NEW i \in 1 .. Len(p), NEW j \in 1 .. Len(p), p[i] = p[j]
               PROVE  i = j
    BY DEF NoRepeats
  <2>2. (i \in 1 .. Len(q) \/ i = Len(q) + 1) /\ (j \in 1 .. Len(q) \/ j = Len(q) + 1)
    BY <1>2
  <2> QED
    BY <1>4, <1>8, <2>1, <2>2 DEF NoRepeats
<1> QED
  BY <1>1, <1>7, <1>8 DEF p

\* One sequence after another.
LEMMA Joined ==
    ASSUME NEW S, NEW p \in Seq(S), NEW q \in Seq(S)
    PROVE  /\ p \o q \in Seq(S) /\ ToSet(p \o q) = ToSet(p) \cup ToSet(q)
           /\ NoRepeats(p) /\ NoRepeats(q) /\ ToSet(p) \cap ToSet(q) = {} => NoRepeats(p \o q)
<1> DEFINE r == p \o q
           m == Len(p)
           n == Len(q)
<1>1. /\ r \in Seq(S) /\ Len(r) = m + n /\ m \in Nat /\ n \in Nat
      /\ \A i \in 1 .. m : r[i] = p[i]
      /\ \A i \in 1 .. n : r[m + i] = q[i]
  OBVIOUS
<1>2. /\ ToSet(r) = {r[i] : i \in 1 .. Len(r)} /\ ToSet(p) = {p[i] : i \in 1 .. m}
      /\ ToSet(q) = {q[i] : i \in 1 .. n}
  BY <1>1, ToSetOf
<1> HIDE DEF r, m, n
<1>3. \A i \in 1 .. Len(r) : i \in 1 .. m \/ (i - m \in 1 .. n /\ i = m + (i - m))
  BY <1>1
<1>4. /\ \A i \in 1 .. m : i \in 1 .. Len(r)
      /\ \A i \in 1 .. n : m + i \in 1 .. Len(r)
  BY <1>1
<1>5. ASSUME NEW i \in 1 .. Len(r)
      PROVE  \/ i \in 1 .. m /\ r[i] = p[i]
             \/ \E k \in 1 .. n : i = m + k /\ r[i] = q[k]
  BY <1>1, <1>3
<1>6. ToSet(r) = ToSet(p) \cup ToSet(q)
  <2>1. ToSet(r) \subseteq ToSet(p) \cup ToSet(q)
    BY <1>2, <1>5
  <2>2. ToSet(p) \subseteq ToSet(r)
    BY <1>1, <1>2, <1>4
  <2>3. ToSet(q) \subseteq ToSet(r)
    BY <1>1, <1>2, <1>4
  <2> QED
    BY <2>1, <2>2, <2>3
<1>7. ASSUME NoRepeats(p), NoRepeats(q), ToSet(p) \cap ToSet(q) = {}
      PROVE  NoRepeats(r)
  <2> SUFFICES ASSUME NEW i \in 1 .. Len(r), NEW j \in 1 .. Len(r), r[i] = r[j]
               PROVE  i = j
    BY DEF NoRepeats
  <2>1. \A k \in 1 .. m, l \in 1 .. n : p[k] # q[l]
    BY <1>2, <1>7
  <2>2. \A k, l \in 1 .. m : p[k] = p[l] => k = l
    BY <1>7 DEF NoRepeats, m
  <2>3. \A k, l \in 1 .. n : q[k] = q[l] => k = l
    BY <1>7 DEF NoRepeats, n
  <2> QED
    BY <1>5, <2>1, <2>2, <2>3
<1> QED
  BY <1>1, <1>6, <1>7 DEF r

\* What Gather takes: the tasks of s in A, each once if once or if s has it once.
LEMMA GatherFacts ==
    ASSUME NEW S, NEW s \in Seq(S), NEW A, NEW once \in BOOLEAN
    PROVE  /\ Gather(s, A, once) \in Seq(S)
           /\ ToSet(Gather(s, A, once)) = ToSet(s) \cap A
           /\ once \/ NoRepeats(s) => NoRepeats(Gather(s, A, once))
<1>1. Len(s) \in Nat /\ ToSet(s) = {s[i] : i \in 1 .. Len(s)}
  BY ToSetOf
<1>2. PICK g : Gathers(s, A, once, Len(s), g) /\ Gather(s, A, once) = g[Len(s)]
  BY <1>1, GatherIs
<1> DEFINE First(n) == {s[i] : i \in 1 .. n}
           Good(n) == /\ g[n] \in Seq(S) /\ ToSet(g[n]) = First(n) \cap A
                      /\ once \/ NoRepeats(s) => NoRepeats(g[n])
           Bad == {n \in 0 .. Len(s) : ~Good(n)}
<1>g. SUFFICES Good(Len(s))
  <2>1. First(Len(s)) = ToSet(s)
    BY <1>1
  <2> QED
    BY <1>2, <2>1
<1>3. SUFFICES ASSUME Bad # {}
               PROVE  FALSE
  <2>1. Len(s) \in 0 .. Len(s)
    BY <1>1
  <2> HIDE DEF Good
  <2> QED
    BY <2>1
<1>4. PICK n \in Bad : \A k \in Bad : n <= k
  <2>1. Bad \subseteq Nat
    BY <1>1
  <2> HIDE DEF Bad
  <2> QED
    BY <1>3, <2>1, LeastNatural
<1>5. n \in 0 .. Len(s) /\ ~Good(n) /\ g[n] = GatherStep(s, A, once, g, n)
  BY <1>2 DEF Gathers
<1>6. CASE n = 0
  <2>1. g[n] = <<>> /\ <<>> \in Seq(S) /\ Len(<<>>) = 0
    BY <1>5, <1>6 DEF GatherStep
  <2>2. ToSet(<<>>) = {} /\ First(0) = {} /\ NoRepeats(<<>>)
    BY DEF ToSet, NoRepeats
  <2> QED
    BY <1>5, <1>6, <2>1, <2>2
<1>7. CASE n > 0
  <2>1. n - 1 \in 0 .. Len(s) /\ n \in 1 .. Len(s) /\ ~(n <= n - 1)
    BY <1>1, <1>5, <1>7
  <2>2. Good(n - 1)
    BY <1>4, <2>1
  <2>3. s[n] \in S /\ First(n) = First(n - 1) \cup {s[n]}
    <3>1. \A i \in 1 .. n : i \in 1 .. n - 1 \/ i = n
      BY <2>1
    <3>2. \A i \in 1 .. n - 1 : i \in 1 .. n
      BY <2>1
    <3> QED
      BY <2>1, <3>1, <3>2
  <2>4. NoRepeats(s) => s[n] \notin First(n - 1)
    <3>1. \A i \in 1 .. n - 1 : i \in 1 .. Len(s) /\ i # n
      BY <1>1, <2>1
    <3> QED
      BY <2>1, <3>1 DEF NoRepeats
  <2> DEFINE q == g[n - 1]
  <2>5. /\ q \in Seq(S) /\ ToSet(q) = First(n - 1) \cap A
        /\ once \/ NoRepeats(s) => NoRepeats(q)
    BY <2>2
  <2>6. n # 0
    BY <1>7
  <2> HIDE DEF First, q
  <2>7. CASE s[n] \in A /\ ~(once /\ s[n] \in ToSet(q))
    <3>1. g[n] = Append(q, s[n])
      BY <1>5, <2>6, <2>7 DEF GatherStep, q
    <3>2. /\ Append(q, s[n]) \in Seq(S) /\ ToSet(Append(q, s[n])) = ToSet(q) \cup {s[n]}
          /\ NoRepeats(q) /\ s[n] \notin ToSet(q) => NoRepeats(Append(q, s[n]))
      BY <2>3, <2>5, Appended
    <3>3. once \/ NoRepeats(s) => NoRepeats(q) /\ s[n] \notin ToSet(q)
      BY <2>4, <2>5, <2>7
    <3>4. ToSet(q) \cup {s[n]} = First(n) \cap A
      BY <2>3, <2>5, <2>7
    <3> QED
      BY <1>5, <3>1, <3>2, <3>3, <3>4
  <2>8. CASE ~(s[n] \in A /\ ~(once /\ s[n] \in ToSet(q)))
    <3>1. g[n] = q
      BY <1>5, <2>6, <2>8 DEF GatherStep, q
    <3>2. ToSet(q) = First(n) \cap A
      BY <2>3, <2>5, <2>8
    <3> QED
      BY <1>5, <2>5, <3>1, <3>2
  <2> QED
    BY <2>7, <2>8
<1> QED
  BY <1>1, <1>5, <1>6, <1>7

\* One step of RegisteredUpTo.
UpToStep(g, d) == IF d = 0 THEN timers[0] ELSE g[d - 1] \o timers[d]

UpTo(n, g) == g = [d \in 0 .. n |-> UpToStep(g, d)]

\* RegisteredUpTo is defined.
LEMMA UpToExists ==
    ASSUME NEW m \in Nat
    PROVE  \E g : UpTo(m, g)
<1> DEFINE Bad == {n \in Nat : ~\E g : UpTo(n, g)}
<1>1. SUFFICES ASSUME Bad # {}
               PROVE  FALSE
  OBVIOUS
<1>2. PICK n \in Bad : \A k \in Bad : n <= k
  <2>1. Bad \subseteq Nat
    OBVIOUS
  <2> HIDE DEF Bad
  <2> QED
    BY <1>1, <2>1, LeastNatural
<1>3. n \in Nat /\ ~\E g : UpTo(n, g)
  OBVIOUS
<1>4. CASE n = 0
  <2> DEFINE g == [d \in 0 .. 0 |-> timers[0]]
  <2>1. \A d \in 0 .. 0 : UpToStep(g, d) = timers[0]
    BY DEF UpToStep
  <2>2. UpTo(0, g)
    BY <2>1 DEF UpTo
  <2> QED
    BY <1>3, <1>4, <2>2
<1>5. CASE n > 0
  <2>1. n - 1 \in Nat /\ n - 1 \notin Bad
    BY <1>2, <1>3, <1>5
  <2>2. PICK g : UpTo(n - 1, g)
    BY <2>1
  <2> DEFINE h == [d \in 0 .. n |-> IF d < n THEN g[d] ELSE UpToStep(g, n)]
  <2>3. \A d \in 0 .. n : d > 0 => h[d - 1] = g[d - 1]
    BY <1>3
  <2>4. ASSUME NEW d \in 0 .. n
        PROVE  h[d] = UpToStep(h, d)
    <3>1. UpToStep(h, d) = UpToStep(g, d)
      <4>1. CASE d = 0
        BY <4>1 DEF UpToStep
      <4>2. CASE d > 0
        <5>1. h[d - 1] = g[d - 1]
          BY <2>3, <4>2
        <5> HIDE DEF h
        <5> QED
          BY <5>1, <4>2 DEF UpToStep
      <4> QED
        BY <1>3, <4>1, <4>2
    <3>2. d < n => g[d] = UpToStep(g, d)
      BY <1>3, <2>2 DEF UpTo
    <3>3. d = n \/ d < n
      BY <1>3
    <3>4. h[d] = IF d < n THEN g[d] ELSE UpToStep(g, n)
      OBVIOUS
    <3> HIDE DEF h
    <3> QED
      BY <3>1, <3>2, <3>3, <3>4
  <2>5. UpTo(n, h)
    BY <2>4 DEF UpTo
  <2> QED
    BY <1>3, <2>5
<1> QED
  BY <1>3, <1>4, <1>5

\* It tells the registrations up to a deadline.
LEMMA UpToFacts ==
    ASSUME timers \in [Time -> Seq(TaskId)], NEW t \in Time
    PROVE  /\ RegisteredUpTo[t] \in Seq(TaskId)
           /\ \A d \in Time : d <= t => ToSet(timers[d]) \subseteq ToSet(RegisteredUpTo[t])
<1> DEFINE g == RegisteredUpTo
<1>1. MaxTime \in Nat /\ Time = 0 .. MaxTime
  BY MaxTimeAssumption DEF Time
<1>2. UpTo(MaxTime, g)
  <2>1. g = CHOOSE h : UpTo(MaxTime, h)
    BY <1>1 DEF RegisteredUpTo, UpTo, UpToStep
  <2> HIDE DEF g
  <2> QED
    BY <1>1, <2>1, UpToExists
<1> HIDE DEF g
<1> DEFINE Good(n) == /\ g[n] \in Seq(TaskId)
                      /\ \A d \in Time : d <= n => ToSet(timers[d]) \subseteq ToSet(g[n])
           Bad == {n \in 0 .. MaxTime : ~Good(n)}
<1>g. SUFFICES Good(t)
  BY DEF g
<1>3. SUFFICES ASSUME Bad # {}
               PROVE  FALSE
  <2> HIDE DEF Good
  <2> QED
    BY <1>1
<1>4. PICK n \in Bad : \A k \in Bad : n <= k
  <2>1. Bad \subseteq Nat
    BY <1>1
  <2> HIDE DEF Bad
  <2> QED
    BY <1>3, <2>1, LeastNatural
<1>5. n \in 0 .. MaxTime /\ ~Good(n) /\ g[n] = UpToStep(g, n)
  BY <1>2 DEF UpTo
<1>6. CASE n = 0
  <2>1. g[n] = timers[0] /\ timers[0] \in Seq(TaskId)
    BY <1>1, <1>5, <1>6 DEF UpToStep
  <2>2. \A d \in Time : d <= n => d = 0
    BY <1>1, <1>6
  <2> QED
    BY <1>5, <2>1, <2>2
<1>7. CASE n > 0
  <2>1. n - 1 \in 0 .. MaxTime /\ ~(n <= n - 1)
    BY <1>1, <1>5, <1>7
  <2>2. Good(n - 1)
    BY <1>4, <2>1
  <2>3. timers[n] \in Seq(TaskId) /\ g[n - 1] \in Seq(TaskId)
    BY <1>1, <1>5, <2>2
  <2>4. g[n] = g[n - 1] \o timers[n]
    <3>1. n # 0 /\ g[n] = UpToStep(g, n)
      BY <1>5, <1>7
    <3> HIDE DEF Good, Bad
    <3> QED
      BY Zenon, <3>1 DEF UpToStep
  <2>5. g[n] \in Seq(TaskId) /\ ToSet(g[n]) = ToSet(g[n - 1]) \cup ToSet(timers[n])
    BY <2>3, <2>4, Joined
  <2>6. \A d \in Time : d <= n => d = n \/ d <= n - 1
    BY <1>1, <1>5
  <2> QED
    BY <1>5, <2>2, <2>5, <2>6
<1> QED
  BY <1>1, <1>5, <1>6, <1>7

----------------------------------------------------------------------------
(* The deferred buffer. *)

\* defer_wake appends: the wakes deferred before keep their places.
LEMMA Deferral ==
    ASSUME NEW s, IsSequence(s), NEW x
    PROVE  /\ IsSequence(Append(s, x))
           /\ \A i \in 1 .. Len(s) : i \in 1 .. Len(Append(s, x)) /\ Append(s, x)[i] = s[i]
           /\ \E i \in 1 .. Len(Append(s, x)) : Append(s, x)[i] = x
<1>1. PICK S : s \in Seq(S)
  BY DEF IsSequence
<1> DEFINE T == S \cup {x}
<1>2. s \in Seq(T) /\ x \in T
  BY <1>1
<1> HIDE DEF T
<1>3. Append(s, x) \in Seq(T) /\ Len(Append(s, x)) = Len(s) + 1 /\ Len(s) \in Nat
  BY <1>2
<1>4. \A i \in 1 .. Len(s) : Append(s, x)[i] = s[i]
  BY <1>2
<1>5. Append(s, x)[Len(s) + 1] = x
  BY <1>2
<1> QED
  BY <1>3, <1>4, <1>5 DEF IsSequence

\* What Scheduled adds to the heap.
LEMMA ScheduledEntries ==
    ASSUME NEW s, IsSequence(s), NEW id \in Nat, NEW t
    PROVE  /\ Len(s) \in Nat
           /\ \A e \in Scheduled(s, id, t) : /\ e.seq \in Nat /\ e.seq > id /\ e.seq <= id + Len(s)
                                             /\ e.time = t
           /\ \A i \in 1 .. Len(s) : \E e \in Scheduled(s, id, t) : e.ev = s[i] /\ e.time = t
<1> DEFINE n == Len(s)
           entry(i) == [seq |-> id + i, time |-> t, ev |-> s[i]]
<1>1. n \in Nat
  BY DEF IsSequence
<1>2. Scheduled(s, id, t) = {entry(i) : i \in 1 .. n}
  BY DEF Scheduled
<1>3. \A i : entry(i).seq = id + i /\ entry(i).time = t /\ entry(i).ev = s[i]
  OBVIOUS
<1> HIDE DEF n, entry
<1>4. \A e \in Scheduled(s, id, t) : e.seq \in Nat /\ e.seq > id /\ e.seq <= id + n /\ e.time = t
  BY <1>1, <1>2, <1>3
<1>5. \A i \in 1 .. n : \E e \in Scheduled(s, id, t) : e.ev = s[i] /\ e.time = t
  BY <1>2, <1>3
<1> QED
  BY <1>1, <1>4, <1>5 DEF n

\* What process_event and the drain schedule contains a Poll for ready tasks and
\* every deferred wake.
LEMMA TrailingFacts ==
    ASSUME Polls
    PROVE  /\ IsSequence(Trailing)
           /\ ready_queue # <<>> => \E i \in 1 .. Len(Trailing) : Trailing[i] = Poll
           /\ ready_queue = <<>> =>
                \A i \in 1 .. Len(deferred) : i \in 1 .. Len(Trailing) /\ Trailing[i] = deferred[i]
<1>1. PICK S : deferred \in Seq(S)
  BY DEF Polls, IsSequence
<1> DEFINE T == S \cup {Poll}
<1>2. deferred \in Seq(T) /\ Poll \in T
  BY <1>1
<1> HIDE DEF T
<1>3. CASE ready_queue # <<>>
  <2>1. Trailing = <<Poll>> \o deferred
    BY <1>3 DEF Trailing
  <2>2. <<Poll>> \in Seq(T) /\ Len(<<Poll>>) = 1 /\ <<Poll>>[1] = Poll
    BY <1>2
  <2>3. Trailing \in Seq(T) /\ Len(Trailing) = 1 + Len(deferred) /\ Len(deferred) \in Nat
    BY <1>2, <2>1, <2>2
  <2>4. Trailing[1] = Poll
    BY <1>2, <2>1, <2>2
  <2> QED
    BY <1>3, <2>3, <2>4 DEF IsSequence
<1>4. CASE ready_queue = <<>>
  <2>1. Trailing = <<>> \o deferred
    BY <1>4 DEF Trailing
  <2>2. Trailing = deferred
    BY <1>2, <2>1
  <2> QED
    BY <1>2, <1>4, <2>2 DEF IsSequence
<1> QED
  BY <1>3, <1>4

----------------------------------------------------------------------------
(* The steps. *)

\* The calls of user code, as far as the invariant sees them: the heap and the
\* timers stay, and work that comes up within a step defers a Poll.
UserStep ==
    /\ UNCHANGED <<queue_vars, timer_vars, in_step, polling>>
    /\ IsSequence(deferred')
    /\ \A i \in 1 .. Len(deferred) : \E j \in 1 .. Len(deferred') : deferred'[j] = deferred[i]
    /\ in_step => ready_queue' = ready_queue
    /\ Work' => Work \/ (in_step /\ \E i \in 1 .. Len(deferred') : deferred'[i] = Poll)
                     \/ InSetup

\* Every call of user code is a UserStep: it leaves heap, timers and ready tasks
\* alone and tells the runtime of what it spawned.
LEMMA UserCallCases ==
    ASSUME BetweenSteps = FALSE, Polls, UserCall
    PROVE  UserStep
<1>0. IsSequence(deferred) /\ (polling # Nil => in_step)
  BY DEF Polls
<1>1. CASE Spawn
  <2>1. UNCHANGED <<queue_vars, timer_vars, in_step, polling, ready_queue>>
    BY <1>1 DEF Spawn, step_vars
  <2>2. CASE in_step
    BY <1>0, <1>1, <2>1, <2>2, Deferral DEF Spawn, DeferInStep, UserStep
  <2>3. CASE ~in_step
    <3>1. InSetup /\ deferred' = deferred
      BY <1>0, <1>1, <2>3 DEF Spawn, UserCodeRuns, DeferInStep
    <3> QED
      BY <1>0, <2>1, <2>3, <3>1 DEF UserStep
  <2> QED
    BY <2>2, <2>3
<1>2. CASE SpawnDirectly
  BY <1>0, <1>2 DEF SpawnDirectly, UserStep, step_vars, InSetup
<1>3. ASSUME UNCHANGED <<queue_vars, timer_vars, in_step, polling, ready_queue>>,
             Work' => Work,
             deferred' = deferred \/ \E x : deferred' = Append(deferred, x)
      PROVE  UserStep
  <2>1. CASE deferred' = deferred
    BY <1>0, <1>3, <2>1 DEF UserStep
  <2>2. CASE \E x : deferred' = Append(deferred, x)
    <3>1. PICK x : deferred' = Append(deferred, x)
      BY <2>2
    <3>2. /\ IsSequence(deferred')
          /\ \A i \in 1 .. Len(deferred) : i \in 1 .. Len(deferred') /\ deferred'[i] = deferred[i]
      BY <1>0, <3>1, Deferral
    <3> QED
      BY <1>3, <3>2 DEF UserStep
  <2> QED
    BY <1>3, <2>1, <2>2
<1>4. ASSUME NEW t \in TaskId, CancelTask(t)
      PROVE  UserStep
  <2>1. UNCHANGED <<queue_vars, timer_vars, in_step, polling, ready_queue>>
    BY <1>4 DEF CancelTask, step_vars
  <2>2. Work' => Work
    <3>1. spawn_queue = <<>> => spawn_queue' = <<>>
      BY <1>4, WithoutNothing DEF CancelTask
    <3>2. spawn_queue_local = <<>> => spawn_queue_local' = <<>>
      BY <1>4, WithoutNothing DEF CancelTask
    <3> QED
      BY <2>1, <3>1, <3>2 DEF Work
  <2>3. deferred' = deferred \/ deferred' = Append(deferred, Cancel(t))
    BY <1>4 DEF CancelTask, DeferInStep
  <2> QED
    BY <1>3, <2>1, <2>2, <2>3
<1>5. ASSUME NEW t \in TaskId, WakeTask(t)
      PROVE  UserStep
  <2>1. UNCHANGED <<queue_vars, timer_vars, in_step, polling, ready_queue, spawn_queue,
                    spawn_queue_local>>
    BY <1>5 DEF WakeTask, runtime_vars, step_vars
  <2>2. deferred' = Append(deferred, Wake(t))
    BY <1>5 DEF WakeTask
  <2> QED
    BY <1>3, <2>1, <2>2 DEF Work
<1>6. ASSUME NEW s \in Slot, NEW d \in Delay, SleepStarts(s, d)
      PROVE  UserStep
  <2>1. UNCHANGED <<queue_vars, timer_vars, in_step, polling, ready_queue, spawn_queue,
                    spawn_queue_local>>
    BY <1>6 DEF SleepStarts, runtime_vars, step_vars
  <2>2. deferred' = deferred \/ deferred' = Append(deferred, RegisterTimer(polling, AddTime(now, d)))
    BY <1>6 DEF SleepStarts
  <2> QED
    BY <1>3, <2>1, <2>2 DEF Work
<1>7. ASSUME NEW s \in Slot, SleepDropped(s)
      PROVE  UserStep
  <2>1. UNCHANGED <<queue_vars, timer_vars, in_step, polling, ready_queue, spawn_queue,
                    spawn_queue_local>>
    BY <1>7 DEF SleepDropped, runtime_vars, step_vars
  <2>2. deferred' = Append(deferred, CancelTimer(polling, sleeps[polling][s]))
    BY <1>7 DEF SleepDropped
  <2> QED
    BY <1>3, <2>1, <2>2 DEF Work
<1> QED
  BY <1>1, <1>2, <1>4, <1>5, <1>6, <1>7 DEF UserCall

\* Calls of user code keep the invariant.
LEMMA UserStepInv ==
    ASSUME IndInv, UserStep
    PROVE  IndInv'
<1> USE DEF IndInv
<1>1. Entries'
  BY DEF UserStep, Entries, queue_vars
<1>2. Ticks'
  BY DEF UserStep, Ticks, TickFor, queue_vars, timer_vars
<1>3. ~in_step /\ Work' => \E e \in events : e.ev = Poll /\ e.time = now
  <2>1. InSetup => \E e \in events : e.ev = Poll /\ e.time = now
    BY MaxTimeAssumption DEF InSetup, Entries, Time
  <2> QED
    BY <2>1 DEF UserStep, Polls
<1>4. in_step /\ Work' => \E i \in 1 .. Len(deferred') : deferred'[i] = Poll
  BY DEF UserStep, Polls, InSetup
<1>5. Polls'
  BY <1>3, <1>4 DEF UserStep, Polls, queue_vars
<1> QED
  BY <1>1, <1>2, <1>5

\* An entry is taken: the clock moves to it and no entry falls behind.
LEMMA TakenFacts ==
    ASSUME IndInv, NEW e \in events, Taken(e)
    PROVE  /\ ~in_step /\ polling = Nil
           /\ now' = e.time /\ now' \in Time /\ now' >= now
           /\ \A f \in events : f.time >= now'
           /\ \A f \in events : f.time = now => now' = now
<1>1. \A f \in events : e.time <= f.time /\ f.time \in Nat /\ f.time >= now
  BY MaxTimeAssumption DEF IndInv, Entries, Taken, Choice, Time
<1>2. now \in Nat
  BY MaxTimeAssumption DEF IndInv, Entries, Time
<1> QED
  BY <1>1, <1>2 DEF IndInv, Entries, Polls, Taken

\* poll_ready_tasks starts with every queue drained.
LEMMA StartCyclePolls ==
    ASSUME IndInv, NEW s, StartCycle(s)
    PROVE  Polls'
BY DEF IndInv, Polls, StartCycle, Work

\* Poll and Wake events keep the invariant.
LEMMA ProcessPollWakeInv ==
    ASSUME IndInv, NEW e \in events, ProcessPoll(e) \/ ProcessWake(e)
    PROVE  IndInv'
<1>1. Taken(e) /\ events' = events \ {e} /\ e.ev # TimerTick
  BY DEF ProcessPoll, ProcessWake, Poll, TimerTick, RuntimeEvent
<1>2. UNCHANGED <<next_event_id, timers, next_timer_deadline>>
  BY DEF ProcessPoll, ProcessWake, timer_vars
<1>3. Entries'
  BY <1>1, <1>2, TakenFacts DEF IndInv, Entries
<1>4. Ticks'
  <2>1. NextDeadline(timers') = NextDeadline(timers)
    BY <1>2
  <2> QED
    BY <1>1, <1>2, <2>1, TakenFacts DEF IndInv, Ticks, TickFor
<1>5. Polls'
  BY StartCyclePolls DEF ProcessPoll, ProcessWake
<1> QED
  BY <1>3, <1>4, <1>5 DEF IndInv

\* handle_timer_tick keeps the invariant: the next tick is in the heap again.
LEMMA ProcessTimerTickInv ==
    ASSUME IndInv, NEW e \in events, ProcessTimerTick(e)
    PROVE  IndInv'
<1> DEFINE tick == NextTick(Remaining(e.time), Nil, e.time)
<1>1. Taken(e)
  BY DEF ProcessTimerTick
<1>2. /\ now' = e.time /\ e.time \in Time
      /\ \A f \in events : f.time >= e.time
  BY <1>1, TakenFacts
<1>3. /\ events' = (events \ {e}) \cup tick
      /\ next_event_id' = next_event_id + Cardinality(tick)
      /\ timers' = Remaining(e.time)
      /\ next_timer_deadline' = NextDeadline(timers')
  BY DEF ProcessTimerTick
<1>4. /\ Cardinality(tick) \in Nat
      /\ \A f \in tick : /\ f.seq \in Nat /\ f.seq > next_event_id
                         /\ f.seq <= next_event_id + Cardinality(tick)
                         /\ f.time \in Time /\ f.time >= e.time
                         /\ f.ev = TimerTick
                         /\ f.time = e.time \/ f.time <= NextDeadline(Remaining(e.time))
      /\ NextDeadline(Remaining(e.time)) # Nil => tick # {}
  BY <1>2, NextTickEntries DEF IndInv, Entries
<1> HIDE DEF tick
<1>5. Entries'
  BY <1>2, <1>3, <1>4 DEF IndInv, Entries
<1>6. Ticks'
  <2>1. NextDeadline(timers') = NextDeadline(Remaining(e.time))
    BY <1>3
  <2>2. NextDeadline(timers') # Nil =>
          \E f \in events' : f.ev = TimerTick /\ (f.time = now' \/ f.time <= NextDeadline(timers'))
    BY <1>2, <1>3, <1>4, <2>1
  <2> QED
    BY <1>3, <2>2 DEF Ticks, TickFor
<1>7. Polls'
  BY StartCyclePolls DEF ProcessTimerTick
<1> QED
  BY <1>5, <1>6, <1>7 DEF IndInv

\* A handler that only changes the timers.
LEMMA HandleTimersInv ==
    ASSUME IndInv, NEW e \in events, Taken(e), e.ev # Poll, e.ev # TimerTick,
           NEW tm, NEW reschedule \in BOOLEAN, HandleTimers(e, tm, reschedule),
           ~reschedule => NextDeadline(tm) = NextDeadline(timers)
    PROVE  IndInv'
<1> DEFINE tick == IF reschedule THEN NextTick(tm, next_timer_deadline, e.time) ELSE {}
           id == next_event_id + Cardinality(tick)
           more == Scheduled(Trailing, id, e.time)
<1>1. /\ now' = e.time /\ e.time \in Time /\ ~in_step /\ polling = Nil
      /\ \A f \in events : f.time >= e.time
      /\ \A f \in events : f.time = now => now' = now
  BY TakenFacts
<1>2. /\ timers' = tm
      /\ next_timer_deadline' = IF reschedule THEN NextDeadline(tm) ELSE next_timer_deadline
      /\ events' = (events \ {e}) \cup tick \cup more
      /\ next_event_id' = id + Len(Trailing)
      /\ deferred' = <<>>
      /\ UNCHANGED <<ready_queue, spawn_queue, spawn_queue_local, in_step, polling>>
  BY DEF HandleTimers, step_vars
<1>3. /\ Cardinality(tick) \in Nat
      /\ \A f \in tick : /\ f.seq \in Nat /\ f.seq > next_event_id
                         /\ f.seq <= next_event_id + Cardinality(tick)
                         /\ f.time \in Time /\ f.time >= e.time
                         /\ f.ev = TimerTick
                         /\ f.time = e.time \/ f.time <= NextDeadline(tm)
      /\ reschedule /\ NextDeadline(tm) \notin {next_timer_deadline, Nil} => tick # {}
  <2>1. CASE reschedule
    BY <1>1, <2>1, NextTickEntries DEF IndInv, Entries
  <2>2. CASE ~reschedule
    BY <2>2, FS_EmptySet
  <2> QED
    BY <2>1, <2>2
<1>4. /\ next_event_id \in Nat /\ next_event_id > 0 /\ id \in Nat /\ id >= next_event_id
  BY <1>3 DEF IndInv, Entries
<1>5. /\ Len(Trailing) \in Nat
      /\ \A f \in more : /\ f.seq \in Nat /\ f.seq > id /\ f.seq <= id + Len(Trailing)
                         /\ f.time = e.time
      /\ ready_queue # <<>> => \E f \in more : f.ev = Poll /\ f.time = e.time
  BY <1>4, ScheduledEntries, TrailingFacts DEF IndInv
<1>6. id = next_event_id + Cardinality(tick)
  OBVIOUS
<1> HIDE DEF tick, id, more
<1>7. Entries'
  <2>1. next_event_id' \in Nat /\ next_event_id' > 0 /\ next_event_id' >= id
    BY <1>2, <1>4, <1>5
  <2>2. \A f \in events' : /\ f.seq \in Nat /\ f.seq <= next_event_id'
                           /\ f.time \in Time /\ f.time >= now'
                           /\ f.seq = 1 => f.ev = Poll /\ f.time = 0
    <3> SUFFICES ASSUME NEW f \in events'
                 PROVE  /\ f.seq \in Nat /\ f.seq <= next_event_id'
                        /\ f.time \in Time /\ f.time >= now'
                        /\ f.seq = 1 => f.ev = Poll /\ f.time = 0
      OBVIOUS
    <3>1. CASE f \in events
      BY <1>1, <1>4, <2>1, <3>1 DEF IndInv, Entries
    <3>2. CASE f \in tick
      BY <1>1, <1>3, <1>4, <1>6, <2>1, <3>2
    <3>3. CASE f \in more
      BY <1>1, <1>2, <1>4, <1>5, <3>3, MaxTimeAssumption DEF Time
    <3> QED
      BY <1>2, <3>1, <3>2, <3>3
  <2> QED
    BY <1>1, <2>1, <2>2 DEF Entries
<1>8. Ticks'
  <2>1. next_timer_deadline = NextDeadline(timers) /\ TickFor(timers)
    BY DEF IndInv, Ticks
  <2>2. NextDeadline(timers') = NextDeadline(tm) /\ next_timer_deadline' = NextDeadline(tm)
    BY <1>2, <2>1
  <2>3. CASE NextDeadline(tm) = Nil
    BY <2>2, <2>3 DEF Ticks, TickFor
  <2>4. CASE NextDeadline(tm) # Nil /\ NextDeadline(tm) = NextDeadline(timers)
    <3>1. PICK k \in events : k.ev = TimerTick /\ (k.time = now \/ k.time <= NextDeadline(tm))
      BY <2>1, <2>4 DEF TickFor
    <3>2. k \in events' /\ (k.time = now' \/ k.time <= NextDeadline(tm))
      BY <1>1, <1>2, <3>1
    <3> QED
      BY <2>2, <3>1, <3>2 DEF Ticks, TickFor
  <2>5. CASE NextDeadline(tm) # Nil /\ NextDeadline(tm) # NextDeadline(timers)
    <3>1. PICK k \in tick : TRUE
      BY <1>3, <2>1, <2>5
    <3>2. k \in events' /\ k.ev = TimerTick /\ (k.time = now' \/ k.time <= NextDeadline(tm))
      BY <1>1, <1>2, <1>3, <3>1
    <3> QED
      BY <2>2, <3>2 DEF Ticks, TickFor
  <2> QED
    BY <2>3, <2>4, <2>5
<1>9. Polls'
  <2>1. Work' => \E f \in events' : f.ev = Poll /\ f.time = now'
    <3>1. CASE ready_queue # <<>>
      BY <1>1, <1>2, <1>5, <3>1
    <3>2. CASE Work
      <4>1. PICK f \in events : f.ev = Poll /\ f.time = now
        BY <1>1, <3>2 DEF IndInv, Polls
      <4> QED
        BY <1>1, <1>2, <4>1
    <3> QED
      BY <1>2, <3>2 DEF Work
  <2>2. IsSequence(deferred')
    BY <1>2 DEF IsSequence
  <2> QED
    BY <1>1, <1>2, <2>1, <2>2 DEF Polls
<1> QED
  BY <1>7, <1>8, <1>9 DEF IndInv

\* register_timer, cancel_timer and cancel_task keep the invariant.
LEMMA ProcessTimersInv ==
    ASSUME IndInv, NEW e \in events,
           ProcessRegisterTimer(e) \/ ProcessCancelTimer(e) \/ ProcessCancel(e)
    PROVE  IndInv'
<1>1. Taken(e) /\ e.ev # Poll /\ e.ev # TimerTick
  <2>1. Taken(e) /\ e.ev.op \in {"RegisterTimer", "CancelTimer", "Cancel"}
    BY DEF ProcessRegisterTimer, ProcessCancelTimer, ProcessCancel
  <2>2. Poll.op = "Poll" /\ TimerTick.op = "TimerTick"
    BY DEF Poll, TimerTick, RuntimeEvent
  <2> QED
    BY <2>1, <2>2
<1>2. CASE ProcessRegisterTimer(e)
  <2>1. CASE Accepts(e.ev.task)
    <3>1. HandleTimers(e, Registered(e.ev.task, e.ev.deadline), TRUE)
      BY <1>2, <2>1 DEF ProcessRegisterTimer
    <3> QED
      BY <1>1, <3>1, HandleTimersInv
  <2>2. CASE ~Accepts(e.ev.task)
    <3>1. HandleTimers(e, timers, FALSE)
      BY <1>2, <2>2 DEF ProcessRegisterTimer
    <3> QED
      BY <1>1, <3>1, HandleTimersInv
  <2> QED
    BY <2>1, <2>2
<1>3. CASE ProcessCancelTimer(e)
  <2>1. PICK tm : tm = Retracted(e.ev.task, e.ev.deadline)
    OBVIOUS
  <2>2. PICK b \in BOOLEAN : b <=> Deadlines(tm) # Deadlines(timers)
    OBVIOUS
  <2>3. HandleTimers(e, tm, b)
    <3>1. CASE Deadlines(tm) = Deadlines(timers)
      BY <1>3, <2>1, <2>2, <3>1 DEF ProcessCancelTimer, HandleTimers
    <3>2. CASE Deadlines(tm) # Deadlines(timers)
      BY <1>3, <2>1, <2>2, <3>2 DEF ProcessCancelTimer, HandleTimers
    <3> QED
      BY <3>1, <3>2
  <2>4. ~b => NextDeadline(tm) = NextDeadline(timers)
    BY <2>2 DEF NextDeadline
  <2> QED
    BY <1>1, <2>3, <2>4, HandleTimersInv
<1>4. CASE ProcessCancel(e)
  <2>1. PICK tm : tm = Purged(e.ev.task)
    OBVIOUS
  <2>2. HandleTimers(e, tm, TRUE)
    BY <1>4, <2>1 DEF ProcessCancel
  <2> QED
    BY <1>1, <2>2, HandleTimersInv
<1> QED
  BY <1>2, <1>3, <1>4

\* The polls of a cycle leave heap, timers and queues alone.
LEMMA CycleInv ==
    ASSUME IndInv,
           \/ \E i \in 1 .. Len(poll_set) : ChoosePoll(i)
           \/ \E s \in Slot : SleepEnds(s)
           \/ PollPending \/ PollReady
    PROVE  IndInv'
<1>1. /\ UNCHANGED <<now, events, next_event_id, deferred, timers, next_timer_deadline, in_step>>
      /\ UNCHANGED <<ready_queue, spawn_queue, spawn_queue_local>>
      /\ polling' # Nil => in_step
  BY DEF ChoosePoll, SleepEnds, PollPending, PollReady, queue_vars, timer_vars, runtime_vars,
     step_vars, IndInv, Polls
<1> QED
  BY <1>1 DEF IndInv, Entries, Ticks, TickFor, Polls, Work

\* The end of process_event and of the step keeps the invariant.
LEMMA EndCycleInv ==
    ASSUME IndInv, EndCycle
    PROVE  IndInv'
<1> DEFINE more == Scheduled(Trailing, next_event_id, now)
<1>1. /\ events' = events \cup more
      /\ next_event_id' = next_event_id + Len(Trailing)
      /\ deferred' = <<>> /\ in_step /\ in_step' = FALSE /\ polling' = Nil
      /\ UNCHANGED <<now, timers, next_timer_deadline, ready_queue, spawn_queue, spawn_queue_local>>
  BY DEF EndCycle, runtime_vars, timer_vars
<1>2. next_event_id \in Nat /\ next_event_id > 0 /\ now \in Time
  BY DEF IndInv, Entries
<1>3. /\ Len(Trailing) \in Nat
      /\ \A f \in more : /\ f.seq \in Nat /\ f.seq > next_event_id
                         /\ f.seq <= next_event_id + Len(Trailing)
                         /\ f.time = now
      /\ \A i \in 1 .. Len(Trailing) : \E f \in more : f.ev = Trailing[i] /\ f.time = now
  BY <1>2, ScheduledEntries, TrailingFacts DEF IndInv
<1> HIDE DEF more
<1>4. Entries'
  <2>1. next_event_id' \in Nat /\ next_event_id' >= next_event_id
    BY <1>1, <1>2, <1>3
  <2>2. now \in Nat
    BY <1>2, MaxTimeAssumption DEF Time
  <2> QED
    BY <1>1, <1>2, <1>3, <2>1, <2>2 DEF IndInv, Entries
<1>5. Ticks'
  BY <1>1 DEF IndInv, Ticks, TickFor
<1>6. Work' => \E f \in events' : f.ev = Poll /\ f.time = now'
  <2> SUFFICES ASSUME Work PROVE \E f \in events' : f.ev = Poll /\ f.time = now'
    BY <1>1 DEF Work
  <2>1. PICK i \in 1 .. Len(deferred) : deferred[i] = Poll
    BY <1>1 DEF IndInv, Polls
  <2>2. i \in 1 .. Len(Trailing) /\ Trailing[i] = Poll
    BY <1>1, <2>1, TrailingFacts DEF IndInv, Polls
  <2> QED
    BY <1>1, <1>3, <2>2
<1>7. IsSequence(deferred')
  BY <1>1 DEF IsSequence
<1>8. Polls'
  BY <1>1, <1>6, <1>7 DEF Polls
<1> QED
  BY <1>4, <1>5, <1>8 DEF IndInv

----------------------------------------------------------------------------
(* The theorems, for programs that use the handles from within the         *)
(* simulation or before it starts.                                         *)

\* The invariant holds once the runtime is installed.
LEMMA InitInv == Init => IndInv
<1> SUFFICES ASSUME Init PROVE IndInv
  OBVIOUS
<1>1. Entries
  BY MaxTimeAssumption DEF Init, Entries, Time
<1>2. Deadlines(timers) = {}
  BY DEF Init, Deadlines
<1>3. Ticks
  BY <1>2 DEF Init, Ticks, TickFor, NextDeadline, Earliest
<1>4. IsSequence(deferred)
  BY DEF Init, IsSequence
<1>5. Polls
  BY <1>4 DEF Init, Polls, Work
<1> QED
  BY <1>1, <1>3, <1>5 DEF IndInv

\* The invariant is kept by every step, if user code runs in setup and polls only.
LEMMA NextInv ==
    ASSUME BetweenSteps = FALSE, IndInv, [Next]_vars
    PROVE  IndInv'
<1>1. CASE UserCall
  BY <1>1, UserCallCases, UserStepInv DEF IndInv
<1>2. CASE Step
  BY <1>2, ProcessPollWakeInv, ProcessTimerTickInv, ProcessTimersInv, CycleInv, EndCycleInv
     DEF Step, ProcessEvent
<1>3. CASE UNCHANGED vars
  <2>1. UNCHANGED <<now, events, next_event_id, deferred, timers, next_timer_deadline, in_step,
                    ready_queue, spawn_queue, spawn_queue_local, polling>>
    BY <1>3 DEF vars, queue_vars, runtime_vars, timer_vars, step_vars
  <2> QED
    BY <2>1 DEF IndInv, Entries, Ticks, TickFor, Polls, Work
<1> QED
  BY <1>1, <1>2, <1>3 DEF Next

\* If user code runs in setup and polls only, the inductive invariant always holds.
THEOREM Invariance ==
    ASSUME BetweenSteps = FALSE
    PROVE  Spec => []IndInv
BY InitInv, NextInv, PTL DEF Spec

\* DesRuntimeHandle::spawn: a Poll is due for whatever was spawned.
THEOREM SpawnedArePolled ==
    ASSUME BetweenSteps = FALSE
    PROVE  Spec => []SpawnedIsPolled
<1>1. IndInv => SpawnedIsPolled
  BY DEF IndInv, Polls, Work, SpawnedIsPolled
<1> QED
  BY <1>1, Invariance, PTL

\* schedule_next_timer_tick: the clock never passes a deadline, a ready task or
\* a spawned one, whatever is registered and cancelled and under any policy.
THEOREM NoWorkIsPassed ==
    ASSUME BetweenSteps = FALSE
    PROVE  Spec => ClockWaitsForWork
<1>1. IndInv /\ [Next]_vars =>
        [now' # now => /\ ready_queue = <<>>
                       /\ spawn_queue = <<>> /\ spawn_queue_local = <<>>
                       /\ \A d \in Deadlines(timers) : now' <= d]_vars
  <2> SUFFICES ASSUME IndInv, [Next]_vars, now' # now
               PROVE  /\ ~Work
                      /\ \A d \in Deadlines(timers) : now' <= d
    BY DEF Work
  <2>1. PICK e \in events : Taken(e)
    <3>1. CASE UserCall
      BY <3>1 DEF UserCall, Spawn, SpawnDirectly, CancelTask, WakeTask, SleepStarts, SleepDropped,
         queue_vars
    <3>2. CASE Step /\ ~ProcessEvent
      BY <3>2 DEF Step, ChoosePoll, SleepEnds, PollPending, PollReady, EndCycle, queue_vars
    <3>3. CASE ProcessEvent
      BY <3>3 DEF ProcessEvent, ProcessPoll, ProcessWake, ProcessTimerTick, ProcessRegisterTimer,
         ProcessCancelTimer, ProcessCancel
    <3>4. CASE UNCHANGED vars
      BY <3>4 DEF vars, queue_vars
    <3> QED
      BY <3>1, <3>2, <3>3, <3>4 DEF Next
  <2>2. /\ ~in_step /\ now' \in Time
        /\ \A f \in events : f.time >= now' /\ f.time # now
    BY <2>1, TakenFacts
  <2>3. ~Work
    BY <2>2 DEF IndInv, Polls
  <2>4. ASSUME NEW d \in Deadlines(timers)
        PROVE  now' <= d
    <3>1. NextDeadline(timers) # Nil /\ NextDeadline(timers) <= d /\ NextDeadline(timers) \in Time
      BY NextDeadlineIsLeast
    <3>2. PICK k \in events : k.ev = TimerTick /\ k.time <= NextDeadline(timers)
      BY <2>2, <3>1 DEF IndInv, Ticks, TickFor
    <3>3. k.time \in Time /\ k.time >= now'
      BY <2>2 DEF IndInv, Entries
    <3> QED
      BY <2>2, <3>1, <3>2, <3>3, MaxTimeAssumption DEF Time, Deadlines
  <2> QED
    BY <2>3, <2>4
<1> QED
  BY <1>1, Invariance, PTL DEF Spec, ClockWaitsForWork

----------------------------------------------------------------------------
(* The tasks: flags, queues and cancellation.  These hold for every program *)
(* and under every policy.                                                  *)

\* The tasks that are to be installed, those that are due in this cycle or the
\* next, and those that left a trace elsewhere.
Spawned == ToSet(spawn_queue) \cup ToSet(spawn_queue_local)
Due == ToSet(ready_queue) \cup ToSet(poll_set)
Timed == UNION {ToSet(timers[d]) : d \in Time}
Seen == tasks \cup cancelled \cup Due \cup Timed

\* Within a step nothing is pushed to the ready queue, and between steps there is
\* no cycle under way.
Phases ==
    /\ in_step => ready_queue = <<>>
    /\ ~in_step => poll_set = <<>> /\ polling = Nil /\ deferred = <<>>

\* The flags are those of the tasks that are due, and these are due once.
Flags ==
    /\ NoRepeats(ready_queue) /\ NoRepeats(poll_set)
    /\ queued = tasks \cap Due
    /\ polling \notin queued

\* A task that is to be installed is in one place, once, and in no other.
Spawns ==
    /\ NoRepeats(spawn_queue) /\ NoRepeats(spawn_queue_local)
    /\ ToSet(spawn_queue) \cap ToSet(spawn_queue_local) = {}
    /\ Spawned \cap Seen = {}
    /\ Spawned \cup Seen \subseteq 1 .. next_task_id

\* A cancelled task of which something is left has its Cancel to come.
Cancels == \A t \in cancelled : t \in tasks \cup Timed => Pending(Cancel(t))

RuntimeInv == TypeOK /\ Phases /\ Flags /\ Spawns /\ Cancels

\* The elements of an empty sequence.
LEMMA NoElements == ToSet(<<>>) = {} /\ NoRepeats(<<>>)
BY DEF ToSet, NoRepeats

\* The events of the runtime.
LEMMA EventKinds ==
    /\ Poll \in RuntimeEvents /\ TimerTick \in RuntimeEvents
    /\ \A t \in TaskId : Wake(t) \in RuntimeEvents /\ Cancel(t) \in RuntimeEvents
    /\ \A t \in TaskId, d \in Time : /\ RegisterTimer(t, d) \in RuntimeEvents
                                     /\ CancelTimer(t, d) \in RuntimeEvents
    /\ \A t : Cancel(t).op = "Cancel" /\ Cancel(t).task = t
    /\ Poll.op = "Poll" /\ TimerTick.op = "TimerTick"
<1>1. /\ Poll \in RuntimeEvents /\ TimerTick \in RuntimeEvents
      /\ \A t \in TaskId : Wake(t) \in RuntimeEvents /\ Cancel(t) \in RuntimeEvents
      /\ \A t \in TaskId, d \in Time : /\ RegisterTimer(t, d) \in RuntimeEvents
                                       /\ CancelTimer(t, d) \in RuntimeEvents
  <2> DEFINE W == {Wake(t) : t \in TaskId}
             C == {Cancel(t) : t \in TaskId}
             R == {RegisterTimer(t, d) : t \in TaskId, d \in Time}
             D == {CancelTimer(t, d) : t \in TaskId, d \in Time}
  <2>1. \A t \in TaskId : Wake(t) \in W /\ Cancel(t) \in C
    OBVIOUS
  <2>2. \A t \in TaskId, d \in Time : RegisterTimer(t, d) \in R /\ CancelTimer(t, d) \in D
    OBVIOUS
  <2>3. RuntimeEvents = {Poll, TimerTick} \cup W \cup C \cup R \cup D
    BY DEF RuntimeEvents
  <2> HIDE DEF W, C, R, D
  <2> QED
    BY <2>1, <2>2, <2>3
<1>2. /\ \A t : Cancel(t).op = "Cancel" /\ Cancel(t).task = t
      /\ Poll.op = "Poll" /\ TimerTick.op = "TimerTick"
  BY DEF Poll, TimerTick, Cancel, RuntimeEvent
<1> QED
  BY <1>1, <1>2

\* What a handler reads from its event.
LEMMA EventFields ==
    ASSUME NEW ev \in RuntimeEvents
    PROVE  /\ ev.op = "Wake" => ev.task \in TaskId
           /\ ev.op = "Cancel" => ev.task \in TaskId /\ ev = Cancel(ev.task)
           /\ ev.op = "RegisterTimer" => /\ ev.task \in TaskId /\ ev.deadline \in Time
                                         /\ ev = RegisterTimer(ev.task, ev.deadline)
           /\ ev.op = "CancelTimer" => /\ ev.task \in TaskId /\ ev.deadline \in Time
                                       /\ ev = CancelTimer(ev.task, ev.deadline)
<1>1. CASE ev \in {Poll, TimerTick}
  BY <1>1 DEF Poll, TimerTick, RuntimeEvent
<1>2. CASE \E t \in TaskId : ev = Wake(t) \/ ev = Cancel(t)
  BY <1>2 DEF Wake, Cancel, RuntimeEvent
<1>3. CASE \E t \in TaskId, d \in Time : ev = RegisterTimer(t, d) \/ ev = CancelTimer(t, d)
  BY <1>3 DEF RegisterTimer, CancelTimer, RuntimeEvent
<1> QED
  BY <1>1, <1>2, <1>3 DEF RuntimeEvents

\* Scheduling the tick adds an event to the heap.
LEMMA TickTyped ==
    ASSUME NEW tm, NEW known, NEW t \in Time, next_event_id \in Nat
    PROVE  /\ NextTick(tm, known, t) \subseteq Event
           /\ Cardinality(NextTick(tm, known, t)) \in Nat
<1> DEFINE x == [seq |-> next_event_id + 1,
                 time |-> AddTime(t, SubTime(NextDeadline(tm), t)), ev |-> TimerTick]
<1>1. /\ Cardinality(NextTick(tm, known, t)) \in Nat
      /\ \A e \in NextTick(tm, known, t) : e.time \in Time
  BY NextTickEntries
<1>2. NextTick(tm, known, t) \subseteq {x}
  BY DEF NextTick
<1>3. x.time \in Time => x \in Event
  BY EventKinds DEF Event
<1> HIDE DEF x
<1> QED
  BY <1>1, <1>2, <1>3

\* The entries of Scheduled carry the events of the sequence.
LEMMA ScheduledTyped ==
    ASSUME NEW s \in Seq(RuntimeEvents), NEW id \in Nat, NEW t \in Time
    PROVE  /\ Scheduled(s, id, t) \subseteq Event /\ Len(s) \in Nat
           /\ {e.ev : e \in Scheduled(s, id, t)} = ToSet(s)
<1> DEFINE entry(i) == [seq |-> id + i, time |-> t, ev |-> s[i]]
<1>1. Len(s) \in Nat /\ ToSet(s) = {s[i] : i \in 1 .. Len(s)}
  BY ToSetOf
<1>2. Scheduled(s, id, t) = {entry(i) : i \in 1 .. Len(s)}
  BY DEF Scheduled
<1>3. \A i \in 1 .. Len(s) : entry(i) \in Event /\ entry(i).ev = s[i]
  BY <1>1 DEF Event
<1> HIDE DEF entry
<1> QED
  BY <1>1, <1>2, <1>3

\* Every deferred event is scheduled at the end of the step.
LEMMA TrailingTyped ==
    ASSUME deferred \in Seq(RuntimeEvents)
    PROVE  /\ Trailing \in Seq(RuntimeEvents)
           /\ ToSet(deferred) \subseteq ToSet(Trailing)
<1> DEFINE p == IF ready_queue # <<>> THEN <<Poll>> ELSE <<>>
<1>1. p \in Seq(RuntimeEvents)
  BY EventKinds
<1>2. Trailing = p \o deferred
  BY DEF Trailing
<1> HIDE DEF p
<1> QED
  BY <1>1, <1>2, Joined

\* Deferring keeps what is pending.
LEMMA DeferKeeps ==
    ASSUME deferred \in Seq(RuntimeEvents), events' = events, NEW x \in RuntimeEvents,
           deferred' = deferred \/ deferred' = Append(deferred, x)
    PROVE  /\ deferred' \in Seq(RuntimeEvents)
           /\ \A ev : Pending(ev) => Pending(ev)'
           /\ deferred' = Append(deferred, x) => Pending(x)'
<1>1. CASE deferred' = deferred
  <2>1. deferred = Append(deferred, x) => x \in ToSet(deferred)
    BY Appended
  <2> QED
    BY <1>1, <2>1 DEF Pending
<1>2. CASE deferred' = Append(deferred, x)
  <2>1. deferred' \in Seq(RuntimeEvents) /\ ToSet(deferred') = ToSet(deferred) \cup {x}
    BY <1>2, Appended
  <2> QED
    BY <2>1 DEF Pending
<1> QED
  BY <1>1, <1>2

\* A step of user code that spawns and cancels nothing keeps the invariant.
LEMMA QuietStep ==
    ASSUME RuntimeInv, UNCHANGED <<queue_vars, runtime_vars, timer_vars, step_vars, cancelled>>,
           sleeps' \in [TaskId -> [Slot -> Time \cup {Nil}]], calls' \in 0 .. MaxCalls,
           in_step, NEW x \in RuntimeEvents,
           deferred' = deferred \/ deferred' = Append(deferred, x)
    PROVE  RuntimeInv'
<1> USE DEF RuntimeInv, queue_vars, runtime_vars, timer_vars, step_vars
<1>1. deferred' \in Seq(RuntimeEvents) /\ \A ev : Pending(ev) => Pending(ev)'
  BY DeferKeeps DEF TypeOK
<1>2. TypeOK'
  BY <1>1 DEF TypeOK
<1>3. Phases' /\ Flags' /\ Spawns'
  BY DEF Phases, Flags, Spawns, Due, Timed, Seen, Spawned
<1>4. Cancels'
  BY <1>1 DEF Cancels, Timed
<1> QED
  BY <1>2, <1>3, <1>4

\* A poll of a task that sleeps, wakes another, or is woken keeps the invariant.
LEMMA SleepSteps ==
    ASSUME RuntimeInv,
           \/ \E t \in TaskId : WakeTask(t)
           \/ \E s \in Slot, d \in Delay : SleepStarts(s, d)
           \/ \E s \in Slot : SleepDropped(s) \/ SleepEnds(s)
    PROVE  RuntimeInv'
<1>1. /\ deferred \in Seq(RuntimeEvents) /\ calls \in 0 .. MaxCalls /\ polling \in tasks \cup {Nil}
      /\ sleeps \in [TaskId -> [Slot -> Time \cup {Nil}]] /\ tasks \subseteq TaskId
      /\ now \in Time
      /\ ~in_step => polling = Nil
  BY DEF RuntimeInv, TypeOK, Phases
<1>2. CountCall => calls' \in 0 .. MaxCalls
  BY <1>1, RuntimeAssumption DEF CountCall
<1>3. ASSUME NEW t \in TaskId, WakeTask(t)
      PROVE  RuntimeInv'
  <2>1. Wake(t) \in RuntimeEvents
    BY EventKinds
  <2> QED
    BY <1>1, <1>2, <1>3, <2>1, QuietStep DEF WakeTask
<1>4. ASSUME NEW s \in Slot, NEW d \in Delay, SleepStarts(s, d)
      PROVE  RuntimeInv'
  <2> DEFINE target == AddTime(now, d)
             x == RegisterTimer(polling, target)
  <2>1. target \in Time
    BY <1>1, MaxTimeAssumption, RuntimeAssumption DEF AddTime, Clamp, Time
  <2>2. polling \in TaskId /\ in_step
    BY <1>1, <1>4 DEF SleepStarts
  <2>3. x \in RuntimeEvents
    BY <2>1, <2>2, EventKinds
  <2>4. /\ sleeps' = sleeps \/ sleeps' = [sleeps EXCEPT ![polling][s] = target]
        /\ deferred' = deferred \/ deferred' = Append(deferred, x)
        /\ CountCall /\ UNCHANGED <<queue_vars, runtime_vars, timer_vars, step_vars, cancelled>>
    BY <1>4 DEF SleepStarts
  <2> HIDE DEF target, x
  <2>5. sleeps' \in [TaskId -> [Slot -> Time \cup {Nil}]]
    BY <1>1, <2>1, <2>2, <2>4
  <2> QED
    BY <1>2, <2>2, <2>3, <2>4, <2>5, QuietStep
<1>5. ASSUME NEW s \in Slot, SleepDropped(s) \/ SleepEnds(s)
      PROVE  RuntimeInv'
  <2> DEFINE x == CancelTimer(polling, sleeps[polling][s])
  <2>1. polling \in TaskId /\ in_step /\ sleeps[polling][s] \in Time
    BY <1>1, <1>5 DEF SleepDropped, SleepEnds
  <2>2. x \in RuntimeEvents
    BY <2>1, EventKinds
  <2>3. /\ sleeps' = [sleeps EXCEPT ![polling][s] = Nil]
        /\ deferred' = deferred \/ deferred' = Append(deferred, x)
        /\ calls' = calls /\ UNCHANGED <<queue_vars, runtime_vars, timer_vars, step_vars, cancelled>>
    BY <1>5 DEF SleepDropped, SleepEnds
  <2> HIDE DEF x
  <2>4. sleeps' \in [TaskId -> [Slot -> Time \cup {Nil}]]
    BY <1>1, <2>1, <2>3
  <2> QED
    BY <1>1, <2>1, <2>2, <2>3, <2>4, QuietStep
<1> QED
  BY <1>3, <1>4, <1>5

\* A spawned task gets an id that was never seen.
LEMMA SpawnStep ==
    ASSUME RuntimeInv, Spawn
    PROVE  RuntimeInv'
<1> DEFINE n == next_task_id'
<1>1. /\ n = next_task_id + 1 /\ next_task_id \in 0 .. MaxTask /\ n \in 0 .. MaxTask /\ n \in TaskId
      /\ calls' \in 0 .. MaxCalls /\ deferred \in Seq(RuntimeEvents)
      /\ spawn_queue \in Seq(TaskId) /\ spawn_queue_local \in Seq(TaskId)
      /\ UNCHANGED <<queue_vars, tasks, queued, ready_queue, timer_vars, step_vars, sleeps, cancelled>>
  BY RuntimeAssumption DEF Spawn, FreshTask, CountCall, RuntimeInv, TypeOK, TaskId
<1>2. n \notin Spawned /\ n \notin Seen /\ 1 .. next_task_id \subseteq 1 .. n /\ n \in 1 .. n
  BY <1>1 DEF RuntimeInv, Spawns
<1>3. /\ deferred' \in Seq(RuntimeEvents) /\ \A ev : Pending(ev) => Pending(ev)'
      /\ ~in_step => deferred' = deferred
  <2>1. deferred' = deferred \/ deferred' = Append(deferred, Poll)
    BY DEF Spawn, DeferInStep
  <2>2. Poll \in RuntimeEvents /\ events' = events
    BY <1>1, EventKinds DEF queue_vars
  <2>3. ~in_step => deferred' = deferred
    BY DEF Spawn, DeferInStep
  <2> QED
    BY <1>1, <2>1, <2>2, <2>3, DeferKeeps
<1>4. /\ spawn_queue' \in Seq(TaskId) /\ spawn_queue_local' \in Seq(TaskId)
      /\ NoRepeats(spawn_queue') /\ NoRepeats(spawn_queue_local')
      /\ ToSet(spawn_queue') \cap ToSet(spawn_queue_local') = {}
      /\ Spawned' = Spawned \cup {n}
  <2>1. NoRepeats(spawn_queue) /\ NoRepeats(spawn_queue_local)
        /\ ToSet(spawn_queue) \cap ToSet(spawn_queue_local) = {}
    BY DEF RuntimeInv, Spawns
  <2>2. CASE spawn_queue' = Append(spawn_queue, n) /\ UNCHANGED spawn_queue_local
    <3>1. /\ spawn_queue' \in Seq(TaskId) /\ ToSet(spawn_queue') = ToSet(spawn_queue) \cup {n}
          /\ NoRepeats(spawn_queue')
      BY <1>1, <1>2, <2>1, <2>2, Appended DEF Spawned
    <3> QED
      BY <1>1, <1>2, <2>1, <2>2, <3>1 DEF Spawned
  <2>3. CASE spawn_queue_local' = Append(spawn_queue_local, n) /\ UNCHANGED spawn_queue
    <3>1. /\ spawn_queue_local' \in Seq(TaskId)
          /\ ToSet(spawn_queue_local') = ToSet(spawn_queue_local) \cup {n}
          /\ NoRepeats(spawn_queue_local')
      BY <1>1, <1>2, <2>1, <2>3, Appended DEF Spawned
    <3> QED
      BY <1>1, <1>2, <2>1, <2>3, <3>1 DEF Spawned
  <2> QED
    BY <2>2, <2>3 DEF Spawn
<1> HIDE DEF n
<1>5. Seen' = Seen /\ Timed' = Timed
  BY <1>1 DEF Seen, Timed, Due, timer_vars, step_vars
<1>6. TypeOK'
  BY <1>1, <1>3, <1>4 DEF RuntimeInv, TypeOK, n, queue_vars, timer_vars, step_vars
<1>7. Phases' /\ Flags'
  BY <1>1, <1>3 DEF RuntimeInv, Phases, Flags, Due, step_vars
<1>8. Spawns'
  BY <1>2, <1>4, <1>5 DEF RuntimeInv, Spawns, n
<1>9. Cancels'
  BY <1>1, <1>3, <1>5 DEF RuntimeInv, Cancels
<1> QED
  BY <1>6, <1>7, <1>8, <1>9 DEF RuntimeInv

\* A task spawned on the runtime itself is installed, flagged and ready at once.
LEMMA SpawnDirectlyStep ==
    ASSUME RuntimeInv, SpawnDirectly
    PROVE  RuntimeInv'
<1> DEFINE n == next_task_id'
<1>1. /\ n = next_task_id + 1 /\ next_task_id \in 0 .. MaxTask /\ n \in 0 .. MaxTask /\ n \in TaskId
      /\ calls' \in 0 .. MaxCalls /\ ready_queue \in Seq(TaskId)
      /\ tasks' = tasks \cup {n} /\ queued' = queued \cup {n}
      /\ ready_queue' = Append(ready_queue, n)
      /\ ~in_step
      /\ UNCHANGED <<queue_vars, deferred, spawn_queue, spawn_queue_local, timer_vars, step_vars,
                     sleeps, cancelled>>
  BY RuntimeAssumption DEF SpawnDirectly, FreshTask, CountCall, RuntimeInv, TypeOK, TaskId, InSetup
<1>2. n \notin Spawned /\ n \notin Seen /\ 1 .. next_task_id \subseteq 1 .. n /\ n \in 1 .. n
  BY <1>1 DEF RuntimeInv, Spawns
<1>3. /\ ready_queue' \in Seq(TaskId) /\ ToSet(ready_queue') = ToSet(ready_queue) \cup {n}
      /\ NoRepeats(ready_queue')
  BY <1>1, <1>2, Appended DEF RuntimeInv, Flags, Seen, Due
<1>4. polling = Nil /\ n # Nil
  BY <1>1, RuntimeAssumption DEF RuntimeInv, Phases, TaskId
<1> HIDE DEF n
<1>5. Due' = Due \cup {n} /\ Timed' = Timed /\ Seen' = Seen \cup {n} /\ Spawned' = Spawned
  BY <1>1, <1>3 DEF Seen, Timed, Due, timer_vars, step_vars, Spawned
<1>6. TypeOK'
  BY <1>1, <1>3 DEF RuntimeInv, TypeOK, n, queue_vars, timer_vars, step_vars
<1>7. Phases' /\ Flags'
  <2>1. n \notin Due
    BY <1>2 DEF Seen
  <2> QED
    BY <1>1, <1>3, <1>4, <1>5, <2>1 DEF RuntimeInv, Phases, Flags, step_vars
<1>8. Spawns'
  BY <1>1, <1>2, <1>5 DEF RuntimeInv, Spawns, n
<1>9. Cancels'
  <2>1. n \notin cancelled /\ \A ev : Pending(ev)' <=> Pending(ev)
    BY <1>1, <1>2 DEF Seen, Pending, queue_vars
  <2> QED
    BY <1>1, <1>5, <2>1 DEF RuntimeInv, Cancels
<1> QED
  BY <1>6, <1>7, <1>8, <1>9 DEF RuntimeInv

\* A queue from which a task was filtered out.
LEMMA WithoutFacts ==
    ASSUME NEW q \in Seq(TaskId), NEW t
    PROVE  /\ Without(q, t) \in Seq(TaskId) /\ ToSet(Without(q, t)) = ToSet(q) \ {t}
           /\ NoRepeats(q) => NoRepeats(Without(q, t))
<1>1. ToSet(q) \subseteq TaskId
  BY ToSetOf
<1> DEFINE r == Gather(q, TaskId \ {t}, FALSE)
<1>2. /\ r \in Seq(TaskId) /\ ToSet(r) = ToSet(q) \cap (TaskId \ {t})
      /\ NoRepeats(q) => NoRepeats(r)
  BY GatherFacts
<1> HIDE DEF r
<1> QED
  BY <1>1, <1>2 DEF Without, r

\* cancel: a task that is to be installed is none any more; one that is installed
\* gets its Cancel, if the call is made in a step.
LEMMA CancelTaskStep ==
    ASSUME RuntimeInv, NEW t \in TaskId, CancelTask(t)
    PROVE  RuntimeInv'
<1>1. /\ calls' \in 0 .. MaxCalls /\ deferred \in Seq(RuntimeEvents) /\ t \in 1 .. next_task_id
      /\ spawn_queue \in Seq(TaskId) /\ spawn_queue_local \in Seq(TaskId)
      /\ cancelled \subseteq TaskId
      /\ spawn_queue' = Without(spawn_queue, t)
      /\ spawn_queue_local' = Without(spawn_queue_local, t)
      /\ UNCHANGED <<queue_vars, next_task_id, tasks, queued, ready_queue, timer_vars, step_vars,
                     sleeps>>
  BY RuntimeAssumption DEF CancelTask, CountCall, RuntimeInv, TypeOK, TaskId
<1>2. ToSet(spawn_queue \o spawn_queue_local) = Spawned
  BY <1>1, Joined DEF Spawned
<1>3. cancelled' = IF in_step \/ t \in Spawned THEN cancelled \cup {t} ELSE cancelled
  BY <1>2 DEF CancelTask
<1>4. /\ deferred' \in Seq(RuntimeEvents) /\ \A ev : Pending(ev) => Pending(ev)'
      /\ ~in_step => deferred' = deferred
      /\ in_step => Pending(Cancel(t))'
  <2>1. /\ deferred' = deferred \/ deferred' = Append(deferred, Cancel(t))
        /\ in_step => deferred' = Append(deferred, Cancel(t))
        /\ ~in_step => deferred' = deferred
    BY DEF CancelTask, DeferInStep
  <2>2. Cancel(t) \in RuntimeEvents /\ events' = events
    BY <1>1, EventKinds DEF queue_vars
  <2> QED
    BY <1>1, <2>1, <2>2, DeferKeeps
<1>5. /\ spawn_queue' \in Seq(TaskId) /\ spawn_queue_local' \in Seq(TaskId)
      /\ NoRepeats(spawn_queue') /\ NoRepeats(spawn_queue_local')
      /\ ToSet(spawn_queue') = ToSet(spawn_queue) \ {t}
      /\ ToSet(spawn_queue_local') = ToSet(spawn_queue_local) \ {t}
  BY <1>1, WithoutFacts DEF RuntimeInv, Spawns
<1>6. /\ Spawned' = Spawned \ {t} /\ Timed' = Timed /\ Due' = Due
      /\ Seen' = Seen \/ Seen' = Seen \cup {t}
  BY <1>1, <1>3, <1>5 DEF Spawned, Timed, Due, Seen, timer_vars, step_vars
<1>7. TypeOK'
  <2>1. cancelled' \subseteq TaskId
    BY <1>1, <1>3
  <2> QED
    BY <1>1, <1>4, <1>5, <2>1 DEF RuntimeInv, TypeOK, queue_vars, timer_vars, step_vars
<1>8. Phases' /\ Flags'
  BY <1>1, <1>4, <1>6 DEF RuntimeInv, Phases, Flags, step_vars
<1>9. Spawns'
  BY <1>1, <1>5, <1>6 DEF RuntimeInv, Spawns
<1>10. Cancels'
  <2> SUFFICES ASSUME NEW u \in cancelled', u \in tasks \cup Timed
               PROVE  Pending(Cancel(u))'
    BY <1>1, <1>6 DEF Cancels
  <2>1. CASE u \in cancelled
    BY <1>4, <2>1 DEF RuntimeInv, Cancels
  <2>2. CASE u \notin cancelled
    BY <1>3, <1>4, <2>2 DEF RuntimeInv, Spawns, Seen
  <2> QED
    BY <2>1, <2>2
<1> QED
  BY <1>7, <1>8, <1>9, <1>10 DEF RuntimeInv

\* The task a wake or a timer is for is woken unless it is flagged or over.
LEMMA WokenFacts ==
    ASSUME NEW s \in Seq(TaskId)
    PROVE  /\ Woken(s) \in Seq(TaskId) /\ NoRepeats(Woken(s))
           /\ ToSet(Woken(s)) = ToSet(s) \cap (tasks \ queued)
<1> DEFINE r == Gather(s, tasks \ queued, TRUE)
<1>1. r \in Seq(TaskId) /\ ToSet(r) = ToSet(s) \cap (tasks \ queued) /\ NoRepeats(r)
  BY GatherFacts
<1> HIDE DEF r
<1> QED
  BY <1>1 DEF Woken, r

\* A cycle starts with the tasks that are ready, woken or new, each of them once.
LEMMA StartCycleStep ==
    ASSUME RuntimeInv, ~in_step, NEW s \in Seq(TaskId), StartCycle(s),
           now' \in Time, events' \subseteq Event, next_event_id' \in Nat,
           timers' \in [Time -> Seq(TaskId)], next_timer_deadline' \in Time \cup {Nil},
           Timed' \subseteq Timed,
           \A t \in TaskId : Pending(Cancel(t)) => Pending(Cancel(t))'
    PROVE  RuntimeInv'
<1> DEFINE W == Woken(s)
           N == spawn_queue \o spawn_queue_local
           R == ready_queue \o W
<1>1. /\ ready_queue \in Seq(TaskId) /\ spawn_queue \in Seq(TaskId)
      /\ spawn_queue_local \in Seq(TaskId) /\ tasks \subseteq TaskId /\ queued \subseteq tasks
      /\ NoRepeats(ready_queue) /\ NoRepeats(spawn_queue) /\ NoRepeats(spawn_queue_local)
      /\ ToSet(spawn_queue) \cap ToSet(spawn_queue_local) = {}
      /\ poll_set = <<>> /\ polling = Nil /\ deferred = <<>>
      /\ queued = tasks \cap Due /\ Spawned \cap Seen = {}
      /\ Spawned \cup Seen \subseteq 1 .. next_task_id /\ cancelled \subseteq TaskId
  BY DEF RuntimeInv, TypeOK, Phases, Flags, Spawns
<1>2. Due = ToSet(ready_queue)
  BY <1>1, NoElements DEF Due
<1>3. W \in Seq(TaskId) /\ NoRepeats(W) /\ ToSet(W) = ToSet(s) \cap (tasks \ queued)
  BY WokenFacts
<1>4. N \in Seq(TaskId) /\ ToSet(N) = Spawned /\ NoRepeats(N) /\ Spawned \subseteq TaskId
  <2>1. N \in Seq(TaskId) /\ ToSet(N) = Spawned /\ NoRepeats(N)
    BY <1>1, Joined DEF Spawned
  <2> HIDE DEF N
  <2> QED
    BY <2>1, ToSetOf
<1>5. /\ tasks' = tasks \cup ToSet(N) /\ queued' = queued \cup ToSet(W) \cup ToSet(N)
      /\ spawn_queue' = <<>> /\ spawn_queue_local' = <<>> /\ ready_queue' = <<>>
      /\ poll_set' = R \o N /\ in_step' = TRUE
      /\ UNCHANGED <<next_task_id, polling, deferred, sleeps, calls, cancelled>>
  BY DEF StartCycle
<1> HIDE DEF W, N
<1>6. R \in Seq(TaskId) /\ ToSet(R) = Due \cup ToSet(W) /\ NoRepeats(R)
  <2>1. ToSet(ready_queue) \cap ToSet(W) = {}
    BY <1>1, <1>2, <1>3
  <2> QED
    BY <1>1, <1>2, <1>3, <2>1, Joined
<1> HIDE DEF R
<1>7. /\ poll_set' \in Seq(TaskId) /\ ToSet(poll_set') = Due \cup ToSet(W) \cup Spawned
      /\ NoRepeats(poll_set')
  <2>1. ToSet(R) \cap ToSet(N) = {}
    BY <1>1, <1>3, <1>4, <1>6 DEF Seen
  <2> QED
    BY <1>4, <1>5, <1>6, <2>1, Joined
<1>8. /\ Due' = Due \cup ToSet(W) \cup Spawned /\ Spawned' = {}
      /\ Seen' \subseteq Seen \cup Spawned
  <2>1. Due' = Due \cup ToSet(W) \cup Spawned /\ Spawned' = {}
    BY <1>5, <1>7, NoElements DEF Due, Spawned
  <2> QED
    BY <1>3, <1>4, <1>5, <2>1 DEF Seen
<1>9. TypeOK'
  <2>1. tasks' \subseteq TaskId /\ queued' \subseteq tasks' /\ polling' \in tasks' \cup {Nil}
    BY <1>1, <1>3, <1>4, <1>5
  <2>2. /\ ready_queue' \in Seq(TaskId) /\ spawn_queue' \in Seq(TaskId)
        /\ spawn_queue_local' \in Seq(TaskId) /\ in_step' \in BOOLEAN
        /\ deferred' \in Seq(RuntimeEvents)
    BY <1>1, <1>5
  <2>3. /\ next_task_id' \in 0 .. MaxTask /\ calls' \in 0 .. MaxCalls /\ cancelled' \subseteq TaskId
        /\ sleeps' \in [TaskId -> [Slot -> Time \cup {Nil}]]
    BY <1>5 DEF RuntimeInv, TypeOK
  <2> QED
    BY <1>7, <2>1, <2>2, <2>3 DEF TypeOK
<1>10. Phases'
  BY <1>5 DEF Phases
<1>11. Flags'
  <2>1. queued' = tasks' \cap Due'
    BY <1>1, <1>3, <1>4, <1>5, <1>8 DEF Seen
  <2>2. polling' \notin queued'
    BY <1>1, <1>5, <1>9, RuntimeAssumption DEF TypeOK, TaskId
  <2> QED
    BY <1>5, <1>7, <2>1, <2>2, NoElements DEF Flags
<1>12. Spawns'
  BY <1>1, <1>5, <1>8, NoElements DEF Spawns
<1>13. Cancels'
  <2> SUFFICES ASSUME NEW t \in cancelled, t \in tasks' \cup Timed'
               PROVE  Pending(Cancel(t))'
    BY <1>5 DEF Cancels
  <2>1. t \in tasks \cup Timed /\ t \in TaskId
    BY <1>1, <1>4, <1>5 DEF Seen
  <2> QED
    BY <2>1 DEF RuntimeInv, Cancels
<1> QED
  BY <1>9, <1>10, <1>11, <1>12, <1>13 DEF RuntimeInv

\* The entry a step takes is an event of the runtime, and what was pending besides
\* it stays so.
LEMMA TakenEvent ==
    ASSUME RuntimeInv, NEW e \in events, Taken(e), NEW more, events' = (events \ {e}) \cup more,
           deferred' = deferred \/ ToSet(deferred) \subseteq {f.ev : f \in more}
    PROVE  /\ ~in_step /\ e.ev \in RuntimeEvents /\ e.time \in Time /\ now' \in Time
           /\ events \ {e} \subseteq Event
           /\ \A ev : ev # e.ev /\ Pending(ev) => Pending(ev)'
<1>1. events \subseteq Event
  BY DEF RuntimeInv, TypeOK
<1>2. ~in_step /\ e.ev \in RuntimeEvents /\ e.time \in Time /\ now' \in Time
  BY <1>1 DEF Taken, Event
<1>3. ASSUME NEW ev, ev # e.ev, Pending(ev)
      PROVE  Pending(ev)'
  <2>1. CASE \E f \in events : f.ev = ev
    BY <1>3, <2>1 DEF Pending
  <2>2. CASE ev \in ToSet(deferred)
    BY <2>2 DEF Pending
  <2> QED
    BY <1>3, <2>1, <2>2 DEF Pending
<1> QED
  BY <1>1, <1>2, <1>3

\* A Poll or a Wake starts a cycle.
LEMMA PollWakeStep ==
    ASSUME RuntimeInv, NEW e \in events, ProcessPoll(e) \/ ProcessWake(e)
    PROVE  RuntimeInv'
<1>1. /\ Taken(e) /\ events' = (events \ {e}) \cup {} /\ deferred' = deferred
      /\ next_event_id' = next_event_id /\ timers' = timers
      /\ next_timer_deadline' = next_timer_deadline
  BY DEF ProcessPoll, ProcessWake, StartCycle, timer_vars
<1>2. /\ ~in_step /\ e.ev \in RuntimeEvents /\ now' \in Time /\ events' \subseteq Event
      /\ \A ev : ev # e.ev /\ Pending(ev) => Pending(ev)'
  BY <1>1, TakenEvent
<1>3. e.ev = Poll \/ e.ev.op = "Wake"
  BY DEF ProcessPoll, ProcessWake
<1>4. \A t \in TaskId : Cancel(t) # e.ev
  BY <1>3, EventKinds
<1>5. Timed' = Timed
  BY <1>1 DEF Timed
<1>6. PICK s \in Seq(TaskId) : StartCycle(s)
  <2>1. CASE ProcessPoll(e)
    <3> DEFINE s == <<>>
    <3>1. s \in Seq(TaskId) /\ StartCycle(s)
      BY <2>1 DEF ProcessPoll
    <3> HIDE DEF s
    <3> QED
      BY <3>1
  <2>2. CASE ProcessWake(e)
    <3> DEFINE s == <<e.ev.task>>
    <3>1. e.ev.op = "Wake" /\ e.ev.task \in TaskId
      BY <1>2, <2>2, EventFields DEF ProcessWake
    <3>2. s \in Seq(TaskId) /\ StartCycle(s)
      BY <2>2, <3>1 DEF ProcessWake
    <3> HIDE DEF s
    <3> QED
      BY <3>2
  <2> QED
    BY <2>1, <2>2
<1>7. /\ next_event_id \in Nat /\ timers \in [Time -> Seq(TaskId)]
      /\ next_timer_deadline \in Time \cup {Nil}
  BY DEF RuntimeInv, TypeOK
<1> QED
  BY <1>1, <1>2, <1>4, <1>5, <1>6, <1>7, StartCycleStep

\* A tick pops the deadlines that are due and starts a cycle with their tasks.
LEMMA TimerTickStep ==
    ASSUME RuntimeInv, NEW e \in events, ProcessTimerTick(e)
    PROVE  RuntimeInv'
<1> DEFINE tick == NextTick(Remaining(e.time), Nil, e.time)
<1>1. /\ Taken(e) /\ e.ev = TimerTick /\ events' = (events \ {e}) \cup tick /\ deferred' = deferred
      /\ next_event_id' = next_event_id + Cardinality(tick) /\ timers' = Remaining(e.time)
      /\ next_timer_deadline' = NextDeadline(timers')
      /\ StartCycle(RegisteredUpTo[e.time])
  BY DEF ProcessTimerTick, StartCycle
<1>2. next_event_id \in Nat /\ timers \in [Time -> Seq(TaskId)]
  BY DEF RuntimeInv, TypeOK
<1>3. e.time \in Time
  BY DEF RuntimeInv, TypeOK, Event
<1>4. tick \subseteq Event /\ Cardinality(tick) \in Nat
  BY <1>2, <1>3, TickTyped
<1> HIDE DEF tick
<1>5. /\ ~in_step /\ now' \in Time /\ events' \subseteq Event
      /\ \A ev : ev # e.ev /\ Pending(ev) => Pending(ev)'
  BY <1>1, <1>4, TakenEvent
<1>6. \A t \in TaskId : Cancel(t) # e.ev
  BY <1>1, EventKinds
<1>7. timers' \in [Time -> Seq(TaskId)] /\ Timed' \subseteq Timed
  <2>1. timers' = [d \in Time |-> IF d <= e.time THEN <<>> ELSE timers[d]]
    BY <1>1 DEF Remaining
  <2>2. \A d \in Time : timers'[d] \in Seq(TaskId) /\ ToSet(timers'[d]) \subseteq ToSet(timers[d])
    BY <1>2, <2>1, NoElements
  <2> QED
    BY <2>1, <2>2 DEF Timed
<1>8. next_timer_deadline' \in Time \cup {Nil}
  BY <1>1, <1>7, NextDeadlineIsLeast
<1>9. RegisteredUpTo[e.time] \in Seq(TaskId)
  BY <1>2, <1>3, UpToFacts
<1>10. next_event_id' \in Nat
  BY <1>1, <1>2, <1>4
<1> DEFINE s == RegisteredUpTo[e.time]
<1>11. s \in Seq(TaskId) /\ StartCycle(s)
  BY <1>1, <1>9
<1> HIDE DEF s
<1> QED
  BY <1>5, <1>6, <1>7, <1>8, <1>10, <1>11, StartCycleStep

\* What a handler of timers owes the tasks: it registers for tasks that exist, leaves
\* no timer to those that are gone, and a task whose Cancel it took is one of them.
TimersWithin(e, tm, gone) ==
    /\ \A d \in Time : ToSet(tm[d]) \subseteq (ToSet(timers[d]) \cup tasks) \ gone
    /\ \A t : e.ev = Cancel(t) => t \in gone

\* What a handler that only changes the timers leaves of the invariant, and what is
\* still to be shown of the tasks.
LEMMA HandleTimersStep ==
    ASSUME RuntimeInv, NEW e \in events, Taken(e), NEW tm \in [Time -> Seq(TaskId)],
           NEW reschedule \in BOOLEAN, HandleTimers(e, tm, reschedule),
           NEW gone, tasks' = tasks \ gone, queued' = queued \ gone,
           sleeps' \in [TaskId -> [Slot -> Time \cup {Nil}]],
           TimersWithin(e, tm, gone)
    PROVE  RuntimeInv'
<1> DEFINE tick == IF reschedule THEN NextTick(tm, next_timer_deadline, e.time) ELSE {}
           id   == next_event_id + Cardinality(tick)
           last == Scheduled(Trailing, id, e.time)
<1>1. /\ timers' = tm
      /\ next_timer_deadline' = IF reschedule THEN NextDeadline(tm) ELSE next_timer_deadline
      /\ events' = (events \ {e}) \cup tick \cup last
      /\ next_event_id' = id + Len(Trailing)
      /\ deferred' = <<>>
      /\ UNCHANGED <<next_task_id, ready_queue, spawn_queue, spawn_queue_local, step_vars,
                     calls, cancelled>>
  BY DEF HandleTimers
<1>2. /\ next_event_id \in Nat /\ timers \in [Time -> Seq(TaskId)] /\ tasks \subseteq TaskId
      /\ deferred \in Seq(RuntimeEvents) /\ events \subseteq Event /\ cancelled \subseteq TaskId
      /\ next_timer_deadline \in Time \cup {Nil}
  BY DEF RuntimeInv, TypeOK
<1>3. e.time \in Time
  BY <1>2 DEF Event
<1>4. tick \subseteq Event /\ Cardinality(tick) \in Nat /\ id \in Nat
  <2>1. CASE reschedule
    BY <1>2, <1>3, <2>1, TickTyped
  <2>2. CASE ~reschedule
    BY <1>2, <2>2, FS_EmptySet
  <2> QED
    BY <2>1, <2>2
<1>5. /\ Trailing \in Seq(RuntimeEvents) /\ ToSet(deferred) \subseteq ToSet(Trailing)
  BY <1>2, TrailingTyped
<1>6. /\ last \subseteq Event /\ Len(Trailing) \in Nat
      /\ ToSet(deferred) \subseteq {f.ev : f \in last}
  BY <1>3, <1>4, <1>5, ScheduledTyped
<1> HIDE DEF tick, id, last
<1>7. /\ ~in_step /\ now' \in Time /\ events \ {e} \subseteq Event
      /\ \A ev : ev # e.ev /\ Pending(ev) => Pending(ev)'
  <2> DEFINE more == tick \cup last
  <2>1. events' = (events \ {e}) \cup more /\ ToSet(deferred) \subseteq {f.ev : f \in more}
    BY <1>1, <1>6
  <2> HIDE DEF more
  <2> QED
    BY <2>1, TakenEvent
<1>8. events' \subseteq Event /\ next_event_id' \in Nat /\ next_timer_deadline' \in Time \cup {Nil}
  BY <1>1, <1>2, <1>4, <1>6, <1>7, NextDeadlineIsLeast
<1>9. Due' = Due /\ Spawned' = Spawned
  BY <1>1 DEF Due, Spawned, step_vars
<1>10. Timed' \subseteq (Timed \cup tasks) \ gone
  BY <1>1 DEF Timed, TimersWithin
<1>11. polling = Nil /\ poll_set = <<>> /\ deferred = <<>>
  BY <1>7 DEF RuntimeInv, Phases
<1>12. TypeOK'
  <2>1. tasks' \subseteq TaskId /\ queued' \subseteq tasks' /\ polling' \in tasks' \cup {Nil}
    BY <1>1, <1>2, <1>11 DEF RuntimeInv, TypeOK, step_vars
  <2>2. deferred' \in Seq(RuntimeEvents)
    BY <1>1
  <2> QED
    BY <1>1, <1>7, <1>8, <2>1, <2>2 DEF RuntimeInv, TypeOK, step_vars
<1>13. Phases' /\ Flags'
  BY <1>1, <1>9, <1>11 DEF RuntimeInv, Phases, Flags, step_vars
<1>14. Spawns'
  <2>1. Seen' \subseteq Seen
    BY <1>1, <1>9, <1>10 DEF Seen
  <2> QED
    BY <1>1, <1>9, <2>1 DEF RuntimeInv, Spawns
<1>15. Cancels'
  <2> SUFFICES ASSUME NEW t \in cancelled, t \in tasks' \cup Timed'
               PROVE  Pending(Cancel(t))'
    BY <1>1 DEF Cancels
  <2>1. t \in tasks \cup Timed /\ t \notin gone
    BY <1>10
  <2>2. Pending(Cancel(t)) /\ Cancel(t) # e.ev
    BY <2>1 DEF RuntimeInv, Cancels, TimersWithin
  <2> QED
    BY <1>7, <2>2
<1> QED
  BY <1>12, <1>13, <1>14, <1>15 DEF RuntimeInv

\* The same for a handler that leaves the tasks alone.
LEMMA HandleTimersOnly ==
    ASSUME RuntimeInv, NEW e \in events, Taken(e), NEW tm \in [Time -> Seq(TaskId)],
           NEW reschedule \in BOOLEAN, HandleTimers(e, tm, reschedule),
           UNCHANGED <<tasks, queued, sleeps>>,
           \A d \in Time : ToSet(tm[d]) \subseteq ToSet(timers[d]) \cup tasks,
           \A t : e.ev # Cancel(t)
    PROVE  RuntimeInv'
<1> DEFINE gone == {}
<1>1. tasks' = tasks \ gone /\ queued' = queued \ gone
  OBVIOUS
<1>2. sleeps' \in [TaskId -> [Slot -> Time \cup {Nil}]]
  BY DEF RuntimeInv, TypeOK
<1>3. TimersWithin(e, tm, gone)
  BY DEF TimersWithin
<1> HIDE DEF gone
<1> QED
  BY <1>1, <1>2, <1>3, HandleTimersStep

\* A registration is for a task that exists, and a cancelled task loses all of its
\* timers.
LEMMA TimerSteps ==
    ASSUME RuntimeInv, NEW e \in events,
           ProcessRegisterTimer(e) \/ ProcessCancelTimer(e) \/ ProcessCancel(e)
    PROVE  RuntimeInv'
<1>1. /\ timers \in [Time -> Seq(TaskId)] /\ tasks \subseteq TaskId
      /\ sleeps \in [TaskId -> [Slot -> Time \cup {Nil}]] /\ e.ev \in RuntimeEvents
  BY DEF RuntimeInv, TypeOK, Event
<1>2. CASE ProcessRegisterTimer(e)
  <2> DEFINE t == e.ev.task
             d == e.ev.deadline
  <2>1. /\ Taken(e) /\ e.ev.op = "RegisterTimer" /\ t \in TaskId /\ d \in Time
        /\ UNCHANGED <<tasks, queued, sleeps>>
    BY <1>1, <1>2, EventFields DEF ProcessRegisterTimer
  <2>2. \A u : e.ev # Cancel(u)
    BY <2>1, EventKinds
  <2>3. CASE t \in tasks
    <3> DEFINE tm == Registered(t, d)
    <3>1. HandleTimers(e, tm, TRUE)
      BY <1>2, <2>3 DEF ProcessRegisterTimer, Accepts
    <3>2. tm = [timers EXCEPT ![d] = Append(timers[d], t)]
      BY DEF Registered
    <3> HIDE DEF tm
    <3>3. /\ Append(timers[d], t) \in Seq(TaskId)
          /\ ToSet(Append(timers[d], t)) = ToSet(timers[d]) \cup {t}
      BY <1>1, <2>1, Appended
    <3>4. tm \in [Time -> Seq(TaskId)]
      BY <1>1, <2>1, <3>2, <3>3
    <3>5. \A f \in Time : ToSet(tm[f]) \subseteq ToSet(timers[f]) \cup tasks
      <4> SUFFICES ASSUME NEW f \in Time
                   PROVE  ToSet(tm[f]) \subseteq ToSet(timers[f]) \cup tasks
        OBVIOUS
      <4>1. tm[f] = timers[f] \/ (f = d /\ tm[f] = Append(timers[d], t))
        BY <1>1, <2>1, <3>2
      <4> QED
        BY <2>3, <3>3, <4>1
    <3> QED
      BY <2>1, <2>2, <3>1, <3>4, <3>5, HandleTimersOnly
  <2>4. CASE t \notin tasks
    <3>1. HandleTimers(e, timers, FALSE)
      BY <1>2, <2>4 DEF ProcessRegisterTimer, Accepts
    <3> QED
      BY <1>1, <2>1, <2>2, <3>1, HandleTimersOnly
  <2> QED
    BY <2>3, <2>4
<1>3. CASE ProcessCancelTimer(e)
  <2> DEFINE t == e.ev.task
             d == e.ev.deadline
             tm == Retracted(t, d)
             r == Deadlines(tm) # Deadlines(timers)
  <2>1. /\ Taken(e) /\ e.ev.op = "CancelTimer" /\ t \in TaskId /\ d \in Time
        /\ UNCHANGED <<tasks, queued, sleeps>> /\ HandleTimers(e, tm, r)
    BY <1>1, <1>3, EventFields DEF ProcessCancelTimer
  <2>2. \A u : e.ev # Cancel(u)
    BY <2>1, EventKinds
  <2>3. r \in BOOLEAN /\ tm = [timers EXCEPT ![d] = Without(timers[d], t)]
    BY DEF Retracted
  <2> HIDE DEF tm, r
  <2>4. /\ Without(timers[d], t) \in Seq(TaskId)
        /\ ToSet(Without(timers[d], t)) = ToSet(timers[d]) \ {t}
    BY <1>1, <2>1, WithoutFacts
  <2>5. tm \in [Time -> Seq(TaskId)]
    BY <1>1, <2>1, <2>3, <2>4
  <2>6. \A f \in Time : ToSet(tm[f]) \subseteq ToSet(timers[f]) \cup tasks
    <3> SUFFICES ASSUME NEW f \in Time
                 PROVE  ToSet(tm[f]) \subseteq ToSet(timers[f])
      OBVIOUS
    <3>1. tm[f] = timers[f] \/ (f = d /\ tm[f] = Without(timers[d], t))
      BY <1>1, <2>1, <2>3
    <3> QED
      BY <2>4, <3>1
  <2> QED
    BY <2>1, <2>2, <2>3, <2>5, <2>6, HandleTimersOnly
<1>4. CASE ProcessCancel(e)
  <2> DEFINE t == e.ev.task
             tm == Purged(t)
  <2>1. /\ Taken(e) /\ e.ev.op = "Cancel" /\ t \in TaskId /\ e.ev = Cancel(t)
        /\ tasks' = tasks \ {t} /\ queued' = queued \ {t} /\ HandleTimers(e, tm, TRUE)
        /\ sleeps' = [sleeps EXCEPT ![t] = [s \in Slot |-> Nil]]
    BY <1>1, <1>4, EventFields DEF ProcessCancel
  <2>2. \A u : e.ev = Cancel(u) => u \in {t}
    BY <2>1, EventKinds
  <2>3. tm = [d \in Time |-> Without(timers[d], t)]
    BY DEF Purged
  <2> HIDE DEF tm
  <2>4. \A d \in Time : /\ Without(timers[d], t) \in Seq(TaskId)
                        /\ ToSet(Without(timers[d], t)) = ToSet(timers[d]) \ {t}
    BY <1>1, WithoutFacts
  <2>5. tm \in [Time -> Seq(TaskId)]
    BY <2>3, <2>4
  <2>6. TimersWithin(e, tm, {t})
    BY <2>2, <2>3, <2>4 DEF TimersWithin
  <2>7. sleeps' \in [TaskId -> [Slot -> Time \cup {Nil}]]
    BY <1>1, <2>1
  <2> QED
    BY <2>1, <2>5, <2>6, <2>7, HandleTimersStep
<1> QED
  BY <1>2, <1>3, <1>4

\* No task has the id None.
LEMMA NilIsNoTask == Nil \notin TaskId
<1>1. TaskId \subseteq Nat
  BY DEF TaskId
<1> QED
  BY <1>1, RuntimeAssumption

\* swap_remove takes the element at i and no other.
LEMMA SwapRemoved ==
    ASSUME NEW S, NEW q \in Seq(S), NEW i \in 1 .. Len(q), NoRepeats(q)
    PROVE  /\ SwapRemove(q, i) \in Seq(S) /\ NoRepeats(SwapRemove(q, i))
           /\ ToSet(SwapRemove(q, i)) = ToSet(q) \ {q[i]}
<1> DEFINE r == SwapRemove(q, i)
           n == Len(q)
<1>1. n \in Nat /\ n - 1 \in Nat /\ r = [j \in 1 .. n - 1 |-> IF j = i THEN q[n] ELSE q[j]]
  BY DEF SwapRemove
<1>2. \A j \in 1 .. n : q[j] \in S
  OBVIOUS
<1> HIDE DEF r
<1>3. \A j \in 1 .. n - 1 : r[j] = (IF j = i THEN q[n] ELSE q[j]) /\ r[j] \in S
  BY <1>1, <1>2
<1>4. r \in Seq(S) /\ Len(r) = n - 1
  BY <1>1, <1>3
<1>5. ToSet(r) = {r[j] : j \in 1 .. n - 1} /\ ToSet(q) = {q[j] : j \in 1 .. n}
  BY <1>4, ToSetOf
<1>6. \A j, k \in 1 .. n : q[j] = q[k] => j = k
  BY DEF NoRepeats
<1> HIDE DEF n
<1>7. NoRepeats(r)
  <2> SUFFICES ASSUME NEW j \in 1 .. n - 1, NEW k \in 1 .. n - 1, r[j] = r[k]
               PROVE  j = k
    BY <1>4 DEF NoRepeats
  <2>1. j \in 1 .. n /\ k \in 1 .. n /\ n \in 1 .. n /\ j # n /\ k # n
    BY <1>1
  <2> QED
    BY <1>3, <1>6, <2>1
<1>8. ToSet(r) \subseteq ToSet(q) \ {q[i]}
  <2> SUFFICES ASSUME NEW j \in 1 .. n - 1
               PROVE  r[j] \in ToSet(q) /\ r[j] # q[i]
    BY <1>5
  <2>1. j \in 1 .. n /\ n \in 1 .. n /\ j # n /\ i \in 1 .. n
    BY <1>1 DEF n
  <2> QED
    BY <1>3, <1>5, <1>6, <2>1
<1>9. ToSet(q) \ {q[i]} \subseteq ToSet(r)
  <2> SUFFICES ASSUME NEW k \in 1 .. n, q[k] # q[i]
               PROVE  q[k] \in ToSet(r)
    BY <1>5
  <2>1. i \in 1 .. n
    BY DEF n
  <2>2. CASE k = n
    <3>1. i \in 1 .. n - 1 /\ r[i] = q[k]
      BY <1>1, <1>3, <2>1, <2>2
    <3> QED
      BY <1>5, <3>1
  <2>3. CASE k # n
    <3>1. k \in 1 .. n - 1 /\ r[k] = q[k]
      BY <1>1, <1>3, <2>3
    <3> QED
      BY <1>5, <3>1
  <2> QED
    BY <2>2, <2>3
<1> QED
  BY <1>4, <1>7, <1>8, <1>9 DEF r

\* The loop of the cycle: a task is taken with its flag reset and polled, and what
\* it defers is scheduled when the cycle is over.
LEMMA CycleSteps ==
    ASSUME RuntimeInv,
           (\E i \in 1 .. Len(poll_set) : ChoosePoll(i)) \/ PollPending \/ PollReady \/ EndCycle
    PROVE  RuntimeInv'
<1>1. /\ next_event_id \in Nat /\ now \in Time /\ tasks \subseteq TaskId /\ queued \subseteq tasks
      /\ deferred \in Seq(RuntimeEvents) /\ events \subseteq Event /\ poll_set \in Seq(TaskId)
      /\ NoRepeats(poll_set) /\ polling \in tasks \cup {Nil}
      /\ queued = tasks \cap Due /\ polling \notin queued
  BY DEF RuntimeInv, TypeOK, Flags
<1>2. ~in_step => polling = Nil
  BY DEF RuntimeInv, Phases
<1>3. ASSUME NEW i \in 1 .. Len(poll_set), ChoosePoll(i)
      PROVE  RuntimeInv'
  <2> DEFINE t == poll_set[i]
  <2>1. /\ in_step /\ poll_set' = SwapRemove(poll_set, i) /\ queued' = queued \ {t}
        /\ polling' = (IF t \in tasks THEN t ELSE Nil)
        /\ UNCHANGED <<queue_vars, deferred, next_task_id, tasks, ready_queue, spawn_queue,
                       spawn_queue_local, timer_vars, in_step, user_vars>>
    BY <1>3 DEF ChoosePoll, FlagReset
  <2>2. /\ poll_set' \in Seq(TaskId) /\ NoRepeats(poll_set') /\ ToSet(poll_set') = ToSet(poll_set) \ {t}
    BY <1>1, <2>1, SwapRemoved
  <2>3. ready_queue = <<>> /\ ToSet(ready_queue) = {}
    BY <2>1, NoElements DEF RuntimeInv, Phases
  <2>4. Due' = Due \ {t} /\ Timed' = Timed /\ Spawned' = Spawned /\ Seen' \subseteq Seen
    BY <2>1, <2>2, <2>3 DEF Due, Timed, Spawned, Seen, timer_vars, user_vars
  <2> HIDE DEF t
  <2>5. TypeOK'
    BY <1>1, <2>1, <2>2 DEF RuntimeInv, TypeOK, queue_vars, timer_vars, user_vars
  <2>6. Phases'
    BY <2>1 DEF RuntimeInv, Phases
  <2>7. Flags'
    <3>1. Nil \notin queued
      BY <1>1, NilIsNoTask
    <3> QED
      BY <1>1, <2>1, <2>2, <2>4, <3>1 DEF RuntimeInv, Flags
  <2>8. Spawns'
    BY <2>1, <2>4 DEF RuntimeInv, Spawns
  <2>9. Cancels'
    BY <2>1, <2>4 DEF RuntimeInv, Cancels, Pending, queue_vars, user_vars
  <2> QED
    BY <2>5, <2>6, <2>7, <2>8, <2>9 DEF RuntimeInv
<1>4. CASE PollPending \/ PollReady
  <2>1. /\ in_step /\ polling # Nil /\ polling' = Nil
        /\ tasks' = tasks \/ tasks' = tasks \ {polling}
        /\ UNCHANGED <<queue_vars, deferred, next_task_id, queued, ready_queue, spawn_queue,
                       spawn_queue_local, timer_vars, in_step, poll_set, user_vars>>
    BY <1>2, <1>4 DEF PollPending, PollReady, runtime_vars
  <2>2. Due' = Due /\ Timed' = Timed /\ Spawned' = Spawned /\ Seen' \subseteq Seen
    BY <2>1 DEF Due, Timed, Spawned, Seen, timer_vars, user_vars
  <2>3. TypeOK'
    BY <1>1, <2>1 DEF RuntimeInv, TypeOK, queue_vars, timer_vars, user_vars
  <2>4. Phases'
    BY <2>1 DEF RuntimeInv, Phases
  <2>5. Flags'
    <3>1. Nil \notin queued
      BY <1>1, NilIsNoTask
    <3> QED
      BY <1>1, <2>1, <2>2, <3>1 DEF RuntimeInv, Flags
  <2>6. Spawns'
    BY <2>1, <2>2 DEF RuntimeInv, Spawns
  <2>7. Cancels'
    BY <2>1, <2>2 DEF RuntimeInv, Cancels, Pending, queue_vars, user_vars
  <2> QED
    BY <2>3, <2>4, <2>5, <2>6, <2>7 DEF RuntimeInv
<1>5. CASE EndCycle
  <2> DEFINE last == Scheduled(Trailing, next_event_id, now)
  <2>1. /\ in_step /\ polling = Nil /\ poll_set = <<>> /\ in_step' = FALSE /\ deferred' = <<>>
        /\ events' = events \cup last /\ next_event_id' = next_event_id + Len(Trailing)
        /\ UNCHANGED <<now, runtime_vars, timer_vars, poll_set, polling, user_vars>>
    BY <1>5 DEF EndCycle
  <2>2. Trailing \in Seq(RuntimeEvents) /\ ToSet(deferred) \subseteq ToSet(Trailing)
    BY <1>1, TrailingTyped
  <2>3. /\ last \subseteq Event /\ Len(Trailing) \in Nat
        /\ ToSet(deferred) \subseteq {f.ev : f \in last}
    BY <1>1, <2>2, ScheduledTyped
  <2> HIDE DEF last
  <2>4. Due' = Due /\ Timed' = Timed /\ Spawned' = Spawned /\ Seen' = Seen
    BY <2>1 DEF Due, Timed, Spawned, Seen, timer_vars, user_vars, runtime_vars
  <2>5. TypeOK'
    <3>1. events' \subseteq Event /\ next_event_id' \in Nat /\ deferred' \in Seq(RuntimeEvents)
      BY <1>1, <2>1, <2>3
    <3> QED
      BY <2>1, <3>1 DEF RuntimeInv, TypeOK, timer_vars, user_vars, runtime_vars
  <2>6. Phases' /\ Flags' /\ Spawns'
    BY <2>1, <2>4 DEF RuntimeInv, Phases, Flags, Spawns, runtime_vars
  <2>7. Cancels'
    <3>1. \A ev : Pending(ev) => Pending(ev)'
      BY <2>1, <2>3 DEF Pending
    <3> QED
      BY <2>1, <2>4, <3>1 DEF RuntimeInv, Cancels, user_vars, runtime_vars
  <2> QED
    BY <2>5, <2>6, <2>7 DEF RuntimeInv
<1> QED
  BY <1>3, <1>4, <1>5

\* At the start there is install's Poll and nothing else.
LEMMA RuntimeStarts == Init => RuntimeInv
<1> SUFFICES ASSUME Init PROVE RuntimeInv
  OBVIOUS
<1>1. /\ 0 \in Time /\ [seq |-> 1, time |-> 0, ev |-> Poll] \in Event
      /\ MaxTask \in Nat /\ MaxCalls \in Nat
  BY MaxTimeAssumption, RuntimeAssumption, EventKinds DEF Event, Time
<1>2. Due = {} /\ Spawned = {} /\ Timed = {} /\ Seen = {}
  <2>1. Due = {} /\ Spawned = {}
    BY NoElements DEF Init, Due, Spawned
  <2>2. Timed = {}
    BY NoElements DEF Init, Timed
  <2> QED
    BY <2>1, <2>2 DEF Init, Seen
<1>3. TypeOK
  BY <1>1 DEF Init, TypeOK
<1>4. Phases /\ Flags /\ Spawns /\ Cancels
  BY <1>2, NoElements DEF Init, Phases, Flags, Spawns, Cancels
<1> QED
  BY <1>3, <1>4 DEF RuntimeInv

\* Every step keeps it.
LEMMA RuntimeSteps == RuntimeInv /\ [Next]_vars => RuntimeInv'
<1> SUFFICES ASSUME RuntimeInv, [Next]_vars PROVE RuntimeInv'
  OBVIOUS
<1>1. CASE UserCall
  BY <1>1, SpawnStep, SpawnDirectlyStep, CancelTaskStep, SleepSteps DEF UserCall
<1>2. CASE ProcessEvent
  BY <1>2, PollWakeStep, TimerTickStep, TimerSteps DEF ProcessEvent
<1>3. CASE Step /\ ~ProcessEvent
  BY <1>3, CycleSteps, SleepSteps DEF Step
<1>4. CASE UNCHANGED vars
  <2> USE <1>4 DEF vars, queue_vars, runtime_vars, timer_vars, step_vars, user_vars, RuntimeInv
  <2>1. TypeOK'
    BY DEF TypeOK
  <2>2. Phases' /\ Flags'
    BY DEF Phases, Flags, Due
  <2>3. Spawns'
    BY DEF Spawns, Due, Timed, Spawned, Seen
  <2>4. Cancels'
    BY DEF Cancels, Timed, Pending
  <2> QED
    BY <2>1, <2>2, <2>3, <2>4
<1> QED
  BY <1>1, <1>2, <1>3, <1>4 DEF Next

\* The invariant of the runtime's tasks, its types included, holds for every program
\* and under every frontier and ready-task policy.
THEOREM RuntimeInvariant == Spec => []RuntimeInv
<1> QED
  BY RuntimeStarts, RuntimeSteps, PTL DEF Spec

\* Task::queued is set exactly while the task waits to be polled, and it waits once.
THEOREM FlagsAreExact == Spec => []QueuedFlagExact
<1>1. RuntimeInv => QueuedFlagExact
  <2> SUFFICES ASSUME RuntimeInv PROVE QueuedFlagExact
    OBVIOUS
  <2> DEFINE q == ready_queue \o poll_set
  <2>1. /\ ready_queue \in Seq(TaskId) /\ poll_set \in Seq(TaskId)
        /\ NoRepeats(ready_queue) /\ NoRepeats(poll_set) /\ queued = tasks \cap Due
    BY DEF RuntimeInv, TypeOK, Flags
  <2>2. ToSet(ready_queue) \cap ToSet(poll_set) = {}
    BY NoElements DEF RuntimeInv, Phases
  <2>3. ToSet(q) = Due /\ NoRepeats(q)
    BY <2>1, <2>2, Joined DEF Due
  <2>4. \A t \in tasks : t \in queued <=> t \in ToSet(q)
    BY <2>1, <2>3
  <2> HIDE DEF q
  <2>5. \A i, j \in 1 .. Len(q) : q[i] = q[j] => i = j
    BY <2>3 DEF NoRepeats
  <2> QED
    BY <2>4, <2>5 DEF QueuedFlagExact, q
<1> QED
  BY <1>1, RuntimeInvariant, PTL

\* A cancelled task is gone once its Cancel was processed, and does not come back.
THEOREM CancelledAreGone == Spec => []CancelledIsGone
<1>1. RuntimeInv => CancelledIsGone
  <2> SUFFICES ASSUME RuntimeInv, NEW t \in cancelled, ~Pending(Cancel(t))
               PROVE  /\ t \notin tasks
                      /\ t \notin ToSet(spawn_queue \o spawn_queue_local)
                      /\ \A d \in Time : t \notin ToSet(timers[d])
    BY DEF CancelledIsGone
  <2>1. t \notin tasks /\ t \notin Timed
    BY DEF RuntimeInv, Cancels
  <2>2. ToSet(spawn_queue \o spawn_queue_local) = Spawned /\ t \notin Spawned
    BY Joined DEF RuntimeInv, TypeOK, Spawns, Spawned, Seen
  <2> QED
    BY <2>1, <2>2 DEF Timed
<1> QED
  BY <1>1, RuntimeInvariant, PTL

----------------------------------------------------------------------------
(* The sleeps.  A registration and its cancellation travel as two events, so *)
(* a sleep keeps its timer only if they arrive in the order they were sent:  *)
(* the frontier policy is FIFO.  Two sleeps of a task with the same deadline *)
(* share their registration, so a task has one sleep at a time.              *)

\* The task is about to be polled, its deadline reached; its timer is set, and no
\* cancellation is on the way; or a registration is on the way, and no
\* cancellation after it.
WakeIsDue(t, d) == d <= now /\ (t \in queued \/ polling = t)

TimerIsSet(t, d) == t \in ToSet(timers[d]) /\ ~Pending(CancelTimer(t, d))

TimerIsAsked(t, d) ==
    \/ \E i \in 1 .. Len(deferred) : /\ deferred[i] = RegisterTimer(t, d)
                                     /\ \A j \in i .. Len(deferred) : deferred[j] # CancelTimer(t, d)
    \/ /\ CancelTimer(t, d) \notin ToSet(deferred)
       /\ \E e \in events : /\ e.ev = RegisterTimer(t, d)
                            /\ \A f \in events : f.ev = CancelTimer(t, d) => f.seq < e.seq

Provided(t, d) == WakeIsDue(t, d) \/ TimerIsSet(t, d) \/ TimerIsAsked(t, d)

\* Entries have ids given out; ticks are due later, everything else now.
Stamps ==
    \A e \in events : /\ e.seq <= next_event_id /\ e.time >= now
                      /\ e.ev # TimerTick => e.time = now

Sleeps ==
    \A t \in TaskId, s \in Slot, d \in Time : sleeps[t][s] = d => t \in tasks /\ Provided(t, d)

SleepInv == RuntimeInv /\ Stamps /\ Sleeps

\* The events about a timer are no others.
LEMMA TimerEvents ==
    ASSUME NEW t, NEW d
    PROVE  /\ CancelTimer(t, d).op = "CancelTimer" /\ RegisterTimer(t, d).op = "RegisterTimer"
           /\ CancelTimer(t, d).task = t /\ RegisterTimer(t, d).task = t
           /\ CancelTimer(t, d).deadline = d /\ RegisterTimer(t, d).deadline = d
           /\ CancelTimer(t, d) # RegisterTimer(t, d)
           /\ \A u : Wake(u).op = "Wake" /\ Cancel(u).op = "Cancel"
           /\ Poll.op = "Poll" /\ TimerTick.op = "TimerTick"
BY DEF CancelTimer, RegisterTimer, Wake, Cancel, Poll, TimerTick, RuntimeEvent

\* Within a poll what is provided stays so, unless it is cancelled.
LEMMA UserKeeps ==
    ASSUME NEW t, NEW d, Provided(t, d), deferred \in Seq(RuntimeEvents),
           UNCHANGED <<now, events, timers, polling>>, queued \subseteq queued',
           NEW x \in RuntimeEvents, x # CancelTimer(t, d),
           deferred' = deferred \/ deferred' = Append(deferred, x)
    PROVE  Provided(t, d)'
<1>1. CASE WakeIsDue(t, d)
  BY <1>1 DEF WakeIsDue, Provided
<1> DEFINE n == Len(deferred)
           c == CancelTimer(t, d)
<1>2. n \in Nat /\ ToSet(deferred) = {deferred[i] : i \in 1 .. n}
  BY ToSetOf
<1>3. /\ Len(deferred') \in n .. n + 1 /\ \A i \in 1 .. n : deferred'[i] = deferred[i]
      /\ \A i \in 1 .. Len(deferred') : i \notin 1 .. n => deferred'[i] = x
      /\ c \in ToSet(deferred') => c \in ToSet(deferred)
  <2>1. CASE deferred' = deferred
    BY <1>2, <2>1
  <2>2. CASE deferred' = Append(deferred, x)
    <3>1. ToSet(deferred') = ToSet(deferred) \cup {x}
      BY <2>2, Appended
    <3> QED
      BY <1>2, <2>2, <3>1
  <2> QED
    BY <2>1, <2>2
<1>4. CASE TimerIsSet(t, d)
  BY <1>3, <1>4 DEF TimerIsSet, Pending, Provided
<1>5. CASE TimerIsAsked(t, d)
  <2>1. CASE \E i \in 1 .. n : /\ deferred[i] = RegisterTimer(t, d)
                               /\ \A j \in i .. n : deferred[j] # c
    <3>1. PICK i \in 1 .. n : deferred[i] = RegisterTimer(t, d) /\ \A j \in i .. n : deferred[j] # c
      BY <2>1
    <3>2. i \in 1 .. Len(deferred') /\ deferred'[i] = RegisterTimer(t, d)
      BY <1>2, <1>3, <3>1
    <3>3. ASSUME NEW j \in i .. Len(deferred') PROVE deferred'[j] # c
      <4>1. CASE j \in 1 .. n
        BY <1>2, <1>3, <3>1, <4>1
      <4>2. CASE j \notin 1 .. n
        BY <1>2, <1>3, <3>1, <4>2
      <4> QED
        BY <4>1, <4>2
    <3> QED
      BY <3>2, <3>3 DEF TimerIsAsked, Provided
  <2>2. CASE ~(\E i \in 1 .. n : /\ deferred[i] = RegisterTimer(t, d)
                                 /\ \A j \in i .. n : deferred[j] # c)
    BY <1>3, <1>5, <2>2 DEF TimerIsAsked, Provided
  <2> QED
    BY <2>1, <2>2
<1> QED
  BY <1>1, <1>4, <1>5 DEF Provided

\* A call that leaves the sleeps alone keeps them provided for.
LEMMA OtherCallsSleep ==
    ASSUME SleepInv, RuntimeInv',
           UNCHANGED <<queue_vars, timer_vars, step_vars, sleeps>>,
           queued \subseteq queued', tasks \subseteq tasks',
           NEW x \in RuntimeEvents, x.op # "CancelTimer",
           deferred' = deferred \/ deferred' = Append(deferred, x)
    PROVE  SleepInv'
<1> USE DEF queue_vars, timer_vars, step_vars
<1>1. Stamps'
  BY DEF SleepInv, Stamps
<1>2. Sleeps'
  <2> SUFFICES ASSUME NEW t \in TaskId, NEW s \in Slot, NEW d \in Time, sleeps[t][s] = d
               PROVE  t \in tasks' /\ Provided(t, d)'
    BY DEF Sleeps
  <2>1. t \in tasks /\ Provided(t, d)
    BY DEF SleepInv, Sleeps
  <2>2. x # CancelTimer(t, d) /\ deferred \in Seq(RuntimeEvents)
    BY TimerEvents DEF SleepInv, RuntimeInv, TypeOK
  <2> QED
    BY <2>1, <2>2, UserKeeps
<1> QED
  BY <1>1, <1>2 DEF SleepInv

\* Spawning, cancelling and waking tasks leaves the sleeps alone.
LEMMA OtherCallSteps ==
    ASSUME SleepInv, RuntimeInv',
           Spawn \/ SpawnDirectly \/ \E t \in TaskId : CancelTask(t) \/ WakeTask(t)
    PROVE  SleepInv'
<1>1. CASE Spawn
  <2>1. /\ UNCHANGED <<queue_vars, timer_vars, step_vars, sleeps, queued, tasks>>
        /\ deferred' = deferred \/ deferred' = Append(deferred, Poll)
    BY <1>1 DEF Spawn, DeferInStep
  <2>2. Poll \in RuntimeEvents /\ Poll.op # "CancelTimer"
    BY EventKinds
  <2> QED
    BY <2>1, <2>2, OtherCallsSleep
<1>2. CASE SpawnDirectly
  <2>1. /\ UNCHANGED <<queue_vars, timer_vars, step_vars, sleeps, deferred>>
        /\ queued \subseteq queued' /\ tasks \subseteq tasks'
    BY <1>2 DEF SpawnDirectly
  <2>2. Poll \in RuntimeEvents /\ Poll.op # "CancelTimer"
    BY EventKinds
  <2> QED
    BY <2>1, <2>2, OtherCallsSleep
<1>3. ASSUME NEW t \in TaskId, CancelTask(t) PROVE SleepInv'
  <2>1. /\ UNCHANGED <<queue_vars, timer_vars, step_vars, sleeps, queued, tasks>>
        /\ deferred' = deferred \/ deferred' = Append(deferred, Cancel(t))
    BY <1>3 DEF CancelTask, DeferInStep
  <2>2. Cancel(t) \in RuntimeEvents /\ Cancel(t).op # "CancelTimer"
    BY EventKinds
  <2> QED
    BY <2>1, <2>2, OtherCallsSleep
<1>4. ASSUME NEW t \in TaskId, WakeTask(t) PROVE SleepInv'
  <2>1. /\ UNCHANGED <<queue_vars, timer_vars, step_vars, sleeps, queued, tasks>>
        /\ deferred' = Append(deferred, Wake(t))
    BY <1>4 DEF WakeTask, runtime_vars
  <2>2. Wake(t) \in RuntimeEvents /\ Wake(t).op # "CancelTimer"
    BY EventKinds, TimerEvents
  <2> QED
    BY <2>1, <2>2, OtherCallsSleep
<1> QED
  BY <1>1, <1>2, <1>3, <1>4

\* A sleep starts by asking for its timer.
LEMMA SleepStartsStep ==
    ASSUME SleepInv, RuntimeInv', NEW z \in Slot, NEW y \in Delay, SleepStarts(z, y)
    PROVE  SleepInv'
<1> DEFINE target == AddTime(now, y)
           x == RegisterTimer(polling, target)
<1>1. /\ polling # Nil /\ polling \in tasks /\ tasks \subseteq TaskId /\ now \in Time
      /\ deferred \in Seq(RuntimeEvents) /\ sleeps \in [TaskId -> [Slot -> Time \cup {Nil}]]
      /\ UNCHANGED <<queue_vars, runtime_vars, timer_vars, step_vars>>
  BY DEF SleepStarts, SleepInv, RuntimeInv, TypeOK
<1>2. target \in Time
  BY <1>1, MaxTimeAssumption, RuntimeAssumption DEF AddTime, Clamp, Time
<1>3. x \in RuntimeEvents /\ x.op # "CancelTimer"
  BY <1>1, <1>2, EventKinds, TimerEvents
<1>4. CASE UNCHANGED <<sleeps, deferred>>
  BY <1>1, <1>3, <1>4, OtherCallsSleep DEF runtime_vars
<1>5. CASE /\ sleeps' = [sleeps EXCEPT ![polling][z] = target]
           /\ deferred' = Append(deferred, x)
  <2>1. Stamps'
    BY <1>1 DEF SleepInv, Stamps, queue_vars
  <2>2. Sleeps'
    <3> SUFFICES ASSUME NEW t \in TaskId, NEW s \in Slot, NEW d \in Time, sleeps'[t][s] = d
                 PROVE  t \in tasks' /\ Provided(t, d)'
      BY DEF Sleeps
    <3>1. CASE sleeps[t][s] = d
      <4>1. t \in tasks /\ Provided(t, d)
        BY <3>1 DEF SleepInv, Sleeps
      <4>2. x # CancelTimer(t, d)
        BY <1>3, TimerEvents
      <4> QED
        BY <1>1, <1>3, <1>5, <4>1, <4>2, UserKeeps DEF queue_vars, runtime_vars, timer_vars, step_vars
    <3>2. CASE sleeps[t][s] # d
      <4>1. t = polling /\ d = target
        BY <1>1, <1>2, <1>5, <3>2
      <4>2. Len(deferred) \in Nat /\ Len(deferred') = Len(deferred) + 1 /\ deferred'[Len(deferred')] = x
        BY <1>1, <1>3, <1>5
      <4>3. x = RegisterTimer(t, d) /\ x # CancelTimer(t, d)
        BY <1>3, <4>1, TimerEvents
      <4> HIDE DEF x
      <4>4. TimerIsAsked(t, d)'
        BY <4>2, <4>3 DEF TimerIsAsked
      <4> QED
        BY <1>1, <4>1, <4>4 DEF Provided, runtime_vars
    <3> QED
      BY <3>1, <3>2
  <2> QED
    BY <2>1, <2>2 DEF SleepInv
<1> QED
  BY <1>4, <1>5 DEF SleepStarts

\* A sleep that is over is none; the cancellation of its timer is for no other,
\* as the task has one.
LEMMA SleepStopsStep ==
    ASSUME SleepInv, RuntimeInv', \A y, z \in Slot : y = z,
           NEW z \in Slot, SleepDropped(z) \/ SleepEnds(z)
    PROVE  SleepInv'
<1> DEFINE x == CancelTimer(polling, sleeps[polling][z])
<1>0. /\ polling \in tasks \cup {Nil} /\ tasks \subseteq TaskId
      /\ deferred \in Seq(RuntimeEvents) /\ sleeps \in [TaskId -> [Slot -> Time \cup {Nil}]]
  BY DEF SleepInv, RuntimeInv, TypeOK
<1>1. /\ polling # Nil /\ polling \in tasks /\ tasks \subseteq TaskId
      /\ sleeps[polling][z] \in Time
      /\ sleeps' = [sleeps EXCEPT ![polling][z] = Nil]
      /\ deferred' = deferred \/ deferred' = Append(deferred, x)
      /\ UNCHANGED <<queue_vars, runtime_vars, timer_vars, step_vars>>
  <2>1. CASE SleepDropped(z)
    BY <1>0, <2>1 DEF SleepDropped
  <2>2. CASE SleepEnds(z)
    BY <1>0, <2>2 DEF SleepEnds
  <2> QED
    BY <2>1, <2>2
<1>2. x \in RuntimeEvents
  BY <1>1, EventKinds
<1>3. Stamps'
  BY <1>1 DEF SleepInv, Stamps, queue_vars
<1>4. Sleeps'
  <2> SUFFICES ASSUME NEW t \in TaskId, NEW s \in Slot, NEW d \in Time, sleeps'[t][s] = d
               PROVE  t \in tasks' /\ Provided(t, d)'
    BY DEF Sleeps
  <2>1. Nil \notin Time /\ s = z
    BY MaxTimeAssumption, RuntimeAssumption DEF Time
  <2>2. t # polling /\ sleeps[t][s] = d
    BY <1>0, <1>1, <2>1
  <2>3. t \in tasks /\ Provided(t, d)
    BY <2>2 DEF SleepInv, Sleeps
  <2>4. x # CancelTimer(t, d)
    BY <2>2, TimerEvents
  <2> HIDE DEF x
  <2> QED
    BY <1>0, <1>1, <1>2, <2>3, <2>4, UserKeeps DEF queue_vars, runtime_vars, timer_vars, step_vars
<1> QED
  BY <1>3, <1>4 DEF SleepInv

\* The loop of the cycle polls a task whose deadline is reached, and such a poll does
\* not return Pending.
LEMMA CycleSleeps ==
    ASSUME SleepInv, RuntimeInv',
           (\E i \in 1 .. Len(poll_set) : ChoosePoll(i)) \/ PollPending \/ PollReady
    PROVE  SleepInv'
<1>1. /\ UNCHANGED <<queue_vars, deferred, timer_vars, user_vars>> /\ tasks \subseteq TaskId
      /\ queued \subseteq tasks /\ sleeps \in [TaskId -> [Slot -> Time \cup {Nil}]] /\ now \in Time
  BY DEF ChoosePoll, PollPending, PollReady, SleepInv, RuntimeInv, TypeOK
<1>2. Stamps'
  BY <1>1 DEF SleepInv, Stamps, queue_vars
<1>3. Sleeps'
  <2> SUFFICES ASSUME NEW t \in TaskId, NEW s \in Slot, NEW d \in Time, sleeps[t][s] = d
               PROVE  t \in tasks' /\ Provided(t, d)'
    BY <1>1 DEF Sleeps, user_vars
  <2>1. t \in tasks /\ Provided(t, d) /\ d # Nil /\ t # Nil /\ d \in Nat /\ now \in Nat
    BY <1>1, MaxTimeAssumption, RuntimeAssumption DEF SleepInv, Sleeps, Time, TaskId
  <2>2. TimerIsSet(t, d) => TimerIsSet(t, d)'
    BY <1>1 DEF TimerIsSet, Pending, queue_vars, timer_vars
  <2>3. TimerIsAsked(t, d) => TimerIsAsked(t, d)'
    BY <1>1 DEF TimerIsAsked, queue_vars
  <2>4. ASSUME NEW i \in 1 .. Len(poll_set), ChoosePoll(i)
        PROVE  t \in tasks' /\ (WakeIsDue(t, d) => WakeIsDue(t, d)')
    BY <1>1, <2>1, <2>4 DEF ChoosePoll, FlagReset, WakeIsDue, queue_vars
  <2>5. ASSUME PollPending
        PROVE  t \in tasks' /\ (WakeIsDue(t, d) => WakeIsDue(t, d)')
    <3>1. polling = t => d > now
      BY <2>1, <2>5 DEF PollPending
    <3> QED
      BY <1>1, <2>1, <2>5, <3>1 DEF PollPending, WakeIsDue, queue_vars, runtime_vars
  <2>6. ASSUME PollReady
        PROVE  t \in tasks' /\ (WakeIsDue(t, d) => WakeIsDue(t, d)')
    <3>1. polling # t
      BY <2>1, <2>6 DEF PollReady
    <3> QED
      BY <1>1, <2>1, <2>6, <3>1 DEF PollReady, WakeIsDue, queue_vars
  <2> QED
    BY <2>1, <2>2, <2>3, <2>4, <2>5, <2>6 DEF Provided
<1> QED
  BY <1>2, <1>3 DEF SleepInv

\* What is deferred is scheduled in its order, after everything that is there.
LEMMA EndCycleSleeps ==
    ASSUME SleepInv, RuntimeInv', EndCycle
    PROVE  SleepInv'
<1> DEFINE n == Len(deferred)
           last == Scheduled(deferred, next_event_id, now)
           entry(i) == [seq |-> next_event_id + i, time |-> now, ev |-> deferred[i]]
<1>1. /\ deferred \in Seq(RuntimeEvents) /\ next_event_id \in Nat /\ now \in Time
      /\ events \subseteq Event /\ ready_queue = <<>>
  BY DEF EndCycle, SleepInv, RuntimeInv, TypeOK, Phases
<1>2. n \in Nat /\ ToSet(deferred) = {deferred[i] : i \in 1 .. n}
  BY <1>1, ToSetOf
<1>3. Trailing = deferred
  BY <1>1 DEF Trailing
<1>4. /\ events' = events \cup last /\ next_event_id' = next_event_id + n
      /\ deferred' = <<>> /\ ToSet(deferred') = {}
      /\ UNCHANGED <<now, timers, tasks, queued, polling, sleeps>>
  BY <1>3, NoElements DEF EndCycle, runtime_vars, timer_vars, user_vars
<1>5. last = {entry(i) : i \in 1 .. n}
  BY DEF Scheduled
<1>6. \A i \in 1 .. n : /\ entry(i).seq = next_event_id + i /\ entry(i).time = now
                        /\ entry(i).ev = deferred[i]
  OBVIOUS
<1>7. \A e \in events : e.seq \in Nat /\ e.seq <= next_event_id
  BY <1>1 DEF SleepInv, Stamps, Event
<1> HIDE DEF last, entry, n
<1>8. now \in Nat
  BY <1>1, MaxTimeAssumption DEF Time
<1>9. Stamps'
  <2> SUFFICES ASSUME NEW e \in events \cup last
               PROVE  /\ e.seq <= next_event_id + n /\ e.time >= now
                      /\ e.ev # TimerTick => e.time = now
    BY <1>4 DEF Stamps
  <2>1. CASE e \in events
    BY <1>1, <1>2, <1>7, <2>1 DEF SleepInv, Stamps
  <2>2. CASE e \in last
    BY <1>1, <1>2, <1>5, <1>6, <1>8, <2>2
  <2> QED
    BY <2>1, <2>2
<1>10. Sleeps'
  <2> SUFFICES ASSUME NEW t \in TaskId, NEW s \in Slot, NEW d \in Time, sleeps[t][s] = d
               PROVE  t \in tasks /\ Provided(t, d)'
    BY <1>4 DEF Sleeps
  <2> DEFINE c == CancelTimer(t, d)
             r == RegisterTimer(t, d)
  <2>1. t \in tasks /\ Provided(t, d) /\ c # r
    BY TimerEvents DEF SleepInv, Sleeps
  <2> HIDE DEF c, r
  <2>2. CASE WakeIsDue(t, d)
    BY <1>4, <2>1, <2>2 DEF WakeIsDue, Provided
  <2>3. c \notin ToSet(deferred) => \A f \in last : f.ev # c
    BY <1>2, <1>5, <1>6
  <2>4. CASE TimerIsSet(t, d)
    <3>1. c \notin ToSet(deferred) /\ \A f \in events : f.ev # c
      BY <2>4 DEF TimerIsSet, Pending, c
    <3>2. TimerIsSet(t, d)'
      BY <1>4, <2>3, <2>4, <3>1 DEF TimerIsSet, Pending, c
    <3> QED
      BY <2>1, <3>2 DEF Provided
  <2>5. ASSUME NEW i \in 1 .. n, deferred[i] = r, \A j \in i .. n : deferred[j] # c
        PROVE  TimerIsAsked(t, d)'
    <3>1. entry(i) \in events' /\ entry(i).ev = r /\ entry(i).seq = next_event_id + i
      BY <1>4, <1>5, <1>6, <2>5
    <3>2. ASSUME NEW f \in events', f.ev = c PROVE f.seq < entry(i).seq
      <4>1. CASE f \in events
        BY <1>1, <1>2, <1>7, <3>1, <4>1
      <4>2. CASE f \in last
        <5>1. PICK j \in 1 .. n : f = entry(j)
          BY <1>5, <4>2
        <5>2. f.seq = next_event_id + j /\ deferred[j] = c
          BY <1>6, <3>2, <5>1
        <5>3. j < i
          BY <1>2, <2>5, <5>2
        <5> QED
          BY <1>1, <3>1, <5>2, <5>3
      <4> QED
        BY <1>4, <4>1, <4>2
    <3> QED
      BY <1>4, <3>1, <3>2 DEF TimerIsAsked, c, r
  <2>6. ASSUME c \notin ToSet(deferred), NEW e \in events, e.ev = r,
               \A f \in events : f.ev = c => f.seq < e.seq
        PROVE  TimerIsAsked(t, d)'
    BY <1>4, <2>3, <2>6 DEF TimerIsAsked, c, r
  <2>7. CASE TimerIsAsked(t, d)
    <3>1. \/ \E i \in 1 .. n : deferred[i] = r /\ \A j \in i .. n : deferred[j] # c
          \/ /\ c \notin ToSet(deferred)
             /\ \E e \in events : e.ev = r /\ \A f \in events : f.ev = c => f.seq < e.seq
      BY <2>7 DEF TimerIsAsked, c, r, n
    <3>2. TimerIsAsked(t, d)'
      BY <2>5, <2>6, <3>1
    <3> QED
      BY <2>1, <3>2 DEF Provided
  <2> QED
    BY <2>1, <2>2, <2>4, <2>7 DEF Provided
<1> QED
  BY <1>9, <1>10 DEF SleepInv

\* A step takes an entry of the lowest time, the oldest of them: everything but the
\* ticks is due now, so no cancellation overtakes a registration.
LEMMA TakenSleeps ==
    ASSUME SleepInv, NEW e \in events, Taken(e), NEW more, events' = (events \ {e}) \cup more,
           \A f \in more : /\ f.ev \in {Poll, TimerTick} /\ f.seq <= next_event_id'
                           /\ f.time >= e.time /\ (f.ev # TimerTick => f.time = e.time),
           next_event_id' \in Nat, next_event_id' >= next_event_id, deferred' = <<>>
    PROVE  /\ Stamps' /\ now' \in Nat /\ now \in Nat /\ now' >= now
           /\ \A t, d : /\ ~Pending(CancelTimer(t, d)) => ~Pending(CancelTimer(t, d))'
                        /\ TimerIsAsked(t, d) /\ e.ev # RegisterTimer(t, d) => TimerIsAsked(t, d)'
                        /\ Fifo /\ TimerIsAsked(t, d) =>
                             TimerIsAsked(t, d)' \/ ~Pending(CancelTimer(t, d))'
<1>1. /\ \A f \in events : /\ f.seq \in Nat /\ f.time \in Nat /\ f.time >= now /\ e.time <= f.time
                           /\ f.seq <= next_event_id
                           /\ f.ev # TimerTick => f.time = now
                           /\ Fifo /\ e.time = f.time => e.seq <= f.seq
      /\ now \in Nat /\ next_event_id \in Nat /\ now' = e.time /\ deferred = <<>>
  BY MaxTimeAssumption
     DEF SleepInv, RuntimeInv, TypeOK, Phases, Event, Time, Taken, Choice, Stamps
<1>2. now' \in Nat /\ now' >= now
  BY <1>1
<1>3. Stamps'
  <2> SUFFICES ASSUME NEW f \in (events \ {e}) \cup more
               PROVE  /\ f.seq <= next_event_id' /\ f.time >= now'
                      /\ f.ev # TimerTick => f.time = now'
    BY DEF Stamps
  <2>1. CASE f \in more
    BY <1>1, <2>1
  <2>2. CASE f \in events
    <3>1. f.seq \in Nat /\ f.time \in Nat /\ f.seq <= next_event_id /\ f.time >= e.time
      BY <1>1, <2>2
    <3>2. f.ev # TimerTick => f.time = e.time
      BY <1>1, <2>2
    <3> QED
      BY <1>1, <3>1, <3>2
  <2> QED
    BY <2>1, <2>2
<1>4. ASSUME NEW t, NEW d
      PROVE  /\ ~Pending(CancelTimer(t, d)) => ~Pending(CancelTimer(t, d))'
             /\ TimerIsAsked(t, d) /\ e.ev # RegisterTimer(t, d) => TimerIsAsked(t, d)'
             /\ Fifo /\ TimerIsAsked(t, d) => TimerIsAsked(t, d)' \/ ~Pending(CancelTimer(t, d))'
  <2> DEFINE c == CancelTimer(t, d)
             r == RegisterTimer(t, d)
  <2>1. c # r /\ c # TimerTick /\ r # TimerTick /\ c # Poll
    BY TimerEvents
  <2> HIDE DEF c, r
  <2>2. \A f \in more : f.ev # c
    BY <2>1
  <2>3. ToSet(deferred) = {} /\ ToSet(deferred') = {}
    BY <1>1, NoElements
  <2>4. ~Pending(c) => ~Pending(c)'
    BY <2>2, <2>3 DEF Pending
  <2>5. ASSUME TimerIsAsked(t, d)
        PROVE  \E k \in events : k.ev = r /\ \A f \in events : f.ev = c => f.seq < k.seq
    <3>1. Len(deferred) = 0
      BY <1>1
    <3>2. 1 .. Len(deferred) = {}
      BY <3>1
    <3> QED
      BY <2>5, <3>2 DEF TimerIsAsked, c, r
  <2>6. ASSUME NEW k \in events, k # e, k.ev = r, \A f \in events : f.ev = c => f.seq < k.seq
        PROVE  TimerIsAsked(t, d)'
    BY <2>2, <2>3, <2>6 DEF TimerIsAsked, c, r
  <2>7. ASSUME Fifo, e.ev = r, \A f \in events : f.ev = c => f.seq < e.seq
        PROVE  ~Pending(c)'
    <3>1. ASSUME NEW f \in events, f.ev = c PROVE FALSE
      <4>1. f.time = e.time
        BY <1>1, <2>1, <2>7, <3>1
      <4>2. e.seq <= f.seq /\ e.seq \in Nat /\ f.seq \in Nat /\ f.seq < e.seq
        BY <1>1, <2>7, <3>1, <4>1
      <4> QED
        BY <4>2
    <3> QED
      BY <2>2, <2>3, <3>1 DEF Pending
  <2> QED
    BY <2>4, <2>5, <2>6, <2>7 DEF c, r
<1> QED
  BY <1>2, <1>3, <1>1, <1>4

\* A cycle starts: a deadline that is popped has its tasks woken, and the clock has
\* reached it.
LEMMA StartCycleSleeps ==
    ASSUME SleepInv, RuntimeInv', NEW e \in events, Taken(e), NEW q \in Seq(TaskId), StartCycle(q),
           NEW more, events' = (events \ {e}) \cup more,
           \A f \in more : /\ f.ev = TimerTick /\ f.seq <= next_event_id' /\ f.time >= e.time,
           next_event_id' \in Nat, next_event_id' >= next_event_id,
           e.ev.op # "RegisterTimer",
           \A d \in Time : \/ timers'[d] = timers[d]
                           \/ d <= e.time /\ ToSet(timers[d]) \subseteq ToSet(q)
    PROVE  SleepInv'
<1>1. /\ deferred = <<>> /\ deferred' = <<>> /\ now' = e.time /\ polling' = polling /\ polling = Nil
      /\ sleeps' = sleeps /\ tasks \subseteq tasks'
      /\ queued' = queued \cup ToSet(Woken(q)) \cup ToSet(spawn_queue \o spawn_queue_local)
      /\ tasks \subseteq TaskId
  BY DEF SleepInv, RuntimeInv, Phases, Taken, StartCycle, TypeOK
<1>2. ToSet(Woken(q)) = ToSet(q) \cap (tasks \ queued)
  BY WokenFacts
<1>3. /\ Stamps' /\ now' \in Nat /\ now \in Nat /\ now' >= now
      /\ \A t, d : /\ ~Pending(CancelTimer(t, d)) => ~Pending(CancelTimer(t, d))'
                   /\ TimerIsAsked(t, d) /\ e.ev # RegisterTimer(t, d) => TimerIsAsked(t, d)'
  BY <1>1, TakenSleeps
<1>4. Sleeps'
  <2> SUFFICES ASSUME NEW t \in TaskId, NEW s \in Slot, NEW d \in Time, sleeps[t][s] = d
               PROVE  t \in tasks' /\ Provided(t, d)'
    BY <1>1 DEF Sleeps
  <2>1. t \in tasks /\ Provided(t, d) /\ d \in Nat /\ t # Nil /\ e.ev # RegisterTimer(t, d)
    BY MaxTimeAssumption, NilIsNoTask, TimerEvents DEF SleepInv, Sleeps, Time
  <2>2. CASE WakeIsDue(t, d)
    <3>1. WakeIsDue(t, d)'
      BY <1>1, <1>3, <2>1, <2>2 DEF WakeIsDue
    <3> QED
      BY <1>1, <2>1, <3>1 DEF Provided
  <2>3. CASE TimerIsAsked(t, d)
    BY <1>1, <1>3, <2>1, <2>3 DEF Provided
  <2>4. CASE TimerIsSet(t, d)
    <3>1. t \in ToSet(timers[d]) /\ ~Pending(CancelTimer(t, d))'
      BY <1>3, <2>4 DEF TimerIsSet
    <3>2. CASE timers'[d] = timers[d]
      <4>1. TimerIsSet(t, d)'
        BY <3>1, <3>2 DEF TimerIsSet
      <4> QED
        BY <1>1, <2>1, <4>1 DEF Provided
    <3>3. CASE d <= e.time /\ ToSet(timers[d]) \subseteq ToSet(q)
      <4>1. t \in queued' /\ d <= now'
        BY <1>1, <1>2, <2>1, <3>1, <3>3
      <4>2. WakeIsDue(t, d)'
        BY <4>1 DEF WakeIsDue
      <4> QED
        BY <1>1, <2>1, <4>2 DEF Provided
    <3> QED
      BY <3>2, <3>3
  <2> QED
    BY <2>1, <2>2, <2>3, <2>4 DEF Provided
<1> QED
  BY <1>3, <1>4 DEF SleepInv

\* The events that start a cycle keep every sleep provided for.
LEMMA CycleStartsSleeps ==
    ASSUME SleepInv, RuntimeInv', NEW e \in events,
           ProcessPoll(e) \/ ProcessWake(e) \/ ProcessTimerTick(e)
    PROVE  SleepInv'
<1>1. /\ e.ev \in RuntimeEvents /\ e.time \in Time /\ next_event_id \in Nat
      /\ timers \in [Time -> Seq(TaskId)]
  BY DEF SleepInv, RuntimeInv, TypeOK, Event
<1>2. CASE ProcessPoll(e) \/ ProcessWake(e)
  <2>1. /\ Taken(e) /\ events' = (events \ {e}) \cup {} /\ next_event_id' = next_event_id
        /\ timers' = timers /\ e.ev.op # "RegisterTimer"
    BY <1>2, EventKinds DEF ProcessPoll, ProcessWake, timer_vars
  <2>2. PICK q \in Seq(TaskId) : StartCycle(q)
    <3>1. CASE ProcessPoll(e)
      <4> DEFINE q == <<>>
      <4>1. q \in Seq(TaskId) /\ StartCycle(q)
        BY <3>1 DEF ProcessPoll
      <4> HIDE DEF q
      <4> QED
        BY <4>1
    <3>2. CASE ProcessWake(e)
      <4> DEFINE q == <<e.ev.task>>
      <4>1. e.ev.op = "Wake" /\ e.ev.task \in TaskId
        BY <1>1, <3>2, EventFields DEF ProcessWake
      <4>2. q \in Seq(TaskId) /\ StartCycle(q)
        BY <3>2, <4>1 DEF ProcessWake
      <4> HIDE DEF q
      <4> QED
        BY <4>2
    <3> QED
      BY <1>2, <3>1, <3>2
  <2>3. next_event_id' \in Nat /\ next_event_id' >= next_event_id
    BY <1>1, <2>1
  <2> DEFINE more == {}
  <2>4. /\ events' = (events \ {e}) \cup more
        /\ \A f \in more : f.ev = TimerTick /\ f.seq <= next_event_id' /\ f.time >= e.time
    BY <2>1
  <2> HIDE DEF more
  <2>5. \A d \in Time : \/ timers'[d] = timers[d]
                        \/ d <= e.time /\ ToSet(timers[d]) \subseteq ToSet(q)
    BY <2>1
  <2> QED
    BY <2>1, <2>2, <2>3, <2>4, <2>5, StartCycleSleeps
<1>3. CASE ProcessTimerTick(e)
  <2> DEFINE tick == NextTick(Remaining(e.time), Nil, e.time)
             q == RegisteredUpTo[e.time]
  <2>1. /\ Taken(e) /\ e.ev = TimerTick /\ events' = (events \ {e}) \cup tick
        /\ next_event_id' = next_event_id + Cardinality(tick) /\ timers' = Remaining(e.time)
        /\ StartCycle(q)
    BY <1>3 DEF ProcessTimerTick
  <2>2. /\ q \in Seq(TaskId)
        /\ \A d \in Time : d <= e.time => ToSet(timers[d]) \subseteq ToSet(q)
    BY <1>1, UpToFacts
  <2>3. /\ Cardinality(tick) \in Nat
        /\ \A f \in tick : /\ f.ev = TimerTick /\ f.time >= e.time /\ f.seq \in Nat
                           /\ f.seq <= next_event_id + Cardinality(tick)
    BY <1>1, NextTickEntries
  <2> HIDE DEF tick, q
  <2>4. next_event_id' \in Nat /\ next_event_id' >= next_event_id
    BY <1>1, <2>1, <2>3
  <2>5. e.ev.op # "RegisterTimer"
    BY <2>1, EventKinds
  <2>6. \A d \in Time : \/ timers'[d] = timers[d]
                        \/ d <= e.time /\ ToSet(timers[d]) \subseteq ToSet(q)
    BY <2>1, <2>2 DEF Remaining
  <2>7. \A f \in tick : f.ev = TimerTick /\ f.seq <= next_event_id' /\ f.time >= e.time
    BY <2>1, <2>3
  <2> QED
    BY <2>1, <2>2, <2>4, <2>5, <2>6, <2>7, StartCycleSleeps
<1> QED
  BY <1>2, <1>3

\* What a handler of timers owes the sleeps: the tasks that are gone have none and the
\* others keep theirs; timers nobody cancelled stay, and one asked for is set.
SleepsOf(gone) ==
    \A t \in TaskId, s \in Slot, d \in Time :
        sleeps'[t][s] = d => sleeps[t][s] = d /\ t \notin gone

TimersFor(e, tm, gone) ==
    \A t \in tasks \ gone, d \in Time :
        /\ t \in ToSet(timers[d]) /\ e.ev # CancelTimer(t, d) => t \in ToSet(tm[d])
        /\ e.ev = RegisterTimer(t, d) => t \in ToSet(tm[d])

\* A handler that changes the timers keeps the sleeps of the tasks it leaves
\* provided for.
LEMMA HandleTimersSleeps ==
    ASSUME SleepInv, RuntimeInv', Fifo, NEW e \in events, Taken(e), NEW tm,
           NEW reschedule \in BOOLEAN, HandleTimers(e, tm, reschedule),
           NEW gone, tasks' = tasks \ gone, queued' = queued \ gone,
           SleepsOf(gone), TimersFor(e, tm, gone)
    PROVE  SleepInv'
<1> DEFINE tick == IF reschedule THEN NextTick(tm, next_timer_deadline, e.time) ELSE {}
           id   == next_event_id + Cardinality(tick)
           last == Scheduled(Trailing, id, e.time)
           more == tick \cup last
<1>1. /\ timers' = tm /\ events' = (events \ {e}) \cup tick \cup last
      /\ next_event_id' = id + Len(Trailing) /\ deferred' = <<>> /\ polling' = polling
  BY DEF HandleTimers, step_vars
<1>2. /\ next_event_id \in Nat /\ e.time \in Time /\ deferred = <<>> /\ polling = Nil
      /\ e.ev \in RuntimeEvents
  BY DEF SleepInv, RuntimeInv, TypeOK, Phases, Event, Taken
<1>3. /\ Cardinality(tick) \in Nat
      /\ \A f \in tick : /\ f.ev = TimerTick /\ f.time >= e.time /\ f.seq \in Nat
                         /\ f.seq <= id
  <2>1. CASE reschedule
    BY <1>2, <2>1, NextTickEntries
  <2>2. CASE ~reschedule
    BY <2>2, FS_EmptySet
  <2> QED
    BY <2>1, <2>2
<1>5. id \in Nat
  BY <1>2, <1>3
<1> HIDE DEF tick, id
<1>4. Len(Trailing) \in Nat /\ \A i \in 1 .. Len(Trailing) : Trailing[i] = Poll
  <2>1. Trailing = <<Poll>> \/ Trailing = <<>>
    BY <1>2 DEF Trailing
  <2> QED
    BY <2>1
<1>6. \A f \in last : f.ev = Poll /\ f.time = e.time /\ f.seq <= id + Len(Trailing)
  BY <1>4, <1>5 DEF Scheduled
<1>7. next_event_id' \in Nat /\ next_event_id' >= next_event_id
  BY <1>1, <1>2, <1>3, <1>4, <1>5 DEF id
<1>8. \A f \in more : /\ f.ev \in {Poll, TimerTick} /\ f.seq <= next_event_id'
                      /\ f.time >= e.time /\ (f.ev # TimerTick => f.time = e.time)
  <2>1. e.time \in Nat
    BY <1>2, MaxTimeAssumption DEF Time
  <2>2. \A f \in tick : f.seq <= next_event_id'
    BY <1>1, <1>3, <1>4, <1>5
  <2> HIDE DEF id, last
  <2> QED
    BY <1>1, <1>3, <1>6, <2>1, <2>2
<1> HIDE DEF id, last
<1>9. events' = (events \ {e}) \cup more
  BY <1>1
<1> HIDE DEF more
<1>10. /\ Stamps' /\ now' \in Nat /\ now \in Nat /\ now' >= now
       /\ \A t, d : /\ ~Pending(CancelTimer(t, d)) => ~Pending(CancelTimer(t, d))'
                    /\ TimerIsAsked(t, d) /\ e.ev # RegisterTimer(t, d) => TimerIsAsked(t, d)'
                    /\ Fifo /\ TimerIsAsked(t, d) =>
                         TimerIsAsked(t, d)' \/ ~Pending(CancelTimer(t, d))'
  BY <1>1, <1>7, <1>8, <1>9, TakenSleeps
<1>11. Sleeps'
  <2> SUFFICES ASSUME NEW t \in TaskId, NEW s \in Slot, NEW d \in Time, sleeps'[t][s] = d
               PROVE  t \in tasks' /\ Provided(t, d)'
    BY DEF Sleeps
  <2>1. /\ t \in tasks /\ t \notin gone /\ t \in tasks' /\ Provided(t, d) /\ d \in Nat /\ t # Nil
    BY MaxTimeAssumption, NilIsNoTask DEF SleepInv, Sleeps, SleepsOf, Time
  <2>2. CASE WakeIsDue(t, d)
    <3>1. WakeIsDue(t, d)'
      BY <1>1, <1>2, <1>10, <2>1, <2>2 DEF WakeIsDue
    <3> QED
      BY <2>1, <3>1 DEF Provided
  <2>3. CASE TimerIsAsked(t, d)
    <3>1. CASE e.ev # RegisterTimer(t, d)
      BY <1>10, <2>1, <2>3, <3>1 DEF Provided
    <3>2. CASE e.ev = RegisterTimer(t, d)
      <4>1. t \in ToSet(timers'[d])
        BY <1>1, <2>1, <3>2 DEF TimersFor
      <4> QED
        BY <1>10, <2>1, <2>3, <4>1 DEF Provided, TimerIsSet
    <3> QED
      BY <3>1, <3>2
  <2>4. CASE TimerIsSet(t, d)
    <3>1. t \in ToSet(timers[d]) /\ ~Pending(CancelTimer(t, d))' /\ e.ev # CancelTimer(t, d)
      BY <1>10, <2>4 DEF TimerIsSet, Pending
    <3> QED
      BY <1>1, <2>1, <3>1 DEF Provided, TimerIsSet, TimersFor
  <2> QED
    BY <2>1, <2>2, <2>3, <2>4 DEF Provided
<1> QED
  BY <1>10, <1>11 DEF SleepInv

\* Registrations, cancellations of timers and of tasks keep the other sleeps.
LEMMA TimersSleeps ==
    ASSUME SleepInv, RuntimeInv', Fifo, NEW e \in events,
           ProcessRegisterTimer(e) \/ ProcessCancelTimer(e) \/ ProcessCancel(e)
    PROVE  SleepInv'
<1> DEFINE t == e.ev.task
           d == e.ev.deadline
<1>1. /\ e.ev \in RuntimeEvents /\ timers \in [Time -> Seq(TaskId)] /\ tasks \subseteq TaskId
      /\ sleeps \in [TaskId -> [Slot -> Time \cup {Nil}]]
  BY DEF SleepInv, RuntimeInv, TypeOK, Event
<1>2. \A u, f : /\ e.ev = RegisterTimer(u, f) => e.ev.op = "RegisterTimer" /\ u = t /\ f = d
                /\ e.ev = CancelTimer(u, f) => e.ev.op = "CancelTimer" /\ u = t /\ f = d
  BY TimerEvents
<1>3. ASSUME UNCHANGED <<tasks, queued, sleeps>>
      PROVE  tasks' = tasks \ {} /\ queued' = queued \ {} /\ SleepsOf({})
  BY <1>3 DEF SleepsOf
<1>4. CASE ProcessRegisterTimer(e)
  <2>1. /\ Taken(e) /\ e.ev.op = "RegisterTimer" /\ t \in TaskId /\ d \in Time
        /\ UNCHANGED <<tasks, queued, sleeps>>
    BY <1>1, <1>4, EventFields DEF ProcessRegisterTimer
  <2>2. CASE t \in tasks
    <3> DEFINE tm == Registered(t, d)
    <3>1. HandleTimers(e, tm, TRUE)
      BY <1>4, <2>2 DEF ProcessRegisterTimer, Accepts
    <3>2. tm = [timers EXCEPT ![d] = Append(timers[d], t)]
      BY DEF Registered
    <3> HIDE DEF tm
    <3>3. ToSet(Append(timers[d], t)) = ToSet(timers[d]) \cup {t}
      BY <1>1, <2>1, Appended
    <3>4. TimersFor(e, tm, {})
      <4> SUFFICES ASSUME NEW u \in tasks, NEW f \in Time,
                          u \in ToSet(timers[f]) \/ e.ev = RegisterTimer(u, f)
                   PROVE  u \in ToSet(tm[f])
        BY DEF TimersFor
      <4>1. u \in ToSet(timers[f]) \/ (u = t /\ f = d)
        BY <1>2
      <4>2. tm[f] = IF f = d THEN Append(timers[d], t) ELSE timers[f]
        BY <1>1, <2>1, <3>2 DEF TimersFor
      <4> QED
        BY <3>3, <4>1, <4>2
    <3> QED
      BY <1>3, <2>1, <3>1, <3>4, HandleTimersSleeps
  <2>3. CASE t \notin tasks
    <3>1. HandleTimers(e, timers, FALSE)
      BY <1>4, <2>3 DEF ProcessRegisterTimer, Accepts
    <3>2. TimersFor(e, timers, {})
      BY <1>2, <2>3 DEF TimersFor
    <3> QED
      BY <1>3, <2>1, <3>1, <3>2, HandleTimersSleeps
  <2> QED
    BY <2>2, <2>3
<1>5. CASE ProcessCancelTimer(e)
  <2> DEFINE tm == Retracted(t, d)
             r == Deadlines(tm) # Deadlines(timers)
  <2>1. /\ Taken(e) /\ e.ev.op = "CancelTimer" /\ t \in TaskId /\ d \in Time
        /\ e.ev = CancelTimer(t, d)
        /\ UNCHANGED <<tasks, queued, sleeps>> /\ HandleTimers(e, tm, r)
    BY <1>1, <1>5, EventFields DEF ProcessCancelTimer
  <2>2. r \in BOOLEAN /\ tm = [timers EXCEPT ![d] = Without(timers[d], t)]
    BY DEF Retracted
  <2> HIDE DEF tm, r
  <2>3. ToSet(Without(timers[d], t)) = ToSet(timers[d]) \ {t}
    BY <1>1, <2>1, WithoutFacts
  <2>4. TimersFor(e, tm, {})
    <3> SUFFICES ASSUME NEW u \in tasks, NEW f \in Time
                 PROVE  /\ u \in ToSet(timers[f]) /\ e.ev # CancelTimer(u, f) => u \in ToSet(tm[f])
                        /\ e.ev # RegisterTimer(u, f)
      BY DEF TimersFor
    <3>1. tm[f] = IF f = d THEN Without(timers[d], t) ELSE timers[f]
      BY <1>1, <2>1, <2>2
    <3>2. e.ev # CancelTimer(u, f) => u # t \/ f # d
      BY <2>1
    <3>3. e.ev # RegisterTimer(u, f)
      BY <1>2, <2>1
    <3> QED
      BY <2>3, <3>1, <3>2, <3>3
  <2> QED
    BY <1>3, <2>1, <2>2, <2>4, HandleTimersSleeps
<1>6. CASE ProcessCancel(e)
  <2> DEFINE tm == Purged(t)
  <2>1. /\ Taken(e) /\ e.ev.op = "Cancel" /\ t \in TaskId
        /\ tasks' = tasks \ {t} /\ queued' = queued \ {t} /\ HandleTimers(e, tm, TRUE)
        /\ sleeps' = [sleeps EXCEPT ![t] = [s \in Slot |-> Nil]]
    BY <1>1, <1>6, EventFields DEF ProcessCancel
  <2>2. tm = [f \in Time |-> Without(timers[f], t)]
    BY DEF Purged
  <2> HIDE DEF tm
  <2>3. \A f \in Time : ToSet(Without(timers[f], t)) = ToSet(timers[f]) \ {t}
    BY <1>1, WithoutFacts
  <2>4. TimersFor(e, tm, {t})
    <3> SUFFICES ASSUME NEW u \in tasks \ {t}, NEW f \in Time
                 PROVE  /\ u \in ToSet(timers[f]) => u \in ToSet(tm[f])
                        /\ e.ev # RegisterTimer(u, f)
      BY DEF TimersFor
    <3> QED
      BY <1>2, <2>1, <2>2, <2>3
  <2>5. SleepsOf({t})
    <3>1. Nil \notin Time
      BY MaxTimeAssumption, RuntimeAssumption DEF Time
    <3> QED
      BY <1>1, <2>1, <3>1 DEF SleepsOf
  <2> QED
    BY <2>1, <2>4, <2>5, HandleTimersSleeps
<1> QED
  BY <1>4, <1>5, <1>6

\* With a FIFO frontier and one sleep per task at a time, every pending SimSleep has
\* a wake to come, whatever its task, other tasks and other timers do meanwhile.
THEOREM SleepsHaveTimers ==
    ASSUME Fifo, \A y, z \in Slot : y = z
    PROVE  Spec => []SleepHasTimer
<1>1. Init => SleepInv
  <2> SUFFICES ASSUME Init PROVE SleepInv
    OBVIOUS
  <2>1. Stamps
    BY DEF Init, Stamps
  <2>2. Sleeps
    BY MaxTimeAssumption, RuntimeAssumption DEF Init, Sleeps, Time
  <2> QED
    BY <2>1, <2>2, RuntimeStarts DEF SleepInv
<1>2. SleepInv /\ [Next]_vars => SleepInv'
  <2> SUFFICES ASSUME SleepInv, [Next]_vars PROVE SleepInv'
    OBVIOUS
  <2>1. RuntimeInv'
    BY RuntimeSteps DEF SleepInv
  <2>2. CASE UserCall
    BY <2>1, <2>2, OtherCallSteps, SleepStartsStep, SleepStopsStep DEF UserCall
  <2>3. CASE ProcessEvent
    BY <2>1, <2>3, CycleStartsSleeps, TimersSleeps DEF ProcessEvent
  <2>4. CASE Step /\ ~ProcessEvent
    BY <2>1, <2>4, CycleSleeps, SleepStopsStep, EndCycleSleeps DEF Step
  <2>5. CASE UNCHANGED vars
    <3> USE <2>5 DEF vars, queue_vars, runtime_vars, timer_vars, step_vars, user_vars
    <3>1. Stamps'
      BY DEF SleepInv, Stamps
    <3>2. \A t, d : Provided(t, d) => Provided(t, d)'
      BY DEF Provided, WakeIsDue, TimerIsSet, TimerIsAsked, Pending
    <3>3. Sleeps'
      BY <3>2 DEF SleepInv, Sleeps
    <3> QED
      BY <2>1, <3>1, <3>3 DEF SleepInv
  <2> QED
    BY <2>2, <2>3, <2>4, <2>5 DEF Next
<1>3. SleepInv => SleepHasTimer
  <2> SUFFICES ASSUME SleepInv, NEW t \in tasks, NEW s \in Slot, sleeps[t][s] # Nil
               PROVE  \/ Pending(RegisterTimer(t, sleeps[t][s]))
                      \/ t \in ToSet(timers[sleeps[t][s]])
                      \/ t \in queued \/ polling = t
    BY DEF SleepHasTimer
  <2>1. PICK d \in Time : sleeps[t][s] = d
    BY DEF SleepInv, RuntimeInv, TypeOK
  <2>2. Provided(t, d) /\ deferred \in Seq(RuntimeEvents)
    BY <2>1 DEF SleepInv, RuntimeInv, TypeOK, Sleeps
  <2>3. TimerIsAsked(t, d) => Pending(RegisterTimer(t, d))
    <3>1. ToSet(deferred) = {deferred[i] : i \in 1 .. Len(deferred)}
      BY <2>2, ToSetOf
    <3> QED
      BY <3>1 DEF TimerIsAsked, Pending
  <2> QED
    BY <2>1, <2>2, <2>3 DEF Provided, WakeIsDue, TimerIsSet
<1> QED
  BY <1>1, <1>2, <1>3, PTL DEF Spec

=============================================================================
