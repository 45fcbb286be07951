---------------------------- MODULE TonicProofs ----------------------------
(***************************************************************************)
(* Proofs about the parts of MCTonic, for any number of endpoints, calls,  *)
(* messages and items, every network model and latency, and both frontier  *)
(* policies.                                                               *)
(*                                                                         *)
(* RegistrySteps and TransportSteps say what a step of the composition is  *)
(* to each of the two.  The registry's invariant knows the last round of   *)
(* picks (RoundKnown) and what wakes the tasks (WaitersKnown).  The        *)
(* transport's knows who holds which message id (IdsKnown), that an entry  *)
(* of the agenda carries a message that entered and was not handed over    *)
(* (WayKnown), and, under the FIFO policy, that of two messages of a pair  *)
(* the one accepted first is ahead (OrderKnown): no arrival is later than  *)
(* the Horizon of its pair, and the next message arrives there.            *)
(*                                                                         *)
(* The calls' invariant (CallsInv) follows an answer from the handler to   *)
(* the oneshot of the call whose id it carries.  Of the streams, TypedInv  *)
(* says where an item of a typed stream is, and StreamInv what each end of *)
(* a stream of frames may know of the other: a frame on its way is one     *)
(* that the other end sent, and an end that looks clean comes after all    *)
(* items.  A loop over a reorder buffer is a walk along its frames, one    *)
(* turn each; what one end does leaves what is known at the other end true *)
(* (ClientViewStays, ServerViewStays).                                     *)
(*                                                                         *)
(* Of the wire format, a decoder is followed through the encoding of a     *)
(* message: what it has read, and which of the bytes that are left have    *)
(* arrived (On).  Every field has a lemma for one step of that walk.       *)
(***************************************************************************)
EXTENDS MCTonic, SumTheorems

\* What the composition assumes of the constants of its parts.
LEMMA Constants ==
    TransportAssumption /\ RegistryAssumption /\ CallsAssumption
BY TonicAssumption DEF TonicAssumption

\* A step of the composition is one of Calls, or leaves the calls alone.
LEMMA CallsSteps ==
    ASSUME [MCNext]_<<vars, stream_vars, alone_vars>>
    PROVE  [Next]_vars
BY DEF MCNext, CallStep, StreamStep, TypedStep, WireStep

-----------------------------------------------------------------------------
(* The registry. *)

\* The steps of the registry, whoever takes them.
RegistryStep ==
    \/ \E s \in Servers : Register(s) \/ Unregister(s)
    \/ \E t \in Waiters : \/ FoundEndpoint(t) \/ StillWaiting(t) \/ GiveUp(t)
                          \/ GiveUpInLoop(t) \/ StopWaiting(t)

\* A step of the calls is one of the registry, or leaves it alone.
LEMMA RegistrySteps ==
    ASSUME [Next]_vars
    PROVE  RegistryStep \/ UNCHANGED registry_vars
<1>1. CASE \E s \in Servers : \/ ServeGrpc(s) \/ ServeHttp(s) \/ Withdraw(s) \/ Enlist(s)
                              \/ Retire(s)
  BY <1>1 DEF ServeGrpc, ServeHttp, InstallHttpServer, InstallServer, Withdraw, Enlist, Retire,
     RegistryStep
<1>2. ASSUME NEW c \in Call, StartGrpc(c) \/ StartHttp(c)
      PROVE  RegistryStep \/ UNCHANGED registry_vars
  BY <1>2 DEF StartGrpc, StartHttp, PinnedTarget, RegistryStep, Call
<1>3. ASSUME NEW c \in Call, Poll(c)
      PROVE  RegistryStep \/ UNCHANGED registry_vars
  BY <1>3 DEF Poll, PollSelectGrpc, PollSelectHttp, PollResponse, RegistryStep, Call
<1>4. ASSUME NEW c \in Call, DropCall(c) \/ PollWait(c)
      PROVE  RegistryStep \/ UNCHANGED registry_vars
  BY <1>4 DEF DropCall, PollWait, RegistryStep, Call
<1>5. ASSUME NEW e, Handle(e)
      PROVE  UNCHANGED registry_vars
  BY <1>5 DEF Handle, Deliver, HandleResponse, HandleGrpcRequest, HandleHttpRequest, HandleDone,
     HandleElapsed, HandleMessage
<1>6. ASSUME NEW s \in Servers, Submit(s) \/ Send(s) \/ Listen(s) \/ Ignore(s)
      PROVE  UNCHANGED registry_vars
  BY <1>6 DEF Submit, Send, Listen, Ignore
<1>7. CASE Reset \/ ConnectGrpc \/ ConnectHttp
  BY <1>7 DEF Reset, ConnectGrpc, ConnectHttp
<1>8. CASE UNCHANGED vars
  BY <1>8 DEF vars
<1> QED
  BY <1>1, <1>2, <1>3, <1>4, <1>5, <1>6, <1>7, <1>8 DEF Next

\* The registry's variables have their types, and an endpoint is listed once.
RegistryTypes ==
    /\ services \in Seq(Servers) /\ round_robin \in Nat
    /\ permits \in Nat /\ wakers \in Seq(Waiters)
    /\ waiting \subseteq Waiters /\ registry_woken \subseteq Waiters
    /\ picks \in Seq(Servers) /\ removals \in Nat
    /\ \A i, j \in 1 .. Len(services) : services[i] = services[j] => i = j

\* The place of the endpoint that was handed out k turns before the last one, of
\* n, when the counter stands at r.
PlaceBefore(r, n, k) == IF k < r THEN r - k ELSE (r - k) + n

\* The counter stands behind the endpoint handed out last, and the last round of
\* picks goes backwards from it.
RoundKnown ==
    picks # <<>> =>
        /\ round_robin < Len(services)
        /\ \A i \in 1 .. Len(picks) : Len(picks) - i < Len(services) =>
               picks[i] = services[PlaceBefore(round_robin, Len(services), Len(picks) - i)]

\* As long as endpoints only come: before the first one everybody who waits has
\* left a waker and there is no permit, after it nobody who waits is without.
WaitersKnown ==
    removals = 0 =>
        IF services = <<>>
        THEN /\ permits = 0 /\ registry_woken = {}
             /\ \A t \in waiting : \E i \in 1 .. Len(wakers) : wakers[i] = t
        ELSE waiting \subseteq registry_woken /\ Cardinality(waiting) <= permits

RegistryInv == RegistryTypes /\ TurnsRotate /\ RoundKnown /\ WaitersKnown

\* A change of the endpoints starts a new round, and gives a permit for every
\* waker.
LEMMA NotifyKnown ==
    ASSUME RegistryInv, NotifyWaiters, UNCHANGED <<waiting, removals>>,
           services' \in Seq(Servers), services' # <<>>
    PROVE  /\ WaitersKnown'
           /\ permits' \in Nat /\ wakers' \in Seq(Waiters) /\ registry_woken' \subseteq Waiters
<1> DEFINE W == {wakers[i] : i \in 1 .. Len(wakers)}
           g == [i \in 1 .. Len(wakers) |-> wakers[i]]
<1>1. /\ wakers \in Seq(Waiters) /\ Len(wakers) \in Nat /\ permits \in Nat
      /\ waiting \subseteq Waiters /\ registry_woken \subseteq Waiters
  BY DEF RegistryInv, RegistryTypes
<1>2. /\ permits' = permits + Len(wakers)
      /\ registry_woken' = registry_woken \cup (W \cap waiting)
      /\ wakers' = <<>>
  BY DEF NotifyWaiters
<1>3. IsFiniteSet(waiting) /\ Cardinality(waiting) \in Nat
  BY <1>1, Constants, FS_Subset, FS_CardinalityType DEF RegistryAssumption
<1>4. IsFiniteSet(W) /\ Cardinality(W) <= Len(wakers) /\ Cardinality(W) \in Nat
  <2>1. IsFiniteSet(1 .. Len(wakers)) /\ Cardinality(1 .. Len(wakers)) = Len(wakers)
    <3>1. \A n \in Nat : /\ IsFiniteSet(1 .. n)
                         /\ Cardinality(1 .. n) = IF 1 > n THEN 0 ELSE (n - 1) + 1
      BY FS_Interval
    <3>2. \A n \in Nat : (IF 1 > n THEN 0 ELSE (n - 1) + 1) = n
      OBVIOUS
    <3> QED
      BY <3>1, <3>2, <1>1
  <2>2. g \in Surjection(1 .. Len(wakers), W)
    BY DEF Surjection
  <2>3. IsFiniteSet(W) /\ Cardinality(W) <= Cardinality(1 .. Len(wakers))
    <3> HIDE DEF W, g
    <3> QED
      BY <2>1, <2>2, FS_Surjection
  <2> QED
    BY <2>1, <2>3, FS_CardinalityType
<1>5. ASSUME removals = 0
      PROVE  waiting \subseteq registry_woken' /\ Cardinality(waiting) <= permits'
  <2>1. CASE services = <<>>
    <3>1. waiting \subseteq W
      BY <1>5, <2>1 DEF RegistryInv, WaitersKnown
    <3>2. Cardinality(waiting) <= Cardinality(W)
      <4> HIDE DEF W
      <4> QED
        BY <3>1, <1>4, FS_Subset
    <3> HIDE DEF W
    <3> QED
      BY <3>1, <3>2, <1>1, <1>2, <1>3, <1>4
  <2>2. CASE services # <<>>
    <3>1. waiting \subseteq registry_woken /\ Cardinality(waiting) <= permits
      BY <1>5, <2>2 DEF RegistryInv, WaitersKnown
    <3> QED
      BY <3>1, <1>1, <1>2, <1>3
  <2> QED
    BY <2>1, <2>2
<1>6. WaitersKnown'
  BY <1>5 DEF WaitersKnown
<1> QED
  BY <1>1, <1>2, <1>6

\* register_endpoint.
LEMMA RegisterKeeps ==
    ASSUME RegistryInv, NEW s \in Servers, Register(s)
    PROVE  RegistryInv'
<1>1. /\ services \in Seq(Servers) /\ Len(services) \in Nat
      /\ \A i, j \in 1 .. Len(services) : services[i] = services[j] => i = j
      /\ \A i \in 1 .. Len(services) : services[i] # s
  BY DEF RegistryInv, RegistryTypes, Register, IsRegistered
<1>2. services' = Append(services, s) /\ picks' = <<>>
  BY DEF Register
<1>3. /\ services' \in Seq(Servers) /\ services' # <<>>
      /\ \A i, j \in 1 .. Len(services') : services'[i] = services'[j] => i = j
  BY <1>1, <1>2
<1>4. /\ WaitersKnown'
      /\ permits' \in Nat /\ wakers' \in Seq(Waiters) /\ registry_woken' \subseteq Waiters
  BY <1>3, NotifyKnown DEF Register
<1>5. RegistryTypes'
  BY <1>2, <1>3, <1>4 DEF RegistryInv, RegistryTypes, Register
<1>6. TurnsRotate' /\ RoundKnown'
  BY <1>2 DEF TurnsRotate, RoundKnown
<1> QED
  BY <1>4, <1>5, <1>6 DEF RegistryInv

\* unregister_endpoint.
LEMMA UnregisterKeeps ==
    ASSUME RegistryInv, NEW s \in Servers, Unregister(s)
    PROVE  RegistryInv'
<1>1. PICK i \in 1 .. Len(services) : services' = RemoveAt(services, i)
  BY DEF Unregister
<1>2. /\ services \in Seq(Servers) /\ Len(services) \in Nat
      /\ \A j, k \in 1 .. Len(services) : services[j] = services[k] => j = k
      /\ removals \in Nat
      /\ wakers \in Seq(Waiters) /\ permits \in Nat
  BY DEF RegistryInv, RegistryTypes
<1>3. /\ services' \in Seq(Servers) /\ Len(services') = Len(services) - 1
      /\ \A j \in 1 .. Len(services') :
             services'[j] = IF j < i THEN services[j] ELSE services[j + 1]
  BY <1>1, <1>2, RemoveIth DEF RemoveAt
<1>4. ASSUME NEW j \in 1 .. Len(services'), NEW k \in 1 .. Len(services'),
             services'[j] = services'[k]
      PROVE  j = k
  <2> DEFINE at(l) == IF l < i THEN l ELSE l + 1
  <2>1. at(j) \in 1 .. Len(services) /\ at(k) \in 1 .. Len(services)
    BY <1>2, <1>3
  <2>2. services[at(j)] = services[at(k)]
    BY <1>3, <1>4
  <2>3. at(j) = at(k)
    BY <1>2, <2>1, <2>2
  <2> QED
    BY <2>3
<1>5. picks' = <<>> /\ removals' = removals + 1 /\ removals' # 0
  BY <1>2 DEF Unregister
<1>6. RegistryTypes'
  BY <1>2, <1>3, <1>4, <1>5 DEF RegistryInv, RegistryTypes, Unregister, NotifyWaiters
<1>7. TurnsRotate' /\ RoundKnown' /\ WaitersKnown'
  BY <1>5 DEF TurnsRotate, RoundKnown, WaitersKnown
<1> QED
  BY <1>6, <1>7 DEF RegistryInv

\* The endpoint that get_endpoint_for_service picks is registered, and the counter
\* goes to the place behind it.
LEMMA TurnGoesOn ==
    ASSUME RegistryTypes, services # <<>>
    PROVE  LET n == Len(services)
               p == (round_robin % n) + 1
           IN  /\ n \in Nat \ {0} /\ p \in 1 .. n
               /\ Chosen = services[p] /\ Chosen \in Servers
               /\ (round_robin + 1) % n = IF p = n THEN 0 ELSE p
               /\ round_robin < n => p = round_robin + 1
<1> DEFINE n == Len(services)
           r == round_robin % n
<1>1. n \in Nat \ {0} /\ services \in Seq(Servers) /\ round_robin \in Nat
  BY DEF RegistryTypes
<1>2. r \in 0 .. n - 1 /\ (r + 1) % n = (round_robin + 1) % n
  <2> HIDE DEF n
  <2> QED
    BY <1>1, NextTurn
<1>3. r + 1 \in 1 .. n /\ Chosen = services[r + 1] /\ Chosen \in Servers
  BY <1>1, <1>2 DEF Chosen
<1> HIDE DEF n
<1>4. \A m \in Nat : m < n => m % n = m
  BY <1>1
<1>5. n % n = 0
  BY <1>1
<1>6. (r + 1) % n = IF r + 1 = n THEN 0 ELSE r + 1
  BY <1>1, <1>2, <1>4, <1>5
<1>7. round_robin < n => r = round_robin
  BY <1>1, <1>4
<1> QED
  BY <1>1, <1>2, <1>3, <1>6, <1>7 DEF n

\* A poll finds an endpoint: it is not one of the last round, and a task that
\* waited takes its permit with it.
LEMMA FoundKeeps ==
    ASSUME RegistryInv, NEW t \in Waiters, FoundEndpoint(t)
    PROVE  RegistryInv'
<1> DEFINE n == Len(services)
           p == (round_robin % n) + 1
           k == Len(picks)
<1>1. /\ RegistryTypes /\ TurnsRotate /\ RoundKnown /\ WaitersKnown
      /\ services # <<>> /\ picks \in Seq(Servers) /\ k \in Nat /\ round_robin \in Nat
      /\ permits \in Nat /\ waiting \subseteq Waiters /\ registry_woken \subseteq Waiters
  BY DEF RegistryInv, RegistryTypes, FoundEndpoint, GetEndpoint
<1>2. /\ n \in Nat \ {0} /\ p \in 1 .. n
      /\ Chosen = services[p] /\ Chosen \in Servers
      /\ (round_robin + 1) % n = IF p = n THEN 0 ELSE p
      /\ round_robin < n => p = round_robin + 1
  BY <1>1, TurnGoesOn
<1>3. /\ services' = services
      /\ round_robin' = IF p = n THEN 0 ELSE p
      /\ picks' = Append(picks, services[p])
  BY <1>2 DEF FoundEndpoint, GetEndpoint
<1>4. \A i, j \in 1 .. n : services[i] = services[j] => i = j
  BY <1>1 DEF RegistryTypes
<1> HIDE DEF n, p
<1>5. /\ picks' \in Seq(Servers) /\ Len(picks') = k + 1
      /\ \A i \in 1 .. k : picks'[i] = picks[i]
      /\ picks'[k + 1] = services[p]
  BY <1>1, <1>2, <1>3
<1> HIDE DEF k
<1>6. ASSUME NEW i \in 1 .. k, k - i < n
      PROVE  /\ round_robin < n
             /\ picks[i] = services[PlaceBefore(round_robin, n, k - i)]
             /\ PlaceBefore(round_robin, n, k - i) \in 1 .. n
             /\ k + 1 - i < n =>
                  /\ PlaceBefore(round_robin, n, k - i) # p
                  /\ PlaceBefore(round_robin', n, k + 1 - i) = PlaceBefore(round_robin, n, k - i)
  <2>1. picks # <<>>
    BY <1>1, <1>6 DEF k
  <2>2. round_robin < n /\ picks[i] = services[PlaceBefore(round_robin, n, k - i)]
    BY <1>1, <1>6, <2>1 DEF RoundKnown, k, n
  <2>3. p = round_robin + 1 /\ k - i \in Nat /\ k + 1 - i \in Nat
    BY <1>1, <1>2, <2>2
  <2>4. round_robin' = IF round_robin + 1 = n THEN 0 ELSE round_robin + 1
    BY <1>3, <2>3
  <2> QED
    BY <1>1, <1>2, <1>6, <2>2, <2>3, <2>4 DEF PlaceBefore
<1>7. TurnsRotate'
  <2> SUFFICES ASSUME NEW i \in 1 .. k + 1, NEW j \in 1 .. k + 1, i < j, j - i < n
               PROVE  picks'[i] # picks'[j]
    <3>1. Len(picks') = k + 1 /\ Len(services') = n
      BY <1>3, <1>5 DEF n
    <3>2. TurnsRotate' <=> \A i, j \in 1 .. k + 1 : i < j /\ j - i < n => picks'[i] # picks'[j]
      BY <3>1, Zenon DEF TurnsRotate
    <3> QED
      BY <3>2, Zenon
  <2>1. CASE j <= k
    <3>1. i \in 1 .. k /\ j \in 1 .. k
      BY <1>1, <2>1
    <3>2. picks'[i] = picks[i] /\ picks'[j] = picks[j]
      BY <1>5, <3>1, Zenon
    <3>3. picks[i] # picks[j]
      BY <1>1, <3>1, Zenon DEF TurnsRotate, n, k
    <3> QED
      BY <3>2, <3>3, Zenon
  <2>2. CASE j = k + 1
    <3>1. i \in 1 .. k /\ k - i < n /\ k + 1 - i < n
      BY <1>1, <1>2, <2>2
    <3> QED
      BY <1>2, <1>4, <1>5, <1>6, <2>2, <3>1
  <2> QED
    BY <1>1, <2>1, <2>2
<1>8. RoundKnown'
  <2>1. round_robin' < Len(services')
    BY <1>2, <1>3 DEF n
  <2>2. ASSUME NEW i \in 1 .. k + 1, k + 1 - i < n
        PROVE  picks'[i] = services[PlaceBefore(round_robin', n, k + 1 - i)]
    <3>1. CASE i = k + 1
      <4>1. k + 1 - i = 0
        BY <1>1, <3>1
      <4>2. PlaceBefore(round_robin', n, 0) = p
        BY <1>2, <1>3 DEF PlaceBefore
      <4> QED
        BY <1>5, <3>1, <4>1, <4>2
    <3>2. CASE i # k + 1
      <4>1. i \in 1 .. k /\ k - i < n
        BY <1>1, <1>2, <2>2, <3>2
      <4> QED
        BY <1>5, <1>6, <2>2, <4>1
    <3> QED
      BY <3>1, <3>2
  <2>3. Len(picks') = k + 1 /\ Len(services') = n /\ services' = services
    BY <1>3, <1>5 DEF n
  <2>4. \A i \in 1 .. Len(picks') : Len(picks') - i < Len(services') =>
            picks'[i] = services'[PlaceBefore(round_robin', Len(services'), Len(picks') - i)]
    BY <1>1, <1>2, <2>2, <2>3
  <2> QED
    BY <2>1, <2>4 DEF RoundKnown
<1>9. /\ permits' = IF t \in waiting THEN permits - 1 ELSE permits
      /\ t \in waiting => permits > 0
      /\ waiting' = waiting \ {t} /\ registry_woken' = registry_woken \ {t}
      /\ UNCHANGED <<wakers, removals>>
  BY DEF FoundEndpoint
<1>10. WaitersKnown'
  <2> SUFFICES ASSUME removals = 0
               PROVE  waiting' \subseteq registry_woken' /\ Cardinality(waiting') <= permits'
    BY <1>1, <1>3, <1>9 DEF WaitersKnown
  <2>1. waiting \subseteq registry_woken /\ Cardinality(waiting) <= permits
    BY <1>1 DEF WaitersKnown
  <2>2. IsFiniteSet(waiting) /\ Cardinality(waiting) \in Nat
    BY <1>1, Constants, FS_Subset, FS_CardinalityType DEF RegistryAssumption
  <2>3. CASE t \in waiting
    <3>1. Cardinality(waiting \ {t}) = Cardinality(waiting) - 1
      BY <2>2, <2>3, FS_RemoveElement
    <3> QED
      BY <1>1, <1>9, <2>1, <2>2, <2>3, <3>1
  <2>4. CASE t \notin waiting
    <3>1. waiting' = waiting
      BY <1>9, <2>4
    <3> QED
      BY <1>9, <2>1, <2>4, <3>1
  <2> QED
    BY <2>3, <2>4
<1>11. RegistryTypes'
  <2>1. round_robin' \in Nat /\ permits' \in Nat
    BY <1>1, <1>2, <1>3, <1>9
  <2>2. waiting' \subseteq Waiters /\ registry_woken' \subseteq Waiters
    BY <1>1, <1>9
  <2> QED
    BY <1>1, <1>3, <1>5, <1>9, <2>1, <2>2 DEF RegistryTypes
<1> QED
  BY <1>7, <1>8, <1>10, <1>11 DEF RegistryInv

\* A poll that finds no endpoint leaves a waker, whether the task waits on or
\* gives up; so does an abort, without one.
LEMMA NoneKeeps ==
    ASSUME RegistryInv, NEW t \in Waiters,
           StillWaiting(t) \/ GiveUp(t) \/ GiveUpInLoop(t) \/ StopWaiting(t)
    PROVE  RegistryInv'
<1>1. /\ RegistryTypes /\ TurnsRotate /\ RoundKnown /\ WaitersKnown
      /\ permits \in Nat /\ waiting \subseteq Waiters /\ registry_woken \subseteq Waiters
      /\ wakers \in Seq(Waiters) /\ Len(wakers) \in Nat
  BY DEF RegistryInv, RegistryTypes
<1>2. /\ UNCHANGED <<services, round_robin, picks, removals>>
      /\ registry_woken' = registry_woken \ {t}
      /\ waiting' \in {waiting \cup {t}, waiting \ {t}}
      /\ wakers' \in {wakers, Append(wakers, t)}
      /\ permits' \in {0, permits, permits - 1}
  BY DEF StillWaiting, GiveUp, GiveUpInLoop, StopWaiting, NoEndpoint
<1>3. permits' \in Nat
  BY <1>1 DEF StillWaiting, GiveUp, GiveUpInLoop, StopWaiting, NoEndpoint
<1>4. /\ wakers' \in Seq(Waiters) /\ Len(wakers') \in Nat
      /\ \A i \in 1 .. Len(wakers) : i \in 1 .. Len(wakers') /\ wakers'[i] = wakers[i]
  BY <1>1, <1>2
<1>5. RegistryTypes'
  BY <1>1, <1>2, <1>3, <1>4 DEF RegistryTypes
<1>6. TurnsRotate' /\ RoundKnown'
  BY <1>1, <1>2 DEF TurnsRotate, RoundKnown, PlaceBefore
<1>7. IsFiniteSet(waiting) /\ Cardinality(waiting) \in Nat
  BY <1>1, Constants, FS_Subset, FS_CardinalityType DEF RegistryAssumption
<1>8. ASSUME removals = 0, services = <<>>
      PROVE  /\ permits' = 0 /\ registry_woken' = {}
             /\ \A u \in waiting' : \E i \in 1 .. Len(wakers') : wakers'[i] = u
  <2>1. /\ permits = 0 /\ registry_woken = {}
        /\ \A u \in waiting : \E i \in 1 .. Len(wakers) : wakers[i] = u
    BY <1>1, <1>8 DEF WaitersKnown
  <2>2. permits' = 0 /\ registry_woken' = {}
    BY <1>2, <2>1 DEF StillWaiting, GiveUp, GiveUpInLoop, StopWaiting, NoEndpoint
  <2>3. CASE StillWaiting(t)
    <3>1. wakers' = Append(wakers, t) /\ waiting' = waiting \cup {t}
      BY <2>3 DEF StillWaiting, NoEndpoint
    <3>2. Len(wakers') = Len(wakers) + 1 /\ wakers'[Len(wakers) + 1] = t
      BY <1>1, <3>1
    <3> QED
      BY <1>1, <1>4, <2>1, <2>2, <3>1, <3>2
  <2>4. CASE waiting' \subseteq waiting
    BY <1>4, <2>1, <2>2, <2>4
  <2> QED
    BY <2>3, <2>4 DEF GiveUp, GiveUpInLoop, StopWaiting
<1>9. ASSUME removals = 0, services # <<>>
      PROVE  waiting' \subseteq registry_woken' /\ Cardinality(waiting') <= permits'
  <2>1. waiting \subseteq registry_woken /\ Cardinality(waiting) <= permits
    BY <1>1, <1>9 DEF WaitersKnown
  <2>2. t \in waiting => permits > 0
    <3>1. t \in waiting => Cardinality(waiting) # 0
      BY <1>7, FS_EmptySet
    <3> QED
      BY <1>1, <1>7, <2>1, <3>1
  <2>3. waiting' = waiting \ {t} /\ permits' = permits
    BY <1>9, <2>2 DEF StillWaiting, GiveUp, GiveUpInLoop, StopWaiting, NoEndpoint
  <2>4. Cardinality(waiting \ {t}) <= Cardinality(waiting) /\ Cardinality(waiting \ {t}) \in Nat
    BY <1>7, FS_Subset, FS_CardinalityType
  <2> QED
    BY <1>1, <1>2, <1>7, <2>1, <2>3, <2>4
<1>10. WaitersKnown'
  BY <1>2, <1>8, <1>9 DEF WaitersKnown
<1> QED
  BY <1>5, <1>6, <1>10 DEF RegistryInv

\* The registry starts without endpoints and without waiters.
LEMMA RegistryStarts == ASSUME RegistryInit PROVE RegistryInv
BY DEF RegistryInit, RegistryInv, RegistryTypes, TurnsRotate, RoundKnown, WaitersKnown

\* The invariant of the registry is inductive.
LEMMA RegistryNext ==
    ASSUME RegistryInv, [Next]_vars
    PROVE  RegistryInv'
<1>1. CASE UNCHANGED registry_vars
  BY <1>1 DEF registry_vars, RegistryInv, RegistryTypes, TurnsRotate, RoundKnown, PlaceBefore,
     WaitersKnown
<1> QED
  BY <1>1, RegistrySteps, RegisterKeeps, UnregisterKeeps, FoundKeeps, NoneKeeps DEF RegistryStep

\* endpoint_registry.rs, discovery/mod.rs: endpoints are found, and in turn.
LEMMA RegistrySound == ASSUME RegistryInv PROVE DiscoverySound
<1>1. removals = 0 /\ services # <<>> =>
          waiting \subseteq registry_woken /\ Cardinality(waiting) <= permits
  BY DEF RegistryInv, WaitersKnown
<1> QED
  BY <1>1 DEF RegistryInv, DiscoverySound, EndpointSeen

-----------------------------------------------------------------------------
(* The agenda. *)

\* A message, whatever its content.
IsMessage(m) ==
    /\ m = TransportMessage(m.id, m.source, m.destination, m.size, m.content)
    /\ m.id \in Nat /\ m.source \in Endpoints /\ m.destination \in Endpoints /\ m.size \in Nat

\* The events that carry one, and those that do not.
IsEvent(ev) ==
    \/ ev.kind \in {"SendMessage", "MessageDropped", "HandlerDone"} /\ IsMessage(ev.message)
    \/ /\ ev.kind = "MessageDelivered" /\ ev.at \in {"transport", "handler"}
       /\ IsMessage(ev.message)
    \/ ev.kind = "Elapsed"

\* An entry that is neither in the past nor ahead of the ids given out.
IsEntry(f) ==
    /\ f.seq \in Nat /\ f.seq <= next_event_id
    /\ f.time \in Time /\ now <= f.time
    /\ IsEvent(f.ev)

AgendaInv ==
    /\ now \in Time /\ next_event_id \in Nat
    /\ \A f \in events : IsEntry(f)
    /\ \A f, g \in events : f.seq = g.seq => f = g

-----------------------------------------------------------------------------
(* The transport. *)

Accepted == network.accepted
Handed == network.handed

\* What is known of a message that entered the network.
AcceptedMessage == [id : Nat, source : Endpoints, destination : Endpoints]

TransportTypes ==
    /\ model \in {"simple", "jitter"}
    /\ next_message_id \in Nat \ {0}
    /\ stats \in [sent : Nat, delivered : Nat, dropped : Nat]
    /\ queue_times \in [Endpoints \X Endpoints -> Nat]
    /\ network \in [accepted : Seq(AcceptedMessage), handed : Seq(Nat)]
    /\ carried \in Nat
    /\ IsFiniteSet(InNetwork)

\* Who asked for an id has one below the counter, of its own, and not yet in the network.
Asks(f) == f.ev.kind = "SendMessage" /\ f.ev.message.id # 0

IdsKnown ==
    /\ \A i \in 1 .. Len(Accepted) : Accepted[i].id < next_message_id
    /\ \A f \in events : Asks(f) =>
           /\ f.ev.message.id < next_message_id
           /\ \A i \in 1 .. Len(Accepted) : Accepted[i].id # f.ev.message.id
    /\ \A f, g \in events : Asks(f) /\ Asks(g) /\ f.ev.message.id = g.ev.message.id => f = g

\* The entry f carries the message a that entered the network.
Carries(f, a) ==
    /\ f.ev.kind = "MessageDelivered"
    /\ f.ev.message.id = a.id
    /\ f.ev.message.source = a.source /\ f.ev.message.destination = a.destination

\* A message on its way is one that entered; it is on its way once, and not
\* handed over.
WayKnown ==
    /\ \A k \in 1 .. Len(Handed) : Handed[k] \in 1 .. Len(Accepted)
    /\ \A f \in events : f.ev.kind = "MessageDelivered" =>
           \E i \in 1 .. Len(Accepted) :
               /\ Carries(f, Accepted[i])
               /\ \A k \in 1 .. Len(Handed) : Handed[k] # i
    /\ \A f, g \in events : \A i \in 1 .. Len(Accepted) :
           Carries(f, Accepted[i]) /\ Carries(g, Accepted[i]) => f = g

\* The entry f is handled before the entry g.
IsBefore(f, g) == f.time < g.time \/ (f.time = g.time /\ f.seq < g.seq)

SamePair(a, b) == a.source = b.source /\ a.destination = b.destination

\* The latest time at which a message of the pair p may now arrive.
Horizon(p) == AddTime(now, IF model = "simple" THEN Base ELSE queue_times[p])

\* Of two messages of a pair the one accepted first is ahead: on its way to the
\* transport, on its way to the handler, or with the handler already.
OrderKnown ==
    /\ \A f \in events : f.ev.kind = "MessageDelivered" =>
           /\ f.ev.at = "handler" => f.time = now
           /\ f.ev.at = "transport" =>
                  f.time <= Horizon(<<f.ev.message.source, f.ev.message.destination>>)
    /\ \A f, g \in events : \A i, j \in 1 .. Len(Accepted) :
           Carries(f, Accepted[i]) /\ Carries(g, Accepted[j]) /\ i < j
             /\ SamePair(Accepted[i], Accepted[j]) =>
               /\ f.ev.at = g.ev.at => IsBefore(f, g)
               /\ f.ev.at = "transport" => g.ev.at = "transport"
    /\ \A k \in 1 .. Len(Handed) : \A f \in events : \A j \in 1 .. Len(Accepted) :
           Carries(f, Accepted[j]) /\ SamePair(Accepted[Handed[k]], Accepted[j]) => Handed[k] < j

TransportInv ==
    /\ AgendaInv /\ TransportTypes /\ StatsExact /\ MessageIdsUnique
    /\ IdsKnown /\ WayKnown
    /\ Fifo => OrderKnown

-----------------------------------------------------------------------------
(* What a step does to the agenda and the transport. *)

\* An order that sends no message with an id of its own and delivers none, and a
\* sequence of such orders.
IsCalm(x) ==
    /\ x.delay \in Nat /\ IsEvent(x.ev)
    /\ x.ev.kind # "MessageDelivered"
    /\ x.ev.kind = "SendMessage" => x.ev.message.id = 0

AllCalm(s) == Len(s) \in Nat /\ \A i \in 1 .. Len(s) : IsCalm(s[i])

\* The transport, but for its handlers.
books == <<model, next_message_id, stats, queue_times, network, carried>>

Rests == UNCHANGED agenda_vars /\ UNCHANGED books

Posts == \E s : AllCalm(s) /\ Scheduled(s) /\ UNCHANGED books

Works(e) ==
    /\ e.ev.kind \in {"MessageDropped", "HandlerDone", "Elapsed"}
    /\ \E s : AllCalm(s) /\ Handled(e, s)
    /\ UNCHANGED books

Hands(e) == \E s : AllCalm(s) /\ HandedOver(e, s)

\* Saturating addition stays within time, never goes back, and is monotone.
LEMMA AddTimeFacts ==
    /\ \A t \in Time, d \in Nat : AddTime(t, d) \in Time /\ t <= AddTime(t, d)
    /\ \A t \in Time : AddTime(t, 0) = t
    /\ \A t, u \in Time : \A d, k \in Nat : t <= u /\ d <= k => AddTime(t, d) <= AddTime(u, k)
BY MaxTimeAssumption DEF AddTime, Clamp, Time

\* A message that is put together is one, and keeps its other fields when its id
\* is set.
LEMMA MessageFacts ==
    /\ \A n \in Nat : \A s, d \in Endpoints : \A x :
           /\ IsMessage(TransportMessage(n, s, d, 1, x))
           /\ TransportMessage(n, s, d, 1, x).id = n
    /\ \A m : \A n \in Nat : IsMessage(m) =>
           LET k == [m EXCEPT !.id = n] IN
           /\ IsMessage(k) /\ k.id = n
           /\ k.source = m.source /\ k.destination = m.destination /\ k.size = m.size
<1>1. \A n \in Nat : \A s, d \in Endpoints : \A x :
           /\ IsMessage(TransportMessage(n, s, d, 1, x))
           /\ TransportMessage(n, s, d, 1, x).id = n
  BY DEF IsMessage, TransportMessage
<1>2. ASSUME NEW m, NEW n \in Nat, IsMessage(m)
      PROVE  LET k == [m EXCEPT !.id = n] IN
             /\ IsMessage(k) /\ k.id = n
             /\ k.source = m.source /\ k.destination = m.destination /\ k.size = m.size
  <2>1. [m EXCEPT !.id = n] = TransportMessage(n, m.source, m.destination, m.size, m.content)
    BY <1>2 DEF IsMessage, TransportMessage
  <2> QED
    BY <1>2, <2>1 DEF IsMessage, TransportMessage
<1> QED
  BY <1>1, <1>2

\* The orders of the calls and of the handlers are calm.
LEMMA CalmOrders ==
    /\ \A c, d : \A n \in Nat : IsCalm(After(n, Elapsed(c, d)))
    /\ \A m, ok : \A n \in Nat : IsMessage(m) => IsCalm(After(n, HandlerDone(m, ok)))
    /\ \A s, d \in Endpoints : \A x :
           IsCalm(After(0, SendMessage(TransportMessage(0, s, d, 1, x))))
BY MessageFacts DEF IsCalm, IsEvent, After, Elapsed, HandlerDone, SendMessage

\* Sequences of them are calm.
LEMMA CalmFew ==
    /\ AllCalm(<<>>)
    /\ \A x : IsCalm(x) => AllCalm(<<x>>)
    /\ \A x, y : IsCalm(x) /\ IsCalm(y) => AllCalm(<<x>> \o <<y>>)
<1>1. ASSUME NEW x, NEW y, IsCalm(x), IsCalm(y)
      PROVE  AllCalm(<<x>> \o <<y>>)
  <2> DEFINE s == <<x>> \o <<y>>
  <2>1. <<x>> \in Seq({x, y}) /\ <<y>> \in Seq({x, y})
    OBVIOUS
  <2>2. Len(s) = 2 /\ s[1] = x /\ s[2] = y
    BY <2>1
  <2> QED
    BY <1>1, <2>2 DEF AllCalm
<1> QED
  BY <1>1 DEF AllCalm

\* A request, with the timer of its call or without, is calm.
LEMMA CalmRequests ==
    ASSUME NEW c, NEW s \in Servers
    PROVE  /\ AllCalm(Timer(c)) /\ AllCalm(PostRequest(c, s))
           /\ AllCalm(Timer(c) \o PostRequest(c, s)) /\ AllCalm(PostRequest(c, s) \o Timer(c))
<1>1. Client \in Endpoints /\ s \in Endpoints /\ Timeout \in Nat \cup {Nil}
  BY Constants DEF CallsAssumption
<1> DEFINE x == After(0, SendMessage(TransportMessage(0, Client, s, 1, RequestOf(c))))
           y == After(Timeout, Elapsed(c, now + Timeout))
<1>2. IsCalm(x) /\ PostRequest(c, s) = <<x>>
  BY <1>1, CalmOrders DEF PostRequest
<1>3. CASE Timeout = Nil
  <2>1. Timer(c) = <<>>
    BY <1>3 DEF Timer
  <2> HIDE DEF x
  <2>2. <<>> \o <<x>> = <<x>> /\ <<x>> \o <<>> = <<x>>
    OBVIOUS
  <2> QED
    BY <1>2, <2>1, <2>2, CalmFew
<1>4. CASE Timeout # Nil
  <2>1. Timer(c) = <<y>> /\ Timeout \in Nat
    BY <1>1, <1>4 DEF Timer
  <2>2. IsCalm(y)
    BY <2>1, CalmOrders
  <2> HIDE DEF x, y
  <2> QED
    BY <1>2, <2>1, <2>2, CalmFew
<1> QED
  BY <1>3, <1>4

\* The steps of a call before its request is sent, and while it waits.
LEMMA CallerSteps ==
    ASSUME RegistryTypes, NEW c \in Call,
           StartGrpc(c) \/ StartHttp(c) \/ Poll(c) \/ DropCall(c) \/ PollWait(c)
    PROVE  Rests \/ Posts
<1>1. Target \in Servers
  BY Constants DEF CallsAssumption
<1>2. ASSUME FoundEndpoint(c) PROVE Chosen \in Servers
  BY <1>2, TurnGoesOn DEF FoundEndpoint, GetEndpoint
<1>3. UNCHANGED books
  BY DEF StartGrpc, StartHttp, Poll, PollSelectGrpc, PollSelectHttp, PollResponse, DropCall,
     PollWait, transport_vars, books
<1>4. CASE UNCHANGED agenda_vars
  BY <1>3, <1>4 DEF Rests
<1>5. ASSUME NEW s, AllCalm(s), Scheduled(s) PROVE Posts
  BY <1>3, <1>5 DEF Posts
<1>6. CASE StartGrpc(c)
  BY <1>1, <1>2, <1>4, <1>5, <1>6, CalmRequests DEF StartGrpc
<1>7. CASE StartHttp(c)
  BY <1>1, <1>2, <1>4, <1>5, <1>7, CalmRequests DEF StartHttp
<1>8. CASE Poll(c)
  BY <1>2, <1>4, <1>5, <1>8, CalmRequests DEF Poll, PollSelectGrpc, PollSelectHttp, PollResponse
<1>9. CASE DropCall(c) \/ PollWait(c)
  BY <1>4, <1>9 DEF DropCall, PollWait
<1> QED
  BY <1>6, <1>7, <1>8, <1>9

\* A step of the calls, as the transport sees it.
LEMMA TransportSteps ==
    ASSUME RegistryTypes, AgendaInv, [Next]_vars
    PROVE  \/ Rests \/ Posts \/ ResetStats
           \/ \E d \in Servers : SendThrough(Client, d, 1)
           \/ \E e \in events : HandleSend(e) \/ HandleDelivered(e) \/ Works(e) \/ Hands(e)
<1>1. ASSUME NEW s \in Servers,
             ServeGrpc(s) \/ ServeHttp(s) \/ Withdraw(s) \/ Enlist(s) \/ Retire(s)
      PROVE  Rests
  BY <1>1 DEF ServeGrpc, ServeHttp, InstallHttpServer, InstallServer, Withdraw, Enlist, Retire,
     transport_vars, Rests, books
<1>2. ASSUME NEW e \in events, Handle(e)
      PROVE  HandleSend(e) \/ HandleDelivered(e) \/ Works(e) \/ Hands(e)
  <2>1. IsEvent(e.ev)
    BY DEF AgendaInv, IsEntry
  <2>2. CASE Deliver(e)
    <3>1. CASE HandleDropped(e)
      BY <3>1, CalmFew DEF HandleDropped, Works, transport_vars, books
    <3> QED
      BY <2>2, <3>1 DEF Deliver, TransportStep
  <2>3. CASE HandleResponse(e) \/ HandleMessage(e)
    BY <2>3, CalmFew DEF HandleResponse, HandleMessage, Hands
  <2>4. CASE HandleGrpcRequest(e) \/ HandleHttpRequest(e)
    <3>1. PICK t \in HandlerTimes, ok \in BOOLEAN :
              HandedOver(e, <<After(t, HandlerDone(e.ev.message, ok))>>)
      BY <2>4 DEF HandleGrpcRequest, HandleHttpRequest
    <3>2. IsMessage(e.ev.message) /\ t \in Nat
      BY <2>1, <3>1, Constants DEF IsEvent, HandedOver, CallsAssumption
    <3> QED
      BY <3>1, <3>2, CalmOrders, CalmFew DEF Hands
  <2>5. CASE HandleDone(e)
    <3>1. IsMessage(e.ev.message)
      BY <2>1, <2>5 DEF IsEvent, HandleDone
    <3>2. AllCalm(Respond(e.ev.message, e.ev.ok))
      BY <3>1, CalmOrders, CalmFew DEF Respond, IsMessage
    <3> QED
      BY <2>5, <3>2 DEF HandleDone, Works, transport_vars, books
  <2>6. CASE HandleElapsed(e)
    BY <2>6, CalmFew DEF HandleElapsed, Works, transport_vars, books
  <2> QED
    BY <1>2, <2>2, <2>3, <2>4, <2>5, <2>6 DEF Handle
<1>3. ASSUME NEW s \in Servers, Submit(s)
      PROVE  Posts
  <2>1. Client \in Endpoints /\ s \in Endpoints
    BY Constants DEF CallsAssumption
  <2>2. AllCalm(<<After(0, SendMessage(TransportMessage(0, Client, s, 1, "none")))>>)
    BY <2>1, CalmOrders, CalmFew
  <2> QED
    BY <1>3, <2>2 DEF Submit, Posts, transport_vars, books
<1>4. ASSUME NEW s \in Servers, Listen(s) \/ Ignore(s)
      PROVE  Rests
  BY <1>4 DEF Listen, Ignore, RegisterHandler, UnregisterHandler, Rests, books
<1>5. CASE ConnectGrpc \/ ConnectHttp
  BY <1>5 DEF ConnectGrpc, ConnectHttp, Rests, transport_vars, books
<1>6. CASE UNCHANGED vars
  BY <1>6 DEF vars, Rests, transport_vars, books
<1> QED
  BY <1>1, <1>2, <1>3, <1>4, <1>5, <1>6, CallerSteps DEF Next, Send, Reset

-----------------------------------------------------------------------------
(* The agenda is kept. *)

\* Entries with ids after id, up to jd, and not due before t.
NewEntries(E, id, jd, t) ==
    /\ \A f \in E : /\ f.seq \in Nat /\ id < f.seq /\ f.seq <= jd
                    /\ f.time \in Time /\ t <= f.time
                    /\ IsEvent(f.ev)
    /\ \A f, g \in E : f.seq = g.seq => f = g

AreOrders(s) == Len(s) \in Nat /\ \A i \in 1 .. Len(s) : s[i].delay \in Nat /\ IsEvent(s[i].ev)

\* What a sequence of orders puts on the agenda.
LEMMA OrderEntries ==
    ASSUME NEW s, AreOrders(s), NEW id \in Nat, NEW t \in Time
    PROVE  NewEntries(Entries(s, id, t), id, id + Len(s), t)
<1>1. Len(s) \in Nat /\ \A i \in 1 .. Len(s) : s[i].delay \in Nat /\ IsEvent(s[i].ev)
  BY DEF AreOrders
<1>2. ASSUME NEW f \in Entries(s, id, t)
      PROVE  \E i \in 1 .. Len(s) :
                 f = [seq |-> id + i, time |-> AddTime(t, s[i].delay), ev |-> s[i].ev]
  BY DEF Entries
<1>3. ASSUME NEW f \in Entries(s, id, t)
      PROVE  /\ f.seq \in Nat /\ id < f.seq /\ f.seq <= id + Len(s)
             /\ f.time \in Time /\ t <= f.time /\ IsEvent(f.ev)
  <2>1. PICK i \in 1 .. Len(s) :
            f = [seq |-> id + i, time |-> AddTime(t, s[i].delay), ev |-> s[i].ev]
    BY <1>2
  <2>2. f.seq = id + i /\ f.time = AddTime(t, s[i].delay) /\ f.ev = s[i].ev
    BY <2>1
  <2>3. id + i \in Nat /\ id < id + i /\ id + i <= id + Len(s)
    BY <1>1
  <2> QED
    BY <1>1, <2>2, <2>3, AddTimeFacts
<1>4. ASSUME NEW f \in Entries(s, id, t), NEW g \in Entries(s, id, t), f.seq = g.seq
      PROVE  f = g
  <2>1. PICK i \in 1 .. Len(s) :
            f = [seq |-> id + i, time |-> AddTime(t, s[i].delay), ev |-> s[i].ev]
    BY <1>2
  <2>2. PICK j \in 1 .. Len(s) :
            g = [seq |-> id + j, time |-> AddTime(t, s[j].delay), ev |-> s[j].ev]
    BY <1>2
  <2>3. id + i = id + j
    BY <1>4, <2>1, <2>2
  <2>4. i = j
    BY <1>1, <1>4, <2>3
  <2> QED
    BY <2>1, <2>2, <2>4
<1> QED
  BY <1>3, <1>4 DEF NewEntries

\* What calm orders put there has nothing to do with messages on their way.
LEMMA CalmEntries ==
    ASSUME NEW s, AllCalm(s), NEW id, NEW t
    PROVE  /\ AreOrders(s)
           /\ \A f \in Entries(s, id, t) : f.ev.kind # "MessageDelivered" /\ ~Asks(f)
BY DEF AllCalm, IsCalm, AreOrders, Entries, Asks

\* Later entries keep the agenda in order.
LEMMA AgendaGrows ==
    ASSUME AgendaInv, NEW K \in SUBSET events, NEW E, NEW jd \in Nat, NEW t \in Time,
           now' = t, next_event_id' = jd, events' = K \cup E,
           next_event_id <= jd, now <= t, \A f \in K : t <= f.time,
           NewEntries(E, next_event_id, jd, t)
    PROVE  AgendaInv'
<1>1. ASSUME NEW f \in events' PROVE IsEntry(f)'
  <2>1. CASE f \in K
    <3>1. f.seq \in Nat /\ f.seq <= next_event_id /\ f.time \in Time /\ IsEvent(f.ev)
      BY <2>1 DEF AgendaInv, IsEntry
    <3>2. f.seq <= jd
      BY <3>1 DEF AgendaInv
    <3> QED
      BY <2>1, <3>1, <3>2 DEF IsEntry
  <2>2. CASE f \in E
    BY <2>2 DEF NewEntries, IsEntry
  <2> QED
    BY <2>1, <2>2
<1>2. \A f \in K : f.seq \in Nat /\ f.seq <= next_event_id
  BY DEF AgendaInv, IsEntry
<1>3. \A f \in E : f.seq \in Nat /\ next_event_id < f.seq
  BY DEF NewEntries
<1>4. next_event_id \in Nat
  BY DEF AgendaInv
<1>5. ASSUME NEW f \in events', NEW g \in events', f.seq = g.seq PROVE f = g
  <2>1. CASE f \in K /\ g \in K
    BY <1>5, <2>1 DEF AgendaInv
  <2>2. CASE f \in E /\ g \in E
    BY <1>5, <2>2 DEF NewEntries
  <2> QED
    BY <1>2, <1>3, <1>4, <1>5, <2>1, <2>2
<1> QED
  BY <1>1, <1>5 DEF AgendaInv

\* So the step that handles an entry does,
LEMMA HandledAgenda ==
    ASSUME AgendaInv, NEW s, AreOrders(s), NEW e, Handled(e, s)
    PROVE  /\ AgendaInv'
           /\ e \in events /\ e.time \in Time /\ now <= e.time /\ now' = e.time
           /\ \A f \in events : e.time <= f.time
           /\ events' = (events \ {e}) \cup Entries(s, next_event_id, e.time)
           /\ NewEntries(Entries(s, next_event_id, e.time), next_event_id,
                         next_event_id + Len(s), e.time)
<1>1. /\ e \in events /\ now' = e.time
      /\ \A f \in events : e.time <= f.time
      /\ events' = (events \ {e}) \cup Entries(s, next_event_id, e.time)
      /\ next_event_id' = next_event_id + Len(s)
  BY DEF Handled, Choice
<1>2. e.time \in Time /\ now <= e.time /\ next_event_id \in Nat /\ Len(s) \in Nat
  BY <1>1 DEF AgendaInv, IsEntry, AreOrders
<1>3. NewEntries(Entries(s, next_event_id, e.time), next_event_id, next_event_id + Len(s), e.time)
  BY <1>2, OrderEntries
<1>4. AgendaInv'
  <2> DEFINE K == events \ {e}
             E == Entries(s, next_event_id, e.time)
             jd == next_event_id + Len(s)
  <2>1. K \in SUBSET events /\ \A f \in K : e.time <= f.time
    BY <1>1
  <2>2. events' = K \cup E /\ next_event_id' = jd /\ NewEntries(E, next_event_id, jd, e.time)
    BY <1>1, <1>3
  <2>3. jd \in Nat /\ next_event_id <= jd
    BY <1>2
  <2> HIDE DEF K, E, jd
  <2> QED
    BY <1>1, <1>2, <2>1, <2>2, <2>3, AgendaGrows
<1> QED
  BY <1>1, <1>2, <1>3, <1>4

\* and what is scheduled between two entries.
LEMMA ScheduledAgenda ==
    ASSUME AgendaInv, NEW s, AreOrders(s), Scheduled(s)
    PROVE  AgendaInv'
<1>1. /\ now' = now /\ events' = events \cup Entries(s, next_event_id, now)
      /\ next_event_id' = next_event_id + Len(s)
  BY DEF Scheduled
<1>2. /\ now \in Time /\ next_event_id \in Nat /\ Len(s) \in Nat
      /\ \A f \in events : now <= f.time
  BY DEF AgendaInv, IsEntry, AreOrders
<1>3. now <= now
  BY <1>2, MaxTimeAssumption DEF Time
<1>4. NewEntries(Entries(s, next_event_id, now), next_event_id, next_event_id + Len(s), now)
  BY <1>2, OrderEntries
<1> DEFINE E == Entries(s, next_event_id, now)
           jd == next_event_id + Len(s)
<1>5. events' = events \cup E /\ next_event_id' = jd /\ NewEntries(E, next_event_id, jd, now)
  BY <1>1, <1>4
<1>6. jd \in Nat /\ next_event_id <= jd /\ events \in SUBSET events
  BY <1>2
<1> HIDE DEF E, jd
<1> QED
  BY <1>1, <1>2, <1>3, <1>5, <1>6, AgendaGrows

-----------------------------------------------------------------------------
(* Steps that leave the messages on their way alone. *)

\* As time goes on, a message may arrive no earlier.
LEMMA HorizonGrows ==
    ASSUME TransportTypes, now \in Time, now' \in Time, now <= now',
           UNCHANGED <<model, queue_times>>, NEW p \in Endpoints \X Endpoints
    PROVE  /\ Horizon(p) \in Time /\ Horizon(p)' \in Time
           /\ Horizon(p) <= Horizon(p)'
<1> DEFINE d == IF model = "simple" THEN Base ELSE queue_times[p]
<1>1. d \in Nat
  BY Constants DEF TransportTypes, TransportAssumption
<1>2. Horizon(p) = AddTime(now, d) /\ Horizon(p)' = AddTime(now', d)
  BY DEF Horizon
<1> HIDE DEF d
<1>3. d <= d
  BY <1>1
<1> QED
  BY <1>1, <1>2, <1>3, AddTimeFacts

\* A message that stays on its way stays within its time.
LEMMA TimesStay ==
    ASSUME AgendaInv, AgendaInv', TransportTypes, OrderKnown, UNCHANGED <<model, queue_times>>,
           now <= now', \A f \in events : now' <= f.time,
           NEW f \in events, f.ev.kind = "MessageDelivered"
    PROVE  /\ f.ev.at = "handler" => f.time = now'
           /\ f.ev.at = "transport" =>
                  f.time <= Horizon(<<f.ev.message.source, f.ev.message.destination>>)'
<1> DEFINE p == <<f.ev.message.source, f.ev.message.destination>>
<1>1. f.time \in Time /\ IsMessage(f.ev.message)
  BY DEF AgendaInv, IsEntry, IsEvent
<1>2. now \in Time /\ now' \in Time /\ now' <= f.time
  BY DEF AgendaInv
<1>3. p \in Endpoints \X Endpoints
  BY <1>1 DEF IsMessage
<1>4. Horizon(p) \in Time /\ Horizon(p)' \in Time /\ Horizon(p) <= Horizon(p)'
  <2> HIDE DEF p
  <2> QED
    BY <1>2, <1>3, HorizonGrows
<1>5. /\ f.ev.at = "handler" => f.time = now
      /\ f.ev.at = "transport" => f.time <= Horizon(p)
  BY DEF OrderKnown
<1> HIDE DEF p
<1>6. f.ev.at = "handler" => f.time = now'
  BY <1>2, <1>5, MaxTimeAssumption DEF Time
<1>7. f.ev.at = "transport" => f.time <= Horizon(p)'
  BY <1>1, <1>4, <1>5, MaxTimeAssumption DEF Time
<1> QED
  BY <1>6, <1>7 DEF p

\* A step that adds and takes away nothing that carries a message or asks for an
\* id keeps the invariant.
LEMMA CalmKeeps ==
    ASSUME TransportInv, AgendaInv', UNCHANGED books, now <= now',
           \A f \in events : now' <= f.time,
           \A f \in events' : f \in events \/ (f.ev.kind # "MessageDelivered" /\ ~Asks(f)),
           \A f \in events : f \in events' \/ f.ev.kind # "MessageDelivered"
    PROVE  TransportInv'
<1>1. /\ AgendaInv /\ TransportTypes /\ StatsExact /\ MessageIdsUnique /\ IdsKnown /\ WayKnown
      /\ Fifo => OrderKnown
  BY DEF TransportInv
<1>2. UNCHANGED <<model, next_message_id, stats, queue_times, network, carried>>
  BY DEF books
<1>3. InNetwork' = InNetwork
  BY DEF InNetwork
<1>4. TransportTypes' /\ StatsExact' /\ MessageIdsUnique'
  BY <1>1, <1>2, <1>3 DEF TransportTypes, StatsExact, MessageIdsUnique
<1>5. \A f \in events' : f.ev.kind = "MessageDelivered" \/ Asks(f) => f \in events
  OBVIOUS
<1>6. IdsKnown'
  BY <1>1, <1>2, <1>5 DEF IdsKnown, Accepted
<1>7. WayKnown'
  BY <1>1, <1>2, <1>5 DEF WayKnown, Accepted, Handed, Carries
<1>8. ASSUME Fifo PROVE OrderKnown'
  <2>1. OrderKnown
    BY <1>1, <1>8
  <2>2. ASSUME NEW f \in events', f.ev.kind = "MessageDelivered"
        PROVE  /\ f.ev.at = "handler" => f.time = now'
               /\ f.ev.at = "transport" =>
                      f.time <= Horizon(<<f.ev.message.source, f.ev.message.destination>>)'
    BY <1>1, <1>2, <1>5, <2>1, <2>2, TimesStay
  <2>3. \A f, g \in events' : \A i, j \in 1 .. Len(Accepted') :
           Carries(f, Accepted'[i]) /\ Carries(g, Accepted'[j]) /\ i < j
             /\ SamePair(Accepted'[i], Accepted'[j]) =>
               /\ f.ev.at = g.ev.at => IsBefore(f, g)
               /\ f.ev.at = "transport" => g.ev.at = "transport"
    BY <1>2, <1>5, <2>1 DEF OrderKnown, Accepted, Carries
  <2>4. \A k \in 1 .. Len(Handed') : \A f \in events' : \A j \in 1 .. Len(Accepted') :
           Carries(f, Accepted'[j]) /\ SamePair(Accepted'[Handed'[k]], Accepted'[j]) =>
               Handed'[k] < j
    BY <1>2, <1>5, <2>1 DEF OrderKnown, Accepted, Handed, Carries
  <2> QED
    BY <2>2, <2>3, <2>4 DEF OrderKnown
<1> QED
  BY <1>4, <1>6, <1>7, <1>8 DEF TransportInv

\* The calls do nothing, or schedule what carries no message yet.
LEMMA PostsKeep ==
    ASSUME TransportInv, Rests \/ Posts
    PROVE  TransportInv'
<1>1. AgendaInv /\ now \in Time /\ \A f \in events : now <= f.time
  BY DEF TransportInv, AgendaInv, IsEntry
<1>2. now <= now
  BY <1>1, MaxTimeAssumption DEF Time
<1>3. CASE Rests
  <2>1. now' = now /\ events' = events /\ next_event_id' = next_event_id /\ UNCHANGED books
    BY <1>3 DEF Rests, agenda_vars
  <2>2. AgendaInv'
    BY <1>1, <2>1 DEF AgendaInv, IsEntry
  <2> QED
    BY <1>1, <1>2, <2>1, <2>2, CalmKeeps
<1>4. CASE Posts
  <2>1. PICK s : AllCalm(s) /\ Scheduled(s) /\ UNCHANGED books
    BY <1>4 DEF Posts
  <2>2. /\ AreOrders(s)
        /\ \A f \in Entries(s, next_event_id, now) : f.ev.kind # "MessageDelivered" /\ ~Asks(f)
    BY <2>1, CalmEntries
  <2>3. AgendaInv'
    BY <1>1, <2>1, <2>2, ScheduledAgenda
  <2>4. now' = now /\ events' = events \cup Entries(s, next_event_id, now)
    BY <2>1 DEF Scheduled
  <2> QED
    BY <1>1, <1>2, <2>1, <2>2, <2>3, <2>4, CalmKeeps
<1> QED
  BY <1>3, <1>4

\* An entry is handled that is no message on its way.
LEMMA WorksKeep ==
    ASSUME TransportInv, NEW e \in events, Works(e)
    PROVE  TransportInv'
<1>1. PICK s : AllCalm(s) /\ Handled(e, s)
  BY DEF Works
<1>2. /\ AreOrders(s)
      /\ \A f \in Entries(s, next_event_id, e.time) : f.ev.kind # "MessageDelivered" /\ ~Asks(f)
  BY <1>1, CalmEntries
<1>3. /\ AgendaInv' /\ now <= now' /\ \A f \in events : now' <= f.time
      /\ events' = (events \ {e}) \cup Entries(s, next_event_id, e.time)
  BY <1>1, <1>2, HandledAgenda DEF TransportInv
<1>4. UNCHANGED books /\ e.ev.kind # "MessageDelivered"
  BY DEF Works
<1> QED
  BY <1>2, <1>3, <1>4, CalmKeeps

\* reset_stats: what is on its way is carried over.
LEMMA ResetKeeps ==
    ASSUME TransportInv, ResetStats
    PROVE  TransportInv'
<1>1. /\ AgendaInv /\ TransportTypes /\ MessageIdsUnique /\ IdsKnown /\ WayKnown
      /\ Fifo => OrderKnown
  BY DEF TransportInv
<1>2. /\ stats' = [sent |-> 0, delivered |-> 0, dropped |-> 0]
      /\ carried' = Cardinality(InNetwork)
      /\ UNCHANGED <<now, events, next_event_id, model, next_message_id, queue_times, network>>
  BY DEF ResetStats, agenda_vars
<1>3. InNetwork' = InNetwork
  BY <1>2 DEF InNetwork
<1>4. Cardinality(InNetwork) \in Nat
  BY <1>1, FS_CardinalityType DEF TransportTypes
<1>5. StatsExact'
  <2>1. stats'.sent = 0 /\ stats'.delivered = 0 /\ stats'.dropped = 0
    BY <1>2
  <2> QED
    BY <1>2, <1>3, <1>4, <2>1 DEF StatsExact
<1>6. TransportTypes'
  BY <1>1, <1>2, <1>3, <1>4 DEF TransportTypes
<1>7. AgendaInv' /\ MessageIdsUnique' /\ IdsKnown' /\ WayKnown'
  BY <1>1, <1>2 DEF AgendaInv, IsEntry, MessageIdsUnique, IdsKnown, WayKnown, Accepted, Handed
<1>8. Fifo => OrderKnown'
  BY <1>1, <1>2 DEF OrderKnown, Horizon, Accepted, Handed
<1> QED
  BY <1>5, <1>6, <1>7, <1>8 DEF TransportInv

\* The one entry of an order.
LEMMA OneEntry ==
    /\ \A id, t : Entries(<<>>, id, t) = {}
    /\ \A x, id, t : Entries(<<x>>, id, t) =
                         {[seq |-> id + 1, time |-> AddTime(t, x.delay), ev |-> x.ev]}
BY DEF Entries

\* What the history of the network has in it.
LEMMA NetworkFacts ==
    ASSUME TransportTypes
    PROVE  /\ Accepted \in Seq(AcceptedMessage) /\ Len(Accepted) \in Nat
           /\ Handed \in Seq(Nat) /\ Len(Handed) \in Nat
           /\ \A i \in 1 .. Len(Accepted) : Accepted[i] \in AcceptedMessage
           /\ \A i \in 1 .. Len(Accepted) : Accepted[i].id \in Nat
<1>1. Accepted \in Seq(AcceptedMessage) /\ Handed \in Seq(Nat)
  BY DEF TransportTypes, Accepted, Handed
<1>2. \A i \in 1 .. Len(Accepted) : Accepted[i] \in AcceptedMessage
  BY <1>1
<1>3. \A a \in AcceptedMessage : a.id \in Nat
  BY DEF AcceptedMessage
<1> QED
  BY <1>1, <1>2, <1>3

\* send_message takes the next id at once.
LEMMA SendKeeps ==
    ASSUME TransportInv, NEW d \in Servers, SendThrough(Client, d, 1)
    PROVE  TransportInv'
<1> DEFINE m == TransportMessage(next_message_id, Client, d, 1, "none")
           o == After(0, SendMessage(m))
           x == [seq |-> next_event_id + 1, time |-> AddTime(now, 0), ev |-> SendMessage(m)]
<1>1. /\ AgendaInv /\ TransportTypes /\ StatsExact /\ MessageIdsUnique /\ IdsKnown /\ WayKnown
      /\ Fifo => OrderKnown
  BY DEF TransportInv
<1>2. next_message_id \in Nat \ {0} /\ next_message_id' = next_message_id + 1
  BY <1>1 DEF TransportTypes, SendThrough
<1>3. Client \in Endpoints /\ d \in Endpoints
  BY Constants DEF CallsAssumption
<1>4. IsMessage(m) /\ m.id = next_message_id
  BY <1>2, <1>3, MessageFacts
<1>5. /\ now' = now /\ next_event_id' = next_event_id + 1
      /\ events' = events \cup {x}
      /\ UNCHANGED <<model, stats, queue_times, network, carried>>
  BY OneEntry DEF SendThrough, After
<1> HIDE DEF m
<1>6. x.ev.kind = "SendMessage" /\ x.ev.message = m
  BY DEF SendMessage
<1>7. AgendaInv'
  <2>1. AreOrders(<<o>>)
    BY <1>4, <1>6 DEF AreOrders, After, SendMessage, IsEvent
  <2>2. Scheduled(<<o>>)
    BY <1>5, OneEntry DEF Scheduled, After
  <2> HIDE DEF o
  <2> QED
    BY <1>1, <2>1, <2>2, ScheduledAgenda
<1> HIDE DEF x, o
<1>8. InNetwork' = InNetwork
  BY <1>5, <1>6 DEF InNetwork
<1>9. TransportTypes' /\ StatsExact' /\ MessageIdsUnique'
  <2>1. next_message_id' \in Nat \ {0}
    BY <1>2
  <2>2. TransportTypes'
    BY <1>1, <1>5, <1>8, <2>1 DEF TransportTypes
  <2> QED
    BY <1>1, <1>5, <1>8, <2>2 DEF StatsExact, MessageIdsUnique
<1>10. \A i \in 1 .. Len(Accepted) : Accepted[i].id \in Nat
  BY <1>1, NetworkFacts
<1>11. \A f \in events : Asks(f) => f.ev.message.id \in Nat
  BY <1>1 DEF AgendaInv, IsEntry, IsEvent, IsMessage, Asks
<1>12. IdsKnown'
  <2>1. Accepted' = Accepted
    BY <1>5 DEF Accepted
  <2>2. \A i \in 1 .. Len(Accepted) :
            Accepted[i].id < next_message_id' /\ Accepted[i].id # next_message_id
    BY <1>1, <1>2, <1>10 DEF IdsKnown
  <2>3. \A f \in events : Asks(f) =>
            /\ f.ev.message.id < next_message_id' /\ f.ev.message.id # next_message_id
            /\ \A i \in 1 .. Len(Accepted) : Accepted[i].id # f.ev.message.id
    BY <1>1, <1>2, <1>11 DEF IdsKnown
  <2>4. next_message_id < next_message_id' /\ x.ev.message.id = next_message_id
    BY <1>2, <1>4, <1>6
  <2>5. \A f, g \in events : Asks(f) /\ Asks(g) /\ f.ev.message.id = g.ev.message.id => f = g
    BY <1>1 DEF IdsKnown
  <2> QED
    BY <1>5, <2>1, <2>2, <2>3, <2>4, <2>5 DEF IdsKnown
<1>13. \A f \in events' : f.ev.kind = "MessageDelivered" => f \in events
  BY <1>5, <1>6
<1>14. WayKnown'
  BY <1>1, <1>5, <1>13 DEF WayKnown, Accepted, Handed, Carries
<1>15. Fifo => OrderKnown'
  BY <1>1, <1>5, <1>13 DEF OrderKnown, Horizon, Accepted, Handed, Carries
<1> QED
  BY <1>7, <1>9, <1>12, <1>14, <1>15 DEF TransportInv

-----------------------------------------------------------------------------
(* Messages enter the network. *)

\* The id of a message that enters is new, and nobody else asks for it.
LEMMA NewId ==
    ASSUME TransportInv, NEW e \in events, e.ev.kind = "SendMessage"
    PROVE  LET n == AssignedId(e.ev.message)
               q == NextMessageId(e.ev.message)
           IN  /\ n \in Nat \ {0} /\ q \in Nat \ {0} /\ n < q /\ next_message_id <= q
               /\ \A i \in 1 .. Len(Accepted) : Accepted[i].id # n /\ Accepted[i].id < q
               /\ \A f \in events \ {e} : Asks(f) =>
                      f.ev.message.id # n /\ f.ev.message.id < q
<1>1. AgendaInv /\ TransportTypes /\ IdsKnown
  BY DEF TransportInv
<1>2. next_message_id \in Nat \ {0}
  BY <1>1 DEF TransportTypes
<1>3. e.ev.message.id \in Nat
  BY <1>1 DEF AgendaInv, IsEntry, IsEvent, IsMessage
<1>4. \A f \in events : Asks(f) => f.ev.message.id \in Nat /\ f.ev.message.id < next_message_id
  BY <1>1 DEF AgendaInv, IsEntry, IsEvent, IsMessage, Asks, IdsKnown
<1>5. \A i \in 1 .. Len(Accepted) : Accepted[i].id \in Nat /\ Accepted[i].id < next_message_id
  BY <1>1, NetworkFacts DEF IdsKnown
<1>6. CASE e.ev.message.id = 0
  <2>1. /\ AssignedId(e.ev.message) = next_message_id
        /\ NextMessageId(e.ev.message) = next_message_id + 1
    BY <1>6 DEF AssignedId, NextMessageId
  <2> QED
    BY <1>2, <1>4, <1>5, <2>1
<1>7. CASE e.ev.message.id # 0
  <2>1. Asks(e)
    BY <1>7 DEF Asks
  <2>2. e.ev.message.id < next_message_id
    BY <1>4, <2>1
  <2>3. /\ AssignedId(e.ev.message) = e.ev.message.id
        /\ NextMessageId(e.ev.message) = next_message_id
    BY <1>2, <1>3, <1>7, <2>2 DEF AssignedId, NextMessageId
  <2>4. \A i \in 1 .. Len(Accepted) : Accepted[i].id # e.ev.message.id
    BY <1>1, <2>1 DEF IdsKnown
  <2>5. \A f \in events \ {e} : Asks(f) => f.ev.message.id # e.ev.message.id
    BY <1>1, <2>1 DEF IdsKnown
  <2> QED
    BY <1>2, <1>3, <1>4, <1>5, <1>7, <2>2, <2>3, <2>4, <2>5
<1> QED
  BY <1>6, <1>7

\* The message a enters the network: it is the last one, under an id of its own,
\* and x is all that carries it.
Enters(e, x, a) ==
    /\ e.ev.kind = "SendMessage"
    /\ a \in AcceptedMessage
    /\ \A i \in 1 .. Len(Accepted) : Accepted[i].id # a.id
    /\ network' = [network EXCEPT !.accepted = Append(@, a)]
    /\ events' = (events \ {e}) \cup {x}
    /\ ~Asks(x)
    /\ x.ev.kind = "MessageDelivered" => Carries(x, a)

\* The history after that.
LEMMA EntersFacts ==
    ASSUME TransportTypes, NEW e, NEW x, NEW a, Enters(e, x, a)
    PROVE  /\ Len(Accepted) \in Nat /\ Len(Accepted') = Len(Accepted) + 1
           /\ \A i \in 1 .. Len(Accepted) : Accepted'[i] = Accepted[i]
           /\ Accepted'[Len(Accepted) + 1] = a
           /\ Handed' = Handed
           /\ network' \in [accepted : Seq(AcceptedMessage), handed : Seq(Nat)]
<1>1. network \in [accepted : Seq(AcceptedMessage), handed : Seq(Nat)]
  BY DEF TransportTypes
<1>2. Accepted \in Seq(AcceptedMessage) /\ Len(Accepted) \in Nat
  BY NetworkFacts
<1>3. network' = [network EXCEPT !.accepted = Append(@, a)] /\ a \in AcceptedMessage
  BY DEF Enters
<1>4. Accepted' = Append(Accepted, a) /\ Handed' = Handed
  BY <1>1, <1>3 DEF Accepted, Handed
<1>5. network' \in [accepted : Seq(AcceptedMessage), handed : Seq(Nat)]
  <2>1. Append(Accepted, a) \in Seq(AcceptedMessage)
    BY <1>2, <1>3
  <2> QED
    BY <1>1, <1>3, <2>1 DEF Accepted
<1> QED
  BY <1>2, <1>4, <1>5

\* Only x carries the new message, and x carries no other.
LEMMA EntersCarried ==
    ASSUME TransportInv, NEW e, NEW x, NEW a, Enters(e, x, a),
           NEW f \in events', NEW i \in 1 .. Len(Accepted'), Carries(f, Accepted'[i])
    PROVE  \/ f \in events /\ i \in 1 .. Len(Accepted) /\ Carries(f, Accepted[i])
           \/ /\ f = x /\ i = Len(Accepted) + 1
              /\ Carries(x, a) /\ x.ev.kind = "MessageDelivered"
<1>1. TransportTypes /\ WayKnown
  BY DEF TransportInv
<1>2. /\ Len(Accepted) \in Nat /\ Len(Accepted') = Len(Accepted) + 1
      /\ \A j \in 1 .. Len(Accepted) : Accepted'[j] = Accepted[j]
      /\ Accepted'[Len(Accepted) + 1] = a
  BY <1>1, EntersFacts
<1>3. f.ev.kind = "MessageDelivered" /\ f.ev.message.id = Accepted'[i].id
  BY DEF Carries
<1>4. \A j \in 1 .. Len(Accepted) : Accepted[j].id # a.id
  BY DEF Enters
<1>5. CASE f = x
  <2>1. Carries(x, a) /\ f.ev.message.id = a.id
    BY <1>3, <1>5 DEF Enters, Carries
  <2>2. i \in 1 .. Len(Accepted) \/ i = Len(Accepted) + 1
    BY <1>2
  <2>3. i \notin 1 .. Len(Accepted)
    BY <1>2, <1>3, <1>4, <2>1
  <2> QED
    BY <1>3, <1>5, <2>1, <2>2, <2>3
<1>6. CASE f \in events
  <2>1. PICK j \in 1 .. Len(Accepted) : Carries(f, Accepted[j])
    BY <1>1, <1>3, <1>6 DEF WayKnown
  <2>2. f.ev.message.id # a.id
    BY <1>4, <2>1 DEF Carries
  <2>3. i \in 1 .. Len(Accepted)
    BY <1>2, <1>3, <2>2
  <2> QED
    BY <1>2, <1>6, <2>3
<1> QED
  BY <1>5, <1>6 DEF Enters

\* Ids stay unique, and every message on its way is known.
LEMMA EntersWay ==
    ASSUME TransportInv, NEW e \in events, NEW x, NEW a, Enters(e, x, a)
    PROVE  MessageIdsUnique' /\ WayKnown'
<1>1. TransportTypes /\ WayKnown /\ MessageIdsUnique
  BY DEF TransportInv
<1>2. /\ Len(Accepted) \in Nat /\ Len(Accepted') = Len(Accepted) + 1
      /\ \A j \in 1 .. Len(Accepted) : Accepted'[j] = Accepted[j]
      /\ Accepted'[Len(Accepted) + 1] = a
      /\ Handed' = Handed
  BY <1>1, EntersFacts
<1>3. /\ \A j \in 1 .. Len(Accepted) : Accepted[j].id # a.id
      /\ events' = (events \ {e}) \cup {x}
      /\ x.ev.kind = "MessageDelivered" => Carries(x, a)
  BY DEF Enters
<1>4. \A i, j \in 1 .. Len(Accepted) : Accepted[i].id = Accepted[j].id => i = j
  BY <1>1 DEF MessageIdsUnique, Accepted
<1>5. \A i, j \in 1 .. Len(Accepted') : Accepted'[i].id = Accepted'[j].id => i = j
  BY <1>2, <1>3, <1>4
<1>6. MessageIdsUnique'
  BY <1>5 DEF MessageIdsUnique, Accepted
<1>7. \A k \in 1 .. Len(Handed) : Handed[k] \in 1 .. Len(Accepted)
  BY <1>1 DEF WayKnown
<1>8. \A k \in 1 .. Len(Handed) :
          Handed[k] \in 1 .. Len(Accepted') /\ Handed[k] # Len(Accepted) + 1
  BY <1>2, <1>7
<1>9. ASSUME NEW f \in events', f.ev.kind = "MessageDelivered"
      PROVE  \E i \in 1 .. Len(Accepted') :
                 Carries(f, Accepted'[i]) /\ \A k \in 1 .. Len(Handed) : Handed[k] # i
  <2>1. CASE f \in events
    <3>1. PICK i \in 1 .. Len(Accepted) :
              Carries(f, Accepted[i]) /\ \A k \in 1 .. Len(Handed) : Handed[k] # i
      BY <1>1, <1>9, <2>1 DEF WayKnown
    <3>2. i \in 1 .. Len(Accepted') /\ Accepted'[i] = Accepted[i]
      BY <1>2
    <3> QED
      BY <3>1, <3>2
  <2>2. CASE f = x
    <3>1. Len(Accepted) + 1 \in 1 .. Len(Accepted')
      BY <1>2
    <3> QED
      BY <1>2, <1>3, <1>8, <1>9, <2>2, <3>1
  <2> QED
    BY <1>3, <2>1, <2>2
<1>10. ASSUME NEW f \in events', NEW g \in events', NEW i \in 1 .. Len(Accepted'),
              Carries(f, Accepted'[i]), Carries(g, Accepted'[i])
       PROVE  f = g
  <2>1. \/ f \in events /\ i \in 1 .. Len(Accepted) /\ Carries(f, Accepted[i])
        \/ f = x /\ i = Len(Accepted) + 1
    BY <1>10, EntersCarried
  <2>2. \/ g \in events /\ i \in 1 .. Len(Accepted) /\ Carries(g, Accepted[i])
        \/ g = x /\ i = Len(Accepted) + 1
    BY <1>10, EntersCarried
  <2>3. i \in 1 .. Len(Accepted) => i # Len(Accepted) + 1
    BY <1>2
  <2> QED
    BY <1>1, <2>1, <2>2, <2>3 DEF WayKnown
<1>11. WayKnown'
  BY <1>2, <1>8, <1>9, <1>10 DEF WayKnown
<1> QED
  BY <1>6, <1>11

\* A message that enters is behind those of its pair that are on their way.
LEMMA EntersOrder ==
    ASSUME TransportInv, AgendaInv', OrderKnown,
           NEW e \in events, NEW x, NEW a, Enters(e, x, a),
           now <= now', \A f \in events : now' <= f.time,
           \A p \in Endpoints \X Endpoints :
               /\ Horizon(p) \in Time /\ Horizon(p)' \in Time
               /\ Horizon(p) <= Horizon(p)',
           x.ev.kind = "MessageDelivered" =>
               /\ x.ev.at = "transport" /\ next_event_id < x.seq
               /\ x.time = Horizon(<<a.source, a.destination>>)'
    PROVE  OrderKnown'
<1>1. AgendaInv /\ TransportTypes /\ WayKnown
  BY DEF TransportInv
<1>2. /\ Len(Accepted) \in Nat /\ Len(Accepted') = Len(Accepted) + 1
      /\ \A j \in 1 .. Len(Accepted) : Accepted'[j] = Accepted[j]
      /\ Accepted'[Len(Accepted) + 1] = a
      /\ Handed' = Handed
  BY <1>1, EntersFacts
<1>3. /\ events' = (events \ {e}) \cup {x} /\ a \in AcceptedMessage
      /\ x.ev.kind = "MessageDelivered" => Carries(x, a)
  BY DEF Enters
<1>4. now \in Time /\ now' \in Time /\ next_event_id \in Nat
  BY <1>1 DEF AgendaInv
<1>5. \A t \in Time : t \in Nat
  BY MaxTimeAssumption DEF Time
<1>6. ASSUME NEW f \in events, f.ev.kind = "MessageDelivered"
      PROVE  /\ f.time \in Time /\ f.seq \in Nat /\ f.seq <= next_event_id
             /\ <<f.ev.message.source, f.ev.message.destination>> \in Endpoints \X Endpoints
             /\ f.ev.at = "handler" => f.time = now
             /\ f.ev.at = "transport" =>
                    f.time <= Horizon(<<f.ev.message.source, f.ev.message.destination>>)'
  <2> DEFINE p == <<f.ev.message.source, f.ev.message.destination>>
  <2>1. f.time \in Time /\ f.seq \in Nat /\ f.seq <= next_event_id /\ IsMessage(f.ev.message)
    BY <1>1, <1>6 DEF AgendaInv, IsEntry, IsEvent
  <2>2. p \in Endpoints \X Endpoints
    BY <2>1 DEF IsMessage
  <2>3. /\ f.ev.at = "handler" => f.time = now
        /\ f.ev.at = "transport" => f.time <= Horizon(p)
    BY <1>6 DEF OrderKnown
  <2> HIDE DEF p
  <2>4. Horizon(p) \in Nat /\ Horizon(p)' \in Nat /\ Horizon(p) <= Horizon(p)' /\ f.time \in Nat
    BY <1>5, <2>1, <2>2
  <2>5. f.ev.at = "transport" => f.time <= Horizon(p)'
    BY <2>3, <2>4
  <2> QED
    BY <2>1, <2>2, <2>3, <2>5 DEF p
<1>7. ASSUME NEW f \in events', f.ev.kind = "MessageDelivered"
      PROVE  /\ f.ev.at = "handler" => f.time = now'
             /\ f.ev.at = "transport" =>
                    f.time <= Horizon(<<f.ev.message.source, f.ev.message.destination>>)'
  <2>1. CASE f \in events
    <3>1. f.ev.at = "handler" => f.time = now'
      <4>1. now \in Nat /\ now' \in Nat /\ now <= now' /\ now' <= f.time
        BY <1>4, <1>5, <2>1
      <4>2. f.ev.at = "handler" => f.time = now
        BY <1>6, <1>7, <2>1
      <4> QED
        BY <4>1, <4>2
    <3> QED
      BY <1>6, <1>7, <2>1, <3>1
  <2>2. CASE f = x
    <3>1. <<f.ev.message.source, f.ev.message.destination>> = <<a.source, a.destination>>
      BY <1>3, <1>7, <2>2 DEF Carries
    <3>2. <<a.source, a.destination>> \in Endpoints \X Endpoints
      BY <1>3 DEF AcceptedMessage
    <3>3. f.time = Horizon(<<a.source, a.destination>>)' /\ f.time \in Nat
      BY <1>5, <1>7, <2>2, <3>2
    <3>4. f.time <= f.time
      BY <3>3
    <3> QED
      BY <1>7, <2>2, <3>1, <3>3, <3>4
  <2> QED
    BY <1>3, <2>1, <2>2
<1>8. ASSUME NEW f \in events', NEW g \in events',
             NEW i \in 1 .. Len(Accepted'), NEW j \in 1 .. Len(Accepted'),
             Carries(f, Accepted'[i]), Carries(g, Accepted'[j]), i < j,
             SamePair(Accepted'[i], Accepted'[j])
      PROVE  /\ f.ev.at = g.ev.at => IsBefore(f, g)
             /\ f.ev.at = "transport" => g.ev.at = "transport"
  <2>1. \/ f \in events /\ i \in 1 .. Len(Accepted) /\ Carries(f, Accepted[i])
        \/ i = Len(Accepted) + 1
    BY <1>8, EntersCarried
  <2>2. \/ g \in events /\ j \in 1 .. Len(Accepted) /\ Carries(g, Accepted[j])
        \/ g = x /\ j = Len(Accepted) + 1 /\ Carries(x, a) /\ x.ev.kind = "MessageDelivered"
    BY <1>8, EntersCarried
  <2>3. i # Len(Accepted) + 1
    BY <1>2, <1>8
  <2>4. CASE g \in events /\ j \in 1 .. Len(Accepted) /\ Carries(g, Accepted[j])
    <3>1. SamePair(Accepted[i], Accepted[j])
      BY <1>2, <1>8, <2>1, <2>3, <2>4
    <3> QED
      BY <1>8, <2>1, <2>3, <2>4, <3>1 DEF OrderKnown
  <2>5. CASE g = x /\ j = Len(Accepted) + 1 /\ Carries(x, a) /\ x.ev.kind = "MessageDelivered"
    <3>1. f \in events /\ Carries(f, Accepted[i]) /\ f.ev.kind = "MessageDelivered"
      BY <2>1, <2>3 DEF Carries
    <3>2. SamePair(Accepted[i], a)
      BY <1>2, <1>8, <2>1, <2>3, <2>5
    <3>3. <<f.ev.message.source, f.ev.message.destination>> = <<a.source, a.destination>>
      BY <3>1, <3>2 DEF Carries, SamePair
    <3>4. ASSUME f.ev.at = "transport" PROVE IsBefore(f, x)
      <4>1. /\ f.time \in Time /\ f.seq \in Nat /\ f.seq <= next_event_id
            /\ f.time <= Horizon(<<a.source, a.destination>>)'
        BY <1>6, <3>1, <3>3, <3>4
      <4>2. x.time = Horizon(<<a.source, a.destination>>)' /\ next_event_id < x.seq
        BY <2>5
      <4>3. x.time \in Time /\ x.seq \in Nat
        BY <1>3 DEF AgendaInv, IsEntry
      <4>4. f.time <= x.time /\ f.time \in Nat /\ x.time \in Nat
        BY <1>5, <4>1, <4>2, <4>3
      <4>5. f.seq < x.seq
        BY <1>4, <4>1, <4>2, <4>3
      <4> QED
        BY <4>4, <4>5 DEF IsBefore
    <3> QED
      BY <2>5, <3>4
  <2> QED
    BY <2>2, <2>4, <2>5
<1>9. ASSUME NEW k \in 1 .. Len(Handed), NEW f \in events', NEW j \in 1 .. Len(Accepted'),
             Carries(f, Accepted'[j]), SamePair(Accepted'[Handed[k]], Accepted'[j])
      PROVE  Handed[k] < j
  <2>1. Handed[k] \in 1 .. Len(Accepted)
    BY <1>1 DEF WayKnown
  <2>2. CASE j = Len(Accepted) + 1
    BY <1>2, <2>1, <2>2
  <2>3. CASE f \in events /\ j \in 1 .. Len(Accepted) /\ Carries(f, Accepted[j])
    <3>1. SamePair(Accepted[Handed[k]], Accepted[j])
      BY <1>2, <1>9, <2>1, <2>3
    <3> QED
      BY <2>3, <3>1 DEF OrderKnown
  <2> QED
    BY <1>9, <2>2, <2>3, EntersCarried
<1> QED
  BY <1>2, <1>7, <1>8, <1>9 DEF OrderKnown

\* calculate_latency: a number, and for a later message of the pair no earlier
\* arrival; what the model notes is the arrival of the last one.
LEMMA LatencyFacts ==
    ASSUME TransportTypes, NEW m, IsMessage(m), now \in Time, NEW t \in Time, now <= t, now' = t,
           model' = model, NEW d \in CalculateLatency(m, t), NoteArrival(m, d)
    PROVE  /\ d \in Nat
           /\ queue_times' \in [Endpoints \X Endpoints -> Nat]
           /\ Horizon(<<m.source, m.destination>>)' = AddTime(t, d)
           /\ \A p \in Endpoints \X Endpoints :
                  /\ Horizon(p) \in Time /\ Horizon(p)' \in Time
                  /\ Horizon(p) <= Horizon(p)'
<1>1. /\ m.size \in Nat /\ <<m.source, m.destination>> \in Endpoints \X Endpoints
      /\ Base \in Nat /\ Jittered \subseteq Nat /\ ByteDelay \in Nat
      /\ model \in {"simple", "jitter"}
      /\ queue_times \in [Endpoints \X Endpoints -> Nat]
      /\ t \in Nat
  <2>1. m.size \in Nat /\ <<m.source, m.destination>> \in Endpoints \X Endpoints
    BY DEF IsMessage
  <2>2. Base \in Nat /\ Jittered \subseteq Nat /\ ByteDelay \in Nat
    BY Constants DEF TransportAssumption
  <2>3. model \in {"simple", "jitter"} /\ queue_times \in [Endpoints \X Endpoints -> Nat]
    BY DEF TransportTypes
  <2>4. t \in Nat
    BY MaxTimeAssumption DEF Time
  <2> QED
    BY <2>1, <2>2, <2>3, <2>4
<1>2. PICK w : w = <<m.source, m.destination>>
  OBVIOUS
<1>3. CASE model = "simple"
  <2>1. d = Base /\ queue_times' = queue_times
    BY <1>3 DEF CalculateLatency, SimpleLatency, NoteArrival
  <2>2. \A p : Horizon(p) = AddTime(now, Base) /\ Horizon(p)' = AddTime(t, Base)
    BY <1>3 DEF Horizon
  <2>3. Base <= Base
    BY <1>1
  <2> QED
    BY <1>1, <2>1, <2>2, <2>3, AddTimeFacts
<1>4. CASE model = "jitter"
  <2>1. PICK sample \in Jittered : d = QueueFrom(t, m) + sample + BandwidthDelay(m)
    BY <1>4 DEF CalculateLatency, JitteredArrival
  <2>2. BandwidthDelay(m) \in Nat
    BY <1>1 DEF BandwidthDelay
  <2>3. queue_times[w] \in Nat /\ w \in Endpoints \X Endpoints
    BY <1>1, <1>2
  <2>4. QueueFrom(t, m) \in Nat /\ queue_times[w] <= QueueFrom(t, m)
    BY <1>1, <1>2, <2>3 DEF QueueFrom, LargerOf
  <2>5. d \in Nat /\ queue_times[w] <= d
    BY <1>1, <2>1, <2>2, <2>3, <2>4
  <2>6. queue_times' = [queue_times EXCEPT ![w] = d]
    BY <1>2, <1>4 DEF NoteArrival
  <2>7. \A p \in Endpoints \X Endpoints :
            /\ queue_times[p] \in Nat /\ queue_times'[p] \in Nat
            /\ queue_times[p] <= queue_times'[p]
    BY <1>1, <2>3, <2>5, <2>6
  <2>8. \A p : /\ Horizon(p) = AddTime(now, queue_times[p])
               /\ Horizon(p)' = AddTime(t, queue_times'[p])
    BY <1>4 DEF Horizon
  <2>9. queue_times'[w] = d /\ queue_times' \in [Endpoints \X Endpoints -> Nat]
    BY <1>1, <2>3, <2>5, <2>6
  <2> QED
    BY <1>2, <2>5, <2>7, <2>8, <2>9, AddTimeFacts
<1> QED
  BY <1>1, <1>3, <1>4

\* What counting does to the statistics.
Stats == [sent : Nat, delivered : Nat, dropped : Nat]
Counted(s, p, q, r) ==
    [sent |-> s.sent + p, delivered |-> s.delivered + q, dropped |-> s.dropped + r]

\* It is what the handlers write.
LEMMA CountedFields ==
    ASSUME NEW s \in Stats
    PROVE  /\ [s EXCEPT !.sent = @ + 1, !.dropped = @ + 1] = Counted(s, 1, 0, 1)
           /\ [s EXCEPT !.sent = @ + 1] = Counted(s, 1, 0, 0)
           /\ [s EXCEPT !.delivered = @ + 1] = Counted(s, 0, 1, 0)
<1>1. s.sent + 0 = s.sent /\ s.delivered + 0 = s.delivered /\ s.dropped + 0 = s.dropped
  BY DEF Stats
<1>2. \A t \in Stats : t = [sent |-> t.sent, delivered |-> t.delivered, dropped |-> t.dropped]
  BY DEF Stats
<1>3. [s EXCEPT !.sent = @ + 1, !.dropped = @ + 1] = Counted(s, 1, 0, 1)
  <2>1. PICK t : t = [s EXCEPT !.sent = @ + 1, !.dropped = @ + 1]
    OBVIOUS
  <2>2. s.sent + 1 \in Nat /\ s.dropped + 1 \in Nat
    BY DEF Stats
  <2>3. t \in Stats /\ t.sent = s.sent + 1 /\ t.delivered = s.delivered /\ t.dropped = s.dropped + 1
    BY <2>1, <2>2 DEF Stats
  <2> QED
    BY <1>1, <1>2, <2>1, <2>3 DEF Counted
<1>4. [s EXCEPT !.sent = @ + 1]
          = [sent |-> s.sent + 1, delivered |-> s.delivered, dropped |-> s.dropped]
  BY DEF Stats
<1>5. [s EXCEPT !.delivered = @ + 1]
          = [sent |-> s.sent, delivered |-> s.delivered + 1, dropped |-> s.dropped]
  BY DEF Stats
<1> QED
  BY <1>1, <1>3, <1>4, <1>5 DEF Counted

\* The statistics of a step that counts and of what it puts into the network.
LEMMA StatsMove ==
    ASSUME TransportTypes, StatsExact, NEW p \in {0, 1}, NEW q \in {0, 1}, NEW r \in {0, 1},
           stats' = Counted(stats, p, q, r),
           carried' = carried,
           IsFiniteSet(InNetwork'),
           Cardinality(InNetwork') = (Cardinality(InNetwork) + p) - (q + r)
    PROVE  StatsExact' /\ stats' \in [sent : Nat, delivered : Nat, dropped : Nat]
<1>1. /\ stats \in [sent : Nat, delivered : Nat, dropped : Nat] /\ carried \in Nat
      /\ Cardinality(InNetwork) \in Nat
  BY FS_CardinalityType DEF TransportTypes
<1>2. /\ stats'.sent = stats.sent + p /\ stats'.delivered = stats.delivered + q
      /\ stats'.dropped = stats.dropped + r
      /\ stats' \in [sent : Nat, delivered : Nat, dropped : Nat]
  BY <1>1 DEF Counted
<1>3. stats.sent \in Nat /\ stats.delivered \in Nat /\ stats.dropped \in Nat
  BY <1>1
<1>4. stats.sent + carried = stats.delivered + stats.dropped + Cardinality(InNetwork)
  BY DEF StatsExact
<1>5. stats'.sent + carried' = stats'.delivered + stats'.dropped + Cardinality(InNetwork')
  BY <1>1, <1>2, <1>3, <1>4
<1>6. StatsExact'
  BY <1>5 DEF StatsExact
<1> QED
  BY <1>2, <1>6

\* SendMessage is handled: the message is counted, and is lost or on its way.
LEMMA EnterKeeps ==
    ASSUME TransportInv, NEW e \in events, HandleSend(e)
    PROVE  /\ TransportInv'
           /\ \E x, a : Enters(e, x, a)
<1>1. /\ AgendaInv /\ TransportTypes /\ StatsExact /\ MessageIdsUnique /\ IdsKnown /\ WayKnown
      /\ Fifo => OrderKnown
  BY DEF TransportInv
<1>2. e.ev.kind = "SendMessage" /\ IsMessage(e.ev.message)
  BY <1>1 DEF HandleSend, AgendaInv, IsEntry, IsEvent
<1>3. PICK n, q : n = AssignedId(e.ev.message) /\ q = NextMessageId(e.ev.message)
  OBVIOUS
<1>4. /\ n \in Nat \ {0} /\ q \in Nat \ {0} /\ n < q
      /\ \A i \in 1 .. Len(Accepted) : Accepted[i].id # n /\ Accepted[i].id < q
      /\ \A f \in events \ {e} : Asks(f) => f.ev.message.id # n /\ f.ev.message.id < q
  BY <1>2, <1>3, NewId
<1>5. PICK m : m = [e.ev.message EXCEPT !.id = n]
  OBVIOUS
<1>6. IsMessage(m) /\ m.id = n
  BY <1>2, <1>4, <1>5, MessageFacts
<1>7. PICK a : a = [id |-> m.id, source |-> m.source, destination |-> m.destination]
  OBVIOUS
<1>8. a \in AcceptedMessage /\ a.id = n /\ a.source = m.source /\ a.destination = m.destination
  BY <1>6, <1>7 DEF AcceptedMessage, IsMessage
<1>9. /\ next_message_id' = q
      /\ network' = [network EXCEPT !.accepted = Append(@, a)]
      /\ UNCHANGED <<model, carried>>
  BY <1>3, <1>5, <1>7 DEF HandleSend
<1>10. now \in Time /\ now \in Nat
  BY <1>1, MaxTimeAssumption DEF AgendaInv, Time
\* What both outcomes keep.
<1>11. ASSUME NEW x, Enters(e, x, a), AgendaInv'
       PROVE  MessageIdsUnique' /\ WayKnown' /\ IdsKnown'
  <2>1. MessageIdsUnique' /\ WayKnown'
    BY <1>11, EntersWay
  <2>2. /\ Len(Accepted) \in Nat /\ Len(Accepted') = Len(Accepted) + 1
        /\ \A j \in 1 .. Len(Accepted) : Accepted'[j] = Accepted[j]
        /\ Accepted'[Len(Accepted) + 1] = a
    BY <1>1, <1>11, EntersFacts
  <2>3. \A i \in 1 .. Len(Accepted') : i \in 1 .. Len(Accepted) \/ Accepted'[i] = a
    BY <2>2
  <2>4. \A i \in 1 .. Len(Accepted') : Accepted'[i].id < q
    BY <1>4, <1>8, <2>2, <2>3
  <2>5. \A f \in events' : Asks(f) => f \in events \ {e}
    BY <1>11 DEF Enters
  <2>6. ASSUME NEW f \in events', Asks(f), NEW i \in 1 .. Len(Accepted')
        PROVE  Accepted'[i].id # f.ev.message.id
    <3>1. f \in events \ {e}
      BY <2>5, <2>6
    <3>2. CASE i \in 1 .. Len(Accepted)
      BY <1>1, <2>2, <2>6, <3>1, <3>2 DEF IdsKnown
    <3>3. CASE Accepted'[i] = a
      BY <1>4, <1>8, <2>6, <3>1, <3>3
    <3> QED
      BY <2>3, <3>2, <3>3
  <2>7. \A f \in events' : Asks(f) => f.ev.message.id < q
    BY <1>4, <2>5
  <2>8. \A f, g \in events' : Asks(f) /\ Asks(g) /\ f.ev.message.id = g.ev.message.id => f = g
    BY <1>1, <2>5 DEF IdsKnown
  <2>9. IdsKnown'
    BY <1>9, <2>4, <2>6, <2>7, <2>8 DEF IdsKnown
  <2> QED
    BY <2>1, <2>9
\* The message is lost.
<1>12. ASSUME stats' = [stats EXCEPT !.sent = @ + 1, !.dropped = @ + 1],
              Handled(e, <<After(0, MessageDropped(m))>>), UNCHANGED queue_times
       PROVE  TransportInv' /\ \E x : Enters(e, x, a)
  <2> DEFINE o == After(0, MessageDropped(m))
  <2>1. AreOrders(<<o>>) /\ o.delay = 0 /\ o.ev = MessageDropped(m)
    BY <1>6 DEF AreOrders, After, MessageDropped, IsEvent
  <2> HIDE DEF o
  <2>2. PICK x : x = [seq |-> next_event_id + 1, time |-> AddTime(e.time, 0),
                      ev |-> MessageDropped(m)]
    OBVIOUS
  <2>3. /\ AgendaInv' /\ e.time \in Time /\ now <= e.time /\ now' = e.time
        /\ \A f \in events : e.time <= f.time
        /\ events' = (events \ {e}) \cup Entries(<<o>>, next_event_id, e.time)
    BY <1>1, <1>12, <2>1, HandledAgenda DEF o
  <2>4. events' = (events \ {e}) \cup {x}
    BY <2>1, <2>2, <2>3, OneEntry
  <2>5. x.ev.kind = "MessageDropped"
    BY <2>2 DEF MessageDropped
  <2>6. Enters(e, x, a)
    BY <1>2, <1>4, <1>8, <1>9, <2>4, <2>5 DEF Enters, Asks
  <2>7. InNetwork' = InNetwork
    BY <1>2, <2>4, <2>5 DEF InNetwork
  <2>8. StatsExact' /\ stats' \in [sent : Nat, delivered : Nat, dropped : Nat]
    <3>1. /\ stats \in [sent : Nat, delivered : Nat, dropped : Nat]
          /\ IsFiniteSet(InNetwork) /\ Cardinality(InNetwork) \in Nat
      BY <1>1, FS_CardinalityType DEF TransportTypes
    <3>2. stats' = Counted(stats, 1, 0, 1)
      BY <1>12, <3>1, CountedFields DEF Stats
    <3>3. Cardinality(InNetwork') = (Cardinality(InNetwork) + 1) - (0 + 1)
      BY <2>7, <3>1
    <3> QED
      BY <1>1, <1>9, <2>7, <3>1, <3>2, <3>3, StatsMove
  <2>9. network' \in [accepted : Seq(AcceptedMessage), handed : Seq(Nat)]
    BY <1>1, <2>6, EntersFacts
  <2>10. TransportTypes'
    BY <1>1, <1>4, <1>9, <1>12, <2>7, <2>8, <2>9 DEF TransportTypes
  <2>11. ASSUME Fifo PROVE OrderKnown'
    <3>1. OrderKnown
      BY <1>1, <2>11
    <3>2. \A p \in Endpoints \X Endpoints :
              /\ Horizon(p) \in Time /\ Horizon(p)' \in Time /\ Horizon(p) <= Horizon(p)'
      BY <1>1, <1>9, <1>10, <1>12, <2>3, HorizonGrows
    <3> QED
      BY <2>3, <2>5, <2>6, <3>1, <3>2, EntersOrder
  <2> QED
    BY <1>11, <2>3, <2>6, <2>8, <2>10, <2>11 DEF TransportInv
\* It is on its way.
<1>13. ASSUME NEW d \in CalculateLatency(m, e.time), NoteArrival(m, d),
              stats' = [stats EXCEPT !.sent = @ + 1],
              Handled(e, <<After(d, MessageDelivered(m, "transport"))>>)
       PROVE  TransportInv' /\ \E x : Enters(e, x, a)
  <2> DEFINE o == After(d, MessageDelivered(m, "transport"))
  <2>1. e.time \in Time /\ now <= e.time /\ now' = e.time
    BY <1>1, <1>13 DEF AgendaInv, IsEntry, Handled
  <2>2. /\ d \in Nat
        /\ queue_times' \in [Endpoints \X Endpoints -> Nat]
        /\ Horizon(<<m.source, m.destination>>)' = AddTime(e.time, d)
        /\ \A p \in Endpoints \X Endpoints :
               /\ Horizon(p) \in Time /\ Horizon(p)' \in Time /\ Horizon(p) <= Horizon(p)'
    BY <1>1, <1>6, <1>9, <1>10, <1>13, <2>1, LatencyFacts
  <2>3. AreOrders(<<o>>) /\ o.delay = d /\ o.ev = MessageDelivered(m, "transport")
    BY <1>6, <2>2 DEF AreOrders, After, MessageDelivered, IsEvent
  <2> HIDE DEF o
  <2>4. PICK x : x = [seq |-> next_event_id + 1, time |-> AddTime(e.time, d),
                      ev |-> MessageDelivered(m, "transport")]
    OBVIOUS
  <2>5. /\ AgendaInv' /\ \A f \in events : e.time <= f.time
        /\ events' = (events \ {e}) \cup Entries(<<o>>, next_event_id, e.time)
    BY <1>1, <1>13, <2>3, HandledAgenda DEF o
  <2>6. events' = (events \ {e}) \cup {x}
    BY <2>3, <2>4, <2>5, OneEntry
  <2>7. /\ x.ev.kind = "MessageDelivered" /\ x.ev.at = "transport" /\ x.ev.message = m
        /\ x.seq = next_event_id + 1 /\ x.time = AddTime(e.time, d)
    BY <2>4 DEF MessageDelivered
  <2>8. Carries(x, a)
    BY <1>6, <1>8, <2>7 DEF Carries
  <2>9. Enters(e, x, a)
    BY <1>2, <1>4, <1>8, <1>9, <2>6, <2>7, <2>8 DEF Enters, Asks
  <2>10. next_event_id \in Nat /\ next_event_id < x.seq /\ x \notin events
    <3>1. next_event_id \in Nat /\ \A f \in events : f.seq \in Nat /\ f.seq <= next_event_id
      BY <1>1 DEF AgendaInv, IsEntry
    <3>2. next_event_id < x.seq
      BY <2>7, <3>1
    <3>3. x \notin events
      BY <2>7, <3>1
    <3> QED
      BY <3>1, <3>2, <3>3
  <2>11. InNetwork' = InNetwork \cup {x} /\ x \notin InNetwork
    BY <1>2, <2>6, <2>7, <2>10 DEF InNetwork
  <2>12. /\ IsFiniteSet(InNetwork) /\ Cardinality(InNetwork) \in Nat
         /\ IsFiniteSet(InNetwork') /\ Cardinality(InNetwork') = Cardinality(InNetwork) + 1
    BY <1>1, <2>11, FS_AddElement, FS_CardinalityType DEF TransportTypes
  <2>13. StatsExact' /\ stats' \in [sent : Nat, delivered : Nat, dropped : Nat]
    <3>1. stats \in [sent : Nat, delivered : Nat, dropped : Nat]
      BY <1>1 DEF TransportTypes
    <3>2. stats' = Counted(stats, 1, 0, 0)
      BY <1>13, <3>1, CountedFields DEF Stats
    <3>3. Cardinality(InNetwork') = (Cardinality(InNetwork) + 1) - (0 + 0)
      BY <2>12
    <3> QED
      BY <1>1, <1>9, <2>12, <3>2, <3>3, StatsMove
  <2>14. network' \in [accepted : Seq(AcceptedMessage), handed : Seq(Nat)]
    BY <1>1, <2>9, EntersFacts
  <2>15. TransportTypes'
    BY <1>1, <1>4, <1>9, <2>2, <2>12, <2>13, <2>14 DEF TransportTypes
  <2>16. ASSUME Fifo PROVE OrderKnown'
    <3>1. x.time = Horizon(<<a.source, a.destination>>)'
      BY <1>8, <2>2, <2>7
    <3> QED
      BY <1>1, <2>1, <2>2, <2>5, <2>7, <2>9, <2>10, <2>16, <3>1, EntersOrder
  <2> QED
    BY <1>11, <2>5, <2>9, <2>13, <2>15, <2>16 DEF TransportInv
<1> QED
  BY <1>3, <1>5, <1>12, <1>13 DEF HandleSend

-----------------------------------------------------------------------------
(* Messages arrive and are handed over. *)

\* Nothing that is handled under the FIFO policy has anything before it.
LEMMA ChosenFirst ==
    ASSUME AgendaInv, Fifo, NEW e \in Choice, NEW f \in events
    PROVE  ~IsBefore(f, e)
<1>1. e \in events /\ e.time <= f.time /\ (e.time = f.time => e.seq <= f.seq)
  BY DEF Choice
<1>2. /\ e.time \in Nat /\ f.time \in Nat /\ e.seq \in Nat /\ f.seq \in Nat
  BY <1>1, MaxTimeAssumption DEF AgendaInv, IsEntry, Time
<1> QED
  BY <1>1, <1>2 DEF IsBefore

\* The message of e arrives: it is on its way to the handler as h, or gone.
Arrives(e, h) ==
    /\ e.ev.at = "transport" /\ e.ev.kind = "MessageDelivered"
    /\ e \in Choice /\ now' = e.time
    /\ events \ {e} \subseteq events' /\ events' \subseteq (events \ {e}) \cup {h}
    /\ h.ev = MessageDelivered(e.ev.message, "handler")
    /\ h.time = e.time /\ h.seq = next_event_id + 1
    /\ UNCHANGED <<model, next_message_id, queue_times, network, carried>>

\* What is on its way then, was; h stands for e.
LEMMA ArrivesCarried ==
    ASSUME NEW e \in events, NEW h, Arrives(e, h), NEW f \in events', NEW a, Carries(f, a)
    PROVE  (f \in events /\ f # e) \/ (f = h /\ f.ev.at = "handler" /\ Carries(e, a))
BY DEF Arrives, Carries, MessageDelivered

\* Every message on its way is still known.
LEMMA ArrivesWay ==
    ASSUME TransportInv, NEW e \in events, NEW h, Arrives(e, h)
    PROVE  MessageIdsUnique' /\ IdsKnown' /\ WayKnown'
<1>1. MessageIdsUnique /\ IdsKnown /\ WayKnown
  BY DEF TransportInv
<1>2. Accepted' = Accepted /\ Handed' = Handed /\ next_message_id' = next_message_id
  BY DEF Arrives, Accepted, Handed
<1>3. MessageIdsUnique'
  BY <1>1, <1>2 DEF MessageIdsUnique, Accepted
<1>4. \A f \in events' : Asks(f) => f \in events
  BY DEF Arrives, Asks, MessageDelivered
<1>5. IdsKnown'
  BY <1>1, <1>2, <1>4 DEF IdsKnown
<1>6. ASSUME NEW f \in events', f.ev.kind = "MessageDelivered"
      PROVE  \E i \in 1 .. Len(Accepted) :
                 Carries(f, Accepted[i]) /\ \A k \in 1 .. Len(Handed) : Handed[k] # i
  <2>1. CASE f \in events
    BY <1>1, <1>6, <2>1 DEF WayKnown
  <2>2. CASE f = h
    <3>1. PICK i \in 1 .. Len(Accepted) :
              Carries(e, Accepted[i]) /\ \A k \in 1 .. Len(Handed) : Handed[k] # i
      BY <1>1 DEF WayKnown, Arrives
    <3>2. Carries(h, Accepted[i])
      BY <3>1 DEF Carries, Arrives, MessageDelivered
    <3> QED
      BY <2>2, <3>1, <3>2
  <2> QED
    BY <2>1, <2>2 DEF Arrives
<1>7. ASSUME NEW f \in events', NEW g \in events', NEW i \in 1 .. Len(Accepted),
             Carries(f, Accepted[i]), Carries(g, Accepted[i])
      PROVE  f = g
  <2>1. (f \in events /\ f # e) \/ (f = h /\ Carries(e, Accepted[i]))
    BY <1>7, ArrivesCarried
  <2>2. (g \in events /\ g # e) \/ (g = h /\ Carries(e, Accepted[i]))
    BY <1>7, ArrivesCarried
  <2>3. \A x, y \in events : Carries(x, Accepted[i]) /\ Carries(y, Accepted[i]) => x = y
    BY <1>1 DEF WayKnown
  <2> QED
    BY <1>7, <2>1, <2>2, <2>3
<1>8. WayKnown'
  <2>1. \A k \in 1 .. Len(Handed) : Handed[k] \in 1 .. Len(Accepted)
    BY <1>1 DEF WayKnown
  <2> QED
    BY <1>2, <1>6, <1>7, <2>1 DEF WayKnown
<1> QED
  BY <1>3, <1>5, <1>8

\* The messages of a pair are still in order.
LEMMA ArrivesOrder ==
    ASSUME TransportInv, AgendaInv', Fifo, NEW e \in events, NEW h, Arrives(e, h), now <= now'
    PROVE  OrderKnown'
<1>1. AgendaInv /\ TransportTypes /\ MessageIdsUnique /\ WayKnown /\ OrderKnown
  BY DEF TransportInv
<1>2. Accepted' = Accepted /\ Handed' = Handed
  BY DEF Arrives, Accepted, Handed
<1>3. /\ e \in Choice /\ e.ev.at = "transport" /\ e.ev.kind = "MessageDelivered"
      /\ now' = e.time /\ \A f \in events : now' <= f.time
      /\ h.ev.at = "handler" /\ h.time = now' /\ h.seq = next_event_id + 1
      /\ UNCHANGED <<model, queue_times>>
      /\ events' \subseteq (events \ {e}) \cup {h}
  BY DEF Arrives, Choice, MessageDelivered
<1>4. ASSUME NEW f \in events', f.ev.kind = "MessageDelivered"
      PROVE  /\ f.ev.at = "handler" => f.time = now'
             /\ f.ev.at = "transport" =>
                    f.time <= Horizon(<<f.ev.message.source, f.ev.message.destination>>)'
  <2>1. CASE f \in events
    BY <1>1, <1>3, <1>4, <2>1, TimesStay
  <2>2. CASE f = h
    BY <1>3, <2>2
  <2> QED
    BY <1>3, <2>1, <2>2
<1>5. ASSUME NEW f \in events', NEW g \in events',
             NEW i \in 1 .. Len(Accepted), NEW j \in 1 .. Len(Accepted),
             Carries(f, Accepted[i]), Carries(g, Accepted[j]), i < j,
             SamePair(Accepted[i], Accepted[j])
      PROVE  /\ f.ev.at = g.ev.at => IsBefore(f, g)
             /\ f.ev.at = "transport" => g.ev.at = "transport"
  <2>1. (f \in events /\ f # e) \/ (f = h /\ Carries(e, Accepted[i]))
    BY <1>5, ArrivesCarried
  <2>2. (g \in events /\ g # e) \/ (g = h /\ Carries(e, Accepted[j]))
    BY <1>5, ArrivesCarried
  <2>3. ASSUME NEW x \in events, NEW y \in events,
               Carries(x, Accepted[i]), Carries(y, Accepted[j])
        PROVE  /\ x.ev.at = y.ev.at => IsBefore(x, y)
               /\ x.ev.at = "transport" => y.ev.at = "transport"
    BY <1>1, <1>5, <2>3 DEF OrderKnown
  <2>4. CASE f \in events /\ g \in events
    BY <1>5, <2>3, <2>4
  <2>5. CASE f = h /\ Carries(e, Accepted[i]) /\ g \in events
    <3>1. g.ev.at = "transport"
      BY <1>3, <1>5, <2>3, <2>5
    <3> QED
      BY <1>3, <2>5, <3>1
  <2>6. CASE f \in events /\ g = h /\ Carries(e, Accepted[j])
    <3>1. f.ev.at # "transport"
      <4>1. ~IsBefore(f, e)
        BY <1>1, <1>3, <2>6, ChosenFirst
      <4> QED
        BY <1>3, <1>5, <2>3, <2>6, <4>1
    <3>2. ASSUME f.ev.at = "handler" PROVE IsBefore(f, h)
      <4>1. f.time = now'
        BY <1>4, <1>5, <3>2 DEF Carries
      <4>2. f.seq \in Nat /\ f.seq <= next_event_id /\ next_event_id \in Nat
        BY <1>1, <2>6 DEF AgendaInv, IsEntry
      <4> QED
        BY <1>3, <4>1, <4>2 DEF IsBefore
    <3> QED
      BY <1>3, <2>6, <3>1, <3>2
  <2>7. ~(Carries(e, Accepted[i]) /\ Carries(e, Accepted[j]))
    <3>1. i # j
      BY <1>1, <1>5, NetworkFacts
    <3> QED
      BY <1>1, <3>1 DEF MessageIdsUnique, Accepted, Carries
  <2> QED
    BY <2>1, <2>2, <2>4, <2>5, <2>6, <2>7
<1>6. ASSUME NEW k \in 1 .. Len(Handed), NEW f \in events', NEW j \in 1 .. Len(Accepted),
             Carries(f, Accepted[j]), SamePair(Accepted[Handed[k]], Accepted[j])
      PROVE  Handed[k] < j
  <2>1. (f \in events /\ f # e) \/ (f = h /\ Carries(e, Accepted[j]))
    BY <1>6, ArrivesCarried
  <2> QED
    BY <1>1, <1>6, <2>1 DEF OrderKnown
<1> QED
  BY <1>2, <1>4, <1>5, <1>6 DEF OrderKnown

\* handle_message_delivered keeps the invariant.
LEMMA ArriveKeeps ==
    ASSUME TransportInv, NEW e \in events, HandleDelivered(e)
    PROVE  TransportInv' /\ network' = network
<1>1. /\ AgendaInv /\ TransportTypes /\ StatsExact
  BY DEF TransportInv
<1>2. /\ e.ev.kind = "MessageDelivered" /\ e.ev.at = "transport"
      /\ stats' = [stats EXCEPT !.delivered = @ + 1]
      /\ UNCHANGED <<model, next_message_id, queue_times, network, carried>>
  BY DEF HandleDelivered
<1>3. IsMessage(e.ev.message) /\ e.time \in Time /\ next_event_id \in Nat
  BY <1>1, <1>2 DEF AgendaInv, IsEntry, IsEvent
<1> DEFINE o == After(0, MessageDelivered(e.ev.message, "handler"))
<1>4. PICK h : h = [seq |-> next_event_id + 1, time |-> e.time,
                    ev |-> MessageDelivered(e.ev.message, "handler")]
  OBVIOUS
<1>5. AreOrders(<<o>>) /\ AreOrders(<<>>)
  BY <1>3 DEF AreOrders, After, MessageDelivered, IsEvent
<1>6. \A id : Entries(<<o>>, id, e.time)
                  = {[seq |-> id + 1, time |-> e.time,
                      ev |-> MessageDelivered(e.ev.message, "handler")]}
  BY <1>3, OneEntry, AddTimeFacts DEF After
<1>7. /\ AgendaInv' /\ e \in Choice /\ now' = e.time /\ now <= now'
      /\ events' = (events \ {e}) \cup {h} \/ events' = events \ {e}
  <2>1. Handled(e, <<o>>) \/ Handled(e, <<>>)
    BY DEF HandleDelivered
  <2>2. CASE Handled(e, <<o>>)
    <3>1. /\ AgendaInv' /\ now <= e.time /\ now' = e.time
          /\ events' = (events \ {e}) \cup Entries(<<o>>, next_event_id, e.time)
      <4> HIDE DEF o
      <4> QED
        BY <1>1, <1>5, <2>2, HandledAgenda
    <3> QED
      BY <1>4, <1>6, <2>2, <3>1 DEF Handled
  <2>3. CASE Handled(e, <<>>)
    <3>1. /\ AgendaInv' /\ now <= e.time /\ now' = e.time
          /\ events' = (events \ {e}) \cup Entries(<<>>, next_event_id, e.time)
      BY <1>1, <1>5, <2>3, HandledAgenda
    <3> QED
      BY <2>3, <3>1, OneEntry DEF Handled
  <2> QED
    BY <2>1, <2>2, <2>3
<1> HIDE DEF o
<1>8. h.time = e.time /\ h.seq = next_event_id + 1
      /\ h.ev = MessageDelivered(e.ev.message, "handler") /\ h.ev.at = "handler"
  BY <1>4 DEF MessageDelivered
<1>9. Arrives(e, h)
  BY <1>2, <1>7, <1>8 DEF Arrives
<1>10. InNetwork' = InNetwork \ {e} /\ e \in InNetwork
  BY <1>2, <1>7, <1>8 DEF InNetwork
<1>11. /\ IsFiniteSet(InNetwork) /\ Cardinality(InNetwork) \in Nat
       /\ IsFiniteSet(InNetwork') /\ Cardinality(InNetwork') = Cardinality(InNetwork) - 1
  BY <1>1, <1>10, FS_RemoveElement, FS_CardinalityType DEF TransportTypes
<1>12. StatsExact' /\ stats' \in [sent : Nat, delivered : Nat, dropped : Nat]
  <2>1. stats' = Counted(stats, 0, 1, 0)
    BY <1>1, <1>2, CountedFields DEF Stats, TransportTypes
  <2>2. Cardinality(InNetwork') = (Cardinality(InNetwork) + 0) - (1 + 0)
    BY <1>11
  <2> QED
    BY <1>1, <1>2, <1>11, <2>1, <2>2, StatsMove
<1>13. TransportTypes'
  BY <1>1, <1>2, <1>11, <1>12 DEF TransportTypes
<1>14. MessageIdsUnique' /\ IdsKnown' /\ WayKnown'
  BY <1>9, ArrivesWay
<1>15. Fifo => OrderKnown'
  BY <1>7, <1>9, ArrivesOrder
<1> QED
  BY <1>2, <1>7, <1>12, <1>13, <1>14, <1>15 DEF TransportInv

\* The place of a message in the order of acceptance, as the history looks it up.
PlaceOf(e) == CHOOSE i \in 1 .. Len(Accepted) : Accepted[i].id = e.ev.message.id

\* It is the one of the message that e carries; it was not handed over before, and
\* under the FIFO policy no later message of its pair was.
LEMMA PlaceFacts ==
    ASSUME TransportInv, NEW e \in events, e.ev.kind = "MessageDelivered"
    PROVE  /\ PlaceOf(e) \in 1 .. Len(Accepted)
           /\ Carries(e, Accepted[PlaceOf(e)])
           /\ \A k \in 1 .. Len(Handed) :
                  /\ Handed[k] # PlaceOf(e)
                  /\ Fifo /\ SamePair(Accepted[Handed[k]], Accepted[PlaceOf(e)]) =>
                         Handed[k] < PlaceOf(e)
<1>1. MessageIdsUnique /\ WayKnown /\ (Fifo => OrderKnown)
  BY DEF TransportInv
<1>2. PICK i \in 1 .. Len(Accepted) :
          Carries(e, Accepted[i]) /\ \A k \in 1 .. Len(Handed) : Handed[k] # i
  BY <1>1 DEF WayKnown
<1>3. Accepted[i].id = e.ev.message.id
  BY <1>2 DEF Carries
<1>4. \A j \in 1 .. Len(Accepted) : Accepted[j].id = e.ev.message.id => j = i
  BY <1>1, <1>3 DEF MessageIdsUnique, Accepted
<1>5. PlaceOf(e) = i
  BY <1>3, <1>4 DEF PlaceOf
<1> QED
  BY <1>1, <1>2, <1>5 DEF OrderKnown

\* A handler that gets its message keeps the invariant.
LEMMA HandsKeep ==
    ASSUME TransportInv, NEW e \in events, Hands(e)
    PROVE  /\ TransportInv'
           /\ Accepted' = Accepted /\ Handed' = Append(Handed, PlaceOf(e))
<1>1. /\ AgendaInv /\ TransportTypes /\ StatsExact /\ MessageIdsUnique /\ IdsKnown /\ WayKnown
      /\ Fifo => OrderKnown
  BY DEF TransportInv
<1>2. PICK s : AllCalm(s) /\ HandedOver(e, s)
  BY DEF Hands
<1>3. /\ e.ev.kind = "MessageDelivered" /\ e.ev.at = "handler" /\ Handled(e, s)
      /\ network' = [network EXCEPT !.handed = Append(@, PlaceOf(e))]
      /\ UNCHANGED <<model, next_message_id, stats, queue_times, carried>>
  BY <1>2 DEF HandedOver, PlaceOf, Accepted
<1>4. PICK n : n = PlaceOf(e)
  OBVIOUS
<1>5. /\ n \in 1 .. Len(Accepted) /\ Carries(e, Accepted[n])
  BY <1>3, <1>4, PlaceFacts
<1>6. /\ AreOrders(s)
      /\ \A f \in Entries(s, next_event_id, e.time) : f.ev.kind # "MessageDelivered" /\ ~Asks(f)
  BY <1>2, CalmEntries
<1>7. /\ AgendaInv' /\ now' = e.time /\ now <= now' /\ \A f \in events : now' <= f.time
      /\ events' = (events \ {e}) \cup Entries(s, next_event_id, e.time)
  BY <1>1, <1>3, <1>6, HandledAgenda
<1>8. \A f \in events' : f.ev.kind = "MessageDelivered" \/ Asks(f) => f \in events \ {e}
  BY <1>6, <1>7
<1>9. InNetwork' = InNetwork
  BY <1>3, <1>6, <1>7 DEF InNetwork
<1>10. /\ Accepted' = Accepted /\ Handed' = Append(Handed, n)
       /\ network' \in [accepted : Seq(AcceptedMessage), handed : Seq(Nat)]
  <2>1. network \in [accepted : Seq(AcceptedMessage), handed : Seq(Nat)]
    BY <1>1 DEF TransportTypes
  <2>2. n \in Nat /\ Append(Handed, n) \in Seq(Nat)
    BY <1>1, <1>5, NetworkFacts
  <2> QED
    BY <1>3, <1>4, <2>1, <2>2 DEF Accepted, Handed
<1>11. TransportTypes' /\ StatsExact' /\ MessageIdsUnique'
  <2>1. TransportTypes'
    BY <1>1, <1>3, <1>9, <1>10 DEF TransportTypes
  <2> QED
    BY <1>1, <1>3, <1>9, <1>10, <2>1 DEF StatsExact, MessageIdsUnique, Accepted
<1>12. IdsKnown'
  BY <1>1, <1>3, <1>8, <1>10 DEF IdsKnown
<1>13. /\ Len(Handed) \in Nat /\ Len(Handed') = Len(Handed) + 1
       /\ \A k \in 1 .. Len(Handed') :
              (k \in 1 .. Len(Handed) /\ Handed'[k] = Handed[k]) \/ Handed'[k] = n
  BY <1>1, <1>10, NetworkFacts
<1>14. \A f, g \in events : \A i \in 1 .. Len(Accepted) :
           Carries(f, Accepted[i]) /\ Carries(g, Accepted[i]) => f = g
  BY <1>1 DEF WayKnown
<1>15. WayKnown'
  <2>1. \A k \in 1 .. Len(Handed') : Handed'[k] \in 1 .. Len(Accepted)
    BY <1>1, <1>5, <1>13 DEF WayKnown
  <2>2. ASSUME NEW f \in events', f.ev.kind = "MessageDelivered"
        PROVE  \E i \in 1 .. Len(Accepted) :
                   Carries(f, Accepted[i]) /\ \A k \in 1 .. Len(Handed') : Handed'[k] # i
    <3>1. f \in events /\ f # e
      BY <1>8, <2>2
    <3>2. PICK i \in 1 .. Len(Accepted) :
              Carries(f, Accepted[i]) /\ \A k \in 1 .. Len(Handed) : Handed[k] # i
      BY <1>1, <2>2, <3>1 DEF WayKnown
    <3>3. i # n
      BY <1>5, <1>14, <3>1, <3>2
    <3> QED
      BY <1>13, <3>2, <3>3
  <2>3. \A f \in events' : f.ev.kind = "MessageDelivered" => f \in events
    BY <1>8
  <2>4. \A f, g \in events' : \A i \in 1 .. Len(Accepted) :
            Carries(f, Accepted[i]) /\ Carries(g, Accepted[i]) => f = g
    BY <1>14, <2>3 DEF Carries
  <2> QED
    BY <1>10, <2>1, <2>2, <2>4 DEF WayKnown
<1>16. ASSUME Fifo PROVE OrderKnown'
  <2>1. OrderKnown
    BY <1>1, <1>16
  <2>2. \A f \in events' : f.ev.kind = "MessageDelivered" =>
            /\ f.ev.at = "handler" => f.time = now'
            /\ f.ev.at = "transport" =>
                   f.time <= Horizon(<<f.ev.message.source, f.ev.message.destination>>)'
    BY <1>1, <1>3, <1>7, <1>8, <2>1, TimesStay
  <2>3. ASSUME NEW f \in events', NEW a, Carries(f, a)
        PROVE  f \in events /\ f # e /\ f.ev.at \in {"transport", "handler"}
    <3>1. f.ev.kind = "MessageDelivered" /\ f \in events /\ f # e
      BY <1>8, <2>3 DEF Carries
    <3> QED
      BY <1>1, <3>1 DEF AgendaInv, IsEntry, IsEvent
  <2>4. \A f, g \in events' : \A i, j \in 1 .. Len(Accepted) :
            Carries(f, Accepted[i]) /\ Carries(g, Accepted[j]) /\ i < j
              /\ SamePair(Accepted[i], Accepted[j]) =>
                /\ f.ev.at = g.ev.at => IsBefore(f, g)
                /\ f.ev.at = "transport" => g.ev.at = "transport"
    BY <2>1, <2>3 DEF OrderKnown
  <2>5. ASSUME NEW f \in events', NEW j \in 1 .. Len(Accepted),
               Carries(f, Accepted[j]), SamePair(Accepted[n], Accepted[j])
        PROVE  n < j
    <3>1. f \in events /\ f # e /\ f.ev.at \in {"transport", "handler"}
      BY <2>3, <2>5
    <3>2. n # j
      BY <1>5, <1>14, <2>5, <3>1
    <3>3. ~(j < n)
      <4>1. SUFFICES ASSUME j < n PROVE FALSE
        OBVIOUS
      <4>2. SamePair(Accepted[j], Accepted[n])
        BY <2>5 DEF SamePair
      <4>3. /\ f.ev.at = e.ev.at => IsBefore(f, e)
            /\ f.ev.at = "transport" => e.ev.at = "transport"
        BY <1>5, <2>1, <2>5, <3>1, <4>1, <4>2 DEF OrderKnown
      <4>4. IsBefore(f, e)
        BY <1>3, <3>1, <4>3
      <4>5. e \in Choice
        BY <1>3 DEF Handled
      <4> QED
        BY <1>1, <1>16, <3>1, <4>4, <4>5, ChosenFirst
    <3>4. Len(Accepted) \in Nat
      BY <1>1, NetworkFacts
    <3> QED
      BY <1>5, <3>2, <3>3, <3>4
  <2>6. ASSUME NEW k \in 1 .. Len(Handed'), NEW f \in events', NEW j \in 1 .. Len(Accepted),
               Carries(f, Accepted[j]), SamePair(Accepted[Handed'[k]], Accepted[j])
        PROVE  Handed'[k] < j
    <3>1. CASE k \in 1 .. Len(Handed) /\ Handed'[k] = Handed[k]
      BY <2>1, <2>3, <2>6, <3>1 DEF OrderKnown
    <3>2. CASE Handed'[k] = n
      BY <2>5, <2>6, <3>2
    <3> QED
      BY <1>13, <3>1, <3>2
  <2> QED
    BY <1>10, <2>2, <2>4, <2>6 DEF OrderKnown
<1> QED
  BY <1>4, <1>7, <1>10, <1>11, <1>12, <1>15, <1>16 DEF TransportInv

-----------------------------------------------------------------------------
(* The theorems. *)

\* Nothing has been sent at first.
LEMMA TransportStarts ==
    ASSUME TransportInit, AgendaInit(<<>>)
    PROVE  TransportInv
<1>1. /\ now = 0 /\ events = {} /\ next_event_id = 0
      /\ model \in Models /\ next_message_id = 1
      /\ stats = [sent |-> 0, delivered |-> 0, dropped |-> 0]
      /\ queue_times = [p \in Endpoints \X Endpoints |-> 0]
      /\ network = [accepted |-> <<>>, handed |-> <<>>]
      /\ carried = 0
  BY OneEntry DEF TransportInit, AgendaInit
<1>2. AgendaInv
  BY <1>1, MaxTimeAssumption DEF AgendaInv, Time
<1>3. InNetwork = {} /\ IsFiniteSet({}) /\ Cardinality({}) = 0
  BY <1>1, FS_EmptySet DEF InNetwork
<1>4. Accepted = <<>> /\ Handed = <<>>
  BY <1>1 DEF Accepted, Handed
<1>5. TransportTypes
  <2>1. model \in {"simple", "jitter"}
    BY <1>1, Constants DEF TransportAssumption
  <2> QED
    BY <1>1, <1>3, <2>1 DEF TransportTypes
<1>6. StatsExact
  <2>1. stats.sent = 0 /\ stats.delivered = 0 /\ stats.dropped = 0
    BY <1>1
  <2> QED
    BY <1>1, <1>3, <2>1 DEF StatsExact
<1>7. MessageIdsUnique
  BY <1>4 DEF MessageIdsUnique, Accepted
<1>8. IdsKnown /\ WayKnown /\ OrderKnown
  BY <1>1, <1>4 DEF IdsKnown, WayKnown, OrderKnown
<1> QED
  BY <1>2, <1>5, <1>6, <1>7, <1>8 DEF TransportInv

\* Every step of the calls keeps the invariant of the transport.
LEMMA TransportNext ==
    ASSUME RegistryTypes, TransportInv, [Next]_vars
    PROVE  TransportInv'
<1>1. AgendaInv
  BY DEF TransportInv
<1> QED
  BY <1>1, TransportSteps, PostsKeep, ResetKeeps, SendKeeps, EnterKeeps, ArriveKeeps, WorksKeep,
     HandsKeep

\* What holds in every state of the network of a simulation.
TonicInv == RegistryInv /\ TransportInv

\* It does: the two invariants are inductive, that of the transport beside the types
\* of the registry, which say that a request goes to an endpoint.
LEMMA TonicInvariant == MCSpec => []TonicInv
<1>1. MCInit => TonicInv
  BY RegistryStarts, TransportStarts DEF MCInit, Init, TonicInv
<1>2. TonicInv /\ [MCNext]_<<vars, stream_vars, alone_vars>> => TonicInv'
  <2>1. SUFFICES ASSUME TonicInv, [MCNext]_<<vars, stream_vars, alone_vars>>
                 PROVE  TonicInv'
    OBVIOUS
  <2>2. [Next]_vars
    BY <2>1, CallsSteps
  <2>3. RegistryInv /\ RegistryTypes /\ TransportInv
    BY <2>1 DEF TonicInv, RegistryInv
  <2> QED
    BY <2>2, <2>3, RegistryNext, TransportNext DEF TonicInv
<1> QED
  BY <1>1, <1>2, PTL DEF MCSpec

\* endpoint_registry.rs, discovery/mod.rs: endpoints are handed out in turn, however
\* the counter stood when they changed, and as long as they only come no task that
\* waits for one sleeps through its registration or lacks the permit to return.
THEOREM DiscoveryIsSound == MCSpec => []DiscoverySound
<1>1. TonicInv => DiscoverySound
  BY RegistrySound DEF TonicInv
<1> QED
  BY <1>1, TonicInvariant, PTL

\* sim_transport.rs: the statistics account for every message, over resets too, and
\* no two messages in the network have one id, whether their senders numbered them
\* or the transport did.
THEOREM TransportIsExact == MCSpec => []TransportExact
<1>1. TonicInv => TransportExact
  BY DEF TonicInv, TransportInv, TransportExact
<1> QED
  BY <1>1, TonicInvariant, PTL

\* The pairs of endpoints, as Network sees what was accepted.
EndpointsOf(s) == [i \in DOMAIN s |-> [source |-> s[i].source, destination |-> s[i].destination]]

\* Accepting one more message.
LEMMA EndpointsGrow ==
    ASSUME NEW s \in Seq(AcceptedMessage), NEW a \in AcceptedMessage
    PROVE  EndpointsOf(Append(s, a))
               = Append(EndpointsOf(s), [source |-> a.source, destination |-> a.destination])
<1> DEFINE b == [source |-> a.source, destination |-> a.destination]
           P == [source : Endpoints, destination : Endpoints]
           l == EndpointsOf(Append(s, a))
           r == Append(EndpointsOf(s), b)
<1>1. /\ Append(s, a) \in Seq(AcceptedMessage) /\ Len(Append(s, a)) = Len(s) + 1
      /\ Len(s) \in Nat /\ DOMAIN s = 1 .. Len(s) /\ DOMAIN Append(s, a) = 1 .. Len(s) + 1
      /\ \A i \in 1 .. Len(s) : Append(s, a)[i] = s[i] /\ s[i] \in AcceptedMessage
      /\ Append(s, a)[Len(s) + 1] = a
  OBVIOUS
<1>2. EndpointsOf(s) \in Seq(P) /\ Len(EndpointsOf(s)) = Len(s) /\ b \in P
  <2>1. EndpointsOf(s) \in [1 .. Len(s) -> P]
    BY <1>1 DEF EndpointsOf, AcceptedMessage
  <2>2. b \in P
    BY DEF AcceptedMessage
  <2> HIDE DEF P
  <2> QED
    BY <1>1, <2>1, <2>2
<1>3. DOMAIN l = 1 .. Len(s) + 1 /\ l = [i \in DOMAIN l |-> l[i]]
  BY <1>1 DEF EndpointsOf
<1>4. DOMAIN r = 1 .. Len(s) + 1 /\ r = [i \in DOMAIN r |-> r[i]]
  <2>1. r \in Seq(P) /\ Len(r) = Len(s) + 1
    <3> HIDE DEF P, b
    <3> QED
      BY <1>1, <1>2
  <2> HIDE DEF r, P
  <2> QED
    BY <2>1
<1>5. \A i \in 1 .. Len(s) + 1 : l[i] = r[i]
  <2>1. \A i \in 1 .. Len(s) : l[i] = [source |-> s[i].source, destination |-> s[i].destination]
    BY <1>1 DEF EndpointsOf
  <2>2. l[Len(s) + 1] = b
    BY <1>1 DEF EndpointsOf
  <2>3. \A i \in 1 .. Len(s) :
            EndpointsOf(s)[i] = [source |-> s[i].source, destination |-> s[i].destination]
    BY <1>1 DEF EndpointsOf
  <2>4. (\A i \in 1 .. Len(s) : r[i] = EndpointsOf(s)[i]) /\ r[Len(s) + 1] = b
    <3> HIDE DEF P, b
    <3> QED
      BY <1>1, <1>2
  <2>5. \A i \in 1 .. Len(s) + 1 : i \in 1 .. Len(s) \/ i = Len(s) + 1
    BY <1>1
  <2> HIDE DEF l, r, b
  <2> QED
    BY <2>1, <2>2, <2>3, <2>4, <2>5
<1>6. l = r
  <2> HIDE DEF l, r
  <2> QED
    BY <1>3, <1>4, <1>5
<1> QED
  BY <1>6

\* The transport implements the network that the endpoints are promised: a message
\* that was accepted is handed over at most once, and under the FIFO policy never
\* after a later one of its pair, with jitter and bandwidth delays too
\* (network_model.rs: "to ensure FIFO semantics").
THEOREM TransportIsNetwork == MCSpec => ImplementsNetwork
<1>1. MCInit => Promise!Init
  <2>1. EndpointsOf(<<>>) = <<>>
    BY DEF EndpointsOf
  <2>2. ASSUME MCInit PROVE network.accepted = <<>> /\ network.handed = <<>>
    BY <2>2 DEF MCInit, Init, TransportInit
  <2> QED
    BY <2>1, <2>2 DEF Promise!Init, EndpointsOf
<1>2. TonicInv /\ [MCNext]_<<vars, stream_vars, alone_vars>> => [Promise!Next]_Promise!vars
  <2>1. SUFFICES ASSUME TonicInv, [MCNext]_<<vars, stream_vars, alone_vars>>
                 PROVE  [Promise!Next]_Promise!vars
    OBVIOUS
  <2>2. [Next]_vars
    BY <2>1, CallsSteps
  <2>3. RegistryTypes /\ TransportInv /\ AgendaInv /\ TransportTypes
    BY <2>1 DEF TonicInv, RegistryInv, TransportInv
  <2>4. CASE network' = network
    BY <2>4 DEF Promise!vars
  <2>5. CASE Rests \/ Posts \/ ResetStats
    BY <2>4, <2>5 DEF Rests, Posts, ResetStats, books
  <2>6. ASSUME NEW d \in Servers, SendThrough(Client, d, 1) PROVE network' = network
    BY <2>6 DEF SendThrough
  <2>7. ASSUME NEW e \in events, HandleSend(e) PROVE Promise!Next
    <3>1. PICK x, a : Enters(e, x, a)
      BY <2>3, <2>7, EnterKeeps
    <3>2. /\ network' = [network EXCEPT !.accepted = Append(@, a)] /\ a \in AcceptedMessage
          /\ network \in [accepted : Seq(AcceptedMessage), handed : Seq(Nat)]
      BY <2>3, <3>1 DEF Enters, TransportTypes
    <3>3. /\ network'.accepted = Append(network.accepted, a) /\ network'.handed = network.handed
          /\ network.accepted \in Seq(AcceptedMessage)
      BY <3>2
    <3>4. EndpointsOf(network'.accepted)
              = Append(EndpointsOf(network.accepted),
                       [source |-> a.source, destination |-> a.destination])
      BY <3>2, <3>3, EndpointsGrow
    <3>5. a.source \in Endpoints /\ a.destination \in Endpoints
      BY <3>2 DEF AcceptedMessage
    <3>6. Promise!Accept(a.source, a.destination)
      BY <3>3, <3>4, Zenon DEF Promise!Accept, EndpointsOf
    <3> QED
      BY <3>5, <3>6 DEF Promise!Next
  <2>8. ASSUME NEW e \in events, HandleDelivered(e) PROVE network' = network
    BY <2>8 DEF HandleDelivered
  <2>9. ASSUME NEW e \in events, Works(e) PROVE network' = network
    BY <2>9 DEF Works, books
  <2>10. ASSUME NEW e \in events, Hands(e) PROVE Promise!Next
    <3>1. e.ev.kind = "MessageDelivered"
      BY <2>10 DEF Hands, HandedOver
    <3>2. PICK i : i = PlaceOf(e)
      OBVIOUS
    <3>3. /\ i \in 1 .. Len(Accepted)
          /\ \A k \in 1 .. Len(Handed) :
                 /\ Handed[k] # i
                 /\ Fifo /\ SamePair(Accepted[Handed[k]], Accepted[i]) => Handed[k] < i
      BY <2>3, <3>1, <3>2, PlaceFacts
    <3>4. Accepted' = Accepted /\ Handed' = Append(Handed, i)
      BY <2>3, <2>10, <3>2, HandsKeep
    <3>5. /\ Len(Accepted) \in Nat /\ DOMAIN Accepted = 1 .. Len(Accepted)
          /\ \A k \in 1 .. Len(Handed) : Handed[k] \in 1 .. Len(Accepted)
      <4>1. Accepted \in Seq(AcceptedMessage)
        BY <2>3, NetworkFacts
      <4>2. \A k \in 1 .. Len(Handed) : Handed[k] \in 1 .. Len(Accepted)
        BY <2>3 DEF TransportInv, WayKnown
      <4> QED
        BY <4>1, <4>2
    <3>6. /\ DOMAIN EndpointsOf(Accepted) = 1 .. Len(Accepted)
          /\ Len(EndpointsOf(Accepted)) = Len(Accepted)
          /\ \A j \in 1 .. Len(Accepted) :
                 /\ EndpointsOf(Accepted)[j].source = Accepted[j].source
                 /\ EndpointsOf(Accepted)[j].destination = Accepted[j].destination
      BY <3>5 DEF EndpointsOf
    <3>7. ASSUME NEW k \in 1 .. Len(Handed), Fifo,
                 EndpointsOf(Accepted)[Handed[k]].source = EndpointsOf(Accepted)[i].source,
                 EndpointsOf(Accepted)[Handed[k]].destination = EndpointsOf(Accepted)[i].destination
          PROVE  Handed[k] < i
      BY <3>3, <3>5, <3>6, <3>7 DEF SamePair
    <3>8. Promise!HandOver(i)
      BY <3>3, <3>4, <3>7 DEF Promise!HandOver, Promise!SamePair, EndpointsOf, Accepted, Handed
    <3>9. i \in 1 .. Len(EndpointsOf(Accepted))
      BY <3>3, <3>6
    <3> QED
      BY <3>8, <3>9 DEF Promise!Next, EndpointsOf, Accepted
  <2> QED
    BY <2>2, <2>3, <2>4, <2>5, <2>6, <2>7, <2>8, <2>9, <2>10, TransportSteps
<1> QED
  BY <1>1, <1>2, TonicInvariant, PTL DEF MCSpec, ImplementsNetwork, Promise!Spec

-----------------------------------------------------------------------------
(* The calls. *)

\* x is the request of a call, or its response; a program that uses the transport
\* alone sends neither.
IsOfCall(x, cor, st) ==
    st = "transport" \/ (x.of \in Call /\ x.id = cor[x.of] /\ x.id # 0)

\* What an event carries is that.
CarriesCall(ev, cor, st) ==
    ev.kind \in {"SendMessage", "MessageDelivered", "MessageDropped", "HandlerDone"} =>
        IsOfCall(ev.message.content, cor, st)

MessagesKnown == \A e \in events : CarriesCall(e.ev, correlation, stack)

\* Correlation ids are those of one call.
IdsOfCalls ==
    /\ correlation \in [Call -> Nat] /\ next_counter \in Nat
    /\ \A c \in Call : correlation[c] <= next_counter
    /\ \A c, d \in Call : correlation[c] = correlation[d] /\ correlation[c] # 0 => c = d
    /\ \A p \in pending : /\ p \in [id : Nat, call : Call]
                          /\ p.id = correlation[p.call] /\ p.id # 0

Listed(c) == \E p \in pending : p.call = c

\* The states of one call: its phase, correlation id, answer and result, whether it
\* is listed as pending, and the library it belongs to.
IsCall(c, ph, id, ans, res, listed, st) ==
    /\ ph = "idle" => id = 0 /\ ~listed
    /\ ph = "selecting" => (st = "grpc" <=> id = 0) /\ ~listed
    /\ ph = "sent" => (listed <=> ans = Nil)
    /\ ph = "done" => res # Nil
    /\ ph # "sent" => ans = Nil
    /\ ans # Nil => ans \in Results /\ ans.of = c
    /\ res # Nil => res \in Results /\ res.of = c
    /\ ph = "done" /\ listed =>
           res.kind \in {"dropped"} \cup (IF st = "grpc" THEN {"timeout"} ELSE {})

CallTypes ==
    /\ phase \in [Call -> {"idle", "selecting", "sent", "done"}]
    /\ DOMAIN answer = Call /\ DOMAIN result = Call
    /\ answer = [c \in Call |-> answer[c]] /\ result = [c \in Call |-> result[c]]

CallsKnown ==
    \A c \in Call :
        IsCall(c, phase[c], correlation[c], answer[c], result[c], Listed(c), stack)

CallsInv == CallTypes /\ IdsOfCalls /\ CallsKnown /\ MessagesKnown

\* A sequence of orders of the calls, with what their events carry.
AllCarry(s, cor, st) ==
    Len(s) \in Nat /\ \A i \in 1 .. Len(s) : CarriesCall(s[i].ev, cor, st)

\* Sequences of none, one and two.
LEMMA CarryFew ==
    ASSUME NEW cor, NEW st
    PROVE  /\ AllCarry(<<>>, cor, st)
           /\ \A x : CarriesCall(x.ev, cor, st) => AllCarry(<<x>>, cor, st)
           /\ \A x, y : CarriesCall(x.ev, cor, st) /\ CarriesCall(y.ev, cor, st) =>
                  AllCarry(<<x>> \o <<y>>, cor, st)
<1>1. ASSUME NEW x, NEW y, CarriesCall(x.ev, cor, st), CarriesCall(y.ev, cor, st)
      PROVE  AllCarry(<<x>> \o <<y>>, cor, st)
  <2> DEFINE s == <<x>> \o <<y>>
  <2>1. <<x>> \in Seq({x, y}) /\ <<y>> \in Seq({x, y})
    OBVIOUS
  <2>2. Len(s) = 2 /\ s[1] = x /\ s[2] = y
    BY <2>1
  <2> QED
    BY <1>1, <2>2 DEF AllCarry
<1> QED
  BY <1>1 DEF AllCarry

\* The entries of such a sequence.
LEMMA CarryEntries ==
    ASSUME NEW s, NEW cor, NEW st, AllCarry(s, cor, st), NEW id, NEW t,
           NEW e \in Entries(s, id, t)
    PROVE  CarriesCall(e.ev, cor, st)
<1>1. PICK i \in 1 .. Len(s) :
          e = [seq |-> id + i, time |-> AddTime(t, s[i].delay), ev |-> s[i].ev]
  BY DEF Entries
<1>2. e.ev = s[i].ev
  BY <1>1
<1> QED
  BY <1>2 DEF AllCarry

\* The request of a call that has a correlation id, with its timer or without.
LEMMA CarryRequests ==
    ASSUME NEW c \in Call, NEW s, NEW st, correlation'[c] # 0
    PROVE  /\ AllCarry(Timer(c), correlation', st) /\ AllCarry(PostRequest(c, s), correlation', st)
           /\ AllCarry(Timer(c) \o PostRequest(c, s), correlation', st)
           /\ AllCarry(PostRequest(c, s) \o Timer(c), correlation', st)
<1> DEFINE cor == correlation'
           x == After(0, SendMessage(TransportMessage(0, Client, s, 1, RequestOf(c))))
           y == After(Timeout, Elapsed(c, now + Timeout))
<1>1. CarriesCall(x.ev, cor, st) /\ PostRequest(c, s) = <<x>>
  BY DEF PostRequest, CarriesCall, IsOfCall, RequestOf, SendMessage, TransportMessage, After
<1>2. CarriesCall(y.ev, cor, st)
  BY DEF CarriesCall, Elapsed, After
<1>3. Timer(c) = <<>> \/ Timer(c) = <<y>>
  BY DEF Timer
<1> HIDE DEF x, y, cor
<1>4. <<>> \o <<x>> = <<x>> /\ <<x>> \o <<>> = <<x>>
  OBVIOUS
<1>5. AllCarry(<<>>, cor, st) /\ AllCarry(<<x>>, cor, st) /\ AllCarry(<<y>>, cor, st)
      /\ AllCarry(<<x>> \o <<y>>, cor, st) /\ AllCarry(<<y>> \o <<x>>, cor, st)
  BY <1>1, <1>2, CarryFew
<1>6. /\ AllCarry(Timer(c), cor, st) /\ AllCarry(PostRequest(c, s), cor, st)
      /\ AllCarry(Timer(c) \o PostRequest(c, s), cor, st)
      /\ AllCarry(PostRequest(c, s) \o Timer(c), cor, st)
  BY <1>1, <1>3, <1>4, <1>5
<1> QED
  BY <1>6 DEF cor

\* Events that are new carry requests and responses of the calls.
NewCarry == \A e \in events' : e \in events \/ CarriesCall(e.ev, correlation', stack)

\* Those of a sequence that carries them.
LEMMA CarryScheduled ==
    ASSUME NEW s, AllCarry(s, correlation', stack), Scheduled(s)
    PROVE  NewCarry
BY CarryEntries DEF Scheduled, NewCarry

\* Those that the handler of an event orders.
LEMMA CarryHandled ==
    ASSUME NEW e, NEW s, AllCarry(s, correlation', stack), Handled(e, s)
    PROVE  NewCarry
BY CarryEntries DEF Handled, NewCarry

\* The pending entries of the calls other than c stay.
OthersListed(c) == \A p : p.call # c => (p \in pending' <=> p \in pending)

\* A step of one call.
LEMMA CallMoves ==
    ASSUME CallsInv, NEW c \in Call, stack' = stack, CallTypes',
           \A d \in Call \ {c} : /\ phase'[d] = phase[d] /\ correlation'[d] = correlation[d]
                                 /\ answer'[d] = answer[d] /\ result'[d] = result[d],
           \/ correlation' = correlation /\ next_counter' = next_counter
           \/ correlation[c] = 0 /\ TakeCorrelation(c),
           \A p \in pending' : \/ p \in pending
                               \/ p = [id |-> correlation'[c], call |-> c] /\ p.id # 0,
           OthersListed(c),
           IsCall(c, phase'[c], correlation'[c], answer'[c], result'[c], Listed(c)', stack),
           NewCarry
    PROVE  CallsInv'
<1> USE DEF CallsInv
<1>1. IdsOfCalls'
  <2>1. /\ correlation \in [Call -> Nat] /\ next_counter \in Nat
        /\ \A d \in Call : correlation[d] <= next_counter
        /\ \A b, d \in Call : correlation[b] = correlation[d] /\ correlation[b] # 0 => b = d
        /\ \A p \in pending : /\ p \in [id : Nat, call : Call]
                              /\ p.id = correlation[p.call] /\ p.id # 0
    BY DEF IdsOfCalls
  <2>2. /\ correlation' \in [Call -> Nat] /\ next_counter' \in Nat
        /\ \A d \in Call : correlation'[d] <= next_counter'
        /\ \A b, d \in Call : correlation'[b] = correlation'[d] /\ correlation'[b] # 0 => b = d
    BY <2>1 DEF TakeCorrelation
  <2>3. \A p \in pending' : /\ p \in [id : Nat, call : Call]
                            /\ p.id = correlation'[p.call] /\ p.id # 0
    BY <2>1, <2>2 DEF TakeCorrelation
  <2> QED
    BY <2>2, <2>3 DEF IdsOfCalls
<1>2. CallsKnown'
  <2>1. SUFFICES ASSUME NEW d \in Call
                 PROVE  IsCall(d, phase'[d], correlation'[d], answer'[d], result'[d],
                               Listed(d)', stack)
    BY DEF CallsKnown
  <2>2. CASE d = c
    BY <2>2
  <2>3. CASE d # c
    <3>1. Listed(d)' <=> Listed(d)
      BY <2>3 DEF Listed, OthersListed
    <3>2. IsCall(d, phase[d], correlation[d], answer[d], result[d], Listed(d), stack)
      BY DEF CallsKnown
    <3>3. /\ phase'[d] = phase[d] /\ correlation'[d] = correlation[d]
          /\ answer'[d] = answer[d] /\ result'[d] = result[d]
      BY <2>3
    <3> QED
      BY <3>1, <3>2, <3>3 DEF IsCall
  <2> QED
    BY <2>2, <2>3
<1>3. MessagesKnown'
  <2>1. SUFFICES ASSUME NEW e \in events' PROVE CarriesCall(e.ev, correlation', stack)
    BY DEF MessagesKnown
  <2>2. CASE e \in events
    <3>1. CarriesCall(e.ev, correlation, stack)
      BY <2>2 DEF MessagesKnown
    <3>2. \A x : IsOfCall(x, correlation, stack) => IsOfCall(x, correlation', stack)
      <4>1. CASE correlation' = correlation
        BY <4>1
      <4>2. CASE correlation[c] = 0
        BY <4>2 DEF IsOfCall
      <4> QED
        BY <4>1, <4>2
    <3> QED
      BY <3>1, <3>2 DEF CarriesCall
  <2> QED
    BY <2>1, <2>2 DEF NewCarry
<1> QED
  BY <1>1, <1>2, <1>3

\* A step that leaves the calls alone.
LEMMA CallsRest ==
    ASSUME CallsInv,
           UNCHANGED <<stack, phase, correlation, next_counter, pending, answer, result>>,
           NewCarry
    PROVE  CallsInv'
<1>1. CallTypes' /\ IdsOfCalls'
  BY DEF CallsInv, CallTypes, IdsOfCalls
<1>2. CallsKnown'
  BY DEF CallsInv, CallsKnown, Listed
<1>3. MessagesKnown'
  BY DEF CallsInv, MessagesKnown, NewCarry
<1> QED
  BY <1>1, <1>2, <1>3 DEF CallsInv

\* What the invariant says of one call.
LEMMA CallFacts ==
    ASSUME CallsInv, NEW c \in Call
    PROVE  /\ phase \in [Call -> {"idle", "selecting", "sent", "done"}]
           /\ DOMAIN answer = Call /\ DOMAIN result = Call
           /\ answer = [d \in Call |-> answer[d]] /\ result = [d \in Call |-> result[d]]
           /\ correlation \in [Call -> Nat] /\ next_counter \in Nat
           /\ IsCall(c, phase[c], correlation[c], answer[c], result[c], Listed(c), stack)
           /\ Nil \notin Results
BY Constants DEF CallsInv, CallTypes, IdsOfCalls, CallsKnown, CallsAssumption

\* Its correlation id is taken, if it has none.
Numbered(c) ==
    \/ correlation[c] = 0 /\ TakeCorrelation(c)
    \/ correlation[c] # 0 /\ correlation' = correlation /\ next_counter' = next_counter

\* What that does.
LEMMA NumberedFacts ==
    ASSUME CallsInv, NEW c \in Call, Numbered(c)
    PROVE  /\ correlation' \in [Call -> Nat] /\ correlation'[c] # 0
           /\ \A d \in Call \ {c} : correlation'[d] = correlation[d]
           /\ \/ correlation' = correlation /\ next_counter' = next_counter
              \/ correlation[c] = 0 /\ TakeCorrelation(c)
BY CallFacts DEF Numbered, TakeCorrelation

\* A request is sent.
LEMMA SendsCall ==
    ASSUME CallsInv, NEW c \in Call, phase[c] \in {"idle", "selecting"}, Numbered(c),
           Insert(c), Sent(c), UNCHANGED <<stack, answer, result>>, NewCarry
    PROVE  CallsInv'
<1>1. IsCall(c, phase[c], correlation[c], answer[c], result[c], Listed(c), stack)
  BY CallFacts
<1>2. /\ phase' \in [Call -> {"idle", "selecting", "sent", "done"}] /\ phase'[c] = "sent"
      /\ \A d \in Call \ {c} : phase'[d] = phase[d]
      /\ answer[c] = Nil
  BY <1>1, CallFacts DEF Sent, IsCall
<1>3. CallTypes'
  BY <1>2, CallFacts DEF CallTypes
<1>4. Listed(c)' /\ OthersListed(c)
  <2>1. [id |-> correlation'[c], call |-> c] \in pending'
    BY DEF Insert
  <2>2. [id |-> correlation'[c], call |-> c].call = c
    OBVIOUS
  <2>3. Listed(c)'
    BY <2>1, <2>2 DEF Listed
  <2>4. OthersListed(c)
    BY <2>2 DEF Insert, OthersListed
  <2> QED
    BY <2>3, <2>4
<1>5. IsCall(c, phase'[c], correlation'[c], answer'[c], result'[c], Listed(c)', stack)
  BY <1>1, <1>2, <1>4, CallFacts DEF IsCall
<1>6. \A p \in pending' : p \in pending \/ (p = [id |-> correlation'[c], call |-> c] /\ p.id # 0)
  BY NumberedFacts DEF Insert
<1> QED
  BY <1>2, <1>3, <1>4, <1>5, <1>6, NumberedFacts, CallMoves

\* A call ends; its request may be sent in the same poll.
LEMMA EndsCall ==
    ASSUME CallsInv, NEW c \in Call, NEW r \in Results, r.of = c, Finish(c, r),
           stack' = stack,
           Numbered(c) \/ UNCHANGED <<correlation, next_counter>>,
           \/ UNCHANGED pending
           \/ Numbered(c) /\ Insert(c)
           \/ pending' = {p \in pending : p.id # correlation[c]},
           Listed(c)' => r.kind \in {"dropped"} \cup (IF stack = "grpc" THEN {"timeout"} ELSE {}),
           \/ answer[c] = Nil /\ UNCHANGED answer
           \/ answer' = [answer EXCEPT ![c] = Nil],
           NewCarry
    PROVE  CallsInv'
<1>2. /\ phase' \in [Call -> {"idle", "selecting", "sent", "done"}] /\ phase'[c] = "done"
      /\ \A d \in Call \ {c} : phase'[d] = phase[d] /\ result'[d] = result[d]
      /\ DOMAIN result' = Call /\ result' = [d \in Call |-> result'[d]] /\ result'[c] = r
  BY CallFacts DEF Finish
<1>3. /\ DOMAIN answer' = Call /\ answer' = [d \in Call |-> answer'[d]] /\ answer'[c] = Nil
      /\ \A d \in Call \ {c} : answer'[d] = answer[d]
  BY CallFacts
<1>4. CallTypes'
  BY <1>2, <1>3 DEF CallTypes
<1>5. OthersListed(c)
  <2>1. \A p \in pending : p.call \in Call /\ p.id = correlation[p.call] /\ p.id # 0
    BY DEF CallsInv, IdsOfCalls
  <2>2. \A d \in Call : correlation[d] = correlation[c] /\ correlation[d] # 0 => d = c
    BY DEF CallsInv, IdsOfCalls
  <2> QED
    BY <2>1, <2>2 DEF Insert, OthersListed
<1>6. IsCall(c, phase'[c], correlation'[c], answer'[c], result'[c], Listed(c)', stack)
  BY <1>2, <1>3, CallFacts DEF IsCall
<1>7. \A p \in pending' : p \in pending \/ (p = [id |-> correlation'[c], call |-> c] /\ p.id # 0)
  BY NumberedFacts DEF Insert
<1>8. \A d \in Call \ {c} : correlation'[d] = correlation[d]
  BY NumberedFacts
<1>9. \/ correlation' = correlation /\ next_counter' = next_counter
      \/ correlation[c] = 0 /\ TakeCorrelation(c)
  BY NumberedFacts
<1> QED
  BY <1>2, <1>3, <1>4, <1>5, <1>6, <1>7, <1>8, <1>9, CallMoves

\* A call starts to wait for an endpoint: one of HTTP has its id already.
LEMMA WaitsCall ==
    ASSUME CallsInv, NEW c \in Call, phase[c] = "idle",
           phase' = [phase EXCEPT ![c] = "selecting"],
           \/ stack = "grpc" /\ UNCHANGED <<correlation, next_counter>>
           \/ stack = "http" /\ TakeCorrelation(c),
           UNCHANGED <<stack, pending, answer, result>>, NewCarry
    PROVE  CallsInv'
<1>1. IsCall(c, phase[c], correlation[c], answer[c], result[c], Listed(c), stack)
  BY CallFacts
<1>2. /\ phase' \in [Call -> {"idle", "selecting", "sent", "done"}] /\ phase'[c] = "selecting"
      /\ \A d \in Call \ {c} : phase'[d] = phase[d]
      /\ correlation[c] = 0 /\ ~Listed(c) /\ answer[c] = Nil
  BY <1>1, CallFacts DEF IsCall
<1>3. CallTypes'
  BY <1>2, CallFacts DEF CallTypes
<1>4. (Listed(c)' <=> Listed(c)) /\ OthersListed(c)
  BY DEF Listed, OthersListed
<1>5. /\ stack = "grpc" <=> correlation'[c] = 0
      /\ \A d \in Call \ {c} : correlation'[d] = correlation[d]
  BY <1>2, CallFacts DEF TakeCorrelation
<1>6. IsCall(c, phase'[c], correlation'[c], answer'[c], result'[c], Listed(c)', stack)
  BY <1>1, <1>2, <1>4, <1>5, CallFacts DEF IsCall
<1> QED
  BY <1>2, <1>3, <1>4, <1>5, <1>6, CallMoves

\* What a call ends with by itself.
LEMMA ResultFacts ==
    ASSUME NEW c \in Call
    PROVE  \A k \in {"timeout", "dropped", "unavailable", "not found"} :
               /\ [kind |-> k, of |-> c] \in Results /\ [kind |-> k, of |-> c].of = c
               /\ [kind |-> k, of |-> c].kind = k
BY DEF Results, Call

\* Channel::unary is called.
LEMMA StartGrpcKeeps ==
    ASSUME CallsInv, NEW c \in Call, StartGrpc(c)
    PROVE  CallsInv'
<1>1. IsCall(c, "idle", correlation[c], answer[c], result[c], Listed(c), stack)
  BY CallFacts DEF StartGrpc
<1>2. correlation[c] = 0 /\ answer[c] = Nil /\ ~Listed(c) /\ phase[c] = "idle" /\ stack = "grpc"
  BY <1>1 DEF IsCall, StartGrpc
<1>3. UNCHANGED <<stack, answer>>
  BY DEF StartGrpc
<1>4. ASSUME NEW s, TakeCorrelation(c), Insert(c), Sent(c),
             Scheduled(Timer(c) \o PostRequest(c, s)), UNCHANGED result
      PROVE  CallsInv'
  <2>1. Numbered(c)
    BY <1>2, <1>4 DEF Numbered
  <2>2. NewCarry
    BY <1>4, <2>1, NumberedFacts, CarryRequests, CarryScheduled
  <2> QED
    BY <1>2, <1>3, <1>4, <2>1, <2>2, SendsCall
<1>5. ASSUME phase' = [phase EXCEPT ![c] = "selecting"], Scheduled(Timer(c)),
             UNCHANGED <<correlation, next_counter, pending, result>>
      PROVE  CallsInv'
  <2>1. AllCarry(Timer(c), correlation', stack)
    <3>1. CASE Timeout = Nil
      BY <3>1, CarryFew DEF Timer
    <3>2. CASE Timeout # Nil
      <4>1. CarriesCall(After(Timeout, Elapsed(c, now + Timeout)).ev, correlation', stack)
        BY DEF CarriesCall, Elapsed, After
      <4> QED
        BY <3>2, <4>1, CarryFew DEF Timer
    <3> QED
      BY <3>1, <3>2
  <2>2. NewCarry
    BY <1>5, <2>1, CarryScheduled
  <2> QED
    BY <1>2, <1>3, <1>5, <2>2, WaitsCall
<1>6. ASSUME Finish(c, [kind |-> "unavailable", of |-> c]),
             UNCHANGED <<agenda_vars, correlation, next_counter, pending>>
      PROVE  CallsInv'
  <2>1. NewCarry /\ ~Listed(c)'
    BY <1>2, <1>6 DEF NewCarry, agenda_vars, Listed
  <2> QED
    BY <1>2, <1>3, <1>6, <2>1, ResultFacts, EndsCall
<1> QED
  BY <1>4, <1>5, <1>6 DEF StartGrpc

\* Client::request is called.
LEMMA StartHttpKeeps ==
    ASSUME CallsInv, NEW c \in Call, StartHttp(c)
    PROVE  CallsInv'
<1>1. IsCall(c, "idle", correlation[c], answer[c], result[c], Listed(c), stack)
  BY CallFacts DEF StartHttp
<1>2. correlation[c] = 0 /\ answer[c] = Nil /\ ~Listed(c) /\ phase[c] = "idle" /\ stack = "http"
  BY <1>1 DEF IsCall, StartHttp
<1>3. UNCHANGED <<stack, answer>> /\ TakeCorrelation(c) /\ Numbered(c)
  BY <1>2 DEF StartHttp, Numbered
<1>4. ASSUME NEW s, Insert(c), Sent(c),
             Scheduled(PostRequest(c, s) \o Timer(c)), UNCHANGED result
      PROVE  CallsInv'
  <2>2. NewCarry
    BY <1>3, <1>4, NumberedFacts, CarryRequests, CarryScheduled
  <2> QED
    BY <1>2, <1>3, <1>4, <2>2, SendsCall
<1>5. ASSUME phase' = [phase EXCEPT ![c] = "selecting"], Scheduled(Timer(c)),
             UNCHANGED <<pending, result>>
      PROVE  CallsInv'
  <2>2. NewCarry
    BY <1>3, <1>5, NumberedFacts, CarryRequests, CarryScheduled
  <2> QED
    BY <1>2, <1>3, <1>5, <2>2, WaitsCall
<1>6. ASSUME Finish(c, [kind |-> "not found", of |-> c]), UNCHANGED <<agenda_vars, pending>>
      PROVE  CallsInv'
  <2>1. NewCarry /\ ~Listed(c)'
    BY <1>2, <1>6 DEF NewCarry, agenda_vars, Listed
  <2> QED
    BY <1>2, <1>3, <1>6, <2>1, ResultFacts, EndsCall
<1> QED
  BY <1>4, <1>5, <1>6 DEF StartHttp

\* A gRPC call is polled while it waits for an endpoint.
LEMMA PollGrpcKeeps ==
    ASSUME CallsInv, NEW c \in Call, PollSelectGrpc(c)
    PROVE  CallsInv'
<1>1. IsCall(c, "selecting", correlation[c], answer[c], result[c], Listed(c), stack)
  BY CallFacts DEF PollSelectGrpc
<1>2. /\ correlation[c] = 0 /\ answer[c] = Nil /\ ~Listed(c) /\ phase[c] = "selecting"
      /\ stack = "grpc"
  BY <1>1 DEF IsCall, PollSelectGrpc
<1>3. UNCHANGED <<stack, answer>>
  BY DEF PollSelectGrpc
<1>4. ASSUME TakeCorrelation(c), Insert(c), Scheduled(PostRequest(c, Chosen))
      PROVE  Numbered(c) /\ NewCarry
  <2>1. Numbered(c)
    BY <1>2, <1>4 DEF Numbered
  <2> QED
    BY <1>4, <2>1, NumberedFacts, CarryRequests, CarryScheduled
<1>5. ASSUME TakeCorrelation(c), Insert(c), Scheduled(PostRequest(c, Chosen)),
             Finish(c, [kind |-> "timeout", of |-> c])
      PROVE  CallsInv'
  BY <1>2, <1>3, <1>4, <1>5, ResultFacts, EndsCall
<1>6. ASSUME TakeCorrelation(c), Insert(c), Scheduled(PostRequest(c, Chosen)), Sent(c),
             UNCHANGED <<deadline, result>>
      PROVE  CallsInv'
  BY <1>2, <1>3, <1>4, <1>6, SendsCall
<1>7. ASSUME UNCHANGED <<agenda_vars, phase, correlation, next_counter, pending, deadline, result>>
      PROVE  CallsInv'
  <2>1. NewCarry
    BY <1>7 DEF NewCarry, agenda_vars
  <2> QED
    BY <1>3, <1>7, <2>1, CallsRest
<1>8. ASSUME Finish(c, [kind |-> "timeout", of |-> c]),
             UNCHANGED <<agenda_vars, correlation, next_counter, pending>>
      PROVE  CallsInv'
  <2>1. NewCarry /\ ~Listed(c)'
    BY <1>2, <1>8 DEF NewCarry, agenda_vars, Listed
  <2> QED
    BY <1>2, <1>3, <1>8, <2>1, ResultFacts, EndsCall
<1> QED
  BY <1>5, <1>6, <1>7, <1>8 DEF PollSelectGrpc

\* An HTTP request is polled while it waits for an endpoint.
LEMMA PollHttpKeeps ==
    ASSUME CallsInv, NEW c \in Call, PollSelectHttp(c)
    PROVE  CallsInv'
<1>1. IsCall(c, "selecting", correlation[c], answer[c], result[c], Listed(c), stack)
  BY CallFacts DEF PollSelectHttp
<1>2. /\ correlation[c] # 0 /\ answer[c] = Nil /\ ~Listed(c) /\ phase[c] = "selecting"
      /\ stack = "http"
  BY <1>1 DEF IsCall, PollSelectHttp
<1>3. UNCHANGED <<stack, answer, next_counter>>
  BY DEF PollSelectHttp
<1>4. ASSUME UNCHANGED correlation, Insert(c), Sent(c),
             Scheduled(PostRequest(c, Chosen) \o Timer(c)),
             UNCHANGED result
      PROVE  CallsInv'
  <2>1. Numbered(c)
    BY <1>2, <1>3, <1>4 DEF Numbered
  <2>2. NewCarry
    BY <1>4, <2>1, NumberedFacts, CarryRequests, CarryScheduled
  <2> QED
    BY <1>2, <1>3, <1>4, <2>1, <2>2, SendsCall
<1>5. ASSUME UNCHANGED <<agenda_vars, phase, correlation, pending, deadline, result>>
      PROVE  CallsInv'
  <2>1. NewCarry
    BY <1>5 DEF NewCarry, agenda_vars
  <2> QED
    BY <1>3, <1>5, <2>1, CallsRest
<1>6. ASSUME Finish(c, [kind |-> "timeout", of |-> c]),
             UNCHANGED <<agenda_vars, correlation, pending>>
      PROVE  CallsInv'
  <2>1. NewCarry /\ ~Listed(c)'
    BY <1>2, <1>6 DEF NewCarry, agenda_vars, Listed
  <2> QED
    BY <1>2, <1>3, <1>6, <2>1, ResultFacts, EndsCall
<1> QED
  BY <1>4, <1>5, <1>6 DEF PollSelectHttp

\* A call that waits for its response is polled.
LEMMA PollResponseKeeps ==
    ASSUME CallsInv, NEW c \in Call, PollResponse(c)
    PROVE  CallsInv'
<1>1. IsCall(c, "sent", correlation[c], answer[c], result[c], Listed(c), stack)
  BY CallFacts DEF PollResponse
<1>2. UNCHANGED <<stack, correlation, next_counter>> /\ NewCarry
  BY DEF PollResponse, agenda_vars, NewCarry
<1>3. CASE TakeAnswer(c)
  <2>1. answer[c] \in Results /\ answer[c].of = c /\ ~Listed(c)
    BY <1>1, <1>3 DEF IsCall, TakeAnswer
  <2>2. /\ Finish(c, answer[c]) /\ answer' = [answer EXCEPT ![c] = Nil] /\ UNCHANGED pending
        /\ ~Listed(c)'
    BY <1>3, <2>1 DEF TakeAnswer, Listed
  <2> QED
    BY <1>2, <2>1, <2>2, EndsCall
<1>4. CASE answer[c] = Nil /\ GrpcTimedOut(c) /\ UNCHANGED answer
  BY <1>2, <1>4, ResultFacts, EndsCall DEF GrpcTimedOut
<1>5. CASE answer[c] = Nil /\ HttpTimedOut(c) /\ UNCHANGED answer
  <2>1. \A p \in pending : p.id = correlation[p.call]
    BY DEF CallsInv, IdsOfCalls
  <2>2. pending' = {p \in pending : p.id # correlation[c]}
    BY <1>5 DEF HttpTimedOut
  <2>3. ~Listed(c)'
    BY <2>1, <2>2 DEF Listed
  <2> QED
    BY <1>2, <1>5, <2>2, <2>3, ResultFacts, EndsCall DEF HttpTimedOut
<1>6. CASE UNCHANGED <<phase, result, deadline, answer, pending>>
  BY <1>2, <1>6, CallsRest
<1> QED
  BY <1>3, <1>4, <1>5, <1>6 DEF PollResponse

\* The task of a call is aborted.
LEMMA DropKeeps ==
    ASSUME CallsInv, NEW c \in Call, DropCall(c)
    PROVE  CallsInv'
<1>1. /\ UNCHANGED <<stack, correlation, next_counter, pending>> /\ NewCarry
      /\ Finish(c, [kind |-> "dropped", of |-> c]) /\ answer' = [answer EXCEPT ![c] = Nil]
  BY DEF DropCall, agenda_vars, NewCarry
<1> QED
  BY <1>1, ResultFacts, EndsCall

\* A response comes to the client: it has the id of the call it is of, and no other.
LEMMA HandleResponseKeeps ==
    ASSUME CallsInv, NEW e \in events, HandleResponse(e)
    PROVE  CallsInv'
<1> DEFINE r == e.ev.message.content
           c == r.of
           found == {p \in pending : p.id = r.id}
           alive == {p \in found : phase[p.call] = "sent"}
           told == [kind |-> IF r.ok THEN "ok" ELSE "error", of |-> r.of]
<1>1. c \in Call /\ r.id = correlation[c] /\ r.id # 0
  <2>1. CarriesCall(e.ev, correlation, stack)
    BY DEF CallsInv, MessagesKnown
  <2> QED
    BY <2>1 DEF CarriesCall, IsOfCall, HandleResponse
<1>2. /\ UNCHANGED <<stack, phase, correlation, next_counter, result>>
      /\ pending' = pending \ found
      /\ answer' = [d \in Call |-> IF \E p \in alive : p.call = d THEN told ELSE answer[d]]
  BY DEF HandleResponse
<1>3. NewCarry
  BY <1>2, CarryFew, CarryHandled DEF HandleResponse, HandedOver
<1>4. told \in Results /\ told.of = c
  BY <1>1 DEF Results, Call
<1> HIDE DEF r, told
<1>5. \A p \in pending : p.call \in Call /\ p.id = correlation[p.call] /\ p.id # 0
  BY DEF CallsInv, IdsOfCalls
<1>6. \A d \in Call : correlation[d] = correlation[c] /\ correlation[d] # 0 => d = c
  BY <1>1 DEF CallsInv, IdsOfCalls
<1>7. \A p \in pending : p \in found <=> p.call = c
  BY <1>1, <1>5, <1>6
<1>8. OthersListed(c) /\ ~Listed(c)'
  BY <1>2, <1>7 DEF OthersListed, Listed
<1>9. /\ \A d \in Call \ {c} : answer'[d] = answer[d]
      /\ answer'[c] = IF Listed(c) /\ phase[c] = "sent" THEN told ELSE answer[c]
  BY <1>1, <1>2, <1>7 DEF Listed
<1>10. CallTypes'
  BY <1>1, <1>2, CallFacts DEF CallTypes
<1>11. IsCall(c, phase'[c], correlation'[c], answer'[c], result'[c], Listed(c)', stack)
  <2>1. IsCall(c, phase[c], correlation[c], answer[c], result[c], Listed(c), stack)
    BY <1>1, CallFacts
  <2>2. Nil \notin Results
    BY <1>1, CallFacts
  <2> QED
    BY <1>2, <1>4, <1>8, <1>9, <2>1, <2>2 DEF IsCall
<1> HIDE DEF c, found, alive
<1>12. \A p \in pending' : p \in pending
  BY <1>2
<1> QED
  BY <1>1, <1>2, <1>3, <1>8, <1>9, <1>10, <1>11, <1>12, CallMoves

\* What is sent keeps its content when it is numbered.
LEMMA ContentKept ==
    ASSUME NEW m, IsMessage(m), NEW n \in Nat
    PROVE  [m EXCEPT !.id = n].content = m.content
<1>1. [m EXCEPT !.id = n] = TransportMessage(n, m.source, m.destination, m.size, m.content)
  BY DEF IsMessage, TransportMessage
<1> QED
  BY <1>1 DEF TransportMessage

\* An event that carries what another one carried.
LEMMA CarriesOn ==
    ASSUME NEW ev, NEW m, NEW cor, NEW st, CarriesCall(ev, cor, st),
           ev.kind \in {"SendMessage", "MessageDelivered", "MessageDropped", "HandlerDone"},
           m.content = ev.message.content, NEW d, NEW k, NEW ok
    PROVE  /\ CarriesCall(After(d, MessageDelivered(m, k)).ev, cor, st)
           /\ CarriesCall(After(d, MessageDropped(m)).ev, cor, st)
           /\ CarriesCall(After(d, HandlerDone(m, ok)).ev, cor, st)
           /\ CarriesCall(Respond(m, ok)[1].ev, cor, st)
BY DEF CarriesCall, IsOfCall, After, MessageDelivered, MessageDropped, HandlerDone, Respond,
   SendMessage, ResponseTo, TransportMessage

\* A message enters the network, is forwarded, or is dropped.
LEMMA DeliverKeeps ==
    ASSUME TransportInv, CallsInv, NEW e \in events, Deliver(e)
    PROVE  CallsInv'
<1>1. CarriesCall(e.ev, correlation, stack) /\ IsEvent(e.ev) /\ next_message_id \in Nat
  BY DEF CallsInv, MessagesKnown, TransportInv, AgendaInv, IsEntry, TransportTypes
<1>2. UNCHANGED <<stack, phase, correlation, next_counter, pending, answer, result>>
  BY DEF Deliver, call_vars
<1>3. ASSUME NEW x, CarriesCall(x.ev, correlation, stack), Handled(e, <<x>>)
      PROVE  NewCarry
  BY <1>2, <1>3, CarryFew, CarryHandled
<1>4. CASE Handled(e, <<>>)
  BY <1>2, <1>4, CarryFew, CarryHandled, CallsRest
<1>5. CASE HandleSend(e)
  <2> DEFINE m == [e.ev.message EXCEPT !.id = AssignedId(e.ev.message)]
  <2>1. m.content = e.ev.message.content
    <3>1. IsMessage(e.ev.message) /\ AssignedId(e.ev.message) \in Nat
      BY <1>1, <1>5 DEF IsEvent, IsMessage, HandleSend, AssignedId
    <3> QED
      BY <3>1, ContentKept
  <2>2. \/ Handled(e, <<After(0, MessageDropped(m))>>)
        \/ \E d : Handled(e, <<After(d, MessageDelivered(m, "transport"))>>)
    BY <1>5 DEF HandleSend
  <2> HIDE DEF m
  <2>3. \A d : /\ CarriesCall(After(d, MessageDelivered(m, "transport")).ev, correlation, stack)
               /\ CarriesCall(After(d, MessageDropped(m)).ev, correlation, stack)
    BY <1>1, <1>5, <2>1, CarriesOn DEF HandleSend
  <2>4. NewCarry
    BY <1>3, <2>2, <2>3
  <2> QED
    BY <1>2, <2>4, CallsRest
<1>6. CASE HandleDelivered(e)
  <2>1. CarriesCall(After(0, MessageDelivered(e.ev.message, "handler")).ev, correlation, stack)
    BY <1>1, <1>6, CarriesOn DEF HandleDelivered
  <2> QED
    BY <1>2, <1>3, <1>4, <1>6, <2>1, CallsRest DEF HandleDelivered
<1>7. CASE HandleDropped(e)
  BY <1>4, <1>7 DEF HandleDropped
<1> QED
  BY <1>5, <1>6, <1>7 DEF Deliver, TransportStep

\* A server handles a request, and answers it.
LEMMA ServeKeeps ==
    ASSUME CallsInv, NEW e \in events,
           HandleGrpcRequest(e) \/ HandleHttpRequest(e) \/ HandleDone(e)
    PROVE  CallsInv'
<1>1. CarriesCall(e.ev, correlation, stack)
  BY DEF CallsInv, MessagesKnown
<1>2. UNCHANGED <<stack, phase, correlation, next_counter, pending, answer, result>>
  BY DEF HandleGrpcRequest, HandleHttpRequest, HandleDone, call_vars
<1>3. ASSUME NEW x, CarriesCall(x.ev, correlation, stack), Handled(e, <<x>>)
      PROVE  CallsInv'
  BY <1>2, <1>3, CarryFew, CarryHandled, CallsRest
<1>4. CASE HandleGrpcRequest(e) \/ HandleHttpRequest(e)
  <2>1. PICK t, ok : Handled(e, <<After(t, HandlerDone(e.ev.message, ok))>>)
    BY <1>4, Zenon DEF HandleGrpcRequest, HandleHttpRequest, HandedOver
  <2>2. CarriesCall(After(t, HandlerDone(e.ev.message, ok)).ev, correlation, stack)
    BY <1>1, <1>4, CarriesOn DEF HandleGrpcRequest, HandleHttpRequest
  <2> QED
    BY <1>3, <2>1, <2>2
<1>5. CASE HandleDone(e)
  <2> DEFINE x == Respond(e.ev.message, e.ev.ok)[1]
  <2>1. Respond(e.ev.message, e.ev.ok) = <<x>>
    BY DEF Respond
  <2>2. CarriesCall(x.ev, correlation, stack)
    BY <1>1, <1>5, CarriesOn DEF HandleDone
  <2> HIDE DEF x
  <2> QED
    BY <1>3, <1>5, <2>1, <2>2 DEF HandleDone
<1> QED
  BY <1>4, <1>5

\* Every step of the calls keeps what is known of them.
LEMMA CallsNext ==
    ASSUME TransportInv, CallsInv, [Next]_vars
    PROVE  CallsInv'
<1>1. ASSUME UNCHANGED <<stack, phase, correlation, next_counter, pending, answer, result>>,
             UNCHANGED agenda_vars
      PROVE  CallsInv'
  BY <1>1, CallsRest DEF NewCarry, agenda_vars
<1>2. ASSUME NEW s, ServeGrpc(s) \/ ServeHttp(s) \/ Withdraw(s) \/ Enlist(s) \/ Retire(s)
      PROVE  CallsInv'
  BY <1>1, <1>2 DEF ServeGrpc, ServeHttp, InstallHttpServer, InstallServer, Withdraw, Enlist,
     Retire, call_vars
<1>3. ASSUME NEW c \in Call, StartGrpc(c) \/ StartHttp(c) \/ Poll(c) \/ DropCall(c) \/ PollWait(c)
      PROVE  CallsInv'
  <2>1. CASE PollWait(c)
    BY <1>1, <2>1 DEF PollWait, call_vars
  <2> QED
    BY <1>3, <2>1, StartGrpcKeeps, StartHttpKeeps, PollGrpcKeeps, PollHttpKeeps,
       PollResponseKeeps, DropKeeps DEF Poll
<1>4. ASSUME NEW e \in events, Handle(e)
      PROVE  CallsInv'
  <2>1. CASE HandleElapsed(e) \/ HandleMessage(e)
    <3>1. UNCHANGED <<stack, phase, correlation, next_counter, pending, answer, result>>
      BY <2>1 DEF HandleElapsed, HandleMessage, call_vars
    <3> QED
      BY <2>1, <3>1, CarryFew, CarryHandled, CallsRest DEF HandleElapsed, HandleMessage, HandedOver
  <2> QED
    BY <1>4, <2>1, HandleResponseKeeps, DeliverKeeps, ServeKeeps DEF Handle
<1>5. ASSUME NEW s, Submit(s) \/ Send(s)
      PROVE  CallsInv'
  <2>1. /\ UNCHANGED <<stack, phase, correlation, next_counter, pending, answer, result>>
        /\ stack = "transport"
    BY <1>5 DEF Submit, Send, call_vars
  <2>2. NewCarry
    BY <2>1 DEF NewCarry, CarriesCall, IsOfCall
  <2> QED
    BY <2>1, <2>2, CallsRest
<1>6. ASSUME NEW s, Listen(s) \/ Ignore(s)
      PROVE  CallsInv'
  BY <1>1, <1>6 DEF Listen, Ignore, RegisterHandler, UnregisterHandler, call_vars
<1>7. CASE Reset \/ ConnectGrpc \/ ConnectHttp
  BY <1>1, <1>7 DEF Reset, ResetStats, ConnectGrpc, ConnectHttp, call_vars
<1>8. CASE UNCHANGED vars
  BY <1>1, <1>8 DEF vars, call_vars
<1> QED
  BY <1>2, <1>3, <1>4, <1>5, <1>6, <1>7, <1>8 DEF Next

\* The invariant holds at the start,
LEMMA CallsStart == ASSUME MCInit PROVE CallsInv
<1>1. /\ events = Entries(<<>>, 0, 0)
      /\ phase = [c \in Call |-> "idle"]
      /\ correlation = [c \in Call |-> 0] /\ next_counter = 0
      /\ pending = {}
      /\ answer = [c \in Call |-> Nil] /\ result = [c \in Call |-> Nil]
  BY DEF MCInit, Init, AgendaInit
<1>2. events = {}
  BY <1>1 DEF Entries
<1>3. CallTypes
  BY <1>1 DEF CallTypes
<1>4. IdsOfCalls /\ MessagesKnown
  BY <1>1, <1>2 DEF IdsOfCalls, MessagesKnown
<1>5. CallsKnown
  BY <1>1 DEF CallsKnown, IsCall, Listed
<1> QED
  BY <1>3, <1>4, <1>5 DEF CallsInv

\* and throughout.
LEMMA CallsInvariant == MCSpec => []CallsInv
<1>1. TonicInv /\ CallsInv /\ [MCNext]_<<vars, stream_vars, alone_vars>> => CallsInv'
  BY CallsSteps, CallsNext DEF TonicInv
<1> QED
  BY <1>1, CallsStart, TonicInvariant, PTL DEF MCSpec

\* Then a call ends with its own answer, and what waits is what was sent.
LEMMA CallsSound == ASSUME CallsInv PROVE CallsExact
<1>1. AnswerIsOwn
  BY CallFacts DEF AnswerIsOwn, IsCall
<1>2. PendingExact
  <2>1. \A c \in Call : IsCall(c, phase[c], correlation[c], answer[c], result[c], Listed(c), stack)
    BY CallFacts
  <2>2. \A p \in pending : p.id = correlation[p.call]
    BY DEF CallsInv, IdsOfCalls
  <2> QED
    BY <2>1, <2>2 DEF PendingExact, IsCall, Listed
<1> QED
  BY <1>1, <1>2 DEF CallsExact

-----------------------------------------------------------------------------
(* The typed end of a stream. *)

TypedTypes ==
    /\ end \in Ends /\ offered \in Nat /\ holds \in Nat
    /\ source \in Seq(Nat) /\ source_state \in {"open", "failed", "closed"}
    /\ task \in {"reads", "holds", "stopped"}
    /\ typed \in Seq(Nat) /\ typed_read \in Seq(Nat)
    /\ typed_end \in {"no", "end", "error", "dropped"}

\* How many items the task has forwarded, if none of them was an error.
TypedPut == Len(typed_read) + Len(typed)

\* The items from n on, and perhaps an error after them.
ItemsFrom(s, n) ==
    \A i \in 1 .. Len(s) : s[i] = n + i \/ (s[i] = TypedFailure /\ i = Len(s))

EndsInFailure(s) == s # <<>> /\ s[Len(s)] = TypedFailure

\* What is in a source of that state when n of the items offered were taken: the rest.
IsRest(s, state, items, n) ==
    /\ ItemsFrom(s, n)
    /\ EndsInFailure(s) => state # "open" /\ items + 1 = n + Len(s)
    /\ ~EndsInFailure(s) => items = n + Len(s)

\* Where the items are while the reader reads, r of them read and p forwarded.
TypedWay(r, p) ==
    /\ ItemsFrom(typed, r)
    /\ EndsInFailure(typed) => task = "stopped" /\ p <= offered + 1
    /\ ~EndsInFailure(typed) => p <= offered
    /\ task = "reads" => IsRest(source, source_state, offered, p)
    /\ task = "holds" => /\ p <= offered
                         /\ holds # TypedFailure =>
                                holds = p + 1 /\ IsRest(source, source_state, offered, p + 1)
    /\ task = "stopped" /\ ~EndsInFailure(typed) => p = offered

TypedFlow ==
    /\ \A i \in 1 .. Len(typed_read) : typed_read[i] = i
    /\ Len(typed_read) <= offered
    /\ typed_end = "no" => TypedWay(Len(typed_read), TypedPut)
    /\ typed_end = "end" => task = "stopped" /\ Len(typed_read) = offered

TypedInv == TypedTypes /\ TypedFlow

\* What Append and Tail do to a sequence of numbers.
LEMMA Appended ==
    ASSUME NEW s \in Seq(Nat), NEW x \in Nat
    PROVE  /\ Append(s, x) \in Seq(Nat) /\ Len(Append(s, x)) = Len(s) + 1 /\ Len(s) \in Nat
           /\ Append(s, x)[Len(s) + 1] = x /\ Append(s, x) # <<>>
           /\ \A i \in 1 .. Len(s) : Append(s, x)[i] = s[i]
OBVIOUS

\* The rest of a sequence of numbers.
LEMMA Tailed ==
    ASSUME NEW s \in Seq(Nat), s # <<>>
    PROVE  /\ Tail(s) \in Seq(Nat) /\ Len(Tail(s)) = Len(s) - 1 /\ Len(s) \in Nat \ {0}
           /\ \A i \in 1 .. Len(s) - 1 : Tail(s)[i] = s[i + 1]
           /\ Head(s) = s[1] /\ s[1] \in Nat
OBVIOUS

\* The invariant holds at the start.
LEMMA TypedStarts == ASSUME TypedInit PROVE TypedInv
BY DEF TypedInit, TypedInv, TypedTypes, TypedFlow, TypedWay, TypedPut, ItemsFrom, EndsInFailure,
       IsRest, TypedFailure

\* Items go on behind n of them, at the end,
LEMMA ItemsGrow ==
    ASSUME NEW s \in Seq(Nat), NEW n \in Nat, NEW x \in Nat,
           ItemsFrom(s, n), ~EndsInFailure(s), x = TypedFailure \/ x = n + Len(s) + 1
    PROVE  /\ ItemsFrom(Append(s, x), n)
           /\ EndsInFailure(Append(s, x)) <=> x = TypedFailure
<1>1. \A i \in 1 .. Len(s) : s[i] = n + i
  BY DEF ItemsFrom, EndsInFailure
<1>2. \A i \in 1 .. Len(s) + 1 : i \in 1 .. Len(s) \/ i = Len(s) + 1
  BY Appended
<1> QED
  BY <1>1, <1>2, Appended DEF ItemsFrom, EndsInFailure

\* and one is taken in front.
LEMMA ItemsShrink ==
    ASSUME NEW s \in Seq(Nat), NEW n \in Nat, ItemsFrom(s, n), s # <<>>
    PROVE  /\ ItemsFrom(Tail(s), n + 1)
           /\ Head(s) # TypedFailure =>
                  Head(s) = n + 1 /\ (EndsInFailure(Tail(s)) <=> EndsInFailure(s))
           /\ Head(s) = TypedFailure => Tail(s) = <<>> /\ Len(s) = 1 /\ EndsInFailure(s)
<1> USE DEF TypedFailure
<1>1. /\ Tail(s) \in Seq(Nat) /\ Len(Tail(s)) = Len(s) - 1 /\ Len(s) \in Nat \ {0}
      /\ \A i \in 1 .. Len(s) - 1 : Tail(s)[i] = s[i + 1]
      /\ Head(s) = s[1] /\ s[1] \in Nat
  BY Tailed
<1>2. \A i \in 1 .. Len(s) - 1 : i + 1 \in 1 .. Len(s)
  BY <1>1
<1>3. 1 \in 1 .. Len(s) /\ Len(s) \in 1 .. Len(s)
  BY <1>1
<1>4. ItemsFrom(Tail(s), n + 1)
  <2> SUFFICES ASSUME NEW i \in 1 .. Len(s) - 1
               PROVE  \/ Tail(s)[i] = n + 1 + i
                      \/ Tail(s)[i] = TypedFailure /\ i = Len(s) - 1
    BY <1>1, Zenon DEF ItemsFrom
  <2>1. s[i + 1] = n + (i + 1) \/ (s[i + 1] = TypedFailure /\ i + 1 = Len(s))
    BY <1>2 DEF ItemsFrom
  <2>2. Tail(s)[i] = s[i + 1] /\ i \in Nat /\ Len(s) \in Nat
    BY <1>1
  <2>3. n + (i + 1) = n + 1 + i /\ (i + 1 = Len(s) => i = Len(s) - 1)
    BY <2>2
  <2> QED
    BY <2>1, <2>2, <2>3, Zenon
<1>5. s[1] = n + 1 \/ (s[1] = 0 /\ 1 = Len(s))
  BY <1>3 DEF ItemsFrom
<1>6. Tail(s) = <<>> <=> Len(s) = 1
  <2>1. Tail(s) # <<>> => Len(Tail(s)) # 0
    BY <1>1, EmptySeq
  <2>2. Tail(s) = <<>> => Len(Tail(s)) = 0
    <3>1. Len(<<>>) = 0
      BY EmptySeq
    <3> QED
      BY <3>1
  <2>3. Len(s) \in Nat /\ Len(Tail(s)) = Len(s) - 1
    BY <1>1
  <2>4. Len(Tail(s)) = 0 <=> Len(s) = 1
    BY <2>3
  <2> QED
    BY <2>1, <2>2, <2>4
<1>7. CASE Len(s) = 1
  BY <1>1, <1>4, <1>5, <1>6, <1>7 DEF EndsInFailure
<1>8. CASE Len(s) > 1
  <2>1. Len(s) - 1 \in 1 .. Len(s) - 1 /\ Len(s) - 1 + 1 = Len(s)
    BY <1>1, <1>8
  <2>2. Tail(s)[Len(Tail(s))] = s[Len(s)] /\ s[1] # 0 /\ s[1] = n + 1
    BY <1>1, <1>5, <1>8, <2>1
  <2> QED
    BY <1>1, <1>4, <1>6, <1>8, <2>2 DEF EndsInFailure
<1> QED
  BY <1>1, <1>7, <1>8

\* More is offered, or an error;
LEMMA RestGrows ==
    ASSUME NEW s \in Seq(Nat), NEW k \in Nat, NEW n \in Nat, IsRest(s, "open", k, n)
    PROVE  /\ IsRest(Append(s, k + 1), "open", k + 1, n)
           /\ IsRest(Append(s, TypedFailure), "failed", k, n)
<1>1. ItemsFrom(s, n) /\ ~EndsInFailure(s) /\ k = n + Len(s) /\ Len(s) \in Nat
  BY DEF IsRest
<1>2. /\ k + 1 = n + Len(s) + 1 /\ k + 1 \in Nat /\ k + 1 # TypedFailure
      /\ TypedFailure \in Nat
  BY <1>1 DEF TypedFailure
<1>3. /\ ItemsFrom(Append(s, k + 1), n) /\ ~EndsInFailure(Append(s, k + 1))
      /\ Len(Append(s, k + 1)) = Len(s) + 1
  BY <1>1, <1>2, ItemsGrow, Appended
<1>4. /\ ItemsFrom(Append(s, TypedFailure), n) /\ EndsInFailure(Append(s, TypedFailure))
      /\ Len(Append(s, TypedFailure)) = Len(s) + 1
  BY <1>1, <1>2, ItemsGrow, Appended
<1> QED
  BY <1>1, <1>3, <1>4 DEF IsRest

\* an item is taken, or the error at the end.
LEMMA RestTaken ==
    ASSUME NEW s \in Seq(Nat), NEW st, NEW k \in Nat, NEW n \in Nat, IsRest(s, st, k, n), s # <<>>
    PROVE  /\ Head(s) # TypedFailure =>
                  Head(s) = n + 1 /\ n <= k /\ IsRest(Tail(s), st, k, n + 1)
           /\ Head(s) = TypedFailure => n = k
<1>1. /\ Len(Tail(s)) = Len(s) - 1 /\ Len(s) \in Nat \ {0} /\ Head(s) = s[1]
  BY Tailed
<1>2. /\ ItemsFrom(Tail(s), n + 1)
      /\ Head(s) # TypedFailure =>
             Head(s) = n + 1 /\ (EndsInFailure(Tail(s)) <=> EndsInFailure(s))
      /\ Head(s) = TypedFailure => Len(s) = 1 /\ EndsInFailure(s)
  BY ItemsShrink DEF IsRest
<1>3. /\ EndsInFailure(s) => st # "open" /\ k + 1 = n + Len(s)
      /\ ~EndsInFailure(s) => k = n + Len(s)
  BY DEF IsRest
<1>4. ASSUME Head(s) # TypedFailure
      PROVE  n <= k /\ IsRest(Tail(s), st, k, n + 1)
  <2>1. EndsInFailure(s) => Len(s) # 1
    BY <1>1, <1>4 DEF EndsInFailure
  <2> QED
    BY <1>1, <1>2, <1>3, <1>4, <2>1 DEF IsRest
<1> QED
  BY <1>1, <1>2, <1>3, <1>4

\* The types of a step that does not read.
LEMMA TypedFacts ==
    ASSUME TypedInv
    PROVE  /\ source \in Seq(Nat) /\ typed \in Seq(Nat) /\ typed_read \in Seq(Nat)
           /\ offered \in Nat /\ holds \in Nat /\ TypedPut \in Nat
           /\ Len(typed_read) \in Nat /\ Len(typed) \in Nat
           /\ TypedPut = Len(typed_read) + Len(typed)
BY DEF TypedInv, TypedTypes, TypedPut

\* The producer adds an item, an error or the end.
LEMMA OfferKeeps == ASSUME TypedInv, Offer \/ OfferError \/ CloseSource PROVE TypedInv'
<1>1. /\ typed' = typed /\ typed_read' = typed_read /\ typed_end' = typed_end /\ end' = end
      /\ task' = task /\ holds' = holds
  BY DEF Offer, OfferError, CloseSource
<1> DEFINE r == Len(typed_read)
           p == TypedPut
<1>2. /\ source \in Seq(Nat) /\ typed \in Seq(Nat) /\ offered \in Nat /\ holds \in Nat
      /\ r \in Nat /\ p \in Nat /\ p + 1 \in Nat
  BY TypedFacts
<1>3. r' = r /\ p' = p
  BY <1>1 DEF TypedPut
<1>4. /\ source' \in Seq(Nat) /\ source_state' \in {"open", "failed", "closed"}
      /\ offered' \in Nat /\ offered <= offered' /\ (task = "stopped" => offered' = offered)
  <2>1. CASE Offer
    BY <1>2, <2>1, Appended DEF Offer, TypedInv, TypedTypes
  <2>2. CASE OfferError
    BY <1>2, <2>2, Appended DEF OfferError, TypedFailure
  <2>3. CASE CloseSource
    BY <1>2, <2>3 DEF CloseSource
  <2> QED
    BY <2>1, <2>2, <2>3
<1>5. ASSUME NEW n \in Nat, IsRest(source, source_state, offered, n)
      PROVE  IsRest(source', source_state', offered', n)
  <2>1. CASE Offer
    BY <1>2, <1>5, <2>1, RestGrows DEF Offer
  <2>2. CASE OfferError
    BY <1>2, <1>5, <2>2, RestGrows DEF OfferError
  <2>3. CASE CloseSource
    BY <1>2, <1>5, <2>3 DEF CloseSource, IsRest
  <2> QED
    BY <2>1, <2>2, <2>3
<1>6. TypedTypes'
  BY <1>1, <1>4 DEF TypedInv, TypedTypes
<1> HIDE DEF r, p
<1>7. ASSUME TypedWay(r, p) PROVE TypedWay(r, p)'
  <2>1. /\ IsRest(source, source_state, offered, p) => IsRest(source', source_state', offered', p)
        /\ IsRest(source, source_state, offered, p + 1)
               => IsRest(source', source_state', offered', p + 1)
    BY <1>2, <1>5
  <2>2. /\ p <= offered => p <= offered'
        /\ p <= offered + 1 => p <= offered' + 1
    <3>1. \A n, k, m \in Nat : k <= m => (n <= k => n <= m) /\ (n <= k + 1 => n <= m + 1)
      OBVIOUS
    <3> QED
      BY <1>2, <1>4, <3>1
  <2> QED
    BY <1>1, <1>3, <1>4, <1>7, <2>1, <2>2 DEF TypedWay
<1> QED
  BY <1>1, <1>2, <1>3, <1>4, <1>6, <1>7 DEF TypedInv, TypedFlow, r, p

\* The task takes what is next.
LEMMA TakeKeeps == ASSUME TypedInv, TakeItem \/ TakeError \/ Stop PROVE TypedInv'
<1>1. /\ typed' = typed /\ typed_read' = typed_read /\ typed_end' = typed_end /\ end' = end
      /\ source_state' = source_state /\ offered' = offered /\ task = "reads"
  BY DEF TakeItem, TakeError, Stop
<1> DEFINE r == Len(typed_read)
           p == TypedPut
<1>2. /\ source \in Seq(Nat) /\ typed \in Seq(Nat) /\ offered \in Nat /\ holds \in Nat
      /\ r \in Nat /\ p \in Nat /\ p + 1 \in Nat
  BY TypedFacts
<1>3. r' = r /\ p' = p
  BY <1>1 DEF TypedPut
<1>4. /\ source' \in Seq(Nat) /\ task' \in {"reads", "holds", "stopped"} /\ holds' \in Nat
  <2>1. CASE TakeItem
    BY <1>2, <2>1, Tailed DEF TakeItem, TypedFailure
  <2>2. CASE TakeError
    BY <1>2, <2>2, Tailed DEF TakeError, TypedFailure
  <2>3. CASE Stop
    BY <1>2, <2>3 DEF Stop
  <2> QED
    BY <2>1, <2>2, <2>3
<1>5. TypedTypes'
  BY <1>1, <1>4 DEF TypedInv, TypedTypes
<1> HIDE DEF r, p
<1>6. ASSUME TypedWay(r, p) PROVE TypedWay(r, p)'
  <2>1. IsRest(source, source_state, offered, p) /\ ItemsFrom(typed, r) /\ ~EndsInFailure(typed)
    BY <1>1, <1>6 DEF TypedWay
  <2>2. CASE TakeItem
    <3>1. Head(source) = p + 1 /\ p <= offered /\ IsRest(Tail(source), source_state, offered, p + 1)
      BY <1>2, <2>1, <2>2, RestTaken DEF TakeItem
    <3>2. /\ task' = "holds" /\ holds' \in {Head(source), TypedFailure} /\ source' = Tail(source)
      BY <2>2 DEF TakeItem
    <3> QED
      BY <1>1, <1>3, <2>1, <3>1, <3>2 DEF TypedWay
  <2>3. CASE TakeError
    <3>1. p = offered /\ p <= offered
      <4>1. source # <<>> /\ Head(source) = TypedFailure
        BY <2>3 DEF TakeError
      <4>2. p = offered
        BY <1>2, <2>1, <4>1, RestTaken
      <4> QED
        BY <1>2, <4>2
    <3>2. /\ task' \in {"holds", "stopped"} /\ holds' = TypedFailure
      BY <2>3 DEF TakeError
    <3> QED
      BY <1>1, <1>3, <2>1, <3>1, <3>2 DEF TypedWay
  <2>4. CASE Stop
    <3>1. p = offered /\ p <= offered /\ task' = "stopped"
      BY <1>2, <2>1, <2>4 DEF Stop, IsRest, EndsInFailure
    <3> QED
      BY <1>1, <1>3, <2>1, <3>1 DEF TypedWay
  <2> QED
    BY <2>2, <2>3, <2>4
<1> QED
  BY <1>1, <1>3, <1>5, <1>6 DEF TypedInv, TypedFlow, r, p

\* It forwards the item that it holds.
LEMMA SendKeepsTyped == ASSUME TypedInv, SendHeld PROVE TypedInv'
<1>1. /\ typed_read' = typed_read /\ typed_end' = typed_end /\ end' = end /\ holds' = holds
      /\ source' = source /\ source_state' = source_state /\ offered' = offered /\ task = "holds"
  BY DEF SendHeld
<1> DEFINE r == Len(typed_read)
           p == TypedPut
<1>2. /\ source \in Seq(Nat) /\ typed \in Seq(Nat) /\ offered \in Nat /\ holds \in Nat
      /\ r \in Nat /\ p \in Nat /\ p + 1 \in Nat /\ p = r + Len(typed) /\ Len(typed) \in Nat
  BY TypedFacts
<1>3. CASE typed_end = "dropped"
  BY <1>1, <1>3 DEF SendHeld, TypedInv, TypedTypes, TypedFlow
<1>4. CASE typed_end # "dropped"
  <2>1. /\ typed' = Append(typed, holds)
        /\ task' = IF holds = TypedFailure THEN "stopped" ELSE "reads"
    BY <1>4 DEF SendHeld
  <2>2. typed' \in Seq(Nat) /\ Len(typed') = Len(typed) + 1
    BY <1>2, <2>1, Appended
  <2>3. r' = r /\ p' = p + 1
    BY <1>1, <1>2, <2>2 DEF TypedPut
  <2>4. TypedTypes'
    BY <1>1, <2>1, <2>2 DEF TypedInv, TypedTypes
  <2> HIDE DEF r, p
  <2>5. ASSUME TypedWay(r, p) PROVE TypedWay(r, p)'
    <3>1. /\ ItemsFrom(typed, r) /\ ~EndsInFailure(typed) /\ p <= offered
          /\ holds # TypedFailure => holds = p + 1 /\ IsRest(source, source_state, offered, p + 1)
      BY <1>1, <2>5 DEF TypedWay
    <3>2. holds = TypedFailure \/ holds = r + Len(typed) + 1
      BY <1>2, <3>1
    <3>3. ItemsFrom(typed', r) /\ (EndsInFailure(typed') <=> holds = TypedFailure)
      BY <1>2, <2>1, <3>1, <3>2, ItemsGrow
    <3>4. CASE holds = TypedFailure
      BY <1>1, <1>2, <2>1, <2>3, <3>1, <3>3, <3>4 DEF TypedWay
    <3>5. CASE holds # TypedFailure
      <4>1. p + 1 <= offered
        BY <1>2, <3>1, <3>5 DEF IsRest, EndsInFailure
      <4> QED
        BY <1>1, <1>2, <2>1, <2>3, <3>1, <3>3, <3>5, <4>1 DEF TypedWay
    <3> QED
      BY <3>4, <3>5
  <2> QED
    BY <1>1, <2>1, <2>4, <2>5 DEF TypedInv, TypedFlow, r, p
<1> QED
  BY <1>3, <1>4

\* The reader reads, or stops reading.
LEMMA ReadKeeps == ASSUME TypedInv, NextItem \/ NextEnd \/ DropTyped PROVE TypedInv'
<1>1. /\ end' = end /\ holds' = holds /\ task' = task
      /\ source' = source /\ source_state' = source_state /\ offered' = offered
      /\ typed_end = "no"
  BY DEF NextItem, NextEnd, DropTyped
<1> DEFINE r == Len(typed_read)
           p == TypedPut
<1>2. /\ source \in Seq(Nat) /\ typed \in Seq(Nat) /\ offered \in Nat /\ holds \in Nat
      /\ r \in Nat /\ p \in Nat /\ p + 1 \in Nat /\ p = r + Len(typed) /\ Len(typed) \in Nat
      /\ typed_read \in Seq(Nat)
  BY TypedFacts
<1>w. TypedWay(r, p) /\ (\A i \in 1 .. r : typed_read[i] = i) /\ r <= offered
  BY <1>1 DEF TypedInv, TypedFlow
<1>3. CASE NextItem
  <2>1. /\ typed # <<>> /\ typed' = Tail(typed) /\ typed_read' = Append(typed_read, Head(typed))
        /\ Head(typed) # TypedFailure /\ typed_end' = "no"
    BY <1>1, <1>3 DEF NextItem
  <2>2. /\ typed' \in Seq(Nat) /\ Len(typed') = Len(typed) - 1 /\ Len(typed) # 0
        /\ Head(typed) \in Nat /\ Head(typed) = typed[1]
    BY <1>2, <2>1, Tailed
  <2>3. /\ typed_read' \in Seq(Nat) /\ Len(typed_read') = r + 1
        /\ typed_read'[r + 1] = Head(typed)
        /\ \A i \in 1 .. r : typed_read'[i] = typed_read[i]
    BY <1>2, <2>1, <2>2, Appended
  <2>4. /\ ItemsFrom(typed', r + 1) /\ Head(typed) = r + 1
        /\ EndsInFailure(typed') <=> EndsInFailure(typed)
    BY <1>2, <1>w, <2>1, ItemsShrink DEF TypedWay
  <2>5. r' = r + 1 /\ p' = p
    BY <1>2, <2>2, <2>3 DEF TypedPut
  <2>6. TypedTypes'
    BY <1>1, <2>1, <2>2, <2>3 DEF TypedInv, TypedTypes
  <2>7. r + 1 <= offered
    <3>1. EndsInFailure(typed) => Len(typed) # 1
      BY <2>1, <2>2 DEF EndsInFailure
    <3>2. /\ EndsInFailure(typed) => p <= offered + 1
          /\ ~EndsInFailure(typed) => p <= offered
      BY <1>w DEF TypedWay
    <3>3. Len(typed) # 1 \/ ~EndsInFailure(typed)
      BY <3>1
    <3> QED
      BY <1>2, <2>2, <3>2, <3>3 DEF TypedPut
  <2> HIDE DEF r, p
  <2>8. TypedWay(r, p)'
    BY <1>1, <1>2, <1>w, <2>4, <2>5 DEF TypedWay
  <2>9. \A i \in 1 .. r + 1 : typed_read'[i] = i
    <3>1. \A i \in 1 .. r + 1 : i \in 1 .. r \/ i = r + 1
      BY <1>2
    <3> QED
      BY <1>w, <2>3, <2>4, <3>1
  <2> QED
    BY <1>1, <2>1, <2>5, <2>6, <2>7, <2>8, <2>9 DEF TypedInv, TypedFlow, r, p
<1>4. CASE NextEnd
  <2>1. typed' = typed /\ typed_read' = typed_read /\ typed_end' \in {"error", "end"}
    BY <1>4 DEF NextEnd
  <2>2. ASSUME typed_end' = "end" PROVE task = "stopped" /\ r = offered
    <3>1. typed = <<>> /\ task = "stopped"
      BY <1>4, <2>2 DEF NextEnd
    <3>2. p = r
      BY <1>2, <3>1
    <3> QED
      BY <1>w, <3>1, <3>2 DEF TypedWay, EndsInFailure
  <2> QED
    BY <1>1, <1>w, <2>1, <2>2 DEF TypedInv, TypedTypes, TypedFlow
<1>5. CASE DropTyped
  BY <1>1, <1>w, <1>5 DEF DropTyped, TypedInv, TypedTypes, TypedFlow
<1> QED
  BY <1>3, <1>4, <1>5

\* Every step.
LEMMA TypedKeeps == ASSUME TypedInv, [TypedNext]_typed_vars PROVE TypedInv'
<1>1. CASE UNCHANGED typed_vars
  BY <1>1 DEF typed_vars, TypedInv, TypedTypes, TypedFlow, TypedWay, TypedPut
<1> QED
  BY <1>1, OfferKeeps, TakeKeeps, SendKeepsTyped, ReadKeeps DEF TypedNext

\* A step of the composition is one of the typed end, or leaves it alone.
LEMMA TypedSteps ==
    ASSUME [MCNext]_<<vars, stream_vars, alone_vars>>
    PROVE  [TypedNext]_typed_vars
BY DEF MCNext, CallStep, StreamStep, TypedStep, WireStep, alone_vars

\* So it holds throughout.
LEMMA TypedInvariant == MCSpec => []TypedInv
<1>1. MCInit => TypedInv
  BY TypedStarts DEF MCInit
<1>2. TypedInv /\ [MCNext]_<<vars, stream_vars, alone_vars>> => TypedInv'
  BY TypedKeeps, TypedSteps
<1> QED
  BY <1>1, <1>2, PTL DEF MCSpec

\* An end that looks clean is one.
LEMMA TypedEnds == ASSUME TypedInv PROVE TypedEndIsHonest
BY DEF TypedInv, TypedFlow, TypedEndIsHonest

\* A step is one of a pipe.
LEMMA TypedPipe == ASSUME TypedInv, [TypedNext]_typed_vars PROVE [Forwarded!Next]_Forwarded!vars
<1>1. CASE offered' = offered /\ typed_read' = typed_read /\ typed_end' = typed_end
  BY <1>1 DEF Forwarded!vars
<1>2. CASE Offer
  BY <1>2 DEF Offer, Forwarded!Next, Forwarded!Put
<1>3. CASE NextItem
  <2>1. /\ typed \in Seq(Nat) /\ typed # <<>> /\ typed_end = "no" /\ typed_end' = "no"
        /\ typed_read' = Append(typed_read, Head(typed)) /\ Head(typed) # TypedFailure
        /\ offered' = offered /\ typed_read \in Seq(Nat) /\ Len(typed_read) \in Nat
        /\ Head(typed) \in Nat /\ offered \in Nat
    BY <1>3, TypedFacts, Tailed DEF NextItem
  <2>2. ItemsFrom(typed, Len(typed_read))
    BY <2>1 DEF TypedInv, TypedFlow, TypedWay
  <2>3. Head(typed) = Len(typed_read) + 1
    BY <2>1, <2>2, ItemsShrink
  <2>4. Len(typed_read') <= offered /\ Len(typed_read') = Len(typed_read) + 1
    BY <1>3, <2>1, ReadKeeps, Appended DEF TypedInv, TypedFlow
  <2> QED
    BY <2>1, <2>3, <2>4 DEF Forwarded!Next, Forwarded!Get
<1>4. CASE NextEnd \/ DropTyped
  BY <1>4 DEF NextEnd, DropTyped, Forwarded!Next, Forwarded!End
<1> QED
  BY <1>1, <1>2, <1>3, <1>4
     DEF TypedNext, OfferError, CloseSource, TakeItem, TakeError, SendHeld, Stop, typed_vars

\* The typed end of a stream is a pipe.
LEMMA TypedIsPipe == MCSpec => ImplementsTypedPipe
<1>1. MCInit => Forwarded!Init
  BY DEF MCInit, TypedInit, Forwarded!Init
<1>2. TypedInv /\ [MCNext]_<<vars, stream_vars, alone_vars>> => [Forwarded!Next]_Forwarded!vars
  BY TypedPipe, TypedSteps
<1> QED
  BY <1>1, <1>2, TypedInvariant, PTL DEF MCSpec, ImplementsTypedPipe, Forwarded!Spec

-----------------------------------------------------------------------------
(* A stream of frames. *)

\* The frames of a stream.
StreamFrames ==
    [kind : {"Open", "Data", "Close", "Cancel"}, seq : Nat, item : Nat, ok : BOOLEAN]

\* The frames that the handler's task has sent by now, n of them with data.
IsReply(f, md, h, n) ==
    \/ f = Stream!Open
    \/ \E i \in 1 .. n : f = Stream!Data(i)
    \/ f = Stream!Close(n + 1, FALSE) /\ (h = "done" \/ md = "Unknown")
    \/ f = Stream!Close(n + 1, TRUE) /\ h = "done" /\ (md = "Client" => n = 1)

\* The frames that the client has sent by now.
IsAsk(f, n, closed) ==
    \/ f = Stream!Open \/ f = Stream!Cancel
    \/ \E i \in 1 .. n : f = Stream!Data(i)
    \/ f = Stream!Close(n + 1, TRUE) /\ closed

\* A buffer has at most one frame of a number.
IsBuffer(r) == r \subseteq StreamFrames /\ \A f, g \in r : f.seq = g.seq => f = g

ClientStates ==
    [next : Nat, saw_open : BOOLEAN, reorder : SUBSET StreamFrames, payload : Nat]
ServerStates ==
    [next : Nat \ {0}, reorder : SUBSET StreamFrames, payload : Nat, closed : {FALSE}]

StreamTypes ==
    /\ mode \in {"Client", "Server", "Bidi", "Unknown"}
    /\ request \in [sent : Nat, state : {"idle", "open", "closed"}]
    /\ client = Stream!Gone \/ client \in ClientStates
    /\ inbox \in Seq(Nat) /\ inbox_open \in BOOLEAN /\ expiring \in BOOLEAN
    /\ response \in {"none", "error", "ok"} /\ client_cut \in BOOLEAN
    /\ client_end \in {"no", "end", "error", "timeout", "dropped"} /\ got \in Seq(Nat)
    /\ server = Stream!Gone \/ server \in ServerStates
    /\ server_inbox \in Seq(Nat) /\ server_inbox_open \in BOOLEAN /\ server_cut \in BOOLEAN
    /\ handler \in {"none", "running", "responding", "done"} /\ replied \in Nat
    /\ heard \in Seq(Nat) /\ heard_end \in {"no", "end", "dropped"}

\* The frames on their way to the client, and those that wait there.
RepliesKnown ==
    /\ \A f \in s2c : IsReply(f, mode, handler, replied)
    /\ client # Stream!Gone =>
           /\ IsBuffer(client.reorder)
           /\ \A f \in client.reorder : IsReply(f, mode, handler, replied)

\* Those on their way to the server, and there.
AsksKnown ==
    /\ \A f \in c2s : IsAsk(f, request.sent, request.state = "closed")
    /\ server # Stream!Gone =>
           /\ IsBuffer(server.reorder)
           /\ \A f \in server.reorder : /\ IsAsk(f, request.sent, request.state = "closed")
                                        /\ f.kind # "Open"

\* How far the stream has come.
StreamStage ==
    /\ request.state = "idle" =>
           /\ c2s = {} /\ client = Stream!Gone /\ inbox = <<>> /\ got = <<>> /\ response = "none"
           /\ request.sent = 0 /\ server = Stream!Gone /\ handler = "none" /\ ~expiring
    /\ Stream!Open \in c2s => server = Stream!Gone /\ handler = "none"
    /\ handler = "none" =>
           replied = 0 /\ heard = <<>> /\ heard_end = "no" /\ server_inbox = <<>>
    /\ handler = "running" => replied = 0
    /\ mode = "Unknown" => server = Stream!Gone /\ handler = "none"
    /\ server # Stream!Gone /\ mode # "Server" => handler # "none"
    /\ mode = "Client" => handler # "responding" /\ replied <= 1
    /\ expiring => client = Stream!Gone /\ mode # "Client"
    /\ mode # "Client" => response = "none"

\* What the client's application reads: n items were sent and, with done, no more
\* will be; the state of the stream expects the frame next, or is gone.
ClientWay(q, open, ex, gone, next, r, cut, idle, n, done) ==
    /\ ItemsFrom(q, r)
    /\ EndsInFailure(q) => ~open /\ ~ex /\ gone /\ r + Len(q) <= n + 1
    /\ ~EndsInFailure(q) => r + Len(q) <= n
    /\ ~gone => open /\ r + Len(q) = IF next = 0 THEN 0 ELSE next - 1
    /\ ~open /\ ~idle /\ ~cut /\ ~EndsInFailure(q) => r + Len(q) = n /\ done

RepliesFlow ==
    mode # "Client" /\ client_end = "no" =>
        ClientWay(inbox, inbox_open, expiring, client = Stream!Gone, client.next, Len(got),
                  client_cut, request.state = "idle", replied, handler = "done")

\* The answer of a client-streaming call.
AnswerFlow ==
    mode = "Client" =>
        /\ inbox = <<>>
        /\ client_end = "no" => got = <<>>
        /\ response = "ok" => replied = 1 /\ handler = "done"
        /\ client # Stream!Gone => /\ client.next >= 2 => client.payload # 0
                                   /\ client.payload # 0 => replied = 1

\* What the handler reads.
ServerWay(q, open, gone, next, r, cut, n, closed) ==
    /\ ItemsFrom(q, r) /\ ~EndsInFailure(q)
    /\ r + Len(q) <= n
    /\ open /\ ~gone => r + Len(q) = next - 1
    /\ ~open /\ ~cut => r + Len(q) = n /\ closed

RequestsFlow ==
    mode # "Server" /\ handler # "none" /\ heard_end = "no" =>
        ServerWay(server_inbox, server_inbox_open, server = Stream!Gone, server.next, Len(heard),
                  server_cut, request.sent, request.state = "closed")

\* The only request of a server-streaming call.
RequestFlow ==
    mode = "Server" =>
        /\ handler # "none" => heard_end # "no"
        /\ request.state # "idle" => request.sent = 1 /\ request.state = "closed"
        /\ server # Stream!Gone =>
               /\ handler = "none"
               /\ server.payload = IF server.next >= 2 THEN 1 ELSE 0

\* The two parts of EndIsHonest.
ClientHonest == client_end = "end" /\ ~client_cut => Len(got) = replied /\ handler = "done"
HandlerHonest ==
    heard_end = "end" /\ ~server_cut => Len(heard) = request.sent /\ request.state = "closed"

StreamInv ==
    /\ StreamTypes /\ StreamStage /\ RepliesKnown /\ AsksKnown
    /\ RepliesFlow /\ AnswerFlow /\ ClientHonest
    /\ RequestsFlow /\ RequestFlow /\ HandlerHonest

-----------------------------------------------------------------------------
(* Loops over frames. *)

\* A non-empty set of numbers below m has a largest.
LEMMA LargestBelow ==
    ASSUME NEW m \in Nat, NEW S, S # {}, \A x \in S : x \in Nat /\ x < m
    PROVE  \E x \in S : \A y \in S : y <= x
<1> DEFINE N == {m - x : x \in S}
<1>1. N \subseteq Nat /\ N # {}
  OBVIOUS
<1> HIDE DEF N
<1>2. PICK k \in N : \A j \in N : k <= j
  BY <1>1, LeastNatural
<1>3. PICK x \in S : k = m - x
  BY <1>2 DEF N
<1>4. ASSUME NEW y \in S PROVE y <= x
  <2>1. m - y \in N
    BY DEF N
  <2>2. m - x <= m - y
    BY <1>2, <1>3, <2>1
  <2> QED
    BY <1>3, <1>4, <2>2
<1> QED
  BY <1>3, <1>4

\* fr lists the frames of run by number, from n to below m.
Lists(fr, run, n, m) ==
    /\ n \in Nat /\ m \in Nat /\ n <= m
    /\ fr \in [n .. m - 1 -> StreamFrames]
    /\ \A k \in n .. m - 1 : fr[k].seq = k
    /\ run = {fr[k] : k \in n .. m - 1}

\* The last of some of them.
LEMMA LastFacts ==
    ASSUME NEW fr, NEW run, NEW n, NEW m, Lists(fr, run, n, m), NEW s \in SUBSET run, s # {}
    PROVE  Stream!LastOf(s) \in s /\ \A g \in s : g.seq <= Stream!LastOf(s).seq
<1> DEFINE N == {f.seq : f \in s}
<1>1. \A f \in s : f.seq \in Nat /\ f.seq < m
  BY DEF Lists
<1>2. N # {} /\ \A x \in N : x \in Nat /\ x < m
  BY <1>1
<1>3. m \in Nat
  BY DEF Lists
<1> HIDE DEF N
<1>4. PICK x \in N : \A y \in N : y <= x
  BY <1>2, <1>3, LargestBelow
<1>5. PICK f \in s : f.seq = x
  BY <1>4 DEF N
<1>6. \A g \in s : g.seq <= f.seq
  BY <1>4, <1>5 DEF N
<1> QED
  BY <1>5, <1>6 DEF Stream!LastOf

\* The frames before number k.
Before(fr, n, k) == {fr[j] : j \in n .. k - 1}

\* They grow by the frame k, which is their last.
LEMMA BeforeFacts ==
    ASSUME NEW fr, NEW run, NEW n, NEW m, Lists(fr, run, n, m)
    PROVE  /\ Before(fr, n, n) = {} /\ Before(fr, n, m) = run
           /\ \A k \in n .. m : Before(fr, n, k) \in SUBSET run
           /\ \A k \in n .. m - 1 :
                  /\ Before(fr, n, k + 1) # {}
                  /\ Stream!LastOf(Before(fr, n, k + 1)) = fr[k]
                  /\ Before(fr, n, k + 1) \ {fr[k]} = Before(fr, n, k)
<1>1. Before(fr, n, n) = {} /\ Before(fr, n, m) = run
  BY DEF Before, Lists
<1>2. ASSUME NEW k \in n .. m PROVE Before(fr, n, k) \in SUBSET run
  BY DEF Before, Lists
<1>3. ASSUME NEW k \in n .. m - 1
      PROVE  /\ Before(fr, n, k + 1) # {}
             /\ Stream!LastOf(Before(fr, n, k + 1)) = fr[k]
             /\ Before(fr, n, k + 1) \ {fr[k]} = Before(fr, n, k)
  <2> DEFINE b == Before(fr, n, k + 1)
  <2>1. fr[k] \in b /\ fr[k].seq = k /\ k + 1 \in n .. m
    BY DEF Before, Lists
  <2>2. Stream!LastOf(b) \in b /\ \A g \in b : g.seq <= Stream!LastOf(b).seq
    BY <1>2, <2>1, LastFacts
  <2>3. PICK j \in n .. k : Stream!LastOf(b) = fr[j]
    <3>1. n .. k = n .. (k + 1 - 1)
      BY DEF Lists
    <3> QED
      BY <2>2, <3>1 DEF Before
  <2>4. fr[j].seq = j
    BY <2>3 DEF Lists
  <2>5. j = k
    BY <2>1, <2>2, <2>3, <2>4 DEF Lists
  <2>6. b \ {fr[k]} = Before(fr, n, k)
    <3>1. \A i \in n .. k : i \in n .. k - 1 \/ i = k
      BY DEF Lists
    <3>2. \A i \in n .. k - 1 : i \in n .. k /\ fr[i] # fr[k]
      BY <2>1 DEF Lists
    <3>3. k + 1 - 1 = k
      BY DEF Lists
    <3> QED
      BY <3>1, <3>2, <3>3 DEF Before
  <2> QED
    BY <2>1, <2>3, <2>5, <2>6
<1> QED
  BY <1>1, <1>2, <1>3

\* g is a function that a loop with the steps T defines on the subsets of a set.
Loops(T, b, S, g) ==
    \A s \in SUBSET S :
        g[s] = IF s = {} THEN b ELSE T[<<g[s \ {Stream!LastOf(s)}], Stream!LastOf(s)>>]

\* There is one: what is known before a frame says how it goes on with that frame.
LEMMA LoopExists ==
    ASSUME NEW fr, NEW run, NEW n, NEW m, Lists(fr, run, n, m),
           NEW A, NEW T \in [A \X StreamFrames -> A], NEW b \in A
    PROVE  \E g \in [SUBSET run -> A] : Loops(T, b, run, g)
<1> DEFINE B == {k \in n .. m : \E g \in [SUBSET Before(fr, n, k) -> A] :
                                    Loops(T, b, Before(fr, n, k), g)}
<1>0. n \in Nat /\ m \in Nat /\ n <= m
  BY DEF Lists
<1>1. n \in B
  <2> DEFINE g == [s \in SUBSET {} |-> b]
  <2>1. g \in [SUBSET {} -> A] /\ Loops(T, b, {}, g)
    BY DEF Loops
  <2>2. Before(fr, n, n) = {} /\ n \in n .. m
    BY <1>0, BeforeFacts
  <2> HIDE DEF g
  <2> QED
    BY <2>1, <2>2
<1>2. ASSUME NEW k \in n .. m - 1, k \in B
      PROVE  k + 1 \in B
  <2> DEFINE lo == Before(fr, n, k)
             hi == Before(fr, n, k + 1)
             f == fr[k]
  <2>1. PICK g \in [SUBSET lo -> A] : Loops(T, b, lo, g)
    BY <1>2
  <2>2. hi \ {f} = lo /\ f \in hi /\ f \in StreamFrames /\ f.seq = k
    <3>1. hi # {} /\ Stream!LastOf(hi) = f /\ hi \ {f} = lo /\ k + 1 \in n .. m
      BY <1>0, BeforeFacts
    <3>2. hi \in SUBSET run
      BY <3>1, BeforeFacts
    <3>3. f \in hi
      BY <3>1, <3>2, LastFacts
    <3> QED
      BY <3>1, <3>3 DEF Lists
  <2>3. hi \in SUBSET run /\ \A h \in lo : h.seq < k
    <3>1. k + 1 \in n .. m
      BY <1>0
    <3>2. \A j \in n .. k - 1 : fr[j].seq < k
      BY <1>0 DEF Lists
    <3> QED
      BY <3>1, <3>2, BeforeFacts DEF Before
  <2> DEFINE h == [s \in SUBSET hi |-> IF f \in s THEN T[<<g[s \ {f}], f>>] ELSE g[s]]
  <2> HIDE DEF lo, hi, f
  <2>4. ASSUME NEW s \in SUBSET hi, f \notin s PROVE s \in SUBSET lo /\ h[s] = g[s]
    BY <2>2, <2>4
  <2>5. ASSUME NEW s \in SUBSET hi, f \in s
        PROVE  s \ {f} \in SUBSET lo /\ h[s] = T[<<g[s \ {f}], f>>] /\ h[s \ {f}] = g[s \ {f}]
    BY <2>2, <2>5
  <2>6. h \in [SUBSET hi -> A]
    BY <2>1, <2>2, <2>4, <2>5
  <2>7. ASSUME NEW s \in SUBSET hi
        PROVE  h[s] = IF s = {} THEN b ELSE T[<<h[s \ {Stream!LastOf(s)}], Stream!LastOf(s)>>]
    <3>1. CASE f \in s
      <4>1. Stream!LastOf(s) \in s /\ \A x \in s : x.seq <= Stream!LastOf(s).seq
        BY <2>3, <3>1, LastFacts
      <4>2. Stream!LastOf(s) = f
        <5>1. ASSUME Stream!LastOf(s) # f PROVE FALSE
          <6>1. Stream!LastOf(s) \in lo
            BY <2>2, <4>1, <5>1
          <6>2. Stream!LastOf(s).seq < k /\ f.seq <= Stream!LastOf(s).seq
            BY <2>3, <3>1, <4>1, <6>1
          <6>3. Stream!LastOf(s) \in StreamFrames
            BY <2>3, <4>1 DEF Lists
          <6>4. Stream!LastOf(s).seq \in Nat /\ k \in Nat
            BY <1>0, <6>3 DEF StreamFrames
          <6> QED
            BY <2>2, <6>2, <6>4
        <5> QED
          BY <5>1
      <4> QED
        BY <2>5, <3>1, <4>2
    <3>2. CASE f \notin s /\ s = {}
      BY <2>1, <2>4, <3>2 DEF Loops
    <3>3. CASE f \notin s /\ s # {}
      <4>1. Stream!LastOf(s) \in s
        BY <2>3, <3>3, LastFacts
      <4>2. h[s] = g[s] /\ h[s \ {Stream!LastOf(s)}] = g[s \ {Stream!LastOf(s)}]
        BY <2>4, <3>3
      <4>3. g[s] = T[<<g[s \ {Stream!LastOf(s)}], Stream!LastOf(s)>>]
        BY <2>1, <2>4, <3>3 DEF Loops
      <4> QED
        BY <3>3, <4>2, <4>3
    <3> QED
      BY <3>1, <3>2, <3>3
  <2>8. Loops(T, b, hi, h)
    <3> HIDE DEF h
    <3> QED
      BY <2>7 DEF Loops
  <2>9. k + 1 \in n .. m
    BY <1>0
  <2> HIDE DEF h
  <2> QED
    BY <2>6, <2>8, <2>9 DEF hi
<1> HIDE DEF B
<1>3. m \in B
  BY <1>0, <1>1, <1>2, UpTo
<1>4. Before(fr, n, m) = run
  BY BeforeFacts
<1> QED
  BY <1>3, <1>4 DEF B

\* Its values along the frames, in order.
Walk(T, b, fr, n, m, A, h) ==
    /\ h \in [n .. m -> A]
    /\ h[n] = b
    /\ \A k \in n .. m - 1 : h[k + 1] = T[<<h[k], fr[k]>>]

WalksTo(T, b, fr, n, m, A, x) == \E h : Walk(T, b, fr, n, m, A, h) /\ h[m] = x

\* The same of a function that is only known to go on as the loop does within A.
LoopsWithin(T, b, S, A, g) ==
    /\ g[{}] = b
    /\ \A s \in SUBSET S : s # {} /\ g[s \ {Stream!LastOf(s)}] \in A =>
           g[s] = T[<<g[s \ {Stream!LastOf(s)}], Stream!LastOf(s)>>]

\* Such a function walks along the frames.
LEMMA LoopWalk ==
    ASSUME NEW fr, NEW run, NEW n, NEW m, Lists(fr, run, n, m),
           NEW A, NEW T \in [A \X StreamFrames -> A], NEW b \in A, NEW g,
           LoopsWithin(T, b, run, A, g)
    PROVE  WalksTo(T, b, fr, n, m, A, g[run])
<1>a. /\ g[{}] = b
      /\ \A s \in SUBSET run : s # {} /\ g[s \ {Stream!LastOf(s)}] \in A =>
             g[s] = T[<<g[s \ {Stream!LastOf(s)}], Stream!LastOf(s)>>]
  BY DEF LoopsWithin
<1> DEFINE h == [k \in n .. m |-> g[Before(fr, n, k)]]
           B == {k \in n .. m : h[k] \in A}
<1>0. n \in Nat /\ m \in Nat /\ n <= m /\ \A k \in n .. m - 1 : fr[k] \in StreamFrames
  BY DEF Lists
<1>1. h[n] = b /\ h[m] = g[run]
  <2>1. Before(fr, n, n) = {} /\ Before(fr, n, m) = run /\ n \in n .. m /\ m \in n .. m
    BY <1>0, BeforeFacts
  <2> QED
    BY <1>a, <2>1
<1>2. ASSUME NEW k \in n .. m - 1, h[k] \in A
      PROVE  h[k + 1] = T[<<h[k], fr[k]>>]
  <2>1. k \in n .. m /\ k + 1 \in n .. m
    BY <1>0
  <2>2. /\ Before(fr, n, k + 1) # {} /\ Before(fr, n, k + 1) \in SUBSET run
        /\ Stream!LastOf(Before(fr, n, k + 1)) = fr[k]
        /\ Before(fr, n, k + 1) \ {fr[k]} = Before(fr, n, k)
    BY <2>1, BeforeFacts
  <2> QED
    BY <1>a, <1>2, <2>1, <2>2
<1>3. n \in B
  BY <1>0, <1>1
<1>4. ASSUME NEW k \in n .. m - 1, k \in B PROVE k + 1 \in B
  <2>1. k + 1 \in n .. m
    BY <1>0
  <2> QED
    BY <1>0, <1>2, <1>4, <2>1
<1>5. \A k \in n .. m : h[k] \in A
  <2> HIDE DEF B
  <2>1. \A k \in n .. m : k \in B
    BY <1>0, <1>3, <1>4, UpTo
  <2> QED
    BY <2>1 DEF B
<1>6. \A k \in n .. m - 1 : k \in n .. m
  BY <1>0
<1>7. h \in [n .. m -> A]
  BY <1>5
<1> HIDE DEF h
<1> QED
  BY <1>1, <1>2, <1>5, <1>6, <1>7 DEF Walk, WalksTo

\* The last frame is one of them.
LEMMA LastIn ==
    ASSUME NEW fr, NEW run, NEW n, NEW m, Lists(fr, run, n, m), NEW s \in SUBSET run, s # {}
    PROVE  Stream!LastOf(s) \in s /\ Stream!LastOf(s) \in StreamFrames
<1>1. run \subseteq StreamFrames
  BY DEF Lists
<1> QED
  BY <1>1, LastFacts

\* What the loops work on.
ServerAcc == [q : Seq(Nat), tx : BOOLEAN, removed : BOOLEAN, cut : BOOLEAN]
RequestAcc == [payload : Nat, closed : BOOLEAN, removed : BOOLEAN, error : BOOLEAN]
ClientAcc ==
    [q : Seq(Nat), tx : BOOLEAN, payload : Nat, answer : {"none", "error", "ok", "empty"},
     saw : BOOLEAN, removed : BOOLEAN, cut : BOOLEAN]

\* A turn of a loop stays with it.
LEMMA ServerTurnFacts ==
    ASSUME NEW a \in ServerAcc, NEW f \in StreamFrames
    PROVE  Stream!ServerTurn(a, f) \in ServerAcc
<1>1. Append(a.q, f.item) \in Seq(Nat)
  BY DEF ServerAcc, StreamFrames
<1> DEFINE q == Append(a.q, f.item)
<1> HIDE DEF q
<1> QED
  BY <1>1 DEF Stream!ServerTurn, ServerAcc, q

\* The same in server mode,
LEMMA RequestTurnFacts ==
    ASSUME NEW a \in RequestAcc, NEW f \in StreamFrames
    PROVE  Stream!RequestTurn(a, f) \in RequestAcc
BY DEF Stream!RequestTurn, RequestAcc, StreamFrames

\* of a client-streaming call,
LEMMA AnswerTurnFacts ==
    ASSUME NEW a \in ClientAcc, NEW f \in StreamFrames
    PROVE  Stream!AnswerTurn(a, f) \in ClientAcc
BY DEF Stream!AnswerTurn, ClientAcc, StreamFrames

\* and of the client's loop.
LEMMA ClientTurnFacts ==
    ASSUME NEW a \in ClientAcc, NEW f \in StreamFrames
    PROVE  Stream!ClientTurn(a, f) \in ClientAcc
<1>1. Append(a.q, f.item) \in Seq(Nat) /\ Append(a.q, Stream!Failure) \in Seq(Nat)
  BY DEF ClientAcc, StreamFrames, Stream!Failure
<1> DEFINE q == Append(a.q, f.item)
           r == Append(a.q, Stream!Failure)
<1> HIDE DEF q, r
<1> QED
  BY <1>1 DEF Stream!ClientTurn, ClientAcc, q, r

\* The loop of the server, as a walk along the frames.
ServerWalk(h, b, fr, n, m, out) ==
    /\ h \in [n .. m -> ServerAcc] /\ h[n] = b /\ h[m] = out
    /\ \A k \in n .. m - 1 : h[k + 1] = Stream!ServerTurn(h[k], fr[k])

\* There is such a walk.
LEMMA ServerLoop ==
    ASSUME NEW fr, NEW run, NEW n, NEW m, Lists(fr, run, n, m), NEW b \in ServerAcc
    PROVE  \E h : ServerWalk(h, b, fr, n, m, Stream!Loop(Stream!ServerTurn, b, run))
<1> DEFINE T == [x \in ServerAcc \X StreamFrames |-> Stream!ServerTurn(x[1], x[2])]
           E(g) == g = [s \in SUBSET run |->
                           IF s = {} THEN b
                           ELSE Stream!ServerTurn(g[s \ {Stream!LastOf(s)}], Stream!LastOf(s))]
           G == CHOOSE g : E(g)
<1>1. Stream!Loop(Stream!ServerTurn, b, run) = G[run]
  BY DEF Stream!Loop, Stream!MapThenFoldSet
<1>2. T \in [ServerAcc \X StreamFrames -> ServerAcc]
  BY ServerTurnFacts
<1>3. \A a \in ServerAcc, f \in StreamFrames : T[<<a, f>>] = Stream!ServerTurn(a, f)
  OBVIOUS
<1>4. \A s \in SUBSET run : s # {} => Stream!LastOf(s) \in s /\ Stream!LastOf(s) \in StreamFrames
  BY LastIn
<1> HIDE DEF T
<1>5. PICK g \in [SUBSET run -> ServerAcc] : Loops(T, b, run, g)
  BY <1>2, LoopExists
<1>6. E(g)
  BY <1>3, <1>4, <1>5 DEF Loops
<1>7. E(G)
  BY <1>6
<1>8. LoopsWithin(T, b, run, ServerAcc, G)
  BY <1>3, <1>4, <1>7 DEF LoopsWithin
<1> HIDE DEF G
<1>9. WalksTo(T, b, fr, n, m, ServerAcc, G[run])
  BY <1>2, <1>8, LoopWalk
<1>10. PICK h : Walk(T, b, fr, n, m, ServerAcc, h) /\ h[m] = G[run]
  BY <1>9 DEF WalksTo
<1>11. ASSUME NEW k \in n .. m - 1 PROVE h[k] \in ServerAcc /\ fr[k] \in StreamFrames
  <2>1. k \in n .. m
    BY DEF Lists
  <2> QED
    BY <1>10, <2>1 DEF Walk, Lists
<1>12. ServerWalk(h, b, fr, n, m, G[run])
  BY <1>3, <1>10, <1>11 DEF Walk, ServerWalk
<1> QED
  BY <1>1, <1>12

\* The loop of the server, in server mode, as a walk along the frames.
RequestWalk(h, b, fr, n, m, out) ==
    /\ h \in [n .. m -> RequestAcc] /\ h[n] = b /\ h[m] = out
    /\ \A k \in n .. m - 1 : h[k + 1] = Stream!RequestTurn(h[k], fr[k])

\* There is one here too,
LEMMA RequestLoop ==
    ASSUME NEW fr, NEW run, NEW n, NEW m, Lists(fr, run, n, m), NEW b \in RequestAcc
    PROVE  \E h : RequestWalk(h, b, fr, n, m, Stream!Loop(Stream!RequestTurn, b, run))
<1> DEFINE T == [x \in RequestAcc \X StreamFrames |-> Stream!RequestTurn(x[1], x[2])]
           E(g) == g = [s \in SUBSET run |->
                           IF s = {} THEN b
                           ELSE Stream!RequestTurn(g[s \ {Stream!LastOf(s)}], Stream!LastOf(s))]
           G == CHOOSE g : E(g)
<1>1. Stream!Loop(Stream!RequestTurn, b, run) = G[run]
  BY DEF Stream!Loop, Stream!MapThenFoldSet
<1>2. T \in [RequestAcc \X StreamFrames -> RequestAcc]
  BY RequestTurnFacts
<1>3. \A a \in RequestAcc, f \in StreamFrames : T[<<a, f>>] = Stream!RequestTurn(a, f)
  OBVIOUS
<1>4. \A s \in SUBSET run : s # {} => Stream!LastOf(s) \in s /\ Stream!LastOf(s) \in StreamFrames
  BY LastIn
<1> HIDE DEF T
<1>5. PICK g \in [SUBSET run -> RequestAcc] : Loops(T, b, run, g)
  BY <1>2, LoopExists
<1>6. E(g)
  BY <1>3, <1>4, <1>5 DEF Loops
<1>7. E(G)
  BY <1>6
<1>8. LoopsWithin(T, b, run, RequestAcc, G)
  BY <1>3, <1>4, <1>7 DEF LoopsWithin
<1> HIDE DEF G
<1>9. WalksTo(T, b, fr, n, m, RequestAcc, G[run])
  BY <1>2, <1>8, LoopWalk
<1>10. PICK h : Walk(T, b, fr, n, m, RequestAcc, h) /\ h[m] = G[run]
  BY <1>9 DEF WalksTo
<1>11. ASSUME NEW k \in n .. m - 1 PROVE h[k] \in RequestAcc /\ fr[k] \in StreamFrames
  <2>1. k \in n .. m
    BY DEF Lists
  <2> QED
    BY <1>10, <2>1 DEF Walk, Lists
<1>12. RequestWalk(h, b, fr, n, m, G[run])
  BY <1>3, <1>10, <1>11 DEF Walk, RequestWalk
<1> QED
  BY <1>1, <1>12

\* The loop of the client, as a walk along the frames.
ClientWalk(h, b, fr, n, m, out) ==
    /\ h \in [n .. m -> ClientAcc] /\ h[n] = b /\ h[m] = out
    /\ \A k \in n .. m - 1 : h[k + 1] = Stream!ClientTurn(h[k], fr[k])

\* and here,
LEMMA StreamLoop ==
    ASSUME NEW fr, NEW run, NEW n, NEW m, Lists(fr, run, n, m), NEW b \in ClientAcc
    PROVE  \E h : ClientWalk(h, b, fr, n, m, Stream!Loop(Stream!ClientTurn, b, run))
<1> DEFINE T == [x \in ClientAcc \X StreamFrames |-> Stream!ClientTurn(x[1], x[2])]
           E(g) == g = [s \in SUBSET run |->
                           IF s = {} THEN b
                           ELSE Stream!ClientTurn(g[s \ {Stream!LastOf(s)}], Stream!LastOf(s))]
           G == CHOOSE g : E(g)
<1>1. Stream!Loop(Stream!ClientTurn, b, run) = G[run]
  BY DEF Stream!Loop, Stream!MapThenFoldSet
<1>2. T \in [ClientAcc \X StreamFrames -> ClientAcc]
  BY ClientTurnFacts
<1>3. \A a \in ClientAcc, f \in StreamFrames : T[<<a, f>>] = Stream!ClientTurn(a, f)
  OBVIOUS
<1>4. \A s \in SUBSET run : s # {} => Stream!LastOf(s) \in s /\ Stream!LastOf(s) \in StreamFrames
  BY LastIn
<1> HIDE DEF T
<1>5. PICK g \in [SUBSET run -> ClientAcc] : Loops(T, b, run, g)
  BY <1>2, LoopExists
<1>6. E(g)
  BY <1>3, <1>4, <1>5 DEF Loops
<1>7. E(G)
  BY <1>6
<1>8. LoopsWithin(T, b, run, ClientAcc, G)
  BY <1>3, <1>4, <1>7 DEF LoopsWithin
<1> HIDE DEF G
<1>9. WalksTo(T, b, fr, n, m, ClientAcc, G[run])
  BY <1>2, <1>8, LoopWalk
<1>10. PICK h : Walk(T, b, fr, n, m, ClientAcc, h) /\ h[m] = G[run]
  BY <1>9 DEF WalksTo
<1>11. ASSUME NEW k \in n .. m - 1 PROVE h[k] \in ClientAcc /\ fr[k] \in StreamFrames
  <2>1. k \in n .. m
    BY DEF Lists
  <2> QED
    BY <1>10, <2>1 DEF Walk, Lists
<1>12. ClientWalk(h, b, fr, n, m, G[run])
  BY <1>3, <1>10, <1>11 DEF Walk, ClientWalk
<1> QED
  BY <1>1, <1>12

\* The loop of the client, in client mode, as a walk along the frames.
AnswerWalk(h, b, fr, n, m, out) ==
    /\ h \in [n .. m -> ClientAcc] /\ h[n] = b /\ h[m] = out
    /\ \A k \in n .. m - 1 : h[k + 1] = Stream!AnswerTurn(h[k], fr[k])

\* and here.
LEMMA AnswerLoop ==
    ASSUME NEW fr, NEW run, NEW n, NEW m, Lists(fr, run, n, m), NEW b \in ClientAcc
    PROVE  \E h : AnswerWalk(h, b, fr, n, m, Stream!Loop(Stream!AnswerTurn, b, run))
<1> DEFINE T == [x \in ClientAcc \X StreamFrames |-> Stream!AnswerTurn(x[1], x[2])]
           E(g) == g = [s \in SUBSET run |->
                           IF s = {} THEN b
                           ELSE Stream!AnswerTurn(g[s \ {Stream!LastOf(s)}], Stream!LastOf(s))]
           G == CHOOSE g : E(g)
<1>1. Stream!Loop(Stream!AnswerTurn, b, run) = G[run]
  BY DEF Stream!Loop, Stream!MapThenFoldSet
<1>2. T \in [ClientAcc \X StreamFrames -> ClientAcc]
  BY AnswerTurnFacts
<1>3. \A a \in ClientAcc, f \in StreamFrames : T[<<a, f>>] = Stream!AnswerTurn(a, f)
  OBVIOUS
<1>4. \A s \in SUBSET run : s # {} => Stream!LastOf(s) \in s /\ Stream!LastOf(s) \in StreamFrames
  BY LastIn
<1> HIDE DEF T
<1>5. PICK g \in [SUBSET run -> ClientAcc] : Loops(T, b, run, g)
  BY <1>2, LoopExists
<1>6. E(g)
  BY <1>3, <1>4, <1>5 DEF Loops
<1>7. E(G)
  BY <1>6
<1>8. LoopsWithin(T, b, run, ClientAcc, G)
  BY <1>3, <1>4, <1>7 DEF LoopsWithin
<1> HIDE DEF G
<1>9. WalksTo(T, b, fr, n, m, ClientAcc, G[run])
  BY <1>2, <1>8, LoopWalk
<1>10. PICK h : Walk(T, b, fr, n, m, ClientAcc, h) /\ h[m] = G[run]
  BY <1>9 DEF WalksTo
<1>11. ASSUME NEW k \in n .. m - 1 PROVE h[k] \in ClientAcc /\ fr[k] \in StreamFrames
  <2>1. k \in n .. m
    BY DEF Lists
  <2> QED
    BY <1>10, <2>1 DEF Walk, Lists
<1>12. AnswerWalk(h, b, fr, n, m, G[run])
  BY <1>3, <1>10, <1>11 DEF Walk, AnswerWalk
<1> QED
  BY <1>1, <1>12

\* The frames of r that are in order from n on go up to below m.
IsRun(r, n, m, fr) ==
    /\ Lists(fr, Stream!Run(r, n), n, m) /\ \A k \in n .. m - 1 : fr[k] \in r
    /\ Cardinality(Stream!Run(r, n)) = m - n

\* m is the first number that is missing.
LEMMA RunFacts ==
    ASSUME NEW r, IsBuffer(r), NEW n \in Nat, NEW top \in Nat, \A f \in r : f.seq <= top
    PROVE  \E m, fr : IsRun(r, n, m, fr)
<1> DEFINE Free == {k \in Nat : k >= n /\ \A f \in r : f.seq # k}
<1>1. n + top + 1 \in Free
  <2>1. \A f \in r : f.seq \in Nat
    BY DEF IsBuffer, StreamFrames
  <2> QED
    BY <2>1
<1>2. Free \subseteq Nat /\ Free # {}
  BY <1>1
<1> HIDE DEF Free
<1>3. PICK m \in Free : \A j \in Free : m <= j
  BY <1>2, LeastNatural
<1>4. m \in Nat /\ n <= m /\ \A f \in r : f.seq # m
  BY <1>3 DEF Free
<1>5. \A k \in n .. m - 1 : \E f \in r : f.seq = k
  <2>1. SUFFICES ASSUME NEW k \in n .. m - 1, \A f \in r : f.seq # k PROVE FALSE
    OBVIOUS
  <2>2. k \in Free
    BY <2>1 DEF Free
  <2> QED
    BY <1>3, <1>4, <2>2
<1> DEFINE fr == [k \in n .. m - 1 |-> CHOOSE f \in r : f.seq = k]
           run == Stream!Run(r, n)
<1>6. \A k \in n .. m - 1 : fr[k] \in r /\ fr[k].seq = k
  BY <1>5
<1>7. r \subseteq StreamFrames /\ \A f, g \in r : f.seq = g.seq => f = g
  BY DEF IsBuffer
<1>8. fr \in [n .. m - 1 -> StreamFrames]
  BY <1>6, <1>7
<1> HIDE DEF fr
<1>9. run = {fr[k] : k \in n .. m - 1}
  <2>1. ASSUME NEW f \in run PROVE f \in {fr[k] : k \in n .. m - 1}
    <3>1. f \in r /\ f.seq >= n /\ \A s \in n .. f.seq : \E g \in r : g.seq = s
      BY DEF Stream!Run
    <3>2. f.seq \in Nat
      BY <1>7, <3>1 DEF StreamFrames
    <3>3. ~(m <= f.seq)
      <4>1. ASSUME m <= f.seq PROVE FALSE
        <5>1. m \in n .. f.seq
          BY <1>4, <3>2, <4>1
        <5> QED
          BY <1>4, <3>1, <5>1
      <4> QED
        BY <4>1
    <3>4. f.seq \in n .. m - 1
      BY <1>4, <3>1, <3>2, <3>3
    <3>5. f = fr[f.seq]
      BY <1>6, <1>7, <3>1, <3>4
    <3> QED
      BY <3>4, <3>5
  <2>2. ASSUME NEW k \in n .. m - 1 PROVE fr[k] \in run
    <3>1. \A s \in n .. k : s \in n .. m - 1
      BY <1>4
    <3>2. \A s \in n .. k : \E g \in r : g.seq = s
      BY <1>6, <3>1
    <3> QED
      BY <1>6, <3>2 DEF Stream!Run
  <2> QED
    BY <2>1, <2>2
<1>10. Lists(fr, run, n, m)
  BY <1>4, <1>6, <1>8, <1>9 DEF Lists
<1>11. Cardinality(run) = m - n
  <2> HIDE DEF run
  <2>1. IsFiniteSet(n .. m - 1) /\ Cardinality(n .. m - 1) = m - n
    <3>1. n \in Int /\ m - 1 \in Int
      BY <1>4
    <3>2. /\ IsFiniteSet(n .. m - 1)
          /\ Cardinality(n .. m - 1) = IF n > m - 1 THEN 0 ELSE m - 1 - n + 1
      BY <3>1, FS_Interval
    <3> QED
      BY <1>4, <3>2
  <2>2. fr \in Bijection(n .. m - 1, run)
    BY <1>6, <1>8, <1>9 DEF Bijection, Injection, Surjection, IsInjective
  <2>3. ExistsBijection(n .. m - 1, run)
    BY <2>2 DEF ExistsBijection
  <2> QED
    BY <2>1, <2>3, FS_Bijection
<1> HIDE DEF run
<1>12. IsRun(r, n, m, fr)
  BY <1>4, <1>6, <1>10, <1>11 DEF IsRun, run
<1> QED
  BY <1>12

\* A frame that is inserted is the only one of its number.
LEMMA InsertFacts ==
    ASSUME NEW r, IsBuffer(r), NEW f \in StreamFrames
    PROVE  /\ IsBuffer(Stream!Insert(r, f))
           /\ \A g \in Stream!Insert(r, f) : g \in r \/ g = f
BY DEF IsBuffer, Stream!Insert

\* The frames of each side.
LEMMA FrameFacts ==
    ASSUME NEW n \in Nat
    PROVE  /\ \A f, md, h : IsReply(f, md, h, n) => f \in StreamFrames /\ f.seq <= n + 1
           /\ \A f, c : IsAsk(f, n, c) => f \in StreamFrames /\ f.seq <= n + 1
<1>1. /\ Stream!Open \in StreamFrames /\ Stream!Open.seq = 0
      /\ Stream!Cancel \in StreamFrames /\ Stream!Cancel.seq = 0
      /\ \A i \in Nat : Stream!Data(i) \in StreamFrames /\ Stream!Data(i).seq = i
      /\ \A i \in Nat : Stream!Close(i, TRUE) \in StreamFrames /\ Stream!Close(i, TRUE).seq = i
      /\ \A i \in Nat : Stream!Close(i, FALSE) \in StreamFrames /\ Stream!Close(i, FALSE).seq = i
  BY DEF StreamFrames, Stream!Open, Stream!Cancel, Stream!Data, Stream!Close
<1> DEFINE Known(f) == f \in StreamFrames /\ f.seq <= n + 1
<1>2. /\ Known(Stream!Open) /\ Known(Stream!Cancel)
      /\ \A i \in 1 .. n : Known(Stream!Data(i))
      /\ Known(Stream!Close(n + 1, TRUE)) /\ Known(Stream!Close(n + 1, FALSE))
  <2>1. n + 1 \in Nat /\ 0 <= n + 1 /\ n + 1 <= n + 1
    OBVIOUS
  <2>2. ASSUME NEW i \in 1 .. n PROVE Known(Stream!Data(i))
    <3>1. i \in Nat /\ i <= n + 1
      OBVIOUS
    <3> QED
      BY <1>1, <3>1
  <2> QED
    BY <1>1, <2>1, <2>2
<1>3. ASSUME NEW f, NEW md, NEW h, IsReply(f, md, h, n) PROVE f \in StreamFrames /\ f.seq <= n + 1
  <2> HIDE DEF Known
  <2>1. Known(f)
    BY <1>2, <1>3 DEF IsReply
  <2> QED
    BY <2>1 DEF Known
<1>4. ASSUME NEW f, NEW c, IsAsk(f, n, c) PROVE f \in StreamFrames /\ f.seq <= n + 1
  <2> HIDE DEF Known
  <2>1. Known(f)
    BY <1>2, <1>4 DEF IsAsk
  <2> QED
    BY <2>1 DEF Known
<1> QED
  BY <1>3, <1>4

-----------------------------------------------------------------------------
(* What one side does leaves the other side's view true. *)

\* The handler may have sent more, unless it was done,
Forth(n, h, k, l) == n \in Nat /\ k \in Nat /\ n <= k /\ (h = "done" => k = n /\ l = "done")

\* and the client more, unless its side was closed.
Ahead(n, c, k, d) == n \in Nat /\ k \in Nat /\ n <= k /\ (c => k = n /\ d)

\* A reply stays one,
LEMMA ReplyStays ==
    ASSUME NEW n, NEW h, NEW k, NEW l, Forth(n, h, k, l), NEW md, md = "Unknown" => k = n,
           NEW f, IsReply(f, md, h, n)
    PROVE  IsReply(f, md, l, k)
<1>1. \A i \in 1 .. n : i \in 1 .. k
  BY DEF Forth
<1> QED
  BY <1>1 DEF Forth, IsReply

\* and a request.
LEMMA AskStays ==
    ASSUME NEW n, NEW c, NEW k, NEW d, Ahead(n, c, k, d), NEW f, IsAsk(f, n, c)
    PROVE  IsAsk(f, k, d)
<1>1. \A i \in 1 .. n : i \in 1 .. k
  BY DEF Ahead
<1> QED
  BY <1>1 DEF Ahead, IsAsk

\* What is said of the client's channel stays true,
LEMMA ClientWayStays ==
    ASSUME NEW n, NEW h, NEW k, NEW l, Forth(n, h, k, l),
           NEW q \in Seq(Nat), NEW open, NEW ex, NEW gone, NEW next, NEW r \in Nat, NEW cut,
           NEW idle,
           ClientWay(q, open, ex, gone, next, r, cut, idle, n, h = "done")
    PROVE  ClientWay(q, open, ex, gone, next, r, cut, idle, k, l = "done")
<1>1. r + Len(q) \in Nat
  OBVIOUS
<1>2. \A x \in Nat : (x <= n => x <= k) /\ (x <= n + 1 => x <= k + 1)
  BY DEF Forth
<1> QED
  BY <1>1, <1>2 DEF ClientWay, Forth

\* and of the handler's.
LEMMA ServerWayStays ==
    ASSUME NEW n, NEW c, NEW k, NEW d, Ahead(n, c, k, d),
           NEW q \in Seq(Nat), NEW open, NEW gone, NEW next, NEW r \in Nat, NEW cut,
           ServerWay(q, open, gone, next, r, cut, n, c)
    PROVE  ServerWay(q, open, gone, next, r, cut, k, d)
<1>1. r + Len(q) \in Nat
  OBVIOUS
<1>2. \A x \in Nat : x <= n => x <= k
  BY DEF Ahead
<1> QED
  BY <1>1, <1>2 DEF ServerWay, Ahead

\* A step of the server or the handler, as the client sees it.
ServerMoves ==
    /\ UNCHANGED <<mode, request, client, inbox, inbox_open, expiring, response, client_end, got,
                   client_cut>>
    /\ Forth(replied, handler, replied', handler')
    /\ mode = "Unknown" => replied' = replied
    /\ mode = "Client" => replied' <= 1

\* It leaves what is known of the client true.
LEMMA ClientViewStays ==
    ASSUME StreamInv, ServerMoves,
           \A f \in s2c' : f \in s2c \/ IsReply(f, mode, handler', replied')
    PROVE  RepliesKnown' /\ RepliesFlow' /\ AnswerFlow' /\ ClientHonest'
<1>1. inbox \in Seq(Nat) /\ Len(got) \in Nat /\ replied \in Nat
  BY DEF StreamInv, StreamTypes
<1>2. RepliesKnown'
  BY ReplyStays DEF StreamInv, RepliesKnown, ServerMoves
<1>3. RepliesFlow'
  <2>1. SUFFICES ASSUME mode # "Client", client_end = "no"
                 PROVE  ClientWay(inbox, inbox_open, expiring, client = Stream!Gone, client.next,
                                  Len(got), client_cut, request.state = "idle", replied',
                                  handler' = "done")
    BY DEF RepliesFlow, ServerMoves
  <2>2. ClientWay(inbox, inbox_open, expiring, client = Stream!Gone, client.next, Len(got),
                  client_cut, request.state = "idle", replied, handler = "done")
    BY <2>1 DEF StreamInv, RepliesFlow
  <2>3. Forth(replied, handler, replied', handler')
    BY DEF ServerMoves
  <2> DEFINE gone == client = Stream!Gone
             idle == request.state = "idle"
  <2>4. ClientWay(inbox, inbox_open, expiring, gone, client.next, Len(got), client_cut, idle,
                  replied, handler = "done")
    BY <2>2
  <2> HIDE DEF gone, idle
  <2>5. ClientWay(inbox, inbox_open, expiring, gone, client.next, Len(got), client_cut, idle,
                  replied', handler' = "done")
    BY <1>1, <2>3, <2>4, ClientWayStays
  <2> QED
    BY <2>5 DEF gone, idle
<1>4. AnswerFlow'
  BY DEF StreamInv, AnswerFlow, ServerMoves, Forth
<1>5. ClientHonest'
  BY DEF StreamInv, ClientHonest, ServerMoves, Forth
<1> QED
  BY <1>2, <1>3, <1>4, <1>5

\* A step of the client, as the server sees it.
ClientMoves ==
    /\ UNCHANGED <<mode, server, server_inbox, server_inbox_open, handler, replied, heard,
                   heard_end, server_cut>>
    /\ request \in [sent : Nat, state : {"idle", "open", "closed"}]
    /\ Ahead(request.sent, request.state = "closed", request'.sent, request'.state = "closed")

\* It leaves what is known of the server true.
LEMMA ServerViewStays ==
    ASSUME StreamInv, ClientMoves,
           \A f \in c2s' : f \in c2s \/ IsAsk(f, request'.sent, request'.state = "closed")
    PROVE  AsksKnown' /\ RequestsFlow' /\ HandlerHonest'
<1>1. server_inbox \in Seq(Nat) /\ Len(heard) \in Nat
  BY DEF StreamInv, StreamTypes
<1>2. AsksKnown'
  BY AskStays DEF StreamInv, AsksKnown, ClientMoves
<1>3. RequestsFlow'
  <2>1. SUFFICES ASSUME mode # "Server", handler # "none", heard_end = "no"
                 PROVE  ServerWay(server_inbox, server_inbox_open, server = Stream!Gone,
                                  server.next, Len(heard), server_cut, request'.sent,
                                  request'.state = "closed")
    BY DEF RequestsFlow, ClientMoves
  <2>2. ServerWay(server_inbox, server_inbox_open, server = Stream!Gone, server.next, Len(heard),
                  server_cut, request.sent, request.state = "closed")
    BY <2>1 DEF StreamInv, RequestsFlow
  <2> QED
    BY <1>1, <2>2, ServerWayStays DEF ClientMoves
<1>4. HandlerHonest'
  BY DEF StreamInv, HandlerHonest, ClientMoves, Ahead
<1> QED
  BY <1>2, <1>3, <1>4

-----------------------------------------------------------------------------
(* The loops, turn by turn. *)

\* The fields of the frames.
LEMMA FrameFields ==
    /\ Stream!Open.kind = "Open" /\ Stream!Open.seq = 0 /\ Stream!Open.item = 0
    /\ Stream!Cancel.kind = "Cancel" /\ Stream!Cancel.seq = 0
    /\ \A n : /\ Stream!Data(n).kind = "Data" /\ Stream!Data(n).seq = n /\ Stream!Data(n).item = n
    /\ \A n : /\ Stream!Close(n, TRUE).kind = "Close" /\ Stream!Close(n, TRUE).seq = n
              /\ Stream!Close(n, TRUE).ok = TRUE
    /\ \A n : /\ Stream!Close(n, FALSE).kind = "Close" /\ Stream!Close(n, FALSE).seq = n
              /\ Stream!Close(n, FALSE).ok = FALSE
BY DEF Stream!Open, Stream!Cancel, Stream!Data, Stream!Close

\* What a frame with number j asks.
LEMMA AskCases ==
    ASSUME NEW n \in Nat, NEW c, NEW f, IsAsk(f, n, c), f.kind # "Open", f.seq # 0
    PROVE  \/ f.kind = "Data" /\ f.item = f.seq /\ f.seq \in 1 .. n
           \/ f.kind = "Close" /\ f.seq = n + 1 /\ c
<1>1. CASE f = Stream!Open \/ f = Stream!Cancel
  BY <1>1, FrameFields
<1>2. ASSUME NEW i \in 1 .. n, f = Stream!Data(i)
      PROVE  f.kind = "Data" /\ f.item = f.seq /\ f.seq \in 1 .. n
  BY <1>2, FrameFields
<1>3. CASE f = Stream!Close(n + 1, TRUE) /\ c
  BY <1>3, FrameFields
<1> QED
  BY <1>1, <1>2, <1>3 DEF IsAsk

\* The server's loop, at frame j: what is in the channel to the handler.
ServerTurns(a, j, r, cut, n, c) ==
    /\ ServerWay(a.q, a.tx, FALSE, j, r, a.cut, n, c)
    /\ cut => a.cut
    /\ a.removed => ~a.tx

\* What a turn does to the record.
LEMMA ServerTurnIs ==
    ASSUME NEW a \in ServerAcc, NEW f
    PROVE  LET x == Stream!ServerTurn(a, f) IN
           \/ x = a /\ (a.removed \/ f.kind = "Open" \/ (f.kind = "Data" /\ ~a.tx)
                          \/ f.kind \notin {"Open", "Data", "Close", "Cancel"})
           \/ /\ f.kind = "Data" /\ a.tx /\ ~a.removed
              /\ x.q = Append(a.q, f.item) /\ x.tx = TRUE /\ x.removed = FALSE /\ x.cut = a.cut
           \/ /\ f.kind = "Data" /\ a.tx /\ ~a.removed
              /\ x.q = a.q /\ x.tx = FALSE /\ x.removed = TRUE /\ x.cut = TRUE
           \/ /\ f.kind = "Close" /\ ~a.removed
              /\ x.q = a.q /\ x.tx = FALSE /\ x.removed = FALSE /\ x.cut = a.cut
           \/ /\ f.kind = "Cancel" /\ ~a.removed
              /\ x.q = a.q /\ x.tx = FALSE /\ x.removed = TRUE /\ x.cut = a.cut
<1> DEFINE q == Append(a.q, f.item)
<1> HIDE DEF q
<1> QED
  BY DEF Stream!ServerTurn, ServerAcc, q

\* A turn goes on to the next frame.
LEMMA ServerTurnKeeps ==
    ASSUME NEW a \in ServerAcc, NEW f \in StreamFrames, NEW j \in Nat \ {0}, f.seq = j,
           NEW n \in Nat, NEW c, IsAsk(f, n, c), f.kind # "Open",
           NEW r \in Nat, NEW cut, ServerTurns(a, j, r, cut, n, c)
    PROVE  ServerTurns(Stream!ServerTurn(a, f), j + 1, r, cut, n, c)
<1> DEFINE x == Stream!ServerTurn(a, f)
<1>1. \/ f.kind = "Data" /\ f.item = j /\ j \in 1 .. n
      \/ f.kind = "Close" /\ j = n + 1 /\ c
  BY AskCases
<1>2. /\ a.q \in Seq(Nat) /\ Len(a.q) \in Nat
      /\ a.tx \in BOOLEAN /\ a.removed \in BOOLEAN /\ a.cut \in BOOLEAN
  BY DEF ServerAcc
<1>3. /\ ItemsFrom(a.q, r) /\ ~EndsInFailure(a.q)
      /\ r + Len(a.q) <= n
      /\ a.tx => r + Len(a.q) = j - 1
      /\ ~a.tx /\ ~a.cut => r + Len(a.q) = n /\ c
      /\ cut => a.cut
      /\ a.removed => ~a.tx
  BY DEF ServerTurns, ServerWay
<1>4. CASE x = a /\ (a.removed \/ f.kind = "Open" \/ (f.kind = "Data" /\ ~a.tx)
                       \/ f.kind \notin {"Open", "Data", "Close", "Cancel"})
  <2>1. ~a.tx
    BY <1>1, <1>4, <1>3
  <2> QED
    BY <1>3, <1>4, <2>1 DEF ServerTurns, ServerWay
<1>5. CASE /\ f.kind = "Data" /\ a.tx /\ x.q = Append(a.q, f.item) /\ x.tx = TRUE
           /\ x.removed = FALSE /\ x.cut = a.cut
  <2>1. f.item = j /\ j = r + Len(a.q) + 1 /\ j <= n /\ j # TypedFailure
    BY <1>1, <1>2, <1>3, <1>5 DEF TypedFailure
  <2>2. ItemsFrom(Append(a.q, j), r) /\ ~EndsInFailure(Append(a.q, j))
    BY <1>2, <1>3, <2>1, ItemsGrow
  <2>3. Len(Append(a.q, j)) = Len(a.q) + 1
    BY <1>2, Appended
  <2>4. r + (Len(a.q) + 1) <= n /\ r + (Len(a.q) + 1) = (j + 1) - 1
    BY <1>2, <2>1
  <2> QED
    BY <1>3, <1>5, <2>1, <2>2, <2>3, <2>4 DEF ServerTurns, ServerWay
<1>6. CASE x.q = a.q /\ x.tx = FALSE /\ x.removed = TRUE /\ x.cut = TRUE
  BY <1>3, <1>6 DEF ServerTurns, ServerWay
<1>7. CASE f.kind = "Close" /\ x.q = a.q /\ x.tx = FALSE /\ x.removed = FALSE /\ x.cut = a.cut
  <2>1. j = n + 1 /\ c
    BY <1>1, <1>7
  <2>2. a.tx => r + Len(a.q) = n
    BY <1>3, <2>1
  <2> QED
    BY <1>2, <1>3, <1>7, <2>1, <2>2 DEF ServerTurns, ServerWay
<1> QED
  BY <1>1, <1>4, <1>5, <1>6, <1>7, ServerTurnIs

\* In server mode there is one request, with number 1.
RequestTurns(a, j) ==
    /\ a.payload = IF j >= 2 THEN 1 ELSE 0
    /\ a.closed => j >= 3
    /\ ~a.removed /\ ~a.error

\* A turn goes on to the next frame.
LEMMA RequestTurnKeeps ==
    ASSUME NEW a \in RequestAcc, NEW f \in StreamFrames, NEW j \in Nat \ {0}, f.seq = j,
           NEW c, IsAsk(f, 1, c), f.kind # "Open", RequestTurns(a, j)
    PROVE  RequestTurns(Stream!RequestTurn(a, f), j + 1)
<1>1. \/ f.kind = "Data" /\ f.item = 1 /\ j = 1
      \/ f.kind = "Close" /\ j = 2
  BY AskCases
<1>2. CASE f.kind = "Data" /\ f.item = 1 /\ j = 1
  <2>1. a.payload = 0 /\ a.removed = FALSE /\ a.closed = FALSE /\ a.error = FALSE
    BY <1>2 DEF RequestTurns, RequestAcc
  <2>2. Stream!RequestTurn(a, f) = [a EXCEPT !.payload = f.item]
    BY <1>2, <2>1 DEF Stream!RequestTurn
  <2> QED
    BY <1>2, <2>1, <2>2 DEF RequestTurns, RequestAcc
<1>3. CASE f.kind = "Close" /\ j = 2
  <2>1. a.payload = 1 /\ a.removed = FALSE /\ a.error = FALSE
    BY <1>3 DEF RequestTurns, RequestAcc
  <2>2. Stream!RequestTurn(a, f) = [a EXCEPT !.closed = TRUE]
    BY <1>3, <2>1 DEF Stream!RequestTurn
  <2> QED
    BY <1>3, <2>1, <2>2 DEF RequestTurns, RequestAcc
<1> QED
  BY <1>1, <1>2, <1>3

\* What a frame replies.
LEMMA ReplyCases ==
    ASSUME NEW n \in Nat, NEW md, NEW h, NEW f, IsReply(f, md, h, n)
    PROVE  \/ f.kind = "Open" /\ f.seq = 0
           \/ f.kind = "Data" /\ f.item = f.seq /\ f.seq \in 1 .. n
           \/ f.kind = "Close" /\ f.seq = n + 1 /\ f.ok = FALSE
           \/ /\ f.kind = "Close" /\ f.seq = n + 1 /\ f.ok = TRUE
              /\ h = "done" /\ (md = "Client" => n = 1)
<1>1. CASE f = Stream!Open
  BY <1>1, FrameFields
<1>2. ASSUME NEW i \in 1 .. n, f = Stream!Data(i)
      PROVE  f.kind = "Data" /\ f.item = f.seq /\ f.seq \in 1 .. n
  BY <1>2, FrameFields
<1>3. CASE f = Stream!Close(n + 1, FALSE)
  BY <1>3, FrameFields
<1>4. CASE f = Stream!Close(n + 1, TRUE) /\ h = "done" /\ (md = "Client" => n = 1)
  BY <1>4, FrameFields
<1> QED
  BY <1>1, <1>2, <1>3, <1>4 DEF IsReply

\* What a turn of the client's loop does to the record.
LEMMA ClientTurnIs ==
    ASSUME NEW a \in ClientAcc, NEW f \in StreamFrames
    PROVE  LET x == Stream!ClientTurn(a, f) IN
           /\ x.answer = a.answer
           /\ \/ x = a /\ a.removed
              \/ /\ ~a.removed /\ f.kind = "Open"
                 /\ x.q = a.q /\ x.tx = a.tx /\ x.removed = FALSE /\ x.cut = a.cut
              \/ /\ ~a.removed /\ f.kind = "Data"
                 /\ x.q = Append(a.q, f.item) /\ x.tx = a.tx /\ x.removed = FALSE /\ x.cut = a.cut
              \/ /\ ~a.removed /\ x.q = a.q /\ x.tx = FALSE /\ x.removed = TRUE /\ x.cut = TRUE
              \/ /\ ~a.removed /\ f.kind = "Close" /\ f.ok
                 /\ x.q = a.q /\ x.tx = FALSE /\ x.removed = TRUE /\ x.cut = a.cut
              \/ /\ ~a.removed
                 /\ x.q = Append(a.q, 0) /\ x.tx = FALSE /\ x.removed = TRUE /\ x.cut = a.cut
<1> DEFINE q == Append(a.q, f.item)
           r == Append(a.q, 0)
<1> HIDE DEF q, r
<1>1. CASE a.removed
  BY <1>1 DEF Stream!ClientTurn, ClientAcc, q, r
<1>2. CASE ~a.removed /\ f.kind = "Open"
  BY <1>2 DEF Stream!ClientTurn, ClientAcc, q, r
<1>3. CASE ~a.removed /\ f.kind = "Data"
  BY <1>3 DEF Stream!ClientTurn, ClientAcc, Stream!Failure, q, r
<1>4. CASE ~a.removed /\ f.kind \notin {"Open", "Data"}
  BY <1>4 DEF Stream!ClientTurn, ClientAcc, Stream!Failure, q, r
<1> QED
  BY <1>1, <1>2, <1>3, <1>4

\* The client's loop, at frame j: what is in the channel to the application.
ClientTurns(a, j, r, cut, n, done) ==
    /\ ClientWay(a.q, a.tx, FALSE, a.removed, j, r, a.cut, FALSE, n, done)
    /\ cut => a.cut
    /\ a.answer = "none"

\* A turn goes on to the next frame.
LEMMA ClientTurnKeeps ==
    ASSUME NEW a \in ClientAcc, NEW f \in StreamFrames, NEW j \in Nat, f.seq = j,
           NEW n \in Nat, NEW md, NEW h, IsReply(f, md, h, n),
           NEW r \in Nat, NEW cut, ClientTurns(a, j, r, cut, n, h = "done")
    PROVE  ClientTurns(Stream!ClientTurn(a, f), j + 1, r, cut, n, h = "done")
<1> DEFINE x == Stream!ClientTurn(a, f)
           o == IF j = 0 THEN 0 ELSE j - 1
<1>1. \/ f.kind = "Open" /\ j = 0
      \/ f.kind = "Data" /\ f.item = j /\ j \in 1 .. n
      \/ f.kind = "Close" /\ j = n + 1 /\ f.ok = FALSE
      \/ f.kind = "Close" /\ j = n + 1 /\ f.ok = TRUE /\ h = "done"
  <2>1. \/ f.kind = "Open" /\ f.seq = 0
        \/ f.kind = "Data" /\ f.item = f.seq /\ f.seq \in 1 .. n
        \/ f.kind = "Close" /\ f.seq = n + 1 /\ f.ok = FALSE
        \/ /\ f.kind = "Close" /\ f.seq = n + 1 /\ f.ok = TRUE
           /\ h = "done" /\ (md = "Client" => n = 1)
    <3> HIDE DEF x, o
    <3> QED
      BY ReplyCases
  <2> QED
    BY <2>1
<1>2. /\ a.q \in Seq(Nat) /\ Len(a.q) \in Nat
      /\ a.tx \in BOOLEAN /\ a.removed \in BOOLEAN /\ a.cut \in BOOLEAN
  BY DEF ClientAcc
<1>3. /\ ItemsFrom(a.q, r)
      /\ EndsInFailure(a.q) => ~a.tx /\ a.removed /\ r + Len(a.q) <= n + 1
      /\ ~EndsInFailure(a.q) => r + Len(a.q) <= n
      /\ ~a.removed => a.tx /\ r + Len(a.q) = o
      /\ ~a.tx /\ ~a.cut /\ ~EndsInFailure(a.q) => r + Len(a.q) = n /\ h = "done"
      /\ cut => a.cut /\ a.answer = "none"
  BY DEF ClientTurns, ClientWay
<1>a. a.answer = "none" /\ x.answer = "none" /\ (cut => a.cut)
  BY ClientTurnIs DEF ClientTurns
<1>b. j + 1 # 0 /\ (j + 1) - 1 = j /\ 0 # TypedFailure + 1 /\ TypedFailure = 0
  BY DEF TypedFailure
<1>4. CASE x = a /\ a.removed
  BY <1>3, <1>4, <1>a DEF ClientTurns, ClientWay
<1>5. CASE /\ ~a.removed /\ f.kind = "Open"
           /\ x.q = a.q /\ x.tx = a.tx /\ x.removed = FALSE /\ x.cut = a.cut
  <2>1. j = 0 /\ o = 0
    BY <1>1, <1>5
  <2>2. r + Len(a.q) = (j + 1) - 1
    BY <1>3, <1>5, <2>1
  <2> QED
    BY <1>2, <1>3, <1>5, <1>a, <1>b, <2>2 DEF ClientTurns, ClientWay
<1>6. CASE /\ ~a.removed /\ f.kind = "Data"
           /\ x.q = Append(a.q, f.item) /\ x.tx = a.tx /\ x.removed = FALSE /\ x.cut = a.cut
  <2>1. f.item = j /\ j \in 1 .. n /\ o = j - 1
    BY <1>1, <1>6
  <2>2. /\ j = r + Len(a.q) + 1 /\ j # TypedFailure /\ ~EndsInFailure(a.q) /\ a.tx
        /\ r + (Len(a.q) + 1) = (j + 1) - 1 /\ r + (Len(a.q) + 1) <= n
    BY <1>2, <1>3, <1>6, <1>b, <2>1
  <2>3. ItemsFrom(Append(a.q, j), r) /\ ~EndsInFailure(Append(a.q, j))
    BY <1>2, <1>3, <2>2, ItemsGrow
  <2>4. Len(Append(a.q, j)) = Len(a.q) + 1
    BY <1>2, Appended
  <2> QED
    BY <1>6, <1>a, <1>b, <2>1, <2>2, <2>3, <2>4 DEF ClientTurns, ClientWay
<1>7. CASE ~a.removed /\ x.q = a.q /\ x.tx = FALSE /\ x.removed = TRUE /\ x.cut = TRUE
  BY <1>3, <1>7, <1>a DEF ClientTurns, ClientWay
<1>8. CASE /\ ~a.removed /\ f.kind = "Close" /\ f.ok
           /\ x.q = a.q /\ x.tx = FALSE /\ x.removed = TRUE /\ x.cut = a.cut
  <2>1. j = n + 1 /\ h = "done" /\ o = n
    BY <1>1, <1>8
  <2>2. r + Len(a.q) = n /\ ~EndsInFailure(a.q)
    BY <1>3, <1>8, <2>1
  <2> QED
    BY <1>3, <1>8, <1>a, <2>1, <2>2 DEF ClientTurns, ClientWay
<1>9. CASE /\ ~a.removed
           /\ x.q = Append(a.q, 0) /\ x.tx = FALSE /\ x.removed = TRUE /\ x.cut = a.cut
  <2>1. ~EndsInFailure(a.q) /\ r + Len(a.q) <= n
    BY <1>3, <1>9
  <2>2. ItemsFrom(Append(a.q, 0), r) /\ EndsInFailure(Append(a.q, 0))
    BY <1>2, <1>3, <1>b, <2>1, ItemsGrow
  <2>3. Len(Append(a.q, 0)) = Len(a.q) + 1
    BY <1>2, Appended
  <2>4. r + (Len(a.q) + 1) <= n + 1
    BY <1>2, <2>1
  <2> QED
    BY <1>9, <1>a, <2>2, <2>3, <2>4 DEF ClientTurns, ClientWay
<1> QED
  BY <1>4, <1>5, <1>6, <1>7, <1>8, <1>9, ClientTurnIs

\* The loop of a client-streaming call, at frame j.
AnswerTurns(a, j, n, done) ==
    /\ a.q = <<>> /\ n <= 1
    /\ ~a.removed /\ j >= 2 => a.payload # 0
    /\ a.payload # 0 => n = 1
    /\ a.answer \in {"none", "error", "ok"}
    /\ a.answer = "ok" => n = 1 /\ done

\* A turn goes on to the next frame.
LEMMA AnswerTurnKeeps ==
    ASSUME NEW a \in ClientAcc, NEW f \in StreamFrames, NEW j \in Nat, f.seq = j,
           NEW n \in Nat, NEW h, IsReply(f, "Client", h, n), AnswerTurns(a, j, n, h = "done")
    PROVE  AnswerTurns(Stream!AnswerTurn(a, f), j + 1, n, h = "done")
<1> DEFINE x == Stream!AnswerTurn(a, f)
<1>1. \/ f.kind = "Open" /\ j = 0
      \/ f.kind = "Data" /\ f.item = j /\ j = 1 /\ n = 1
      \/ f.kind = "Close" /\ j = n + 1 /\ f.ok = FALSE
      \/ f.kind = "Close" /\ j = 2 /\ n = 1 /\ f.ok = TRUE /\ h = "done"
  <2>1. \/ f.kind = "Open" /\ f.seq = 0
        \/ f.kind = "Data" /\ f.item = f.seq /\ f.seq \in 1 .. n
        \/ f.kind = "Close" /\ f.seq = n + 1 /\ f.ok = FALSE
        \/ f.kind = "Close" /\ f.seq = n + 1 /\ f.ok = TRUE /\ h = "done" /\ n = 1
    BY ReplyCases, Zenon
  <2>2. n <= 1
    BY DEF AnswerTurns
  <2> QED
    BY <2>1, <2>2
<1>2. a.removed \in BOOLEAN /\ a.saw \in BOOLEAN /\ a.payload \in Nat
  BY DEF ClientAcc
<1>3. CASE a.removed
  <2>1. x = a
    BY <1>3 DEF Stream!AnswerTurn
  <2> QED
    BY <1>3, <2>1 DEF AnswerTurns
<1>4. CASE ~a.removed /\ f.kind = "Open"
  <2>1. x = [a EXCEPT !.saw = TRUE] /\ ~(j + 1 >= 2)
    BY <1>1, <1>2, <1>4 DEF Stream!AnswerTurn
  <2> QED
    BY <1>4, <2>1 DEF AnswerTurns, ClientAcc
<1>5. CASE ~a.removed /\ f.kind = "Data" /\ a.saw /\ a.payload = 0
  <2>1. x = [a EXCEPT !.payload = f.item] /\ f.item = 1 /\ n = 1
    BY <1>1, <1>2, <1>5 DEF Stream!AnswerTurn
  <2> QED
    BY <1>5, <2>1 DEF AnswerTurns, ClientAcc
<1>6. CASE ~a.removed /\ f.kind = "Close" /\ f.ok
  <2>1. a.payload # 0 /\ n = 1 /\ h = "done"
    BY <1>1, <1>6 DEF AnswerTurns
  <2>2. x = [a EXCEPT !.answer = "ok", !.removed = TRUE]
    BY <1>2, <1>6, <2>1 DEF Stream!AnswerTurn
  <2> QED
    BY <1>6, <2>1, <2>2 DEF AnswerTurns, ClientAcc
<1>7. CASE x = [a EXCEPT !.answer = "error", !.removed = TRUE]
  BY <1>7 DEF AnswerTurns, ClientAcc
<1>8. \/ a.removed \/ f.kind = "Open" \/ (f.kind = "Data" /\ a.saw /\ a.payload = 0)
      \/ (f.kind = "Close" /\ f.ok)
      \/ x = [a EXCEPT !.answer = "error", !.removed = TRUE]
  BY DEF Stream!AnswerTurn
<1> QED
  BY <1>2, <1>3, <1>4, <1>5, <1>6, <1>7, <1>8

-----------------------------------------------------------------------------
(* The loops, from the first frame that is expected to the last in order. *)

\* The instance counts as everybody does.
LEMMA SameCardinality == \A S : Stream!Cardinality(S) = Cardinality(S)
<1> TAKE S
<1> QED
  BY DEF Stream!Cardinality, Cardinality

\* The frames that wait with one that arrives, and those of them that are in order.
LEMMA RunIs ==
    ASSUME NEW r, IsBuffer(r), NEW n \in Nat, NEW top \in Nat, \A f \in r : f.seq <= top,
           NEW m, NEW fr, IsRun(r, n, m, fr)
    PROVE  /\ n + Stream!Cardinality(Stream!Run(r, n)) = m /\ m \in Nat /\ n <= m
           /\ Stream!Run(r, n) \subseteq r
<1>1. Stream!Cardinality(Stream!Run(r, n)) = m - n
  BY SameCardinality DEF IsRun
<1>2. m \in Nat /\ n <= m
  BY DEF IsRun, Lists
<1>3. n + (m - n) = m
  BY <1>2
<1>4. Stream!Run(r, n) \subseteq r
  BY DEF Stream!Run
<1> QED
  BY <1>1, <1>2, <1>3, <1>4

\* What is cut stays cut.
LEMMA ServerCuts ==
    ASSUME NEW a \in ServerAcc, NEW f \in StreamFrames, a.cut
    PROVE  Stream!ServerTurn(a, f).cut
<1>1. a.cut = TRUE
  BY DEF ServerAcc
<1> QED
  BY <1>1, ServerTurnIs

\* In the client's loop too,
LEMMA ClientCuts ==
    ASSUME NEW a \in ClientAcc, NEW f \in StreamFrames, a.cut
    PROVE  Stream!ClientTurn(a, f).cut
<1>1. a.cut = TRUE
  BY DEF ClientAcc
<1> QED
  BY <1>1, ClientTurnIs

\* also in client mode.
LEMMA AnswerCuts ==
    ASSUME NEW a \in ClientAcc, NEW f \in StreamFrames, a.cut
    PROVE  Stream!AnswerTurn(a, f).cut
<1>1. a.cut = TRUE
  BY DEF ClientAcc
<1> QED
  BY <1>1 DEF Stream!AnswerTurn, ClientAcc

\* The server's loop.
LEMMA ServerRuns ==
    ASSUME NEW r, IsBuffer(r), NEW n \in Nat \ {0}, NEW b \in ServerAcc,
           NEW s \in Nat, NEW c, \A g \in r : IsAsk(g, s, c) /\ g.kind # "Open",
           NEW d \in Nat, NEW cut
    PROVE  LET run == Stream!Run(r, n)
               m == n + Stream!Cardinality(run)
               a == Stream!Loop(Stream!ServerTurn, b, run)
           IN  /\ a \in ServerAcc /\ m \in Nat \ {0} /\ run \subseteq r /\ (b.cut => a.cut)
               /\ ServerTurns(b, n, d, cut, s, c) => ServerTurns(a, m, d, cut, s, c)
<1> DEFINE run == Stream!Run(r, n)
           a == Stream!Loop(Stream!ServerTurn, b, run)
<1>1. \A f \in r : f.seq <= s + 1
  BY FrameFacts
<1>2. PICK m, fr : IsRun(r, n, m, fr)
  BY <1>1, RunFacts
<1>3. n + Stream!Cardinality(run) = m /\ m \in Nat /\ n <= m /\ run \subseteq r
  BY <1>1, <1>2, RunIs
<1>4. /\ Lists(fr, run, n, m)
      /\ \A k \in n .. m - 1 : fr[k] \in r /\ fr[k] \in StreamFrames /\ fr[k].seq = k
  BY <1>2 DEF IsRun, Lists
<1>w. PICK h : ServerWalk(h, b, fr, n, m, a)
  BY <1>4, ServerLoop
<1>5. /\ h \in [n .. m -> ServerAcc] /\ h[n] = b
      /\ \A k \in n .. m - 1 : h[k + 1] = Stream!ServerTurn(h[k], fr[k])
      /\ a = h[m]
  BY <1>w DEF ServerWalk
<1>6. a \in ServerAcc
  BY <1>3, <1>5
<1>7. ASSUME ServerTurns(b, n, d, cut, s, c) PROVE ServerTurns(a, m, d, cut, s, c)
  <2> DEFINE B == {k \in n .. m : ServerTurns(h[k], k, d, cut, s, c)}
  <2>1. n \in B
    BY <1>3, <1>5, <1>7
  <2>2. ASSUME NEW k \in n .. m - 1, k \in B PROVE k + 1 \in B
    <3>1. k \in Nat \ {0} /\ h[k] \in ServerAcc /\ k + 1 \in n .. m
      BY <1>3, <1>5
    <3>2. /\ fr[k] \in StreamFrames /\ fr[k].seq = k /\ fr[k].kind # "Open"
          /\ IsAsk(fr[k], s, c)
      BY <1>4
    <3>3. ServerTurns(h[k], k, d, cut, s, c)
      BY <2>2
    <3>4. ServerTurns(Stream!ServerTurn(h[k], fr[k]), k + 1, d, cut, s, c)
      BY <3>1, <3>2, <3>3, ServerTurnKeeps
    <3> QED
      BY <1>5, <3>1, <3>4
  <2> HIDE DEF B
  <2>3. m \in B
    BY <1>3, <2>1, <2>2, UpTo
  <2> QED
    BY <1>5, <2>3 DEF B
<1>8. ASSUME b.cut PROVE a.cut
  <2> DEFINE B == {k \in n .. m : h[k].cut}
  <2>1. n \in B
    BY <1>3, <1>5, <1>8
  <2>2. ASSUME NEW k \in n .. m - 1, k \in B PROVE k + 1 \in B
    <3>1. h[k] \in ServerAcc /\ k + 1 \in n .. m /\ fr[k] \in StreamFrames /\ h[k].cut
      BY <1>3, <1>4, <1>5, <2>2
    <3>2. Stream!ServerTurn(h[k], fr[k]).cut
      BY <3>1, ServerCuts
    <3> QED
      BY <1>5, <3>1, <3>2
  <2> HIDE DEF B
  <2>3. m \in B
    BY <1>3, <2>1, <2>2, UpTo
  <2> QED
    BY <1>5, <2>3 DEF B
<1> HIDE DEF run, a
<1> QED
  BY <1>3, <1>6, <1>7, <1>8 DEF run, a

\* Its loop in server mode.
LEMMA RequestRuns ==
    ASSUME NEW r, IsBuffer(r), NEW n \in Nat \ {0}, NEW b \in RequestAcc,
           NEW c, \A g \in r : IsAsk(g, 1, c) /\ g.kind # "Open", RequestTurns(b, n)
    PROVE  LET run == Stream!Run(r, n)
               m == n + Stream!Cardinality(run)
               a == Stream!Loop(Stream!RequestTurn, b, run)
           IN  /\ a \in RequestAcc /\ m \in Nat \ {0} /\ run \subseteq r
               /\ RequestTurns(a, m)
<1> DEFINE run == Stream!Run(r, n)
           a == Stream!Loop(Stream!RequestTurn, b, run)
<1>1. \A f \in r : f.seq <= 1 + 1
  BY FrameFacts
<1>2. PICK m, fr : IsRun(r, n, m, fr)
  BY <1>1, RunFacts
<1>3. n + Stream!Cardinality(run) = m /\ m \in Nat /\ n <= m /\ run \subseteq r
  BY <1>1, <1>2, RunIs
<1>4. /\ Lists(fr, run, n, m)
      /\ \A k \in n .. m - 1 : fr[k] \in r /\ fr[k] \in StreamFrames /\ fr[k].seq = k
  BY <1>2 DEF IsRun, Lists
<1>w. PICK h : RequestWalk(h, b, fr, n, m, a)
  BY <1>4, RequestLoop
<1>5. /\ h \in [n .. m -> RequestAcc] /\ h[n] = b
      /\ \A k \in n .. m - 1 : h[k + 1] = Stream!RequestTurn(h[k], fr[k])
      /\ a = h[m]
  BY <1>w DEF RequestWalk
<1>6. a \in RequestAcc
  BY <1>3, <1>5
<1>7. RequestTurns(a, m)
  <2> DEFINE B == {k \in n .. m : RequestTurns(h[k], k)}
  <2>1. n \in B
    BY <1>3, <1>5
  <2>2. ASSUME NEW k \in n .. m - 1, k \in B PROVE k + 1 \in B
    <3>1. k \in Nat \ {0} /\ h[k] \in RequestAcc /\ k + 1 \in n .. m
      BY <1>3, <1>5
    <3>2. /\ fr[k] \in StreamFrames /\ fr[k].seq = k /\ fr[k].kind # "Open"
          /\ IsAsk(fr[k], 1, c)
      BY <1>4
    <3>3. RequestTurns(h[k], k)
      BY <2>2
    <3>4. RequestTurns(Stream!RequestTurn(h[k], fr[k]), k + 1)
      BY <3>1, <3>2, <3>3, RequestTurnKeeps
    <3> QED
      BY <1>5, <3>1, <3>4
  <2> HIDE DEF B
  <2>3. m \in B
    BY <1>3, <2>1, <2>2, UpTo
  <2> QED
    BY <1>5, <2>3 DEF B
<1> HIDE DEF run, a
<1> QED
  BY <1>3, <1>6, <1>7 DEF run, a

\* The client's loop.
LEMMA ClientRuns ==
    ASSUME NEW r, IsBuffer(r), NEW n \in Nat, NEW b \in ClientAcc,
           NEW s \in Nat, NEW md, NEW hd, \A g \in r : IsReply(g, md, hd, s),
           NEW d \in Nat, NEW cut
    PROVE  LET run == Stream!Run(r, n)
               m == n + Stream!Cardinality(run)
               a == Stream!Loop(Stream!ClientTurn, b, run)
           IN  /\ a \in ClientAcc /\ m \in Nat /\ run \subseteq r /\ (b.cut => a.cut)
               /\ a.answer = b.answer
               /\ ClientTurns(b, n, d, cut, s, hd = "done") =>
                      ClientTurns(a, m, d, cut, s, hd = "done")
<1> DEFINE run == Stream!Run(r, n)
           a == Stream!Loop(Stream!ClientTurn, b, run)
<1>1. \A f \in r : f.seq <= s + 1
  BY FrameFacts
<1>2. PICK m, fr : IsRun(r, n, m, fr)
  BY <1>1, RunFacts
<1>3. n + Stream!Cardinality(run) = m /\ m \in Nat /\ n <= m /\ run \subseteq r
  BY <1>1, <1>2, RunIs
<1>4. /\ Lists(fr, run, n, m)
      /\ \A k \in n .. m - 1 : fr[k] \in r /\ fr[k] \in StreamFrames /\ fr[k].seq = k
  BY <1>2 DEF IsRun, Lists
<1>w. PICK h : ClientWalk(h, b, fr, n, m, a)
  BY <1>4, StreamLoop
<1>5. /\ h \in [n .. m -> ClientAcc] /\ h[n] = b
      /\ \A k \in n .. m - 1 : h[k + 1] = Stream!ClientTurn(h[k], fr[k])
      /\ a = h[m]
  BY <1>w DEF ClientWalk
<1>6. a \in ClientAcc
  BY <1>3, <1>5
<1>7. ASSUME ClientTurns(b, n, d, cut, s, hd = "done")
      PROVE  ClientTurns(a, m, d, cut, s, hd = "done")
  <2> DEFINE B == {k \in n .. m : ClientTurns(h[k], k, d, cut, s, hd = "done")}
  <2>1. n \in B
    BY <1>3, <1>5, <1>7
  <2>2. ASSUME NEW k \in n .. m - 1, k \in B PROVE k + 1 \in B
    <3>1. k \in Nat /\ h[k] \in ClientAcc /\ k + 1 \in n .. m
      BY <1>3, <1>5
    <3>2. fr[k] \in StreamFrames /\ fr[k].seq = k /\ IsReply(fr[k], md, hd, s)
      BY <1>4
    <3>3. ClientTurns(h[k], k, d, cut, s, hd = "done")
      BY <2>2
    <3>4. ClientTurns(Stream!ClientTurn(h[k], fr[k]), k + 1, d, cut, s, hd = "done")
      BY <3>1, <3>2, <3>3, ClientTurnKeeps
    <3> QED
      BY <1>5, <3>1, <3>4
  <2> HIDE DEF B
  <2>3. m \in B
    BY <1>3, <2>1, <2>2, UpTo
  <2> QED
    BY <1>5, <2>3 DEF B
<1>8. ASSUME b.cut PROVE a.cut
  <2> DEFINE B == {k \in n .. m : h[k].cut}
  <2>1. n \in B
    BY <1>3, <1>5, <1>8
  <2>2. ASSUME NEW k \in n .. m - 1, k \in B PROVE k + 1 \in B
    <3>1. h[k] \in ClientAcc /\ k + 1 \in n .. m /\ fr[k] \in StreamFrames /\ h[k].cut
      BY <1>3, <1>4, <1>5, <2>2
    <3>2. Stream!ClientTurn(h[k], fr[k]).cut
      BY <3>1, ClientCuts
    <3> QED
      BY <1>5, <3>1, <3>2
  <2> HIDE DEF B
  <2>3. m \in B
    BY <1>3, <2>1, <2>2, UpTo
  <2> QED
    BY <1>5, <2>3 DEF B
<1>9. a.answer = b.answer
  <2> DEFINE B == {k \in n .. m : h[k].answer = b.answer}
  <2>1. n \in B
    BY <1>3, <1>5
  <2>2. ASSUME NEW k \in n .. m - 1, k \in B PROVE k + 1 \in B
    <3>1. /\ h[k] \in ClientAcc /\ k + 1 \in n .. m /\ fr[k] \in StreamFrames
          /\ h[k].answer = b.answer
      BY <1>3, <1>4, <1>5, <2>2
    <3>2. Stream!ClientTurn(h[k], fr[k]).answer = h[k].answer
      BY <3>1, ClientTurnIs
    <3> QED
      BY <1>5, <3>1, <3>2
  <2> HIDE DEF B
  <2>3. m \in B
    BY <1>3, <2>1, <2>2, UpTo
  <2> QED
    BY <1>5, <2>3 DEF B
<1> HIDE DEF run, a
<1> QED
  BY <1>3, <1>6, <1>7, <1>8, <1>9 DEF run, a

\* Its loop in client mode.
LEMMA AnswerRuns ==
    ASSUME NEW r, IsBuffer(r), NEW n \in Nat, NEW b \in ClientAcc,
           NEW s \in Nat, NEW hd, \A g \in r : IsReply(g, "Client", hd, s),
           AnswerTurns(b, n, s, hd = "done")
    PROVE  LET run == Stream!Run(r, n)
               m == n + Stream!Cardinality(run)
               a == Stream!Loop(Stream!AnswerTurn, b, run)
           IN  /\ a \in ClientAcc /\ m \in Nat /\ run \subseteq r /\ (b.cut => a.cut)
               /\ AnswerTurns(a, m, s, hd = "done")
<1> DEFINE run == Stream!Run(r, n)
           a == Stream!Loop(Stream!AnswerTurn, b, run)
<1>1. \A f \in r : f.seq <= s + 1
  BY FrameFacts
<1>2. PICK m, fr : IsRun(r, n, m, fr)
  BY <1>1, RunFacts
<1>3. n + Stream!Cardinality(run) = m /\ m \in Nat /\ n <= m /\ run \subseteq r
  BY <1>1, <1>2, RunIs
<1>4. /\ Lists(fr, run, n, m)
      /\ \A k \in n .. m - 1 : fr[k] \in r /\ fr[k] \in StreamFrames /\ fr[k].seq = k
  BY <1>2 DEF IsRun, Lists
<1>w. PICK h : AnswerWalk(h, b, fr, n, m, a)
  BY <1>4, AnswerLoop
<1>5. /\ h \in [n .. m -> ClientAcc] /\ h[n] = b
      /\ \A k \in n .. m - 1 : h[k + 1] = Stream!AnswerTurn(h[k], fr[k])
      /\ a = h[m]
  BY <1>w DEF AnswerWalk
<1>6. a \in ClientAcc
  BY <1>3, <1>5
<1>7. AnswerTurns(a, m, s, hd = "done")
  <2> DEFINE B == {k \in n .. m : AnswerTurns(h[k], k, s, hd = "done")}
  <2>1. n \in B
    BY <1>3, <1>5
  <2>2. ASSUME NEW k \in n .. m - 1, k \in B PROVE k + 1 \in B
    <3>1. k \in Nat /\ h[k] \in ClientAcc /\ k + 1 \in n .. m
      BY <1>3, <1>5
    <3>2. fr[k] \in StreamFrames /\ fr[k].seq = k /\ IsReply(fr[k], "Client", hd, s)
      BY <1>4
    <3>3. AnswerTurns(h[k], k, s, hd = "done")
      BY <2>2
    <3>4. AnswerTurns(Stream!AnswerTurn(h[k], fr[k]), k + 1, s, hd = "done")
      BY <3>1, <3>2, <3>3, AnswerTurnKeeps
    <3> QED
      BY <1>5, <3>1, <3>4
  <2> HIDE DEF B
  <2>u. \A k \in n .. m : k \in B
    BY <1>3, <2>1, <2>2, UpTo
  <2>3. m \in B
    BY <1>3, <2>u
  <2>4. AnswerTurns(h[m], m, s, hd = "done")
    BY <2>3 DEF B
  <2> QED
    BY <1>5, <2>4
<1>8. ASSUME b.cut PROVE a.cut
  <2> DEFINE B == {k \in n .. m : h[k].cut}
  <2>1. n \in B
    BY <1>3, <1>5, <1>8
  <2>2. ASSUME NEW k \in n .. m - 1, k \in B PROVE k + 1 \in B
    <3>1. h[k] \in ClientAcc /\ k + 1 \in n .. m /\ fr[k] \in StreamFrames /\ h[k].cut
      BY <1>3, <1>4, <1>5, <2>2
    <3>2. Stream!AnswerTurn(h[k], fr[k]).cut
      BY <3>1, AnswerCuts
    <3> QED
      BY <1>5, <3>1, <3>2
  <2> HIDE DEF B
  <2>u. \A k \in n .. m : k \in B
    BY <1>3, <2>1, <2>2, UpTo
  <2>3. m \in B
    BY <1>3, <2>u
  <2>4. h[m].cut
    BY <2>3 DEF B
  <2> QED
    BY <1>5, <2>4
<1> HIDE DEF run, a
<1> QED
  BY <1>3, <1>6, <1>7, <1>8 DEF run, a

-----------------------------------------------------------------------------
(* The steps of the server. *)

\* A frame arrives in client or bidi mode.
LEMMA KeepsServerReceive ==
    ASSUME StreamInv, NEW f, Stream!ServerReceive(f)
    PROVE  StreamInv'
<1> DEFINE r == Stream!Insert(server.reorder, f)
           run == Stream!Run(r, server.next)
           b == [q |-> server_inbox, tx |-> server_inbox_open, removed |-> FALSE,
                 cut |-> server_cut]
           a == Stream!Loop(Stream!ServerTurn, b, run)
           m == server.next + Stream!Cardinality(run)
           s == request.sent
           c == request.state = "closed"
           d == Len(heard)
<1>1. /\ f \in c2s /\ f.kind # "Open" /\ server # Stream!Gone /\ mode \in {"Client", "Bidi"}
      /\ c2s' = c2s \ {f}
      /\ \/ server' = Stream!Gone
         \/ ~a.removed /\ server' = [server EXCEPT !.next = m, !.reorder = r \ run]
      /\ server_inbox' = a.q /\ server_inbox_open' = a.tx /\ server_cut' = a.cut
      /\ UNCHANGED <<mode, s2c, request, client, inbox, inbox_open, expiring, response, client_end,
                     got, client_cut, handler, replied, heard, heard_end>>
  BY DEF Stream!ServerReceive, Stream!client_vars
<1>2. /\ server \in ServerStates /\ server.next \in Nat \ {0}
      /\ server_inbox \in Seq(Nat) /\ server_inbox_open \in BOOLEAN /\ server_cut \in BOOLEAN
      /\ s \in Nat /\ d \in Nat
  <2>1. /\ server \in ServerStates /\ heard \in Seq(Nat)
        /\ request \in [sent : Nat, state : {"idle", "open", "closed"}]
        /\ server_inbox \in Seq(Nat) /\ server_inbox_open \in BOOLEAN /\ server_cut \in BOOLEAN
    BY <1>1 DEF StreamInv, StreamTypes
  <2>2. server.next \in Nat \ {0}
    BY <2>1 DEF ServerStates
  <2> QED
    BY <2>1, <2>2
<1>3. b \in ServerAcc
  BY <1>2 DEF ServerAcc
<1>4. IsBuffer(r) /\ r \subseteq StreamFrames /\ \A g \in r : IsAsk(g, s, c) /\ g.kind # "Open"
  <2>1. IsAsk(f, s, c) /\ f \in StreamFrames
    BY <1>1, <1>2, FrameFacts DEF StreamInv, AsksKnown
  <2>2. IsBuffer(server.reorder)
    BY <1>1 DEF StreamInv, AsksKnown
  <2>3. IsBuffer(r) /\ \A g \in r : g \in server.reorder \/ g = f
    BY <2>1, <2>2, InsertFacts
  <2>4. r \subseteq StreamFrames
    BY <2>3 DEF IsBuffer
  <2> QED
    BY <1>1, <2>1, <2>3, <2>4 DEF StreamInv, AsksKnown
<1>5. /\ a \in ServerAcc /\ m \in Nat \ {0} /\ run \subseteq r /\ (b.cut => a.cut)
      /\ ServerTurns(b, server.next, d, server_cut, s, c) => ServerTurns(a, m, d, server_cut, s, c)
  <2> HIDE DEF r, b, c, d, s
  <2> QED
    BY <1>2, <1>3, <1>4, ServerRuns
<1>6. b.cut = server_cut
  OBVIOUS
<1> HIDE DEF r, run, a, m
<1>7. /\ a.q \in Seq(Nat) /\ a.tx \in BOOLEAN /\ a.cut \in BOOLEAN /\ (server_cut => a.cut)
  BY <1>5, <1>6 DEF ServerAcc
<1>8. /\ server' = Stream!Gone \/ server' \in ServerStates
      /\ server' # Stream!Gone => server'.next = m /\ server'.reorder = r \ run
  <2>1. r \ run \in SUBSET StreamFrames
    BY <1>4
  <2>2. ASSUME server' = [server EXCEPT !.next = m, !.reorder = r \ run]
        PROVE  server' \in ServerStates /\ server'.next = m /\ server'.reorder = r \ run
    BY <1>2, <1>5, <2>1, <2>2 DEF ServerStates
  <2> QED
    BY <1>1, <2>2
<1>9. StreamTypes'
  BY <1>1, <1>7, <1>8 DEF StreamInv, StreamTypes
<1>10. StreamStage'
  BY <1>1 DEF StreamInv, StreamStage
<1>11. AsksKnown'
  <2>1. \A g \in c2s' : IsAsk(g, request'.sent, request'.state = "closed")
    BY <1>1 DEF StreamInv, AsksKnown
  <2>2. ASSUME server' # Stream!Gone
        PROVE  /\ IsBuffer(server'.reorder)
               /\ \A g \in server'.reorder : IsAsk(g, request'.sent, request'.state = "closed")
                                             /\ g.kind # "Open"
    BY <1>1, <1>4, <1>8, <2>2 DEF IsBuffer
  <2> QED
    BY <2>1, <2>2 DEF AsksKnown
<1>12. RequestsFlow'
  <2>1. SUFFICES ASSUME handler # "none", heard_end = "no"
                 PROVE  ServerWay(a.q, a.tx, server' = Stream!Gone, server'.next, d, a.cut, s, c)
    BY <1>1 DEF RequestsFlow
  <2>2. ServerWay(server_inbox, server_inbox_open, server = Stream!Gone, server.next, d,
                  server_cut, s, c)
    BY <1>1, <2>1 DEF StreamInv, RequestsFlow
  <2>3. ServerTurns(b, server.next, d, server_cut, s, c)
    BY <1>1, <2>2 DEF ServerTurns, ServerWay
  <2>4. ServerTurns(a, m, d, server_cut, s, c)
    BY <1>5, <2>3
  <2> QED
    BY <1>8, <2>4 DEF ServerTurns, ServerWay
<1>13. RequestFlow'
  BY <1>1 DEF RequestFlow
<1>14. HandlerHonest'
  BY <1>1, <1>7 DEF StreamInv, HandlerHonest
<1>15. RepliesKnown' /\ RepliesFlow' /\ AnswerFlow' /\ ClientHonest'
  <2>1. ServerMoves
    BY <1>1 DEF StreamInv, StreamTypes, StreamStage, ServerMoves, Forth
  <2> QED
    BY <1>1, <2>1, ClientViewStays
<1> QED
  BY <1>9, <1>10, <1>11, <1>12, <1>13, <1>14, <1>15 DEF StreamInv

\* A frame arrives in server mode.
LEMMA KeepsRequestReceive ==
    ASSUME StreamInv, NEW f, Stream!RequestReceive(f)
    PROVE  /\ StreamInv' /\ request.sent = 1 /\ heard = <<>> /\ heard_end = "no"
           /\ UNCHANGED <<mode, request, replied, got, client_end>>
           /\ UNCHANGED <<heard, heard_end>> \/ (heard' = <<1>> /\ heard_end' = "end")
<1> DEFINE r == Stream!Insert(server.reorder, f)
           run == Stream!Run(r, server.next)
           b == [payload |-> server.payload, closed |-> server.closed, removed |-> FALSE,
                 error |-> FALSE]
           a == Stream!Loop(Stream!RequestTurn, b, run)
           m == server.next + Stream!Cardinality(run)
           starts == ~a.removed /\ a.closed /\ a.payload # 0
           fails == a.error \/ (~a.removed /\ a.closed /\ a.payload = 0)
           c == request.state = "closed"
<1>1. /\ f \in c2s /\ f.kind # "Open" /\ server # Stream!Gone /\ mode = "Server"
      /\ c2s' = c2s \ {f}
      /\ server' = IF a.removed \/ a.closed THEN Stream!Gone
                   ELSE [server EXCEPT !.next = m, !.reorder = r \ run, !.payload = a.payload]
      /\ s2c' = s2c \cup (IF fails THEN {Stream!Close(1, FALSE)} ELSE {})
      /\ handler' = IF starts THEN "running" ELSE handler
      /\ heard' = IF starts THEN <<a.payload>> ELSE heard
      /\ heard_end' = IF starts THEN "end" ELSE heard_end
      /\ UNCHANGED <<mode, request, client, inbox, inbox_open, expiring, response, client_end,
                     got, client_cut, server_inbox, server_inbox_open, replied, server_cut>>
  BY DEF Stream!RequestReceive, Stream!ToClient, Stream!client_vars
<1>2. server \in ServerStates /\ server.next \in Nat \ {0}
  <2>1. server \in ServerStates
    BY <1>1 DEF StreamInv, StreamTypes
  <2> QED
    BY <2>1 DEF ServerStates
<1>3. /\ handler = "none" /\ replied = 0 /\ request.state # "idle" /\ request.sent = 1 /\ c
      /\ server.payload = IF server.next >= 2 THEN 1 ELSE 0
      /\ Stream!Open \notin c2s /\ heard = <<>> /\ heard_end = "no"
  BY <1>1 DEF StreamInv, StreamStage, RequestFlow
<1>4. b \in RequestAcc /\ RequestTurns(b, server.next)
  <2>1. server.closed = FALSE /\ server.payload \in Nat
    BY <1>2 DEF ServerStates
  <2> QED
    BY <1>3, <2>1 DEF RequestAcc, RequestTurns
<1>5. IsBuffer(r) /\ r \subseteq StreamFrames /\ \A g \in r : IsAsk(g, 1, c) /\ g.kind # "Open"
  <2>1. IsAsk(f, 1, c) /\ f \in StreamFrames
    <3>1. IsAsk(f, 1, c)
      BY <1>1, <1>3 DEF StreamInv, AsksKnown
    <3> QED
      BY <3>1, FrameFacts
  <2>2. IsBuffer(server.reorder)
    BY <1>1 DEF StreamInv, AsksKnown
  <2>3. IsBuffer(r) /\ \A g \in r : g \in server.reorder \/ g = f
    BY <2>1, <2>2, InsertFacts
  <2>4. r \subseteq StreamFrames
    BY <2>3 DEF IsBuffer
  <2>5. \A g \in server.reorder : IsAsk(g, 1, c) /\ g.kind # "Open"
    BY <1>1, <1>3 DEF StreamInv, AsksKnown
  <2> QED
    BY <1>1, <2>1, <2>3, <2>4, <2>5
<1>6. a \in RequestAcc /\ m \in Nat \ {0} /\ run \subseteq r /\ RequestTurns(a, m)
  <2> HIDE DEF r, b, c
  <2> QED
    BY <1>2, <1>4, <1>5, RequestRuns
<1> HIDE DEF r, run, a, m
<1>7. /\ a.removed = FALSE /\ a.error = FALSE /\ a.closed \in BOOLEAN /\ a.payload \in Nat
      /\ a.payload = IF m >= 2 THEN 1 ELSE 0
      /\ a.closed => a.payload = 1
  BY <1>6 DEF RequestAcc, RequestTurns
<1>8. /\ starts = a.closed /\ ~fails
      /\ a.closed => a.payload = 1
  BY <1>7
<1>9. CASE a.closed
  <2>1. /\ server' = Stream!Gone /\ s2c' = s2c /\ handler' = "running"
        /\ heard' = <<1>> /\ heard_end' = "end"
    BY <1>1, <1>7, <1>8, <1>9
  <2>2. <<1>> \in Seq(Nat) /\ Len(<<1>>) = 1
    OBVIOUS
  <2>3. StreamTypes'
    BY <1>1, <2>1, <2>2 DEF StreamInv, StreamTypes
  <2>4. StreamStage'
    BY <1>1, <1>3, <2>1 DEF StreamInv, StreamStage
  <2>5. AsksKnown' /\ RequestsFlow' /\ RequestFlow'
    BY <1>1, <1>3, <2>1 DEF StreamInv, AsksKnown, RequestsFlow, RequestFlow
  <2>6. HandlerHonest'
    BY <1>1, <1>3, <2>1, <2>2 DEF HandlerHonest
  <2>7. ServerMoves
    BY <1>1, <1>3, <2>1 DEF StreamInv, StreamTypes, StreamStage, ServerMoves, Forth
  <2>8. RepliesKnown' /\ RepliesFlow' /\ AnswerFlow' /\ ClientHonest'
    BY <2>1, <2>7, ClientViewStays
  <2> QED
    BY <1>1, <1>3, <2>1, <2>3, <2>4, <2>5, <2>6, <2>8 DEF StreamInv
<1>10. CASE ~a.closed
  <2>1. /\ server' = [server EXCEPT !.next = m, !.reorder = r \ run, !.payload = a.payload]
        /\ s2c' = s2c /\ handler' = handler /\ heard' = heard /\ heard_end' = heard_end
    BY <1>1, <1>7, <1>8, <1>10
  <2>2. r \ run \in SUBSET StreamFrames
    BY <1>5
  <2>3. /\ server' \in ServerStates /\ server'.next = m /\ server'.reorder = r \ run
        /\ server'.payload = a.payload
    BY <1>2, <1>6, <1>7, <2>1, <2>2 DEF ServerStates
  <2>4. StreamTypes'
    <3>1. server' \in ServerStates
      BY <2>3
    <3>2. UNCHANGED <<mode, request, client, inbox, inbox_open, expiring, response, client_end,
                      got, client_cut, server_inbox, server_inbox_open, replied, server_cut,
                      handler, heard, heard_end>>
      BY <1>1, <2>1
    <3> QED
      BY <3>1, <3>2 DEF StreamInv, StreamTypes
  <2>5. StreamStage'
    BY <1>1, <1>3, <2>1 DEF StreamInv, StreamStage
  <2>6. AsksKnown'
    <3>1. \A g \in c2s' : IsAsk(g, request'.sent, request'.state = "closed")
      BY <1>1 DEF StreamInv, AsksKnown
    <3>2. IsBuffer(r \ run)
      BY <1>5 DEF IsBuffer
    <3>3. \A g \in r \ run : IsAsk(g, request'.sent, request'.state = "closed") /\ g.kind # "Open"
      BY <1>1, <1>3, <1>5
    <3> QED
      BY <2>3, <3>1, <3>2, <3>3 DEF AsksKnown
  <2>7. RequestsFlow' /\ RequestFlow' /\ HandlerHonest'
    BY <1>1, <1>3, <1>7, <2>1, <2>3
       DEF StreamInv, RequestsFlow, RequestFlow, HandlerHonest
  <2>8. ServerMoves
    BY <1>1, <1>3, <2>1 DEF StreamInv, StreamTypes, StreamStage, ServerMoves, Forth
  <2>9. RepliesKnown' /\ RepliesFlow' /\ AnswerFlow' /\ ClientHonest'
    BY <2>1, <2>8, ClientViewStays
  <2> QED
    BY <1>1, <1>3, <2>1, <2>4, <2>5, <2>6, <2>7, <2>9 DEF StreamInv
<1> QED
  BY <1>9, <1>10

\* A frame arrives that is too many,
LEMMA KeepsServerOverflow ==
    ASSUME StreamInv, NEW f, Stream!ServerOverflow(f)
    PROVE  StreamInv'
<1>1. /\ f \in c2s /\ server # Stream!Gone
      /\ c2s' = c2s \ {f} /\ server' = Stream!Gone /\ server_inbox_open' = FALSE
      /\ server_cut' = TRUE
      /\ UNCHANGED <<mode, s2c, request, client, inbox, inbox_open, expiring, response, client_end,
                     got, client_cut, server_inbox, handler, replied, heard, heard_end>>
  BY DEF Stream!ServerOverflow, Stream!client_vars
<1>a. StreamTypes'
  <2>1. server' = Stream!Gone /\ server_inbox_open' \in BOOLEAN /\ server_cut' \in BOOLEAN
    BY <1>1
  <2>2. UNCHANGED <<mode, request, client, inbox, inbox_open, expiring, response, client_end,
                    got, client_cut, server_inbox, handler, replied, heard, heard_end>>
    BY <1>1
  <2> QED
    BY <2>1, <2>2 DEF StreamInv, StreamTypes
<1>b. StreamStage'
  BY <1>1 DEF StreamInv, StreamStage
<1>2. StreamTypes' /\ StreamStage'
  BY <1>a, <1>b
<1>3. AsksKnown' /\ RequestFlow' /\ HandlerHonest'
  BY <1>1 DEF StreamInv, AsksKnown, RequestFlow, HandlerHonest
<1>4. RequestsFlow'
  BY <1>1 DEF StreamInv, RequestsFlow, ServerWay
<1>5. ServerMoves
  BY <1>1 DEF StreamInv, StreamTypes, StreamStage, ServerMoves, Forth
<1>6. RepliesKnown' /\ RepliesFlow' /\ AnswerFlow' /\ ClientHonest'
  BY <1>1, <1>5, ClientViewStays
<1> QED
  BY <1>2, <1>3, <1>4, <1>6 DEF StreamInv

\* or of no stream.
LEMMA KeepsServerIgnore ==
    ASSUME StreamInv, NEW f, Stream!ServerIgnore(f)
    PROVE  StreamInv'
<1>1. /\ f \in c2s /\ server = Stream!Gone
      /\ c2s' = c2s \ {f}
      /\ UNCHANGED <<mode, s2c, request, client, inbox, inbox_open, expiring, response, client_end,
                     got, client_cut, server, server_inbox, server_inbox_open, handler, replied,
                     heard, heard_end, server_cut>>
  BY DEF Stream!ServerIgnore, Stream!client_vars
<1>2. StreamTypes' /\ StreamStage'
  BY <1>1 DEF StreamInv, StreamTypes, StreamStage
<1>3. AsksKnown' /\ RequestFlow' /\ HandlerHonest' /\ RequestsFlow'
  BY <1>1 DEF StreamInv, AsksKnown, RequestFlow, HandlerHonest, RequestsFlow
<1>4. RepliesKnown' /\ RepliesFlow' /\ AnswerFlow' /\ ClientHonest'
  BY <1>1 DEF StreamInv, RepliesKnown, RepliesFlow, AnswerFlow, ClientHonest
<1> QED
  BY <1>2, <1>3, <1>4 DEF StreamInv

\* Open is the first frame that the server accepts,
LEMMA KeepsServerOpen ==
    ASSUME StreamInv, Stream!ServerOpen
    PROVE  StreamInv'
<1> DEFINE new == [next |-> 1, reorder |-> {}, payload |-> 0, closed |-> FALSE]
<1>1. /\ Stream!Open \in c2s /\ server = Stream!Gone /\ mode # "Unknown"
      /\ c2s' = c2s \ {Stream!Open} /\ server' = new
      /\ server_inbox_open' = (mode # "Server")
      /\ handler' = IF mode = "Server" THEN "none" ELSE "running"
      /\ UNCHANGED <<mode, s2c, request, client, inbox, inbox_open, expiring, response, client_end,
                     got, client_cut, server_inbox, replied, heard, heard_end, server_cut>>
  BY DEF Stream!ServerOpen, Stream!client_vars
<1>2. /\ new \in ServerStates /\ new.next = 1 /\ new.reorder = {} /\ new.payload = 0
      /\ new # Stream!Gone
  BY DEF ServerStates, Stream!Gone
<1>3. /\ handler = "none" /\ replied = 0 /\ heard = <<>> /\ heard_end = "no"
      /\ server_inbox = <<>> /\ request.state # "idle"
  BY <1>1 DEF StreamInv, StreamStage
<1> HIDE DEF new
<1>4. StreamTypes'
  BY <1>1, <1>2 DEF StreamInv, StreamTypes
<1>5. StreamStage'
  BY <1>1, <1>2, <1>3 DEF StreamInv, StreamStage
<1>6. AsksKnown' /\ RequestFlow' /\ HandlerHonest'
  BY <1>1, <1>2, <1>3 DEF StreamInv, AsksKnown, RequestFlow, HandlerHonest, IsBuffer
<1>7. RequestsFlow'
  <2>1. request.sent \in Nat
    BY DEF StreamInv, StreamTypes
  <2>2. ItemsFrom(<<>>, 0) /\ ~EndsInFailure(<<>>) /\ Len(<<>>) = 0
    BY EmptySeq DEF ItemsFrom, EndsInFailure
  <2>3. ServerWay(<<>>, TRUE, FALSE, 1, 0, server_cut, request.sent, request.state = "closed")
    BY <2>1, <2>2 DEF ServerWay
  <2> QED
    BY <1>1, <1>2, <1>3, <2>2, <2>3 DEF RequestsFlow
<1>8. ServerMoves
  BY <1>1, <1>3 DEF StreamInv, StreamTypes, StreamStage, ServerMoves, Forth
<1>9. RepliesKnown' /\ RepliesFlow' /\ AnswerFlow' /\ ClientHonest'
  BY <1>1, <1>8, ClientViewStays
<1> QED
  BY <1>4, <1>5, <1>6, <1>7, <1>9 DEF StreamInv

\* or refuses.
LEMMA KeepsServerRefuse ==
    ASSUME StreamInv, Stream!ServerRefuse
    PROVE  StreamInv'
<1>1. /\ mode = "Unknown"
      /\ c2s' = c2s \ {Stream!Open} /\ s2c' = s2c \cup {Stream!Close(1, FALSE)}
      /\ UNCHANGED <<mode, request, client, inbox, inbox_open, expiring, response, client_end,
                     got, client_cut, server, server_inbox, server_inbox_open, handler, replied,
                     heard, heard_end, server_cut>>
  BY DEF Stream!ServerRefuse, Stream!client_vars, Stream!server_vars, Stream!ToClient
<1>2. replied = 0 /\ handler = "none" /\ 0 + 1 = 1
  BY <1>1 DEF StreamInv, StreamStage
<1>3. StreamTypes' /\ StreamStage'
  BY <1>1 DEF StreamInv, StreamTypes, StreamStage
<1>4. AsksKnown' /\ RequestFlow' /\ HandlerHonest' /\ RequestsFlow'
  BY <1>1 DEF StreamInv, AsksKnown, RequestFlow, HandlerHonest, RequestsFlow
<1>5. ServerMoves
  BY <1>1, <1>2 DEF StreamInv, StreamTypes, StreamStage, ServerMoves, Forth
<1>6. IsReply(Stream!Close(1, FALSE), mode, handler', replied')
  BY <1>1, <1>2 DEF IsReply
<1>7. RepliesKnown' /\ RepliesFlow' /\ AnswerFlow' /\ ClientHonest'
  BY <1>1, <1>5, <1>6, ClientViewStays
<1> QED
  BY <1>3, <1>4, <1>7 DEF StreamInv

-----------------------------------------------------------------------------
(* The steps of the handler. *)

\* It reads,
LEMMA KeepsHandlerRead ==
    ASSUME StreamInv, Stream!HandlerRead
    PROVE  StreamInv' /\ Head(server_inbox) = Len(heard) + 1 /\ Len(heard) + 1 <= request.sent
<1>1. /\ handler \in {"running", "responding"} /\ heard_end = "no" /\ server_inbox # <<>>
      /\ heard' = Append(heard, Head(server_inbox)) /\ server_inbox' = Tail(server_inbox)
      /\ UNCHANGED <<mode, c2s, s2c, request, client, inbox, inbox_open, expiring, response,
                     client_end, got, client_cut, server, server_inbox_open, handler, replied,
                     heard_end, server_cut>>
  BY DEF Stream!HandlerRead, Stream!Reads, Stream!client_vars
<1>2. server_inbox \in Seq(Nat) /\ heard \in Seq(Nat) /\ request.sent \in Nat /\ Len(heard) \in Nat
  BY DEF StreamInv, StreamTypes
<1>3. /\ server_inbox' \in Seq(Nat) /\ Len(server_inbox') = Len(server_inbox) - 1
      /\ Len(server_inbox) \in Nat \ {0} /\ Head(server_inbox) \in Nat
  BY <1>1, <1>2, Tailed
<1>4. heard' \in Seq(Nat) /\ Len(heard') = Len(heard) + 1
  BY <1>1, <1>2, <1>3, Appended
<1>5. StreamTypes'
  BY <1>1, <1>3, <1>4 DEF StreamInv, StreamTypes
<1>6. StreamStage'
  BY <1>1 DEF StreamInv, StreamStage
<1>7. AsksKnown' /\ RequestFlow' /\ HandlerHonest'
  BY <1>1 DEF StreamInv, AsksKnown, RequestFlow, HandlerHonest
<1>8. RequestsFlow' /\ Head(server_inbox) = Len(heard) + 1 /\ Len(heard) + 1 <= request.sent
  <2>1. mode # "Server"
    BY <1>1 DEF StreamInv, RequestFlow
  <2>2. ServerWay(server_inbox, server_inbox_open, server = Stream!Gone, server.next, Len(heard),
                  server_cut, request.sent, request.state = "closed")
    BY <1>1, <2>1 DEF StreamInv, RequestsFlow
  <2>3. ItemsFrom(server_inbox, Len(heard)) /\ ~EndsInFailure(server_inbox)
    BY <2>2 DEF ServerWay
  <2>4. /\ ItemsFrom(server_inbox', Len(heard) + 1) /\ ~EndsInFailure(server_inbox')
        /\ Head(server_inbox) = Len(heard) + 1
    BY <1>1, <1>2, <2>3, ItemsShrink
  <2>5. Len(heard) + Len(server_inbox) = (Len(heard) + 1) + (Len(server_inbox) - 1)
    BY <1>2, <1>3
  <2>6. ServerWay(server_inbox', server_inbox_open, server = Stream!Gone, server.next,
                  Len(heard) + 1, server_cut, request.sent, request.state = "closed")
    BY <1>3, <2>2, <2>4, <2>5 DEF ServerWay
  <2>7. Len(heard) + 1 <= request.sent
    <3>1. Len(heard) + Len(server_inbox) <= request.sent
      BY <2>2 DEF ServerWay
    <3> QED
      BY <1>2, <1>3, <3>1
  <2> QED
    BY <1>1, <1>4, <2>4, <2>6, <2>7 DEF RequestsFlow
<1>9. RepliesKnown' /\ RepliesFlow' /\ AnswerFlow' /\ ClientHonest'
  BY <1>1 DEF StreamInv, RepliesKnown, RepliesFlow, AnswerFlow, ClientHonest
<1> QED
  BY <1>5, <1>6, <1>7, <1>8, <1>9 DEF StreamInv

\* sees the end, or drops the rest.
LEMMA KeepsHandlerEnds ==
    ASSUME StreamInv, Stream!HandlerSeesEnd \/ Stream!HandlerDropsRequests
    PROVE  StreamInv'
<1>1. /\ handler \in {"running", "responding"} /\ heard_end = "no"
      /\ UNCHANGED <<mode, c2s, s2c, request, client, inbox, inbox_open, expiring, response,
                     client_end, got, client_cut, server, server_inbox_open, handler, replied,
                     heard, server_cut>>
      /\ \/ server_inbox = <<>> /\ ~server_inbox_open /\ heard_end' = "end"
            /\ server_inbox' = server_inbox
         \/ heard_end' = "dropped" /\ server_inbox' = <<>>
  BY DEF Stream!HandlerSeesEnd, Stream!HandlerDropsRequests, Stream!Reads, Stream!client_vars
<1>2. StreamTypes'
  <2>1. heard_end' \in {"no", "end", "dropped"} /\ server_inbox' \in Seq(Nat)
    <3>1. <<>> \in Seq(Nat)
      OBVIOUS
    <3>2. server_inbox \in Seq(Nat)
      BY DEF StreamInv, StreamTypes
    <3> QED
      BY <1>1, <3>1, <3>2
  <2>2. UNCHANGED <<mode, c2s, s2c, request, client, inbox, inbox_open, expiring, response,
                    client_end, got, client_cut, server, server_inbox_open, handler, replied,
                    heard, server_cut>>
    BY <1>1
  <2> QED
    BY <2>1, <2>2 DEF StreamInv, StreamTypes
<1>3. StreamStage'
  BY <1>1 DEF StreamInv, StreamStage
<1>4. AsksKnown' /\ RequestFlow' /\ RequestsFlow'
  BY <1>1 DEF StreamInv, AsksKnown, RequestFlow, RequestsFlow
<1>5. HandlerHonest'
  <2>1. SUFFICES ASSUME heard_end' = "end", ~server_cut
                 PROVE  Len(heard) = request.sent /\ request.state = "closed"
    BY <1>1 DEF HandlerHonest
  <2>2. mode # "Server"
    BY <1>1 DEF StreamInv, RequestFlow
  <2>3. ServerWay(server_inbox, server_inbox_open, server = Stream!Gone, server.next, Len(heard),
                  server_cut, request.sent, request.state = "closed")
    BY <1>1, <2>2 DEF StreamInv, RequestsFlow
  <2>4. server_inbox = <<>> /\ ~server_inbox_open
    BY <1>1, <2>1
  <2>5. Len(heard) + Len(server_inbox) = request.sent /\ request.state = "closed"
    BY <2>1, <2>3, <2>4 DEF ServerWay
  <2>6. Len(server_inbox) = 0 /\ Len(heard) \in Nat
    BY <2>4, EmptySeq DEF StreamInv, StreamTypes
  <2> QED
    BY <2>5, <2>6
<1>6. RepliesKnown' /\ RepliesFlow' /\ AnswerFlow' /\ ClientHonest'
  BY <1>1 DEF StreamInv, RepliesKnown, RepliesFlow, AnswerFlow, ClientHonest
<1> QED
  BY <1>2, <1>3, <1>4, <1>5, <1>6 DEF StreamInv

\* Its task sends, and at its end takes the requests with it.
HandlerMoves ==
    /\ UNCHANGED <<mode, c2s, request, client, inbox, inbox_open, expiring, response, client_end,
                   got, client_cut, server, server_inbox_open, heard, server_cut>>
    /\ handler \in {"running", "responding"} /\ handler' \in {"responding", "done"}
    /\ \/ heard_end' = heard_end /\ server_inbox' = server_inbox
       \/ /\ heard_end' = IF heard_end = "no" THEN "dropped" ELSE heard_end
          /\ server_inbox' = <<>>
    /\ replied' \in Nat /\ replied <= replied'
    /\ mode = "Client" => handler' = "done" /\ replied' <= 1

\* Such a step keeps the invariant, when it sends what it may.
LEMMA KeepsHandlerMoves ==
    ASSUME StreamInv, HandlerMoves,
           \A f \in s2c' : f \in s2c \/ IsReply(f, mode, handler', replied')
    PROVE  StreamInv'
<1>1. StreamTypes'
  <2>1. /\ server_inbox' \in Seq(Nat) /\ heard_end' \in {"no", "end", "dropped"}
        /\ handler' \in {"none", "running", "responding", "done"} /\ replied' \in Nat
    <3>1. <<>> \in Seq(Nat)
      OBVIOUS
    <3>2. server_inbox \in Seq(Nat) /\ heard_end \in {"no", "end", "dropped"}
      BY DEF StreamInv, StreamTypes
    <3> QED
      BY <3>1, <3>2 DEF HandlerMoves
  <2>2. UNCHANGED <<mode, request, client, inbox, inbox_open, expiring, response, client_end,
                    got, client_cut, server, server_inbox_open, heard, server_cut>>
    BY DEF HandlerMoves
  <2> QED
    BY <2>1, <2>2 DEF StreamInv, StreamTypes
<1>2. StreamStage'
  BY DEF HandlerMoves, StreamInv, StreamStage
<1>3. AsksKnown'
  BY DEF HandlerMoves, StreamInv, AsksKnown
<1>4. RequestsFlow'
  <2>1. heard_end' = "no" => heard_end = "no" /\ server_inbox' = server_inbox
    BY DEF HandlerMoves
  <2>2. UNCHANGED <<mode, request, server, server_inbox_open, heard, server_cut>>
        /\ handler # "none"
    BY DEF HandlerMoves
  <2> QED
    BY <2>1, <2>2 DEF StreamInv, RequestsFlow
<1>5. RequestFlow' /\ HandlerHonest'
  BY DEF HandlerMoves, StreamInv, RequestFlow, HandlerHonest
<1>6. ServerMoves
  <2>1. handler # "none" /\ mode # "Unknown" /\ handler # "done" /\ replied \in Nat
    BY DEF HandlerMoves, StreamInv, StreamStage, StreamTypes
  <2> QED
    BY <2>1 DEF HandlerMoves, ServerMoves, Forth
<1>7. RepliesKnown' /\ RepliesFlow' /\ AnswerFlow' /\ ClientHonest'
  BY <1>6, ClientViewStays
<1> QED
  BY <1>1, <1>2, <1>3, <1>4, <1>5, <1>7 DEF StreamInv

\* Each thing that it sends.
LEMMA KeepsHandlerAnswer ==
    ASSUME StreamInv, NEW ok \in BOOLEAN, Stream!HandlerAnswer(ok)
    PROVE  StreamInv'
<1>1. /\ handler = "running" /\ mode = "Client" /\ handler' = "done"
      /\ replied' = IF ok THEN 1 ELSE 0
      /\ s2c' = s2c \cup ({Stream!Open} \cup (IF ok THEN {Stream!Data(1), Stream!Close(2, TRUE)}
                                                     ELSE {Stream!Close(1, FALSE)}))
      /\ heard_end' = (IF heard_end = "no" THEN "dropped" ELSE heard_end)
      /\ server_inbox' = <<>>
      /\ UNCHANGED <<mode, c2s, request, client, inbox, inbox_open, expiring, response, client_end,
                     got, client_cut, server, server_inbox_open, heard, server_cut>>
  BY DEF Stream!HandlerAnswer, Stream!ToClient, Stream!client_vars
<1>2. replied = 0
  BY <1>1 DEF StreamInv, StreamStage
<1>3. HandlerMoves
  BY <1>1, <1>2 DEF HandlerMoves
<1>4. \A f \in s2c' : f \in s2c \/ IsReply(f, mode, handler', replied')
  <2>1. /\ IsReply(Stream!Open, "Client", "done", 0) /\ IsReply(Stream!Open, "Client", "done", 1)
        /\ IsReply(Stream!Data(1), "Client", "done", 1)
        /\ IsReply(Stream!Close(2, TRUE), "Client", "done", 1)
        /\ IsReply(Stream!Close(1, FALSE), "Client", "done", 0)
    <3>1. 1 + 1 = 2 /\ 0 + 1 = 1 /\ 1 \in 1 .. 1
      OBVIOUS
    <3> QED
      BY <3>1 DEF IsReply
  <2> QED
    BY <1>1, <2>1
<1> QED
  BY <1>3, <1>4, KeepsHandlerMoves

\* Open, or Open and an error.
LEMMA KeepsStartReplies ==
    ASSUME StreamInv, NEW ok \in BOOLEAN, mode \in {"Bidi", "Server"}, Stream!StartReplies(ok)
    PROVE  StreamInv'
<1>1. /\ handler = "running" /\ handler' = IF ok THEN "responding" ELSE "done"
      /\ s2c' = s2c \cup ({Stream!Open} \cup (IF ok THEN {} ELSE {Stream!Close(1, FALSE)}))
      /\ heard_end' = (IF ~ok /\ heard_end = "no" THEN "dropped" ELSE heard_end)
      /\ server_inbox' = IF ok THEN server_inbox ELSE <<>>
      /\ UNCHANGED <<mode, c2s, request, client, inbox, inbox_open, expiring, response, client_end,
                     got, client_cut, server, server_inbox_open, replied, heard, server_cut>>
  BY DEF Stream!StartReplies, Stream!ToClient, Stream!client_vars
<1>2. replied = 0
  BY <1>1 DEF StreamInv, StreamStage
<1>3. HandlerMoves
  BY <1>1, <1>2 DEF HandlerMoves
<1>4. \A f \in s2c' : f \in s2c \/ IsReply(f, mode, handler', replied')
  <2>1. 0 + 1 = 1
    OBVIOUS
  <2> QED
    BY <1>1, <1>2, <2>1 DEF IsReply
<1> QED
  BY <1>3, <1>4, KeepsHandlerMoves

\* An item.
LEMMA KeepsSendReply ==
    ASSUME StreamInv, mode \in {"Bidi", "Server"}, Stream!SendReply
    PROVE  StreamInv'
<1>1. /\ handler = "responding" /\ replied' = replied + 1
      /\ s2c' = s2c \cup {Stream!Data(replied + 1)}
      /\ UNCHANGED <<mode, c2s, request, client, inbox, inbox_open, expiring, response, client_end,
                     got, client_cut, server, server_inbox, server_inbox_open, handler, heard,
                     heard_end, server_cut>>
  BY DEF Stream!SendReply, Stream!ToClient, Stream!client_vars
<1>2. /\ replied \in Nat /\ replied + 1 \in Nat /\ replied <= replied + 1
      /\ replied + 1 \in 1 .. replied + 1
  <2>1. replied \in Nat
    BY DEF StreamInv, StreamTypes
  <2> QED
    BY <2>1
<1>3. HandlerMoves
  BY <1>1, <1>2 DEF HandlerMoves
<1>4. IsReply(Stream!Data(replied + 1), mode, handler', replied')
  BY <1>1, <1>2 DEF IsReply
<1> QED
  BY <1>1, <1>3, <1>4, KeepsHandlerMoves

\* The end.
LEMMA KeepsEndReplies ==
    ASSUME StreamInv, NEW ok \in BOOLEAN, mode \in {"Bidi", "Server"}, Stream!EndReplies(ok)
    PROVE  StreamInv'
<1>1. /\ handler = "responding" /\ handler' = "done"
      /\ s2c' = s2c \cup {Stream!Close(replied + 1, ok)}
      /\ heard_end' = (IF heard_end = "no" THEN "dropped" ELSE heard_end)
      /\ server_inbox' = <<>>
      /\ UNCHANGED <<mode, c2s, request, client, inbox, inbox_open, expiring, response, client_end,
                     got, client_cut, server, server_inbox_open, replied, heard, server_cut>>
  BY DEF Stream!EndReplies, Stream!ToClient, Stream!client_vars
<1>2. replied \in Nat
  BY DEF StreamInv, StreamTypes
<1>3. HandlerMoves
  BY <1>1, <1>2 DEF HandlerMoves
<1>4. IsReply(Stream!Close(replied + 1, ok), mode, handler', replied')
  <2>1. CASE ok = TRUE
    BY <1>1, <2>1 DEF IsReply
  <2>2. CASE ok = FALSE
    BY <1>1, <2>2 DEF IsReply
  <2> QED
    BY <2>1, <2>2
<1> QED
  BY <1>1, <1>3, <1>4, KeepsHandlerMoves

\* Together.
LEMMA KeepsHandling == ASSUME StreamInv, Stream!Handling PROVE StreamInv'
<1>1. ASSUME NEW ok \in BOOLEAN, Stream!BidiRespond(ok) \/ Stream!ServerRespond(ok)
      PROVE  StreamInv'
  <2>1. mode \in {"Bidi", "Server"} /\ Stream!StartReplies(ok)
    BY <1>1 DEF Stream!BidiRespond, Stream!ServerRespond
  <2> QED
    BY <2>1, KeepsStartReplies
<1>2. ASSUME NEW ok \in BOOLEAN, Stream!BidiEnd(ok) \/ Stream!ServerEnd(ok)
      PROVE  StreamInv'
  <2>1. mode \in {"Bidi", "Server"} /\ Stream!EndReplies(ok)
    BY <1>2 DEF Stream!BidiEnd, Stream!ServerEnd
  <2> QED
    BY <2>1, KeepsEndReplies
<1>3. ASSUME Stream!BidiReply \/ Stream!ServerReply
      PROVE  StreamInv'
  <2>1. mode \in {"Bidi", "Server"} /\ Stream!SendReply
    BY <1>3 DEF Stream!BidiReply, Stream!ServerReply
  <2> QED
    BY <2>1, KeepsSendReply
<1> QED
  BY <1>1, <1>2, <1>3, KeepsHandlerRead, KeepsHandlerEnds, KeepsHandlerAnswer DEF Stream!Handling

-----------------------------------------------------------------------------
(* The steps of the client. *)

\* What an opened stream is at the client.
LEMMA OpenedFacts ==
    /\ Stream!OpenedClient \in ClientStates /\ Stream!OpenedClient # Stream!Gone
    /\ Stream!OpenedClient.next = 0 /\ Stream!OpenedClient.reorder = {}
    /\ Stream!OpenedClient.payload = 0
BY DEF Stream!OpenedClient, Stream!Gone, ClientStates

\* A stream is opened, with n items and perhaps its end.
OpeningStep(n, st) ==
    /\ request.state = "idle" /\ n \in Nat /\ st \in {"open", "closed"}
    /\ request' = [sent |-> n, state |-> st]
    /\ client' = Stream!OpenedClient
    /\ mode # "Client" => inbox_open' = TRUE
    /\ inbox_open' \in BOOLEAN
    /\ mode = "Server" => n = 1 /\ st = "closed"
    /\ \A f \in c2s' : f \in c2s \/ IsAsk(f, n, st = "closed")
    /\ UNCHANGED <<mode, s2c, inbox, expiring, response, client_end, got, client_cut,
                   server, server_inbox, server_inbox_open, handler, replied, heard, heard_end,
                   server_cut>>

\* It keeps the invariant.
LEMMA KeepsOpeningStep ==
    ASSUME StreamInv, NEW n, NEW st, OpeningStep(n, st)
    PROVE  StreamInv'
<1>1. /\ c2s = {} /\ client = Stream!Gone /\ inbox = <<>> /\ got = <<>> /\ response = "none"
      /\ request.sent = 0 /\ server = Stream!Gone /\ handler = "none" /\ ~expiring /\ replied = 0
      /\ request.state = "idle"
  BY DEF StreamInv, StreamStage, OpeningStep
<1>2. n \in Nat /\ request'.sent = n /\ request'.state = st /\ st \in {"open", "closed"}
  BY DEF OpeningStep
<1>3. StreamTypes'
  <2>1. /\ request' \in [sent : Nat, state : {"idle", "open", "closed"}]
        /\ client' \in ClientStates /\ inbox_open' \in BOOLEAN
    BY OpenedFacts DEF OpeningStep
  <2>2. UNCHANGED <<mode, inbox, expiring, response, client_end, got, client_cut,
                    server, server_inbox, server_inbox_open, handler, replied, heard, heard_end,
                    server_cut>>
    BY DEF OpeningStep
  <2> QED
    BY <2>1, <2>2 DEF StreamInv, StreamTypes
<1>4. StreamStage'
  BY <1>1, <1>2 DEF StreamInv, StreamStage, OpeningStep
<1>5. RepliesKnown'
  BY OpenedFacts DEF StreamInv, RepliesKnown, OpeningStep, IsBuffer
<1>6. RepliesFlow'
  <2>1. SUFFICES ASSUME mode # "Client" PROVE RepliesFlow'
    BY DEF RepliesFlow, OpeningStep
  <2>2. ItemsFrom(<<>>, 0) /\ ~EndsInFailure(<<>>) /\ Len(<<>>) = 0
    BY EmptySeq DEF ItemsFrom, EndsInFailure
  <2>3. ClientWay(<<>>, TRUE, expiring, FALSE, 0, 0, client_cut, FALSE, 0, handler = "done")
    BY <2>2 DEF ClientWay
  <2> QED
    BY <1>1, <1>2, <2>1, <2>2, <2>3, OpenedFacts DEF RepliesFlow, OpeningStep
<1>7. AnswerFlow' /\ ClientHonest'
  BY <1>1, OpenedFacts DEF StreamInv, AnswerFlow, ClientHonest, OpeningStep
<1>8. RequestFlow'
  BY <1>1, <1>2 DEF RequestFlow, OpeningStep
<1>9. ClientMoves
  <2>1. request \in [sent : Nat, state : {"idle", "open", "closed"}]
    BY DEF StreamInv, StreamTypes
  <2> QED
    BY <1>1, <1>2, <2>1 DEF ClientMoves, Ahead, OpeningStep
<1>10. AsksKnown' /\ RequestsFlow' /\ HandlerHonest'
  <2>1. \A f \in c2s' : f \in c2s \/ IsAsk(f, request'.sent, request'.state = "closed")
    BY <1>2 DEF OpeningStep
  <2> QED
    BY <1>9, <2>1, ServerViewStays
<1> QED
  BY <1>3, <1>4, <1>5, <1>6, <1>7, <1>8, <1>10 DEF StreamInv

\* The three calls that open one do this.
LEMMA KeepsOpening == ASSUME StreamInv, Stream!Opening PROVE StreamInv'
<1>1. request \in [sent : Nat, state : {"idle", "open", "closed"}] /\ inbox_open \in BOOLEAN
  BY DEF StreamInv, StreamTypes
<1>2. request.state = "idle" => request = [sent |-> 0, state |-> "idle"]
  BY <1>1 DEF StreamInv, StreamStage
<1>3. CASE Stream!OpenClientStreaming
  <2>1. IsAsk(Stream!Open, 0, FALSE)
    BY DEF IsAsk
  <2>2. OpeningStep(0, "open")
    BY <1>1, <1>2, <1>3, <2>1
       DEF OpeningStep, Stream!OpenClientStreaming, Stream!ToServer, Stream!server_vars, IsAsk
  <2> QED
    BY <2>2, KeepsOpeningStep
<1>4. CASE Stream!OpenServerStreaming
  <2>1. /\ IsAsk(Stream!Open, 1, TRUE) /\ IsAsk(Stream!Data(1), 1, TRUE)
        /\ IsAsk(Stream!Close(2, TRUE), 1, TRUE)
    <3>1. 1 + 1 = 2 /\ 1 \in 1 .. 1
      OBVIOUS
    <3> QED
      BY <3>1 DEF IsAsk
  <2>2. /\ request.state = "idle" /\ request' = [sent |-> 1, state |-> "closed"]
        /\ client' = Stream!OpenedClient /\ inbox_open' = TRUE
        /\ c2s' = c2s \cup {Stream!Open, Stream!Data(1), Stream!Close(2, TRUE)}
        /\ UNCHANGED <<mode, s2c, inbox, expiring, response, client_end, got, client_cut,
                       server, server_inbox, server_inbox_open, handler, replied, heard, heard_end,
                       server_cut>>
    BY <1>4 DEF Stream!OpenServerStreaming, Stream!ToServer, Stream!server_vars
  <2>3. \A f \in c2s' : f \in c2s \/ IsAsk(f, 1, TRUE)
    BY <2>1, <2>2
  <2>4. OpeningStep(1, "closed")
    BY <2>2, <2>3 DEF OpeningStep
  <2> QED
    BY <2>4, KeepsOpeningStep
<1>5. CASE Stream!OpenBidiStreaming
  <2>1. IsAsk(Stream!Open, 0, FALSE)
    BY DEF IsAsk
  <2>2. OpeningStep(0, "open")
    BY <1>1, <1>2, <1>5, <2>1
       DEF OpeningStep, Stream!OpenBidiStreaming, Stream!ToServer, Stream!server_vars, IsAsk
  <2> QED
    BY <2>2, KeepsOpeningStep
<1> QED
  BY <1>3, <1>4, <1>5 DEF Stream!Opening

\* An item is sent, or the end.
LEMMA KeepsRequests == ASSUME StreamInv, Stream!Requests PROVE StreamInv'
<1>1. /\ request.state = "open"
      /\ \/ /\ request' = [request EXCEPT !.sent = @ + 1]
            /\ c2s' = c2s \cup {Stream!Data(request.sent + 1)}
         \/ /\ request' = [request EXCEPT !.state = "closed"]
            /\ c2s' = c2s \cup {Stream!Close(request.sent + 1, TRUE)}
      /\ UNCHANGED <<mode, s2c, client, inbox, inbox_open, expiring, response, client_end, got,
                     client_cut, server, server_inbox, server_inbox_open, handler, replied, heard,
                     heard_end, server_cut>>
  BY DEF Stream!Requests, Stream!SendItem, Stream!CloseRequests, Stream!ToServer,
         Stream!server_vars
<1>2. request \in [sent : Nat, state : {"idle", "open", "closed"}]
  BY DEF StreamInv, StreamTypes
<1>3. /\ request' \in [sent : Nat, state : {"idle", "open", "closed"}]
      /\ Ahead(request.sent, request.state = "closed", request'.sent, request'.state = "closed")
      /\ request'.state # "idle" /\ request.state # "idle" /\ request.state # "closed"
  <2>1. /\ request' \in [sent : Nat, state : {"idle", "open", "closed"}]
        /\ request.sent \in Nat /\ request'.sent \in Nat /\ request.sent <= request'.sent
        /\ request'.state # "idle"
    <3>1. CASE request' = [request EXCEPT !.sent = @ + 1]
      BY <1>1, <1>2, <3>1
    <3>2. CASE request' = [request EXCEPT !.state = "closed"]
      BY <1>1, <1>2, <3>2
    <3> QED
      BY <1>1, <3>1, <3>2
  <2> QED
    BY <1>1, <2>1 DEF Ahead
<1>4. \A f \in c2s' : f \in c2s \/ IsAsk(f, request'.sent, request'.state = "closed")
  <2>1. CASE /\ request' = [request EXCEPT !.sent = @ + 1]
             /\ c2s' = c2s \cup {Stream!Data(request.sent + 1)}
    <3>1. request'.sent = request.sent + 1 /\ request.sent + 1 \in 1 .. request.sent + 1
      BY <1>2, <2>1
    <3> QED
      BY <2>1, <3>1 DEF IsAsk
  <2>2. CASE /\ request' = [request EXCEPT !.state = "closed"]
             /\ c2s' = c2s \cup {Stream!Close(request.sent + 1, TRUE)}
    <3>1. request'.sent = request.sent /\ request'.state = "closed"
      BY <1>2, <2>2
    <3> QED
      BY <2>2, <3>1 DEF IsAsk
  <2> QED
    BY <1>1, <2>1, <2>2
<1>5. StreamTypes'
  BY <1>1, <1>3 DEF StreamInv, StreamTypes
<1>6. mode # "Server"
  BY <1>1 DEF StreamInv, RequestFlow
<1>7. StreamStage'
  <2>1. Stream!Open \in c2s' => Stream!Open \in c2s
    <3>1. /\ Stream!Open # Stream!Data(request.sent + 1)
          /\ Stream!Open # Stream!Close(request.sent + 1, TRUE)
      BY DEF Stream!Open, Stream!Data, Stream!Close
    <3> QED
      BY <1>1, <3>1
  <2> QED
    BY <1>1, <1>3, <2>1 DEF StreamInv, StreamStage
<1>8. RepliesKnown' /\ AnswerFlow' /\ ClientHonest' /\ RequestFlow'
  BY <1>1, <1>6 DEF StreamInv, RepliesKnown, AnswerFlow, ClientHonest, RequestFlow
<1>9. RepliesFlow'
  BY <1>1, <1>3 DEF StreamInv, RepliesFlow
<1>10. ClientMoves
  BY <1>1, <1>2, <1>3 DEF ClientMoves
<1>11. AsksKnown' /\ RequestsFlow' /\ HandlerHonest'
  BY <1>4, <1>10, ServerViewStays
<1> QED
  BY <1>5, <1>7, <1>8, <1>9, <1>11 DEF StreamInv

\* The server and its handler see nothing of a step.
LEMMA ServerSame ==
    ASSUME StreamInv,
           UNCHANGED <<mode, c2s, request, server, server_inbox, server_inbox_open, handler,
                       replied, heard, heard_end, server_cut>>
    PROVE  AsksKnown' /\ RequestsFlow' /\ RequestFlow' /\ HandlerHonest'
BY DEF StreamInv, AsksKnown, RequestsFlow, RequestFlow, HandlerHonest

\* They are told to stop.
LEMMA ServerCancelled ==
    ASSUME StreamInv,
           UNCHANGED <<mode, request, server, server_inbox, server_inbox_open, handler,
                       replied, heard, heard_end, server_cut>>,
           c2s' = c2s \/ c2s' = c2s \cup {Stream!Cancel}
    PROVE  /\ AsksKnown' /\ RequestsFlow' /\ RequestFlow' /\ HandlerHonest'
           /\ Stream!Open \in c2s' => Stream!Open \in c2s
<1>1. Stream!Open # Stream!Cancel
  BY DEF Stream!Open, Stream!Cancel
<1>2. IsAsk(Stream!Cancel, request.sent, request.state = "closed")
  BY DEF IsAsk
<1> QED
  BY <1>1, <1>2 DEF StreamInv, AsksKnown, RequestsFlow, RequestFlow, HandlerHonest

\* What the client keeps.
LEMMA ClientFacts ==
    ASSUME StreamInv
    PROVE  /\ inbox \in Seq(Nat) /\ got \in Seq(Nat) /\ replied \in Nat
           /\ Len(inbox) \in Nat /\ Len(got) \in Nat
<1>1. inbox \in Seq(Nat) /\ got \in Seq(Nat) /\ replied \in Nat
  BY DEF StreamInv, StreamTypes
<1> QED
  BY <1>1

\* The application reads an item,
LEMMA KeepsReadItem ==
    ASSUME StreamInv, Stream!ReadItem
    PROVE  StreamInv' /\ mode # "Client" /\ Head(inbox) = Len(got) + 1 /\ Len(got) + 1 <= replied
<1>1. /\ client_end = "no" /\ inbox # <<>> /\ Head(inbox) # TypedFailure
      /\ got' = Append(got, Head(inbox)) /\ inbox' = Tail(inbox)
      /\ UNCHANGED <<mode, c2s, s2c, request, client, inbox_open, expiring, response, client_end,
                     client_cut, server, server_inbox, server_inbox_open, handler, replied, heard,
                     heard_end, server_cut>>
  BY DEF Stream!ReadItem, Stream!server_vars, Stream!Failure, TypedFailure
<1>2. mode # "Client" /\ request.state # "idle"
  BY <1>1 DEF StreamInv, AnswerFlow, StreamStage
<1>3. /\ inbox \in Seq(Nat) /\ got \in Seq(Nat) /\ replied \in Nat
      /\ Len(inbox) \in Nat /\ Len(got) \in Nat
  BY ClientFacts
<1>4. /\ inbox' \in Seq(Nat) /\ Len(inbox') = Len(inbox) - 1 /\ Len(inbox) # 0
      /\ Head(inbox) \in Nat /\ Head(inbox) = inbox[1]
  BY <1>1, <1>3, Tailed
<1>5. got' \in Seq(Nat) /\ Len(got') = Len(got) + 1
  BY <1>1, <1>3, <1>4, Appended
<1>6. ClientWay(inbox, inbox_open, expiring, client = Stream!Gone, client.next, Len(got),
                client_cut, FALSE, replied, handler = "done")
  BY <1>1, <1>2 DEF StreamInv, RepliesFlow
<1>7. /\ ItemsFrom(inbox', Len(got) + 1) /\ Head(inbox) = Len(got) + 1
      /\ EndsInFailure(inbox') <=> EndsInFailure(inbox)
  <2>1. ItemsFrom(inbox, Len(got))
    BY <1>6 DEF ClientWay
  <2> QED
    BY <1>1, <1>3, <2>1, ItemsShrink
<1>8. Len(got) + Len(inbox) = (Len(got) + 1) + (Len(inbox) - 1)
  BY <1>3
<1>9. Len(got) + 1 <= replied
  <2>1. EndsInFailure(inbox) => Len(inbox) # 1
    BY <1>1, <1>4 DEF EndsInFailure
  <2>2. /\ EndsInFailure(inbox) => Len(got) + Len(inbox) <= replied + 1
        /\ ~EndsInFailure(inbox) => Len(got) + Len(inbox) <= replied
    BY <1>6 DEF ClientWay
  <2>3. Len(inbox) # 1 \/ ~EndsInFailure(inbox)
    BY <2>1
  <2> QED
    BY <1>3, <1>4, <2>2, <2>3
<1>10. ClientWay(inbox', inbox_open, expiring, client = Stream!Gone, client.next, Len(got) + 1,
                 client_cut, FALSE, replied, handler = "done")
  BY <1>4, <1>6, <1>7, <1>8 DEF ClientWay
<1>11. RepliesFlow'
  BY <1>1, <1>2, <1>5, <1>10 DEF RepliesFlow
<1>12. StreamTypes'
  BY <1>1, <1>4, <1>5 DEF StreamInv, StreamTypes
<1>13. StreamStage'
  BY <1>1, <1>2 DEF StreamInv, StreamStage
<1>14. RepliesKnown' /\ AnswerFlow' /\ ClientHonest'
  BY <1>1, <1>2 DEF StreamInv, RepliesKnown, AnswerFlow, ClientHonest
<1>15. AsksKnown' /\ RequestsFlow' /\ RequestFlow' /\ HandlerHonest'
  BY <1>1, ServerSame
<1> QED
  BY <1>2, <1>7, <1>9, <1>11, <1>12, <1>13, <1>14, <1>15 DEF StreamInv

\* an error,
LEMMA KeepsReadFailure == ASSUME StreamInv, Stream!ReadFailure PROVE StreamInv'
<1>1. /\ client_end = "no" /\ inbox # <<>> /\ client_end' = "error" /\ inbox' = Tail(inbox)
      /\ UNCHANGED <<mode, c2s, s2c, request, client, inbox_open, expiring, response, got,
                     client_cut, server, server_inbox, server_inbox_open, handler, replied, heard,
                     heard_end, server_cut>>
  BY DEF Stream!ReadFailure, Stream!server_vars
<1>2. mode # "Client" /\ request.state # "idle"
  BY <1>1 DEF StreamInv, AnswerFlow, StreamStage
<1>3. inbox' \in Seq(Nat)
  BY <1>1, ClientFacts, Tailed
<1>4. StreamTypes'
  BY <1>1, <1>3 DEF StreamInv, StreamTypes
<1>5. StreamStage'
  BY <1>1, <1>2 DEF StreamInv, StreamStage
<1>6. RepliesKnown' /\ RepliesFlow' /\ AnswerFlow' /\ ClientHonest'
  BY <1>1, <1>2 DEF StreamInv, RepliesKnown, RepliesFlow, AnswerFlow, ClientHonest
<1>7. AsksKnown' /\ RequestsFlow' /\ RequestFlow' /\ HandlerHonest'
  BY <1>1, ServerSame
<1> QED
  BY <1>4, <1>5, <1>6, <1>7 DEF StreamInv

\* the end,
LEMMA KeepsSeeEnd == ASSUME StreamInv, Stream!SeeEnd PROVE StreamInv'
<1>1. /\ client_end = "no" /\ mode # "Client" /\ request.state # "idle"
      /\ inbox = <<>> /\ ~inbox_open /\ client_end' = "end"
      /\ UNCHANGED <<mode, c2s, s2c, request, client, inbox, inbox_open, expiring, response, got,
                     client_cut, server, server_inbox, server_inbox_open, handler, replied, heard,
                     heard_end, server_cut>>
  BY DEF Stream!SeeEnd, Stream!server_vars
<1>2. ClientWay(inbox, inbox_open, expiring, client = Stream!Gone, client.next, Len(got),
                client_cut, FALSE, replied, handler = "done")
  BY <1>1 DEF StreamInv, RepliesFlow
<1>3. ~EndsInFailure(inbox) /\ Len(inbox) = 0
  BY <1>1, EmptySeq DEF EndsInFailure
<1>4. ~client_cut => Len(got) = replied /\ handler = "done"
  <2>1. ~client_cut => Len(got) + Len(inbox) = replied /\ handler = "done"
    BY <1>1, <1>2, <1>3 DEF ClientWay
  <2> QED
    BY <1>3, <2>1, ClientFacts
<1>5. StreamTypes'
  BY <1>1 DEF StreamInv, StreamTypes
<1>6. StreamStage'
  BY <1>1 DEF StreamInv, StreamStage
<1>7. RepliesKnown' /\ RepliesFlow' /\ AnswerFlow' /\ ClientHonest'
  BY <1>1, <1>4 DEF StreamInv, RepliesKnown, RepliesFlow, AnswerFlow, ClientHonest
<1>8. AsksKnown' /\ RequestsFlow' /\ RequestFlow' /\ HandlerHonest'
  BY <1>1, ServerSame
<1> QED
  BY <1>5, <1>6, <1>7, <1>8 DEF StreamInv

\* or the answer of a client-streaming call.
LEMMA KeepsTakeResponse ==
    ASSUME StreamInv, Stream!TakeResponse
    PROVE  StreamInv' /\ got = <<>> /\ (response = "ok" => replied = 1)
<1>1. /\ client_end = "no" /\ response # "none"
      /\ client_end' = (IF response = "error" THEN "error" ELSE "end")
      /\ got' = (IF response = "ok" THEN <<1>> ELSE <<>>)
      /\ UNCHANGED <<mode, c2s, s2c, request, client, inbox, inbox_open, expiring, response,
                     client_cut, server, server_inbox, server_inbox_open, handler, replied, heard,
                     heard_end, server_cut>>
  BY DEF Stream!TakeResponse, Stream!server_vars
<1>2. mode = "Client" /\ request.state # "idle" /\ response \in {"error", "ok"}
  BY <1>1 DEF StreamInv, StreamStage, StreamTypes
<1>3. got = <<>> /\ inbox = <<>> /\ (response = "ok" => replied = 1 /\ handler = "done")
  BY <1>1, <1>2 DEF StreamInv, AnswerFlow
<1>4. <<1>> \in Seq(Nat) /\ Len(<<1>>) = 1 /\ <<>> \in Seq(Nat)
  OBVIOUS
<1>5. StreamTypes'
  <2>1. got' \in Seq(Nat) /\ client_end' \in {"no", "end", "error", "timeout", "dropped"}
    BY <1>1, <1>4
  <2>2. UNCHANGED <<mode, c2s, s2c, request, client, inbox, inbox_open, expiring, response,
                    client_cut, server, server_inbox, server_inbox_open, handler, replied, heard,
                    heard_end, server_cut>>
    BY <1>1
  <2> QED
    BY <2>1, <2>2 DEF StreamInv, StreamTypes
<1>6. StreamStage'
  BY <1>1, <1>2 DEF StreamInv, StreamStage
<1>7. RepliesKnown' /\ RepliesFlow'
  BY <1>1, <1>2 DEF StreamInv, RepliesKnown, RepliesFlow
<1>8. AnswerFlow'
  BY <1>1, <1>2 DEF StreamInv, AnswerFlow
<1>9. ClientHonest'
  BY <1>1, <1>2, <1>3, <1>4 DEF ClientHonest
<1>10. AsksKnown' /\ RequestsFlow' /\ RequestFlow' /\ HandlerHonest'
  BY <1>1, ServerSame
<1> QED
  BY <1>3, <1>5, <1>6, <1>7, <1>8, <1>9, <1>10 DEF StreamInv

\* The application drops its end.
LEMMA KeepsDropStream == ASSUME StreamInv, Stream!DropStream PROVE StreamInv'
<1>1. /\ client_end = "no" /\ request.state # "idle" /\ client_end' = "dropped" /\ inbox' = <<>>
      /\ UNCHANGED <<mode, c2s, s2c, request, client, inbox_open, expiring, response, got,
                     client_cut, server, server_inbox, server_inbox_open, handler, replied, heard,
                     heard_end, server_cut>>
  BY DEF Stream!DropStream, Stream!server_vars
<1>2. <<>> \in Seq(Nat)
  OBVIOUS
<1>3. StreamTypes'
  <2>1. inbox' \in Seq(Nat) /\ client_end' \in {"no", "end", "error", "timeout", "dropped"}
    BY <1>1, <1>2
  <2>2. UNCHANGED <<mode, c2s, s2c, request, client, inbox_open, expiring, response, got,
                    client_cut, server, server_inbox, server_inbox_open, handler, replied, heard,
                    heard_end, server_cut>>
    BY <1>1
  <2> QED
    BY <2>1, <2>2 DEF StreamInv, StreamTypes
<1>4. StreamStage'
  BY <1>1 DEF StreamInv, StreamStage
<1>5. RepliesKnown' /\ RepliesFlow' /\ AnswerFlow' /\ ClientHonest'
  BY <1>1 DEF StreamInv, RepliesKnown, RepliesFlow, AnswerFlow, ClientHonest
<1>6. AsksKnown' /\ RequestsFlow' /\ RequestFlow' /\ HandlerHonest'
  BY <1>1, ServerSame
<1> QED
  BY <1>3, <1>4, <1>5, <1>6 DEF StreamInv

\* A client-streaming call times out,
LEMMA KeepsResponseTimedOut == ASSUME StreamInv, Stream!ResponseTimedOut PROVE StreamInv'
<1>1. /\ mode = "Client" /\ request.state # "idle" /\ client_end = "no"
      /\ client' = Stream!Gone /\ client_end' = "timeout" /\ c2s' = c2s \cup {Stream!Cancel}
      /\ UNCHANGED <<mode, s2c, request, inbox, inbox_open, expiring, response, got, client_cut,
                     server, server_inbox, server_inbox_open, handler, replied, heard,
                     heard_end, server_cut>>
  BY DEF Stream!ResponseTimedOut, Stream!server_vars, Stream!ToServer
<1>2. /\ AsksKnown' /\ RequestsFlow' /\ RequestFlow' /\ HandlerHonest'
      /\ Stream!Open \in c2s' => Stream!Open \in c2s
  BY <1>1, ServerCancelled
<1>3. StreamTypes'
  BY <1>1 DEF StreamInv, StreamTypes
<1>4. StreamStage'
  BY <1>1, <1>2 DEF StreamInv, StreamStage
<1>5. RepliesKnown' /\ RepliesFlow' /\ AnswerFlow' /\ ClientHonest'
  BY <1>1 DEF StreamInv, RepliesKnown, RepliesFlow, AnswerFlow, ClientHonest
<1> QED
  BY <1>2, <1>3, <1>4, <1>5 DEF StreamInv

\* or another stream: its error is sent now, or once there is room.
LEMMA KeepsTimer ==
    ASSUME StreamInv, Stream!StreamTimedOut \/ Stream!TimerFinishes
    PROVE  StreamInv'
<1>1. /\ mode # "Client" /\ client' = Stream!Gone
      /\ UNCHANGED <<mode, s2c, request, response, client_end, got, client_cut,
                     server, server_inbox, server_inbox_open, handler, replied, heard,
                     heard_end, server_cut>>
  BY DEF StreamInv, StreamStage, Stream!StreamTimedOut, Stream!TimerFinishes, Stream!server_vars
<1>2. request.state # "idle"
  BY DEF StreamInv, StreamStage, Stream!StreamTimedOut, Stream!TimerFinishes
<1>3. \/ /\ inbox' = (IF client_end = "dropped" THEN inbox ELSE Append(inbox, 0))
         /\ inbox_open' = FALSE /\ expiring' = FALSE /\ c2s' = c2s \cup {Stream!Cancel}
      \/ expiring' = TRUE /\ c2s' = c2s /\ inbox' = inbox /\ inbox_open' = inbox_open
  BY DEF Stream!StreamTimedOut, Stream!TimerFinishes, Stream!TimerSends, Stream!ToServer,
         Stream!Failure
<1>4. /\ inbox \in Seq(Nat) /\ replied \in Nat /\ Len(inbox) \in Nat /\ Len(got) \in Nat
      /\ Append(inbox, 0) \in Seq(Nat) /\ Len(Append(inbox, 0)) = Len(inbox) + 1
  BY ClientFacts, Appended
<1>5. /\ AsksKnown' /\ RequestsFlow' /\ RequestFlow' /\ HandlerHonest'
      /\ Stream!Open \in c2s' => Stream!Open \in c2s
  <2>1. c2s' = c2s \/ c2s' = c2s \cup {Stream!Cancel}
    BY <1>3
  <2> QED
    BY <1>1, <2>1, ServerCancelled
<1>6. StreamTypes'
  <2>1. inbox' \in Seq(Nat) /\ inbox_open' \in BOOLEAN /\ expiring' \in BOOLEAN
    <3>1. inbox_open \in BOOLEAN
      BY DEF StreamInv, StreamTypes
    <3> QED
      BY <1>3, <1>4, <3>1
  <2> QED
    BY <1>1, <2>1 DEF StreamInv, StreamTypes
<1>7. StreamStage'
  BY <1>1, <1>2, <1>5 DEF StreamInv, StreamStage
<1>8. RepliesKnown' /\ AnswerFlow' /\ ClientHonest'
  BY <1>1 DEF StreamInv, RepliesKnown, AnswerFlow, ClientHonest
<1>9. RepliesFlow'
  <2>1. SUFFICES ASSUME client_end = "no" PROVE RepliesFlow'
    BY <1>1 DEF RepliesFlow
  <2>2. ClientWay(inbox, inbox_open, expiring, client = Stream!Gone, client.next, Len(got),
                  client_cut, FALSE, replied, handler = "done")
    BY <1>1, <1>2, <2>1 DEF StreamInv, RepliesFlow
  <2>3. /\ ItemsFrom(inbox, Len(got)) /\ ~EndsInFailure(inbox)
        /\ Len(got) + Len(inbox) <= replied
    BY <2>2 DEF ClientWay, Stream!StreamTimedOut, Stream!TimerFinishes
  <2>4. CASE inbox' = Append(inbox, 0) /\ inbox_open' = FALSE /\ expiring' = FALSE
    <3>1. ItemsFrom(Append(inbox, 0), Len(got)) /\ EndsInFailure(Append(inbox, 0))
      BY <1>4, <2>3, ItemsGrow DEF TypedFailure
    <3>2. Len(got) + (Len(inbox) + 1) <= replied + 1
      BY <1>4, <2>3
    <3>3. ClientWay(Append(inbox, 0), FALSE, FALSE, TRUE, client'.next, Len(got),
                    client_cut, FALSE, replied, handler = "done")
      BY <1>4, <3>1, <3>2 DEF ClientWay
    <3> QED
      BY <1>1, <1>2, <2>4, <3>3 DEF RepliesFlow
  <2>5. CASE expiring' = TRUE /\ inbox' = inbox /\ inbox_open' = inbox_open
    <3>1. ClientWay(inbox, inbox_open, TRUE, TRUE, client'.next, Len(got),
                    client_cut, FALSE, replied, handler = "done")
      BY <2>2, <2>3 DEF ClientWay
    <3> QED
      BY <1>1, <1>2, <2>5, <3>1 DEF RepliesFlow
  <2> QED
    BY <1>3, <2>1, <2>4, <2>5
<1> QED
  BY <1>5, <1>6, <1>7, <1>8, <1>9 DEF StreamInv

-----------------------------------------------------------------------------
(* A frame arrives at the client. *)

\* What the step does: a is what the loop has made of the record b.
Received(f, a) ==
    /\ f \in s2c /\ client # Stream!Gone /\ s2c' = s2c \ {f}
    /\ \/ a.removed /\ client' = Stream!Gone
       \/ /\ ~a.removed
          /\ client' = [next |-> Stream!Start(f) +
                            Stream!Cardinality(Stream!Run(Stream!WithFrame(f), Stream!Start(f))),
                        saw_open |-> a.saw,
                        reorder |-> Stream!WithFrame(f) \
                                        Stream!Run(Stream!WithFrame(f), Stream!Start(f)),
                        payload |-> a.payload]
    /\ inbox' = a.q /\ inbox_open' = a.tx /\ response' = a.answer /\ client_cut' = a.cut
    /\ UNCHANGED <<mode, c2s, request, expiring, client_end, got, server, server_inbox,
                   server_inbox_open, handler, replied, heard, heard_end, server_cut>>

Begins(f) ==
    [q |-> inbox, tx |-> inbox_open, payload |-> client.payload, answer |-> response,
     saw |-> client.saw_open \/ Stream!OpensImplicitly(Stream!WithFrame(f)),
     removed |-> FALSE, cut |-> client_cut]

\* The frames at the client once one more has arrived, and where the loop begins.
LEMMA ClientBuffer ==
    ASSUME StreamInv, NEW f \in s2c, client # Stream!Gone
    PROVE  /\ client \in ClientStates /\ client.next \in Nat /\ client.payload \in Nat
           /\ IsBuffer(Stream!WithFrame(f)) /\ Stream!WithFrame(f) \subseteq StreamFrames
           /\ \A g \in Stream!WithFrame(f) : IsReply(g, mode, handler, replied)
           /\ Stream!Start(f) \in Nat
           /\ \/ Stream!Start(f) = client.next
              \/ client.next = 0 /\ Stream!Start(f) = 1
           /\ Begins(f) \in ClientAcc
<1>1. client \in ClientStates
  BY DEF StreamInv, StreamTypes
<1>2. client.next \in Nat /\ client.payload \in Nat /\ client.saw_open \in BOOLEAN
  BY <1>1 DEF ClientStates
<1>3. /\ \/ Stream!Start(f) = client.next
         \/ client.next = 0 /\ Stream!Start(f) = 1
      /\ Stream!Start(f) \in Nat
  BY <1>2 DEF Stream!Start, Stream!OpensImplicitly
<1>4. IsReply(f, mode, handler, replied) /\ f \in StreamFrames
  <2>1. IsReply(f, mode, handler, replied)
    BY DEF StreamInv, RepliesKnown
  <2> QED
    BY <2>1, ClientFacts, FrameFacts
<1>5. IsBuffer(client.reorder) /\ \A g \in client.reorder : IsReply(g, mode, handler, replied)
  BY DEF StreamInv, RepliesKnown
<1>6. IsBuffer(Stream!WithFrame(f)) /\ \A g \in Stream!WithFrame(f) : g \in client.reorder \/ g = f
  BY <1>4, <1>5, InsertFacts DEF Stream!WithFrame
<1>7. Stream!WithFrame(f) \subseteq StreamFrames
  BY <1>6 DEF IsBuffer
<1>8. Begins(f) \in ClientAcc
  <2>1. /\ inbox \in Seq(Nat) /\ inbox_open \in BOOLEAN /\ client_cut \in BOOLEAN
        /\ response \in {"none", "error", "ok", "empty"}
    BY DEF StreamInv, StreamTypes
  <2>2. (client.saw_open \/ Stream!OpensImplicitly(Stream!WithFrame(f))) \in BOOLEAN
    OBVIOUS
  <2> QED
    BY <1>2, <2>1, <2>2 DEF Begins, ClientAcc
<1> QED
  BY <1>1, <1>2, <1>3, <1>4, <1>5, <1>6, <1>7, <1>8

\* What holds of every such step.
LEMMA ReceivedFacts ==
    ASSUME StreamInv, NEW f, NEW a \in ClientAcc, Received(f, a),
           a.answer \in {"none", "error", "ok"},
           client_cut => a.cut, mode # "Client" => a.answer = "none",
           Stream!Start(f) +
               Stream!Cardinality(Stream!Run(Stream!WithFrame(f), Stream!Start(f))) \in Nat
    PROVE  /\ StreamTypes' /\ StreamStage' /\ RepliesKnown' /\ ClientHonest'
           /\ AsksKnown' /\ RequestsFlow' /\ RequestFlow' /\ HandlerHonest'
           /\ client' = Stream!Gone <=> a.removed
           /\ client' # Stream!Gone =>
                  /\ client'.next = Stream!Start(f) +
                         Stream!Cardinality(Stream!Run(Stream!WithFrame(f), Stream!Start(f)))
                  /\ client'.payload = a.payload
<1> DEFINE m == Stream!Start(f) +
                    Stream!Cardinality(Stream!Run(Stream!WithFrame(f), Stream!Start(f)))
           r == Stream!WithFrame(f) \ Stream!Run(Stream!WithFrame(f), Stream!Start(f))
           new == [next |-> m, saw_open |-> a.saw, reorder |-> r, payload |-> a.payload]
<1>1. /\ f \in s2c /\ client # Stream!Gone /\ s2c' = s2c \ {f}
      /\ (a.removed /\ client' = Stream!Gone) \/ (~a.removed /\ client' = new)
      /\ inbox' = a.q /\ inbox_open' = a.tx /\ response' = a.answer /\ client_cut' = a.cut
      /\ UNCHANGED <<mode, c2s, request, expiring, client_end, got, server, server_inbox,
                     server_inbox_open, handler, replied, heard, heard_end, server_cut>>
  BY DEF Received
<1>2. /\ a.q \in Seq(Nat) /\ a.tx \in BOOLEAN /\ a.payload \in Nat /\ a.saw \in BOOLEAN
      /\ a.removed \in BOOLEAN /\ a.cut \in BOOLEAN
  BY DEF ClientAcc
<1>3. /\ IsBuffer(Stream!WithFrame(f)) /\ Stream!WithFrame(f) \subseteq StreamFrames
      /\ \A g \in Stream!WithFrame(f) : IsReply(g, mode, handler, replied)
  BY <1>1, ClientBuffer
<1>4. IsBuffer(r) /\ r \in SUBSET StreamFrames /\ \A g \in r : IsReply(g, mode, handler, replied)
  BY <1>3 DEF IsBuffer
<1>5. m \in Nat
  OBVIOUS
<1> HIDE DEF m, r
<1>6. /\ new \in ClientStates /\ new # Stream!Gone
      /\ new.next = m /\ new.payload = a.payload /\ new.reorder = r
  BY <1>2, <1>4, <1>5 DEF ClientStates, Stream!Gone
<1> HIDE DEF new
<1>7. StreamTypes'
  <2>1. /\ client' = Stream!Gone \/ client' \in ClientStates
        /\ inbox' \in Seq(Nat) /\ inbox_open' \in BOOLEAN /\ response' \in {"none", "error", "ok"}
        /\ client_cut' \in BOOLEAN
    BY <1>1, <1>2, <1>6
  <2>2. UNCHANGED <<mode, c2s, request, expiring, client_end, got, server, server_inbox,
                    server_inbox_open, handler, replied, heard, heard_end, server_cut>>
    BY <1>1
  <2> QED
    BY <2>1, <2>2 DEF StreamInv, StreamTypes
<1>8. StreamStage'
  <2>1. request.state # "idle" /\ ~expiring
    BY <1>1 DEF StreamInv, StreamStage
  <2>2. mode # "Client" => response' = "none"
    BY <1>1
  <2>3. UNCHANGED <<mode, c2s, request, expiring, server, server_inbox, handler, replied, heard,
                    heard_end>>
    BY <1>1
  <2> QED
    BY <2>1, <2>2, <2>3 DEF StreamInv, StreamStage
<1>9. RepliesKnown'
  <2>1. \A g \in s2c' : IsReply(g, mode, handler, replied)
    BY <1>1 DEF StreamInv, RepliesKnown
  <2>2. ASSUME client' # Stream!Gone PROVE client'.reorder = r
    BY <1>1, <1>6, <2>2
  <2> QED
    BY <1>1, <1>4, <2>1, <2>2 DEF RepliesKnown
<1>10. ClientHonest'
  BY <1>1, <1>2 DEF StreamInv, ClientHonest
<1>11. AsksKnown' /\ RequestsFlow' /\ RequestFlow' /\ HandlerHonest'
  BY <1>1, ServerSame
<1>12. /\ client' = Stream!Gone <=> a.removed
       /\ client' # Stream!Gone => client'.next = m /\ client'.payload = a.payload
  BY <1>1, <1>6
<1> QED
  BY <1>7, <1>8, <1>9, <1>10, <1>11, <1>12 DEF m

\* In server and bidi mode.
LEMMA KeepsStreamReceive ==
    ASSUME StreamInv, NEW f, Stream!ClientReceive(f), mode # "Client"
    PROVE  StreamInv'
<1> DEFINE w == Stream!WithFrame(f)
           n == Stream!Start(f)
           run == Stream!Run(w, n)
           m == n + Stream!Cardinality(run)
           b == Begins(f)
           a == Stream!Loop(Stream!ClientTurn, b, run)
<1>1. Received(f, a)
  BY DEF Stream!ClientReceive, Stream!ClientLoop, Received, Begins, Stream!server_vars
<1>2. f \in s2c /\ client # Stream!Gone
  BY <1>1 DEF Received
<1>3. /\ client.next \in Nat /\ IsBuffer(w) /\ \A g \in w : IsReply(g, mode, handler, replied)
      /\ n \in Nat /\ (n = client.next \/ (client.next = 0 /\ n = 1)) /\ b \in ClientAcc
  BY <1>2, ClientBuffer
<1>4. replied \in Nat /\ Len(got) \in Nat
  BY ClientFacts
<1>5. b.cut = client_cut /\ b.answer = response /\ b.q = inbox /\ b.tx = inbox_open
      /\ b.removed = FALSE
  BY DEF Begins
<1>6. response = "none" /\ request.state # "idle" /\ expiring = FALSE
  BY <1>2 DEF StreamInv, StreamStage, StreamTypes
<1> HIDE DEF w, n, b
<1>7. /\ a \in ClientAcc /\ m \in Nat /\ (b.cut => a.cut) /\ a.answer = b.answer
      /\ ClientTurns(b, n, Len(got), client_cut, replied, handler = "done") =>
             ClientTurns(a, m, Len(got), client_cut, replied, handler = "done")
  <2>1. LET e == Stream!Loop(Stream!ClientTurn, b, Stream!Run(w, n))
            o == n + Stream!Cardinality(Stream!Run(w, n))
        IN  /\ e \in ClientAcc /\ o \in Nat /\ Stream!Run(w, n) \subseteq w /\ (b.cut => e.cut)
            /\ e.answer = b.answer
            /\ ClientTurns(b, n, Len(got), client_cut, replied, handler = "done") =>
                   ClientTurns(e, o, Len(got), client_cut, replied, handler = "done")
    BY <1>3, <1>4, ClientRuns
  <2> QED
    BY <2>1
<1> HIDE DEF a, m
<1>8. /\ StreamTypes' /\ StreamStage' /\ RepliesKnown' /\ ClientHonest'
      /\ AsksKnown' /\ RequestsFlow' /\ RequestFlow' /\ HandlerHonest'
      /\ client' = Stream!Gone <=> a.removed
      /\ client' # Stream!Gone => client'.next = m
  <2>1. /\ a.answer \in {"none", "error", "ok"} /\ (client_cut => a.cut)
        /\ (mode # "Client" => a.answer = "none")
    BY <1>5, <1>6, <1>7
  <2>2. Stream!Start(f) +
               Stream!Cardinality(Stream!Run(Stream!WithFrame(f), Stream!Start(f))) \in Nat
    BY <1>7 DEF m, n, w
  <2> QED
    BY <1>1, <1>7, <2>1, <2>2, ReceivedFacts DEF m, n, w
<1>9. UNCHANGED <<mode, request, expiring, client_end, got, handler, replied>>
      /\ inbox' = a.q /\ inbox_open' = a.tx /\ client_cut' = a.cut
  BY <1>1 DEF Received
<1>10. AnswerFlow'
  BY <1>9 DEF AnswerFlow
<1>11. RepliesFlow'
  <2>1. SUFFICES ASSUME client_end = "no" PROVE RepliesFlow'
    BY <1>9 DEF RepliesFlow
  <2>2. ClientWay(inbox, inbox_open, expiring, client = Stream!Gone, client.next, Len(got),
                  client_cut, FALSE, replied, handler = "done")
    BY <1>6, <2>1 DEF StreamInv, RepliesFlow
  <2>3. (IF n = 0 THEN 0 ELSE n - 1) = IF client.next = 0 THEN 0 ELSE client.next - 1
    BY <1>3
  <2>4. ClientTurns(b, n, Len(got), client_cut, replied, handler = "done")
    BY <1>2, <1>5, <1>6, <2>2, <2>3 DEF ClientTurns, ClientWay
  <2>5. ClientTurns(a, m, Len(got), client_cut, replied, handler = "done")
    BY <1>7, <2>4
  <2>6. ClientWay(a.q, a.tx, FALSE, client' = Stream!Gone, client'.next, Len(got), a.cut, FALSE,
                  replied, handler = "done")
    BY <1>8, <2>5 DEF ClientTurns, ClientWay
  <2> QED
    BY <1>6, <1>9, <2>6 DEF RepliesFlow
<1> QED
  BY <1>8, <1>10, <1>11 DEF StreamInv

\* In client mode.
LEMMA KeepsAnswerReceive ==
    ASSUME StreamInv, NEW f, Stream!ClientReceive(f), mode = "Client"
    PROVE  StreamInv'
<1> DEFINE w == Stream!WithFrame(f)
           n == Stream!Start(f)
           run == Stream!Run(w, n)
           m == n + Stream!Cardinality(run)
           b == Begins(f)
           a == Stream!Loop(Stream!AnswerTurn, b, run)
<1>1. Received(f, a)
  BY DEF Stream!ClientReceive, Stream!ClientLoop, Received, Begins, Stream!server_vars
<1>2. f \in s2c /\ client # Stream!Gone
  BY <1>1 DEF Received
<1>3. /\ client.next \in Nat /\ IsBuffer(w) /\ \A g \in w : IsReply(g, "Client", handler, replied)
      /\ n \in Nat /\ (n = client.next \/ (client.next = 0 /\ n = 1)) /\ b \in ClientAcc
  BY <1>2, ClientBuffer
<1>4. replied \in Nat
  BY ClientFacts
<1>5. /\ b.cut = client_cut /\ b.answer = response /\ b.q = inbox /\ b.payload = client.payload
      /\ b.removed = FALSE
  BY DEF Begins
<1>6. AnswerTurns(b, n, replied, handler = "done")
  <2>1. /\ inbox = <<>> /\ (response = "ok" => replied = 1 /\ handler = "done")
        /\ (client.next >= 2 => client.payload # 0) /\ (client.payload # 0 => replied = 1)
    BY <1>2 DEF StreamInv, AnswerFlow
  <2>2. replied <= 1 /\ response \in {"none", "error", "ok"}
    BY DEF StreamInv, StreamStage, StreamTypes
  <2>3. n >= 2 => client.next >= 2
    BY <1>3
  <2> HIDE DEF n, b
  <2> QED
    BY <1>5, <2>1, <2>2, <2>3 DEF AnswerTurns
<1> HIDE DEF w, n, b
<1>7. /\ a \in ClientAcc /\ m \in Nat /\ (b.cut => a.cut)
      /\ AnswerTurns(a, m, replied, handler = "done")
  BY <1>3, <1>4, <1>6, AnswerRuns
<1> HIDE DEF a, m
<1>8. /\ StreamTypes' /\ StreamStage' /\ RepliesKnown' /\ ClientHonest'
      /\ AsksKnown' /\ RequestsFlow' /\ RequestFlow' /\ HandlerHonest'
      /\ client' = Stream!Gone <=> a.removed
      /\ client' # Stream!Gone => client'.next = m /\ client'.payload = a.payload
  <2>1. /\ a.answer \in {"none", "error", "ok"} /\ (client_cut => a.cut)
        /\ (mode # "Client" => a.answer = "none")
    BY <1>5, <1>7 DEF AnswerTurns
  <2>2. Stream!Start(f) +
               Stream!Cardinality(Stream!Run(Stream!WithFrame(f), Stream!Start(f))) \in Nat
    BY <1>7 DEF m, n, w
  <2> QED
    BY <1>1, <1>7, <2>1, <2>2, ReceivedFacts DEF m, n, w
<1>9. UNCHANGED <<mode, request, expiring, client_end, got, handler, replied>>
      /\ inbox' = a.q /\ response' = a.answer
  BY <1>1 DEF Received
<1>10. RepliesFlow'
  BY <1>9 DEF RepliesFlow
<1>11. AnswerFlow'
  <2>1. client_end = "no" => got = <<>>
    BY DEF StreamInv, AnswerFlow
  <2>2. /\ a.q = <<>> /\ (~a.removed /\ m >= 2 => a.payload # 0) /\ (a.payload # 0 => replied = 1)
        /\ (a.answer = "ok" => replied = 1 /\ handler = "done")
    BY <1>7 DEF AnswerTurns
  <2> QED
    BY <1>8, <1>9, <2>1, <2>2 DEF AnswerFlow
<1> QED
  BY <1>8, <1>10, <1>11 DEF StreamInv

\* Too many frames wait,
LEMMA KeepsClientOverflow ==
    ASSUME StreamInv, NEW f, Stream!ClientOverflow(f)
    PROVE  StreamInv'
<1>1. /\ f \in s2c /\ client # Stream!Gone /\ s2c' = s2c \ {f} /\ client' = Stream!Gone
      /\ \/ /\ mode = "Client" /\ response' = "error"
            /\ UNCHANGED <<inbox, inbox_open, client_cut>>
         \/ /\ mode # "Client" /\ inbox' = Append(inbox, 0) /\ inbox_open' = FALSE
            /\ client_cut' = client_cut /\ response' = response
         \/ /\ mode # "Client" /\ inbox' = inbox /\ inbox_open' = FALSE
            /\ client_cut' = TRUE /\ response' = response
      /\ UNCHANGED <<mode, c2s, request, expiring, client_end, got, server, server_inbox,
                     server_inbox_open, handler, replied, heard, heard_end, server_cut>>
  <2>1. client_cut \in BOOLEAN
    BY DEF StreamInv, StreamTypes
  <2> QED
    BY <2>1 DEF Stream!ClientOverflow, Stream!server_vars, Stream!Failure
<1>2. /\ inbox \in Seq(Nat) /\ replied \in Nat /\ Len(inbox) \in Nat /\ Len(got) \in Nat
      /\ Append(inbox, 0) \in Seq(Nat) /\ Len(Append(inbox, 0)) = Len(inbox) + 1
  BY ClientFacts, Appended
<1>3. request.state # "idle" /\ expiring = FALSE
  BY <1>1 DEF StreamInv, StreamStage, StreamTypes
<1>4. StreamTypes'
  <2>1. /\ inbox' \in Seq(Nat) /\ inbox_open' \in BOOLEAN /\ client_cut' \in BOOLEAN
        /\ response' \in {"none", "error", "ok"}
    <3>1. /\ inbox_open \in BOOLEAN /\ client_cut \in BOOLEAN
          /\ response \in {"none", "error", "ok"}
      BY DEF StreamInv, StreamTypes
    <3> QED
      BY <1>1, <1>2, <3>1
  <2>2. /\ client' = Stream!Gone
        /\ UNCHANGED <<mode, c2s, request, expiring, client_end, got, server, server_inbox,
                       server_inbox_open, handler, replied, heard, heard_end, server_cut>>
    BY <1>1
  <2> QED
    BY <2>1, <2>2 DEF StreamInv, StreamTypes
<1>5. StreamStage'
  BY <1>1, <1>3 DEF StreamInv, StreamStage
<1>6. RepliesKnown' /\ AnswerFlow' /\ ClientHonest'
  BY <1>1 DEF StreamInv, RepliesKnown, AnswerFlow, ClientHonest
<1>7. AsksKnown' /\ RequestsFlow' /\ RequestFlow' /\ HandlerHonest'
  BY <1>1, ServerSame
<1>8. RepliesFlow'
  <2>1. SUFFICES ASSUME client_end = "no", mode # "Client" PROVE RepliesFlow'
    BY <1>1 DEF RepliesFlow
  <2>2. ClientWay(inbox, inbox_open, expiring, client = Stream!Gone, client.next, Len(got),
                  client_cut, FALSE, replied, handler = "done")
    BY <1>3, <2>1 DEF StreamInv, RepliesFlow
  <2>3. /\ ItemsFrom(inbox, Len(got)) /\ ~EndsInFailure(inbox)
        /\ Len(got) + Len(inbox) <= replied
    BY <1>1, <2>2 DEF ClientWay
  <2>4. CASE inbox' = Append(inbox, 0) /\ inbox_open' = FALSE /\ client_cut' = client_cut
    <3>1. ItemsFrom(Append(inbox, 0), Len(got)) /\ EndsInFailure(Append(inbox, 0))
      BY <1>2, <2>3, ItemsGrow DEF TypedFailure
    <3>2. Len(got) + (Len(inbox) + 1) <= replied + 1
      BY <1>2, <2>3
    <3>3. ClientWay(Append(inbox, 0), FALSE, FALSE, TRUE, client'.next, Len(got),
                    client_cut, FALSE, replied, handler = "done")
      BY <1>2, <3>1, <3>2 DEF ClientWay
    <3> QED
      BY <1>1, <1>3, <2>4, <3>3 DEF RepliesFlow
  <2>5. CASE inbox' = inbox /\ inbox_open' = FALSE /\ client_cut' = TRUE
    <3>1. ClientWay(inbox, FALSE, FALSE, TRUE, client'.next, Len(got),
                    TRUE, FALSE, replied, handler = "done")
      BY <2>2, <2>3 DEF ClientWay
    <3> QED
      BY <1>1, <1>3, <2>5, <3>1 DEF RepliesFlow
  <2> QED
    BY <1>1, <2>1, <2>4, <2>5
<1> QED
  BY <1>4, <1>5, <1>6, <1>7, <1>8 DEF StreamInv

\* or the stream is gone.
LEMMA KeepsClientIgnore ==
    ASSUME StreamInv, NEW f, Stream!ClientIgnore(f)
    PROVE  StreamInv'
<1>1. /\ client = Stream!Gone /\ s2c' = s2c \ {f}
      /\ UNCHANGED <<mode, c2s, request, client, inbox, inbox_open, expiring, response, client_end,
                     got, client_cut, server, server_inbox, server_inbox_open, handler, replied,
                     heard, heard_end, server_cut>>
  BY DEF Stream!ClientIgnore, Stream!client_vars, Stream!server_vars
<1>2. StreamTypes' /\ StreamStage'
  BY <1>1 DEF StreamInv, StreamTypes, StreamStage
<1>3. RepliesKnown' /\ RepliesFlow' /\ AnswerFlow' /\ ClientHonest'
  BY <1>1 DEF StreamInv, RepliesKnown, RepliesFlow, AnswerFlow, ClientHonest
<1>4. AsksKnown' /\ RequestsFlow' /\ RequestFlow' /\ HandlerHonest'
  BY <1>1, ServerSame
<1> QED
  BY <1>2, <1>3, <1>4 DEF StreamInv

-----------------------------------------------------------------------------
(* All steps of a stream, and what follows. *)

\* The invariant holds at the start,
LEMMA StreamStarts == ASSUME MCInit PROVE StreamInv
<1>1. /\ mode \in Modes /\ c2s = {} /\ s2c = {} /\ request = [sent |-> 0, state |-> "idle"]
      /\ client = Stream!Gone /\ inbox = <<>> /\ inbox_open = FALSE /\ expiring = FALSE
      /\ response = "none" /\ client_end = "no" /\ got = <<>> /\ client_cut = FALSE
      /\ server = Stream!Gone /\ server_inbox = <<>> /\ server_inbox_open = FALSE
      /\ handler = "none" /\ replied = 0
      /\ heard = <<>> /\ heard_end = "no" /\ server_cut = FALSE
  BY DEF MCInit, Stream!Init
<1>2. Modes \subseteq {"Client", "Server", "Bidi", "Unknown"}
  BY TonicAssumption DEF TonicAssumption, Stream!StreamAssumption
<1>3. request.sent = 0 /\ request.state = "idle"
      /\ request \in [sent : Nat, state : {"idle", "open", "closed"}]
  BY <1>1
<1>4. /\ ItemsFrom(<<>>, 0) /\ ~EndsInFailure(<<>>) /\ Len(<<>>) = 0 /\ <<>> \in Seq(Nat)
  BY EmptySeq DEF ItemsFrom, EndsInFailure
<1>5. StreamTypes
  BY <1>1, <1>2, <1>3, <1>4 DEF StreamTypes
<1>6. StreamStage
  BY <1>1, <1>3 DEF StreamStage
<1>7. RepliesKnown /\ AsksKnown
  BY <1>1 DEF RepliesKnown, AsksKnown
<1>8. ClientWay(<<>>, FALSE, FALSE, TRUE, client.next, 0, FALSE, TRUE, 0, handler = "done")
  BY <1>4 DEF ClientWay
<1>9. RepliesFlow
  BY <1>1, <1>3, <1>4, <1>8 DEF RepliesFlow
<1>10. AnswerFlow /\ ClientHonest /\ RequestsFlow /\ RequestFlow /\ HandlerHonest
  BY <1>1, <1>3 DEF AnswerFlow, ClientHonest, RequestsFlow, RequestFlow, HandlerHonest
<1> QED
  BY <1>5, <1>6, <1>7, <1>9, <1>10 DEF StreamInv

\* every step of the stream keeps it,
LEMMA StreamKeeps == ASSUME StreamInv, Stream!Next PROVE StreamInv'
<1>1. CASE Stream!Reading
  BY <1>1, KeepsReadItem, KeepsReadFailure, KeepsSeeEnd, KeepsTakeResponse DEF Stream!Reading
<1>2. CASE Stream!Timing
  BY <1>2, KeepsResponseTimedOut, KeepsTimer DEF Stream!Timing
<1>3. ASSUME NEW f, Stream!ClientFrame(f) PROVE StreamInv'
  BY <1>3, KeepsStreamReceive, KeepsAnswerReceive, KeepsClientOverflow, KeepsClientIgnore
     DEF Stream!ClientFrame
<1>4. ASSUME NEW f, Stream!ServerFrame(f) PROVE StreamInv'
  BY <1>4, KeepsServerIgnore, KeepsServerReceive, KeepsRequestReceive, KeepsServerOverflow
     DEF Stream!ServerFrame
<1> QED
  BY <1>1, <1>2, <1>3, <1>4, KeepsOpening, KeepsRequests, KeepsHandling, KeepsDropStream,
     KeepsServerOpen, KeepsServerRefuse DEF Stream!Next

\* A step of the composition is one of the stream, or leaves it alone.
LEMMA StreamSteps ==
    ASSUME [MCNext]_<<vars, stream_vars, alone_vars>>
    PROVE  Stream!Next \/ UNCHANGED stream_vars
BY DEF MCNext, CallStep, StreamStep, TypedStep, WireStep

\* and a step that leaves the stream alone.
LEMMA StreamSame == ASSUME StreamInv, UNCHANGED stream_vars PROVE StreamInv'
<1>1. UNCHANGED <<mode, c2s, s2c, request, client, inbox, inbox_open, expiring, response,
                  client_end, got, client_cut, server, server_inbox, server_inbox_open, handler,
                  replied, heard, heard_end, server_cut>>
  BY DEF stream_vars
<1>2. StreamTypes' /\ StreamStage'
  BY <1>1 DEF StreamInv, StreamTypes, StreamStage
<1>3. RepliesKnown' /\ RepliesFlow' /\ AnswerFlow' /\ ClientHonest'
  BY <1>1 DEF StreamInv, RepliesKnown, RepliesFlow, AnswerFlow, ClientHonest
<1>4. AsksKnown' /\ RequestsFlow' /\ RequestFlow' /\ HandlerHonest'
  BY <1>1, ServerSame
<1> QED
  BY <1>2, <1>3, <1>4 DEF StreamInv

\* So it holds throughout,
LEMMA StreamInvariant == MCSpec => []StreamInv
<1>1. MCInit => StreamInv
  BY StreamStarts
<1>2. StreamInv /\ [MCNext]_<<vars, stream_vars, alone_vars>> => StreamInv'
  BY StreamKeeps, StreamSteps, StreamSame
<1> QED
  BY <1>1, <1>2, PTL DEF MCSpec

\* and an end that looks clean is one.
LEMMA StreamEnds == ASSUME StreamInv PROVE Stream!EndIsHonest
BY DEF StreamInv, ClientHonest, HandlerHonest, Stream!EndIsHonest

-----------------------------------------------------------------------------
(* The directions of a stream are pipes. *)

\* A step of a pipe, or one that it does not see.
PipeMoves(s, r, e, t, q, d) ==
    \/ t = s /\ q = r /\ d = e
    \/ t = s + 1 /\ q = r /\ d = e
    \/ t = s /\ q = r /\ e = "no" /\ d # "no"
    \/ t = s /\ e = "no" /\ Len(r) < s /\ q = Append(r, Len(r) + 1)

RequestsMove == PipeMoves(request.sent, heard, heard_end, request'.sent, heard', heard_end')
AnswersMove == PipeMoves(replied, got, client_end, replied', got', client_end')

\* Opening a stream, or sending on it.
LEMMA RequestsPipe ==
    ASSUME StreamInv, Stream!Opening \/ Stream!Requests
    PROVE  RequestsMove /\ AnswersMove
<1>1. request \in [sent : Nat, state : {"idle", "open", "closed"}]
      /\ (request.state = "idle" => request.sent = 0)
  BY DEF StreamInv, StreamTypes, StreamStage
<1>2. UNCHANGED <<heard, heard_end, replied, got, client_end>>
  BY DEF Stream!Opening, Stream!Requests, Stream!OpenClientStreaming, Stream!OpenServerStreaming,
         Stream!OpenBidiStreaming, Stream!SendItem, Stream!CloseRequests, Stream!server_vars
<1>3. \/ request' = [request EXCEPT !.state = "open"]
      \/ request' = [request EXCEPT !.state = "closed"]
      \/ request.state = "idle" /\ request' = [sent |-> 1, state |-> "closed"]
      \/ request' = [request EXCEPT !.sent = @ + 1]
  BY DEF Stream!Opening, Stream!Requests, Stream!OpenClientStreaming, Stream!OpenServerStreaming,
         Stream!OpenBidiStreaming, Stream!SendItem, Stream!CloseRequests
<1>4. request'.sent = request.sent \/ request'.sent = request.sent + 1
  BY <1>1, <1>3
<1> QED
  BY <1>2, <1>4 DEF RequestsMove, AnswersMove, PipeMoves

\* Reading answers.
LEMMA ReadingPipe ==
    ASSUME StreamInv, Stream!Reading
    PROVE  RequestsMove /\ AnswersMove
<1>1. UNCHANGED <<request, heard, heard_end, replied>>
  BY DEF Stream!Reading, Stream!ReadItem, Stream!ReadFailure, Stream!SeeEnd, Stream!TakeResponse,
         Stream!server_vars
<1>2. RequestsMove
  BY <1>1 DEF RequestsMove, PipeMoves
<1>3. CASE Stream!ReadItem
  <2>1. /\ client_end = "no" /\ got' = Append(got, Head(inbox)) /\ client_end' = client_end
        /\ Head(inbox) = Len(got) + 1 /\ Len(got) + 1 <= replied
    BY <1>3, KeepsReadItem DEF Stream!ReadItem
  <2>2. Len(got) < replied
    BY <2>1, ClientFacts
  <2> QED
    BY <1>1, <1>2, <2>1, <2>2 DEF AnswersMove, PipeMoves
<1>4. CASE Stream!ReadFailure \/ Stream!SeeEnd
  <2>1. client_end = "no" /\ client_end' # "no" /\ got' = got
    BY <1>4 DEF Stream!ReadFailure, Stream!SeeEnd
  <2> QED
    BY <1>1, <1>2, <2>1 DEF AnswersMove, PipeMoves
<1>5. CASE Stream!TakeResponse
  <2>1. got = <<>> /\ (response = "ok" => replied = 1) /\ replied \in Nat
    BY <1>5, KeepsTakeResponse, ClientFacts
  <2>2. /\ client_end = "no" /\ client_end' # "no"
        /\ got' = (IF response = "ok" THEN <<1>> ELSE <<>>)
    BY <1>5 DEF Stream!TakeResponse
  <2>3. Len(<<>>) = 0 /\ Append(<<>>, 0 + 1) = <<1>>
    OBVIOUS
  <2>4. CASE response = "ok"
    <3>1. got' = Append(got, Len(got) + 1) /\ Len(got) < replied
      BY <2>1, <2>2, <2>3, <2>4
    <3> QED
      BY <1>1, <1>2, <2>2, <3>1 DEF AnswersMove, PipeMoves
  <2>5. CASE response # "ok"
    BY <1>1, <1>2, <2>1, <2>2, <2>5 DEF AnswersMove, PipeMoves
  <2> QED
    BY <2>4, <2>5
<1> QED
  BY <1>3, <1>4, <1>5 DEF Stream!Reading

\* A timer, or the application drops its end.
LEMMA TimingPipe ==
    ASSUME StreamInv, Stream!Timing \/ Stream!DropStream
    PROVE  RequestsMove /\ AnswersMove
<1>1. UNCHANGED <<request, heard, heard_end, replied, got>>
  BY DEF Stream!Timing, Stream!ResponseTimedOut, Stream!StreamTimedOut, Stream!TimerFinishes,
         Stream!DropStream, Stream!server_vars
<1>2. client_end' = client_end \/ (client_end = "no" /\ client_end' # "no")
  BY DEF Stream!Timing, Stream!ResponseTimedOut, Stream!StreamTimedOut, Stream!TimerFinishes,
         Stream!DropStream
<1> QED
  BY <1>1, <1>2 DEF RequestsMove, AnswersMove, PipeMoves

\* The handler.
LEMMA HandlingPipe ==
    ASSUME StreamInv, Stream!Handling
    PROVE  RequestsMove /\ AnswersMove
<1>1. UNCHANGED <<request, got, client_end>>
  BY DEF Stream!Handling, Stream!HandlerRead, Stream!HandlerSeesEnd, Stream!HandlerDropsRequests,
         Stream!HandlerAnswer, Stream!BidiRespond, Stream!BidiEnd, Stream!ServerRespond,
         Stream!ServerEnd, Stream!BidiReply, Stream!ServerReply, Stream!StartReplies,
         Stream!SendReply, Stream!EndReplies, Stream!client_vars
<1>2. CASE Stream!HandlerRead
  <2>1. /\ heard_end = "no" /\ heard' = Append(heard, Head(server_inbox)) /\ replied' = replied
        /\ Head(server_inbox) = Len(heard) + 1 /\ Len(heard) + 1 <= request.sent
    BY <1>2, KeepsHandlerRead DEF Stream!HandlerRead, Stream!Reads
  <2>2. Len(heard) < request.sent
    <3>1. heard \in Seq(Nat) /\ request \in [sent : Nat, state : {"idle", "open", "closed"}]
      BY DEF StreamInv, StreamTypes
    <3>2. Len(heard) \in Nat /\ request.sent \in Nat
      BY <3>1
    <3> QED
      BY <2>1, <3>2
  <2> QED
    BY <1>1, <2>1, <2>2 DEF RequestsMove, AnswersMove, PipeMoves
<1>3. CASE Stream!HandlerSeesEnd \/ Stream!HandlerDropsRequests
  <2>1. heard_end = "no" /\ heard_end' # "no" /\ heard' = heard /\ replied' = replied
    BY <1>3 DEF Stream!HandlerSeesEnd, Stream!HandlerDropsRequests, Stream!Reads
  <2> QED
    BY <1>1, <2>1 DEF RequestsMove, AnswersMove, PipeMoves
<1>4. ASSUME NEW ok \in BOOLEAN, Stream!HandlerAnswer(ok) PROVE RequestsMove /\ AnswersMove
  <2>1. replied = 0 /\ (replied' = 0 \/ replied' = 1) /\ heard' = heard
    BY <1>4 DEF Stream!HandlerAnswer, StreamInv, StreamStage
  <2>2. heard_end' = heard_end \/ (heard_end = "no" /\ heard_end' # "no")
    BY <1>4 DEF Stream!HandlerAnswer
  <2> QED
    BY <1>1, <2>1, <2>2 DEF RequestsMove, AnswersMove, PipeMoves
<1>5. ASSUME NEW ok \in BOOLEAN, Stream!StartReplies(ok) \/ Stream!EndReplies(ok)
      PROVE  RequestsMove /\ AnswersMove
  <2>1. replied' = replied /\ heard' = heard
    BY <1>5 DEF Stream!StartReplies, Stream!EndReplies
  <2>2. heard_end' = heard_end \/ (heard_end = "no" /\ heard_end' # "no")
    BY <1>5 DEF Stream!StartReplies, Stream!EndReplies
  <2> QED
    BY <1>1, <2>1, <2>2 DEF RequestsMove, AnswersMove, PipeMoves
<1>6. CASE Stream!SendReply
  BY <1>1, <1>6 DEF Stream!SendReply, RequestsMove, AnswersMove, PipeMoves
<1> QED
  BY <1>2, <1>3, <1>4, <1>5, <1>6
     DEF Stream!Handling, Stream!BidiRespond, Stream!BidiEnd, Stream!ServerRespond,
         Stream!ServerEnd, Stream!BidiReply, Stream!ServerReply

\* Frames that arrive.
LEMMA FramesPipe ==
    ASSUME StreamInv, NEW f, Stream!ClientFrame(f) \/ Stream!ServerFrame(f)
    PROVE  RequestsMove /\ AnswersMove
<1>1. CASE Stream!RequestReceive(f)
  <2>1. /\ request.sent = 1 /\ heard = <<>> /\ heard_end = "no"
        /\ UNCHANGED <<request, replied, got, client_end>>
        /\ UNCHANGED <<heard, heard_end>> \/ (heard' = <<1>> /\ heard_end' = "end")
    BY <1>1, KeepsRequestReceive
  <2>2. Len(<<>>) = 0 /\ Append(<<>>, 0 + 1) = <<1>> /\ 0 < 1
    OBVIOUS
  <2>3. UNCHANGED <<heard, heard_end>>
        \/ (heard' = Append(heard, Len(heard) + 1) /\ Len(heard) < request.sent)
    BY <2>1, <2>2
  <2> QED
    BY <2>1, <2>3 DEF RequestsMove, AnswersMove, PipeMoves
<1>2. CASE ~Stream!RequestReceive(f)
  <2>1. UNCHANGED <<request, replied, got, client_end, heard, heard_end>>
    BY <1>2 DEF Stream!ClientFrame, Stream!ServerFrame, Stream!ClientReceive, Stream!ClientOverflow,
                Stream!ClientIgnore, Stream!ServerIgnore, Stream!ServerReceive,
                Stream!ServerOverflow, Stream!client_vars, Stream!server_vars
  <2> QED
    BY <2>1 DEF RequestsMove, AnswersMove, PipeMoves
<1> QED
  BY <1>1, <1>2

\* All of them.
LEMMA StreamPipes ==
    ASSUME StreamInv, [MCNext]_<<vars, stream_vars, alone_vars>>
    PROVE  RequestsMove /\ AnswersMove
<1>1. CASE UNCHANGED stream_vars
  BY <1>1 DEF stream_vars, RequestsMove, AnswersMove, PipeMoves
<1>2. CASE Stream!ServerOpen \/ Stream!ServerRefuse
  BY <1>2 DEF Stream!ServerOpen, Stream!ServerRefuse, Stream!client_vars, Stream!server_vars,
              RequestsMove, AnswersMove, PipeMoves
<1> QED
  BY <1>1, <1>2, RequestsPipe, ReadingPipe, TimingPipe, HandlingPipe, FramesPipe, StreamSteps
     DEF Stream!Next

\* Such steps are those of StreamPipe.
LEMMA RequestedSteps == ASSUME RequestsMove PROVE [Stream!Requested!Next]_Stream!Requested!vars
BY DEF RequestsMove, PipeMoves, Stream!Requested!Next, Stream!Requested!vars, Stream!Requested!Put,
       Stream!Requested!Get, Stream!Requested!GetLast, Stream!Requested!End

\* In the other direction too.
LEMMA RespondedSteps == ASSUME AnswersMove PROVE [Stream!Responded!Next]_Stream!Responded!vars
BY DEF AnswersMove, PipeMoves, Stream!Responded!Next, Stream!Responded!vars, Stream!Responded!Put,
       Stream!Responded!Get, Stream!Responded!GetLast, Stream!Responded!End

\* So both directions are pipes.
LEMMA StreamIsPipes == MCSpec => Stream!ImplementsPipes
<1>1. MCInit => Stream!Requested!Init /\ Stream!Responded!Init
  <2>1. SUFFICES ASSUME MCInit PROVE Stream!Requested!Init /\ Stream!Responded!Init
    OBVIOUS
  <2>2. /\ request = [sent |-> 0, state |-> "idle"] /\ heard = <<>> /\ heard_end = "no"
        /\ replied = 0 /\ got = <<>> /\ client_end = "no"
    BY <2>1 DEF MCInit, Stream!Init
  <2>3. request.sent = 0 /\ (heard_end # "no") = FALSE /\ (client_end # "no") = FALSE
    BY <2>2
  <2> QED
    BY <2>2, <2>3 DEF Stream!Requested!Init, Stream!Responded!Init
<1>2. StreamInv /\ [MCNext]_<<vars, stream_vars, alone_vars>> =>
          /\ [Stream!Requested!Next]_Stream!Requested!vars
          /\ [Stream!Responded!Next]_Stream!Responded!vars
  BY StreamPipes, RequestedSteps, RespondedSteps
<1> QED
  BY <1>1, <1>2, StreamInvariant, PTL
     DEF MCSpec, Stream!ImplementsPipes, Stream!Requested!Spec, Stream!Responded!Spec

-----------------------------------------------------------------------------
(* Calls and streams together. *)

\* Whatever is delayed, reordered, lost or timed out: a call ends with its own
\* answer, a call that waits is listed as pending and one that has ended only after
\* a drop or a timeout, and an end that looks clean to a reader of a stream means
\* that it has read all that was sent.
THEOREM AnswersAreHonest == MCSpec => []AnswersHonest
<1>1. CallsInv /\ StreamInv /\ TypedInv => AnswersHonest
  BY CallsSound, StreamEnds, TypedEnds DEF AnswersHonest
<1> QED
  BY <1>1, CallsInvariant, StreamInvariant, TypedInvariant, PTL

\* Both directions of a stream and its typed ends are pipes: items are read in the
\* order in which they were sent, without gaps, and none after the end.
THEOREM StreamsArePipes == MCSpec => ImplementsPipes
BY StreamIsPipes, TypedIsPipe, PTL DEF ImplementsPipes

-----------------------------------------------------------------------------
(* The wire format. *)

\* A buffer that was cut off after n bytes.
Cut(b, n) == SubSeq(b, 1, n)

Bytes == Seq(0 .. 255)

\* What a buffer holds.
LEMMA BytesType ==
    ASSUME NEW b \in Bytes
    PROVE  Len(b) \in Nat /\ \A i \in 1 .. Len(b) : b[i] \in 0 .. 255
BY LenProperties, ElementOfSeq DEF Bytes

\* Cutting off bytes of a buffer leaves bytes.
LEMMA CutType ==
    ASSUME NEW b \in Bytes, NEW n \in 0 .. Len(b)
    PROVE  Cut(b, n) \in Bytes /\ Len(Cut(b, n)) = n /\ \A i \in 1 .. n : Cut(b, n)[i] = b[i]
<1>1. \A i \in 1 .. n : b[i] \in 0 .. 255
  BY BytesType
<1>2. 1 \in Int /\ n \in Int /\ Len(b) \in Nat
  BY DEF Bytes
<1>3. /\ SubSeq(b, 1, n) \in Seq(0 .. 255)
      /\ Len(SubSeq(b, 1, n)) = IF 1 <= n THEN n - 1 + 1 ELSE 0
      /\ \A i \in 1 .. n - 1 + 1 : SubSeq(b, 1, n)[i] = b[1 + i - 1]
  BY <1>1, <1>2, SubSeqProperties
<1> QED
  BY <1>2, <1>3 DEF Cut, Bytes

\* What follows the first m of n bytes.
LEMMA DropType ==
    ASSUME NEW b \in Bytes, NEW m \in 0 .. Len(b)
    PROVE  /\ SubSeq(b, m + 1, Len(b)) \in Bytes /\ Len(SubSeq(b, m + 1, Len(b))) = Len(b) - m
           /\ \A i \in 1 .. Len(b) - m : SubSeq(b, m + 1, Len(b))[i] = b[m + i]
<1>1. \A i \in m + 1 .. Len(b) : b[i] \in 0 .. 255
  BY BytesType
<1>2. m + 1 \in Int /\ Len(b) \in Int /\ Len(b) \in Nat
  BY DEF Bytes
<1>3. /\ SubSeq(b, m + 1, Len(b)) \in Seq(0 .. 255)
      /\ Len(SubSeq(b, m + 1, Len(b))) = IF m + 1 <= Len(b) THEN Len(b) - (m + 1) + 1 ELSE 0
      /\ \A i \in 1 .. Len(b) - (m + 1) + 1 : SubSeq(b, m + 1, Len(b))[i] = b[m + 1 + i - 1]
  BY <1>1, <1>2, SubSeqProperties
<1> QED
  BY <1>2, <1>3 DEF Bytes

\* Two buffers with the same bytes are the same.
LEMMA SameBytes ==
    ASSUME NEW a \in Bytes, NEW b \in Bytes, NEW n \in Nat, Len(a) = n, Len(b) = n,
           \A i \in 1 .. n : a[i] = b[i]
    PROVE  a = b
BY SeqEqual DEF Bytes

\* One buffer behind another.
LEMMA Behind ==
    ASSUME NEW e \in Bytes, NEW r \in Bytes
    PROVE  /\ e \o r \in Bytes /\ Len(e \o r) = Len(e) + Len(r)
           /\ Len(e) \in Nat /\ Len(r) \in Nat
           /\ \A i \in 1 .. Len(e) : (e \o r)[i] = e[i]
           /\ \A i \in 1 .. Len(r) : (e \o r)[Len(e) + i] = r[i]
<1>1. Len(e) \in Nat /\ Len(r) \in Nat
  BY DEF Bytes
<1>2. /\ e \o r \in Seq(0 .. 255) /\ Len(e \o r) = Len(e) + Len(r)
      /\ \A i \in 1 .. Len(e) + Len(r) :
             (e \o r)[i] = IF i <= Len(e) THEN e[i] ELSE r[i - Len(e)]
  BY ConcatProperties DEF Bytes
<1> QED
  BY <1>1, <1>2 DEF Bytes

\* A buffer that is cut off behind what it begins with is that, and the rest cut off.
LEMMA CutBehind ==
    ASSUME NEW e \in Bytes, NEW r \in Bytes, NEW n \in 0 .. Len(e \o r), Len(e) <= n
    PROVE  /\ n - Len(e) \in 0 .. Len(r)
           /\ SubSeq(Cut(e \o r, n), Len(e) + 1, Len(Cut(e \o r, n))) = Cut(r, n - Len(e))
           /\ SubSeq(Cut(e \o r, n), 1, Len(e)) = e
<1>1. /\ e \o r \in Bytes /\ Len(e \o r) = Len(e) + Len(r)
      /\ Len(e) \in Nat /\ Len(r) \in Nat
      /\ \A i \in 1 .. Len(e) : (e \o r)[i] = e[i]
      /\ \A i \in 1 .. Len(r) : (e \o r)[Len(e) + i] = r[i]
  BY Behind
<1>2. n - Len(e) \in 0 .. Len(r)
  BY <1>1
<1> DEFINE c == Cut(e \o r, n)
           a == SubSeq(c, Len(e) + 1, Len(c))
           z == Cut(r, n - Len(e))
           h == Cut(c, Len(e))
<1>3. c \in Bytes /\ Len(c) = n /\ \A i \in 1 .. n : c[i] = (e \o r)[i]
  BY <1>1, CutType
<1>4. z \in Bytes /\ Len(z) = n - Len(e) /\ \A i \in 1 .. n - Len(e) : z[i] = r[i]
  BY <1>2, CutType
<1> HIDE DEF c, z
<1>5. Len(e) \in 0 .. Len(c)
  BY <1>1, <1>3
<1>6. /\ a \in Bytes /\ Len(a) = Len(c) - Len(e)
      /\ \A i \in 1 .. Len(c) - Len(e) : a[i] = c[Len(e) + i]
  BY <1>3, <1>5, DropType
<1>7. h \in Bytes /\ Len(h) = Len(e) /\ \A i \in 1 .. Len(e) : h[i] = c[i]
  BY <1>3, <1>5, CutType
<1> HIDE DEF a, h
<1>8. a = z
  <2>1. ASSUME NEW i \in 1 .. n - Len(e)
        PROVE  a[i] = z[i]
    <3>1. i \in 1 .. Len(c) - Len(e) /\ Len(e) + i \in 1 .. n /\ i \in 1 .. Len(r)
      BY <1>1, <1>2, <1>3
    <3>2. a[i] = c[Len(e) + i]
      BY <1>6, <3>1, Zenon
    <3>3. c[Len(e) + i] = (e \o r)[Len(e) + i]
      BY <1>3, <3>1, Zenon
    <3>4. (e \o r)[Len(e) + i] = r[i]
      BY <1>1, <3>1, Zenon
    <3>5. z[i] = r[i]
      BY <1>4, Zenon
    <3> QED
      BY <3>2, <3>3, <3>4, <3>5, Zenon
  <2>2. n - Len(e) \in Nat /\ Len(a) = n - Len(e)
    BY <1>2, <1>3, <1>6
  <2> QED
    BY <1>4, <1>6, <2>1, <2>2, SameBytes
<1>9. h = e
  <2>1. ASSUME NEW i \in 1 .. Len(e)
        PROVE  h[i] = e[i]
    <3>1. i \in 1 .. n
      BY <1>1, <1>2
    <3>2. h[i] = c[i] /\ c[i] = (e \o r)[i]
      BY <1>3, <1>7, <3>1, Zenon
    <3>3. (e \o r)[i] = e[i]
      BY <1>1, Zenon
    <3> QED
      BY <3>2, <3>3, Zenon
  <2> QED
    BY <1>1, <1>7, <2>1, SameBytes
<1> QED
  BY <1>2, <1>8, <1>9 DEF a, c, h, z, Cut

\* Three buffers, one behind the other.
Regroup3(a, b, e) ==
    (a \o b) \o e = a \o (b \o e) /\ a \o b \in Bytes /\ b \o e \in Bytes

\* It does not matter which two of them are put together first.
LEMMA Associative ==
    ASSUME NEW a \in Bytes, NEW b \in Bytes, NEW e \in Bytes
    PROVE  Regroup3(a, b, e)
<1>1. a \o b \in Bytes /\ b \o e \in Bytes
  BY ConcatProperties DEF Bytes
<1>2. (a \o b) \o e = a \o (b \o e)
  BY ConcatAssociative DEF Bytes
<1> QED
  BY <1>1, <1>2, Zenon DEF Regroup3

\* The number in the first bytes of a buffer.
NumberOf(b) == b[1] + 256 * b[2] + 256 * 256 * b[3]

\* What a number is on the wire.
LEMMA NumberBytes ==
    ASSUME NEW v \in Nat, v < Limit, NEW w \in {4, 8}
    PROVE  /\ LittleEndian(v, w) \in Bytes /\ Len(LittleEndian(v, w)) = w
           /\ NumberOf(LittleEndian(v, w)) = v
<1> DEFINE x == v % 256
           y == (v \div 256) % 256
           z == (v \div (256 * 256)) % 256
           q == v \div 256
           b == LittleEndian(v, w)
<1>0. v \in Nat /\ v < 256 * 256 * 256
  BY SMT DEF Limit
<1>1. x \in 0 .. 255 /\ q \in Nat /\ y \in 0 .. 255 /\ z \in 0 .. 255 /\ v = (256 * q) + x
  BY <1>0, SMT
<1>2. q = (256 * z) + y
  <2>1. v \div (256 * 256) = q \div 256
    BY <1>0, SMT
  <2>2. v \div (256 * 256) < 256 /\ v \div (256 * 256) \in Nat
    BY <1>0, SMT
  <2>3. z = q \div 256
    BY <2>1, <2>2, SMT
  <2> HIDE DEF q, z
  <2> QED
    BY <2>3, <1>1, SMT DEF q
<1>3. b = [i \in 1 .. w |-> IF i > 3 THEN 0 ELSE <<x, y, z>>[i]]
  BY DEF LittleEndian
<1> HIDE DEF x, y, z, b, q
<1>4. \A i \in 1 .. w : (IF i > 3 THEN 0 ELSE <<x, y, z>>[i]) \in 0 .. 255
  <2> TAKE i \in 1 .. w
  <2>1. CASE i > 3
    BY <2>1
  <2>2. CASE i \in {1, 2, 3}
    BY <1>1, <2>2
  <2>3. i \in Int
    OBVIOUS
  <2> QED
    BY <2>1, <2>2, <2>3
<1>5. b \in [1 .. w -> 0 .. 255]
  BY <1>3, <1>4
<1>6. b \in Bytes /\ Len(b) = w
  BY <1>5 DEF Bytes
<1>7. b[1] = x /\ b[2] = y /\ b[3] = z
  BY <1>3
<1>8. x + 256 * y + 256 * 256 * z = v
  BY <1>1, <1>2
<1> QED
  BY <1>6, <1>7, <1>8 DEF b, NumberOf

\* The outcome of reading v off a buffer that lacks bytes of v if k is negative, and
\* goes on with the first k bytes of r otherwise.
Reads(g, v, r, k) == IF k < 0 THEN g = Bad ELSE g = Got(v, Cut(r, k))

\* Numbers are read as they were put.
LEMMA ReadsNumber ==
    ASSUME NEW v \in Nat, v < Limit, NEW w \in {4, 8}, NEW r \in Bytes,
           NEW n \in 0 .. Len(LittleEndian(v, w) \o r)
    PROVE  Reads(GetNumber(Cut(LittleEndian(v, w) \o r, n), w), v, r, n - w)
<1> DEFINE e == LittleEndian(v, w)
           c == Cut(e \o r, n)
<1>1. e \in Bytes /\ Len(e) = w /\ NumberOf(e) = v
  BY NumberBytes
<1> HIDE DEF e
<1>0. e \in Bytes
  BY <1>1
<1>2. /\ e \o r \in Bytes /\ Len(e \o r) = Len(e) + Len(r)
      /\ Len(e) \in Nat /\ Len(r) \in Nat
      /\ \A i \in 1 .. Len(e) : (e \o r)[i] = e[i]
  BY <1>0, Behind
<1>3. n \in 0 .. Len(e \o r)
  BY DEF e
<1>4. c \in Bytes /\ Len(c) = n /\ \A i \in 1 .. n : c[i] = (e \o r)[i]
  BY <1>2, <1>3, CutType
<1>5. CASE n < w
  <2>1. GetNumber(c, w) = Bad
    BY <1>4, <1>5 DEF GetNumber
  <2>2. n - w < 0
    BY <1>5
  <2> QED
    BY <2>1, <2>2 DEF Reads, e
<1>6. CASE n >= w
  <2>1. SubSeq(c, w + 1, Len(c)) = Cut(r, n - w)
    BY <1>1, <1>3, <1>6, CutBehind
  <2>2. c[1] = e[1] /\ c[2] = e[2] /\ c[3] = e[3]
    BY <1>1, <1>2, <1>4, <1>6
  <2>3. NumberOf(c) = v
    BY <1>1, <2>2 DEF NumberOf
  <2>4. ~(Len(c) < w) /\ ~(n - w < 0)
    BY <1>4, <1>6
  <2> HIDE DEF c
  <2>5. GetNumber(c, w) = Got(v, Cut(r, n - w))
    BY <2>1, <2>3, <2>4 DEF GetNumber, NumberOf
  <2> QED
    BY <2>4, <2>5 DEF Reads, c, e
<1> QED
  BY <1>5, <1>6

\* Lengths and codes are.
LEMMA ReadsU32 ==
    ASSUME NEW v \in Nat, v < Limit, NEW r \in Bytes, NEW n \in 0 .. Len(PutU32(v) \o r)
    PROVE  Reads(GetU32(Cut(PutU32(v) \o r, n)), v, r, n - 4)
BY ReadsNumber DEF GetU32, PutU32

\* The numbers of frames are.
LEMMA ReadsU64 ==
    ASSUME NEW v \in Nat, v < Limit, NEW r \in Bytes, NEW n \in 0 .. Len(PutU64(v) \o r)
    PROVE  Reads(GetU64(Cut(PutU64(v) \o r, n)), v, r, n - 8)
BY ReadsNumber DEF GetU64, PutU64

\* What numbers are on the wire.
LEMMA PutNumberType ==
    ASSUME NEW v \in Nat, v < Limit
    PROVE  PutU32(v) \in Bytes /\ Len(PutU32(v)) = 4 /\ PutU64(v) \in Bytes /\ Len(PutU64(v)) = 8
BY NumberBytes DEF PutU32, PutU64

\* A byte is a buffer.
LEMMA ByteType ==
    ASSUME NEW v \in 0 .. 255
    PROVE  <<v>> \in Bytes /\ Len(<<v>>) = 1
BY DEF Bytes

\* A byte is read as it was put.
LEMMA ReadsU8 ==
    ASSUME NEW v \in 0 .. 255, NEW r \in Bytes, NEW n \in 0 .. Len(<<v>> \o r)
    PROVE  Reads(GetU8(Cut(<<v>> \o r, n)), v, r, n - 1)
<1> DEFINE e == <<v>>
           c == Cut(e \o r, n)
<1>1. e \in Bytes /\ Len(e) = 1 /\ e[1] = v
  BY ByteType
<1> HIDE DEF e
<1>0. e \in Bytes
  BY <1>1
<1>2. /\ e \o r \in Bytes /\ Len(e \o r) = Len(e) + Len(r)
      /\ Len(e) \in Nat /\ Len(r) \in Nat
      /\ \A i \in 1 .. Len(e) : (e \o r)[i] = e[i]
  BY <1>0, Behind
<1>3. n \in 0 .. Len(e \o r)
  BY DEF e
<1>4. c \in Bytes /\ Len(c) = n /\ \A i \in 1 .. n : c[i] = (e \o r)[i]
  BY <1>2, <1>3, CutType
<1>5. CASE n < 1
  <2>1. GetU8(c) = Bad
    BY <1>4, <1>5 DEF GetU8
  <2>2. n - 1 < 0
    BY <1>5
  <2> QED
    BY <2>1, <2>2 DEF Reads, e
<1>6. CASE n >= 1
  <2>0. Len(e) <= n
    BY <1>1, <1>6
  <2>3. SubSeq(c, Len(e) + 1, Len(c)) = Cut(r, n - Len(e))
    BY <1>0, <1>3, <2>0, CutBehind
  <2>1. SubSeq(c, 1 + 1, Len(c)) = Cut(r, n - 1)
    BY <1>1, <2>3
  <2>2. c[1] = v
    BY <1>1, <1>2, <1>4, <1>6
  <2>4. ~(Len(c) < 1) /\ ~(n - 1 < 0)
    BY <1>4, <1>6
  <2> HIDE DEF c
  <2>5. Tail(c) = SubSeq(c, 1 + 1, Len(c))
    <3>1. c \in Seq(0 .. 255) /\ c # <<>>
      BY <1>4, <2>4 DEF Bytes
    <3> QED
      BY <3>1, TailIsSubSeq
  <2>6. GetU8(c) = Got(v, Cut(r, n - 1))
    BY <2>1, <2>2, <2>4, <2>5 DEF GetU8
  <2> QED
    BY <2>4, <2>6 DEF Reads, c, e
<1> QED
  BY <1>5, <1>6

\* Bytes with their length are a buffer.
LEMMA PutBytesType ==
    ASSUME NEW t \in Bytes, Len(t) < Limit
    PROVE  /\ PutBytes(t) \in Bytes /\ Len(PutBytes(t)) = 4 + Len(t)
           /\ Len(t) \in Nat /\ PutU32(Len(t)) \in Bytes /\ Len(PutU32(Len(t))) = 4
<1>1. Len(t) \in Nat
  BY BytesType
<1>2. PutU32(Len(t)) \in Bytes /\ Len(PutU32(Len(t))) = 4
  BY <1>1, PutNumberType
<1>3. PutU32(Len(t)) \in Bytes
  BY <1>2
<1>4. PutU32(Len(t)) \o t \in Bytes /\ Len(PutU32(Len(t)) \o t) = Len(PutU32(Len(t))) + Len(t)
  BY <1>3, Behind
<1> QED
  BY <1>1, <1>2, <1>4 DEF PutBytes

\* Bytes with their length are read as they were put.
LEMMA ReadsBytes ==
    ASSUME NEW t \in Bytes, Len(t) < Limit, NEW r \in Bytes, NEW n \in 0 .. Len(PutBytes(t) \o r)
    PROVE  Reads(GetBytes(Cut(PutBytes(t) \o r, n)), t, r, n - Len(PutBytes(t)))
<1> DEFINE e == PutU32(Len(t))
           c == Cut(e \o (t \o r), n)
           g == GetU32(c)
<1>1. e \in Bytes /\ Len(e) = 4 /\ Len(t) \in Nat /\ Len(PutBytes(t)) = 4 + Len(t)
  BY PutBytesType
<1>2. PutBytes(t) \o r = e \o (t \o r) /\ t \o r \in Bytes
  <2>1. PutBytes(t) = e \o t
    BY DEF PutBytes
  <2> HIDE DEF e
  <2>2. Regroup3(e, t, r)
    BY <1>1, Associative, Zenon
  <2> QED
    BY <2>1, <2>2, Zenon DEF Regroup3
<1>3. /\ Len(t \o r) = Len(t) + Len(r) /\ Len(r) \in Nat
      /\ Len(e \o (t \o r)) = 4 + Len(t \o r)
  <2> HIDE DEF e
  <2>1. e \in Bytes /\ t \o r \in Bytes
    BY <1>1, <1>2
  <2>2. Len(t \o r) = Len(t) + Len(r) /\ Len(r) \in Nat
    BY Behind
  <2>3. Len(e \o (t \o r)) = Len(e) + Len(t \o r)
    BY <2>1, Behind
  <2> QED
    BY <1>1, <2>2, <2>3
<1>4. n \in 0 .. Len(e \o (t \o r))
  BY <1>2
<1>5. Reads(g, Len(t), t \o r, n - 4)
  BY <1>1, <1>2, <1>4, ReadsU32
<1>6. n \in Int /\ n - Len(PutBytes(t)) = n - 4 - Len(t)
  BY <1>1
<1>7. SUFFICES Reads(GetBytes(c), t, r, n - 4 - Len(t))
  BY <1>2, <1>6
<1> HIDE DEF c, g, e
<1>8. CASE n < 4
  <2>1. n - 4 < 0 /\ n - 4 - Len(t) < 0
    BY <1>1, <1>6, <1>8
  <2>2. g = Bad
    BY <1>5, <2>1 DEF Reads
  <2>3. GetBytes(c) = Bad
    BY <2>2 DEF GetBytes, g, Bad
  <2> QED
    BY <2>1, <2>3 DEF Reads
<1>9. CASE n >= 4
  <2>1. ~(n - 4 < 0)
    BY <1>6, <1>9
  <2>2. g.ok = TRUE /\ g.val = Len(t) /\ g.rest = Cut(t \o r, n - 4)
    BY <1>5, <2>1 DEF Reads, Got
  <2>3. n - 4 \in 0 .. Len(t \o r)
    BY <1>3, <1>4, <1>6, <1>9
  <2>4. Len(g.rest) = n - 4
    <3>1. t \o r \in Bytes
      BY <1>2
    <3>2. Len(Cut(t \o r, n - 4)) = n - 4
      BY <2>3, <3>1, CutType
    <3> QED
      BY <2>2, <3>2, Zenon
  <2>5. GetBytes(c) = IF Len(g.rest) < g.val THEN Bad
                      ELSE Got(SubSeq(g.rest, 1, g.val), SubSeq(g.rest, g.val + 1, Len(g.rest)))
    BY <2>2 DEF GetBytes, g
  <2>6. CASE n - 4 < Len(t)
    <3>1. n - 4 - Len(t) < 0
      BY <1>1, <1>6, <2>6
    <3> QED
      BY <2>2, <2>4, <2>5, <2>6, <3>1 DEF Reads
  <2>7. CASE Len(t) <= n - 4
    <3>1. ~(n - 4 - Len(t) < 0) /\ ~(n - 4 < Len(t))
      BY <1>1, <1>6, <2>7
    <3>2. /\ SubSeq(Cut(t \o r, n - 4), Len(t) + 1, Len(Cut(t \o r, n - 4)))
             = Cut(r, n - 4 - Len(t))
          /\ SubSeq(Cut(t \o r, n - 4), 1, Len(t)) = t
      BY <2>3, <2>7, CutBehind
    <3>3. GetBytes(c) = Got(t, Cut(r, n - 4 - Len(t)))
      BY <2>2, <2>4, <2>5, <3>1, <3>2
    <3> QED
      BY <3>1, <3>3 DEF Reads
  <2> QED
    BY <1>1, <1>6, <2>6, <2>7
<1> QED
  BY <1>6, <1>8, <1>9

\* What messages carry as text.
IsText(t) == t \in Seq(0 .. 127) /\ Len(t) < Limit

\* Text is bytes.
LEMMA TextIsBytes ==
    ASSUME NEW t, IsText(t)
    PROVE  t \in Bytes /\ Len(t) < Limit /\ Len(t) \in Nat /\ \A i \in 1 .. Len(t) : ~(t[i] > 127)
<1>1. t \in Seq(0 .. 127) /\ Len(t) < Limit
  BY DEF IsText
<1>2. Len(t) \in Nat /\ \A i \in 1 .. Len(t) : t[i] \in 0 .. 127
  BY <1>1, LenProperties, ElementOfSeq
<1>3. t \in Bytes
  <2>1. 0 .. 127 \subseteq 0 .. 255
    OBVIOUS
  <2> QED
    BY <1>1, <2>1, SeqMonotonic DEF Bytes
<1>4. ASSUME NEW i \in 1 .. Len(t)
      PROVE  ~(t[i] > 127)
  <2>1. t[i] \in 0 .. 127
    BY <1>2
  <2>2. \A x \in 0 .. 127 : ~(x > 127)
    OBVIOUS
  <2> QED
    BY <2>1, <2>2, Zenon
<1> QED
  BY <1>1, <1>2, <1>3, <1>4

\* Text with its length is a buffer.
LEMMA PutStringType ==
    ASSUME NEW t, IsText(t)
    PROVE  PutString(t) \in Bytes /\ Len(PutString(t)) = 4 + Len(t) /\ Len(t) \in Nat
BY TextIsBytes, PutBytesType DEF PutString

\* The parts of an outcome.
LEMMA GotParts ==
    ASSUME NEW v, NEW r
    PROVE  Got(v, r).ok = TRUE /\ Got(v, r).val = v /\ Got(v, r).rest = r /\ Bad.ok = FALSE
BY DEF Got, Bad

\* Text is read as it was put.
LEMMA ReadsString ==
    ASSUME NEW t, IsText(t), NEW r \in Bytes, NEW n \in 0 .. Len(PutString(t) \o r)
    PROVE  Reads(GetString(Cut(PutString(t) \o r, n)), t, r, n - Len(PutString(t)))
<1> DEFINE c == Cut(PutString(t) \o r, n)
           k == n - Len(PutString(t))
           s == GetBytes(c)
<1>1. t \in Bytes /\ Len(t) < Limit
  BY TextIsBytes
<1>2. Reads(s, t, r, k)
  BY <1>1, ReadsBytes DEF PutString
<1>3. \A i \in 1 .. Len(t) : ~(t[i] > 127)
  BY TextIsBytes
<1>4. GetString(c) = IF s.ok /\ (\E i \in 1 .. Len(s.val) : s.val[i] > 127) THEN Bad ELSE s
  BY DEF GetString
<1>0. SUFFICES Reads(GetString(c), t, r, k)
  OBVIOUS
<1> HIDE DEF c, k, s
<1>5. CASE k < 0
  <2>1. s = Bad
    BY <1>2, <1>5 DEF Reads
  <2>2. GetString(c) = Bad
    BY <1>4, <2>1
  <2> QED
    BY <1>5, <2>2 DEF Reads
<1>6. CASE ~(k < 0)
  <2>1. s = Got(t, Cut(r, k))
    BY <1>2, <1>6 DEF Reads
  <2>2. s.val = t
    BY <2>1, GotParts
  <2>3. GetString(c) = s
    BY <1>3, <1>4, <2>2
  <2> QED
    BY <2>1, <2>3, <1>6 DEF Reads
<1> QED
  BY <1>5, <1>6

\* Status codes are read as they were put.
LEMMA ReadsCode ==
    ASSUME NEW v \in 0 .. 16, NEW r \in Bytes, NEW n \in 0 .. Len(PutU32(v) \o r)
    PROVE  Reads(GetCode(Cut(PutU32(v) \o r, n)), v, r, n - Len(PutU32(v)))
<1> DEFINE g == GetU32(Cut(PutU32(v) \o r, n))
<1>1. v \in Nat /\ v < Limit /\ ~(v > 16)
  BY DEF Limit
<1>2. Reads(g, v, r, n - 4)
  BY <1>1, ReadsU32
<1>3. GetCode(Cut(PutU32(v) \o r, n)) = IF g.ok /\ g.val > 16 THEN Got(2, g.rest) ELSE g
  BY DEF GetCode
<1> HIDE DEF g
<1>4. Len(PutU32(v)) = 4
  BY <1>1, PutNumberType
<1>5. CASE n - 4 < 0
  <2>1. g = Bad
    BY <1>2, <1>5 DEF Reads
  <2>2. GetCode(Cut(PutU32(v) \o r, n)) = Bad
    BY <1>3, <2>1, GotParts
  <2> QED
    BY <1>4, <1>5, <2>2 DEF Reads
<1>6. CASE ~(n - 4 < 0)
  <2>1. g = Got(v, Cut(r, n - 4))
    BY <1>2, <1>6 DEF Reads
  <2>2. g.val = v
    BY <2>1, GotParts
  <2>3. GetCode(Cut(PutU32(v) \o r, n)) = g
    BY <1>1, <1>3, <2>2
  <2> QED
    BY <1>4, <1>6, <2>1, <2>3 DEF Reads
<1> QED
  BY <1>5, <1>6

\* Flags are read as they were put.
LEMMA ReadsFlag ==
    ASSUME NEW v \in Flags, NEW r \in Bytes, NEW n \in 0 .. Len(<<v>> \o r)
    PROVE  Reads(GetFlag(Cut(<<v>> \o r, n)), v, r, n - 1)
<1> DEFINE g == GetU8(Cut(<<v>> \o r, n))
<1>1. v \in 0 .. 255 /\ v \in {0, 1}
  BY DEF Flags
<1>2. Reads(g, v, r, n - 1)
  BY <1>1, ReadsU8
<1>3. GetFlag(Cut(<<v>> \o r, n)) = IF g.ok /\ g.val # 0 THEN Got(1, g.rest) ELSE g
  BY DEF GetFlag
<1> HIDE DEF g
<1>5. CASE n - 1 < 0
  BY <1>2, <1>3, <1>5, GotParts DEF Reads
<1>6. CASE ~(n - 1 < 0)
  <2>1. g = Got(v, Cut(r, n - 1))
    BY <1>2, <1>6 DEF Reads
  <2>2. g.val = v /\ g.rest = Cut(r, n - 1)
    BY <2>1, GotParts
  <2>3. GetFlag(Cut(<<v>> \o r, n)) = g
    BY <1>1, <1>3, <2>1, <2>2
  <2> QED
    BY <1>6, <2>1, <2>3 DEF Reads
<1> QED
  BY <1>5, <1>6

\* Directions are read as they were put.
LEMMA ReadsDirection ==
    ASSUME NEW v \in Flags, NEW r \in Bytes, NEW n \in 0 .. Len(<<v>> \o r)
    PROVE  Reads(GetDirection(Cut(<<v>> \o r, n)), v, r, n - 1)
<1> DEFINE g == GetU8(Cut(<<v>> \o r, n))
<1>1. v \in 0 .. 255 /\ ~(v > 1)
  BY DEF Flags
<1>2. Reads(g, v, r, n - 1)
  BY <1>1, ReadsU8
<1>3. GetDirection(Cut(<<v>> \o r, n)) = IF g.ok /\ g.val > 1 THEN Bad ELSE g
  BY DEF GetDirection
<1> HIDE DEF g
<1>5. CASE n - 1 < 0
  BY <1>2, <1>3, <1>5, GotParts DEF Reads
<1>6. CASE ~(n - 1 < 0)
  <2>1. g = Got(v, Cut(r, n - 1))
    BY <1>2, <1>6 DEF Reads
  <2>2. g.val = v
    BY <2>1, GotParts
  <2> QED
    BY <1>1, <1>3, <1>6, <2>1, <2>2 DEF Reads
<1> QED
  BY <1>5, <1>6

\* Kinds are read as they were put.
LEMMA ReadsKind ==
    ASSUME NEW v \in 0 .. 3, NEW r \in Bytes, NEW n \in 0 .. Len(<<v>> \o r)
    PROVE  Reads(GetKind(Cut(<<v>> \o r, n)), v, r, n - 1)
<1> DEFINE g == GetU8(Cut(<<v>> \o r, n))
<1>1. v \in 0 .. 255 /\ ~(v > 3)
  OBVIOUS
<1>2. Reads(g, v, r, n - 1)
  BY <1>1, ReadsU8
<1>3. GetKind(Cut(<<v>> \o r, n)) = IF g.ok /\ g.val > 3 THEN Bad ELSE g
  BY DEF GetKind
<1> HIDE DEF g
<1>5. CASE n - 1 < 0
  BY <1>2, <1>3, <1>5, GotParts DEF Reads
<1>6. CASE ~(n - 1 < 0)
  <2>1. g = Got(v, Cut(r, n - 1))
    BY <1>2, <1>6 DEF Reads
  <2>2. g.val = v
    BY <2>1, GotParts
  <2> QED
    BY <1>1, <1>3, <1>6, <2>1, <2>2 DEF Reads
<1> QED
  BY <1>5, <1>6

\* A method, present or not, as it is put.
PutMethod(m) == IF m # <<>> THEN <<1>> \o PutString(m[1]) ELSE <<0>>

\* It is a buffer.
LEMMA PutMethodType ==
    ASSUME NEW m, m = <<>> \/ \E t : IsText(t) /\ m = <<t>>
    PROVE  PutMethod(m) \in Bytes /\ Len(PutMethod(m)) \in Nat /\ Len(PutMethod(m)) > 0
<1>1. CASE m = <<>>
  <2>1. PutMethod(m) = <<0>>
    BY <1>1 DEF PutMethod
  <2>2. <<0>> \in Bytes /\ Len(<<0>>) = 1
    BY ByteType
  <2> QED
    BY <2>1, <2>2
<1>2. CASE m # <<>>
  <2>1. PICK t : IsText(t) /\ m = <<t>>
    BY <1>2
  <2>2. PutMethod(m) = <<1>> \o PutString(t)
    BY <1>2, <2>1 DEF PutMethod
  <2>3. PutString(t) \in Bytes /\ Len(PutString(t)) = 4 + Len(t) /\ Len(t) \in Nat
    BY <2>1, PutStringType
  <2>4. <<1>> \in Bytes /\ Len(<<1>>) = 1
    BY ByteType
  <2>5. PutString(t) \in Bytes
    BY <2>3
  <2>6. <<1>> \o PutString(t) \in Bytes /\ Len(<<1>> \o PutString(t)) = Len(<<1>>) + Len(PutString(t))
    BY <2>4, <2>5, Behind
  <2> QED
    BY <2>2, <2>3, <2>4, <2>6
<1> QED
  BY <1>1, <1>2

\* It is read as it was put.
LEMMA ReadsMethod ==
    ASSUME NEW m, m = <<>> \/ \E t : IsText(t) /\ m = <<t>>,
           NEW r \in Bytes, NEW n \in 0 .. Len(PutMethod(m) \o r)
    PROVE  Reads(GetMethod(Cut(PutMethod(m) \o r, n)), m, r, n - Len(PutMethod(m)))
<1>1. CASE m = <<>>
  <2> DEFINE c == Cut(<<0>> \o r, n)
             g == GetU8(c)
  <2>1. PutMethod(m) = <<0>> /\ Len(<<0>>) = 1
    BY <1>1 DEF PutMethod
  <2>2. n \in 0 .. Len(<<0>> \o r)
    BY <2>1
  <2>5. 0 \in 0 .. 255
    OBVIOUS
  <2>3. Reads(g, 0, r, n - 1)
    BY <2>2, <2>5, ReadsU8
  <2>4. Reads(GetMethod(c), <<>>, r, n - 1)
    <3> HIDE DEF c
    <3>1. CASE n - 1 < 0
      BY <2>3, <3>1 DEF GetMethod, Reads, Bad
    <3>2. CASE ~(n - 1 < 0)
      <4>1. g = Got(0, Cut(r, n - 1))
        BY <2>3, <3>2 DEF Reads
      <4> HIDE DEF g
      <4>2. g.ok = TRUE /\ g.val = 0 /\ g.rest = Cut(r, n - 1)
        BY <4>1, GotParts
      <4>3. GetMethod(c) = Got(<<>>, Cut(r, n - 1))
        BY <4>2 DEF GetMethod, g
      <4> QED
        BY <3>2, <4>3 DEF Reads
    <3> QED
      BY <3>1, <3>2
  <2> QED
    BY <1>1, <2>1, <2>4
<1>2. CASE m # <<>>
  <2>1. PICK t : IsText(t) /\ m = <<t>>
    BY <1>2
  <2> DEFINE u == PutString(t)
             c == Cut(<<1>> \o (u \o r), n)
             g == GetU8(c)
             s == GetString(g.rest)
  <2>2. PutMethod(m) = <<1>> \o u
    BY <1>2, <2>1 DEF PutMethod
  <2>3. u \in Bytes /\ Len(u) \in Nat
    BY <2>1, PutStringType
  <2>4. <<1>> \in Bytes /\ Len(<<1>>) = 1
    BY ByteType
  <2> HIDE DEF u
  <2>5. u \in Bytes
    BY <2>3
  <2>6. (<<1>> \o u) \o r = <<1>> \o (u \o r) /\ u \o r \in Bytes
    <3>1. Regroup3(<<1>>, u, r)
      BY <2>4, <2>5, Associative, Zenon
    <3> QED
      BY <3>1, Zenon DEF Regroup3
  <2>7. Len(<<1>> \o u) = Len(<<1>>) + Len(u)
    BY <2>4, <2>5, Behind
  <2>8. n \in 0 .. Len(<<1>> \o (u \o r))
    BY <2>2, <2>6
  <2>9. Reads(g, 1, u \o r, n - 1)
    <3>1. u \o r \in Bytes
      BY <2>6
    <3>2. 1 \in 0 .. 255
      OBVIOUS
    <3> QED
      BY <3>1, <3>2, <2>8, ReadsU8
  <2>10. n \in Int /\ n - Len(<<1>> \o u) = n - 1 - Len(u)
    BY <2>3, <2>4, <2>7
  <2>11. Reads(GetMethod(c), m, r, n - 1 - Len(u))
    <3> HIDE DEF c
    <3>1. CASE n - 1 < 0
      <4>1. n - 1 - Len(u) < 0
        BY <2>3, <2>10, <3>1
      <4>2. g = Bad
        BY <2>9, <3>1 DEF Reads
      <4>3. GetMethod(c) = Bad
        BY <4>2 DEF GetMethod, Bad
      <4> QED
        BY <4>1, <4>3 DEF Reads
    <3>2. CASE ~(n - 1 < 0)
      <4>1. g = Got(1, Cut(u \o r, n - 1))
        BY <2>9, <3>2 DEF Reads
      <4>2. g.ok = TRUE /\ g.val = 1 /\ g.rest = Cut(u \o r, n - 1)
        <5> HIDE DEF g
        <5> QED
          BY <4>1, GotParts
      <4>3. Len(<<1>> \o (u \o r)) = 1 + Len(u \o r) /\ Len(u \o r) \in Nat
        <5>1. u \o r \in Bytes
          BY <2>6
        <5> QED
          BY <5>1, <2>4, Behind
      <4>4. n - 1 \in 0 .. Len(u \o r)
        BY <2>8, <2>10, <3>2, <4>3
      <4>5. Reads(s, t, r, n - 1 - Len(u))
        BY <2>1, <4>2, <4>4, ReadsString DEF u
      <4> HIDE DEF g, s
      <4>6. GetMethod(c) = IF s.ok THEN Got(<<s.val>>, s.rest) ELSE Bad
        BY <4>2 DEF GetMethod, g, s
      <4>7. CASE n - 1 - Len(u) < 0
        <5>1. s = Bad
          BY <4>5, <4>7 DEF Reads
        <5>2. GetMethod(c) = Bad
          BY <4>6, <5>1, GotParts
        <5> QED
          BY <5>2, <4>7 DEF Reads
      <4>8. CASE ~(n - 1 - Len(u) < 0)
        <5>1. s = Got(t, Cut(r, n - 1 - Len(u)))
          BY <4>5, <4>8 DEF Reads
        <5>3. s.ok = TRUE /\ s.val = t /\ s.rest = Cut(r, n - 1 - Len(u))
          BY <5>1, GotParts
        <5>2. GetMethod(c) = Got(<<t>>, Cut(r, n - 1 - Len(u)))
          BY <4>6, <5>3
        <5> QED
          BY <5>2, <4>8, <2>1 DEF Reads
      <4> QED
        BY <4>7, <4>8
    <3> QED
      BY <3>1, <3>2
  <2> QED
    BY <2>2, <2>6, <2>10, <2>11
<1> QED
  BY <1>1, <1>2

-----------------------------------------------------------------------------
(* A decoder reads one value after the other. *)

\* The decoder has read vs, and goes on with the first n bytes of b; or bytes of
\* vs were missing, if n is negative.
At(s, vs, b, n) ==
    IF n < 0 THEN s = Bad ELSE s = [ok |-> TRUE, vals |-> vs, rest |-> Cut(b, n)]

\* It goes on behind the value.
LEMMA TookAt ==
    ASSUME NEW s, NEW vs, NEW b, NEW n \in Int, At(s, vs, b, n), NEW g, NEW v, NEW r,
           NEW k \in Int, k <= n, n < 0 \/ Reads(g, v, r, k)
    PROVE  At(Then(s, g), Append(vs, v), r, k)
<1>1. CASE n < 0
  <2>1. s = Bad /\ k < 0
    BY <1>1 DEF At
  <2>2. Then(s, g) = Bad
    BY <2>1 DEF Then, Bad
  <2> QED
    BY <2>1, <2>2 DEF At
<1>2. CASE ~(n < 0)
  <2>1. s.ok = TRUE /\ s.vals = vs
    BY <1>2 DEF At
  <2>2. CASE k < 0
    <3>1. g = Bad
      BY <1>2, <2>2 DEF Reads
    <3>2. Then(s, g) = Bad
      BY <2>1, <3>1 DEF Then, Bad
    <3> QED
      BY <2>2, <3>2 DEF At
  <2>3. CASE ~(k < 0)
    <3>1. g = Got(v, Cut(r, k))
      BY <1>2, <2>3 DEF Reads
    <3>2. g.ok = TRUE /\ g.val = v /\ g.rest = Cut(r, k)
      BY <3>1, GotParts
    <3>3. Then(s, g) = [ok |-> TRUE, vals |-> Append(vs, v), rest |-> Cut(r, k)]
      BY <2>1, <3>2 DEF Then
    <3> QED
      BY <2>3, <3>3 DEF At
  <2> QED
    BY <2>2, <2>3
<1> QED
  BY <1>1, <1>2

\* The rest of what it reads while it can read on.
LEMMA AtRest ==
    ASSUME NEW s, NEW vs, NEW b, NEW n \in Int, At(s, vs, b, n), ~(n < 0)
    PROVE  s.ok = TRUE /\ s.vals = vs /\ s.rest = Cut(b, n)
BY DEF At

\* What is left behind e.
LEMMA LeftBehind ==
    ASSUME NEW e \in Bytes, NEW r \in Bytes, NEW n \in Int, n <= Len(e \o r)
    PROVE  /\ n - Len(e) \in Int /\ n - Len(e) <= n /\ n - Len(e) <= Len(r)
           /\ n < 0 \/ n \in 0 .. Len(e \o r)
<1>1. Len(e \o r) = Len(e) + Len(r) /\ Len(e) \in Nat /\ Len(r) \in Nat
  BY Behind
<1> QED
  BY <1>1

\* A decoder that reads text.
LEMMA ThenStringAt ==
    ASSUME NEW s, NEW vs, NEW t, IsText(t), NEW r \in Bytes, NEW n \in Int,
           n <= Len(PutString(t) \o r), At(s, vs, PutString(t) \o r, n)
    PROVE  /\ At(ThenString(s), Append(vs, t), r, n - Len(PutString(t)))
           /\ n - Len(PutString(t)) \in Int /\ n - Len(PutString(t)) <= Len(r)
<1> DEFINE e == PutString(t)
           g == GetString(s.rest)
<1>1. e \in Bytes
  BY PutStringType
<1>2. ThenString(s) = Then(s, g)
  BY DEF ThenString
<1> HIDE DEF e, g
<1>3. /\ n - Len(e) \in Int /\ n - Len(e) <= n /\ n - Len(e) <= Len(r)
      /\ n < 0 \/ n \in 0 .. Len(e \o r)
  BY <1>1, LeftBehind DEF e
<1>4. n < 0 \/ Reads(g, t, r, n - Len(e))
  <2>1. SUFFICES ASSUME ~(n < 0) PROVE Reads(g, t, r, n - Len(e))
    OBVIOUS
  <2>2. g = GetString(Cut(e \o r, n)) /\ n \in 0 .. Len(PutString(t) \o r)
    BY <1>3, <2>1, AtRest DEF e, g
  <2> QED
    BY <2>2, ReadsString DEF e
<1>5. At(Then(s, g), Append(vs, t), r, n - Len(e))
  BY <1>3, <1>4, TookAt DEF e
<1> QED
  BY <1>2, <1>3, <1>5 DEF e

-----------------------------------------------------------------------------
(* Keys and values. *)

\* What messages carry as metadata.
IsMetadata(md) ==
    /\ md \in Seq({t \in Seq(0 .. 127) : IsText(t)} \X {t \in Seq(0 .. 127) : IsText(t)})
    /\ Len(md) < Limit

\* The i-th pair on the wire.
PairBytes(md, i) == PutString(md[i][1]) \o PutString(md[i][2])

\* What the loop of put_kv has put after i pairs, given what it had after i - 1.
PutNext(md, f, i) == IF i = 0 THEN PutU32(Len(md)) ELSE f[i - 1] \o PairBytes(md, i)

\* f[i] is what the loop of put_kv has put after i of m pairs.
Puts(md, m, f) == f = [i \in 0 .. m |-> PutNext(md, f, i)]

\* There is such a function for m pairs.
PutsUpTo(md, m) == \E f : Puts(md, m, f)

\* It is found step by step.
LEMMA PutsExists ==
    ASSUME NEW md, NEW m \in Nat
    PROVE  PutsUpTo(md, m)
<1> DEFINE B == {k \in 0 .. m : PutsUpTo(md, k)}
<1>1. 0 \in B
  <2> DEFINE f == [i \in 0 .. 0 |-> PutU32(Len(md))]
  <2>1. Puts(md, 0, f)
    BY DEF Puts, PutNext
  <2>2. PutsUpTo(md, 0)
    BY <2>1 DEF PutsUpTo
  <2> QED
    BY <2>2
<1>2. ASSUME NEW k \in 0 .. m - 1, k \in B
      PROVE  k + 1 \in B
  <2>1. PICK f : Puts(md, k, f)
    BY <1>2 DEF PutsUpTo
  <2> DEFINE g == [i \in 0 .. k + 1 |-> IF i = k + 1 THEN PutNext(md, f, k + 1) ELSE f[i]]
             h == [i \in 0 .. k + 1 |-> PutNext(md, g, i)]
  <2>2. f = [i \in 0 .. k |-> PutNext(md, f, i)]
    BY <2>1 DEF Puts
  <2>3. ASSUME NEW i \in 0 .. k + 1
        PROVE  g[i] = PutNext(md, g, i)
    <3>1. CASE i = 0
      <4>1. g[0] = f[0] /\ 0 \in 0 .. k
        BY <1>2
      <4>2. f[0] = PutNext(md, f, 0)
        BY <2>2, <4>1
      <4> QED
        BY <3>1, <4>1, <4>2 DEF PutNext
    <3>2. CASE i # 0 /\ i # k + 1
      <4>1. i \in 0 .. k /\ i - 1 \in 0 .. k /\ i - 1 \in 0 .. k + 1 /\ i - 1 # k + 1
        BY <3>2
      <4>2. g[i] = f[i] /\ g[i - 1] = f[i - 1]
        BY <3>2, <4>1
      <4>3. f[i] = PutNext(md, f, i)
        BY <2>2, <4>1
      <4> HIDE DEF g
      <4> QED
        BY <3>2, <4>2, <4>3 DEF PutNext
    <3>3. CASE i = k + 1
      <4>1. i # 0 /\ i - 1 = k /\ k \in 0 .. k + 1 /\ k # k + 1
        BY <3>3
      <4>2. g[i] = PutNext(md, f, i) /\ g[i - 1] = f[i - 1]
        BY <3>3, <4>1
      <4> HIDE DEF g
      <4> QED
        BY <4>1, <4>2 DEF PutNext
    <3> QED
      BY <3>1, <3>2, <3>3
  <2>4. g = h
    <3>1. \A i \in 0 .. k + 1 : g[i] = h[i]
      BY <2>3
    <3> QED
      BY <3>1
  <2>5. Puts(md, k + 1, g)
    <3> HIDE DEF g
    <3> QED
      BY <2>4 DEF Puts
  <2>6. PutsUpTo(md, k + 1)
    BY <2>5 DEF PutsUpTo
  <2> QED
    BY <2>6
<1> HIDE DEF B
<1>3. \A k \in 0 .. m : k \in B
  BY <1>1, <1>2, UpTo
<1> QED
  BY <1>3 DEF B

\* put_kv does what its loop does.
LEMMA PutKvPuts ==
    ASSUME NEW md, Len(md) \in Nat
    PROVE  \E f : Puts(md, Len(md), f) /\ PutKv(md) = f[Len(md)]
<1> DEFINE f == CHOOSE g : Puts(md, Len(md), g)
<1>1. Puts(md, Len(md), f)
  BY PutsExists DEF PutsUpTo
<1>2. PutKv(md) = f[Len(md)]
  BY DEF PutKv, Puts, PutNext, PairBytes
<1> QED
  BY <1>1, <1>2

\* Text, as a set.
TextSet == {t \in Seq(0 .. 127) : IsText(t)}

\* What metadata is made of.
LEMMA MetadataType ==
    ASSUME NEW md, IsMetadata(md)
    PROVE  /\ md \in Seq(TextSet \X TextSet) /\ Len(md) \in Nat /\ Len(md) < Limit
           /\ \A i \in 1 .. Len(md) :
                  /\ md[i] = <<md[i][1], md[i][2]>> /\ md[i][1] \in TextSet /\ md[i][2] \in TextSet
                  /\ IsText(md[i][1]) /\ IsText(md[i][2])
<1>1. md \in Seq(TextSet \X TextSet) /\ Len(md) < Limit
  BY DEF IsMetadata, TextSet
<1>2. Len(md) \in Nat
  BY <1>1, LenProperties
<1>3. ASSUME NEW i \in 1 .. Len(md)
      PROVE  /\ md[i] = <<md[i][1], md[i][2]>> /\ md[i][1] \in TextSet /\ md[i][2] \in TextSet
             /\ IsText(md[i][1]) /\ IsText(md[i][2])
  <2>1. md[i] \in TextSet \X TextSet
    BY <1>1, ElementOfSeq
  <2>2. md[i] = <<md[i][1], md[i][2]>> /\ md[i][1] \in TextSet /\ md[i][2] \in TextSet
    BY <2>1
  <2> QED
    BY <2>2 DEF TextSet
<1> QED
  BY <1>1, <1>2, <1>3

\* A pair on the wire is a buffer.
LEMMA PairType ==
    ASSUME NEW md, IsMetadata(md), NEW i \in 1 .. Len(md)
    PROVE  /\ PutString(md[i][1]) \in Bytes /\ PutString(md[i][2]) \in Bytes
           /\ PairBytes(md, i) \in Bytes
<1>1. IsText(md[i][1]) /\ IsText(md[i][2])
  BY MetadataType
<1>2. PutString(md[i][1]) \in Bytes /\ PutString(md[i][2]) \in Bytes
  BY <1>1, PutStringType
<1> QED
  BY <1>2, Behind DEF PairBytes

\* What a turn of the loop puts.
LEMMA PutNextAt ==
    ASSUME NEW md, NEW f, NEW k \in Nat
    PROVE  PutNext(md, f, k + 1) = f[k] \o PairBytes(md, k + 1)
<1> DEFINE i == k + 1
<1>1. i # 0 /\ i - 1 = k
  OBVIOUS
<1> HIDE DEF i
<1>2. PutNext(md, f, i) = f[i - 1] \o PairBytes(md, i)
  BY <1>1, Zenon DEF PutNext
<1> QED
  BY <1>1, <1>2, Zenon DEF i

\* What the loop puts.
LEMMA PutsType ==
    ASSUME NEW md, IsMetadata(md), NEW f, Puts(md, Len(md), f)
    PROVE  /\ f[0] = PutU32(Len(md))
           /\ \A k \in 0 .. Len(md) : f[k] \in Bytes
           /\ \A k \in 0 .. Len(md) - 1 : f[k + 1] = f[k] \o PairBytes(md, k + 1)
<1> DEFINE m == Len(md)
           B == {k \in 0 .. m : f[k] \in Bytes}
<1>1. m \in Nat /\ m < Limit
  BY MetadataType
<1> HIDE DEF m
<1>2. \A k \in 0 .. m : f[k] = PutNext(md, f, k)
  BY DEF Puts, m
<1>3. f[0] = PutU32(m)
  BY <1>1, <1>2 DEF PutNext, m
<1>4. ASSUME NEW k \in 0 .. m - 1
      PROVE  f[k + 1] = f[k] \o PairBytes(md, k + 1)
  <2>1. k + 1 \in 0 .. m /\ k + 1 # 0 /\ k + 1 - 1 = k
    BY <1>1
  <2>2. f[k + 1] = PutNext(md, f, k + 1)
    BY <1>2, <2>1
  <2>3. k \in Nat
    BY <1>1
  <2>4. PutNext(md, f, k + 1) = f[k] \o PairBytes(md, k + 1)
    BY <2>3, PutNextAt
  <2> QED
    BY <2>2, <2>4
<1>5. 0 \in B
  BY <1>1, <1>3, PutNumberType
<1>6. ASSUME NEW k \in 0 .. m - 1, k \in B
      PROVE  k + 1 \in B
  <2>1. k + 1 \in 1 .. Len(md) /\ k + 1 \in 0 .. m
    BY <1>1 DEF m
  <2>2. PairBytes(md, k + 1) \in Bytes /\ f[k] \in Bytes
    BY <1>6, <2>1, PairType
  <2>3. f[k] \o PairBytes(md, k + 1) \in Bytes
    BY <2>2, Behind
  <2> QED
    BY <1>4, <2>1, <2>3
<1> HIDE DEF B
<1>7. \A k \in 0 .. m : k \in B
  <2>1. 0 \in Nat /\ m \in Nat /\ 0 <= m
    BY <1>1
  <2> QED
    BY <1>5, <1>6, <2>1, UpTo
<1> QED
  BY <1>3, <1>4, <1>7 DEF B, m

\* Metadata on the wire is a buffer.
LEMMA PutKvType ==
    ASSUME NEW md, IsMetadata(md)
    PROVE  PutKv(md) \in Bytes
<1>1. Len(md) \in Nat
  BY MetadataType
<1>2. PICK f : Puts(md, Len(md), f) /\ PutKv(md) = f[Len(md)]
  BY <1>1, PutKvPuts
<1>3. Len(md) \in 0 .. Len(md)
  BY <1>1
<1> QED
  BY <1>2, <1>3, PutsType

-----------------------------------------------------------------------------
\* What the loop of get_kv has read of b after i pairs, given d[i - 1].
ReadNext(b, d, i) == IF i = 0 THEN Begin(b) ELSE ThenString(ThenString(d[i - 1]))

\* d[i] is what the loop of get_kv has read of b after i of m pairs.
ReadsPairs(b, m, d) == d = [i \in 0 .. m |-> ReadNext(b, d, i)]

\* There is such a function for m pairs.
ReadsUpTo(b, m) == \E f : ReadsPairs(b, m, f)

\* It is found step by step.
LEMMA ReadsExists ==
    ASSUME NEW b, NEW m \in Nat
    PROVE  ReadsUpTo(b, m)
<1> DEFINE B == {k \in 0 .. m : ReadsUpTo(b, k)}
<1>1. 0 \in B
  <2> DEFINE f == [i \in 0 .. 0 |-> Begin(b)]
  <2>1. ReadsPairs(b, 0, f)
    BY DEF ReadsPairs, ReadNext
  <2>2. ReadsUpTo(b, 0)
    BY <2>1 DEF ReadsUpTo
  <2> QED
    BY <2>2
<1>2. ASSUME NEW k \in 0 .. m - 1, k \in B
      PROVE  k + 1 \in B
  <2>1. PICK f : ReadsPairs(b, k, f)
    BY <1>2 DEF ReadsUpTo
  <2> DEFINE g == [i \in 0 .. k + 1 |-> IF i = k + 1 THEN ReadNext(b, f, k + 1) ELSE f[i]]
             h == [i \in 0 .. k + 1 |-> ReadNext(b, g, i)]
  <2>2. f = [i \in 0 .. k |-> ReadNext(b, f, i)]
    BY <2>1 DEF ReadsPairs
  <2>3. ASSUME NEW i \in 0 .. k + 1
        PROVE  g[i] = ReadNext(b, g, i)
    <3>1. CASE i = 0
      <4>1. g[0] = f[0] /\ 0 \in 0 .. k
        BY <1>2
      <4>2. f[0] = ReadNext(b, f, 0)
        BY <2>2, <4>1
      <4> QED
        BY <3>1, <4>1, <4>2 DEF ReadNext
    <3>2. CASE i # 0 /\ i # k + 1
      <4>1. i \in 0 .. k /\ i - 1 \in 0 .. k /\ i - 1 \in 0 .. k + 1 /\ i - 1 # k + 1
        BY <3>2
      <4>2. g[i] = f[i] /\ g[i - 1] = f[i - 1]
        BY <3>2, <4>1
      <4>3. f[i] = ReadNext(b, f, i)
        BY <2>2, <4>1
      <4> HIDE DEF g
      <4> QED
        BY <3>2, <4>2, <4>3 DEF ReadNext
    <3>3. CASE i = k + 1
      <4>1. i # 0 /\ i - 1 = k /\ k \in 0 .. k + 1 /\ k # k + 1
        BY <3>3
      <4>2. g[i] = ReadNext(b, f, i) /\ g[i - 1] = f[i - 1]
        BY <3>3, <4>1
      <4> HIDE DEF g
      <4> QED
        BY <4>1, <4>2 DEF ReadNext
    <3> QED
      BY <3>1, <3>2, <3>3
  <2>4. g = h
    <3>1. \A i \in 0 .. k + 1 : g[i] = h[i]
      BY <2>3
    <3> QED
      BY <3>1
  <2>5. ReadsPairs(b, k + 1, g)
    <3> HIDE DEF g
    <3> QED
      BY <2>4 DEF ReadsPairs
  <2>6. ReadsUpTo(b, k + 1)
    BY <2>5 DEF ReadsUpTo
  <2> QED
    BY <2>6
<1> HIDE DEF B
<1>3. \A k \in 0 .. m : k \in B
  BY <1>1, <1>2, UpTo
<1> QED
  BY <1>3 DEF B

\* get_kv does what its loop does.
LEMMA GetKvReads ==
    ASSUME NEW b, NEW g, g = GetU32(b), g.ok = TRUE, g.val \in Nat
    PROVE  \E d : /\ ReadsPairs(g.rest, g.val, d)
                  /\ GetKv(b) = IF ~d[g.val].ok THEN Bad
                                ELSE Got(Pairs(d[g.val].vals), d[g.val].rest)
<1> DEFINE d == CHOOSE h : ReadsPairs(g.rest, g.val, h)
<1>1. ReadsPairs(g.rest, g.val, d)
  BY ReadsExists DEF ReadsUpTo
<1>2. GetKv(b) = IF ~d[g.val].ok THEN Bad ELSE Got(Pairs(d[g.val].vals), d[g.val].rest)
  BY DEF GetKv, ReadsPairs, ReadNext
<1> QED
  BY <1>1, <1>2

\* The keys and values of the first k pairs, one after the other.
Strings(md, k) == [j \in 1 .. 2 * k |-> IF j % 2 = 1 THEN md[(j + 1) \div 2][1] ELSE md[j \div 2][2]]

\* They are found there.
LEMMA StringsAt ==
    ASSUME NEW md, IsMetadata(md), NEW k \in 0 .. Len(md)
    PROVE  /\ Strings(md, k) \in Seq(TextSet) /\ Len(Strings(md, k)) = 2 * k
           /\ \A i \in 0 .. k - 1 : /\ Strings(md, k)[2 * i + 1] = md[i + 1][1]
                                    /\ Strings(md, k)[2 * i + 2] = md[i + 1][2]
<1>1. Len(md) \in Nat /\ k \in Nat /\ 2 * k \in Nat
  BY MetadataType
<1>2. ASSUME NEW i \in 0 .. k - 1
      PROVE  /\ Strings(md, k)[2 * i + 1] = md[i + 1][1] /\ md[i + 1][1] \in TextSet
             /\ Strings(md, k)[2 * i + 2] = md[i + 1][2] /\ md[i + 1][2] \in TextSet
  <2>1. /\ (2 * i + 1) % 2 = 1 /\ (2 * i + 1 + 1) \div 2 = i + 1
        /\ (2 * i + 2) % 2 = 0 /\ (2 * i + 2) \div 2 = i + 1
    BY Halves
  <2>2. 2 * i + 1 \in 1 .. 2 * k /\ 2 * i + 2 \in 1 .. 2 * k /\ i + 1 \in 1 .. Len(md)
    BY <1>1
  <2>3. Strings(md, k)[2 * i + 1] = md[i + 1][1]
    BY <2>1, <2>2 DEF Strings
  <2>4. Strings(md, k)[2 * i + 2] = md[i + 1][2]
    BY <2>1, <2>2 DEF Strings
  <2> QED
    BY <2>2, <2>3, <2>4, MetadataType
<1>3. ASSUME NEW j \in 1 .. 2 * k
      PROVE  Strings(md, k)[j] \in TextSet
  <2>1. j \in Nat /\ j > 0
    BY <1>1
  <2>2. PICK i \in Nat : j = 2 * i + 1 \/ j = 2 * i + 2
    BY <2>1, OddOrEven
  <2>3. i \in 0 .. k - 1
    BY <1>1, <2>2
  <2> QED
    BY <1>2, <2>2, <2>3
<1>4. Strings(md, k) = [j \in 1 .. 2 * k |-> Strings(md, k)[j]]
  BY DEF Strings
<1>5. Strings(md, k) \in [1 .. 2 * k -> TextSet]
  <2> DEFINE s == Strings(md, k)
  <2>1. s = [j \in 1 .. 2 * k |-> s[j]] /\ \A j \in 1 .. 2 * k : s[j] \in TextSet
    BY <1>3, <1>4
  <2> HIDE DEF s
  <2>2. s \in [1 .. 2 * k -> TextSet]
    BY <2>1
  <2> QED
    BY <2>2 DEF s
<1>6. Strings(md, k) \in Seq(TextSet) /\ Len(Strings(md, k)) = 2 * k
  BY <1>1, <1>5, LenProperties
<1> QED
  BY <1>2, <1>6

\* A pair more.
LEMMA StringsNext ==
    ASSUME NEW md, IsMetadata(md), NEW k \in 0 .. Len(md) - 1
    PROVE  Append(Append(Strings(md, k), md[k + 1][1]), md[k + 1][2]) = Strings(md, k + 1)
<1> DEFINE s == Strings(md, k)
           u == Strings(md, k + 1)
           x == md[k + 1][1]
           y == md[k + 1][2]
           a == Append(s, x)
           z == Append(a, y)
<1>1. /\ Len(md) \in Nat /\ k \in Nat /\ k \in 0 .. Len(md) /\ k + 1 \in 0 .. Len(md)
      /\ k + 1 \in 1 .. Len(md)
  BY MetadataType
<1>2. x \in TextSet /\ y \in TextSet
  BY <1>1, MetadataType
<1>3. s \in Seq(TextSet) /\ Len(s) = 2 * k
  BY <1>1, StringsAt
<1>4. u \in Seq(TextSet) /\ Len(u) = 2 * (k + 1)
  BY <1>1, StringsAt
<1>5. \A i \in 0 .. k - 1 : s[2 * i + 1] = md[i + 1][1] /\ s[2 * i + 2] = md[i + 1][2]
  BY <1>1, StringsAt
<1>6. \A i \in 0 .. k + 1 - 1 : u[2 * i + 1] = md[i + 1][1] /\ u[2 * i + 2] = md[i + 1][2]
  BY <1>1, StringsAt
<1> HIDE DEF s, u
<1>7. /\ a \in Seq(TextSet) /\ Len(a) = 2 * k + 1 /\ a[2 * k + 1] = x
      /\ \A j \in 1 .. 2 * k : a[j] = s[j]
  <2> HIDE DEF x, y
  <2> QED
    BY <1>1, <1>2, <1>3, AppendProperties
<1> HIDE DEF a
<1>8. /\ z \in Seq(TextSet) /\ Len(z) = 2 * k + 2 /\ z[2 * k + 2] = y
      /\ \A j \in 1 .. 2 * k + 1 : z[j] = a[j]
  <2> HIDE DEF x, y
  <2> QED
    BY <1>1, <1>2, <1>7, AppendProperties
<1> HIDE DEF z
<1>9. ASSUME NEW j \in 1 .. 2 * k + 2
      PROVE  z[j] = u[j]
  <2>1. j \in Nat /\ j > 0
    BY <1>1
  <2>2. PICK i \in Nat : j = 2 * i + 1 \/ j = 2 * i + 2
    BY <2>1, OddOrEven
  <2>3. i \in 0 .. k + 1 - 1
    BY <1>1, <2>2
  <2>4. CASE i = k
    <3>1. z[2 * k + 1] = x /\ z[2 * k + 2] = y
      BY <1>1, <1>7, <1>8
    <3>2. u[2 * k + 1] = x /\ u[2 * k + 2] = y
      BY <1>6, <2>3, <2>4
    <3> QED
      BY <2>2, <2>4, <3>1, <3>2
  <2>5. CASE i # k
    <3>1. i \in 0 .. k - 1 /\ 2 * i + 1 \in 1 .. 2 * k /\ 2 * i + 2 \in 1 .. 2 * k
      BY <1>1, <2>3, <2>5
    <3>2. j \in 1 .. 2 * k /\ j \in 1 .. 2 * k + 1
      BY <1>1, <2>2, <3>1
    <3>3. z[j] = s[j]
      BY <1>7, <1>8, <3>2
    <3>4. s[2 * i + 1] = u[2 * i + 1] /\ s[2 * i + 2] = u[2 * i + 2]
      BY <1>5, <1>6, <2>3, <3>1
    <3> QED
      BY <2>2, <3>3, <3>4
  <2> QED
    BY <2>4, <2>5
<1>10. Len(u) = 2 * k + 2
  BY <1>1, <1>4
<1>11. z = u
  BY <1>4, <1>8, <1>9, <1>10, SeqEqual
<1> QED
  BY <1>11 DEF z, a, s, u

\* Taken two at a time, they are the pairs.
LEMMA PairsOfStrings ==
    ASSUME NEW md, IsMetadata(md)
    PROVE  Pairs(Strings(md, Len(md))) = md
<1> DEFINE m == Len(md)
           s == Strings(md, m)
           q == Pairs(s)
<1>1. m \in Nat /\ m \in 0 .. m
  BY MetadataType
<1>2. Len(s) = 2 * m
  BY <1>1, StringsAt
<1>3. \A i \in 0 .. m - 1 : s[2 * i + 1] = md[i + 1][1] /\ s[2 * i + 2] = md[i + 1][2]
  BY <1>1, StringsAt
<1> HIDE DEF s
<1>4. Len(s) \div 2 = m
  BY <1>1, <1>2, Halves
<1>5. q = [i \in 1 .. m |-> <<s[2 * i - 1], s[2 * i]>>]
  BY <1>4 DEF Pairs
<1>6. ASSUME NEW i \in 1 .. m
      PROVE  <<s[2 * i - 1], s[2 * i]>> = md[i]
  <2>1. i - 1 \in 0 .. m - 1 /\ 2 * (i - 1) + 1 = 2 * i - 1 /\ 2 * (i - 1) + 2 = 2 * i /\ i - 1 + 1 = i
    BY <1>1
  <2>2. s[2 * i - 1] = md[i][1] /\ s[2 * i] = md[i][2]
    BY <1>3, <2>1
  <2>3. md[i] = <<md[i][1], md[i][2]>>
    BY MetadataType
  <2> QED
    BY <2>2, <2>3
<1>7. q = [i \in 1 .. m |-> md[i]]
  BY <1>5, <1>6
<1>8. md = [i \in 1 .. m |-> md[i]]
  BY MetadataType
<1> QED
  BY <1>7, <1>8 DEF s

\* What is known of x and y between a and b.
Between(a, x, y, b) ==
    /\ (a \o (x \o y)) \o b = a \o (x \o (y \o b))
    /\ y \o b \in Bytes /\ x \o (y \o b) \in Bytes
    /\ Len(a \o (x \o y)) = Len(a) + Len(x) + Len(y)
    /\ Len(a) \in Nat /\ Len(x) \in Nat /\ Len(y) \in Nat

\* A pair between two buffers.
LEMMA PairBetween ==
    ASSUME NEW a \in Bytes, NEW x \in Bytes, NEW y \in Bytes, NEW b \in Bytes
    PROVE  Between(a, x, y, b)
<1>1. x \o y \in Bytes /\ Len(x \o y) = Len(x) + Len(y) /\ Len(x) \in Nat /\ Len(y) \in Nat
  BY Behind
<1>2. y \o b \in Bytes
  BY Behind
<1>3. x \o (y \o b) \in Bytes
  BY <1>2, Behind
<1>4. (x \o y) \o b = x \o (y \o b)
  <2>1. Regroup3(x, y, b)
    BY Associative, Zenon
  <2> QED
    BY <2>1, Zenon DEF Regroup3
<1> DEFINE z == x \o y
<1>5. z \in Bytes
  BY <1>1
<1> HIDE DEF z
<1>8. (a \o z) \o b = a \o (z \o b)
  <2>1. Regroup3(a, z, b)
    BY <1>5, Associative, Zenon
  <2> QED
    BY <2>1, Zenon DEF Regroup3
<1>6. Len(a \o z) = Len(a) + Len(z) /\ Len(a) \in Nat
  BY <1>5, Behind
<1>7. Len(a \o z) = Len(a) + Len(x) + Len(y)
  BY <1>1, <1>6 DEF z
<1> QED
  BY <1>1, <1>2, <1>3, <1>4, <1>6, <1>7, <1>8 DEF z, Between

\* Of the n bytes of w that arrived, k pairs were read, with all that begins with a;
\* the decoder is in state s.
ReadTo(md, k, a, w, n, s) == \A u \in Bytes : a \o u = w => At(s, Strings(md, k), u, n - Len(a))

\* One more pair is read.
LEMMA ThenPair ==
    ASSUME NEW md, IsMetadata(md), NEW k \in 0 .. Len(md) - 1, NEW a \in Bytes, NEW b \in Bytes,
           NEW w, (a \o PairBytes(md, k + 1)) \o b = w, NEW n \in Int, n <= Len(w), NEW s,
           ReadTo(md, k, a, w, n, s)
    PROVE  At(ThenString(ThenString(s)), Strings(md, k + 1), b, n - Len(a \o PairBytes(md, k + 1)))
<1> DEFINE x == md[k + 1][1]
           y == md[k + 1][2]
           p1 == PutString(x)
           p2 == PutString(y)
<1>1. Len(md) \in Nat /\ k + 1 \in 1 .. Len(md)
  BY MetadataType
<1>2. IsText(x) /\ IsText(y)
  BY <1>1, MetadataType
<1>3. p1 \in Bytes /\ p2 \in Bytes /\ PairBytes(md, k + 1) = p1 \o p2
  BY <1>1, PairType DEF PairBytes
<1> HIDE DEF x, y, p1, p2
<1>4. p1 \in Bytes /\ p2 \in Bytes
  BY <1>3
<1>5. /\ (a \o (p1 \o p2)) \o b = a \o (p1 \o (p2 \o b))
      /\ p2 \o b \in Bytes /\ p1 \o (p2 \o b) \in Bytes
      /\ Len(a \o (p1 \o p2)) = Len(a) + Len(p1) + Len(p2)
      /\ Len(a) \in Nat /\ Len(p1) \in Nat /\ Len(p2) \in Nat
  <2>1. Between(a, p1, p2, b)
    BY <1>4, PairBetween
  <2> QED
    BY <2>1 DEF Between
<1>6. w = a \o (p1 \o (p2 \o b))
  BY <1>3, <1>5
<1>7. At(s, Strings(md, k), p1 \o (p2 \o b), n - Len(a))
  BY <1>5, <1>6 DEF ReadTo
<1>8. n - Len(a) \in Int /\ n - Len(a) <= Len(p1 \o (p2 \o b))
  <2>1. p1 \o (p2 \o b) \in Bytes
    BY <1>5
  <2>2. Len(w) = Len(a) + Len(p1 \o (p2 \o b)) /\ Len(p1 \o (p2 \o b)) \in Nat
    BY <1>6, <2>1, Behind
  <2> QED
    BY <1>5, <2>2
<1>9. /\ At(ThenString(s), Append(Strings(md, k), x), p2 \o b, n - Len(a) - Len(p1))
      /\ n - Len(a) - Len(p1) \in Int /\ n - Len(a) - Len(p1) <= Len(p2 \o b)
  <2>1. p2 \o b \in Bytes
    BY <1>5
  <2> QED
    BY <1>2, <1>7, <1>8, <2>1, ThenStringAt DEF p1
<1>10. At(ThenString(ThenString(s)), Append(Append(Strings(md, k), x), y), b,
          n - Len(a) - Len(p1) - Len(p2))
  BY <1>2, <1>9, ThenStringAt DEF p2
<1>11. Append(Append(Strings(md, k), x), y) = Strings(md, k + 1)
  BY StringsNext DEF x, y
<1>12. n - Len(a) - Len(p1) - Len(p2) = n - Len(a \o PairBytes(md, k + 1))
  BY <1>3, <1>5
<1> QED
  BY <1>10, <1>11, <1>12

\* All that the loop of put_kv puts begins with the number of pairs.
LEMMA PutsBehind ==
    ASSUME NEW md, IsMetadata(md), NEW f, Puts(md, Len(md), f)
    PROVE  \E z \in Bytes : f[Len(md)] = f[0] \o z
<1> DEFINE m == Len(md)
           B == {k \in 0 .. m : \E z \in Bytes : f[k] = f[0] \o z}
<1>1. m \in Nat
  BY MetadataType
<1>2. \A k \in 0 .. m : f[k] \in Bytes
  BY PutsType
<1>3. \A k \in 0 .. m - 1 : f[k + 1] = f[k] \o PairBytes(md, k + 1)
  BY PutsType
<1>4. f[0] \in Bytes
  BY <1>1, <1>2
<1>5. 0 \in B
  <2>1. <<>> \in Bytes
    BY DEF Bytes
  <2>2. f[0] \o <<>> = f[0]
    BY <1>4, ConcatEmptySeq DEF Bytes
  <2>3. \E z \in Bytes : f[0] = f[0] \o z
    BY <2>1, <2>2, Zenon
  <2>4. 0 \in 0 .. m
    BY <1>1
  <2> HIDE DEF m
  <2> QED
    BY <2>3, <2>4
<1>6. ASSUME NEW k \in 0 .. m - 1, k \in B
      PROVE  k + 1 \in B
  <2>1. PICK z \in Bytes : f[k] = f[0] \o z
    BY <1>6
  <2>2. k + 1 \in 1 .. Len(md) /\ k + 1 \in 0 .. m
    BY <1>1
  <2>3. PairBytes(md, k + 1) \in Bytes
    BY <2>2, PairType
  <2>4. (f[0] \o z) \o PairBytes(md, k + 1) = f[0] \o (z \o PairBytes(md, k + 1))
    <3>1. Regroup3(f[0], z, PairBytes(md, k + 1))
      BY <1>4, <2>3, Associative, Zenon
    <3> QED
      BY <3>1, Zenon DEF Regroup3
  <2>5. z \o PairBytes(md, k + 1) \in Bytes
    BY <2>3, Behind
  <2>6. f[k + 1] = f[0] \o (z \o PairBytes(md, k + 1))
    BY <1>3, <2>1, <2>4
  <2> QED
    BY <2>2, <2>5, <2>6
<1> HIDE DEF B, m
<1>7. \A k \in 0 .. m : k \in B
  <2>1. 0 \in Nat /\ m \in Nat /\ 0 <= m
    BY <1>1
  <2> QED
    BY <1>5, <1>6, <2>1, UpTo
<1>8. m \in B
  BY <1>1, <1>7
<1> QED
  BY <1>8 DEF B, m

\* Metadata is read as it was put.
LEMMA ReadsKv ==
    ASSUME NEW md, IsMetadata(md), NEW r \in Bytes, NEW n \in 0 .. Len(PutKv(md) \o r)
    PROVE  Reads(GetKv(Cut(PutKv(md) \o r, n)), md, r, n - Len(PutKv(md)))
<1> DEFINE m == Len(md)
           w == PutKv(md) \o r
           c == Cut(w, n)
           g == GetU32(c)
<1>1. m \in Nat /\ m < Limit
  BY MetadataType
<1>2. PutKv(md) \in Bytes
  BY PutKvType
<1>3. w \in Bytes /\ n \in 0 .. Len(w) /\ n \in Int
  BY <1>2, Behind
<1>4. PICK f : Puts(md, m, f) /\ PutKv(md) = f[m]
  BY <1>1, PutKvPuts
<1>5. f[0] = PutU32(m) /\ \A k \in 0 .. m : f[k] \in Bytes
  BY <1>4, PutsType
<1>6. \A k \in 0 .. m - 1 : f[k + 1] = f[k] \o PairBytes(md, k + 1)
  BY <1>4, PutsType
<1>7. SUFFICES Reads(GetKv(c), md, r, n - Len(f[m]))
  BY <1>4
<1>8. f[m] \o r = w
  BY <1>4
<1>9. PICK z \in Bytes : f[m] = f[0] \o z
  BY <1>4, PutsBehind
<1> HIDE DEF w, m
<1>10. Len(f[0]) = 4 /\ f[0] \in Bytes
  BY <1>1, <1>5, PutNumberType
<1>11. ASSUME NEW b \in Bytes, f[0] \o b = w
       PROVE  Reads(g, m, b, n - 4)
  BY <1>1, <1>3, <1>5, <1>11, ReadsU32
<1>14. z \o r \in Bytes /\ f[0] \o (z \o r) = w /\ Len(f[m]) = 4 + Len(z) /\ Len(z) \in Nat
  <2>1. f[0] \in Bytes
    BY <1>10
  <2>2. (f[0] \o z) \o r = f[0] \o (z \o r) /\ z \o r \in Bytes
    <3>1. Regroup3(f[0], z, r)
      BY <2>1, Associative, Zenon
    <3> QED
      BY <3>1, Zenon DEF Regroup3
  <2>3. Len(f[0] \o z) = Len(f[0]) + Len(z) /\ Len(z) \in Nat
    BY <2>1, Behind
  <2> QED
    BY <1>8, <1>9, <1>10, <2>2, <2>3
<1>15. Reads(g, m, z \o r, n - 4)
  BY <1>11, <1>14
<1>12. CASE n < 4
  <2>1. n - 4 < 0 /\ n - Len(f[m]) < 0
    BY <1>3, <1>12, <1>14
  <2>2. g = Bad
    BY <1>15, <2>1 DEF Reads
  <2> HIDE DEF c
  <2>3. GetKv(c) = Bad
    BY <2>2 DEF GetKv, Bad
  <2> QED
    BY <2>1, <2>3 DEF Reads
<1>13. CASE n >= 4
  <2>1. ~(n - 4 < 0)
    BY <1>3, <1>13
  <2>2. g = GetU32(c)
    OBVIOUS
  <2> HIDE DEF g, c
  <2>3. g.ok = TRUE /\ g.val = m
    <3>1. g = Got(m, Cut(z \o r, n - 4))
      BY <1>15, <2>1 DEF Reads
    <3> QED
      BY <3>1 DEF Got
  <2>4. PICK d : /\ ReadsPairs(g.rest, g.val, d)
                 /\ GetKv(c) = IF ~d[g.val].ok THEN Bad
                               ELSE Got(Pairs(d[g.val].vals), d[g.val].rest)
    BY <1>1, <2>2, <2>3, GetKvReads
  <2>5. \A k \in 0 .. m : d[k] = ReadNext(g.rest, d, k)
    BY <2>3, <2>4 DEF ReadsPairs
  <2> DEFINE B == {k \in 0 .. m : ReadTo(md, k, f[k], w, n, d[k])}
  <2>6. 0 \in B
    <3>1. d[0] = Begin(g.rest)
      BY <1>1, <2>5 DEF ReadNext
    <3>2. ASSUME NEW b \in Bytes, f[0] \o b = w
          PROVE  At(d[0], Strings(md, 0), b, n - Len(f[0]))
      <4>1. g = Got(m, Cut(b, n - 4))
        BY <1>11, <2>1, <3>2 DEF Reads
      <4>2. g.rest = Cut(b, n - 4)
        BY <4>1 DEF Got
      <4>3. Strings(md, 0) = <<>>
        BY DEF Strings
      <4> QED
        BY <1>10, <2>1, <3>1, <4>2, <4>3 DEF At, Begin
    <3> QED
      BY <1>1, <3>2 DEF ReadTo
  <2>7. ASSUME NEW k \in 0 .. m - 1, k \in B
        PROVE  k + 1 \in B
    <3>1. k \in 0 .. Len(md) - 1 /\ k \in 0 .. m /\ k + 1 \in 0 .. m /\ k + 1 # 0 /\ k + 1 - 1 = k
      BY <1>1 DEF m
    <3>2. d[k + 1] = ThenString(ThenString(d[k]))
      <4>1. d[k + 1] = ReadNext(g.rest, d, k + 1)
        BY <2>5, <3>1
      <4>2. ReadNext(g.rest, d, k + 1) = ThenString(ThenString(d[k + 1 - 1]))
        BY <3>1 DEF ReadNext
      <4> QED
        BY <3>1, <4>1, <4>2
    <3>3. f[k + 1] = f[k] \o PairBytes(md, k + 1) /\ f[k] \in Bytes
      BY <1>5, <1>6, <3>1
    <3>4. ASSUME NEW b \in Bytes, f[k + 1] \o b = w
          PROVE  At(d[k + 1], Strings(md, k + 1), b, n - Len(f[k + 1]))
      <4>1. ReadTo(md, k, f[k], w, n, d[k])
        BY <2>7
      <4>4. (f[k] \o PairBytes(md, k + 1)) \o b = w
        BY <3>3, <3>4
      <4>2. n \in Int /\ n <= Len(w)
        BY <1>3
      <4>3. At(ThenString(ThenString(d[k])), Strings(md, k + 1), b,
               n - Len(f[k] \o PairBytes(md, k + 1)))
        <5> HIDE DEF B
        <5>1. f[k] \in Bytes /\ k \in 0 .. Len(md) - 1
          BY <3>1, <3>3
        <5> QED
          BY <4>1, <4>2, <4>4, <5>1, ThenPair
      <4> QED
        BY <3>2, <3>3, <4>3
    <3> QED
      BY <3>1, <3>4 DEF ReadTo
  <2> HIDE DEF B
  <2>8. \A k \in 0 .. m : k \in B
    <3>1. 0 \in Nat /\ m \in Nat /\ 0 <= m
      BY <1>1
    <3> QED
      BY <2>6, <2>7, <3>1, UpTo
  <2>9. At(d[m], Strings(md, m), r, n - Len(f[m]))
    <3>1. m \in 0 .. m
      BY <1>1
    <3>2. ReadTo(md, m, f[m], w, n, d[m])
      BY <2>8, <3>1 DEF B
    <3> QED
      BY <1>8, <3>2 DEF ReadTo
  <2>10. Pairs(Strings(md, m)) = md
    BY PairsOfStrings DEF m
  <2>11. CASE n - Len(f[m]) < 0
    <3>1. d[m] = Bad
      BY <2>9, <2>11 DEF At
    <3>2. GetKv(c) = Bad
      BY <2>3, <2>4, <3>1, GotParts
    <3> QED
      BY <2>11, <3>2 DEF Reads
  <2>12. CASE ~(n - Len(f[m]) < 0)
    <3>1. d[m] = [ok |-> TRUE, vals |-> Strings(md, m), rest |-> Cut(r, n - Len(f[m]))]
      BY <2>9, <2>12 DEF At
    <3>2. d[m].ok = TRUE /\ d[m].vals = Strings(md, m) /\ d[m].rest = Cut(r, n - Len(f[m]))
      BY <3>1
    <3>3. GetKv(c) = Got(md, Cut(r, n - Len(f[m])))
      BY <2>3, <2>4, <2>10, <3>2
    <3> QED
      BY <2>12, <3>3 DEF Reads
  <2> QED
    BY <2>11, <2>12
<1> QED
  BY <1>3, <1>12, <1>13

-----------------------------------------------------------------------------
(* Messages. *)

\* The decoder has read vs, and goes on with r, of which d bytes are missing; or
\* more were missing than there are in r, and it has failed.
On(s, vs, r, d) == At(s, vs, r, Len(r) - d)

\* What is left of r behind e.
LEMMA LeftOver ==
    ASSUME NEW e \in Bytes, NEW r \in Bytes, NEW d \in Nat
    PROVE  /\ Len(e \o r) - d \in Int /\ Len(r) - d = Len(e \o r) - d - Len(e)
           /\ Len(r) - d \in Int /\ Len(r) - d <= Len(e \o r) - d
           /\ Len(e \o r) - d < 0 \/ Len(e \o r) - d \in 0 .. Len(e \o r)
<1>1. Len(e \o r) = Len(e) + Len(r) /\ Len(e) \in Nat /\ Len(r) \in Nat
  BY Behind
<1> QED
  BY <1>1

\* A decoder that reads text.
LEMMA ThenStringOn ==
    ASSUME NEW s, NEW vs, NEW t, IsText(t), NEW r \in Bytes, NEW d \in Nat,
           On(s, vs, PutString(t) \o r, d)
    PROVE  On(ThenString(s), Append(vs, t), r, d)
<1> DEFINE e == PutString(t)
           n == Len(e \o r) - d
           g == GetString(s.rest)
<1>1. e \in Bytes
  BY PutStringType
<1>2. ThenString(s) = Then(s, g) /\ At(s, vs, e \o r, n)
  BY DEF ThenString, On
<1> HIDE DEF e, g
<1>3. n \in Int /\ Len(r) - d = n - Len(e) /\ Len(r) - d \in Int /\ Len(r) - d <= n
  BY <1>1, LeftOver
<1>4. n < 0 \/ n \in 0 .. Len(e \o r)
  BY <1>1, LeftOver
<1> HIDE DEF n
<1>5. n < 0 \/ Reads(g, t, r, n - Len(e))
  <2>1. SUFFICES ASSUME ~(n < 0) PROVE Reads(g, t, r, n - Len(e))
    OBVIOUS
  <2>2. g = GetString(Cut(e \o r, n)) /\ n \in 0 .. Len(PutString(t) \o r)
    BY <1>2, <1>3, <1>4, <2>1, AtRest DEF e, g
  <2> QED
    BY <2>2, ReadsString DEF e
<1>6. At(Then(s, g), Append(vs, t), r, Len(r) - d)
  <2>1. n < 0 \/ Reads(g, t, r, Len(r) - d)
    BY <1>3, <1>5
  <2> QED
    BY <1>2, <1>3, <2>1, TookAt
<1> QED
  BY <1>2, <1>6 DEF On

\* What messages carry as payload.
IsPayload(t) == t \in Bytes /\ Len(t) < Limit

\* A decoder that reads bytes.
LEMMA ThenBytesOn ==
    ASSUME NEW s, NEW vs, NEW t, IsPayload(t), NEW r \in Bytes, NEW d \in Nat,
           On(s, vs, PutBytes(t) \o r, d)
    PROVE  On(ThenBytes(s), Append(vs, t), r, d)
<1> DEFINE e == PutBytes(t)
           n == Len(e \o r) - d
           g == GetBytes(s.rest)
<1>0. t \in Bytes /\ Len(t) < Limit
  BY DEF IsPayload
<1>1. e \in Bytes
  BY <1>0, PutBytesType
<1>2. ThenBytes(s) = Then(s, g) /\ At(s, vs, e \o r, n)
  BY DEF ThenBytes, On
<1> HIDE DEF e, g
<1>3. n \in Int /\ Len(r) - d = n - Len(e) /\ Len(r) - d \in Int /\ Len(r) - d <= n
  BY <1>1, LeftOver
<1>4. n < 0 \/ n \in 0 .. Len(e \o r)
  BY <1>1, LeftOver
<1> HIDE DEF n
<1>5. n < 0 \/ Reads(g, t, r, n - Len(e))
  <2>1. SUFFICES ASSUME ~(n < 0) PROVE Reads(g, t, r, n - Len(e))
    OBVIOUS
  <2>2. g = GetBytes(Cut(e \o r, n)) /\ n \in 0 .. Len(PutBytes(t) \o r)
    BY <1>2, <1>3, <1>4, <2>1, AtRest DEF e, g
  <2> QED
    BY <1>0, <2>2, ReadsBytes DEF e
<1>6. At(Then(s, g), Append(vs, t), r, Len(r) - d)
  <2>1. n < 0 \/ Reads(g, t, r, Len(r) - d)
    BY <1>3, <1>5
  <2> QED
    BY <1>2, <1>3, <2>1, TookAt
<1> QED
  BY <1>2, <1>6 DEF On

\* A decoder that reads a flag.
LEMMA ThenFlagOn ==
    ASSUME NEW s, NEW vs, NEW t, t \in Flags, NEW r \in Bytes, NEW d \in Nat,
           On(s, vs, <<t>> \o r, d)
    PROVE  On(ThenFlag(s), Append(vs, t), r, d)
<1> DEFINE e == <<t>>
           n == Len(e \o r) - d
           g == GetFlag(s.rest)
<1>0. t \in 0 .. 255 /\ Len(<<t>>) = 1
  BY ByteType DEF Flags
<1>1. e \in Bytes
  BY <1>0, ByteType
<1>2. ThenFlag(s) = Then(s, g) /\ At(s, vs, e \o r, n)
  BY DEF ThenFlag, On
<1> HIDE DEF e, g
<1>3. n \in Int /\ Len(r) - d = n - Len(e) /\ Len(r) - d \in Int /\ Len(r) - d <= n
  BY <1>1, LeftOver
<1>4. n < 0 \/ n \in 0 .. Len(e \o r)
  BY <1>1, LeftOver
<1> HIDE DEF n
<1>5. n < 0 \/ Reads(g, t, r, n - Len(e))
  <2>1. SUFFICES ASSUME ~(n < 0) PROVE Reads(g, t, r, n - Len(e))
    OBVIOUS
  <2>2. g = GetFlag(Cut(e \o r, n)) /\ n \in 0 .. Len(<<t>> \o r)
    BY <1>2, <1>3, <1>4, <2>1, AtRest DEF e, g
  <2> QED
    BY <1>0, <2>2, ReadsFlag DEF e
<1>6. At(Then(s, g), Append(vs, t), r, Len(r) - d)
  <2>1. n < 0 \/ Reads(g, t, r, Len(r) - d)
    BY <1>3, <1>5
  <2> QED
    BY <1>2, <1>3, <2>1, TookAt
<1> QED
  BY <1>2, <1>6 DEF On

\* A decoder that reads a direction.
LEMMA ThenDirectionOn ==
    ASSUME NEW s, NEW vs, NEW t, t \in Flags, NEW r \in Bytes, NEW d \in Nat,
           On(s, vs, <<t>> \o r, d)
    PROVE  On(ThenDirection(s), Append(vs, t), r, d)
<1> DEFINE e == <<t>>
           n == Len(e \o r) - d
           g == GetDirection(s.rest)
<1>0. t \in 0 .. 255 /\ Len(<<t>>) = 1
  BY ByteType DEF Flags
<1>1. e \in Bytes
  BY <1>0, ByteType
<1>2. ThenDirection(s) = Then(s, g) /\ At(s, vs, e \o r, n)
  BY DEF ThenDirection, On
<1> HIDE DEF e, g
<1>3. n \in Int /\ Len(r) - d = n - Len(e) /\ Len(r) - d \in Int /\ Len(r) - d <= n
  BY <1>1, LeftOver
<1>4. n < 0 \/ n \in 0 .. Len(e \o r)
  BY <1>1, LeftOver
<1> HIDE DEF n
<1>5. n < 0 \/ Reads(g, t, r, n - Len(e))
  <2>1. SUFFICES ASSUME ~(n < 0) PROVE Reads(g, t, r, n - Len(e))
    OBVIOUS
  <2>2. g = GetDirection(Cut(e \o r, n)) /\ n \in 0 .. Len(<<t>> \o r)
    BY <1>2, <1>3, <1>4, <2>1, AtRest DEF e, g
  <2> QED
    BY <1>0, <2>2, ReadsDirection DEF e
<1>6. At(Then(s, g), Append(vs, t), r, Len(r) - d)
  <2>1. n < 0 \/ Reads(g, t, r, Len(r) - d)
    BY <1>3, <1>5
  <2> QED
    BY <1>2, <1>3, <2>1, TookAt
<1> QED
  BY <1>2, <1>6 DEF On

\* A decoder that reads a kind.
LEMMA ThenKindOn ==
    ASSUME NEW s, NEW vs, NEW t, t \in 0 .. 3, NEW r \in Bytes, NEW d \in Nat,
           On(s, vs, <<t>> \o r, d)
    PROVE  On(ThenKind(s), Append(vs, t), r, d)
<1> DEFINE e == <<t>>
           n == Len(e \o r) - d
           g == GetKind(s.rest)
<1>0. t \in 0 .. 255 /\ Len(<<t>>) = 1
  BY ByteType
<1>1. e \in Bytes
  BY <1>0, ByteType
<1>2. ThenKind(s) = Then(s, g) /\ At(s, vs, e \o r, n)
  BY DEF ThenKind, On
<1> HIDE DEF e, g
<1>3. n \in Int /\ Len(r) - d = n - Len(e) /\ Len(r) - d \in Int /\ Len(r) - d <= n
  BY <1>1, LeftOver
<1>4. n < 0 \/ n \in 0 .. Len(e \o r)
  BY <1>1, LeftOver
<1> HIDE DEF n
<1>5. n < 0 \/ Reads(g, t, r, n - Len(e))
  <2>1. SUFFICES ASSUME ~(n < 0) PROVE Reads(g, t, r, n - Len(e))
    OBVIOUS
  <2>2. g = GetKind(Cut(e \o r, n)) /\ n \in 0 .. Len(<<t>> \o r)
    BY <1>2, <1>3, <1>4, <2>1, AtRest DEF e, g
  <2> QED
    BY <1>0, <2>2, ReadsKind DEF e
<1>6. At(Then(s, g), Append(vs, t), r, Len(r) - d)
  <2>1. n < 0 \/ Reads(g, t, r, Len(r) - d)
    BY <1>3, <1>5
  <2> QED
    BY <1>2, <1>3, <2>1, TookAt
<1> QED
  BY <1>2, <1>6 DEF On

\* A decoder that reads a code.
LEMMA ThenCodeOn ==
    ASSUME NEW s, NEW vs, NEW t, t \in 0 .. 16, NEW r \in Bytes, NEW d \in Nat,
           On(s, vs, PutU32(t) \o r, d)
    PROVE  On(ThenCode(s), Append(vs, t), r, d)
<1> DEFINE e == PutU32(t)
           n == Len(e \o r) - d
           g == GetCode(s.rest)
<1>0. t \in Nat /\ t < Limit /\ PutU32(t) \in Bytes /\ Len(PutU32(t)) = 4
  BY PutNumberType DEF Limit
<1>1. e \in Bytes
  BY <1>0
<1>2. ThenCode(s) = Then(s, g) /\ At(s, vs, e \o r, n)
  BY DEF ThenCode, On
<1> HIDE DEF e, g
<1>3. n \in Int /\ Len(r) - d = n - Len(e) /\ Len(r) - d \in Int /\ Len(r) - d <= n
  BY <1>1, LeftOver
<1>4. n < 0 \/ n \in 0 .. Len(e \o r)
  BY <1>1, LeftOver
<1> HIDE DEF n
<1>5. n < 0 \/ Reads(g, t, r, n - Len(e))
  <2>1. SUFFICES ASSUME ~(n < 0) PROVE Reads(g, t, r, n - Len(e))
    OBVIOUS
  <2>2. g = GetCode(Cut(e \o r, n)) /\ n \in 0 .. Len(PutU32(t) \o r)
    BY <1>2, <1>3, <1>4, <2>1, AtRest DEF e, g
  <2> QED
    BY <2>2, ReadsCode DEF e
<1>6. At(Then(s, g), Append(vs, t), r, Len(r) - d)
  <2>1. n < 0 \/ Reads(g, t, r, Len(r) - d)
    BY <1>3, <1>5
  <2> QED
    BY <1>2, <1>3, <2>1, TookAt
<1> QED
  BY <1>2, <1>6 DEF On

\* A decoder that reads the number of a frame.
LEMMA ThenNumberOn ==
    ASSUME NEW s, NEW vs, NEW t, t \in Nat, t < Limit, NEW r \in Bytes, NEW d \in Nat,
           On(s, vs, PutU64(t) \o r, d)
    PROVE  On(ThenNumber(s), Append(vs, t), r, d)
<1> DEFINE e == PutU64(t)
           n == Len(e \o r) - d
           g == GetU64(s.rest)
<1>0. t \in Nat /\ t < Limit /\ PutU64(t) \in Bytes /\ Len(PutU64(t)) = 8
  BY PutNumberType
<1>1. e \in Bytes
  BY <1>0
<1>2. ThenNumber(s) = Then(s, g) /\ At(s, vs, e \o r, n)
  BY DEF ThenNumber, On
<1> HIDE DEF e, g
<1>3. n \in Int /\ Len(r) - d = n - Len(e) /\ Len(r) - d \in Int /\ Len(r) - d <= n
  BY <1>1, LeftOver
<1>4. n < 0 \/ n \in 0 .. Len(e \o r)
  BY <1>1, LeftOver
<1> HIDE DEF n
<1>5. n < 0 \/ Reads(g, t, r, n - Len(e))
  <2>1. SUFFICES ASSUME ~(n < 0) PROVE Reads(g, t, r, n - Len(e))
    OBVIOUS
  <2>2. g = GetU64(Cut(e \o r, n)) /\ n \in 0 .. Len(PutU64(t) \o r)
    BY <1>2, <1>3, <1>4, <2>1, AtRest DEF e, g
  <2> QED
    BY <1>0, <2>2, ReadsU64 DEF e
<1>6. At(Then(s, g), Append(vs, t), r, Len(r) - d)
  <2>1. n < 0 \/ Reads(g, t, r, Len(r) - d)
    BY <1>3, <1>5
  <2> QED
    BY <1>2, <1>3, <2>1, TookAt
<1> QED
  BY <1>2, <1>6 DEF On

\* What a method is: absent, or text.
IsMethod(m) == m = <<>> \/ \E t : IsText(t) /\ m = <<t>>

\* A decoder that reads a method.
LEMMA ThenMethodOn ==
    ASSUME NEW s, NEW vs, NEW t, IsMethod(t), NEW r \in Bytes, NEW d \in Nat,
           On(s, vs, PutMethod(t) \o r, d)
    PROVE  On(ThenMethod(s), Append(vs, t), r, d)
<1> DEFINE e == PutMethod(t)
           n == Len(e \o r) - d
           g == GetMethod(s.rest)
<1>0. t = <<>> \/ \E u : IsText(u) /\ t = <<u>>
  BY DEF IsMethod
<1>1. e \in Bytes
  BY <1>0, PutMethodType
<1>2. ThenMethod(s) = Then(s, g) /\ At(s, vs, e \o r, n)
  BY DEF ThenMethod, On
<1> HIDE DEF e, g
<1>3. n \in Int /\ Len(r) - d = n - Len(e) /\ Len(r) - d \in Int /\ Len(r) - d <= n
  BY <1>1, LeftOver
<1>4. n < 0 \/ n \in 0 .. Len(e \o r)
  BY <1>1, LeftOver
<1> HIDE DEF n
<1>5. n < 0 \/ Reads(g, t, r, n - Len(e))
  <2>1. SUFFICES ASSUME ~(n < 0) PROVE Reads(g, t, r, n - Len(e))
    OBVIOUS
  <2>2. g = GetMethod(Cut(e \o r, n)) /\ n \in 0 .. Len(PutMethod(t) \o r)
    BY <1>2, <1>3, <1>4, <2>1, AtRest DEF e, g
  <2> QED
    BY <1>0, <2>2, ReadsMethod DEF e
<1>6. At(Then(s, g), Append(vs, t), r, Len(r) - d)
  <2>1. n < 0 \/ Reads(g, t, r, Len(r) - d)
    BY <1>3, <1>5
  <2> QED
    BY <1>2, <1>3, <2>1, TookAt
<1> QED
  BY <1>2, <1>6 DEF On

\* A decoder that reads metadata.
LEMMA ThenKvOn ==
    ASSUME NEW s, NEW vs, NEW t, IsMetadata(t), NEW r \in Bytes, NEW d \in Nat,
           On(s, vs, PutKv(t) \o r, d)
    PROVE  On(ThenKv(s), Append(vs, t), r, d)
<1> DEFINE e == PutKv(t)
           n == Len(e \o r) - d
           g == GetKv(s.rest)
<1>1. e \in Bytes
  BY PutKvType
<1>2. ThenKv(s) = Then(s, g) /\ At(s, vs, e \o r, n)
  BY DEF ThenKv, On
<1> HIDE DEF e, g
<1>3. n \in Int /\ Len(r) - d = n - Len(e) /\ Len(r) - d \in Int /\ Len(r) - d <= n
  BY <1>1, LeftOver
<1>4. n < 0 \/ n \in 0 .. Len(e \o r)
  BY <1>1, LeftOver
<1> HIDE DEF n
<1>5. n < 0 \/ Reads(g, t, r, n - Len(e))
  <2>1. SUFFICES ASSUME ~(n < 0) PROVE Reads(g, t, r, n - Len(e))
    OBVIOUS
  <2>2. g = GetKv(Cut(e \o r, n)) /\ n \in 0 .. Len(PutKv(t) \o r)
    BY <1>2, <1>3, <1>4, <2>1, AtRest DEF e, g
  <2> QED
    BY <2>2, ReadsKv DEF e
<1>6. At(Then(s, g), Append(vs, t), r, Len(r) - d)
  <2>1. n < 0 \/ Reads(g, t, r, Len(r) - d)
    BY <1>3, <1>5
  <2> QED
    BY <1>2, <1>3, <2>1, TookAt
<1> QED
  BY <1>2, <1>6 DEF On

\* The first k fields of a message.
Fst(f, k) == [i \in 1 .. k |-> f[i]]

\* One field more.
LEMMA FstNext ==
    ASSUME NEW f, NEW k \in Nat
    PROVE  Append(Fst(f, k), f[k + 1]) = Fst(f, k + 1)
BY DEF Fst

\* The fields one by one.
LEMMA FstFields ==
    ASSUME NEW f
    PROVE  /\ Append(Fst(f, 0), f[1]) = Fst(f, 1) /\ Append(Fst(f, 1), f[2]) = Fst(f, 2)
           /\ Append(Fst(f, 2), f[3]) = Fst(f, 3) /\ Append(Fst(f, 3), f[4]) = Fst(f, 4)
           /\ Append(Fst(f, 4), f[5]) = Fst(f, 5) /\ Append(Fst(f, 5), f[6]) = Fst(f, 6)
           /\ Append(Fst(f, 6), f[7]) = Fst(f, 7)
<1>1. \A k \in Nat : Append(Fst(f, k), f[k + 1]) = Fst(f, k + 1)
  BY FstNext
<1>2. \A k, j \in Nat : j = k + 1 => Append(Fst(f, k), f[j]) = Fst(f, j)
  BY <1>1
<1>3. /\ 0 \in Nat /\ 1 \in Nat /\ 2 \in Nat /\ 3 \in Nat /\ 4 \in Nat /\ 5 \in Nat /\ 6 \in Nat /\ 7 \in Nat
      /\ 1 = 0 + 1 /\ 2 = 1 + 1 /\ 3 = 2 + 1 /\ 4 = 3 + 1 /\ 5 = 4 + 1 /\ 6 = 5 + 1 /\ 7 = 6 + 1
  OBVIOUS
<1> QED
  BY <1>2, <1>3, Zenon

\* A decoder begins with what arrived of w.
LEMMA BeginOn ==
    ASSUME NEW f, NEW w \in Bytes, NEW n \in 0 .. Len(w)
    PROVE  On(Begin(Cut(w, n)), Fst(f, 0), w, Len(w) - n) /\ Len(w) - n \in Nat
<1>1. Len(w) \in Nat
  BY BytesType
<1>2. Len(w) - (Len(w) - n) = n /\ ~(n < 0) /\ Len(w) - n \in Nat
  BY <1>1
<1>3. Fst(f, 0) = <<>>
  BY DEF Fst
<1> QED
  BY <1>2, <1>3 DEF On, At, Begin

\* A decoder that has come to the end has read all if nothing is missing, and has
\* failed otherwise.
LEMMA EndOn ==
    ASSUME NEW s, NEW vs, NEW d \in Nat, On(s, vs, <<>>, d)
    PROVE  (s.ok <=> d = 0) /\ (s.ok => s.vals = vs /\ s.rest = <<>>)
<1>1. Len(<<>>) - d = 0 - d
  OBVIOUS
<1>2. At(s, vs, <<>>, 0 - d)
  BY <1>1 DEF On
<1>3. CASE d = 0
  <2>1. s = [ok |-> TRUE, vals |-> vs, rest |-> Cut(<<>>, 0)]
    BY <1>2, <1>3 DEF At
  <2>2. Cut(<<>>, 0) = <<>>
    BY DEF Cut
  <2> QED
    BY <1>3, <2>1, <2>2
<1>4. CASE d # 0
  <2>1. s = Bad
    BY <1>2, <1>4 DEF At
  <2> QED
    BY <1>4, <2>1 DEF Bad
<1> QED
  BY <1>3, <1>4

\* Nothing follows the end.
LEMMA BeforeEnd ==
    ASSUME NEW e \in Bytes
    PROVE  e \o <<>> = e /\ <<>> \in Bytes
BY ConcatEmptySeq DEF Bytes

\* A decoder that reads a status.
LEMMA ThenStatusOn ==
    ASSUME NEW s, NEW f, NEW j \in Nat, NEW x \in Nat, NEW y \in Nat, NEW z \in Nat,
           x = j + 1, y = x + 1, z = y + 1, f[x] \in Flags, f[y] \in 0 .. 16, IsText(f[z]),
           NEW r \in Bytes, NEW d \in Nat,
           On(s, Fst(f, j), <<f[x]>> \o (PutU32(f[y]) \o (PutString(f[z]) \o r)), d)
    PROVE  On(ThenStatus(s), Fst(f, z), r, d)
<1> DEFINE a == PutU32(f[y])
           b == PutString(f[z])
<1>1. a \in Bytes
  <2>1. f[y] \in Nat /\ f[y] < Limit
    BY DEF Limit
  <2> QED
    BY <2>1, PutNumberType
<1>2. b \in Bytes
  BY PutStringType
<1>3. b \o r \in Bytes
  BY <1>2, Behind
<1>4. a \o (b \o r) \in Bytes
  BY <1>1, <1>3, Behind
<1>5. /\ Append(Fst(f, j), f[x]) = Fst(f, x) /\ Append(Fst(f, x), f[y]) = Fst(f, y)
      /\ Append(Fst(f, y), f[z]) = Fst(f, z)
  BY FstNext
<1>6. On(s, Fst(f, j), <<f[x]>> \o (a \o (b \o r)), d)
  OBVIOUS
<1>7. a = PutU32(f[y]) /\ b = PutString(f[z])
  OBVIOUS
<1> HIDE DEF a, b
<1>8. On(ThenFlag(s), Append(Fst(f, j), f[x]), a \o (b \o r), d)
  BY <1>4, <1>6, ThenFlagOn
<1>9. On(ThenCode(ThenFlag(s)), Append(Fst(f, x), f[y]), b \o r, d)
  BY <1>3, <1>5, <1>7, <1>8, ThenCodeOn
<1>10. On(ThenString(ThenCode(ThenFlag(s))), Append(Fst(f, y), f[z]), r, d)
  BY <1>5, <1>7, <1>9, ThenStringOn
<1> QED
  BY <1>5, <1>10 DEF ThenStatus

\* A request.
LEMMA RequestExact ==
    ASSUME NEW f, IsText(f[1]), IsMetadata(f[2]), IsPayload(f[3])
    PROVE  /\ EncodeUnaryRequest(f) \in Bytes
           /\ \A n \in 0 .. Len(EncodeUnaryRequest(f)) :
                  On(DecodeUnaryRequest(Cut(EncodeUnaryRequest(f), n)), Fst(f, 3), <<>>,
                     Len(EncodeUnaryRequest(f)) - n)
<1> DEFINE a == PutString(f[1])
           b == PutKv(f[2])
           e == PutBytes(f[3])
           w == a \o (b \o (e \o <<>>))
<1>1. a \in Bytes
  BY PutStringType
<1>2. b \in Bytes
  BY PutKvType
<1>3. e \in Bytes
  BY PutBytesType DEF IsPayload
<1>4. e \o <<>> = e /\ <<>> \in Bytes
  <2> HIDE DEF e
  <2> QED
    BY <1>3, BeforeEnd
<1>5. EncodeUnaryRequest(f) = (a \o b) \o e
  BY DEF EncodeUnaryRequest
<1> HIDE DEF a, b, e
<1>6. (a \o b) \o e = a \o (b \o e)
  <2>1. Regroup3(a, b, e)
    BY <1>1, <1>2, <1>3, Associative, Zenon
  <2> QED
    BY <2>1, Zenon DEF Regroup3
<1>7. EncodeUnaryRequest(f) = w
  BY <1>4, <1>5, <1>6
<1>8. b \o (e \o <<>>) \in Bytes
  BY <1>2, <1>3, <1>4, Behind
<1>9. w \in Bytes
  BY <1>1, <1>8, Behind
<1>10. ASSUME NEW n \in 0 .. Len(w)
       PROVE  On(DecodeUnaryRequest(Cut(w, n)), Fst(f, 3), <<>>, Len(w) - n)
  <2> DEFINE s == Begin(Cut(w, n))
             d == Len(w) - n
  <2>1. On(s, Fst(f, 0), w, d) /\ d \in Nat
    BY <1>9, BeginOn
  <2>2. DecodeUnaryRequest(Cut(w, n)) = ThenBytes(ThenKv(ThenString(s)))
    BY DEF DecodeUnaryRequest
  <2>6. e \o <<>> \in Bytes
    BY <1>3, <1>4
  <2> HIDE DEF s, d
  <2>3. On(ThenString(s), Append(Fst(f, 0), f[1]), b \o (e \o <<>>), d)
    BY <1>8, <2>1, ThenStringOn DEF a
  <2>4. On(ThenKv(ThenString(s)), Append(Fst(f, 1), f[2]), e \o <<>>, d)
    <3>1. On(ThenString(s), Fst(f, 1), PutKv(f[2]) \o (e \o <<>>), d)
      BY <2>3, FstFields DEF b
    <3> QED
      BY <2>1, <2>6, <3>1, ThenKvOn
  <2>5. On(ThenBytes(ThenKv(ThenString(s))), Append(Fst(f, 2), f[3]), <<>>, d)
    <3>1. On(ThenKv(ThenString(s)), Fst(f, 2), PutBytes(f[3]) \o <<>>, d)
      BY <2>4, FstFields DEF e
    <3> QED
      BY <1>4, <2>1, <3>1, ThenBytesOn
  <2>7. Append(Fst(f, 2), f[3]) = Fst(f, 3)
    BY FstFields
  <2> QED
    BY <2>2, <2>5, <2>7 DEF d
<1> HIDE DEF w
<1> QED
  BY <1>7, <1>9, <1>10

\* It does not matter which two of five buffers are put together first.
LEMMA Nest5 ==
    ASSUME NEW a \in Bytes, NEW b \in Bytes, NEW c \in Bytes, NEW e \in Bytes,
           NEW g \in Bytes
    PROVE  Regroup5(a, b, c, e, g)
BY FiveInARow DEF Bytes

\* Nor of eight.
LEMMA Nest8 ==
    ASSUME NEW a \in Bytes, NEW b \in Bytes, NEW c \in Bytes, NEW e \in Bytes,
           NEW g \in Bytes, NEW h \in Bytes, NEW k \in Bytes, NEW m \in Bytes
    PROVE  Regroup8(a, b, c, e, g, h, k, m)
BY EightInARow DEF Bytes

\* A response.
LEMMA ResponseExact ==
    ASSUME NEW f, f[1] \in Flags, f[2] \in 0 .. 16, IsText(f[3]), IsMetadata(f[4]), IsPayload(f[5])
    PROVE  /\ EncodeUnaryResponse(f) \in Bytes
           /\ \A n \in 0 .. Len(EncodeUnaryResponse(f)) :
                  On(DecodeUnaryResponse(Cut(EncodeUnaryResponse(f), n)), Fst(f, 5), <<>>,
                     Len(EncodeUnaryResponse(f)) - n)
<1> DEFINE a == <<f[1]>>
           b == PutU32(f[2])
           c == PutString(f[3])
           e == PutKv(f[4])
           g == PutBytes(f[5])
           u == e \o (g \o <<>>)
           t == b \o (c \o u)
           w == a \o t
<1>1. a \in Bytes
  <2>1. f[1] \in 0 .. 255
    BY DEF Flags
  <2> QED
    BY <2>1, ByteType
<1>2. b \in Bytes
  <2>1. f[2] \in Nat /\ f[2] < Limit
    BY DEF Limit
  <2> QED
    BY <2>1, PutNumberType
<1>3. c \in Bytes
  BY PutStringType
<1>4. e \in Bytes
  BY PutKvType
<1>5. g \in Bytes
  BY PutBytesType DEF IsPayload
<1>6. EncodeUnaryResponse(f) = (((a \o b) \o c) \o e) \o g
  BY DEF EncodeUnaryResponse
<1>7. a = <<f[1]>> /\ b = PutU32(f[2]) /\ c = PutString(f[3]) /\ e = PutKv(f[4]) /\ g = PutBytes(f[5])
  OBVIOUS
<1> HIDE DEF a, b, c, e, g
<1>8. g \o <<>> = g /\ <<>> \in Bytes
  BY <1>5, BeforeEnd
<1>9. (((a \o b) \o c) \o e) \o g = a \o (b \o (c \o (e \o g)))
  <2>1. Regroup5(a, b, c, e, g)
    BY <1>1, <1>2, <1>3, <1>4, <1>5, Nest5, Zenon
  <2> QED
    BY <2>1 DEF Regroup5
<1>10. EncodeUnaryResponse(f) = w
  BY <1>6, <1>8, <1>9
<1>11. g \o <<>> \in Bytes
  BY <1>5, <1>8
<1>12. u \in Bytes
  BY <1>4, <1>11, Behind
<1>13. u = PutKv(f[4]) \o (g \o <<>>)
  BY <1>7
<1> HIDE DEF u
<1>14. c \o u \in Bytes
  BY <1>3, <1>12, Behind
<1>15. t \in Bytes
  BY <1>2, <1>14, Behind
<1>16. t = PutU32(f[2]) \o (PutString(f[3]) \o u)
  BY <1>7
<1> HIDE DEF t
<1>17. w \in Bytes
  BY <1>1, <1>15, Behind
<1>18. ASSUME NEW n \in 0 .. Len(w)
       PROVE  On(DecodeUnaryResponse(Cut(w, n)), Fst(f, 5), <<>>, Len(w) - n)
  <2> DEFINE s == Begin(Cut(w, n))
             d == Len(w) - n
  <2>1. On(s, Fst(f, 0), w, d) /\ d \in Nat
    BY <1>17, BeginOn
  <2>2. DecodeUnaryResponse(Cut(w, n)) = ThenBytes(ThenKv(ThenStatus(s)))
    BY DEF DecodeUnaryResponse
  <2> HIDE DEF s, d
  <2>3. On(s, Fst(f, 0), <<f[1]>> \o (PutU32(f[2]) \o (PutString(f[3]) \o u)), d)
    BY <1>7, <1>16, <2>1
  <2>4. /\ 0 \in Nat /\ 1 \in Nat /\ 2 \in Nat /\ 3 \in Nat
        /\ 1 = 0 + 1 /\ 2 = 1 + 1 /\ 3 = 2 + 1 /\ d \in Nat
    BY <2>1
  <2>5. On(ThenStatus(s), Fst(f, 3), u, d)
    BY <1>12, <2>3, <2>4, ThenStatusOn, Zenon
  <2>6. On(ThenKv(ThenStatus(s)), Append(Fst(f, 3), f[4]), g \o <<>>, d)
    BY <1>11, <1>13, <2>1, <2>5, ThenKvOn
  <2>7. On(ThenBytes(ThenKv(ThenStatus(s))), Append(Fst(f, 4), f[5]), <<>>, d)
    <3>1. On(ThenKv(ThenStatus(s)), Fst(f, 4), PutBytes(f[5]) \o <<>>, d)
      BY <1>7, <2>6, FstFields
    <3> QED
      BY <1>8, <2>1, <3>1, ThenBytesOn
  <2>8. Append(Fst(f, 4), f[5]) = Fst(f, 5)
    BY FstFields
  <2> QED
    BY <2>2, <2>7, <2>8 DEF d
<1> HIDE DEF w
<1> QED
  BY <1>10, <1>17, <1>18

\* The status at the end of a frame.
PutStatus(f) == <<f[8]>> \o (PutU32(f[9]) \o (PutString(f[10]) \o <<>>))

\* What ends a frame.
PutEnd(f) == IF HasStatus(f[4]) THEN PutStatus(f) ELSE <<>>

\* What the fields of a frame are.
IsFrame(f) ==
    /\ IsText(f[1]) /\ f[2] \in Flags /\ f[3] \in Nat /\ f[3] < Limit /\ f[4] \in 0 .. 3
    /\ IsMethod(f[5]) /\ IsMetadata(f[6]) /\ IsPayload(f[7])
    /\ f[8] \in Flags /\ f[9] \in 0 .. 16 /\ IsText(f[10]) /\ Sensible(f)

\* The status is bytes, and is what the encoder puts.
LEMMA PutEndType ==
    ASSUME NEW f, IsFrame(f)
    PROVE  /\ PutEnd(f) \in Bytes
           /\ PutEnd(f) = IF HasStatus(f[4]) THEN <<f[8]>> \o PutU32(f[9]) \o PutString(f[10]) ELSE <<>>
<1> DEFINE a == <<f[8]>>
           b == PutU32(f[9])
           c == PutString(f[10])
<1>0. f[8] \in 0 .. 255 /\ f[9] \in Nat /\ f[9] < Limit /\ IsText(f[10])
  BY DEF IsFrame, Flags, Limit
<1>1. a \in Bytes
  BY <1>0, ByteType
<1>2. b \in Bytes
  BY <1>0, PutNumberType
<1>3. c \in Bytes
  BY <1>0, PutStringType
<1>4. PutStatus(f) = a \o (b \o (c \o <<>>))
  BY DEF PutStatus
<1>5. <<f[8]>> \o PutU32(f[9]) \o PutString(f[10]) = (a \o b) \o c
  OBVIOUS
<1> HIDE DEF a, b, c
<1>6. c \o <<>> = c /\ <<>> \in Bytes
  BY <1>3, BeforeEnd
<1>7. (a \o b) \o c = a \o (b \o c)
  <2>1. Regroup3(a, b, c)
    BY <1>1, <1>2, <1>3, Associative, Zenon
  <2> QED
    BY <2>1, Zenon DEF Regroup3
<1>8. b \o c \in Bytes
  BY <1>2, <1>3, Behind
<1>9. a \o (b \o c) \in Bytes
  BY <1>1, <1>8, Behind
<1>10. PutStatus(f) = <<f[8]>> \o PutU32(f[9]) \o PutString(f[10]) /\ PutStatus(f) \in Bytes
  BY <1>4, <1>5, <1>6, <1>7, <1>9
<1> QED
  BY <1>6, <1>10 DEF PutEnd

\* What the parts of a frame are.
FrameRest(f) == PutKv(f[6]) \o (PutBytes(f[7]) \o PutEnd(f))
FrameBytes(f) ==
    PutString(f[1]) \o (<<f[2]>> \o (PutU64(f[3]) \o (<<f[4]>> \o (PutMethod(f[5]) \o FrameRest(f)))))

\* They are bytes.
LEMMA FrameParts ==
    ASSUME NEW f, IsFrame(f)
    PROVE  /\ PutString(f[1]) \in Bytes /\ <<f[2]>> \in Bytes /\ PutU64(f[3]) \in Bytes
           /\ <<f[4]>> \in Bytes /\ PutMethod(f[5]) \in Bytes /\ PutKv(f[6]) \in Bytes
           /\ PutBytes(f[7]) \in Bytes /\ PutEnd(f) \in Bytes
<1>0. /\ IsText(f[1]) /\ f[2] \in 0 .. 255 /\ f[3] \in Nat /\ f[3] < Limit /\ f[4] \in 0 .. 255
      /\ IsMetadata(f[6]) /\ IsPayload(f[7])
  BY DEF IsFrame, Flags
<1>1. PutString(f[1]) \in Bytes
  BY <1>0, PutStringType
<1>2. <<f[2]>> \in Bytes
  BY <1>0, ByteType
<1>3. PutU64(f[3]) \in Bytes
  BY <1>0, PutNumberType
<1>4. <<f[4]>> \in Bytes
  BY <1>0, ByteType
<1>5. PutMethod(f[5]) \in Bytes
  BY PutMethodType DEF IsFrame, IsMethod
<1>6. PutKv(f[6]) \in Bytes
  BY <1>0, PutKvType
<1>7. PutBytes(f[7]) \in Bytes
  BY <1>0, PutBytesType DEF IsPayload
<1>8. PutEnd(f) \in Bytes
  BY PutEndType
<1> QED
  BY <1>1, <1>2, <1>3, <1>4, <1>5, <1>6, <1>7, <1>8

\* The encoder puts them one behind the other.
LEMMA EncodedFrame ==
    ASSUME NEW f, IsFrame(f)
    PROVE  EncodeStreamFrame(f) = FrameBytes(f)
<1> DEFINE a == PutString(f[1])
           b == <<f[2]>>
           c == PutU64(f[3])
           e == <<f[4]>>
           g == PutMethod(f[5])
           h == PutKv(f[6])
           k == PutBytes(f[7])
           m == PutEnd(f)
<1>1. /\ a \in Bytes /\ b \in Bytes /\ c \in Bytes /\ e \in Bytes
      /\ g \in Bytes /\ h \in Bytes /\ k \in Bytes /\ m \in Bytes
  BY FrameParts
<1>2. g = IF f[4] = OpenKind /\ f[5] # <<>> THEN <<1>> \o PutString(f[5][1]) ELSE <<0>>
  BY DEF PutMethod, IsFrame, Sensible
<1>3. m = IF HasStatus(f[4]) THEN <<f[8]>> \o PutU32(f[9]) \o PutString(f[10]) ELSE <<>>
  BY PutEndType
<1>4. EncodeStreamFrame(f)
      = a \o b \o c \o e
        \o (IF f[4] = OpenKind /\ f[5] # <<>> THEN <<1>> \o PutString(f[5][1]) ELSE <<0>>)
        \o h \o k
        \o (IF HasStatus(f[4]) THEN <<f[8]>> \o PutU32(f[9]) \o PutString(f[10]) ELSE <<>>)
  BY Zenon DEF EncodeStreamFrame
<1>5. FrameBytes(f) = a \o (b \o (c \o (e \o (g \o (h \o (k \o m))))))
  BY Zenon DEF FrameBytes, FrameRest
<1> HIDE DEF a, b, c, e, g, h, k, m
<1>6. EncodeStreamFrame(f) = ((((((a \o b) \o c) \o e) \o g) \o h) \o k) \o m
  BY <1>2, <1>3, <1>4, Zenon
<1>7. ((((((a \o b) \o c) \o e) \o g) \o h) \o k) \o m
      = a \o (b \o (c \o (e \o (g \o (h \o (k \o m))))))
  <2>1. Regroup8(a, b, c, e, g, h, k, m)
    BY <1>1, Nest8, Zenon
  <2> QED
    BY <2>1 DEF Regroup8
<1> QED
  BY <1>5, <1>6, <1>7, Zenon

\* The rest of a frame is bytes, whatever is read of it.
LEMMA FrameTypes ==
    ASSUME NEW f, IsFrame(f)
    PROVE  /\ PutEnd(f) \in Bytes /\ PutBytes(f[7]) \o PutEnd(f) \in Bytes
           /\ FrameRest(f) \in Bytes /\ PutMethod(f[5]) \o FrameRest(f) \in Bytes
           /\ <<f[4]>> \o (PutMethod(f[5]) \o FrameRest(f)) \in Bytes
           /\ PutU64(f[3]) \o (<<f[4]>> \o (PutMethod(f[5]) \o FrameRest(f))) \in Bytes
           /\ <<f[2]>> \o (PutU64(f[3]) \o (<<f[4]>> \o (PutMethod(f[5]) \o FrameRest(f)))) \in Bytes
           /\ FrameBytes(f) \in Bytes
<1> DEFINE a == PutString(f[1])
           b == <<f[2]>>
           c == PutU64(f[3])
           e == <<f[4]>>
           g == PutMethod(f[5])
           h == PutKv(f[6])
           k == PutBytes(f[7])
           m == PutEnd(f)
           u == FrameRest(f)
<1>1. /\ a \in Bytes /\ b \in Bytes /\ c \in Bytes /\ e \in Bytes
      /\ g \in Bytes /\ h \in Bytes /\ k \in Bytes /\ m \in Bytes
  BY FrameParts
<1>2. u = h \o (k \o m) /\ FrameBytes(f) = a \o (b \o (c \o (e \o (g \o u))))
  BY Zenon DEF FrameBytes, FrameRest
<1>0. SUFFICES /\ m \in Bytes /\ k \o m \in Bytes /\ u \in Bytes /\ g \o u \in Bytes
               /\ e \o (g \o u) \in Bytes /\ c \o (e \o (g \o u)) \in Bytes
               /\ b \o (c \o (e \o (g \o u))) \in Bytes
               /\ FrameBytes(f) \in Bytes
  BY Zenon
<1> HIDE DEF a, b, c, e, g, h, k, m, u
<1>3. \A x, y \in Bytes : x \o y \in Bytes
  BY Behind
<1>4. k \o m \in Bytes
  BY <1>1, <1>3, Zenon
<1>5. u \in Bytes
  BY <1>1, <1>2, <1>3, <1>4, Zenon
<1>6. g \o u \in Bytes
  BY <1>1, <1>3, <1>5, Zenon
<1>7. e \o (g \o u) \in Bytes
  BY <1>1, <1>3, <1>6, Zenon
<1>8. c \o (e \o (g \o u)) \in Bytes
  BY <1>1, <1>3, <1>7, Zenon
<1>9. b \o (c \o (e \o (g \o u))) \in Bytes
  BY <1>1, <1>3, <1>8, Zenon
<1>10. FrameBytes(f) \in Bytes
  BY <1>1, <1>2, <1>3, <1>9, Zenon
<1> QED
  BY <1>1, <1>4, <1>5, <1>6, <1>7, <1>8, <1>9, <1>10, Zenon

\* What the decoder reads first, and what it reads then.
FrameHead(b) == ThenMethod(ThenKind(ThenNumber(ThenDirection(ThenString(Begin(b))))))
FrameBody(b) == ThenBytes(ThenKv(FrameHead(b)))

\* How far it gets.
LEMMA FrameOn ==
    ASSUME NEW f, IsFrame(f), NEW n \in 0 .. Len(FrameBytes(f)), NEW d, d = Len(FrameBytes(f)) - n
    PROVE  /\ d \in Nat
           /\ On(FrameHead(Cut(FrameBytes(f), n)), Fst(f, 5), FrameRest(f), d)
           /\ On(FrameBody(Cut(FrameBytes(f), n)), Fst(f, 7), PutEnd(f), d)
<1> DEFINE s == Begin(Cut(FrameBytes(f), n))
           m == PutEnd(f)
           r7 == PutBytes(f[7]) \o m
           r6 == FrameRest(f)
           r5 == PutMethod(f[5]) \o r6
           r4 == <<f[4]>> \o r5
           r3 == PutU64(f[3]) \o r4
           r2 == <<f[2]>> \o r3
<1>1. /\ m \in Bytes /\ r7 \in Bytes /\ r6 \in Bytes /\ r5 \in Bytes /\ r4 \in Bytes
      /\ r3 \in Bytes /\ r2 \in Bytes
  BY FrameTypes, Zenon
<1>2. On(s, Fst(f, 0), FrameBytes(f), d) /\ d \in Nat
  BY FrameTypes, BeginOn
<1>3. r6 = PutKv(f[6]) \o r7 /\ FrameBytes(f) = PutString(f[1]) \o r2
  BY Zenon DEF FrameBytes, FrameRest
<1>4. FrameHead(Cut(FrameBytes(f), n)) = ThenMethod(ThenKind(ThenNumber(ThenDirection(ThenString(s)))))
  BY Zenon DEF FrameHead
<1>5. FrameBody(Cut(FrameBytes(f), n)) = ThenBytes(ThenKv(FrameHead(Cut(FrameBytes(f), n))))
  BY Zenon DEF FrameBody
<1>6. /\ r5 = PutMethod(f[5]) \o r6 /\ r4 = <<f[4]>> \o r5 /\ r3 = PutU64(f[3]) \o r4
      /\ r2 = <<f[2]>> \o r3 /\ r7 = PutBytes(f[7]) \o m
  BY Zenon
<1>7. /\ IsText(f[1]) /\ f[2] \in Flags /\ f[3] \in Nat /\ f[3] < Limit /\ f[4] \in 0 .. 3
      /\ IsMethod(f[5]) /\ IsMetadata(f[6]) /\ IsPayload(f[7])
  BY DEF IsFrame
<1>0. SUFFICES /\ On(FrameHead(Cut(FrameBytes(f), n)), Fst(f, 5), r6, d)
               /\ On(FrameBody(Cut(FrameBytes(f), n)), Fst(f, 7), m, d)
  BY <1>2
<1> HIDE DEF s, m, r7, r6, r5, r4, r3, r2
<1>8. /\ Append(Fst(f, 0), f[1]) = Fst(f, 1) /\ Append(Fst(f, 1), f[2]) = Fst(f, 2)
      /\ Append(Fst(f, 2), f[3]) = Fst(f, 3) /\ Append(Fst(f, 3), f[4]) = Fst(f, 4)
      /\ Append(Fst(f, 4), f[5]) = Fst(f, 5) /\ Append(Fst(f, 5), f[6]) = Fst(f, 6)
      /\ Append(Fst(f, 6), f[7]) = Fst(f, 7)
  BY FstFields
<1> DEFINE s1 == ThenString(s)
           s2 == ThenDirection(s1)
           s3 == ThenNumber(s2)
           s4 == ThenKind(s3)
           s5 == ThenMethod(s4)
           s6 == ThenKv(s5)
           s7 == ThenBytes(s6)
<1>9. FrameHead(Cut(FrameBytes(f), n)) = s5 /\ FrameBody(Cut(FrameBytes(f), n)) = s7
  BY <1>4, <1>5, Zenon
<1>11. On(s1, Append(Fst(f, 0), f[1]), r2, d)
  <2>1. On(s, Fst(f, 0), PutString(f[1]) \o r2, d)
    BY <1>2, <1>3, Zenon
  <2> QED
    BY <1>1, <1>2, <1>7, <2>1, ThenStringOn, Zenon
<1> HIDE DEF s1
<1>12. On(s2, Append(Fst(f, 1), f[2]), r3, d)
  <2>1. On(s1, Fst(f, 1), <<f[2]>> \o r3, d)
    BY <1>6, <1>8, <1>11, Zenon
  <2> QED
    BY <1>1, <1>2, <1>7, <2>1, ThenDirectionOn, Zenon
<1> HIDE DEF s2
<1>13. On(s3, Append(Fst(f, 2), f[3]), r4, d)
  <2>1. On(s2, Fst(f, 2), PutU64(f[3]) \o r4, d)
    BY <1>6, <1>8, <1>12, Zenon
  <2> QED
    BY <1>1, <1>2, <1>7, <2>1, ThenNumberOn, Zenon
<1> HIDE DEF s3
<1>14. On(s4, Append(Fst(f, 3), f[4]), r5, d)
  <2>1. On(s3, Fst(f, 3), <<f[4]>> \o r5, d)
    BY <1>6, <1>8, <1>13, Zenon
  <2> QED
    BY <1>1, <1>2, <1>7, <2>1, ThenKindOn, Zenon
<1> HIDE DEF s4
<1>15. On(s5, Append(Fst(f, 4), f[5]), r6, d)
  <2>1. On(s4, Fst(f, 4), PutMethod(f[5]) \o r6, d)
    BY <1>6, <1>8, <1>14, Zenon
  <2> QED
    BY <1>1, <1>2, <1>7, <2>1, ThenMethodOn, Zenon
<1> HIDE DEF s5
<1>16. On(s6, Append(Fst(f, 5), f[6]), r7, d)
  <2>1. On(s5, Fst(f, 5), PutKv(f[6]) \o r7, d)
    BY <1>3, <1>8, <1>15, Zenon
  <2> QED
    BY <1>1, <1>2, <1>7, <2>1, ThenKvOn, Zenon
<1> HIDE DEF s6
<1>17. On(s7, Append(Fst(f, 6), f[7]), m, d)
  <2>1. On(s6, Fst(f, 6), PutBytes(f[7]) \o m, d)
    BY <1>6, <1>8, <1>16, Zenon
  <2> QED
    BY <1>1, <1>2, <1>7, <2>1, ThenBytesOn, Zenon
<1> HIDE DEF s7
<1> QED
  BY <1>8, <1>9, <1>15, <1>17, Zenon

\* What a decoder does with what arrived: it succeeds if good, with the fields of f.
Exact(r, f, good) == (r.ok <=> good) /\ (r.ok => r.vals = f /\ r.rest = <<>>)

\* The fields of a frame without a status.
LEMMA FstEnd ==
    ASSUME NEW f, f[8] = 1, f[9] = 0, f[10] = <<>>
    PROVE  Fst(f, 7) \o <<1, 0, <<>> >> = Fst(f, 10)
BY DEF Fst

\* A frame.
LEMMA FrameExact ==
    ASSUME NEW f, IsFrame(f), NEW n \in 0 .. Len(FrameBytes(f))
    PROVE  Exact(DecodeStreamFrame(Cut(FrameBytes(f), n)), Fst(f, 10),
                 n = Len(FrameBytes(f)) /\ ~(f[4] = OpenKind /\ f[5] = <<>>))
<1> DEFINE b == Cut(FrameBytes(f), n)
           d == Len(FrameBytes(f)) - n
           head == FrameHead(b)
           body == FrameBody(b)
           good == n = Len(FrameBytes(f)) /\ ~(f[4] = OpenKind /\ f[5] = <<>>)
           x == DecodeStreamFrame(b)
<1>1. d \in Nat /\ On(head, Fst(f, 5), FrameRest(f), d) /\ On(body, Fst(f, 7), PutEnd(f), d)
  BY FrameOn
<1>2. x = IF ~head.ok \/ (head.vals[4] = OpenKind <=> head.vals[5] = <<>>) THEN Bad
          ELSE IF HasStatus(head.vals[4]) THEN ThenStatus(body)
          ELSE IF ~body.ok THEN Bad
          ELSE [ok |-> TRUE, vals |-> body.vals \o <<1, 0, <<>> >>, rest |-> body.rest]
  BY Zenon DEF DecodeStreamFrame, FrameHead, FrameBody
<1>3. good <=> d = 0 /\ ~(f[4] = OpenKind /\ f[5] = <<>>)
  BY FrameTypes, BytesType
<1>4. f[4] # OpenKind => f[5] = <<>>
  BY DEF IsFrame, Sensible
<1>5. ~HasStatus(f[4]) => f[8] = 1 /\ f[9] = 0 /\ f[10] = <<>>
  BY DEF IsFrame, Sensible
<1>6. f[8] \in Flags /\ f[9] \in 0 .. 16 /\ IsText(f[10])
  BY DEF IsFrame
<1>7. Len(FrameRest(f)) \in Nat
  BY FrameTypes, BytesType
<1>8. SUFFICES Exact(x, Fst(f, 10), good)
  BY Zenon
<1> HIDE DEF b, d, head, body, good, x
<1>9. CASE Len(FrameRest(f)) - d < 0
  <2>1. head = Bad
    BY <1>1, <1>9 DEF On, At
  <2>2. x = Bad
    BY <1>2, <2>1, GotParts, Zenon
  <2>3. ~good
    BY <1>1, <1>3, <1>7, <1>9
  <2> QED
    BY <2>2, <2>3 DEF Exact, Bad
<1>10. CASE ~(Len(FrameRest(f)) - d < 0)
  <2>1. head.ok = TRUE /\ head.vals = Fst(f, 5)
    BY <1>1, <1>10 DEF On, At
  <2>2. head.vals[4] = f[4] /\ head.vals[5] = f[5]
    BY <2>1 DEF Fst
  <2>3. CASE f[4] = OpenKind /\ f[5] = <<>>
    <3>1. x = Bad
      BY <1>2, <2>1, <2>2, <2>3, Zenon
    <3>2. ~good
      BY <1>3, <2>3
    <3> QED
      BY <3>1, <3>2 DEF Exact, Bad
  <2>4. CASE ~(f[4] = OpenKind /\ f[5] = <<>>)
    <3>1. x = IF HasStatus(f[4]) THEN ThenStatus(body)
              ELSE IF ~body.ok THEN Bad
              ELSE [ok |-> TRUE, vals |-> body.vals \o <<1, 0, <<>> >>, rest |-> body.rest]
      <4>1. ~(head.vals[4] = OpenKind <=> head.vals[5] = <<>>)
        BY <1>4, <2>2, <2>4, Zenon
      <4> QED
        BY <1>2, <2>1, <2>2, <4>1, Zenon
    <3>2. good <=> d = 0
      BY <1>3, <2>4
    <3>3. CASE HasStatus(f[4])
      <4>1. On(body, Fst(f, 7), <<f[8]>> \o (PutU32(f[9]) \o (PutString(f[10]) \o <<>>)), d)
        BY <1>1, <3>3, Zenon DEF PutEnd, PutStatus
      <4>2. /\ 7 \in Nat /\ 8 \in Nat /\ 9 \in Nat /\ 10 \in Nat
            /\ 8 = 7 + 1 /\ 9 = 8 + 1 /\ 10 = 9 + 1 /\ d \in Nat /\ <<>> \in Bytes
        BY <1>1 DEF Bytes
      <4>3. On(ThenStatus(body), Fst(f, 10), <<>>, d)
        BY <1>6, <4>1, <4>2, ThenStatusOn, Zenon
      <4>4. x = ThenStatus(body)
        BY <3>1, <3>3, Zenon
      <4> QED
        BY <1>1, <3>2, <4>3, <4>4, EndOn DEF Exact
    <3>4. CASE ~HasStatus(f[4])
      <4>1. On(body, Fst(f, 7), <<>>, d)
        BY <1>1, <3>4, Zenon DEF PutEnd
      <4>2. (body.ok <=> d = 0) /\ (body.ok => body.vals = Fst(f, 7) /\ body.rest = <<>>)
        BY <1>1, <4>1, EndOn
      <4>3. Fst(f, 7) \o <<1, 0, <<>> >> = Fst(f, 10)
        BY <1>5, <3>4, FstEnd
      <4>4. CASE body.ok
        <5>1. x = [ok |-> TRUE, vals |-> Fst(f, 10), rest |-> <<>>]
          BY <3>1, <3>4, <4>2, <4>3, <4>4, Zenon
        <5> QED
          BY <3>2, <4>2, <4>4, <5>1 DEF Exact
      <4>5. CASE ~body.ok
        <5>1. x = Bad
          BY <3>1, <3>4, <4>5, Zenon
        <5> QED
          BY <3>2, <4>2, <4>5, <5>1 DEF Exact, Bad
      <4> QED
        BY <4>4, <4>5
    <3> QED
      BY <3>3, <3>4
  <2> QED
    BY <2>3, <2>4
<1> QED
  BY <1>9, <1>10

\* Texts and metadata of messages, for every value of the constants.
LEMMA FieldTypes ==
    /\ \A t \in Texts : IsText(t)
    /\ \A p \in Payloads : IsPayload(p)
    /\ IsText(<<>>)
    /\ \A md \in Metadata : IsMetadata(md)
    /\ \A v \in Codes \cup {0} : v \in 0 .. 16
    /\ \A v \in {0, MaxSeq} : v \in Nat /\ v < Limit
<1>1. /\ Texts \subseteq Seq(0 .. 127) /\ \A t \in Texts : Len(t) < Limit
      /\ Payloads \subseteq Seq(0 .. 255) /\ \A p \in Payloads : Len(p) < Limit
      /\ Metadata \subseteq Seq(Texts \X Texts) /\ \A md \in Metadata : Len(md) < Limit
      /\ MaxSeq \in 0 .. Limit - 1 /\ Codes \subseteq 0 .. 16
  BY TonicAssumption DEF WireAssumption
<1>2. \A t \in Texts : IsText(t)
  BY <1>1 DEF IsText
<1>3. IsText(<<>>)
  BY DEF IsText, Limit
<1>6. \A p \in Payloads : IsPayload(p)
  BY <1>1 DEF IsPayload, Bytes
<1>4. ASSUME NEW md \in Metadata
      PROVE  IsMetadata(md)
  <2>1. md \in Seq(Texts \X Texts) /\ Len(md) < Limit
    BY <1>1
  <2>2. Texts \subseteq TextSet
    BY <1>1, <1>2 DEF TextSet
  <2>3. Texts \X Texts \subseteq TextSet \X TextSet
    BY <2>2
  <2>4. md \in Seq(TextSet \X TextSet)
    BY <2>1, <2>3, SeqMonotonic
  <2> QED
    BY <2>1, <2>4 DEF IsMetadata, TextSet
<1>5. \A v \in {0, MaxSeq} : v \in Nat /\ v < Limit
  <2>1. Limit \in Nat /\ 0 < Limit
    BY SMT DEF Limit
  <2>2. MaxSeq \in 0 .. Limit - 1
    BY <1>1
  <2>3. MaxSeq \in Nat /\ MaxSeq < Limit
    BY <2>1, <2>2, SMT
  <2> QED
    BY <2>1, <2>3, SMT
<1> QED
  BY <1>1, <1>2, <1>3, <1>4, <1>5, <1>6

\* A decoder that has come to the end.
LEMMA EndExact ==
    ASSUME NEW w \in Bytes, NEW n \in 0 .. Len(w), NEW s, NEW vs, On(s, vs, <<>>, Len(w) - n)
    PROVE  Exact(s, vs, n = Len(w))
<1>1. Len(w) \in Nat
  BY BytesType
<1>2. Len(w) - n \in Nat /\ (Len(w) - n = 0 <=> n = Len(w))
  BY <1>1
<1>3. (s.ok <=> Len(w) - n = 0) /\ (s.ok => s.vals = vs /\ s.rest = <<>>)
  BY <1>2, EndOn
<1> QED
  BY <1>2, <1>3 DEF Exact

\* The messages that are sent.
Messages == Requests \cup Responses \cup {x \in Frames : Sensible(x.fields)}

OpensNothing(x) == x.form = "frame" /\ x.fields[4] = OpenKind /\ x.fields[5] = <<>>

\* What arrives of a message is decoded to it if all arrives, and refused otherwise.
DecodesExactly(x) ==
    /\ Encode(x) \in Bytes
    /\ \A n \in 0 .. Len(Encode(x)) :
           Exact(Decode(x.form, Cut(Encode(x), n)), x.fields, n = Len(Encode(x)) /\ ~OpensNothing(x))

\* So it is with requests.
LEMMA RequestsExactly ==
    ASSUME NEW x \in Requests
    PROVE  DecodesExactly(x)
<1> DEFINE f == x.fields
           w == EncodeUnaryRequest(f)
<1>1. x.form = "request" /\ f \in Texts \X Metadata \X Payloads
  BY DEF Requests
<1>2. f = [i \in 1 .. 3 |-> f[i]] /\ f[1] \in Texts /\ f[2] \in Metadata /\ f[3] \in Payloads
  BY <1>1
<1>3. Encode(x) = w /\ ~OpensNothing(x) /\ \A b : Decode(x.form, b) = DecodeUnaryRequest(b)
  BY <1>1 DEF Encode, Decode, OpensNothing
<1> HIDE DEF f
<1>4. IsText(f[1]) /\ IsMetadata(f[2]) /\ IsPayload(f[3])
  BY <1>2, FieldTypes
<1>5. w \in Bytes /\ \A n \in 0 .. Len(w) : On(DecodeUnaryRequest(Cut(w, n)), Fst(f, 3), <<>>, Len(w) - n)
  BY <1>4, RequestExact
<1>6. Fst(f, 3) = f
  BY <1>2 DEF Fst
<1> HIDE DEF w
<1>7. ASSUME NEW n \in 0 .. Len(w)
      PROVE  Exact(DecodeUnaryRequest(Cut(w, n)), f, n = Len(w))
  BY <1>5, <1>6, EndExact
<1>8. ASSUME NEW n \in 0 .. Len(w)
      PROVE  Exact(Decode(x.form, Cut(w, n)), f, n = Len(w) /\ ~OpensNothing(x))
  BY <1>3, <1>7 DEF Exact
<1> QED
  BY <1>3, <1>5, <1>8 DEF DecodesExactly, f

\* With responses.
LEMMA ResponsesExactly ==
    ASSUME NEW x \in Responses
    PROVE  DecodesExactly(x)
<1> DEFINE f == x.fields
           w == EncodeUnaryResponse(f)
<1>1. x.form = "response" /\ f \in Flags \X Codes \X Texts \X Metadata \X Payloads
  BY DEF Responses
<1>2. /\ f = [i \in 1 .. 5 |-> f[i]]
      /\ f[1] \in Flags /\ f[2] \in Codes /\ f[3] \in Texts /\ f[4] \in Metadata /\ f[5] \in Payloads
  BY <1>1
<1>3. Encode(x) = w /\ ~OpensNothing(x) /\ \A b : Decode(x.form, b) = DecodeUnaryResponse(b)
  BY <1>1 DEF Encode, Decode, OpensNothing
<1> HIDE DEF f
<1>4. f[1] \in Flags /\ f[2] \in 0 .. 16 /\ IsText(f[3]) /\ IsMetadata(f[4]) /\ IsPayload(f[5])
  BY <1>2, FieldTypes
<1>5. w \in Bytes /\ \A n \in 0 .. Len(w) : On(DecodeUnaryResponse(Cut(w, n)), Fst(f, 5), <<>>, Len(w) - n)
  BY <1>4, ResponseExact
<1>6. Fst(f, 5) = f
  BY <1>2 DEF Fst
<1> HIDE DEF w
<1>7. ASSUME NEW n \in 0 .. Len(w)
      PROVE  Exact(DecodeUnaryResponse(Cut(w, n)), f, n = Len(w))
  BY <1>5, <1>6, EndExact
<1>8. ASSUME NEW n \in 0 .. Len(w)
      PROVE  Exact(Decode(x.form, Cut(w, n)), f, n = Len(w) /\ ~OpensNothing(x))
  BY <1>3, <1>7 DEF Exact
<1> QED
  BY <1>3, <1>5, <1>8 DEF DecodesExactly, f

\* With frames, unless they open a stream without a method.
LEMMA FramesExactly ==
    ASSUME NEW x \in Frames, Sensible(x.fields)
    PROVE  DecodesExactly(x)
<1> DEFINE f == x.fields
           w == FrameBytes(f)
<1>1. PICK id \in Texts, dir \in Flags, num \in {0, MaxSeq}, k \in 0 .. 3,
           m \in {<<>>} \cup {<<t>> : t \in Texts}, md \in Metadata, p \in Payloads,
           ok \in Flags, v \in Codes \cup {0}, s \in Texts \cup {<<>>} :
               x = [form |-> "frame", fields |-> <<id, dir, num, k, m, md, p, ok, v, s>>]
  BY DEF Frames
<1>2. x.form = "frame" /\ f = <<id, dir, num, k, m, md, p, ok, v, s>>
  BY <1>1
<1>3. /\ f = [i \in 1 .. 10 |-> f[i]]
      /\ f[1] = id /\ f[2] = dir /\ f[3] = num /\ f[4] = k /\ f[5] = m /\ f[6] = md /\ f[7] = p
      /\ f[8] = ok /\ f[9] = v /\ f[10] = s
  BY <1>2
<1>4. Encode(x) = EncodeStreamFrame(f) /\ \A b : Decode(x.form, b) = DecodeStreamFrame(b)
  BY <1>2 DEF Encode, Decode
<1>5. OpensNothing(x) <=> f[4] = OpenKind /\ f[5] = <<>>
  BY <1>2 DEF OpensNothing
<1>6. Sensible(f)
  OBVIOUS
<1> HIDE DEF f
<1>7. IsMethod(m)
  <2>1. CASE m = <<>>
    BY <2>1 DEF IsMethod
  <2>2. CASE m \in {<<t>> : t \in Texts}
    BY <2>2, FieldTypes, Zenon DEF IsMethod
  <2> QED
    BY <2>1, <2>2
<1>8. /\ IsText(id) /\ num \in Nat /\ num < Limit /\ IsMetadata(md) /\ IsPayload(p)
      /\ v \in 0 .. 16 /\ IsText(s)
  BY FieldTypes
<1>9. IsFrame(f)
  BY <1>3, <1>6, <1>7, <1>8, Zenon DEF IsFrame
<1>10. Encode(x) = w /\ w \in Bytes
  BY <1>4, <1>9, EncodedFrame, FrameTypes, Zenon
<1>11. Fst(f, 10) = f
  BY <1>3, Zenon DEF Fst
<1>12. ASSUME NEW n \in 0 .. Len(w)
       PROVE  Exact(Decode(x.form, Cut(w, n)), f, n = Len(w) /\ ~OpensNothing(x))
  <2>1. Exact(DecodeStreamFrame(Cut(w, n)), Fst(f, 10), n = Len(w) /\ ~(f[4] = OpenKind /\ f[5] = <<>>))
    BY <1>9, FrameExact
  <2> HIDE DEF w
  <2> QED
    BY <1>4, <1>5, <1>11, <2>1 DEF Exact
<1> HIDE DEF w
<1> QED
  BY <1>10, <1>12 DEF DecodesExactly, f

\* The message is one of those, and some of its bytes arrive.
WireInv == message \in Messages /\ arrived \in 0 .. Len(Encode(message))

\* Of all of them.
LEMMA MessagesExactly ==
    ASSUME NEW x \in Messages
    PROVE  DecodesExactly(x)
BY RequestsExactly, ResponsesExactly, FramesExactly DEF Messages

\* So it is in every state.
LEMMA WireInvariant == MCSpec => []WireInv
<1>1. MCInit => WireInv
  <2>1. SUFFICES ASSUME MCInit PROVE WireInv
    OBVIOUS
  <2>2. message \in Messages /\ arrived = Len(Encode(message))
    BY <2>1 DEF MCInit, WireInit, Messages
  <2>3. Encode(message) \in Bytes
    BY <2>2, MessagesExactly DEF DecodesExactly
  <2>4. Len(Encode(message)) \in Nat
    BY <2>3, BytesType
  <2> QED
    BY <2>2, <2>4 DEF WireInv
<1>2. WireInv /\ [MCNext]_<<vars, stream_vars, alone_vars>> => WireInv'
  <2>1. SUFFICES ASSUME WireInv, [MCNext]_<<vars, stream_vars, alone_vars>>
                 PROVE  WireInv'
    OBVIOUS
  <2>2. \/ message' = message /\ arrived' = arrived
        \/ message' = message /\ arrived > 0 /\ arrived' = arrived - 1
    BY <2>1 DEF MCNext, CallStep, StreamStep, TypedStep, WireStep, Truncate, alone_vars, wire_vars
  <2>3. message' \in Messages /\ Encode(message') = Encode(message)
    BY <2>1, <2>2 DEF WireInv
  <2>4. Encode(message) \in Bytes
    BY <2>1, MessagesExactly DEF WireInv, DecodesExactly
  <2>5. Len(Encode(message)) \in Nat
    BY <2>4, BytesType
  <2>6. arrived' \in 0 .. Len(Encode(message))
    BY <2>1, <2>2, <2>5 DEF WireInv
  <2> QED
    BY <2>3, <2>6 DEF WireInv
<1> QED
  BY <1>1, <1>2, PTL DEF MCSpec

\* Requests, responses and frames are decoded to what was encoded when all of their
\* bytes arrive, and refused when the last ones are missing, however many; a frame
\* that opens a stream without a method is refused (wire.rs).
THEOREM WireIsExact == MCSpec => []WireExact
<1>1. ASSUME WireInv PROVE WireExact
  <2> DEFINE w == Encode(message)
             r == Decode(message.form, Cut(w, arrived))
  <2>1. message \in Messages /\ arrived \in 0 .. Len(w)
    BY <1>1 DEF WireInv
  <2>2. Exact(r, message.fields, arrived = Len(w) /\ ~OpensNothing(message))
    BY <2>1, MessagesExactly DEF DecodesExactly
  <2> QED
    BY <2>2 DEF WireExact, Exact, OpensNothing, Cut
<1> QED
  BY <1>1, WireInvariant, PTL
=============================================================================
