--------------------------- MODULE ModelServingProofs ---------------------------
(***************************************************************************)
(* Proofs about ModelServing, for any number of requests, instances, pools *)
(* and troubles, and any failure threshold.                                *)
(***************************************************************************)
EXTENDS ModelServing, RankingProofs, SequenceTheorems, TLAPS

\* One instance as its breaker, its health and its counter of failures have to
\* agree, and what is left out of account: the requests it has under way.
Sound(m) ==
  /\ m.breaker \in Breaker /\ m.health \in Health
  /\ m.failures \in 0..Threshold
  /\ (m.breaker = "CLOSED") = (m.health # "UNHEALTHY")
  /\ (m.breaker = "CLOSED") = (m.failures < Threshold)

SoundAll(m) == DOMAIN m = Instances /\ \A i \in Instances : Sound(m[i])

SoundInv == SoundAll(instance)

-------------------------------------------------------------------------------
(* What the operations of an instance do to it *)

\* A request that starts, ends or is cancelled changes no other instance, and
\* leaves breaker, health and failures in agreement.
LEMMA OperationsSound ==
  ASSUME NEW m, SoundAll(m), NEW i
  PROVE  /\ SoundAll(Started(m, i)) /\ SoundAll(Cancelled(m, i))
         /\ SoundAll(Failed(m, i))
         /\ \A slow \in BOOLEAN : SoundAll(Succeeded(m, i, slow))
  <1>1. Threshold \in Nat \ {0}
    BY ServingAssumption
  <1>2. SoundAll(Started(m, i))
    BY DEF Started, SoundAll, Sound, Breaker, Health
  <1>3. SoundAll(Cancelled(m, i))
    BY DEF Cancelled, SoundAll, Sound, Breaker, Health
  <1>4. SoundAll(Failed(m, i))
    BY <1>1 DEF Failed, SoundAll, Sound, Breaker, Health
  <1>5. ASSUME NEW slow \in BOOLEAN PROVE SoundAll(Succeeded(m, i, slow))
    BY <1>1 DEF Succeeded, SoundAll, Sound, Breaker, Health
  <1>6. QED BY <1>2, <1>3, <1>4, <1>5

LEMMA DispatchSound ==
  ASSUME NEW r, NEW m, NEW t, NEW seen, NEW n,
         SoundAll(m), Dispatch(r, m, t, seen, n)
  PROVE  SoundAll(instance')
  BY OperationsSound DEF Dispatch

LEMMA SoundStep == SoundInv /\ [Next]_vars => SoundInv'
  <1> USE DEF SoundInv
  <1> SUFFICES ASSUME SoundAll(instance), [Next]_vars PROVE SoundAll(instance')
    OBVIOUS
  <1>1. ASSUME NEW r \in Requests, NEW c \in Contexts, Ask(r, c)
        PROVE  SoundAll(instance')
    BY <1>1, DispatchSound DEF Ask
  <1>2. ASSUME NEW r \in Requests, Answer(r) PROVE SoundAll(instance')
    BY <1>2, OperationsSound DEF Answer
  <1>3. ASSUME NEW r \in Requests, GatewayTimeout(r) PROVE SoundAll(instance')
    BY <1>3, OperationsSound DEF GatewayTimeout
  <1>4. ASSUME NEW r \in Requests, NEW known \in BOOLEAN, CallFails(r, known)
        PROVE  SoundAll(instance')
    <2>1. SoundAll(Failed(instance, place[r]))
      BY OperationsSound
    <2>2. QED BY <1>4, <2>1, DispatchSound DEF CallFails
  <1>5. ASSUME NEW i \in Instances, CoolDown(i) PROVE SoundAll(instance')
    BY <1>5 DEF CoolDown, SoundAll, Sound
  <1>6. CASE UNCHANGED vars
    BY <1>6 DEF vars
  <1>7. QED BY <1>1, <1>2, <1>3, <1>4, <1>5, <1>6 DEF Next

LEMMA SoundStart == Init => SoundInv
  BY ServingAssumption DEF SoundInv, Init, SoundAll, Sound, NewInstance, Breaker, Health

\* Breaker, health and counter of failures of an instance always agree, however
\* the requests overlap: is_available (instances.py:133-138) never hides an
\* instance with a closed breaker nor offers one that has tripped.
THEOREM HealthTellsBreaker == Spec => []BreakerAgreesWithHealth
  <1>1. SoundInv => BreakerAgreesWithHealth
    BY DEF SoundInv, SoundAll, Sound, BreakerAgreesWithHealth
  <1>2. QED BY <1>1, SoundStart, SoundStep, PTL DEF Spec

-------------------------------------------------------------------------------
(* The counters the load balancer compares *)

InFlight(p, i) == { r \in Requests : p[r] = i }

\* The counters of m are those of the requests at their places p.
Counts(m, p) ==
  /\ DOMAIN m = Instances /\ DOMAIN p = Requests
  /\ \A i \in Instances : m[i].active = Cardinality(InFlight(p, i))

CountInv == Counts(instance, place)

\* m2 is m with one request more, or one less, at i.
Raised(m, m2, i) ==
  /\ DOMAIN m2 = DOMAIN m
  /\ \A j \in DOMAIN m : m2[j].active = IF j = i THEN m[j].active + 1 ELSE m[j].active

Lowered(m, m2, i) ==
  /\ DOMAIN m2 = DOMAIN m
  /\ \A j \in DOMAIN m : m2[j].active = IF j = i THEN m[j].active - 1 ELSE m[j].active

LEMMA OperationsCount ==
  ASSUME NEW m, DOMAIN m = Instances, NEW i
  PROVE  /\ Raised(m, Started(m, i), i)
         /\ Lowered(m, Cancelled(m, i), i)
         /\ Lowered(m, Failed(m, i), i)
         /\ \A slow \in BOOLEAN : Lowered(m, Succeeded(m, i, slow), i)
  <1>1. Raised(m, Started(m, i), i)
    BY DEF Raised, Started
  <1>2. Lowered(m, Cancelled(m, i), i)
    BY SMT DEF Lowered, Cancelled
  <1>3. Lowered(m, Failed(m, i), i)
    BY SMT DEF Lowered, Failed
  <1>4. ASSUME NEW slow \in BOOLEAN PROVE Lowered(m, Succeeded(m, i, slow), i)
    BY SMT DEF Lowered, Succeeded
  <1>5. QED BY <1>1, <1>2, <1>3, <1>4

LEMMA InFlightFinite ==
  ASSUME NEW p, NEW i
  PROVE  IsFiniteSet(InFlight(p, i)) /\ Cardinality(InFlight(p, i)) \in Nat
  BY ServingAssumption, FS_Subset, FS_CardinalityType DEF InFlight

\* A request that leaves an instance, however it does, leaves its counter.
LEMMA Leaves ==
  ASSUME NEW m, NEW p, NEW m2, NEW r \in Requests,
         Counts(m, p), Lowered(m, m2, p[r])
  PROVE  Counts(m2, [p EXCEPT ![r] = None])
  <1> DEFINE q == [p EXCEPT ![r] = None]
  <1>1. DOMAIN m2 = Instances /\ DOMAIN q = Requests
    BY DEF Counts, Lowered
  <1>2. ASSUME NEW i \in Instances PROVE m2[i].active = Cardinality(InFlight(q, i))
    <2>1. InFlight(q, i) = InFlight(p, i) \ {r}
      BY ServingAssumption DEF InFlight, Counts
    <2>2. r \in InFlight(p, i) <=> i = p[r]
      BY DEF InFlight
    <2>3. Cardinality(InFlight(q, i)) =
            IF r \in InFlight(p, i) THEN Cardinality(InFlight(p, i)) - 1
                                    ELSE Cardinality(InFlight(p, i))
      BY <2>1, InFlightFinite, FS_RemoveElement
    <2>4. m[i].active = Cardinality(InFlight(p, i))
      BY DEF Counts
    <2>5. m2[i].active = IF i = p[r] THEN m[i].active - 1 ELSE m[i].active
      BY DEF Counts, Lowered
    <2> HIDE DEF q
    <2>6. QED BY <2>2, <2>3, <2>4, <2>5, InFlightFinite
  <1>3. QED BY <1>1, <1>2 DEF Counts

\* A request that comes to an instance, or to another place, is counted there.
LEMMA Enters ==
  ASSUME NEW m, NEW p, NEW m2, NEW r \in Requests, NEW place2,
         Counts(m, p), p[r] \notin Instances, Raised(m, m2, place2)
  PROVE  Counts(m2, [p EXCEPT ![r] = place2])
  <1> DEFINE q == [p EXCEPT ![r] = place2]
  <1>1. DOMAIN m2 = Instances /\ DOMAIN q = Requests
    BY DEF Counts, Raised
  <1>2. ASSUME NEW i \in Instances PROVE m2[i].active = Cardinality(InFlight(q, i))
    <2>1. InFlight(q, i) = IF i = place2 THEN InFlight(p, i) \cup {r} ELSE InFlight(p, i)
      BY DEF InFlight, Counts
    <2>2. r \notin InFlight(p, i)
      BY DEF InFlight
    <2>3. Cardinality(InFlight(q, i)) =
            IF i = place2 THEN Cardinality(InFlight(p, i)) + 1 ELSE Cardinality(InFlight(p, i))
      BY <2>1, <2>2, InFlightFinite, FS_AddElement
    <2>4. m[i].active = Cardinality(InFlight(p, i))
      BY DEF Counts
    <2>5. m2[i].active = IF i = place2 THEN m[i].active + 1 ELSE m[i].active
      BY DEF Counts, Raised
    <2> HIDE DEF q
    <2>6. QED BY <2>3, <2>4, <2>5
  <1>3. QED BY <1>1, <1>2 DEF Counts

\* A request may also move between places that are no instances.
LEMMA Elsewhere ==
  ASSUME NEW m, NEW p, NEW r \in Requests, NEW place2,
         Counts(m, p), p[r] \notin Instances, place2 \notin Instances
  PROVE  Counts(m, [p EXCEPT ![r] = place2])
  <1> DEFINE q == [p EXCEPT ![r] = place2]
  <1>1. \A i \in Instances : InFlight(q, i) = InFlight(p, i)
    BY DEF InFlight, Counts
  <1>2. QED BY <1>1 DEF Counts

\* From a state in which r is at no instance, the loop of dispatch ends in one
\* that counts again.
LEMMA DispatchCounts ==
  ASSUME NEW r \in Requests, NEW m, NEW t, NEW seen, NEW n, CountInv,
         Counts(m, [place EXCEPT ![r] = None]), Dispatch(r, m, t, seen, n)
  PROVE  CountInv'
  <1> DEFINE p == [place EXCEPT ![r] = None]
  <1>0. DOMAIN place = Requests
    BY DEF CountInv, Counts
  <1> DEFINE i == Failover(m, t, seen)
  <1>1. CASE n = MaxTries \/ i = None
    BY <1>1 DEF Dispatch, Done, CountInv
  <1>2. CASE ~(n = MaxTries \/ i = None)
    <2>1. instance' = Started(m, i) /\ place' = [place EXCEPT ![r] = i]
      BY <1>2 DEF Dispatch
    <2> HIDE DEF i
    <2>2. place' = [p EXCEPT ![r] = i] /\ p[r] = None
      BY <1>0, <2>1
    <2>3. Raised(m, Started(m, i), i)
      BY OperationsCount DEF Counts
    <2> HIDE DEF p
    <2>4. Counts(m, p)
      BY DEF p
    <2>5. p[r] \notin Instances
      BY <2>2, ServingAssumption
    <2>6. Counts(Started(m, i), [p EXCEPT ![r] = i])
      BY <2>3, <2>4, <2>5, Enters
    <2>7. QED BY <2>1, <2>2, <2>6 DEF CountInv
  <1>3. QED BY <1>1, <1>2

LEMMA CountStep == CountInv /\ [Next]_vars => CountInv'
  <1> SUFFICES ASSUME CountInv, [Next]_vars PROVE CountInv'
    OBVIOUS
  <1>0. Counts(instance, place) /\ DOMAIN instance = Instances /\ DOMAIN place = Requests
    BY DEF CountInv, Counts
  <1>a. None \notin Instances /\ None \notin Direct /\ Direct \cap Instances = {}
    BY ServingAssumption
  <1>1. ASSUME NEW r \in Requests, NEW c \in Contexts, Ask(r, c) PROVE CountInv'
    <2>1. place[r] \notin Instances
      BY <1>1, <1>a DEF Ask
    <2>2. CASE setup = "DIRECT"
      <3>1. instance' = instance /\ place' = [place EXCEPT ![r] = "primary"]
        BY <1>1, <2>2 DEF Ask
      <3>2. "primary" \notin Instances
        BY <1>a DEF Direct
      <3>3. QED BY <1>0, <2>1, <3>1, <3>2, Elsewhere DEF CountInv
    <2>3. CASE setup # "DIRECT"
      <3>1. Counts(instance, [place EXCEPT ![r] = None])
        BY <1>0, <1>a, <2>1, Elsewhere
      <3>2. QED BY <1>1, <2>3, <3>1, DispatchCounts DEF Ask
    <2>4. QED BY <2>2, <2>3
  <1>2. ASSUME NEW r \in Requests, Answer(r) PROVE CountInv'
    <2>1. place' = [place EXCEPT ![r] = None]
      BY <1>2 DEF Answer, Done
    <2>2. CASE place[r] \in Direct
      <3>1. instance' = instance /\ place[r] \notin Instances
        BY <1>2, <1>a, <2>2 DEF Answer
      <3>2. QED BY <1>0, <1>a, <2>1, <3>1, Elsewhere DEF CountInv
    <2>3. CASE place[r] \notin Direct
      <3>1. Lowered(instance, instance', place[r])
        BY <1>0, <1>2, <2>3, OperationsCount DEF Answer
      <3>2. QED BY <1>0, <2>1, <3>1, Leaves DEF CountInv
    <2>4. QED BY <2>2, <2>3
  <1>3. ASSUME NEW r \in Requests, GatewayTimeout(r) PROVE CountInv'
    <2>1. place' = [place EXCEPT ![r] = None]
      BY <1>3 DEF GatewayTimeout, Done
    <2>2. CASE place[r] \in Direct
      <3>1. instance' = instance /\ place[r] \notin Instances
        BY <1>3, <1>a, <2>2 DEF GatewayTimeout
      <3>2. QED BY <1>0, <1>a, <2>1, <3>1, Elsewhere DEF CountInv
    <2>3. CASE place[r] \notin Direct
      <3>1. Lowered(instance, instance', place[r])
        BY <1>0, <1>3, <2>3, OperationsCount DEF GatewayTimeout
      <3>2. QED BY <1>0, <2>1, <3>1, Leaves DEF CountInv
    <2>4. QED BY <2>2, <2>3
  <1>4. ASSUME NEW r \in Requests, NEW known \in BOOLEAN, CallFails(r, known)
        PROVE  CountInv'
    <2>1. CASE Dispatch(r, Failed(instance, place[r]), tier[r], tried[r], tries[r])
      <3>1. Lowered(instance, Failed(instance, place[r]), place[r])
        BY <1>0, OperationsCount
      <3>2. Counts(Failed(instance, place[r]), [place EXCEPT ![r] = None])
        BY <1>0, <3>1, Leaves
      <3>3. QED BY <2>1, <3>2, DispatchCounts
    <2>2. CASE /\ place[r] \in Direct /\ instance' = instance
               /\ \/ place' = [place EXCEPT ![r] = "fallback"]
                  \/ place' = [place EXCEPT ![r] = None]
      <3>1. place[r] \notin Instances /\ "fallback" \notin Instances
        BY <1>a, <2>2 DEF Direct
      <3>2. QED BY <1>0, <1>a, <2>2, <3>1, Elsewhere DEF CountInv
    <2>3. QED BY <1>4, <2>1, <2>2 DEF CallFails, Done, Direct
  <1>5. ASSUME NEW i \in Instances, CoolDown(i) PROVE CountInv'
    BY <1>5 DEF CoolDown, CountInv, Counts, request
  <1>6. CASE UNCHANGED vars
    BY <1>6 DEF vars, CountInv, request
  <1>7. QED BY <1>1, <1>2, <1>3, <1>4, <1>5, <1>6 DEF Next

LEMMA CountStart == Init => CountInv
  <1> SUFFICES ASSUME Init PROVE CountInv
    OBVIOUS
  <1>1. \A i \in Instances : InFlight(place, i) = {}
    BY ServingAssumption DEF Init, InFlight
  <1>2. \A i \in Instances : instance[i].active = 0
    BY DEF Init, NewInstance
  <1>3. QED BY <1>1, <1>2, FS_EmptySet DEF Init, CountInv, Counts

\* The counter by which the load balancer spreads is the number of requests that
\* wait for the instance, however they end: answered, failed or cancelled by the
\* gateway (instances.py:179-180, 234-235).
THEOREM CountersTrue == Spec => []ActiveCounts
  <1>1. CountInv => ActiveCounts
    BY DEF CountInv, Counts, InFlight, ActiveCounts
  <1>2. QED BY <1>1, CountStart, CountStep, PTL DEF Spec

-------------------------------------------------------------------------------
(* Whom the load balancer selects *)

LEMMA PoolTypes ==
  ASSUME NEW t \in Tier
  PROVE  /\ DOMAIN Pools[t] \in SUBSET (Nat \ {0}) /\ IsFiniteSet(DOMAIN Pools[t])
         /\ \A p \in DOMAIN Pools[t] : Pools[t][p] \in Instances
  <1>1. Pools[t] \in Seq(Instances)
    BY ServingAssumption
  <1>2. DOMAIN Pools[t] = 1..Len(Pools[t]) /\ Len(Pools[t]) \in Nat
    BY <1>1
  <1>3. IsFiniteSet(1..Len(Pools[t]))
    <2>1. 1 \in Int /\ Len(Pools[t]) \in Int
      BY <1>2
    <2>2. QED BY <2>1, FS_Interval
  <1>4. QED BY <1>1, <1>2, <1>3

\* Each place among some positions of a pool is the one of an instance there.
LEMMA PlaceTaken ==
  ASSUME NEW t \in Tier, NEW P \in SUBSET DOMAIN Pools[t], P # {},
         NEW k \in 0..(Cardinality(P) - 1)
  PROVE  \E p \in P : InstanceAt(t, P, k) = Pools[t][p]
  <1>1. IsFiniteSet(P) /\ P \in SUBSET Nat
    BY PoolTypes, FS_Subset
  <1> DEFINE R == { e \in P \X P : e[1] < e[2] }
  <1>2. \A x, y \in P : <<x, y>> \in R <=> x < y
    OBVIOUS
  <1> HIDE DEF R
  <1>3. TotalOn(R, P)
    BY <1>1, <1>2 DEF TotalOn
  <1>4. \A x \in P : Rank(R, P, x) = Cardinality({ y \in P : y < x })
    <2> TAKE x \in P
    <2>1. { y \in P : y < x } = Earlier(R, P, x)
      BY <1>2 DEF Earlier
    <2>2. QED BY <2>1 DEF Rank
  <1>5. \E x \in P : Cardinality({ y \in P : y < x }) = k
    BY <1>1, <1>3, <1>4, RankTaken
  <1>6. Nth(P, <, k) \in P
    BY <1>5 DEF Nth
  <1>7. InstanceAt(t, P, k) = Pools[t][Nth(P, <, k)]
    BY DEF InstanceAt
  <1>8. QED BY <1>6, <1>7

LEMMA FirstTaken ==
  ASSUME NEW t \in Tier, NEW P \in SUBSET DOMAIN Pools[t], InstanceAt(t, P, 0) # None
  PROVE  \E p \in P : InstanceAt(t, P, 0) = Pools[t][p]
  <1>1. P # {}
    BY DEF InstanceAt
  <1>2. IsFiniteSet(P)
    BY PoolTypes, FS_Subset
  <1>3. Cardinality(P) \in Nat /\ Cardinality(P) # 0
    BY <1>1, <1>2, FS_CardinalityType, FS_EmptySet
  <1>4. 0 \in 0..(Cardinality(P) - 1)
    BY <1>3
  <1>5. QED BY <1>1, <1>4, PlaceTaken

\* An instance of the pool that may be called, or, when there is none, the one that
\* admits a probe.
Callable(m, t, i) ==
  /\ \E p \in DOMAIN Pools[t] : i = Pools[t][p]
  /\ \/ IsAvailable(m, i)
     \/ AvailableIn(m, t) = {} /\ CanExecute(m, i)

LEMMA Selects ==
  ASSUME NEW m, NEW t \in Tier, turn \in [Tier -> Nat], SelectInstance(m, t) # None
  PROVE  Callable(m, t, SelectInstance(m, t))
  <1> DEFINE available == AvailableIn(m, t)
             probes == { p \in DOMAIN Pools[t] : CanExecute(m, Pools[t][p]) }
             idlest == { p \in available :
                           \A q \in available : m[Pools[t][p]].active <= m[Pools[t][q]].active }
  <1>1. /\ available \in SUBSET DOMAIN Pools[t] /\ idlest \in SUBSET available
        /\ \A p \in available : IsAvailable(m, Pools[t][p])
    BY DEF AvailableIn
  <1>a. /\ probes \in SUBSET DOMAIN Pools[t]
        /\ \A p \in probes : CanExecute(m, Pools[t][p])
    OBVIOUS
  <1>2. SelectInstance(m, t) =
          IF available = {} THEN InstanceAt(t, probes, 0)
          ELSE IF setup = "ROUND_ROBIN"
               THEN InstanceAt(t, available, turn[t] % Cardinality(available))
          ELSE InstanceAt(t, idlest, 0)
    BY DEF SelectInstance, Probe
  <1> HIDE DEF probes, idlest
  <1>3. CASE available = {}
    <2>1. PICK p \in probes : SelectInstance(m, t) = Pools[t][p]
      BY <1>a, <1>2, <1>3, FirstTaken
    <2>2. p \in DOMAIN Pools[t] /\ CanExecute(m, Pools[t][p])
      BY <1>a
    <2>3. QED BY <1>3, <2>1, <2>2 DEF Callable
  <1>4. CASE available # {} /\ setup = "ROUND_ROBIN"
    <2>1. IsFiniteSet(available)
      BY <1>1, PoolTypes, FS_Subset
    <2>2. Cardinality(available) \in Nat \ {0} /\ turn[t] \in Nat
      BY <1>4, <2>1, FS_CardinalityType, FS_EmptySet
    <2>3. turn[t] % Cardinality(available) \in 0..(Cardinality(available) - 1)
      BY <2>2
    <2> HIDE DEF available
    <2>4. \E p \in available : SelectInstance(m, t) = Pools[t][p]
      BY <1>1, <1>2, <1>4, <2>3, PlaceTaken
    <2>5. QED BY <1>1, <2>4 DEF Callable
  <1>5. CASE available # {} /\ setup # "ROUND_ROBIN"
    <2> HIDE DEF available
    <2>1. \E p \in idlest : SelectInstance(m, t) = Pools[t][p]
      BY <1>1, <1>2, <1>5, FirstTaken
    <2>2. QED BY <1>1, <2>1 DEF Callable
  <1>6. QED BY <1>3, <1>4, <1>5

LEMMA FailoverSelects ==
  ASSUME NEW m, NEW t \in Tier, turn \in [Tier -> Nat], NEW seen, Failover(m, t, seen) # None
  PROVE  Callable(m, t, Failover(m, t, seen)) /\ Failover(m, t, seen) \in Instances
  <1> DEFINE selected == SelectInstance(m, t)
             untried == { p \in AvailableIn(m, t) : Pools[t][p] \notin seen }
  <1>1. Failover(m, t, seen) =
          IF selected \in seen /\ untried # {} THEN InstanceAt(t, untried, 0) ELSE selected
    BY DEF Failover
  <1>2. untried \in SUBSET DOMAIN Pools[t] /\ \A p \in untried : IsAvailable(m, Pools[t][p])
    BY DEF AvailableIn
  <1>3. Callable(m, t, Failover(m, t, seen))
    <2> HIDE DEF untried, selected
    <2>1. CASE selected \in seen /\ untried # {}
      <3>1. \E p \in untried : Failover(m, t, seen) = Pools[t][p]
        BY <1>1, <1>2, <2>1, FirstTaken
      <3>2. QED BY <1>2, <3>1 DEF Callable
    <2>2. CASE ~(selected \in seen /\ untried # {})
      BY <1>1, <2>2, Selects DEF selected
    <2>3. QED BY <2>1, <2>2
  <1>4. QED BY <1>3, PoolTypes DEF Callable

-------------------------------------------------------------------------------
(* Types *)

\* The instances, but for the sign of their counters, which CountInv gives.
Record == [breaker : Breaker, failures : 0..Threshold, cooling : BOOLEAN, health : Health,
           active : Int]
Formed(m) == m \in [Instances -> Record]

LEMMA RecordUpdate ==
  ASSUME NEW x \in Record
  PROVE  /\ \A b \in Breaker : [x EXCEPT !.breaker = b] \in Record
         /\ \A n \in 0..Threshold : [x EXCEPT !.failures = n] \in Record
         /\ \A h \in Health : [x EXCEPT !.health = h] \in Record
         /\ \A n \in Int : [x EXCEPT !.active = n] \in Record
         /\ \A b : [x EXCEPT !.breaker = b].active = x.active
  BY DEF Record

LEMMA OperationsFormed ==
  ASSUME NEW m, Formed(m), NEW i
  PROVE  /\ Formed(Started(m, i)) /\ Formed(Cancelled(m, i)) /\ Formed(Failed(m, i))
         /\ \A slow \in BOOLEAN : Formed(Succeeded(m, i, slow))
  <1>1. Threshold \in Nat \ {0}
    BY ServingAssumption
  <1>2. ASSUME NEW m2, DOMAIN m2 = Instances, m2 = [j \in Instances |-> m2[j]],
               \A j \in Instances : j # i => m2[j] = m[j],
               i \in Instances => m2[i] \in Record
        PROVE  Formed(m2)
    BY <1>2 DEF Formed
  <1>3. ASSUME i \in Instances PROVE m[i] \in Record
    BY <1>3 DEF Formed
  <1>4. Formed(Started(m, i))
    <2>1. ASSUME i \in Instances PROVE Started(m, i)[i] \in Record
      <3>1. Started(m, i)[i] = [m[i] EXCEPT !.breaker = IF @ = "OPEN" THEN "HALF_OPEN" ELSE @,
                                            !.active = @ + 1]
        BY <1>3, <2>1 DEF Started, Formed, Record
      <3> DEFINE b == IF m[i].breaker = "OPEN" THEN "HALF_OPEN" ELSE m[i].breaker
                 x == [m[i] EXCEPT !.breaker = b]
      <3>2. b \in Breaker /\ m[i].active \in Int
        BY <1>3, <2>1 DEF Record, Breaker
      <3>3. x \in Record /\ x.active = m[i].active
        BY <1>3, <2>1, <3>2, RecordUpdate
      <3>4. Started(m, i)[i] = [x EXCEPT !.active = m[i].active + 1]
        BY <1>3, <2>1, <3>1 DEF Record
      <3> HIDE DEF x
      <3>5. QED BY <3>2, <3>3, <3>4, RecordUpdate
    <2>2. QED BY <1>2, <2>1 DEF Started, Formed
  <1>5. Formed(Cancelled(m, i))
    <2>1. ASSUME i \in Instances PROVE Cancelled(m, i)[i] \in Record
      <3>1. Cancelled(m, i)[i] = [m[i] EXCEPT !.active = @ - 1]
        BY <1>3, <2>1 DEF Cancelled, Formed, Record
      <3>2. QED BY <1>3, <2>1, <3>1 DEF Record
    <2>2. QED BY <1>2, <2>1 DEF Cancelled, Formed
  <1>6. Formed(Failed(m, i))
    <2>1. ASSUME i \in Instances PROVE Failed(m, i)[i] \in Record
      BY <1>1, <1>3, <2>1 DEF Failed, Formed, Record, Breaker, Health
    <2>2. QED BY <1>2, <2>1 DEF Failed, Formed
  <1>7. ASSUME NEW slow \in BOOLEAN PROVE Formed(Succeeded(m, i, slow))
    <2>1. ASSUME i \in Instances PROVE Succeeded(m, i, slow)[i] \in Record
      <3>1. Succeeded(m, i, slow)[i] =
              [m[i] EXCEPT !.breaker = "CLOSED", !.failures = 0,
                           !.health = IF slow THEN "DEGRADED" ELSE "HEALTHY",
                           !.active = @ - 1]
        BY <1>3, <2>1 DEF Succeeded, Formed, Record
      <3> DEFINE h == IF slow THEN "DEGRADED" ELSE "HEALTHY"
                 x == [m[i] EXCEPT !.breaker = "CLOSED"]
                 y == [x EXCEPT !.failures = 0]
                 z == [y EXCEPT !.health = h]
      <3>2. "CLOSED" \in Breaker /\ 0 \in 0..Threshold /\ h \in Health /\ m[i].active - 1 \in Int
        BY <1>1, <1>3, <2>1 DEF Record, Breaker, Health
      <3>3. x \in Record
        BY <1>3, <2>1, <3>2, RecordUpdate
      <3>4. y \in Record
        BY <3>2, <3>3, RecordUpdate
      <3>5. z \in Record
        BY <3>2, <3>4, RecordUpdate
      <3>6. Succeeded(m, i, slow)[i] = [z EXCEPT !.active = m[i].active - 1]
        BY <1>3, <2>1, <3>1 DEF Record
      <3> HIDE DEF z
      <3>7. QED BY <3>2, <3>5, <3>6, RecordUpdate
    <2>2. QED BY <1>2, <2>1 DEF Succeeded, Formed
  <1>8. QED BY <1>4, <1>5, <1>6, <1>7

\* What TypeOK says of the requests and of the turns.
RequestsTyped ==
  /\ turn \in [Tier -> Nat]
  /\ place \in [Requests -> Instances \cup Direct \cup {None}]
  /\ tier \in [Requests -> Tier]
  /\ tried \in [Requests -> SUBSET Instances]
  /\ tries \in [Requests -> 0..MaxTries]
  /\ reply \in [Requests -> Reply]

LEMMA DispatchTyped ==
  ASSUME RequestsTyped, tier' \in [Requests -> Tier],
         NEW r \in Requests, NEW m, Formed(m), NEW t \in Tier,
         NEW seen \in SUBSET Instances, NEW n \in 0..MaxTries, Dispatch(r, m, t, seen, n)
  PROVE  RequestsTyped' /\ Formed(instance')
  <1>1. PICK i \in { Failover(m, t, seen) } :
          IF n = MaxTries \/ i = None
          THEN Done(r, "PROVIDER_OUTAGE") /\ instance' = m /\ UNCHANGED turn
          ELSE /\ instance' = Started(m, i)
               /\ place' = [place EXCEPT ![r] = i]
               /\ tried' = [tried EXCEPT ![r] = seen \cup {i}]
               /\ tries' = [tries EXCEPT ![r] = n + 1]
               /\ reply' = [reply EXCEPT ![r] = "NONE"]
               /\ NextTurn(m, t)
    BY DEF Dispatch
  <1>2. CASE n = MaxTries \/ i = None
    BY <1>1, <1>2 DEF Done, RequestsTyped, MaxTries, Reply
  <1>3. CASE ~(n = MaxTries \/ i = None)
    <2>1. i \in Instances
      BY <1>3, FailoverSelects DEF RequestsTyped
    <2>2. turn' \in [Tier -> Nat]
      <3> DEFINE k == Cardinality(AvailableIn(m, t))
      <3>1. AvailableIn(m, t) \in SUBSET DOMAIN Pools[t]
        BY DEF AvailableIn
      <3>2. k \in Nat
        BY <3>1, PoolTypes, FS_Subset, FS_CardinalityType
      <3>3. turn' = IF setup = "ROUND_ROBIN" /\ k > 0
                    THEN [turn EXCEPT ![t] = (@ + 1) % k] ELSE turn
        BY <1>1, <1>3 DEF NextTurn
      <3> HIDE DEF k
      <3>4. k > 0 => (turn[t] + 1) % k \in Nat
        BY <3>2 DEF RequestsTyped
      <3>5. QED BY <3>3, <3>4 DEF RequestsTyped
    <2>3. n + 1 \in 0..MaxTries
      BY <1>3 DEF MaxTries
    <2>4. Formed(instance')
      BY <1>1, <1>3, OperationsFormed
    <2>5. QED BY <1>1, <1>3, <2>1, <2>2, <2>3, <2>4 DEF RequestsTyped, Reply
  <1>4. QED BY <1>2, <1>3

TypeInv == /\ setup \in Setup /\ troubles \in 0..MaxTroubles
           /\ Formed(instance) /\ RequestsTyped

LEMMA TypeStep == TypeInv /\ [Next]_vars => TypeInv'
  <1> SUFFICES ASSUME TypeInv, [Next]_vars PROVE TypeInv'
    OBVIOUS
  <1>0. /\ Formed(instance) /\ RequestsTyped /\ setup \in Setup /\ troubles \in 0..MaxTroubles
        /\ MaxTroubles \in Nat
    BY ServingAssumption DEF TypeInv
  <1>1. ASSUME NEW r \in Requests, NEW c \in Contexts, Ask(r, c) PROVE TypeInv'
    <2>1. AssessComplexity(c) \in Tier
      BY DEF AssessComplexity, Tier
    <2>2. UNCHANGED <<setup, troubles>> /\ tier' \in [Requests -> Tier]
      BY <1>0, <1>1, <2>1 DEF Ask, RequestsTyped
    <2>3. CASE setup = "DIRECT"
      <3>1. RequestsTyped' /\ instance' = instance
        BY <1>0, <1>1, <2>2, <2>3 DEF Ask, RequestsTyped, Direct, Reply
      <3>2. QED BY <1>0, <2>2, <3>1 DEF TypeInv
    <2>4. CASE setup # "DIRECT"
      <3>1. 0 \in 0..MaxTries /\ {} \in SUBSET Instances
        BY DEF MaxTries
      <3>2. RequestsTyped' /\ Formed(instance')
        BY <1>0, <1>1, <2>1, <2>2, <2>4, <3>1, DispatchTyped DEF Ask
      <3>3. QED BY <1>0, <2>2, <3>2 DEF TypeInv
    <2>5. QED BY <2>3, <2>4
  <1>2. ASSUME NEW r \in Requests, Answer(r) PROVE TypeInv'
    <2>1. RequestsTyped' /\ UNCHANGED <<setup, troubles>>
      BY <1>0, <1>2 DEF Answer, Done, RequestsTyped, MaxTries, Reply
    <2>2. Formed(instance')
      BY <1>0, <1>2, OperationsFormed DEF Answer
    <2>3. QED BY <1>0, <2>1, <2>2 DEF TypeInv
  <1>3. ASSUME NEW r \in Requests, GatewayTimeout(r) PROVE TypeInv'
    <2>1. RequestsTyped' /\ setup' = setup /\ troubles' \in 0..MaxTroubles
      BY <1>0, <1>3 DEF GatewayTimeout, Done, RequestsTyped, MaxTries, Reply
    <2>2. Formed(instance')
      BY <1>0, <1>3, OperationsFormed DEF GatewayTimeout
    <2>3. QED BY <1>0, <2>1, <2>2 DEF TypeInv
  <1>4. ASSUME NEW r \in Requests, NEW known \in BOOLEAN, CallFails(r, known) PROVE TypeInv'
    <2>1. /\ UNCHANGED <<setup, tier>> /\ troubles' \in 0..MaxTroubles
          /\ tier[r] \in Tier /\ tried[r] \in SUBSET Instances /\ tries[r] \in 0..MaxTries
          /\ tier' \in [Requests -> Tier]
      BY <1>0, <1>4 DEF CallFails, RequestsTyped
    <2>2. CASE Dispatch(r, Failed(instance, place[r]), tier[r], tried[r], tries[r])
      <3>1. Formed(Failed(instance, place[r]))
        BY <1>0, OperationsFormed
      <3>2. RequestsTyped' /\ Formed(instance')
        BY <1>0, <2>1, <2>2, <3>1, DispatchTyped
      <3>3. QED BY <1>0, <2>1, <3>2 DEF TypeInv
    <2>3. CASE ~Dispatch(r, Failed(instance, place[r]), tier[r], tried[r], tries[r])
      <3>1. RequestsTyped' /\ instance' = instance
        BY <1>0, <1>4, <2>1, <2>3 DEF CallFails, Done, RequestsTyped, MaxTries, Reply, Direct
      <3>2. QED BY <1>0, <2>1, <3>1 DEF TypeInv
    <2>4. QED BY <2>2, <2>3
  <1>5. ASSUME NEW i \in Instances, CoolDown(i) PROVE TypeInv'
    <2>1. Formed(instance')
      BY <1>0, <1>5 DEF CoolDown, Formed, Record
    <2>2. RequestsTyped' /\ UNCHANGED <<setup, troubles>>
      BY <1>0, <1>5 DEF CoolDown, RequestsTyped, request
    <2>3. QED BY <1>0, <2>1, <2>2 DEF TypeInv
  <1>6. CASE UNCHANGED vars
    BY <1>0, <1>6 DEF vars, request, TypeInv, RequestsTyped, Formed
  <1>7. QED BY <1>1, <1>2, <1>3, <1>4, <1>5, <1>6 DEF Next

ServingInv == TypeInv /\ SoundInv /\ CountInv

LEMMA ServingInvariant == Spec => []ServingInv
  <1>1. Init => ServingInv
    <2> SUFFICES ASSUME Init PROVE ServingInv
      OBVIOUS
    <2>1. Formed(instance)
      BY ServingAssumption DEF Init, NewInstance, Formed, Record, Breaker, Health
    <2>2. RequestsTyped
      BY DEF Init, RequestsTyped, Tier, MaxTries, Reply
    <2>3. TypeInv
      BY <2>1, <2>2, ServingAssumption DEF Init, TypeInv
    <2>4. SoundInv
      BY SoundStart
    <2>5. CountInv
      BY CountStart
    <2>6. QED BY <2>3, <2>4, <2>5 DEF ServingInv
  <1>2. ServingInv /\ [Next]_vars => ServingInv'
    BY TypeStep, SoundStep, CountStep DEF ServingInv
  <1>3. QED BY <1>1, <1>2, PTL DEF Spec

\* Every counter, index and place is one of its kind; the counter of active
\* requests is never negative, however the requests end.
THEOREM ServingTypes == Spec => []TypeOK
  <1>1. ServingInv => TypeOK
    <2> SUFFICES ASSUME ServingInv PROVE TypeOK
      OBVIOUS
    <2>1. Formed(instance) /\ \A i \in Instances : instance[i].active \in Nat
      BY InFlightFinite DEF ServingInv, CountInv, Counts, TypeInv
    <2>2. instance \in [Instances -> Instance]
      <3>1. instance \in [Instances -> [breaker : Breaker, failures : 0..Threshold,
                                        cooling : BOOLEAN, health : Health, active : Int]]
        BY <2>1 DEF Formed, Record
      <3>2. ASSUME NEW i \in Instances PROVE instance[i] \in Instance
        BY <2>1, <3>1 DEF Instance
      <3>3. QED BY <3>1, <3>2
    <2>3. QED BY <2>2 DEF ServingInv, TypeInv, RequestsTyped, TypeOK
  <1>2. QED BY <1>1, ServingInvariant, PTL

-------------------------------------------------------------------------------
(* Calls and breakers *)

\* What NoCallWhileCooling says of a step.
CalledClosed ==
  \A r \in Requests :
    place'[r] \in Instances /\ tries'[r] > tries[r] => instance'[place'[r]].breaker # "OPEN"

ProbedLast ==
  \A i \in Instances :
    instance[i].breaker = "OPEN" /\ instance'[i].breaker = "HALF_OPEN" =>
      /\ ~instance[i].cooling
      /\ \A t \in Tier : i \in ToSet(Pools[t]) =>
           \A j \in ToSet(Pools[t]) : ~IsAvailable(instance', j)

\* An instance is in the pool of one tier.
LEMMA OneTier ==
  ASSUME NEW t \in Tier, NEW u \in Tier, NEW i, i \in ToSet(Pools[t]), i \in ToSet(Pools[u])
  PROVE  t = u
  BY ServingAssumption

\* A call starts at an instance that is not open; it turns a breaker half open only
\* when nobody else in its pool is available, and then waits for nobody who is cooling.
LEMMA DispatchProbes ==
  ASSUME turn \in [Tier -> Nat], NEW r \in Requests, NEW m, SoundAll(m), Formed(m),
         NEW t \in Tier, NEW seen, NEW n, DOMAIN place = Requests, DOMAIN tries = Requests,
         tries \in [Requests -> Nat], Dispatch(r, m, t, seen, n)
  PROVE  /\ CalledClosed
         /\ \A i \in Instances : m[i].breaker = "OPEN" /\ instance'[i].breaker = "HALF_OPEN" =>
              /\ ~m[i].cooling
              /\ i \in ToSet(Pools[t])
              /\ \A j \in ToSet(Pools[t]) : ~IsAvailable(instance', j)
  <1>1. PICK i \in { Failover(m, t, seen) } :
          IF n = MaxTries \/ i = None
          THEN Done(r, "PROVIDER_OUTAGE") /\ instance' = m
          ELSE /\ instance' = Started(m, i)
               /\ place' = [place EXCEPT ![r] = i]
               /\ tries' = [tries EXCEPT ![r] = n + 1]
    BY DEF Dispatch
  <1>2. CASE n = MaxTries \/ i = None
    <2>1. place'[r] = None /\ instance' = m /\ \A q \in Requests : q # r => tries'[q] = tries[q]
      BY <1>1, <1>2 DEF Done
    <2>2. CalledClosed
      <3> SUFFICES ASSUME NEW q \in Requests, place'[q] \in Instances, tries'[q] > tries[q]
                   PROVE  FALSE
        BY DEF CalledClosed
      <3>1. q # r
        BY <2>1, ServingAssumption
      <3>2. tries'[q] = tries[q] /\ tries[q] \in Nat
        BY <2>1, <3>1
      <3>3. QED BY <3>2
    <2>3. QED BY <2>1, <2>2
  <1>3. CASE ~(n = MaxTries \/ i = None)
    <2>1. /\ instance' = Started(m, i) /\ place'[r] = i
          /\ \A q \in Requests : q # r => tries'[q] = tries[q]
      BY <1>1, <1>3
    <2>2. i \in Instances /\ Callable(m, t, i)
      BY <1>1, <1>3, FailoverSelects
    <2>3. m \in [Instances -> Record] /\ DOMAIN m = Instances
      BY DEF Formed
    <2>4. /\ instance'[i].breaker = IF m[i].breaker = "OPEN" THEN "HALF_OPEN" ELSE m[i].breaker
          /\ instance'[i].health = m[i].health
          /\ \A j \in Instances : j # i => instance'[j] = m[j]
      BY <2>1, <2>2, <2>3 DEF Started, Record
    <2>5. CalledClosed
      <3> SUFFICES ASSUME NEW q \in Requests, place'[q] \in Instances, tries'[q] > tries[q]
                   PROVE  instance'[place'[q]].breaker # "OPEN"
        BY DEF CalledClosed
      <3>1. q = r
        <4>1. q # r => tries'[q] = tries[q] /\ tries[q] \in Nat
          BY <2>1
        <4>2. QED BY <4>1
      <3>2. QED BY <2>1, <2>4, <3>1
    <2>6. ASSUME NEW j \in Instances, m[j].breaker = "OPEN", instance'[j].breaker = "HALF_OPEN"
          PROVE  /\ ~m[j].cooling /\ j \in ToSet(Pools[t])
                 /\ \A k \in ToSet(Pools[t]) : ~IsAvailable(instance', k)
      <3>1. j = i
        BY <2>4, <2>6
      <3>2. ~IsAvailable(m, i)
        BY <2>6, <3>1 DEF IsAvailable
      <3>3. AvailableIn(m, t) = {} /\ CanExecute(m, i) /\ \E p \in DOMAIN Pools[t] : i = Pools[t][p]
        BY <2>2, <3>2 DEF Callable
      <3>4. ~m[i].cooling
        BY <2>6, <3>1, <3>3 DEF CanExecute
      <3>5. i \in ToSet(Pools[t])
        BY <3>3 DEF ToSet
      <3>6. ASSUME NEW k \in ToSet(Pools[t]) PROVE ~IsAvailable(instance', k)
        <4>1. PICK p \in DOMAIN Pools[t] : k = Pools[t][p]
          BY DEF ToSet
        <4>2. ~IsAvailable(m, k) /\ k \in Instances
          BY <3>3, <4>1, PoolTypes DEF AvailableIn
        <4>3. CASE k # i
          BY <2>4, <4>2, <4>3 DEF IsAvailable
        <4>4. CASE k = i
          <5>1. m[i].health = "UNHEALTHY"
            BY <2>2, <2>6, <3>1 DEF SoundAll, Sound
          <5>2. QED BY <2>4, <4>4, <5>1 DEF IsAvailable
        <4>5. QED BY <4>3, <4>4
      <3>7. QED BY <3>1, <3>4, <3>5, <3>6
    <2>7. QED BY <2>5, <2>6
  <1>4. QED BY <1>2, <1>3

\* A step after which no call is longer on its way than before, and no breaker has
\* become half open.
LEMMA NoProbe ==
  ASSUME \A r \in Requests : place'[r] \in Instances => tries'[r] = tries[r] /\ tries[r] \in Nat,
         \A i \in Instances : instance[i].breaker = "OPEN" => instance'[i].breaker # "HALF_OPEN"
  PROVE  CalledClosed /\ ProbedLast
  BY DEF CalledClosed, ProbedLast

LEMMA ProbeStep == ServingInv /\ [Next]_vars => CalledClosed /\ ProbedLast
  <1> SUFFICES ASSUME ServingInv, [Next]_vars PROVE CalledClosed /\ ProbedLast
    OBVIOUS
  <1>0. /\ Formed(instance) /\ SoundAll(instance) /\ RequestsTyped
        /\ turn \in [Tier -> Nat] /\ tries \in [Requests -> Nat] /\ tier \in [Requests -> Tier]
        /\ place \in [Requests -> Instances \cup Direct \cup {None}]
        /\ None \notin Instances /\ Direct \cap Instances = {}
        /\ DOMAIN instance = Instances /\ instance \in [Instances -> Record]
    <2>1. 0..MaxTries \subseteq Nat
      BY DEF MaxTries
    <2>2. tries \in [Requests -> Nat]
      BY <2>1 DEF ServingInv, TypeInv, RequestsTyped
    <2>3. None \notin Instances /\ Direct \cap Instances = {}
      BY ServingAssumption
    <2>4. Formed(instance) /\ SoundAll(instance) /\ RequestsTyped
      BY DEF ServingInv, TypeInv, SoundInv
    <2>5. QED BY <2>2, <2>3, <2>4 DEF RequestsTyped, Formed
  <1>1. ASSUME NEW r \in Requests, NEW c \in Contexts, Ask(r, c) PROVE CalledClosed /\ ProbedLast
    <2>1. AssessComplexity(c) \in Tier
      BY DEF AssessComplexity, Tier
    <2>2. CASE setup = "DIRECT"
      <3>1. place' = [place EXCEPT ![r] = "primary"] /\ UNCHANGED <<instance, tries>>
        BY <1>1, <2>2 DEF Ask
      <3>2. \A i \in Instances : instance[i].breaker = "OPEN" => instance'[i].breaker # "HALF_OPEN"
        BY <3>1
      <3>3. \A q \in Requests : tries'[q] = tries[q] /\ tries[q] \in Nat
        BY <1>0, <3>1
      <3>4. QED BY <3>2, <3>3, NoProbe
    <2>3. CASE setup # "DIRECT"
      <3>1. Dispatch(r, instance, AssessComplexity(c), {}, 0)
        BY <1>1, <2>3 DEF Ask
      <3>2. QED BY <1>0, <2>1, <3>1, DispatchProbes, OneTier DEF ProbedLast
    <2>4. QED BY <2>2, <2>3
  <1>2. ASSUME NEW r \in Requests, Answer(r) \/ GatewayTimeout(r) PROVE CalledClosed /\ ProbedLast
    <2>1. /\ place' = [place EXCEPT ![r] = None] /\ tries' = [tries EXCEPT ![r] = 0]
      BY <1>2 DEF Answer, GatewayTimeout, Done
    <2>2. \A q \in Requests : place'[q] \in Instances => tries'[q] = tries[q] /\ tries[q] \in Nat
      BY <1>0, <2>1
    <2>3. \A i \in Instances : instance[i].breaker = "OPEN" => instance'[i].breaker # "HALF_OPEN"
      <3>1. CASE place[r] \in Direct
        BY <1>2, <3>1 DEF Answer, GatewayTimeout
      <3>2. ASSUME NEW slow \in BOOLEAN, instance' = Succeeded(instance, place[r], slow),
                   NEW i \in Instances, instance[i].breaker = "OPEN"
            PROVE  instance'[i].breaker # "HALF_OPEN"
        <4>1. CASE i = place[r]
          <5>1. instance'[i].breaker = "CLOSED"
            BY <1>0, <3>2, <4>1 DEF Succeeded, Record
          <5>2. QED BY <5>1
        <4>2. CASE i # place[r]
          BY <1>0, <3>2, <4>2 DEF Succeeded
        <4>3. QED BY <4>1, <4>2
      <3>3. ASSUME instance' = Cancelled(instance, place[r]),
                   NEW i \in Instances, instance[i].breaker = "OPEN"
            PROVE  instance'[i].breaker # "HALF_OPEN"
        BY <1>0, <3>3 DEF Cancelled, Record
      <3>4. QED BY <1>2, <3>1, <3>2, <3>3 DEF Answer, GatewayTimeout
    <2>4. QED BY <2>2, <2>3, NoProbe
  <1>3. ASSUME NEW r \in Requests, NEW known \in BOOLEAN, CallFails(r, known)
        PROVE  CalledClosed /\ ProbedLast
    <2>1. CASE /\ place[r] \in Instances
               /\ Dispatch(r, Failed(instance, place[r]), tier[r], tried[r], tries[r])
      <3> DEFINE m == Failed(instance, place[r])
      <3>1. SoundAll(m) /\ Formed(m)
        BY <1>0, OperationsSound, OperationsFormed
      <3>2. /\ \A i \in Instances : i # place[r] => m[i] = instance[i]
            /\ m[place[r]].cooling
            /\ m[place[r]].breaker = "OPEN" \/ m[place[r]].breaker = instance[place[r]].breaker
        BY <1>0, <2>1 DEF Failed
      <3> HIDE DEF m
      <3>3. Dispatch(r, m, tier[r], tried[r], tries[r])
        BY <2>1 DEF m
      <3>4. /\ CalledClosed
            /\ \A i \in Instances : m[i].breaker = "OPEN" /\ instance'[i].breaker = "HALF_OPEN" =>
                 /\ ~m[i].cooling /\ i \in ToSet(Pools[tier[r]])
                 /\ \A j \in ToSet(Pools[tier[r]]) : ~IsAvailable(instance', j)
        BY <1>0, <3>1, <3>3, DispatchProbes
      <3>5. ASSUME NEW i \in Instances, instance[i].breaker = "OPEN",
                   instance'[i].breaker = "HALF_OPEN"
            PROVE  /\ ~instance[i].cooling
                   /\ \A t \in Tier : i \in ToSet(Pools[t]) =>
                        \A j \in ToSet(Pools[t]) : ~IsAvailable(instance', j)
        <4>1. m[i].breaker = "OPEN"
          BY <3>2, <3>5
        <4>2. /\ ~m[i].cooling /\ i \in ToSet(Pools[tier[r]])
              /\ \A j \in ToSet(Pools[tier[r]]) : ~IsAvailable(instance', j)
          BY <3>4, <3>5, <4>1
        <4>3. ~instance[i].cooling
          BY <3>2, <4>2
        <4>4. QED BY <1>0, <4>2, <4>3, OneTier
      <3>6. QED BY <3>4, <3>5 DEF ProbedLast
    <2>2. CASE /\ place[r] \in Direct /\ instance' = instance
               /\ \/ place' = [place EXCEPT ![r] = "fallback"] /\ tries' = tries
                  \/ place' = [place EXCEPT ![r] = None] /\ tries' = [tries EXCEPT ![r] = 0]
      <3>1. "fallback" \notin Instances
        BY <1>0 DEF Direct
      <3>2. \A q \in Requests : place'[q] \in Instances => tries'[q] = tries[q] /\ tries[q] \in Nat
        BY <1>0, <2>2, <3>1
      <3>3. \A i \in Instances : instance[i].breaker = "OPEN" => instance'[i].breaker # "HALF_OPEN"
        BY <2>2
      <3>4. QED BY <3>2, <3>3, NoProbe
    <2>3. QED BY <1>3, <2>1, <2>2 DEF CallFails, Done, Direct
  <1>4. ASSUME NEW i \in Instances, CoolDown(i) PROVE CalledClosed /\ ProbedLast
    <2>1. UNCHANGED <<place, tries>>
      BY <1>4 DEF CoolDown, request
    <2>2. \A j \in Instances : instance[j].breaker = "OPEN" => instance'[j].breaker # "HALF_OPEN"
      BY <1>0, <1>4 DEF CoolDown, Record
    <2>3. QED BY <1>0, <2>1, <2>2, NoProbe
  <1>5. CASE UNCHANGED vars
    BY <1>0, <1>5, NoProbe DEF vars, request
  <1>6. QED BY <1>1, <1>2, <1>3, <1>4, <1>5 DEF Next

\* Nobody calls an instance whose breaker is open, and a breaker goes half open only
\* when its cooldown has elapsed and nobody else in the pool could have taken the
\* request, however the requests overlap (load_balancer.py:65-83, instances.py:54-63).
THEOREM OpenIsNotCalled == Spec => NoCallWhileCooling
  <1>1. ServingInv /\ [Next]_vars =>
          [/\ \A r \in Requests :
                place'[r] \in Instances /\ tries'[r] > tries[r] =>
                  instance'[place'[r]].breaker # "OPEN"
           /\ \A i \in Instances :
                instance[i].breaker = "OPEN" /\ instance'[i].breaker = "HALF_OPEN" =>
                  /\ ~instance[i].cooling
                  /\ \A t \in Tier : i \in ToSet(Pools[t]) =>
                       \A j \in ToSet(Pools[t]) : ~IsAvailable(instance', j)]_vars
    BY ProbeStep DEF CalledClosed, ProbedLast
  <1>2. QED BY <1>1, ServingInvariant, PTL DEF Spec, NoCallWhileCooling

================================================================================
