------------------------------ MODULE ModelServing ------------------------------
(***************************************************************************)
(* How a request for a recommendation reaches a language model: the        *)
(* gateway with its timeout (app/ai/gateway.py), the router and its tiers  *)
(* (router.py), the load balancer with its failover (load_balancer.py) and *)
(* the instances with their circuit breakers (instances.py).               *)
(*                                                                         *)
(* All of it runs on one event loop, and the only await that suspends is   *)
(* the call of the provider: the locks are never held across one.  So what *)
(* happens between two calls is one step, and other requests, answers,     *)
(* timeouts and the clock come in between the steps.                       *)
(***************************************************************************)
EXTENDS Naturals, SequencesExt, FiniteSets, Ranking

CONSTANTS
  Requests,     \* requests that may run at the same time
  Instances,    \* model service instances
  Pools,        \* of each tier: the instances of that tier, in the order of registration
  Contexts,     \* payments asked about: [task, amount, attempt, category]
  Threshold,    \* failure_threshold of a breaker
  MaxTroubles,  \* failed and timed out calls in a behaviour
  None

Tier == { "FAST_CLASSIFICATION", "DEEP_REASONING", "STRUCTURED_EXTRACTION" }

\* Without a load balancer the router calls two providers itself.
Setup == { "ROUND_ROBIN", "LEAST_CONNECTIONS", "DIRECT" }
Direct == { "primary", "fallback" }

ASSUME ServingAssumption ==
  /\ None \notin Instances \cup Direct /\ Direct \cap Instances = {}
  /\ Instances # {} /\ IsFiniteSet(Requests)
  /\ Pools \in [Tier -> Seq(Instances)]
  /\ \A t \in Tier : IsInjective(Pools[t])
  /\ \A t, u \in Tier : t # u => ToSet(Pools[t]) \cap ToSet(Pools[u]) = {}
  /\ Threshold \in Nat \ {0} /\ MaxTroubles \in Nat

\* dispatch: one call and max_retries_within_pool more.
MaxTries == 3

Breaker == { "CLOSED", "OPEN", "HALF_OPEN" }
Health  == { "HEALTHY", "DEGRADED", "UNHEALTHY" }

\* failures counts up to Threshold; cooling: the cooldown since the last
\* failure has not elapsed.
Instance == [breaker : Breaker, failures : 0..Threshold, cooling : BOOLEAN,
             health : Health, active : Nat]

NewInstance == [breaker |-> "CLOSED", failures |-> 0, cooling |-> FALSE,
                health |-> "HEALTHY", active |-> 0]

\* What the gateway gives back: the answer of a model, or an escalation.
Reply == { "NONE", "ANSWER", "GATEWAY_TIMEOUT", "PROVIDER_OUTAGE",
           "GATEWAY_UNEXPECTED_ERROR" }

VARIABLES
  setup,     \* the algorithm of the load balancer, or DIRECT
  instance,  \* the record of each instance
  turn,      \* of each tier: the index of the round robin
  place,     \* of each request: the instance or provider it waits for, or None
  tier,      \* of each request: the pool it was routed to
  tried,     \* of each request: the instances it has called
  tries,     \* of each request: the calls and refusals so far
  reply,     \* of each request: what it got last
  troubles

request == <<place, tier, tried, tries, reply>>
vars    == <<setup, instance, turn, request, troubles>>

Init ==
  /\ setup \in Setup
  /\ instance = [i \in Instances |-> NewInstance]
  /\ turn = [t \in Tier |-> 0]
  /\ place = [r \in Requests |-> None] /\ tier = [r \in Requests |-> "FAST_CLASSIFICATION"]
  /\ tried = [r \in Requests |-> {}] /\ tries = [r \in Requests |-> 0]
  /\ reply = [r \in Requests |-> "NONE"]
  /\ troubles = 0

-------------------------------------------------------------------------------
(* An instance and its breaker; m is the record of every instance *)

IsAvailable(m, i) == m[i].health # "UNHEALTHY" /\ m[i].breaker # "OPEN"

\* Mutant: one probe at a time, and nobody ends the probe of a cancelled request.
CanExecute_SingleProbe(m, i) ==
  \/ m[i].breaker = "CLOSED"
  \/ m[i].breaker = "OPEN" /\ ~m[i].cooling

\* Mutant: the cooldown is not waited for.
CanExecute_Eager(m, i) == m[i].breaker \in Breaker

CanExecute(m, i) == m[i].breaker # "OPEN" \/ ~m[i].cooling

\* can_execute lets an open breaker go half open when it admits a request.
Started(m, i) ==
  [m EXCEPT ![i].breaker = IF @ = "OPEN" THEN "HALF_OPEN" ELSE @,
            ![i].active = @ + 1]

\* Mutant: only a probe closes the breaker, a late answer resets the counter.
Succeeded_ProbeOnly(m, i, slow) ==
  [m EXCEPT ![i].breaker = IF @ = "HALF_OPEN" THEN "CLOSED" ELSE @,
            ![i].failures = 0,
            ![i].health = IF slow THEN "DEGRADED" ELSE "HEALTHY",
            ![i].active = @ - 1]

\* record_success, and the health by latency.
Succeeded(m, i, slow) ==
  [m EXCEPT ![i].breaker = "CLOSED", ![i].failures = 0,
            ![i].health = IF slow THEN "DEGRADED" ELSE "HEALTHY",
            ![i].active = @ - 1]

\* record_failure, and the health by the breaker.
Failed(m, i) ==
  LET count == IF m[i].failures < Threshold THEN m[i].failures + 1 ELSE Threshold
      trips == m[i].breaker = "HALF_OPEN" \/ count >= Threshold
      after == IF trips THEN "OPEN" ELSE m[i].breaker
  IN [m EXCEPT ![i] = [breaker |-> after, failures |-> count, cooling |-> TRUE,
                       health |-> IF after = "OPEN" THEN "UNHEALTHY" ELSE "DEGRADED",
                       active |-> @.active - 1]]

\* Mutant: a cancelled call stays counted as active.
Cancelled_Counted(m, i) == m

\* Mutant: it is taken off twice.
Cancelled_Twice(m, i) == [m EXCEPT ![i].active = @ - 2]

\* A cancelled call is neither a success nor a failure.
Cancelled(m, i) == [m EXCEPT ![i].active = @ - 1]

-------------------------------------------------------------------------------
(* The load balancer *)

\* Of a pool: the positions of the instances that may be called, and the k-th
\* instance of those at the positions P, counted from 0.
AvailableIn(m, t) == { p \in DOMAIN Pools[t] : IsAvailable(m, Pools[t][p]) }
InstanceAt(t, P, k) == IF P = {} THEN None ELSE Pools[t][Nth(P, <, k)]

\* No instance is available: the first one that would admit a probe.
Probe(m, t) == InstanceAt(t, { p \in DOMAIN Pools[t] : CanExecute(m, Pools[t][p]) }, 0)

\* select_instance
SelectInstance(m, t) ==
  LET available == AvailableIn(m, t)
      idlest == { p \in available :
                    \A q \in available : m[Pools[t][p]].active <= m[Pools[t][q]].active }
  IN IF available = {} THEN Probe(m, t)
     ELSE IF setup = "ROUND_ROBIN"
          THEN InstanceAt(t, available, turn[t] % Cardinality(available))
     ELSE InstanceAt(t, idlest, 0)

\* dispatch prefers an instance the request has not tried.
Failover(m, t, seen) ==
  LET selected == SelectInstance(m, t)
      untried  == { p \in AvailableIn(m, t) : Pools[t][p] \notin seen }
  IN IF selected \in seen /\ untried # {} THEN InstanceAt(t, untried, 0) ELSE selected

NextTurn(m, t) ==
  LET n == Cardinality(AvailableIn(m, t)) IN
    turn' = IF setup = "ROUND_ROBIN" /\ n > 0
            THEN [turn EXCEPT ![t] = (@ + 1) % n] ELSE turn

Done(r, what) ==
  /\ place' = [place EXCEPT ![r] = None]
  /\ reply' = [reply EXCEPT ![r] = what]
  /\ tried' = [tried EXCEPT ![r] = {}] /\ tries' = [tries EXCEPT ![r] = 0]

\* The loop of dispatch from the state m of the instances: the next call of r,
\* or the end of its attempts.  A selection that finds nobody is repeated with
\* the same outcome until the attempts are used up.
Dispatch(r, m, t, seen, n) ==
  \E i \in { Failover(m, t, seen) } :
    IF n = MaxTries \/ i = None
    THEN /\ Done(r, "PROVIDER_OUTAGE")
         /\ instance' = m
         /\ UNCHANGED turn
    ELSE /\ instance' = Started(m, i)
         /\ place' = [place EXCEPT ![r] = i]
         /\ tried' = [tried EXCEPT ![r] = seen \cup {i}]
         /\ tries' = [tries EXCEPT ![r] = n + 1]
         /\ reply' = [reply EXCEPT ![r] = "NONE"]
         /\ NextTurn(m, t)

-------------------------------------------------------------------------------
(* A request: gateway and router *)

\* assess_complexity
AssessComplexity(c) ==
  IF c.task = "extraction" THEN "STRUCTURED_EXTRACTION"
  ELSE IF c.amount >= 50000 \/ c.attempt >= 2 \/ c.category = "ROUTE_DEGRADATION"
       THEN "DEEP_REASONING"
  ELSE "FAST_CLASSIFICATION"

Ask(r, c) ==
  /\ place[r] = None
  /\ tier' = [tier EXCEPT ![r] = AssessComplexity(c)]
  /\ IF setup = "DIRECT"
     THEN /\ place' = [place EXCEPT ![r] = "primary"]
          /\ reply' = [reply EXCEPT ![r] = "NONE"]
          /\ UNCHANGED <<instance, turn, tried, tries>>
     ELSE Dispatch(r, instance, AssessComplexity(c), {}, 0)
  /\ UNCHANGED <<setup, troubles>>

Answer(r) ==
  /\ place[r] # None
  /\ IF place[r] \in Direct
     THEN UNCHANGED instance
     ELSE \E slow \in BOOLEAN : instance' = Succeeded(instance, place[r], slow)
  /\ Done(r, "ANSWER")
  /\ UNCHANGED <<setup, turn, tier, troubles>>

\* The provider raises: a ModelProviderError, or something else.
CallFails(r, known) ==
  /\ place[r] # None /\ troubles < MaxTroubles
  /\ troubles' = troubles + 1
  /\ \/ /\ place[r] \in Instances
        /\ Dispatch(r, Failed(instance, place[r]), tier[r], tried[r], tries[r])
     \/ /\ place[r] = "primary" /\ known
        /\ place' = [place EXCEPT ![r] = "fallback"]
        /\ UNCHANGED <<instance, turn, tried, tries, reply>>
     \/ /\ place[r] \in Direct /\ (place[r] = "primary" => ~known)
        /\ Done(r, IF known THEN "PROVIDER_OUTAGE" ELSE "GATEWAY_UNEXPECTED_ERROR")
        /\ UNCHANGED <<instance, turn>>
  /\ UNCHANGED <<setup, tier>>

\* wait_for cancels the call; the breaker hears nothing of it.
GatewayTimeout(r) ==
  /\ place[r] # None /\ troubles < MaxTroubles
  /\ troubles' = troubles + 1
  /\ instance' = IF place[r] \in Direct THEN instance ELSE Cancelled(instance, place[r])
  /\ Done(r, "GATEWAY_TIMEOUT")
  /\ UNCHANGED <<setup, turn, tier>>

\* The cooldown since the last failure of an instance elapses.
CoolDown(i) ==
  /\ instance[i].cooling
  /\ instance' = [instance EXCEPT ![i].cooling = FALSE]
  /\ UNCHANGED <<setup, turn, request, troubles>>

Next ==
  \/ \E r \in Requests :
       \/ \E c \in Contexts : Ask(r, c)
       \/ Answer(r) \/ GatewayTimeout(r)
       \/ \E known \in BOOLEAN : CallFails(r, known)
  \/ \E i \in Instances : CoolDown(i)

Spec == Init /\ [][Next]_vars

\* Payments go on failing and the orchestrator asks about each of them, a call
\* that neither fails nor times out is answered, and time passes.
Fairness ==
  /\ \A r \in Requests : \A c \in Contexts : SF_vars(Ask(r, c))
  /\ \A r \in Requests : WF_vars(Answer(r))
  /\ \A i \in Instances : WF_vars(CoolDown(i))

FairSpec == Spec /\ Fairness

-------------------------------------------------------------------------------
(* Properties *)

TypeOK ==
  /\ setup \in Setup
  /\ instance \in [Instances -> Instance]
  /\ turn \in [Tier -> Nat]
  /\ place \in [Requests -> Instances \cup Direct \cup {None}]
  /\ tier \in [Requests -> Tier]
  /\ tried \in [Requests -> SUBSET Instances]
  /\ tries \in [Requests -> 0..MaxTries]
  /\ reply \in [Requests -> Reply]
  /\ troubles \in 0..MaxTroubles

\* The load balancer spreads by active_requests, so the counter must be the
\* number of requests in flight however they end, cancelled ones included
\* (instances.py:179-180 and 234-235).
ActiveCounts ==
  \A i \in Instances : instance[i].active = Cardinality({ r \in Requests : place[r] = i })

\* Health, breaker and failure counter are written in different places and by
\* requests that overlap, and always agree: is_available (instances.py:133-138)
\* never hides an instance with a closed breaker nor offers one that tripped.
BreakerAgreesWithHealth ==
  \A i \in Instances :
    LET m == instance[i] IN
      /\ (m.breaker = "CLOSED") = (m.health # "UNHEALTHY")
      /\ (m.breaker = "CLOSED") = (m.failures < Threshold)

\* Nobody calls an instance whose breaker is open, and a breaker goes half open
\* only when its cooldown has elapsed and no other instance of the pool could
\* have taken the request (load_balancer.py:65-83, instances.py:54-63).
NoCallWhileCooling ==
  [][/\ \A r \in Requests :
          place'[r] \in Instances /\ tries'[r] > tries[r] =>
            instance'[place'[r]].breaker # "OPEN"
     /\ \A i \in Instances :
          instance[i].breaker = "OPEN" /\ instance'[i].breaker = "HALF_OPEN" =>
            /\ ~instance[i].cooling
            /\ \A t \in Tier : i \in ToSet(Pools[t]) =>
                 \A j \in ToSet(Pools[t]) : ~IsAvailable(instance', j)]_vars

\* When the trouble is over, a pool in which every breaker has tripped comes
\* back, also when a probe was cancelled half way.
OutageHeals ==
  \A t \in Tier : Pools[t] # <<>> =>
    ((\A i \in ToSet(Pools[t]) : ~IsAvailable(instance, i)) ~>
       \E i \in ToSet(Pools[t]) : IsAvailable(instance, i))

================================================================================
