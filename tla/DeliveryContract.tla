--------------------------- MODULE DeliveryContract ---------------------------
(***************************************************************************)
(* What publishing an event promises, with no topics, groups, copies,      *)
(* offsets or crashes: its handler works on it one try after the other     *)
(* until it has its effect, once; it is given up as a dead letter only     *)
(* after three failed tries, or when nobody can read it.                   *)
(***************************************************************************)
EXTENDS Naturals

CONSTANTS
  Events,
  Wanted,      \* the events that have a handler
  Unreadable   \* the events that no consumer can parse

VARIABLES
  public,    \* events that were published
  effects,   \* of each event: how many effects it had
  failures,  \* of each event: how often its handler failed
  letters    \* dead letters: [event, reason]

delivery == <<public, effects, failures, letters>>

Begin ==
  /\ public \subseteq Events
  /\ effects = [e \in Events |-> 0] /\ failures = [e \in Events |-> 0]
  /\ letters = {}

Publish(e) ==
  /\ public' = public \cup {e}
  /\ UNCHANGED <<effects, failures, letters>>

\* There is something to try: the event is known and has not had its effect.
Due(e) == e \in public \cap Wanted /\ effects[e] = 0

Takes(e) == effects' = [effects EXCEPT ![e] = 1]
Fails(e) == failures' = [failures EXCEPT ![e] = @ + 1]

\* A try succeeds, fails, or succeeds and is taken for a failure.
Try(e) ==
  /\ Due(e)
  /\ \/ Takes(e) /\ UNCHANGED failures
     \/ Fails(e) /\ UNCHANGED effects
     \/ Takes(e) /\ Fails(e)
  /\ UNCHANGED <<public, letters>>

GiveUp(e) ==
  /\ e \in public \cap Wanted /\ failures[e] >= 3
  /\ letters' = letters \cup {[event |-> e, reason |-> "EXCEEDED_MAX_RETRIES"]}
  /\ UNCHANGED <<public, effects, failures>>

Quarantine(e) ==
  /\ e \in public \cap Unreadable
  /\ letters' = letters \cup {[event |-> e, reason |-> "MALFORMED_EVENT_SCHEMA"]}
  /\ UNCHANGED <<public, effects, failures>>

Step == \E e \in Events : Publish(e) \/ Try(e) \/ GiveUp(e) \/ Quarantine(e)

Promise == Begin /\ [][Step]_delivery

===============================================================================
