----------------------------- MODULE EventPipeline -----------------------------
(***************************************************************************)
(* The way of an event through the broker (app/events/broker.py): from the *)
(* topic payment.events to the consumer groups                             *)
(* (app/consumers/notification_consumer.py, recovery_consumer.py), and,    *)
(* when a handler fails, through the retry topics and their processor      *)
(* (app/events/retry_processor.py) back to the topic, or to the dead       *)
(* letters.  Both brokers are covered: a message is delivered to every     *)
(* group, in order, and again after a crash unless it was committed (the   *)
(* in-memory broker lives and dies with its process: MaxCrashes = 0).      *)
(* The supervisor that calls process_next and route_failure is the one the *)
(* consumers' comments and docs/specs/phase_2_specification.md section 6   *)
(* describe; the code leaves it to the deployment.                         *)
(***************************************************************************)
EXTENDS Naturals, Sequences, SequencesExt, FiniteSets

CONSTANTS
  Groups,       \* consumer groups of payment.events
  Events,       \* events the application publishes
  Concern,      \* the group whose event type it is, Nobody, or Malformed
  Nobody, Malformed,
  Backlog,      \* events published before the groups joined
  MaxMessages,  \* max_messages of a cycle of the retry processor, per topic
  MaxFailures,  \* how often the handler of an event fails in a behaviour
  MaxCrashes    \* how often a process crashes in a behaviour

Retry1 == "payment.events.retry.1"
Retry2 == "payment.events.retry.2"
RetryTopics == { Retry1, Retry2 }

ASSUME PipelineAssumption ==
  /\ Groups # {} /\ Groups \cap RetryTopics = {}
  /\ Nobody # Malformed /\ {Nobody, Malformed} \cap Groups = {}
  /\ Concern \in [Events -> Groups \cup {Nobody, Malformed}]
  /\ Backlog \in Seq(Events)
  /\ MaxMessages \in Nat \ {0} /\ MaxFailures \in Nat /\ MaxCrashes \in Nat

\* A lane is what one group has still to read of one topic: the groups read
\* payment.events, the retry processor its two topics.
Lanes == Groups \cup RetryTopics

\* An event in transit, with x-retry-count and whether x-retry-timestamp is
\* still to come.
Message == [event : Events, retries : 0..2, waiting : BOOLEAN]

Fresh(e) == [event |-> e, retries |-> 0, waiting |-> FALSE]

Nothing == [event |-> "none"]

VARIABLES
  produced,   \* events published on payment.events by the application
  queue,      \* of each lane: the messages not delivered yet
  hand,       \* of each lane: the message delivered and not committed
  pc,         \* of each lane: where its consumer is
  cycle,      \* the topic the retry processor is reading, or "idle"
  polled,     \* messages it fetched from that topic in this cycle
  processed,  \* committed rows of processed_events, by event
  effects,    \* committed notifications or planned cases, by event
  dead,       \* dead letters: [event, reason]
  failures,   \* of each event: how often its handler failed
  crashes

transit == <<queue, hand>>
stored  == <<processed, effects>>
retrier == <<cycle, polled>>
vars    == <<produced, transit, pc, retrier, stored, dead, failures, crashes>>

\* A group that joins reads the topic from its beginning.
Init ==
  /\ produced = ToSet(Backlog)
  /\ queue = [l \in Lanes |-> IF l \in Groups THEN [i \in DOMAIN Backlog |-> Fresh(Backlog[i])]
                             ELSE <<>>]
  /\ hand = [l \in Lanes |-> Nothing]
  /\ pc = [l \in Lanes |-> "poll"]
  /\ cycle = "idle" /\ polled = 0
  /\ processed = {} /\ effects = [e \in Events |-> 0]
  /\ dead = {} /\ failures = [e \in Events |-> 0] /\ crashes = 0

-------------------------------------------------------------------------------
(* The broker *)

\* The lanes after m was published: on payment.events it goes to every group.
Published(lanes, m) ==
  [l \in Lanes |-> IF l \in lanes THEN Append(queue[l], m) ELSE queue[l]]

At(l, from, to) == pc[l] = from /\ pc' = [pc EXCEPT ![l] = to]

Deliver(l) ==
  /\ At(l, "poll", "read")
  /\ queue[l] # <<>>
  /\ hand' = [hand EXCEPT ![l] = Head(queue[l])]
  /\ queue' = [queue EXCEPT ![l] = Tail(@)]

\* The message counts as read: it will not be delivered again.
Commit(l) == hand' = [hand EXCEPT ![l] = Nothing]

Produce(e) ==
  /\ e \notin produced
  /\ produced' = produced \cup {e}
  /\ queue' = Published(Groups, Fresh(e))
  /\ UNCHANGED <<hand, pc, retrier, stored, dead, failures, crashes>>

-------------------------------------------------------------------------------
(* process_next of a consumer group, and its supervisor *)

Poll(g) ==
  /\ Deliver(g)
  /\ Concern[Head(queue[g]).event] \in {g, Malformed}
  /\ UNCHANGED <<produced, retrier, stored, dead, failures, crashes>>

\* An event of another type is fetched, committed and forgotten.
Skip(g) ==
  /\ pc[g] = "poll" /\ queue[g] # <<>>
  /\ Concern[Head(queue[g]).event] \notin {g, Malformed}
  /\ queue' = [queue EXCEPT ![g] = Tail(@)]
  /\ UNCHANGED <<produced, hand, pc, retrier, stored, dead, failures, crashes>>

Lookup(g) ==
  /\ pc[g] = "read" /\ Concern[hand[g].event] = g
  /\ pc' = [pc EXCEPT ![g] = IF hand[g].event \in processed THEN "ack" ELSE "store"]
  /\ UNCHANGED <<produced, transit, retrier, stored, dead, failures, crashes>>

\* Mutant: the event is not marked as processed.
Record_Unmarked(g) ==
  /\ hand[g].event \notin processed
  /\ effects' = [effects EXCEPT ![hand[g].event] = @ + 1]
  /\ UNCHANGED processed

\* The event is marked as processed and its effect written, in one commit; the
\* primary key of processed_events refuses a second one.
Record(g) ==
  LET e == hand[g].event IN
    /\ e \notin processed
    /\ processed' = processed \cup {e}
    /\ effects' = [effects EXCEPT ![e] = @ + 1]

Store(g) ==
  /\ At(g, "store", "ack")
  /\ Record(g)
  /\ UNCHANGED <<produced, transit, retrier, dead, failures, crashes>>

\* The handler raises: before its commit, or with the commit done (the answer
\* of the database is lost, or a publication after the commit fails).
Fail(g) ==
  LET e == hand[g].event IN
    /\ At(g, "store", "route")
    /\ \/ UNCHANGED stored
       \/ Record(g)
    /\ failures' = [failures EXCEPT ![e] = @ + 1]
    /\ failures[e] < MaxFailures
    /\ UNCHANGED <<produced, transit, retrier, dead, crashes>>

\* The headers of a failed message: one more failure, a time to wait for.
Again(m) == [event |-> m.event, retries |-> m.retries + 1, waiting |-> TRUE]

\* Mutant: failures go round the second retry topic for ever.
Route_Endless(g) ==
  /\ At(g, "route", "ack")
  /\ queue' = Published({IF hand[g].retries = 0 THEN Retry1 ELSE Retry2}, Again(hand[g]))
  /\ UNCHANGED <<produced, hand, retrier, stored, dead, failures, crashes>>

\* route_failure: the first failure goes to one retry topic, the second to the
\* other, the third to the dead letters.
Route(g) ==
  LET m == hand[g]
  IN /\ At(g, "route", "ack")
     /\ \/ /\ m.retries = 0
           /\ queue' = Published({Retry1}, Again(m))
           /\ UNCHANGED dead
        \/ /\ m.retries = 1
           /\ queue' = Published({Retry2}, Again(m))
           /\ UNCHANGED dead
        \/ /\ m.retries = 2
           /\ dead' = dead \cup {[event |-> m.event, reason |-> "EXCEEDED_MAX_RETRIES"]}
           /\ UNCHANGED queue
     /\ UNCHANGED <<produced, hand, retrier, stored, failures, crashes>>

\* A message that cannot be read is no use in a retry topic.
Quarantine(g) ==
  /\ At(g, "read", "ack")
  /\ Concern[hand[g].event] = Malformed
  /\ dead' = dead \cup {[event |-> hand[g].event, reason |-> "MALFORMED_EVENT_SCHEMA"]}
  /\ UNCHANGED <<produced, transit, retrier, stored, failures, crashes>>

Ack(g) ==
  /\ At(g, "ack", "poll")
  /\ Commit(g)
  /\ UNCHANGED <<produced, queue, retrier, stored, dead, failures, crashes>>

-------------------------------------------------------------------------------
(* process_retries: one cycle reads the first topic, then the second *)

\* A cycle that finds both topics empty changes nothing.
StartCycle ==
  /\ cycle = "idle"
  /\ \E t \in RetryTopics : queue[t] # <<>>
  /\ cycle' = Retry1 /\ polled' = 0
  /\ UNCHANGED <<produced, transit, pc, stored, dead, failures, crashes>>

\* Mutant: leaving the first topic ends the cycle.
NextTopic_First(t) == cycle' = "idle" /\ polled' = 0

NextTopic(t) ==
  /\ cycle' = IF t = Retry1 THEN Retry2 ELSE "idle"
  /\ polled' = 0

PollRetry(t) ==
  /\ cycle = t /\ polled < MaxMessages
  /\ Deliver(t)
  /\ polled' = polled + 1
  /\ UNCHANGED <<produced, cycle, stored, dead, failures, crashes>>

\* get_message times out on an empty topic, or max_messages were read.
LeaveTopic(t) ==
  /\ cycle = t /\ pc[t] = "poll"
  /\ queue[t] = <<>> \/ polled = MaxMessages
  /\ NextTopic(t)
  /\ UNCHANGED <<produced, transit, pc, stored, dead, failures, crashes>>

\* Mutant: a message that is not due is dropped with the cycle.
Postpone_Dropped(t) ==
  /\ At(t, "read", "break")
  /\ hand[t].waiting
  /\ UNCHANGED <<produced, transit, retrier, stored, dead, failures, crashes>>

\* Not due yet: back to the end of its topic, and on to the next one.
Postpone(t) ==
  /\ At(t, "read", "break")
  /\ hand[t].waiting
  /\ queue' = Published({t}, hand[t])
  /\ UNCHANGED <<produced, hand, retrier, stored, dead, failures, crashes>>

Break(t) ==
  /\ At(t, "break", "poll")
  /\ Commit(t)
  /\ NextTopic(t)
  /\ UNCHANGED <<produced, queue, stored, dead, failures, crashes>>

\* Mutant: the way back to the topic counts as another failure.
Republish_Counting(t) ==
  /\ At(t, "read", "ack")
  /\ ~hand[t].waiting /\ hand[t].retries < 2
  /\ queue' = Published(Groups, [hand[t] EXCEPT !.retries = @ + 1])
  /\ UNCHANGED <<produced, hand, retrier, stored, dead, failures, crashes>>

Republish(t) ==
  /\ At(t, "read", "ack")
  /\ ~hand[t].waiting
  /\ queue' = Published(Groups, hand[t])
  /\ UNCHANGED <<produced, hand, retrier, stored, dead, failures, crashes>>

CommitRetry(t) ==
  /\ At(t, "ack", "poll")
  /\ Commit(t)
  /\ UNCHANGED <<produced, queue, retrier, stored, dead, failures, crashes>>

\* The delay of a message elapses.  A cycle compares with the time at which it
\* began, so what elapses during a cycle counts from the next one on.
Elapse(t) ==
  /\ cycle = "idle"
  /\ \E i \in DOMAIN queue[t] :
       /\ queue[t][i].waiting
       /\ queue' = [queue EXCEPT ![t][i].waiting = FALSE]
  /\ UNCHANGED <<produced, hand, pc, retrier, stored, dead, failures, crashes>>

-------------------------------------------------------------------------------
(* A process stops between two steps and is restarted *)

Redelivered(lanes) ==
  /\ hand' = [l \in Lanes |-> IF l \in lanes THEN Nothing ELSE hand[l]]
  /\ queue' = [l \in Lanes |-> IF l \in lanes /\ hand[l] # Nothing
                               THEN <<hand[l]>> \o queue[l] ELSE queue[l]]
  /\ pc' = [l \in Lanes |-> IF l \in lanes THEN "poll" ELSE pc[l]]

CrashConsumer(g) ==
  /\ pc[g] # "poll" /\ crashes < MaxCrashes
  /\ Redelivered({g})
  /\ crashes' = crashes + 1
  /\ UNCHANGED <<produced, retrier, stored, dead, failures>>

CrashRetrier ==
  /\ cycle # "idle" /\ crashes < MaxCrashes
  /\ Redelivered(RetryTopics)
  /\ cycle' = "idle" /\ polled' = 0
  /\ crashes' = crashes + 1
  /\ UNCHANGED <<produced, stored, dead, failures>>

Consume(g) ==
  \/ Poll(g) \/ Skip(g) \/ Lookup(g) \/ Store(g)
  \/ Route(g) \/ Quarantine(g) \/ Ack(g)

Retry(t) ==
  \/ PollRetry(t) \/ LeaveTopic(t) \/ Postpone(t) \/ Break(t) \/ Republish(t)
  \/ CommitRetry(t)

Next ==
  \/ \E e \in Events : Produce(e)
  \/ \E g \in Groups : Consume(g) \/ Fail(g) \/ CrashConsumer(g)
  \/ StartCycle
  \/ \E t \in RetryTopics : Retry(t) \/ Elapse(t)
  \/ CrashRetrier

\* The processes run on, the retry processor begins a cycle again and again,
\* and time passes.  Nothing forces an event, a failure or a crash.
Fairness ==
  /\ \A g \in Groups : WF_vars(Consume(g))
  /\ WF_vars(StartCycle)
  /\ \A t \in RetryTopics : WF_vars(Retry(t)) /\ SF_vars(Elapse(t))

Spec == Init /\ [][Next]_vars
FairSpec == Spec /\ Fairness

-------------------------------------------------------------------------------
(* Properties *)

TypeOK ==
  /\ produced \subseteq Events
  /\ queue \in [Lanes -> Seq(Message)]
  /\ hand \in [Lanes -> Message \cup {Nothing}]
  /\ pc \in [Lanes -> { "poll", "read", "store", "route", "ack", "break" }]
  /\ \A l \in Lanes : (pc[l] = "poll") = (hand[l] = Nothing)
  /\ cycle \in RetryTopics \cup {"idle"} /\ polled \in 0..MaxMessages
  /\ processed \subseteq Events /\ effects \in [Events -> Nat]
  /\ dead \subseteq [event : Events,
                      reason : { "EXCEEDED_MAX_RETRIES", "MALFORMED_EVENT_SCHEMA" }]
  /\ failures \in [Events -> 0..MaxFailures]
  /\ crashes \in 0..MaxCrashes

\* The messages a lane still owes to its consumer.
Owed(l) == ToSet(queue[l]) \cup ({hand[l]} \ {Nothing})

\* An event has one effect, however often it is delivered, retried or fails
\* after its commit (processed_event.py:14 "exactly-once").
EffectOnce == \A e \in Events : effects[e] = IF e \in processed THEN 1 ELSE 0

\* An event whose effect is missing is still on its way to the group it
\* concerns, directly or through a retry topic, or it is a dead letter, and so
\* is an unreadable one: no crash between the publication of a copy and the
\* commit of the original, and no delay, loses it (retry_processor.py:98-118).
NothingLost ==
  \A e \in produced \ processed : Concern[e] # Nobody =>
    \/ \E l \in Lanes :
         /\ Concern[e] \in Groups => l \in RetryTopics \cup {Concern[e]}
         /\ \E m \in Owed(l) : m.event = e
    \/ \E d \in dead : d.event = e

\* x-retry-count never says more failures than there were, so an event becomes
\* a dead letter only when its handler has failed three times or nobody can
\* read it (retry_processor.py:42-74), whatever was delivered twice.
DeadMeansTried ==
  /\ \A l \in Lanes : \A m \in Owed(l) : m.retries <= failures[m.event]
  /\ \A d \in dead : IF Concern[d.event] = Malformed
                     THEN d.reason = "MALFORMED_EVENT_SCHEMA"
                     ELSE d.reason = "EXCEEDED_MAX_RETRIES" /\ failures[d.event] >= 3

\* Every event published ends with its effect or as a dead letter, behind
\* malformed events, failures and messages of the retry topics that are not due.
EverySettled ==
  \A e \in Events :
    e \in produced /\ Concern[e] # Nobody ~> e \in processed \/ \E d \in dead : d.event = e

\* The contract of delivery, seen in the committed rows and the dead letters.
Delivery ==
  INSTANCE DeliveryContract
    WITH Wanted <- { e \in Events : Concern[e] \in Groups },
         Unreadable <- { e \in Events : Concern[e] = Malformed },
         public <- produced, letters <- dead

\* Topics, copies, retries, crashes and redeliveries together do no more to an event
\* than the contract allows: in particular nobody tries an event again that has had
\* its effect, although its copies are still under way (processed_event.py:14
\* "exactly-once").
KeepsDelivery == Delivery!Promise

===============================================================================
