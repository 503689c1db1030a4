--------------------------- MODULE EventPipelineProofs ---------------------------
(***************************************************************************)
(* Proofs about EventPipeline, for any groups, events, backlog and any     *)
(* number of failures and crashes: an event has one effect, none is lost   *)
(* on the way through the retry topics, none is given up too early, and    *)
(* the pipeline implements DeliveryContract.                               *)
(***************************************************************************)
EXTENDS EventPipeline, TLAPS

-------------------------------------------------------------------------------
(* Sequences *)

Has(q, e) == \E i \in DOMAIN q : q[i].event = e

\* Publishing keeps what is in a lane.
LEMMA AppendHas ==
  ASSUME NEW q \in Seq(Message), NEW m \in Message
  PROVE  /\ Append(q, m) \in Seq(Message)
         /\ Has(Append(q, m), m.event)
         /\ \A e : Has(q, e) => Has(Append(q, m), e)
  <1> DEFINE r == Append(q, m)
  <1>1. /\ r \in Seq(Message)
        /\ Len(q) + 1 \in DOMAIN r /\ r[Len(q) + 1] = m
    OBVIOUS
  <1>2. \A i \in DOMAIN q : i \in DOMAIN r /\ r[i] = q[i]
    OBVIOUS
  <1> HIDE DEF r
  <1>3. Has(r, m.event)
    BY <1>1 DEF Has
  <1>4. \A e : Has(q, e) => Has(r, e)
    BY <1>2 DEF Has
  <1>5. QED BY <1>1, <1>3, <1>4 DEF r

\* Delivery takes the head and keeps the rest.
LEMMA TailHas ==
  ASSUME NEW q \in Seq(Message), q # <<>>
  PROVE  /\ Tail(q) \in Seq(Message) /\ Head(q) \in Message
         /\ \A e : Has(q, e) => Head(q).event = e \/ Has(Tail(q), e)
  <1>1. Tail(q) \in Seq(Message) /\ Head(q) \in Message
    OBVIOUS
  <1>2. ASSUME NEW e, Has(q, e) PROVE Head(q).event = e \/ Has(Tail(q), e)
    <2>1. PICK i \in DOMAIN q : q[i].event = e
      BY <1>2 DEF Has
    <2>2. CASE i = 1
      BY <2>1, <2>2
    <2>3. CASE i # 1
      <3>1. i - 1 \in DOMAIN Tail(q) /\ Tail(q)[i - 1] = q[i]
        BY <2>1, <2>3
      <3>2. QED BY <2>1, <3>1 DEF Has
    <2>4. QED BY <2>2, <2>3
  <1>3. QED BY <1>1, <1>2

\* Redelivery puts a message in front of the others.
LEMMA PrependHas ==
  ASSUME NEW q \in Seq(Message), NEW m \in Message
  PROVE  /\ <<m>> \o q \in Seq(Message)
         /\ Has(<<m>> \o q, m.event)
         /\ \A e : Has(q, e) => Has(<<m>> \o q, e)
  <1>1. <<m>> \o q \in Seq(Message)
    OBVIOUS
  <1>2. Has(<<m>> \o q, m.event)
    <2>1. 1 \in DOMAIN (<<m>> \o q) /\ (<<m>> \o q)[1] = m
      OBVIOUS
    <2>2. QED BY <2>1 DEF Has
  <1>3. ASSUME NEW e, Has(q, e) PROVE Has(<<m>> \o q, e)
    <2>1. PICK i \in DOMAIN q : q[i].event = e
      BY <1>3 DEF Has
    <2>2. i + 1 \in DOMAIN (<<m>> \o q) /\ (<<m>> \o q)[i + 1] = q[i]
      BY <2>1
    <2>3. QED BY <2>1, <2>2 DEF Has
  <1>4. QED BY <1>1, <1>2, <1>3

\* The delay of a message elapses in its place.
LEMMA ElapseHas ==
  ASSUME NEW q \in Seq(Message), NEW i \in DOMAIN q
  PROVE  /\ [q EXCEPT ![i].waiting = FALSE] \in Seq(Message)
         /\ \A e : Has(q, e) => Has([q EXCEPT ![i].waiting = FALSE], e)
  <1> DEFINE r == [q EXCEPT ![i].waiting = FALSE]
  <1>1. q[i] \in Message
    OBVIOUS
  <1>2. [q[i] EXCEPT !.waiting = FALSE] \in Message
    BY <1>1 DEF Message
  <1>3. [q[i] EXCEPT !.waiting = FALSE].event = q[i].event
    BY <1>1 DEF Message
  <1>4. DOMAIN r = DOMAIN q /\ r[i] = [q[i] EXCEPT !.waiting = FALSE]
        /\ \A j \in DOMAIN q : j # i => r[j] = q[j]
    OBVIOUS
  <1>5. Len(q) \in Nat /\ DOMAIN q = 1..Len(q) /\ \A j \in DOMAIN q : q[j] \in Message
    OBVIOUS
  <1>6. r \in [1..Len(q) -> Message]
    BY <1>2, <1>4, <1>5
  <1>7. r \in Seq(Message)
    BY <1>5, <1>6
  <1>8. ASSUME NEW e, Has(q, e) PROVE Has(r, e)
    BY <1>3, <1>4, <1>8 DEF Has
  <1>9. QED BY <1>7, <1>8

LEMMA NothingIsNoMessage == Nothing \notin Message
  <1>1. SUFFICES ASSUME Nothing \in Message PROVE FALSE
    OBVIOUS
  <1>2. DOMAIN Nothing = { "event", "retries", "waiting" }
    BY <1>1 DEF Message
  <1>3. DOMAIN Nothing = { "event" }
    BY DEF Nothing
  <1>4. QED BY <1>2, <1>3

-------------------------------------------------------------------------------
(* Types *)

\* The part of TypeOK the proofs rest on; a consumer that handles an event is the
\* one it concerns.
TypeInv ==
  /\ produced \subseteq Events
  /\ queue \in [Lanes -> Seq(Message)]
  /\ hand \in [Lanes -> Message \cup {Nothing}]
  /\ pc \in [Lanes -> { "poll", "read", "store", "route", "ack", "break" }]
  /\ \A l \in Lanes : (pc[l] = "poll") = (hand[l] = Nothing)
  /\ processed \subseteq Events /\ effects \in [Events -> Nat]
  /\ dead \subseteq [event : Events,
                      reason : { "EXCEEDED_MAX_RETRIES", "MALFORMED_EVENT_SCHEMA" }]
  /\ failures \in [Events -> Nat]
  /\ \A g \in Groups : pc[g] \in { "store", "route" } => Concern[hand[g].event] = g

LEMMA LaneTypes == Groups \subseteq Lanes /\ RetryTopics \subseteq Lanes
  BY DEF Lanes

LEMMA FreshTypes == \A e \in Events : Fresh(e) \in Message /\ Fresh(e).event = e
  BY DEF Fresh, Message

\* A publication adds a message at the end of some lanes.
LEMMA PublishedTypes ==
  ASSUME queue \in [Lanes -> Seq(Message)], NEW lanes, NEW m \in Message
  PROVE  /\ Published(lanes, m) \in [Lanes -> Seq(Message)]
         /\ \A l \in Lanes : \A e : Has(queue[l], e) => Has(Published(lanes, m)[l], e)
         /\ \A l \in Lanes : l \in lanes => Has(Published(lanes, m)[l], m.event)
  <1> DEFINE after == Published(lanes, m)
  <1>1. /\ DOMAIN after = Lanes
        /\ \A l \in Lanes : after[l] = IF l \in lanes THEN Append(queue[l], m) ELSE queue[l]
    BY DEF Published
  <1>2. after = [l \in Lanes |-> after[l]]
    BY DEF Published
  <1> HIDE DEF after
  <1>3. ASSUME NEW l \in Lanes
        PROVE  /\ after[l] \in Seq(Message)
               /\ \A e : Has(queue[l], e) => Has(after[l], e)
               /\ l \in lanes => Has(after[l], m.event)
    <2>1. queue[l] \in Seq(Message)
      OBVIOUS
    <2>2. CASE l \in lanes
      BY <1>1, <2>1, <2>2, AppendHas
    <2>3. CASE l \notin lanes
      BY <1>1, <2>1, <2>3
    <2>4. QED BY <2>2, <2>3
  <1>4. QED BY <1>2, <1>3 DEF after

\* A delivery moves the head of the queue to the hand.
LEMMA DeliverTypes ==
  ASSUME TypeInv, NEW l \in Lanes, Deliver(l)
  PROVE  /\ queue' \in [Lanes -> Seq(Message)]
         /\ hand' \in [Lanes -> Message \cup {Nothing}]
         /\ pc' \in [Lanes -> { "poll", "read", "store", "route", "ack", "break" }]
         /\ pc'[l] = "read" /\ hand'[l] = Head(queue[l]) /\ hand'[l] # Nothing
         /\ \A k \in Lanes : k # l => queue'[k] = queue[k] /\ hand'[k] = hand[k] /\ pc'[k] = pc[k]
         /\ \A e : Has(queue[l], e) => hand'[l].event = e \/ Has(queue'[l], e)
  <1>1. queue[l] \in Seq(Message) /\ queue[l] # <<>>
    BY DEF TypeInv, Deliver
  <1>2. /\ Tail(queue[l]) \in Seq(Message) /\ Head(queue[l]) \in Message
        /\ \A e : Has(queue[l], e) => Head(queue[l]).event = e \/ Has(Tail(queue[l]), e)
    BY <1>1, TailHas
  <1>3. /\ queue' = [queue EXCEPT ![l] = Tail(queue[l])]
        /\ hand' = [hand EXCEPT ![l] = Head(queue[l])]
        /\ pc' = [pc EXCEPT ![l] = "read"]
    BY DEF Deliver, At
  <1>4. queue'[l] = Tail(queue[l]) /\ hand'[l] = Head(queue[l]) /\ pc'[l] = "read"
    BY <1>3 DEF TypeInv
  <1>5. Head(queue[l]) # Nothing
    BY <1>2, NothingIsNoMessage
  <1>6. /\ queue' \in [Lanes -> Seq(Message)]
        /\ hand' \in [Lanes -> Message \cup {Nothing}]
        /\ pc' \in [Lanes -> { "poll", "read", "store", "route", "ack", "break" }]
    BY <1>2, <1>3 DEF TypeInv
  <1>7. \A k \in Lanes : k # l => queue'[k] = queue[k] /\ hand'[k] = hand[k] /\ pc'[k] = pc[k]
    BY <1>3 DEF TypeInv
  <1>8. QED BY <1>2, <1>4, <1>5, <1>6, <1>7

\* After a crash the lanes have what they owed before, in their queues.
LEMMA RedeliveredTypes ==
  ASSUME TypeInv, NEW lanes, Redelivered(lanes)
  PROVE  /\ queue' \in [Lanes -> Seq(Message)]
         /\ hand' \in [Lanes -> Message \cup {Nothing}]
         /\ pc' \in [Lanes -> { "poll", "read", "store", "route", "ack", "break" }]
         /\ \A l \in Lanes : l \in lanes => pc'[l] = "poll" /\ hand'[l] = Nothing
         /\ \A l \in Lanes : l \notin lanes =>
              queue'[l] = queue[l] /\ hand'[l] = hand[l] /\ pc'[l] = pc[l]
         /\ \A l \in Lanes : \A e : Has(queue[l], e) => Has(queue'[l], e)
         /\ \A l \in Lanes : l \in lanes /\ pc[l] # "poll" => Has(queue'[l], hand[l].event)
  <1>1. /\ DOMAIN queue' = Lanes /\ queue' = [l \in Lanes |-> queue'[l]]
        /\ \A l \in Lanes : queue'[l] = IF l \in lanes /\ hand[l] # Nothing
                                        THEN <<hand[l]>> \o queue[l] ELSE queue[l]
    BY DEF Redelivered
  <1>2. /\ hand' \in [Lanes -> Message \cup {Nothing}]
        /\ pc' \in [Lanes -> { "poll", "read", "store", "route", "ack", "break" }]
        /\ \A l \in Lanes : l \in lanes => pc'[l] = "poll" /\ hand'[l] = Nothing
        /\ \A l \in Lanes : l \notin lanes => hand'[l] = hand[l] /\ pc'[l] = pc[l]
    BY DEF Redelivered, TypeInv
  <1>3. ASSUME NEW l \in Lanes
        PROVE  /\ queue'[l] \in Seq(Message)
               /\ l \notin lanes => queue'[l] = queue[l]
               /\ \A e : Has(queue[l], e) => Has(queue'[l], e)
               /\ l \in lanes /\ pc[l] # "poll" => Has(queue'[l], hand[l].event)
    <2>1. queue[l] \in Seq(Message) /\ hand[l] \in Message \cup {Nothing}
      BY DEF TypeInv
    <2>2. (pc[l] = "poll") = (hand[l] = Nothing)
      BY DEF TypeInv
    <2>3. CASE l \in lanes /\ hand[l] # Nothing
      <3>1. hand[l] \in Message /\ queue'[l] = <<hand[l]>> \o queue[l]
        BY <1>1, <2>1, <2>3
      <3>2. QED BY <2>1, <2>3, <3>1, PrependHas
    <2>4. CASE ~(l \in lanes /\ hand[l] # Nothing)
      BY <1>1, <2>1, <2>2, <2>4
    <2>5. QED BY <2>3, <2>4
  <1>4. queue' \in [Lanes -> Seq(Message)]
    BY <1>1, <1>3
  <1>5. QED BY <1>2, <1>3, <1>4

\* Where only the queues and one position change.
LEMMA TypeKept ==
  ASSUME TypeInv, queue' \in [Lanes -> Seq(Message)],
         NEW l \in Lanes, NEW to \in { "store", "route", "ack", "break" },
         pc' = [pc EXCEPT ![l] = to], pc[l] # "poll",
         to \in { "store", "route" } /\ l \in Groups => Concern[hand[l].event] = l,
         processed' \subseteq Events, effects' \in [Events -> Nat],
         dead' \subseteq [event : Events,
                           reason : { "EXCEEDED_MAX_RETRIES", "MALFORMED_EVENT_SCHEMA" }],
         failures' \in [Events -> Nat], UNCHANGED <<produced, hand>>
  PROVE  TypeInv'
  <1>1. /\ pc' \in [Lanes -> { "poll", "read", "store", "route", "ack", "break" }]
        /\ pc'[l] = to /\ \A k \in Lanes : k # l => pc'[k] = pc[k]
    BY DEF TypeInv
  <1>2. \A k \in Lanes : (pc'[k] = "poll") = (hand'[k] = Nothing)
    BY <1>1 DEF TypeInv
  <1>3. \A g \in Groups : pc'[g] \in { "store", "route" } => Concern[hand'[g].event] = g
    BY <1>1, LaneTypes DEF TypeInv
  <1>4. QED BY <1>1, <1>2, <1>3 DEF TypeInv

LEMMA CommitTypes ==
  ASSUME TypeInv, NEW l \in Lanes, NEW from, At(l, from, "poll"), Commit(l),
         UNCHANGED <<produced, queue, stored, dead, failures>>
  PROVE  /\ TypeInv'
         /\ pc'[l] = "poll"
         /\ \A k \in Lanes : k # l => hand'[k] = hand[k] /\ pc'[k] = pc[k]
  <1>1. /\ hand' = [hand EXCEPT ![l] = Nothing]
        /\ pc' = [pc EXCEPT ![l] = "poll"]
    BY DEF At, Commit
  <1>2. /\ hand' \in [Lanes -> Message \cup {Nothing}]
        /\ pc' \in [Lanes -> { "poll", "read", "store", "route", "ack", "break" }]
        /\ hand'[l] = Nothing /\ pc'[l] = "poll"
        /\ \A k \in Lanes : k # l => hand'[k] = hand[k] /\ pc'[k] = pc[k]
    BY <1>1 DEF TypeInv
  <1>3. \A k \in Lanes : (pc'[k] = "poll") = (hand'[k] = Nothing)
    BY <1>2 DEF TypeInv
  <1>4. \A g \in Groups : pc'[g] \in { "store", "route" } => Concern[hand'[g].event] = g
    BY <1>2, LaneTypes DEF TypeInv
  <1>5. QED BY <1>2, <1>3, <1>4 DEF TypeInv, stored

\* What a consumer holds while it works on it.
LEMMA HandTypes ==
  ASSUME TypeInv, NEW l \in Lanes, pc[l] # "poll"
  PROVE  /\ hand[l] \in Message /\ hand[l].event \in Events
         /\ hand[l].retries \in 0..2
  <1>1. hand[l] \in Message
    BY DEF TypeInv
  <1>2. QED BY <1>1 DEF Message

LEMMA RecordTypes ==
  ASSUME TypeInv, NEW g \in Groups, pc[g] # "poll", Record(g)
  PROVE  processed' \subseteq Events /\ effects' \in [Events -> Nat]
  <1>1. hand[g].event \in Events
    BY HandTypes, LaneTypes
  <1>2. QED BY <1>1 DEF Record, TypeInv

LEMMA AgainTypes ==
  ASSUME NEW m \in Message, m.retries \in {0, 1}
  PROVE  /\ Again(m) \in Message
         /\ Again(m).event = m.event /\ Again(m).retries = m.retries + 1
  <1>1. m.retries + 1 \in 0..2 /\ m.event \in Events
    BY DEF Message
  <1>2. QED BY <1>1 DEF Again, Message

LEMMA TypeStart == Init => TypeInv
  <1> SUFFICES ASSUME Init PROVE TypeInv
    OBVIOUS
  <1>1. Backlog \in Seq(Events)
    BY PipelineAssumption
  <1>2. produced \subseteq Events
    BY <1>1 DEF Init, ToSet
  <1>3. [i \in DOMAIN Backlog |-> Fresh(Backlog[i])] \in Seq(Message)
    <2>1. \A i \in DOMAIN Backlog : Fresh(Backlog[i]) \in Message
      BY <1>1, FreshTypes
    <2>2. Len(Backlog) \in Nat /\ DOMAIN Backlog = 1..Len(Backlog)
      BY <1>1
    <2>3. [i \in DOMAIN Backlog |-> Fresh(Backlog[i])] \in [1..Len(Backlog) -> Message]
      BY <2>1, <2>2
    <2>4. QED BY <2>2, <2>3
  <1>4. <<>> \in Seq(Message)
    OBVIOUS
  <1>5. queue \in [Lanes -> Seq(Message)]
    BY <1>3, <1>4 DEF Init
  <1>6. QED BY <1>2, <1>5, LaneTypes DEF Init, TypeInv

LEMMA TypeStep == TypeInv /\ [Next]_vars => TypeInv'
  <1> SUFFICES ASSUME TypeInv, [Next]_vars PROVE TypeInv'
    OBVIOUS
  <1> USE LaneTypes DEF transit, stored, retrier
  <1>1. ASSUME NEW e \in Events, Produce(e) PROVE TypeInv'
    <2>1. queue' \in [Lanes -> Seq(Message)]
      BY <1>1, FreshTypes, PublishedTypes DEF Produce, TypeInv
    <2>2. QED BY <1>1, <2>1 DEF Produce, TypeInv
  <1>2. ASSUME NEW l \in Lanes, Deliver(l), UNCHANGED <<produced, stored, dead, failures>>
        PROVE  TypeInv'
    <2>1. \A k \in Lanes : (pc'[k] = "poll") = (hand'[k] = Nothing)
      BY <1>2, DeliverTypes DEF TypeInv
    <2>2. \A g \in Groups : pc'[g] \in { "store", "route" } => Concern[hand'[g].event] = g
      BY <1>2, DeliverTypes DEF TypeInv
    <2>3. QED BY <1>2, <2>1, <2>2, DeliverTypes DEF TypeInv
  <1>3. ASSUME NEW g \in Groups, Skip(g) PROVE TypeInv'
    <2>1. Tail(queue[g]) \in Seq(Message)
      BY <1>3, TailHas DEF Skip, TypeInv
    <2>2. queue' \in [Lanes -> Seq(Message)]
      BY <1>3, <2>1 DEF Skip, TypeInv
    <2>3. QED BY <1>3, <2>2 DEF Skip, TypeInv
  <1>4. ASSUME NEW g \in Groups, Lookup(g) PROVE TypeInv'
    <2>1. /\ pc[g] = "read" /\ Concern[hand[g].event] = g
          /\ UNCHANGED <<produced, queue, hand, processed, effects, dead, failures>>
      BY <1>4 DEF Lookup
    <2>2. PICK to \in { "ack", "store" } : pc' = [pc EXCEPT ![g] = to]
      BY <1>4 DEF Lookup
    <2>3. QED BY <2>1, <2>2, TypeKept DEF TypeInv
  <1>5. ASSUME NEW g \in Groups, Store(g) PROVE TypeInv'
    <2>1. /\ pc[g] = "store" /\ pc' = [pc EXCEPT ![g] = "ack"] /\ Record(g)
          /\ UNCHANGED <<produced, queue, hand, dead, failures>>
      BY <1>5 DEF Store, At
    <2>2. processed' \subseteq Events /\ effects' \in [Events -> Nat]
      BY <2>1, RecordTypes
    <2>3. QED BY <2>1, <2>2, TypeKept DEF TypeInv
  <1>6. ASSUME NEW g \in Groups, Fail(g) PROVE TypeInv'
    <2>1. /\ pc[g] = "store" /\ pc' = [pc EXCEPT ![g] = "route"]
          /\ UNCHANGED <<processed, effects>> \/ Record(g)
          /\ failures' = [failures EXCEPT ![hand[g].event] = @ + 1]
          /\ UNCHANGED <<produced, queue, hand, dead>>
      BY <1>6 DEF Fail, At
    <2>2. processed' \subseteq Events /\ effects' \in [Events -> Nat]
      BY <2>1, RecordTypes DEF TypeInv
    <2>3. failures' \in [Events -> Nat]
      <3>1. hand[g].event \in Events
        BY <2>1, HandTypes
      <3>2. failures[hand[g].event] + 1 \in Nat
        BY <3>1 DEF TypeInv
      <3>3. QED BY <2>1, <3>1, <3>2 DEF TypeInv
    <2>4. Concern[hand[g].event] = g
      BY <2>1 DEF TypeInv
    <2>5. QED BY <2>1, <2>2, <2>3, <2>4, TypeKept DEF TypeInv
  <1>7. ASSUME NEW g \in Groups, Route(g) PROVE TypeInv'
    <2>1. /\ pc[g] = "route" /\ pc' = [pc EXCEPT ![g] = "ack"]
          /\ UNCHANGED <<produced, hand, processed, effects, failures>>
      BY <1>7 DEF Route, At
    <2>2. hand[g] \in Message /\ hand[g].event \in Events
      BY <2>1, HandTypes
    <2>3. queue' \in [Lanes -> Seq(Message)]
      <3>1. CASE hand[g].retries \in {0, 1}
        <4>1. Again(hand[g]) \in Message
          BY <2>2, <3>1, AgainTypes
        <4>2. \E lanes : queue' = Published(lanes, Again(hand[g]))
          BY <1>7, <3>1 DEF Route
        <4>3. QED BY <4>1, <4>2, PublishedTypes DEF TypeInv
      <3>2. CASE hand[g].retries \notin {0, 1}
        BY <1>7, <3>2 DEF Route, TypeInv
      <3>3. QED BY <3>1, <3>2
    <2>4. dead' \subseteq [event : Events,
                            reason : { "EXCEEDED_MAX_RETRIES", "MALFORMED_EVENT_SCHEMA" }]
      BY <1>7, <2>2 DEF Route, TypeInv
    <2>5. QED BY <2>1, <2>3, <2>4, TypeKept DEF TypeInv
  <1>8. ASSUME NEW g \in Groups, Quarantine(g) PROVE TypeInv'
    <2>1. /\ pc[g] = "read" /\ pc' = [pc EXCEPT ![g] = "ack"]
          /\ UNCHANGED <<produced, queue, hand, processed, effects, failures>>
      BY <1>8 DEF Quarantine, At
    <2>2. dead' \subseteq [event : Events,
                            reason : { "EXCEEDED_MAX_RETRIES", "MALFORMED_EVENT_SCHEMA" }]
      BY <1>8, <2>1, HandTypes DEF Quarantine, TypeInv
    <2>3. QED BY <2>1, <2>2, TypeKept DEF TypeInv
  <1>9. ASSUME NEW g \in Groups, Ack(g) PROVE TypeInv'
    BY <1>9, CommitTypes DEF Ack
  <1>10. CASE StartCycle
    BY <1>10 DEF StartCycle, TypeInv
  <1>11. ASSUME NEW t \in RetryTopics, LeaveTopic(t) PROVE TypeInv'
    BY <1>11 DEF LeaveTopic, TypeInv
  <1>12. ASSUME NEW t \in RetryTopics, Break(t) \/ CommitRetry(t) PROVE TypeInv'
    BY <1>12, CommitTypes DEF Break, CommitRetry
  <1>13. ASSUME NEW t \in RetryTopics, Postpone(t) \/ Republish(t) PROVE TypeInv'
    <2>1. /\ pc[t] = "read"
          /\ UNCHANGED <<produced, hand, processed, effects, dead, failures>>
      BY <1>13 DEF Postpone, Republish, At
    <2>2. PICK to \in { "ack", "break" } : pc' = [pc EXCEPT ![t] = to]
      BY <1>13 DEF Postpone, Republish, At
    <2>3. queue' \in [Lanes -> Seq(Message)]
      BY <1>13, <2>1, HandTypes, PublishedTypes DEF Postpone, Republish, TypeInv
    <2>4. QED BY <2>1, <2>2, <2>3, TypeKept DEF TypeInv
  <1>14. ASSUME NEW t \in RetryTopics, Elapse(t) PROVE TypeInv'
    <2>1. PICK i \in DOMAIN queue[t] : queue' = [queue EXCEPT ![t][i].waiting = FALSE]
      BY <1>14 DEF Elapse
    <2>2. [queue[t] EXCEPT ![i].waiting = FALSE] \in Seq(Message)
      BY <2>1, ElapseHas DEF TypeInv
    <2>3. queue' \in [Lanes -> Seq(Message)]
      BY <2>1, <2>2 DEF TypeInv
    <2>4. QED BY <1>14, <2>3 DEF Elapse, TypeInv
  <1>15. ASSUME NEW lanes, Redelivered(lanes), UNCHANGED <<produced, stored, dead, failures>>
         PROVE  TypeInv'
    <2>1. \A k \in Lanes : (pc'[k] = "poll") = (hand'[k] = Nothing)
      BY <1>15, RedeliveredTypes DEF TypeInv
    <2>2. \A g \in Groups : pc'[g] \in { "store", "route" } => Concern[hand'[g].event] = g
      BY <1>15, RedeliveredTypes DEF TypeInv
    <2>3. QED BY <1>15, <2>1, <2>2, RedeliveredTypes DEF TypeInv
  <1>16. CASE UNCHANGED vars
    BY <1>16 DEF vars, TypeInv
  <1>17. QED
    BY <1>1, <1>2, <1>3, <1>4, <1>5, <1>6, <1>7, <1>8, <1>9, <1>10, <1>11, <1>12, <1>13, <1>14,
       <1>15, <1>16
    DEF Next, Consume, Retry, Poll, PollRetry, CrashConsumer, CrashRetrier

-------------------------------------------------------------------------------
(* One effect *)

LEMMA OnceStep == TypeInv /\ EffectOnce /\ [Next]_vars => EffectOnce'
  <1> SUFFICES ASSUME TypeInv, EffectOnce, [Next]_vars PROVE EffectOnce'
    OBVIOUS
  <1>1. ASSUME NEW g \in Groups, Record(g) PROVE EffectOnce'
    <2> DEFINE e == hand[g].event
    <2>1. /\ e \notin processed /\ processed' = processed \cup {e}
          /\ effects' = [effects EXCEPT ![e] = @ + 1]
      BY <1>1 DEF Record
    <2> HIDE DEF e
    <2>2. ASSUME NEW f \in Events PROVE effects'[f] = IF f \in processed' THEN 1 ELSE 0
      <3>1. effects[f] = IF f \in processed THEN 1 ELSE 0
        BY DEF EffectOnce
      <3>2. CASE f = e
        BY <2>1, <3>1, <3>2 DEF TypeInv
      <3>3. CASE f # e
        BY <2>1, <3>1, <3>3 DEF TypeInv
      <3>4. QED BY <3>2, <3>3
    <2>3. QED BY <2>2 DEF EffectOnce
  <1>2. CASE UNCHANGED stored
    BY <1>2 DEF stored, EffectOnce
  <1>3. UNCHANGED stored \/ \E g \in Groups : Record(g)
    BY DEF Next, Consume, Retry, vars, Produce, Poll, Skip, Lookup, Store, Fail, Route, Quarantine,
           Ack, StartCycle, PollRetry, LeaveTopic, Postpone, Break, Republish, CommitRetry,
           Elapse, CrashConsumer, CrashRetrier
  <1>4. QED BY <1>1, <1>2, <1>3

-------------------------------------------------------------------------------
(* Nothing is lost *)

Admits(l, e) == Concern[e] \in Groups => l \in RetryTopics \cup {Concern[e]}

\* A copy that its consumer still has to deal with: the copy in the hand of a
\* consumer that only has to commit it has been dealt with.
Alive(e) ==
  \E l \in Lanes :
    /\ Admits(l, e)
    /\ \/ Has(queue[l], e)
       \/ pc[l] \in { "read", "store", "route" } /\ hand[l].event = e

Buried(e) == \E d \in dead : d.event = e

LossInv ==
  \A e \in produced : Concern[e] # Nobody => e \in processed \/ Alive(e) \/ Buried(e)

\* It is enough that no lane loses an event of its own.
LEMMA LossKept ==
  ASSUME LossInv,
         \A e \in produced' : e \in produced \/ Alive(e)',
         processed \subseteq processed', dead \subseteq dead',
         \A e \in produced, l \in Lanes :
           /\ Concern[e] # Nobody /\ Admits(l, e)
           /\ Has(queue[l], e) \/ (pc[l] \in { "read", "store", "route" } /\ hand[l].event = e)
           => e \in processed' \/ Alive(e)' \/ Buried(e)'
  PROVE  LossInv'
  <1> SUFFICES ASSUME NEW e \in produced', Concern[e] # Nobody, ~Alive(e)'
               PROVE  e \in processed' \/ Buried(e)'
    BY DEF LossInv
  <1>1. e \in produced /\ (e \in processed \/ Alive(e) \/ Buried(e))
    BY DEF LossInv
  <1>2. CASE Alive(e)
    BY <1>1, <1>2 DEF Alive
  <1>3. CASE ~Alive(e)
    BY <1>1, <1>3 DEF Buried
  <1>4. QED BY <1>2, <1>3

\* A lane whose queue keeps what it had and whose consumer stays where it is loses
\* nothing.
LEMMA LaneKept ==
  ASSUME NEW e, NEW l \in Lanes, Admits(l, e),
         \/ Has(queue[l], e) /\ Has(queue'[l], e)
         \/ /\ pc[l] \in { "read", "store", "route" } /\ hand[l].event = e
            /\ pc'[l] \in { "read", "store", "route" } /\ hand'[l].event = e
  PROVE  Alive(e)'
  BY DEF Alive, Admits

\* A consumer that has dealt with a message may leave it to be committed.
LEMMA LossHandled ==
  ASSUME TypeInv, LossInv, NEW l \in Lanes, NEW to, pc' = [pc EXCEPT ![l] = to],
         UNCHANGED <<produced, hand>>, processed \subseteq processed', dead \subseteq dead',
         \A k \in Lanes : \A f : Has(queue[k], f) => Has(queue'[k], f),
         \/ to \in { "store", "route" } \/ pc[l] \notin { "read", "store", "route" }
         \/ Admits(l, hand[l].event) => \/ hand[l].event \in processed'
                                        \/ Alive(hand[l].event)' \/ Buried(hand[l].event)'
  PROVE  LossInv'
  <1>1. pc'[l] = to /\ \A k \in Lanes : k # l => pc'[k] = pc[k]
    BY DEF TypeInv
  <1>2. ASSUME NEW e \in produced, NEW k \in Lanes, Admits(k, e),
               Has(queue[k], e) \/ (pc[k] \in { "read", "store", "route" } /\ hand[k].event = e)
        PROVE  e \in processed' \/ Alive(e)' \/ Buried(e)'
    <2>1. CASE Has(queue[k], e)
      BY <1>2, <2>1, LaneKept
    <2>2. CASE pc[k] \in { "read", "store", "route" } /\ hand[k].event = e /\ k # l
      BY <1>1, <1>2, <2>2, LaneKept
    <2>3. CASE pc[l] \in { "read", "store", "route" } /\ hand[l].event = e /\ k = l
      BY <1>1, <1>2, <2>3, LaneKept
    <2>4. QED BY <1>2, <2>1, <2>2, <2>3
  <1>3. QED BY <1>2, LossKept

\* A dead letter says which event it was.
LEMMA LetterBuries ==
  ASSUME NEW e, NEW reason, dead' = dead \cup {[event |-> e, reason |-> reason]}
  PROVE  Buried(e)'
  <1> DEFINE letter == [event |-> e, reason |-> reason]
  <1>1. letter.event = e /\ letter \in dead'
    OBVIOUS
  <1> HIDE DEF letter
  <1>2. \E d \in dead' : d.event = e
    BY <1>1
  <1>3. QED BY <1>2 DEF Buried

LEMMA LossStep == TypeInv /\ LossInv /\ [Next]_vars => LossInv'
  <1> SUFFICES ASSUME TypeInv, LossInv, [Next]_vars PROVE LossInv'
    OBVIOUS
  <1> USE LaneTypes DEF transit, stored, retrier
  <1>1. ASSUME NEW e \in Events, Produce(e) PROVE LossInv'
    <2>1. /\ queue' = Published(Groups, Fresh(e)) /\ produced' = produced \cup {e}
          /\ UNCHANGED <<hand, pc, processed, dead>>
      BY <1>1 DEF Produce
    <2>2. /\ \A l \in Lanes : \A f : Has(queue[l], f) => Has(queue'[l], f)
          /\ \A l \in Lanes : l \in Groups => Has(queue'[l], e)
      <3>1. Fresh(e) \in Message /\ Fresh(e).event = e /\ queue \in [Lanes -> Seq(Message)]
        BY FreshTypes DEF TypeInv
      <3>2. /\ \A l \in Lanes : \A f : Has(queue[l], f) => Has(Published(Groups, Fresh(e))[l], f)
            /\ \A l \in Lanes : l \in Groups => Has(Published(Groups, Fresh(e))[l], Fresh(e).event)
        BY <3>1, PublishedTypes
      <3>3. QED BY <2>1, <3>1, <3>2
    <2>3. Alive(e)'
      <3>1. PICK g \in Groups : Concern[e] \in Groups => g = Concern[e]
        BY PipelineAssumption
      <3>2. QED BY <2>2, <3>1 DEF Alive, Admits
    <2>4. QED BY <2>1, <2>2, <2>3, LossKept, LaneKept
  <1>2. ASSUME NEW l \in Lanes, Deliver(l), UNCHANGED <<produced, stored, dead>>
        PROVE  LossInv'
    <2>1. ASSUME NEW e \in produced, NEW k \in Lanes, Admits(k, e),
                 Has(queue[k], e) \/ (pc[k] \in { "read", "store", "route" } /\ hand[k].event = e)
          PROVE  Alive(e)'
      <3>1. CASE k # l
        BY <1>2, <2>1, <3>1, DeliverTypes, LaneKept
      <3>2. CASE k = l
        <4>1. Has(queue[l], e)
          BY <1>2, <2>1, <3>2 DEF Deliver, At
        <4>2. hand'[l].event = e \/ Has(queue'[l], e)
          BY <1>2, <4>1, DeliverTypes
        <4>3. pc'[l] = "read"
          BY <1>2, DeliverTypes
        <4>4. QED BY <2>1, <3>2, <4>2, <4>3 DEF Alive, Admits
      <3>3. QED BY <3>1, <3>2
    <2>2. QED BY <1>2, <2>1, LossKept
  <1>3. ASSUME NEW g \in Groups, Skip(g) PROVE LossInv'
    <2>1. /\ queue[g] # <<>> /\ Concern[Head(queue[g]).event] \notin {g, Malformed}
          /\ queue' = [queue EXCEPT ![g] = Tail(queue[g])]
          /\ UNCHANGED <<produced, hand, pc, processed, dead>>
      BY <1>3 DEF Skip
    <2>2. ASSUME NEW e \in produced, NEW k \in Lanes, Concern[e] # Nobody, Admits(k, e),
                 Has(queue[k], e) \/ (pc[k] \in { "read", "store", "route" } /\ hand[k].event = e)
          PROVE  Alive(e)'
      <3>1. CASE k # g \/ ~Has(queue[k], e)
        BY <2>1, <2>2, <3>1, LaneKept DEF TypeInv
      <3>2. CASE k = g /\ Has(queue[k], e)
        <4>1. Head(queue[g]).event # e
          BY <2>1, <2>2, <3>2, PipelineAssumption DEF Admits, TypeInv
        <4>2. queue'[g] = Tail(queue[g])
          BY <2>1 DEF TypeInv
        <4>3. Has(queue'[g], e)
          BY <2>1, <3>2, <4>1, <4>2, TailHas DEF TypeInv
        <4>4. QED BY <2>2, <3>2, <4>3, LaneKept
      <3>3. QED BY <3>1, <3>2
    <2>3. QED BY <2>1, <2>2, LossKept
  <1>4. ASSUME NEW g \in Groups, Lookup(g) PROVE LossInv'
    <2>1. UNCHANGED <<produced, queue, hand, processed, dead>>
      BY <1>4 DEF Lookup
    <2>2. PICK to \in { "ack", "store" } :
            pc' = [pc EXCEPT ![g] = to] /\ (to = "ack" => hand[g].event \in processed)
      BY <1>4 DEF Lookup
    <2>3. QED BY <2>1, <2>2, LossHandled
  <1>5. ASSUME NEW g \in Groups, Store(g) PROVE LossInv'
    <2>1. /\ pc' = [pc EXCEPT ![g] = "ack"] /\ UNCHANGED <<produced, queue, hand, dead>>
          /\ processed' = processed \cup {hand[g].event}
      BY <1>5 DEF Store, At, Record
    <2>2. QED BY <2>1, LossHandled
  <1>6. ASSUME NEW g \in Groups, Fail(g) PROVE LossInv'
    <2>1. /\ pc' = [pc EXCEPT ![g] = "route"] /\ UNCHANGED <<produced, queue, hand, dead>>
          /\ processed \subseteq processed'
      BY <1>6 DEF Fail, At, Record
    <2>2. QED BY <2>1, LossHandled
  <1>7. ASSUME NEW g \in Groups, Route(g) PROVE LossInv'
    <2>1. /\ pc[g] = "route" /\ pc' = [pc EXCEPT ![g] = "ack"]
          /\ UNCHANGED <<produced, hand, processed>> /\ dead \subseteq dead'
      BY <1>7 DEF Route, At
    <2>2. hand[g] \in Message
      BY <2>1, HandTypes
    <2>3. CASE hand[g].retries \in {0, 1}
      <3>1. PICK t \in RetryTopics : queue' = Published({t}, Again(hand[g]))
        BY <1>7, <2>3 DEF Route, RetryTopics
      <3>2. /\ \A k \in Lanes : \A f : Has(queue[k], f) => Has(queue'[k], f)
            /\ Has(queue'[t], hand[g].event)
        BY <2>2, <2>3, <3>1, AgainTypes, PublishedTypes DEF TypeInv
      <3>3. Alive(hand[g].event)'
        BY <2>1, <3>2 DEF Alive, Admits
      <3>4. QED BY <2>1, <3>2, <3>3, LossHandled
    <2>4. CASE hand[g].retries \notin {0, 1}
      <3>1. /\ queue' = queue
            /\ dead' = dead \cup {[event |-> hand[g].event, reason |-> "EXCEEDED_MAX_RETRIES"]}
        BY <1>7, <2>4 DEF Route
      <3>2. Buried(hand[g].event)'
        BY <2>1, <3>1, LetterBuries DEF Buried
      <3>3. QED BY <2>1, <3>1, <3>2, LossHandled
    <2>5. QED BY <2>3, <2>4
  <1>8. ASSUME NEW g \in Groups, Quarantine(g) PROVE LossInv'
    <2>1. /\ pc' = [pc EXCEPT ![g] = "ack"]
          /\ UNCHANGED <<produced, queue, hand, processed>>
          /\ dead' = dead \cup {[event |-> hand[g].event, reason |-> "MALFORMED_EVENT_SCHEMA"]}
      BY <1>8 DEF Quarantine, At
    <2>2. Buried(hand[g].event)'
      BY <2>1, LetterBuries DEF Buried
    <2>3. QED BY <2>1, <2>2, LossHandled
  <1>9. ASSUME NEW l \in Lanes, NEW from \in { "ack", "break" }, At(l, from, "poll"), Commit(l),
               UNCHANGED <<produced, queue, stored, dead, failures>>
        PROVE  LossInv'
    <2>1. /\ pc[l] \notin { "read", "store", "route" }
          /\ \A k \in Lanes : k # l => hand'[k] = hand[k] /\ pc'[k] = pc[k]
      BY <1>9, CommitTypes DEF At
    <2>2. ASSUME NEW e \in produced, NEW k \in Lanes, Admits(k, e),
                 Has(queue[k], e) \/ (pc[k] \in { "read", "store", "route" } /\ hand[k].event = e)
          PROVE  Alive(e)'
      BY <1>9, <2>1, <2>2, LaneKept
    <2>3. QED BY <1>9, <2>2, LossKept
  <1>10. CASE UNCHANGED <<produced, queue, hand, pc, processed, dead>>
    BY <1>10 DEF LossInv, Alive, Buried, Admits
  <1>11. ASSUME NEW t \in RetryTopics, Postpone(t) \/ Republish(t) PROVE LossInv'
    <2>1. /\ pc[t] = "read" /\ UNCHANGED <<produced, hand, processed, dead>>
      BY <1>11 DEF Postpone, Republish, At
    <2>2. hand[t] \in Message
      BY <2>1, HandTypes
    <2>3. PICK to, lanes : /\ pc' = [pc EXCEPT ![t] = to] /\ queue' = Published(lanes, hand[t])
                           /\ lanes = {t} \/ lanes = Groups
      BY <1>11 DEF Postpone, Republish, At
    <2>4. /\ \A k \in Lanes : \A f : Has(queue[k], f) => Has(queue'[k], f)
          /\ \A k \in Lanes : k \in lanes => Has(queue'[k], hand[t].event)
      BY <2>2, <2>3, PublishedTypes DEF TypeInv
    <2>5. \E k \in Lanes : k \in lanes /\ Admits(k, hand[t].event)
      <3>1. CASE lanes = {t}
        BY <3>1 DEF Admits
      <3>2. CASE lanes = Groups
        BY <3>2, PipelineAssumption DEF Admits
      <3>3. QED BY <2>3, <3>1, <3>2
    <2>6. Alive(hand[t].event)'
      BY <2>1, <2>4, <2>5 DEF Alive, Admits
    <2>7. QED BY <2>1, <2>3, <2>4, <2>6, LossHandled
  <1>12. ASSUME NEW t \in RetryTopics, Elapse(t) PROVE LossInv'
    <2>1. PICK i \in DOMAIN queue[t] :
            queue' = [queue EXCEPT ![t] = [queue[t] EXCEPT ![i].waiting = FALSE]]
      BY <1>12 DEF Elapse
    <2> DEFINE after == [queue[t] EXCEPT ![i].waiting = FALSE]
    <2>2. \A f : Has(queue[t], f) => Has(after, f)
      BY <2>1, ElapseHas DEF TypeInv
    <2>3. queue' = [queue EXCEPT ![t] = after]
      BY <2>1
    <2> HIDE DEF after
    <2>4. UNCHANGED <<produced, hand, pc, processed, dead>>
      BY <1>12 DEF Elapse
    <2>5. \A k \in Lanes : \A f : Has(queue[k], f) => Has(queue'[k], f)
      BY <2>2, <2>3 DEF TypeInv
    <2>6. QED BY <2>4, <2>5, LossKept, LaneKept
  <1>13. ASSUME NEW lanes, Redelivered(lanes), UNCHANGED <<produced, stored, dead>>
         PROVE  LossInv'
    <2>1. ASSUME NEW e \in produced, NEW k \in Lanes, Admits(k, e),
                 Has(queue[k], e) \/ (pc[k] \in { "read", "store", "route" } /\ hand[k].event = e)
          PROVE  Alive(e)'
      <3>1. CASE Has(queue[k], e)
        BY <1>13, <2>1, <3>1, RedeliveredTypes, LaneKept
      <3>2. CASE pc[k] \in { "read", "store", "route" } /\ hand[k].event = e /\ k \in lanes
        BY <1>13, <2>1, <3>2, RedeliveredTypes DEF Alive, Admits
      <3>3. CASE pc[k] \in { "read", "store", "route" } /\ hand[k].event = e /\ k \notin lanes
        BY <1>13, <2>1, <3>3, RedeliveredTypes, LaneKept
      <3>4. QED BY <2>1, <3>1, <3>2, <3>3
    <2>2. QED BY <1>13, <2>1, LossKept
  <1>14. ASSUME NEW t \in RetryTopics, Break(t) \/ CommitRetry(t) PROVE LossInv'
    BY <1>9, <1>14 DEF Break, CommitRetry
  <1>15. ASSUME NEW g \in Groups, Ack(g) PROVE LossInv'
    BY <1>9, <1>15 DEF Ack
  <1>16. CASE StartCycle \/ (\E t \in RetryTopics : LeaveTopic(t)) \/ UNCHANGED vars
    BY <1>10, <1>16 DEF StartCycle, LeaveTopic, vars
  <1>17. QED
    BY <1>1, <1>2, <1>3, <1>4, <1>5, <1>6, <1>7, <1>8, <1>11, <1>12, <1>13, <1>14, <1>15, <1>16
    DEF Next, Consume, Retry, Poll, PollRetry, CrashConsumer, CrashRetrier

-------------------------------------------------------------------------------
(* Nothing is given up too early *)

\* The messages of events that were published, which say no more failures than
\* there were.
Fine == { m \in Message : m.event \in produced /\ m.retries <= failures[m.event] }

TriedInv ==
  /\ \A l \in Lanes : queue[l] \in Seq(Fine)
  /\ \A l \in Lanes : pc[l] # "poll" => hand[l] \in Fine
  /\ \A g \in Groups : pc[g] = "route" => hand[g].retries < failures[hand[g].event]
  /\ \A d \in dead : IF Concern[d.event] = Malformed
                     THEN d.reason = "MALFORMED_EVENT_SCHEMA"
                     ELSE d.reason = "EXCEEDED_MAX_RETRIES" /\ failures[d.event] >= 3

LEMMA SeqGrows ==
  ASSUME NEW S, NEW T, S \subseteq T, NEW q \in Seq(S)
  PROVE  q \in Seq(T)
  OBVIOUS

\* Failures are only counted up.
LEMMA TriedHandled ==
  ASSUME TypeInv, TypeInv', TriedInv, NEW l \in Lanes, NEW to, pc' = [pc EXCEPT ![l] = to],
         pc[l] # "poll", UNCHANGED <<hand, failures, produced>>,
         \A k \in Lanes : queue'[k] \in Seq(Fine),
         to = "route" /\ l \in Groups => hand[l].retries < failures[hand[l].event],
         \A d \in dead' \ dead :
            IF Concern[d.event] = Malformed
            THEN d.reason = "MALFORMED_EVENT_SCHEMA"
            ELSE d.reason = "EXCEEDED_MAX_RETRIES" /\ failures[d.event] >= 3
  PROVE  TriedInv'
  <1>1. Fine' = Fine
    BY DEF Fine
  <1>2. pc'[l] = to /\ \A k \in Lanes : k # l => pc'[k] = pc[k]
    BY DEF TypeInv
  <1>3. \A k \in Lanes : pc'[k] # "poll" => hand'[k] \in Fine
    BY <1>2 DEF TriedInv
  <1>4. \A g \in Groups : pc'[g] = "route" => hand'[g].retries < failures'[hand'[g].event]
    BY <1>2, LaneTypes DEF TriedInv
  <1>5. QED BY <1>1, <1>3, <1>4 DEF TriedInv

LEMMA TriedStep == TypeInv /\ TypeInv' /\ TriedInv /\ [Next]_vars => TriedInv'
  <1> SUFFICES ASSUME TypeInv, TypeInv', TriedInv, [Next]_vars PROVE TriedInv'
    OBVIOUS
  <1> USE LaneTypes DEF transit, stored, retrier
  <1>0. /\ \A l \in Lanes : queue[l] \in Seq(Fine)
        /\ \A l \in Lanes : pc[l] # "poll" => hand[l] \in Fine
    BY DEF TriedInv
  <1>p. ASSUME NEW lanes, NEW m \in Fine
        PROVE  \A l \in Lanes : Published(lanes, m)[l] \in Seq(Fine)
    BY <1>0 DEF Published
  <1>1. ASSUME NEW e \in Events, Produce(e) PROVE TriedInv'
    <2>1. /\ queue' = Published(Groups, Fresh(e)) /\ produced' = produced \cup {e}
          /\ UNCHANGED <<hand, pc, dead, failures>>
      BY <1>1 DEF Produce
    <2>2. Fresh(e) \in Fine' /\ Fine \subseteq Fine'
      BY <2>1, FreshTypes DEF Fresh, Fine, TypeInv
    <2>3. \A l \in Lanes : queue[l] \in Seq(Fine')
      BY <1>0, <2>2, SeqGrows
    <2>4. \A l \in Lanes : queue'[l] \in Seq(Fine')
      BY <2>1, <2>2, <2>3 DEF Published
    <2>5. QED BY <2>1, <2>2, <2>4 DEF TriedInv
  <1>2. ASSUME NEW l \in Lanes, Deliver(l), UNCHANGED <<produced, dead, failures>>
        PROVE  TriedInv'
    <2>1. queue[l] \in Seq(Fine) /\ queue[l] # <<>>
      BY <1>0, <1>2 DEF Deliver
    <2>2. Head(queue[l]) \in Fine /\ Tail(queue[l]) \in Seq(Fine)
      BY <2>1
    <2>3. queue'[l] = Tail(queue[l])
      BY <1>2 DEF Deliver, TypeInv
    <2>4. /\ \A k \in Lanes : queue'[k] \in Seq(Fine)
          /\ \A k \in Lanes : pc'[k] # "poll" => hand'[k] \in Fine
          /\ \A g \in Groups : pc'[g] = "route" => pc[g] = "route" /\ hand'[g] = hand[g]
      BY <1>0, <1>2, <2>2, <2>3, DeliverTypes
    <2>5. QED BY <1>2, <2>4 DEF TriedInv, Fine
  <1>3. ASSUME NEW g \in Groups, Skip(g) PROVE TriedInv'
    <2>1. queue[g] \in Seq(Fine) /\ queue[g] # <<>>
      BY <1>0, <1>3 DEF Skip
    <2>2. Tail(queue[g]) \in Seq(Fine)
      BY <2>1
    <2>3. \A k \in Lanes : queue'[k] \in Seq(Fine)
      BY <1>0, <1>3, <2>2 DEF Skip, TypeInv
    <2>4. QED BY <1>3, <2>3 DEF Skip, TriedInv, Fine
  <1>4. ASSUME NEW g \in Groups, Lookup(g) \/ Store(g) PROVE TriedInv'
    <2>1. pc[g] # "poll" /\ UNCHANGED <<produced, queue, hand, dead, failures>>
      BY <1>4 DEF Lookup, Store, At
    <2>2. PICK to \in { "ack", "store" } : pc' = [pc EXCEPT ![g] = to]
      BY <1>4 DEF Lookup, Store, At
    <2>3. QED BY <1>0, <2>1, <2>2, TriedHandled
  <1>5. ASSUME NEW g \in Groups, Fail(g) PROVE TriedInv'
    <2> DEFINE e == hand[g].event
    <2>1. /\ pc[g] = "store" /\ pc' = [pc EXCEPT ![g] = "route"]
          /\ failures' = [failures EXCEPT ![e] = @ + 1]
          /\ UNCHANGED <<produced, queue, hand, dead>>
      BY <1>5 DEF Fail, At
    <2>2. hand[g] \in Fine /\ e \in Events
      BY <1>0, <2>1, HandTypes
    <2>3. /\ failures'[e] = failures[e] + 1
          /\ \A f \in Events : failures[f] \in Nat /\ failures[f] <= failures'[f]
      BY <2>1, <2>2 DEF TypeInv
    <2>4. Fine \subseteq Fine'
      <3>1. ASSUME NEW m \in Fine PROVE m \in Fine'
        <4>1. m \in Message /\ m.event \in produced /\ m.retries <= failures[m.event]
          BY DEF Fine
        <4>2. m.event \in Events /\ m.retries \in 0..2
          BY <4>1 DEF Message
        <4>3. failures'[m.event] \in Nat
          BY <4>2 DEF TypeInv
        <4>4. m.retries <= failures'[m.event]
          BY <2>3, <4>1, <4>2, <4>3
        <4>5. QED BY <2>1, <4>1, <4>4 DEF Fine
      <3>2. QED BY <3>1
    <2>5. \A l \in Lanes : queue'[l] \in Seq(Fine')
      BY <1>0, <2>1, <2>4, SeqGrows
    <2>6. \A l \in Lanes : pc'[l] # "poll" => hand'[l] \in Fine'
      BY <1>0, <2>1, <2>4 DEF TypeInv
    <2>7. \A k \in Groups : pc'[k] = "route" => hand'[k].retries < failures'[hand'[k].event]
      <3>1. ASSUME NEW k \in Groups, pc'[k] = "route", k # g
            PROVE  hand'[k].retries < failures'[hand'[k].event]
        <4>1. pc[k] = "route" /\ hand'[k] = hand[k]
          BY <2>1, <3>1 DEF TypeInv
        <4>2. hand[k].event \in Events /\ hand[k].retries \in 0..2
          BY <4>1, HandTypes
        <4>3. hand[k].retries < failures[hand[k].event]
          BY <4>1 DEF TriedInv
        <4>4. failures'[hand[k].event] \in Nat
          BY <4>2 DEF TypeInv
        <4>5. QED BY <2>3, <4>1, <4>2, <4>3, <4>4
      <3>2. hand'[g].retries < failures'[hand'[g].event]
        <4>1. hand[g].retries <= failures[e] /\ hand[g].retries \in 0..2
          BY <2>1, <2>2, HandTypes DEF Fine
        <4>2. QED BY <2>1, <2>2, <2>3, <4>1
      <3>3. QED BY <3>1, <3>2
    <2>8. ASSUME NEW d \in dead'
          PROVE  IF Concern[d.event] = Malformed
                 THEN d.reason = "MALFORMED_EVENT_SCHEMA"
                 ELSE d.reason = "EXCEEDED_MAX_RETRIES" /\ failures'[d.event] >= 3
      <3>1. d \in dead /\ d.event \in Events
        BY <2>1 DEF TypeInv
      <3>2. failures'[d.event] \in Nat
        BY <3>1 DEF TypeInv
      <3>3. QED BY <2>3, <3>1, <3>2 DEF TriedInv
    <2>9. QED BY <2>5, <2>6, <2>7, <2>8 DEF TriedInv
  <1>6. ASSUME NEW g \in Groups, Route(g) PROVE TriedInv'
    <2>1. /\ pc[g] = "route" /\ pc' = [pc EXCEPT ![g] = "ack"]
          /\ UNCHANGED <<produced, hand, failures>>
      BY <1>6 DEF Route, At
    <2>2. /\ hand[g] \in Message /\ hand[g].event \in Events /\ hand[g].retries \in 0..2
          /\ hand[g].retries < failures[hand[g].event] /\ Concern[hand[g].event] = g
          /\ failures[hand[g].event] \in Nat /\ hand[g].event \in produced
      BY <1>0, <2>1, HandTypes DEF TriedInv, TypeInv, Fine
    <2>3. CASE hand[g].retries \in {0, 1}
      <3>1. Again(hand[g]) \in Fine
        BY <2>2, <2>3, AgainTypes DEF Fine
      <3>2. /\ \E lanes : queue' = Published(lanes, Again(hand[g]))
            /\ dead' = dead
        BY <1>6, <2>3 DEF Route
      <3>3. \A k \in Lanes : queue'[k] \in Seq(Fine)
        BY <1>p, <3>1, <3>2
      <3>4. QED BY <2>1, <3>2, <3>3, TriedHandled
    <2>4. CASE hand[g].retries \notin {0, 1}
      <3> DEFINE letter == [event |-> hand[g].event, reason |-> "EXCEEDED_MAX_RETRIES"]
      <3>1. queue' = queue /\ dead' = dead \cup {letter}
        BY <1>6, <2>4 DEF Route
      <3>2. /\ letter.event = hand[g].event /\ letter.reason = "EXCEEDED_MAX_RETRIES"
            /\ failures[hand[g].event] >= 3
        BY <2>2, <2>4
      <3>3. Concern[letter.event] # Malformed
        BY <2>2, <3>2, PipelineAssumption
      <3> HIDE DEF letter
      <3>4. QED BY <1>0, <2>1, <3>1, <3>2, <3>3, TriedHandled
    <2>5. QED BY <2>3, <2>4
  <1>7. ASSUME NEW g \in Groups, Quarantine(g) PROVE TriedInv'
    <2> DEFINE letter == [event |-> hand[g].event, reason |-> "MALFORMED_EVENT_SCHEMA"]
    <2>1. /\ pc[g] = "read" /\ pc' = [pc EXCEPT ![g] = "ack"]
          /\ UNCHANGED <<produced, queue, hand, failures>>
          /\ dead' = dead \cup {letter} /\ Concern[hand[g].event] = Malformed
      BY <1>7 DEF Quarantine, At
    <2>2. letter.event = hand[g].event /\ letter.reason = "MALFORMED_EVENT_SCHEMA"
      OBVIOUS
    <2> HIDE DEF letter
    <2>3. QED BY <1>0, <2>1, <2>2, TriedHandled
  <1>8. ASSUME NEW l \in Lanes, NEW from, At(l, from, "poll"), Commit(l),
               UNCHANGED <<produced, queue, stored, dead, failures>>
        PROVE  TriedInv'
    <2>1. /\ pc'[l] = "poll"
          /\ \A k \in Lanes : k # l => hand'[k] = hand[k] /\ pc'[k] = pc[k]
      BY <1>8, CommitTypes
    <2>2. QED BY <1>8, <2>1 DEF TriedInv, Fine
  <1>9. ASSUME NEW g \in Groups, Ack(g) PROVE TriedInv'
    BY <1>8, <1>9 DEF Ack
  <1>10. ASSUME NEW t \in RetryTopics, Break(t) \/ CommitRetry(t) PROVE TriedInv'
    BY <1>8, <1>10 DEF Break, CommitRetry
  <1>11. ASSUME NEW t \in RetryTopics, Postpone(t) \/ Republish(t) PROVE TriedInv'
    <2>1. pc[t] = "read" /\ UNCHANGED <<produced, hand, dead, failures>>
      BY <1>11 DEF Postpone, Republish, At
    <2>2. PICK to \in { "ack", "break" } : pc' = [pc EXCEPT ![t] = to]
      BY <1>11 DEF Postpone, Republish, At
    <2>3. \E lanes : queue' = Published(lanes, hand[t])
      BY <1>11 DEF Postpone, Republish
    <2>4. \A k \in Lanes : queue'[k] \in Seq(Fine)
      BY <1>0, <1>p, <2>1, <2>3
    <2>5. QED BY <2>1, <2>2, <2>4, TriedHandled
  <1>12. ASSUME NEW t \in RetryTopics, Elapse(t) PROVE TriedInv'
    <2>1. PICK i \in DOMAIN queue[t] :
            queue' = [queue EXCEPT ![t] = [queue[t] EXCEPT ![i].waiting = FALSE]]
      BY <1>12 DEF Elapse
    <2>2. queue[t] \in Seq(Fine)
      BY <1>0
    <2>3. queue[t][i] \in Fine
      BY <2>1, <2>2
    <2>4. [queue[t][i] EXCEPT !.waiting = FALSE] \in Fine
      BY <2>3 DEF Fine, Message
    <2>5. [queue[t] EXCEPT ![i] = [queue[t][i] EXCEPT !.waiting = FALSE]] \in Seq(Fine)
      BY <2>1, <2>2, <2>4
    <2>6. [queue[t] EXCEPT ![i].waiting = FALSE]
            = [queue[t] EXCEPT ![i] = [queue[t][i] EXCEPT !.waiting = FALSE]]
      OBVIOUS
    <2>7. \A k \in Lanes : queue'[k] \in Seq(Fine)
      BY <1>0, <2>1, <2>5, <2>6 DEF TypeInv
    <2>8. QED BY <1>12, <2>7 DEF Elapse, TriedInv, Fine
  <1>13. ASSUME NEW lanes, Redelivered(lanes), UNCHANGED <<produced, dead, failures>>
         PROVE  TriedInv'
    <2>1. ASSUME NEW l \in Lanes PROVE queue'[l] \in Seq(Fine)
      <3>1. queue'[l] = IF l \in lanes /\ hand[l] # Nothing
                        THEN <<hand[l]>> \o queue[l] ELSE queue[l]
        BY <1>13 DEF Redelivered
      <3>2. queue[l] \in Seq(Fine) /\ (hand[l] # Nothing => hand[l] \in Fine)
        BY <1>0 DEF TypeInv
      <3>3. QED BY <3>1, <3>2
    <2>2. /\ \A l \in Lanes : pc'[l] # "poll" => pc'[l] = pc[l] /\ hand'[l] = hand[l]
      BY <1>13, RedeliveredTypes
    <2>3. QED BY <1>13, <2>1, <2>2 DEF TriedInv, Fine
  <1>14. CASE StartCycle \/ (\E t \in RetryTopics : LeaveTopic(t)) \/ UNCHANGED vars
    <2>1. UNCHANGED <<produced, queue, hand, pc, dead, failures>>
      BY <1>14 DEF StartCycle, LeaveTopic, vars
    <2>2. QED BY <2>1 DEF TriedInv, Fine
  <1>15. QED
    BY <1>1, <1>2, <1>3, <1>4, <1>5, <1>6, <1>7, <1>9, <1>10, <1>11, <1>12, <1>13, <1>14
    DEF Next, Consume, Retry, Poll, PollRetry, CrashConsumer, CrashRetrier

-------------------------------------------------------------------------------
(* The theorems *)

PipelineInv == TypeInv /\ EffectOnce /\ LossInv /\ TriedInv

LEMMA LossStart == Init /\ TypeInv => LossInv
  <1> SUFFICES ASSUME Init, TypeInv, NEW e \in produced, Concern[e] # Nobody PROVE Alive(e)
    BY DEF LossInv
  <1>1. PICK i \in DOMAIN Backlog : Backlog[i] = e
    BY DEF Init, ToSet
  <1>2. e \in Events
    BY DEF TypeInv
  <1>3. PICK g \in Groups : Concern[e] \in Groups => g = Concern[e]
    BY PipelineAssumption
  <1>4. queue[g] = [j \in DOMAIN Backlog |-> Fresh(Backlog[j])]
    BY LaneTypes DEF Init
  <1>5. i \in DOMAIN queue[g] /\ queue[g][i] = Fresh(e)
    BY <1>1, <1>4
  <1>6. Has(queue[g], e)
    BY <1>2, <1>5, FreshTypes DEF Has
  <1>7. QED BY <1>3, <1>6, LaneTypes DEF Alive, Admits

LEMMA TriedStart == Init /\ TypeInv => TriedInv
  <1> SUFFICES ASSUME Init, TypeInv PROVE TriedInv
    OBVIOUS
  <1>1. Backlog \in Seq(Events)
    BY PipelineAssumption
  <1>2. \A i \in DOMAIN Backlog : Fresh(Backlog[i]) \in Fine
    <2>1. \A e \in Events : Fresh(e).retries = 0 /\ failures[e] = 0
      BY DEF Init, Fresh
    <2>2. \A i \in DOMAIN Backlog : Backlog[i] \in Events /\ Backlog[i] \in produced
      BY <1>1 DEF Init, ToSet
    <2>3. QED BY <2>1, <2>2, FreshTypes DEF Fine
  <1>3. [i \in DOMAIN Backlog |-> Fresh(Backlog[i])] \in Seq(Fine)
    <2>1. Len(Backlog) \in Nat /\ DOMAIN Backlog = 1..Len(Backlog)
      BY <1>1
    <2>2. [i \in DOMAIN Backlog |-> Fresh(Backlog[i])] \in [1..Len(Backlog) -> Fine]
      BY <1>1, <1>2, <2>1
    <2>3. QED BY <2>1, <2>2
  <1>4. <<>> \in Seq(Fine)
    OBVIOUS
  <1>5. \A l \in Lanes : queue[l] \in Seq(Fine)
    BY <1>3, <1>4 DEF Init
  <1>6. QED BY <1>5, LaneTypes DEF Init, TriedInv

LEMMA PipelineInvariant == Spec => []PipelineInv
  <1>1. Init => PipelineInv
    <2>1. Init => EffectOnce
      BY DEF Init, EffectOnce
    <2>2. QED BY <2>1, TypeStart, LossStart, TriedStart DEF PipelineInv
  <1>2. PipelineInv /\ [Next]_vars => PipelineInv'
    BY TypeStep, OnceStep, LossStep, TriedStep DEF PipelineInv
  <1>3. QED BY <1>1, <1>2, PTL DEF Spec

\* An event has one effect, however often it is delivered, retried, published
\* again after a crash, or fails after its commit (processed_event.py:14).
THEOREM OneEffect == Spec => []EffectOnce
  <1>1. PipelineInv => EffectOnce
    BY DEF PipelineInv
  <1>2. QED BY <1>1, PipelineInvariant, PTL

\* No crash between the publication of a copy and the commit of the original, and
\* no delay, loses an event (retry_processor.py:98-118).
THEOREM NoneLost == Spec => []NothingLost
  <1>1. PipelineInv => NothingLost
    <2> SUFFICES ASSUME TypeInv, LossInv, NEW e \in produced \ processed, Concern[e] # Nobody,
                        ~\E d \in dead : d.event = e
                 PROVE  \E l \in Lanes : /\ Concern[e] \in Groups => l \in RetryTopics \cup {Concern[e]}
                                         /\ \E m \in Owed(l) : m.event = e
      BY DEF PipelineInv, NothingLost
    <2>1. Alive(e)
      BY DEF LossInv, Buried
    <2>2. PICK l \in Lanes : /\ Admits(l, e)
                             /\ \/ Has(queue[l], e)
                                \/ pc[l] \in { "read", "store", "route" } /\ hand[l].event = e
      BY <2>1 DEF Alive
    <2>3. CASE Has(queue[l], e)
      BY <2>2, <2>3 DEF Has, Owed, ToSet, Admits
    <2>4. CASE pc[l] \in { "read", "store", "route" } /\ hand[l].event = e
      BY <2>2, <2>4 DEF TypeInv, Owed, Admits
    <2>5. QED BY <2>2, <2>3, <2>4
  <1>2. QED BY <1>1, PipelineInvariant, PTL

\* A readable event becomes a dead letter only when its handler has failed three
\* times (retry_processor.py:42-74), whatever was delivered twice on the way.
THEOREM NoneGivenUpEarly == Spec => []DeadMeansTried
  <1>1. PipelineInv => DeadMeansTried
    <2> SUFFICES ASSUME TypeInv, TriedInv PROVE DeadMeansTried
      BY DEF PipelineInv
    <2>1. ASSUME NEW l \in Lanes, NEW m \in Owed(l) PROVE m.retries <= failures[m.event]
      <3>1. CASE m \in ToSet(queue[l])
        <4>1. queue[l] \in Seq(Fine)
          BY DEF TriedInv
        <4>2. m \in Fine
          BY <3>1, <4>1 DEF ToSet
        <4>3. QED BY <4>2 DEF Fine
      <3>2. CASE m = hand[l] /\ m # Nothing
        BY <3>2 DEF TypeInv, TriedInv, Fine
      <3>3. QED BY <2>1, <3>1, <3>2 DEF Owed
    <2>2. QED BY <2>1 DEF TriedInv, DeadMeansTried
  <1>2. QED BY <1>1, PipelineInvariant, PTL

-------------------------------------------------------------------------------
(* The types of all variables *)

\* The retry processor and the bounds of the model.
BoundInv ==
  /\ cycle \in RetryTopics \cup {"idle"} /\ polled \in 0..MaxMessages
  /\ failures \in [Events -> 0..MaxFailures] /\ crashes \in 0..MaxCrashes

LEMMA BoundStep == TypeInv /\ BoundInv /\ [Next]_vars => BoundInv'
  <1> SUFFICES ASSUME TypeInv, BoundInv, [Next]_vars PROVE BoundInv'
    OBVIOUS
  <1> USE PipelineAssumption DEF BoundInv
  <1>1. CASE StartCycle
    BY <1>1 DEF StartCycle, RetryTopics
  <1>2. ASSUME NEW t \in RetryTopics, Retry(t) PROVE BoundInv'
    <2>1. CASE PollRetry(t)
      BY <2>1 DEF PollRetry
    <2>2. CASE LeaveTopic(t) \/ Break(t)
      <3>1. /\ cycle' \in {Retry2, "idle"} /\ polled' = 0
            /\ UNCHANGED <<failures, crashes>>
        BY <2>2 DEF LeaveTopic, Break, NextTopic
      <3> QED BY <3>1 DEF RetryTopics
    <2>3. CASE Postpone(t) \/ Republish(t) \/ CommitRetry(t)
      BY <2>3 DEF Postpone, Republish, CommitRetry, retrier
    <2> QED BY <1>2, <2>1, <2>2, <2>3 DEF Retry
  <1>3. ASSUME NEW g \in Groups, Fail(g) PROVE BoundInv'
    <2> DEFINE e == hand[g].event
    <2>1. /\ failures[e] < MaxFailures /\ failures' = [failures EXCEPT ![e] = @ + 1]
          /\ pc[g] = "store" /\ UNCHANGED <<cycle, polled, crashes>>
      BY <1>3 DEF Fail, At, retrier
    <2>2. e \in Events
      BY <2>1, HandTypes, LaneTypes
    <2> HIDE DEF e
    <2>3. failures[e] + 1 \in 0..MaxFailures
      BY <2>1, <2>2
    <2>4. failures' \in [Events -> 0..MaxFailures]
      BY <2>1, <2>2, <2>3
    <2> QED BY <2>1, <2>4
  <1>4. ASSUME NEW g \in Groups, CrashConsumer(g) PROVE BoundInv'
    BY <1>4 DEF CrashConsumer, retrier
  <1>5. CASE CrashRetrier
    BY <1>5 DEF CrashRetrier
  <1>6. ASSUME \/ \E e \in Events : Produce(e)
               \/ \E g \in Groups : Consume(g)
               \/ \E t \in RetryTopics : Elapse(t)
               \/ UNCHANGED vars
        PROVE  BoundInv'
    <2>1. UNCHANGED <<cycle, polled, failures, crashes>>
      BY <1>6 DEF Produce, Consume, Poll, Skip, Lookup, Store, Route, Quarantine, Ack, Elapse,
                  vars, retrier
    <2> QED BY <2>1
  <1> QED BY <1>1, <1>2, <1>3, <1>4, <1>5, <1>6 DEF Next

\* Each variable has its type: what is in a lane is a message, a consumer holds one
\* exactly when it is at work, and the retry processor is in one topic at a time.
THEOREM PipelineTypes == Spec => []TypeOK
  <1>1. Init => BoundInv
    BY PipelineAssumption DEF Init, BoundInv
  <1>2. PipelineInv => TypeInv
    BY DEF PipelineInv
  <1>3. TypeInv /\ BoundInv => TypeOK
    BY DEF TypeInv, BoundInv, TypeOK
  <1> QED BY <1>1, <1>2, <1>3, BoundStep, PipelineInvariant, PTL DEF Spec

-------------------------------------------------------------------------------
(* The contract of delivery *)

\* Who is about to store an event has looked it up, and nobody else stores it.
HandlesNew == \A g \in Groups : pc[g] = "store" => hand[g].event \notin processed

LEMMA HandlesStep == TypeInv /\ HandlesNew /\ [Next]_vars => HandlesNew'
  <1> SUFFICES ASSUME TypeInv, HandlesNew, [Next]_vars, NEW g \in Groups, pc'[g] = "store"
               PROVE  hand'[g].event \notin processed'
    BY DEF HandlesNew
  <1> USE LaneTypes DEF transit, stored, retrier
  <1>1. CASE Lookup(g)
    <2>1. pc[g] = "read" /\ UNCHANGED <<hand, processed>>
      BY <1>1 DEF Lookup
    <2>2. pc'[g] = IF hand[g].event \in processed THEN "ack" ELSE "store"
      BY <1>1 DEF Lookup, TypeInv
    <2> QED BY <2>1, <2>2
  <1>2. ASSUME ~Lookup(g) PROVE pc[g] = "store" /\ hand'[g] = hand[g]
    <2>1. ASSUME NEW l \in Lanes, NEW to \in { "ack", "route", "poll", "break" }, UNCHANGED hand,
                 pc' = [pc EXCEPT ![l] = to]
          PROVE  pc[g] = "store" /\ hand'[g] = hand[g]
      BY <2>1 DEF TypeInv
    <2>2. ASSUME NEW l \in Lanes, NEW from, At(l, from, "poll"), Commit(l)
          PROVE  pc[g] = "store" /\ hand'[g] = hand[g]
      BY <2>2 DEF At, Commit, TypeInv
    <2>3. ASSUME NEW l \in Lanes, Deliver(l)
          PROVE  pc[g] = "store" /\ hand'[g] = hand[g]
      BY <2>3, DeliverTypes
    <2>4. ASSUME NEW lanes, Redelivered(lanes)
          PROVE  pc[g] = "store" /\ hand'[g] = hand[g]
      BY <2>4, RedeliveredTypes
    <2>5. ASSUME NEW h \in Groups, Lookup(h)
          PROVE  pc[g] = "store" /\ hand'[g] = hand[g]
      BY <1>2, <2>5 DEF Lookup, TypeInv
    <2>6. CASE UNCHANGED <<pc, hand>>
      BY <2>6
    <2>7. ASSUME NEW h \in Groups, Consume(h) \/ Fail(h) \/ CrashConsumer(h)
          PROVE  pc[g] = "store" /\ hand'[g] = hand[g]
      BY <2>1, <2>2, <2>3, <2>4, <2>5, <2>6, <2>7
      DEF Consume, Poll, Skip, Store, Fail, Route, Quarantine, Ack, CrashConsumer, At
    <2>8. ASSUME NEW t \in RetryTopics, Retry(t) \/ Elapse(t)
          PROVE  pc[g] = "store" /\ hand'[g] = hand[g]
      BY <2>1, <2>2, <2>3, <2>6, <2>8
      DEF Retry, PollRetry, LeaveTopic, Postpone, Break, Republish, CommitRetry, Elapse, At
    <2>9. CASE (\E e \in Events : Produce(e)) \/ StartCycle \/ CrashRetrier \/ UNCHANGED vars
      BY <2>4, <2>6, <2>9 DEF Produce, StartCycle, CrashRetrier, vars
    <2> QED BY <2>7, <2>8, <2>9 DEF Next
  <1>3. ASSUME ~Lookup(g) PROVE hand[g].event \notin processed'
    <2>1. Concern[hand[g].event] = g /\ hand[g].event \notin processed /\ hand[g].event \in Events
      BY <1>2, <1>3, HandTypes DEF TypeInv, HandlesNew
    <2>2. \/ processed' = processed
          \/ \E h \in Groups : /\ Store(h) \/ Fail(h)
                               /\ pc[h] = "store" /\ processed' = processed \cup {hand[h].event}
      BY DEF Next, Consume, Retry, vars, Produce, Poll, Skip, Lookup, Store, Fail, Route,
             Quarantine, Ack, StartCycle, PollRetry, LeaveTopic, Postpone, Break, Republish,
             CommitRetry, Elapse, CrashConsumer, CrashRetrier, Record, At
    <2>3. ASSUME NEW h \in Groups, Store(h) \/ Fail(h), pc[h] = "store",
                 processed' = processed \cup {hand[h].event}
          PROVE  hand[g].event \notin processed'
      <3>1. h # g
        BY <2>3 DEF Store, Fail, At, TypeInv
      <3>2. Concern[hand[h].event] = h
        BY <2>3 DEF TypeInv
      <3> QED BY <2>1, <2>3, <3>1, <3>2
    <2> QED BY <2>1, <2>2, <2>3
  <1> QED BY <1>1, <1>2, <1>3

LEMMA DeliveryStep ==
  PipelineInv /\ HandlesNew /\ [Next]_vars => [Delivery!Step]_(Delivery!delivery)
  <1> SUFFICES ASSUME PipelineInv, HandlesNew, [Next]_vars
               PROVE  [Delivery!Step]_(Delivery!delivery)
    OBVIOUS
  <1> USE LaneTypes DEF transit, stored, retrier
  <1>1. ASSUME NEW e \in Events, Produce(e) PROVE Delivery!Step
    <2>1. Delivery!Publish(e)
      BY <1>1 DEF Produce, Delivery!Publish
    <2> QED BY <2>1 DEF Delivery!Step
  <1>2. ASSUME NEW l \in Lanes, pc[l] # "poll"
        PROVE  hand[l].event \in Events /\ hand[l].event \in produced
    BY <1>2, HandTypes DEF PipelineInv, TriedInv, Fine
  <1>3. ASSUME NEW g \in Groups, Store(g) \/ Fail(g) PROVE Delivery!Step
    <2> DEFINE e == hand[g].event
    <2>1. pc[g] = "store" /\ UNCHANGED <<produced, dead>>
      BY <1>3 DEF Store, Fail, At
    <2>2. /\ \/ Record(g) /\ UNCHANGED failures
             \/ UNCHANGED effects /\ failures' = [failures EXCEPT ![e] = @ + 1]
             \/ Record(g) /\ failures' = [failures EXCEPT ![e] = @ + 1]
      BY <1>3 DEF Store, Fail
    <2>3. e \in Events /\ e \in produced /\ Concern[e] = g /\ effects[e] = 0
      BY <1>2, <2>1 DEF PipelineInv, TypeInv, HandlesNew, EffectOnce
    <2>4. Record(g) => effects' = [effects EXCEPT ![e] = 1]
      BY <2>3 DEF Record
    <2>5. Delivery!Due(e)
      BY <2>3 DEF Delivery!Due
    <2> HIDE DEF e
    <2>6. Delivery!Try(e)
      BY <2>1, <2>2, <2>4, <2>5 DEF Delivery!Try, Delivery!Takes, Delivery!Fails
    <2> QED BY <2>3, <2>6 DEF Delivery!Step
  <1>4. ASSUME NEW g \in Groups, Route(g) PROVE [Delivery!Step]_(Delivery!delivery)
    <2> DEFINE e == hand[g].event
    <2>1. pc[g] = "route" /\ UNCHANGED <<produced, effects, failures>>
      BY <1>4 DEF Route, At
    <2>2. /\ e \in Events /\ e \in produced /\ Concern[e] = g /\ hand[g].retries < failures[e]
          /\ failures[e] \in Nat
      BY <1>2, <2>1 DEF PipelineInv, TypeInv, TriedInv
    <2>3. CASE dead' = dead
      BY <2>1, <2>3 DEF Delivery!delivery
    <2>4. CASE dead' # dead
      <3>1. /\ hand[g].retries = 2
            /\ dead' = dead \cup {[event |-> e, reason |-> "EXCEEDED_MAX_RETRIES"]}
        BY <1>4, <2>4 DEF Route
      <3>2. failures[e] >= 3
        BY <2>2, <3>1
      <3>3. Delivery!GiveUp(e)
        BY <2>1, <2>2, <3>1, <3>2 DEF Delivery!GiveUp
      <3> QED BY <2>2, <3>3 DEF Delivery!Step
    <2> QED BY <2>3, <2>4
  <1>5. ASSUME NEW g \in Groups, Quarantine(g) PROVE Delivery!Step
    <2> DEFINE e == hand[g].event
    <2>1. /\ pc[g] = "read" /\ Concern[e] = Malformed /\ UNCHANGED <<produced, effects, failures>>
          /\ dead' = dead \cup {[event |-> e, reason |-> "MALFORMED_EVENT_SCHEMA"]}
      BY <1>5 DEF Quarantine, At
    <2>2. e \in Events /\ e \in produced
      BY <1>2, <2>1
    <2>3. Delivery!Quarantine(e)
      BY <2>1, <2>2 DEF Delivery!Quarantine
    <2> QED BY <2>2, <2>3 DEF Delivery!Step
  <1>6. CASE UNCHANGED <<produced, effects, failures, dead>>
    BY <1>6 DEF Delivery!delivery
  <1>7. \/ \E e \in Events : Produce(e)
        \/ \E g \in Groups : Store(g) \/ Fail(g) \/ Route(g) \/ Quarantine(g)
        \/ UNCHANGED <<produced, effects, failures, dead>>
    BY DEF Next, Consume, Retry, vars, Poll, Skip, Lookup, Ack, StartCycle, PollRetry, LeaveTopic,
           Postpone, Break, Republish, CommitRetry, Elapse, CrashConsumer, CrashRetrier
  <1> QED BY <1>1, <1>3, <1>4, <1>5, <1>6, <1>7

\* The pipeline implements the contract of delivery, for any groups, events, backlog,
\* failures and crashes: whatever copies are under way, an event is tried only until
\* it has its effect, and given up only after three failures.
THEOREM PipelineKeepsDelivery == Spec => KeepsDelivery
  <1>1. Init => HandlesNew /\ Delivery!Begin
    <2> SUFFICES ASSUME Init PROVE HandlesNew /\ Delivery!Begin
      OBVIOUS
    <2>1. produced \subseteq Events
      BY TypeStart DEF TypeInv
    <2> QED BY <2>1, LaneTypes DEF Init, HandlesNew, Delivery!Begin
  <1>2. PipelineInv => TypeInv
    BY DEF PipelineInv
  <1>3. Spec => []HandlesNew
    BY <1>1, <1>2, HandlesStep, PipelineInvariant, PTL DEF Spec
  <1> QED BY <1>1, <1>3, DeliveryStep, PipelineInvariant, PTL
          DEF Spec, KeepsDelivery, Delivery!Promise

=================================================================================
