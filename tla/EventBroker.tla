----------------------------- MODULE EventBroker -----------------------------
(***************************************************************************)
(* The in-memory broker of libraries/events/broker.c: the subscriptions[]  *)
(* array with its removal by swapping, the topic counter, the sequence     *)
(* counter and one ring buffer per subscription.  A call that is refused   *)
(* changes nothing.  An event is its sequence number; ring slots that hold *)
(* no event hold 0.                                                        *)
(***************************************************************************)
EXTENDS Integers, Sequences, SequencesExt

CONSTANTS Owners,           \* identities of clients
          Topics,           \* non-zero topic numbers
          MayUnsubscribe,   \* the authorize callback for UNSUBSCRIBE: <<actor, owner>>
          MaxTopics, MaxSubscribers,
          RingDepth,       \* config.subscriber_queue_depth
          MaxSequence       \* stands for UINT64_MAX of next_sequence

ASSUME BrokerAssumption ==
  /\ Owners # {} /\ MaxTopics \in Nat \ {0} /\ MaxSubscribers \in Nat \ {0}
  /\ RingDepth \in Nat \ {0} /\ MaxSequence \in Nat \ {0}
  /\ MayUnsubscribe \subseteq Owners \X Owners

VARIABLES subscriptions,   \* the array, up to subscription_count
          ring,            \* each subscription: policy, queue, head, count
          topic_count,
          next_sequence

brokerVars == <<subscriptions, ring, topic_count, next_sequence>>

Keys == [owner : Owners, topic : Topics]
Policies == {"DROP_NEWEST", "DROP_OLDEST"}
Subscribed == DOMAIN ring

EmptyRing(policy) ==
  [policy |-> policy, head |-> 0, count |-> 0,
   queue |-> [i \in 0..RingDepth - 1 |-> 0]]

BrokerInit ==
  /\ subscriptions = <<>>
  /\ ring = [k \in {} |-> <<>>]
  /\ topic_count = 0
  /\ next_sequence = 1

\* Some subscription of the array outside the excluded set is to this topic.
TopicPresentExcept(array, topic, excluded) ==
  \E i \in DOMAIN array : array[i] \notin excluded /\ array[i].topic = topic

\* The same identity already subscribed to the topic: ERR_EXISTS.
AlreadySubscribed(k) == \E i \in DOMAIN subscriptions : subscriptions[i] = k

\* What ar_event_broker_subscribe checks, in its order.
SubscribeAllowed(k) ==
  /\ Len(subscriptions) < MaxSubscribers
  /\ ~AlreadySubscribed(k)
  /\ TopicPresentExcept(subscriptions, k.topic, {}) \/ topic_count < MaxTopics

Subscribe(k, policy) ==
  /\ SubscribeAllowed(k)
  /\ subscriptions' = Append(subscriptions, k)
  /\ ring' = [j \in Subscribed \cup {k} |->
                IF j = k THEN EmptyRing(policy) ELSE ring[j]]
  /\ topic_count' = IF TopicPresentExcept(subscriptions', k.topic, {k})
                    THEN topic_count ELSE topic_count + 1
  /\ UNCHANGED next_sequence

\* The last element takes the place of the one removed.
SwapRemove(array, k) ==
  LET i == CHOOSE i \in DOMAIN array : array[i] = k
  IN  Front([array EXCEPT ![i] = Last(array)])

MutCountsAfter(reg, k) == reg.topics - 1
\* The topic leaves with its last subscription.
TopicsWithout(reg, k) ==
  IF TopicPresentExcept(reg.array, k.topic, {k}) THEN reg.topics
                                                 ELSE reg.topics - 1

\* The array and the topic counter without one, or several, subscriptions.
Without(reg, k) ==
  [array |-> SwapRemove(reg.array, k), topics |-> TopicsWithout(reg, k)]

WithoutAll(keys) ==
  LET registry == [array |-> subscriptions, topics |-> topic_count]
      first[n \in 0..Len(keys)] ==
        IF n = 0 THEN registry ELSE Without(first[n - 1], keys[n])
  IN  first[Len(keys)]

\* ar_event_broker_unsubscribe of each of the keys, all authorized.
Release(keys) ==
  /\ subscriptions' = WithoutAll(keys).array
  /\ topic_count' = WithoutAll(keys).topics
  /\ ring' = [j \in Subscribed \ Range(keys) |-> ring[j]]
  /\ UNCHANGED next_sequence

Unsubscribe(actor, k) ==
  /\ <<actor, k.owner>> \in MayUnsubscribe
  /\ k \in Subscribed
  /\ Release(<<k>>)

Full(r) == r.count = RingDepth

MutNoWrap(r) ==
  [r EXCEPT !.queue[r.head] = 0, !.head = r.head + 1, !.count = r.count - 1]
\* The oldest event leaves the ring.
DropHead(r) ==
  [r EXCEPT !.queue[r.head] = 0,
            !.head = (r.head + 1) % RingDepth,
            !.count = r.count - 1]

MutPutsAtHead(r, n) ==
  [r EXCEPT !.queue[r.head] = n, !.count = r.count + 1]
PutTail(r, n) ==
  [r EXCEPT !.queue[(r.head + r.count) % RingDepth] = n,
            !.count = r.count + 1]

\* enqueue_message; noMemory is a failed copy of a non-empty payload.
Enqueue(r, n, noMemory) ==
  IF (Full(r) /\ r.policy = "DROP_NEWEST") \/ noMemory THEN r
  ELSE PutTail(IF Full(r) THEN DropHead(r) ELSE r, n)

SequenceAfterEmit == next_sequence + 1

\* ar_event_broker_emit: every subscription to the topic, one sequence number.
Emit(topic) ==
  /\ next_sequence # MaxSequence
  /\ next_sequence' = SequenceAfterEmit
  /\ \E noMemory \in SUBSET {k \in Subscribed : k.topic = topic} :
       ring' = [k \in Subscribed |->
                  IF k.topic = topic
                  THEN Enqueue(ring[k], next_sequence, k \in noMemory)
                  ELSE ring[k]]
  /\ UNCHANGED <<subscriptions, topic_count>>

\* ar_event_subscription_receive with room for the payload.
Receive(k) ==
  /\ k \in Subscribed
  /\ ring[k].count # 0
  /\ ring' = [ring EXCEPT ![k] = DropHead(@)]
  /\ UNCHANGED <<subscriptions, topic_count, next_sequence>>

BrokerNext ==
  \/ \E k \in Keys :
       \/ \E policy \in Policies : Subscribe(k, policy)
       \/ \E actor \in Owners : Unsubscribe(actor, k)
       \/ Receive(k)
  \/ \E topic \in Topics : Emit(topic)

BrokerSpec == BrokerInit /\ [][BrokerNext]_brokerVars

-----------------------------------------------------------------------------
(* Properties. *)

\* The events of a ring, oldest first.
Contents(r) ==
  [i \in 1..r.count |-> r.queue[(r.head + i - 1) % RingDepth]]

\* Every variable keeps its type.
BrokerTypeOK ==
  /\ subscriptions \in Seq(Keys)
  /\ Subscribed \subseteq Keys
  /\ \A k \in Subscribed :
       ring[k] \in [policy : Policies, head : 0..RingDepth - 1,
                    count : 0..RingDepth,
                    queue : [0..RingDepth - 1 -> 0..MaxSequence]]
  /\ topic_count \in Nat
  /\ next_sequence \in 1..MaxSequence

\* The array and the live subscriptions agree, whatever is removed by swap:
\* no entry is freed but listed, live but lost, or listed twice; and
\* topic_count, on which the topic limit rests, is the number of topics that
\* somebody is subscribed to.
RegistryExact ==
  /\ Range(subscriptions) = Subscribed
  /\ Len(subscriptions) = Cardinality(Subscribed)
  /\ topic_count = Cardinality({k.topic : k \in Subscribed})
  /\ topic_count <= MaxTopics

KeyTopic(k) == k.topic
Boxes == [k \in Subscribed |-> [policy |-> ring[k].policy,
                                msgs |-> Contents(ring[k])]]

\* The rings and arrays implement bounded FIFOs with the stated policies.
Contract == INSTANCE EventContract
              WITH Topic <- KeyTopic, Depth <- RingDepth,
                   box <- Boxes, next <- next_sequence
BrokerRefinesContract == Contract!Spec
=============================================================================
