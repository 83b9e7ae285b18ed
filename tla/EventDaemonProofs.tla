------------------------- MODULE EventDaemonProofs -------------------------
(***************************************************************************)
(* Proofs about the event daemon and its broker, for any peers, topics,    *)
(* limits and depth of the rings: the array and the topic counter of the   *)
(* broker are exact, every subscription has one client that holds it, and  *)
(* a dispatch leaves no event behind.                                      *)
(***************************************************************************)
EXTENDS EventDaemon, FiniteSetTheorems, SequenceTheorems, NaturalsInduction,
        WellFoundedInduction, TLAPS

Clients == [conn : Conns, subs : Seq(Keys)]
Rings == [policy : Policies, head : 0..RingDepth - 1, count : 0..RingDepth,
          queue : [0..RingDepth - 1 -> 0..MaxSequence]]

\* No value twice.
Distinct(s) == \A i, j \in 1..Len(s) : s[i] = s[j] => i = j

TopicsOf(K) == {k.topic : k \in K}

\* An array and a topic counter that are exact for the subscriptions K.
Registered(reg, K) ==
  /\ reg.array \in Seq(Keys) /\ Distinct(reg.array) /\ Range(reg.array) = K
  /\ reg.topics = Cardinality(TopicsOf(K))

Registry == [array |-> subscriptions, topics |-> topic_count]

\* The broker: the array, the counters and the rings.
BrokerInv ==
  /\ Registered(Registry, Subscribed) /\ topic_count <= MaxTopics
  /\ \A k \in Subscribed : ring[k] \in Rings
  /\ next_sequence \in 1..MaxSequence

PeerTypes ==
  /\ peer \in [Conns -> {"none", "open", "hung"}]
  /\ inbox \in [Conns -> Seq(Requests)]
  /\ outbox \in [Conns -> 0..SendRoom]

\* Where the daemon is.
LoopTypes ==
  /\ backlog \in Seq(Conns) /\ (at = "accept" => backlog # <<>>)
  /\ clients \in Seq(Clients) /\ Len(clients) <= MaxClients
  /\ revents \in [1..MaxClients -> SUBSET Events]
  /\ at \in {"poll", "accept", "scan", "dispatch", "cleanup", "exit"}
  /\ idx \in 1..MaxClients + 1 /\ di \in 1..MaxClients + 1 /\ si \in Nat \ {0}
  /\ at = "dispatch" => idx <= Len(clients)
  /\ at # "dispatch" => di = 1 /\ si = 1

\* The client i holds the subscription k at the place j of its subs[].
Holds(i, j, k) == i \in 1..Len(clients) /\ j \in 1..Len(clients[i].subs) /\ clients[i].subs[j] = k

\* Every subscription is held at one place, by a client of its owner.
HolderInv ==
  /\ \A i, j, k : Holds(i, j, k) => k \in Subscribed /\ k.owner = OwnerOf[clients[i].conn]
  /\ \A k \in Subscribed : \E i, j : Holds(i, j, k)
  /\ \A i, j, m, n, k : Holds(i, j, k) /\ Holds(m, n, k) => i = m /\ j = n

\* Outside a dispatch the rings are empty, so that an emit leaves at most
\* one event in each; during one, an event waits only where the dispatch has
\* not been yet.
QueueInv ==
  /\ at # "dispatch" => \A k \in Subscribed : ring[k].count = 0
  /\ at = "dispatch" => \A k \in Subscribed :
       /\ ring[k].count \in {0, 1}
       /\ ring[k].count = 1 => \E i, j : Holds(i, j, k) /\ i >= di /\ (i = di => j >= si)

DaemonInv == BrokerInv /\ PeerTypes /\ LoopTypes /\ HolderInv /\ QueueInv

-----------------------------------------------------------------------------
(* Numbers, sequences and sets. *)

\* A set of numbers has a least one: the form in which induction is used.
LEMMA LeastNumber ==
  ASSUME NEW S \in SUBSET Nat, S # {}
  PROVE  \E m \in S : \A n \in S : m <= n
<1> DEFINE R == OpToRel(<, Nat)
<1>1. IsWellFoundedOn(R, Nat)
  BY NatLessThanWellFounded
<1>2. R = {x \in Nat \X Nat : x[1] < x[2]}
  BY DEF OpToRel
<1> HIDE DEF R
<1>3. PICK m \in S : \A n \in S : ~(<<n, m>> \in R)
  BY <1>1, WFMin
<1>4. ASSUME NEW n \in S, n < m PROVE FALSE
  <2>1. <<n, m>> \in Nat \X Nat /\ <<n, m>>[1] < <<n, m>>[2]
    BY <1>4
  <2>2. <<n, m>> \in R
    BY <1>2, <2>1, Zenon
  <2> QED
    BY <1>3, <2>2
<1>5. \A n \in S : ~(n < m)
  BY <1>4
<1>6. \A n \in S : m \in Nat /\ n \in Nat
  OBVIOUS
<1> QED
  BY <1>5, <1>6

\* The values of a sequence are those at its positions.
LEMMA RangeIs ==
  ASSUME NEW S, NEW s \in Seq(S)
  PROVE  Range(s) = {s[i] : i \in 1..Len(s)} /\ Range(s) \subseteq S
<1>1. DOMAIN s = 1..Len(s) /\ \A i \in 1..Len(s) : s[i] \in S
  BY LenProperties, ElementOfSeq
<1> QED
  BY <1>1 DEF Range

\* t is s with its last element in the place of the one at i.
Compacted(s, i, t) ==
  /\ Len(t) = Len(s) - 1
  /\ \A j \in 1..Len(t) : t[j] = IF j = i THEN s[Len(s)] ELSE s[j]

\* Overwriting an element with the last one and shortening the sequence compacts it.
LEMMA SwapOut ==
  ASSUME NEW S, NEW s \in Seq(S), NEW i \in 1..Len(s)
  PROVE  LET t == Front([s EXCEPT ![i] = Last(s)])
         IN  t \in Seq(S) /\ Compacted(s, i, t)
<1> DEFINE n == Len(s)
           u == [s EXCEPT ![i] = s[n]]
           t == SubSeq(u, 1, n - 1)
<1>1. n \in Nat /\ n >= 1 /\ n \in 1..n /\ DOMAIN s = 1..n /\ s \in [1..n -> S]
  BY LenProperties
<1>2. u \in [1..n -> S] /\ \A j \in 1..n : u[j] = IF j = i THEN s[n] ELSE s[j]
  BY <1>1
<1>3. u \in Seq(S) /\ Len(u) = n
  BY <1>1, <1>2, IsASeq, LenProperties
<1>4. t = Front([s EXCEPT ![i] = Last(s)])
  BY <1>3 DEF Front, Last
<1> HIDE DEF u
<1>5. 1 \in 1..Len(u) + 1 /\ n - 1 \in (1 - 1)..Len(u)
  BY <1>1, <1>3
<1>6. /\ t \in Seq(S) /\ Len(t) = IF 1 <= n - 1 THEN (n - 1) - 1 + 1 ELSE 0
      /\ \A j \in 1..(n - 1) - 1 + 1 : t[j] = u[1 + j - 1]
  BY <1>3, <1>5, SubSeqProperties
<1> HIDE DEF t
<1>7. t \in Seq(S) /\ Len(t) = n - 1 /\ \A j \in 1..n - 1 : t[j] = u[j]
  <2>1. (n - 1) - 1 + 1 = n - 1 /\ (~(1 <= n - 1) => n - 1 = 0) /\ \A j \in 1..n - 1 : 1 + j - 1 = j
    BY <1>1
  <2> HIDE DEF n
  <2> QED
    BY <1>6, <2>1
<1>8. Compacted(s, i, t)
  BY <1>1, <1>2, <1>7 DEF Compacted
<1> QED
  BY <1>4, <1>7, <1>8

\* So one value leaves a sequence without duplicates, and the others stay.
LEMMA CompactedValues ==
  ASSUME NEW S, NEW s \in Seq(S), Distinct(s), NEW i \in 1..Len(s),
         NEW t \in Seq(S), Compacted(s, i, t)
  PROVE  Distinct(t) /\ Range(t) = Range(s) \ {s[i]}
<1>1. /\ Len(s) \in Nat /\ Len(t) = Len(s) - 1
      /\ \A j \in 1..Len(t) : t[j] = IF j = i THEN s[Len(s)] ELSE s[j]
  BY LenProperties DEF Compacted
<1>2. Range(s) = {s[j] : j \in 1..Len(s)} /\ Range(t) = {t[j] : j \in 1..Len(t)}
  BY RangeIs
<1>3. Distinct(t)
  <2>1. \A x, y \in 1..Len(s) : s[x] = s[y] => x = y
    BY DEF Distinct
  <2>2. \A x \in 1..Len(t) : x \in 1..Len(s) /\ x # Len(s) /\ Len(s) \in 1..Len(s)
    BY <1>1
  <2> QED
    BY <1>1, <2>1, <2>2 DEF Distinct
<1>4. ASSUME NEW x \in Range(t) PROVE x \in Range(s) \ {s[i]}
  <2>1. PICK j \in 1..Len(t) : x = t[j]
    BY <1>2
  <2>2. j \in 1..Len(s) /\ Len(s) \in 1..Len(s) /\ j # Len(s)
    BY <1>1
  <2>3. CASE j = i
    BY <1>1, <1>2, <2>1, <2>2, <2>3 DEF Distinct
  <2>4. CASE j # i
    BY <1>1, <1>2, <2>1, <2>2, <2>4 DEF Distinct
  <2> QED
    BY <2>3, <2>4
<1>5. ASSUME NEW x \in Range(s), x # s[i] PROVE x \in Range(t)
  <2>1. PICK j \in 1..Len(s) : x = s[j] /\ j # i
    BY <1>2, <1>5
  <2>2. CASE j = Len(s)
    <3>1. i \in 1..Len(t) /\ t[i] = x
      BY <1>1, <2>1, <2>2
    <3> QED
      BY <1>2, <3>1
  <2>3. CASE j # Len(s)
    <3>1. j \in 1..Len(t) /\ t[j] = x
      BY <1>1, <2>1, <2>3
    <3> QED
      BY <1>2, <3>1
  <2> QED
    BY <2>2, <2>3
<1> QED
  BY <1>3, <1>4, <1>5

\* A sequence without duplicates has as many elements as values.
LEMMA DistinctCounts ==
  ASSUME NEW S, NEW s \in Seq(S), Distinct(s)
  PROVE  IsFiniteSet(Range(s)) /\ Cardinality(Range(s)) = Len(s)
<1>1. Len(s) \in Nat /\ s \in [1..Len(s) -> S] /\ Range(s) = {s[i] : i \in 1..Len(s)}
  BY RangeIs, LenProperties
<1>2. s \in Surjection(1..Len(s), Range(s))
  BY <1>1 DEF Surjection
<1>3. s \in Injection(1..Len(s), Range(s))
  <2>1. s \in [1..Len(s) -> Range(s)]
    BY <1>1
  <2> QED
    BY <1>1, <2>1 DEF Injection, IsInjective, Distinct
<1>4. IsFiniteSet(1..Len(s)) /\ Cardinality(1..Len(s)) = Len(s)
  BY <1>1, FS_Interval
<1> QED
  BY <1>2, <1>3, <1>4, FS_Surjection

-----------------------------------------------------------------------------
(* The registry of the broker. *)

\* The subscriptions are finitely many, and so are their topics.
LEMMA FiniteRegistry ==
  ASSUME NEW reg, NEW K, Registered(reg, K)
  PROVE  IsFiniteSet(K) /\ K \subseteq Keys /\ IsFiniteSet(TopicsOf(K))
         /\ Cardinality(K) = Len(reg.array)
<1>1. IsFiniteSet(K) /\ Cardinality(K) = Len(reg.array) /\ K \subseteq Keys
  BY DistinctCounts, RangeIs DEF Registered
<1> DEFINE f == [k \in K |-> k.topic]
<1>2. f \in Surjection(K, TopicsOf(K))
  BY DEF Surjection, TopicsOf
<1> HIDE DEF f
<1>3. IsFiniteSet(TopicsOf(K))
  BY <1>1, <1>2, FS_Surjection
<1> QED
  BY <1>1, <1>3

\* ar_event_broker_unsubscribe keeps the array and the counter exact.
LEMMA WithoutIs ==
  ASSUME NEW reg, NEW K, Registered(reg, K), NEW k \in K
  PROVE  Registered(Without(reg, k), K \ {k})
<1> DEFINE a == reg.array
           b == SwapRemove(a, k)
<1>1. a \in Seq(Keys) /\ Distinct(a) /\ Range(a) = K /\ reg.topics = Cardinality(TopicsOf(K))
  BY DEF Registered
<1>2. DOMAIN a = 1..Len(a) /\ Len(a) \in Nat /\ K = {a[i] : i \in 1..Len(a)}
  BY <1>1, LenProperties, RangeIs
<1>3. PICK i \in 1..Len(a) : a[i] = k /\ b = Front([a EXCEPT ![i] = Last(a)])
  <2> DEFINE c == CHOOSE i \in DOMAIN a : a[i] = k
  <2>1. \E i \in DOMAIN a : a[i] = k
    BY <1>2
  <2>2. c \in DOMAIN a /\ a[c] = k
    BY <2>1
  <2>3. b = Front([a EXCEPT ![c] = Last(a)])
    BY DEF SwapRemove
  <2> QED
    BY <1>2, <2>2, <2>3
<1>4. b \in Seq(Keys) /\ Distinct(b) /\ Range(b) = K \ {k}
  <2> HIDE DEF a
  <2>1. b \in Seq(Keys) /\ Compacted(a, i, b)
    BY <1>1, <1>3, SwapOut
  <2> HIDE DEF b
  <2> QED
    BY <1>1, <1>3, <2>1, CompactedValues
<1>5. IsFiniteSet(TopicsOf(K))
  BY FiniteRegistry
<1>6. TopicPresentExcept(a, k.topic, {k}) <=> \E x \in K \ {k} : x.topic = k.topic
  BY <1>2 DEF TopicPresentExcept
<1>7. CASE \E x \in K \ {k} : x.topic = k.topic
  <2>1. TopicsOf(K \ {k}) = TopicsOf(K)
    BY <1>7 DEF TopicsOf
  <2>2. TopicsWithout(reg, k) = Cardinality(TopicsOf(K \ {k}))
    BY <1>1, <1>6, <1>7, <2>1 DEF TopicsWithout
  <2> QED
    BY <1>4, <2>2 DEF Without, Registered
<1>8. CASE ~\E x \in K \ {k} : x.topic = k.topic
  <2>1. TopicsOf(K \ {k}) = TopicsOf(K) \ {k.topic} /\ k.topic \in TopicsOf(K)
    BY <1>8 DEF TopicsOf
  <2>2. Cardinality(TopicsOf(K) \ {k.topic}) = Cardinality(TopicsOf(K)) - 1
    BY <1>5, <2>1, FS_RemoveElement
  <2>3. TopicsWithout(reg, k) = Cardinality(TopicsOf(K \ {k}))
    BY <1>1, <1>6, <1>8, <2>1, <2>2 DEF TopicsWithout
  <2> QED
    BY <1>4, <2>3 DEF Without, Registered
<1> QED
  BY <1>7, <1>8

\* g holds the registry after each of the first m keys is unsubscribed.
Steps(g, keys, m) ==
  g = [n \in 0..m |-> IF n = 0 THEN Registry ELSE Without(g[n - 1], keys[n])]

\* The recursion of WithoutAll is defined for every number of keys.
LEMMA StepsExist ==
  ASSUME NEW keys, NEW m \in Nat
  PROVE  \E g : Steps(g, keys, m)
<1> DEFINE T == {n \in Nat : ~\E g : Steps(g, keys, n)}
<1> SUFFICES ASSUME T # {} PROVE FALSE
  OBVIOUS
<1>1. PICK l \in T : \A n \in T : l <= n
  BY LeastNumber
<1>2. CASE l = 0
  <2> DEFINE g == [n \in 0..0 |-> Registry]
  <2>1. Steps(g, keys, 0)
    BY DEF Steps
  <2> QED
    BY <1>2, <2>1
<1>3. CASE l # 0
  <2>1. l \in Nat /\ l - 1 \in Nat /\ ~(l <= l - 1)
    BY <1>3
  <2>2. PICK g : Steps(g, keys, l - 1)
    BY <1>1, <2>1
  <2> DEFINE h == [n \in 0..l |-> IF n = l THEN Without(g[l - 1], keys[l]) ELSE g[n]]
             k == [n \in 0..l |-> IF n = 0 THEN Registry ELSE Without(h[n - 1], keys[n])]
  <2>3. ASSUME NEW n \in 0..l PROVE h[n] = k[n]
    <3>1. CASE n = 0
      <4>1. h[n] = g[n] /\ n \in 0..l - 1 /\ k[n] = Registry
        BY <1>3, <2>1, <3>1
      <4> QED
        BY <2>2, <3>1, <4>1 DEF Steps
    <3>2. CASE n # 0
      <4>1. n - 1 \in 0..l /\ n - 1 # l /\ n - 1 \in 0..l - 1
        BY <2>1, <3>2
      <4>2. h[n - 1] = g[n - 1]
        BY <4>1
      <4>3. k[n] = Without(g[n - 1], keys[n])
        BY <3>2, <4>2
      <4>4. CASE n = l
        BY <4>3, <4>4
      <4>5. CASE n # l
        <5>1. n \in 0..l - 1 /\ h[n] = g[n]
          BY <2>1, <4>5
        <5>2. g[n] = Without(g[n - 1], keys[n])
          BY <2>2, <3>2, <5>1 DEF Steps
        <5> QED
          BY <4>3, <5>1, <5>2
      <4> QED
        BY <4>4, <4>5
    <3> QED
      BY <3>1, <3>2
  <2>4. h = k
    BY <2>3
  <2>5. Steps(h, keys, l)
    BY <2>4 DEF Steps
  <2> QED
    BY <2>5
<1> QED
  BY <1>2, <1>3

\* WithoutAll takes the keys out one after the other.
LEMMA WithoutAllIs ==
  ASSUME NEW keys, Len(keys) \in Nat
  PROVE  \E g : Steps(g, keys, Len(keys)) /\ WithoutAll(keys) = g[Len(keys)]
<1> DEFINE first == CHOOSE g : Steps(g, keys, Len(keys))
<1>1. WithoutAll(keys) = first[Len(keys)]
  BY DEF WithoutAll, Steps, Registry
<1>2. Steps(first, keys, Len(keys))
  BY StepsExist
<1> QED
  BY <1>1, <1>2

\* All keys of a client are unsubscribed, one after the other.
LEMMA ReleasedRegistry ==
  ASSUME NEW K, Registered(Registry, K), NEW keys \in Seq(K), Distinct(keys)
  PROVE  Registered(WithoutAll(keys), K \ Range(keys))
<1>1. Len(keys) \in Nat /\ Range(keys) = {keys[i] : i \in 1..Len(keys)}
  BY RangeIs, LenProperties
<1>2. PICK g : Steps(g, keys, Len(keys)) /\ WithoutAll(keys) = g[Len(keys)]
  BY <1>1, WithoutAllIs
<1> DEFINE Gone(n) == {keys[i] : i \in 1..n}
           T == {n \in 0..Len(keys) : ~Registered(g[n], K \ Gone(n))}
<1>3. T = {}
  <2> SUFFICES ASSUME T # {} PROVE FALSE
    OBVIOUS
  <2>1. T \in SUBSET Nat
    BY <1>1
  <2>2. PICK l \in T : \A n \in T : l <= n
    BY <2>1, LeastNumber
  <2>3. l \in 0..Len(keys) /\ ~Registered(g[l], K \ Gone(l))
    BY <2>2
  <2>4. CASE l = 0
    <3>1. g[0] = Registry /\ Gone(0) = {}
      BY <1>1, <1>2 DEF Steps
    <3> QED
      BY <2>3, <2>4, <3>1
  <2>5. CASE l # 0
    <3>1. l - 1 \in 0..Len(keys) /\ ~(l <= l - 1) /\ l \in 1..Len(keys)
      BY <1>1, <2>3, <2>5
    <3>2. Registered(g[l - 1], K \ Gone(l - 1))
      BY <2>2, <3>1
    <3>3. g[l] = Without(g[l - 1], keys[l])
      BY <1>2, <2>3, <2>5 DEF Steps
    <3>4. keys[l] \in K
      BY <3>1, ElementOfSeq
    <3>5. ASSUME NEW i \in 1..l - 1 PROVE keys[i] # keys[l]
      <4>1. i \in 1..Len(keys) /\ i # l
        BY <1>1, <3>1
      <4> QED
        BY <3>1, <4>1 DEF Distinct
    <3>6. keys[l] \in K \ Gone(l - 1)
      BY <3>4, <3>5
    <3>7. Registered(g[l], (K \ Gone(l - 1)) \ {keys[l]})
      <4> HIDE DEF Gone
      <4> QED
        BY <3>2, <3>3, <3>6, WithoutIs
    <3>8. 1..l = (1..l - 1) \cup {l}
      BY <3>1
    <3>9. (K \ Gone(l - 1)) \ {keys[l]} = K \ Gone(l)
      BY <3>8
    <3> QED
      BY <2>3, <3>7, <3>9
  <2> QED
    BY <2>4, <2>5
<1>4. Registered(g[Len(keys)], K \ Gone(Len(keys)))
  <2>1. Len(keys) \in 0..Len(keys)
    BY <1>1
  <2> HIDE DEF Gone
  <2> QED
    BY <1>3, <2>1
<1> QED
  BY <1>1, <1>2, <1>4

\* ar_event_broker_subscribe keeps them exact, too, and within the limits.
LEMMA SubscribeRegistry ==
  ASSUME BrokerInv, NEW k \in Keys, NEW policy \in Policies, Subscribe(k, policy)
  PROVE  BrokerInv' /\ k \notin Subscribed /\ Subscribed' = Subscribed \cup {k}
<1> DEFINE a == subscriptions
           b == Append(a, k)
<1>1. /\ a \in Seq(Keys) /\ Distinct(a) /\ Range(a) = Subscribed
      /\ topic_count = Cardinality(TopicsOf(Subscribed))
  BY DEF BrokerInv, Registered, Registry
<1>2. /\ subscriptions' = b /\ UNCHANGED next_sequence
      /\ ring' = [j \in Subscribed \cup {k} |-> IF j = k THEN EmptyRing(policy) ELSE ring[j]]
      /\ topic_count' = IF TopicPresentExcept(b, k.topic, {k}) THEN topic_count ELSE topic_count + 1
  BY DEF Subscribe
<1>3. DOMAIN a = 1..Len(a) /\ Len(a) \in Nat /\ Subscribed = {a[i] : i \in 1..Len(a)}
  BY <1>1, LenProperties, RangeIs
<1>4. k \notin Subscribed
  BY <1>3 DEF Subscribe, SubscribeAllowed, AlreadySubscribed
<1>5. Subscribed' = Subscribed \cup {k}
  BY <1>2 DEF Subscribed
<1>6. /\ b \in Seq(Keys) /\ Len(b) = Len(a) + 1 /\ b[Len(a) + 1] = k /\ DOMAIN b = 1..Len(a) + 1
      /\ \A i \in 1..Len(a) : b[i] = a[i]
  BY <1>1, AppendProperties, LenProperties
<1>7. Range(b) = Subscribed \cup {k}
  <2> HIDE DEF b
  <2>1. 1..Len(a) + 1 = 1..Len(a) \cup {Len(a) + 1}
    BY <1>3
  <2>2. Range(b) = {b[i] : i \in 1..Len(a) + 1}
    BY <1>6 DEF Range
  <2> QED
    BY <1>3, <1>6, <2>1, <2>2
<1>8. Distinct(b)
  <2>1. \A i \in 1..Len(b) : i = Len(a) + 1 \/ i \in 1..Len(a)
    BY <1>3, <1>6
  <2>2. \A i \in 1..Len(a) : a[i] # k
    BY <1>3, <1>4
  <2> HIDE DEF b
  <2>3. ASSUME NEW i \in 1..Len(b), NEW j \in 1..Len(b), b[i] = b[j] PROVE i = j
    <3>1. CASE i = Len(a) + 1 /\ j = Len(a) + 1
      BY <3>1
    <3>2. CASE i \in 1..Len(a) /\ j \in 1..Len(a)
      BY <1>1, <1>6, <2>3, <3>2 DEF Distinct
    <3>3. CASE i = Len(a) + 1 /\ j \in 1..Len(a)
      BY <1>6, <2>2, <2>3, <3>3
    <3>4. CASE j = Len(a) + 1 /\ i \in 1..Len(a)
      BY <1>6, <2>2, <2>3, <3>4
    <3> QED
      BY <2>1, <3>1, <3>2, <3>3, <3>4
  <2> QED
    BY <2>3 DEF Distinct
<1>9. TopicPresentExcept(b, k.topic, {k}) <=> \E x \in Subscribed : x.topic = k.topic
  <2>1. TopicPresentExcept(b, k.topic, {k}) <=> \E x \in Range(b) : x # k /\ x.topic = k.topic
    BY DEF TopicPresentExcept, Range
  <2> QED
    BY <1>4, <1>7, <2>1
<1>10. TopicPresentExcept(a, k.topic, {}) <=> \E x \in Subscribed : x.topic = k.topic
  BY <1>3 DEF TopicPresentExcept
<1>11. TopicsOf(Subscribed \cup {k}) = TopicsOf(Subscribed) \cup {k.topic}
  BY DEF TopicsOf
<1>12. IsFiniteSet(TopicsOf(Subscribed))
  BY FiniteRegistry DEF BrokerInv
<1>13. topic_count' = Cardinality(TopicsOf(Subscribed')) /\ topic_count' <= MaxTopics
  <2>1. Cardinality(TopicsOf(Subscribed) \cup {k.topic})
          = IF k.topic \in TopicsOf(Subscribed) THEN Cardinality(TopicsOf(Subscribed))
            ELSE Cardinality(TopicsOf(Subscribed)) + 1
    BY <1>12, FS_AddElement
  <2>2. k.topic \in TopicsOf(Subscribed) <=> \E x \in Subscribed : x.topic = k.topic
    BY DEF TopicsOf
  <2>3. topic_count' = Cardinality(TopicsOf(Subscribed'))
    BY <1>1, <1>2, <1>5, <1>9, <1>11, <2>1, <2>2
  <2>4. Cardinality(TopicsOf(Subscribed)) \in Nat
    BY <1>12, FS_CardinalityType
  <2>5. topic_count' <= MaxTopics
    BY <1>1, <1>2, <1>9, <1>10, <2>4, BrokerAssumption DEF Subscribe, SubscribeAllowed, BrokerInv
  <2> QED
    BY <2>3, <2>5
<1>14. Registered(Registry, Subscribed)'
  BY <1>2, <1>5, <1>6, <1>7, <1>8, <1>13 DEF Registered, Registry
<1>15. ASSUME NEW j \in Subscribed' PROVE ring'[j] \in Rings
  <2>1. EmptyRing(policy) \in Rings
    BY BrokerAssumption DEF EmptyRing, Rings
  <2> QED
    BY <1>2, <1>5, <2>1 DEF BrokerInv
<1> QED
  BY <1>2, <1>4, <1>5, <1>13, <1>14, <1>15 DEF BrokerInv

\* Releasing a client takes exactly its subscriptions out of the registry.
LEMMA ReleaseRegistry ==
  ASSUME BrokerInv, NEW keys \in Seq(Subscribed), Distinct(keys), Release(keys)
  PROVE  BrokerInv' /\ Subscribed' = Subscribed \ Range(keys)
         /\ \A k \in Subscribed' : ring'[k] = ring[k]
<1>1. Registered(WithoutAll(keys), Subscribed \ Range(keys))
  BY ReleasedRegistry DEF BrokerInv
<1>2. Subscribed' = Subscribed \ Range(keys) /\ \A k \in Subscribed' : ring'[k] = ring[k]
  BY DEF Release, Subscribed
<1>3. Registered(Registry, Subscribed)'
  BY <1>1, <1>2 DEF Release, Registered, Registry
<1>4. topic_count' <= MaxTopics
  <2> DEFINE A == TopicsOf(Subscribed)
             B == TopicsOf(Subscribed \ Range(keys))
  <2>1. IsFiniteSet(A) /\ topic_count = Cardinality(A)
    BY FiniteRegistry DEF BrokerInv, Registered, Registry
  <2>2. B \in SUBSET A
    BY DEF TopicsOf
  <2>3. topic_count' = Cardinality(B)
    BY <1>2, <1>3 DEF Registered, Registry
  <2> HIDE DEF A, B
  <2>4. Cardinality(B) <= Cardinality(A) /\ Cardinality(A) \in Nat /\ Cardinality(B) \in Nat
    BY <2>1, <2>2, FS_Subset, FS_CardinalityType
  <2> QED
    BY <2>1, <2>3, <2>4, BrokerAssumption DEF BrokerInv
<1> QED
  BY <1>2, <1>3, <1>4 DEF BrokerInv, Release

\* The rings of the broker stay rings.
LEMMA DropHeadIs ==
  ASSUME NEW r \in Rings, r.count # 0
  PROVE  DropHead(r) \in Rings /\ DropHead(r).count = r.count - 1
<1> DEFINE q == [r.queue EXCEPT ![r.head] = 0]
           h == (r.head + 1) % RingDepth
<1>1. DropHead(r) = [r EXCEPT !.queue = q, !.head = h, !.count = r.count - 1]
  BY DEF DropHead, Rings
<1>2. q \in [0..RingDepth - 1 -> 0..MaxSequence]
  BY BrokerAssumption DEF Rings
<1>3. h \in 0..RingDepth - 1 /\ r.count - 1 \in 0..RingDepth
  BY BrokerAssumption, SMTT(30) DEF Rings
<1> HIDE DEF q, h
<1> QED
  BY <1>1, <1>2, <1>3 DEF Rings

\* Writing at the tail of a ring that has room gives a ring with one more event.
LEMMA PutTailIs ==
  ASSUME NEW r \in Rings, r.count < RingDepth, NEW n \in 0..MaxSequence
  PROVE  PutTail(r, n) \in Rings /\ PutTail(r, n).count = r.count + 1
<1> DEFINE i == (r.head + r.count) % RingDepth
           q == [r.queue EXCEPT ![i] = n]
<1>1. PutTail(r, n) = [r EXCEPT !.queue = q, !.count = r.count + 1]
  BY DEF PutTail, Rings
<1>2. q \in [0..RingDepth - 1 -> 0..MaxSequence]
  BY BrokerAssumption DEF Rings
<1>3. r.count + 1 \in 0..RingDepth
  BY BrokerAssumption DEF Rings
<1> HIDE DEF q
<1> QED
  BY <1>1, <1>2, <1>3 DEF Rings

\* Whatever the policy decides, an enqueue leaves a ring within its depth.
LEMMA EnqueueIs ==
  ASSUME NEW r \in Rings, NEW n \in 0..MaxSequence, NEW noMemory
  PROVE  /\ Enqueue(r, n, noMemory) \in Rings
         /\ r.count = 0 => Enqueue(r, n, noMemory).count \in {0, 1}
<1>1. r.count \in 0..RingDepth /\ RingDepth \in Nat \ {0}
  BY BrokerAssumption DEF Rings
<1>2. CASE Enqueue(r, n, noMemory) = r
  BY <1>2
<1>3. CASE ~Full(r) /\ Enqueue(r, n, noMemory) = PutTail(r, n)
  <2>1. r.count < RingDepth
    BY <1>1, <1>3 DEF Full
  <2> QED
    BY <1>1, <1>3, <2>1, PutTailIs
<1>4. CASE Full(r) /\ Enqueue(r, n, noMemory) = PutTail(DropHead(r), n)
  <2>1. DropHead(r) \in Rings /\ DropHead(r).count < RingDepth /\ r.count # 0
    BY <1>1, <1>4, DropHeadIs DEF Full
  <2> QED
    BY <1>4, <2>1, PutTailIs
<1> QED
  BY <1>2, <1>3, <1>4 DEF Enqueue

\* ar_event_broker_emit: at most one more event in each ring.
LEMMA EmitBroker ==
  ASSUME BrokerInv, NEW topic, Emit(topic)
  PROVE  /\ BrokerInv' /\ Subscribed' = Subscribed
         /\ \A k \in Subscribed : ring[k].count = 0 => ring'[k].count \in {0, 1}
<1>1. PICK noMemory : ring' = [k \in Subscribed |->
        IF k.topic = topic THEN Enqueue(ring[k], next_sequence, k \in noMemory) ELSE ring[k]]
  BY DEF Emit
<1>2. Subscribed' = Subscribed
  BY <1>1 DEF Subscribed
<1>3. next_sequence' \in 1..MaxSequence /\ next_sequence \in 0..MaxSequence
  BY BrokerAssumption DEF BrokerInv, Emit, SequenceAfterEmit
<1>4. ASSUME NEW k \in Subscribed
      PROVE  ring'[k] \in Rings /\ (ring[k].count = 0 => ring'[k].count \in {0, 1})
  <2>1. ring[k] \in Rings
    BY DEF BrokerInv
  <2>2. CASE k.topic = topic
    <3>1. ring'[k] = Enqueue(ring[k], next_sequence, k \in noMemory)
      BY <1>1, <2>2
    <3>2. \A b : /\ Enqueue(ring[k], next_sequence, b) \in Rings
                 /\ ring[k].count = 0 => Enqueue(ring[k], next_sequence, b).count \in {0, 1}
      BY <1>3, <2>1, EnqueueIs
    <3> QED
      BY <3>1, <3>2
  <2>3. CASE k.topic # topic
    BY <1>1, <2>1, <2>3
  <2> QED
    BY <2>2, <2>3
<1>5. Registered(Registry, Subscribed)' /\ topic_count' <= MaxTopics
  BY <1>2 DEF BrokerInv, Registered, Registry, Emit
<1> QED
  BY <1>2, <1>3, <1>4, <1>5 DEF BrokerInv

\* ar_event_subscription_receive: one event less in one ring.
LEMMA ReceiveBroker ==
  ASSUME BrokerInv, NEW k, Receive(k)
  PROVE  /\ BrokerInv' /\ Subscribed' = Subscribed /\ k \in Subscribed
         /\ ring'[k].count = ring[k].count - 1
         /\ \A j \in Subscribed : j # k => ring'[j] = ring[j]
<1>1. k \in Subscribed /\ ring[k] \in Rings /\ ring[k].count # 0
  BY DEF Receive, BrokerInv
<1>2. DropHead(ring[k]) \in Rings /\ DropHead(ring[k]).count = ring[k].count - 1
  BY <1>1, DropHeadIs
<1>3. ring' = [ring EXCEPT ![k] = DropHead(ring[k])]
  BY DEF Receive
<1>4. Subscribed' = Subscribed
  BY <1>3 DEF Subscribed
<1>5. ring'[k] = DropHead(ring[k]) /\ \A j \in Subscribed : j # k => ring'[j] = ring[j]
  BY <1>1, <1>3 DEF Subscribed
<1>6. Registered(Registry, Subscribed)' /\ topic_count' <= MaxTopics /\ next_sequence' \in 1..MaxSequence
  BY <1>4 DEF BrokerInv, Registered, Registry, Receive
<1>7. \A j \in Subscribed : ring'[j] \in Rings
  BY <1>2, <1>5 DEF BrokerInv
<1> QED
  BY <1>1, <1>2, <1>4, <1>5, <1>6, <1>7 DEF BrokerInv

\* A sequence of one subscription.
LEMMA OneKey ==
  ASSUME NEW k \in Subscribed
  PROVE  <<k>> \in Seq(Subscribed) /\ Distinct(<<k>>) /\ Range(<<k>>) = {k}
<1>1. <<k>> \in Seq(Subscribed) /\ Len(<<k>>) = 1 /\ <<k>>[1] = k
  OBVIOUS
<1>2. 1..1 = {1}
  OBVIOUS
<1>3. Range(<<k>>) = {<<k>>[j] : j \in 1..1}
  BY <1>1, RangeIs
<1> QED
  BY <1>1, <1>2, <1>3 DEF Distinct

\* Nobody is subscribed at first.
LEMMA NothingSubscribed == ASSUME BrokerInit PROVE BrokerInv /\ Subscribed = {}
<1>1. /\ subscriptions = <<>> /\ topic_count = 0 /\ next_sequence = 1
      /\ ring = [k \in {} |-> <<>>]
  BY DEF BrokerInit
<1>2. Subscribed = {}
  BY <1>1 DEF Subscribed
<1>3. BrokerInv
  <2>1. <<>> \in Seq(Keys) /\ Len(<<>>) = 0
    BY EmptySeq
  <2>2. Distinct(<<>>) /\ Range(<<>>) = {}
    <3>1. 1..0 = {}
      OBVIOUS
    <3>2. PICK e \in Seq(Keys) : e = <<>>
      BY <2>1
    <3>3. Range(e) = {e[i] : i \in 1..Len(e)}
      BY RangeIs
    <3>4. Len(e) = 0
      BY <2>1, <3>2
    <3>5. Distinct(e) /\ Range(e) = {}
      BY <3>1, <3>3, <3>4 DEF Distinct
    <3> QED
      BY <3>2, <3>5
  <2>3. TopicsOf({}) = {} /\ Cardinality({}) = 0
    BY FS_EmptySet DEF TopicsOf
  <2>4. Registered(Registry, Subscribed)
    BY <1>1, <1>2, <2>1, <2>2, <2>3 DEF Registered, Registry
  <2> QED
    BY <1>1, <1>2, <2>4, BrokerAssumption DEF BrokerInv
<1> QED
  BY <1>2, <1>3

\* The invariant says that the registry is exact.
LEMMA ExactRegistry == BrokerInv => RegistryExact
<1> SUFFICES ASSUME BrokerInv PROVE RegistryExact
  OBVIOUS
<1>1. Registered(Registry, Subscribed) /\ topic_count <= MaxTopics
  BY DEF BrokerInv
<1>2. Cardinality(Subscribed) = Len(subscriptions)
  BY <1>1, FiniteRegistry DEF Registry
<1> QED
  BY <1>1, <1>2 DEF RegistryExact, Registered, Registry, TopicsOf

-----------------------------------------------------------------------------
(* The broker implements its contract. *)

\* The remainder by the depth of a sum of two positions.
LEMMA Wraps ==
  ASSUME NEW x \in Nat, x < 2 * RingDepth
  PROVE  x % RingDepth = IF x < RingDepth THEN x ELSE x - RingDepth
<1>1. RingDepth \in Nat /\ RingDepth > 0
  BY BrokerAssumption
<1>2. CASE x < RingDepth
  BY <1>1, <1>2
<1>3. CASE x >= RingDepth
  BY <1>1, <1>3
<1> QED
  BY <1>1, <1>2, <1>3

\* Different offsets below the depth are different places.
LEMMA PlacesDiffer ==
  ASSUME NEW depth \in Nat, NEW head \in Nat, head < depth,
         NEW i \in Nat, NEW j \in Nat, 1 <= i, i < j, j <= depth
  PROVE  (IF head + i - 1 < depth THEN head + i - 1 ELSE head + i - 1 - depth)
           # (IF head + j - 1 < depth THEN head + j - 1 ELSE head + j - 1 - depth)
  OBVIOUS

\* The place of the i-th event of a ring.
Place(r, i) == IF r.head + i - 1 < RingDepth THEN r.head + i - 1 ELSE r.head + i - 1 - RingDepth

\* The events of a ring are read from its head, wrapping at its depth.
LEMMA ContentsAre ==
  ASSUME NEW r \in Rings
  PROVE  /\ Contents(r) \in Seq(0..MaxSequence) /\ Len(Contents(r)) = r.count
         /\ DOMAIN Contents(r) = 1..r.count
         /\ \A i \in 1..r.count : Contents(r)[i] = r.queue[Place(r, i)] /\ Place(r, i) \in 0..RingDepth - 1
<1>1. /\ RingDepth \in Nat \ {0} /\ r.head \in 0..RingDepth - 1 /\ r.count \in 0..RingDepth
      /\ r.queue \in [0..RingDepth - 1 -> 0..MaxSequence]
  BY BrokerAssumption DEF Rings
<1>2. ASSUME NEW i \in 1..r.count
      PROVE  (r.head + i - 1) % RingDepth = Place(r, i) /\ Place(r, i) \in 0..RingDepth - 1
  <2>1. PICK x \in Nat : x = r.head + i - 1 /\ x < 2 * RingDepth
    BY <1>1
  <2>2. x % RingDepth = IF x < RingDepth THEN x ELSE x - RingDepth
    BY <2>1, Wraps
  <2>4. (r.head + i - 1) % RingDepth = Place(r, i)
    BY <1>1, <2>1, <2>2 DEF Place
  <2>3. Place(r, i) \in 0..RingDepth - 1
    BY <1>1 DEF Place
  <2> QED
    BY <2>3, <2>4
<1>3. Contents(r) = [i \in 1..r.count |-> r.queue[(r.head + i - 1) % RingDepth]]
  BY DEF Contents
<1>4. \A i \in 1..r.count : Contents(r)[i] = r.queue[Place(r, i)] /\ Place(r, i) \in 0..RingDepth - 1
  BY <1>2, <1>3
<1>5. Contents(r) \in [1..r.count -> 0..MaxSequence]
  BY <1>1, <1>3, <1>4
<1>6. PICK s : s = Contents(r) /\ s \in [1..r.count -> 0..MaxSequence]
  BY <1>5
<1>7. r.count \in Nat
  BY <1>1
<1>8. s \in Seq(0..MaxSequence)
  <2>1. \A S : \A n \in Nat : \A f \in [1..n -> S] : f \in Seq(S)
    OBVIOUS
  <2> QED
    BY <1>6, <1>7, <2>1
<1>9. DOMAIN s = 1..r.count /\ DOMAIN s = 1..Len(s) /\ Len(s) \in Nat
  BY <1>6, <1>8, LenProperties
<1>10. Len(s) = r.count
  BY <1>7, <1>9
<1> QED
  BY <1>4, <1>6, <1>8, <1>9, <1>10

\* An empty ring has no events.
LEMMA ContentsOfEmpty == ASSUME NEW policy \in Policies PROVE Contents(EmptyRing(policy)) = <<>>
<1>1. EmptyRing(policy) \in Rings /\ EmptyRing(policy).count = 0
  BY BrokerAssumption DEF EmptyRing, Rings
<1> QED
  BY <1>1, ContentsAre, EmptySeq

\* Dropping the head of the ring takes its oldest event.
LEMMA ContentsOfDrop ==
  ASSUME NEW r \in Rings, r.count # 0
  PROVE  Contents(DropHead(r)) = Tail(Contents(r))
<1> DEFINE q == [r.queue EXCEPT ![r.head] = 0]
           h == IF r.head + 1 < RingDepth THEN r.head + 1 ELSE 0
           d == DropHead(r)
           C == Contents(r)
<1>1. /\ RingDepth \in Nat \ {0} /\ r.head \in 0..RingDepth - 1 /\ r.count \in 1..RingDepth
      /\ r.queue \in [0..RingDepth - 1 -> 0..MaxSequence]
  BY BrokerAssumption DEF Rings
<1>2. d \in Rings /\ d.count = r.count - 1
  BY DropHeadIs
<1>3. (r.head + 1) % RingDepth = h
  <2>1. r.head + 1 \in Nat /\ r.head + 1 < 2 * RingDepth
    BY <1>1
  <2> QED
    BY <1>1, <2>1, Wraps, SMTT(30)
<1>4. d.queue = q /\ d.head = h
  BY <1>3 DEF DropHead, Rings
<1>5. /\ C \in Seq(0..MaxSequence) /\ Len(C) = r.count
      /\ \A i \in 1..r.count : C[i] = r.queue[Place(r, i)] /\ Place(r, i) \in 0..RingDepth - 1
  BY ContentsAre
<1>6. /\ Contents(d) \in Seq(0..MaxSequence) /\ Len(Contents(d)) = r.count - 1
      /\ \A i \in 1..r.count - 1 : Contents(d)[i] = q[Place(d, i)]
  BY <1>2, <1>4, ContentsAre
<1> HIDE DEF d, C
<1>7. C # <<>>
  BY <1>1, <1>5, EmptySeq
<1>8. /\ Tail(C) \in Seq(0..MaxSequence) /\ Len(Tail(C)) = r.count - 1
      /\ \A i \in 1..r.count - 1 : Tail(C)[i] = C[i + 1]
  BY <1>5, <1>7, HeadTailProperties
<1>9. ASSUME NEW i \in 1..r.count - 1 PROVE Contents(d)[i] = Tail(C)[i]
  <2>1. i + 1 \in 1..r.count
    BY <1>1
  <2>2. Place(d, i) = Place(r, i + 1)
    <3>1. i \in Nat /\ i >= 1 /\ i + 1 <= RingDepth /\ r.head \in Nat
      BY <1>1
    <3>2. CASE r.head + 1 < RingDepth
      <4>1. d.head = r.head + 1
        BY <1>4, <3>2
      <4>2. d.head + i - 1 = r.head + (i + 1) - 1
        BY <3>1, <4>1
      <4> QED
        BY <1>1, <3>1, <4>1, <4>2 DEF Place
    <3>3. CASE ~(r.head + 1 < RingDepth)
      <4>1. d.head = 0 /\ r.head = RingDepth - 1
        BY <1>1, <1>4, <3>3
      <4> QED
        BY <1>1, <3>1, <4>1 DEF Place
    <3> QED
      BY <3>2, <3>3
  <2>3. Place(r, i + 1) # r.head
    BY <1>1, <2>1, SMTT(30) DEF Place
  <2>4. q[Place(r, i + 1)] = r.queue[Place(r, i + 1)]
    BY <1>1, <1>5, <2>1, <2>3
  <2> QED
    BY <1>5, <1>6, <1>8, <2>1, <2>2, <2>4
<1>10. Contents(d) = Tail(C)
  <2> HIDE DEF q
  <2>1. PICK s \in Seq(0..MaxSequence), t \in Seq(0..MaxSequence) : s = Contents(d) /\ t = Tail(C)
    BY <1>6, <1>8
  <2>2. Len(s) = Len(t) /\ \A i \in 1..Len(s) : s[i] = t[i]
    BY <1>6, <1>8, <1>9, <2>1
  <2> QED
    BY <2>1, <2>2, SeqEqual
<1> QED
  BY <1>10 DEF d, C

\* Putting an event at the tail appends it.
LEMMA ContentsOfPut ==
  ASSUME NEW r \in Rings, r.count < RingDepth, NEW n \in 0..MaxSequence
  PROVE  Contents(PutTail(r, n)) = Append(Contents(r), n)
<1> DEFINE q == [r.queue EXCEPT ![Place(r, r.count + 1)] = n]
           d == PutTail(r, n)
           C == Contents(r)
<1>1. /\ RingDepth \in Nat \ {0} /\ r.head \in 0..RingDepth - 1 /\ r.count \in 0..RingDepth - 1
      /\ r.queue \in [0..RingDepth - 1 -> 0..MaxSequence]
  BY BrokerAssumption DEF Rings
<1>2. d \in Rings /\ d.count = r.count + 1
  BY PutTailIs
<1>3. (r.head + r.count) % RingDepth = Place(r, r.count + 1)
  <2>1. PICK x \in Nat : x = r.head + r.count /\ x < 2 * RingDepth /\ r.head + (r.count + 1) - 1 = x
    BY <1>1
  <2>2. x % RingDepth = IF x < RingDepth THEN x ELSE x - RingDepth
    BY <2>1, Wraps
  <2> QED
    BY <1>1, <2>1, <2>2, SMTT(30) DEF Place
<1>4. d.queue = q /\ d.head = r.head
  BY <1>3 DEF PutTail, Rings
<1>5. /\ C \in Seq(0..MaxSequence) /\ Len(C) = r.count
      /\ \A i \in 1..r.count : C[i] = r.queue[Place(r, i)] /\ Place(r, i) \in 0..RingDepth - 1
  BY ContentsAre
<1>6. /\ Contents(d) \in Seq(0..MaxSequence) /\ Len(Contents(d)) = r.count + 1
      /\ \A i \in 1..r.count + 1 : Contents(d)[i] = q[Place(d, i)] /\ Place(d, i) \in 0..RingDepth - 1
  BY <1>2, <1>4, ContentsAre
<1> HIDE DEF d, C
<1>7. /\ Append(C, n) \in Seq(0..MaxSequence) /\ Len(Append(C, n)) = r.count + 1
      /\ \A i \in 1..r.count : Append(C, n)[i] = C[i]
      /\ Append(C, n)[r.count + 1] = n
  BY <1>5, AppendProperties
<1>8. ASSUME NEW i \in 1..r.count + 1 PROVE Contents(d)[i] = Append(C, n)[i]
  <2>1. Place(d, i) = Place(r, i)
    BY <1>4 DEF Place
  <2>2. CASE i = r.count + 1
    <3>1. q[Place(r, i)] = n
      BY <1>1, <1>6, <2>1, <2>2
    <3> QED
      BY <1>6, <1>7, <2>1, <2>2, <3>1
  <2>3. CASE i \in 1..r.count
    <3>1. Place(r, i) # Place(r, r.count + 1)
      <4>1. /\ RingDepth \in Nat /\ r.head \in Nat /\ r.head < RingDepth /\ i \in Nat /\ 1 <= i
            /\ r.count + 1 \in Nat /\ i < r.count + 1 /\ r.count + 1 <= RingDepth
        BY <1>1, <2>3
      <4> QED
        BY <4>1, PlacesDiffer DEF Place
    <3>2. q[Place(r, i)] = r.queue[Place(r, i)]
      BY <1>1, <1>5, <2>3, <3>1
    <3> QED
      BY <1>5, <1>6, <1>7, <2>1, <2>3, <3>2
  <2>4. i \in 1..r.count \/ i = r.count + 1
    BY <1>1
  <2> QED
    BY <2>2, <2>3, <2>4
<1>9. Contents(d) = Append(C, n)
  <2> HIDE DEF q
  <2>1. PICK s \in Seq(0..MaxSequence), t \in Seq(0..MaxSequence) : s = Contents(d) /\ t = Append(C, n)
    BY <1>6, <1>7
  <2>2. Len(s) = Len(t) /\ \A i \in 1..Len(s) : s[i] = t[i]
    BY <1>6, <1>7, <1>8, <2>1
  <2> QED
    BY <2>1, <2>2, SeqEqual
<1> QED
  BY <1>9 DEF d, C

\* What a ring holds after an emit is what the contract says of its contents.
LEMMA EnqueueContents ==
  ASSUME NEW r \in Rings, NEW n \in 0..MaxSequence, NEW noMemory \in BOOLEAN
  PROVE  /\ Enqueue(r, n, noMemory).policy = r.policy
         /\ Contents(Enqueue(r, n, noMemory))
              = Contract!Accepts([policy |-> r.policy, msgs |-> Contents(r)], n, noMemory)
<1> DEFINE e == Enqueue(r, n, noMemory)
           A == Contract!Accepts([policy |-> r.policy, msgs |-> Contents(r)], n, noMemory)
<1>1. r.count \in 0..RingDepth /\ RingDepth \in Nat \ {0} /\ r.policy \in Policies
  BY BrokerAssumption DEF Rings
<1>2. Len(Contents(r)) = r.count
  BY ContentsAre
<1>3. A = IF noMemory \/ (r.count >= RingDepth /\ r.policy # "DROP_OLDEST") THEN Contents(r)
          ELSE Append(IF r.count >= RingDepth THEN Tail(Contents(r)) ELSE Contents(r), n)
  BY <1>2 DEF Contract!Accepts
<1>4. CASE noMemory \/ (Full(r) /\ r.policy = "DROP_NEWEST")
  <2>1. e = r
    BY <1>4 DEF Enqueue
  <2>2. A = Contents(r)
    BY <1>1, <1>3, <1>4 DEF Full, Policies
  <2> QED
    BY <2>1, <2>2
<1>5. CASE ~noMemory /\ ~Full(r)
  <2>1. e = PutTail(r, n) /\ r.count < RingDepth
    BY <1>1, <1>5 DEF Enqueue, Full
  <2>2. A = Append(Contents(r), n)
    BY <1>1, <1>3, <1>5, <2>1
  <2>3. PutTail(r, n).policy = r.policy
    BY DEF PutTail, Rings
  <2> QED
    BY <2>1, <2>2, <2>3, ContentsOfPut
<1>6. CASE ~noMemory /\ Full(r) /\ r.policy # "DROP_NEWEST"
  <2>1. e = PutTail(DropHead(r), n) /\ r.count = RingDepth /\ r.count # 0
    BY <1>1, <1>6 DEF Enqueue, Full
  <2>2. A = Append(Tail(Contents(r)), n)
    BY <1>1, <1>3, <1>6, <2>1 DEF Policies
  <2>3. DropHead(r) \in Rings /\ DropHead(r).count < RingDepth
    BY <1>1, <2>1, DropHeadIs
  <2>4. Contents(e) = Append(Tail(Contents(r)), n)
    BY <2>1, <2>3, ContentsOfPut, ContentsOfDrop
  <2>5. DropHead(r).policy = r.policy
    BY DEF DropHead, Rings
  <2>6. PutTail(DropHead(r), n).policy = DropHead(r).policy
    BY <2>3 DEF PutTail, Rings
  <2> QED
    BY <2>1, <2>2, <2>4, <2>5, <2>6
<1> QED
  BY <1>4, <1>5, <1>6

\* Each call of the broker keeps its invariant.
LEMMA BrokerStepInv == BrokerInv /\ [BrokerNext]_brokerVars => BrokerInv'
<1> SUFFICES ASSUME BrokerInv, [BrokerNext]_brokerVars PROVE BrokerInv'
  OBVIOUS
<1>1. CASE UNCHANGED brokerVars
  BY <1>1 DEF brokerVars, BrokerInv, Registered, Registry, Subscribed
<1>2. ASSUME NEW k \in Keys, NEW policy \in Policies, Subscribe(k, policy) PROVE BrokerInv'
  BY <1>2, SubscribeRegistry
<1>3. ASSUME NEW k \in Keys, NEW actor \in Owners, Unsubscribe(actor, k) PROVE BrokerInv'
  BY <1>3, OneKey, ReleaseRegistry DEF Unsubscribe
<1>4. ASSUME NEW k \in Keys, Receive(k) PROVE BrokerInv'
  BY <1>4, ReceiveBroker
<1>5. ASSUME NEW topic \in Topics, Emit(topic) PROVE BrokerInv'
  BY <1>5, EmitBroker
<1> QED
  BY <1>1, <1>2, <1>3, <1>4, <1>5 DEF BrokerNext

\* Subscribe of the broker is Subscribe of the contract.
LEMMA BrokerSubscribes ==
  ASSUME BrokerInv, NEW k \in Keys, NEW policy \in Policies, Subscribe(k, policy)
  PROVE  Contract!Subscribe(k, policy)
<1>1. k \notin Subscribed /\ Subscribed' = Subscribed \cup {k}
  BY SubscribeRegistry
<1>2. /\ next_sequence' = next_sequence
      /\ ring' = [j \in Subscribed \cup {k} |-> IF j = k THEN EmptyRing(policy) ELSE ring[j]]
  BY DEF Subscribe
<1>3. EmptyRing(policy).policy = policy /\ Contents(EmptyRing(policy)) = <<>>
  BY ContentsOfEmpty DEF EmptyRing
<1>4. DOMAIN Boxes = Subscribed
  BY DEF Boxes
<1>5. Boxes' = [j \in Subscribed \cup {k} |->
                  IF j = k THEN [policy |-> policy, msgs |-> <<>>] ELSE Boxes[j]]
  BY <1>1, <1>2, <1>3 DEF Boxes
<1> QED
  BY <1>1, <1>2, <1>4, <1>5 DEF Contract!Subscribe

\* Unsubscribe of the broker is Unsubscribe of the contract.
LEMMA BrokerUnsubscribes ==
  ASSUME BrokerInv, NEW k \in Keys, NEW actor, Unsubscribe(actor, k)
  PROVE  Contract!Unsubscribe(k)
<1>1. k \in Subscribed /\ Range(<<k>>) = {k}
  BY OneKey DEF Unsubscribe
<1>2. next_sequence' = next_sequence /\ ring' = [j \in Subscribed \ {k} |-> ring[j]]
  BY <1>1 DEF Unsubscribe, Release
<1>3. Subscribed' = Subscribed \ {k}
  BY <1>2 DEF Subscribed
<1>4. DOMAIN Boxes = Subscribed
  BY DEF Boxes
<1>5. Boxes' = [j \in Subscribed \ {k} |-> Boxes[j]]
  BY <1>2, <1>3 DEF Boxes
<1> QED
  BY <1>1, <1>2, <1>4, <1>5 DEF Contract!Unsubscribe

\* Consume returns the oldest event, as the contract says.
LEMMA BrokerConsumes ==
  ASSUME BrokerInv, NEW k \in Keys, Receive(k)
  PROVE  Contract!Consume(k)
<1>1. k \in Subscribed /\ ring[k] \in Rings /\ ring[k].count # 0 /\ next_sequence' = next_sequence
  BY DEF Receive, BrokerInv
<1>2. ring' = [ring EXCEPT ![k] = DropHead(ring[k])] /\ Subscribed' = Subscribed
  BY ReceiveBroker DEF Receive
<1>3. ring' = [j \in Subscribed |-> IF j = k THEN DropHead(ring[k]) ELSE ring[j]]
  BY <1>1, <1>2 DEF Subscribed, Receive
<1>4. Contents(DropHead(ring[k])) = Tail(Contents(ring[k])) /\ DropHead(ring[k]).policy = ring[k].policy
  BY <1>1, ContentsOfDrop DEF DropHead, Rings
<1>5. Contents(ring[k]) # <<>>
  BY <1>1, ContentsAre, EmptySeq
<1>6. DOMAIN Boxes = Subscribed /\ Boxes[k] = [policy |-> ring[k].policy, msgs |-> Contents(ring[k])]
  BY <1>1 DEF Boxes
<1>7. Boxes' = [j \in Subscribed |-> IF j = k THEN [policy |-> ring[k].policy, msgs |-> Tail(Contents(ring[k]))]
                                     ELSE Boxes[j]]
  BY <1>2, <1>3, <1>4 DEF Boxes
<1>8. Boxes' = [Boxes EXCEPT ![k].msgs = Tail(Boxes[k].msgs)]
  <2>1. PICK b : b = Boxes /\ b = [j \in Subscribed |-> b[j]]
    BY DEF Boxes
  <2>2. PICK T : T = Tail(b[k].msgs)
    OBVIOUS
  <2>3. [b[k] EXCEPT !.msgs = T] = [policy |-> ring[k].policy, msgs |-> T]
    BY <1>6, <2>1
  <2>4. [b EXCEPT ![k].msgs = T] = [j \in Subscribed |-> IF j = k THEN [b[k] EXCEPT !.msgs = T] ELSE b[j]]
    BY <1>1, <2>1
  <2>5. T = Tail(Contents(ring[k]))
    <3>1. b[k].msgs = Contents(ring[k])
      BY <1>6, <2>1
    <3> QED
      BY <2>2, <3>1
  <2> QED
    BY <1>7, <2>1, <2>2, <2>3, <2>4, <2>5
<1> QED
  BY <1>1, <1>5, <1>6, <1>8 DEF Contract!Consume

\* Publish offers the event to every ring as the contract does, drop policies and failed allocations included.
LEMMA BrokerPublishes ==
  ASSUME BrokerInv, NEW topic \in Topics, Emit(topic)
  PROVE  Contract!Publish(topic)
<1>1. PICK noMemory \in SUBSET {k \in Subscribed : k.topic = topic} :
        ring' = [k \in Subscribed |->
          IF k.topic = topic THEN Enqueue(ring[k], next_sequence, k \in noMemory) ELSE ring[k]]
  BY DEF Emit
<1>2. Subscribed' = Subscribed /\ DOMAIN Boxes = Subscribed
  BY <1>1 DEF Subscribed, Boxes
<1>3. next_sequence' = next_sequence + 1 /\ next_sequence \in 0..MaxSequence
  BY BrokerAssumption DEF Emit, SequenceAfterEmit, BrokerInv
<1>4. ASSUME NEW k \in Subscribed
      PROVE  Boxes'[k] = IF k.topic # topic THEN Boxes[k]
                         ELSE [Boxes[k] EXCEPT !.msgs = Contract!Accepts(Boxes[k], next_sequence, k \in noMemory)]
  <2>1. ring[k] \in Rings
    BY DEF BrokerInv
  <2>2. /\ Boxes[k] = [policy |-> ring[k].policy, msgs |-> Contents(ring[k])]
        /\ Boxes'[k] = [policy |-> ring'[k].policy, msgs |-> Contents(ring'[k])]
    BY <1>2 DEF Boxes
  <2>3. CASE k.topic # topic
    BY <1>1, <2>2, <2>3
  <2>4. CASE k.topic = topic
    <3>1. ring'[k] = Enqueue(ring[k], next_sequence, k \in noMemory)
      BY <1>1, <2>4
    <3>2. \A m \in BOOLEAN :
            /\ Enqueue(ring[k], next_sequence, m).policy = ring[k].policy
            /\ Contents(Enqueue(ring[k], next_sequence, m)) = Contract!Accepts(Boxes[k], next_sequence, m)
      BY <1>3, <2>1, <2>2, EnqueueContents
    <3>3. (k \in noMemory) \in BOOLEAN
      OBVIOUS
    <3>4. /\ ring'[k].policy = ring[k].policy
          /\ Contents(ring'[k]) = Contract!Accepts(Boxes[k], next_sequence, k \in noMemory)
      BY <3>1, <3>2, <3>3
    <3> QED
      BY <2>2, <2>4, <3>4
  <2> QED
    BY <2>3, <2>4
<1>5. Boxes' = [k \in Subscribed |->
                  IF KeyTopic(k) # topic THEN Boxes[k]
                  ELSE [Boxes[k] EXCEPT !.msgs = Contract!Accepts(Boxes[k], next_sequence, k \in noMemory)]]
  <2>1. Boxes' = [k \in Subscribed |-> Boxes'[k]]
    BY <1>2 DEF Boxes
  <2> QED
    BY <1>4, <2>1 DEF KeyTopic
<1>6. noMemory \in SUBSET {k \in DOMAIN Boxes : KeyTopic(k) = topic}
  BY <1>2 DEF KeyTopic
<1> QED
  BY <1>2, <1>3, <1>5, <1>6 DEF Contract!Publish

\* A call of the broker is a call of the contract.
LEMMA BrokerStepIsContract ==
  BrokerInv /\ [BrokerNext]_brokerVars => [Contract!Next]_(Contract!vars)
<1> SUFFICES ASSUME BrokerInv, [BrokerNext]_brokerVars PROVE [Contract!Next]_(Contract!vars)
  OBVIOUS
<1>1. CASE UNCHANGED brokerVars
  BY <1>1 DEF brokerVars, Contract!vars, Boxes, Subscribed
<1>2. ASSUME NEW k \in Keys, NEW policy \in Policies, Subscribe(k, policy) PROVE Contract!Call
  BY <1>2, BrokerSubscribes DEF Contract!Call, Policies
<1>3. ASSUME NEW k \in Keys, NEW actor \in Owners, Unsubscribe(actor, k) PROVE Contract!Call
  BY <1>3, BrokerUnsubscribes DEF Contract!Call
<1>4. ASSUME NEW k \in Keys, Receive(k) PROVE Contract!Call
  BY <1>4, BrokerConsumes DEF Contract!Call
<1>5. ASSUME NEW topic \in Topics, Emit(topic) PROVE Contract!Call
  <2>1. PICK owner \in Owners : TRUE
    BY BrokerAssumption
  <2>2. [owner |-> owner, topic |-> topic] \in Keys /\ KeyTopic([owner |-> owner, topic |-> topic]) = topic
    BY DEF Keys, KeyTopic
  <2>3. topic \in {KeyTopic(k) : k \in Keys}
    BY <2>2
  <2> QED
    BY <1>5, <2>3, BrokerPublishes DEF Contract!Call
<1> QED
  BY <1>1, <1>2, <1>3, <1>4, <1>5 DEF BrokerNext, Contract!Next

\* The broker starts empty.
LEMMA BrokerInitially == BrokerInit => BrokerInv /\ Contract!Init
<1> SUFFICES ASSUME BrokerInit PROVE BrokerInv /\ Contract!Init
  OBVIOUS
<1>1. BrokerInv /\ Subscribed = {}
  BY NothingSubscribed
<1>2. Boxes = [k \in {} |-> <<>>]
  BY <1>1 DEF Boxes
<1> QED
  BY <1>1, <1>2 DEF Contract!Init, BrokerInit

\* Whatever the library's callers do, the arrays and rings implement bounded
\* FIFO queues with their policies (EventContract).
THEOREM BrokerImplementsContract == BrokerSpec => BrokerRefinesContract
<1> QED
  BY BrokerInitially, BrokerStepInv, BrokerStepIsContract, PTL
  DEF BrokerSpec, BrokerRefinesContract, Contract!Spec

\* ... and subscriptions[] and topic_count of broker.c are exact.
THEOREM BrokerRegistryExact == BrokerSpec => []RegistryExact
<1>1. BrokerInv => RegistryExact
  BY ExactRegistry
<1> QED
  BY <1>1, BrokerInitially, BrokerStepInv, PTL DEF BrokerSpec

-----------------------------------------------------------------------------
(* The clients and what they hold. *)

\* A client of the array and its subscriptions.
LEMMA ClientIs ==
  ASSUME DaemonInv, NEW i \in 1..Len(clients)
  PROVE  /\ clients[i].conn \in Conns /\ clients[i].subs \in Seq(Keys)
         /\ Len(clients[i].subs) \in Nat /\ Distinct(clients[i].subs)
         /\ clients[i].subs \in Seq(Subscribed)
<1>1. clients[i] \in Clients
  BY ElementOfSeq DEF DaemonInv, LoopTypes
<1>2. clients[i].conn \in Conns /\ clients[i].subs \in Seq(Keys)
  BY <1>1 DEF Clients
<1> DEFINE s == clients[i].subs
<1>3. Len(s) \in Nat /\ s \in [1..Len(s) -> Keys]
  BY <1>2, LenProperties
<1>4. \A j \in 1..Len(s) : Holds(i, j, s[j])
  BY DEF Holds
<1>5. \A j \in 1..Len(s) : s[j] \in Subscribed
  BY <1>4 DEF DaemonInv, HolderInv
<1>6. Distinct(s)
  BY <1>4 DEF DaemonInv, HolderInv, Distinct
<1>7. s \in [1..Len(s) -> Subscribed]
  BY <1>3, <1>5
<1>8. s \in Seq(Subscribed)
  BY <1>3, <1>7, IsASeq
<1> QED
  BY <1>2, <1>3, <1>6, <1>8

\* client_disconnect: the subscriptions of the client go with it, and those
\* of the client that is moved into its place stay with that one.
LEMMA DisconnectIs ==
  ASSUME DaemonInv, at # "dispatch", at' # "dispatch", NEW i \in 1..Len(clients), Disconnect(i)
  PROVE  /\ BrokerInv' /\ PeerTypes' /\ HolderInv' /\ QueueInv'
         /\ clients' \in Seq(Clients) /\ Len(clients') = Len(clients) - 1
<1> DEFINE n == Len(clients)
           Old(p) == IF p = i THEN n ELSE p
<1>1. clients \in Seq(Clients) /\ n \in Nat
  BY LenProperties DEF DaemonInv, LoopTypes
<1>2. clients' \in Seq(Clients) /\ Compacted(clients, i, clients')
  <2>1. clients' = Front([clients EXCEPT ![i] = Last(clients)])
    BY DEF Disconnect, ClientsWithout
  <2> QED
    BY <1>1, <2>1, SwapOut
<1>3. Len(clients') = n - 1 /\ \A p \in 1..n - 1 : clients'[p] = clients[Old(p)]
  BY <1>2 DEF Compacted
<1>4. /\ clients[i].conn \in Conns /\ Distinct(clients[i].subs) /\ clients[i].subs \in Seq(Subscribed)
  BY ClientIs
<1>5. BrokerInv' /\ Subscribed' = Subscribed \ Range(clients[i].subs)
      /\ \A k \in Subscribed' : ring'[k] = ring[k]
  <2>1. Release(clients[i].subs) /\ BrokerInv
    BY DEF Disconnect, ReleaseSubscriptions, DaemonInv
  <2> QED
    BY <1>4, <2>1, ReleaseRegistry
<1>6. Range(clients[i].subs) = {clients[i].subs[j] : j \in 1..Len(clients[i].subs)}
  BY <1>4, RangeIs
<1>7. \A p : p \in 1..n - 1 => Old(p) \in 1..n /\ Old(p) # i
  BY <1>1
<1>8. ASSUME NEW p, NEW j, NEW k PROVE Holds(p, j, k)' <=> p \in 1..n - 1 /\ Holds(Old(p), j, k)
  <2>1. CASE p \in 1..n - 1
    BY <1>3, <1>7, <2>1 DEF Holds
  <2>2. CASE p \notin 1..n - 1
    BY <1>3, <2>2 DEF Holds
  <2> QED
    BY <2>1, <2>2
<1>9. \A p, q : p \in 1..n - 1 /\ q \in 1..n - 1 /\ Old(p) = Old(q) => p = q
  BY <1>1
<1>10. \A m, j, k : Holds(m, j, k) => (k \in Range(clients[i].subs) <=> m = i)
  <2>1. \A k : k \in Range(clients[i].subs) <=> \E x : Holds(i, x, k)
    BY <1>6 DEF Holds
  <2> QED
    BY <2>1 DEF DaemonInv, HolderInv
<1> HIDE DEF Old
<1>11. HolderInv'
  <2>1. ASSUME NEW p, NEW j, NEW k, Holds(p, j, k)'
        PROVE  k \in Subscribed' /\ k.owner = OwnerOf[clients'[p].conn]
    <3>1. p \in 1..n - 1 /\ Holds(Old(p), j, k) /\ Old(p) # i
      BY <1>7, <1>8, <2>1
    <3>2. k \in Subscribed /\ k.owner = OwnerOf[clients[Old(p)].conn]
      BY <3>1 DEF DaemonInv, HolderInv
    <3> QED
      BY <1>3, <1>5, <1>10, <3>1, <3>2
  <2>2. ASSUME NEW k \in Subscribed' PROVE \E p, j : Holds(p, j, k)'
    <3>1. PICK m, j : Holds(m, j, k) /\ m # i
      BY <1>5, <1>10 DEF DaemonInv, HolderInv
    <3>2. m \in 1..n
      BY <3>1 DEF Holds
    <3>3. PICK p \in 1..n - 1 : Old(p) = m
      <4>1. CASE m = n
        <5>1. i \in 1..n - 1 /\ Old(i) = m
          BY <1>1, <3>1, <4>1 DEF Old
        <5> QED
          BY <5>1
      <4>2. CASE m # n
        <5>1. m \in 1..n - 1 /\ Old(m) = m
          BY <1>1, <3>1, <3>2, <4>2 DEF Old
        <5> QED
          BY <5>1
      <4> QED
        BY <4>1, <4>2
    <3>4. Holds(p, j, k)'
      BY <1>8, <3>1, <3>3
    <3> QED
      BY <3>4
  <2>3. ASSUME NEW p, NEW j, NEW q, NEW l, NEW k, Holds(p, j, k)', Holds(q, l, k)'
        PROVE  p = q /\ j = l
    <3>1. /\ p \in 1..n - 1 /\ Holds(Old(p), j, k)
          /\ q \in 1..n - 1 /\ Holds(Old(q), l, k)
      BY <1>8, <2>3
    <3>2. Old(p) = Old(q) /\ j = l
      BY <3>1 DEF DaemonInv, HolderInv
    <3> QED
      BY <1>9, <3>1, <3>2
  <2> QED
    BY <2>1, <2>2, <2>3 DEF HolderInv
<1>12. QueueInv'
  BY <1>5 DEF QueueInv, DaemonInv
<1>13. PeerTypes'
  <2>1. /\ inbox' = [inbox EXCEPT ![clients[i].conn] = <<>>]
        /\ outbox' = [outbox EXCEPT ![clients[i].conn] = 0] /\ UNCHANGED peer
    BY DEF Disconnect
  <2>2. 0 \in 0..SendRoom /\ <<>> \in Seq(Requests)
    BY DaemonAssumption
  <2> QED
    BY <1>4, <2>1, <2>2 DEF PeerTypes, DaemonInv
<1> QED
  BY <1>2, <1>3, <1>5, <1>11, <1>12, <1>13

-----------------------------------------------------------------------------
(* The steps. *)

\* Steps that leave the broker and the clients alone.
LEMMA QuietStep ==
  ASSUME DaemonInv, UNCHANGED <<brokerVars, clients>>
  PROVE  /\ BrokerInv' /\ HolderInv'
         /\ UNCHANGED <<at, di, si>> \/ (at # "dispatch" /\ at' # "dispatch") => QueueInv'
<1>1. UNCHANGED <<subscriptions, ring, topic_count, next_sequence, clients>>
  BY DEF brokerVars
<1>2. Subscribed' = Subscribed
  BY <1>1 DEF Subscribed
<1>3. BrokerInv'
  BY <1>1, <1>2 DEF DaemonInv, BrokerInv, Registered, Registry
<1>4. \A i, j, k : Holds(i, j, k)' <=> Holds(i, j, k)
  BY <1>1 DEF Holds
<1>5. HolderInv'
  <2>1. HolderInv
    BY DEF DaemonInv
  <2>2. \A i, j, k : Holds(i, j, k)' => k \in Subscribed' /\ k.owner = OwnerOf[clients'[i].conn]
    BY <1>1, <1>2, <1>4, <2>1 DEF HolderInv
  <2>3. \A k \in Subscribed' : \E i, j : Holds(i, j, k)'
    BY <1>2, <1>4, <2>1 DEF HolderInv
  <2>4. \A i, j, m, n, k : Holds(i, j, k)' /\ Holds(m, n, k)' => i = m /\ j = n
    BY <1>4, <2>1 DEF HolderInv
  <2> QED
    BY <2>2, <2>3, <2>4 DEF HolderInv
<1>6. ASSUME at # "dispatch", at' # "dispatch" PROVE QueueInv'
  BY <1>1, <1>2, <1>6 DEF DaemonInv, QueueInv
<1>7. ASSUME UNCHANGED <<at, di, si>> PROVE QueueInv'
  BY <1>1, <1>2, <1>4, <1>7 DEF DaemonInv, QueueInv
<1> QED
  BY <1>3, <1>5, <1>6, <1>7

\* What the peers do concerns the sockets.
LEMMA PeerInv == ASSUME DaemonInv, NEW c \in Conns, PeerStep(c) PROVE DaemonInv'
<1>1. PeerTypes /\ LoopTypes
  BY DEF DaemonInv
<1>2. CASE Connect(c)
  <2>1. /\ peer' = [peer EXCEPT ![c] = "open"] /\ backlog' = Append(backlog, c)
        /\ UNCHANGED <<brokerVars, inbox, outbox, clients, revents, at, idx, di, si>>
    BY <1>2 DEF Connect
  <2>2. BrokerInv' /\ HolderInv' /\ QueueInv'
    BY <2>1, QuietStep
  <2>3. PeerTypes'
    BY <1>1, <2>1 DEF PeerTypes
  <2>4. Append(backlog, c) \in Seq(Conns) /\ Append(backlog, c) # <<>>
    BY <1>1, AppendProperties DEF LoopTypes
  <2>5. LoopTypes'
    BY <1>1, <2>1, <2>4 DEF LoopTypes
  <2> QED
    BY <2>2, <2>3, <2>5 DEF DaemonInv
<1>3. ASSUME NEW r \in Requests, SendDatagram(c, r) PROVE DaemonInv'
  <2>1. /\ inbox' = [inbox EXCEPT ![c] = Append(inbox[c], r)]
        /\ UNCHANGED <<brokerVars, peer, outbox, backlog, clients, revents, at, idx, di, si>>
    BY <1>3 DEF SendDatagram, daemonVars
  <2>2. BrokerInv' /\ HolderInv' /\ QueueInv'
    BY <2>1, QuietStep
  <2>3. inbox[c] \in Seq(Requests)
    BY <1>1 DEF PeerTypes
  <2>4. Append(inbox[c], r) \in Seq(Requests)
    BY <2>3, AppendProperties
  <2>5. PeerTypes' /\ LoopTypes'
    BY <1>1, <2>1, <2>4 DEF PeerTypes, LoopTypes
  <2> QED
    BY <2>2, <2>5 DEF DaemonInv
<1>4. CASE ReadFrame(c)
  <2>1. /\ outbox[c] > 0 /\ outbox' = [outbox EXCEPT ![c] = outbox[c] - 1]
        /\ UNCHANGED <<brokerVars, peer, inbox, backlog, clients, revents, at, idx, di, si>>
    BY <1>4 DEF ReadFrame, daemonVars
  <2>2. BrokerInv' /\ HolderInv' /\ QueueInv'
    BY <2>1, QuietStep
  <2>3. outbox[c] - 1 \in 0..SendRoom
    BY <1>1, <2>1, DaemonAssumption DEF PeerTypes
  <2>4. PeerTypes' /\ LoopTypes'
    BY <1>1, <2>1, <2>3 DEF PeerTypes, LoopTypes
  <2> QED
    BY <2>2, <2>4 DEF DaemonInv
<1>5. CASE HangUp(c)
  <2>1. /\ peer' = [peer EXCEPT ![c] = "hung"] /\ outbox' = [outbox EXCEPT ![c] = 0]
        /\ UNCHANGED <<brokerVars, inbox, backlog, clients, revents, at, idx, di, si>>
    BY <1>5 DEF HangUp, daemonVars
  <2>2. BrokerInv' /\ HolderInv' /\ QueueInv'
    BY <2>1, QuietStep
  <2>3. 0 \in 0..SendRoom
    BY DaemonAssumption
  <2>4. PeerTypes' /\ LoopTypes'
    BY <1>1, <2>1, <2>3 DEF PeerTypes, LoopTypes
  <2> QED
    BY <2>2, <2>4 DEF DaemonInv
<1> QED
  BY <1>2, <1>3, <1>4, <1>5 DEF PeerStep

\* poll returns with a set of ready descriptors: the invariant is kept.
LEMMA PollInv == ASSUME DaemonInv, Poll PROVE DaemonInv'
<1>1. PeerTypes /\ LoopTypes /\ at = "poll"
  BY DEF DaemonInv, Poll
<1>2. PICK junk \in Junk :
        revents' = [i \in 1..MaxClients |-> IF i <= Len(clients) THEN Ready(clients[i].conn) ELSE junk]
  BY DEF Poll
<1>3. /\ at' = IF backlog # <<>> THEN "accept" ELSE "scan"
      /\ idx' = 1 /\ UNCHANGED <<brokerVars, peer, inbox, sent, outbox, backlog, clients, di, si>>
  BY DEF Poll, peers
<1>4. BrokerInv' /\ HolderInv' /\ QueueInv'
  BY <1>1, <1>3, QuietStep
<1>5. revents' \in [1..MaxClients -> SUBSET Events]
  <2>1. \A c : Ready(c) \in SUBSET Events
    BY DEF Ready, Events
  <2>2. junk \in SUBSET Events
    BY DaemonAssumption
  <2> QED
    BY <1>2, <2>1, <2>2
<1>6. 1 \in 1..MaxClients + 1
  BY DaemonAssumption
<1>7. PeerTypes' /\ LoopTypes'
  BY <1>1, <1>3, <1>5, <1>6 DEF PeerTypes, LoopTypes
<1> QED
  BY <1>4, <1>7 DEF DaemonInv

\* A new client holds nothing.
LEMMA AcceptInv == ASSUME DaemonInv, Accept PROVE DaemonInv'
<1>1. PeerTypes /\ LoopTypes /\ at = "accept" /\ backlog # <<>>
  BY DEF DaemonInv, Accept, LoopTypes
<1>2. Head(backlog) \in Conns /\ Tail(backlog) \in Seq(Conns)
  BY <1>1, HeadTailProperties DEF LoopTypes
<1>3. /\ backlog' = Tail(backlog) /\ at' = "scan"
      /\ UNCHANGED <<brokerVars, peer, sent, outbox, revents, idx, di, si>>
  BY DEF Accept
<1>4. CASE UNCHANGED clients /\ inbox' = [inbox EXCEPT ![Head(backlog)] = <<>>]
  <2>1. BrokerInv' /\ HolderInv' /\ QueueInv'
    BY <1>1, <1>3, <1>4, QuietStep
  <2>2. PeerTypes' /\ LoopTypes'
    BY <1>1, <1>2, <1>3, <1>4 DEF PeerTypes, LoopTypes
  <2> QED
    BY <2>1, <2>2 DEF DaemonInv
<1>5. CASE /\ HasRoom /\ UNCHANGED inbox
           /\ clients' = Append(clients, [conn |-> Head(backlog), subs |-> <<>>])
  <2> DEFINE e == [conn |-> Head(backlog), subs |-> <<>>]
             n == Len(clients)
  <2>1. e \in Clients /\ e.subs = <<>>
    BY <1>2 DEF Clients
  <2> HIDE DEF e
  <2>2. clients \in Seq(Clients) /\ n \in Nat /\ n < MaxClients
    BY <1>1, <1>5, LenProperties DEF LoopTypes, HasRoom
  <2>3. clients' = Append(clients, e)
    BY <1>5 DEF e
  <2>4. /\ clients' \in Seq(Clients) /\ Len(clients') = n + 1 /\ clients'[n + 1] = e
        /\ \A i \in 1..n : clients'[i] = clients[i]
    BY <2>1, <2>2, <2>3, AppendProperties
  <2>5. ASSUME NEW i, NEW j, NEW k PROVE Holds(i, j, k)' <=> Holds(i, j, k)
    <3>1. i \in 1..n + 1 <=> i \in 1..n \/ i = n + 1
      BY <2>2
    <3>2. Len(<<>>) = 0 /\ 1..0 = {}
      OBVIOUS
    <3>3. CASE i \in 1..n
      BY <2>4, <3>1, <3>3 DEF Holds
    <3>4. CASE i = n + 1
      <4>1. i \notin 1..n
        BY <2>2, <3>4
      <4>2. ~Holds(i, j, k)
        BY <4>1 DEF Holds
      <4>3. ~Holds(i, j, k)'
        BY <2>1, <2>4, <3>2, <3>4 DEF Holds
      <4> QED
        BY <4>2, <4>3
    <3>5. CASE i \notin 1..n + 1
      BY <2>4, <3>1, <3>5 DEF Holds
    <3> QED
      BY <3>1, <3>3, <3>4, <3>5
  <2>6. Subscribed' = Subscribed /\ UNCHANGED <<subscriptions, ring, topic_count, next_sequence>>
    BY <1>3 DEF Subscribed, brokerVars
  <2>7. BrokerInv'
    BY <2>6 DEF DaemonInv, BrokerInv, Registered, Registry
  <2>8. HolderInv'
    <3>1. HolderInv
      BY DEF DaemonInv
    <3>2. \A i, j, k : Holds(i, j, k)' => k \in Subscribed' /\ k.owner = OwnerOf[clients'[i].conn]
      <4>1. \A i, j, k : Holds(i, j, k) => i \in 1..n
        BY DEF Holds
      <4> QED
        BY <2>4, <2>5, <2>6, <3>1, <4>1 DEF HolderInv
    <3>3. \A k \in Subscribed' : \E i, j : Holds(i, j, k)'
      BY <2>5, <2>6, <3>1 DEF HolderInv
    <3>4. \A i, j, l, m, k : Holds(i, j, k)' /\ Holds(l, m, k)' => i = l /\ j = m
      BY <2>5, <3>1 DEF HolderInv
    <3> QED
      BY <3>2, <3>3, <3>4 DEF HolderInv
  <2>9. QueueInv'
    BY <1>1, <1>3, <2>6 DEF DaemonInv, QueueInv
  <2>10. PeerTypes'
    BY <1>1, <1>3, <1>5 DEF PeerTypes
  <2>11. LoopTypes'
    <3>1. Len(clients') <= MaxClients
      BY <2>2, <2>4, DaemonAssumption
    <3> QED
      BY <1>1, <1>2, <1>3, <2>4, <3>1 DEF LoopTypes
  <2> QED
    BY <2>7, <2>8, <2>9, <2>10, <2>11 DEF DaemonInv
<1> QED
  BY <1>4, <1>5 DEF Accept

\* Dropping a client, from the scan or at the end of the process, keeps the invariant.
LEMMA DisconnectInv ==
  ASSUME DaemonInv, at \in {"scan", "cleanup"}, NEW i \in 1..Len(clients), Disconnect(i),
         UNCHANGED <<backlog, revents, at, idx, di, si>>
  PROVE  DaemonInv'
<1>1. /\ BrokerInv' /\ PeerTypes' /\ HolderInv' /\ QueueInv'
      /\ clients' \in Seq(Clients) /\ Len(clients') = Len(clients) - 1
  BY DisconnectIs
<1>2. LoopTypes /\ Len(clients) \in Nat
  BY LenProperties DEF DaemonInv, LoopTypes
<1>3. Len(clients') <= MaxClients
  BY <1>1, <1>2, DaemonAssumption DEF LoopTypes
<1>4. LoopTypes'
  BY <1>1, <1>2, <1>3 DEF LoopTypes
<1> QED
  BY <1>1, <1>4 DEF DaemonInv

\* The client that the scan looks at.
LEMMA LookingAt ==
  ASSUME DaemonInv, Looking
  PROVE  /\ idx \in 1..Len(clients) /\ Conn \in Conns /\ idx + 1 \in 1..MaxClients + 1
         /\ at = "scan" /\ clients[idx].subs \in Seq(Keys)
<1>1. idx \in 1..MaxClients + 1 /\ idx <= Len(clients) /\ Len(clients) <= MaxClients /\ Len(clients) \in Nat
  BY LenProperties DEF DaemonInv, LoopTypes, Looking
<1>2. idx \in 1..Len(clients) /\ idx + 1 \in 1..MaxClients + 1
  BY <1>1, DaemonAssumption
<1> QED
  BY <1>2, ClientIs DEF Conn, Looking

\* The scan drops the client it looks at.
LEMMA ScanDisconnects ==
  ASSUME DaemonInv, Looking, Disconnect(idx), UNCHANGED <<backlog, revents, at, idx, di, si>>
  PROVE  DaemonInv'
<1>1. PICK i \in 1..Len(clients) : i = idx
  BY LookingAt
<1>2. Disconnect(i) /\ at = "scan"
  BY <1>1, LookingAt
<1> QED
  BY <1>2, DisconnectInv

\* The scan passes a client that has nothing to say.
LEMMA ScanNothingInv == ASSUME DaemonInv, ScanNothing PROVE DaemonInv'
<1>1. Looking /\ idx' = idx + 1
      /\ UNCHANGED <<brokerVars, peer, inbox, outbox, backlog, clients, revents, at, di, si>>
  BY DEF ScanNothing, peers
<1>2. BrokerInv' /\ HolderInv' /\ QueueInv'
  BY <1>1, QuietStep
<1>3. idx' \in 1..MaxClients + 1 /\ at = "scan"
  BY <1>1, LookingAt
<1>4. PeerTypes' /\ LoopTypes'
  BY <1>1, <1>3 DEF PeerTypes, LoopTypes, DaemonInv
<1> QED
  BY <1>2, <1>4 DEF DaemonInv

\* The scan is past its last client; the loop polls again.
LEMMA ScanDoneInv == ASSUME DaemonInv, ScanDone PROVE DaemonInv'
<1>1. /\ at = "scan" /\ at' = "poll" /\ idx' = 1 /\ revents' = [i \in 1..MaxClients |-> {}]
      /\ UNCHANGED <<brokerVars, peer, inbox, outbox, backlog, clients, di, si>>
  BY DEF ScanDone, peers
<1>2. BrokerInv' /\ HolderInv' /\ QueueInv'
  BY <1>1, QuietStep
<1>3. 1 \in 1..MaxClients + 1
  BY DaemonAssumption
<1>4. PeerTypes' /\ LoopTypes'
  BY <1>1, <1>3 DEF PeerTypes, LoopTypes, DaemonInv
<1> QED
  BY <1>2, <1>4 DEF DaemonInv

\* A datagram that arrived, and the answer to it.
LEMMA RecvIs ==
  ASSUME DaemonInv, NEW kind, Recv(kind), Answer \/ UNCHANGED outbox
  PROVE  /\ PeerTypes' /\ Looking /\ UNCHANGED <<backlog, revents>>
         /\ Head(inbox[Conn]) \in Requests /\ Head(inbox[Conn]).kind = kind
<1>1. /\ Looking /\ inbox[Conn] # <<>> /\ Head(inbox[Conn]).kind = kind
      /\ inbox' = [inbox EXCEPT ![Conn] = Tail(inbox[Conn])] /\ UNCHANGED <<peer, backlog, revents>>
  BY DEF Recv, Arrived, Handling
<1>2. Conn \in Conns /\ PeerTypes
  BY <1>1, LookingAt DEF DaemonInv
<1>3. inbox[Conn] \in Seq(Requests)
  BY <1>2 DEF PeerTypes
<1>4. Head(inbox[Conn]) \in Requests /\ Tail(inbox[Conn]) \in Seq(Requests)
  BY <1>1, <1>3, HeadTailProperties
<1>5. inbox' \in [Conns -> Seq(Requests)]
  BY <1>1, <1>2, <1>4 DEF PeerTypes
<1>6. outbox' \in [Conns -> 0..SendRoom]
  <2>1. CASE outbox' = outbox
    BY <1>2, <2>1 DEF PeerTypes
  <2>2. CASE CanSend(Conn) /\ outbox' = [outbox EXCEPT ![Conn] = outbox[Conn] + 1]
    <3>1. outbox[Conn] + 1 \in 0..SendRoom
      BY <1>2, <2>2, DaemonAssumption DEF PeerTypes, CanSend
    <3> QED
      BY <1>2, <2>2, <3>1 DEF PeerTypes
  <2> QED
    BY <2>1, <2>2 DEF Answer
<1> QED
  BY <1>1, <1>2, <1>4, <1>5, <1>6 DEF PeerTypes

\* A bad datagram, answered or not, changes no subscription.
LEMMA RecvBadInv == ASSUME DaemonInv, RecvBad PROVE DaemonInv'
<1>1. PeerTypes' /\ Looking /\ UNCHANGED <<backlog, revents>>
  BY RecvIs DEF RecvBad
<1>2. idx' = idx + 1 /\ UNCHANGED <<brokerVars, clients, at, di, si>>
  BY DEF RecvBad
<1>3. BrokerInv' /\ HolderInv' /\ QueueInv'
  BY <1>2, QuietStep
<1>4. idx' \in 1..MaxClients + 1 /\ at = "scan"
  BY <1>1, <1>2, LookingAt
<1>5. LoopTypes'
  BY <1>1, <1>2, <1>4 DEF LoopTypes, DaemonInv
<1> QED
  BY <1>1, <1>3, <1>5 DEF DaemonInv

\* A request that is refused: the client is answered, nothing else.
LEMMA RefusedInv ==
  ASSUME DaemonInv, NEW kind, Recv(kind), Answered, UNCHANGED <<brokerVars, clients>>
  PROVE  DaemonInv'
<1>1. PeerTypes' /\ Looking /\ UNCHANGED <<backlog, revents>>
  BY RecvIs DEF Answered
<1>2. idx' = idx + 1 /\ UNCHANGED <<at, di, si>>
  BY DEF Answered
<1>3. BrokerInv' /\ HolderInv' /\ QueueInv'
  BY <1>2, QuietStep
<1>4. idx' \in 1..MaxClients + 1 /\ at = "scan"
  BY <1>1, <1>2, LookingAt
<1>5. LoopTypes'
  BY <1>1, <1>2, <1>4 DEF LoopTypes, DaemonInv
<1> QED
  BY <1>1, <1>3, <1>5 DEF DaemonInv

\* The subscriptions of one client change.
LEMMA NewSubs ==
  ASSUME DaemonInv, NEW i \in 1..Len(clients), NEW s \in Seq(Keys),
         clients' = [clients EXCEPT ![i].subs = s]
  PROVE  /\ clients' \in Seq(Clients) /\ Len(clients') = Len(clients)
         /\ \A m \in 1..Len(clients) : clients'[m].conn = clients[m].conn
         /\ \A j, k : Holds(i, j, k)' <=> j \in 1..Len(s) /\ s[j] = k
         /\ \A m, j, k : m # i => (Holds(m, j, k)' <=> Holds(m, j, k))
<1> DEFINE e == [clients[i] EXCEPT !.subs = s]
           n == Len(clients)
<1>1. clients \in Seq(Clients) /\ n \in Nat /\ clients \in [1..n -> Clients] /\ clients[i] \in Clients
  BY LenProperties, ElementOfSeq DEF DaemonInv, LoopTypes
<1>2. e \in Clients /\ e.subs = s /\ e.conn = clients[i].conn
  BY <1>1 DEF Clients
<1>3. clients' = [clients EXCEPT ![i] = e]
  BY <1>1
<1> HIDE DEF e
<1>4. /\ clients' \in [1..n -> Clients] /\ clients'[i] = e
      /\ \A m \in 1..n : m # i => clients'[m] = clients[m]
  BY <1>1, <1>2, <1>3
<1>5. clients' \in Seq(Clients) /\ Len(clients') = n
  BY <1>1, <1>4, IsASeq, LenProperties
<1> QED
  BY <1>2, <1>4, <1>5 DEF Holds

\* A subscribe adds one key to the broker and to its client.
LEMMA RecvSubscribeInv == ASSUME DaemonInv, RecvSubscribe PROVE DaemonInv'
<1>1. /\ PeerTypes' /\ Looking /\ UNCHANGED <<backlog, revents>>
      /\ Head(inbox[Conn]) \in Requests /\ Head(inbox[Conn]).kind = "subscribe"
  BY RecvIs DEF RecvSubscribe, Answered
<1>2. PICK i \in 1..Len(clients) : i = idx /\ Conn = clients[i].conn
  BY <1>1, LookingAt DEF Conn
<1>3. PICK k : k = [owner |-> OwnerOf[Conn], topic |-> Head(inbox[Conn]).topic]
  OBVIOUS
<1>4. PICK policy : policy = Head(inbox[Conn]).policy
  OBVIOUS
<1>5. CASE UNCHANGED <<brokerVars, clients>>
  BY <1>5, RefusedInv DEF RecvSubscribe
<1>6. CASE /\ Subscribe(k, policy)
           /\ clients' = [clients EXCEPT ![i].subs = Append(clients[i].subs, k)]
  <2>1. Head(inbox[Conn]).topic \in Topics /\ policy \in Policies
    BY <1>1, <1>4 DEF Requests
  <2>2. Conn \in Conns /\ at = "scan" /\ idx + 1 \in 1..MaxClients + 1
    BY <1>1, LookingAt
  <2>3. k \in Keys /\ k.owner = OwnerOf[clients[i].conn]
    BY <1>2, <1>3, <2>1, <2>2, DaemonAssumption DEF Keys
  <2>4. BrokerInv' /\ k \notin Subscribed /\ Subscribed' = Subscribed \cup {k}
    BY <1>6, <2>1, <2>3, SubscribeRegistry DEF DaemonInv
  <2> DEFINE s == clients[i].subs
             t == Append(s, k)
  <2>5. s \in Seq(Keys) /\ Len(s) \in Nat
    BY ClientIs
  <2>6. t \in Seq(Keys) /\ Len(t) = Len(s) + 1 /\ t[Len(s) + 1] = k /\ \A j \in 1..Len(s) : t[j] = s[j]
    BY <2>3, <2>5, AppendProperties
  <2> HIDE DEF t
  <2>7. clients' = [clients EXCEPT ![i].subs = t]
    BY <1>6 DEF t
  <2>8. /\ clients' \in Seq(Clients) /\ Len(clients') = Len(clients)
        /\ \A m \in 1..Len(clients) : clients'[m].conn = clients[m].conn
        /\ \A j, x : Holds(i, j, x)' <=> j \in 1..Len(t) /\ t[j] = x
        /\ \A m, j, x : m # i => (Holds(m, j, x)' <=> Holds(m, j, x))
    BY <2>6, <2>7, NewSubs
  <2>9. ASSUME NEW m, NEW j, NEW x
        PROVE  Holds(m, j, x)' <=> Holds(m, j, x) \/ (m = i /\ j = Len(s) + 1 /\ x = k)
    <3>1. CASE m # i
      BY <2>8, <3>1
    <3>2. CASE m = i
      <4>1. j \in 1..Len(t) <=> j \in 1..Len(s) \/ j = Len(s) + 1
        BY <2>5, <2>6
      <4>2. Holds(i, j, x) <=> j \in 1..Len(s) /\ s[j] = x
        BY DEF Holds
      <4> QED
        BY <2>6, <2>8, <3>2, <4>1, <4>2
    <3> QED
      BY <3>1, <3>2
  <2>10. HolderInv /\ \A m, j : ~Holds(m, j, k)
    BY <2>4 DEF DaemonInv, HolderInv
  <2>11. HolderInv'
    <3>1. ASSUME NEW m, NEW j, NEW x, Holds(m, j, x)'
          PROVE  x \in Subscribed' /\ x.owner = OwnerOf[clients'[m].conn]
      <4>1. CASE Holds(m, j, x)
        <5>1. m \in 1..Len(clients)
          BY <4>1 DEF Holds
        <5> QED
          BY <2>4, <2>8, <2>10, <4>1, <5>1 DEF HolderInv
      <4>2. CASE m = i /\ x = k
        BY <2>3, <2>4, <2>8, <4>2
      <4> QED
        BY <2>9, <3>1, <4>1, <4>2
    <3>2. ASSUME NEW x \in Subscribed' PROVE \E m, j : Holds(m, j, x)'
      <4>1. CASE x = k
        <5>1. PICK l : l = Len(s) + 1
          OBVIOUS
        <5>2. Holds(i, l, x)'
          BY <2>9, <4>1, <5>1
        <5> QED
          BY <5>2
      <4>2. CASE x # k
        <5>1. PICK m, j : Holds(m, j, x)
          BY <2>4, <2>10, <4>2 DEF HolderInv
        <5>2. Holds(m, j, x)'
          BY <2>9, <5>1
        <5> QED
          BY <5>2
      <4> QED
        BY <4>1, <4>2
    <3>3. ASSUME NEW m, NEW j, NEW l, NEW o, NEW x, Holds(m, j, x)', Holds(l, o, x)'
          PROVE  m = l /\ j = o
      <4>1. CASE x = k
        BY <2>9, <2>10, <3>3, <4>1
      <4>2. CASE x # k
        BY <2>9, <2>10, <3>3, <4>2 DEF HolderInv
      <4> QED
        BY <4>1, <4>2
    <3> QED
      BY <3>1, <3>2, <3>3 DEF HolderInv
  <2>12. idx' = idx + 1 /\ UNCHANGED <<at, di, si>>
    BY DEF RecvSubscribe, Answered
  <2>13. QueueInv'
    <3>1. ASSUME NEW x \in Subscribed' PROVE ring'[x].count = 0
      <4>1. ring'[x] = IF x = k THEN EmptyRing(policy) ELSE ring[x]
        BY <1>6, <2>4 DEF Subscribe
      <4>2. x # k => ring[x].count = 0
        BY <2>2, <2>4 DEF DaemonInv, QueueInv
      <4> QED
        BY <4>1, <4>2 DEF EmptyRing
    <3> QED
      BY <2>2, <2>12, <3>1 DEF QueueInv
  <2>14. LoopTypes'
    BY <1>1, <2>2, <2>8, <2>12 DEF LoopTypes, DaemonInv
  <2> QED
    BY <1>1, <2>4, <2>11, <2>13, <2>14 DEF DaemonInv
<1> QED
  BY <1>2, <1>3, <1>4, <1>5, <1>6 DEF RecvSubscribe

\* An unsubscribe takes the key from the broker and from its client.
LEMMA RecvUnsubscribeInv == ASSUME DaemonInv, RecvUnsubscribe PROVE DaemonInv'
<1>1. PeerTypes' /\ Looking /\ UNCHANGED <<backlog, revents>>
  BY RecvIs DEF RecvUnsubscribe, Answered
<1>2. PICK i \in 1..Len(clients) : i = idx
  BY <1>1, LookingAt
<1>3. PICK k : k = [owner |-> OwnerOf[Conn], topic |-> Head(inbox[Conn]).topic]
  OBVIOUS
<1>4. CASE UNCHANGED <<brokerVars, clients>>
  BY <1>4, RefusedInv DEF RecvUnsubscribe
<1>5. CASE /\ k \in Range(clients[i].subs) /\ Release(<<k>>)
           /\ clients' = [clients EXCEPT ![i].subs = SubsWithout(clients[i].subs, k)]
  <2> DEFINE s == clients[i].subs
             t == SwapRemove(s, k)
  <2>1. s \in Seq(Keys) /\ Len(s) \in Nat /\ Distinct(s) /\ s \in Seq(Subscribed)
    BY ClientIs
  <2>2. Range(s) = {s[j] : j \in 1..Len(s)} /\ DOMAIN s = 1..Len(s)
    BY <2>1, RangeIs, LenProperties
  <2>3. PICK p \in 1..Len(s) : s[p] = k /\ t = Front([s EXCEPT ![p] = Last(s)])
    <3> DEFINE c == CHOOSE j \in DOMAIN s : s[j] = k
    <3>1. \E j \in DOMAIN s : s[j] = k
      BY <1>5, <2>2
    <3>2. c \in DOMAIN s /\ s[c] = k
      BY <3>1
    <3>3. t = Front([s EXCEPT ![c] = Last(s)])
      BY DEF SwapRemove
    <3> QED
      BY <2>2, <3>2, <3>3
  <2>4. t \in Seq(Keys) /\ Compacted(s, p, t)
    <3> HIDE DEF s
    <3> QED
      BY <2>1, <2>3, SwapOut
  <2>5. Distinct(t) /\ Range(t) = Range(s) \ {k}
    <3> HIDE DEF s, t
    <3>1. \A a, b \in Seq(Keys) : \A j \in 1..Len(a) :
            Distinct(a) /\ Compacted(a, j, b) => Distinct(b) /\ Range(b) = Range(a) \ {a[j]}
      BY CompactedValues
    <3>2. s \in Seq(Keys) /\ t \in Seq(Keys) /\ p \in 1..Len(s) /\ Distinct(s) /\ Compacted(s, p, t)
      BY <2>1, <2>4
    <3>3. Distinct(t) /\ Range(t) = Range(s) \ {s[p]}
      BY <3>1, <3>2
    <3> QED
      BY <2>3, <3>3
  <2>6. Range(t) = {t[j] : j \in 1..Len(t)}
    <3> HIDE DEF t
    <3> QED
      BY <2>4, RangeIs
  <2>7. k \in Subscribed /\ <<k>> \in Seq(Subscribed) /\ Distinct(<<k>>) /\ Range(<<k>>) = {k}
    BY <2>1, <2>3, ElementOfSeq, OneKey
  <2>8. BrokerInv' /\ Subscribed' = Subscribed \ {k} /\ \A x \in Subscribed' : ring'[x] = ring[x]
    BY <1>5, <2>7, ReleaseRegistry DEF DaemonInv
  <2> HIDE DEF t
  <2>9. clients' = [clients EXCEPT ![i].subs = t]
    BY <1>5 DEF t, SubsWithout
  <2>10. /\ clients' \in Seq(Clients) /\ Len(clients') = Len(clients)
         /\ \A m \in 1..Len(clients) : clients'[m].conn = clients[m].conn
         /\ \A j, x : Holds(i, j, x)' <=> j \in 1..Len(t) /\ t[j] = x
         /\ \A m, j, x : m # i => (Holds(m, j, x)' <=> Holds(m, j, x))
    BY <2>4, <2>9, NewSubs
  <2>11. /\ HolderInv /\ Holds(i, p, k)
         /\ \A x : x \in Range(s) <=> \E j : Holds(i, j, x)
    BY <2>2, <2>3 DEF DaemonInv, Holds
  <2>12. \A x : x \in Range(t) <=> \E j : Holds(i, j, x)'
    BY <2>6, <2>10
  <2>13. HolderInv'
    <3>1. ASSUME NEW m, NEW j, NEW x, Holds(m, j, x)'
          PROVE  x \in Subscribed' /\ x.owner = OwnerOf[clients'[m].conn]
      <4>1. CASE m = i
        <5>1. x \in Range(s) /\ x # k
          BY <2>5, <2>12, <3>1, <4>1
        <5> QED
          BY <2>8, <2>10, <2>11, <4>1, <5>1 DEF HolderInv
      <4>2. CASE m # i
        <5>0. Holds(m, j, x)
          BY <2>10, <3>1, <4>2
        <5>1. Holds(m, j, x) /\ m \in 1..Len(clients)
          BY <5>0 DEF Holds
        <5>2. x # k
          BY <2>11, <4>2, <5>1 DEF HolderInv
        <5> QED
          BY <2>8, <2>10, <2>11, <5>1, <5>2 DEF HolderInv
      <4> QED
        BY <4>1, <4>2
    <3>2. ASSUME NEW x \in Subscribed' PROVE \E m, j : Holds(m, j, x)'
      <4>1. PICK m, j : Holds(m, j, x) /\ x # k
        BY <2>8, <2>11 DEF HolderInv
      <4>2. CASE m = i
        <5>1. x \in Range(t)
          BY <2>5, <2>11, <4>1, <4>2
        <5> QED
          BY <2>12, <5>1
      <4>3. CASE m # i
        <5>1. Holds(m, j, x)'
          BY <2>10, <4>1, <4>3
        <5> QED
          BY <5>1
      <4> QED
        BY <4>2, <4>3
    <3>3. ASSUME NEW m, NEW j, NEW l, NEW o, NEW x, Holds(m, j, x)', Holds(l, o, x)'
          PROVE  m = l /\ j = o
      <4>1. CASE m = i /\ l = i
        BY <2>5, <2>10, <3>3, <4>1 DEF Distinct
      <4>2. CASE m # i /\ l # i
        BY <2>10, <2>11, <3>3, <4>2 DEF HolderInv
      <4>3. CASE m = i /\ l # i
        <5>1. Holds(l, o, x) /\ x \in Range(s)
          BY <2>5, <2>10, <2>12, <3>3, <4>3
        <5> QED
          BY <2>11, <4>3, <5>1 DEF HolderInv
      <4>4. CASE m # i /\ l = i
        <5>1. Holds(m, j, x) /\ x \in Range(s)
          BY <2>5, <2>10, <2>12, <3>3, <4>4
        <5> QED
          BY <2>11, <4>4, <5>1 DEF HolderInv
      <4> QED
        BY <4>1, <4>2, <4>3, <4>4
    <3> QED
      BY <3>1, <3>2, <3>3 DEF HolderInv
  <2>14. idx' = idx + 1 /\ UNCHANGED <<at, di, si>> /\ at = "scan" /\ idx + 1 \in 1..MaxClients + 1
    BY <1>1, LookingAt DEF RecvUnsubscribe, Answered
  <2>15. QueueInv'
    BY <2>8, <2>14 DEF QueueInv, DaemonInv
  <2>16. LoopTypes'
    BY <1>1, <2>10, <2>14 DEF LoopTypes, DaemonInv
  <2> QED
    BY <1>1, <2>8, <2>13, <2>15, <2>16 DEF DaemonInv
<1> QED
  BY <1>2, <1>3, <1>4, <1>5 DEF RecvUnsubscribe, Unsubscribe

\* The broker changes, the subscriptions and who holds them do not.
LEMMA SameHolders ==
  ASSUME DaemonInv, UNCHANGED clients, Subscribed' = Subscribed
  PROVE  HolderInv' /\ \A i, j, k : Holds(i, j, k)' <=> Holds(i, j, k)
<1>1. \A i, j, k : Holds(i, j, k)' <=> Holds(i, j, k)
  BY DEF Holds
<1>2. HolderInv
  BY DEF DaemonInv
<1>3. \A i, j, k : Holds(i, j, k)' => k \in Subscribed' /\ k.owner = OwnerOf[clients'[i].conn]
  BY <1>1, <1>2 DEF HolderInv
<1>4. \A k \in Subscribed' : \E i, j : Holds(i, j, k)'
  BY <1>1, <1>2 DEF HolderInv
<1>5. \A i, j, m, n, k : Holds(i, j, k)' /\ Holds(m, n, k)' => i = m /\ j = n
  BY <1>1, <1>2 DEF HolderInv
<1> QED
  BY <1>1, <1>3, <1>4, <1>5 DEF HolderInv

\* An emit finds the rings empty; the dispatch that follows begins before
\* every subscription.
LEMMA RecvEmitInv == ASSUME DaemonInv, RecvEmit PROVE DaemonInv'
<1>1. PeerTypes' /\ Looking /\ UNCHANGED <<backlog, revents>>
  BY RecvIs DEF RecvEmit
<1>2. at = "scan" /\ idx \in 1..Len(clients) /\ idx + 1 \in 1..MaxClients + 1 /\ UNCHANGED clients
  BY <1>1, LookingAt DEF RecvEmit
<1>3. CASE idx' = idx + 1 /\ UNCHANGED <<brokerVars, at, di, si>>
  <2>1. BrokerInv' /\ HolderInv' /\ QueueInv'
    BY <1>2, <1>3, QuietStep
  <2>2. LoopTypes'
    BY <1>1, <1>2, <1>3 DEF LoopTypes, DaemonInv
  <2> QED
    BY <1>1, <2>1, <2>2 DEF DaemonInv
<1>4. CASE /\ Emit(Head(inbox[Conn]).topic) /\ at' = "dispatch" /\ di' = DispatchFrom
           /\ UNCHANGED <<idx, si>>
  <2>1. /\ BrokerInv' /\ Subscribed' = Subscribed
        /\ \A k \in Subscribed : ring[k].count = 0 => ring'[k].count \in {0, 1}
    BY <1>4, EmitBroker DEF DaemonInv
  <2>2. HolderInv' /\ \A i, j, k : Holds(i, j, k)' <=> Holds(i, j, k)
    BY <1>2, <2>1, SameHolders
  <2>3. di' = 1 /\ si' = 1 /\ 1 \in 1..MaxClients + 1
    BY <1>2, <1>4, DaemonAssumption DEF DispatchFrom, DaemonInv, LoopTypes
  <2>4. \A k \in Subscribed : \E i, j : Holds(i, j, k)' /\ i >= 1 /\ (i = 1 => j >= 1)
    <3>1. \A i, j, k : Holds(i, j, k) => i >= 1 /\ j >= 1
      BY DEF Holds
    <3> QED
      BY <2>2, <3>1 DEF DaemonInv, HolderInv
  <2>5. QueueInv'
    <3>1. \A k \in Subscribed : ring'[k].count \in {0, 1}
      BY <1>2, <2>1 DEF DaemonInv, QueueInv
    <3> QED
      BY <1>4, <2>1, <2>3, <2>4, <3>1 DEF QueueInv
  <2>6. LoopTypes'
    BY <1>1, <1>2, <1>4, <2>3 DEF LoopTypes, DaemonInv
  <2> QED
    BY <1>1, <2>1, <2>2, <2>5, <2>6 DEF DaemonInv
<1> QED
  BY <1>3, <1>4 DEF RecvEmit

\* The delivery is past the last subscription of a client and moves on to the next client.
LEMMA NextClientInv == ASSUME DaemonInv, NextClient PROVE DaemonInv'
<1>1. /\ at = "dispatch" /\ di <= Len(clients) /\ si > Len(clients[di].subs)
      /\ di' = di + 1 /\ si' = 1
      /\ UNCHANGED <<brokerVars, peer, inbox, outbox, backlog, clients, revents, at, idx>>
  BY DEF NextClient, Dispatching, peers
<1>2. BrokerInv' /\ HolderInv'
  BY <1>1, QuietStep
<1>3. /\ Len(clients) \in Nat /\ Len(clients) <= MaxClients /\ di \in 1..MaxClients + 1
      /\ si \in Nat \ {0} /\ QueueInv
  BY LenProperties DEF DaemonInv, LoopTypes
<1>4. PICK d : d = di /\ d \in 1..Len(clients) /\ d + 1 \in 1..MaxClients + 1
  BY <1>1, <1>3, DaemonAssumption
<1>5. Len(clients[d].subs) \in Nat
  BY <1>4, ClientIs
<1>6. \A i, j, k : Holds(i, j, k) /\ i >= di /\ (i = di => j >= si) => i >= di + 1 /\ (i = di + 1 => j >= 1)
  <2> SUFFICES ASSUME NEW i, NEW j, NEW k, Holds(i, j, k), i >= di, i = di => j >= si
               PROVE  i >= di + 1 /\ (i = di + 1 => j >= 1)
    OBVIOUS
  <2>1. i \in 1..Len(clients) /\ j \in 1..Len(clients[i].subs) /\ Len(clients[i].subs) \in Nat
    BY ClientIs DEF Holds
  <2>2. i # di
    BY <1>1, <1>3, <1>4, <1>5, <2>1
  <2> QED
    BY <1>3, <2>1, <2>2
<1>7. \A i, j, k : Holds(i, j, k)' <=> Holds(i, j, k)
  BY <1>1 DEF Holds
<1>8. QueueInv'
  <2>1. ring' = ring /\ Subscribed' = Subscribed
    BY <1>1 DEF brokerVars, Subscribed
  <2>2. ASSUME NEW k \in Subscribed, ring[k].count = 1
        PROVE  \E i, j : Holds(i, j, k)' /\ i >= di' /\ (i = di' => j >= si')
    <3>1. PICK i, j : Holds(i, j, k) /\ i >= di /\ (i = di => j >= si)
      BY <1>1, <1>3, <2>2 DEF QueueInv
    <3>2. i >= di + 1 /\ (i = di + 1 => j >= 1)
      BY <1>6, <3>1
    <3> QED
      BY <1>1, <1>7, <3>1, <3>2
  <2> QED
    BY <1>1, <1>3, <2>1, <2>2 DEF QueueInv
<1>9. PeerTypes' /\ LoopTypes'
  BY <1>1, <1>4 DEF PeerTypes, LoopTypes, DaemonInv
<1> QED
  BY <1>2, <1>8, <1>9 DEF DaemonInv

\* A subscription without events, and on to the next one.
LEMMA NextSubscriptionInv == ASSUME DaemonInv, NextSubscription PROVE DaemonInv'
<1>1. /\ at = "dispatch" /\ di <= Len(clients) /\ si <= Len(clients[di].subs)
      /\ ring[Key].count = 0 /\ si' = si + 1
      /\ UNCHANGED <<brokerVars, peer, inbox, outbox, backlog, clients, revents, at, idx, di>>
  BY DEF NextSubscription, Dispatching, peers
<1>2. BrokerInv' /\ HolderInv'
  BY <1>1, QuietStep
<1>3. /\ Len(clients) \in Nat /\ di \in 1..MaxClients + 1 /\ si \in Nat \ {0} /\ QueueInv
  BY LenProperties DEF DaemonInv, LoopTypes
<1>4. \A i, j, k : Holds(i, j, k)' <=> Holds(i, j, k)
  BY <1>1 DEF Holds
<1>5. QueueInv'
  <2>1. ring' = ring /\ Subscribed' = Subscribed
    BY <1>1 DEF brokerVars, Subscribed
  <2>2. ASSUME NEW k \in Subscribed, ring[k].count = 1
        PROVE  \E i, j : Holds(i, j, k)' /\ i >= di' /\ (i = di' => j >= si')
    <3>1. PICK i, j : Holds(i, j, k) /\ i >= di /\ (i = di => j >= si)
      BY <1>1, <1>3, <2>2 DEF QueueInv
    <3>2. i \in 1..Len(clients) /\ j \in 1..Len(clients[i].subs) /\ clients[i].subs[j] = k
      BY <3>1 DEF Holds
    <3>3. i = di => j # si
      BY <1>1, <2>2, <3>2 DEF Key
    <3>4. j \in Nat
      BY <3>2, ClientIs
    <3>5. i = di => j >= si + 1
      BY <1>3, <3>1, <3>3, <3>4
    <3> QED
      BY <1>1, <1>4, <3>1, <3>5
  <2> QED
    BY <1>1, <1>3, <2>1, <2>2 DEF QueueInv
<1>6. PeerTypes' /\ LoopTypes'
  BY <1>1, <1>3 DEF PeerTypes, LoopTypes, DaemonInv
<1> QED
  BY <1>2, <1>5, <1>6 DEF DaemonInv

\* The only event of the ring is taken out of it, sent or lost; the events of
\* the other rings wait at places that the dispatch has not reached.
LEMMA DeliverInv == ASSUME DaemonInv, Deliver PROVE DaemonInv'
<1>1. /\ at = "dispatch" /\ di <= Len(clients) /\ si <= Len(clients[di].subs)
      /\ Receive(Key)
      /\ UNCHANGED <<peer, inbox, backlog, clients, revents, at, idx, di>>
  BY DEF Deliver, Dispatching
<1>2. /\ Len(clients) \in Nat /\ di \in 1..MaxClients + 1 /\ si \in Nat \ {0}
      /\ QueueInv /\ BrokerInv /\ HolderInv
  BY LenProperties DEF DaemonInv, LoopTypes
<1>3. PICK d \in 1..Len(clients) : d = di
  BY <1>1, <1>2
<1>4. PICK c \in Conns : c = clients[d].conn /\ Len(clients[d].subs) \in Nat
  BY ClientIs
<1>5. PICK key : key = Key
  OBVIOUS
<1>6. Holds(di, si, key)
  BY <1>1, <1>2, <1>3, <1>4, <1>5 DEF Holds, Key
<1>7. /\ BrokerInv' /\ Subscribed' = Subscribed /\ key \in Subscribed
      /\ ring'[key].count = ring[key].count - 1
      /\ \A j \in Subscribed : j # key => ring'[j] = ring[j]
  BY <1>1, <1>2, <1>5, ReceiveBroker
<1>8. HolderInv' /\ \A i, j, k : Holds(i, j, k)' <=> Holds(i, j, k)
  BY <1>1, <1>7, SameHolders
<1>9. /\ (si' = si \/ si' = si + 1) /\ outbox' \in [Conns -> 0..SendRoom]
  <2>1. PeerTypes
    BY DEF DaemonInv
  <2>2. CASE CanSend(c) /\ outbox' = [outbox EXCEPT ![c] = outbox[c] + 1] /\ si' = si
    <3>1. outbox[c] + 1 \in 0..SendRoom
      BY <2>1, <2>2, DaemonAssumption DEF PeerTypes, CanSend
    <3> QED
      BY <2>1, <2>2, <3>1 DEF PeerTypes
  <2>3. CASE outbox' = outbox /\ si' = si + 1
    BY <2>1, <2>3 DEF PeerTypes
  <2> QED
    BY <1>3, <1>4, <2>2, <2>3 DEF Deliver
<1>10. ring'[key].count = 0
  <2>1. ring[key].count # 0 /\ ring[key].count \in {0, 1}
    BY <1>1, <1>2, <1>5, <1>7 DEF Receive, QueueInv
  <2> QED
    BY <1>7, <2>1
<1>11. ASSUME NEW k \in Subscribed, k # key
       PROVE  /\ ring'[k].count \in {0, 1}
              /\ ring'[k].count = 1 => \E i, j : Holds(i, j, k)' /\ i >= di' /\ (i = di' => j >= si')
  <2>1. ring'[k] = ring[k] /\ ring[k].count \in {0, 1}
    BY <1>1, <1>2, <1>7, <1>11 DEF QueueInv
  <2>2. ASSUME ring[k].count = 1
        PROVE  \E i, j : Holds(i, j, k)' /\ i >= di' /\ (i = di' => j >= si')
    <3>1. PICK i, j : Holds(i, j, k) /\ i >= di /\ (i = di => j >= si)
      BY <1>1, <1>2, <2>2 DEF QueueInv
    <3>2. i \in 1..Len(clients) /\ j \in 1..Len(clients[i].subs) /\ clients[i].subs[j] = k
      BY <3>1 DEF Holds
    <3>3. i = di => j # si
      BY <1>5, <1>11, <3>2 DEF Key
    <3>4. j \in Nat
      BY <3>2, ClientIs
    <3>5. i = di => j >= si'
      BY <1>2, <1>9, <3>1, <3>3, <3>4
    <3> QED
      BY <1>1, <1>8, <3>1, <3>5
  <2> QED
    BY <2>1, <2>2
<1>12. QueueInv'
  BY <1>1, <1>7, <1>10, <1>11 DEF QueueInv
<1>13. PeerTypes'
  BY <1>1, <1>9 DEF PeerTypes, DaemonInv
<1>14. si' \in Nat \ {0}
  BY <1>2, <1>9
<1>15. LoopTypes'
  BY <1>1, <1>14 DEF LoopTypes, DaemonInv
<1> QED
  BY <1>7, <1>8, <1>12, <1>13, <1>15 DEF DaemonInv

\* Past the last client no event waits: the rings are empty again.
LEMMA DispatchDoneInv == ASSUME DaemonInv, DispatchDone PROVE DaemonInv'
<1>1. /\ at = "dispatch" /\ di > Len(clients)
      /\ at' = "scan" /\ idx' = idx + 1 /\ di' = 1 /\ si' = 1
      /\ UNCHANGED <<brokerVars, peer, inbox, outbox, backlog, clients, revents>>
  BY DEF DispatchDone, peers
<1>2. BrokerInv' /\ HolderInv'
  BY <1>1, QuietStep
<1>3. /\ Len(clients) \in Nat /\ Len(clients) <= MaxClients /\ di \in 1..MaxClients + 1
      /\ idx \in 1..MaxClients + 1 /\ idx <= Len(clients) /\ QueueInv
  BY <1>1, LenProperties DEF DaemonInv, LoopTypes
<1>4. \A k \in Subscribed : ring[k].count = 0
  <2> SUFFICES ASSUME NEW k \in Subscribed, ring[k].count # 0 PROVE FALSE
    OBVIOUS
  <2>1. PICK i, j : Holds(i, j, k) /\ i >= di
    BY <1>1, <1>3 DEF QueueInv
  <2>2. i \in 1..Len(clients)
    BY <2>1 DEF Holds
  <2> QED
    BY <1>1, <1>3, <2>1, <2>2
<1>5. ring' = ring /\ Subscribed' = Subscribed
  BY <1>1 DEF brokerVars, Subscribed
<1>6. QueueInv'
  BY <1>1, <1>4, <1>5 DEF QueueInv
<1>7. idx + 1 \in 1..MaxClients + 1 /\ 1 \in 1..MaxClients + 1
  BY <1>3, DaemonAssumption
<1>8. PeerTypes' /\ LoopTypes'
  BY <1>1, <1>7 DEF PeerTypes, LoopTypes, DaemonInv
<1> QED
  BY <1>2, <1>6, <1>8 DEF DaemonInv

\* A signal is noticed between two polls.
LEMMA SignalInv == ASSUME DaemonInv, Signal PROVE DaemonInv'
<1>1. /\ at = "poll" /\ at' = "cleanup"
      /\ UNCHANGED <<brokerVars, peer, inbox, outbox, backlog, clients, revents, idx, di, si>>
  BY DEF Signal, peers
<1>2. BrokerInv' /\ HolderInv' /\ QueueInv'
  BY <1>1, QuietStep
<1>3. PeerTypes' /\ LoopTypes'
  BY <1>1 DEF PeerTypes, LoopTypes, DaemonInv
<1> QED
  BY <1>2, <1>3 DEF DaemonInv

\* The first client is disconnected while there is one, then the daemon exits.
LEMMA CleanupInv == ASSUME DaemonInv, Cleanup PROVE DaemonInv'
<1>1. at = "cleanup" /\ UNCHANGED <<revents, idx, di, si>>
  BY DEF Cleanup
<1>2. CASE clients # <<>>
  <2>1. Disconnect(1) /\ UNCHANGED <<backlog, at>>
    BY <1>2 DEF Cleanup
  <2>2. 1 \in 1..Len(clients)
    <3>1. clients \in Seq(Clients)
      BY DEF DaemonInv, LoopTypes
    <3>2. Len(clients) \in Nat /\ Len(clients) # 0
      BY <1>2, <3>1, EmptySeq, LenProperties
    <3> QED
      BY <3>2
  <2> QED
    BY <1>1, <2>1, <2>2, DisconnectInv
<1>3. CASE clients = <<>>
  <2>1. /\ at' = "exit" /\ backlog' = <<>>
        /\ UNCHANGED <<brokerVars, peer, inbox, outbox, clients>>
    BY <1>3 DEF Cleanup, peers
  <2>2. BrokerInv' /\ HolderInv' /\ QueueInv'
    BY <1>1, <2>1, QuietStep
  <2>3. backlog' \in Seq(Conns)
    BY <2>1, EmptySeq
  <2>4. PeerTypes' /\ LoopTypes'
    BY <1>1, <2>1, <2>3 DEF PeerTypes, LoopTypes, DaemonInv
  <2> QED
    BY <2>2, <2>4 DEF DaemonInv
<1> QED
  BY <1>2, <1>3

-----------------------------------------------------------------------------
(* The invariant. *)

\* No client, no subscription, no event.
LEMMA InitInv == Init => DaemonInv
<1> SUFFICES ASSUME Init PROVE DaemonInv
  OBVIOUS
<1>3. BrokerInv /\ Subscribed = {}
  BY NothingSubscribed DEF Init
<1>4. PeerTypes
  <2>1. <<>> \in Seq(Requests) /\ 0 \in 0..SendRoom
    BY EmptySeq, DaemonAssumption
  <2> QED
    BY <2>1 DEF Init, PeerTypes
<1>5. LoopTypes
  <2>1. <<>> \in Seq(Conns) /\ <<>> \in Seq(Clients) /\ Len(<<>>) = 0
    BY EmptySeq
  <2>2. 0 <= MaxClients /\ 1 \in 1..MaxClients + 1
    BY DaemonAssumption
  <2> QED
    BY <2>1, <2>2 DEF Init, LoopTypes
<1>6. HolderInv
  <2>1. \A i, j, k : ~Holds(i, j, k)
    <3>1. Len(clients) = 0
      BY EmptySeq DEF Init
    <3> QED
      BY <3>1 DEF Holds
  <2> QED
    BY <1>3, <2>1 DEF HolderInv
<1>7. QueueInv
  BY <1>3 DEF QueueInv
<1> QED
  BY <1>3, <1>4, <1>5, <1>6, <1>7 DEF DaemonInv

\* Every step of the daemon and of its peers keeps the invariant.
LEMMA NextInv == DaemonInv /\ [Next]_vars => DaemonInv'
<1> SUFFICES ASSUME DaemonInv, [Next]_vars PROVE DaemonInv'
  OBVIOUS
<1>1. CASE UNCHANGED vars
  <2>1. UNCHANGED <<brokerVars, peer, inbox, outbox, backlog, clients, revents, at, idx, di, si>>
    BY <1>1 DEF vars, peers, daemonVars
  <2>2. BrokerInv' /\ HolderInv' /\ QueueInv'
    BY <2>1, QuietStep
  <2>3. PeerTypes' /\ LoopTypes'
    BY <2>1 DEF PeerTypes, LoopTypes, DaemonInv
  <2> QED
    BY <2>2, <2>3 DEF DaemonInv
<1>2. CASE ScanHangup
  BY <1>2, ScanDisconnects DEF ScanHangup
<1>3. CASE RecvEof
  BY <1>3, ScanDisconnects DEF RecvEof, Handling
<1>4. CASE RecvForeign
  BY <1>4, ScanDisconnects DEF RecvForeign, Arrived, Handling
<1>5. CASE Poll \/ Accept \/ ScanNothing \/ ScanDone
  BY <1>5, PollInv, AcceptInv, ScanNothingInv, ScanDoneInv
<1>6. CASE RecvBad \/ RecvSubscribe \/ RecvUnsubscribe \/ RecvEmit
  BY <1>6, RecvBadInv, RecvSubscribeInv, RecvUnsubscribeInv, RecvEmitInv
<1>7. CASE NextClient \/ NextSubscription \/ Deliver \/ DispatchDone
  BY <1>7, NextClientInv, NextSubscriptionInv, DeliverInv, DispatchDoneInv
<1>8. CASE Signal \/ Cleanup
  BY <1>8, SignalInv, CleanupInv
<1>9. CASE \E c \in Conns : PeerStep(c)
  BY <1>9, PeerInv
<1> QED
  BY <1>1, <1>2, <1>3, <1>4, <1>5, <1>6, <1>7, <1>8, <1>9 DEF Next, DaemonStep

\* The invariant that the results below rest on.
THEOREM DaemonInvariant == Spec => []DaemonInv
<1> QED
  BY InitInv, NextInv, PTL DEF Spec

\* No client holds a freed subscription, and every subscription has one
\* client: clients[] and subs[] of main.c agree with the broker through every
\* removal by swapping, for any number of clients and subscriptions.
THEOREM OneHolder == Spec => []SubscriptionsHaveOneHolder
<1>1. DaemonInv => SubscriptionsHaveOneHolder
  <2> SUFFICES ASSUME DaemonInv PROVE SubscriptionsHaveOneHolder
    OBVIOUS
  <2>1. /\ clients \in Seq(Clients) /\ DOMAIN clients = 1..Len(clients) /\ Len(clients) \in Nat
        /\ LoopTypes /\ PeerTypes /\ HolderInv
    BY LenProperties DEF DaemonInv, LoopTypes
  <2>2. Range(backlog) \subseteq Conns
    BY <2>1, RangeIs DEF LoopTypes
  <2>3. ASSUME NEW i \in 1..Len(clients)
        PROVE  /\ clients[i].conn \in Conns /\ clients[i].subs \in Seq(Keys)
               /\ Len(clients[i].subs) = Cardinality(Range(clients[i].subs))
               /\ \A k : k \in Range(clients[i].subs) <=> \E j : Holds(i, j, k)
    <3>1. clients[i].conn \in Conns /\ clients[i].subs \in Seq(Keys) /\ Distinct(clients[i].subs)
      BY ClientIs
    <3>2. Range(clients[i].subs) = {clients[i].subs[j] : j \in 1..Len(clients[i].subs)}
      BY <3>1, RangeIs
    <3>3. Len(clients[i].subs) = Cardinality(Range(clients[i].subs))
      BY <3>1, DistinctCounts
    <3> QED
      BY <3>1, <3>2, <3>3 DEF Holds
  <2>4. DaemonTypeOK
    BY <2>1, <2>2, <2>3 DEF DaemonTypeOK, LoopTypes, PeerTypes
  <2>5. ASSUME NEW i \in 1..Len(clients)
        PROVE  Range(clients[i].subs) \subseteq {k \in Subscribed : k.owner = OwnerOf[clients[i].conn]}
    BY <2>1, <2>3 DEF HolderInv
  <2>6. ASSUME NEW k \in Subscribed
        PROVE  Cardinality({i \in DOMAIN clients : k \in Range(clients[i].subs)}) = 1
    <3>1. PICK m, j : Holds(m, j, k)
      BY <2>1 DEF HolderInv
    <3>2. m \in 1..Len(clients) /\ k \in Range(clients[m].subs)
      <4>1. m \in 1..Len(clients)
        BY <3>1 DEF Holds
      <4> QED
        BY <2>3, <3>1, <4>1
    <3>3. \A i \in 1..Len(clients) : k \in Range(clients[i].subs) => i = m
      BY <2>1, <2>3, <3>1 DEF HolderInv
    <3>4. {i \in DOMAIN clients : k \in Range(clients[i].subs)} = {m}
      BY <2>1, <3>2, <3>3
    <3> QED
      BY <3>4, FS_Singleton
  <2> QED
    BY <2>1, <2>3, <2>4, <2>5, <2>6 DEF SubscriptionsHaveOneHolder
<1> QED
  BY <1>1, DaemonInvariant, PTL

\* dispatch_pending_events leaves no event behind, whichever clients do not
\* read and however deep the rings are.
THEOREM NothingLeft == Spec => []NothingLeftQueued
<1>1. DaemonInv => NothingLeftQueued
  BY DEF DaemonInv, QueueInv, NothingLeftQueued
<1> QED
  BY <1>1, DaemonInvariant, PTL

\* In the daemon the array subscriptions[] and topic_count are exact: what
\* the limits of ar_event_broker_subscribe compare with is what is subscribed.
THEOREM DaemonRegistryExact == Spec => []RegistryExact
<1>1. DaemonInv => RegistryExact
  BY ExactRegistry DEF DaemonInv
<1> QED
  BY <1>1, DaemonInvariant, PTL
=============================================================================
