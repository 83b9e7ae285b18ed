---------------------------- MODULE EventContract ----------------------------
(***************************************************************************)
(* What the event broker promises: each subscription is a bounded FIFO of  *)
(* event sequence numbers.  A full DROP_NEWEST queue refuses the new event *)
(* and keeps what it has; a full DROP_OLDEST queue loses its oldest event; *)
(* any event may be missed when memory runs out.  No array, ring, index or *)
(* counter of topics is part of the promise.                               *)
(***************************************************************************)
EXTENDS Naturals, Sequences

CONSTANTS Keys,   \* subscriptions: an owner and a topic
          Topic(_), Depth

VARIABLES box,    \* the subscribed keys, each with its policy and its events
          next    \* the sequence number of the next event

vars == <<box, next>>

Init == box = [k \in {} |-> <<>>] /\ next = 1

Subscribe(k, policy) ==
  /\ UNCHANGED next
  /\ k \notin DOMAIN box
  /\ box' = [j \in DOMAIN box \cup {k} |->
               IF j = k THEN [policy |-> policy, msgs |-> <<>>] ELSE box[j]]

Unsubscribe(k) ==
  /\ UNCHANGED next
  /\ k \in DOMAIN box
  /\ box' = [j \in DOMAIN box \ {k} |-> box[j]]

\* What one subscription may hold after event n.
Accepts(b, n, missed) ==
  LET full == Len(b.msgs) >= Depth IN
    IF missed \/ (full /\ b.policy # "DROP_OLDEST") THEN b.msgs
    ELSE Append(IF full THEN Tail(b.msgs) ELSE b.msgs, n)

Publish(t) ==
  /\ next' = next + 1
  /\ \E missed \in SUBSET {k \in DOMAIN box : Topic(k) = t} :
       box' = [k \in DOMAIN box |->
                 IF Topic(k) # t THEN box[k]
                 ELSE [box[k] EXCEPT !.msgs = Accepts(box[k], next, k \in missed)]]

Consume(k) ==
  /\ UNCHANGED next
  /\ k \in DOMAIN box
  /\ box[k].msgs # <<>>
  /\ box' = [box EXCEPT ![k].msgs = Tail(@)]

Call ==
  \/ \E t \in {Topic(k) : k \in Keys} : Publish(t)
  \/ \E k \in Keys :
       \/ \E policy \in {"DROP_NEWEST", "DROP_OLDEST"} : Subscribe(k, policy)
       \/ Unsubscribe(k) \/ Consume(k)

\* A call that changes nothing a subscriber can see is no step.
Next == vars' # vars /\ Call

Spec == Init /\ [][Next]_vars
=============================================================================
