--------------------------- MODULE LibraryProofs ---------------------------
(***************************************************************************)
(* Proofs about libraries that keep their state in memory, and about the   *)
(* tools that work on one directory.                                       *)
(*                                                                         *)
(* The guest router, for any number of guests and entries, any depth of    *)
(* the rings, room in the sockets and quota, every flood policy, and any   *)
(* calls that the handler makes into the router: the registration limit is *)
(* exact, every accepted message is delivered once and in order, and a     *)
(* guest is cut off only for what it did itself.                           *)
(*                                                                         *)
(* The handover of listening sockets, for any threads, any descriptor      *)
(* table and any listeners: every open descriptor has exactly one owner,   *)
(* and an acceptor serves the generation that it was told.                 *)
(*                                                                         *)
(* armake, for any manifests, names, edits, signals and kills: only what a *)
(* build added is removed again, and an answer UP-TO-DATE is true.         *)
(*                                                                         *)
(* The signed index, for any files, keys and names, any number of builders *)
(* that die or fail beside each other, and any change of the files: what   *)
(* the writer wrote the reader takes, and it takes nothing else.           *)
(***************************************************************************)
EXTENDS GuestRouter, Handover, BuildTree, PackageIndex, FiniteSetTheorems,
        SequenceTheorems, NaturalsInduction, WellFoundedInduction, TLAPS

(***************************************************************************)
(* The guest router                                                        *)
(***************************************************************************)
Kinds == {"good", "foreign", "malformed", "empty"}
Entries == [app : Apps \cup {NoApp}, quarantined : BOOLEAN, queue : Seq(Msg)]
Polled == SUBSET {"in", "hup", "out"}

Calls == [op : {"send", "broadcast", "flush", "dispatch"}, slot : Slots, bad : BOOLEAN]

SocketTypes ==
  /\ down \in [Slots -> Seq(Msg)] /\ due \in [Slots -> Seq(Msg)]
  /\ up \in [Slots -> Seq(Kinds)]
  /\ peer \in [Slots -> {"open", "closed", "reset"}]
  /\ dropped \subseteq Slots

\* A call that is under way is about an entry in use, because nothing is
\* registered or unregistered within a call.
CallTypes == call = NoCall \/ (call \in Calls /\ Active(call.slot))

PassTypes ==
  /\ at \in {"idle", "judge", "receive", "handler", "destroyed"}
  /\ pass \in [pos : 0..MaxGuests, quota : Nat, revents : [Slots -> Polled]]
  /\ at \in {"judge", "receive", "handler"} => pass.pos \in Slots

RouterTypes == entry \in [Slots -> Entries] /\ SocketTypes /\ CallTypes /\ PassTypes

\* A poll result never has a hang-up alone, so that Judge closes nobody.
HangupIsReadable == \A i \in Slots : "hup" \in pass.revents[i] => "in" \in pass.revents[i]

\* One entry, its ring and its socket.
EntryInv(i) ==
  /\ ~Active(i) => peer[i] = "closed" /\ entry[i].queue = <<>>
  /\ Len(entry[i].queue) <= QueueDepth
  /\ Active(i) /\ peer[i] = "open" => down[i] \o entry[i].queue = due[i]
  /\ Active(i) /\ entry[i].quarantined =>
       \/ peer[i] # "open"
       \/ up[i] # <<>> /\ Head(up[i]) = "empty"
       \/ FloodPolicy = "disconnect" /\ i \in dropped

InUse == {i \in Slots : Active(i)}

\* The limit counts the entries in use, and an id has one entry.
Counted ==
  /\ guest_count = Cardinality(InUse)
  /\ \A i, j \in Slots : Active(i) /\ i # j => entry[i].app # entry[j].app

RouterInv ==
  RouterTypes /\ HangupIsReadable /\ (\A i \in Slots : EntryInv(i)) /\ Counted

-----------------------------------------------------------------------------
(* Numbers and sequences. *)

\* A set of numbers has a least one.
LEMMA Minimum ==
  ASSUME NEW S \in SUBSET Nat, S # {}
  PROVE  \E m \in S : \A n \in S : m <= n
<1> DEFINE R == OpToRel(<, Nat)
<1>1. IsWellFoundedOn(R, Nat)
  BY NatLessThanWellFounded
<1>2. R = {x \in Nat \X Nat : x[1] < x[2]}
  BY DEF OpToRel
<1> HIDE DEF R
<1>3. PICK m \in S : \A n \in S : ~(<<n, m>> \in R)
  BY <1>1, WFMin
<1>4. ASSUME NEW n \in S, n < m PROVE FALSE
  <2>1. <<n, m>> \in Nat \X Nat /\ <<n, m>>[1] < <<n, m>>[2]
    BY <1>4
  <2>2. <<n, m>> \in R
    BY <1>2, <2>1, Zenon
  <2> QED
    BY <1>3, <2>2
<1>5. \A n \in S : ~(n < m)
  BY <1>4
<1>6. \A n \in S : m \in Nat /\ n \in Nat
  OBVIOUS
<1> QED
  BY <1>5, <1>6

\* Slots are numbered.
LEMMA SlotsAreNumbers == Slots \in SUBSET Nat
  BY RouterAssumption DEF Slots

\* The next guest of a broadcast is one of those it has left.
LEMMA LowestIs ==
  ASSUME NEW S \in SUBSET Slots, S # {}
  PROVE  Lowest(S) \in S
<1>1. \E m \in S : \A n \in S : m <= n
  BY SlotsAreNumbers, Minimum
<1> QED
  BY <1>1 DEF Lowest

\* The entry for a new guest is a free one, if there is any.
LEMMA FirstFreeIs ==
  ASSUME NEW j \in Slots, ~Active(j)
  PROVE  FirstFree \in Slots /\ ~Active(FirstFree)
<1> DEFINE F == {i \in Slots : ~Active(i)}
<1>1. \E m \in F : \A n \in F : m <= n
  BY SlotsAreNumbers, Minimum
<1>2. \E m \in Slots : ~Active(m) /\ \A n \in Slots : ~Active(n) => m <= n
  BY <1>1
<1> QED
  BY <1>2 DEF FirstFree

\* What a message passes on its way: the ring, the socket, the guest.
LEMMA RingToSocket ==
  ASSUME NEW S, NEW d \in Seq(S), NEW q \in Seq(S), q # <<>>
  PROVE  /\ Append(d, Head(q)) \o Tail(q) = d \o q
         /\ Append(d, Head(q)) \in Seq(S) /\ Tail(q) \in Seq(S) /\ Len(Tail(q)) = Len(q) - 1
<1>1. /\ Head(q) \in S /\ Head(q) = q[1] /\ Tail(q) \in Seq(S) /\ Len(Tail(q)) = Len(q) - 1
      /\ \A i \in 1..Len(Tail(q)) : Tail(q)[i] = q[i + 1]
      /\ Len(q) \in Nat \ {0} /\ Len(d) \in Nat
  BY HeadTailProperties, EmptySeq, LenProperties
<1> DEFINE a == Append(d, Head(q))
           t == Tail(q)
<1>2. /\ a \in Seq(S) /\ Len(a) = Len(d) + 1 /\ a[Len(d) + 1] = q[1]
      /\ \A i \in 1..Len(d) : a[i] = d[i]
  BY <1>1, AppendProperties
<1>3. /\ t \in Seq(S) /\ Len(t) = Len(q) - 1 /\ \A i \in 1..Len(t) : t[i] = q[i + 1]
  BY <1>1
<1> HIDE DEF a, t
<1>4. /\ a \o t \in Seq(S) /\ Len(a \o t) = Len(d) + Len(q)
      /\ \A i \in 1..Len(a \o t) : (a \o t)[i] = IF i <= Len(d) + 1 THEN a[i] ELSE t[i - (Len(d) + 1)]
  <2>1. /\ a \o t \in Seq(S) /\ Len(a \o t) = Len(a) + Len(t)
        /\ \A i \in 1..Len(a) + Len(t) : (a \o t)[i] = IF i <= Len(a) THEN a[i] ELSE t[i - Len(a)]
    BY <1>2, <1>3, ConcatProperties
  <2>2. Len(a) + Len(t) = Len(d) + Len(q)
    BY <1>1, <1>2, <1>3
  <2> QED
    BY <1>2, <2>1, <2>2
<1>5. /\ d \o q \in Seq(S) /\ Len(d \o q) = Len(d) + Len(q)
      /\ \A i \in 1..Len(d \o q) : (d \o q)[i] = IF i <= Len(d) THEN d[i] ELSE q[i - Len(d)]
  BY <1>1, ConcatProperties
<1>6. ASSUME NEW i \in 1..Len(a \o t) PROVE (a \o t)[i] = (d \o q)[i]
  <2>1. CASE i <= Len(d)
    BY <1>1, <1>2, <1>4, <1>5, <2>1
  <2>2. CASE i = Len(d) + 1
    BY <1>1, <1>2, <1>4, <1>5, <2>2
  <2>3. CASE i > Len(d) + 1
    <3>1. i - (Len(d) + 1) \in 1..Len(t) /\ (i - (Len(d) + 1)) + 1 = i - Len(d) /\ ~(i <= Len(d) + 1)
      BY <1>1, <1>3, <1>4, <2>3
    <3>2. (a \o t)[i] = t[i - (Len(d) + 1)]
      BY <1>4, <3>1
    <3>3. t[i - (Len(d) + 1)] = q[i - Len(d)]
      BY <1>3, <3>1
    <3>4. (d \o q)[i] = q[i - Len(d)]
      BY <1>1, <1>4, <1>5, <2>3
    <3> QED
      BY <3>2, <3>3, <3>4
  <2> QED
    BY <1>1, <1>4, <2>1, <2>2, <2>3
<1>7. a \o t = d \o q
  BY <1>4, <1>5, <1>6, SeqEqual
<1> QED
  BY <1>1, <1>2, <1>7 DEF a, t

\* Taking the oldest message from the socket takes the oldest of socket and ring.
LEMMA SocketToGuest ==
  ASSUME NEW S, NEW d \in Seq(S), NEW q \in Seq(S), d # <<>>
  PROVE  Tail(d) \o q = Tail(d \o q) /\ Tail(d) \in Seq(S) /\ Tail(d \o q) \in Seq(S)
<1>1. /\ Tail(d) \in Seq(S) /\ Len(Tail(d)) = Len(d) - 1
      /\ \A i \in 1..Len(Tail(d)) : Tail(d)[i] = d[i + 1]
      /\ Len(d) \in Nat \ {0} /\ Len(q) \in Nat
  BY HeadTailProperties, EmptySeq, LenProperties
<1>2. /\ d \o q \in Seq(S) /\ Len(d \o q) = Len(d) + Len(q)
      /\ \A i \in 1..Len(d) + Len(q) : (d \o q)[i] = IF i <= Len(d) THEN d[i] ELSE q[i - Len(d)]
  BY ConcatProperties
<1> DEFINE w == d \o q
           t == Tail(d)
<1>3. w # <<>>
  BY <1>1, <1>2, EmptySeq
<1>4. /\ Tail(w) \in Seq(S) /\ Len(Tail(w)) = Len(d) + Len(q) - 1
      /\ \A i \in 1..Len(Tail(w)) : Tail(w)[i] = w[i + 1]
  BY <1>2, <1>3, HeadTailProperties
<1>5. /\ t \o q \in Seq(S) /\ Len(t \o q) = Len(d) + Len(q) - 1
      /\ \A i \in 1..Len(t \o q) : (t \o q)[i] = IF i <= Len(d) - 1 THEN t[i] ELSE q[i - (Len(d) - 1)]
  BY <1>1, ConcatProperties
<1>6. ASSUME NEW i \in 1..Len(t \o q) PROVE (t \o q)[i] = Tail(w)[i]
  <2>1. (t \o q)[i] = IF i <= Len(d) - 1 THEN d[i + 1] ELSE q[i - (Len(d) - 1)]
    BY <1>1, <1>5
  <2>2. Tail(w)[i] = w[i + 1] /\ i + 1 \in 1..Len(d) + Len(q)
    BY <1>1, <1>4, <1>5
  <2>3. w[i + 1] = IF i + 1 <= Len(d) THEN d[i + 1] ELSE q[i + 1 - Len(d)]
    BY <1>2, <2>2
  <2>4. i + 1 - Len(d) = i - (Len(d) - 1) /\ (i + 1 <= Len(d) <=> i <= Len(d) - 1)
    BY <1>1, <1>5
  <2> QED
    BY <2>1, <2>2, <2>3, <2>4
<1> HIDE DEF w, t
<1>7. t \o q = Tail(w)
  BY <1>4, <1>5, <1>6, SeqEqual
<1> QED
  BY <1>1, <1>4, <1>7 DEF w, t

\* A message queued behind the socket is the last of socket and ring.
LEMMA IntoRing ==
  ASSUME NEW S, NEW d \in Seq(S), NEW q \in Seq(S), NEW m \in S
  PROVE  /\ d \o Append(q, m) = Append(d \o q, m)
         /\ q = <<>> => Append(d, m) \o q = Append(d \o q, m)
         /\ Append(d, m) \in Seq(S) /\ Append(q, m) \in Seq(S) /\ Len(Append(q, m)) = Len(q) + 1
<1>1. <<m>> \in Seq(S) /\ d \o q \in Seq(S)
  BY ConcatProperties
<1>2. Append(q, m) = q \o <<m>> /\ Append(d \o q, m) = (d \o q) \o <<m>>
  BY <1>1, AppendIsConcat
<1>3. d \o Append(q, m) = Append(d \o q, m)
  BY <1>1, <1>2, ConcatAssociative
<1>4. Append(d, m) \in Seq(S) /\ Append(q, m) \in Seq(S) /\ Len(Append(q, m)) = Len(q) + 1
  BY AppendProperties
<1>5. q = <<>> => Append(d, m) \o q = Append(d \o q, m)
  BY <1>4, ConcatEmptySeq
<1> QED
  BY <1>3, <1>4, <1>5

-----------------------------------------------------------------------------
(* What all steps have in common: they concern one entry. *)

\* Nothing is known to change about the other entries.
Apart(i) ==
  /\ \A j \in Slots : j # i =>
       /\ down'[j] = down[j] /\ due'[j] = due[j] /\ up'[j] = up[j] /\ peer'[j] = peer[j]
       /\ j \in dropped => j \in dropped'
  /\ guest_count' = guest_count

\* A step that keeps the id in an entry.
LEMMA OneEntry ==
  ASSUME RouterInv, NEW i \in Slots, NEW e \in Entries, e.app = entry[i].app,
         entry' = [entry EXCEPT ![i] = e], Apart(i)
  PROVE  /\ \A j \in Slots : j # i => EntryInv(j)'
         /\ Counted'
         /\ \A j \in Slots : Active(j)' <=> Active(j)
         /\ entry' \in [Slots -> Entries] /\ entry'[i] = e
<1>1. entry \in [Slots -> Entries]
  BY DEF RouterInv, RouterTypes
<1>2. /\ entry' \in [Slots -> Entries] /\ entry'[i] = e
      /\ \A j \in Slots : j # i => entry'[j] = entry[j]
      /\ \A j \in Slots : entry'[j].app = entry[j].app
  BY <1>1
<1>3. \A j \in Slots : Active(j)' <=> Active(j)
  BY <1>2 DEF Active
<1>4. ASSUME NEW j \in Slots, j # i PROVE EntryInv(j)'
  <2>1. entry'[j] = entry[j] /\ (Active(j)' <=> Active(j)) /\ EntryInv(j)
    BY <1>2, <1>3, <1>4 DEF RouterInv
  <2>2. /\ down'[j] = down[j] /\ due'[j] = due[j] /\ up'[j] = up[j] /\ peer'[j] = peer[j]
        /\ j \in dropped => j \in dropped'
    BY <1>4 DEF Apart
  <2> QED
    BY <2>1, <2>2 DEF EntryInv
<1>5. InUse' = InUse
  BY <1>3 DEF InUse
<1>6. Counted'
  BY <1>2, <1>3, <1>5 DEF RouterInv, Counted, Apart
<1> QED
  BY <1>2, <1>3, <1>4, <1>6

\* A step that leaves the entries alone.
LEMMA NoEntry ==
  ASSUME RouterInv, NEW i \in Slots, entry' = entry, Apart(i)
  PROVE  /\ \A j \in Slots : j # i => EntryInv(j)'
         /\ Counted'
         /\ \A j \in Slots : Active(j)' <=> Active(j)
<1>1. entry' = [entry EXCEPT ![i] = entry[i]] /\ entry[i] \in Entries
  BY DEF RouterInv, RouterTypes
<1> QED
  BY <1>1, OneEntry

\* So a step within one entry need only be looked at there.
LEMMA WithinEntry ==
  ASSUME RouterInv, NEW i \in Slots, NEW e \in Entries, e.app = entry[i].app,
         entry' = [entry EXCEPT ![i] = e], Apart(i), EntryInv(i)',
         SocketTypes', CallTypes', PassTypes', HangupIsReadable'
  PROVE  RouterInv'
<1>1. /\ \A j \in Slots : j # i => EntryInv(j)'
      /\ Counted' /\ entry' \in [Slots -> Entries]
  BY OneEntry
<1>2. \A j \in Slots : EntryInv(j)'
  BY <1>1
<1> QED
  BY <1>1, <1>2 DEF RouterInv, RouterTypes

\* The number of a new message.
LEMMA NewMsgType ==
  ASSUME RouterTypes, NEW i \in Slots, call # NoCall
  PROVE  NewMsg(i) \in Msg
<1>1. call.bad \in BOOLEAN /\ due[i] \in Seq(Msg)
  BY DEF RouterTypes, SocketTypes, CallTypes, Calls
<1>2. \A x \in Nat : x % Ids \in 0..(Ids - 1)
  BY RouterAssumption
<1>3. due[i] # <<>> => Last(due[i]).id + 1 \in Nat
  <2>1. due[i] # <<>> => Len(due[i]) \in 1..Len(due[i])
    BY <1>1, EmptySeq, LenProperties
  <2>2. due[i] # <<>> => due[i][Len(due[i])] \in Msg
    BY <1>1, <2>1, ElementOfSeq
  <2> QED
    BY <2>2, RouterAssumption DEF Last, Msg
<1>4. 0 \in 0..(Ids - 1)
  BY RouterAssumption
<1>5. (IF due[i] = <<>> THEN 0 ELSE (Last(due[i]).id + 1) % Ids) \in 0..(Ids - 1)
  BY <1>2, <1>3, <1>4
<1> QED
  BY <1>1, <1>5 DEF NewMsg, Msg

\* A call ends or goes on with a guest that is registered.
LEMMA ReturnTypes ==
  ASSUME RouterTypes, call # NoCall, NEW i \in Slots, Return(i),
         \A j \in Slots : Active(j)' <=> Active(j)
  PROVE  CallTypes'
<1>1. CASE call' = NoCall
  BY <1>1 DEF CallTypes
<1>2. CASE Targets(i) # {} /\ call' = [call EXCEPT !.slot = Lowest(Targets(i))]
  <2>1. Targets(i) \in SUBSET Slots /\ \A j \in Targets(i) : Active(j)
    BY DEF Targets, Live
  <2>2. Lowest(Targets(i)) \in Targets(i)
    BY <1>2, <2>1, LowestIs
  <2>3. PICK t \in Slots : t = Lowest(Targets(i)) /\ Active(t)'
    BY <2>1, <2>2
  <2>4. call' = [call EXCEPT !.slot = t]
    BY <1>2, <2>3
  <2>5. call \in Calls
    BY DEF RouterTypes, SocketTypes, CallTypes, Calls
  <2>6. /\ call' \in Calls
        /\ call'.slot = t
    BY <2>4, <2>5 DEF Calls
  <2> QED
    BY <2>3, <2>6 DEF CallTypes
<1> QED
  BY <1>1, <1>2 DEF Return

-----------------------------------------------------------------------------
(* The steps of a call. *)

\* A call only notes what it was asked to do.
LEMMA CallInv ==
  ASSUME RouterInv, NEW op \in {"send", "broadcast", "flush"}, NEW i \in Slots, Active(i),
         NEW bad \in BOOLEAN, Call(op, i, bad)
  PROVE  RouterInv'
<1>1. entry' = [entry EXCEPT ![i] = entry[i]] /\ entry[i] \in Entries
  BY DEF RouterInv, RouterTypes, Call
<1>2. Apart(i) /\ EntryInv(i)'
  BY DEF RouterInv, EntryInv, Call, Apart, Active, guestVars
<1>3. SocketTypes' /\ PassTypes' /\ HangupIsReadable'
  BY DEF RouterInv, RouterTypes, SocketTypes, PassTypes, HangupIsReadable, Call, guestVars
<1>4. CallTypes'
  BY DEF CallTypes, Calls, Call, Active
<1> QED
  BY <1>1, <1>2, <1>3, <1>4, WithinEntry

\* A broadcast starts at the lowest of its targets.
LEMMA BroadcastInv == ASSUME RouterInv, NEW bad \in BOOLEAN, Broadcast(bad) PROVE RouterInv'
<1>1. Targets(0) \in SUBSET Slots /\ \A j \in Targets(0) : Active(j)
  BY DEF Targets, Live
<1>2. Lowest(Targets(0)) \in Targets(0)
  BY <1>1, LowestIs DEF Broadcast
<1> QED
  BY <1>1, <1>2, CallInv DEF Broadcast

\* The entry of a call, and how its ring may be changed.
LEMMA CallEntry ==
  ASSUME RouterInv, call # NoCall
  PROVE  /\ call \in Calls /\ call.slot \in Slots /\ Active(call.slot) /\ EntryInv(call.slot)
         /\ entry[call.slot] \in Entries /\ entry[call.slot].queue \in Seq(Msg)
         /\ down[call.slot] \in Seq(Msg) /\ due[call.slot] \in Seq(Msg)
<1>1. call \in Calls /\ call.slot \in Slots /\ Active(call.slot)
  BY DEF RouterInv, RouterTypes, CallTypes, Calls
<1> QED
  BY <1>1 DEF RouterInv, RouterTypes, SocketTypes, Entries

\* Flushing one message moves it from the ring to the socket, in order.
LEMMA FlushOneInv == ASSUME RouterInv, FlushOne PROVE RouterInv'
<1>0. PICK i \in Slots : i = call.slot
  BY CallEntry DEF FlushOne
<1> DEFINE q == entry[i].queue
           e == [entry[i] EXCEPT !.queue = Tail(q)]
<1>1. call # NoCall /\ q # <<>> /\ peer[i] = "open"
  BY <1>0 DEF FlushOne, ChannelSend, SendStatus
<1>2. /\ call \in Calls /\ Active(i) /\ EntryInv(i)
      /\ entry[i] \in Entries /\ q \in Seq(Msg)
      /\ down[i] \in Seq(Msg) /\ due[i] \in Seq(Msg)
  BY <1>0, <1>1, CallEntry
<1>3. /\ Append(down[i], Head(q)) \o Tail(q) = down[i] \o q
      /\ Append(down[i], Head(q)) \in Seq(Msg) /\ Tail(q) \in Seq(Msg) /\ Len(Tail(q)) = Len(q) - 1
  BY <1>1, <1>2, RingToSocket
<1>4. /\ down' = [down EXCEPT ![i] = Append(down[i], Head(q))]
      /\ entry' = [entry EXCEPT ![i].queue = Tail(q)]
      /\ UNCHANGED <<guest_count, up, peer, due, dropped, call, at, pass>>
  BY <1>0 DEF FlushOne, Put
<1>5. down \in [Slots -> Seq(Msg)] /\ entry \in [Slots -> Entries]
  BY DEF RouterInv, RouterTypes, SocketTypes
<1>6. entry' = [entry EXCEPT ![i] = e] /\ e \in Entries /\ e.app = entry[i].app /\ entry'[i] = e
  BY <1>2, <1>3, <1>4, <1>5 DEF Entries
<1>7. down' \in [Slots -> Seq(Msg)] /\ down'[i] = Append(down[i], Head(q))
      /\ \A j \in Slots : j # i => down'[j] = down[j]
  BY <1>2, <1>3, <1>4, <1>5
<1>8. Apart(i) /\ SocketTypes'
  BY <1>4, <1>7 DEF Apart, RouterInv, RouterTypes, SocketTypes
<1>9. e.queue = Tail(q) /\ e.quarantined = entry[i].quarantined /\ e.app = entry[i].app
  BY <1>2 DEF Entries
<1>10. Active(i)' /\ peer'[i] = "open" /\ up'[i] = up[i] /\ due'[i] = due[i]
  BY <1>1, <1>2, <1>4, <1>6, <1>9 DEF Active
<1>11. Len(Tail(q)) <= QueueDepth
  BY <1>2, <1>3, LenProperties, RouterAssumption DEF EntryInv
<1>12. down'[i] \o entry'[i].queue = due'[i]
  BY <1>1, <1>2, <1>3, <1>6, <1>7, <1>9, <1>10 DEF EntryInv
<1>13. EntryInv(i)'
  BY <1>1, <1>2, <1>4, <1>6, <1>9, <1>10, <1>11, <1>12 DEF EntryInv
<1>14. CallTypes'
  BY <1>0, <1>2, <1>4, <1>10 DEF CallTypes
<1>15. PassTypes' /\ HangupIsReadable'
  BY <1>4 DEF RouterInv, RouterTypes, PassTypes, HangupIsReadable
<1> HIDE DEF e, q
<1> QED
  BY <1>2, <1>6, <1>8, <1>13, <1>14, <1>15, WithinEntry

\* What comes after a flush: the other variables stay, the call returns.
LEMMA AfterCall ==
  ASSUME RouterInv, call # NoCall, NEW i \in Slots, NEW e \in Entries, e.app = entry[i].app,
         entry' = [entry EXCEPT ![i] = e], Apart(i), EntryInv(i)', SocketTypes',
         Return(i), UNCHANGED <<at, pass>>
  PROVE  RouterInv'
<1>1. \A j \in Slots : Active(j)' <=> Active(j)
  BY OneEntry
<1>2. CallTypes'
  BY <1>1, ReturnTypes DEF RouterInv
<1>3. PassTypes' /\ HangupIsReadable'
  BY DEF RouterInv, RouterTypes, PassTypes, HangupIsReadable
<1> QED
  BY <1>2, <1>3, WithinEntry

\* A message that is queued goes to the end of the ring and of what the
\* guest is due; one that is dropped changes neither.
LEMMA QueueOrDropInv ==
  ASSUME RouterInv, call # NoCall, NEW i \in Slots, i = call.slot, NEW m \in Msg,
         QueueOrDrop(i, m), Return(i), UNCHANGED <<guest_count, down, up, peer, at, pass>>
  PROVE  RouterInv'
<1> DEFINE q == entry[i].queue
<1>1. /\ Active(i) /\ EntryInv(i) /\ entry[i] \in Entries /\ q \in Seq(Msg)
      /\ down[i] \in Seq(Msg) /\ due[i] \in Seq(Msg)
  BY CallEntry
<1>2. entry \in [Slots -> Entries] /\ due \in [Slots -> Seq(Msg)] /\ SocketTypes
  BY DEF RouterInv, RouterTypes, SocketTypes
<1>3. CASE /\ Len(q) < QueueDepth /\ entry' = [entry EXCEPT ![i].queue = Append(q, m)]
           /\ Accept(i, m) /\ UNCHANGED dropped
  <2> DEFINE e == [entry[i] EXCEPT !.queue = Append(q, m)]
  <2> HIDE DEF q
  <2>1. /\ down[i] \o Append(q, m) = Append(down[i] \o q, m)
        /\ Append(q, m) \in Seq(Msg) /\ Len(Append(q, m)) = Len(q) + 1
    <3>1. down[i] \in Seq(Msg) /\ q \in Seq(Msg) /\ m \in Msg
      BY <1>1
    <3>2. ASSUME NEW d \in Seq(Msg), NEW x \in Seq(Msg), NEW y \in Msg
          PROVE  /\ d \o Append(x, y) = Append(d \o x, y)
                 /\ Append(x, y) \in Seq(Msg) /\ Len(Append(x, y)) = Len(x) + 1
      BY <3>2, IntoRing
    <3> QED
      BY <3>1, <3>2
  <2>10. Append(due[i], m) \in Seq(Msg)
    BY <1>1, AppendProperties
  <2> USE DEF q
  <2>2. entry' = [entry EXCEPT ![i] = e] /\ e \in Entries /\ entry'[i] = e
    BY <1>1, <1>2, <1>3, <2>1 DEF Entries
  <2>3. e.queue = Append(q, m) /\ e.quarantined = entry[i].quarantined /\ e.app = entry[i].app
    BY <1>1 DEF Entries
  <2>4. /\ due' \in [Slots -> Seq(Msg)]
        /\ due'[i] = IF peer[i] = "open" THEN Append(due[i], m) ELSE due[i]
        /\ \A j \in Slots : j # i => due'[j] = due[j]
    BY <1>2, <1>3, <2>10 DEF Accept
  <2>5. Apart(i) /\ SocketTypes'
    BY <1>2, <1>3, <2>4 DEF Apart, SocketTypes
  <2>6. Active(i)'
    BY <1>1, <2>2, <2>3 DEF Active
  <2>7. Len(Append(q, m)) <= QueueDepth
    BY <1>1, <1>3, <2>1, LenProperties, RouterAssumption
  <2>8. peer'[i] = "open" => down'[i] \o entry'[i].queue = due'[i]
    BY <1>1, <2>1, <2>2, <2>3, <2>4 DEF EntryInv
  <2>9. EntryInv(i)'
    BY <1>1, <1>3, <2>2, <2>3, <2>6, <2>7, <2>8 DEF EntryInv
  <2> HIDE DEF e
  <2> QED
    BY <2>2, <2>3, <2>5, <2>9, AfterCall
<1>4. CASE UNCHANGED <<entry, due>> /\ (dropped' = dropped \/ dropped' = dropped \cup {i})
  <2>1. entry' = [entry EXCEPT ![i] = entry[i]]
    BY <1>2, <1>4
  <2>2. Apart(i) /\ SocketTypes'
    BY <1>2, <1>4 DEF Apart, SocketTypes
  <2>3. EntryInv(i)'
    BY <1>1, <1>4 DEF EntryInv, Active
  <2> QED
    BY <1>1, <2>1, <2>2, <2>3, AfterCall
<1>5. CASE /\ FloodPolicy = "disconnect" /\ Quarantine(i)
           /\ dropped' = dropped \cup {i} /\ UNCHANGED due
  <2> DEFINE e == [entry[i] EXCEPT !.quarantined = TRUE]
  <2>1. entry' = [entry EXCEPT ![i] = e] /\ e \in Entries /\ entry'[i] = e
    BY <1>1, <1>2, <1>5 DEF Entries, Quarantine
  <2>2. e.queue = q /\ e.app = entry[i].app
    BY <1>1 DEF Entries
  <2>3. Apart(i) /\ SocketTypes'
    BY <1>2, <1>5 DEF Apart, SocketTypes
  <2>4. Active(i)' /\ i \in dropped'
    BY <1>1, <1>5, <2>1, <2>2 DEF Active
  <2>5. EntryInv(i)'
    BY <1>1, <1>5, <2>1, <2>2, <2>4 DEF EntryInv
  <2> HIDE DEF e
  <2> QED
    BY <2>1, <2>2, <2>3, <2>5, AfterCall
<1> QED
  BY <1>3, <1>4, <1>5 DEF QueueOrDrop

\* A flush that would block, or fails, leaves the rest of the ring in order.
LEMMA FlushStopsInv == ASSUME RouterInv, FlushStops PROVE RouterInv'
<1>1. call # NoCall
  BY DEF FlushStops
<1>2. PICK i \in Slots : i = call.slot
  BY <1>1, CallEntry
<1>3. Return(i) /\ UNCHANGED <<guest_count, down, up, peer, at, pass>>
  BY <1>2 DEF FlushStops
<1>4. CASE QueueOrDrop(i, NewMsg(i))
  <2>1. NewMsg(i) \in Msg
    BY <1>1, NewMsgType DEF RouterInv
  <2> QED
    BY <1>1, <1>2, <1>3, <1>4, <2>1, QueueOrDropInv
<1>5. CASE UNCHANGED <<entry, due, dropped>>
  <2>1. /\ EntryInv(i) /\ entry[i] \in Entries /\ entry' = [entry EXCEPT ![i] = entry[i]]
    BY <1>5 DEF RouterInv, RouterTypes
  <2>2. Apart(i) /\ SocketTypes'
    BY <1>3, <1>5 DEF Apart, RouterInv, RouterTypes, SocketTypes
  <2>3. EntryInv(i)'
    BY <1>3, <1>5, <2>1 DEF EntryInv, Active
  <2> QED
    BY <1>1, <1>3, <2>1, <2>2, <2>3, AfterCall
<1> QED
  BY <1>2, <1>4, <1>5 DEF FlushStops

\* A flush that emptied the ring returns.
LEMMA FlushDoneInv == ASSUME RouterInv, FlushDone PROVE RouterInv'
<1>1. call # NoCall
  BY DEF FlushDone, NoCall
<1>2. PICK i \in Slots : i = call.slot
  BY <1>1, CallEntry
<1>3. /\ EntryInv(i) /\ entry[i] \in Entries /\ entry' = [entry EXCEPT ![i] = entry[i]]
  BY DEF RouterInv, RouterTypes, FlushDone
<1>4. Apart(i) /\ SocketTypes'
  BY DEF Apart, RouterInv, RouterTypes, SocketTypes, FlushDone, guestVars
<1>5. EntryInv(i)'
  BY <1>3 DEF EntryInv, Active, FlushDone, guestVars
<1>6. CallTypes' /\ PassTypes' /\ HangupIsReadable'
  BY DEF RouterInv, RouterTypes, CallTypes, PassTypes, HangupIsReadable, FlushDone
<1> QED
  BY <1>3, <1>4, <1>5, <1>6, WithinEntry

\* The channel of an entry is found closed: the entry is kept, quarantined.
LEMMA MarkClosedInv ==
  ASSUME RouterInv, NEW i \in Slots, Active(i), NEW r, MarkClosed(i, r),
         r = "closed" => \/ peer[i] # "open"
                         \/ up[i] # <<>> /\ Head(up[i]) = "empty",
         UNCHANGED <<down, up, peer, due, dropped>>
  PROVE  \E e \in Entries : /\ e.app = entry[i].app
                             /\ entry' = [entry EXCEPT ![i] = e] /\ EntryInv(i)'
<1>1. entry \in [Slots -> Entries] /\ entry[i] \in Entries /\ EntryInv(i)
  BY DEF RouterInv, RouterTypes
<1>2. CASE r = "closed"
  <2> DEFINE e == [entry[i] EXCEPT !.quarantined = TRUE]
  <2>1. entry' = [entry EXCEPT ![i] = e] /\ e \in Entries /\ entry'[i] = e
    BY <1>1, <1>2 DEF Entries, Quarantine, MarkClosed
  <2>2. e.queue = entry[i].queue /\ e.app = entry[i].app
    BY <1>1 DEF Entries
  <2>3. Active(i)'
    BY <2>1, <2>2 DEF Active
  <2>4. EntryInv(i)'
    BY <1>1, <1>2, <2>1, <2>2, <2>3 DEF EntryInv
  <2> QED
    BY <2>1, <2>2, <2>4
<1>3. CASE r # "closed"
  <2>1. entry' = entry /\ entry' = [entry EXCEPT ![i] = entry[i]]
    BY <1>1, <1>3 DEF MarkClosed
  <2>2. EntryInv(i)'
    BY <1>1, <2>1 DEF EntryInv, Active
  <2> QED
    BY <1>1, <2>1, <2>2
<1> QED
  BY <1>2, <1>3

\* A send that bypasses the ring does so only when the ring is empty.
LEMMA SendDirectInv == ASSUME RouterInv, SendDirect PROVE RouterInv'
<1>1. call # NoCall
  BY DEF SendDirect, NoCall
<1>2. PICK i \in Slots : i = call.slot
  BY <1>1, CallEntry
<1> DEFINE m == NewMsg(i)
<1>3. m \in Msg
  BY <1>1, NewMsgType DEF RouterInv
<1>4. /\ Active(i) /\ EntryInv(i) /\ entry[i] \in Entries /\ entry[i].queue \in Seq(Msg)
      /\ down[i] \in Seq(Msg) /\ due[i] \in Seq(Msg)
  BY <1>1, <1>2, CallEntry
<1>5. /\ Return(i) /\ UNCHANGED <<guest_count, up, peer, at, pass>> /\ entry[i].queue = <<>>
  BY <1>2 DEF SendDirect, NothingWaits
<1>6. PICK r \in {"ok", "limit", "closed", "would_block", "system"} :
        /\ ChannelSend(i, m.bad, r)
        /\ IF r = "ok" THEN Put(i, m) /\ Accept(i, m) /\ UNCHANGED <<entry, dropped>>
           ELSE IF r = "would_block" THEN QueueOrDrop(i, m) /\ UNCHANGED down
           ELSE MarkClosed(i, r) /\ UNCHANGED <<down, due, dropped>>
  BY <1>2 DEF SendDirect
<1> HIDE DEF m
<1>7. CASE r = "ok"
  <2>1. /\ peer[i] = "open" /\ down' = [down EXCEPT ![i] = Append(down[i], m)]
        /\ due' = [due EXCEPT ![i] = Append(due[i], m)] /\ UNCHANGED <<entry, dropped>>
    BY <1>6, <1>7 DEF ChannelSend, SendStatus, Put, Accept
  <2>2. down \in [Slots -> Seq(Msg)] /\ due \in [Slots -> Seq(Msg)] /\ SocketTypes
    BY DEF RouterInv, RouterTypes, SocketTypes
  <2>3. /\ Append(down[i], m) \o entry[i].queue = Append(down[i] \o entry[i].queue, m)
        /\ Append(down[i], m) \in Seq(Msg)
    BY <1>3, <1>4, <1>5, IntoRing
  <2>4. Append(due[i], m) \in Seq(Msg)
    BY <1>3, <1>4, AppendProperties
  <2>5. /\ down' \in [Slots -> Seq(Msg)] /\ due' \in [Slots -> Seq(Msg)]
        /\ down'[i] = Append(down[i], m) /\ due'[i] = Append(due[i], m)
        /\ \A j \in Slots : j # i => down'[j] = down[j] /\ due'[j] = due[j]
    BY <2>1, <2>2, <2>3, <2>4
  <2>6. Apart(i) /\ SocketTypes'
    BY <1>5, <2>1, <2>2, <2>5 DEF Apart, SocketTypes
  <2>7. down'[i] \o entry'[i].queue = due'[i]
    BY <1>4, <2>1, <2>3, <2>5 DEF EntryInv
  <2>8. EntryInv(i)'
    BY <1>4, <1>5, <2>1, <2>7 DEF EntryInv, Active
  <2>9. entry' = [entry EXCEPT ![i] = entry[i]]
    BY <2>1 DEF RouterInv, RouterTypes
  <2> QED
    BY <1>1, <1>4, <1>5, <2>6, <2>8, <2>9, AfterCall
<1>8. CASE r = "would_block"
  <2>1. QueueOrDrop(i, m) /\ UNCHANGED down
    BY <1>6, <1>8
  <2> QED
    BY <1>1, <1>2, <1>3, <1>5, <2>1, QueueOrDropInv
<1>9. CASE r \notin {"ok", "would_block"}
  <2>1. MarkClosed(i, r) /\ UNCHANGED <<down, due, dropped>>
    BY <1>6, <1>9
  <2>2. r = "closed" => peer[i] # "open"
    BY <1>6, <1>9 DEF ChannelSend, SendStatus
  <2>3. PICK e \in Entries : /\ e.app = entry[i].app
                             /\ entry' = [entry EXCEPT ![i] = e] /\ EntryInv(i)'
    BY <1>4, <1>5, <2>1, <2>2, MarkClosedInv
  <2>4. Apart(i) /\ SocketTypes'
    BY <1>5, <2>1 DEF Apart, RouterInv, RouterTypes, SocketTypes
  <2> QED
    BY <1>1, <1>5, <2>3, <2>4, AfterCall
<1> QED
  BY <1>7, <1>8, <1>9

-----------------------------------------------------------------------------
(* The steps of a dispatch pass. *)

\* The pass stays within the slots.
LEMMA NextSlotTypes ==
  ASSUME RouterInv, at \in {"judge", "receive"}, NextSlot
  PROVE  PassTypes' /\ HangupIsReadable'
<1>1. /\ pass \in [pos : 0..MaxGuests, quota : Nat, revents : [Slots -> Polled]]
      /\ pass.pos \in Slots /\ HangupIsReadable
  BY DEF RouterInv, RouterTypes, PassTypes
<1>2. CASE /\ pass.pos < MaxGuests /\ at' = "judge"
           /\ pass' = [pass EXCEPT !.pos = @ + 1, !.quota = 0, !.revents[pass.pos] = {}]
  <2> DEFINE p == pass.pos
             r == [pass.revents EXCEPT ![p] = {}]
  <2>1. pass' = [pos |-> p + 1, quota |-> 0, revents |-> r]
    BY <1>1, <1>2
  <2>2. p + 1 \in Slots /\ p + 1 \in 0..MaxGuests
    BY <1>1, <1>2, RouterAssumption DEF Slots
  <2>3. r \in [Slots -> Polled] /\ \A j \in Slots : r[j] = pass.revents[j] \/ r[j] = {}
    BY <1>1 DEF Polled
  <2> HIDE DEF r
  <2>4. PassTypes'
    BY <1>2, <2>1, <2>2, <2>3 DEF PassTypes
  <2>5. HangupIsReadable'
    BY <1>1, <2>1, <2>3 DEF HangupIsReadable
  <2> QED
    BY <2>4, <2>5
<1>3. CASE at' = "idle" /\ pass' = NoPass
  BY <1>3, RouterAssumption DEF PassTypes, HangupIsReadable, NoPass, Polled
<1> QED
  BY <1>2, <1>3 DEF NextSlot

\* poll: a hung-up guest is also reported readable.
LEMMA PollInv == ASSUME RouterInv, Poll PROVE RouterInv'
<1> DEFINE v == [i \in Slots |-> Revents(i)]
<1>1. \A i \in Slots : Revents(i) \in Polled /\ ("hup" \in Revents(i) => "in" \in Revents(i))
  BY DEF Revents, Polled
<1>2. v \in [Slots -> Polled] /\ \A i \in Slots : v[i] = Revents(i)
  BY <1>1
<1>3. pass' = [pos |-> 1, quota |-> 0, revents |-> v] /\ at' = "judge"
  BY DEF Poll
<1>4. 1 \in Slots /\ 1 \in 0..MaxGuests
  BY RouterAssumption DEF Slots
<1> HIDE DEF v
<1>5. PassTypes' /\ HangupIsReadable'
  BY <1>1, <1>2, <1>3, <1>4 DEF PassTypes, HangupIsReadable
<1>6. entry' = [entry EXCEPT ![1] = entry[1]] /\ entry[1] \in Entries /\ EntryInv(1)
  BY <1>4 DEF RouterInv, RouterTypes, Poll
<1>7. Apart(1) /\ SocketTypes' /\ CallTypes'
  BY DEF Apart, RouterInv, RouterTypes, SocketTypes, CallTypes, Active, Poll, guestVars
<1>8. EntryInv(1)'
  BY <1>6 DEF EntryInv, Active, Poll, guestVars
<1> QED
  BY <1>4, <1>5, <1>6, <1>7, <1>8, WithinEntry

\* The pass looks at a slot: quarantine it on a hang-up, else flush and receive.
LEMMA JudgeInv == ASSUME RouterInv, Judge PROVE RouterInv'
<1>1. /\ pass \in [pos : 0..MaxGuests, quota : Nat, revents : [Slots -> Polled]]
      /\ pass.pos \in Slots
  BY DEF RouterInv, RouterTypes, PassTypes, Judge
<1>2. PICK i \in Slots : i = pass.pos
  BY <1>1
<1> DEFINE re == pass.revents[i]
<1>3. ~HungUp(re)
  BY <1>2 DEF RouterInv, HangupIsReadable, HungUp
<1>4. /\ call' = IF "out" \in re /\ entry[i].queue # <<>>
                 THEN [op |-> "dispatch", slot |-> i, bad |-> FALSE] ELSE NoCall
      /\ at' = "receive"
      /\ pass' = [pass EXCEPT !.quota = IF "in" \in re THEN Quota ELSE 0]
      /\ UNCHANGED <<entry, guest_count, down, up, peer, due, dropped>>
  BY <1>2, <1>3 DEF Judge, guestVars
<1>5. PassTypes' /\ HangupIsReadable'
  <2>1. (IF "in" \in re THEN Quota ELSE 0) \in Nat
    BY RouterAssumption
  <2>2. /\ pass' \in [pos : 0..MaxGuests, quota : Nat, revents : [Slots -> Polled]]
        /\ pass'.pos = pass.pos /\ pass'.revents = pass.revents
    BY <1>1, <1>4, <2>1
  <2> QED
    BY <1>1, <1>4, <2>2 DEF PassTypes, HangupIsReadable, RouterInv
<1>6. entry' = [entry EXCEPT ![i] = entry[i]] /\ entry[i] \in Entries /\ EntryInv(i)
  BY <1>4 DEF RouterInv, RouterTypes
<1>7. Apart(i) /\ SocketTypes'
  BY <1>4 DEF Apart, RouterInv, RouterTypes, SocketTypes
<1>8. EntryInv(i)'
  BY <1>4, <1>6 DEF EntryInv, Active
<1>9. CallTypes'
  <2>1. CASE entry[i].queue # <<>>
    <3>1. Active(i)'
      BY <1>4, <1>6, <2>1 DEF EntryInv, Active
    <3>2. [op |-> "dispatch", slot |-> i, bad |-> FALSE] \in Calls
      BY DEF Calls
    <3> QED
      BY <1>4, <3>1, <3>2 DEF CallTypes
  <2>2. CASE entry[i].queue = <<>>
    BY <1>4, <2>2 DEF CallTypes
  <2> QED
    BY <2>1, <2>2
<1> QED
  BY <1>5, <1>6, <1>7, <1>8, <1>9, WithinEntry

\* A frame that is taken from a socket is none that would close it.
LEMMA TakeFrameInv ==
  ASSUME RouterInv, NEW i \in Slots, up[i] # <<>>, Head(up[i]) # "empty", TakeFrame(i),
         UNCHANGED <<entry, guest_count, down, peer, due, dropped, call>>,
         PassTypes', HangupIsReadable'
  PROVE  RouterInv'
<1>1. up \in [Slots -> Seq(Kinds)] /\ Tail(up[i]) \in Seq(Kinds)
  <2>1. up \in [Slots -> Seq(Kinds)] /\ up[i] \in Seq(Kinds)
    BY DEF RouterInv, RouterTypes, SocketTypes
  <2> QED
    BY <2>1, HeadTailProperties
<1>2. up' \in [Slots -> Seq(Kinds)] /\ \A j \in Slots : j # i => up'[j] = up[j]
  BY <1>1 DEF TakeFrame
<1>3. entry' = [entry EXCEPT ![i] = entry[i]] /\ entry[i] \in Entries /\ EntryInv(i)
  BY DEF RouterInv, RouterTypes
<1>4. Apart(i) /\ SocketTypes' /\ CallTypes'
  BY <1>2 DEF Apart, RouterInv, RouterTypes, SocketTypes, CallTypes, Active
<1>5. EntryInv(i)'
  BY <1>3 DEF EntryInv, Active
<1> QED
  BY <1>3, <1>4, <1>5, WithinEntry

\* A frame is received within the quota of the pass.
LEMMA ReceiveInv == ASSUME RouterInv, ReceiveFrame PROVE RouterInv'
<1>1. /\ pass \in [pos : 0..MaxGuests, quota : Nat, revents : [Slots -> Polled]]
      /\ pass.pos \in Slots
  BY DEF RouterInv, RouterTypes, PassTypes, ReceiveFrame
<1>2. PICK i \in Slots : i = pass.pos
  BY <1>1
<1>3. up[i] # <<>> /\ Head(up[i]) # "empty"
  BY <1>2 DEF ReceiveFrame, ReceiveStatus
<1>4. PassTypes' /\ HangupIsReadable'
  <2>1. pass.quota - 1 \in Nat
    BY <1>1 DEF ReceiveFrame
  <2>2. /\ pass' \in [pos : 0..MaxGuests, quota : Nat, revents : [Slots -> Polled]]
        /\ pass'.pos = pass.pos /\ pass'.revents = pass.revents
    BY <1>1, <2>1 DEF ReceiveFrame, SpendQuota
  <2> QED
    BY <1>1, <2>2 DEF PassTypes, HangupIsReadable, RouterInv, ReceiveFrame
<1> QED
  BY <1>2, <1>3, <1>4, TakeFrameInv DEF ReceiveFrame

\* Receiving ends: nothing left, quota reached, hang-up or a bad frame.
LEMMA ReceiveEndsInv == ASSUME RouterInv, ReceiveEnds PROVE RouterInv'
<1>1. PICK i \in Slots : i = pass.pos
  BY DEF RouterInv, RouterTypes, PassTypes, ReceiveEnds
<1>2. PassTypes' /\ HangupIsReadable'
  BY NextSlotTypes DEF ReceiveEnds
<1>3. UNCHANGED <<guest_count, down, peer, due, dropped, call>>
  BY DEF ReceiveEnds
<1>4. PICK r \in {IF pass.quota = 0 THEN "ok" ELSE ReceiveStatus(i), "system"} :
        /\ r # "good" /\ MarkClosed(i, r)
        /\ IF r \in {"foreign", "malformed"} THEN TakeFrame(i) ELSE UNCHANGED up
  BY <1>1 DEF ReceiveEnds
<1>5. CASE r \in {"foreign", "malformed"}
  <2>1. r = ReceiveStatus(i) /\ entry' = entry /\ TakeFrame(i)
    BY <1>4, <1>5 DEF MarkClosed
  <2>2. up[i] # <<>> /\ Head(up[i]) # "empty"
    BY <1>5, <2>1 DEF ReceiveStatus
  <2> QED
    BY <1>2, <1>3, <2>1, <2>2, TakeFrameInv
<1>6. CASE r = "closed"
  <2>1. r = ReceiveStatus(i) /\ UNCHANGED up
    BY <1>4, <1>6
  <2>2. Active(i)
    BY <1>6, <2>1 DEF ReceiveStatus
  <2>3. peer[i] # "open" \/ (up[i] # <<>> /\ Head(up[i]) = "empty")
    <3>1. up[i] \in Seq(Kinds)
      BY DEF RouterInv, RouterTypes, SocketTypes
    <3>2. up[i] # <<>> => Head(up[i]) \in Kinds
      BY <3>1, HeadTailProperties
    <3> QED
      BY <1>6, <2>1, <3>2 DEF ReceiveStatus, Kinds
  <2>4. PICK e \in Entries : /\ e.app = entry[i].app
                             /\ entry' = [entry EXCEPT ![i] = e] /\ EntryInv(i)'
    BY <1>3, <1>4, <2>1, <2>2, <2>3, MarkClosedInv
  <2>5. Apart(i) /\ SocketTypes'
    BY <1>3, <2>1 DEF Apart, RouterInv, RouterTypes, SocketTypes
  <2>6. CallTypes'
    BY <1>3 DEF ReceiveEnds, CallTypes
  <2> QED
    BY <1>2, <2>4, <2>5, <2>6, WithinEntry
<1>7. CASE r \notin {"foreign", "malformed", "closed"}
  <2>1. UNCHANGED <<up, entry>>
    BY <1>4, <1>7 DEF MarkClosed
  <2>2. entry' = [entry EXCEPT ![i] = entry[i]] /\ entry[i] \in Entries /\ EntryInv(i)
    BY <2>1 DEF RouterInv, RouterTypes
  <2>3. Apart(i) /\ SocketTypes' /\ CallTypes'
    BY <1>3, <2>1 DEF Apart, RouterInv, RouterTypes, SocketTypes, CallTypes, Active
  <2>4. EntryInv(i)'
    BY <1>3, <2>1, <2>2 DEF EntryInv, Active
  <2> QED
    BY <1>2, <2>2, <2>3, <2>4, WithinEntry
<1> QED
  BY <1>5, <1>6, <1>7

\* The handler of a frame returns to the receive loop.
LEMMA HandlerReturnsInv == ASSUME RouterInv, HandlerReturns PROVE RouterInv'
<1>1. PICK i \in Slots : i = pass.pos
  BY DEF RouterInv, RouterTypes, PassTypes, HandlerReturns
<1>2. entry' = [entry EXCEPT ![i] = entry[i]] /\ entry[i] \in Entries /\ EntryInv(i)
  BY DEF RouterInv, RouterTypes, HandlerReturns
<1>3. Apart(i) /\ SocketTypes' /\ CallTypes'
  BY DEF Apart, RouterInv, RouterTypes, SocketTypes, CallTypes, Active, HandlerReturns, guestVars
<1>4. PassTypes' /\ HangupIsReadable'
  BY DEF RouterInv, RouterTypes, PassTypes, HangupIsReadable, HandlerReturns
<1>5. EntryInv(i)'
  BY <1>2 DEF EntryInv, Active, HandlerReturns, guestVars
<1> QED
  BY <1>2, <1>3, <1>4, <1>5, WithinEntry

-----------------------------------------------------------------------------
(* Registration. *)

\* Below the limit an entry is free, and FirstFree is one.
LEMMA BelowLimit ==
  ASSUME RouterInv, guest_count < MaxGuests
  PROVE  FirstFree \in Slots /\ ~Active(FirstFree)
<1>1. MaxGuests \in Nat \ {0} /\ Cardinality(1..MaxGuests) = MaxGuests
  BY RouterAssumption, FS_Interval
<1>2. InUse # Slots
  BY <1>1 DEF RouterInv, Counted, Slots
<1>3. PICK j \in Slots : ~Active(j)
  BY <1>2 DEF InUse
<1> QED
  BY <1>3, FirstFreeIs

\* The number of entries in use is finite.
LEMMA FiniteUse == IsFiniteSet(InUse)
<1>1. IsFiniteSet(Slots)
  BY RouterAssumption, FS_Interval DEF Slots
<1>2. InUse \subseteq Slots
  BY DEF InUse
<1> QED
  BY <1>1, <1>2, FS_Subset

\* An entry that is given a fresh socket or loses its socket, whatever it
\* held before.
LEMMA SocketInv ==
  ASSUME RouterInv, NEW i \in Slots, NEW end \in {"open", "closed"}, Socket(i, end),
         NEW e \in Entries, e.queue = <<>>, ~e.quarantined, e.app = NoApp => end = "closed",
         entry' = [entry EXCEPT ![i] = e],
         call = NoCall, UNCHANGED <<call, at, pass>>, Counted'
  PROVE  RouterInv'
<1>1. entry \in [Slots -> Entries] /\ SocketTypes
  BY DEF RouterInv, RouterTypes
<1>2. /\ entry' \in [Slots -> Entries] /\ entry'[i] = e
      /\ \A j \in Slots : j # i => entry'[j] = entry[j]
  BY <1>1
<1>3. <<>> \in Seq(Msg) /\ <<>> \in Seq(Kinds) /\ <<>> \o <<>> = <<>> /\ Len(<<>>) = 0
  OBVIOUS
<1>4. /\ down' = [down EXCEPT ![i] = <<>>] /\ up' = [up EXCEPT ![i] = <<>>]
      /\ peer' = [peer EXCEPT ![i] = end]
      /\ due' = [due EXCEPT ![i] = <<>>] /\ dropped' = dropped \ {i}
  BY DEF Socket
<1>5. SocketTypes'
  BY <1>1, <1>3, <1>4 DEF SocketTypes
<1>6. /\ down'[i] = <<>> /\ up'[i] = <<>> /\ peer'[i] = end /\ due'[i] = <<>>
      /\ \A j \in Slots : j # i =>
           /\ down'[j] = down[j] /\ up'[j] = up[j] /\ peer'[j] = peer[j] /\ due'[j] = due[j]
           /\ j \in dropped => j \in dropped'
  BY <1>1, <1>4 DEF SocketTypes
<1>7. EntryInv(i)'
  BY <1>2, <1>3, <1>6, RouterAssumption DEF EntryInv, Active
<1>8. ASSUME NEW j \in Slots, j # i PROVE EntryInv(j)'
  <2>1. /\ EntryInv(j) /\ entry'[j] = entry[j]
        /\ down'[j] = down[j] /\ up'[j] = up[j] /\ peer'[j] = peer[j] /\ due'[j] = due[j]
        /\ j \in dropped => j \in dropped'
    BY <1>2, <1>6, <1>8 DEF RouterInv
  <2> QED
    BY <2>1 DEF EntryInv, Active
<1>9. CallTypes' /\ PassTypes' /\ HangupIsReadable'
  BY DEF CallTypes, PassTypes, HangupIsReadable, RouterInv, RouterTypes
<1> QED
  BY <1>2, <1>5, <1>7, <1>8, <1>9 DEF RouterInv, RouterTypes

\* Registering takes a free slot and starts it with empty queues.
LEMMA RegisterInv == ASSUME RouterInv, NEW a \in Apps, Register(a) PROVE RouterInv'
<1>1. FirstFree \in Slots /\ ~Active(FirstFree)
  BY BelowLimit DEF Register, CanRegister
<1>2. PICK i \in Slots : i = FirstFree /\ ~Active(i)
  BY <1>1
<1> DEFINE e == [FreeEntry EXCEPT !.app = a]
<1>3. FreeEntry \in Entries /\ FreeEntry.queue = <<>> /\ FreeEntry.quarantined = FALSE
  BY DEF FreeEntry, Entries
<1>4. /\ entry' = [entry EXCEPT ![i] = e] /\ guest_count' = guest_count + 1
      /\ Socket(i, "open") /\ call = NoCall /\ UNCHANGED <<call, at, pass>>
  BY <1>2 DEF Register, MayCall
<1>5. e \in Entries /\ e.queue = <<>> /\ ~e.quarantined /\ e.app = a /\ a # NoApp
  BY <1>3, RouterAssumption DEF Entries
<1> HIDE DEF e
<1>6. entry \in [Slots -> Entries]
  BY DEF RouterInv, RouterTypes
<1>7. entry'[i] = e /\ \A j \in Slots : j # i => entry'[j] = entry[j]
  BY <1>4, <1>6
<1>8. InUse' = InUse \cup {i} /\ i \notin InUse
  BY <1>2, <1>5, <1>7 DEF InUse, Active
<1>9. Cardinality(InUse \cup {i}) = Cardinality(InUse) + 1
  BY <1>8, FiniteUse, FS_AddElement
<1>10. ASSUME NEW x \in Slots, NEW y \in Slots, Active(x)', x # y
       PROVE  entry'[x].app # entry'[y].app
  <2>1. \A j \in Slots : entry[j].app # a
    BY DEF Register, CanRegister
  <2>2. CASE x = i
    BY <1>5, <1>7, <1>10, <2>1, <2>2
  <2>3. CASE y = i
    BY <1>5, <1>7, <1>10, <2>1, <2>3
  <2>4. CASE x # i /\ y # i
    <3>1. entry'[x] = entry[x] /\ entry'[y] = entry[y] /\ Active(x)
      BY <1>7, <1>10, <2>4 DEF Active
    <3> QED
      BY <1>10, <3>1 DEF RouterInv, Counted
  <2> QED
    BY <2>2, <2>3, <2>4
<1>11. Counted'
  BY <1>4, <1>8, <1>9, <1>10 DEF RouterInv, Counted
<1> QED
  BY <1>4, <1>5, <1>11, SocketInv

\* Unregistering frees the slot and drops its queue.
LEMMA UnregisterInv == ASSUME RouterInv, NEW i \in Slots, Unregister(i) PROVE RouterInv'
<1>1. /\ entry' = [entry EXCEPT ![i] = FreeEntry] /\ guest_count' = guest_count - 1
      /\ Socket(i, "closed") /\ call = NoCall /\ UNCHANGED <<call, at, pass>> /\ Active(i)
  BY DEF Unregister, MayCall
<1>2. /\ FreeEntry \in Entries /\ FreeEntry.queue = <<>> /\ ~FreeEntry.quarantined
      /\ FreeEntry.app = NoApp
  BY DEF FreeEntry, Entries
<1>3. entry \in [Slots -> Entries]
  BY DEF RouterInv, RouterTypes
<1>4. entry'[i] = FreeEntry /\ \A j \in Slots : j # i => entry'[j] = entry[j]
  BY <1>1, <1>3
<1>5. InUse' = InUse \ {i} /\ i \in InUse
  BY <1>1, <1>2, <1>4 DEF InUse, Active
<1>6. Cardinality(InUse \ {i}) = Cardinality(InUse) - 1
  BY <1>5, FiniteUse, FS_RemoveElement
<1>7. ASSUME NEW x \in Slots, NEW y \in Slots, Active(x)', x # y
      PROVE  entry'[x].app # entry'[y].app
  <2>1. x # i /\ entry'[x] = entry[x] /\ Active(x)
    BY <1>2, <1>4, <1>7 DEF Active
  <2>2. CASE y = i
    BY <1>2, <1>4, <2>1, <2>2 DEF Active
  <2>3. CASE y # i
    BY <1>4, <1>7, <2>1, <2>3 DEF RouterInv, Counted
  <2> QED
    BY <2>2, <2>3
<1>8. Counted'
  BY <1>1, <1>5, <1>6, <1>7 DEF RouterInv, Counted
<1> QED
  BY <1>1, <1>2, <1>8, SocketInv

\* With no entry in use everything holds.
LEMMA EmptyRouter ==
  ASSUME entry = [i \in Slots |-> FreeEntry], guest_count = 0,
         down = [i \in Slots |-> <<>>], up = [i \in Slots |-> <<>>],
         due = [i \in Slots |-> <<>>], peer = [i \in Slots |-> "closed"], dropped = {},
         call = NoCall, PassTypes, HangupIsReadable
  PROVE  RouterInv
<1>1. FreeEntry \in Entries /\ FreeEntry.queue = <<>> /\ FreeEntry.app = NoApp
  BY DEF FreeEntry, Entries
<1>2. \A i \in Slots : entry[i] = FreeEntry /\ ~Active(i)
  BY <1>1 DEF Active
<1>3. entry \in [Slots -> Entries] /\ SocketTypes /\ CallTypes
  BY <1>1 DEF SocketTypes, CallTypes
<1>4. \A i \in Slots : EntryInv(i)
  <2>1. Len(<<>>) <= QueueDepth
    BY RouterAssumption
  <2> QED
    BY <1>1, <1>2, <2>1 DEF EntryInv
<1>5. InUse = {}
  BY <1>2 DEF InUse
<1>6. Counted
  BY <1>2, <1>5, FS_EmptySet DEF Counted
<1> QED
  BY <1>3, <1>4, <1>6 DEF RouterInv, RouterTypes

\* The router starts with every slot free.
LEMMA RouterInitInv == ASSUME Init PROVE RouterInv
<1>1. PassTypes /\ HangupIsReadable
  BY RouterAssumption DEF Init, PassTypes, HangupIsReadable, NoPass, Polled
<1> QED
  BY <1>1, EmptyRouter DEF Init

\* Destroying the router frees every slot.
LEMMA DestroyInv == ASSUME RouterInv, Destroy PROVE RouterInv'
<1>1. /\ entry' = [i \in Slots |-> FreeEntry] /\ guest_count' = 0
      /\ down' = [i \in Slots |-> <<>>] /\ up' = [i \in Slots |-> <<>>]
      /\ due' = [i \in Slots |-> <<>>] /\ peer' = [i \in Slots |-> "closed"] /\ dropped' = {}
      /\ call' = NoCall /\ pass' = pass /\ at' = "destroyed"
  BY DEF Destroy
<1>2. FreeEntry \in Entries /\ FreeEntry.queue = <<>> /\ FreeEntry.app = NoApp
  BY DEF FreeEntry, Entries
<1>3. \A i \in Slots : entry'[i] = FreeEntry /\ ~Active(i)'
  BY <1>1, <1>2 DEF Active
<1>4. entry' \in [Slots -> Entries] /\ SocketTypes' /\ CallTypes'
  BY <1>1, <1>2 DEF SocketTypes, CallTypes
<1>5. \A i \in Slots : EntryInv(i)'
  <2>1. Len(<<>>) <= QueueDepth
    BY RouterAssumption
  <2> QED
    BY <1>1, <1>2, <1>3, <2>1 DEF EntryInv
<1>6. InUse' = {}
  BY <1>3 DEF InUse
<1>7. Counted'
  BY <1>1, <1>3, <1>6, FS_EmptySet DEF Counted
<1>8. PassTypes' /\ HangupIsReadable'
  BY <1>1 DEF RouterInv, RouterTypes, PassTypes, HangupIsReadable
<1> QED
  BY <1>4, <1>5, <1>7, <1>8 DEF RouterInv, RouterTypes

-----------------------------------------------------------------------------
(* The guests. *)

\* A guest reads the oldest message that it is due.
LEMMA GuestReadsInv == ASSUME RouterInv, NEW i \in Slots, GuestReads(i) PROVE RouterInv'
<1>1. EntryInv(i) /\ entry[i] \in Entries /\ entry[i].queue \in Seq(Msg) /\ SocketTypes
  BY DEF RouterInv, RouterTypes, Entries
<1>2. /\ peer[i] = "open" /\ down[i] # <<>>
      /\ down' = [down EXCEPT ![i] = Tail(down[i])] /\ due' = [due EXCEPT ![i] = Tail(due[i])]
      /\ UNCHANGED <<entry, guest_count, up, peer, dropped, call, at, pass>>
  BY DEF GuestReads
<1>3. Active(i) /\ down[i] \o entry[i].queue = due[i]
  BY <1>1, <1>2 DEF EntryInv
<1>4. down[i] \in Seq(Msg)
  BY <1>1 DEF SocketTypes
<1>5. ASSUME NEW d \in Seq(Msg), NEW q \in Seq(Msg), d # <<>>
      PROVE  Tail(d) \o q = Tail(d \o q) /\ Tail(d) \in Seq(Msg) /\ Tail(d \o q) \in Seq(Msg)
  BY <1>5, SocketToGuest
<1>6. /\ Tail(down[i]) \o entry[i].queue = Tail(due[i])
      /\ Tail(down[i]) \in Seq(Msg) /\ Tail(due[i]) \in Seq(Msg)
  BY <1>1, <1>2, <1>3, <1>4, <1>5
<1>7. /\ down' \in [Slots -> Seq(Msg)] /\ due' \in [Slots -> Seq(Msg)]
      /\ down'[i] = Tail(down[i]) /\ due'[i] = Tail(due[i])
      /\ \A j \in Slots : j # i => down'[j] = down[j] /\ due'[j] = due[j]
  BY <1>1, <1>2, <1>6 DEF SocketTypes
<1>8. Apart(i) /\ SocketTypes'
  BY <1>1, <1>2, <1>7 DEF Apart, SocketTypes
<1>9. EntryInv(i)'
  BY <1>1, <1>2, <1>3, <1>6, <1>7 DEF EntryInv, Active
<1>10. CallTypes' /\ PassTypes' /\ HangupIsReadable'
  BY <1>2 DEF RouterInv, RouterTypes, CallTypes, Active, PassTypes, HangupIsReadable
<1>11. entry' = [entry EXCEPT ![i] = entry[i]]
  BY <1>2 DEF RouterInv, RouterTypes
<1> QED
  BY <1>1, <1>8, <1>9, <1>10, <1>11, WithinEntry

\* A frame goes to the end of what the guest sent: the oldest one stays.
LEMMA GuestSendsInv ==
  ASSUME RouterInv, NEW i \in Slots, NEW f \in Frames, GuestSends(i, f)
  PROVE  RouterInv'
<1>1. EntryInv(i) /\ entry[i] \in Entries /\ SocketTypes
  BY DEF RouterInv, RouterTypes
<1>2. /\ up' = [up EXCEPT ![i] = Append(up[i], f)]
      /\ UNCHANGED <<entry, guest_count, down, peer, due, dropped, call, at, pass>>
  BY DEF GuestSends
<1>3. f \in Kinds /\ up[i] \in Seq(Kinds)
  BY <1>1, RouterAssumption DEF SocketTypes, Kinds
<1>4. /\ Append(up[i], f) \in Seq(Kinds)
      /\ up[i] # <<>> => Append(up[i], f) # <<>> /\ Head(Append(up[i], f)) = Head(up[i])
  <2>1. ASSUME NEW u \in Seq(Kinds), NEW x \in Kinds
        PROVE  /\ Append(u, x) \in Seq(Kinds) /\ Append(u, x) # <<>>
               /\ u # <<>> => Head(Append(u, x)) = Head(u)
    BY <2>1, AppendProperties, HeadTailAppend
  <2> QED
    BY <1>3, <2>1
<1>5. /\ up' \in [Slots -> Seq(Kinds)] /\ up'[i] = Append(up[i], f)
      /\ \A j \in Slots : j # i => up'[j] = up[j]
  BY <1>1, <1>2, <1>4 DEF SocketTypes
<1>6. Apart(i) /\ SocketTypes'
  BY <1>1, <1>2, <1>5 DEF Apart, SocketTypes
<1>7. EntryInv(i)'
  BY <1>1, <1>2, <1>4, <1>5 DEF EntryInv, Active
<1>8. CallTypes' /\ PassTypes' /\ HangupIsReadable'
  BY <1>2 DEF RouterInv, RouterTypes, CallTypes, Active, PassTypes, HangupIsReadable
<1>9. entry' = [entry EXCEPT ![i] = entry[i]]
  BY <1>2 DEF RouterInv, RouterTypes
<1> QED
  BY <1>1, <1>6, <1>7, <1>8, <1>9, WithinEntry

\* A guest that closes its end keeps the invariant.
LEMMA GuestHangsUpInv == ASSUME RouterInv, NEW i \in Slots, GuestHangsUp(i) PROVE RouterInv'
<1>1. EntryInv(i) /\ entry[i] \in Entries /\ SocketTypes
  BY DEF RouterInv, RouterTypes
<1>2. /\ peer[i] = "open"
      /\ peer' = [peer EXCEPT ![i] = IF down[i] = <<>> THEN "closed" ELSE "reset"]
      /\ down' = [down EXCEPT ![i] = <<>>] /\ due' = [due EXCEPT ![i] = <<>>]
      /\ UNCHANGED <<entry, guest_count, up, dropped, call, at, pass>>
  BY DEF GuestHangsUp
<1>3. Active(i)
  BY <1>1, <1>2 DEF EntryInv
<1>4. /\ SocketTypes' /\ peer'[i] # "open"
      /\ \A j \in Slots : j # i => down'[j] = down[j] /\ due'[j] = due[j] /\ peer'[j] = peer[j]
  BY <1>1, <1>2 DEF SocketTypes
<1>5. Apart(i)
  BY <1>2, <1>4 DEF Apart
<1>6. EntryInv(i)'
  BY <1>1, <1>2, <1>3, <1>4 DEF EntryInv, Active
<1>7. CallTypes' /\ PassTypes' /\ HangupIsReadable'
  BY <1>2 DEF RouterInv, RouterTypes, CallTypes, Active, PassTypes, HangupIsReadable
<1>8. entry' = [entry EXCEPT ![i] = entry[i]]
  BY <1>2 DEF RouterInv, RouterTypes
<1> QED
  BY <1>1, <1>4, <1>5, <1>6, <1>7, <1>8, WithinEntry

-----------------------------------------------------------------------------
(* The theorems. *)

\* A step that changes nothing keeps the invariant.
LEMMA StutterInv == ASSUME RouterInv, UNCHANGED vars PROVE RouterInv'
<1>1. UNCHANGED <<entry, guest_count, down, up, peer, due, dropped, call, at, pass>>
  BY DEF vars, guestVars
<1>2. 1 \in Slots
  BY RouterAssumption DEF Slots
<1>3. EntryInv(1) /\ entry[1] \in Entries /\ entry' = [entry EXCEPT ![1] = entry[1]]
  BY <1>1, <1>2 DEF RouterInv, RouterTypes
<1>4. EntryInv(1)'
  BY <1>1, <1>3 DEF EntryInv, Active
<1>5. Apart(1) /\ SocketTypes' /\ CallTypes' /\ PassTypes' /\ HangupIsReadable'
  BY <1>1 DEF RouterInv, RouterTypes, SocketTypes, CallTypes, Active, PassTypes, HangupIsReadable, Apart
<1> QED
  BY <1>2, <1>3, <1>4, <1>5, WithinEntry

\* Every step of the router and of its guests keeps the invariant.
LEMMA RouterNextInv == ASSUME RouterInv, [Next]_vars PROVE RouterInv'
<1>1. ASSUME NEW a \in Apps, Register(a) PROVE RouterInv'
  BY <1>1, RegisterInv
<1>2. ASSUME NEW i \in Slots, Unregister(i) PROVE RouterInv'
  BY <1>2, UnregisterInv
<1>3. ASSUME NEW i \in Slots, Flush(i) PROVE RouterInv'
  BY <1>3, CallInv DEF Flush
<1>4. ASSUME NEW i \in Slots, NEW bad \in Refused, Send(i, bad) PROVE RouterInv'
  BY <1>4, CallInv, RouterAssumption DEF Send, Live
<1>5. ASSUME NEW bad \in Refused, Broadcast(bad) PROVE RouterInv'
  BY <1>5, BroadcastInv, RouterAssumption
<1>6. CASE InCall
  BY <1>6, FlushOneInv, FlushStopsInv, FlushDoneInv, SendDirectInv DEF InCall
<1>7. CASE InPass
  BY <1>7, JudgeInv, ReceiveInv, ReceiveEndsInv DEF InPass
<1>8. CASE Poll \/ HandlerReturns \/ Destroy
  BY <1>8, PollInv, HandlerReturnsInv, DestroyInv
<1>9. ASSUME NEW i \in Slots, GuestReads(i) \/ GuestHangsUp(i) PROVE RouterInv'
  BY <1>9, GuestReadsInv, GuestHangsUpInv
<1>10. ASSUME NEW i \in Slots, NEW f \in Frames, GuestSends(i, f) PROVE RouterInv'
  BY <1>10, GuestSendsInv
<1>11. CASE UNCHANGED vars
  BY <1>11, StutterInv
<1> QED
  BY <1>1, <1>2, <1>3, <1>4, <1>5, <1>6, <1>7, <1>8, <1>9, <1>10, <1>11 DEF Next

\* The inductive invariant holds in every state of every behaviour.
THEOREM RouterInvariant == Spec => []RouterInv
<1>1. Init => RouterInv
  BY RouterInitInv
<1>2. RouterInv /\ [Next]_vars => RouterInv'
  BY RouterNextInv
<1> QED
  BY <1>1, <1>2, PTL DEF Spec

\* The rings stay within max_queue_depth, and the registration limit counts
\* exactly the entries in use, each for an application of its own
\* (ar_guest_router_register, ar_guest_router_unregister).
THEOREM RouterCounts == Spec => []RouterTypeOK
<1>1. RouterInv => RouterTypeOK
  <2> SUFFICES ASSUME RouterInv PROVE RouterTypeOK
    OBVIOUS
  <2>1. \A i \in Slots :
          /\ entry[i].app \in Apps \cup {NoApp} /\ entry[i].quarantined \in BOOLEAN
          /\ entry[i].queue \in Seq(Msg)
    BY DEF RouterInv, RouterTypes, Entries
  <2>2. \A i \in Slots : Len(entry[i].queue) <= QueueDepth
    BY DEF RouterInv, EntryInv
  <2>3. guest_count = Cardinality({i \in Slots : Active(i)})
    BY DEF RouterInv, Counted, InUse
  <2> QED
    BY <2>1, <2>2, <2>3 DEF RouterTypeOK, RouterInv, RouterTypes, PassTypes, Counted
<1> QED
  BY <1>1, RouterInvariant, PTL

\* No accepted message is lost, doubled or overtaken, through the ring, the
\* direct path, a broadcast or a dispatch pass (ar_guest_router_send,
\* flush_entry_queue).
THEOREM DeliveryInOrder == Spec => []AcceptedInOrder
<1>1. RouterInv => AcceptedInOrder
  BY DEF RouterInv, EntryInv, AcceptedInOrder
<1> QED
  BY <1>1, RouterInvariant, PTL

\* A guest is quarantined only for what it did itself, whatever the handler
\* does to the entries in the middle of a pass (ar_guest_router_dispatch).
THEOREM CutOffForCause == Spec => []QuarantinedForCause
<1>1. RouterInv => QuarantinedForCause
  BY DEF RouterInv, EntryInv, QuarantinedForCause
<1> QED
  BY <1>1, RouterInvariant, PTL

(***************************************************************************)
(* The handover of listening sockets                                       *)
(***************************************************************************)
Messages == [form : {"frame", "byte", "foreign"}, listener : Generations \cup {0}]

InsideLock == {"publish", "generation", "acquire", "tell", "take"}
Holding == {"flags", "received", "publish", "generation", "tell", "serve", "close"}
Places == {"idle"} \cup InsideLock \cup Holding

Types ==
    /\ table \in [Fds -> Generations \cup {0}]
    /\ wire \in Seq(Messages) /\ Len(wire) <= Room
    /\ route \in [active : Fds \cup {NoFd}, generation : Generations, initialized : BOOLEAN]
    /\ lock \subseteq Threads
    /\ pc \in [Threads -> Places]
    /\ held \in [Threads -> Fds \cup {NoFd}]
    /\ got \in [Threads -> Generations \cup {0}]
    /\ leaked \subseteq Fds

\* One thread at a time is inside, and it is the one that set the flag.
LockInv ==
    /\ \A t \in Threads : t \in lock <=> pc[t] \in InsideLock
    /\ \A t, u \in lock : t = u

\* Who owns which descriptor.
OwnerInv ==
    /\ \A t \in Threads : held[t] # NoFd <=> pc[t] \in Holding
    /\ route.initialized <=> route.active # NoFd
    /\ \A t, u \in Threads : held[t] = held[u] /\ held[t] # NoFd => t = u
    /\ \A t \in Threads : held[t] # NoFd => held[t] # route.active /\ held[t] \notin leaked
    /\ route.active \notin leaked
    /\ \A f \in Fds : table[f] # 0 <=> \/ \E t \in Threads : held[t] = f
                                       \/ route.active = f
                                       \/ f \in leaked

\* Which listener a descriptor refers to: between the swap of the descriptors
\* and the write of the generation the route's are those of two listeners,
\* and the lock keeps the acceptors from seeing it.
ListenerInv ==
    /\ \A t \in Threads : pc[t] \in {"flags", "received", "publish", "serve"} =>
                            table[held[t]] = got[t]
    /\ \A t \in Threads : pc[t] = "generation" =>
                            route.initialized /\ table[route.active] = got[t]
    /\ \A t \in Threads : pc[t] = "tell" => table[held[t]] = route.generation
    /\ route.initialized /\ (\A t \in Threads : pc[t] # "generation") =>
                            table[route.active] = route.generation

HandoverInv == Types /\ LockInv /\ OwnerInv /\ ListenerInv

-----------------------------------------------------------------------------
(* Descriptors. *)

\* A set of descriptors has a lowest one.
LEMMA LowestFdIs ==
  ASSUME NEW S \in SUBSET Fds, S # {}
  PROVE  LowestFd(S) \in S /\ \A g \in S : LowestFd(S) <= g
<1> DEFINE R == OpToRel(<, Nat)
<1>1. IsWellFoundedOn(R, Nat)
  BY NatLessThanWellFounded
<1>2. R = {x \in Nat \X Nat : x[1] < x[2]}
  BY DEF OpToRel
<1>3. S \in SUBSET Nat
  BY HandoverAssumption
<1> HIDE DEF R
<1>4. PICK m \in S : \A n \in S : ~(<<n, m>> \in R)
  BY <1>1, <1>3, WFMin
<1>5. ASSUME NEW n \in S, n < m PROVE FALSE
  <2>1. <<n, m>> \in Nat \X Nat /\ <<n, m>>[1] < <<n, m>>[2]
    BY <1>3, <1>5
  <2>2. <<n, m>> \in R
    BY <1>2, <2>1, Zenon
  <2> QED
    BY <1>4, <2>2
<1>6. \A n \in S : m <= n
  BY <1>3, <1>5
<1> QED
  BY <1>6 DEF LowestFd

\* A free descriptor belongs to nobody.
LEMMA FreeIsUnowned ==
  ASSUME HandoverInv, OpenFds # Fds, NEW f, f = LowestFd(Fds \ OpenFds)
  PROVE  /\ f \in Fds /\ f # NoFd /\ table[f] = 0 /\ f # route.active /\ f \notin leaked
         /\ \A t \in Threads : held[t] # f
<1>1. f \in Fds \ OpenFds
  <2>1. Fds \ OpenFds \in SUBSET Fds /\ Fds \ OpenFds # {}
    BY DEF OpenFds
  <2> QED
    BY <2>1, LowestFdIs
<1>2. f \in Fds /\ table[f] = 0
  BY <1>1 DEF OpenFds
<1> QED
  BY <1>2, HandoverAssumption DEF HandoverInv, OwnerInv

\* A thread with nothing in its hands becomes the owner of a free descriptor.
LEMMA NewOwner ==
  ASSUME HandoverInv, NEW t \in Threads, NEW f \in Fds, NEW g, g # 0, NEW place \in Holding,
         held[t] = NoFd, f # NoFd, f # route.active, f \notin leaked, \A u \in Threads : held[u] # f,
         table' = [table EXCEPT ![f] = g], held' = [held EXCEPT ![t] = f],
         pc' = [pc EXCEPT ![t] = place], UNCHANGED <<route, leaked>>
  PROVE  OwnerInv'
<1>1. Types /\ OwnerInv
  BY DEF HandoverInv
<1>2. /\ \A x \in Fds : table'[x] = IF x = f THEN g ELSE table[x]
      /\ \A u \in Threads : held'[u] = IF u = t THEN f ELSE held[u]
      /\ \A u \in Threads : pc'[u] = IF u = t THEN place ELSE pc[u]
  BY <1>1 DEF Types
<1>3. \A u \in Threads : held'[u] # NoFd <=> pc'[u] \in Holding
  BY <1>1, <1>2 DEF OwnerInv
<1>4. ASSUME NEW x \in Fds
      PROVE  table'[x] # 0 <=> \/ \E u \in Threads : held'[u] = x
                               \/ route'.active = x
                               \/ x \in leaked'
  <2>1. x # NoFd
    BY HandoverAssumption
  <2>2. CASE x = f
    BY <1>2, <2>2
  <2>3. CASE x # f
    <3>1. (\E u \in Threads : held'[u] = x) <=> \E u \in Threads : held[u] = x
      BY <1>2, <2>1, <2>3
    <3> QED
      BY <1>1, <1>2, <2>3, <3>1 DEF OwnerInv
  <2> QED
    BY <2>2, <2>3
<1> QED
  BY <1>1, <1>2, <1>3, <1>4 DEF OwnerInv

-----------------------------------------------------------------------------
(* The steps. *)

\* The peer's side of the socket.
LEMMA PeerSendsInv == ASSUME HandoverInv, PeerSends \/ PeerSendsNone PROVE HandoverInv'
<1>1. /\ UNCHANGED <<table, route, lock, pc, held, got, leaked>> /\ Len(wire) < Room
      /\ \E m \in Messages : wire' = Append(wire, m)
  BY DEF PeerSends, PeerSendsNone, Messages
<1>2. wire' \in Seq(Messages) /\ Len(wire') <= Room
  <2>1. PICK m \in Messages : wire' = Append(wire, m)
    BY <1>1
  <2>2. wire \in Seq(Messages) /\ Len(wire) \in Nat
    BY LenProperties DEF HandoverInv, Types
  <2>3. wire' \in Seq(Messages) /\ Len(wire') = Len(wire) + 1
    BY <2>1, <2>2, AppendProperties
  <2> QED
    BY <1>1, <2>2, <2>3, HandoverAssumption
<1> QED
  BY <1>1, <1>2 DEF HandoverInv, Types, LockInv, OwnerInv, ListenerInv

\* A message that is taken from the socket.
LEMMA TakenFromWire ==
  ASSUME HandoverInv, wire # <<>>, wire' = Tail(wire)
  PROVE  /\ wire' \in Seq(Messages) /\ Len(wire') <= Room
         /\ Head(wire).listener \in Generations \cup {0}
<1>1. wire \in Seq(Messages) /\ Len(wire) \in Nat /\ Len(wire) <= Room
  BY LenProperties DEF HandoverInv, Types
<1>2. Head(wire) \in Messages /\ Tail(wire) \in Seq(Messages) /\ Len(Tail(wire)) = Len(wire) - 1
  BY <1>1, HeadTailProperties
<1> QED
  BY <1>1, <1>2, HandoverAssumption DEF Messages

\* recvmsg installs the listener in a free descriptor, and the thread owns
\* it, or nobody does after a message that is refused.
LEMMA ReceivesInv == ASSUME HandoverInv, NEW t \in Threads, Receives(t) PROVE HandoverInv'
<1>1. pc[t] = "idle" /\ wire # <<>> /\ wire' = Tail(wire) /\ UNCHANGED <<route, lock>>
  BY DEF Receives
<1>2. wire' \in Seq(Messages) /\ Len(wire') <= Room /\ Head(wire).listener \in Generations \cup {0}
  BY <1>1, TakenFromWire
<1>3. PICK m, fd : m = Head(wire) /\ fd = Installed(m.listener)
  OBVIOUS
<1>4. table' = IF fd = NoFd THEN table ELSE [table EXCEPT ![fd] = m.listener]
  BY <1>3 DEF Receives
<1>5. fd # NoFd => /\ fd \in Fds /\ table[fd] = 0 /\ fd # route.active /\ fd \notin leaked
                   /\ \A u \in Threads : held[u] # fd
                   /\ m.listener \in Generations /\ m.listener # 0
  <2> SUFFICES ASSUME fd # NoFd
               PROVE  /\ fd \in Fds /\ table[fd] = 0 /\ fd # route.active /\ fd \notin leaked
                      /\ \A u \in Threads : held[u] # fd
                      /\ m.listener \in Generations /\ m.listener # 0
    OBVIOUS
  <2>1. m.listener # 0 /\ OpenFds # Fds /\ fd = LowestFd(Fds \ OpenFds)
    BY <1>3 DEF Installed
  <2> QED
    BY <1>2, <1>3, <2>1, FreeIsUnowned
<1>6. Types /\ LockInv /\ OwnerInv /\ ListenerInv
  BY DEF HandoverInv
<1>7. held[t] = NoFd
  BY <1>1, <1>6 DEF OwnerInv, Holding
<1>8. CASE /\ fd # NoFd /\ held' = [held EXCEPT ![t] = fd] /\ got' = [got EXCEPT ![t] = m.listener]
           /\ UNCHANGED leaked
           /\ \E place \in {"flags", "received"} : pc' = [pc EXCEPT ![t] = place]
  <2>1. PICK place \in {"flags", "received"} : pc' = [pc EXCEPT ![t] = place]
    BY <1>8
  <2>2. table' = [table EXCEPT ![fd] = m.listener]
    BY <1>4, <1>8
  <2>3. Types'
    BY <1>1, <1>2, <1>5, <1>6, <1>8, <2>1, <2>2 DEF Types, Places, Holding, InsideLock
  <2>4. LockInv'
    BY <1>1, <1>6, <1>8, <2>1 DEF Types, LockInv, InsideLock
  <2>5. OwnerInv'
    BY <1>1, <1>5, <1>6, <1>7, <1>8, <2>1, <2>2, NewOwner DEF Types, Holding
  <2>6. ListenerInv'
    BY <1>1, <1>5, <1>6, <1>7, <1>8, <2>1, <2>2 DEF Types, OwnerInv, ListenerInv, Holding
  <2> QED
    BY <2>3, <2>4, <2>5, <2>6 DEF HandoverInv
<1>9. CASE leaked' = leaked \cup ({fd} \ {NoFd}) /\ UNCHANGED <<pc, held, got>>
  <2>1. Types'
    BY <1>1, <1>2, <1>4, <1>5, <1>6, <1>9 DEF Types
  <2>2. LockInv'
    BY <1>1, <1>6, <1>9 DEF LockInv
  <2>3. OwnerInv'
    BY <1>1, <1>4, <1>5, <1>6, <1>9 DEF Types, OwnerInv
  <2>4. ListenerInv'
    BY <1>1, <1>4, <1>5, <1>6, <1>9 DEF Types, OwnerInv, ListenerInv, Holding
  <2> QED
    BY <2>1, <2>2, <2>3, <2>4 DEF HandoverInv
<1> QED
  BY <1>3, <1>8, <1>9 DEF Receives, FrameAccepted, Go

\* A thread closes the descriptor that it owns.
LEMMA ClosesInv ==
  ASSUME HandoverInv, NEW t \in Threads, pc[t] \in {"flags", "close", "serve"}, Closes(t), Go(t, "idle"),
         UNCHANGED <<wire, route, lock, got, leaked>>
  PROVE  HandoverInv'
<1>1. /\ table' = [table EXCEPT ![held[t]] = 0] /\ held' = [held EXCEPT ![t] = NoFd]
      /\ pc' = [pc EXCEPT ![t] = "idle"]
  BY DEF Closes, Go
<1>2. Types /\ LockInv /\ OwnerInv /\ ListenerInv
  BY DEF HandoverInv
<1>3. held[t] \in Fds /\ held[t] # NoFd
  BY <1>2 DEF Types, OwnerInv, Holding
<1>4. Types'
  BY <1>1, <1>2, <1>3 DEF Types, Places
<1>5. LockInv'
  BY <1>1, <1>2 DEF Types, LockInv, InsideLock
<1>6. OwnerInv'
  <2>1. /\ \A f \in Fds : table'[f] = IF f = held[t] THEN 0 ELSE table[f]
        /\ \A u \in Threads : held'[u] = IF u = t THEN NoFd ELSE held[u]
        /\ \A u \in Threads : pc'[u] = IF u = t THEN "idle" ELSE pc[u]
    BY <1>1, <1>2 DEF Types
  <2>2. \A u \in Threads : held'[u] # NoFd <=> pc'[u] \in Holding
    BY <1>2, <2>1 DEF OwnerInv, Holding
  <2>3. ASSUME NEW f \in Fds
        PROVE  table'[f] # 0 <=> \/ \E u \in Threads : held'[u] = f
                                 \/ route'.active = f
                                 \/ f \in leaked'
    <3>1. f # NoFd
      BY HandoverAssumption
    <3>2. CASE f = held[t]
      BY <1>2, <1>3, <2>1, <3>1, <3>2 DEF OwnerInv
    <3>3. CASE f # held[t]
      BY <1>2, <2>1, <3>1, <3>3 DEF OwnerInv
    <3> QED
      BY <3>2, <3>3
  <2> QED
    BY <1>2, <2>1, <2>2, <2>3 DEF OwnerInv
<1>7. ListenerInv'
  BY <1>1, <1>2, <1>3 DEF Types, OwnerInv, ListenerInv, Holding
<1> QED
  BY <1>4, <1>5, <1>6, <1>7 DEF HandoverInv

\* A thread that goes from one place to another without a change of owner.
LEMMA SetsFlagsInv == ASSUME HandoverInv, NEW t \in Threads, SetsFlags(t) PROVE HandoverInv'
<1>1. CASE Go(t, "idle") /\ Closes(t)
  BY <1>1, ClosesInv DEF SetsFlags
<1>2. CASE Go(t, "received") /\ UNCHANGED <<table, held>>
  <2>1. /\ pc[t] = "flags" /\ pc' = [pc EXCEPT ![t] = "received"]
        /\ UNCHANGED <<table, held, wire, route, lock, got, leaked>>
    BY <1>2 DEF SetsFlags, Go
  <2>2. Types'
    BY <2>1 DEF HandoverInv, Types, Places, Holding, InsideLock
  <2>3. LockInv'
    BY <2>1 DEF HandoverInv, Types, LockInv, InsideLock
  <2>4. OwnerInv'
    BY <2>1 DEF HandoverInv, Types, OwnerInv, Holding
  <2>5. ListenerInv'
    BY <2>1 DEF HandoverInv, Types, ListenerInv
  <2> QED
    BY <2>2, <2>3, <2>4, <2>5 DEF HandoverInv
<1> QED
  BY <1>1, <1>2 DEF SetsFlags

\* The flag was clear: nobody was inside, now the thread is.
LEMMA LocksInv ==
  ASSUME HandoverInv, NEW t \in Threads, NEW from, NEW to, Locks(t, from, to),
         <<from, to>> \in {<<"received", "publish">>, <<"idle", "acquire">>, <<"idle", "take">>}
  PROVE  HandoverInv'
<1>1. /\ pc[t] = from /\ lock = {} /\ lock' = {t} /\ pc' = [pc EXCEPT ![t] = to]
      /\ UNCHANGED <<table, wire, route, held, got, leaked>>
  BY DEF Locks, LockFree, Go
<1>2. \/ from = "received" /\ to = "publish"
      \/ from = "idle" /\ to = "acquire"
      \/ from = "idle" /\ to = "take"
  OBVIOUS
<1>3. Types'
  BY <1>1, <1>2 DEF HandoverInv, Types, Places, Holding, InsideLock
<1>4. LockInv'
  BY <1>1, <1>2 DEF HandoverInv, Types, LockInv, InsideLock
<1>5. OwnerInv'
  BY <1>1, <1>2 DEF HandoverInv, Types, OwnerInv, Holding
<1>6. ListenerInv'
  BY <1>1, <1>2 DEF HandoverInv, Types, ListenerInv
<1> QED
  BY <1>3, <1>4, <1>5, <1>6 DEF HandoverInv

\* The thread that is inside is the only one.
LEMMA AloneInside ==
  ASSUME HandoverInv, NEW t \in Threads, pc[t] \in InsideLock
  PROVE  lock = {t} /\ \A u \in Threads : pc[u] \in InsideLock => u = t
<1>1. t \in lock /\ \A u \in Threads : u \in lock <=> pc[u] \in InsideLock
  BY DEF HandoverInv, LockInv
<1>2. \A u \in lock : u = t
  BY <1>1 DEF HandoverInv, LockInv
<1> QED
  BY <1>1, <1>2

\* The listener changes hands, and until the generation is written no other
\* thread is inside.
LEMMA PublishSwapsInv == ASSUME HandoverInv, NEW t \in Threads, PublishSwaps(t) PROVE HandoverInv'
<1>1. pc[t] = "publish" /\ UNCHANGED <<table, wire, got, leaked>>
  BY DEF PublishSwaps
<1>2. Types /\ LockInv /\ OwnerInv /\ ListenerInv
  BY DEF HandoverInv
<1>3. lock = {t} /\ \A u \in Threads : pc[u] \in InsideLock => u = t
  BY <1>1, AloneInside DEF InsideLock
<1>4. held[t] \in Fds /\ held[t] # NoFd /\ table[held[t]] = got[t]
  BY <1>1, <1>2 DEF Types, OwnerInv, ListenerInv, Holding
<1>5. CASE ~route.initialized /\ lock' = lock \ {t} /\ pc' = [pc EXCEPT ![t] = "close"] /\ UNCHANGED <<route, held>>
  <2>1. Types'
    BY <1>1, <1>2, <1>5 DEF Types, Places, Holding
  <2>2. LockInv'
    BY <1>1, <1>2, <1>3, <1>5 DEF Types, LockInv, InsideLock
  <2>3. OwnerInv'
    BY <1>1, <1>2, <1>5 DEF Types, OwnerInv, Holding
  <2>4. ListenerInv'
    BY <1>1, <1>2, <1>5 DEF Types, ListenerInv
  <2> QED
    BY <2>1, <2>2, <2>3, <2>4 DEF HandoverInv
<1>6. CASE /\ route.initialized /\ route' = [route EXCEPT !.active = held[t]]
           /\ held' = [held EXCEPT ![t] = route.active] /\ pc' = [pc EXCEPT ![t] = "generation"]
           /\ UNCHANGED lock
  <2>1. /\ route'.active = held[t] /\ route'.initialized = route.initialized
        /\ route'.generation = route.generation
        /\ route' \in [active : Fds \cup {NoFd}, generation : Generations, initialized : BOOLEAN]
    BY <1>2, <1>4, <1>6 DEF Types
  <2>2. route.active \in Fds /\ route.active # NoFd
    BY <1>2, <1>6 DEF Types, OwnerInv
  <2>3. Types'
    BY <1>1, <1>2, <1>6, <2>1 DEF Types, Places, Holding
  <2>4. LockInv'
    BY <1>1, <1>2, <1>6 DEF Types, LockInv, InsideLock
  <2>5. OwnerInv'
    BY <1>1, <1>2, <1>4, <1>6, <2>1, <2>2 DEF Types, OwnerInv, Holding
  <2>6. ListenerInv'
    BY <1>1, <1>2, <1>3, <1>4, <1>6, <2>1, <2>2 DEF Types, ListenerInv, InsideLock
  <2> QED
    BY <2>3, <2>4, <2>5, <2>6 DEF HandoverInv
<1> QED
  BY <1>5, <1>6 DEF PublishSwaps, Go

\* The generation follows the descriptor.
LEMMA PublishEndsInv == ASSUME HandoverInv, NEW t \in Threads, PublishEnds(t) PROVE HandoverInv'
<1>1. /\ pc[t] = "generation" /\ route' = [route EXCEPT !.generation = got[t]] /\ lock' = lock \ {t}
      /\ pc' = [pc EXCEPT ![t] = "close"] /\ UNCHANGED <<table, wire, held, got, leaked>>
  BY DEF PublishEnds, Go
<1>2. Types /\ LockInv /\ OwnerInv /\ ListenerInv
  BY DEF HandoverInv
<1>3. lock = {t} /\ \A u \in Threads : pc[u] \in InsideLock => u = t
  BY <1>1, AloneInside DEF InsideLock
<1>4. route.initialized /\ table[route.active] = got[t] /\ route.active \in Fds /\ table[route.active] # 0
  BY <1>1, <1>2 DEF Types, OwnerInv, ListenerInv
<1>5. got[t] \in Generations
  BY <1>2, <1>4 DEF Types
<1>6. /\ route'.active = route.active /\ route'.initialized = route.initialized
      /\ route'.generation = got[t]
      /\ route' \in [active : Fds \cup {NoFd}, generation : Generations, initialized : BOOLEAN]
  BY <1>1, <1>2, <1>5 DEF Types
<1>7. Types'
  BY <1>1, <1>2, <1>6 DEF Types, Places, Holding
<1>8. LockInv'
  BY <1>1, <1>2, <1>3 DEF Types, LockInv, InsideLock
<1>9. OwnerInv'
  BY <1>1, <1>2, <1>6 DEF Types, OwnerInv, Holding
<1>10. ListenerInv'
  BY <1>1, <1>2, <1>3, <1>4, <1>6 DEF Types, ListenerInv, InsideLock
<1> QED
  BY <1>7, <1>8, <1>9, <1>10 DEF HandoverInv

\* The duplicate is a descriptor of the acceptor's own.
LEMMA AcquireDupsInv == ASSUME HandoverInv, NEW t \in Threads, AcquireDups(t) PROVE HandoverInv'
<1>1. pc[t] = "acquire" /\ UNCHANGED <<wire, route, got, leaked>>
  BY DEF AcquireDups
<1>2. Types /\ LockInv /\ OwnerInv /\ ListenerInv
  BY DEF HandoverInv
<1>3. lock = {t} /\ \A u \in Threads : pc[u] \in InsideLock => u = t
  BY <1>1, AloneInside DEF InsideLock
<1>4. held[t] = NoFd
  BY <1>1, <1>2 DEF OwnerInv, Holding
<1>5. CASE lock' = lock \ {t} /\ pc' = [pc EXCEPT ![t] = "idle"] /\ UNCHANGED <<table, held>>
  <2>1. Types'
    BY <1>1, <1>2, <1>5 DEF Types, Places, Holding
  <2>2. LockInv'
    BY <1>1, <1>2, <1>3, <1>5 DEF Types, LockInv, InsideLock
  <2>3. OwnerInv'
    BY <1>1, <1>2, <1>5 DEF Types, OwnerInv, Holding
  <2>4. ListenerInv'
    BY <1>1, <1>2, <1>5 DEF Types, ListenerInv
  <2> QED
    BY <2>1, <2>2, <2>3, <2>4 DEF HandoverInv
<1>6. CASE /\ route.initialized /\ OpenFds # Fds /\ table' = Duplicate.table
           /\ held' = [held EXCEPT ![t] = Duplicate.to] /\ pc' = [pc EXCEPT ![t] = "tell"]
           /\ UNCHANGED lock
  <2>1. PICK f : f = LowestFd(Fds \ OpenFds)
    OBVIOUS
  <2>2. /\ f \in Fds /\ f # NoFd /\ table[f] = 0 /\ f # route.active /\ f \notin leaked
        /\ \A u \in Threads : held[u] # f
    BY <1>6, <2>1, FreeIsUnowned
  <2>3. route.active \in Fds /\ route.active # NoFd /\ table[route.active] # 0
    BY <1>2, <1>6 DEF Types, OwnerInv
  <2>4. table[route.active] = route.generation
    BY <1>1, <1>2, <1>3, <1>6 DEF ListenerInv, InsideLock
  <2>5. table' = [table EXCEPT ![f] = table[route.active]] /\ held' = [held EXCEPT ![t] = f]
    BY <1>6, <2>1 DEF Duplicate
  <2>6. Types'
    BY <1>1, <1>2, <1>6, <2>2, <2>3, <2>5 DEF Types, Places, Holding, InsideLock
  <2>7. LockInv'
    BY <1>1, <1>2, <1>6 DEF Types, LockInv, InsideLock
  <2>8. OwnerInv'
    BY <1>1, <1>2, <1>4, <1>6, <2>2, <2>3, <2>5, NewOwner DEF Types, Holding
  <2>9. ListenerInv'
    BY <1>1, <1>2, <1>3, <1>6, <2>2, <2>3, <2>4, <2>5 DEF Types, OwnerInv, ListenerInv, InsideLock, Holding
  <2> QED
    BY <2>6, <2>7, <2>8, <2>9 DEF HandoverInv
<1> QED
  BY <1>5, <1>6 DEF AcquireDups, Go

\* The acceptor is told the generation of its duplicate.
LEMMA AcquireTellsInv == ASSUME HandoverInv, NEW t \in Threads, AcquireTells(t) PROVE HandoverInv'
<1>1. /\ pc[t] = "tell" /\ got' = [got EXCEPT ![t] = route.generation] /\ lock' = lock \ {t}
      /\ pc' = [pc EXCEPT ![t] = "serve"] /\ UNCHANGED <<table, wire, route, held, leaked>>
  BY DEF AcquireTells, Go
<1>2. Types /\ LockInv /\ OwnerInv /\ ListenerInv
  BY DEF HandoverInv
<1>3. lock = {t}
  BY <1>1, AloneInside DEF InsideLock
<1>4. Types'
  BY <1>1, <1>2 DEF Types, Places, Holding
<1>5. LockInv'
  BY <1>1, <1>2, <1>3 DEF Types, LockInv, InsideLock
<1>6. OwnerInv'
  BY <1>1, <1>2 DEF Types, OwnerInv, Holding
<1>7. ListenerInv'
  BY <1>1, <1>2 DEF Types, ListenerInv
<1> QED
  BY <1>4, <1>5, <1>6, <1>7 DEF HandoverInv

\* The listener leaves the route.
LEMMA TakesInv == ASSUME HandoverInv, NEW t \in Threads, Takes(t) PROVE HandoverInv'
<1>1. pc[t] = "take" /\ lock' = lock \ {t} /\ UNCHANGED <<table, wire, got, leaked>>
  BY DEF Takes
<1>2. Types /\ LockInv /\ OwnerInv /\ ListenerInv
  BY DEF HandoverInv
<1>3. lock = {t} /\ \A u \in Threads : pc[u] \in InsideLock => u = t
  BY <1>1, AloneInside DEF InsideLock
<1>4. held[t] = NoFd
  BY <1>1, <1>2 DEF OwnerInv, Holding
<1>5. CASE ~route.initialized /\ pc' = [pc EXCEPT ![t] = "idle"] /\ UNCHANGED <<held, route>>
  <2>1. Types'
    BY <1>1, <1>2, <1>5 DEF Types, Places
  <2>2. LockInv'
    BY <1>1, <1>2, <1>3, <1>5 DEF Types, LockInv, InsideLock
  <2>3. OwnerInv'
    BY <1>1, <1>2, <1>5 DEF Types, OwnerInv, Holding
  <2>4. ListenerInv'
    BY <1>1, <1>2, <1>5 DEF Types, ListenerInv
  <2> QED
    BY <2>1, <2>2, <2>3, <2>4 DEF HandoverInv
<1>6. CASE /\ route.initialized /\ held' = [held EXCEPT ![t] = route.active]
           /\ route' = [route EXCEPT !.active = NoFd, !.initialized = FALSE]
           /\ pc' = [pc EXCEPT ![t] = "close"]
  <2>1. /\ route'.active = NoFd /\ route'.initialized = FALSE /\ route'.generation = route.generation
        /\ route' \in [active : Fds \cup {NoFd}, generation : Generations, initialized : BOOLEAN]
    BY <1>2, <1>6 DEF Types
  <2>2. route.active \in Fds /\ route.active # NoFd
    BY <1>2, <1>6 DEF Types, OwnerInv
  <2>3. NoFd \notin Fds
    BY HandoverAssumption
  <2>4. Types'
    BY <1>1, <1>2, <1>6, <2>1 DEF Types, Places, Holding
  <2>5. LockInv'
    BY <1>1, <1>2, <1>3, <1>6 DEF Types, LockInv, InsideLock
  <2>6. OwnerInv'
    BY <1>1, <1>2, <1>4, <1>6, <2>1, <2>2, <2>3 DEF Types, OwnerInv, Holding
  <2>7. ListenerInv'
    BY <1>1, <1>2, <1>3, <1>6, <2>1 DEF Types, ListenerInv, InsideLock
  <2> QED
    BY <2>4, <2>5, <2>6, <2>7 DEF HandoverInv
<1> QED
  BY <1>5, <1>6 DEF Takes, Go

\* At first the route owns the only open descriptor.
LEMMA HandoverInitInv == HandoverInit => HandoverInv
<1> SUFFICES ASSUME HandoverInit PROVE HandoverInv
  OBVIOUS
<1>1. PICK f \in Fds : f = LowestFd(Fds) /\ \A g \in Fds : f <= g
  BY LowestFdIs, HandoverAssumption
<1>2. \A f2 \in Fds : (\A g \in Fds : f2 <= g) <=> f2 = f
  BY <1>1, HandoverAssumption
<1>3. table = [x \in Fds |-> IF x = f THEN First ELSE 0]
  BY <1>2 DEF HandoverInit
<1>4. route = [active |-> f, generation |-> First, initialized |-> TRUE]
  BY <1>1 DEF HandoverInit, LowestFd
<1>5. /\ wire = <<>> /\ lock = {} /\ pc = [t \in Threads |-> "idle"]
      /\ held = [t \in Threads |-> NoFd] /\ got = [t \in Threads |-> 0] /\ leaked = {}
  BY DEF HandoverInit
<1>6. Types
  <2>1. <<>> \in Seq(Messages) /\ Len(<<>>) = 0 /\ 0 <= Room
    BY EmptySeq, HandoverAssumption
  <2> QED
    BY <1>3, <1>4, <1>5, <2>1, HandoverAssumption DEF Types, Places
<1>7. LockInv
  BY <1>5 DEF LockInv, InsideLock
<1>8. OwnerInv
  BY <1>1, <1>3, <1>4, <1>5, HandoverAssumption DEF OwnerInv, Holding
<1>9. ListenerInv
  BY <1>3, <1>4, <1>5 DEF ListenerInv
<1> QED
  BY <1>6, <1>7, <1>8, <1>9 DEF HandoverInv

\* Every step of the peer and of the threads keeps the invariant.
LEMMA HandoverNextInv == HandoverInv /\ [HandoverNext]_handoverVars => HandoverInv'
<1> SUFFICES ASSUME HandoverInv, [HandoverNext]_handoverVars PROVE HandoverInv'
  OBVIOUS
<1>1. CASE UNCHANGED handoverVars
  BY <1>1 DEF handoverVars, HandoverInv, Types, LockInv, OwnerInv, ListenerInv
<1>2. CASE PeerSends \/ PeerSendsNone
  BY <1>2, PeerSendsInv
<1>3. ASSUME NEW t \in Publishers, PublisherStep(t) PROVE HandoverInv'
  <2>1. t \in Threads
    BY DEF Threads
  <2>2. CASE Locks(t, "received", "publish")
    BY <2>1, <2>2, LocksInv
  <2> QED
    BY <1>3, <2>1, <2>2, ReceivesInv, SetsFlagsInv, PublishSwapsInv, PublishEndsInv DEF PublisherStep
<1>4. ASSUME NEW t \in Acceptors, AcceptorStep(t) PROVE HandoverInv'
  <2>1. t \in Threads
    BY DEF Threads
  <2>2. CASE Locks(t, "idle", "acquire")
    BY <2>1, <2>2, LocksInv
  <2> QED
    BY <1>4, <2>1, <2>2, AcquireDupsInv, AcquireTellsInv DEF AcceptorStep
<1>5. CASE TakerStep(Taker)
  <2>1. Taker \in Threads
    BY DEF Threads
  <2>2. CASE Locks(Taker, "idle", "take")
    BY <2>1, <2>2, LocksInv
  <2> QED
    BY <1>5, <2>1, <2>2, TakesInv DEF TakerStep
<1>6. ASSUME NEW t \in Threads, ThreadCloses(t) PROVE HandoverInv'
  BY <1>6, ClosesInv DEF ThreadCloses
<1> QED
  BY <1>1, <1>2, <1>3, <1>4, <1>5, <1>6 DEF HandoverNext

\* The invariant that the results below rest on.
THEOREM HandoverInvariant == HandoverSpec => []HandoverInv
<1> QED
  BY HandoverInitInv, HandoverNextInv, PTL DEF HandoverSpec

\* Disjoint sets are counted one after the other.
LEMMA DisjointUnion ==
  ASSUME NEW S, NEW T, IsFiniteSet(S), IsFiniteSet(T), S \cap T = {}
  PROVE  IsFiniteSet(S \cup T) /\ Cardinality(S \cup T) = Cardinality(S) + Cardinality(T)
<1>1. Cardinality(S) \in Nat /\ Cardinality(T) \in Nat /\ Cardinality(S \cap T) = 0
  BY FS_CardinalityType, FS_EmptySet
<1>2. /\ IsFiniteSet(S \cup T)
      /\ Cardinality(S \cup T) = Cardinality(S) + Cardinality(T) - Cardinality(S \cap T)
  BY FS_Union
<1> QED
  BY <1>1, <1>2

\* As many descriptors are open as there are owners.
LEMMA OwnersCounted ==
  ASSUME HandoverInv
  PROVE  LET ofThreads == {held[t] : t \in Threads} \ {NoFd}
             ofRoute == {route.active} \ {NoFd}
         IN  /\ OpenFds = ofThreads \cup ofRoute \cup leaked
             /\ Cardinality(OpenFds) = Cardinality({t \in Threads : held[t] # NoFd})
                                         + Cardinality(ofRoute) + Cardinality(leaked)
<1> DEFINE ofThreads == {held[t] : t \in Threads} \ {NoFd}
           ofRoute == {route.active} \ {NoFd}
           holders == {t \in Threads : held[t] # NoFd}
           h == [t \in holders |-> held[t]]
<1>1. Types /\ OwnerInv /\ NoFd \notin Fds /\ IsFiniteSet(Fds)
  BY HandoverAssumption DEF HandoverInv
<1>2. OpenFds = ofThreads \cup ofRoute \cup leaked
  BY <1>1 DEF Types, OwnerInv, OpenFds
<1>3. ofThreads \subseteq Fds /\ ofRoute \subseteq Fds /\ leaked \subseteq Fds
  BY <1>1 DEF Types
<1>4. IsFiniteSet(ofThreads) /\ IsFiniteSet(ofRoute) /\ IsFiniteSet(leaked)
  BY <1>1, <1>3, FS_Subset
<1>5. ofThreads \cap ofRoute = {} /\ (ofThreads \cup ofRoute) \cap leaked = {}
  BY <1>1 DEF OwnerInv
<1>6. h \in Injection(holders, ofThreads) /\ h \in Surjection(holders, ofThreads)
  <2>1. h \in [holders -> ofThreads]
    OBVIOUS
  <2>2. \A t, u \in holders : h[t] = h[u] => t = u
    BY <1>1 DEF OwnerInv
  <2>3. \A f \in ofThreads : \E t \in holders : h[t] = f
    OBVIOUS
  <2> QED
    BY <2>1, <2>2, <2>3 DEF Injection, IsInjective, Surjection
<1>7. Cardinality(holders) = Cardinality(ofThreads)
  <2> HIDE DEF ofThreads, holders, h
  <2> QED
    BY <1>4, <1>6, FS_Injection
<1> HIDE DEF ofThreads, ofRoute, holders, h
<1>8. /\ IsFiniteSet(ofThreads \cup ofRoute)
      /\ Cardinality(ofThreads \cup ofRoute) = Cardinality(ofThreads) + Cardinality(ofRoute)
  BY <1>4, <1>5, DisjointUnion
<1>9. Cardinality((ofThreads \cup ofRoute) \cup leaked)
        = Cardinality(ofThreads \cup ofRoute) + Cardinality(leaked)
  BY <1>4, <1>5, <1>8, DisjointUnion
<1> QED
  BY <1>2, <1>7, <1>8, <1>9 DEF ofThreads, ofRoute, holders

\* What socket_handover.h says about ownership, for any number of threads,
\* descriptors and listeners: every open descriptor has one owner, nobody owns
\* a closed one, and an acceptor serves the generation that it was told.
THEOREM OneOwner == HandoverSpec => []ListenersHaveOneOwner
<1>1. HandoverInv => ListenersHaveOneOwner
  <2> SUFFICES ASSUME HandoverInv PROVE ListenersHaveOneOwner
    OBVIOUS
  <2>1. \A t \in Acceptors : pc[t] = "serve" => table[held[t]] = got[t]
    BY DEF HandoverInv, ListenerInv, Threads
  <2>2. lock = {} /\ route.initialized => table[route.active] = route.generation
    BY DEF HandoverInv, ListenerInv, LockInv, InsideLock
  <2> QED
    BY <2>1, <2>2, OwnersCounted DEF ListenersHaveOneOwner
<1> QED
  BY <1>1, HandoverInvariant, PTL

\* Types, and at most one thread inside the lock of the route.
THEOREM HandoverTypes == HandoverSpec => []HandoverTypeOK
<1>1. HandoverInv => HandoverTypeOK
  <2> SUFFICES ASSUME HandoverInv PROVE HandoverTypeOK
    OBVIOUS
  <2>1. Cardinality(lock) <= 1
    <3>1. CASE lock = {}
      BY <3>1, FS_EmptySet
    <3>2. CASE lock # {}
      <4>1. PICK t : t \in lock
        BY <3>2
      <4>2. \A u \in lock : u = t
        BY <4>1 DEF HandoverInv, LockInv
      <4>3. lock = {t}
        BY <4>1, <4>2
      <4> QED
        BY <4>3, FS_Singleton
    <3> QED
      BY <3>1, <3>2
  <2> QED
    BY <2>1 DEF HandoverInv, Types, HandoverTypeOK
<1> QED
  BY <1>1, HandoverInvariant, PTL

(***************************************************************************)
(* armake on one directory                                                 *)
(***************************************************************************)

\* The names that count for the source hash, and the commands that build.
Hashed == Inside \ Unhashed
Builds == {"build", "force"}
ArmakePlaces == {"idle", "hash", "map", "save", "saved", "load", "step", "wait", "tidy", "open",
                 "stage", "pack", "close", "scan", "remove", "record", "ended"}
Exits == {"none", "failed", "uptodate", "ok", "unpacked", "signal", "killed"}

\* The records that armake and its steps keep.
ArmakeType ==
  armake \in [pc : ArmakePlaces, cmd : Builds \cup {"none", "pack", "snapshot", "cleanup"},
              step : Nat, hash : {armake.hash}, snap : SUBSET Inside, rm : SUBSET Inside,
              packed : {armake.packed}, exit : Exits, handles : BOOLEAN, sound : BOOLEAN]
IsChild(x) == x \in [runs : BOOLEAN, read : {x.read}, built : BOOLEAN]
ChildType == /\ DOMAIN child = {"own", "orphan"}
             /\ child = [c \in {"own", "orphan"} |-> child[c]]
             /\ IsChild(child["own"]) /\ IsChild(child["orphan"])
MapTypes ==
  /\ snapfile \in [there : BOOLEAN, names : SUBSET Inside, of : SUBSET Inside]
  /\ kept \subseteq Inside
ProcessTypes == ArmakeType /\ ChildType /\ MapTypes

\* Which command is where.
PlaceInv ==
  /\ plan \in Plans /\ armake.step <= plan.steps
  /\ armake.pc \in {"hash", "step", "wait", "tidy", "record"} => armake.cmd \in Builds
  /\ armake.pc \in {"open", "stage", "pack", "close"} => armake.cmd \in Builds \cup {"pack"}
  /\ armake.pc = "map" /\ armake.cmd # "snapshot" =>
       armake.cmd \in Builds /\ plan.steps > 0 /\ armake.step = 0
  /\ armake.pc = "load" => armake.cmd = "cleanup"
  /\ armake.pc = "step" => armake.step < plan.steps
  /\ armake.pc = "hash" => armake.step = 0
  /\ armake.handles => armake.cmd \in Builds /\ armake.pc # "idle"
  /\ armake.pc \in {"scan", "remove"} /\ armake.exit = "ok" =>
       armake.cmd \in Builds \cup {"cleanup"}
  /\ armake.pc = "record" => armake.exit = "ok"
  /\ child["own"].runs => armake.pc = "wait"

\* What was mapped is there and is not listed for removal; what is neither mapped
\* nor listed was written late.
TreeInv ==
  /\ armake.pc # "idle" /\ armake.sound => kept \subseteq DOMAIN disk /\ kept \subseteq armake.snap
  /\ armake.rm \cap armake.snap = {}
  /\ armake.rm # {} => armake.pc \in {"scan", "remove"}
  /\ armake.pc = "remove" /\ armake.snap # {} =>
       Tree \ Vcs \subseteq armake.snap \cup late \cup armake.rm
  /\ armake.pc \in {"record", "ended"} /\ armake.snap # {} =>
       Tree \ Vcs \subseteq armake.snap \cup late

\* A hashed name has a version of one of the e edits so far, what the steps write
\* is always the same.
Versioned(f, e) ==
  \A n \in DOMAIN f \cap Hashed : f[n] \in 0..e /\ (n \in StepFiles => f[n] = 0)
IsHash(h, e) == DOMAIN h \subseteq Hashed /\ Versioned(h, e)

\* The tree, the hash of the build under way and the one in the hash file.
DiskInv ==
  /\ edits \in Nat /\ spoiled \in {"no", "cut", "strayed"}
  /\ DOMAIN disk \subseteq Inside \cup Outputs
  /\ Versioned(disk, edits)
  /\ IsHash(armake.hash, edits)
  /\ HashFile \in DOMAIN disk => IsHash(disk[HashFile], edits)

\* Of the names S, those that the tree d has as the hash h has them, and those the
\* steps write, are in f as h has them.
Unchanged(d, h, n) == n \in StepFiles \/ (n \in DOMAIN d /\ d[n] = h[n])
Matches(d, h, f, S) ==
  \A n \in S \cap DOMAIN h : Unchanged(d, h, n) => n \in DOMAIN f /\ f[n] = h[n]

\* What a manifest p packs is as the hash h has it, unless it changed since.
MadeFrom(p, d, h, files) ==
  IF p.files = <<>> THEN Matches(d, h, files, Inside \ (Vcs \cup Private))
  ELSE IF p.steps = 0 THEN Matches(d, h, files, Range(p.files))
  ELSE p.arwe \/ Matches(d, h, files[Binary], Code)

\* What the steps wrote before the build is still there when it packs.
StepFilesStay ==
  armake.cmd \in Builds /\ armake.pc \in {"map", "step", "wait", "tidy", "open", "stage", "pack"} =>
    StepFiles \cap DOMAIN armake.hash \subseteq DOMAIN disk

\* A step read the sources no earlier than they were hashed.
StepReads ==
  /\ child["own"].built => child["own"].runs
  /\ child["own"].runs => Matches(disk, armake.hash, child["own"].read, Code)

\* The staging directory holds what the last step read.
StageHolds ==
  /\ child["own"].built /\ spoiled # "strayed" =>
       Binary \in DOMAIN stage /\ stage[Binary] = child["own"].read
  /\ armake.cmd \in Builds /\ plan.steps > 0 /\ ~plan.arwe /\ spoiled # "strayed" /\
     armake.pc \in {"tidy", "open", "stage", "pack"} =>
       Binary \in DOMAIN stage /\ Matches(disk, armake.hash, stage[Binary], Code)

\* While a package is rewritten it is known to be unfinished; what was packed of
\* it so far is as the sources were.
PackBegins ==
  /\ armake.pc \in {"idle", "hash", "map", "step", "wait", "tidy", "open", "stage"} =>
       DOMAIN armake.packed = {}
  /\ armake.pc \in {"stage", "pack", "close"} => spoiled # "no"
PackGoesOn ==
  armake.cmd \in Builds /\ armake.pc = "pack" /\ plan.files # <<>> /\ spoiled # "strayed" =>
    /\ plan.steps = 0 => Matches(disk, armake.hash, armake.packed, DOMAIN armake.packed)
    /\ plan.steps > 0 /\ ~plan.arwe /\ Binary \in DOMAIN armake.packed =>
         Matches(disk, armake.hash, armake.packed[Binary], Code)

\* A build that packed everything has made its package from the sources.
PackedAll ==
  armake.cmd \in Builds /\ armake.exit = "ok" /\ spoiled # "strayed" /\
  armake.pc \in {"close", "scan", "remove", "record"} =>
    MadeFrom(plan, disk, armake.hash, armake.packed)
PackageClosed ==
  armake.cmd \in Builds /\ armake.exit = "ok" /\ Output \in DOMAIN disk /\
  armake.pc \in {"scan", "remove", "record"} =>
    disk[Output] = [files |-> armake.packed, closed |-> TRUE]

\* The package and the hash file on the disk belong together.
StoredInv ==
  spoiled = "no" /\ Output \in DOMAIN disk /\ HashFile \in DOMAIN disk =>
    disk[Output].closed /\ MadeFrom(plan, disk, disk[HashFile], disk[Output].files)

BuildInv == ProcessTypes /\ PlaceInv /\ TreeInv /\ DiskInv /\ StepFilesStay /\ StepReads /\
            StageHolds /\ PackBegins /\ PackGoesOn /\ PackedAll /\ PackageClosed /\ StoredInv


\* A command that ends leaves the record empty but for what it answered.
LEMMA EndType ==
  ASSUME NEW exit \in Exits, EndCommand(exit)
  PROVE  ArmakeType'
BY DEF EndCommand, NoArmake, ArmakeType, Builds, ArmakePlaces, Exits

\* Each step keeps the record of armake ...
LEMMA ArmakeTypeStep ==
  ASSUME ArmakeType, MapTypes, BuildNext
  PROVE  ArmakeType'
<1>1. CASE CallBuild
  <2>1. PICK force \in BOOLEAN : StartCommand(IF force THEN "force" ELSE "build", "hash")
    BY <1>1 DEF CallBuild
  <2>2. CASE force
    BY <2>1, <2>2 DEF StartCommand, NoArmake, ArmakeType, Builds, ArmakePlaces, Exits
  <2>3. CASE ~force
    BY <2>1, <2>3 DEF StartCommand, NoArmake, ArmakeType, Builds, ArmakePlaces, Exits
  <2>. QED  BY <2>2, <2>3
<1>2. CASE CallPack
  BY <1>2 DEF CallPack, StartCommand, NoArmake, ArmakeType, Builds, ArmakePlaces, Exits, diskVars
<1>3. CASE CallSnapshot
  BY <1>3 DEF CallSnapshot, StartCommand, NoArmake, ArmakeType, Builds, ArmakePlaces, Exits,
     diskVars
<1>4. CASE CallCleanup
  BY <1>4 DEF CallCleanup, StartCommand, NoArmake, ArmakeType, Builds, ArmakePlaces, Exits,
     diskVars
<1>5. CASE NoManifest
  BY <1>5, EndType DEF NoManifest, Exits
<1>6. CASE Test
  <2>1. CASE UpToDate  BY <1>6, <2>1, EndType DEF Test, Exits
  <2>2. CASE ~UpToDate
    <3>1. PICK place \in {"map", "open"} : armake' = [armake EXCEPT !.hash = SourceHash, !.pc = place]
      BY <1>6, <2>2 DEF Test
    <3>. QED  BY <3>1 DEF ArmakeType, Builds, ArmakePlaces, Exits
  <2>. QED  BY <2>1, <2>2
<1>7. CASE Map
  <2>1. CASE EndCommand("failed")  BY <2>1, EndType DEF Exits
  <2>2. CASE ~EndCommand("failed")
    <3>1. PICK place \in {"save", "step"} : armake' = [armake EXCEPT !.snap = Mappable, !.pc = place]
      BY <1>7, <2>2 DEF Map
    <3>2. Mappable \subseteq Inside  BY DEF Mappable, Tree
    <3>. QED  BY <3>1, <3>2 DEF ArmakeType, Builds, ArmakePlaces, Exits
  <2>. QED  BY <2>1, <2>2
<1>8. CASE Save
  BY <1>8 DEF Save, ArmakeType, Builds, ArmakePlaces, Exits, diskVars
<1>9. CASE Saved
  BY <1>9, EndType DEF Saved, Exits
<1>10. CASE Load
  <2>1. CASE ~snapfile.there  BY <1>10, <2>1, EndType DEF Load, Exits
  <2>2. CASE snapfile.there
    <3>1. PICK sound \in BOOLEAN :
            armake' = [armake EXCEPT !.snap = snapfile.names, !.pc = "scan", !.exit = "ok",
                                      !.sound = sound]
      BY <1>10, <2>2 DEF Load
    <3>2. snapfile.names \subseteq Inside  BY DEF MapTypes
    <3>. QED  BY <3>1, <3>2 DEF ArmakeType, Builds, ArmakePlaces, Exits
  <2>. QED  BY <2>1, <2>2
<1>11. CASE StartStep
  <2>0. armake.step + 1 \in Nat  BY DEF ArmakeType
  <2>1. CASE armake' = [armake EXCEPT !.pc = "wait", !.step = armake.step + 1, !.handles = TRUE]
    <3>. DEFINE next == armake.step + 1
    <3>1. next \in Nat  BY <2>0
    <3>2. armake' = [armake EXCEPT !.pc = "wait", !.step = next, !.handles = TRUE]  BY <2>1
    <3>. HIDE DEF next
    <3>. QED  BY <3>1, <3>2 DEF ArmakeType, Builds, ArmakePlaces, Exits
  <2>2. CASE armake' = [armake EXCEPT !.pc = "scan", !.exit = "failed", !.handles = TRUE]
    BY <2>2 DEF ArmakeType, Builds, ArmakePlaces, Exits
  <2>. QED  BY <1>11, <2>1, <2>2 DEF StartStep
<1>12. CASE Tidy
  BY <1>12 DEF Tidy, Dropping, Restrict, ArmakeType, Builds, ArmakePlaces, Exits, diskVars
<1>13. CASE Open
  BY <1>13 DEF Open, With, Spoils, ArmakeType, Builds, ArmakePlaces, Exits, diskVars
<1>14. CASE OpenFails
  BY <1>14 DEF OpenFails, ArmakeType, Builds, ArmakePlaces, Exits, diskVars
<1>15. CASE Stage
  <2>1. \/ armake' = [armake EXCEPT !.pc = "pack"]
        \/ armake' = [armake EXCEPT !.pc = "scan", !.exit = "failed"]
    BY <1>15 DEF Stage
  <2>2. CASE armake' = [armake EXCEPT !.pc = "pack"]
    BY <2>2 DEF ArmakeType, Builds, ArmakePlaces, Exits
  <2>3. CASE armake' = [armake EXCEPT !.pc = "scan", !.exit = "failed"]
    BY <2>3 DEF ArmakeType, Builds, ArmakePlaces, Exits
  <2>. QED  BY <2>1, <2>2, <2>3
<1>16. CASE Pack
  <2>1. ASSUME NEW files, Packs(files) PROVE ArmakeType'
    BY <2>1 DEF Packs, ArmakeType, Builds, ArmakePlaces, Exits
  <2>2. ASSUME NEW exit \in {"ok", "unpacked"}, PackEnds(exit) PROVE ArmakeType'
    BY <2>2 DEF PackEnds, ArmakeType, Builds, ArmakePlaces, Exits
  <2>. QED  BY <1>16, <2>1, <2>2 DEF Pack
<1>17. CASE Close
  <2>1. CASE armake.cmd = "pack"  BY <1>17, <2>1, EndType DEF Close, Exits
  <2>2. CASE armake.cmd # "pack"
    BY <1>17, <2>2 DEF Close, ArmakeType, Builds, ArmakePlaces, Exits
  <2>. QED  BY <2>1, <2>2
<1>18. CASE Scan
  <2>1. PICK rm \in Listings(armake.snap) : armake' = [armake EXCEPT !.rm = rm, !.pc = "remove"]
    BY <1>18 DEF Scan
  <2>2. rm \subseteq Inside  BY DEF Listings, Added, Tree
  <2>. QED  BY <2>1, <2>2 DEF ArmakeType, Builds, ArmakePlaces, Exits
<1>19. CASE RemoveAdded
  BY <1>19 DEF RemoveAdded, Dropping, Restrict, ArmakeType, Builds, ArmakePlaces, Exits, diskVars
<1>20. CASE Cleaned
  BY <1>20 DEF Cleaned, Dropping, Restrict, Spoils, Unpacked, ArmakeType, Builds, ArmakePlaces,
     Exits, diskVars
<1>21. CASE Record
  BY <1>21 DEF Record, With, Spoils, ArmakeType, Builds, ArmakePlaces, Exits, diskVars
<1>22. CASE End
  BY <1>22, EndType DEF End, ArmakeType
<1>23. ASSUME NEW c \in {"own", "orphan"}, ChildWrites(c) PROVE ArmakeType'
  BY <1>23 DEF ChildWrites, With, ArmakeType, Builds, ArmakePlaces, Exits, diskVars
<1>24. ASSUME NEW c \in {"own", "orphan"}, ChildBuilds(c) PROVE ArmakeType'
  BY <1>24 DEF ChildBuilds, ArmakeType, Builds, ArmakePlaces, Exits, diskVars
<1>25. CASE ChildExits
  <2>1. PICK ok \in BOOLEAN : NextStep(ok)  BY <1>25 DEF ChildExits
  <2>2. CASE ~ok  BY <2>1, <2>2 DEF NextStep, ArmakeType, Builds, ArmakePlaces, Exits
  <2>3. CASE ok
    <3>1. PICK place \in {"step", "tidy"} : armake' = [armake EXCEPT !.pc = place]
      BY <2>1, <2>3 DEF NextStep
    <3>. QED  BY <3>1 DEF ArmakeType, Builds, ArmakePlaces, Exits
  <2>. QED  BY <2>2, <2>3
<1>26. CASE OrphanExits
  BY <1>26 DEF OrphanExits, NoChild, ArmakeType, Builds, ArmakePlaces, Exits, diskVars
<1>27. CASE Signal
  BY <1>27 DEF Signal, LosesArmake, NoChild, ArmakeType, Builds, ArmakePlaces, Exits, diskVars
<1>28. CASE Kill
  BY <1>28, EndType DEF Kill, Exits
<1>29. CASE UserWrites
  BY <1>29 DEF UserWrites, With, ArmakeType, Builds, ArmakePlaces, Exits, diskVars
<1>30. CASE UserRemoves
  BY <1>30 DEF UserRemoves, Dropping, Restrict, ArmakeType, Builds, ArmakePlaces, Exits, diskVars
<1>. QED
  BY <1>1, <1>2, <1>3, <1>4, <1>5, <1>6, <1>7, <1>8, <1>9, <1>10, <1>11, <1>12, <1>13, <1>14,
     <1>15, <1>16, <1>17, <1>18, <1>19, <1>20, <1>21, <1>22, <1>23, <1>24, <1>25, <1>26, <1>27,
     <1>28, <1>29,
    <1>30 DEF BuildNext, ArmakeNext

\* ... the records of its steps ...
LEMMA ChildTypeStep ==
  ASSUME ChildType, BuildNext
  PROVE  ChildType'
<1>1. IsChild(NoChild)  BY DEF IsChild, NoChild
<1>2. ASSUME NEW x, IsChild(x), NEW c \in {"own", "orphan"}, child' = [child EXCEPT ![c] = x]
      PROVE  ChildType'
  BY <1>2 DEF ChildType
<1>3. CASE UNCHANGED child  BY <1>3 DEF ChildType, IsChild
<1>4. CASE StartStep
  <2>. DEFINE x == [runs |-> TRUE, read |-> CodeRead, built |-> FALSE]
  <2>1. IsChild(x)  BY DEF IsChild
  <2>2. CASE child' = [child EXCEPT !["own"] = x]  BY <1>2, <2>1, <2>2
  <2>. QED  BY <1>3, <1>4, <2>2 DEF StartStep
<1>5. ASSUME NEW c \in {"own", "orphan"}, ChildBuilds(c) PROVE ChildType'
  <2>. DEFINE x == [child[c] EXCEPT !.built = TRUE]
  <2>1. IsChild(child[c])  BY DEF ChildType
  <2>4. IsChild(x)  BY <2>1 DEF IsChild
  <2>5. child' = [child EXCEPT ![c] = x]  BY <1>5 DEF ChildBuilds
  <2>. HIDE DEF x
  <2>. QED  BY <1>2, <2>4, <2>5
<1>6. ASSUME LosesArmake PROVE ChildType'
  <2>1. CASE child' = [child EXCEPT !["own"] = NoChild]  BY <1>1, <1>2, <2>1
  <2>2. CASE child' = [own |-> NoChild, orphan |-> child["own"]]
    BY <1>1, <2>2 DEF ChildType
  <2>. QED  BY <1>6, <2>1, <2>2 DEF LosesArmake
<1>7. CASE ChildExits \/ OrphanExits  BY <1>1, <1>2, <1>7 DEF ChildExits, OrphanExits
<1>8. CASE Signal \/ Kill  BY <1>6, <1>8 DEF Signal, Kill
<1>9. CASE ArmakeNext /\ ~StartStep
  BY <1>3, <1>9 DEF ArmakeNext, CallBuild, CallPack, CallSnapshot, CallCleanup, StartCommand,
     NoManifest, Test, Map, Save, Saved, Load, Tidy, Open, OpenFails, Stage, Pack, Close, Scan,
     RemoveAdded, Cleaned, Record, End
<1>. QED
  BY <1>3, <1>4, <1>5, <1>7, <1>8, <1>9 DEF BuildNext, ChildWrites, UserWrites, UserRemoves

\* ... and the names that were mapped.
LEMMA MapTypesStep ==
  ASSUME ArmakeType, MapTypes, BuildNext
  PROVE  MapTypes'
<1>1. CASE CallBuild
  BY <1>1 DEF CallBuild, StartCommand, NoArmake, MapTypes, diskVars
<1>2. CASE CallPack
  BY <1>2 DEF CallPack, StartCommand, NoArmake, MapTypes, diskVars
<1>3. CASE CallSnapshot
  BY <1>3 DEF CallSnapshot, StartCommand, NoArmake, MapTypes, diskVars
<1>4. CASE CallCleanup
  BY <1>4 DEF CallCleanup, StartCommand, NoArmake, MapTypes, diskVars
<1>5. CASE NoManifest
  BY <1>5 DEF NoManifest, EndCommand, NoArmake, MapTypes, diskVars
<1>6. CASE Test
  BY <1>6 DEF Test, EndCommand, NoArmake, MapTypes, diskVars
<1>7. CASE Map
  BY <1>7 DEF Map, EndCommand, NoArmake, Mappable, Tree, MapTypes, diskVars
<1>8. CASE Save
  BY <1>8 DEF Save, ArmakeType, MapTypes, diskVars
<1>9. CASE Saved
  BY <1>9 DEF Saved, EndCommand, NoArmake, ArmakeType, MapTypes, diskVars
<1>10. CASE Load
  BY <1>10 DEF Load, EndCommand, NoArmake, Tree, MapTypes, diskVars
<1>11. CASE StartStep
  BY <1>11 DEF StartStep, MapTypes, diskVars
<1>12. CASE Tidy
  BY <1>12 DEF Tidy, Dropping, Restrict, MapTypes, diskVars
<1>13. CASE Open
  BY <1>13 DEF Open, With, Spoils, MapTypes, diskVars
<1>14. CASE OpenFails
  BY <1>14 DEF OpenFails, MapTypes, diskVars
<1>15. CASE Stage
  BY <1>15 DEF Stage, MapTypes, diskVars
<1>16. CASE Pack
  BY <1>16 DEF Pack, Packs, PackEnds, PackInto, MapTypes, diskVars
<1>17. CASE Close
  BY <1>17 DEF Close, PackInto, EndCommand, NoArmake, MapTypes, diskVars
<1>18. CASE Scan
  BY <1>18 DEF Scan, MapTypes, diskVars
<1>19. CASE RemoveAdded
  BY <1>19 DEF RemoveAdded, Dropping, Restrict, MapTypes, diskVars
<1>20. CASE Cleaned
  BY <1>20 DEF Cleaned, Dropping, Restrict, Spoils, Unpacked, MapTypes, diskVars
<1>21. CASE Record
  BY <1>21 DEF Record, With, Spoils, MapTypes, diskVars
<1>22. CASE End
  BY <1>22 DEF End, EndCommand, NoArmake, MapTypes, diskVars
<1>23. ASSUME NEW c \in {"own", "orphan"}, ChildWrites(c) PROVE MapTypes'
  BY <1>23 DEF ChildWrites, With, MapTypes, diskVars
<1>24. ASSUME NEW c \in {"own", "orphan"}, ChildBuilds(c) PROVE MapTypes'
  BY <1>24 DEF ChildBuilds, MapTypes, diskVars
<1>25. CASE ChildExits
  BY <1>25 DEF ChildExits, NextStep, NoChild, MapTypes, diskVars
<1>26. CASE OrphanExits
  BY <1>26 DEF OrphanExits, NoChild, MapTypes, diskVars
<1>27. CASE Signal
  BY <1>27 DEF Signal, LosesArmake, NoChild, MapTypes, diskVars
<1>28. CASE Kill
  BY <1>28 DEF Kill, EndCommand, NoArmake, LosesArmake, NoChild, MapTypes, diskVars
<1>29. CASE UserWrites
  BY <1>29 DEF UserWrites, With, MapTypes, diskVars
<1>30. CASE UserRemoves
  BY <1>30 DEF UserRemoves, Dropping, Restrict, MapTypes, diskVars
<1>. QED
  BY <1>1, <1>2, <1>3, <1>4, <1>5, <1>6, <1>7, <1>8, <1>9, <1>10, <1>11, <1>12, <1>13, <1>14,
     <1>15, <1>16, <1>17, <1>18, <1>19, <1>20, <1>21, <1>22, <1>23, <1>24, <1>25, <1>26, <1>27,
     <1>28, <1>29,
    <1>30 DEF BuildNext, ArmakeNext

\* The fields of the record after the steps that take one of several ways.
LEMMA EndFields ==
  ASSUME NEW exit, EndCommand(exit)
  PROVE  /\ armake'.pc = "idle" /\ armake'.cmd = "none" /\ armake'.step = 0 /\ armake'.hash = <<>>
         /\ armake'.snap = {} /\ armake'.rm = {} /\ armake'.packed = <<>> /\ armake'.exit = exit
         /\ ~armake'.handles /\ armake'.sound
BY DEF EndCommand, NoArmake

SameRest == /\ armake'.cmd = armake.cmd /\ armake'.step = armake.step /\ armake'.rm = armake.rm
            /\ armake'.packed = armake.packed /\ armake'.handles = armake.handles

\* A build ends when the package is up to date, or goes on with the hash it took.
LEMMA TestFields ==
  ASSUME ArmakeType, Test
  PROVE  \/ EndCommand("uptodate")
         \/ /\ SameRest /\ armake'.hash = SourceHash /\ armake'.snap = armake.snap
            /\ armake'.exit = armake.exit /\ armake'.sound = armake.sound
            /\ \/ plan.steps > 0 /\ armake'.pc = "map"
               \/ ~(plan.steps > 0) /\ armake'.pc = "open"
<1>1. CASE UpToDate  BY <1>1 DEF Test
<1>2. CASE ~UpToDate /\ plan.steps > 0
  BY <1>2 DEF Test, ArmakeType, SameRest
<1>3. CASE ~UpToDate /\ ~(plan.steps > 0)
  BY <1>3 DEF Test, ArmakeType, SameRest
<1>. QED  BY <1>1, <1>2, <1>3

\* The map of the directory; an empty one is no snapshot.
LEMMA MapFields ==
  ASSUME ArmakeType, Map
  PROVE  \/ EndCommand("failed")
         \/ /\ SameRest /\ armake'.hash = armake.hash /\ armake'.snap = Mappable
            /\ armake'.exit = armake.exit /\ armake'.sound = armake.sound
            /\ \/ armake.cmd = "snapshot" /\ armake'.pc = "save"
               \/ armake.cmd # "snapshot" /\ armake'.pc = "step"
<1>1. CASE armake.cmd = "snapshot" /\ Mappable = {}  BY <1>1 DEF Map
<1>2. CASE armake.cmd = "snapshot" /\ Mappable # {}  BY <1>2 DEF Map, ArmakeType, SameRest
<1>3. CASE armake.cmd # "snapshot"  BY <1>3 DEF Map, ArmakeType, SameRest
<1>. QED  BY <1>1, <1>2, <1>3

\* A cleanup takes the names of the snapshot file, and ends without one.
LEMMA LoadFields ==
  ASSUME ArmakeType, Load
  PROVE  \/ EndCommand("ok") /\ UNCHANGED kept
         \/ /\ SameRest /\ armake'.hash = armake.hash /\ armake'.snap = snapfile.names
            /\ armake'.exit = "ok" /\ armake'.sound = (snapfile.names = snapfile.of)
            /\ armake'.pc = "scan" /\ kept' = snapfile.of \cap Tree
<1>1. CASE ~snapfile.there  BY <1>1 DEF Load
<1>2. CASE snapfile.there
  <2>1. PICK sound \in BOOLEAN :
          /\ armake' = [armake EXCEPT !.snap = snapfile.names, !.pc = "scan", !.exit = "ok",
                                      !.sound = sound]
          /\ sound = (snapfile.names = snapfile.of)
    BY <1>2 DEF Load
  <2>. QED  BY <1>2, <2>1 DEF Load, ArmakeType, SameRest
<1>. QED  BY <1>1, <1>2

\* A step starts beside armake, or the build goes to its cleanup.
LEMMA StartStepFields ==
  ASSUME ArmakeType, StartStep
  PROVE  /\ armake'.cmd = armake.cmd /\ armake'.hash = armake.hash /\ armake'.snap = armake.snap
         /\ armake'.rm = armake.rm /\ armake'.packed = armake.packed
         /\ armake'.handles /\ armake'.sound = armake.sound
         /\ \/ /\ armake'.pc = "wait" /\ armake'.step = armake.step + 1
               /\ armake'.exit = armake.exit
               /\ child' = [child EXCEPT !["own"] =
                               [runs |-> TRUE, read |-> CodeRead, built |-> FALSE]]
            \/ /\ armake'.pc = "scan" /\ armake'.step = armake.step /\ armake'.exit = "failed"
               /\ UNCHANGED child
<1>1. CASE /\ armake' = [armake EXCEPT !.pc = "wait", !.step = armake.step + 1, !.handles = TRUE]
           /\ child' = [child EXCEPT !["own"] = [runs |-> TRUE, read |-> CodeRead, built |-> FALSE]]
  BY <1>1 DEF ArmakeType
<1>2. CASE /\ armake' = [armake EXCEPT !.pc = "scan", !.exit = "failed", !.handles = TRUE]
           /\ UNCHANGED child
  BY <1>2 DEF ArmakeType
<1>. QED  BY <1>1, <1>2 DEF StartStep

\* A file more in the package, or the end of it.
LEMMA PackFields ==
  ASSUME ArmakeType, Pack
  PROVE  /\ armake'.cmd = armake.cmd /\ armake'.step = armake.step /\ armake'.rm = armake.rm
         /\ armake'.handles = armake.handles /\ armake'.hash = armake.hash
         /\ armake'.snap = armake.snap /\ armake'.sound = armake.sound
         /\ \/ armake'.pc = "pack" /\ armake'.exit = armake.exit /\ Packs(armake'.packed)
            \/ /\ armake'.pc = "close" /\ armake'.exit \in {"ok", "unpacked"}
               /\ armake'.packed = armake.packed /\ UNCHANGED disk
<1>1. ASSUME NEW files, Packs(files)
      PROVE  /\ armake'.cmd = armake.cmd /\ armake'.step = armake.step /\ armake'.rm = armake.rm
             /\ armake'.handles = armake.handles /\ armake'.hash = armake.hash
             /\ armake'.snap = armake.snap /\ armake'.sound = armake.sound
             /\ armake'.pc = armake.pc /\ armake'.exit = armake.exit /\ armake'.packed = files
  BY <1>1 DEF Packs, ArmakeType
<1>2. ASSUME NEW exit \in {"ok", "unpacked"}, PackEnds(exit)
      PROVE  /\ armake'.cmd = armake.cmd /\ armake'.step = armake.step /\ armake'.rm = armake.rm
             /\ armake'.handles = armake.handles /\ armake'.hash = armake.hash
             /\ armake'.snap = armake.snap /\ armake'.sound = armake.sound
             /\ armake'.pc = "close" /\ armake'.exit = exit /\ armake'.packed = armake.packed
             /\ UNCHANGED disk
  BY <1>2 DEF PackEnds, ArmakeType
<1>3. armake.pc = "pack"  BY DEF Pack
<1>4. CASE \E exit \in {"ok", "unpacked"} : PackEnds(exit)  BY <1>2, <1>4
<1>5. CASE \E files : Packs(files)
  <2>1. PICK files : Packs(files)  BY <1>5
  <2>2. armake'.packed = files  BY <1>1, <2>1
  <2>. QED  BY <1>1, <1>3, <2>1, <2>2
<1>. QED  BY <1>4, <1>5 DEF Pack

USE BuildAssumption

\* Each step keeps the table of which command is where.
LEMMA PlaceStep ==
  ASSUME ArmakeType, ChildType, PlaceInv, BuildNext
  PROVE  PlaceInv'
<1>1. CASE CallBuild
  BY <1>1 DEF CallBuild, StartCommand, NoArmake, PlaceInv, ArmakeType, ChildType, IsChild, Builds,
     diskVars
<1>2. CASE CallPack
  BY <1>2 DEF CallPack, StartCommand, NoArmake, PlaceInv, ArmakeType, ChildType, IsChild, Builds,
     diskVars
<1>3. CASE CallSnapshot
  BY <1>3 DEF CallSnapshot, StartCommand, NoArmake, PlaceInv, ArmakeType, ChildType, IsChild,
     Builds, diskVars
<1>4. CASE CallCleanup
  BY <1>4 DEF CallCleanup, StartCommand, NoArmake, PlaceInv, ArmakeType, ChildType, IsChild,
     Builds, diskVars
<1>5. CASE NoManifest
  BY <1>5 DEF NoManifest, EndCommand, NoArmake, PlaceInv, ArmakeType, ChildType, IsChild, Builds,
     diskVars
<1>6. CASE Test
  BY <1>6, TestFields, EndFields DEF Test, SameRest, PlaceInv, ArmakeType, ChildType, Builds
<1>7. CASE Map
  BY <1>7, MapFields, EndFields DEF Map, SameRest, PlaceInv, ArmakeType, ChildType, Builds
<1>8. CASE Save
  BY <1>8 DEF Save, PlaceInv, ArmakeType, ChildType, IsChild, Builds, diskVars
<1>9. CASE Saved
  BY <1>9 DEF Saved, EndCommand, NoArmake, PlaceInv, ArmakeType, ChildType, IsChild, Builds,
     diskVars
<1>10. CASE Load
  BY <1>10, LoadFields, EndFields DEF Load, SameRest, PlaceInv, ArmakeType, ChildType, Builds
<1>11. CASE StartStep
  BY <1>11, StartStepFields DEF StartStep, PlaceInv, ArmakeType, ChildType, Builds
<1>12. CASE Tidy
  BY <1>12 DEF Tidy, Dropping, Restrict, PlaceInv, ArmakeType, ChildType, IsChild, Builds,
     diskVars
<1>13. CASE Open
  BY <1>13 DEF Open, With, Spoils, PlaceInv, ArmakeType, ChildType, IsChild, Builds, diskVars
<1>14. CASE OpenFails
  BY <1>14 DEF OpenFails, PlaceInv, ArmakeType, ChildType, IsChild, Builds, diskVars
<1>15. CASE Stage
  <2>1. \/ armake' = [armake EXCEPT !.pc = "pack"]
        \/ armake' = [armake EXCEPT !.pc = "scan", !.exit = "failed"]
    BY <1>15 DEF Stage
  <2>2. armake.pc = "stage" /\ UNCHANGED <<plan, disk, snapfile, child>>  BY <1>15 DEF Stage
  <2>3. CASE armake' = [armake EXCEPT !.pc = "pack"]
    BY <2>2, <2>3 DEF PlaceInv, ArmakeType, ChildType, IsChild, Builds
  <2>4. CASE armake' = [armake EXCEPT !.pc = "scan", !.exit = "failed"]
    BY <2>2, <2>4 DEF PlaceInv, ArmakeType, ChildType, IsChild, Builds
  <2>. QED  BY <2>1, <2>3, <2>4
<1>16. CASE Pack
  BY <1>16, PackFields DEF Pack, PlaceInv, ArmakeType, ChildType, Builds
<1>17. CASE Close
  BY <1>17 DEF Close, PackInto, EndCommand, NoArmake, PlaceInv, ArmakeType, ChildType, IsChild,
     Builds, diskVars
<1>18. CASE Scan
  BY <1>18 DEF Scan, PlaceInv, ArmakeType, ChildType, IsChild, Builds, diskVars
<1>19. CASE RemoveAdded
  BY <1>19 DEF RemoveAdded, Dropping, Restrict, PlaceInv, ArmakeType, ChildType, IsChild, Builds,
     diskVars
<1>20. CASE Cleaned
  BY <1>20 DEF Cleaned, Dropping, Restrict, Spoils, Unpacked, PlaceInv, ArmakeType, ChildType,
     IsChild, Builds, diskVars
<1>21. CASE Record
  BY <1>21 DEF Record, With, Spoils, PlaceInv, ArmakeType, ChildType, IsChild, Builds, diskVars
<1>22. CASE End
  BY <1>22 DEF End, EndCommand, NoArmake, PlaceInv, ArmakeType, ChildType, IsChild, Builds,
     diskVars
<1>23. ASSUME NEW c \in {"own", "orphan"}, ChildWrites(c) PROVE PlaceInv'
  BY <1>23 DEF ChildWrites, With, PlaceInv, ArmakeType, ChildType, IsChild, Builds, diskVars
<1>24. ASSUME NEW c \in {"own", "orphan"}, ChildBuilds(c) PROVE PlaceInv'
  BY <1>24 DEF ChildBuilds, PlaceInv, ArmakeType, ChildType, IsChild, Builds, diskVars
<1>25. CASE ChildExits
  BY <1>25 DEF ChildExits, NextStep, NoChild, PlaceInv, ArmakeType, ChildType, IsChild, Builds,
     diskVars
<1>26. CASE OrphanExits
  BY <1>26 DEF OrphanExits, NoChild, PlaceInv, ArmakeType, ChildType, IsChild, Builds, diskVars
<1>27. CASE Signal
  BY <1>27 DEF Signal, LosesArmake, NoChild, PlaceInv, ArmakeType, ChildType, IsChild, Builds,
     diskVars
<1>28. CASE Kill
  BY <1>28 DEF Kill, EndCommand, NoArmake, LosesArmake, NoChild, PlaceInv, ArmakeType, ChildType,
     IsChild, Builds, diskVars
<1>29. CASE UserWrites
  BY <1>29 DEF UserWrites, With, PlaceInv, ArmakeType, ChildType, IsChild, Builds, diskVars
<1>30. CASE UserRemoves
  BY <1>30 DEF UserRemoves, Dropping, Restrict, PlaceInv, ArmakeType, ChildType, IsChild, Builds,
     diskVars
<1>. QED
  BY <1>1, <1>2, <1>3, <1>4, <1>5, <1>6, <1>7, <1>8, <1>9, <1>10, <1>11, <1>12, <1>13, <1>14,
     <1>15, <1>16, <1>17, <1>18, <1>19, <1>20, <1>21, <1>22, <1>23, <1>24, <1>25, <1>26, <1>27,
     <1>28, <1>29,
    <1>30 DEF BuildNext, ArmakeNext

\* Each step keeps what was mapped and lists only what was added.
LEMMA TreeStep ==
  ASSUME ArmakeType, MapTypes, PlaceInv, TreeInv, BuildNext
  PROVE  TreeInv'
<1>1. CASE CallBuild
  BY <1>1 DEF CallBuild, StartCommand, NoArmake, TreeInv, ArmakeType, MapTypes, PlaceInv,
     diskVars, Tree
<1>2. CASE CallPack
  BY <1>2 DEF CallPack, StartCommand, NoArmake, TreeInv, ArmakeType, MapTypes, PlaceInv, diskVars,
     Tree
<1>3. CASE CallSnapshot
  BY <1>3 DEF CallSnapshot, StartCommand, NoArmake, TreeInv, ArmakeType, MapTypes, PlaceInv,
     diskVars, Tree
<1>4. CASE CallCleanup
  BY <1>4 DEF CallCleanup, StartCommand, NoArmake, TreeInv, ArmakeType, MapTypes, PlaceInv,
     diskVars, Tree
<1>5. CASE NoManifest
  BY <1>5 DEF NoManifest, EndCommand, NoArmake, TreeInv, ArmakeType, MapTypes, PlaceInv, diskVars,
     Tree
<1>6. CASE Test
  BY <1>6, TestFields, EndFields DEF Test, SameRest, TreeInv, ArmakeType, MapTypes, diskVars, Tree
<1>7. CASE Map
  BY <1>7, MapFields, EndFields DEF Map, SameRest, TreeInv, ArmakeType, MapTypes, diskVars, Tree,
     Mappable
<1>8. CASE Save
  BY <1>8 DEF Save, TreeInv, ArmakeType, MapTypes, PlaceInv, diskVars, Tree
<1>9. CASE Saved
  BY <1>9 DEF Saved, EndCommand, NoArmake, TreeInv, ArmakeType, MapTypes, PlaceInv, diskVars, Tree
<1>10. CASE Load
  BY <1>10, LoadFields, EndFields DEF Load, SameRest, TreeInv, ArmakeType, MapTypes, diskVars,
     Tree
<1>11. CASE StartStep
  BY <1>11, StartStepFields DEF StartStep, TreeInv, ArmakeType, diskVars, Tree
<1>12. CASE Tidy
  BY <1>12 DEF Tidy, Dropping, Restrict, TreeInv, ArmakeType, MapTypes, PlaceInv, diskVars, Tree
<1>13. CASE Open
  BY <1>13 DEF Open, With, Spoils, TreeInv, ArmakeType, MapTypes, PlaceInv, diskVars, Tree
<1>14. CASE OpenFails
  BY <1>14 DEF OpenFails, TreeInv, ArmakeType, MapTypes, PlaceInv, diskVars, Tree
<1>15. CASE Stage
  BY <1>15 DEF Stage, TreeInv, ArmakeType, MapTypes, PlaceInv, diskVars, Tree
<1>16. CASE Pack
  BY <1>16, PackFields DEF Pack, Packs, PackInto, TreeInv, ArmakeType, diskVars, Tree
<1>17. CASE Close
  BY <1>17, SMTT(30) DEF Close, PackInto, EndCommand, NoArmake, TreeInv, ArmakeType, MapTypes, PlaceInv,
     diskVars, Tree
<1>18. CASE Scan
  BY <1>18 DEF Scan, Listings, Added, TreeInv, ArmakeType, MapTypes, PlaceInv, diskVars, Tree
<1>19. CASE RemoveAdded
  BY <1>19 DEF RemoveAdded, Dropping, Restrict, TreeInv, ArmakeType, MapTypes, PlaceInv, diskVars,
     Tree
<1>20. CASE Cleaned
  BY <1>20 DEF Cleaned, Dropping, Restrict, Spoils, Unpacked, TreeInv, ArmakeType, MapTypes,
     PlaceInv, diskVars, Tree
<1>21. CASE Record
  BY <1>21 DEF Record, With, Spoils, TreeInv, ArmakeType, MapTypes, PlaceInv, diskVars, Tree
<1>22. CASE End
  BY <1>22 DEF End, EndCommand, NoArmake, TreeInv, ArmakeType, MapTypes, PlaceInv, diskVars, Tree
<1>23. ASSUME NEW c \in {"own", "orphan"}, ChildWrites(c) PROVE TreeInv'
  BY <1>23 DEF ChildWrites, With, TreeInv, ArmakeType, MapTypes, PlaceInv, diskVars, Tree
<1>24. ASSUME NEW c \in {"own", "orphan"}, ChildBuilds(c) PROVE TreeInv'
  BY <1>24 DEF ChildBuilds, TreeInv, ArmakeType, MapTypes, PlaceInv, diskVars, Tree
<1>25. CASE ChildExits
  BY <1>25 DEF ChildExits, NextStep, NoChild, TreeInv, ArmakeType, MapTypes, PlaceInv, diskVars,
     Tree
<1>26. CASE OrphanExits
  BY <1>26 DEF OrphanExits, NoChild, TreeInv, ArmakeType, MapTypes, PlaceInv, diskVars, Tree
<1>27. CASE Signal
  BY <1>27 DEF Signal, TreeInv, PlaceInv, ArmakeType, diskVars, Tree
<1>28. CASE Kill
  BY <1>28 DEF Kill, EndCommand, NoArmake, LosesArmake, NoChild, TreeInv, ArmakeType, MapTypes,
     PlaceInv, diskVars, Tree
<1>29. CASE UserWrites
  BY <1>29 DEF UserWrites, With, TreeInv, ArmakeType, MapTypes, PlaceInv, diskVars, Tree
<1>30. CASE UserRemoves
  BY <1>30 DEF UserRemoves, Dropping, Restrict, TreeInv, ArmakeType, MapTypes, PlaceInv, diskVars,
     Tree
<1>. QED
  BY <1>1, <1>2, <1>3, <1>4, <1>5, <1>6, <1>7, <1>8, <1>9, <1>10, <1>11, <1>12, <1>13, <1>14,
     <1>15, <1>16, <1>17, <1>18, <1>19, <1>20, <1>21, <1>22, <1>23, <1>24, <1>25, <1>26, <1>27,
     <1>28, <1>29,
    <1>30 DEF BuildNext, ArmakeNext

\* The package and its hash file are two names, and neither is hashed.
LEMMA OutputNames ==
  ASSUME plan \in Plans
  PROVE  /\ Output \in Outputs /\ HashFile \in Outputs /\ Output # HashFile
         /\ Outputs \cap Hashed = {}
         /\ StepFiles \cap Outputs = {} /\ UserFiles \cap Outputs = {}
<1>1. Output \in DOMAIN HashOf  BY DEF Output
<1>2. HashFile \in Range(HashOf)  BY <1>1 DEF HashFile, Range
<1>. QED  BY <1>1, <1>2 DEF Outputs, Hashed

\* Each step keeps the versions of the files and of the hashes.
LEMMA DiskStep ==
  ASSUME ArmakeType, PlaceInv, DiskInv, BuildNext
  PROVE  DiskInv'
<1>1. CASE CallBuild
  BY <1>1 DEF CallBuild, StartCommand, NoArmake, DiskInv, ArmakeType, PlaceInv, Versioned, IsHash,
     HashFile, Output, diskVars
<1>2. CASE CallPack
  BY <1>2 DEF CallPack, StartCommand, NoArmake, DiskInv, ArmakeType, PlaceInv, Versioned, IsHash,
     HashFile, Output, diskVars
<1>3. CASE CallSnapshot
  BY <1>3 DEF CallSnapshot, StartCommand, NoArmake, DiskInv, ArmakeType, PlaceInv, Versioned,
     IsHash, HashFile, Output, diskVars
<1>4. CASE CallCleanup
  BY <1>4 DEF CallCleanup, StartCommand, NoArmake, DiskInv, ArmakeType, PlaceInv, Versioned,
     IsHash, HashFile, Output, diskVars
<1>5. CASE NoManifest
  BY <1>5 DEF NoManifest, EndCommand, NoArmake, DiskInv, ArmakeType, PlaceInv, Versioned, IsHash,
     HashFile, Output, diskVars
<1>6. CASE Test
  BY <1>6, TestFields, EndFields DEF Test, SameRest, DiskInv, Versioned, IsHash, HashFile, Output,
     diskVars, SourceHash, Restrict, Tree, Hashed
<1>7. CASE Map
  BY <1>7, MapFields, EndFields DEF Map, SameRest, DiskInv, Versioned, IsHash, HashFile, Output,
     diskVars
<1>8. CASE Save
  BY <1>8 DEF Save, DiskInv, ArmakeType, PlaceInv, Versioned, IsHash, HashFile, Output, diskVars
<1>9. CASE Saved
  BY <1>9 DEF Saved, EndCommand, NoArmake, DiskInv, ArmakeType, PlaceInv, Versioned, IsHash,
     HashFile, Output, diskVars
<1>10. CASE Load
  BY <1>10, LoadFields, EndFields DEF Load, SameRest, DiskInv, Versioned, IsHash, HashFile,
     Output, diskVars
<1>11. CASE StartStep
  BY <1>11, StartStepFields DEF StartStep, DiskInv, Versioned, IsHash, HashFile, Output, diskVars
<1>12. CASE Tidy
  BY <1>12, OutputNames DEF Tidy, Dropping, Restrict, Hashed, DiskInv, ArmakeType, PlaceInv,
     Versioned, IsHash, HashFile, Output, diskVars
<1>13. CASE Open
  BY <1>13, OutputNames DEF Open, With, Spoils, Hashed, DiskInv, ArmakeType, PlaceInv, Versioned,
     IsHash, HashFile, Output, diskVars
<1>14. CASE OpenFails
  BY <1>14 DEF OpenFails, DiskInv, ArmakeType, PlaceInv, Versioned, IsHash, HashFile, Output,
     diskVars
<1>15. CASE Stage
  BY <1>15 DEF Stage, DiskInv, ArmakeType, PlaceInv, Versioned, IsHash, HashFile, Output, diskVars
<1>16. CASE Pack
  BY <1>16, PackFields, OutputNames DEF Pack, Packs, PackInto, DiskInv, PlaceInv, Versioned,
     IsHash, HashFile, Output, diskVars
<1>17. CASE Close
  BY <1>17, OutputNames DEF Close, PackInto, EndCommand, NoArmake, Hashed, DiskInv, ArmakeType,
     PlaceInv, Versioned, IsHash, HashFile, Output, diskVars
<1>18. CASE Scan
  BY <1>18 DEF Scan, DiskInv, ArmakeType, PlaceInv, Versioned, IsHash, HashFile, Output, diskVars
<1>19. CASE RemoveAdded
  BY <1>19, OutputNames DEF RemoveAdded, Dropping, Restrict, Hashed, DiskInv, ArmakeType,
     PlaceInv, Versioned, IsHash, HashFile, Output, diskVars
<1>20. CASE Cleaned
  BY <1>20, OutputNames DEF Cleaned, Dropping, Restrict, Spoils, Unpacked, Hashed, DiskInv,
     ArmakeType, PlaceInv, Versioned, IsHash, HashFile, Output, diskVars
<1>21. CASE Record
  <2>1. armake'.hash = armake.hash  BY <1>21 DEF Record, ArmakeType
  <2>2. CASE UNCHANGED <<disk, spoiled>>
    BY <1>21, <2>1, <2>2 DEF Record, DiskInv, Versioned, IsHash, HashFile, Output
  <2>3. CASE disk' = With(disk, HashFile, Recorded) /\ Spoils("no")
    BY <1>21, <2>1, <2>3, OutputNames
    DEF Record, Recorded, With, Spoils, DiskInv, PlaceInv, Versioned, IsHash, HashFile, Output
  <2>. QED  BY <1>21, <2>2, <2>3 DEF Record
<1>22. CASE End
  BY <1>22 DEF End, EndCommand, NoArmake, DiskInv, ArmakeType, PlaceInv, Versioned, IsHash,
     HashFile, Output, diskVars
<1>23. ASSUME NEW c \in {"own", "orphan"}, ChildWrites(c) PROVE DiskInv'
  BY <1>23, OutputNames DEF ChildWrites, With, Hashed, DiskInv, ArmakeType, PlaceInv, Versioned,
     IsHash, HashFile, Output, diskVars
<1>24. ASSUME NEW c \in {"own", "orphan"}, ChildBuilds(c) PROVE DiskInv'
  BY <1>24 DEF ChildBuilds, DiskInv, ArmakeType, PlaceInv, Versioned, IsHash, HashFile, Output,
     diskVars
<1>25. CASE ChildExits
  BY <1>25 DEF ChildExits, NextStep, NoChild, DiskInv, ArmakeType, PlaceInv, Versioned, IsHash,
     HashFile, Output, diskVars
<1>26. CASE OrphanExits
  BY <1>26 DEF OrphanExits, NoChild, DiskInv, ArmakeType, PlaceInv, Versioned, IsHash, HashFile,
     Output, diskVars
<1>27. CASE Signal
  BY <1>27 DEF Signal, LosesArmake, NoChild, DiskInv, ArmakeType, PlaceInv, Versioned, IsHash,
     HashFile, Output, diskVars
<1>28. CASE Kill
  BY <1>28 DEF Kill, EndCommand, NoArmake, LosesArmake, NoChild, DiskInv, ArmakeType, PlaceInv,
     Versioned, IsHash, HashFile, Output, diskVars
<1>29. CASE UserWrites
  BY <1>29, OutputNames DEF UserWrites, With, Hashed, DiskInv, ArmakeType, PlaceInv, Versioned,
     IsHash, HashFile, Output, diskVars
<1>30. CASE UserRemoves
  BY <1>30, OutputNames DEF UserRemoves, Dropping, Restrict, Hashed, DiskInv, ArmakeType,
     PlaceInv, Versioned, IsHash, HashFile, Output, diskVars
<1>. QED
  BY <1>1, <1>2, <1>3, <1>4, <1>5, <1>6, <1>7, <1>8, <1>9, <1>10, <1>11, <1>12, <1>13, <1>14,
     <1>15, <1>16, <1>17, <1>18, <1>19, <1>20, <1>21, <1>22, <1>23, <1>24, <1>25, <1>26, <1>27,
     <1>28, <1>29,
    <1>30 DEF BuildNext, ArmakeNext

(***************************************************************************)
(* From one state of the tree to a later one: a hashed name that no step   *)
(* writes is as it was, or it is gone, or it has a version that was never  *)
(* there before.                                                           *)
(***************************************************************************)
Later(d, e, f) ==
  \A n \in DOMAIN f \cap Hashed :
    n \in StepFiles \/ (n \in DOMAIN d /\ f[n] = d[n]) \/ f[n] = e + 1

\* So what matched a hash goes on to match it ...
LEMMA MatchesLater ==
  ASSUME NEW d, NEW f, NEW e \in Nat, Later(d, e, f), NEW h, IsHash(h, e), NEW g, NEW S,
         Matches(d, h, g, S)
  PROVE  Matches(f, h, g, S)
<1>. SUFFICES ASSUME NEW n \in S \cap DOMAIN h, Unchanged(f, h, n)
              PROVE  n \in DOMAIN g /\ g[n] = h[n]
  BY DEF Matches
<1>1. n \in Hashed /\ h[n] \in 0..e  BY DEF IsHash, Versioned
<1>2. Unchanged(d, h, n)  BY <1>1 DEF Unchanged, Later
<1>. QED  BY <1>2 DEF Matches

\* ... and a package goes on to be made from the sources of its hash.
LEMMA MadeFromLater ==
  ASSUME NEW p, NEW d, NEW f, NEW e \in Nat, Later(d, e, f), NEW h, IsHash(h, e), NEW g,
         MadeFrom(p, d, h, g)
  PROVE  MadeFrom(p, f, h, g)
BY MatchesLater DEF MadeFrom

\* Every step leads to a later tree.
LEMMA DiskLater ==
  ASSUME ArmakeType, PlaceInv, DiskInv, BuildNext
  PROVE  Later(disk, edits, disk')
<1>1. CASE CallBuild
  BY <1>1 DEF CallBuild, StartCommand, NoArmake, Later, DiskInv, PlaceInv, Output, diskVars
<1>2. CASE CallPack
  BY <1>2 DEF CallPack, StartCommand, NoArmake, Later, DiskInv, PlaceInv, Output, diskVars
<1>3. CASE CallSnapshot
  BY <1>3 DEF CallSnapshot, StartCommand, NoArmake, Later, DiskInv, PlaceInv, Output, diskVars
<1>4. CASE CallCleanup
  BY <1>4 DEF CallCleanup, StartCommand, NoArmake, Later, DiskInv, PlaceInv, Output, diskVars
<1>5. CASE NoManifest
  BY <1>5 DEF NoManifest, EndCommand, NoArmake, Later, DiskInv, PlaceInv, Output, diskVars
<1>6. CASE Test
  BY <1>6 DEF Test, EndCommand, NoArmake, Later, DiskInv, PlaceInv, Output, diskVars
<1>7. CASE Map
  BY <1>7 DEF Map, EndCommand, NoArmake, Mappable, Later, DiskInv, PlaceInv, Output, diskVars
<1>8. CASE Save
  BY <1>8 DEF Save, Later, DiskInv, PlaceInv, Output, diskVars
<1>9. CASE Saved
  BY <1>9 DEF Saved, EndCommand, NoArmake, Later, DiskInv, PlaceInv, Output, diskVars
<1>10. CASE Load
  BY <1>10 DEF Load, EndCommand, NoArmake, Later, DiskInv, PlaceInv, Output, diskVars
<1>11. CASE StartStep
  BY <1>11 DEF StartStep, Later, DiskInv, PlaceInv, Output, diskVars
<1>12. CASE Tidy
  BY <1>12, OutputNames DEF Tidy, Dropping, Restrict, Later, DiskInv, PlaceInv, Output, diskVars
<1>13. CASE Open
  BY <1>13, OutputNames DEF Open, With, Spoils, Later, DiskInv, PlaceInv, Output, diskVars
<1>14. CASE OpenFails
  BY <1>14 DEF OpenFails, Later, DiskInv, PlaceInv, Output, diskVars
<1>15. CASE Stage
  BY <1>15 DEF Stage, Later, DiskInv, PlaceInv, Output, diskVars
<1>16. CASE Pack
  BY <1>16, PackFields, OutputNames DEF Pack, Packs, PackInto, Later, PlaceInv
<1>17. CASE Close
  BY <1>17, OutputNames DEF Close, PackInto, EndCommand, NoArmake, Later, DiskInv, PlaceInv,
     Output, diskVars
<1>18. CASE Scan
  BY <1>18 DEF Scan, Later, DiskInv, PlaceInv, Output, diskVars
<1>19. CASE RemoveAdded
  BY <1>19, OutputNames DEF RemoveAdded, Dropping, Restrict, Later, DiskInv, PlaceInv, Output,
     diskVars
<1>20. CASE Cleaned
  BY <1>20, OutputNames DEF Cleaned, Dropping, Restrict, Spoils, Unpacked, Later, DiskInv,
     PlaceInv, Output, diskVars
<1>21. CASE Record
  BY <1>21, OutputNames DEF Record, With, Spoils, Later, DiskInv, PlaceInv, Output, diskVars
<1>22. CASE End
  BY <1>22 DEF End, EndCommand, NoArmake, Later, DiskInv, PlaceInv, Output, diskVars
<1>23. ASSUME NEW c \in {"own", "orphan"}, ChildWrites(c) PROVE Later(disk, edits, disk')
  BY <1>23, OutputNames DEF ChildWrites, With, Later, DiskInv, PlaceInv, Output, diskVars
<1>24. ASSUME NEW c \in {"own", "orphan"}, ChildBuilds(c) PROVE Later(disk, edits, disk')
  BY <1>24 DEF ChildBuilds, Later, DiskInv, PlaceInv, Output, diskVars
<1>25. CASE ChildExits
  BY <1>25 DEF ChildExits, NextStep, NoChild, Later, DiskInv, PlaceInv, Output, diskVars
<1>26. CASE OrphanExits
  BY <1>26 DEF OrphanExits, NoChild, Later, DiskInv, PlaceInv, Output, diskVars
<1>27. CASE Signal
  BY <1>27 DEF Signal, LosesArmake, NoChild, Later, DiskInv, PlaceInv, Output, diskVars
<1>28. CASE Kill
  BY <1>28 DEF Kill, EndCommand, NoArmake, LosesArmake, NoChild, Later, DiskInv, PlaceInv, Output,
     diskVars
<1>29. CASE UserWrites
  BY <1>29, OutputNames DEF UserWrites, With, Later, DiskInv, PlaceInv, Output, diskVars
<1>30. CASE UserRemoves
  BY <1>30, OutputNames DEF UserRemoves, Dropping, Restrict, Later, DiskInv, PlaceInv, Output,
     diskVars
<1>. QED
  BY <1>1, <1>2, <1>3, <1>4, <1>5, <1>6, <1>7, <1>8, <1>9, <1>10, <1>11, <1>12, <1>13, <1>14,
     <1>15, <1>16, <1>17, <1>18, <1>19, <1>20, <1>21, <1>22, <1>23, <1>24, <1>25, <1>26, <1>27,
     <1>28, <1>29,
    <1>30 DEF BuildNext, ArmakeNext

\* Each step keeps what the steps wrote, while a build is under way.
LEMMA StepFilesStep ==
  ASSUME ArmakeType, PlaceInv, StepFilesStay, BuildNext
  PROVE  StepFilesStay'
<1>1. CASE CallBuild
  BY <1>1 DEF CallBuild, StartCommand, NoArmake, StepFilesStay, ArmakeType, Builds, diskVars
<1>2. CASE CallPack
  BY <1>2 DEF CallPack, StartCommand, NoArmake, StepFilesStay, ArmakeType, Builds, diskVars
<1>3. CASE CallSnapshot
  BY <1>3 DEF CallSnapshot, StartCommand, NoArmake, StepFilesStay, ArmakeType, Builds, diskVars
<1>4. CASE CallCleanup
  BY <1>4 DEF CallCleanup, StartCommand, NoArmake, StepFilesStay, ArmakeType, Builds, diskVars
<1>5. CASE NoManifest
  BY <1>5 DEF NoManifest, EndCommand, NoArmake, StepFilesStay, ArmakeType, Builds, diskVars
<1>6. CASE Test
  BY <1>6, TestFields, EndFields DEF Test, SameRest, StepFilesStay, ArmakeType, Builds, PlaceInv,
     diskVars, SourceHash, Restrict, Tree
<1>7. CASE Map
  BY <1>7, MapFields, EndFields DEF Map, SameRest, StepFilesStay, ArmakeType, Builds, PlaceInv,
     diskVars
<1>8. CASE Save
  BY <1>8 DEF Save, StepFilesStay, ArmakeType, Builds, diskVars
<1>9. CASE Saved
  BY <1>9 DEF Saved, EndCommand, NoArmake, StepFilesStay, ArmakeType, Builds, diskVars
<1>10. CASE Load
  BY <1>10, LoadFields, EndFields DEF Load, SameRest, StepFilesStay, ArmakeType, Builds, PlaceInv,
     diskVars
<1>11. CASE StartStep
  BY <1>11, StartStepFields DEF StartStep, StepFilesStay, ArmakeType, Builds, PlaceInv, diskVars
<1>12. CASE Tidy
  BY <1>12 DEF Tidy, Dropping, Restrict, StepFilesStay, ArmakeType, Builds, diskVars
<1>13. CASE Open
  BY <1>13 DEF Open, With, Spoils, StepFilesStay, ArmakeType, Builds, diskVars
<1>14. CASE OpenFails
  BY <1>14 DEF OpenFails, StepFilesStay, ArmakeType, Builds, diskVars
<1>15. CASE Stage
  BY <1>15 DEF Stage, StepFilesStay, ArmakeType, Builds, diskVars
<1>16. CASE Pack
  BY <1>16, PackFields DEF Pack, Packs, PackInto, StepFilesStay, ArmakeType, Builds, PlaceInv,
     diskVars
<1>17. CASE Close
  BY <1>17 DEF Close, PackInto, EndCommand, NoArmake, StepFilesStay, ArmakeType, Builds, diskVars
<1>18. CASE Scan
  BY <1>18 DEF Scan, StepFilesStay, ArmakeType, Builds, diskVars
<1>19. CASE RemoveAdded
  BY <1>19 DEF RemoveAdded, Dropping, Restrict, StepFilesStay, ArmakeType, Builds, diskVars
<1>20. CASE Cleaned
  BY <1>20 DEF Cleaned, Dropping, Restrict, Spoils, Unpacked, StepFilesStay, ArmakeType, Builds,
     diskVars
<1>21. CASE Record
  BY <1>21 DEF Record, With, Spoils, StepFilesStay, ArmakeType, Builds, diskVars
<1>22. CASE End
  BY <1>22 DEF End, EndCommand, NoArmake, StepFilesStay, ArmakeType, Builds, diskVars
<1>23. ASSUME NEW c \in {"own", "orphan"}, ChildWrites(c) PROVE StepFilesStay'
  BY <1>23 DEF ChildWrites, With, StepFilesStay, ArmakeType, Builds, diskVars
<1>24. ASSUME NEW c \in {"own", "orphan"}, ChildBuilds(c) PROVE StepFilesStay'
  BY <1>24 DEF ChildBuilds, StepFilesStay, ArmakeType, Builds, diskVars
<1>25. CASE ChildExits
  BY <1>25 DEF ChildExits, NextStep, NoChild, PlaceInv, StepFilesStay, ArmakeType, Builds,
     diskVars
<1>26. CASE OrphanExits
  BY <1>26 DEF OrphanExits, NoChild, StepFilesStay, ArmakeType, Builds, diskVars
<1>27. CASE Signal
  BY <1>27 DEF Signal, LosesArmake, NoChild, StepFilesStay, ArmakeType, Builds, diskVars
<1>28. CASE Kill
  BY <1>28 DEF Kill, EndCommand, NoArmake, LosesArmake, NoChild, StepFilesStay, ArmakeType,
     Builds, diskVars
<1>29. CASE UserWrites
  BY <1>29 DEF UserWrites, With, StepFilesStay, ArmakeType, Builds, diskVars
<1>30. CASE UserRemoves
  BY <1>30, OutputNames DEF UserRemoves, Dropping, Restrict, PlaceInv, StepFilesStay, ArmakeType,
     Builds, diskVars
<1>. QED
  BY <1>1, <1>2, <1>3, <1>4, <1>5, <1>6, <1>7, <1>8, <1>9, <1>10, <1>11, <1>12, <1>13, <1>14,
     <1>15, <1>16, <1>17, <1>18, <1>19, <1>20, <1>21, <1>22, <1>23, <1>24, <1>25, <1>26, <1>27,
     <1>28, <1>29,
    <1>30 DEF BuildNext, ArmakeNext

\* Each step keeps what its process read as new as the hash.
LEMMA StepReadsStep ==
  ASSUME ArmakeType, ChildType, PlaceInv, DiskInv, StepReads, BuildNext
  PROVE  StepReads'
<1>a. child["own"].runs => Matches(disk', armake.hash, child["own"].read, Code)
  BY DiskLater, MatchesLater DEF StepReads, DiskInv
<1>1. CASE CallBuild
  BY <1>1, <1>a DEF CallBuild, StartCommand, NoArmake, StepReads, ArmakeType, ChildType, IsChild,
     PlaceInv, diskVars
<1>2. CASE CallPack
  BY <1>2, <1>a DEF CallPack, StartCommand, NoArmake, StepReads, ArmakeType, ChildType, IsChild,
     PlaceInv, diskVars
<1>3. CASE CallSnapshot
  BY <1>3, <1>a DEF CallSnapshot, StartCommand, NoArmake, StepReads, ArmakeType, ChildType,
     IsChild, PlaceInv, diskVars
<1>4. CASE CallCleanup
  BY <1>4, <1>a DEF CallCleanup, StartCommand, NoArmake, StepReads, ArmakeType, ChildType,
     IsChild, PlaceInv, diskVars
<1>5. CASE NoManifest
  BY <1>5, <1>a DEF NoManifest, EndCommand, NoArmake, StepReads, ArmakeType, ChildType, IsChild,
     PlaceInv, diskVars
<1>6. CASE Test
  BY <1>6, <1>a DEF Test, EndCommand, NoArmake, StepReads, ArmakeType, ChildType, IsChild,
     PlaceInv, diskVars
<1>7. CASE Map
  BY <1>7, <1>a DEF Map, EndCommand, NoArmake, Mappable, StepReads, ArmakeType, ChildType,
     IsChild, PlaceInv, diskVars
<1>8. CASE Save
  BY <1>8, <1>a DEF Save, StepReads, ArmakeType, ChildType, IsChild, PlaceInv, diskVars
<1>9. CASE Saved
  BY <1>9, <1>a DEF Saved, EndCommand, NoArmake, StepReads, ArmakeType, ChildType, IsChild,
     PlaceInv, diskVars
<1>10. CASE Load
  BY <1>10, <1>a DEF Load, EndCommand, NoArmake, StepReads, ArmakeType, ChildType, IsChild,
     PlaceInv, diskVars
<1>11. CASE StartStep
  <2>1. CASE UNCHANGED child  BY <1>11, <1>a, <2>1, StartStepFields DEF StartStep, StepReads
  <2>2. CASE child' = [child EXCEPT !["own"] = [runs |-> TRUE, read |-> CodeRead, built |-> FALSE]]
    <3>1. /\ child'["own"].read = CodeRead /\ ~child'["own"].built
          /\ armake'.hash = armake.hash /\ disk' = disk
      BY <1>11, <2>2, StartStepFields DEF StartStep, ChildType, diskVars
    <3>2. Matches(disk, armake.hash, CodeRead, Code)
      BY DEF Matches, Unchanged, CodeRead, Restrict, Tree
    <3>. QED  BY <3>1, <3>2 DEF StepReads
  <2>. QED  BY <1>11, <2>1, <2>2, StartStepFields
<1>12. CASE Tidy
  BY <1>12, <1>a DEF Tidy, Dropping, Restrict, StepReads, ArmakeType, ChildType, IsChild,
     PlaceInv, diskVars
<1>13. CASE Open
  BY <1>13, <1>a DEF Open, With, Spoils, StepReads, ArmakeType, ChildType, IsChild, PlaceInv,
     diskVars
<1>14. CASE OpenFails
  BY <1>14, <1>a DEF OpenFails, StepReads, ArmakeType, ChildType, IsChild, PlaceInv, diskVars
<1>15. CASE Stage
  BY <1>15, <1>a DEF Stage, StepReads, ArmakeType, ChildType, IsChild, PlaceInv, diskVars
<1>16. CASE Pack
  BY <1>16, <1>a DEF Pack, Packs, PackEnds, PackInto, StepReads, ArmakeType, ChildType, IsChild,
     PlaceInv, diskVars
<1>17. CASE Close
  BY <1>17, <1>a DEF Close, PackInto, EndCommand, NoArmake, StepReads, ArmakeType, ChildType,
     IsChild, PlaceInv, diskVars
<1>18. CASE Scan
  BY <1>18, <1>a DEF Scan, StepReads, ArmakeType, ChildType, IsChild, PlaceInv, diskVars
<1>19. CASE RemoveAdded
  BY <1>19, <1>a DEF RemoveAdded, Dropping, Restrict, StepReads, ArmakeType, ChildType, IsChild,
     PlaceInv, diskVars
<1>20. CASE Cleaned
  BY <1>20, <1>a DEF Cleaned, Dropping, Restrict, Spoils, Unpacked, StepReads, ArmakeType,
     ChildType, IsChild, PlaceInv, diskVars
<1>21. CASE Record
  BY <1>21, <1>a DEF Record, With, Spoils, StepReads, ArmakeType, ChildType, IsChild, PlaceInv,
     diskVars
<1>22. CASE End
  BY <1>22, <1>a DEF End, EndCommand, NoArmake, StepReads, ArmakeType, ChildType, IsChild,
     PlaceInv, diskVars
<1>23. ASSUME NEW c \in {"own", "orphan"}, ChildWrites(c) PROVE StepReads'
  BY <1>23, <1>a DEF ChildWrites, With, StepReads, ArmakeType, ChildType, IsChild, PlaceInv,
     diskVars
<1>24. ASSUME NEW c \in {"own", "orphan"}, ChildBuilds(c) PROVE StepReads'
  BY <1>24, <1>a DEF ChildBuilds, StepReads, ArmakeType, ChildType, IsChild, PlaceInv, diskVars
<1>25. CASE ChildExits
  BY <1>25, <1>a DEF ChildExits, NextStep, NoChild, StepReads, ArmakeType, ChildType, IsChild,
     PlaceInv, diskVars
<1>26. CASE OrphanExits
  BY <1>26, <1>a DEF OrphanExits, NoChild, StepReads, ArmakeType, ChildType, IsChild, PlaceInv,
     diskVars
<1>27. CASE Signal
  BY <1>27, <1>a DEF Signal, LosesArmake, NoChild, StepReads, ArmakeType, ChildType, IsChild,
     PlaceInv, diskVars
<1>28. CASE Kill
  BY <1>28, <1>a DEF Kill, EndCommand, NoArmake, LosesArmake, NoChild, StepReads, ArmakeType,
     ChildType, IsChild, PlaceInv, diskVars
<1>29. CASE UserWrites
  BY <1>29, <1>a DEF UserWrites, With, StepReads, ArmakeType, ChildType, IsChild, PlaceInv,
     diskVars
<1>30. CASE UserRemoves
  BY <1>30, <1>a DEF UserRemoves, Dropping, Restrict, StepReads, ArmakeType, ChildType, IsChild,
     PlaceInv, diskVars
<1>. QED
  BY <1>1, <1>2, <1>3, <1>4, <1>5, <1>6, <1>7, <1>8, <1>9, <1>10, <1>11, <1>12, <1>13, <1>14,
     <1>15, <1>16, <1>17, <1>18, <1>19, <1>20, <1>21, <1>22, <1>23, <1>24, <1>25, <1>26, <1>27,
     <1>28, <1>29,
    <1>30 DEF BuildNext, ArmakeNext

\* Each step keeps what the last step left in the staging directory.
LEMMA StageStep ==
  ASSUME ArmakeType, ChildType, PlaceInv, DiskInv, StepReads, StageHolds, BuildNext
  PROVE  StageHolds'
<1>a. /\ armake.cmd \in Builds /\ plan.steps > 0 /\ ~plan.arwe /\ spoiled # "strayed" /\
         armake.pc \in {"tidy", "open", "stage", "pack"} =>
           Binary \in DOMAIN stage /\ Matches(disk', armake.hash, stage[Binary], Code)
      /\ child["own"].runs => Matches(disk', armake.hash, child["own"].read, Code)
      /\ child["own"].built => child["own"].runs
  BY DiskLater, MatchesLater DEF StageHolds, StepReads, DiskInv
<1>1. CASE CallBuild
  BY <1>1, <1>a DEF CallBuild, StartCommand, NoArmake, StageHolds, ArmakeType, ChildType, IsChild,
     PlaceInv, Builds, diskVars
<1>2. CASE CallPack
  BY <1>2, <1>a DEF CallPack, StartCommand, NoArmake, StageHolds, ArmakeType, ChildType, IsChild,
     PlaceInv, Builds, diskVars
<1>3. CASE CallSnapshot
  BY <1>3, <1>a DEF CallSnapshot, StartCommand, NoArmake, StageHolds, ArmakeType, ChildType,
     IsChild, PlaceInv, Builds, diskVars
<1>4. CASE CallCleanup
  BY <1>4, <1>a DEF CallCleanup, StartCommand, NoArmake, StageHolds, ArmakeType, ChildType,
     IsChild, PlaceInv, Builds, diskVars
<1>5. CASE NoManifest
  BY <1>5, <1>a DEF NoManifest, EndCommand, NoArmake, StageHolds, ArmakeType, ChildType, IsChild,
     PlaceInv, Builds, diskVars
<1>6. CASE Test
  BY <1>6, <1>a, TestFields, EndFields DEF Test, SameRest, StageHolds, ArmakeType, ChildType,
     PlaceInv, Builds, diskVars
<1>7. CASE Map
  BY <1>7, <1>a, MapFields, EndFields DEF Map, SameRest, StageHolds, ArmakeType, ChildType,
     PlaceInv, Builds, diskVars
<1>8. CASE Save
  BY <1>8, <1>a DEF Save, StageHolds, ArmakeType, ChildType, IsChild, PlaceInv, Builds, diskVars
<1>9. CASE Saved
  BY <1>9, <1>a DEF Saved, EndCommand, NoArmake, StageHolds, ArmakeType, ChildType, IsChild,
     PlaceInv, Builds, diskVars
<1>10. CASE Load
  BY <1>10, <1>a, LoadFields, EndFields DEF Load, SameRest, StageHolds, ArmakeType, ChildType,
     PlaceInv, Builds, diskVars
<1>11. CASE StartStep
  BY <1>11, <1>a, StartStepFields DEF StartStep, StageHolds, ArmakeType, ChildType, PlaceInv,
     Builds, diskVars
<1>12. CASE Tidy
  BY <1>12, <1>a DEF Tidy, Dropping, Restrict, StageHolds, ArmakeType, ChildType, IsChild,
     PlaceInv, Builds, diskVars
<1>13. CASE Open
  BY <1>13, <1>a DEF Open, With, Spoils, StageHolds, ArmakeType, ChildType, IsChild, PlaceInv,
     Builds, diskVars
<1>14. CASE OpenFails
  BY <1>14, <1>a DEF OpenFails, StageHolds, ArmakeType, ChildType, IsChild, PlaceInv, Builds,
     diskVars
<1>15. CASE Stage
  <2>1. ~plan.arwe /\ Binary \in DOMAIN stage =>
          Binary \in DOMAIN stage' /\ stage'[Binary] = stage[Binary]
    BY <1>15 DEF Stage, Staged
  <2>2. /\ child' = child /\ ~child["own"].runs /\ spoiled' = spoiled /\ plan' = plan /\ disk' = disk
        /\ armake'.hash = armake.hash /\ armake'.cmd = armake.cmd /\ armake.pc = "stage"
    BY <1>15 DEF Stage, ArmakeType, PlaceInv
  <2>. QED  BY <1>a, <2>1, <2>2 DEF StageHolds
<1>16. CASE Pack
  BY <1>16, <1>a, PackFields DEF Pack, Packs, PackInto, StageHolds, ArmakeType, ChildType,
     PlaceInv, Builds, diskVars
<1>17. CASE Close
  BY <1>17, <1>a DEF Close, PackInto, EndCommand, NoArmake, StageHolds, ArmakeType, ChildType,
     IsChild, PlaceInv, Builds, diskVars
<1>18. CASE Scan
  BY <1>18, <1>a DEF Scan, StageHolds, ArmakeType, ChildType, IsChild, PlaceInv, Builds, diskVars
<1>19. CASE RemoveAdded
  BY <1>19, <1>a DEF RemoveAdded, Dropping, Restrict, StageHolds, ArmakeType, ChildType, IsChild,
     PlaceInv, Builds, diskVars
<1>20. CASE Cleaned
  BY <1>20, <1>a DEF Cleaned, Dropping, Restrict, Spoils, Unpacked, StageHolds, ArmakeType,
     ChildType, IsChild, PlaceInv, Builds, diskVars
<1>21. CASE Record
  BY <1>21, <1>a DEF Record, With, Spoils, StageHolds, ArmakeType, ChildType, IsChild, PlaceInv,
     Builds, diskVars
<1>22. CASE End
  BY <1>22, <1>a DEF End, EndCommand, NoArmake, StageHolds, ArmakeType, ChildType, IsChild,
     PlaceInv, Builds, diskVars
<1>23. ASSUME NEW c \in {"own", "orphan"}, ChildWrites(c) PROVE StageHolds'
  BY <1>23, <1>a DEF ChildWrites, With, StageHolds, ArmakeType, ChildType, IsChild, PlaceInv,
     Builds, diskVars
<1>24. ASSUME NEW c \in {"own", "orphan"}, ChildBuilds(c) PROVE StageHolds'
  BY <1>24, <1>a DEF ChildBuilds, With, StageHolds, ArmakeType, ChildType, IsChild, PlaceInv,
     Builds, diskVars
<1>25. CASE ChildExits
  BY <1>25, <1>a DEF ChildExits, NextStep, NoChild, StageHolds, ArmakeType, ChildType, IsChild,
     PlaceInv, Builds, diskVars
<1>26. CASE OrphanExits
  BY <1>26, <1>a DEF OrphanExits, NoChild, StageHolds, ArmakeType, ChildType, IsChild, PlaceInv,
     Builds, diskVars
<1>27. CASE Signal
  BY <1>27, <1>a DEF Signal, LosesArmake, NoChild, StageHolds, ArmakeType, ChildType, IsChild,
     PlaceInv, Builds, diskVars
<1>28. CASE Kill
  BY <1>28, <1>a DEF Kill, EndCommand, NoArmake, LosesArmake, NoChild, StageHolds, ArmakeType,
     ChildType, IsChild, PlaceInv, Builds, diskVars
<1>29. CASE UserWrites
  BY <1>29, <1>a DEF UserWrites, With, StageHolds, ArmakeType, ChildType, IsChild, PlaceInv,
     Builds, diskVars
<1>30. CASE UserRemoves
  BY <1>30, <1>a DEF UserRemoves, Dropping, Restrict, StageHolds, ArmakeType, ChildType, IsChild,
     PlaceInv, Builds, diskVars
<1>. QED
  BY <1>1, <1>2, <1>3, <1>4, <1>5, <1>6, <1>7, <1>8, <1>9, <1>10, <1>11, <1>12, <1>13, <1>14,
     <1>15, <1>16, <1>17, <1>18, <1>19, <1>20, <1>21, <1>22, <1>23, <1>24, <1>25, <1>26, <1>27,
     <1>28, <1>29,
    <1>30 DEF BuildNext, ArmakeNext

\* Each step keeps the package unfinished while it is rewritten.
LEMMA PackBeginsStep ==
  ASSUME ArmakeType, ChildType, PlaceInv, DiskInv, PackBegins, BuildNext
  PROVE  PackBegins'
<1>1. CASE CallBuild
  BY <1>1 DEF CallBuild, StartCommand, NoArmake, PackBegins, ArmakeType, PlaceInv, diskVars
<1>2. CASE CallPack
  BY <1>2 DEF CallPack, StartCommand, NoArmake, PackBegins, ArmakeType, PlaceInv, diskVars
<1>3. CASE CallSnapshot
  BY <1>3 DEF CallSnapshot, StartCommand, NoArmake, PackBegins, ArmakeType, PlaceInv, diskVars
<1>4. CASE CallCleanup
  BY <1>4 DEF CallCleanup, StartCommand, NoArmake, PackBegins, ArmakeType, PlaceInv, diskVars
<1>5. CASE NoManifest
  BY <1>5 DEF NoManifest, EndCommand, NoArmake, PackBegins, ArmakeType, PlaceInv, diskVars
<1>6. CASE Test
  BY <1>6, TestFields, EndFields DEF Test, SameRest, PackBegins, ArmakeType, diskVars
<1>7. CASE Map
  BY <1>7, MapFields, EndFields DEF Map, SameRest, PackBegins, ArmakeType, diskVars
<1>8. CASE Save
  BY <1>8 DEF Save, PackBegins, ArmakeType, PlaceInv, diskVars
<1>9. CASE Saved
  BY <1>9 DEF Saved, EndCommand, NoArmake, PackBegins, ArmakeType, PlaceInv, diskVars
<1>10. CASE Load
  BY <1>10, LoadFields, EndFields DEF Load, SameRest, PackBegins, ArmakeType, diskVars
<1>11. CASE StartStep
  BY <1>11, StartStepFields DEF StartStep, PackBegins, ArmakeType, diskVars
<1>12. CASE Tidy
  BY <1>12 DEF Tidy, Dropping, Restrict, PackBegins, ArmakeType, PlaceInv, diskVars
<1>13. CASE Open
  BY <1>13 DEF Open, With, Spoils, PackBegins, ArmakeType, PlaceInv, diskVars
<1>14. CASE OpenFails
  BY <1>14 DEF OpenFails, PackBegins, ArmakeType, PlaceInv, diskVars
<1>15. CASE Stage
  BY <1>15 DEF Stage, PackBegins, ArmakeType, PlaceInv, diskVars
<1>16. CASE Pack
  BY <1>16, PackFields DEF Pack, Packs, PackInto, PackBegins, ArmakeType, diskVars
<1>17. CASE Close
  BY <1>17 DEF Close, PackInto, EndCommand, NoArmake, PackBegins, ArmakeType, PlaceInv, diskVars
<1>18. CASE Scan
  BY <1>18 DEF Scan, PackBegins, ArmakeType, PlaceInv, diskVars
<1>19. CASE RemoveAdded
  BY <1>19 DEF RemoveAdded, Dropping, Restrict, PackBegins, ArmakeType, PlaceInv, diskVars
<1>20. CASE Cleaned
  BY <1>20 DEF Cleaned, Dropping, Restrict, Spoils, Unpacked, PackBegins, ArmakeType, PlaceInv,
     diskVars
<1>21. CASE Record
  BY <1>21 DEF Record, With, Spoils, PackBegins, ArmakeType, PlaceInv, diskVars
<1>22. CASE End
  BY <1>22 DEF End, EndCommand, NoArmake, PackBegins, ArmakeType, PlaceInv, diskVars
<1>23. ASSUME NEW c \in {"own", "orphan"}, ChildWrites(c) PROVE PackBegins'
  BY <1>23 DEF ChildWrites, With, PackBegins, ArmakeType, PlaceInv, diskVars
<1>24. ASSUME NEW c \in {"own", "orphan"}, ChildBuilds(c) PROVE PackBegins'
  BY <1>24 DEF ChildBuilds, PackBegins, ArmakeType, PlaceInv, diskVars
<1>25. CASE ChildExits
  BY <1>25 DEF ChildExits, NextStep, NoChild, PackBegins, ArmakeType, PlaceInv, diskVars
<1>26. CASE OrphanExits
  BY <1>26 DEF OrphanExits, NoChild, PackBegins, ArmakeType, PlaceInv, diskVars
<1>27. CASE Signal
  BY <1>27 DEF Signal, LosesArmake, NoChild, PackBegins, ArmakeType, PlaceInv, diskVars
<1>28. CASE Kill
  BY <1>28 DEF Kill, EndCommand, NoArmake, LosesArmake, NoChild, PackBegins, ArmakeType, PlaceInv,
     diskVars
<1>29. CASE UserWrites
  BY <1>29 DEF UserWrites, With, PackBegins, ArmakeType, PlaceInv, diskVars
<1>30. CASE UserRemoves
  BY <1>30 DEF UserRemoves, Dropping, Restrict, PackBegins, ArmakeType, PlaceInv, diskVars
<1>. QED
  BY <1>1, <1>2, <1>3, <1>4, <1>5, <1>6, <1>7, <1>8, <1>9, <1>10, <1>11, <1>12, <1>13, <1>14,
     <1>15, <1>16, <1>17, <1>18, <1>19, <1>20, <1>21, <1>22, <1>23, <1>24, <1>25, <1>26, <1>27,
     <1>28, <1>29,
    <1>30 DEF BuildNext, ArmakeNext

\* A file of the list is packed as it is found; without a list the directory is,
\* and packing ends well when everything was packed.
LEMMA PackNext ==
  ASSUME Pack, armake.cmd # "pack", plan.files # <<>>, Packs(armake'.packed), ArmakeType
  PROVE  \E next \in DOMAIN PackedFrom :
           armake'.packed = With(armake.packed, next, PackedFrom[next])
<1>1. PICK next : Packable(next) /\ Packs(With(armake.packed, next, PackedFrom[next]))
  <2>1. ASSUME NEW exit, PackEnds(exit) PROVE FALSE
    <3>1. armake'.pc = "close"  BY <2>1 DEF PackEnds, ArmakeType
    <3>2. armake'.pc = "pack"  BY DEF Pack, Packs, ArmakeType
    <3>. QED  BY <3>1, <3>2
  <2>. QED  BY <2>1 DEF Pack
<1>2. armake'.packed = With(armake.packed, next, PackedFrom[next])  BY <1>1 DEF Packs, ArmakeType
<1>. QED  BY <1>1, <1>2 DEF Packable

\* What a package holds when packing ends well.
LEMMA PackedEnd ==
  ASSUME Pack, ArmakeType, armake'.pc = "close", armake'.exit = "ok"
  PROVE  IF armake.cmd = "pack" \/ plan.files = <<>> THEN armake.packed = Walked
         ELSE \A i \in 1..Len(plan.files) : plan.files[i] \in DOMAIN armake.packed
<1>1. ASSUME NEW files, Packs(files) PROVE FALSE  BY <1>1 DEF Pack, Packs, ArmakeType
<1>2. ~PackEnds("unpacked")  BY DEF PackEnds, ArmakeType
<1>. QED  BY <1>1, <1>2 DEF Pack

\* Each step keeps what was packed so far as new as the hash.
LEMMA PackStep ==
  ASSUME ArmakeType, ChildType, PlaceInv, DiskInv, StageHolds, PackBegins, PackGoesOn, BuildNext
  PROVE  PackGoesOn'
<1>a. armake.cmd \in Builds /\ armake.pc = "pack" /\ plan.files # <<>> /\ spoiled # "strayed" =>
        /\ plan.steps = 0 => Matches(disk', armake.hash, armake.packed, DOMAIN armake.packed)
        /\ plan.steps > 0 /\ ~plan.arwe /\ Binary \in DOMAIN armake.packed =>
             Matches(disk', armake.hash, armake.packed[Binary], Code)
  BY DiskLater, MatchesLater DEF PackGoesOn, DiskInv
<1>1. CASE CallBuild
  BY <1>1, <1>a DEF CallBuild, StartCommand, NoArmake, PackGoesOn, ArmakeType, PlaceInv, Builds,
     diskVars
<1>2. CASE CallPack
  BY <1>2, <1>a DEF CallPack, StartCommand, NoArmake, PackGoesOn, ArmakeType, PlaceInv, Builds,
     diskVars
<1>3. CASE CallSnapshot
  BY <1>3, <1>a DEF CallSnapshot, StartCommand, NoArmake, PackGoesOn, ArmakeType, PlaceInv,
     Builds, diskVars
<1>4. CASE CallCleanup
  BY <1>4, <1>a DEF CallCleanup, StartCommand, NoArmake, PackGoesOn, ArmakeType, PlaceInv, Builds,
     diskVars
<1>5. CASE NoManifest
  BY <1>5, <1>a DEF NoManifest, EndCommand, NoArmake, PackGoesOn, ArmakeType, PlaceInv, Builds,
     diskVars
<1>6. CASE Test
  BY <1>6, <1>a, TestFields, EndFields DEF Test, SameRest, PackGoesOn, ArmakeType, Builds,
     diskVars
<1>7. CASE Map
  BY <1>7, <1>a, MapFields, EndFields DEF Map, SameRest, PackGoesOn, ArmakeType, Builds, diskVars
<1>8. CASE Save
  BY <1>8, <1>a DEF Save, PackGoesOn, ArmakeType, PlaceInv, Builds, diskVars
<1>9. CASE Saved
  BY <1>9, <1>a DEF Saved, EndCommand, NoArmake, PackGoesOn, ArmakeType, PlaceInv, Builds,
     diskVars
<1>10. CASE Load
  BY <1>10, <1>a, LoadFields, EndFields DEF Load, SameRest, PackGoesOn, ArmakeType, Builds,
     diskVars
<1>11. CASE StartStep
  BY <1>11, <1>a, StartStepFields DEF StartStep, PackGoesOn, ArmakeType, Builds, diskVars
<1>12. CASE Tidy
  BY <1>12, <1>a DEF Tidy, Dropping, Restrict, PackGoesOn, ArmakeType, PlaceInv, Builds, diskVars
<1>13. CASE Open
  BY <1>13, <1>a DEF Open, With, Spoils, PackGoesOn, ArmakeType, PlaceInv, Builds, diskVars
<1>14. CASE OpenFails
  BY <1>14, <1>a DEF OpenFails, PackGoesOn, ArmakeType, PlaceInv, Builds, diskVars
<1>15. CASE Stage
  <2>1. /\ armake'.packed = armake.packed /\ DOMAIN armake.packed = {}
    BY <1>15 DEF Stage, ArmakeType, PackBegins
  <2>. QED  BY <2>1 DEF PackGoesOn, Matches
<1>16. CASE Pack
  <2>1. CASE UNCHANGED disk /\ armake'.pc # "pack"  BY <2>1 DEF PackGoesOn
  <2>2. CASE armake'.pc = "pack" /\ Packs(armake'.packed)
    <3>. SUFFICES ASSUME armake.cmd \in Builds, plan.files # <<>>, spoiled # "strayed"
                  PROVE  /\ plan.steps = 0 =>
                              Matches(disk', armake.hash, armake'.packed, DOMAIN armake'.packed)
                         /\ plan.steps > 0 /\ ~plan.arwe /\ Binary \in DOMAIN armake'.packed =>
                              Matches(disk', armake.hash, armake'.packed[Binary], Code)
      BY <1>16, PackFields DEF Pack, PackGoesOn
    <3>0. armake.pc = "pack" /\ armake.cmd # "pack"  BY <1>16 DEF Pack, Builds
    <3>1. PICK next \in DOMAIN PackedFrom :
            armake'.packed = With(armake.packed, next, PackedFrom[next])
      BY <1>16, <2>2, <3>0, PackNext
    <3>2. ASSUME plan.steps = 0
          PROVE  Matches(disk', armake.hash, armake'.packed, DOMAIN armake'.packed)
      <4>1. PackedFrom = Restrict(disk, Tree)  BY <3>2 DEF PackedFrom, FromStage
      <4>2. Matches(disk, armake.hash, armake.packed, DOMAIN armake.packed)
        BY <3>0, <3>2 DEF PackGoesOn
      <4>3. next \in DOMAIN disk /\ PackedFrom[next] = disk[next]  BY <4>1 DEF Restrict, Tree
      <4>4. Versioned(disk, edits) /\ IsHash(armake.hash, edits)  BY DEF DiskInv
      <4>5. next \in DOMAIN armake.hash /\ Unchanged(disk, armake.hash, next) =>
              disk[next] = armake.hash[next]
        BY <4>3, <4>4 DEF Unchanged, Versioned, IsHash
      <4>6. Matches(disk, armake.hash, armake'.packed, DOMAIN armake'.packed)
        BY <3>1, <4>2, <4>3, <4>5 DEF Matches, With
      <4>. QED  BY <4>6, DiskLater, MatchesLater DEF DiskInv
    <3>3. ASSUME plan.steps > 0, ~plan.arwe, Binary \in DOMAIN armake'.packed
          PROVE  Matches(disk', armake.hash, armake'.packed[Binary], Code)
      <4>1. Binary \in DOMAIN stage /\ Matches(disk, armake.hash, stage[Binary], Code)
        BY <3>0, <3>3 DEF StageHolds
      <4>2. plan.files[1] = Binary /\ Head(plan.files) = Binary
        BY <3>3 DEF PlaceInv
      <4>3. PackedFrom = stage  BY <3>3, <4>1, <4>2 DEF PackedFrom, FromStage
      <4>4. armake'.packed[Binary] = stage[Binary] \/
              (Binary \in DOMAIN armake.packed /\ armake'.packed[Binary] = armake.packed[Binary])
        BY <3>1, <3>3, <4>3 DEF With
      <4>5. Matches(disk, armake.hash, armake'.packed[Binary], Code)
        BY <3>0, <3>3, <4>1, <4>4 DEF PackGoesOn
      <4>. QED  BY <4>5, DiskLater, MatchesLater DEF DiskInv
    <3>. QED  BY <3>2, <3>3
  <2>. QED  BY <1>16, <2>1, <2>2, PackFields
<1>17. CASE Close
  BY <1>17, <1>a DEF Close, PackInto, EndCommand, NoArmake, PackGoesOn, ArmakeType, PlaceInv,
     Builds, diskVars
<1>18. CASE Scan
  BY <1>18, <1>a DEF Scan, PackGoesOn, ArmakeType, PlaceInv, Builds, diskVars
<1>19. CASE RemoveAdded
  BY <1>19, <1>a DEF RemoveAdded, Dropping, Restrict, PackGoesOn, ArmakeType, PlaceInv, Builds,
     diskVars
<1>20. CASE Cleaned
  BY <1>20, <1>a DEF Cleaned, Dropping, Restrict, Spoils, Unpacked, PackGoesOn, ArmakeType,
     PlaceInv, Builds, diskVars
<1>21. CASE Record
  BY <1>21, <1>a DEF Record, With, Spoils, PackGoesOn, ArmakeType, PlaceInv, Builds, diskVars
<1>22. CASE End
  BY <1>22, <1>a DEF End, EndCommand, NoArmake, PackGoesOn, ArmakeType, PlaceInv, Builds, diskVars
<1>23. ASSUME NEW c \in {"own", "orphan"}, ChildWrites(c) PROVE PackGoesOn'
  BY <1>23, <1>a DEF ChildWrites, With, PackGoesOn, ArmakeType, PlaceInv, Builds, diskVars
<1>24. ASSUME NEW c \in {"own", "orphan"}, ChildBuilds(c) PROVE PackGoesOn'
  BY <1>24, <1>a DEF ChildBuilds, PackGoesOn, ArmakeType, PlaceInv, Builds, diskVars
<1>25. CASE ChildExits
  BY <1>25, <1>a DEF ChildExits, NextStep, NoChild, PackGoesOn, ArmakeType, PlaceInv, Builds,
     diskVars
<1>26. CASE OrphanExits
  BY <1>26, <1>a DEF OrphanExits, NoChild, PackGoesOn, ArmakeType, PlaceInv, Builds, diskVars
<1>27. CASE Signal
  BY <1>27, <1>a DEF Signal, LosesArmake, NoChild, PackGoesOn, ArmakeType, PlaceInv, Builds,
     diskVars
<1>28. CASE Kill
  BY <1>28, <1>a DEF Kill, EndCommand, NoArmake, LosesArmake, NoChild, PackGoesOn, ArmakeType,
     PlaceInv, Builds, diskVars
<1>29. CASE UserWrites
  BY <1>29, <1>a DEF UserWrites, With, PackGoesOn, ArmakeType, PlaceInv, Builds, diskVars
<1>30. CASE UserRemoves
  BY <1>30, <1>a DEF UserRemoves, Dropping, Restrict, PackGoesOn, ArmakeType, PlaceInv, Builds,
     diskVars
<1>. QED
  BY <1>1, <1>2, <1>3, <1>4, <1>5, <1>6, <1>7, <1>8, <1>9, <1>10, <1>11, <1>12, <1>13, <1>14,
     <1>15, <1>16, <1>17, <1>18, <1>19, <1>20, <1>21, <1>22, <1>23, <1>24, <1>25, <1>26, <1>27,
     <1>28, <1>29,
    <1>30 DEF BuildNext, ArmakeNext

\* Each step keeps a package that was packed to its end made from the sources.
LEMMA PackedAllStep ==
  ASSUME ArmakeType, ChildType, PlaceInv, DiskInv, StepFilesStay, PackGoesOn, PackedAll, BuildNext
  PROVE  PackedAll'
<1>a. armake.cmd \in Builds /\ armake.exit = "ok" /\ spoiled # "strayed" /\
      armake.pc \in {"close", "scan", "remove", "record"} =>
        MadeFrom(plan, disk', armake.hash, armake.packed)
  BY DiskLater, MadeFromLater DEF PackedAll, DiskInv
<1>1. CASE CallBuild
  BY <1>1, <1>a DEF CallBuild, StartCommand, NoArmake, PackedAll, ArmakeType, PlaceInv, Builds,
     diskVars
<1>2. CASE CallPack
  BY <1>2, <1>a DEF CallPack, StartCommand, NoArmake, PackedAll, ArmakeType, PlaceInv, Builds,
     diskVars
<1>3. CASE CallSnapshot
  BY <1>3, <1>a DEF CallSnapshot, StartCommand, NoArmake, PackedAll, ArmakeType, PlaceInv, Builds,
     diskVars
<1>4. CASE CallCleanup
  BY <1>4, <1>a DEF CallCleanup, StartCommand, NoArmake, PackedAll, ArmakeType, PlaceInv, Builds,
     diskVars
<1>5. CASE NoManifest
  BY <1>5, <1>a DEF NoManifest, EndCommand, NoArmake, PackedAll, ArmakeType, PlaceInv, Builds,
     diskVars
<1>6. CASE Test
  BY <1>6, <1>a, TestFields, EndFields DEF Test, SameRest, PackedAll, ArmakeType, PlaceInv,
     Builds, diskVars
<1>7. CASE Map
  BY <1>7, <1>a, MapFields, EndFields DEF Map, SameRest, PackedAll, ArmakeType, PlaceInv, Builds,
     diskVars
<1>8. CASE Save
  BY <1>8, <1>a DEF Save, PackedAll, ArmakeType, PlaceInv, Builds, diskVars
<1>9. CASE Saved
  BY <1>9, <1>a DEF Saved, EndCommand, NoArmake, PackedAll, ArmakeType, PlaceInv, Builds, diskVars
<1>10. CASE Load
  BY <1>10, <1>a, LoadFields, EndFields DEF Load, SameRest, PackedAll, ArmakeType, PlaceInv,
     Builds, diskVars
<1>11. CASE StartStep
  BY <1>11, <1>a, StartStepFields DEF StartStep, PackedAll, ArmakeType, PlaceInv, Builds, diskVars
<1>12. CASE Tidy
  BY <1>12, <1>a DEF Tidy, Dropping, Restrict, PackedAll, ArmakeType, PlaceInv, Builds, diskVars
<1>13. CASE Open
  BY <1>13, <1>a DEF Open, With, Spoils, PackedAll, ArmakeType, PlaceInv, Builds, diskVars
<1>14. CASE OpenFails
  BY <1>14, <1>a DEF OpenFails, PackedAll, ArmakeType, PlaceInv, Builds, diskVars
<1>15. CASE Stage
  BY <1>15, <1>a DEF Stage, PackedAll, ArmakeType, PlaceInv, Builds, diskVars
<1>16. CASE Pack
  <2>. SUFFICES ASSUME armake.cmd \in Builds, armake'.exit = "ok", armake'.pc = "close",
                       spoiled # "strayed", armake'.packed = armake.packed, UNCHANGED disk
                PROVE  MadeFrom(plan, disk, armake.hash, armake.packed)
    BY <1>16, PackFields DEF Pack, PackedAll
  <2>0. /\ armake.pc = "pack" /\ armake.cmd # "pack" /\ plan.steps \in Nat
        /\ plan.files \in Seq(Inside \cup {Binary})
    BY <1>16 DEF Pack, Builds, PlaceInv
  <2>1. CASE plan.files = <<>>
    <3>1. armake.packed = Walked  BY <1>16, <2>1, PackedEnd
    <3>2. StepFiles \cap DOMAIN armake.hash \subseteq DOMAIN disk  BY <2>0 DEF StepFilesStay
    <3>3. Versioned(disk, edits) /\ IsHash(armake.hash, edits)  BY DEF DiskInv
    <3>4. ASSUME NEW n \in (Inside \ (Vcs \cup Private)) \cap DOMAIN armake.hash,
                 Unchanged(disk, armake.hash, n)
          PROVE  n \in DOMAIN Walked /\ Walked[n] = armake.hash[n]
      <4>1. n \in Hashed /\ n \notin Outputs  BY <3>3, OutputNames DEF IsHash, PlaceInv
      <4>2. n \in DOMAIN disk /\ disk[n] = armake.hash[n]
        BY <3>2, <3>3, <3>4, <4>1 DEF Unchanged, Versioned, IsHash
      <4>. QED  BY <3>4, <4>1, <4>2 DEF Walked, Restrict, Tree
    <3>. QED  BY <2>1, <3>1, <3>4 DEF MadeFrom, Matches
  <2>2. CASE plan.files # <<>>
    <3>1. \A i \in 1..Len(plan.files) : plan.files[i] \in DOMAIN armake.packed
      BY <1>16, <2>0, <2>2, PackedEnd
    <3>2. CASE plan.steps = 0
      <4>1. Range(plan.files) \subseteq DOMAIN armake.packed  BY <2>0, <3>1 DEF Range
      <4>2. Matches(disk, armake.hash, armake.packed, DOMAIN armake.packed)
        BY <2>0, <2>2, <3>2 DEF PackGoesOn
      <4>. QED  BY <2>2, <3>2, <4>1, <4>2 DEF MadeFrom, Matches
    <3>3. CASE plan.steps # 0 /\ ~plan.arwe
      <4>1. plan.steps > 0 /\ plan.files[1] = Binary  BY <2>0, <2>2, <3>3 DEF PlaceInv
      <4>2. Binary \in DOMAIN armake.packed  BY <2>0, <2>2, <3>1, <4>1
      <4>3. Matches(disk, armake.hash, armake.packed[Binary], Code)
        BY <2>0, <2>2, <3>3, <4>1, <4>2 DEF PackGoesOn
      <4>. QED  BY <2>2, <3>3, <4>3 DEF MadeFrom
    <3>. QED  BY <2>2, <3>2, <3>3 DEF MadeFrom
  <2>. QED  BY <2>1, <2>2
<1>17. CASE Close
  BY <1>17, <1>a DEF Close, PackInto, EndCommand, NoArmake, PackedAll, ArmakeType, PlaceInv,
     Builds, diskVars
<1>18. CASE Scan
  BY <1>18, <1>a DEF Scan, PackedAll, ArmakeType, PlaceInv, Builds, diskVars
<1>19. CASE RemoveAdded
  BY <1>19, <1>a DEF RemoveAdded, Dropping, Restrict, PackedAll, ArmakeType, PlaceInv, Builds,
     diskVars
<1>20. CASE Cleaned
  BY <1>20, <1>a DEF Cleaned, Dropping, Restrict, Spoils, Unpacked, PackedAll, ArmakeType,
     PlaceInv, Builds, diskVars
<1>21. CASE Record
  BY <1>21, <1>a DEF Record, With, Spoils, PackedAll, ArmakeType, PlaceInv, Builds, diskVars
<1>22. CASE End
  BY <1>22, <1>a DEF End, EndCommand, NoArmake, PackedAll, ArmakeType, PlaceInv, Builds, diskVars
<1>23. ASSUME NEW c \in {"own", "orphan"}, ChildWrites(c) PROVE PackedAll'
  BY <1>23, <1>a DEF ChildWrites, With, PackedAll, ArmakeType, PlaceInv, Builds, diskVars
<1>24. ASSUME NEW c \in {"own", "orphan"}, ChildBuilds(c) PROVE PackedAll'
  BY <1>24, <1>a DEF ChildBuilds, PackedAll, ArmakeType, PlaceInv, Builds, diskVars
<1>25. CASE ChildExits
  BY <1>25, <1>a DEF ChildExits, NextStep, NoChild, PackedAll, ArmakeType, PlaceInv, Builds,
     diskVars
<1>26. CASE OrphanExits
  BY <1>26, <1>a DEF OrphanExits, NoChild, PackedAll, ArmakeType, PlaceInv, Builds, diskVars
<1>27. CASE Signal
  BY <1>27, <1>a DEF Signal, LosesArmake, NoChild, PackedAll, ArmakeType, PlaceInv, Builds,
     diskVars
<1>28. CASE Kill
  BY <1>28, <1>a DEF Kill, EndCommand, NoArmake, LosesArmake, NoChild, PackedAll, ArmakeType,
     PlaceInv, Builds, diskVars
<1>29. CASE UserWrites
  BY <1>29, <1>a DEF UserWrites, With, PackedAll, ArmakeType, PlaceInv, Builds, diskVars
<1>30. CASE UserRemoves
  BY <1>30, <1>a DEF UserRemoves, Dropping, Restrict, PackedAll, ArmakeType, PlaceInv, Builds,
     diskVars
<1>. QED
  BY <1>1, <1>2, <1>3, <1>4, <1>5, <1>6, <1>7, <1>8, <1>9, <1>10, <1>11, <1>12, <1>13, <1>14,
     <1>15, <1>16, <1>17, <1>18, <1>19, <1>20, <1>21, <1>22, <1>23, <1>24, <1>25, <1>26, <1>27,
     <1>28, <1>29,
    <1>30 DEF BuildNext, ArmakeNext

\* Each step keeps the package as it was closed.
LEMMA PackageClosedStep ==
  ASSUME ArmakeType, ChildType, PlaceInv, DiskInv, PackageClosed, BuildNext
  PROVE  PackageClosed'
<1>1. CASE CallBuild
  BY <1>1 DEF CallBuild, StartCommand, NoArmake, PackageClosed, ArmakeType, PlaceInv, Output,
     Builds, diskVars
<1>2. CASE CallPack
  BY <1>2 DEF CallPack, StartCommand, NoArmake, PackageClosed, ArmakeType, PlaceInv, Output,
     Builds, diskVars
<1>3. CASE CallSnapshot
  BY <1>3 DEF CallSnapshot, StartCommand, NoArmake, PackageClosed, ArmakeType, PlaceInv, Output,
     Builds, diskVars
<1>4. CASE CallCleanup
  BY <1>4 DEF CallCleanup, StartCommand, NoArmake, PackageClosed, ArmakeType, PlaceInv, Output,
     Builds, diskVars
<1>5. CASE NoManifest
  BY <1>5 DEF NoManifest, EndCommand, NoArmake, PackageClosed, ArmakeType, PlaceInv, Output,
     Builds, diskVars
<1>6. CASE Test
  BY <1>6, TestFields, EndFields DEF Test, SameRest, PackageClosed, ArmakeType, PlaceInv, Output,
     Builds, diskVars
<1>7. CASE Map
  BY <1>7, MapFields, EndFields DEF Map, SameRest, PackageClosed, ArmakeType, PlaceInv, Output,
     Builds, diskVars
<1>8. CASE Save
  BY <1>8 DEF Save, PackageClosed, ArmakeType, PlaceInv, Output, Builds, diskVars
<1>9. CASE Saved
  BY <1>9 DEF Saved, EndCommand, NoArmake, PackageClosed, ArmakeType, PlaceInv, Output, Builds,
     diskVars
<1>10. CASE Load
  BY <1>10, LoadFields, EndFields DEF Load, SameRest, PackageClosed, ArmakeType, PlaceInv, Output,
     Builds, diskVars
<1>11. CASE StartStep
  BY <1>11, StartStepFields DEF StartStep, PackageClosed, ArmakeType, PlaceInv, Output, Builds,
     diskVars
<1>12. CASE Tidy
  BY <1>12 DEF Tidy, Dropping, Restrict, PackageClosed, ArmakeType, PlaceInv, Output, Builds,
     diskVars
<1>13. CASE Open
  BY <1>13 DEF Open, With, Spoils, PackageClosed, ArmakeType, PlaceInv, Output, Builds, diskVars
<1>14. CASE OpenFails
  BY <1>14 DEF OpenFails, PackageClosed, ArmakeType, PlaceInv, Output, Builds, diskVars
<1>15. CASE Stage
  BY <1>15 DEF Stage, PackageClosed, ArmakeType, PlaceInv, Output, Builds, diskVars
<1>16. CASE Pack
  BY <1>16, PackFields DEF Pack, Packs, PackInto, PackageClosed, ArmakeType, PlaceInv, Output,
     Builds, diskVars
<1>17. CASE Close
  BY <1>17, ZenonT(40) DEF Close, PackInto, EndCommand, NoArmake, PackageClosed, ArmakeType, PlaceInv, Output,
     Builds, diskVars
<1>18. CASE Scan
  BY <1>18 DEF Scan, PackageClosed, ArmakeType, PlaceInv, Output, Builds, diskVars
<1>19. CASE RemoveAdded
  BY <1>19, OutputNames DEF RemoveAdded, Dropping, Restrict, PackageClosed, ArmakeType, PlaceInv,
     Output, Builds, diskVars
<1>20. CASE Cleaned
  BY <1>20, OutputNames DEF Cleaned, Dropping, Restrict, Spoils, Unpacked, PackageClosed,
     ArmakeType, PlaceInv, Output, Builds, diskVars
<1>21. CASE Record
  BY <1>21 DEF Record, With, Spoils, PackageClosed, ArmakeType, PlaceInv, Output, Builds, diskVars
<1>22. CASE End
  BY <1>22 DEF End, EndCommand, NoArmake, PackageClosed, ArmakeType, PlaceInv, Output, Builds,
     diskVars
<1>23. ASSUME NEW c \in {"own", "orphan"}, ChildWrites(c) PROVE PackageClosed'
  BY <1>23, OutputNames DEF ChildWrites, With, PackageClosed, ArmakeType, PlaceInv, Output,
     Builds, diskVars
<1>24. ASSUME NEW c \in {"own", "orphan"}, ChildBuilds(c) PROVE PackageClosed'
  BY <1>24 DEF ChildBuilds, PackageClosed, ArmakeType, PlaceInv, Output, Builds, diskVars
<1>25. CASE ChildExits
  BY <1>25 DEF ChildExits, NextStep, NoChild, PackageClosed, ArmakeType, PlaceInv, Output, Builds,
     diskVars
<1>26. CASE OrphanExits
  BY <1>26 DEF OrphanExits, NoChild, PackageClosed, ArmakeType, PlaceInv, Output, Builds, diskVars
<1>27. CASE Signal
  BY <1>27 DEF Signal, LosesArmake, NoChild, PackageClosed, ArmakeType, PlaceInv, Output, Builds,
     diskVars
<1>28. CASE Kill
  BY <1>28 DEF Kill, EndCommand, NoArmake, LosesArmake, NoChild, PackageClosed, ArmakeType,
     PlaceInv, Output, Builds, diskVars
<1>29. CASE UserWrites
  BY <1>29, OutputNames DEF UserWrites, With, PackageClosed, ArmakeType, PlaceInv, Output, Builds,
     diskVars
<1>30. CASE UserRemoves
  BY <1>30, OutputNames DEF UserRemoves, Dropping, Restrict, PackageClosed, ArmakeType, PlaceInv,
     Output, Builds, diskVars
<1>. QED
  BY <1>1, <1>2, <1>3, <1>4, <1>5, <1>6, <1>7, <1>8, <1>9, <1>10, <1>11, <1>12, <1>13, <1>14,
     <1>15, <1>16, <1>17, <1>18, <1>19, <1>20, <1>21, <1>22, <1>23, <1>24, <1>25, <1>26, <1>27,
     <1>28, <1>29,
    <1>30 DEF BuildNext, ArmakeNext

\* Each step keeps the package and its hash file together.
LEMMA StoredStep ==
  ASSUME ArmakeType, ChildType, PlaceInv, DiskInv, PackBegins, PackedAll, PackageClosed, StoredInv,
         BuildNext
  PROVE  StoredInv'
<1>a. spoiled = "no" /\ Output \in DOMAIN disk /\ HashFile \in DOMAIN disk =>
        disk[Output].closed /\ MadeFrom(plan, disk', disk[HashFile], disk[Output].files)
  BY DiskLater, MadeFromLater DEF StoredInv, DiskInv
<1>1. CASE CallBuild
  BY <1>1, <1>a DEF CallBuild, StartCommand, NoArmake, StoredInv, ArmakeType, PlaceInv, HashFile,
     Output, diskVars
<1>2. CASE CallPack
  BY <1>2, <1>a DEF CallPack, StartCommand, NoArmake, StoredInv, ArmakeType, PlaceInv, HashFile,
     Output, diskVars
<1>3. CASE CallSnapshot
  BY <1>3, <1>a DEF CallSnapshot, StartCommand, NoArmake, StoredInv, ArmakeType, PlaceInv,
     HashFile, Output, diskVars
<1>4. CASE CallCleanup
  BY <1>4, <1>a DEF CallCleanup, StartCommand, NoArmake, StoredInv, ArmakeType, PlaceInv,
     HashFile, Output, diskVars
<1>5. CASE NoManifest
  BY <1>5, <1>a DEF NoManifest, EndCommand, NoArmake, StoredInv, ArmakeType, PlaceInv, HashFile,
     Output, diskVars
<1>6. CASE Test
  BY <1>6, <1>a, TestFields, EndFields DEF Test, SameRest, StoredInv, HashFile, Output,
     PackBegins, diskVars
<1>7. CASE Map
  BY <1>7, <1>a, MapFields, EndFields DEF Map, SameRest, StoredInv, HashFile, Output, PackBegins,
     diskVars
<1>8. CASE Save
  BY <1>8, <1>a DEF Save, StoredInv, ArmakeType, PlaceInv, HashFile, Output, diskVars
<1>9. CASE Saved
  BY <1>9, <1>a DEF Saved, EndCommand, NoArmake, StoredInv, ArmakeType, PlaceInv, HashFile,
     Output, diskVars
<1>10. CASE Load
  BY <1>10, <1>a, LoadFields, EndFields DEF Load, SameRest, StoredInv, HashFile, Output,
     PackBegins, diskVars
<1>11. CASE StartStep
  BY <1>11, <1>a, StartStepFields DEF StartStep, StoredInv, HashFile, Output, PackBegins, diskVars
<1>12. CASE Tidy
  BY <1>12, <1>a, OutputNames DEF Tidy, Dropping, Restrict, StoredInv, ArmakeType, PlaceInv,
     HashFile, Output, diskVars
<1>13. CASE Open
  BY <1>13, <1>a, OutputNames DEF Open, With, Spoils, StoredInv, ArmakeType, PlaceInv, HashFile,
     Output, diskVars
<1>14. CASE OpenFails
  BY <1>14, <1>a DEF OpenFails, StoredInv, ArmakeType, PlaceInv, HashFile, Output, diskVars
<1>15. CASE Stage
  BY <1>15, <1>a DEF Stage, StoredInv, ArmakeType, PlaceInv, HashFile, Output, diskVars
<1>16. CASE Pack
  BY <1>16, <1>a, PackFields DEF Pack, Packs, PackInto, StoredInv, HashFile, Output, PackBegins,
     diskVars
<1>17. CASE Close
  BY <1>17, <1>a, OutputNames DEF Close, PackInto, EndCommand, NoArmake, PackBegins, StoredInv,
     ArmakeType, PlaceInv, HashFile, Output, diskVars
<1>18. CASE Scan
  BY <1>18, <1>a DEF Scan, StoredInv, ArmakeType, PlaceInv, HashFile, Output, diskVars
<1>19. CASE RemoveAdded
  BY <1>19, <1>a, OutputNames DEF RemoveAdded, Dropping, Restrict, StoredInv, ArmakeType,
     PlaceInv, HashFile, Output, diskVars
<1>20. CASE Cleaned
  BY <1>20, <1>a, OutputNames DEF Cleaned, Dropping, Restrict, Spoils, Unpacked, StoredInv,
     ArmakeType, PlaceInv, HashFile, Output, diskVars
<1>21. CASE Record
  <2>1. CASE UNCHANGED <<disk, spoiled>>
    BY <1>21, <1>a, <2>1 DEF Record, StoredInv, HashFile, Output
  <2>2. CASE disk' = With(disk, HashFile, armake.hash) /\ Spoils("no")
    <3>. SUFFICES ASSUME spoiled # "strayed", Output \in DOMAIN disk'
                  PROVE  /\ disk'[Output].closed
                         /\ MadeFrom(plan, disk', disk'[HashFile], disk'[Output].files)
      BY <1>21, <2>2 DEF Record, StoredInv, Spoils, HashFile, Output
    <3>1. armake.pc = "record" /\ armake.cmd \in Builds /\ armake.exit = "ok"
      BY <1>21 DEF Record, PlaceInv
    <3>2. Output \in DOMAIN disk /\ disk'[Output] = disk[Output] /\ disk'[HashFile] = armake.hash
      BY <2>2, OutputNames DEF With, PlaceInv
    <3>3. disk[Output] = [files |-> armake.packed, closed |-> TRUE]
      BY <3>1, <3>2 DEF PackageClosed
    <3>4. MadeFrom(plan, disk, armake.hash, armake.packed)  BY <3>1 DEF PackedAll
    <3>5. MadeFrom(plan, disk', armake.hash, armake.packed)
      BY <3>4, DiskLater, MadeFromLater DEF DiskInv
    <3>. QED  BY <3>2, <3>3, <3>5
  <2>. QED  BY <1>21, <2>1, <2>2 DEF Record, Recorded
<1>22. CASE End
  BY <1>22, <1>a DEF End, EndCommand, NoArmake, StoredInv, ArmakeType, PlaceInv, HashFile, Output,
     diskVars
<1>23. ASSUME NEW c \in {"own", "orphan"}, ChildWrites(c) PROVE StoredInv'
  BY <1>23, <1>a, OutputNames DEF ChildWrites, With, StoredInv, ArmakeType, PlaceInv, HashFile,
     Output, diskVars
<1>24. ASSUME NEW c \in {"own", "orphan"}, ChildBuilds(c) PROVE StoredInv'
  BY <1>24, <1>a DEF ChildBuilds, StoredInv, ArmakeType, PlaceInv, HashFile, Output, diskVars
<1>25. CASE ChildExits
  BY <1>25, <1>a DEF ChildExits, NextStep, NoChild, StoredInv, ArmakeType, PlaceInv, HashFile,
     Output, diskVars
<1>26. CASE OrphanExits
  BY <1>26, <1>a DEF OrphanExits, NoChild, StoredInv, ArmakeType, PlaceInv, HashFile, Output,
     diskVars
<1>27. CASE Signal
  BY <1>27, <1>a DEF Signal, LosesArmake, NoChild, StoredInv, ArmakeType, PlaceInv, HashFile,
     Output, diskVars
<1>28. CASE Kill
  BY <1>28, <1>a DEF Kill, EndCommand, NoArmake, LosesArmake, NoChild, StoredInv, ArmakeType,
     PlaceInv, HashFile, Output, diskVars
<1>29. CASE UserWrites
  BY <1>29, <1>a, OutputNames DEF UserWrites, With, StoredInv, ArmakeType, PlaceInv, HashFile,
     Output, diskVars
<1>30. CASE UserRemoves
  BY <1>30, <1>a, OutputNames DEF UserRemoves, Dropping, Restrict, StoredInv, ArmakeType,
     PlaceInv, HashFile, Output, diskVars
<1>. QED
  BY <1>1, <1>2, <1>3, <1>4, <1>5, <1>6, <1>7, <1>8, <1>9, <1>10, <1>11, <1>12, <1>13, <1>14,
     <1>15, <1>16, <1>17, <1>18, <1>19, <1>20, <1>21, <1>22, <1>23, <1>24, <1>25, <1>26, <1>27,
     <1>28, <1>29,
    <1>30 DEF BuildNext, ArmakeNext

\* At the start nothing was built.
LEMMA BuildInitInv == ASSUME BuildInit PROVE BuildInv
<1>1. /\ disk = [n \in FirstTree |-> 0] /\ plan \in Plans /\ edits = 0 /\ kept = {}
      /\ armake = NoArmake /\ child["own"] = NoChild /\ child["orphan"] = NoChild
  BY DEF BuildInit
<1>2. ArmakeType  BY <1>1 DEF ArmakeType, NoArmake, Builds, ArmakePlaces, Exits
<1>3. ChildType  BY <1>1 DEF BuildInit, ChildType, IsChild, NoChild
<1>4. MapTypes  BY DEF BuildInit, MapTypes, NoFile
<1>5. PlaceInv /\ TreeInv  BY <1>1 DEF PlaceInv, TreeInv, NoArmake, NoChild
<1>6. HashFile \notin DOMAIN disk /\ Output \notin DOMAIN disk
  BY <1>1, OutputNames
<1>7. DiskInv
  <2>1. IsHash(<<>>, edits)  BY DEF IsHash, Versioned
  <2>2. Versioned(disk, edits)  BY <1>1 DEF Versioned
  <2>. QED  BY <1>1, <1>6, <2>1, <2>2 DEF BuildInit, DiskInv, NoArmake
<1>8. StepFilesStay /\ StepReads /\ StageHolds
  BY <1>1 DEF StepFilesStay, StepReads, StageHolds, NoArmake, NoChild
<1>9. PackBegins /\ PackGoesOn /\ PackedAll /\ PackageClosed /\ StoredInv
  BY <1>1, <1>6 DEF PackBegins, PackGoesOn, PackedAll, PackageClosed, StoredInv, NoArmake
<1>. QED  BY <1>2, <1>3, <1>4, <1>5, <1>7, <1>8, <1>9 DEF BuildInv, ProcessTypes

\* Each step keeps the invariant.
LEMMA BuildStepInv == ASSUME BuildInv, [BuildNext]_buildVars PROVE BuildInv'
<1>1. CASE BuildNext
  <2>. USE <1>1
  <2>0. /\ ArmakeType /\ ChildType /\ MapTypes /\ PlaceInv /\ TreeInv /\ DiskInv
        /\ StepFilesStay /\ StepReads /\ StageHolds /\ PackBegins /\ PackGoesOn
        /\ PackedAll /\ PackageClosed /\ StoredInv
    BY DEF BuildInv, ProcessTypes
  <2>1. ArmakeType'  BY <2>0, ArmakeTypeStep
  <2>2. ChildType'  BY <2>0, ChildTypeStep
  <2>3. MapTypes'  BY <2>0, MapTypesStep
  <2>4. PlaceInv'  BY <2>0, PlaceStep
  <2>5. TreeInv'  BY <2>0, TreeStep
  <2>6. DiskInv'  BY <2>0, DiskStep
  <2>7. StepFilesStay'  BY <2>0, StepFilesStep
  <2>8. StepReads'  BY <2>0, StepReadsStep
  <2>9. StageHolds'  BY <2>0, StageStep
  <2>10. PackBegins'  BY <2>0, PackBeginsStep
  <2>11. PackGoesOn'  BY <2>0, PackStep
  <2>12. PackedAll'  BY <2>0, PackedAllStep
  <2>13. PackageClosed'  BY <2>0, PackageClosedStep
  <2>14. StoredInv'  BY <2>0, StoredStep
  <2>. QED
    BY <2>1, <2>2, <2>3, <2>4, <2>5, <2>6, <2>7, <2>8, <2>9, <2>10, <2>11, <2>12, <2>13, <2>14
    DEF BuildInv, ProcessTypes
<1>2. CASE UNCHANGED buildVars
  <2>1. /\ plan' = plan /\ disk' = disk /\ stage' = stage /\ snapfile' = snapfile /\ armake' = armake
        /\ child' = child /\ edits' = edits /\ kept' = kept /\ late' = late /\ spoiled' = spoiled
    BY <1>2 DEF buildVars
  <2>2. ProcessTypes' /\ PlaceInv' /\ TreeInv'
    BY <2>1 DEF BuildInv, ProcessTypes, ArmakeType, ChildType, MapTypes, PlaceInv, TreeInv, Tree
  <2>3. DiskInv' /\ StepFilesStay' /\ StepReads' /\ StageHolds'
    BY <2>1 DEF BuildInv, DiskInv, StepFilesStay, StepReads, StageHolds, HashFile, Output
  <2>4. PackBegins' /\ PackGoesOn' /\ PackedAll' /\ PackageClosed' /\ StoredInv'
    BY <2>1 DEF BuildInv, PackBegins, PackGoesOn, PackedAll, PackageClosed, StoredInv, HashFile,
       Output
  <2>. QED  BY <2>2, <2>3, <2>4 DEF BuildInv
<1>. QED  BY <1>1, <1>2

\* For any manifests, names, edits, signals and kills: the inductive invariant of
\* armake on one directory (armake.c, cmd_build, cmd_snapshot, cmd_cleanup).
THEOREM BuildInvariant == BuildSpec => []BuildInv
<1>1. BuildInit => BuildInv  BY BuildInitInv
<1>2. BuildInv /\ [BuildNext]_buildVars => BuildInv'  BY BuildStepInv
<1>. QED  BY <1>1, <1>2, PTL DEF BuildSpec

\* The names and counters of armake stay in their ranges.
THEOREM BuildTypeCorrect == BuildSpec => []BuildTypeOK
<1>1. BuildInv => BuildTypeOK
  BY DEF BuildInv, ProcessTypes, ArmakeType, MapTypes, PlaceInv, DiskInv, BuildTypeOK
<1>. QED  BY <1>1, BuildInvariant, PTL

\* However a build or a cleanup goes, and wherever a signal ends it, only what was
\* added since the directory was mapped is removed, and all of it that was listed
\* (armake.c:471, cleanup_and_report).
THEOREM BuildRestoresTreeCorrect == BuildSpec => []BuildRestoresTree
<1>1. BuildInv => BuildRestoresTree  BY DEF BuildInv, TreeInv, BuildRestoresTree
<1>. QED  BY <1>1, BuildInvariant, PTL

\* An answer UP-TO-DATE is true: the package was made to its end from the sources
\* as they are, unless its last rewrite was cut off or a step outlived its armake
\* (armake.c:1627).
THEOREM UpToDateIsTrueCorrect == BuildSpec => []UpToDateIsTrue
<1>1. ASSUME BuildInv PROVE UpToDateIsTrue
  <2>. SUFFICES ASSUME UpToDate, spoiled = "no" PROVE HoldsSources  BY DEF UpToDateIsTrue
  <2>. DEFINE h == disk[HashFile]
  <2>1. disk[Output].closed /\ MadeFrom(plan, disk, h, disk[Output].files)
    BY <1>1 DEF BuildInv, StoredInv, UpToDate
  <2>2. h = SourceHash  BY DEF UpToDate
  <2>3. \A n \in Tree \ Unhashed : n \in DOMAIN h /\ h[n] = disk[n] /\ Unchanged(disk, h, n)
    BY <2>2 DEF SourceHash, Restrict, Unchanged, Tree
  <2>4. Code \cap Tree \subseteq Tree \ Unhashed /\ Tree \subseteq Inside
    BY DEF Tree
  <2>. HIDE DEF h
  <2>5. \A f, S : Matches(disk, h, f, S) =>
          \A n \in S \cap (Tree \ Unhashed) : n \in DOMAIN f /\ f[n] = disk[n]
    BY <2>3 DEF Matches
  <2>6. CASE plan.files = <<>>  BY <2>1, <2>4, <2>5, <2>6 DEF MadeFrom, HoldsSources
  <2>7. CASE plan.files # <<>> /\ plan.steps = 0
    BY <2>1, <2>4, <2>5, <2>7 DEF MadeFrom, HoldsSources
  <2>8. CASE plan.files # <<>> /\ plan.steps # 0
    BY <2>1, <2>4, <2>5, <2>8 DEF MadeFrom, HoldsSources
  <2>. QED  BY <2>6, <2>7, <2>8
<1>. QED  BY <1>1, BuildInvariant, PTL

HIDE BuildAssumption

(***************************************************************************)
(* The signed index                                                        *)
(***************************************************************************)
IndexKeys == {f.key : f \in KeyFiles} \cup {0}
EntryType == [path : Names, size : Nat, mode : Nat, digest : Seq(Nat)]
WireType == {Wire(list, key) : list \in Seq(EntryType), key \in IndexKeys}
BuildPlaces == {"idle", "scan", "open", "read", "rename"}
BuildType == [pc : BuildPlaces, key : IndexKeys, start : SUBSET Names, visited : SUBSET Names,
              path : Names \cup {0}, seen : SUBSET FileContents, half : Seq(Nat),
              entries : Seq(EntryType), temp : Names \cup {0}, calm : BOOLEAN]
VerifyType == [pc : {"idle", "parse", "open", "hash", "done"}, key : IndexKeys, wire : SUBSET WireType,
               left : Seq(EntryType), half : Seq(Nat),
               answer : {"none", "refused", "changed", "ok"}, calm : BOOLEAN]

IndexTypes ==
  /\ dir \in [Names -> SUBSET FileContents] /\ \A n \in Names : \A f, g \in dir[n] : f = g
  /\ index \subseteq [wire : WireType, calm : BOOLEAN] /\ \A i, j \in index : i = j
  /\ builder \in [Builders -> BuildType] /\ verifier \in VerifyType
  /\ builds \in 0..MaxBuilds /\ writes \in 0..MaxWrites

\* The names of a list of entries, and a list that names no file twice.
EntryPaths(list) == {list[i].path : i \in DOMAIN list}
NamesOnce(list) == \A i, j \in DOMAIN list : list[i].path = list[j].path => i = j
NamesNoneOf(list, S) == \A i \in DOMAIN list : list[i].path \notin S

\* What a build under way holds, disturbed or not: entries of the names it
\* visited, none of them the index or a mutable one, and the name at hand is new.
BuildHolds(r) ==
  /\ r.pc # "idle" => /\ r.visited = EntryPaths(r.entries) /\ NamesOnce(r.entries)
                      /\ NamesNoneOf(r.entries, Mutable)
                      /\ IndexName \notin r.start \cup r.visited
  /\ r.pc \in {"open", "read"} => r.path \in Names \ (r.visited \cup {IndexName})
  /\ r.pc = "read" => r.path \notin Mutable
  /\ r.pc = "rename" => r.temp \in Temps

\* An entry that says what a directory holds.
Describes(e, d) ==
  \E f \in d[e.path] : f.kind = "file" /\ f.mode = e.mode /\ f.data = e.digest /\ e.size = Len(f.data)
ListDescribes(list, d) == \A i \in DOMAIN list : Describes(list[i], d)

\* What an undisturbed build knows: the directory is the one it began with but
\* for its own temporary file, and what it has read is what is there.
Undisturbed(r, d) ==
  r.pc # "idle" /\ r.calm =>
    /\ ListDescribes(r.entries, d) /\ r.visited \subseteq r.start
    /\ r.pc # "rename" => Present(d) \ {IndexName} = r.start
    /\ r.pc = "rename" => /\ Present(d) \ {IndexName} = r.start \cup {r.temp}
                          /\ r.temp \notin r.start /\ r.start = r.visited
    /\ r.pc = "read" => \E f \in d[r.path] : /\ r.seen = {f} /\ f.kind = "file"
                                             /\ r.half = FirstChunk(f)

\* An undisturbed build is alone.
CalmIsAlone == \A b, c \in Builders :
  builder[b].pc # "idle" /\ builder[b].calm /\ builder[c].pc # "idle" => b = c

\* What the parser asks of a list, and what an undisturbed index says of the
\* directory: nobody is going to remove a file that it lists.
InOrder(list) == \A i, j \in DOMAIN list : i < j => list[i].path < list[j].path
WireHolds(w) == InOrder(w.entries) /\ NamesNoneOf(w.entries, Mutable \cup {IndexName})
WireFits(w) ==
  /\ ListDescribes(w.entries, dir) /\ Present(dir) \cap Paths \subseteq EntryPaths(w.entries)
  /\ \A b \in Builders : builder[b].pc = "rename" => builder[b].temp \notin EntryPaths(w.entries)

BuildersInv == /\ \A b \in Builders : BuildHolds(builder[b]) /\ Undisturbed(builder[b], dir)
               /\ CalmIsAlone
InstalledInv == \A i \in index : WireHolds(i.wire) /\ (i.calm => WireFits(i.wire))
\* The verifier has the whole of one index at hand and has not found a
\* difference to an undisturbed one.
VerifierInv ==
  /\ verifier.pc # "done" => verifier.answer = "none"
  /\ verifier.pc = "hash" => verifier.left # <<>>
  /\ \A v, w \in verifier.wire : v = w
  /\ \A w \in verifier.wire :
       /\ WireHolds(w) /\ (verifier.calm => WireFits(w))
       /\ verifier.pc \in {"open", "hash"} =>
            w.signature[1] = verifier.key /\ Range(verifier.left) \subseteq Range(w.entries)
       /\ verifier.pc = "hash" /\ verifier.calm =>
            \E f \in dir[Head(verifier.left).path] : verifier.half = FirstChunk(f)
       /\ verifier.answer = "ok" => w.signature[1] = verifier.key
       /\ verifier.calm /\ w.signature[1] = verifier.key => verifier.answer \in {"none", "ok"}

IndexInv == IndexTypes /\ BuildersInv /\ InstalledInv /\ VerifierInv

USE IndexAssumption

\* The two chunks of a file that nobody changes are its contents.
LEMMA ChunksAreAll == ASSUME NEW f \in FileContents PROVE Chunks(FirstChunk(f), f) = f.data
<1>1. f.data \in Seq(Nat)  BY DEF FileContents
<1>2. CASE f.data = <<>>  BY <1>2 DEF Chunks, FirstChunk
<1>3. CASE f.data # <<>>
  <2>. DEFINE s == f.data
              t == <<Head(s)>> \o SubSeq(s, 2, Len(s))
  <2>1. s \in Seq(Nat) /\ Len(s) \in Nat \ {0} /\ Head(s) = s[1] /\ s[1] \in Nat
    BY <1>1, <1>3
  <2>2. SubSeq(s, 2, Len(s)) \in Seq(Nat) /\ Len(SubSeq(s, 2, Len(s))) = Len(s) - 1
    BY <2>1
  <2>3. \A i \in 1..(Len(s) - 1) : SubSeq(s, 2, Len(s))[i] = s[i + 1]
    BY <2>1
  <2>4. t \in Seq(Nat) /\ Len(t) = Len(s)  BY <2>1, <2>2
  <2>5. ASSUME NEW i \in 1..Len(s) PROVE t[i] = s[i]
    <3>1. CASE i = 1  BY <2>1, <2>2, <3>1
    <3>2. CASE i # 1
      <4>1. i - 1 \in 1..(Len(s) - 1) /\ (i - 1) + 1 = i  BY <2>1, <3>2
      <4>2. t[i] = SubSeq(s, 2, Len(s))[i - 1]  BY <2>1, <2>2, <3>2
      <4>. QED  BY <2>3, <4>1, <4>2
    <3>. QED  BY <3>1, <3>2
  <2>6. t = s  BY <2>1, <2>4, <2>5
  <2>7. <<Head(s)>> # <<>>  OBVIOUS
  <2>. QED  BY <1>3, <2>6, <2>7 DEF Chunks, FirstChunk
<1>. QED  BY <1>2, <1>3

\* A sorted list of entries with different paths has the same entries, each
\* path above the one before.
LEMMA SortFact ==
  ASSUME NEW entries \in Seq(EntryType), NamesOnce(entries), NEW list \in Sorted(entries)
  PROVE  /\ list \in Seq(EntryType) /\ InOrder(list)
         /\ \A i \in DOMAIN list : \E j \in DOMAIN entries : list[i] = entries[j]
         /\ \A j \in DOMAIN entries : \E i \in DOMAIN list : list[i] = entries[j]
<1>. DEFINE D == DOMAIN entries
<1>1. PICK f \in Bijection(D, D) :
        /\ list = [i \in D |-> entries[f[i]]]
        /\ \A i, j \in D : i < j => entries[f[i]].path <= entries[f[j]].path
  BY DEF Sorted
<1>2. /\ f \in [D -> D] /\ \A i, j \in D : f[i] = f[j] => i = j
      /\ \A j \in D : \E i \in D : f[i] = j
  BY DEF Bijection, Injection, IsInjective, Surjection
<1>3. Len(entries) \in Nat /\ D = 1..Len(entries) /\ \A i \in D : entries[i] \in EntryType
  OBVIOUS
<1>4. DOMAIN list = D /\ \A i \in D : list[i] = entries[f[i]] /\ f[i] \in D  BY <1>1, <1>2
<1>5. list \in Seq(EntryType)  BY <1>1, <1>2, <1>3
<1>6. InOrder(list)
  <2>. SUFFICES ASSUME NEW i \in D, NEW j \in D, i < j PROVE list[i].path < list[j].path
    BY <1>4 DEF InOrder
  <2>1. f[i] # f[j]  BY <1>2, <1>3
  <2>2. entries[f[i]].path # entries[f[j]].path  BY <1>4, <2>1 DEF NamesOnce
  <2>3. entries[f[i]].path \in Int /\ entries[f[j]].path \in Int
    BY <1>3, <1>4 DEF EntryType, Names
  <2>4. entries[f[i]].path <= entries[f[j]].path  BY <1>1
  <2>5. entries[f[i]].path < entries[f[j]].path  BY <2>2, <2>3, <2>4
  <2>. QED  BY <1>4, <2>5
<1>. QED  BY <1>2, <1>4, <1>5, <1>6

\* What a wire is made of.
LEMMA WireFact ==
  ASSUME NEW w \in WireType
  PROVE  /\ w.entries \in Seq(EntryType) /\ w.total = Total(w.entries)
         /\ w.signature = <<w.signature[1], w.entries, w.total>> /\ w.signature[1] \in IndexKeys
<1>1. PICK list \in Seq(EntryType), key \in IndexKeys : w = Wire(list, key)  BY DEF WireType
<1>. QED  BY <1>1 DEF Wire

\* What a builder wrote is refused only under another key.
LEMMA ParseFact ==
  ASSUME NEW w \in WireType, WireHolds(w), NEW key
  PROVE  ParseAccepts(w, key) <=> w.signature[1] = key
<1>1. /\ w.entries \in Seq(EntryType) /\ w.total = Total(w.entries)
      /\ w.signature = <<w.signature[1], w.entries, w.total>>
  BY WireFact
<1>2. ASSUME NEW i \in 1..Len(w.entries)
      PROVE  /\ ~PathIsMutable(w.entries[i].path)
             /\ i > 1 => w.entries[i - 1].path < w.entries[i].path
  <2>1. i \in DOMAIN w.entries  BY <1>1
  <2>2. i > 1 => i - 1 \in DOMAIN w.entries /\ i - 1 < i  BY <1>1
  <2>. QED  BY <2>1, <2>2 DEF WireHolds, InOrder, NamesNoneOf, PathIsMutable
<1>3. ASSUME w.signature[1] = key PROVE w.signature = <<key, w.entries, w.total>>
  BY <1>1, <1>3
<1>4. ASSUME w.signature = <<key, w.entries, w.total>> PROVE w.signature[1] = key
  BY <1>4
<1>. QED  BY <1>1, <1>2, <1>3, <1>4 DEF ParseAccepts

\* An index goes on to describe the directory while its files stay and no
\* builder is about to remove one of them.
LEMMA FitsStays ==
  ASSUME NEW w \in WireType, WireFits(w),
         \A n \in EntryPaths(w.entries) \cup Paths : dir'[n] = dir[n],
         \A b \in Builders :
           builder'[b].pc = "rename" => builder'[b].temp \notin EntryPaths(w.entries)
  PROVE  WireFits(w)'
<1>1. ASSUME NEW i \in DOMAIN w.entries PROVE Describes(w.entries[i], dir')
  <2>1. w.entries[i].path \in EntryPaths(w.entries)  BY DEF EntryPaths
  <2>2. Describes(w.entries[i], dir)  BY DEF WireFits, ListDescribes
  <2>. QED  BY <2>1, <2>2 DEF Describes
<1>2. Present(dir') \cap Paths \subseteq EntryPaths(w.entries)
  BY DEF Present, WireFits
<1>. QED  BY <1>1, <1>2 DEF WireFits, ListDescribes

\* What is said of the verifier in a step that is not its own, ...
LEMMA VerifierStays ==
  ASSUME IndexInv, UNCHANGED verifier,
         \A w \in verifier.wire : verifier.calm =>
           WireFits(w)' /\ \A n \in EntryPaths(w.entries) : dir'[n] = dir[n]
  PROVE  VerifierInv'
<1>1. ASSUME NEW w \in verifier.wire, verifier.pc = "hash", verifier.calm
      PROVE  \E f \in dir'[Head(verifier.left).path] : verifier.half = FirstChunk(f)
  <2>1. w \in WireType /\ verifier.left \in Seq(EntryType)
    BY <1>1 DEF IndexInv, IndexTypes, VerifyType
  <2>2. verifier.left # <<>> /\ Range(verifier.left) \subseteq Range(w.entries)
    BY <1>1 DEF IndexInv, VerifierInv
  <2>3. Head(verifier.left) \in Range(w.entries)
    <3>1. 1 \in DOMAIN verifier.left /\ Head(verifier.left) = verifier.left[1]  BY <2>1, <2>2
    <3>2. Head(verifier.left) \in Range(verifier.left)  BY <3>1 DEF Range
    <3>. QED  BY <2>2, <3>2
  <2>4. Head(verifier.left).path \in EntryPaths(w.entries)
    BY <2>3 DEF Range, EntryPaths
  <2>5. dir'[Head(verifier.left).path] = dir[Head(verifier.left).path]  BY <1>1, <2>4
  <2>. QED  BY <1>1, <2>5 DEF IndexInv, VerifierInv
<1>2. ASSUME NEW w \in verifier.wire
      PROVE  WireHolds(w) /\ (verifier.calm => WireFits(w)')
  BY <1>2 DEF IndexInv, VerifierInv
<1>. QED  BY <1>1, <1>2 DEF IndexInv, VerifierInv, WireHolds, FirstChunk

\* ... and of the installed index as well.
LEMMA IndexesStay ==
  ASSUME IndexInv, UNCHANGED <<index, verifier>>,
         \A w \in WireType : WireHolds(w) /\ WireFits(w) => WireFits(w)',
         \A w \in WireType : WireFits(w) => \A n \in EntryPaths(w.entries) : dir'[n] = dir[n]
  PROVE  InstalledInv' /\ VerifierInv'
<1>1. InstalledInv'
  BY DEF IndexInv, IndexTypes, InstalledInv, WireHolds
<1>2. ASSUME NEW w \in verifier.wire, verifier.calm
      PROVE  WireFits(w)' /\ \A n \in EntryPaths(w.entries) : dir'[n] = dir[n]
  BY <1>2 DEF IndexInv, IndexTypes, VerifyType, VerifierInv
<1>. QED  BY <1>1, <1>2, VerifierStays

\* A step of a builder that leaves the directory alone.
LEMMA QuietStep ==
  ASSUME IndexInv, NEW b \in Builders, NEW r \in BuildType,
         builder' = [builder EXCEPT ![b] = r], BuildHolds(r), Undisturbed(r, dir),
         r.pc # "rename",
         r.pc # "idle" => builder[b].pc # "idle" /\ (r.calm => builder[b].calm),
         UNCHANGED <<dir, index, verifier, builds, writes>>
  PROVE  IndexInv'
<1>1. \A c \in Builders : builder'[c] = IF c = b THEN r ELSE builder[c]
  BY DEF IndexInv, IndexTypes
<1>2. IndexTypes'  BY DEF IndexInv, IndexTypes
<1>3. BuildersInv'
  <2>1. ASSUME NEW c \in Builders PROVE BuildHolds(builder'[c]) /\ Undisturbed(builder'[c], dir')
    BY <1>1 DEF IndexInv, BuildersInv
  <2>2. CalmIsAlone'  BY <1>1 DEF IndexInv, BuildersInv, CalmIsAlone
  <2>. QED  BY <2>1, <2>2 DEF BuildersInv
<1>4. ASSUME NEW w \in WireType, WireFits(w) PROVE WireFits(w)'
  <2>1. \A c \in Builders : builder'[c].pc = "rename" => builder'[c].temp \notin EntryPaths(w.entries)
    BY <1>1, <1>4 DEF WireFits
  <2>. QED  BY <1>4, <2>1, FitsStays
<1>. QED  BY <1>2, <1>3, <1>4, IndexesStay DEF IndexInv

\* A build that gives up leaves nothing to say.
LEMMA NoBuildFact ==
  /\ NoBuild \in BuildType /\ NoBuild.pc = "idle"
  /\ \A d : BuildHolds(NoBuild) /\ Undisturbed(NoBuild, d)
<1>1. <<>> \in Seq(Nat) /\ <<>> \in Seq(EntryType)  OBVIOUS
<1>2. NoBuild \in BuildType  BY <1>1 DEF NoBuild, BuildType, BuildPlaces, IndexKeys
<1>3. NoBuild.pc = "idle"  BY DEF NoBuild
<1>. QED  BY <1>2, <1>3 DEF BuildHolds, Undisturbed

\* A failed build changes nothing but its own place.
LEMMA FailsInv ==
  ASSUME IndexInv, NEW b \in Builders, Fails(b) PROVE IndexInv'
<1>1. /\ builder' = [builder EXCEPT ![b] = NoBuild]
      /\ UNCHANGED <<dir, index, verifier, builds, writes>>
  BY DEF Fails, Set
<1>. QED  BY <1>1, NoBuildFact, QuietStep

\* The names that are looked at.
LEMMA ScannedFact ==
  /\ Scanned = Present(dir) \ {IndexName} /\ Scanned \subseteq Names \ {IndexName}
  /\ \A n \in Names : n \in Scanned <=> dir[n] # {} /\ n # IndexName
BY DEF Scanned, Present

\* A build begins with an empty list; whoever is beside it is disturbed.
LEMMA StartsInv ==
  ASSUME IndexInv, NEW b \in Builders, BuildStarts(b) PROVE IndexInv'
<1>0. PICK f \in KeyFiles : \E key \in PrivateKey(f) :
        LET alone == \A c \in Builders : builder[c].pc = "idle"
            begun == [NoBuild EXCEPT !.pc = "scan", !.key = key,
                                     !.start = Scanned, !.calm = alone]
        IN  builder' = [(IF alone THEN builder ELSE Disturbed(builder)) EXCEPT ![b] = begun]
  BY DEF BuildStarts
<1>1. PICK key \in PrivateKey(f) :
        LET alone == \A c \in Builders : builder[c].pc = "idle"
            begun == [NoBuild EXCEPT !.pc = "scan", !.key = key,
                                     !.start = Scanned, !.calm = alone]
        IN  builder' = [(IF alone THEN builder ELSE Disturbed(builder)) EXCEPT ![b] = begun]
  BY <1>0
<1>. DEFINE alone == \A c \in Builders : builder[c].pc = "idle"
            r == [NoBuild EXCEPT !.pc = "scan", !.key = key, !.start = Scanned, !.calm = alone]
<1>2. builder[b].pc = "idle" /\ builds < MaxBuilds /\ builds' = builds + 1
      /\ UNCHANGED <<dir, index, verifier, writes>>
  BY DEF BuildStarts
<1>3. key \in IndexKeys  BY DEF PrivateKey, IndexKeys
<1>4. /\ r \in BuildType /\ r.pc = "scan" /\ r.visited = {} /\ r.entries = <<>> /\ r.start = Scanned
      /\ r.calm = alone
  <2>1. PICK q \in BuildType : q = NoBuild  BY NoBuildFact
  <2>2. q.visited = {} /\ q.entries = <<>>  BY <2>1 DEF NoBuild
  <2>4. alone \in BOOLEAN /\ Scanned \in SUBSET Names  BY ScannedFact
  <2>5. PICK al \in BOOLEAN : al = alone  BY Zenon
  <2>6. r = [q EXCEPT !.pc = "scan", !.key = key, !.start = Scanned, !.calm = al]
    BY <2>1, <2>5, Zenon
  <2>. HIDE DEF r, alone
  <2>7. /\ r \in BuildType /\ r.pc = "scan" /\ r.visited = q.visited
        /\ r.entries = q.entries /\ r.start = Scanned /\ r.calm = al
    BY <1>3, <2>4, <2>6 DEF BuildType, BuildPlaces
  <2>. QED  BY <2>2, <2>5, <2>7
<1>5. BuildHolds(r) /\ Undisturbed(r, dir)
  BY <1>4, ScannedFact DEF BuildHolds, Undisturbed, EntryPaths, NamesOnce, NamesNoneOf, ListDescribes
<1>. HIDE DEF r
<1>6. \A c \in Builders : builder[c] \in BuildType  BY DEF IndexInv, IndexTypes
<1>7. ASSUME NEW c \in Builders
      PROVE  /\ builder'[c] = IF c = b THEN r ELSE IF alone THEN builder[c]
                              ELSE [builder[c] EXCEPT !.calm = FALSE]
             /\ builder'[c] \in BuildType
             /\ c # b => builder'[c].pc = builder[c].pc /\ builder'[c].temp = builder[c].temp
             /\ c # b => BuildHolds(builder'[c]) /\ Undisturbed(builder'[c], dir)
  <2>1. builder'[c] = IF c = b THEN r ELSE IF alone THEN builder[c]
                      ELSE [builder[c] EXCEPT !.calm = FALSE]
    <3>1. CASE alone
      BY <1>1, <3>1 DEF IndexInv, IndexTypes, r
    <3>2. CASE ~alone
      BY <1>1, <3>2 DEF Disturbed, r
    <3>. QED  BY <3>1, <3>2
  <2>2. PICK q \in BuildType : q = builder[c]  BY <1>6
  <2>3. /\ [q EXCEPT !.calm = FALSE] \in BuildType
        /\ ~ [q EXCEPT !.calm = FALSE].calm
        /\ \A x \in {[q EXCEPT !.calm = FALSE]} :
             /\ x.pc = q.pc /\ x.temp = q.temp /\ x.start = q.start /\ x.visited = q.visited
             /\ x.entries = q.entries /\ x.path = q.path
    BY DEF BuildType
  <2>4. BuildHolds(q) /\ Undisturbed(q, dir)  BY <2>2 DEF IndexInv, BuildersInv
  <2>5. BuildHolds([q EXCEPT !.calm = FALSE]) /\ Undisturbed([q EXCEPT !.calm = FALSE], dir)
    BY <2>3, <2>4 DEF BuildHolds, Undisturbed
  <2>. QED  BY <1>4, <2>1, <2>2, <2>3, <2>4, <2>5
<1>8. builder' \in [Builders -> BuildType]
  <2>1. DOMAIN builder' = Builders
    BY <1>1 DEF IndexInv, IndexTypes, Disturbed
  <2>2. builder' = [c \in Builders |-> builder'[c]]
    BY <1>1, <2>1 DEF IndexInv, IndexTypes, Disturbed
  <2>. QED  BY <1>7, <2>2
<1>9. IndexTypes'
  BY <1>2, <1>8 DEF IndexInv, IndexTypes
<1>10. BuildersInv'
  <2>1. ASSUME NEW c \in Builders PROVE BuildHolds(builder'[c]) /\ Undisturbed(builder'[c], dir')
    BY <1>2, <1>5, <1>7
  <2>2. CalmIsAlone'
    <3>. SUFFICES ASSUME NEW c \in Builders, NEW d \in Builders, builder'[c].pc # "idle",
                         builder'[c].calm, builder'[d].pc # "idle"
                  PROVE  c = d
      BY DEF CalmIsAlone
    <3>1. CASE alone  BY <1>7, <3>1
    <3>2. CASE ~alone
      <4>1. ~ builder'[b].calm  BY <1>4, <1>7, <3>2
      <4>2. c # b  BY <4>1
      <4>3. PICK q \in BuildType : q = builder[c]  BY <1>6
      <4>4. ~ [q EXCEPT !.calm = FALSE].calm  BY DEF BuildType
      <4>. QED  BY <1>7, <3>2, <4>2, <4>3, <4>4
    <3>. QED  BY <3>1, <3>2
  <2>. QED  BY <2>1, <2>2 DEF BuildersInv
<1>11. ASSUME NEW w \in WireType, WireFits(w) PROVE WireFits(w)'
  <2>1. \A c \in Builders : builder'[c].pc = "rename" => builder'[c].temp \notin EntryPaths(w.entries)
    BY <1>4, <1>7, <1>11 DEF WireFits
  <2>. QED  BY <1>2, <1>11, <2>1, FitsStays
<1>. QED  BY <1>2, <1>9, <1>10, <1>11, IndexesStay DEF IndexInv

\* The next name of the scan is one that was not visited.
LEMMA StatsInv ==
  ASSUME IndexInv, NEW b \in Builders, BuildStats(b) PROVE IndexInv'
<1>. PICK q \in BuildType : q = builder[b]  BY DEF IndexInv, IndexTypes
<1>1. BuildHolds(q) /\ Undisturbed(q, dir) /\ q.pc = "scan"
  BY DEF IndexInv, BuildersInv, BuildStats
<1>2. CASE Fails(b)  BY <1>2, FailsInv
<1>3. CASE ~Fails(b)
  <2>1. PICK n \in (Scanned \cup q.start) \ q.visited : \E f \in dir[n] :
          /\ f.kind = "file" /\ Set(b, [q EXCEPT !.pc = "open", !.path = n, !.seen = {f}])
          /\ UNCHANGED <<dir, index, verifier, builds, writes>>
    BY <1>3 DEF BuildStats
  <2>2. PICK f \in dir[n] :
          /\ f.kind = "file" /\ Set(b, [q EXCEPT !.pc = "open", !.path = n, !.seen = {f}])
          /\ UNCHANGED <<dir, index, verifier, builds, writes>>
    BY <2>1
  <2>. DEFINE r == [q EXCEPT !.pc = "open", !.path = n, !.seen = {f}]
  <2>3. n \in Names \ (q.visited \cup {IndexName})
    BY <1>1, <2>1, ScannedFact DEF BuildHolds, BuildType
  <2>4. f \in FileContents  BY <2>3 DEF IndexInv, IndexTypes
  <2>5. /\ r \in BuildType /\ r.pc = "open" /\ r.path = n /\ r.entries = q.entries
        /\ r.visited = q.visited /\ r.start = q.start /\ r.calm = q.calm
    BY <2>3, <2>4 DEF BuildType, BuildPlaces
  <2>. HIDE DEF r
  <2>6. BuildHolds(r)  BY <1>1, <2>3, <2>5 DEF BuildHolds
  <2>7. Undisturbed(r, dir)  BY <1>1, <2>5 DEF Undisturbed
  <2>8. builder' = [builder EXCEPT ![b] = r]  BY <2>2 DEF Set, r
  <2>. QED  BY <1>1, <2>2, <2>5, <2>6, <2>7, <2>8, QuietStep
<1>. QED  BY <1>2, <1>3

\* The file that is opened is the one in the directory, and not a mutable one.
LEMMA OpensInv ==
  ASSUME IndexInv, NEW b \in Builders, BuildOpens(b) PROVE IndexInv'
<1>. PICK q \in BuildType : q = builder[b]  BY DEF IndexInv, IndexTypes
<1>1. BuildHolds(q) /\ Undisturbed(q, dir) /\ q.pc = "open"
  BY DEF IndexInv, BuildersInv, BuildOpens
<1>2. CASE Fails(b)  BY <1>2, FailsInv
<1>3. CASE ~Fails(b)
  <2>1. PICK now \in dir[q.path] :
          /\ \E g \in dir[q.path] : g.kind = "file"
          /\ ~PathIsMutable(q.path)
          /\ Set(b, [q EXCEPT !.pc = "read", !.seen = {now}, !.half = FirstChunk(now)])
          /\ UNCHANGED <<dir, index, verifier, builds, writes>>
    BY <1>3 DEF BuildOpens
  <2>2. q.path \in Names \ (q.visited \cup {IndexName})  BY <1>1 DEF BuildHolds
  <2>3. now \in FileContents /\ now.kind = "file"
    BY <2>1, <2>2 DEF IndexInv, IndexTypes
  <2>4. FirstChunk(now) \in Seq(Nat)
    BY <2>3 DEF FileContents, FirstChunk
  <2>. DEFINE r == [q EXCEPT !.pc = "read", !.seen = {now}, !.half = FirstChunk(now)]
  <2>5. /\ r \in BuildType /\ r.pc = "read" /\ r.path = q.path /\ r.entries = q.entries
        /\ r.visited = q.visited /\ r.start = q.start /\ r.calm = q.calm
        /\ r.seen = {now} /\ r.half = FirstChunk(now)
    BY <2>3, <2>4 DEF BuildType, BuildPlaces
  <2>. HIDE DEF r
  <2>6. BuildHolds(r)  BY <1>1, <2>1, <2>2, <2>5 DEF BuildHolds, PathIsMutable
  <2>7. Undisturbed(r, dir)  BY <1>1, <2>1, <2>3, <2>5 DEF Undisturbed
  <2>8. builder' = [builder EXCEPT ![b] = r]  BY <2>1 DEF Set, r
  <2>. QED  BY <1>1, <2>1, <2>5, <2>6, <2>7, <2>8, QuietStep
<1>. QED  BY <1>2, <1>3

\* A list with one entry more.
LEMMA AppendFact ==
  ASSUME NEW list \in Seq(EntryType), NEW e \in EntryType
  PROVE  /\ Append(list, e) \in Seq(EntryType)
         /\ EntryPaths(Append(list, e)) = EntryPaths(list) \cup {e.path}
         /\ NamesOnce(list) /\ e.path \notin EntryPaths(list) => NamesOnce(Append(list, e))
         /\ \A S : NamesNoneOf(list, S) /\ e.path \notin S => NamesNoneOf(Append(list, e), S)
         /\ \A d : ListDescribes(list, d) /\ Describes(e, d) => ListDescribes(Append(list, e), d)
<1>. DEFINE more == Append(list, e)
<1>1. /\ Len(list) \in Nat /\ DOMAIN list = 1..Len(list) /\ more \in Seq(EntryType)
      /\ DOMAIN more = 1..(Len(list) + 1) /\ more[Len(list) + 1] = e
      /\ \A i \in DOMAIN list : more[i] = list[i]
  OBVIOUS
<1>2. \A i \in DOMAIN more : i \in DOMAIN list \/ i = Len(list) + 1  BY <1>1
<1>3. DOMAIN list \subseteq DOMAIN more /\ Len(list) + 1 \in DOMAIN more  BY <1>1
<1>. HIDE DEF more
<1>4. EntryPaths(more) = EntryPaths(list) \cup {e.path}
  BY <1>1, <1>2, <1>3 DEF EntryPaths
<1>5. ASSUME NamesOnce(list), e.path \notin EntryPaths(list) PROVE NamesOnce(more)
  BY <1>1, <1>2, <1>5 DEF EntryPaths, NamesOnce
<1>6. ASSUME NEW S, NamesNoneOf(list, S), e.path \notin S PROVE NamesNoneOf(more, S)
  BY <1>1, <1>2, <1>6 DEF NamesNoneOf
<1>7. ASSUME NEW d, ListDescribes(list, d), Describes(e, d) PROVE ListDescribes(more, d)
  BY <1>1, <1>2, <1>7 DEF ListDescribes
<1>. QED  BY <1>1, <1>4, <1>5, <1>6, <1>7 DEF more

\* The entry that is added describes the file, unless the build was disturbed.
LEMMA ReadsInv ==
  ASSUME IndexInv, NEW b \in Builders, BuildReads(b) PROVE IndexInv'
<1>. PICK q \in BuildType : q = builder[b]  BY DEF IndexInv, IndexTypes
<1>1. BuildHolds(q) /\ Undisturbed(q, dir) /\ q.pc = "read"
  BY DEF IndexInv, BuildersInv, BuildReads
<1>2. CASE Fails(b)  BY <1>2, FailsInv
<1>3. CASE ~Fails(b)
  <2>. DEFINE now(opened) == IF dir[q.path] = {} THEN opened ELSE CHOOSE f \in dir[q.path] : TRUE
              read(opened) == Chunks(q.half, now(opened))
              item(opened) == [path |-> q.path, size |-> Len(opened.data),
                                mode |-> opened.mode, digest |-> read(opened)]
  <2>1. PICK opened \in q.seen :
          /\ now(opened).kind = "file" /\ Len(read(opened)) = Len(opened.data)
          /\ Set(b, [q EXCEPT !.pc = "scan", !.visited = @ \cup {q.path},
                              !.entries = Append(@, item(opened))])
          /\ UNCHANGED <<dir, index, verifier, builds, writes>>
    BY <1>3 DEF BuildReads
  <2>2. /\ q.path \in Names \ (q.visited \cup {IndexName}) /\ q.path \notin Mutable
        /\ q.visited = EntryPaths(q.entries)
    BY <1>1 DEF BuildHolds
  <2>3. opened \in FileContents /\ q.entries \in Seq(EntryType) /\ q.half \in Seq(Nat)
    BY DEF BuildType
  <2>4. now(opened) \in FileContents
    <3>1. dir[q.path] \subseteq FileContents  BY <2>2 DEF IndexInv, IndexTypes
    <3>. QED  BY <2>3, <3>1
  <2>5. read(opened) \in Seq(Nat)
    <3>1. ASSUME NEW s \in Seq(Nat) PROVE SubSeq(s, 2, Len(s)) \in Seq(Nat)
      <4>1. \A i \in 2..Len(s) : s[i] \in Nat  OBVIOUS
      <4>. QED  BY SubSeqProperties
    <3>2. now(opened).data \in Seq(Nat)  BY <2>4 DEF FileContents
    <3>3. ASSUME NEW s \in Seq(Nat), NEW t \in Seq(Nat) PROVE s \o t \in Seq(Nat)
      BY ConcatProperties
    <3>4. SubSeq(now(opened).data, 2, Len(now(opened).data)) \in Seq(Nat)  BY <3>1, <3>2
    <3>5. q.half \o SubSeq(now(opened).data, 2, Len(now(opened).data)) \in Seq(Nat)
      BY <2>3, <3>3, <3>4
    <3>6. <<>> \in Seq(Nat)  OBVIOUS
    <3>. QED  BY <3>5, <3>6 DEF Chunks
  <2>6. item(opened) \in EntryType /\ item(opened).path = q.path
    <3>1. Len(opened.data) \in Nat /\ opened.mode \in Nat  BY <2>3 DEF FileContents
    <3>. HIDE DEF read
    <3>. QED  BY <2>2, <2>5, <3>1 DEF EntryType
  <2>. DEFINE more == Append(q.entries, item(opened))
  <2>7. more \in Seq(EntryType) /\ EntryPaths(more) = q.visited \cup {q.path}
        /\ NamesOnce(more) /\ NamesNoneOf(more, Mutable)
    <3>. HIDE DEF item
    <3>1. NamesOnce(q.entries) /\ NamesNoneOf(q.entries, Mutable)  BY <1>1 DEF BuildHolds
    <3>. QED  BY <2>2, <2>3, <2>6, <3>1, AppendFact
  <2>8. ASSUME q.calm PROVE ListDescribes(more, dir) /\ q.path \in q.start
    <3>1. PICK f \in dir[q.path] : q.seen = {f} /\ f.kind = "file" /\ q.half = FirstChunk(f)
      BY <1>1, <2>8 DEF Undisturbed
    <3>2. now(opened) = f /\ opened = f
      BY <2>2, <3>1 DEF IndexInv, IndexTypes
    <3>3. read(opened) = f.data  BY <2>3, <3>1, <3>2, ChunksAreAll
    <3>4. item(opened) = [path |-> q.path, size |-> Len(f.data), mode |-> f.mode, digest |-> f.data]
      BY <3>2, <3>3
    <3>. HIDE DEF item
    <3>5. Describes(item(opened), dir)  BY <3>1, <3>4 DEF Describes
    <3>6. ListDescribes(q.entries, dir)  BY <1>1, <2>8 DEF Undisturbed
    <3>7. ListDescribes(more, dir)  BY <2>3, <2>6, <3>5, <3>6, AppendFact
    <3>8. q.path \in Present(dir) /\ q.path # IndexName  BY <2>2, <3>1 DEF Present
    <3>9. Present(dir) \ {IndexName} = q.start  BY <1>1, <2>8 DEF Undisturbed
    <3>. QED  BY <3>7, <3>8, <3>9
  <2>. DEFINE r == [q EXCEPT !.pc = "scan", !.visited = @ \cup {q.path},
                             !.entries = Append(@, item(opened))]
  <2>9. /\ r \in BuildType /\ r.pc = "scan" /\ r.entries = more
        /\ r.visited = q.visited \cup {q.path} /\ r.start = q.start /\ r.calm = q.calm
    <3>. HIDE DEF item
    <3>1. q.visited \cup {q.path} \in SUBSET Names  BY <2>2 DEF BuildType
    <3>. QED  BY <2>7, <3>1 DEF BuildType, BuildPlaces
  <2>10. builder' = [builder EXCEPT ![b] = r]  BY <2>1 DEF Set
  <2>. HIDE DEF r, more, item, read, now
  <2>11. BuildHolds(r)  BY <1>1, <2>2, <2>7, <2>9 DEF BuildHolds
  <2>12. Undisturbed(r, dir)  BY <1>1, <2>8, <2>9 DEF Undisturbed
  <2>. QED  BY <1>1, <2>1, <2>9, <2>10, <2>11, <2>12, QuietStep
<1>. QED  BY <1>2, <1>3

\* The files that a list describes are there.
LEMMA DescribedFact ==
  ASSUME NEW list \in Seq(EntryType), NEW d, ListDescribes(list, d)
  PROVE  \A n \in EntryPaths(list) : d[n] # {}
BY DEF EntryPaths, ListDescribes, Describes

\* A list names files.
LEMMA PathsFact == ASSUME NEW list \in Seq(EntryType) PROVE EntryPaths(list) \subseteq Names
<1>1. \A i \in DOMAIN list : list[i] \in EntryType  OBVIOUS
<1>2. \A e \in EntryType : e.path \in Names  BY DEF EntryType
<1>. QED  BY <1>1, <1>2 DEF EntryPaths

\* What a list says is not changed by changes elsewhere.
LEMMA DescribesStays ==
  ASSUME NEW list \in Seq(EntryType), NEW d, NEW e, ListDescribes(list, d),
         \A n \in EntryPaths(list) : e[n] = d[n]
  PROVE  ListDescribes(list, e)
<1>. SUFFICES ASSUME NEW i \in DOMAIN list PROVE Describes(list[i], e)  BY DEF ListDescribes
<1>1. list[i].path \in EntryPaths(list) /\ Describes(list[i], d)  BY DEF EntryPaths, ListDescribes
<1>. QED  BY <1>1 DEF Describes

\* At the end of an undisturbed scan every name was visited; the temporary file is
\* in no index, because its name was free.
LEMMA CreatesInv ==
  ASSUME IndexInv, NEW b \in Builders, BuildCreates(b) PROVE IndexInv'
<1>. PICK q \in BuildType : q = builder[b]  BY DEF IndexInv, IndexTypes
<1>1. BuildHolds(q) /\ Undisturbed(q, dir) /\ q.pc = "scan"
      /\ (q.start \cap Scanned) \subseteq q.visited
  BY DEF IndexInv, BuildersInv, BuildCreates
<1>2. CASE Fails(b)  BY <1>2, FailsInv
<1>3. CASE ~Fails(b)
  <2>. DEFINE made == [kind |-> "file", mode |-> 0, data |-> <<0, builds>>]
  <2>1. PICK n \in Temps :
          /\ dir[n] = {} /\ dir' = [dir EXCEPT ![n] = {made}]
          /\ Set(b, [q EXCEPT !.pc = "rename", !.temp = n])
    BY <1>3 DEF BuildCreates
  <2>2. UNCHANGED <<index, verifier, builds, writes>>  BY <1>3 DEF BuildCreates
  <2>. DEFINE r == [q EXCEPT !.pc = "rename", !.temp = n]
  <2>3. n \in Names \ (Paths \cup {IndexName})  BY DEF Names
  <2>4. /\ r \in BuildType /\ r.pc = "rename" /\ r.temp = n /\ r.entries = q.entries
        /\ r.visited = q.visited /\ r.start = q.start /\ r.calm = q.calm
    BY <2>3 DEF BuildType, BuildPlaces
  <2>5. \A c \in Builders : builder'[c] = IF c = b THEN r ELSE builder[c]
    BY <2>1 DEF Set, IndexInv, IndexTypes
  <2>6. made \in FileContents
    <3>1. builds \in Nat  BY DEF IndexInv, IndexTypes
    <3>2. <<0, builds>> \in Seq(Nat)  BY <3>1
    <3>. QED  BY <3>2 DEF FileContents
  <2>7. \A m \in Names : dir'[m] = IF m = n THEN {made} ELSE dir[m]
    BY <2>1, <2>3 DEF IndexInv, IndexTypes
  <2>8. IndexTypes'
    <3>1. dir' \in [Names -> SUBSET FileContents]
      <4>1. {made} \in SUBSET FileContents  BY <2>6
      <4>. HIDE DEF made
      <4>. QED  BY <2>1, <2>3, <4>1 DEF IndexInv, IndexTypes
    <3>2. builder' \in [Builders -> BuildType]
      BY <2>1, <2>4 DEF Set, IndexInv, IndexTypes
    <3>3. \A m \in Names : \A f, g \in dir'[m] : f = g
      BY <2>7 DEF IndexInv, IndexTypes
    <3>. QED  BY <2>2, <3>1, <3>2, <3>3 DEF IndexInv, IndexTypes
  <2>. HIDE DEF r, made
  <2>9. Present(dir') = Present(dir) \cup {n} /\ n \notin Present(dir)
    BY <2>1, <2>3, <2>7 DEF Present
  <2>10. BuildersInv'
    <3>1. BuildHolds(r)  BY <1>1, <2>4 DEF BuildHolds
    <3>2. ASSUME r.calm PROVE Undisturbed(r, dir')
      <4>1. /\ ListDescribes(q.entries, dir) /\ q.visited \subseteq q.start
            /\ Present(dir) \ {IndexName} = q.start
        BY <1>1, <2>4, <3>2 DEF Undisturbed
      <4>2. q.start = q.visited /\ n \notin q.start  BY <1>1, <2>9, <4>1, ScannedFact
      <4>3. Present(dir') \ {IndexName} = q.start \cup {n}  BY <2>3, <2>9, <4>1
      <4>4. q.entries \in Seq(EntryType) /\ EntryPaths(q.entries) \subseteq Names
            /\ EntryPaths(q.entries) = q.visited
        BY <1>1 DEF BuildType, BuildHolds
      <4>5. ListDescribes(q.entries, dir')
        BY <2>7, <4>1, <4>2, <4>4, DescribesStays
      <4>. QED  BY <2>4, <4>2, <4>3, <4>5 DEF Undisturbed
    <3>3. ASSUME NEW c \in Builders, c # b
          PROVE  BuildHolds(builder'[c]) /\ Undisturbed(builder'[c], dir')
      <4>1. builder'[c] = builder[c] /\ BuildHolds(builder[c])
        BY <2>5, <3>3 DEF IndexInv, BuildersInv
      <4>2. ~ (builder[c].pc # "idle" /\ builder[c].calm)
        BY <1>1, <3>3 DEF IndexInv, BuildersInv, CalmIsAlone
      <4>. QED  BY <4>1, <4>2 DEF Undisturbed
    <3>4. CalmIsAlone'  BY <1>1, <2>4, <2>5 DEF IndexInv, BuildersInv, CalmIsAlone
    <3>5. Undisturbed(r, dir')  BY <3>2 DEF Undisturbed
    <3>6. \A c \in Builders : BuildHolds(builder'[c]) /\ Undisturbed(builder'[c], dir')
      BY <2>5, <3>1, <3>3, <3>5
    <3>. QED  BY <3>4, <3>6 DEF BuildersInv
  <2>11. ASSUME NEW w \in WireType, WireFits(w)
         PROVE  WireFits(w)' /\ \A m \in EntryPaths(w.entries) : dir'[m] = dir[m]
    <3>1. w.entries \in Seq(EntryType)  BY WireFact
    <3>2. n \notin EntryPaths(w.entries)
      BY <2>1, <2>11, <3>1, DescribedFact DEF WireFits
    <3>3. EntryPaths(w.entries) \subseteq Names  BY <3>1, PathsFact
    <3>4. \A m \in EntryPaths(w.entries) \cup Paths : dir'[m] = dir[m]
      BY <2>3, <2>7, <3>2, <3>3 DEF Names
    <3>5. \A c \in Builders :
            builder'[c].pc = "rename" => builder'[c].temp \notin EntryPaths(w.entries)
      BY <2>4, <2>5, <2>11, <3>2 DEF WireFits
    <3>. QED  BY <2>11, <3>4, <3>5, FitsStays
  <2>. QED  BY <2>2, <2>8, <2>10, <2>11, IndexesStay DEF IndexInv
<1>. QED  BY <1>2, <1>3

\* The temporary file replaces the index, or is removed.
LEMMA EndsInv ==
  ASSUME IndexInv, NEW b \in Builders, BuildEnds(b) PROVE IndexInv'
<1>. PICK q \in BuildType : q = builder[b]  BY DEF IndexInv, IndexTypes
<1>1. BuildHolds(q) /\ Undisturbed(q, dir) /\ q.pc = "rename"
  BY DEF IndexInv, BuildersInv, BuildEnds
<1>2. builder' = [builder EXCEPT ![b] = NoBuild] /\ UNCHANGED <<verifier, builds, writes>>
  BY DEF BuildEnds, Set
<1>3. \A c \in Builders : builder'[c] = IF c = b THEN NoBuild ELSE builder[c]
  BY <1>2 DEF IndexInv, IndexTypes
<1>4. q.temp \in Temps /\ q.temp \in Names /\ q.temp \notin Paths \cup {IndexName}
      /\ IndexName \in Names
  BY <1>1 DEF BuildHolds, Names
<1>5. \A n \in Names : dir'[n] = IF n = q.temp THEN {}
                                 ELSE IF n = IndexName THEN dir'[IndexName] ELSE dir[n]
  BY <1>4 DEF BuildEnds, IndexInv, IndexTypes
<1>6. /\ dir' \in [Names -> SUBSET FileContents] /\ \A n \in Names : \A f, g \in dir'[n] : f = g
  BY <1>4 DEF BuildEnds, IndexInv, IndexTypes
<1>7. builder' \in [Builders -> BuildType]  BY <1>2, NoBuildFact DEF IndexInv, IndexTypes
<1>8. BuildersInv'
  <2>1. ASSUME NEW c \in Builders PROVE BuildHolds(builder'[c]) /\ Undisturbed(builder'[c], dir')
    <3>1. CASE c = b  BY <1>3, <3>1, NoBuildFact
    <3>2. CASE c # b
      <4>1. builder'[c] = builder[c] /\ BuildHolds(builder[c])
        BY <1>3, <3>2 DEF IndexInv, BuildersInv
      <4>2. ~ (builder[c].pc # "idle" /\ builder[c].calm)
        BY <1>1, <3>2 DEF IndexInv, BuildersInv, CalmIsAlone
      <4>. QED  BY <4>1, <4>2 DEF Undisturbed
    <3>. QED  BY <3>1, <3>2
  <2>2. CalmIsAlone'  BY <1>3, NoBuildFact DEF IndexInv, BuildersInv, CalmIsAlone
  <2>. QED  BY <2>1, <2>2 DEF BuildersInv
<1>9. ASSUME NEW w \in WireType, WireHolds(w), WireFits(w)
      PROVE  WireFits(w)' /\ \A m \in EntryPaths(w.entries) : dir'[m] = dir[m]
  <2>1. w.entries \in Seq(EntryType)  BY WireFact
  <2>2. EntryPaths(w.entries) \subseteq Names  BY <2>1, PathsFact
  <2>3. q.temp \notin EntryPaths(w.entries)  BY <1>1, <1>9 DEF WireFits
  <2>4. IndexName \notin EntryPaths(w.entries)
    BY <1>9 DEF WireHolds, NamesNoneOf, EntryPaths
  <2>5. \A m \in EntryPaths(w.entries) \cup Paths : dir'[m] = dir[m]
    BY <1>4, <1>5, <2>2, <2>3, <2>4 DEF Names
  <2>6. \A c \in Builders :
          builder'[c].pc = "rename" => builder'[c].temp \notin EntryPaths(w.entries)
    BY <1>3, <1>9, NoBuildFact DEF WireFits
  <2>. QED  BY <1>9, <2>5, <2>6, FitsStays
<1>10. CASE UNCHANGED index
  <2>1. IndexTypes'  BY <1>2, <1>6, <1>7, <1>10 DEF IndexInv, IndexTypes
  <2>2. InstalledInv'
    BY <1>9, <1>10 DEF IndexInv, IndexTypes, InstalledInv, WireHolds
  <2>3. ASSUME NEW w \in verifier.wire, verifier.calm
        PROVE  WireFits(w)' /\ \A m \in EntryPaths(w.entries) : dir'[m] = dir[m]
    BY <1>9, <2>3 DEF IndexInv, IndexTypes, VerifyType, VerifierInv
  <2>. QED  BY <1>2, <1>8, <2>1, <2>2, <2>3, VerifierStays DEF IndexInv
<1>11. CASE ~ UNCHANGED index
  <2>1. PICK list \in Sorted(q.entries) :
          index' = {[wire |-> Wire(list, q.key), calm |-> q.calm]}
    BY <1>11 DEF BuildEnds
  <2>. DEFINE w == Wire(list, q.key)
  <2>2. /\ q.entries \in Seq(EntryType) /\ NamesOnce(q.entries) /\ NamesNoneOf(q.entries, Mutable)
        /\ q.visited = EntryPaths(q.entries) /\ IndexName \notin q.visited
        /\ q.key \in IndexKeys /\ q.calm \in BOOLEAN
    BY <1>1 DEF BuildHolds, BuildType
  <2>3. /\ list \in Seq(EntryType) /\ InOrder(list)
        /\ \A i \in DOMAIN list : \E j \in DOMAIN q.entries : list[i] = q.entries[j]
        /\ \A j \in DOMAIN q.entries : \E i \in DOMAIN list : list[i] = q.entries[j]
    BY <2>2, SortFact
  <2>4. EntryPaths(list) = EntryPaths(q.entries)
    BY <2>3 DEF EntryPaths
  <2>5. w \in WireType /\ w.entries = list
    <3>1. w.entries = list  BY DEF Wire
    <3>2. \E l \in Seq(EntryType), k \in IndexKeys : w = Wire(l, k)  BY <2>2, <2>3, Zenon
    <3>. HIDE DEF w
    <3>. QED  BY <3>1, <3>2 DEF WireType
  <2>. HIDE DEF w
  <2>6. WireHolds(w)
    BY <2>2, <2>3, <2>4, <2>5 DEF WireHolds, NamesNoneOf, EntryPaths
  <2>7. IndexTypes'
    BY <1>2, <1>6, <1>7, <2>1, <2>2, <2>5 DEF IndexInv, IndexTypes, w
  <2>8. ASSUME q.calm PROVE WireFits(w)'
    <3>1. /\ ListDescribes(q.entries, dir) /\ q.temp \notin q.start /\ q.start = q.visited
          /\ Present(dir) \ {IndexName} = q.start \cup {q.temp}
      BY <1>1, <2>8 DEF Undisturbed
    <3>2. \A n \in EntryPaths(q.entries) : n \in Names /\ dir'[n] = dir[n]
      <4>1. EntryPaths(q.entries) \subseteq Names  BY <2>2 DEF BuildType
      <4>. QED  BY <1>5, <2>2, <3>1, <4>1
    <3>3. ListDescribes(q.entries, dir')  BY <2>2, <3>1, <3>2, DescribesStays
    <3>4. ListDescribes(list, dir')  BY <2>3, <3>3 DEF ListDescribes
    <3>5. Present(dir') \cap Paths \subseteq EntryPaths(list)
      <4>. SUFFICES ASSUME NEW n \in Paths, n \in Present(dir') PROVE n \in q.visited
        BY <2>2, <2>4
      <4>1. n \in Names /\ n # q.temp /\ n # IndexName  BY <1>4 DEF Names
      <4>2. dir[n] # {}  BY <1>5, <4>1 DEF Present
      <4>. QED  BY <3>1, <4>1, <4>2 DEF Present
    <3>6. \A c \in Builders : builder'[c].pc # "rename"
      <4>. SUFFICES ASSUME NEW c \in Builders PROVE builder'[c].pc # "rename"  OBVIOUS
      <4>1. CASE c = b  BY <1>3, <4>1, NoBuildFact
      <4>2. CASE c # b
        BY <1>1, <1>3, <2>8, <4>2 DEF IndexInv, BuildersInv, CalmIsAlone
      <4>. QED  BY <4>1, <4>2
    <3>. QED  BY <2>5, <3>4, <3>5, <3>6 DEF WireFits
  <2>9. InstalledInv'
    <3>1. ASSUME NEW i \in index' PROVE i.wire = w /\ i.calm = q.calm  BY <2>1, <3>1 DEF w
    <3>. QED  BY <2>6, <2>8, <3>1 DEF InstalledInv, WireHolds, WireFits
  <2>10. ASSUME NEW x \in verifier.wire, verifier.calm
        PROVE  WireFits(x)' /\ \A m \in EntryPaths(x.entries) : dir'[m] = dir[m]
    BY <1>9, <2>10 DEF IndexInv, IndexTypes, VerifyType, VerifierInv
  <2>. QED  BY <1>2, <1>8, <2>7, <2>9, <2>10, VerifierStays DEF IndexInv
<1>. QED  BY <1>10, <1>11

\* A step of the verifier, which changes nothing else.
LEMMA VerifierStep ==
  ASSUME IndexInv, UNCHANGED <<dir, index, builder, builds, writes>>,
         verifier' \in VerifyType, VerifierInv'
  PROVE  IndexInv'
<1>1. IndexTypes'  BY DEF IndexInv, IndexTypes
<1>2. BuildersInv'  BY DEF IndexInv, BuildersInv, CalmIsAlone
<1>3. InstalledInv'
  BY DEF IndexInv, InstalledInv, WireHolds, WireFits, ListDescribes, Describes, Present
<1>. QED  BY <1>1, <1>2, <1>3 DEF IndexInv

\* An index fits while the directory and the builders are as they were.
LEMMA FitsUnchanged ==
  ASSUME NEW w, UNCHANGED <<dir, builder>>
  PROVE  WireFits(w)' <=> WireFits(w)
BY DEF WireFits, ListDescribes, Describes, Present

\* A verifier that has no index at hand.
LEMMA NoVerifyFact ==
  /\ NoVerify \in VerifyType /\ NoVerify.pc = "idle" /\ NoVerify.wire = {}
  /\ NoVerify.answer = "none"
<1>1. <<>> \in Seq(Nat) /\ <<>> \in Seq(EntryType)  OBVIOUS
<1>. QED  BY <1>1 DEF NoVerify, VerifyType, IndexKeys

\* The verifier takes the installed index as it is.
LEMMA VerifyStartsInv == ASSUME IndexInv, VerifyStarts PROVE IndexInv'
<1>1. UNCHANGED <<dir, index, builder, builds, writes>>  BY DEF VerifyStarts
<1>. PICK f \in KeyFiles : \E key \in PublicKey(f) : \E i \in index :
        verifier' = [NoVerify EXCEPT !.pc = "parse", !.key = key,
                                     !.wire = {i.wire}, !.calm = i.calm]
  BY DEF VerifyStarts
<1>2. PICK key \in PublicKey(f), i \in index :
        verifier' = [NoVerify EXCEPT !.pc = "parse", !.key = key,
                                     !.wire = {i.wire}, !.calm = i.calm]
  OBVIOUS
<1>3. key \in IndexKeys  BY DEF PublicKey, IndexKeys
<1>4. i.wire \in WireType /\ i.calm \in BOOLEAN /\ WireHolds(i.wire) /\ (i.calm => WireFits(i.wire))
  BY DEF IndexInv, IndexTypes, InstalledInv
<1>5. /\ verifier' \in VerifyType /\ verifier'.pc = "parse" /\ verifier'.wire = {i.wire}
      /\ verifier'.calm = i.calm /\ verifier'.answer = "none"
  <2>1. PICK q \in VerifyType : q = NoVerify  BY NoVerifyFact
  <2>2. q.answer = "none"  BY <2>1, NoVerifyFact
  <2>3. {i.wire} \in SUBSET WireType  BY <1>4
  <2>4. verifier' = [q EXCEPT !.pc = "parse", !.key = key, !.wire = {i.wire}, !.calm = i.calm]
    BY <1>2, <2>1
  <2>. QED  BY <1>3, <1>4, <2>2, <2>3, <2>4 DEF VerifyType
<1>6. VerifierInv'
  BY <1>1, <1>4, <1>5, FitsUnchanged DEF VerifierInv, WireHolds
<1>. QED  BY <1>1, <1>5, <1>6, VerifierStep

\* The verifier answers.
LEMMA AnswersFact ==
  ASSUME IndexInv, NEW answer \in {"refused", "changed", "ok"}, Answers(answer)
  PROVE  /\ verifier' \in VerifyType /\ verifier'.pc = "done" /\ verifier'.answer = answer
         /\ verifier'.wire = verifier.wire /\ verifier'.key = verifier.key
         /\ verifier'.calm = verifier.calm
<1>1. PICK q \in VerifyType : q = verifier  BY DEF IndexInv, IndexTypes
<1>2. verifier' = [q EXCEPT !.pc = "done", !.answer = answer]  BY <1>1 DEF Answers
<1>. QED  BY <1>1, <1>2 DEF VerifyType

\* An answer is right: "ok" comes from the key that signed, and another one is
\* never given of an undisturbed index under that key.
LEMMA AnswersInv ==
  ASSUME IndexInv, NEW answer \in {"refused", "changed", "ok"}, Answers(answer),
         UNCHANGED <<dir, index, builder, builds, writes>>,
         \A w \in verifier.wire :
           /\ answer = "ok" => w.signature[1] = verifier.key
           /\ verifier.calm /\ w.signature[1] = verifier.key => answer = "ok"
  PROVE  IndexInv'
<1>1. /\ verifier' \in VerifyType /\ verifier'.pc = "done" /\ verifier'.answer = answer
      /\ verifier'.wire = verifier.wire /\ verifier'.key = verifier.key
      /\ verifier'.calm = verifier.calm
  BY AnswersFact
<1>2. ASSUME NEW w \in verifier.wire
      PROVE  WireHolds(w) /\ (verifier.calm => WireFits(w)')
  BY <1>2, FitsUnchanged DEF IndexInv, VerifierInv
<1>3. \A v, w \in verifier.wire : v = w  BY DEF IndexInv, VerifierInv
<1>4. VerifierInv'
  BY <1>1, <1>2, <1>3 DEF VerifierInv, WireHolds
<1>. QED  BY <1>1, <1>4, VerifierStep

\* The parser refuses only what another key signed.
LEMMA VerifyParsesInv == ASSUME IndexInv, VerifyParses PROVE IndexInv'
<1>. PICK q \in VerifyType : q = verifier  BY DEF IndexInv, IndexTypes
<1>1. UNCHANGED <<dir, index, builder, builds, writes>> /\ q.pc = "parse" /\ q.answer = "none"
  BY DEF VerifyParses, IndexInv, VerifierInv
<1>2. PICK w \in q.wire : IF ParseAccepts(w, q.key)
                          THEN verifier' = [q EXCEPT !.pc = "open", !.left = w.entries]
                          ELSE Answers("refused")
  BY DEF VerifyParses
<1>3. w \in WireType /\ WireHolds(w) /\ w.entries \in Seq(EntryType)
  <2>1. w \in WireType  BY DEF VerifyType
  <2>. QED  BY <2>1, WireFact DEF IndexInv, VerifierInv
<1>4. ParseAccepts(w, q.key) <=> w.signature[1] = q.key  BY <1>3, ParseFact
<1>5. \A x \in q.wire : x = w  BY DEF IndexInv, VerifierInv
<1>6. CASE ~ParseAccepts(w, q.key)
  BY <1>1, <1>2, <1>4, <1>5, <1>6, AnswersInv
<1>7. CASE ParseAccepts(w, q.key)
  <2>1. verifier' = [q EXCEPT !.pc = "open", !.left = w.entries]  BY <1>2, <1>7
  <2>2. /\ verifier' \in VerifyType /\ verifier'.pc = "open" /\ verifier'.left = w.entries
        /\ verifier'.wire = q.wire /\ verifier'.key = q.key /\ verifier'.calm = q.calm
        /\ verifier'.answer = "none"
    BY <1>1, <1>3, <2>1 DEF VerifyType
  <2>3. q.calm => WireFits(w)'  BY <1>1, FitsUnchanged DEF IndexInv, VerifierInv
  <2>4. VerifierInv'
    BY <1>3, <1>4, <1>5, <1>7, <2>2, <2>3 DEF VerifierInv, WireHolds
  <2>. QED  BY <1>1, <2>2, <2>4, VerifierStep
<1>. QED  BY <1>6, <1>7

\* The entry at hand is one of the index, and of an undisturbed one it says
\* what the directory holds.
LEMMA HeadFact ==
  ASSUME IndexInv, verifier.pc \in {"open", "hash"}, verifier.left # <<>>, NEW w \in verifier.wire
  PROVE  /\ Head(verifier.left) \in EntryType /\ Tail(verifier.left) \in Seq(EntryType)
         /\ Range(Tail(verifier.left)) \subseteq Range(w.entries)
         /\ verifier.calm => Describes(Head(verifier.left), dir)
<1>. PICK q \in VerifyType : q = verifier  BY DEF IndexInv, IndexTypes
<1>1. q.left \in Seq(EntryType) /\ q.left # <<>>  BY DEF VerifyType
<1>2. /\ 1 \in DOMAIN q.left /\ Head(q.left) = q.left[1] /\ Head(q.left) \in EntryType
      /\ Tail(q.left) \in Seq(EntryType)
      /\ \A i \in DOMAIN Tail(q.left) : i + 1 \in DOMAIN q.left /\ Tail(q.left)[i] = q.left[i + 1]
  BY <1>1
<1>3. Range(q.left) \subseteq Range(w.entries)  BY DEF IndexInv, VerifierInv
<1>4. Range(Tail(q.left)) \subseteq Range(q.left)  BY <1>2 DEF Range
<1>5. Head(q.left) \in Range(w.entries)
  <2>1. Head(q.left) \in Range(q.left)  BY <1>2 DEF Range
  <2>. QED  BY <1>3, <2>1
<1>6. ASSUME q.calm PROVE Describes(Head(q.left), dir)
  <2>1. PICK i \in DOMAIN w.entries : Head(q.left) = w.entries[i]  BY <1>5 DEF Range
  <2>2. WireFits(w)  BY <1>6 DEF IndexInv, VerifierInv
  <2>. QED  BY <2>1, <2>2 DEF WireFits, ListDescribes
<1>. QED  BY <1>2, <1>3, <1>4, <1>6

\* Of an undisturbed index, kind, mode and size are right.
LEMMA VerifyOpensInv == ASSUME IndexInv, VerifyOpens PROVE IndexInv'
<1>. PICK q \in VerifyType : q = verifier  BY DEF IndexInv, IndexTypes
<1>1. UNCHANGED <<dir, index, builder, builds, writes>> /\ q.pc = "open" /\ q.answer = "none"
  BY DEF VerifyOpens, IndexInv, VerifierInv
<1>2. \A w \in q.wire : w.signature[1] = q.key  BY <1>1 DEF IndexInv, VerifierInv
<1>3. CASE q.left = <<>>
  <2>1. Answers("ok")  BY <1>3 DEF VerifyOpens
  <2>. QED  BY <1>1, <1>2, <2>1, AnswersInv
<1>4. CASE q.left # <<>>
  <2>. DEFINE e == Head(q.left)
              fits(f) == f.kind = "file" /\ f.mode = e.mode /\ Len(f.data) = e.size
  <2>1. CASE \E f \in dir[e.path] : fits(f)
    <3>1. PICK f \in dir[e.path] :
            verifier' = [q EXCEPT !.pc = "hash", !.half = FirstChunk(f)]
      BY <1>4, <2>1 DEF VerifyOpens
    <3>2. e \in EntryType
      <4>1. q.left \in Seq(EntryType)  BY DEF VerifyType
      <4>. QED  BY <1>4, <4>1
    <3>3. f \in FileContents  BY <3>2 DEF EntryType, IndexInv, IndexTypes
    <3>4. FirstChunk(f) \in Seq(Nat)  BY <3>3 DEF FileContents, FirstChunk
    <3>5. /\ verifier' \in VerifyType /\ verifier'.pc = "hash" /\ verifier'.left = q.left
          /\ verifier'.half = FirstChunk(f)
          /\ verifier'.wire = q.wire /\ verifier'.key = q.key /\ verifier'.calm = q.calm
          /\ verifier'.answer = "none"
      BY <1>1, <3>1, <3>4 DEF VerifyType
    <3>6. ASSUME NEW w \in q.wire
          PROVE  /\ WireHolds(w) /\ (q.calm => WireFits(w)')
                 /\ Range(q.left) \subseteq Range(w.entries)
      BY <1>1, <3>6, FitsUnchanged DEF IndexInv, VerifierInv
    <3>7. \A v, w \in q.wire : v = w  BY DEF IndexInv, VerifierInv
    <3>8. VerifierInv'
      BY <1>1, <1>2, <1>4, <3>5, <3>6, <3>7 DEF VerifierInv, WireHolds
    <3>. QED  BY <1>1, <3>5, <3>8, VerifierStep
  <2>2. CASE ~ \E f \in dir[e.path] : fits(f)
    <3>1. Answers("changed")  BY <1>4, <2>2 DEF VerifyOpens
    <3>2. ASSUME NEW w \in q.wire PROVE ~q.calm
      BY <1>1, <1>4, <2>2, HeadFact DEF Describes
    <3>. QED  BY <1>1, <3>1, <3>2, AnswersInv
  <2>. QED  BY <2>1, <2>2
<1>. QED  BY <1>3, <1>4

\* Of an undisturbed index, the digest is that of the chunks that were read.
LEMMA VerifyHashesInv == ASSUME IndexInv, VerifyHashes PROVE IndexInv'
<1>. PICK q \in VerifyType : q = verifier  BY DEF IndexInv, IndexTypes
<1>1. /\ UNCHANGED <<dir, index, builder, builds, writes>> /\ q.pc = "hash" /\ q.answer = "none"
      /\ q.left # <<>>
  BY DEF VerifyHashes, IndexInv, VerifierInv
<1>. DEFINE e == Head(q.left)
            same(f) == f.kind = "file" /\ Chunks(q.half, f) = e.digest
<1>2. CASE \E f \in dir[e.path] : same(f)
  <2>1. verifier' = [q EXCEPT !.pc = "open", !.left = Tail(@)]  BY <1>2 DEF VerifyHashes
  <2>2. Tail(q.left) \in Seq(EntryType)
    <3>1. q.left \in Seq(EntryType)  BY DEF VerifyType
    <3>. QED  BY <1>1, <3>1
  <2>3. /\ verifier' \in VerifyType /\ verifier'.pc = "open" /\ verifier'.left = Tail(q.left)
        /\ verifier'.wire = q.wire /\ verifier'.key = q.key /\ verifier'.calm = q.calm
        /\ verifier'.answer = "none"
    BY <1>1, <2>1, <2>2 DEF VerifyType
  <2>4. ASSUME NEW w \in q.wire
        PROVE  /\ WireHolds(w) /\ (q.calm => WireFits(w)') /\ w.signature[1] = q.key
               /\ Range(Tail(q.left)) \subseteq Range(w.entries)
    <3>1. WireHolds(w) /\ (q.calm => WireFits(w)) /\ w.signature[1] = q.key
      BY <1>1, <2>4 DEF IndexInv, VerifierInv
    <3>. QED  BY <1>1, <2>4, <3>1, FitsUnchanged, HeadFact
  <2>5. \A v, w \in q.wire : v = w  BY DEF IndexInv, VerifierInv
  <2>6. VerifierInv'
    BY <2>3, <2>4, <2>5 DEF VerifierInv, WireHolds
  <2>. QED  BY <1>1, <2>3, <2>6, VerifierStep
<1>3. CASE ~ \E f \in dir[e.path] : same(f)
  <2>1. Answers("changed")  BY <1>3 DEF VerifyHashes
  <2>2. ASSUME NEW w \in q.wire PROVE ~q.calm
    <3>. SUFFICES ASSUME q.calm PROVE FALSE  OBVIOUS
    <3>1. e \in EntryType /\ Describes(e, dir)  BY <1>1, <2>2, HeadFact
    <3>2. PICK f \in dir[e.path] : f.kind = "file" /\ f.data = e.digest  BY <3>1 DEF Describes
    <3>3. PICK g \in dir[e.path] : q.half = FirstChunk(g)
      BY <1>1, <2>2 DEF IndexInv, VerifierInv
    <3>4. f = g /\ f \in FileContents  BY <3>1 DEF EntryType, IndexInv, IndexTypes
    <3>5. Chunks(q.half, f) = f.data  BY <3>3, <3>4, ChunksAreAll
    <3>. QED  BY <1>3, <3>2, <3>5
  <2>. QED  BY <1>1, <2>1, <2>2, AnswersInv
<1>. QED  BY <1>2, <1>3

\* Then the index is forgotten.
LEMMA VerifyReturnsInv == ASSUME IndexInv, VerifyReturns PROVE IndexInv'
<1>1. UNCHANGED <<dir, index, builder, builds, writes>> /\ verifier' = NoVerify
  BY DEF VerifyReturns
<1>2. VerifierInv'  BY <1>1, NoVerifyFact DEF VerifierInv
<1>. QED  BY <1>1, <1>2, NoVerifyFact, VerifierStep

\* Whoever changes a file disturbs everybody, who then need not know anything
\* of the directory.
LEMMA ChangesInv == ASSUME IndexInv, Changes PROVE IndexInv'
<1>1. /\ writes < MaxWrites /\ writes' = writes + 1 /\ UNCHANGED builds
      /\ builder' = Disturbed(builder) /\ index' = NotCalm(index)
      /\ verifier' = [verifier EXCEPT !.calm = FALSE]
  BY DEF Changes
<1>2. PICK n \in Paths, new \in {{f} : f \in Files} \cup {{}} : dir' = [dir EXCEPT ![n] = new]
  BY DEF Changes
<1>3. dir' \in [Names -> SUBSET FileContents] /\ \A m \in Names : \A f, g \in dir'[m] : f = g
  <2>1. new \in SUBSET FileContents /\ \A f, g \in new : f = g  OBVIOUS
  <2>2. n \in Names  BY DEF Names
  <2>. QED  BY <1>2, <2>1, <2>2 DEF IndexInv, IndexTypes
<1>4. ASSUME NEW b \in Builders
      PROVE  builder'[b] \in BuildType /\ ~builder'[b].calm /\ BuildHolds(builder'[b])
  <2>1. PICK q \in BuildType : q = builder[b]  BY DEF IndexInv, IndexTypes
  <2>2. builder'[b] = [q EXCEPT !.calm = FALSE]  BY <1>1, <2>1 DEF Disturbed
  <2>3. /\ builder'[b] \in BuildType /\ ~builder'[b].calm
        /\ builder'[b].pc = q.pc /\ builder'[b].temp = q.temp /\ builder'[b].start = q.start
        /\ builder'[b].visited = q.visited /\ builder'[b].entries = q.entries
        /\ builder'[b].path = q.path
    BY <2>2 DEF BuildType
  <2>4. BuildHolds(q)  BY <2>1 DEF IndexInv, BuildersInv
  <2>. QED  BY <2>3, <2>4 DEF BuildHolds
<1>5. builder' \in [Builders -> BuildType]
  <2>1. builder' = [b \in Builders |-> builder'[b]]  BY <1>1 DEF Disturbed
  <2>. QED  BY <1>4, <2>1
<1>6. BuildersInv'  BY <1>4 DEF BuildersInv, Undisturbed, CalmIsAlone
<1>7. ASSUME NEW i \in index'
      PROVE  \E j \in index : i = [j EXCEPT !.calm = FALSE] /\ i.wire = j.wire /\ ~i.calm
                              /\ i \in [wire : WireType, calm : BOOLEAN]
  <2>1. PICK j \in index : i = [j EXCEPT !.calm = FALSE]  BY <1>1, <1>7 DEF NotCalm
  <2>2. j \in [wire : WireType, calm : BOOLEAN]  BY DEF IndexInv, IndexTypes
  <2>. QED  BY <2>1, <2>2
<1>8. InstalledInv'  BY <1>7 DEF IndexInv, InstalledInv, WireHolds
<1>9. index' \subseteq [wire : WireType, calm : BOOLEAN] /\ \A i, j \in index' : i = j
  BY <1>7 DEF IndexInv, IndexTypes
<1>. PICK q \in VerifyType : q = verifier  BY DEF IndexInv, IndexTypes
<1>10. /\ verifier' \in VerifyType /\ ~verifier'.calm /\ verifier'.pc = q.pc
       /\ verifier'.left = q.left /\ verifier'.wire = q.wire /\ verifier'.key = q.key
       /\ verifier'.answer = q.answer
  BY <1>1 DEF VerifyType
<1>11. VerifierInv'
  BY <1>10 DEF IndexInv, VerifierInv, WireHolds
<1>12. IndexTypes'
  BY <1>1, <1>3, <1>5, <1>9, <1>10 DEF IndexInv, IndexTypes
<1>. QED  BY <1>6, <1>8, <1>11, <1>12 DEF IndexInv

\* At first nothing is built, installed or compared.
LEMMA IndexInitInv == IndexInit => IndexInv
<1>. SUFFICES ASSUME IndexInit PROVE IndexInv  OBVIOUS
<1>1. dir \in [Names -> SUBSET FileContents] /\ \A n \in Names : \A f, g \in dir[n] : f = g
  BY DEF IndexInit
<1>2. \A b \in Builders : builder[b] = NoBuild  BY DEF IndexInit
<1>3. IndexTypes
  BY <1>1, NoBuildFact, NoVerifyFact DEF IndexInit, IndexTypes
<1>4. BuildersInv  BY <1>2, NoBuildFact DEF BuildersInv, CalmIsAlone
<1>5. InstalledInv  BY DEF IndexInit, InstalledInv
<1>6. VerifierInv  BY NoVerifyFact DEF IndexInit, VerifierInv
<1>. QED  BY <1>3, <1>4, <1>5, <1>6 DEF IndexInv

\* Every step of a builder, of the verifier and of anybody else keeps the invariant.
LEMMA IndexNextInv == IndexInv /\ [IndexNext]_indexVars => IndexInv'
<1>. SUFFICES ASSUME IndexInv, [IndexNext]_indexVars PROVE IndexInv'  OBVIOUS
<1>1. ASSUME NEW b \in Builders, BuildStep(b) PROVE IndexInv'
  <2>1. CASE BuilderDies(b)  BY <2>1, FailsInv DEF BuilderDies
  <2>. QED  BY <1>1, <2>1, StartsInv, StatsInv, OpensInv, ReadsInv, CreatesInv, EndsInv
            DEF BuildStep
<1>2. CASE VerifyStep
  BY <1>2, VerifyStartsInv, VerifyParsesInv, VerifyOpensInv, VerifyHashesInv, VerifyReturnsInv
     DEF VerifyStep
<1>3. CASE Changes  BY <1>3, ChangesInv
<1>4. CASE UNCHANGED indexVars
  <2>1. UNCHANGED <<dir, index, builder, builds, writes>> /\ UNCHANGED verifier
    BY <1>4 DEF indexVars
  <2>2. verifier' \in VerifyType  BY <2>1 DEF IndexInv, IndexTypes
  <2>3. \A w : WireFits(w)' <=> WireFits(w)  BY <2>1, FitsUnchanged
  <2>4. VerifierInv'  BY <2>1, <2>3, VerifierStays DEF IndexInv, VerifierInv
  <2>. QED  BY <2>1, <2>2, <2>4, VerifierStep
<1>. QED  BY <1>1, <1>2, <1>3, <1>4 DEF IndexNext

\* An undisturbed index describes the directory it lies in, whatever builds
\* ended, failed or died meanwhile, and the verifier finds no difference to it
\* (index_writer.c:571, index.c:466).
THEOREM IndexInvariant == IndexSpec => []IndexInv
BY IndexInitInv, IndexNextInv, PTL DEF IndexSpec

\* The builders, the index and the verifier keep to their types.
THEOREM IndexTypeCorrect == IndexSpec => []IndexTypeOK
<1>1. IndexInv => IndexTypeOK
  BY DEF IndexInv, IndexTypes, IndexTypeOK, BuildType, BuildPlaces, VerifyType
<1>. QED  BY <1>1, IndexInvariant, PTL

\* What the writer wrote the reader takes, and it takes nothing else: for every
\* set of files, every order of the scan and any number of builders.
THEOREM FreshIndexVerifiesCorrect == IndexSpec => []FreshIndexVerifies
<1>1. ASSUME IndexInv PROVE FreshIndexVerifies
  <2>. SUFFICES ASSUME NEW w \in verifier.wire
                PROVE  /\ verifier.calm /\ w.signature[1] = verifier.key =>
                            verifier.answer \in {"none", "ok"}
                       /\ verifier.answer = "ok" => w.signature[1] = verifier.key
                       /\ verifier.calm =>
                            /\ \A e \in Range(w.entries) : \E f \in dir[e.path] :
                                 f.data = e.digest /\ f.mode = e.mode
                            /\ Present(dir) \cap Paths \subseteq {e.path : e \in Range(w.entries)}
    BY DEF FreshIndexVerifies
  <2>1. /\ verifier.calm /\ w.signature[1] = verifier.key => verifier.answer \in {"none", "ok"}
        /\ verifier.answer = "ok" => w.signature[1] = verifier.key
    BY <1>1 DEF IndexInv, VerifierInv
  <2>2. ASSUME verifier.calm
        PROVE  /\ \A e \in Range(w.entries) : \E f \in dir[e.path] :
                    f.data = e.digest /\ f.mode = e.mode
               /\ Present(dir) \cap Paths \subseteq {e.path : e \in Range(w.entries)}
    <3>1. WireFits(w)  BY <1>1, <2>2 DEF IndexInv, VerifierInv
    <3>2. EntryPaths(w.entries) \subseteq {e.path : e \in Range(w.entries)}
      BY DEF EntryPaths, Range
    <3>. QED  BY <3>1, <3>2 DEF WireFits, ListDescribes, Describes, Range
  <2>. QED  BY <2>1, <2>2
<1>. QED  BY <1>1, IndexInvariant, PTL
=============================================================================
