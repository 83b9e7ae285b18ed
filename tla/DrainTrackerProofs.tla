------------------------- MODULE DrainTrackerProofs -------------------------
(***************************************************************************)
(* Proofs about DrainTracker for any number of slots, streams, threads and *)
(* any timeouts.  The inductive invariant adds to the stated properties    *)
(* what they rest on: a register past its first check carries a real id,   *)
(* and a caller that was told OK was told so after the tracker had left    *)
(* ACTIVE, so that nothing can be accepted any more.                       *)
(***************************************************************************)
EXTENDS DrainTracker, FiniteSetTheorems, TLAPS

RegisterCarriesId == \A t \in Threads : pc[t] = "register" => arg[t] \in Ids

OkIsFinal == \A t \in Threads : answer[t] = "OK" => state # "ACTIVE"

IndInv ==
  /\ TypeOK
  /\ RegisterCarriesId
  /\ OkIsFinal
  /\ CountMatchesSlots
  /\ NoStreamTwice
  /\ AcceptedAccounted
  /\ CompletedMeansEmpty

-----------------------------------------------------------------------------
\* The steps, one name for each case of the proofs.
LEMMA NextCases ==
  ASSUME [Next]_vars
  PROVE  \/ \E t \in Threads :
              \/ \E id \in Ids : RegisterCheck(t, id) \/ Complete(t, id)
              \/ RegisterAdd(t) \/ RegisterRefuse(t) \/ Begin(t)
              \/ PollCall(t) \/ \E limit \in WaitLimits : WaitCall(t, limit)
              \/ PollCheck(t) \/ PollDrained(t) \/ PollOverdue(t)
              \/ PollPending(t) \/ WaitCheck(t) \/ WaitExpire(t)
              \/ Destroy(t) \/ DestroyStore(t)
         \/ Tick
         \/ UNCHANGED vars
BY Zenon DEF Next, Step, WaitStep, PollStep

\* What a returning or pending poll leaves in its caller's locals.
LEMMA CallerTypes ==
  ASSUME TypeOK, NEW t \in Threads
  PROVE  /\ \A a \in Answers : Return(t, a) =>
              /\ pc' \in [Threads -> Places]
              /\ deadline' \in [Threads -> Nat]
              /\ mode' \in [Threads -> {"poll", "wait"}]
              /\ answer' \in [Threads -> Answers]
         /\ Pending(t) =>
              /\ pc' \in [Threads -> Places]
              /\ deadline' \in [Threads -> Nat]
              /\ mode' \in [Threads -> {"poll", "wait"}]
              /\ answer' \in [Threads -> Answers]
BY DEF TypeOK, Return, Pending, Goto, Places, Answers

\* Every step keeps the types (all fields of the tracker and the callers'
\* locals), given that a pending register carries an id.
LEMMA TypeStep ==
  ASSUME TypeOK, [Next]_vars
  PROVE  TypeOK'
<1> USE TrackerAssumption DEF TypeOK, Places, States, Answers, shared, locals, Slots
<1>1. ASSUME NEW t \in Threads, NEW id \in Ids, RegisterCheck(t, id)
      PROVE  TypeOK'
  BY <1>1 DEF RegisterCheck, Goto
<1>2. ASSUME NEW t \in Threads, NEW id \in Ids, Complete(t, id)
      PROVE  TypeOK'
  BY <1>2 DEF Complete, StateAfterEnd, OpenSlots
<1>3. ASSUME NEW t \in Threads, RegisterAdd(t)
      PROVE  TypeOK'
  BY <1>3 DEF RegisterAdd, FreeSlots, RegisterReturn, Goto
<1>4. ASSUME NEW t \in Threads, RegisterRefuse(t)
      PROVE  TypeOK'
  BY <1>4 DEF RegisterRefuse, RegisterReturn, Goto
<1>5. ASSUME NEW t \in Threads, Begin(t)
      PROVE  TypeOK'
  BY <1>5 DEF Begin, StateAtBegin
<1>6. ASSUME NEW t \in Threads, PollCall(t)
      PROVE  TypeOK'
  BY <1>6 DEF PollCall, Goto
<1>7. ASSUME NEW t \in Threads, NEW limit \in WaitLimits, WaitCall(t, limit)
      PROVE  TypeOK'
  BY <1>7 DEF WaitCall, Goto
<1>8. ASSUME NEW t \in Threads, PollCheck(t)
      PROVE  TypeOK'
  <2>1. CASE state = "COMPLETED" /\ Return(t, "OK")
    BY <1>8, <2>1, CallerTypes DEF PollCheck
  <2>2. CASE state = "TIMED_OUT" /\ Return(t, "TIMEOUT")
    BY <1>8, <2>2, CallerTypes DEF PollCheck
  <2>3. CASE state = "DRAINING" /\ Goto(t, "poll_locked")
                               /\ UNCHANGED <<deadline, mode, answer>>
    BY <1>8, <2>3 DEF PollCheck, Goto
  <2>4. CASE Pending(t)
    BY <1>8, <2>4, CallerTypes DEF PollCheck
  <2> QED
    BY <1>8, <2>1, <2>2, <2>3, <2>4 DEF PollCheck
<1>9. ASSUME NEW t \in Threads, PollDrained(t)
      PROVE  TypeOK'
  BY <1>9, CallerTypes DEF PollDrained
<1>10. ASSUME NEW t \in Threads, PollOverdue(t) \/ WaitExpire(t)
       PROVE  TypeOK'
  BY <1>10, CallerTypes DEF PollOverdue, WaitExpire, TimeOut
<1>11. ASSUME NEW t \in Threads, PollPending(t)
       PROVE  TypeOK'
  BY <1>11, CallerTypes DEF PollPending
<1>12. ASSUME NEW t \in Threads, WaitCheck(t)
       PROVE  TypeOK'
  BY <1>12 DEF WaitCheck, AfterPending, Goto
<1>13. ASSUME NEW t \in Threads, Destroy(t)
       PROVE  TypeOK'
  BY <1>13 DEF Destroy, FreeStreams, Goto
<1>14. ASSUME NEW t \in Threads, DestroyStore(t)
       PROVE  TypeOK'
  BY <1>14 DEF DestroyStore, Goto
<1>15. CASE Tick
  BY <1>15 DEF Tick
<1>16. CASE UNCHANGED vars
  BY <1>16 DEF vars
<1> QED
  BY <1>1, <1>2, <1>3, <1>4, <1>5, <1>6, <1>7, <1>8, <1>9, <1>10, <1>11,
     <1>12, <1>13, <1>14, <1>15, <1>16, NextCases, Zenon

\* The initial state has the types: init leaves a well-formed tracker.
LEMMA TypeInit == Init => TypeOK
BY TrackerAssumption
   DEF Init, TypeOK, States, Places, Answers, Slots

\* Type correctness of the tracker under every interleaving of its callers.
THEOREM TypeCorrect == Spec => []TypeOK
<1>1. TypeOK /\ [Next]_vars => TypeOK'
  BY TypeStep
<1> QED
  BY TypeInit, <1>1, PTL DEF Spec

-----------------------------------------------------------------------------
(* The slots: what taking and freeing one does to the open set. *)

\* There are finitely many slots, so the open ones can be counted.
LEMMA OpenSlotsFinite ==
  IsFiniteSet(OpenSlots) /\ Cardinality(OpenSlots) \in Nat
<1>1. OpenSlots \subseteq 1..MaxStreams /\ IsFiniteSet(1..MaxStreams)
  BY TrackerAssumption, FS_Interval DEF OpenSlots, Slots
<1> QED
  BY <1>1, FS_Subset, FS_CardinalityType

\* Registering fills one free slot: the open slots grow by exactly that one.
LEMMA RegisterAddsSlot ==
  ASSUME IndInv, NEW t \in Threads, RegisterAdd(t)
  PROVE  /\ \E i \in FreeSlots : /\ OpenSlots' = OpenSlots \cup {i}
                                 /\ streams' = [streams EXCEPT ![i] = arg[t]]
         /\ Cardinality(OpenSlots') = Cardinality(OpenSlots) + 1
         /\ Open' = Open \cup {arg[t]}
<1>1. PICK i \in FreeSlots : streams' = [streams EXCEPT ![i] = arg[t]]
  BY DEF RegisterAdd
<1>2. arg[t] # NoId
  BY TrackerAssumption DEF RegisterAdd, IndInv, RegisterCarriesId
<1>3. OpenSlots' = OpenSlots \cup {i} /\ i \notin OpenSlots
  BY <1>1, <1>2 DEF RegisterAdd, OpenSlots, FreeSlots, IndInv, TypeOK
<1>4. Cardinality(OpenSlots') = Cardinality(OpenSlots) + 1
  BY <1>3, OpenSlotsFinite, FS_AddElement
<1>5. Open' = Open \cup {arg[t]}
  BY <1>1, <1>3 DEF Open, OpenSlots, FreeSlots, IndInv, TypeOK
<1> QED
  BY <1>1, <1>3, <1>4, <1>5

\* Completing empties one open slot.
LEMMA CompleteFreesSlot ==
  ASSUME IndInv, NEW t \in Threads, NEW id \in Ids, Complete(t, id)
  PROVE  /\ \E i \in OpenSlots : /\ OpenSlots' = OpenSlots \ {i}
                                 /\ streams' = [streams EXCEPT ![i] = NoId]
         /\ Cardinality(OpenSlots') = Cardinality(OpenSlots) - 1
         /\ Cardinality(OpenSlots) > 0
         /\ id \in Open
         /\ Open' = Open \ {id}
<1>1. PICK i \in OpenSlots : /\ streams[i] = id
                            /\ streams' = [streams EXCEPT ![i] = NoId]
  BY DEF Complete
<1>2. OpenSlots' = OpenSlots \ {i}
  BY <1>1 DEF Complete, OpenSlots, IndInv, TypeOK
<1>3. Cardinality(OpenSlots') = Cardinality(OpenSlots) - 1
  BY <1>1, <1>2, OpenSlotsFinite, FS_RemoveElement
<1>4. Cardinality(OpenSlots) > 0
  BY <1>1, OpenSlotsFinite, FS_EmptySet
<1>5. id \in Open
  BY <1>1 DEF Open
<1>6. Open' = Open \ {id}
  BY <1>1, <1>2 DEF Open, OpenSlots, IndInv, TypeOK, NoStreamTwice
<1> QED
  BY <1>1, <1>2, <1>3, <1>4, <1>5, <1>6

\* With the count right, an empty count is an empty tracker.
LEMMA ZeroMeansEmpty ==
  ASSUME CountMatchesSlots
  PROVE  active_count = 0 <=> Open = {}
<1>1. active_count = 0 <=> OpenSlots = {}
  BY OpenSlotsFinite, FS_EmptySet DEF CountMatchesSlots
<1>2. OpenSlots = {} <=> Open = {}
  BY DEF Open
<1> QED
  BY <1>1, <1>2

\* Steps that touch neither the slots nor the counters keep what is said of
\* them.
LEMMA SlotsKept ==
  ASSUME UNCHANGED <<streams, stream_capacity>>
  PROVE  OpenSlots' = OpenSlots /\ Open' = Open
BY DEF OpenSlots, Open

\* The same of the counters and of what callers were told.
LEMMA CountersKept ==
  ASSUME IndInv,
         UNCHANGED <<streams, stream_capacity, active_count, total_accepted,
                     total_completed>>
  PROVE  CountMatchesSlots' /\ NoStreamTwice' /\ AcceptedAccounted'
BY SlotsKept
   DEF IndInv, CountMatchesSlots, NoStreamTwice, AcceptedAccounted

-----------------------------------------------------------------------------
(* The invariant. *)

\* The tracker that init leaves satisfies the invariant.
LEMMA InvInit == Init => IndInv
<1> SUFFICES ASSUME Init PROVE IndInv
  OBVIOUS
<1>1. OpenSlots = {} /\ Open = {}
  BY DEF Init, OpenSlots, Open, Slots
<1>2. CountMatchesSlots
  BY <1>1, FS_EmptySet DEF Init, CountMatchesSlots
<1> QED
  BY <1>1, <1>2, TypeInit
     DEF Init, IndInv, RegisterCarriesId, OkIsFinal, NoStreamTwice,
         AcceptedAccounted, CompletedMeansEmpty

\* A step of a caller that leaves the whole tracker alone.
LEMMA QuietStep ==
  ASSUME IndInv, TypeOK', UNCHANGED shared, NEW t \in Threads,
         \/ UNCHANGED <<pc, arg>>
         \/ \E place \in Places \ {"register"} : Goto(t, place) /\ UNCHANGED arg
         \/ RegisterReturn(t)
         \/ \E id \in Ids : Goto(t, "register") /\ arg' = [arg EXCEPT ![t] = id],
         \/ UNCHANGED answer
         \/ \E a \in Answers \ {"OK"} : answer' = [answer EXCEPT ![t] = a]
         \/ state = "COMPLETED" /\ answer' = [answer EXCEPT ![t] = "OK"]
  PROVE  IndInv'
<1>1. CountMatchesSlots' /\ NoStreamTwice' /\ AcceptedAccounted'
  BY CountersKept DEF shared
<1>2. RegisterCarriesId'
  BY DEF IndInv, RegisterCarriesId, TypeOK, Goto, RegisterReturn, Places
<1>3. OkIsFinal'
  BY DEF IndInv, OkIsFinal, TypeOK, shared, Answers
<1>4. CompletedMeansEmpty'
  BY SlotsKept DEF IndInv, CompletedMeansEmpty, TypeOK, shared, Answers
<1> QED
  BY <1>1, <1>2, <1>3, <1>4 DEF IndInv

\* A step that only moves the state: to COMPLETED with no stream open, or to
\* a state that is neither ACTIVE nor COMPLETED.
LEMMA StateStep ==
  ASSUME IndInv, TypeOK', NEW t \in Threads,
         UNCHANGED <<streams, stream_capacity, active_count, total_accepted,
                     total_completed, arg>>,
         state' \in States \ {"ACTIVE"},
         state' = "COMPLETED" => active_count = 0,
         UNCHANGED pc \/ Goto(t, "idle"),
         \/ UNCHANGED answer
         \/ \E a \in Answers \ {"OK"} : answer' = [answer EXCEPT ![t] = a]
         \/ active_count = 0 /\ answer' = [answer EXCEPT ![t] = "OK"]
  PROVE  IndInv'
<1>1. CountMatchesSlots' /\ NoStreamTwice' /\ AcceptedAccounted'
  BY CountersKept
<1>2. RegisterCarriesId'
  BY DEF IndInv, RegisterCarriesId, TypeOK, Goto
<1>3. OkIsFinal'
  BY DEF OkIsFinal
<1>4. active_count = 0 => Open' = {}
  BY SlotsKept, ZeroMeansEmpty DEF IndInv
<1>5. CompletedMeansEmpty'
  BY <1>4, SlotsKept DEF IndInv, CompletedMeansEmpty, TypeOK, Answers
<1> QED
  BY <1>1, <1>2, <1>3, <1>5 DEF IndInv

\* Registering a stream keeps the invariant: count and totals move together.
LEMMA RegisterAddInv ==
  ASSUME IndInv, TypeOK', NEW t \in Threads, RegisterAdd(t)
  PROVE  IndInv'
<1>1. PICK i \in FreeSlots : /\ OpenSlots' = OpenSlots \cup {i}
                            /\ streams' = [streams EXCEPT ![i] = arg[t]]
  BY RegisterAddsSlot
<1>2. CountMatchesSlots'
  BY RegisterAddsSlot DEF RegisterAdd, IndInv, CountMatchesSlots
<1>3. \A j \in OpenSlots : streams'[j] = streams[j] /\ streams[j] # arg[t]
  BY <1>1 DEF RegisterAdd, Duplicate, OpenSlots, FreeSlots, IndInv, TypeOK
<1>4. streams'[i] = arg[t]
  BY <1>1 DEF IndInv, TypeOK, FreeSlots
<1>5. NoStreamTwice'
  BY <1>1, <1>3, <1>4 DEF IndInv, NoStreamTwice
<1>6. AcceptedAccounted'
  BY DEF RegisterAdd, IndInv, AcceptedAccounted, TypeOK
<1>7. RegisterCarriesId' /\ OkIsFinal'
  BY DEF RegisterAdd, RegisterReturn, Goto, IndInv, RegisterCarriesId,
         OkIsFinal, TypeOK
<1>8. CompletedMeansEmpty'
  BY DEF RegisterAdd, StillAccepts, IndInv, CompletedMeansEmpty, OkIsFinal
<1> QED
  BY <1>2, <1>5, <1>6, <1>7, <1>8 DEF IndInv

\* Completing a stream keeps the invariant, also when it ends the drain.
LEMMA CompleteInv ==
  ASSUME IndInv, TypeOK', NEW t \in Threads, NEW id \in Ids, Complete(t, id)
  PROVE  IndInv'
<1>1. PICK i \in OpenSlots : /\ OpenSlots' = OpenSlots \ {i}
                            /\ streams' = [streams EXCEPT ![i] = NoId]
  BY CompleteFreesSlot
<1>2. active_count' = active_count - 1 /\ CountMatchesSlots'
  BY CompleteFreesSlot DEF Complete, IndInv, CountMatchesSlots
<1>3. NoStreamTwice'
  BY <1>1 DEF IndInv, NoStreamTwice, OpenSlots, TypeOK
<1>4. AcceptedAccounted'
  BY <1>2 DEF Complete, IndInv, AcceptedAccounted, TypeOK
<1>5. RegisterCarriesId' /\ OkIsFinal'
  BY DEF Complete, StateAfterEnd, locals, IndInv, RegisterCarriesId, OkIsFinal
<1>6. active_count' = 0 => Open' = {}
  <2>1. IsFiniteSet(OpenSlots')
    BY <1>1, OpenSlotsFinite, FS_RemoveElement
  <2>2. active_count' = 0 => OpenSlots' = {}
    BY <1>2, <2>1, FS_EmptySet DEF CountMatchesSlots
  <2> QED
    BY <2>2 DEF Open
<1>7. Open' \subseteq Open
  BY CompleteFreesSlot
<1>8. CompletedMeansEmpty'
  BY <1>6, <1>7 DEF Complete, StateAfterEnd, locals, IndInv,
                    CompletedMeansEmpty
<1> QED
  BY <1>2, <1>3, <1>4, <1>5, <1>8 DEF IndInv

\* Destroying the tracker keeps the invariant: no slot is left to count.
LEMMA DestroyInv ==
  ASSUME IndInv, TypeOK', NEW t \in Threads, Destroy(t)
  PROVE  IndInv'
<1>1. OpenSlots' = {} /\ Open' = {}
  BY DEF Destroy, FreeStreams, OpenSlots, Open
<1>2. CountMatchesSlots'
  BY <1>1, FS_EmptySet DEF Destroy, CountMatchesSlots
<1>3. AcceptedAccounted'
  BY DEF Destroy, FreeStreams, IndInv, AcceptedAccounted, TypeOK
<1>4. RegisterCarriesId' /\ OkIsFinal'
  BY DEF Destroy, Goto, IndInv, RegisterCarriesId, OkIsFinal, TypeOK
<1> QED
  BY <1>1, <1>2, <1>3, <1>4
     DEF IndInv, NoStreamTwice, CompletedMeansEmpty

\* Every step of every caller keeps the invariant.
LEMMA InvStep ==
  ASSUME IndInv, [Next]_vars
  PROVE  IndInv'
<1>0. TypeOK'
  BY TypeStep DEF IndInv
<1>1. ASSUME NEW t \in Threads, NEW id \in Ids, RegisterCheck(t, id)
      PROVE  IndInv'
  BY <1>0, <1>1, QuietStep DEF RegisterCheck
<1>2. ASSUME NEW t \in Threads, NEW id \in Ids, Complete(t, id)
      PROVE  IndInv'
  BY <1>0, <1>2, CompleteInv
<1>3. ASSUME NEW t \in Threads, RegisterAdd(t)
      PROVE  IndInv'
  BY <1>0, <1>3, RegisterAddInv
<1>4. ASSUME NEW t \in Threads, RegisterRefuse(t)
      PROVE  IndInv'
  BY <1>0, <1>4, QuietStep DEF RegisterRefuse
<1>5. ASSUME NEW t \in Threads, Begin(t)
      PROVE  IndInv'
  BY <1>0, <1>5, StateStep DEF Begin, StateAtBegin, States, locals
<1>6. ASSUME NEW t \in Threads, PollCall(t)
      PROVE  IndInv'
  BY <1>0, <1>6, QuietStep DEF PollCall, Places
<1>7. ASSUME NEW t \in Threads, NEW limit \in WaitLimits, WaitCall(t, limit)
      PROVE  IndInv'
  BY <1>0, <1>7, QuietStep DEF WaitCall, Places
<1>8. ASSUME NEW t \in Threads, PollCheck(t)
      PROVE  IndInv'
  <2>1. CASE state = "COMPLETED" /\ Return(t, "OK")
    BY <1>0, <1>8, <2>1, QuietStep DEF PollCheck, Return, Places
  <2>2. CASE state = "TIMED_OUT" /\ Return(t, "TIMEOUT")
    BY <1>0, <1>8, <2>2, QuietStep DEF PollCheck, Return, Places, Answers
  <2>3. CASE state = "DRAINING" /\ Goto(t, "poll_locked")
                               /\ UNCHANGED <<deadline, mode, answer>>
    BY <1>0, <1>8, <2>3, QuietStep DEF PollCheck, Places
  <2>4. CASE Pending(t)
    BY <1>0, <1>8, <2>4, QuietStep
       DEF PollCheck, Pending, Return, Places, Answers
  <2> QED
    BY <1>8, <2>1, <2>2, <2>3, <2>4 DEF PollCheck
<1>9. ASSUME NEW t \in Threads, PollDrained(t)
      PROVE  IndInv'
  BY <1>0, <1>9, StateStep DEF PollDrained, Return, States
<1>10. ASSUME NEW t \in Threads, PollOverdue(t) \/ WaitExpire(t)
       PROVE  IndInv'
  <2>1. TimeOut(t)
    BY <1>10 DEF PollOverdue, WaitExpire
  <2> QED
    BY <1>0, <2>1, StateStep DEF TimeOut, Return, States, Answers
<1>11. ASSUME NEW t \in Threads, PollPending(t)
       PROVE  IndInv'
  BY <1>0, <1>11, QuietStep DEF PollPending, Pending, Return, Places, Answers
<1>12. ASSUME NEW t \in Threads, WaitCheck(t)
       PROVE  IndInv'
  BY <1>0, <1>12, QuietStep DEF WaitCheck, AfterPending, Places
<1>13. ASSUME NEW t \in Threads, Destroy(t)
       PROVE  IndInv'
  BY <1>0, <1>13, DestroyInv
<1>14. ASSUME NEW t \in Threads, DestroyStore(t)
       PROVE  IndInv'
  BY <1>0, <1>14, StateStep DEF DestroyStore, States
<1>15. CASE Tick \/ UNCHANGED vars
  <2>1. UNCHANGED <<shared, locals>>
    BY <1>15 DEF Tick, vars
  <2>2. CountMatchesSlots' /\ NoStreamTwice' /\ AcceptedAccounted'
    BY <2>1, CountersKept DEF shared
  <2> QED
    BY <1>0, <2>1, <2>2, SlotsKept
       DEF shared, locals, IndInv, RegisterCarriesId, OkIsFinal,
           CompletedMeansEmpty
<1> QED
  BY <1>1, <1>2, <1>3, <1>4, <1>5, <1>6, <1>7, <1>8, <1>9, <1>10, <1>11,
     <1>12, <1>13, <1>14, <1>15, NextCases, Zenon

\* The inductive invariant holds in every state any callers can reach.
THEOREM InvCorrect == Spec => []IndInv
<1>1. IndInv /\ [Next]_vars => IndInv'
  BY InvStep
<1> QED
  BY InvInit, <1>1, PTL DEF Spec

\* The count that decides the end of the drain is exact.
THEOREM CountCorrect == Spec => []CountMatchesSlots
<1>1. IndInv => CountMatchesSlots
  BY DEF IndInv
<1> QED
  BY InvCorrect, <1>1, PTL

\* No stream id is tracked in two slots, whatever registers race.
THEOREM StreamsUnique == Spec => []NoStreamTwice
<1>1. IndInv => NoStreamTwice
  BY DEF IndInv
<1> QED
  BY InvCorrect, <1>1, PTL

\* Every accepted stream is completed or counted.
THEOREM AccountingCorrect == Spec => []AcceptedAccounted
<1>1. IndInv => AcceptedAccounted
  BY DEF IndInv
<1> QED
  BY InvCorrect, <1>1, PTL

\* The books are exact: the three together.
THEOREM BooksCorrect == Spec => []BooksExact
<1>1. IndInv => BooksExact
  BY DEF IndInv, BooksExact
<1> QED
  BY InvCorrect, <1>1, PTL

\* COMPLETED, and OK from poll or wait, mean that nothing is open, now and
\* later.
THEOREM CompletionCorrect == Spec => []CompletedMeansEmpty
<1>1. IndInv => CompletedMeansEmpty
  BY DEF IndInv
<1> QED
  BY InvCorrect, <1>1, PTL

-----------------------------------------------------------------------------
(* What a step may do, and the contract. *)

\* How a step moves the open streams and the state, as the contract sees it.
LEMMA AbstractStep ==
  ASSUME IndInv, [Next]_vars
  PROVE  \/ \E id \in Ids : Contract!Accept(id) \/ Contract!Finish(id)
         \/ Contract!Advance
         \/ Contract!Forget
         \/ UNCHANGED <<Open, state>>
<1> USE DEF Contract!Accept, Contract!Finish, Contract!Advance,
            Contract!Forget, Contract!Phases
<1>1. ASSUME NEW t \in Threads, RegisterAdd(t)
      PROVE  Contract!Accept(arg[t]) /\ arg[t] \in Ids
  <2>1. arg[t] \in Ids /\ arg[t] \notin Open
    BY <1>1 DEF RegisterAdd, Duplicate, Open, IndInv, RegisterCarriesId
  <2> QED
    BY <1>1, <2>1, RegisterAddsSlot DEF RegisterAdd, StillAccepts
<1>2. ASSUME NEW t \in Threads, NEW id \in Ids, Complete(t, id)
      PROVE  Contract!Finish(id)
  <2>1. CountMatchesSlots'
    BY <1>2, InvStep DEF IndInv
  <2>2. active_count' = 0 <=> Open' = {}
    <3>1. PICK i \in OpenSlots : OpenSlots' = OpenSlots \ {i}
      BY <1>2, CompleteFreesSlot
    <3>2. IsFiniteSet(OpenSlots')
      BY <3>1, OpenSlotsFinite, FS_RemoveElement
    <3> QED
      BY <2>1, <3>2, FS_EmptySet DEF CountMatchesSlots, Open
  <2> QED
    BY <1>2, <2>2, CompleteFreesSlot DEF Complete, StateAfterEnd
<1>3. ASSUME NEW t \in Threads,
             Begin(t) \/ PollDrained(t) \/ PollOverdue(t) \/ WaitExpire(t)
               \/ DestroyStore(t)
      PROVE  Contract!Advance
  <2>1. UNCHANGED Open
    BY <1>3, SlotsKept
       DEF Begin, PollDrained, PollOverdue, WaitExpire, TimeOut, DestroyStore
  <2>2. state' \in {"DRAINING", "COMPLETED", "TIMED_OUT", "IDLE"}
    BY <1>3 DEF Begin, StateAtBegin, PollDrained, PollOverdue, WaitExpire,
                TimeOut, DestroyStore
  <2>3. state' = "COMPLETED" => active_count = 0
    BY <1>3 DEF Begin, StateAtBegin, PollDrained, PollOverdue, WaitExpire,
                TimeOut, DestroyStore
  <2> QED
    BY <2>1, <2>2, <2>3, ZeroMeansEmpty DEF IndInv
<1>4. ASSUME NEW t \in Threads, Destroy(t)
      PROVE  Contract!Forget
  BY <1>4 DEF Destroy, FreeStreams, Open, OpenSlots
<1>5. ASSUME UNCHANGED shared
      PROVE  UNCHANGED <<Open, state>>
  BY <1>5, SlotsKept DEF shared
<1>6. ASSUME NEW t \in Threads,
             \/ \E id \in Ids : RegisterCheck(t, id)
             \/ \E limit \in WaitLimits : WaitCall(t, limit)
             \/ RegisterRefuse(t) \/ PollCall(t) \/ PollCheck(t)
             \/ PollPending(t) \/ WaitCheck(t)
      PROVE  UNCHANGED shared
  BY <1>6 DEF RegisterCheck, WaitCall, RegisterRefuse, PollCall, PollCheck,
              PollPending, WaitCheck
<1>7. ASSUME Tick \/ UNCHANGED vars
      PROVE  UNCHANGED shared
  BY <1>7 DEF Tick, vars
<1> QED
  BY <1>1, <1>2, <1>3, <1>4, <1>5, <1>6, <1>7, NextCases, Zenon

\* The detailed tracker implements the contract of a drain: whatever its
\* callers interleave, streams join only while it accepts, and it completes
\* only when none is left.
THEOREM TrackerImplementsContract == Spec => RefinesContract
<1>1. Init => Contract!Init
  BY DEF Init, Contract!Init, Open, OpenSlots
<1>2. IndInv /\ [Next]_vars => [Contract!Next]_<<Open, state>>
  BY AbstractStep, Zenon DEF Contract!Next
<1> QED
  BY <1>1, <1>2, InvCorrect, PTL
     DEF Spec, RefinesContract, Contract!Spec, Contract!vars

\* Once the tracker has left ACTIVE it never accepts again and its open
\* streams only leave.
THEOREM DrainShrinks == Spec => DrainOnlyShrinks
<1>1. IndInv /\ [Next]_vars =>
        [state # "ACTIVE" => state' # "ACTIVE" /\ Open' \subseteq Open]_vars
  <2> SUFFICES ASSUME IndInv, [Next]_vars, state # "ACTIVE"
               PROVE  state' # "ACTIVE" /\ Open' \subseteq Open
    OBVIOUS
  <2> QED
    BY AbstractStep DEF Contract!Accept, Contract!Finish, Contract!Advance,
                        Contract!Forget
<1> QED
  BY <1>1, InvCorrect, PTL DEF Spec, DrainOnlyShrinks
=============================================================================
