---------------------------- MODULE DrainTracker ----------------------------
(***************************************************************************)
(* The stream tracker of libraries/deploy/drain.c, called by several       *)
(* threads.  Every section between taking and clearing the spin lock is    *)
(* one step: no reader outside the lock sees more than the atomic `state`, *)
(* which each section stores at most once.  The loads of `state` before    *)
(* the lock (register, poll), the deadline test of the wait loop and the   *)
(* store after the unlock (destroy) are steps of their own.                *)
(***************************************************************************)
EXTENDS Integers, FiniteSets

CONSTANTS Ids,           \* stream ids the application uses, never 0
          NoId,          \* stream_id 0: a slot that holds no stream
          Threads,       \* callers
          MaxStreams,    \* config.max_streams, the slots allocated by init
          DrainTimeout,  \* config.drain_timeout_ms, in ticks
          WaitLimits,    \* timeout_ms arguments of wait_complete, in ticks
          MaxNow,        \* bound: the last tick of the clock
          MaxAccepted    \* bound: registrations are called up to this total

ASSUME TrackerAssumption ==
  /\ NoId \notin Ids
  /\ MaxStreams \in Nat \ {0}
  /\ DrainTimeout \in Nat \ {0}
  /\ WaitLimits \subseteq Nat \ {0}
  /\ MaxNow \in Nat
  /\ MaxAccepted \in Nat

VARIABLES state,            \* tracker->state, atomic
          streams,          \* tracker->streams: the id in each slot, or NoId
          stream_capacity,  \* 0 once destroyed
          active_count,
          drain_start,      \* tracker->drain_start_ms
          total_accepted, total_completed, total_timed_out,
          now,              \* the monotonic clock
          pc, arg, deadline, mode,  \* each caller: where it is, its locals
          answer            \* what the caller's last poll or wait returned

shared == <<state, streams, stream_capacity, active_count, drain_start,
            total_accepted, total_completed, total_timed_out>>
locals == <<pc, arg, deadline, mode, answer>>
vars == <<shared, now, locals>>

Slots == 1..MaxStreams
States == {"IDLE", "ACTIVE", "DRAINING", "COMPLETED", "TIMED_OUT"}
Places == {"idle", "register", "poll", "poll_locked", "deadline", "expire",
           "destroy"}
Answers == {"none", "OK", "TIMEOUT", "PENDING"}

\* Slots below the current capacity that hold a stream that is not CLOSED.
OpenSlots == {i \in Slots : i <= stream_capacity /\ streams[i] # NoId}
FreeSlots == {i \in Slots : i <= stream_capacity /\ streams[i] = NoId}
Open == {streams[i] : i \in OpenSlots}

\* alrios_drain_tracker_init: calloc'ed slots, zero counters, ACTIVE.
Init ==
  /\ state = "ACTIVE"
  /\ streams = [i \in Slots |-> NoId]
  /\ stream_capacity = MaxStreams
  /\ active_count = 0
  /\ drain_start = 0
  /\ total_accepted = 0 /\ total_completed = 0 /\ total_timed_out = 0
  /\ now = 0
  /\ pc = [t \in Threads |-> "idle"]
  /\ arg = [t \in Threads |-> NoId]
  /\ deadline = [t \in Threads |-> 0]
  /\ mode = [t \in Threads |-> "poll"]
  /\ answer = [t \in Threads |-> "none"]

Goto(t, place) == pc' = [pc EXCEPT ![t] = place]

\* poll or wait_complete returns a, and its locals are gone.
Return(t, a) ==
  /\ Goto(t, "idle")
  /\ answer' = [answer EXCEPT ![t] = a]
  /\ deadline' = [deadline EXCEPT ![t] = 0]
  /\ mode' = [mode EXCEPT ![t] = "poll"]

\* register returns.
RegisterReturn(t) == Goto(t, "idle") /\ arg' = [arg EXCEPT ![t] = NoId]

-----------------------------------------------------------------------------
(* Registering and completing a stream. *)

\* The load of state before the lock; anything but ACTIVE is ERR_STATE.
RegisterCheck(t, id) ==
  /\ pc[t] = "idle"
  /\ total_accepted < MaxAccepted
  /\ state = "ACTIVE"
  /\ Goto(t, "register")
  /\ arg' = [arg EXCEPT ![t] = id]
  /\ UNCHANGED <<shared, now, deadline, mode, answer>>

MutAlwaysAccepts == TRUE
\* The second load of state, under the lock.
StillAccepts == state = "ACTIVE"

MutIgnoresDuplicate(id) == FALSE
\* A slot already tracks this id: ERR_INVALID.
Duplicate(id) == \E i \in OpenSlots : streams[i] = id

\* The first free slot takes the stream.
RegisterAdd(t) ==
  /\ pc[t] = "register"
  /\ StillAccepts
  /\ ~Duplicate(arg[t])
  /\ \E i \in FreeSlots :
       /\ \A j \in FreeSlots : i <= j
       /\ streams' = [streams EXCEPT ![i] = arg[t]]
  /\ active_count' = active_count + 1
  /\ total_accepted' = total_accepted + 1
  /\ RegisterReturn(t)
  /\ UNCHANGED <<state, stream_capacity, drain_start, total_completed,
                 total_timed_out, now, deadline, mode, answer>>

\* ERR_STATE, ERR_INVALID or ERR_LIMIT under the lock: nothing changes.
RegisterRefuse(t) ==
  /\ pc[t] = "register"
  /\ ~StillAccepts \/ Duplicate(arg[t]) \/ FreeSlots = {}
  /\ RegisterReturn(t)
  /\ UNCHANGED <<shared, now, deadline, mode, answer>>

MutStoresStreamState(n) == IF state = "DRAINING" /\ n = 0 THEN "CLOSED" ELSE state
MutCompletesAnyPhase(n) == IF n = 0 THEN "COMPLETED" ELSE state
\* The state after a stream ended and n are left.
StateAfterEnd(n) == IF state = "DRAINING" /\ n = 0 THEN "COMPLETED" ELSE state

\* alrios_drain_stream_complete of a tracked id; NOT_FOUND changes nothing.
Complete(t, id) ==
  /\ pc[t] = "idle"
  /\ \E i \in OpenSlots :
       /\ streams[i] = id
       /\ \A j \in OpenSlots : streams[j] = id => i <= j
       /\ streams' = [streams EXCEPT ![i] = NoId]
  /\ active_count' = IF active_count > 0 THEN active_count - 1 ELSE 0
  /\ total_completed' = total_completed + 1
  /\ state' = StateAfterEnd(active_count')
  /\ UNCHANGED <<stream_capacity, drain_start, total_accepted,
                 total_timed_out, now, locals>>

-----------------------------------------------------------------------------
(* Draining. *)

MutBeginCompleted == "COMPLETED"
\* The state begin stores, whatever the state was.
StateAtBegin == IF active_count = 0 THEN "COMPLETED" ELSE "DRAINING"

\* alrios_drain_begin; the byte in notify_pipe only wakes event loops.
Begin(t) ==
  /\ pc[t] = "idle"
  /\ drain_start' = now
  /\ state' = StateAtBegin
  /\ UNCHANGED <<streams, stream_capacity, active_count, total_accepted,
                 total_completed, total_timed_out, now, locals>>

\* alrios_drain_poll called on its own.
PollCall(t) ==
  /\ pc[t] = "idle"
  /\ Goto(t, "poll")
  /\ UNCHANGED <<shared, now, arg, deadline, mode, answer>>

\* alrios_drain_wait_complete fixes its deadline and enters its loop.
WaitCall(t, limit) ==
  /\ pc[t] = "idle"
  /\ now + limit <= MaxNow
  /\ deadline' = [deadline EXCEPT ![t] = now + limit]
  /\ mode' = [mode EXCEPT ![t] = "wait"]
  /\ Goto(t, "poll")
  /\ UNCHANGED <<shared, now, arg, answer>>

\* A poll that found no verdict: 1 to the caller, or on to the deadline test.
Pending(t) ==
  IF mode[t] = "wait"
  THEN Goto(t, "deadline") /\ UNCHANGED <<deadline, mode, answer>>
  ELSE Return(t, "PENDING")

\* The load of state before the lock.
PollCheck(t) ==
  /\ pc[t] = "poll"
  /\ \/ state = "COMPLETED" /\ Return(t, "OK")
     \/ state = "TIMED_OUT" /\ Return(t, "TIMEOUT")
     \/ state = "DRAINING" /\ Goto(t, "poll_locked")
                           /\ UNCHANGED <<deadline, mode, answer>>
     \/ state \in {"IDLE", "ACTIVE"} /\ Pending(t)
  /\ UNCHANGED <<shared, now, arg>>

\* poll under the lock, all streams gone.
PollDrained(t) ==
  /\ pc[t] = "poll_locked"
  /\ active_count = 0
  /\ state' = "COMPLETED"
  /\ Return(t, "OK")
  /\ UNCHANGED <<streams, stream_capacity, active_count, drain_start,
                 total_accepted, total_completed, total_timed_out, now, arg>>

DrainOverdue == now >= drain_start + DrainTimeout

\* The tracker gives up on the streams still open.
TimeOut(t) ==
  /\ state' = "TIMED_OUT"
  /\ total_timed_out' = total_timed_out + active_count
  /\ Return(t, "TIMEOUT")
  /\ UNCHANGED <<streams, stream_capacity, active_count, drain_start,
                 total_accepted, total_completed, now, arg>>

\* poll under the lock, past the drain deadline.
PollOverdue(t) ==
  /\ pc[t] = "poll_locked"
  /\ active_count # 0 /\ DrainOverdue
  /\ TimeOut(t)

\* poll under the lock, still draining.
PollPending(t) ==
  /\ pc[t] = "poll_locked"
  /\ active_count # 0 /\ ~DrainOverdue
  /\ Pending(t)
  /\ UNCHANGED <<shared, now, arg>>

MutSleepsAgain(t) == Goto(t, "poll")
\* The wait loop after a pending poll: give up at the deadline or sleep.
AfterPending(t) == Goto(t, IF now >= deadline[t] THEN "expire" ELSE "poll")

WaitCheck(t) ==
  /\ pc[t] = "deadline"
  /\ AfterPending(t)
  /\ UNCHANGED <<shared, now, arg, deadline, mode, answer>>

\* wait_complete at its deadline: TIMED_OUT, without a look at the state.
WaitExpire(t) == pc[t] = "expire" /\ TimeOut(t)

-----------------------------------------------------------------------------
(* Destroying, and the clock. *)

\* free(streams) and capacity 0: nothing is found and nothing fits.
FreeStreams ==
  /\ streams' = [i \in Slots |-> NoId]
  /\ stream_capacity' = 0

\* alrios_drain_tracker_destroy up to the unlock.
Destroy(t) ==
  /\ pc[t] = "idle"
  /\ FreeStreams
  /\ active_count' = 0
  /\ Goto(t, "destroy")
  /\ UNCHANGED <<state, drain_start, total_accepted, total_completed,
                 total_timed_out, now, arg, deadline, mode, answer>>

\* The store of IDLE after the unlock.
DestroyStore(t) ==
  /\ pc[t] = "destroy"
  /\ state' = "IDLE"
  /\ Goto(t, "idle")
  /\ UNCHANGED <<streams, stream_capacity, active_count, drain_start,
                 total_accepted, total_completed, total_timed_out, now, arg,
                 deadline, mode, answer>>

\* External: CLOCK_MONOTONIC advances.
Tick == now < MaxNow /\ now' = now + 1 /\ UNCHANGED <<shared, locals>>

PollStep(t) == PollCheck(t) \/ PollDrained(t) \/ PollOverdue(t) \/ PollPending(t)
WaitStep(t) == PollStep(t) \/ WaitCheck(t) \/ WaitExpire(t)

Step(t) ==
  \/ \E id \in Ids : RegisterCheck(t, id) \/ Complete(t, id)
  \/ RegisterAdd(t) \/ RegisterRefuse(t)
  \/ Begin(t)
  \/ PollCall(t) \/ \E limit \in WaitLimits : WaitCall(t, limit)
  \/ WaitStep(t)
  \/ Destroy(t) \/ DestroyStore(t)

Next == (\E t \in Threads : Step(t)) \/ Tick

\* A called wait loop runs on (it sleeps 5 ms and no lock holder blocks) and
\* the clock advances; calls themselves are under no fairness.
Fairness == WF_vars(Tick) /\ \A t \in Threads : WF_vars(WaitStep(t))

Spec == Init /\ [][Next]_vars
FairSpec == Spec /\ Fairness

-----------------------------------------------------------------------------
(* Properties. *)

\* Every variable keeps its type.
TypeOK ==
  /\ state \in States
  /\ streams \in [Slots -> Ids \cup {NoId}]
  /\ stream_capacity \in {0, MaxStreams}
  /\ active_count \in Nat /\ drain_start \in Nat
  /\ total_accepted \in Nat /\ total_completed \in Nat
  /\ total_timed_out \in Nat
  /\ now \in Nat
  /\ pc \in [Threads -> Places]
  /\ arg \in [Threads -> Ids \cup {NoId}]
  /\ deadline \in [Threads -> Nat]
  /\ mode \in [Threads -> {"poll", "wait"}]
  /\ answer \in [Threads -> Answers]

\* active_count, which decides COMPLETED and the timed-out total, is the
\* number of slots that really hold a stream, whatever registers, completes
\* and destroys interleave.
CountMatchesSlots == active_count = Cardinality(OpenSlots)

\* No two slots track the same id (else complete would end only one of them).
NoStreamTwice ==
  \A i, j \in OpenSlots : streams[i] = streams[j] => i = j

\* Every accepted stream is either completed or still counted, until destroy
\* forgets the open ones.
AcceptedAccounted ==
  /\ total_completed + active_count <= total_accepted
  /\ stream_capacity # 0 => total_accepted = total_completed + active_count

\* The books of the tracker are exact: the three together, which register,
\* complete and destroy keep in different orders under the lock.
BooksExact == CountMatchesSlots /\ NoStreamTwice /\ AcceptedAccounted

\* COMPLETED is only ever shown when no stream is open, and a caller once
\* told OK by poll or wait is never contradicted by a stream accepted later.
CompletedMeansEmpty ==
  /\ state = "COMPLETED" => Open = {}
  /\ \A t \in Threads : answer[t] = "OK" => Open = {}

\* "Begin draining: stop accepting new work": once the tracker left ACTIVE it
\* never returns, and the set of open streams only shrinks, even for a
\* register whose first check passed before the drain began.
DrainOnlyShrinks ==
  [][state # "ACTIVE" => state' # "ACTIVE" /\ Open' \subseteq Open]_vars

\* The slots and locks implement the contract.
Contract == INSTANCE DrainContract WITH open <- Open, phase <- state
RefinesContract == Contract!Spec

\* The wait is bounded: a wait_complete call returns, drained or not, begun
\* or not.
WaitReturns ==
  \A t \in Threads : (mode[t] = "wait" /\ pc[t] # "idle") ~> (pc[t] = "idle")
=============================================================================
