----------------------------- MODULE SvcManager -----------------------------
(***************************************************************************)
(* One native service of platform/kernel/svc: its entry in services[], the *)
(* threads that run its entry point inside svc_thread_wrapper, and the     *)
(* controllers (control connections, the boot thread) that call            *)
(* ar_svc_start, ar_svc_stop and ar_svc_restart on it.  Nothing is locked, *)
(* so each read and each write of the entry is a step.                     *)
(***************************************************************************)
EXTENDS Naturals, FiniteSets

CONSTANTS Controllers,
          MaxWorkers,   \* bound: threads ever created for the service
          HasHook       \* ar_svc_set_stop_hook was called

ASSUME SvcAssumption == MaxWorkers \in Nat \ {0} /\ HasHook \in BOOLEAN

VARIABLES status,   \* svc->status
          handle,   \* svc->thread_handle, 0 for NULL
          worker,   \* each thread: not created, in entry(), in the wrapper, gone
          told,     \* threads whose entry the stop hook asked to return
          pc, op,   \* each controller: where it is, in which function
          held      \* the handle it passed to ar_thread_join

vars == <<status, handle, worker, told, pc, op, held>>
caller == <<op, held>>

Workers == 1..MaxWorkers
NoThread == 0
Statuses == {"STOPPED", "RUNNING", "RESTARTING", "CRASHED"}
WorkerPlaces == {"unborn", "entry", "failed", "crashing", "ended", "ended_failed"}
Ended == {"ended", "ended_failed"}   \* the thread has returned, rc zero or not
Places == {"idle", "restart", "mark", "hook", "join", "finish", "create",
           "publish"}

Live == {w \in Workers : worker[w] = "entry"}

\* ar_svc_register: no thread, no hook yet, STOPPED.
Init ==
  /\ status = "STOPPED"
  /\ handle = NoThread
  /\ worker = [w \in Workers |-> "unborn"]
  /\ told = {}
  /\ pc = [c \in Controllers |-> "idle"]
  /\ op = [c \in Controllers |-> "start"]
  /\ held = [c \in Controllers |-> NoThread]

Goto(c, place) == pc' = [pc EXCEPT ![c] = place]
Enter(c, f, place) == Goto(c, place) /\ op' = [op EXCEPT ![c] = f]

-----------------------------------------------------------------------------
(* The controllers. *)

\* ar_svc_start, also for each service of ar_svc_start_all; -1 unless STOPPED.
StartCall(c) ==
  /\ pc[c] = "idle"
  /\ status = "STOPPED"
  /\ Enter(c, "start", "create")
  /\ UNCHANGED <<status, handle, worker, told, held>>

\* ar_svc_stop; -1 unless RUNNING or CRASHED.
StopCall(c) ==
  /\ pc[c] = "idle"
  /\ status \in {"RUNNING", "CRASHED"}
  /\ Enter(c, "stop", "hook")
  /\ UNCHANGED <<status, handle, worker, told, held>>

\* ar_supervisor_restart_one and _all look for CRASHED before restarting.
SuperviseCall(c) ==
  /\ pc[c] = "idle"
  /\ status = "CRASHED"
  /\ Enter(c, "restart", "restart")
  /\ UNCHANGED <<status, handle, worker, told, held>>

\* ar_svc_restart: only a RUNNING service is stopped first.
RestartCall(c) ==
  /\ pc[c] \in {"idle", "restart"}
  /\ Enter(c, "restart", IF status = "RUNNING" THEN "mark" ELSE "create")
  /\ UNCHANGED <<status, handle, worker, told, held>>

RestartMark(c) ==
  /\ pc[c] = "mark"
  /\ status' = "RESTARTING"
  /\ Goto(c, "hook")
  /\ UNCHANGED <<handle, worker, told, caller>>

MutSkipsJoin(c) == IF op[c] = "stop" THEN "finish" ELSE "create"
\* A thread there is to join; ar_svc_stop tests the handle for NULL.
AfterHook(c) == IF op[c] = "stop" /\ handle = NoThread THEN "finish" ELSE "join"

MutForgetsHook == told
\* stop_hook(), when there is one, asks the running entry to return.
ToldByHook == IF HasHook THEN told \cup Live ELSE told

Hook(c) ==
  /\ pc[c] = "hook"
  /\ told' = ToldByHook
  /\ held' = [held EXCEPT ![c] = handle]
  /\ Goto(c, AfterHook(c))
  /\ UNCHANGED <<status, handle, worker, op>>

\* ar_thread_join returns, and the handle is cleared.  Joining NULL, which
\* ar_svc_restart does not test for, would be a fault: no step.
Join(c) ==
  /\ pc[c] = "join"
  /\ held[c] # NoThread
  /\ worker[held[c]] \in Ended
  /\ handle' = NoThread
  /\ held' = [held EXCEPT ![c] = NoThread]
  /\ Goto(c, IF op[c] = "stop" THEN "finish" ELSE "create")
  /\ UNCHANGED <<status, worker, told, op>>

StopFinish(c) ==
  /\ pc[c] = "finish"
  /\ status' = "STOPPED"
  /\ Goto(c, "idle")
  /\ UNCHANGED <<handle, worker, told, caller>>

\* ar_thread_create succeeds: the thread runs before the status says so.
CreateOk(c) ==
  /\ pc[c] = "create"
  /\ \E w \in Workers :
       /\ worker[w] = "unborn"
       /\ \A v \in Workers : worker[v] = "unborn" => w <= v
       /\ worker' = [worker EXCEPT ![w] = "entry"]
       /\ handle' = w
  /\ Goto(c, "publish")
  /\ UNCHANGED <<status, told, caller>>

MutFailedRestartRuns(c) == IF op[c] = "restart" THEN "RUNNING" ELSE status
\* ar_thread_create fails: start leaves the status, restart says CRASHED.
FailStatus(c) == IF op[c] = "restart" THEN "CRASHED" ELSE status

CreateFail(c) ==
  /\ pc[c] = "create"
  /\ handle' = NoThread
  /\ status' = FailStatus(c)
  /\ Goto(c, "idle")
  /\ UNCHANGED <<worker, told, caller>>

Publish(c) ==
  /\ pc[c] = "publish"
  /\ status' = "RUNNING"
  /\ Goto(c, "idle")
  /\ UNCHANGED <<handle, worker, told, caller>>

-----------------------------------------------------------------------------
(* The service threads. *)

\* External: entry() returns zero (asked to, or finished) or fails.
EntryReturns(w) ==
  /\ worker[w] = "entry"
  /\ \E p \in {"ended", "failed"} : worker' = [worker EXCEPT ![w] = p]
  /\ UNCHANGED <<status, handle, told, pc, caller>>

\* The wrapper reports a failure only of a service it believes running.
BelievedRunning == status = "RUNNING"

WrapperCheck(w) ==
  /\ worker[w] = "failed"
  /\ worker' = [worker EXCEPT ![w] = IF BelievedRunning THEN "crashing"
                                                           ELSE "ended_failed"]
  /\ UNCHANGED <<status, handle, told, pc, caller>>

\* What the wrapper stores for a failed entry.
CrashStatus == "CRASHED"

WrapperCrash(w) ==
  /\ worker[w] = "crashing"
  /\ status' = CrashStatus
  /\ worker' = [worker EXCEPT ![w] = "ended_failed"]
  /\ UNCHANGED <<handle, told, pc, caller>>

-----------------------------------------------------------------------------
ControllerStep(c) ==
  \/ StartCall(c) \/ StopCall(c) \/ SuperviseCall(c) \/ RestartCall(c)
  \/ RestartMark(c) \/ Hook(c) \/ Join(c) \/ StopFinish(c)
  \/ CreateOk(c) \/ CreateFail(c) \/ Publish(c)

WorkerStep(w) == EntryReturns(w) \/ WrapperCheck(w) \/ WrapperCrash(w)

Next ==
  \/ \E c \in Controllers : ControllerStep(c)
  \/ \E w \in Workers : WorkerStep(w)

\* A controller inside a call runs on unless it blocks in the join; a thread
\* in the wrapper runs on; an entry returns once its hook asked it to, which
\* is what a stop hook is for.
Fairness ==
  /\ \A c \in Controllers : WF_vars(pc[c] # "idle" /\ ControllerStep(c))
  /\ \A w \in Workers : /\ WF_vars(WrapperCheck(w) \/ WrapperCrash(w))
                        /\ WF_vars(w \in told /\ EntryReturns(w))

Spec == Init /\ [][Next]_vars
FairSpec == Spec /\ Fairness

-----------------------------------------------------------------------------
(* Properties. *)

\* Every variable keeps its type.
TypeOK ==
  /\ status \in Statuses
  /\ handle \in Workers \cup {NoThread}
  /\ worker \in [Workers -> WorkerPlaces]
  /\ told \in SUBSET Workers
  /\ pc \in [Controllers -> Places]
  /\ op \in [Controllers -> {"start", "stop", "restart"}]
  /\ held \in [Controllers -> Workers \cup {NoThread}]

Quiet == \A c \in Controllers : pc[c] = "idle"

\* A service never runs twice: two threads of it are never both in entry(),
\* through any order of starts, stops, restarts, crashes and failed creates;
\* and between calls, a service reported STOPPED or CRASHED has none left
\* there.  The types are kept.
OneInstance ==
  /\ TypeOK
  /\ Cardinality(Live) <= 1
  /\ Quiet /\ status \in {"STOPPED", "CRASHED"} => Live = {}

\* With a stop hook, a stop or restart in progress comes back to its caller.
CallsReturn == \A c \in Controllers : pc[c] = "hook" ~> pc[c] = "idle"

\* A join is always of a thread that exists and that nobody else joined and
\* freed meanwhile; and a thread that was overtaken by a newer one can no
\* longer speak for the service: whoever is about to store CRASHED is the
\* current thread.
JoinsCurrent ==
  /\ \A c \in Controllers : pc[c] = "join" => held[c] # NoThread /\ held[c] = handle
  /\ \A w \in Workers : worker[w] = "crashing" => handle = w
=============================================================================
