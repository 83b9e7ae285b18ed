---------------------------- MODULE SupervisorApp ----------------------------
(***************************************************************************)
(* One application process under daemons/supervisor (loader.c, context.c): *)
(* its entry in apps[], its two hot-reload slots, the processes created    *)
(* for it, the control connections of platform/core/ctl.c that start,      *)
(* stop, restart, list, reload and deploy it, and the main loop that reaps *)
(* it.  app_mutex and hotreload_mutex are kept where the code takes them;  *)
(* start, stop and the survival check touch the entry without them.  A     *)
(* polling loop may end at any of its rounds, so its number of rounds and  *)
(* its sleeps are not modelled.                                            *)
(***************************************************************************)
EXTENDS Naturals, FiniteSets

CONSTANTS Controllers,   \* control connections, one thread each
          Main,          \* the main loop
          Ops,           \* the requests controllers make
          MaxProcs,      \* bound: processes ever created
          HasServices    \* some other entry of apps[] is a native service

ASSUME AppAssumption ==
  /\ Main \notin Controllers /\ "nobody" \notin Controllers \cup {Main}
  /\ Ops \subseteq {"start", "stop", "restart", "reload", "deploy", "list"}
  /\ MaxProcs \in Nat \ {0}
  /\ HasServices \in BOOLEAN

VARIABLES state, pid,        \* the entry of apps[]; pid 0 is no process
          app_mutex,         \* the thread that holds it, or Nobody
          hotreload_mutex,
          slots, active_slot,
          proc,              \* each process: unborn, up, dying, zombie, gone
          told,              \* processes sent SIGTERM or SIGKILL
          deployed,          \* processes created by a deploy
          self,              \* signals that reached the supervisor's own group
          pc, op             \* each thread: where it is, its request

entry == <<state, pid>>
locks == <<app_mutex, hotreload_mutex>>
hot == <<slots, active_slot>>
processes == <<proc, told, deployed, self>>
vars == <<entry, locks, hot, processes, pc, op>>

Threads == Controllers \cup {Main}
Nobody == "nobody"
NoProc == 0
Procs == 1..MaxProcs
States == {"STOPPED", "RUNNING", "CRASHED"}
SlotStates == {"IDLE", "STAGING", "PROBING", "ACTIVE", "DRAINING",
               "TERMINATED", "ABORTED"}
StopPlaces == {"stop", "term", "stop_wait", "kill", "kill_wait", "finish"}
AllPlaces == {"all_term", "all_services", "all_relock", "all_wait", "autostart"}
DeployPlaces == {"deploy", "lock", "stage", "probe", "switch", "drain", "grace",
                 "killed", "drained"}
Places == {"idle", "start", "reset", "spawn", "survive", "poll", "poll_store",
           "reap", "reap_store"}
            \cup StopPlaces \cup AllPlaces \cup DeployPlaces

Up == {p \in Procs : proc[p] = "up"}

Init ==
  /\ state = "STOPPED" /\ pid = NoProc
  /\ app_mutex = Nobody /\ hotreload_mutex = Nobody
  /\ slots = [i \in 0..1 |-> [pid |-> NoProc, state |-> "IDLE"]]
  /\ active_slot = 0
  /\ proc = [p \in Procs |-> "unborn"]
  /\ told = {} /\ deployed = {} /\ self = {}
  /\ pc = [t \in Threads |-> "idle"]
  /\ op = [t \in Threads |-> "list"]

Goto(t, place) == pc' = [pc EXCEPT ![t] = place]

-----------------------------------------------------------------------------
(* The process calls of the HAL. *)

\* ar_process_wait_nohang and _wait_status report a process that is not, or
\* no longer, there as ended; a bad pid counts as ended too.
Dead(p) == p = NoProc \/ proc[p] \in {"zombie", "gone"}
Reaped(p) == IF p # NoProc /\ proc[p] = "zombie"
             THEN [proc EXCEPT ![p] = "gone"] ELSE proc
Wait(p) == proc' = Reaped(p) /\ UNCHANGED <<told, deployed, self>>

\* ar_process_signal refuses pid 0, which kill would take for the caller's own
\* process group.
RefusesPid(p) == p = NoProc

Signal(p, sig) ==
  /\ self' = IF p = NoProc /\ ~RefusesPid(p) THEN self \cup {sig} ELSE self
  /\ told' = IF p \in Up THEN told \cup {p} ELSE told
  /\ proc' = IF p \in Up /\ sig = "KILL" THEN [proc EXCEPT ![p] = "dying"]
                                           ELSE proc
  /\ UNCHANGED deployed

\* fork and exec give the next process.
Fresh(p) == proc[p] = "unborn" /\ \A q \in Procs : proc[q] = "unborn" => p <= q

\* External: a process ends by itself, on SIGTERM, or by SIGKILL.
Exits(p) ==
  /\ proc[p] \in {"up", "dying"}
  /\ proc' = [proc EXCEPT ![p] = "zombie"]
  /\ UNCHANGED <<entry, locks, hot, told, deployed, self, pc, op>>

-----------------------------------------------------------------------------
(* Requests, and the start of an application. *)

FirstPlace == [start |-> "start", stop |-> "stop", restart |-> "stop",
               reload |-> "all_term", deploy |-> "deploy", list |-> "reap"]

Request(c, o) ==
  /\ pc[c] = "idle"
  /\ Goto(c, FirstPlace[o])
  /\ op' = [op EXCEPT ![c] = o]
  /\ UNCHANGED <<entry, locks, hot, processes>>

\* ar_supervisor_start_app: a RUNNING application is left alone.
AlreadyRuns == state = "RUNNING"

StartCheck(c) ==
  /\ pc[c] = "start"
  /\ Goto(c, IF AlreadyRuns THEN "idle" ELSE "reset")
  /\ UNCHANGED <<entry, locks, hot, processes, op>>

StartReset(c) ==
  /\ pc[c] = "reset"
  /\ app_mutex = Nobody
  /\ pid' = NoProc /\ state' = "STOPPED"
  /\ Goto(c, "spawn")
  /\ UNCHANGED <<locks, hot, processes, op>>

\* loader_spawn is refused by the policy, the binary is missing, or fork or
\* exec fails; a missing runtime leaves the pid, a library leaves everything.
SpawnFail(c) ==
  /\ pc[c] = "spawn"
  /\ \/ pid' = NoProc /\ state' = "CRASHED"
     \/ UNCHANGED pid /\ state' = "CRASHED"
     \/ UNCHANGED entry
  /\ Goto(c, "idle")
  /\ UNCHANGED <<locks, hot, processes, op>>

\* The process cannot be added to the process group: killed and reaped.
SpawnUntracked(c) ==
  /\ pc[c] = "spawn"
  /\ \E p \in Procs : Fresh(p) /\ proc' = [proc EXCEPT ![p] = "gone"]
  /\ pid' = NoProc /\ state' = "CRASHED"
  /\ Goto(c, "idle")
  /\ UNCHANGED <<locks, hot, told, deployed, self, op>>

SpawnOk(c) ==
  /\ pc[c] = "spawn"
  /\ \E p \in Procs : /\ Fresh(p)
                      /\ proc' = [proc EXCEPT ![p] = "up"]
                      /\ pid' = p
  /\ state' = "RUNNING"
  /\ Goto(c, "survive")
  /\ UNCHANGED <<locks, hot, told, deployed, self, op>>

\* spawn_survive_check, entered only for a RUNNING entry with a process.
SurviveEnter(c) ==
  /\ pc[c] = "survive"
  /\ Goto(c, IF state = "RUNNING" /\ pid # NoProc THEN "poll" ELSE "idle")
  /\ UNCHANGED <<entry, locks, hot, processes, op>>

\* One of its polls finds the process ended, or the last one finds it alive.
SurvivePoll(c) ==
  /\ pc[c] = "poll"
  /\ Goto(c, IF Dead(pid) THEN "poll_store" ELSE "idle")
  /\ Wait(pid)
  /\ UNCHANGED <<entry, locks, hot, op>>

SurviveStore(c) ==
  /\ pc[c] = "poll_store"
  /\ pid' = NoProc /\ state' = "CRASHED"
  /\ Goto(c, "idle")
  /\ UNCHANGED <<locks, hot, processes, op>>

-----------------------------------------------------------------------------
(* The stop of an application. *)

\* A stop is followed by a start in a restart.
AfterStop(c) == IF op[c] = "restart" THEN "start" ELSE "idle"

\* ar_supervisor_stop_app.
StopCheck(c) ==
  /\ pc[c] = "stop"
  /\ Goto(c, IF pid # NoProc THEN "term"
             ELSE IF state = "STOPPED" THEN AfterStop(c) ELSE "finish")
  /\ UNCHANGED <<entry, locks, hot, processes, op>>

StopTerm(c) ==
  /\ pc[c] = "term"
  /\ Signal(pid, "TERM")
  /\ Goto(c, "stop_wait")
  /\ UNCHANGED <<entry, locks, hot, op>>

MutNeverKills == "finish"
\* The process did not go within the polls.
AfterStopWait == "kill"

StopWait(c) ==
  /\ pc[c] = "stop_wait"
  /\ Goto(c, IF Dead(pid) THEN "finish" ELSE AfterStopWait)
  /\ Wait(pid)
  /\ UNCHANGED <<entry, locks, hot, op>>

StopKill(c) ==
  /\ pc[c] = "kill"
  /\ Signal(pid, "KILL")
  /\ Goto(c, "kill_wait")
  /\ UNCHANGED <<entry, locks, hot, op>>

\* Polls again, and goes on after the last one whatever it found.
StopKillWait(c) ==
  /\ pc[c] = "kill_wait"
  /\ Wait(pid)
  /\ Goto(c, "finish")
  /\ UNCHANGED <<entry, locks, hot, op>>

StopFinish(c) ==
  /\ pc[c] = "finish"
  /\ app_mutex = Nobody
  /\ pid' = NoProc /\ state' = "STOPPED"
  /\ Goto(c, AfterStop(c))
  /\ UNCHANGED <<locks, hot, processes, op>>

-----------------------------------------------------------------------------
(* The reaper: the main loop every 500 ms, and every LIST request. *)

MutReapsStopped == state = "STOPPED" /\ pid # NoProc /\ Dead(pid)
ReapDue == state = "RUNNING" /\ pid # NoProc /\ Dead(pid)

ReapCheck(t) ==
  /\ IF t = Main THEN pc[t] = "idle" ELSE pc[t] = "reap"
  /\ app_mutex = Nobody
  /\ IF ReapDue
     THEN /\ app_mutex' = t
          /\ Wait(pid)
          /\ Goto(t, "reap_store")
     ELSE /\ Goto(t, "idle")
          /\ UNCHANGED <<app_mutex, processes>>
  /\ UNCHANGED <<entry, hotreload_mutex, hot, op>>

\* What the reaper makes of an entry whose process ended.
ReapedState == "CRASHED"

ReapStore(t) ==
  /\ pc[t] = "reap_store"
  /\ state' = ReapedState /\ pid' = NoProc
  /\ app_mutex' = Nobody
  /\ Goto(t, "idle")
  /\ UNCHANGED <<hotreload_mutex, hot, processes, op>>

-----------------------------------------------------------------------------
(* ar_supervisor_power_reload: stop_all, rescan, autostart. *)

\* SIGTERM, without the process group.
AllTerm(c) ==
  /\ pc[c] = "all_term"
  /\ app_mutex = Nobody
  /\ app_mutex' = c
  /\ IF pid # NoProc THEN Signal(pid, "TERM") ELSE UNCHANGED processes
  /\ Goto(c, IF HasServices THEN "all_services" ELSE "all_wait")
  /\ UNCHANGED <<entry, hotreload_mutex, hot, op>>

\* The lock is released while a native service is stopped.
AllServices(c) ==
  /\ pc[c] = "all_services"
  /\ app_mutex' = Nobody
  /\ Goto(c, "all_relock")
  /\ UNCHANGED <<entry, hotreload_mutex, hot, processes, op>>

AllRelock(c) ==
  /\ pc[c] = "all_relock"
  /\ app_mutex = Nobody
  /\ app_mutex' = c
  /\ Goto(c, "all_wait")
  /\ UNCHANGED <<entry, hotreload_mutex, hot, processes, op>>

\* Gone within the polls, or killed; an entry without a process keeps its
\* state.
AllWait(c) ==
  /\ pc[c] = "all_wait"
  /\ IF Dead(pid) THEN Wait(pid) ELSE Signal(pid, "KILL")
  /\ IF pid = NoProc THEN UNCHANGED entry ELSE pid' = NoProc /\ state' = "STOPPED"
  /\ app_mutex' = Nobody
  /\ Goto(c, "autostart")
  /\ UNCHANGED <<hotreload_mutex, hot, op>>

\* spawn_autostart_priority spawns only what is STOPPED.
Autostart(c) ==
  /\ pc[c] = "autostart"
  /\ Goto(c, IF state = "STOPPED" THEN "spawn" ELSE "idle")
  /\ UNCHANGED <<entry, locks, hot, processes, op>>

-----------------------------------------------------------------------------
(* ar_supervisor_hotreload_deploy.  Nothing reads the slots without          *)
(* hotreload_mutex, so their changes between two other effects are one step. *)

MutReusesActive == active_slot
\* The slot the new version goes into.
Candidate == IF slots[active_slot].state = "ACTIVE" THEN 1 - active_slot
                                                    ELSE active_slot

\* Before the lock: no package, or refused by the policy, else on.
DeployCheck(c) ==
  /\ pc[c] = "deploy"
  /\ \/ Goto(c, "idle")
     \/ Goto(c, "lock")
  /\ UNCHANGED <<entry, locks, hot, processes, op>>

\* Under the lock: no room for another application in the table.
DeployNoRoom(c) ==
  /\ pc[c] = "lock"
  /\ hotreload_mutex = Nobody
  /\ Goto(c, "idle")
  /\ UNCHANGED <<entry, locks, hot, processes, op>>

DeployLock(c) ==
  /\ pc[c] = "lock"
  /\ hotreload_mutex = Nobody
  /\ hotreload_mutex' = c
  /\ IF slots[Candidate].pid # NoProc THEN Signal(slots[Candidate].pid, "TERM")
                                      ELSE UNCHANGED processes
  /\ slots' = [slots EXCEPT ![Candidate] = [pid |-> NoProc, state |-> "STAGING"]]
  /\ Goto(c, "stage")
  /\ UNCHANGED <<entry, app_mutex, active_slot, op>>

MutKeepsLock == hotreload_mutex
\* The lock after an aborted deploy.
AbortReleases == Nobody

Abort(c) ==
  /\ slots' = [slots EXCEPT ![Candidate] = [pid |-> NoProc, state |-> "ABORTED"]]
  /\ hotreload_mutex' = AbortReleases
  /\ Goto(c, "idle")
  /\ UNCHANGED <<entry, app_mutex, active_slot, op>>

\* The package does not open, has no executable, or does not run.
StageFail(c) == pc[c] = "stage" /\ Abort(c) /\ UNCHANGED processes

StageUntracked(c) ==
  /\ pc[c] = "stage"
  /\ \E p \in Procs : Fresh(p) /\ proc' = [proc EXCEPT ![p] = "gone"]
  /\ Abort(c)
  /\ UNCHANGED <<told, deployed, self>>

StageBoot(c) ==
  /\ pc[c] = "stage"
  /\ \E p \in Procs :
       /\ Fresh(p)
       /\ proc' = [proc EXCEPT ![p] = "up"]
       /\ deployed' = deployed \cup {p}
       /\ slots' = [slots EXCEPT ![Candidate] = [pid |-> p, state |-> "PROBING"]]
  /\ Goto(c, "probe")
  /\ UNCHANGED <<entry, locks, active_slot, told, self, op>>

ProbeFail(c) ==
  /\ pc[c] = "probe"
  /\ Dead(slots[Candidate].pid)
  /\ Wait(slots[Candidate].pid)
  /\ Abort(c)

ProbeOk(c) ==
  /\ pc[c] = "probe"
  /\ ~Dead(slots[Candidate].pid)
  /\ Goto(c, "switch")
  /\ UNCHANGED <<entry, locks, hot, processes, op>>

\* The slot left behind has a process to wait for.
OldServes(old, new) ==
  old # new /\ slots[old].pid # NoProc /\ slots[old].state = "ACTIVE"

\* The candidate becomes active and its process the application's.
Switch(c) ==
  /\ pc[c] = "switch"
  /\ app_mutex = Nobody
  /\ LET old == active_slot  new == Candidate IN
       /\ active_slot' = new
       /\ slots' = [i \in 0..1 |->
            IF i = new THEN [slots[i] EXCEPT !.state = "ACTIVE"]
            ELSE IF OldServes(old, new) THEN [slots[i] EXCEPT !.state = "DRAINING"]
            ELSE slots[i]]
       /\ pid' = slots[new].pid /\ state' = "RUNNING"
       /\ Goto(c, IF OldServes(old, new) THEN "drain" ELSE "drained")
  /\ UNCHANGED <<locks, processes, op>>

OldPid == slots[1 - active_slot].pid

\* alrios_drain_process_await: wait for the process to end by itself, ...
AwaitDrain(c) ==
  /\ pc[c] = "drain"
  /\ IF Dead(OldPid) THEN Wait(OldPid) /\ Goto(c, "drained")
                     ELSE Signal(OldPid, "TERM") /\ Goto(c, "grace")
  /\ UNCHANGED <<entry, locks, hot, op>>

MutNoEscalation == UNCHANGED processes
\* The process outlived its grace period.
Escalate == Signal(OldPid, "KILL")

\* ... SIGTERM and a grace period, ...
AwaitGrace(c) ==
  /\ pc[c] = "grace"
  /\ IF Dead(OldPid) THEN Wait(OldPid) /\ Goto(c, "drained")
                     ELSE Escalate /\ Goto(c, "killed")
  /\ UNCHANGED <<entry, locks, hot, op>>

\* ... SIGKILL, and a last few polls.
AwaitKilled(c) ==
  /\ pc[c] = "killed"
  /\ Wait(OldPid)
  /\ Goto(c, "drained")
  /\ UNCHANGED <<entry, locks, hot, op>>

DeployDone(c) ==
  /\ pc[c] = "drained"
  /\ slots' = IF slots[1 - active_slot].state = "DRAINING"
              THEN [slots EXCEPT ![1 - active_slot] =
                      [pid |-> NoProc, state |-> "TERMINATED"]]
              ELSE slots
  /\ hotreload_mutex' = Nobody
  /\ Goto(c, "idle")
  /\ UNCHANGED <<entry, app_mutex, active_slot, processes, op>>

-----------------------------------------------------------------------------
StartStep(c) ==
  \/ StartCheck(c) \/ StartReset(c) \/ SpawnFail(c) \/ SpawnUntracked(c)
  \/ SpawnOk(c) \/ SurviveEnter(c) \/ SurvivePoll(c) \/ SurviveStore(c)

StopStep(c) ==
  \/ StopCheck(c) \/ StopTerm(c) \/ StopWait(c) \/ StopKill(c)
  \/ StopKillWait(c) \/ StopFinish(c)

ReapStep(t) == ReapCheck(t) \/ ReapStore(t)

ReloadStep(c) ==
  \/ AllTerm(c) \/ AllServices(c) \/ AllRelock(c) \/ AllWait(c) \/ Autostart(c)

DeployStep(c) ==
  \/ DeployCheck(c) \/ DeployNoRoom(c) \/ DeployLock(c) \/ StageFail(c) \/ StageUntracked(c) \/ StageBoot(c)
  \/ ProbeFail(c) \/ ProbeOk(c) \/ Switch(c)
  \/ AwaitDrain(c) \/ AwaitGrace(c) \/ AwaitKilled(c) \/ DeployDone(c)

CallStep(c) ==
  StartStep(c) \/ StopStep(c) \/ ReapStep(c) \/ ReloadStep(c) \/ DeployStep(c)

Next ==
  \/ \E c \in Controllers : CallStep(c) \/ \E o \in Ops : Request(c, o)
  \/ ReapStep(Main)
  \/ \E p \in Procs : Exits(p)

\* A thread in a request runs on and gets a lock that is free again and
\* again; the main loop runs.  Requests and processes owe nothing.
Fairness ==
  /\ \A c \in Controllers : SF_vars(CallStep(c))
  /\ SF_vars(ReapStep(Main))

Spec == Init /\ [][Next]_vars
FairSpec == Spec /\ Fairness

-----------------------------------------------------------------------------
(* Properties. *)

Quiet == \A c \in Controllers : pc[c] = "idle"

\* Every variable keeps its type, and a lock is held only by a thread that is
\* in a section of it.
TypeOK ==
  /\ state \in States
  /\ pid \in Procs \cup {NoProc}
  /\ app_mutex \in Threads \cup {Nobody}
  /\ hotreload_mutex \in Controllers \cup {Nobody}
  /\ slots \in [0..1 -> [pid : Procs \cup {NoProc}, state : SlotStates]]
  /\ active_slot \in 0..1
  /\ proc \in [Procs -> {"unborn", "up", "dying", "zombie", "gone"}]
  /\ told \subseteq Procs /\ deployed \subseteq Procs
  /\ self \subseteq {"TERM", "KILL"}
  /\ pc \in [Threads -> Places]
  /\ op \in [Threads -> {"start", "stop", "restart", "reload", "deploy", "list"}]

\* With requests one at a time, and until a deploy brings a second version:
\* the application never runs twice, whatever the reaper and its crashes do
\* between the steps of a request; between requests the process that is up
\* is the one the entry names, and the entry says RUNNING; an entry that is
\* STOPPED or CRASHED has none, also when it ignored SIGTERM.
UpIsRunning ==
  /\ TypeOK
  /\ deployed = {} => Cardinality(Up) <= 1
  /\ deployed = {} /\ Quiet /\ Up # {} => state = "RUNNING" /\ Up = {pid}

\* Outside deploys, a process that a deploy created is up only as the process
\* of the ACTIVE slot: aborted and replaced versions are gone, although stop,
\* start and the reaper know nothing of the slots.
DeployedIsInSlot ==
  hotreload_mutex = Nobody =>
    \A p \in Up \cap deployed :
      slots[active_slot] = [pid |-> p, state |-> "ACTIVE"]

\* A signal reaches whom it is meant for.  The entry's pid may become 0
\* between a test of it and the signal: the supervisor never signals its own
\* process group by it.  A deploy, failed or not, never signals the process
\* that serves: it is told to end only once it was replaced or while a stop
\* or reload is under way.
SignalsSpareServing ==
  /\ self = {}
  /\ (\A c \in Controllers : pc[c] \notin StopPlaces \cup AllPlaces)
        => pid \notin told

\* The end of a running process is noticed.
CrashNoticed ==
  \A p \in Procs :
    (state = "RUNNING" /\ pid = p /\ Dead(p)) ~> ~(state = "RUNNING" /\ pid = p)

\* Every request comes back to its client: the locks are always released and
\* no wait for a process is unbounded.
RequestsReturn == \A c \in Controllers : (pc[c] # "idle") ~> (pc[c] = "idle")

\* context.c:481 "Slot %s drenado sem perda de conexoes": when a deploy
\* reports success, the version it replaced no longer runs.
ReplacedIsGone ==
  \A c \in Controllers : pc[c] = "drained" => Up \subseteq {pid}
=============================================================================
