------------------------- MODULE SupervisorAppProofs -------------------------
(***************************************************************************)
(* What holds of one application under the supervisor, for any number of   *)
(* control connections and processes: types, the two locks, the hot-reload *)
(* slots and the signals; and, for one connection, that the application    *)
(* runs once and only behind an entry that says RUNNING.                   *)
(***************************************************************************)
EXTENDS SupervisorApp, FiniteSetTheorems, TLAPS

\* What a process call does to the processes and its memory of signals.
LEMMA SignalTypes ==
  ASSUME TypeOK, NEW p \in Procs \cup {NoProc}, NEW sig \in {"TERM", "KILL"}, Signal(p, sig)
  PROVE  /\ proc' \in [Procs -> {"unborn", "up", "dying", "zombie", "gone"}]
         /\ told' \subseteq Procs /\ deployed' \subseteq Procs
         /\ self' = self /\ deployed' = deployed
         /\ told' \subseteq told \cup {p}
         /\ Up' \subseteq Up
         /\ sig = "KILL" => p \notin Up'
         /\ \A q \in Procs : proc'[q] = "unborn" <=> proc[q] = "unborn"
<1>1. self' = self /\ deployed' = deployed /\ told' \subseteq told \cup {p} /\ told' \subseteq Procs
  BY DEF TypeOK, Signal, RefusesPid, Up
<1>2. /\ proc' \in [Procs -> {"unborn", "up", "dying", "zombie", "gone"}]
      /\ Up' \subseteq Up
      /\ sig = "KILL" => p \notin Up'
      /\ \A q \in Procs : proc'[q] = "unborn" <=> proc[q] = "unborn"
  BY DEF TypeOK, Signal, Up
<1> QED
  BY <1>1, <1>2 DEF TypeOK

\* waitpid reaps at most the process it names and creates none.
LEMMA WaitTypes ==
  ASSUME TypeOK, NEW p \in Procs \cup {NoProc}, Wait(p)
  PROVE  /\ proc' \in [Procs -> {"unborn", "up", "dying", "zombie", "gone"}]
         /\ told' = told /\ deployed' = deployed /\ self' = self
         /\ Up' = Up
         /\ \A q \in Procs : proc'[q] = "unborn" <=> proc[q] = "unborn"
<1>0. NoProc \notin Procs
  BY AppAssumption DEF NoProc, Procs
<1> QED
  BY <1>0 DEF TypeOK, Wait, Reaped, Up

\* A process that is created is none that is there, or ever was.
LEMMA FreshTypes ==
  ASSUME TypeOK, NEW p \in Procs, Fresh(p), NEW s \in {"up", "gone"},
         proc' = [proc EXCEPT ![p] = s]
  PROVE  /\ proc' \in [Procs -> {"unborn", "up", "dying", "zombie", "gone"}]
         /\ proc[p] = "unborn"
         /\ s = "up" => Up' = Up \cup {p}
         /\ s = "gone" => Up' = Up
         /\ \A q \in Procs : proc'[q] = "unborn" => proc[q] = "unborn"
         /\ proc'[p] # "unborn"
  BY DEF TypeOK, Fresh, Up

\* The slot a deploy works on is one of the two, and not the active one if
\* that serves.
LEMMA CandidateTypes ==
  ASSUME TypeOK
  PROVE  Candidate \in 0..1 /\ 1 - active_slot \in 0..1
  BY DEF TypeOK, Candidate

-----------------------------------------------------------------------------
(* Types. *)

\* The table starts well typed.
LEMMA InitTypes == Init => TypeOK
  BY AppAssumption DEF Init, TypeOK, States, Procs, NoProc, Threads, Nobody, SlotStates, Places

\* The steps of a start keep the types.
LEMMA StartTypes ==
  ASSUME NEW c \in Controllers, TypeOK, StartStep(c)
  PROVE  TypeOK'
<1> USE DEF TypeOK, States, Places, Goto, entry, locks, hot, processes, Threads
<1>1. CASE StartCheck(c) \/ StartReset(c) \/ SpawnFail(c) \/ SurviveEnter(c) \/ SurviveStore(c)
  BY <1>1 DEF StartCheck, StartReset, SpawnFail, SurviveEnter, SurviveStore
<1>2. CASE SpawnUntracked(c)
  BY <1>2, FreshTypes DEF SpawnUntracked
<1>3. CASE SpawnOk(c)
  BY <1>3, FreshTypes DEF SpawnOk
<1>4. CASE SurvivePoll(c)
  BY <1>4, WaitTypes DEF SurvivePoll
<1> QED
  BY <1>1, <1>2, <1>3, <1>4 DEF StartStep

\* The steps of a stop keep the types.
LEMMA StopTypes ==
  ASSUME NEW c \in Controllers, TypeOK, StopStep(c)
  PROVE  TypeOK'
<1> USE DEF TypeOK, States, Places, StopPlaces, Goto, entry, locks, hot, processes, Threads
<1>1. CASE StopCheck(c) \/ StopFinish(c)
  BY <1>1 DEF StopCheck, StopFinish, AfterStop
<1>2. CASE StopTerm(c)
  BY <1>2, SignalTypes DEF StopTerm
<1>2b. CASE StopKill(c)
  BY <1>2b, SignalTypes DEF StopKill
<1>3. CASE StopWait(c) \/ StopKillWait(c)
  BY <1>3, WaitTypes, ZenonT(40) DEF StopWait, StopKillWait, AfterStopWait
<1> QED
  BY <1>1, <1>2, <1>2b, <1>3 DEF StopStep

\* The steps of the reaper in the main loop keep the types.
LEMMA ReapTypes ==
  ASSUME NEW t \in Threads, TypeOK, ReapStep(t)
  PROVE  TypeOK'
<1> USE DEF TypeOK, States, Places, Goto, entry, locks, hot, processes, Threads
<1>1. CASE ReapCheck(t)
  BY <1>1, WaitTypes DEF ReapCheck
<1>2. CASE ReapStore(t)
  BY <1>2 DEF ReapStore, ReapedState
<1> QED
  BY <1>1, <1>2 DEF ReapStep

\* The steps of a reload keep the types.
LEMMA ReloadTypes ==
  ASSUME NEW c \in Controllers, TypeOK, ReloadStep(c)
  PROVE  TypeOK'
<1> USE DEF TypeOK, States, Places, AllPlaces, Goto, entry, locks, hot, processes, Threads
<1>1. CASE AllTerm(c)
  BY <1>1, SignalTypes DEF AllTerm
<1>2. CASE AllServices(c) \/ AllRelock(c) \/ Autostart(c)
  BY <1>2 DEF AllServices, AllRelock, Autostart
<1>3. CASE AllWait(c)
  BY <1>3, SignalTypes, WaitTypes DEF AllWait
<1> QED
  BY <1>1, <1>2, <1>3 DEF ReloadStep

\* The steps of a hot deploy keep the types.
LEMMA DeployTypes ==
  ASSUME NEW c \in Controllers, TypeOK, DeployStep(c)
  PROVE  TypeOK'
<1> USE DEF TypeOK, States, SlotStates, Places, DeployPlaces, Goto, entry, locks, hot, processes,
            Threads
<1>0. Candidate \in 0..1 /\ 1 - active_slot \in 0..1
  BY CandidateTypes
<1>1. CASE DeployCheck(c) \/ DeployNoRoom(c) \/ ProbeOk(c)
  BY <1>1 DEF DeployCheck, DeployNoRoom, ProbeOk
<1>2. CASE DeployLock(c)
  <2>1. slots[Candidate].pid \in Procs \cup {NoProc}
    BY <1>0
  <2>2. /\ proc' \in [Procs -> {"unborn", "up", "dying", "zombie", "gone"}]
        /\ told' \subseteq Procs /\ deployed' \subseteq Procs /\ self' = self
    <3>1. CASE slots[Candidate].pid = NoProc
      BY <1>2, <3>1 DEF DeployLock
    <3>2. CASE slots[Candidate].pid # NoProc
      <4>1. Signal(slots[Candidate].pid, "TERM")
        BY <1>2, <3>2 DEF DeployLock
      <4> QED
        BY <2>1, <4>1, SignalTypes
    <3> QED
      BY <3>1, <3>2
  <2> QED
    BY <1>0, <1>2, <2>2 DEF DeployLock
<1>3. CASE StageFail(c)
  BY <1>0, <1>3 DEF StageFail, Abort, AbortReleases
<1>4. CASE StageUntracked(c)
  BY <1>0, <1>4, FreshTypes DEF StageUntracked, Abort, AbortReleases
<1>5. CASE StageBoot(c)
  BY <1>0, <1>5, FreshTypes DEF StageBoot
<1>6. CASE ProbeFail(c)
  <2>1. slots[Candidate].pid \in Procs \cup {NoProc}
    BY <1>0
  <2> QED
    BY <1>0, <1>6, <2>1, WaitTypes DEF ProbeFail, Abort, AbortReleases
<1>7. CASE Switch(c)
  BY <1>0, <1>7 DEF Switch
<1>8. CASE AwaitDrain(c) \/ AwaitGrace(c) \/ AwaitKilled(c)
  <2>1. OldPid \in Procs \cup {NoProc}
    BY <1>0 DEF OldPid
  <2>2. Wait(OldPid) \/ Signal(OldPid, "TERM") \/ Signal(OldPid, "KILL")
    BY <1>8 DEF AwaitDrain, AwaitGrace, AwaitKilled, Escalate
  <2>3. /\ proc' \in [Procs -> {"unborn", "up", "dying", "zombie", "gone"}]
        /\ told' \subseteq Procs /\ deployed' \subseteq Procs /\ self' = self
    <3>1. CASE Wait(OldPid)
      BY <2>1, <3>1, WaitTypes
    <3>2. CASE Signal(OldPid, "TERM")
      BY <2>1, <3>2, SignalTypes
    <3>3. CASE Signal(OldPid, "KILL")
      BY <2>1, <3>3, SignalTypes
    <3> QED
      BY <2>2, <3>1, <3>2, <3>3
  <2> QED
    BY <1>8, <2>3 DEF AwaitDrain, AwaitGrace, AwaitKilled
<1>9. CASE DeployDone(c)
  BY <1>0, <1>9 DEF DeployDone
<1> QED
  BY <1>1, <1>2, <1>3, <1>4, <1>5, <1>6, <1>7, <1>8, <1>9 DEF DeployStep

\* A new request and an exit of a process keep the types.
LEMMA OtherTypes ==
  ASSUME TypeOK, (\E c \in Controllers, o \in Ops : Request(c, o)) \/ (\E p \in Procs : Exits(p))
  PROVE  TypeOK'
<1>1. ASSUME NEW c \in Controllers, NEW o \in Ops, Request(c, o) PROVE TypeOK'
  <2>1. /\ o \in {"start", "stop", "restart", "reload", "deploy", "list"}
        /\ FirstPlace[o] \in Places
    BY AppAssumption DEF FirstPlace, Places, StopPlaces, AllPlaces, DeployPlaces
  <2> QED
    BY <1>1, <2>1 DEF TypeOK, Request, Goto, entry, locks, hot, processes, Threads
<1>2. ASSUME NEW p \in Procs, Exits(p) PROVE TypeOK'
  BY <1>2 DEF TypeOK, Exits, entry, locks, hot
<1> QED
  BY <1>1, <1>2

\* Every step keeps the types.
LEMMA NextTypes == TypeOK /\ [Next]_vars => TypeOK'
<1> SUFFICES ASSUME TypeOK, [Next]_vars PROVE TypeOK'
  OBVIOUS
<1>1. CASE UNCHANGED vars
  BY <1>1 DEF vars, TypeOK, entry, locks, hot, processes
<1> QED
  BY <1>1, StartTypes, StopTypes, ReapTypes, ReloadTypes, DeployTypes, OtherTypes
  DEF Next, CallStep, Threads

\* Every variable keeps its type, whatever the connections ask for.
THEOREM AppTypes == Spec => []TypeOK
  BY InitTypes, NextTypes, PTL DEF Spec

-----------------------------------------------------------------------------
(* The inductive invariant about deploys, for any number of connections.   *)

\* The places at which a connection holds hotreload_mutex.
HotPlaces == {"stage", "probe", "switch", "drain", "grace", "killed", "drained"}

\* hotreload_mutex is held by the one connection inside a deploy.
HotLocked == \A c \in Controllers : pc[c] \in HotPlaces <=> hotreload_mutex = c

At(places) == \E c \in Controllers : pc[c] \in places

\* A process that anything refers to was created.
Born ==
  /\ \A p \in {pid, slots[0].pid, slots[1].pid} : p = NoProc \/ proc[p] # "unborn"
  /\ \A p \in told \cup deployed : proc[p] # "unborn"

\* Only the active slot is ACTIVE, and then it has a process; else no slot but
\* it has one.
OneActive ==
  /\ slots[active_slot].state = "ACTIVE" => slots[active_slot].pid # NoProc
  /\ slots[active_slot].state # "ACTIVE" => slots[1 - active_slot].pid = NoProc
  /\ slots[1 - active_slot].state # "ACTIVE"

\* The slot for the next deploy is empty between deploys and while one stages;
\* it holds the new process until the switch, and the replaced one after it.
SlotShape ==
  /\ OneActive
  /\ ~At(HotPlaces \ {"stage"}) => slots[Candidate].pid = NoProc
  /\ At({"probe", "switch"}) =>
       /\ slots[Candidate].pid \notin told \cup {NoProc, pid}
       /\ slots[Candidate].pid # slots[1 - Candidate].pid
  /\ At({"drain", "grace", "killed"}) =>
       slots[active_slot].state = "ACTIVE" /\ slots[1 - active_slot].state = "DRAINING"
  /\ At({"drain", "grace"}) => OldPid \notin {NoProc, pid}
  /\ At({"drained"}) =>
       /\ slots[active_slot].state = "ACTIVE"
       /\ slots[1 - active_slot].state = "DRAINING" \/ OldPid = NoProc

\* A deployed process that is up is in the ACTIVE slot, or it is the new one
\* before the switch, or the replaced one before it is killed.
Served ==
  \A p \in Up \cap deployed :
    \/ slots[active_slot] = [pid |-> p, state |-> "ACTIVE"]
    \/ At({"probe", "switch"}) /\ slots[Candidate].pid = p
    \/ At({"drain", "grace"}) /\ OldPid = p

\* The places at which a stop or reload may have signalled the entry's process.
ToldPlaces == {"stop_wait", "kill", "kill_wait", "finish", "all_services", "all_relock", "all_wait"}

\* The entry's process was signalled only by a stop or reload that still runs.
ToldForCause == self = {} /\ (pid \in told => At(ToldPlaces))

DeployInv == TypeOK /\ HotLocked /\ Born /\ SlotShape /\ Served /\ ToldForCause

\* What every step outside the critical section of a deploy does, as far as the
\* slots and the processes in them are concerned.
Plain ==
  /\ UNCHANGED <<slots, active_slot, hotreload_mutex, deployed, self>>
  /\ \A c \in Controllers : pc'[c] = pc[c] \/ (pc[c] \notin HotPlaces /\ pc'[c] \notin HotPlaces)
  /\ \A q \in Procs : proc[q] # "unborn" =>
       proc'[q] # "unborn" /\ (proc'[q] = "up" => proc[q] = "up")
  /\ \/ pid' = pid \/ pid' = NoProc
     \/ pid' \in Procs /\ proc[pid'] = "unborn" /\ proc'[pid'] # "unborn"
  /\ told' \subseteq told \cup {pid}

\* The pid of an empty slot names no process.
LEMMA NoProcIsNone == NoProc \notin Procs
  BY AppAssumption DEF NoProc, Procs

\* The processes after a signal or a wait, in the form Plain asks for.
LEMMA SignalPlain ==
  ASSUME TypeOK, NEW p \in Procs \cup {NoProc}, NEW sig \in {"TERM", "KILL"},
         Signal(p, sig) \/ Wait(p) \/ UNCHANGED processes
  PROVE  /\ deployed' = deployed /\ self' = self /\ told' \subseteq told \cup {p}
         /\ \A q \in Procs : proc[q] # "unborn" =>
              proc'[q] # "unborn" /\ (proc'[q] = "up" => proc[q] = "up")
<1>1. CASE Signal(p, sig)
  BY <1>1, SignalTypes DEF Up
<1>2. CASE Wait(p)
  BY <1>2, WaitTypes DEF Up
<1>3. CASE UNCHANGED processes
  BY <1>3 DEF processes
<1> QED
  BY <1>1, <1>2, <1>3

\* A start is plain: it leaves the slots and their lock alone and puts in the entry only a new process.
LEMMA StartPlain ==
  ASSUME NEW c \in Controllers, TypeOK, StartStep(c)
  PROVE  Plain
<1> USE DEF TypeOK, Plain, Goto, HotPlaces, entry, locks, hot, processes, Threads
<1>1. CASE StartCheck(c) \/ StartReset(c) \/ SpawnFail(c) \/ SurviveEnter(c) \/ SurviveStore(c)
  BY <1>1 DEF StartCheck, StartReset, SpawnFail, SurviveEnter, SurviveStore
<1>2. CASE SpawnUntracked(c)
  BY <1>2 DEF SpawnUntracked, Fresh
<1>3. CASE SpawnOk(c)
  BY <1>3 DEF SpawnOk, Fresh
<1>4. CASE SurvivePoll(c)
  BY <1>4, SignalPlain DEF SurvivePoll
<1> QED
  BY <1>1, <1>2, <1>3, <1>4 DEF StartStep

\* The same of a stop.
LEMMA StopPlain ==
  ASSUME NEW c \in Controllers, TypeOK, StopStep(c)
  PROVE  Plain
<1> USE DEF TypeOK, Plain, Goto, HotPlaces, entry, locks, hot, Threads
<1>1. CASE StopCheck(c) \/ StopFinish(c)
  BY <1>1 DEF StopCheck, StopFinish, AfterStop, processes
<1>2. CASE StopTerm(c)
  BY <1>2, SignalPlain DEF StopTerm
<1>3. CASE StopKill(c)
  BY <1>3, SignalPlain DEF StopKill
<1>4. CASE StopWait(c) \/ StopKillWait(c)
  BY <1>4, SignalPlain DEF StopWait, StopKillWait, AfterStopWait
<1> QED
  BY <1>1, <1>2, <1>3, <1>4 DEF StopStep

\* The same of the reaper.
LEMMA ReapPlain ==
  ASSUME NEW t \in Threads, TypeOK, ReapStep(t)
  PROVE  Plain
<1> USE DEF TypeOK, Plain, Goto, HotPlaces, entry, locks, hot, Threads
<1>1. CASE ReapCheck(t)
  <2>1. Wait(pid) \/ UNCHANGED processes
    BY <1>1 DEF ReapCheck
  <2>2. pc[t] \notin HotPlaces
    BY <1>1 DEF ReapCheck
  <2> QED
    BY <1>1, <2>1, <2>2, SignalPlain DEF ReapCheck
<1>2. CASE ReapStore(t)
  BY <1>2 DEF ReapStore, processes
<1> QED
  BY <1>1, <1>2 DEF ReapStep

\* The same of a reload.
LEMMA ReloadPlain ==
  ASSUME NEW c \in Controllers, TypeOK, ReloadStep(c)
  PROVE  Plain
<1> USE DEF TypeOK, Plain, Goto, HotPlaces, entry, locks, hot, Threads
<1>1. CASE AllTerm(c)
  <2>1. Signal(pid, "TERM") \/ UNCHANGED processes
    BY <1>1 DEF AllTerm
  <2> QED
    BY <1>1, <2>1, SignalPlain DEF AllTerm
<1>2. CASE AllServices(c) \/ AllRelock(c) \/ Autostart(c)
  BY <1>2 DEF AllServices, AllRelock, Autostart, processes
<1>3. CASE AllWait(c)
  <2>1. Signal(pid, "KILL") \/ Wait(pid)
    BY <1>3 DEF AllWait
  <2> QED
    BY <1>3, <2>1, SignalPlain DEF AllWait
<1> QED
  BY <1>1, <1>2, <1>3 DEF ReloadStep

\* The same of a new request and of an exit.
LEMMA OtherPlain ==
  ASSUME TypeOK, \/ \E c \in Controllers, o \in Ops : Request(c, o)
                 \/ \E p \in Procs : Exits(p)
                 \/ \E c \in Controllers : DeployCheck(c) \/ DeployNoRoom(c)
                 \/ UNCHANGED vars
  PROVE  Plain
<1> USE DEF TypeOK, Plain, Goto, HotPlaces, entry, locks, hot, processes, Threads
<1>1. ASSUME NEW c \in Controllers, NEW o \in Ops, Request(c, o) PROVE Plain
  <2>1. FirstPlace[o] \notin HotPlaces
    BY AppAssumption DEF FirstPlace
  <2> QED
    BY <1>1, <2>1 DEF Request
<1>2. ASSUME NEW p \in Procs, Exits(p) PROVE Plain
  BY <1>2 DEF Exits
<1>3. ASSUME NEW c \in Controllers, DeployCheck(c) \/ DeployNoRoom(c) PROVE Plain
  BY <1>3 DEF DeployCheck, DeployNoRoom
<1>4. CASE UNCHANGED vars
  BY <1>4 DEF vars
<1> QED
  BY <1>1, <1>2, <1>3, <1>4

\* A plain step leaves every part about the slots as it was.
LEMMA PlainKeeps ==
  ASSUME TypeOK, TypeOK', HotLocked, Born, SlotShape, Served, Plain
  PROVE  HotLocked' /\ Born' /\ SlotShape' /\ Served'
<1>0. \A c \in Controllers : \A s \in HotPlaces : pc'[c] = s <=> pc[c] = s
  BY DEF Plain
<1>1. HotLocked'
  BY <1>0 DEF HotLocked, Plain
<1>2. Born'
  BY NoProcIsNone DEF Born, Plain, TypeOK
<1>3. Candidate' = Candidate /\ OldPid' = OldPid /\ slots' = slots /\ active_slot' = active_slot
  BY DEF Candidate, OldPid, Plain
<1>5. /\ At(HotPlaces \ {"stage"})' <=> At(HotPlaces \ {"stage"})
      /\ At({"probe", "switch"})' <=> At({"probe", "switch"})
      /\ At({"drain", "grace", "killed"})' <=> At({"drain", "grace", "killed"})
      /\ At({"drain", "grace"})' <=> At({"drain", "grace"})
      /\ At({"drained"})' <=> At({"drained"})
  BY <1>0 DEF At, HotPlaces
<1>6. SlotShape'
  <2>1. Candidate \in 0..1 /\ 1 - active_slot \in 0..1 /\ active_slot \in 0..1
    BY CandidateTypes DEF TypeOK
  <2>2. \A i \in 0..1 : slots[i].pid \notin {NoProc, pid} => slots[i].pid # pid'
    BY DEF Plain, Born, TypeOK
  <2>3. \A i \in 0..1 : slots[i].pid \notin told \cup {NoProc, pid} => slots[i].pid \notin told' \cup {NoProc, pid'}
    BY <2>2 DEF Plain
  <2> QED
    BY <1>3, <1>5, <2>1, <2>2, <2>3 DEF SlotShape, OneActive, OldPid
<1>7. Served'
  <2>1. ASSUME NEW p \in Up' \cap deployed' PROVE p \in Up \cap deployed
    BY DEF Plain, Up, Born, TypeOK
  <2> QED
    BY <1>3, <1>5, <2>1 DEF Served
<1> QED
  BY <1>1, <1>2, <1>6, <1>7

\* A step that signals nobody, keeps the entry's process or replaces it by none
\* or by a new one, and leaves no place of a stop: the cause stays.
LEMMA ToldStays ==
  ASSUME TypeOK, Born, ToldForCause, told' = told, self' = self,
         \A c \in Controllers : pc[c] \in ToldPlaces => pc'[c] \in ToldPlaces,
         \/ pid' = pid \/ pid' = NoProc
         \/ pid' \in Procs /\ proc[pid'] = "unborn"
  PROVE  ToldForCause'
<1>1. pid' \in told' => pid \in told
  BY NoProcIsNone DEF Born, TypeOK
<1> QED
  BY <1>1 DEF ToldForCause, At

\* During a start the process of the entry is not one that was told to end.
LEMMA StartTold ==
  ASSUME NEW c \in Controllers, TypeOK, Born, ToldForCause, StartStep(c)
  PROVE  ToldForCause'
<1>0. Plain
  BY StartPlain
<1>1. told' = told /\ self' = self
  BY DEF StartStep, StartCheck, StartReset, SpawnFail, SpawnUntracked, SpawnOk, SurviveEnter,
         SurvivePoll, SurviveStore, Wait, processes
<1>2. \A d \in Controllers : pc[d] \in ToldPlaces => pc'[d] \in ToldPlaces
  BY DEF StartStep, StartCheck, StartReset, SpawnFail, SpawnUntracked, SpawnOk, SurviveEnter,
         SurvivePoll, SurviveStore, Goto, ToldPlaces, TypeOK, Threads
<1> QED
  BY <1>0, <1>1, <1>2, ToldStays DEF Plain

\* The process in the entry has been told to end only while a stop is at work on it.
LEMMA StopTold ==
  ASSUME NEW c \in Controllers, TypeOK, Born, ToldForCause, StopStep(c)
  PROVE  ToldForCause'
<1>0. Plain
  BY StopPlain
<1>1. CASE StopCheck(c) \/ StopWait(c) \/ StopKillWait(c)
  <2>1. told' = told /\ self' = self
    BY <1>1 DEF StopCheck, StopWait, StopKillWait, Wait, processes
  <2>2. \A d \in Controllers : pc[d] \in ToldPlaces => pc'[d] \in ToldPlaces
    BY <1>1 DEF StopCheck, StopWait, StopKillWait, AfterStopWait, Goto, ToldPlaces, TypeOK, Threads
  <2> QED
    BY <1>0, <2>1, <2>2, ToldStays DEF Plain
<1>2. CASE StopTerm(c) \/ StopKill(c)
  BY <1>0, <1>2 DEF StopTerm, StopKill, Goto, ToldForCause, At, ToldPlaces, Plain, TypeOK, Threads
<1>3. CASE StopFinish(c)
  BY <1>3, NoProcIsNone DEF StopFinish, ToldForCause, TypeOK, processes
<1> QED
  BY <1>1, <1>2, <1>3 DEF StopStep

\* The same while the main loop reaps, which tells nobody.
LEMMA ReapTold ==
  ASSUME NEW t \in Threads, TypeOK, Born, ToldForCause, ReapStep(t)
  PROVE  ToldForCause'
<1>0. Plain
  BY ReapPlain
<1>1. told' = told /\ self' = self
  BY DEF ReapStep, ReapCheck, ReapStore, Wait, processes
<1>2. \A d \in Controllers : pc[d] \in ToldPlaces => pc'[d] \in ToldPlaces
  <2>1. pc[t] \notin ToldPlaces
    BY DEF ReapStep, ReapCheck, ReapStore, ToldPlaces
  <2> QED
    BY <2>1 DEF ReapStep, ReapCheck, ReapStore, Goto, TypeOK, Threads
<1> QED
  BY <1>0, <1>1, <1>2, ToldStays DEF Plain

\* The same during a reload, which tells the process of the entry before it starts another.
LEMMA ReloadTold ==
  ASSUME NEW c \in Controllers, TypeOK, Born, ToldForCause, ReloadStep(c)
  PROVE  ToldForCause'
<1>0. Plain
  BY ReloadPlain
<1>1. CASE AllTerm(c)
  BY <1>0, <1>1 DEF AllTerm, Goto, ToldForCause, At, ToldPlaces, Plain, TypeOK, Threads
<1>2. CASE AllServices(c) \/ AllRelock(c) \/ Autostart(c)
  <2>1. told' = told /\ self' = self
    BY <1>2 DEF AllServices, AllRelock, Autostart, processes
  <2>2. \A d \in Controllers : pc[d] \in ToldPlaces => pc'[d] \in ToldPlaces
    BY <1>2 DEF AllServices, AllRelock, Autostart, Goto, ToldPlaces, TypeOK, Threads
  <2> QED
    BY <1>0, <2>1, <2>2, ToldStays DEF Plain
<1>3. CASE AllWait(c)
  <2>1. pid' = NoProc
    BY <1>3 DEF AllWait, entry
  <2>2. NoProc \notin told'
    BY <1>0, <1>3, NoProcIsNone, SignalTypes, WaitTypes DEF AllWait, TypeOK
  <2> QED
    BY <1>0, <2>1, <2>2 DEF ToldForCause, Plain
<1> QED
  BY <1>1, <1>2, <1>3 DEF ReloadStep

\* The same when a request arrives and when a process exits.
LEMMA OtherTold ==
  ASSUME TypeOK, Born, ToldForCause,
         \/ \E c \in Controllers, o \in Ops : Request(c, o)
         \/ \E p \in Procs : Exits(p)
         \/ \E c \in Controllers : DeployCheck(c) \/ DeployNoRoom(c)
         \/ UNCHANGED vars
  PROVE  ToldForCause'
<1>1. told' = told /\ self' = self /\ pid' = pid
  BY DEF Request, Exits, DeployCheck, DeployNoRoom, vars, processes, entry
<1>2. \A d \in Controllers : pc[d] \in ToldPlaces => pc'[d] \in ToldPlaces
  BY DEF Request, Exits, DeployCheck, DeployNoRoom, vars, Goto, ToldPlaces, TypeOK, Threads
<1> QED
  BY <1>1, <1>2, ToldStays

\* In a deploy only the connection that holds the lock is at one of its places.
LEMMA Holder ==
  ASSUME TypeOK, HotLocked, NEW c \in Controllers, pc[c] \in HotPlaces,
         NEW x \in Places, pc' = [pc EXCEPT ![c] = x], x \notin ToldPlaces,
         hotreload_mutex' = IF x \in HotPlaces THEN hotreload_mutex ELSE Nobody
  PROVE  /\ HotLocked'
         /\ \A S \in SUBSET HotPlaces : (At(S) <=> pc[c] \in S) /\ (At(S)' <=> x \in S)
         /\ At(ToldPlaces) => At(ToldPlaces)'
<1>1. \A d \in Controllers : d # c => pc[d] \notin HotPlaces /\ pc'[d] = pc[d]
  BY DEF HotLocked, TypeOK, Threads
<1>2. pc'[c] = x /\ hotreload_mutex = c
  BY DEF HotLocked, TypeOK, Threads
<1>3. HotLocked'
  BY <1>1, <1>2, AppAssumption DEF HotLocked, Nobody
<1>4. \A S \in SUBSET HotPlaces : (At(S) <=> pc[c] \in S) /\ (At(S)' <=> x \in S)
  BY <1>1, <1>2 DEF At
<1>5. At(ToldPlaces) => At(ToldPlaces)'
  BY <1>1 DEF At, HotPlaces, ToldPlaces
<1> QED
  BY <1>3, <1>4, <1>5

\* Writing a slot that is not to be ACTIVE into the candidate.
LEMMA Placed ==
  ASSUME TypeOK, OneActive, NEW p \in Procs \cup {NoProc}, NEW st \in SlotStates \ {"ACTIVE"},
         slots' = [slots EXCEPT ![Candidate] = [pid |-> p, state |-> st]],
         active_slot' = active_slot
  PROVE  /\ OneActive' /\ Candidate' = Candidate
         /\ Candidate \in 0..1 /\ 1 - Candidate \in 0..1 /\ 1 - Candidate # Candidate
         /\ slots'[Candidate].pid = p
         /\ slots'[1 - Candidate] = slots[1 - Candidate]
         /\ slots[active_slot].state = "ACTIVE" => slots'[active_slot] = slots[active_slot]
<1>1. CASE slots[active_slot].state = "ACTIVE"
  <2>1. Candidate = 1 - active_slot
    BY <1>1 DEF Candidate
  <2> QED
    BY <1>1, <2>1 DEF TypeOK, Candidate, OneActive
<1>2. CASE slots[active_slot].state # "ACTIVE"
  <2>1. Candidate = active_slot
    BY <1>2 DEF Candidate
  <2> QED
    BY <1>2, <2>1 DEF TypeOK, Candidate, OneActive
<1> QED
  BY <1>1, <1>2

\* The places of a deploy that SlotShape and Served tell apart, as subsets.
LEMMA Regions ==
  /\ HotPlaces \ {"stage"} \in SUBSET HotPlaces
  /\ {"probe", "switch"} \in SUBSET HotPlaces
  /\ {"drain", "grace", "killed"} \in SUBSET HotPlaces
  /\ {"drain", "grace"} \in SUBSET HotPlaces
  /\ {"drained"} \in SUBSET HotPlaces
  BY DEF HotPlaces

\* A deploy takes the lock: the candidate slot is empty, so nobody is signalled.
LEMMA LockKeeps ==
  ASSUME NEW c \in Controllers, DeployInv, TypeOK', DeployLock(c)
  PROVE  DeployInv'
<1> USE DEF DeployInv
<1>1. pc' = [pc EXCEPT ![c] = "stage"] /\ hotreload_mutex = Nobody /\ hotreload_mutex' = c
  BY DEF DeployLock, Goto
<1>2. \A d \in Controllers : pc[d] \notin HotPlaces
  BY <1>1, AppAssumption DEF HotLocked, Nobody
<1>3. \A d \in Controllers : pc'[d] = IF d = c THEN "stage" ELSE pc[d]
  BY <1>1 DEF TypeOK, Threads
<1>4. HotLocked'
  BY <1>1, <1>2, <1>3 DEF HotLocked, HotPlaces
<1>5. \A S \in SUBSET HotPlaces : ~At(S) /\ (At(S)' <=> "stage" \in S)
  BY <1>2, <1>3 DEF At
<1>6. slots[Candidate].pid = NoProc
  BY <1>5, Regions DEF SlotShape
<1>7. /\ UNCHANGED processes /\ UNCHANGED entry /\ active_slot' = active_slot
      /\ slots' = [slots EXCEPT ![Candidate] = [pid |-> NoProc, state |-> "STAGING"]]
  BY <1>6 DEF DeployLock
<1>8. /\ OneActive' /\ Candidate' = Candidate
      /\ Candidate \in 0..1
      /\ slots'[Candidate].pid = NoProc
      /\ slots'[1 - Candidate] = slots[1 - Candidate]
      /\ slots[active_slot].state = "ACTIVE" => slots'[active_slot] = slots[active_slot]
  BY <1>7, Placed DEF SlotShape, SlotStates
<1>9. Born'
  BY <1>7, <1>8 DEF Born, entry, processes, TypeOK
<1>10. SlotShape'
  BY <1>5, <1>8, Regions DEF SlotShape
<1>11. Served'
  <2> SUFFICES ASSUME NEW p \in Up' \cap deployed'
               PROVE  slots'[active_slot'] = [pid |-> p, state |-> "ACTIVE"]
    BY DEF Served
  <2>1. p \in Up \cap deployed
    BY <1>7 DEF Up, processes
  <2>2. slots[active_slot] = [pid |-> p, state |-> "ACTIVE"]
    BY <1>5, <2>1, Regions DEF Served
  <2> QED
    BY <1>7, <1>8, <2>2
<1>12. ToldForCause'
  <2>1. At(ToldPlaces) => At(ToldPlaces)'
    BY <1>3, DeployLock(c) DEF At, ToldPlaces, DeployLock
  <2> QED
    BY <1>7, <2>1 DEF ToldForCause, entry, processes
<1> QED
  BY <1>4, <1>9, <1>10, <1>11, <1>12

\* A deploy that fails leaves the slot empty; the process it may have created
\* is gone.
LEMMA AbortKeeps ==
  ASSUME NEW c \in Controllers, DeployInv, TypeOK',
         StageFail(c) \/ StageUntracked(c) \/ ProbeFail(c)
  PROVE  DeployInv'
<1> USE DEF DeployInv
<1>1. /\ pc[c] \in {"stage", "probe"} /\ Abort(c)
      /\ told' = told /\ deployed' = deployed /\ self' = self
  BY DEF StageFail, StageUntracked, ProbeFail, Wait, processes
<1>2. /\ pc' = [pc EXCEPT ![c] = "idle"] /\ hotreload_mutex' = Nobody
      /\ UNCHANGED entry /\ active_slot' = active_slot
      /\ slots' = [slots EXCEPT ![Candidate] = [pid |-> NoProc, state |-> "ABORTED"]]
  BY <1>1 DEF Abort, AbortReleases, Goto
<1>3. /\ HotLocked'
      /\ \A S \in SUBSET HotPlaces : (At(S) <=> pc[c] \in S) /\ (At(S)' <=> "idle" \in S)
      /\ At(ToldPlaces) => At(ToldPlaces)'
  <2>1. pc[c] \in HotPlaces /\ "idle" \in Places /\ "idle" \notin ToldPlaces /\ "idle" \notin HotPlaces
    BY <1>1 DEF HotPlaces, Places, ToldPlaces
  <2> QED
    BY <1>2, <2>1, Holder
<1>4. /\ OneActive' /\ Candidate' = Candidate
      /\ Candidate \in 0..1
      /\ slots'[Candidate].pid = NoProc
      /\ slots'[1 - Candidate] = slots[1 - Candidate]
      /\ slots[active_slot].state = "ACTIVE" => slots'[active_slot] = slots[active_slot]
  BY <1>2, Placed DEF SlotShape, SlotStates
<1>5. \A q \in Procs : proc[q] # "unborn" => proc'[q] # "unborn" /\ (proc'[q] = "up" => proc[q] = "up")
  <2>1. CASE StageFail(c)
    BY <2>1 DEF StageFail, processes
  <2>2. CASE StageUntracked(c)
    BY <2>2 DEF StageUntracked, Fresh, TypeOK
  <2>3. CASE ProbeFail(c)
    <3>1. slots[Candidate].pid \in Procs \cup {NoProc}
      BY <1>4 DEF TypeOK
    <3> QED
      BY <2>3, <3>1, WaitTypes DEF ProbeFail, Up
  <2> QED
    BY <2>1, <2>2, <2>3
<1>6. Born'
  BY <1>1, <1>2, <1>4, <1>5 DEF Born, entry, TypeOK
<1>7. SlotShape'
  <2>1. ~At(HotPlaces \ {"stage"})' /\ ~At({"probe", "switch"})' /\ ~At({"drain", "grace", "killed"})'
        /\ ~At({"drain", "grace"})' /\ ~At({"drained"})'
    BY <1>3, Regions DEF HotPlaces
  <2> QED
    BY <1>4, <2>1 DEF SlotShape
<1>8. Served'
  <2> SUFFICES ASSUME NEW p \in Up' \cap deployed'
               PROVE  slots'[active_slot'] = [pid |-> p, state |-> "ACTIVE"]
    BY DEF Served
  <2>1. p \in Up \cap deployed
    BY <1>1, <1>5 DEF Up, Born
  <2>2. slots[active_slot] = [pid |-> p, state |-> "ACTIVE"]
    <3>1. ~At({"drain", "grace"})
      BY <1>1, <1>3, Regions
    <3>2. At({"probe", "switch"}) => slots[Candidate].pid # p
      <4>1. At({"probe", "switch"}) => pc[c] = "probe"
        BY <1>1, <1>3, Regions
      <4>2. pc[c] = "probe" => Dead(slots[Candidate].pid)
        BY DEF StageFail, StageUntracked, ProbeFail
      <4> QED
        BY <2>1, <4>1, <4>2, NoProcIsNone DEF Dead, Up
    <3> QED
      BY <2>1, <3>1, <3>2 DEF Served
  <2> QED
    BY <1>2, <1>4, <2>2
<1>9. ToldForCause'
  BY <1>1, <1>2, <1>3 DEF ToldForCause, entry
<1> QED
  BY <1>3, <1>6, <1>7, <1>8, <1>9

\* The new version is started: a process nobody knows, in the empty slot.
LEMMA BootKeeps ==
  ASSUME NEW c \in Controllers, DeployInv, TypeOK', StageBoot(c)
  PROVE  DeployInv'
<1> USE DEF DeployInv
<1>1. /\ pc[c] = "stage" /\ pc' = [pc EXCEPT ![c] = "probe"]
      /\ hotreload_mutex' = hotreload_mutex /\ UNCHANGED entry /\ active_slot' = active_slot
      /\ told' = told /\ self' = self
  BY DEF StageBoot, Goto, locks
<1>2. PICK n \in Procs : /\ Fresh(n)
                         /\ proc' = [proc EXCEPT ![n] = "up"]
                         /\ deployed' = deployed \cup {n}
                         /\ slots' = [slots EXCEPT ![Candidate] = [pid |-> n, state |-> "PROBING"]]
  BY DEF StageBoot
<1>3. /\ HotLocked'
      /\ \A S \in SUBSET HotPlaces : (At(S) <=> pc[c] \in S) /\ (At(S)' <=> "probe" \in S)
      /\ At(ToldPlaces) => At(ToldPlaces)'
  <2>1. pc[c] \in HotPlaces /\ "probe" \in Places /\ "probe" \notin ToldPlaces /\ "probe" \in HotPlaces
    BY <1>1 DEF HotPlaces, Places, DeployPlaces, ToldPlaces
  <2> QED
    BY <1>1, <2>1, Holder
<1>4. /\ OneActive' /\ Candidate' = Candidate
      /\ Candidate \in 0..1 /\ 1 - Candidate \in 0..1
      /\ slots'[Candidate].pid = n
      /\ slots'[1 - Candidate] = slots[1 - Candidate]
      /\ slots[active_slot].state = "ACTIVE" => slots'[active_slot] = slots[active_slot]
  BY <1>1, <1>2, Placed DEF SlotShape, SlotStates
<1>5. /\ proc[n] = "unborn" /\ proc'[n] = "up" /\ Up' = Up \cup {n}
      /\ \A q \in Procs : proc[q] # "unborn" => proc'[q] # "unborn"
  BY <1>2 DEF Fresh, TypeOK, Up
<1>6. Born'
  BY <1>1, <1>2, <1>4, <1>5 DEF Born, entry, TypeOK
<1>7. SlotShape'
  <2>1. At(HotPlaces \ {"stage"})' /\ At({"probe", "switch"})' /\ ~At({"drain", "grace", "killed"})'
        /\ ~At({"drain", "grace"})' /\ ~At({"drained"})'
    BY <1>3, Regions DEF HotPlaces
  <2>2. n \notin told' \cup {NoProc, pid'}
    BY <1>1, <1>5, NoProcIsNone DEF Born, entry
  <2>3. n # slots[1 - Candidate].pid
    BY <1>4, <1>5, NoProcIsNone DEF Born
  <2> QED
    BY <1>4, <2>1, <2>2, <2>3 DEF SlotShape
<1>8. Served'
  <2> SUFFICES ASSUME NEW p \in Up' \cap deployed', p # n
               PROVE  slots'[active_slot'] = [pid |-> p, state |-> "ACTIVE"]
    BY <1>3, <1>4, Regions DEF Served
  <2>1. p \in Up \cap deployed
    BY <1>2, <1>5
  <2>2. slots[active_slot] = [pid |-> p, state |-> "ACTIVE"]
    BY <1>1, <1>3, <2>1, Regions DEF Served
  <2> QED
    BY <1>1, <1>4, <2>2
<1>9. ToldForCause'
  BY <1>1, <1>3 DEF ToldForCause, entry
<1> QED
  BY <1>3, <1>6, <1>7, <1>8, <1>9

\* The probe finds the new version alive: nothing but the place changes.
LEMMA ProbeKeeps ==
  ASSUME NEW c \in Controllers, DeployInv, TypeOK', ProbeOk(c)
  PROVE  DeployInv'
<1> USE DEF DeployInv
<1>1. /\ pc[c] = "probe" /\ pc' = [pc EXCEPT ![c] = "switch"]
      /\ UNCHANGED <<entry, locks, hot, processes>>
  BY DEF ProbeOk, Goto
<1>2. /\ HotLocked'
      /\ \A S \in SUBSET HotPlaces : (At(S) <=> pc[c] \in S) /\ (At(S)' <=> "switch" \in S)
      /\ At(ToldPlaces) => At(ToldPlaces)'
  <2>1. pc[c] \in HotPlaces /\ "switch" \in Places /\ "switch" \notin ToldPlaces /\ "switch" \in HotPlaces
    BY <1>1 DEF HotPlaces, Places, DeployPlaces, ToldPlaces
  <2> QED
    BY <1>1, <2>1, Holder DEF locks
<1>3. /\ slots' = slots /\ active_slot' = active_slot /\ Candidate' = Candidate /\ Up' = Up
      /\ told' = told /\ deployed' = deployed /\ pid' = pid /\ proc' = proc /\ self' = self
  BY <1>1 DEF entry, hot, processes, Candidate, Up
<1>4. Born' /\ ToldForCause'
  BY <1>2, <1>3 DEF Born, ToldForCause
<1>5. /\ At({"probe", "switch"}) /\ At({"probe", "switch"})' /\ At(HotPlaces \ {"stage"})'
      /\ ~At({"drain", "grace", "killed"})' /\ ~At({"drain", "grace"})' /\ ~At({"drained"})'
      /\ ~At({"drain", "grace"})
  BY <1>1, <1>2, Regions DEF HotPlaces
<1>6. SlotShape'
  BY <1>3, <1>5 DEF SlotShape, OneActive
<1>7. Served'
  BY <1>3, <1>5 DEF Served
<1> QED
  BY <1>2, <1>4, <1>6, <1>7

\* The switch: the new version becomes the entry's process, the old one, if it
\* served, is the one to drain.
LEMMA SwitchKeeps ==
  ASSUME NEW c \in Controllers, DeployInv, TypeOK', Switch(c)
  PROVE  DeployInv'
<1> USE DEF DeployInv
<1> DEFINE serves == OldServes(active_slot, Candidate)
           x == IF serves THEN "drain" ELSE "drained"
<1>1. /\ pc[c] = "switch" /\ pc' = [pc EXCEPT ![c] = x]
      /\ hotreload_mutex' = hotreload_mutex /\ UNCHANGED processes
      /\ pid' = slots[Candidate].pid /\ active_slot' = Candidate
      /\ slots' = [i \in 0..1 |->
            IF i = Candidate THEN [slots[i] EXCEPT !.state = "ACTIVE"]
            ELSE IF serves THEN [slots[i] EXCEPT !.state = "DRAINING"]
            ELSE slots[i]]
  BY DEF Switch, Goto, locks
<1>2. /\ HotLocked'
      /\ \A S \in SUBSET HotPlaces : (At(S) <=> pc[c] \in S) /\ (At(S)' <=> x \in S)
      /\ At(ToldPlaces) => At(ToldPlaces)'
  <2>1. pc[c] \in HotPlaces /\ x \in Places /\ x \notin ToldPlaces /\ x \in HotPlaces
    BY <1>1 DEF HotPlaces, Places, DeployPlaces, ToldPlaces
  <2> QED
    BY <1>1, <2>1, Holder
<1>3. /\ told' = told /\ deployed' = deployed /\ proc' = proc /\ self' = self /\ Up' = Up
  BY <1>1 DEF processes, Up
<1>4. /\ slots[Candidate].pid \notin told \cup {NoProc, pid}
      /\ slots[Candidate].pid # slots[1 - Candidate].pid
      /\ OneActive
  BY <1>1, <1>2, Regions DEF SlotShape
<1>5. Candidate \in 0..1 /\ active_slot \in 0..1
  BY CandidateTypes DEF TypeOK
<1>6. /\ slots'[Candidate] = [pid |-> slots[Candidate].pid, state |-> "ACTIVE"]
      /\ slots'[1 - Candidate].pid = slots[1 - Candidate].pid
      /\ serves => slots'[1 - Candidate].state = "DRAINING"
      /\ ~serves => slots'[1 - Candidate] = slots[1 - Candidate]
  BY <1>1, <1>5 DEF TypeOK
<1>7. /\ serves => active_slot = 1 - Candidate /\ slots[1 - Candidate].pid # NoProc
                    /\ slots[1 - Candidate].state = "ACTIVE"
      /\ ~serves => active_slot = Candidate /\ slots[active_slot].state # "ACTIVE"
                     /\ slots[1 - Candidate].pid = NoProc /\ slots[1 - Candidate].state # "ACTIVE"
  BY <1>4, <1>5 DEF OldServes, OneActive, Candidate
<1>8. Born'
  BY <1>1, <1>3, <1>5, <1>6 DEF Born
<1>9. OneActive' /\ OldPid' = slots[1 - Candidate].pid /\ Candidate' = 1 - Candidate
  <2>1. PICK k : k = Candidate  OBVIOUS
  <2>2. /\ active_slot' = k /\ slots'[k].state = "ACTIVE" /\ slots'[k].pid # NoProc
        /\ slots'[1 - k].state # "ACTIVE" /\ slots'[1 - k].pid = slots[1 - k].pid
    BY <1>1, <1>4, <1>6, <1>7, <2>1
  <2>3. Candidate' = 1 - k
    BY <2>2 DEF Candidate
  <2> QED
    BY <2>1, <2>2, <2>3 DEF OneActive, OldPid
<1>10. /\ At(HotPlaces \ {"stage"})' /\ ~At({"probe", "switch"})'
       /\ At({"drain", "grace", "killed"})' <=> serves
       /\ At({"drain", "grace"})' <=> serves
       /\ At({"drained"})' <=> ~serves
  BY <1>2, Regions DEF HotPlaces
<1>11. SlotShape'
  BY <1>1, <1>4, <1>5, <1>6, <1>7, <1>9, <1>10 DEF SlotShape
<1>12. Served'
  <2> SUFFICES ASSUME NEW p \in Up \cap deployed
               PROVE  \/ slots'[Candidate] = [pid |-> p, state |-> "ACTIVE"]
                      \/ serves /\ slots[1 - Candidate].pid = p
    BY <1>1, <1>3, <1>9, <1>10 DEF Served
  <2>1. slots[active_slot] = [pid |-> p, state |-> "ACTIVE"] \/ slots[Candidate].pid = p
    BY <1>1, <1>2, Regions DEF Served
  <2> QED
    BY <1>6, <1>7, <2>1
<1>13. ToldForCause'
  BY <1>1, <1>3, <1>4 DEF ToldForCause
<1> QED
  BY <1>2, <1>8, <1>11, <1>12, <1>13

\* The wait for the replaced process: its signals go to a process that is no
\* longer the entry's, and it is not up when the wait has ended.
LEMMA AwaitKeeps ==
  ASSUME NEW c \in Controllers, DeployInv, TypeOK',
         AwaitDrain(c) \/ AwaitGrace(c) \/ AwaitKilled(c)
  PROVE  DeployInv'
<1> USE DEF DeployInv
<1>1. /\ pc[c] \in {"drain", "grace", "killed"}
      /\ UNCHANGED <<entry, locks, hot>>
  BY DEF AwaitDrain, AwaitGrace, AwaitKilled
<1>2. PICK x \in {"grace", "killed", "drained"} :
        /\ pc' = [pc EXCEPT ![c] = x]
        /\ x = "grace" => pc[c] = "drain" /\ Signal(OldPid, "TERM")
        /\ x = "killed" => pc[c] = "grace" /\ Signal(OldPid, "KILL")
        /\ x = "drained" => Wait(OldPid) /\ (pc[c] = "killed" \/ Dead(OldPid))
  BY DEF AwaitDrain, AwaitGrace, AwaitKilled, Goto, Escalate
<1>3. /\ HotLocked'
      /\ \A S \in SUBSET HotPlaces : (At(S) <=> pc[c] \in S) /\ (At(S)' <=> x \in S)
      /\ At(ToldPlaces) => At(ToldPlaces)'
  <2>1. pc[c] \in HotPlaces /\ x \in Places /\ x \notin ToldPlaces /\ x \in HotPlaces
    BY <1>1 DEF HotPlaces, Places, DeployPlaces, ToldPlaces
  <2> QED
    BY <1>1, <1>2, <2>1, Holder DEF locks
<1>4. /\ slots' = slots /\ active_slot' = active_slot /\ Candidate' = Candidate
      /\ OldPid' = OldPid /\ pid' = pid
  BY <1>1 DEF entry, hot, Candidate, OldPid
<1>5. OldPid \in Procs \cup {NoProc}
  BY CandidateTypes DEF OldPid, TypeOK
<1>6. /\ deployed' = deployed /\ self' = self /\ told' \subseteq told \cup {OldPid}
      /\ \A q \in Procs : proc[q] # "unborn" => proc'[q] # "unborn"
      /\ Up' \subseteq Up
      /\ x = "killed" => OldPid \notin Up'
      /\ x = "drained" => told' = told
  <2>1. CASE x = "grace"
    BY <1>2, <1>5, <2>1, SignalTypes
  <2>2. CASE x = "killed"
    BY <1>2, <1>5, <2>2, SignalTypes
  <2>3. CASE x = "drained"
    BY <1>2, <1>5, <2>3, WaitTypes
  <2> QED
    BY <2>1, <2>2, <2>3
<1>7. Born'
  <2>1. OldPid = NoProc \/ proc[OldPid] # "unborn"
    BY DEF OldPid, Born, TypeOK
  <2>2. told' \subseteq Procs
    BY DEF TypeOK
  <2> QED
    BY <1>4, <1>6, <2>1, <2>2, NoProcIsNone DEF Born, TypeOK
<1>8. /\ At(HotPlaces \ {"stage"})' /\ ~At({"probe", "switch"})' /\ ~At({"probe", "switch"})
      /\ At({"drain", "grace", "killed"})
      /\ At({"drain", "grace", "killed"})' <=> x # "drained"
      /\ At({"drain", "grace"}) <=> pc[c] # "killed"
      /\ At({"drain", "grace"})' <=> x = "grace"
      /\ At({"drained"})' <=> x = "drained"
  BY <1>1, <1>3, Regions DEF HotPlaces
<1>9. SlotShape'
  BY <1>2, <1>4, <1>8 DEF SlotShape, OneActive
<1>10. Served'
  <2> SUFFICES ASSUME NEW p \in Up' \cap deployed'
               PROVE  \/ slots[active_slot] = [pid |-> p, state |-> "ACTIVE"]
                      \/ x = "grace" /\ OldPid = p
    BY <1>4, <1>8 DEF Served
  <2>1. p \in Up \cap deployed /\ p \in Up'
    BY <1>6
  <2>2. \/ slots[active_slot] = [pid |-> p, state |-> "ACTIVE"]
        \/ pc[c] # "killed" /\ OldPid = p
    BY <1>8, <2>1 DEF Served
  <2>3. x = "drained" /\ pc[c] # "killed" => OldPid # p
    BY <1>2, <2>1, NoProcIsNone DEF Dead, Up
  <2> QED
    BY <1>6, <2>1, <2>2, <2>3
<1>11. ToldForCause'
  <2>1. pid' \in told' => pid \in told
    BY <1>2, <1>4, <1>6, <1>8 DEF SlotShape
  <2> QED
    BY <1>3, <1>6, <2>1 DEF ToldForCause
<1> QED
  BY <1>3, <1>7, <1>9, <1>10, <1>11

\* The end of a deploy empties the slot of the replaced process.
LEMMA DoneKeeps ==
  ASSUME NEW c \in Controllers, DeployInv, TypeOK', DeployDone(c)
  PROVE  DeployInv'
<1> USE DEF DeployInv
<1>1. /\ pc[c] = "drained" /\ pc' = [pc EXCEPT ![c] = "idle"] /\ hotreload_mutex' = Nobody
      /\ UNCHANGED <<entry, processes>> /\ active_slot' = active_slot
      /\ slots' = IF slots[1 - active_slot].state = "DRAINING"
                  THEN [slots EXCEPT ![1 - active_slot] = [pid |-> NoProc, state |-> "TERMINATED"]]
                  ELSE slots
  BY DEF DeployDone, Goto
<1>2. /\ HotLocked'
      /\ \A S \in SUBSET HotPlaces : (At(S) <=> pc[c] \in S) /\ (At(S)' <=> "idle" \in S)
      /\ At(ToldPlaces) => At(ToldPlaces)'
  <2>1. pc[c] \in HotPlaces /\ "idle" \in Places /\ "idle" \notin ToldPlaces /\ "idle" \notin HotPlaces
    BY <1>1 DEF HotPlaces, Places, ToldPlaces
  <2> QED
    BY <1>1, <2>1, Holder
<1>3. /\ told' = told /\ deployed' = deployed /\ proc' = proc /\ self' = self /\ Up' = Up /\ pid' = pid
  BY <1>1 DEF processes, entry, Up
<1>4. /\ slots[active_slot].state = "ACTIVE"
      /\ slots[1 - active_slot].state = "DRAINING" \/ slots[1 - active_slot].pid = NoProc
      /\ OneActive
  BY <1>1, <1>2, Regions DEF SlotShape, OldPid
<1>5. /\ 1 - active_slot \in 0..1 /\ active_slot \in 0..1 /\ active_slot # 1 - active_slot
      /\ \A i \in 0..1 : i = active_slot \/ i = 1 - active_slot
  BY DEF TypeOK
<1>6. /\ slots'[active_slot] = slots[active_slot]
      /\ slots'[1 - active_slot].pid = NoProc
      /\ slots'[1 - active_slot].state # "ACTIVE"
  BY <1>1, <1>4, <1>5 DEF TypeOK, OneActive
<1>7. Born'
  BY <1>3, <1>5, <1>6 DEF Born
<1>8. Candidate' = 1 - active_slot /\ OneActive'
  BY <1>1, <1>4, <1>6 DEF Candidate, OneActive
<1>9. SlotShape'
  <2>1. ~At({"probe", "switch"})' /\ ~At({"drain", "grace", "killed"})'
        /\ ~At({"drain", "grace"})' /\ ~At({"drained"})'
    BY <1>2, Regions DEF HotPlaces
  <2> QED
    BY <1>6, <1>8, <2>1 DEF SlotShape
<1>10. Served'
  <2>1. ~At({"probe", "switch"}) /\ ~At({"drain", "grace"})
    BY <1>1, <1>2, Regions
  <2> QED
    BY <1>1, <1>3, <1>6, <2>1 DEF Served
<1>11. ToldForCause'
  BY <1>2, <1>3 DEF ToldForCause
<1> QED
  BY <1>2, <1>7, <1>9, <1>10, <1>11

\* The deploy invariant holds of an empty table.
LEMMA InitDeploy == Init => DeployInv
<1> SUFFICES ASSUME Init PROVE DeployInv
  OBVIOUS
<1>1. TypeOK
  BY InitTypes
<1>2. HotLocked /\ \A S \in SUBSET HotPlaces : ~At(S)
  BY AppAssumption DEF Init, HotLocked, HotPlaces, At, Threads, Nobody
<1>3. Born /\ ToldForCause /\ Served
  BY DEF Init, Born, ToldForCause, Served
<1>4. OneActive /\ slots[Candidate].pid = NoProc
  BY DEF Init, OneActive, Candidate
<1> QED
  BY <1>1, <1>2, <1>3, <1>4, Regions DEF DeployInv, SlotShape

\* Every step of every connection keeps the deploy invariant.
LEMMA NextDeploy == DeployInv /\ [Next]_vars => DeployInv'
<1> SUFFICES ASSUME DeployInv, [Next]_vars PROVE DeployInv'
  OBVIOUS
<1>0. TypeOK'
  BY NextTypes DEF DeployInv
<1>1. ASSUME NEW c \in Controllers, StartStep(c) PROVE DeployInv'
  BY <1>0, <1>1, StartPlain, PlainKeeps, StartTold DEF DeployInv
<1>2. ASSUME NEW c \in Controllers, StopStep(c) PROVE DeployInv'
  BY <1>0, <1>2, StopPlain, PlainKeeps, StopTold DEF DeployInv
<1>3. ASSUME NEW t \in Threads, ReapStep(t) PROVE DeployInv'
  BY <1>0, <1>3, ReapPlain, PlainKeeps, ReapTold DEF DeployInv
<1>4. ASSUME NEW c \in Controllers, ReloadStep(c) PROVE DeployInv'
  BY <1>0, <1>4, ReloadPlain, PlainKeeps, ReloadTold DEF DeployInv
<1>5. CASE \/ \E c \in Controllers, o \in Ops : Request(c, o)
           \/ \E p \in Procs : Exits(p)
           \/ \E c \in Controllers : DeployCheck(c) \/ DeployNoRoom(c)
           \/ UNCHANGED vars
  BY <1>0, <1>5, OtherPlain, PlainKeeps, OtherTold DEF DeployInv
<1>6. ASSUME NEW c \in Controllers, DeployStep(c) PROVE DeployInv'
  BY <1>0, <1>5, <1>6, LockKeeps, AbortKeeps, BootKeeps, ProbeKeeps, SwitchKeeps, AwaitKeeps,
     DoneKeeps DEF DeployStep
<1> QED
  BY <1>1, <1>2, <1>3, <1>4, <1>5, <1>6 DEF Next, CallStep, Threads

\* The invariant of deploys holds for any number of control connections.
THEOREM DeployInvCorrect == Spec => []DeployInv
  BY InitDeploy, NextDeploy, PTL DEF Spec

\* DeployedIsInSlot: between deploys every deployed process that is up is the
\* one of the ACTIVE slot (context.c, the hot-reload slots).
THEOREM DeploysLeaveOneServer == Spec => []DeployedIsInSlot
<1>1. DeployInv => DeployedIsInSlot
  <2> SUFFICES ASSUME DeployInv, hotreload_mutex = Nobody PROVE DeployedIsInSlot
    BY DEF DeployedIsInSlot
  <2>1. \A c \in Controllers : pc[c] \notin HotPlaces
    BY AppAssumption DEF DeployInv, HotLocked, Nobody
  <2> QED
    BY <2>1 DEF DeployInv, Served, At, HotPlaces, DeployedIsInSlot
<1> QED
  BY <1>1, DeployInvCorrect, PTL

\* SignalsSpareServing: whatever the connections race for, the supervisor never
\* signals its own process group, and the process an entry names was signalled
\* only by a stop or reload that is still under way.
THEOREM ServingIsSpared == Spec => []SignalsSpareServing
<1>1. DeployInv => SignalsSpareServing
  BY DEF DeployInv, ToldForCause, At, ToldPlaces, SignalsSpareServing, StopPlaces, AllPlaces
<1> QED
  BY <1>1, DeployInvCorrect, PTL

-----------------------------------------------------------------------------
(* The inductive invariant for one connection, until the first deploy.     *)

NotUpPlaces == {"reset", "spawn", "poll_store", "kill_wait", "finish", "reap_store"}

RunsOnce(k) ==
  deployed = {} =>
    /\ Up \subseteq {pid}
    /\ state # "RUNNING" => Up = {}
    /\ pc[k] \in NotUpPlaces \/ pc[Main] = "reap_store" => Up = {}

Entry(k) ==
  /\ pc[k] = "reset" => state # "RUNNING"
  /\ pc[k] = "spawn" => state = "STOPPED"
  /\ pc[Main] = "reap_store" => state # "STOPPED" /\ app_mutex = Main
  /\ pc[Main] \in {"idle", "reap_store"}
  /\ pc[k] \in {"reap_store", "all_services", "all_wait"} => app_mutex = k
  /\ pc[k] \in HotPlaces \ {"stage"} => deployed # {}

OnceInv(k) == TypeOK /\ RunsOnce(k) /\ Entry(k)

\* A set within one element has at most one.
LEMMA AtMostOne ==
  ASSUME NEW S, NEW e, S \subseteq {e}
  PROVE  Cardinality(S) <= 1
<1>1. CASE S = {}
  BY <1>1, FS_EmptySet
<1>2. CASE S = {e}
  BY <1>2, FS_Singleton
<1> QED
  BY <1>1, <1>2

\* With one connection: the invariant holds of an empty table.
LEMMA InitOnce ==
  ASSUME NEW k, Controllers = {k}, Init
  PROVE  OnceInv(k)
<1>1. TypeOK
  BY InitTypes
<1>2. pc[k] = "idle" /\ pc[Main] = "idle"
  BY DEF Init, Threads
<1>3. Up = {}
  BY DEF Init, Up
<1> QED
  BY <1>1, <1>2, <1>3 DEF OnceInv, RunsOnce, Entry, NotUpPlaces, HotPlaces

\* With one connection: a start brings up a process only where none is up.
LEMMA StartOnce ==
  ASSUME NEW k, Controllers = {k}, OnceInv(k), TypeOK', StartStep(k)
  PROVE  OnceInv(k)'
<1> USE DEF OnceInv, RunsOnce, Entry, NotUpPlaces, HotPlaces, Goto
<1>0. k # Main /\ k \in Threads /\ Main \in Threads /\ pc \in [Threads -> Places]
  BY AppAssumption DEF Threads, TypeOK
<1>1. CASE StartCheck(k) \/ SurviveEnter(k)
  <2>1. Up' = Up /\ UNCHANGED <<state, pid, app_mutex, deployed>>
    BY <1>1 DEF StartCheck, SurviveEnter, entry, locks, processes, Up
  <2> QED
    BY <1>0, <1>1, <2>1 DEF StartCheck, SurviveEnter, AlreadyRuns
<1>2. CASE StartReset(k)
  <2>1. Up' = Up /\ UNCHANGED <<app_mutex, deployed>>
    BY <1>2 DEF StartReset, locks, processes, Up
  <2>2. pc[Main] # "reap_store"
    BY <1>2, AppAssumption DEF StartReset, Nobody
  <2> QED
    BY <1>0, <1>2, <2>1, <2>2 DEF StartReset
<1>3. CASE SpawnFail(k) \/ SurviveStore(k)
  <2>1. Up' = Up /\ UNCHANGED <<app_mutex, deployed>>
    BY <1>3 DEF SpawnFail, SurviveStore, locks, processes, Up
  <2> QED
    BY <1>0, <1>3, <2>1 DEF SpawnFail, SurviveStore, entry
<1>4. CASE SpawnUntracked(k)
  <2>1. Up' = Up /\ UNCHANGED <<app_mutex, deployed>>
    BY <1>4, FreshTypes DEF SpawnUntracked, locks
  <2> QED
    BY <1>0, <1>4, <2>1 DEF SpawnUntracked
<1>5. CASE SpawnOk(k)
  <2>1. Up' = Up \cup {pid'} /\ UNCHANGED <<app_mutex, deployed>>
    BY <1>5, FreshTypes DEF SpawnOk, locks
  <2>2. pc[Main] # "reap_store" /\ (deployed = {} => Up = {})
    BY <1>5 DEF SpawnOk
  <2> QED
    BY <1>0, <1>5, <2>1, <2>2 DEF SpawnOk
<1>6. CASE SurvivePoll(k)
  <2>1. Up' = Up /\ UNCHANGED <<state, pid, app_mutex, deployed>>
    BY <1>6, WaitTypes DEF SurvivePoll, entry, locks, TypeOK
  <2>2. Dead(pid) => pid \notin Up
    BY NoProcIsNone DEF Dead, Up
  <2> QED
    BY <1>0, <1>6, <2>1, <2>2 DEF SurvivePoll
<1> QED
  BY <1>1, <1>2, <1>3, <1>4, <1>5, <1>6 DEF StartStep

\* With one connection: a stop leaves none up, or keeps the one it could not end.
LEMMA StopOnce ==
  ASSUME NEW k, Controllers = {k}, OnceInv(k), TypeOK', StopStep(k)
  PROVE  OnceInv(k)'
<1> USE DEF OnceInv, RunsOnce, Entry, NotUpPlaces, HotPlaces, Goto
<1>0. k # Main /\ k \in Threads /\ Main \in Threads /\ pc \in [Threads -> Places] /\ pid \in Procs \cup {NoProc}
  BY AppAssumption DEF Threads, TypeOK
<1>1. NoProc \notin Up /\ (Dead(pid) => pid \notin Up)
  BY NoProcIsNone DEF Dead, Up
<1>2. CASE StopCheck(k)
  <2>1. Up' = Up /\ UNCHANGED <<state, pid, app_mutex, deployed>>
    BY <1>2 DEF StopCheck, entry, locks, processes, Up
  <2> QED
    BY <1>0, <1>1, <1>2, <2>1 DEF StopCheck, AfterStop
<1>3. CASE StopTerm(k)
  <2>1. Up' \subseteq Up /\ UNCHANGED <<state, pid, app_mutex, deployed>>
    BY <1>0, <1>3, SignalTypes DEF StopTerm, entry, locks
  <2> QED
    BY <1>0, <1>3, <2>1 DEF StopTerm
<1>4. CASE StopKill(k)
  <2>1. Up' \subseteq Up /\ pid \notin Up' /\ UNCHANGED <<state, pid, app_mutex, deployed>>
    BY <1>0, <1>4, SignalTypes DEF StopKill, entry, locks
  <2> QED
    BY <1>0, <1>4, <2>1 DEF StopKill
<1>5. CASE StopWait(k) \/ StopKillWait(k)
  <2>1. Up' = Up /\ UNCHANGED <<state, pid, app_mutex, deployed>>
    BY <1>0, <1>5, WaitTypes DEF StopWait, StopKillWait, entry, locks
  <2> QED
    BY <1>0, <1>1, <1>5, <2>1 DEF StopWait, StopKillWait, AfterStopWait
<1>6. CASE StopFinish(k)
  <2>1. Up' = Up /\ UNCHANGED <<app_mutex, deployed>>
    BY <1>6 DEF StopFinish, locks, processes, Up
  <2>2. pc[Main] # "reap_store"
    BY <1>6, AppAssumption DEF StopFinish, Nobody
  <2> QED
    BY <1>0, <1>6, <2>1, <2>2 DEF StopFinish, AfterStop
<1> QED
  BY <1>2, <1>3, <1>4, <1>5, <1>6 DEF StopStep

\* With one connection: the reaper clears the slot of a process that is gone.
LEMMA ReapOnce ==
  ASSUME NEW k, Controllers = {k}, OnceInv(k), TypeOK', NEW t \in Threads, ReapStep(t)
  PROVE  OnceInv(k)'
<1> USE DEF OnceInv, RunsOnce, Entry, NotUpPlaces, HotPlaces, Goto
<1>0. k # Main /\ Threads = {k, Main} /\ pc \in [Threads -> Places] /\ pid \in Procs \cup {NoProc}
  BY AppAssumption DEF Threads, TypeOK
<1>1. Dead(pid) => pid \notin Up
  BY NoProcIsNone DEF Dead, Up
<1>2. CASE ReapCheck(t)
  <2>1. Up' = Up /\ UNCHANGED <<state, pid, deployed>>
    BY <1>0, <1>2, WaitTypes DEF ReapCheck, entry, processes, Up
  <2>2. app_mutex = Nobody /\ Nobody \notin {k, Main}
    BY <1>2, AppAssumption DEF ReapCheck, Nobody
  <2>3. CASE ReapDue
    <3>1. pc' = [pc EXCEPT ![t] = "reap_store"] /\ app_mutex' = t
      BY <1>2, <2>3 DEF ReapCheck
    <3> QED
      BY <1>0, <1>1, <2>1, <2>2, <2>3, <3>1 DEF ReapDue
  <2>4. CASE ~ReapDue
    <3>1. pc' = [pc EXCEPT ![t] = "idle"] /\ app_mutex' = app_mutex
      BY <1>2, <2>4 DEF ReapCheck
    <3> QED
      BY <1>0, <2>1, <2>2, <3>1
  <2> QED
    BY <2>3, <2>4
<1>3. CASE ReapStore(t)
  <2>1. Up' = Up /\ UNCHANGED deployed /\ app_mutex = t /\ state' = "CRASHED"
    BY <1>0, <1>3 DEF ReapStore, ReapedState, processes, Up
  <2>2. t = Main => pc[k] \notin {"reap_store", "all_services", "all_wait", "spawn"}
    BY <1>0, <1>3, <2>1 DEF ReapStore
  <2>3. t = k => pc[Main] # "reap_store"
    BY <1>0, <2>1
  <2> QED
    BY <1>0, <1>3, <2>1, <2>2, <2>3 DEF ReapStore
<1> QED
  BY <1>2, <1>3 DEF ReapStep

\* With one connection: a reload leaves one process up at most.
LEMMA ReloadOnce ==
  ASSUME NEW k, Controllers = {k}, OnceInv(k), TypeOK', ReloadStep(k)
  PROVE  OnceInv(k)'
<1> USE DEF OnceInv, RunsOnce, Entry, NotUpPlaces, HotPlaces, Goto
<1>0. k # Main /\ k \in Threads /\ Main \in Threads /\ pc \in [Threads -> Places] /\ pid \in Procs \cup {NoProc}
      /\ Nobody # Main
  BY AppAssumption DEF Threads, TypeOK, Nobody
<1>1. NoProc \notin Up /\ (Dead(pid) => pid \notin Up)
  BY NoProcIsNone DEF Dead, Up
<1>2. CASE AllTerm(k)
  <2>1. Up' \subseteq Up /\ UNCHANGED <<state, pid, deployed>>
    <3>1. CASE pid = NoProc
      BY <1>2, <3>1 DEF AllTerm, entry, processes, Up
    <3>2. CASE pid # NoProc
      BY <1>0, <1>2, <3>2, SignalTypes DEF AllTerm, entry
    <3> QED
      BY <3>1, <3>2
  <2> QED
    BY <1>0, <1>2, <2>1 DEF AllTerm
<1>3. CASE AllServices(k) \/ AllRelock(k) \/ Autostart(k)
  <2>1. Up' = Up /\ UNCHANGED <<state, pid, deployed>>
    BY <1>3 DEF AllServices, AllRelock, Autostart, entry, processes, Up
  <2> QED
    BY <1>0, <1>3, <2>1 DEF AllServices, AllRelock, Autostart, locks
<1>4. CASE AllWait(k)
  <2>1. Up' \subseteq Up /\ pid \notin Up' /\ UNCHANGED deployed
    <3>1. CASE Dead(pid)
      BY <1>0, <1>1, <1>4, <3>1, WaitTypes DEF AllWait
    <3>2. CASE ~Dead(pid)
      BY <1>0, <1>4, <3>2, SignalTypes DEF AllWait
    <3> QED
      BY <3>1, <3>2
  <2>2. pc[Main] # "reap_store"
    BY <1>0, <1>4 DEF AllWait
  <2> QED
    BY <1>0, <1>4, <2>1, <2>2 DEF AllWait, entry
<1> QED
  BY <1>2, <1>3, <1>4 DEF ReloadStep

\* With one connection: a deploy is the only place with two processes up.
LEMMA DeployOnce ==
  ASSUME NEW k, Controllers = {k}, OnceInv(k), TypeOK', DeployStep(k)
  PROVE  OnceInv(k)'
<1> USE DEF OnceInv, RunsOnce, Entry, NotUpPlaces, HotPlaces, Goto
<1>0. k # Main /\ k \in Threads /\ Main \in Threads /\ pc \in [Threads -> Places]
  BY AppAssumption DEF Threads, TypeOK
<1>1. slots[Candidate].pid \in Procs \cup {NoProc}
  BY CandidateTypes DEF TypeOK
<1>2. CASE DeployCheck(k) \/ DeployNoRoom(k)
  <2>1. Up' = Up /\ UNCHANGED <<state, pid, app_mutex, deployed>>
    BY <1>2 DEF DeployCheck, DeployNoRoom, entry, locks, processes, Up
  <2> QED
    BY <1>0, <1>2, <2>1 DEF DeployCheck, DeployNoRoom
<1>3. CASE DeployLock(k)
  <2>1. Up' \subseteq Up /\ UNCHANGED <<state, pid, app_mutex, deployed>>
    <3>1. CASE slots[Candidate].pid = NoProc
      BY <1>3, <3>1 DEF DeployLock, entry, processes, Up
    <3>2. CASE slots[Candidate].pid # NoProc
      BY <1>1, <1>3, <3>2, SignalTypes DEF DeployLock, entry
    <3> QED
      BY <3>1, <3>2
  <2> QED
    BY <1>0, <1>3, <2>1 DEF DeployLock
<1>4. CASE StageFail(k) \/ StageUntracked(k) \/ ProbeFail(k)
  <2>1. Up' = Up /\ UNCHANGED <<state, pid, app_mutex, deployed>> /\ pc' = [pc EXCEPT ![k] = "idle"]
    <3>1. CASE StageFail(k)
      BY <3>1 DEF StageFail, Abort, entry, processes, Up
    <3>2. CASE StageUntracked(k)
      BY <3>2, FreshTypes DEF StageUntracked, Abort, entry
    <3>3. CASE ProbeFail(k)
      BY <1>1, <3>3, WaitTypes DEF ProbeFail, Abort, entry
    <3> QED
      BY <1>4, <3>1, <3>2, <3>3
  <2> QED
    BY <1>0, <2>1
<1>5. CASE StageBoot(k)
  <2>1. deployed' # {} /\ UNCHANGED <<state, pid, app_mutex>>
    BY <1>5 DEF StageBoot, entry, locks
  <2> QED
    BY <1>0, <1>5, <2>1 DEF StageBoot
<1>6. CASE ProbeOk(k) \/ AwaitDrain(k) \/ AwaitGrace(k) \/ AwaitKilled(k) \/ DeployDone(k)
  <2>1. deployed # {} /\ UNCHANGED <<state, pid, app_mutex, deployed>>
    BY <1>6 DEF ProbeOk, AwaitDrain, AwaitGrace, AwaitKilled, DeployDone, Escalate, Wait, Signal,
                entry, locks, processes
  <2> QED
    BY <1>0, <1>6, <2>1 DEF ProbeOk, AwaitDrain, AwaitGrace, AwaitKilled, DeployDone
<1>7. CASE Switch(k)
  <2>1. deployed # {} /\ UNCHANGED <<app_mutex, deployed>> /\ state' = "RUNNING"
    BY <1>7 DEF Switch, locks, processes
  <2>2. PICK x \in {"drain", "drained"} : pc' = [pc EXCEPT ![k] = x]
    BY <1>7 DEF Switch
  <2> QED
    BY <1>0, <2>1, <2>2
<1> QED
  BY <1>2, <1>3, <1>4, <1>5, <1>6, <1>7 DEF DeployStep

\* With one connection: a new request and an exit keep the invariant.
LEMMA OtherOnce ==
  ASSUME NEW k, Controllers = {k}, OnceInv(k), TypeOK',
         (\E o \in Ops : Request(k, o)) \/ (\E p \in Procs : Exits(p)) \/ UNCHANGED vars
  PROVE  OnceInv(k)'
<1> USE DEF OnceInv, RunsOnce, Entry, NotUpPlaces, HotPlaces, Goto
<1>0. k # Main /\ k \in Threads /\ Main \in Threads /\ pc \in [Threads -> Places]
  BY AppAssumption DEF Threads, TypeOK
<1>1. ASSUME NEW o \in Ops, Request(k, o) PROVE OnceInv(k)'
  <2>1. FirstPlace[o] \in {"start", "stop", "all_term", "deploy", "reap"}
    BY AppAssumption DEF FirstPlace
  <2>2. Up' = Up /\ UNCHANGED <<state, pid, app_mutex, deployed>>
    BY <1>1 DEF Request, entry, locks, processes, Up
  <2> QED
    BY <1>0, <1>1, <2>1, <2>2 DEF Request
<1>2. ASSUME NEW p \in Procs, Exits(p) PROVE OnceInv(k)'
  <2>1. Up' \subseteq Up /\ UNCHANGED <<state, pid, app_mutex, deployed, pc>>
    BY <1>2 DEF Exits, entry, locks, Up, TypeOK
  <2> QED
    BY <2>1
<1>3. CASE UNCHANGED vars
  <2>1. Up' = Up /\ UNCHANGED <<state, pid, app_mutex, deployed, pc>>
    BY <1>3 DEF vars, entry, locks, processes, Up
  <2> QED
    BY <2>1
<1> QED
  BY <1>1, <1>2, <1>3

\* The invariant of one connection at a time.
THEOREM OnceInvCorrect ==
  ASSUME NEW k, Controllers = {k}
  PROVE  Spec => []OnceInv(k)
<1>1. Init => OnceInv(k)
  BY InitOnce
<1>2. OnceInv(k) /\ [Next]_vars => OnceInv(k)'
  <2> SUFFICES ASSUME OnceInv(k), [Next]_vars PROVE OnceInv(k)'
    OBVIOUS
  <2>1. TypeOK'
    BY NextTypes DEF OnceInv
  <2> QED
    BY <2>1, StartOnce, StopOnce, ReapOnce, ReloadOnce, DeployOnce, OtherOnce
    DEF Next, CallStep, Threads
<1> QED
  BY <1>1, <1>2, PTL DEF Spec

\* UpIsRunning: with requests one at a time the application never runs twice,
\* and a process is up only behind an entry that says RUNNING (loader.c start,
\* stop and the reaper, which share the entry almost without a lock).
THEOREM AppRunsOnce ==
  ASSUME NEW k, Controllers = {k}
  PROVE  Spec => []UpIsRunning
<1>1. OnceInv(k) => UpIsRunning
  BY AtMostOne DEF OnceInv, RunsOnce, UpIsRunning
<1> QED
  BY <1>1, OnceInvCorrect, PTL
=============================================================================
