-------------------------- MODULE SvcManagerProofs --------------------------
(***************************************************************************)
(* What a service manager guarantees when its calls come one at a time,    *)
(* as they do from one control connection: for any number of threads the   *)
(* service ever has, with or without a stop hook.  With two callers none   *)
(* of this holds, because svc_manager.c locks nothing.                     *)
(***************************************************************************)
EXTENDS SvcManager, FiniteSetTheorems, TLAPS

\* The threads that have not returned from svc_thread_wrapper.
Active == {w \in Workers : worker[w] \in {"entry", "failed", "crashing"}}

\* No call but the one that creates it overlaps a thread the entry does not
\* name: a thread that is under way is the one in svc->thread_handle.
NamedByHandle == Active \subseteq {handle}

\* Where a call has looked at the status, or waited for the thread, and
\* relies on there being no thread; also between the calls.
SettledAt(c) ==
  /\ pc[c] \in {"create", "finish"} => Active = {}
  /\ pc[c] # "publish" /\ status \in {"STOPPED", "CRASHED"} => Active = {}

\* A call relies on the handle it is going to join.
HandleAt(c) ==
  /\ status = "RUNNING" /\ pc[c] # "finish" => handle # NoThread
  /\ pc[c] \in {"mark", "hook"} /\ op[c] = "restart" => handle # NoThread
  /\ pc[c] = "publish" => handle # NoThread
  /\ pc[c] = "join" => held[c] = handle /\ handle # NoThread

\* How far a call can be with a given status.
StatusAt(c) ==
  /\ pc[c] \in {"idle", "restart"} => status # "RESTARTING"
  /\ pc[c] = "create" => status # "RUNNING" /\ (op[c] # "restart" => status = "STOPPED")
  /\ pc[c] = "mark" => op[c] = "restart"
  /\ pc[c] \in {"hook", "join"} => /\ op[c] # "start"
                                   /\ op[c] = "restart" => status # "RUNNING"

CallInv(c) == SettledAt(c) /\ HandleAt(c) /\ StatusAt(c)

\* The inductive invariant for the only caller c.
SvcInv(c) == TypeOK /\ NamedByHandle /\ CallInv(c)

-----------------------------------------------------------------------------
(* Sets of threads. *)

\* A set inside a singleton has at most one element.
LEMMA AtMostOne ==
  ASSUME NEW x, NEW S \in SUBSET {x}
  PROVE  Cardinality(S) <= 1
<1>1. S = {} \/ S = {x}
  OBVIOUS
<1>2. Cardinality({}) = 0 /\ Cardinality({x}) = 1
  BY FS_EmptySet, FS_Singleton
<1> QED
  BY <1>1, <1>2

-----------------------------------------------------------------------------
(* Type correctness, for any number of callers. *)

\* ar_svc_register leaves an entry of the right types.
LEMMA InitTypes == Init => TypeOK
  BY DEF Init, TypeOK, Statuses, Workers, NoThread, WorkerPlaces, Places

\* A step of a call keeps the types.
LEMMA ControllerTypes ==
  ASSUME NEW c \in Controllers, TypeOK, ControllerStep(c)
  PROVE  TypeOK'
<1> USE DEF TypeOK, Statuses, WorkerPlaces, Places, Goto, Enter, caller
<1>1. CASE StartCall(c) \/ StopCall(c) \/ SuperviseCall(c) \/ RestartCall(c)
  BY <1>1 DEF StartCall, StopCall, SuperviseCall, RestartCall
<1>2. CASE RestartMark(c) \/ StopFinish(c) \/ Publish(c)
  BY <1>2 DEF RestartMark, StopFinish, Publish
<1>3. CASE Hook(c)
  BY <1>3 DEF Hook, ToldByHook, AfterHook, Live
<1>4. CASE Join(c)
  BY <1>4 DEF Join
<1>5. CASE CreateOk(c)
  BY <1>5 DEF CreateOk
<1>6. CASE CreateFail(c)
  BY <1>6 DEF CreateFail, FailStatus
<1> QED
  BY <1>1, <1>2, <1>3, <1>4, <1>5, <1>6 DEF ControllerStep

\* A step of a service thread keeps them.
LEMMA WorkerTypes ==
  ASSUME NEW w \in Workers, TypeOK, WorkerStep(w)
  PROVE  TypeOK'
  BY DEF TypeOK, Statuses, WorkerPlaces, caller, WorkerStep, EntryReturns, WrapperCheck,
         WrapperCrash, CrashStatus

\* Every variable keeps its type, whoever calls and however often.
THEOREM SvcTypes == Spec => []TypeOK
<1>1. TypeOK /\ [Next]_vars => TypeOK'
  <2> SUFFICES ASSUME TypeOK, [Next]_vars PROVE TypeOK'
    OBVIOUS
  <2>1. CASE UNCHANGED vars
    BY <2>1 DEF TypeOK, vars
  <2> QED
    BY <2>1, ControllerTypes, WorkerTypes DEF Next
<1> QED
  BY <1>1, InitTypes, PTL DEF Spec

-----------------------------------------------------------------------------
(* One caller. *)

\* The service table starts with nothing running and no handle.
LEMMA InitInv ==
  ASSUME NEW k, Controllers = {k}, Init
  PROVE  SvcInv(k)
  BY InitTypes DEF Init, SvcInv, NamedByHandle, CallInv, SettledAt, HandleAt, StatusAt, Active

\* A step of the caller keeps what it relies on.
LEMMA ControllerInv ==
  ASSUME NEW k, Controllers = {k}, SvcInv(k), ControllerStep(k)
  PROVE  SvcInv(k)'
<1> USE DEF NamedByHandle, CallInv, SettledAt, HandleAt, StatusAt, Active, Goto, Enter, caller
<1>0. TypeOK /\ TypeOK' /\ k \in Controllers
  BY ControllerTypes DEF SvcInv
<1>1. CASE StartCall(k) \/ StopCall(k) \/ SuperviseCall(k) \/ RestartCall(k)
  BY <1>0, <1>1 DEF SvcInv, TypeOK, Statuses, StartCall, StopCall, SuperviseCall, RestartCall
<1>2. CASE RestartMark(k) \/ StopFinish(k) \/ Publish(k)
  BY <1>0, <1>2 DEF SvcInv, TypeOK, RestartMark, StopFinish, Publish
<1>3. CASE Hook(k)
  BY <1>0, <1>3 DEF SvcInv, TypeOK, Hook, AfterHook, Workers, NoThread
<1>4. CASE Join(k)
  BY <1>0, <1>4 DEF SvcInv, TypeOK, Join, Ended
<1>5. CASE CreateOk(k)
  BY <1>0, <1>5 DEF SvcInv, TypeOK, CreateOk, Workers, NoThread
<1>6. CASE CreateFail(k)
  BY <1>0, <1>6 DEF SvcInv, TypeOK, CreateFail, FailStatus
<1> QED
  BY <1>1, <1>2, <1>3, <1>4, <1>5, <1>6 DEF ControllerStep

\* A thread that returns or reports its failure keeps it as well.
LEMMA WorkerInv ==
  ASSUME NEW k, Controllers = {k}, SvcInv(k), NEW w \in Workers, WorkerStep(w)
  PROVE  SvcInv(k)'
<1> USE DEF NamedByHandle, CallInv, SettledAt, HandleAt, StatusAt, Active, caller
<1>0. TypeOK /\ TypeOK'
  BY WorkerTypes DEF SvcInv
<1>1. CASE EntryReturns(w)
  BY <1>0, <1>1 DEF SvcInv, TypeOK, EntryReturns
<1>2. CASE WrapperCheck(w)
  BY <1>0, <1>2 DEF SvcInv, TypeOK, WrapperCheck
<1>3. CASE WrapperCrash(w)
  BY <1>0, <1>3 DEF SvcInv, TypeOK, WrapperCrash, CrashStatus
<1> QED
  BY <1>1, <1>2, <1>3 DEF WorkerStep

\* The inductive invariant holds of a service with one caller.
THEOREM SvcInvCorrect ==
  ASSUME NEW k, Controllers = {k}
  PROVE  Spec => []SvcInv(k)
<1>1. Init => SvcInv(k)
  BY InitInv
<1>2. SvcInv(k) /\ [Next]_vars => SvcInv(k)'
  <2> SUFFICES ASSUME SvcInv(k), [Next]_vars PROVE SvcInv(k)'
    OBVIOUS
  <2>1. CASE UNCHANGED vars
    BY <2>1 DEF vars, SvcInv, TypeOK, NamedByHandle, CallInv, SettledAt, HandleAt, StatusAt,
                Active
  <2> QED
    BY <2>1, ControllerInv, WorkerInv DEF Next
<1> QED
  BY <1>1, <1>2, PTL DEF Spec

\* With one caller a service never runs twice, and nothing runs behind a
\* service that ar_svc_get_status reports STOPPED or CRASHED.
THEOREM ServiceRunsOnce ==
  ASSUME NEW k, Controllers = {k}
  PROVE  Spec => []OneInstance
<1>1. SvcInv(k) => OneInstance
  <2> SUFFICES ASSUME SvcInv(k) PROVE OneInstance
    OBVIOUS
  <2>1. Live \subseteq Active /\ Live \in SUBSET {handle}
    BY DEF SvcInv, NamedByHandle, Live, Active
  <2>2. Cardinality(Live) <= 1
    BY <2>1, AtMostOne
  <2>3. Quiet /\ status \in {"STOPPED", "CRASHED"} => Live = {}
    BY <2>1 DEF SvcInv, CallInv, SettledAt, Quiet
  <2> QED
    BY <2>2, <2>3 DEF OneInstance, SvcInv
<1> QED
  BY <1>1, SvcInvCorrect, PTL

\* With one caller ar_thread_join is only given the current thread, never
\* NULL, and only the current thread stores CRASHED.
THEOREM JoinsAreCurrent ==
  ASSUME NEW k, Controllers = {k}
  PROVE  Spec => []JoinsCurrent
<1>1. SvcInv(k) => JoinsCurrent
  BY DEF SvcInv, NamedByHandle, Active, CallInv, HandleAt, JoinsCurrent
<1> QED
  BY <1>1, SvcInvCorrect, PTL
=============================================================================
