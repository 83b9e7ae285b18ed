----------------------------- MODULE ReleaseSwap -----------------------------
(***************************************************************************)
(* Making a release the current one: hooks before, a symbolic link         *)
(* replaced by rename, a signal to the master, hooks after; and the older  *)
(* entry point that only runs the hooks of a stage                         *)
(* (libraries/hooks/lifecycle.c, libraries/deploy/atomic_swap.c,           *)
(* libraries/hooks/hooks_executor.c).                                      *)
(*                                                                         *)
(* Every caller is a process of its own (the temporary link carries its    *)
(* pid) that switches to a release of its own.  A hook is a child process  *)
(* that may succeed, fail, hang, ignore SIGTERM, or be reaped by someone   *)
(* else, in which case waiting for it fails.                               *)
(***************************************************************************)
EXTENDS Naturals

CONSTANTS Swappers,   \* processes; each one also names its release
          First,      \* the release that is current at first, or NoLink
          NoLink,
          Hooks,      \* hooks of a phase, of the slot and of the system
          MaxCalls    \* bound: calls of each process

ASSUME SwapAssumption == /\ NoLink \notin Swappers
                         /\ Hooks \in Nat /\ MaxCalls \in Nat

VARIABLES link,       \* what symlink_current points to
          tmp,        \* the temporary link of each process
          call, calls,
          child,      \* the hook each process waits for
          gated,      \* the releases whose pre-swap hooks all passed
          found, alone \* the link as a call found it; no other call since

swapVars == <<link, tmp, call, calls, child, gated, found, alone>>

Releases == Swappers \union {First}
NoSwap == [pc |-> "idle", phase |-> "none", left |-> 0, prev |-> NoLink, result |-> "none",
           failed |-> FALSE]

SwapInit == /\ link = First
            /\ tmp = [p \in Swappers |-> NoLink]
            /\ call = [p \in Swappers |-> NoSwap]
            /\ calls = [p \in Swappers |-> 0]
            /\ child = [p \in Swappers |-> "none"]
            /\ gated = {First}
            /\ found = [p \in Swappers |-> NoLink]
            /\ alone = [p \in Swappers |-> TRUE]

\* Mutant: a failing pre-swap hook is only reported.
MutNeverAborts(phase) == FALSE

\* alrios_hook_phase_aborts_on_fail, hook_stage_aborts_on_fail: the drain and
\* build stages are like the swap stages.
AbortsOnFail(phase) == phase \in {"pre", "stage_pre"}

(***************************************************************************)
(* The calls                                                               *)
(***************************************************************************)
Busy(p) == call[p].pc \notin {"idle", "done"}

Start(p, phase) ==
  /\ call[p].pc \in {"idle", "done"} /\ calls[p] < MaxCalls
  /\ calls' = [calls EXCEPT ![p] = @ + 1]
  /\ call' = [call EXCEPT ![p] = [pc |-> "hooks", phase |-> phase, left |-> Hooks,
                                  prev |-> link, result |-> "none", failed |-> FALSE]]
  /\ found' = [found EXCEPT ![p] = link]
  /\ alone' = [q \in Swappers |-> q = p /\ \A r \in Swappers \ {p} : ~ Busy(r)]
  /\ UNCHANGED <<link, tmp, child, gated>>

\* alrios_lifecycle_atomic_swap reads the old target and runs the pre-swap
\* hooks; alrios_hook_execute runs the hooks of one stage.
SwapCall(p) == Start(p, "pre")
ExecuteCall(p) == \E phase \in {"stage_pre", "stage_post"} : Start(p, phase)

Finish(p, result) == call' = [call EXCEPT ![p].pc = "done", ![p].result = result]

(***************************************************************************)
(* One hook: alrios_hook_run_single, execute_single_hook                   *)
(***************************************************************************)
\* What a hook that did not succeed does to its phase: abort it, or go on.
HookFailed(p, error) ==
  call' = [call EXCEPT ![p] =
    IF AbortsOnFail(call[p].phase)
    THEN [call[p] EXCEPT !.pc = "done", !.result = error, !.failed = TRUE]
    ELSE [call[p] EXCEPT !.pc = "hooks", !.left = @ - 1, !.failed = TRUE]]
HookPassed(p) == call' = [call EXCEPT ![p].pc = "hooks", ![p].left = @ - 1]

Spawn(p) ==
  /\ call[p].pc = "hooks" /\ call[p].left > 0
  /\ \/ /\ child' = [child EXCEPT ![p] = "running"]
        /\ call' = [call EXCEPT ![p].pc = "wait"]
     \/ HookFailed(p, "abort") /\ UNCHANGED child
  /\ UNCHANGED <<link, tmp, calls, gated, found, alone>>

\* The hook ends by itself, with or without success, or is reaped elsewhere.
ChildEnds(p) == /\ child[p] = "running"
                /\ \E how \in {"zero", "nonzero", "lost"} : child' = [child EXCEPT ![p] = how]
                /\ UNCHANGED <<link, tmp, call, calls, gated, found, alone>>

\* A wait that fails leaves the loop as if the hook had succeeded.
Reap(p) == /\ call[p].pc = "wait" /\ child[p] \in {"zero", "nonzero", "lost"}
           /\ IF child[p] = "nonzero" THEN HookFailed(p, "abort") ELSE HookPassed(p)
           /\ child' = [child EXCEPT ![p] = "none"]
           /\ UNCHANGED <<link, tmp, calls, gated, found, alone>>

\* The deadline: SIGTERM first for the phases of a swap, SIGKILL at once for
\* alrios_hook_execute.
Deadline(p) == /\ call[p].pc = "wait" /\ child[p] = "running"
               /\ call' = [call EXCEPT ![p].pc =
                             IF call[p].phase \in {"pre", "post"} THEN "term" ELSE "kill"]
               /\ UNCHANGED <<link, tmp, calls, child, gated, found, alone>>

\* alrios_hook_execute fails on a timeout whatever the stage.
TimedOut(p) == IF call[p].phase = "stage_post" THEN Finish(p, "timeout")
               ELSE HookFailed(p, "timeout")

Terminated(p) == /\ call[p].pc = "term" /\ child[p] /= "running"
                 /\ child' = [child EXCEPT ![p] = "none"]
                 /\ TimedOut(p)
                 /\ UNCHANGED <<link, tmp, calls, gated, found, alone>>

Reaped(p) == [child EXCEPT ![p] = "none"]

Kill(p) == /\ call[p].pc \in {"term", "kill"}
           /\ child' = Reaped(p)
           /\ TimedOut(p)
           /\ UNCHANGED <<link, tmp, calls, gated, found, alone>>

(***************************************************************************)
(* The link: alrios_atomic_symlink_swap                                    *)
(***************************************************************************)
HooksDone(p) == call[p].pc = "hooks" /\ call[p].left = 0

PhaseEnds(p) ==
  /\ HooksDone(p)
  /\ IF call[p].phase = "pre" THEN call' = [call EXCEPT ![p].pc = "unlink"]
                              ELSE Finish(p, "ok")
  /\ gated' = IF call[p].phase = "pre" /\ ~ call[p].failed THEN gated \union {p} ELSE gated
  /\ UNCHANGED <<link, tmp, calls, child, found, alone>>

\* Unlink what an interrupted call left, then create the new link.
MakeLink(p) ==
  /\ call[p].pc = "unlink"
  /\ \/ /\ tmp' = [tmp EXCEPT ![p] = p]
        /\ call' = [call EXCEPT ![p].pc = "rename"]
     \/ /\ tmp' = [tmp EXCEPT ![p] = NoLink]
        /\ call' = [call EXCEPT ![p].pc = "restore"]
  /\ UNCHANGED <<link, calls, child, gated, found, alone>>

RenameLink(p) ==
  /\ call[p].pc = "rename"
  /\ tmp' = [tmp EXCEPT ![p] = NoLink]
  /\ \/ link' = tmp[p] /\ call' = [call EXCEPT ![p].pc = "signal"]
     \/ UNCHANGED link /\ call' = [call EXCEPT ![p].pc = "restore"]
  /\ UNCHANGED <<calls, child, gated, found, alone>>

\* SIGHUP for the master; a master that is gone fails the swap.
Notify(p) ==
  /\ call[p].pc = "signal"
  /\ \/ call' = [call EXCEPT ![p].pc = "hooks", ![p].phase = "post", ![p].left = Hooks]
     \/ call' = [call EXCEPT ![p].pc = "restore"]
  /\ UNCHANGED <<link, tmp, calls, child, gated, found, alone>>

\* The second swap, to the target that was read at the start, may fail too.
Restored(p) == IF call[p].prev = NoLink THEN link ELSE call[p].prev

Restore(p) == /\ call[p].pc = "restore"
              /\ link' = Restored(p)
              /\ Finish(p, "swap")
              /\ UNCHANGED <<tmp, calls, child, gated, found, alone>>

RestoreFails(p) == /\ call[p].pc = "restore" /\ call[p].prev /= NoLink
                   /\ Finish(p, "not_restored")
                   /\ UNCHANGED <<link, tmp, calls, child, gated, found, alone>>

SwapStep(p) == \/ SwapCall(p) \/ ExecuteCall(p) \/ Spawn(p) \/ Reap(p) \/ Deadline(p)
               \/ Terminated(p) \/ Kill(p) \/ PhaseEnds(p) \/ MakeLink(p) \/ RenameLink(p)
               \/ Notify(p) \/ Restore(p) \/ RestoreFails(p)

SwapNext == \E p \in Swappers : SwapStep(p) \/ ChildEnds(p)

SwapSpec == SwapInit /\ [][SwapNext]_swapVars

(***************************************************************************)
(* Properties                                                              *)
(***************************************************************************)
SwapTypeOK == /\ link \in Releases \union {NoLink}
              /\ \A p \in Swappers :
                   /\ tmp[p] \in {p, NoLink} /\ child[p] \in {"none", "running", "zero", "nonzero", "lost"}
                   /\ call[p].left \in 0 .. Hooks /\ call[p].prev \in Releases \union {NoLink}

\* Whatever is current has passed its gate: the first release, or one whose
\* pre-swap hooks all ended, in some call, without a failure that was seen;
\* restoring after a failed swap brings back no other,
\* though it uses a target read before another process swapped.  And a link
\* that exists never disappears.
CurrentIsGated == /\ link \in gated \union {NoLink}
                  /\ First /= NoLink => link /= NoLink

\* A swap that reports failure leaves current what it found current, if
\* there was one and no other call ran at the same time (-3 from the rename
\* and -4 from the signal alike).
FailedSwapRestores ==
  \A p \in Swappers :
    call[p].pc = "done" /\ call[p].result \in {"abort", "timeout", "swap"} /\ alone[p]
      /\ found[p] /= NoLink
      => link = found[p]

\* When a call has returned, no hook of it is still running or waits to be
\* reaped, whichever deadline passed and whether the hook obeyed SIGTERM.
NoHookLeft == \A p \in Swappers : call[p].pc \in {"idle", "done"} => child[p] = "none"

\* What is current is whole and passed its gates, a failed swap leaves what
\* was there, and no hook outlives the call that started it
\* (alrios_lifecycle_atomic_swap, alrios_hook_execute).
SwapIsAllOrNothing == SwapTypeOK /\ CurrentIsGated /\ FailedSwapRestores /\ NoHookLeft
==============================================================================
