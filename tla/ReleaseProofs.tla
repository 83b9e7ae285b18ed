---------------------------- MODULE ReleaseProofs ----------------------------
(***************************************************************************)
(* Proofs about what a node does with releases: the swap of the current    *)
(* link between its hooks, the layered install, and the security epoch     *)
(* that outdated releases are refused by.  The three share no state; each  *)
(* has its own specification, inductive invariant and theorems.            *)
(***************************************************************************)
EXTENDS ReleaseSwap, Layering, SecurityEpoch, WellFoundedInduction, TLAPS

(***************************************************************************)
(* Swaps: the link, the gates and the hooks                                *)
(***************************************************************************)
SwapPlaces == {"idle", "hooks", "wait", "term", "kill", "unlink", "rename", "signal", "restore",
               "done"}
Phases == {"none", "pre", "post", "stage_pre", "stage_post"}
Links == Releases \union {NoLink}
Results == {"none", "ok", "abort", "timeout", "swap", "not_restored"}
Calls == [pc : SwapPlaces, phase : Phases, left : 0..Hooks, prev : Links, result : Results,
          failed : BOOLEAN]

\* The types, in the form the proofs use.
SwapTypes ==
  /\ link \in Links
  /\ tmp \in [Swappers -> Swappers \union {NoLink}]
  /\ call \in [Swappers -> Calls]
  /\ calls \in [Swappers -> Nat]
  /\ child \in [Swappers -> {"none", "running", "zero", "nonzero", "lost"}]
  /\ gated \subseteq Links
  /\ found \in [Swappers -> Links]
  /\ alone \in [Swappers -> BOOLEAN]

Waiting == {"wait", "term", "kill"}

\* The hooks of a call: a child only while it is waited for, which leaves one
\* hook to count; and no hook of the phase before the swap has failed yet.
HookInv(p) ==
  /\ child[p] /= "none" => call[p].pc \in Waiting
  /\ call[p].pc \in Waiting => call[p].left > 0
  /\ call[p].pc \in Waiting \union {"hooks"} /\ call[p].phase = "pre" => call[p].failed = FALSE

\* The link of a call: made by a call that passed its gate, with a way back
\* that passed one too.
LinkInv(p) ==
  /\ tmp[p] \in {p, NoLink}
  /\ call[p].pc \in {"unlink", "rename", "signal", "restore"} => p \in gated
  /\ call[p].pc = "rename" => tmp[p] = p
  /\ call[p].prev \in gated \union {NoLink}
  /\ call[p].pc /= "idle" => call[p].prev = found[p]

\* The call has not replaced the link, or was not able to.
Unswapped(p) ==
  \/ call[p].pc \in Waiting \union {"hooks"} /\ call[p].phase /= "post"
  \/ call[p].pc \in {"unlink", "rename"}
  \/ call[p].pc = "done" /\ call[p].result \in {"abort", "timeout"}

\* While no other call runs, the link is as this one found it and left it.
AloneInv(p) ==
  alone[p] =>
    /\ \A q \in Swappers : q /= p => ~ Busy(q)
    /\ Unswapped(p) => link = found[p]
    /\ call[p].pc = "done" /\ call[p].result = "swap" /\ found[p] /= NoLink => link = found[p]

SwapInv ==
  /\ SwapTypes
  /\ CurrentIsGated
  /\ \A p \in Swappers : HookInv(p) /\ LinkInv(p) /\ AloneInv(p)

-----------------------------------------------------------------------------
\* Nothing is current at first but the first release.
LEMMA SwapInitially == SwapInit => SwapInv
  BY SwapAssumption DEF SwapInit, SwapInv, SwapTypes, CurrentIsGated, HookInv, LinkInv, AloneInv,
     Unswapped,
     Busy, NoSwap, Calls, Results, SwapPlaces, Phases, Links, Releases, Waiting

\* What a step of one call leaves of another: it was not alone, or the step
\* begins no call, and replaces the link only in a call that was running.
LEMMA OthersKept ==
  ASSUME SwapInv, NEW p \in Swappers, NEW q \in Swappers, q /= p,
         \A r \in Swappers : r /= p => /\ call'[r] = call[r] /\ child'[r] = child[r]
                                      /\ tmp'[r] = tmp[r] /\ found'[r] = found[r],
         gated \subseteq gated',
         \/ alone'[q] = FALSE
         \/ /\ alone'[q] = alone[q] /\ (Busy(p)' => Busy(p))
            /\ link' = link \/ Busy(p)
  PROVE  HookInv(q)' /\ LinkInv(q)' /\ AloneInv(q)'
<1>1. /\ call'[q] = call[q] /\ child'[q] = child[q] /\ tmp'[q] = tmp[q] /\ found'[q] = found[q]
      /\ HookInv(q) /\ LinkInv(q) /\ AloneInv(q)
  BY DEF SwapInv
<1>2. HookInv(q)' /\ LinkInv(q)'
  BY <1>1 DEF HookInv, LinkInv
<1>3. CASE alone'[q] = FALSE
  BY <1>2, <1>3 DEF AloneInv
<1>4. CASE /\ alone'[q] = alone[q] /\ (Busy(p)' => Busy(p))
           /\ link' = link \/ Busy(p)
  <2>1. SUFFICES ASSUME alone[q] PROVE AloneInv(q)'
    BY <1>2, <1>4, <2>1 DEF AloneInv
  <2>2. ~ Busy(p) /\ \A r \in Swappers : r /= q => ~ Busy(r)
    BY <1>1, <2>1 DEF AloneInv
  <2>3. link' = link /\ \A r \in Swappers : r /= q => ~ Busy(r)'
    BY <1>4, <2>2 DEF Busy
  <2> QED
    BY <1>1, <2>1, <2>3 DEF AloneInv, Unswapped
<1> QED
  BY <1>3, <1>4

ChildStates == {"none", "running", "zero", "nonzero", "lost"}

\* A step inside the call of p that leaves the other calls alone.
Inside(p) ==
  /\ Busy(p) /\ UNCHANGED <<calls, found, alone>>
  /\ call' \in [Swappers -> Calls] /\ call'[p].prev = call[p].prev /\ call'[p].pc /= "idle"
  /\ child' \in [Swappers -> ChildStates] /\ tmp' \in [Swappers -> Swappers \union {NoLink}]
  /\ \A r \in Swappers : r /= p => /\ call'[r] = call[r] /\ child'[r] = child[r]
                                   /\ tmp'[r] = tmp[r]

\* Such a step keeps the invariant if it keeps what is said of the hooks and
\* the temporary link of this call, and of the link while the call is alone.
LEMMA CallStep ==
  ASSUME SwapInv, NEW p \in Swappers, Inside(p),
         link' \in Links, gated' \subseteq Links, gated \subseteq gated', CurrentIsGated',
         HookInv(p)', tmp'[p] \in {p, NoLink},
         call'[p].pc \in {"unlink", "rename", "signal", "restore"} => p \in gated',
         call'[p].pc = "rename" => tmp'[p] = p,
         alone[p] => /\ Unswapped(p)' => link' = found[p]
                     /\ call'[p].pc = "done" /\ call'[p].result = "swap" /\ found[p] /= NoLink
                          => link' = found[p]
  PROVE  SwapInv'
<1>1. SwapTypes /\ HookInv(p) /\ LinkInv(p) /\ AloneInv(p)
  BY DEF SwapInv
<1>2. SwapTypes'
  BY <1>1 DEF SwapTypes, Inside, ChildStates
<1>3. LinkInv(p)'
  BY <1>1 DEF LinkInv, Inside, Busy
<1>4. AloneInv(p)'
  BY <1>1 DEF AloneInv, Inside, Busy
<1>5. ASSUME NEW q \in Swappers, q /= p PROVE HookInv(q)' /\ LinkInv(q)' /\ AloneInv(q)'
  BY <1>5, OthersKept DEF Inside
<1> QED
  BY <1>2, <1>3, <1>4, <1>5 DEF SwapInv

\* The fields of the call that takes a step, and the state around it.
LEMMA CallFields ==
  ASSUME SwapInv, NEW p \in Swappers
  PROVE  /\ call[p] \in Calls /\ call \in [Swappers -> Calls]
         /\ child[p] \in ChildStates /\ tmp[p] \in {p, NoLink}
         /\ child \in [Swappers -> ChildStates] /\ tmp \in [Swappers -> Swappers \union {NoLink}]
         /\ link \in Links /\ gated \subseteq Links /\ CurrentIsGated
         /\ HookInv(p) /\ LinkInv(p) /\ AloneInv(p)
  BY DEF SwapInv, SwapTypes, LinkInv, ChildStates

\* The record of the call is replaced by one that keeps the way back.
LEMMA Replaced ==
  ASSUME SwapInv, NEW p \in Swappers, Busy(p), NEW n \in Calls, call' = [call EXCEPT ![p] = n],
         n.prev = call[p].prev, n.pc /= "idle", UNCHANGED <<calls, found, alone>>,
         NEW c \in ChildStates, child' = [child EXCEPT ![p] = c],
         NEW t \in {p, NoLink}, tmp' = [tmp EXCEPT ![p] = t]
  PROVE  Inside(p) /\ call'[p] = n /\ child'[p] = c /\ tmp'[p] = t
  BY CallFields DEF Inside

\* Beginning a call: the link is as it finds it, and all other calls are told.
LEMMA StartInv ==
  ASSUME SwapInv, NEW p \in Swappers, NEW phase \in {"pre", "stage_pre", "stage_post"},
         Start(p, phase)
  PROVE  SwapInv'
<1>1. SwapTypes'
  BY SwapAssumption DEF SwapInv, SwapTypes, Start, Calls, Results, SwapPlaces, Phases
<1>2. CurrentIsGated'
  BY DEF SwapInv, CurrentIsGated, Start
<1>3. /\ call'[p].pc = "hooks" /\ call'[p].phase = phase /\ call'[p].failed = FALSE
      /\ call'[p].prev = link /\ found'[p] = link /\ link' = link /\ gated' = gated
      /\ child'[p] = child[p] /\ tmp'[p] = tmp[p]
  BY DEF Start, SwapInv, SwapTypes
<1>4. HookInv(p)' /\ LinkInv(p)'
  BY <1>3 DEF SwapInv, HookInv, LinkInv, CurrentIsGated, Start, Waiting
<1>5. AloneInv(p)'
  BY <1>3 DEF AloneInv, Start, Busy, SwapInv, SwapTypes
<1>6. ASSUME NEW q \in Swappers, q /= p PROVE HookInv(q)' /\ LinkInv(q)' /\ AloneInv(q)'
  BY <1>6, OthersKept DEF Start, SwapInv, SwapTypes
<1> QED
  BY <1>1, <1>2, <1>4, <1>5, <1>6 DEF SwapInv

\* A failed hook keeps the invariant, in whatever way its process ended.
LEMMA FailedInv ==
  ASSUME SwapInv, NEW p \in Swappers, NEW error \in {"abort", "timeout"}, HookFailed(p, error),
         call[p].pc \in Waiting \union {"hooks"}, call[p].left > 0,
         child' = [child EXCEPT ![p] = "none"], UNCHANGED <<link, tmp, calls, gated, found, alone>>
  PROVE  SwapInv'
<1>1. PICK r \in Calls : r = call[p]
  BY CallFields
<1>2. PICK n \in Calls :
        /\ call' = [call EXCEPT ![p] = n] /\ n.prev = r.prev /\ n.phase = r.phase
        /\ \/ AbortsOnFail(r.phase) /\ n.pc = "done" /\ n.result = error
           \/ ~ AbortsOnFail(r.phase) /\ n.pc = "hooks"
  <2>1. CASE AbortsOnFail(r.phase)
    <3> DEFINE m == [r EXCEPT !.pc = "done", !.result = error, !.failed = TRUE]
    <3>1. m \in Calls /\ m.prev = r.prev /\ m.phase = r.phase /\ m.pc = "done" /\ m.result = error
      BY DEF Calls, SwapPlaces, Results
    <3>2. call' = [call EXCEPT ![p] = m]
      BY <1>1, <2>1 DEF HookFailed
    <3> QED
      BY <2>1, <3>1, <3>2
  <2>2. CASE ~ AbortsOnFail(r.phase)
    <3> DEFINE m == [r EXCEPT !.pc = "hooks", !.left = @ - 1, !.failed = TRUE]
    <3>0. r.left \in Nat /\ r.left - 1 \in 0..Hooks
      <4>1. r.left \in 0..Hooks
        BY DEF Calls
      <4> QED
        BY <1>1, <4>1, SwapAssumption
    <3>1. m \in Calls /\ m.prev = r.prev /\ m.phase = r.phase /\ m.pc = "hooks"
      BY <3>0 DEF Calls, SwapPlaces
    <3>2. call' = [call EXCEPT ![p] = m]
      BY <1>1, <2>2 DEF HookFailed
    <3> QED
      BY <2>2, <3>1, <3>2
  <2> QED
    BY <2>1, <2>2
<1>3. Busy(p) /\ tmp' = [tmp EXCEPT ![p] = tmp[p]]
  BY CallFields DEF Busy, Waiting
<1>4. Inside(p) /\ call'[p] = n /\ child'[p] = "none" /\ tmp'[p] = tmp[p]
  BY <1>1, <1>2, <1>3, CallFields, Replaced DEF ChildStates
<1>5. HookInv(p)'
  BY <1>2, <1>4 DEF HookInv, AbortsOnFail, Waiting
<1>6. alone[p] => /\ Unswapped(p)' => link' = found[p]
                  /\ call'[p].pc = "done" /\ call'[p].result = "swap" /\ found[p] /= NoLink
                       => link' = found[p]
  BY <1>1, <1>2, <1>4, CallFields DEF AloneInv, Unswapped, AbortsOnFail, Waiting
<1> QED
  BY <1>2, <1>4, <1>5, <1>6, CallFields, CallStep DEF CurrentIsGated

\* A hook is started, ...
LEMMA SpawnedInv ==
  ASSUME SwapInv, NEW p \in Swappers, Spawn(p), child' = [child EXCEPT ![p] = "running"],
         call' = [call EXCEPT ![p].pc = "wait"]
  PROVE  SwapInv'
<1>1. PICK r \in Calls : r = call[p]
  BY CallFields
<1>2. call[p].pc = "hooks" /\ call[p].left > 0 /\ UNCHANGED <<link, tmp, calls, gated, found, alone>>
  BY DEF Spawn
<1>3. PICK n \in Calls :
        /\ call' = [call EXCEPT ![p] = n] /\ n.prev = r.prev
        /\ n.pc = "wait" /\ n.phase = r.phase /\ n.left = r.left /\ n.failed = r.failed
  <2> DEFINE m == [r EXCEPT !.pc = "wait"]
  <2>1. /\ m \in Calls /\ m.prev = r.prev /\ m.pc = "wait" /\ m.phase = r.phase
        /\ m.left = r.left /\ m.failed = r.failed
    BY <1>2, SwapAssumption DEF Calls, SwapPlaces
  <2>2. call' = [call EXCEPT ![p] = m]
    BY <1>1, <1>2
  <2> QED
    BY <2>1, <2>2
<1>4. Inside(p) /\ call'[p] = n /\ child'[p] = "running" /\ tmp'[p] = tmp[p]
  <2>1. child' = [child EXCEPT ![p] = "running"] /\ tmp' = [tmp EXCEPT ![p] = tmp[p]]
    BY <1>2, CallFields
  <2>2. Busy(p) /\ n.pc /= "idle" /\ n.prev = call[p].prev
    BY <1>1, <1>2, <1>3 DEF Busy
  <2> QED
    BY <1>2, <1>3, <2>1, <2>2, CallFields, Replaced DEF ChildStates
<1>5. HookInv(p)'
  BY <1>1, <1>2, <1>3, <1>4, CallFields DEF HookInv, Waiting
<1>6. alone[p] => /\ Unswapped(p)' => link' = found[p]
                  /\ call'[p].pc = "done" /\ call'[p].result = "swap" /\ found[p] /= NoLink
                       => link' = found[p]
  BY <1>1, <1>2, <1>3, <1>4, CallFields DEF AloneInv, Unswapped, Waiting
<1> QED
  BY <1>1, <1>2, <1>3, <1>4, <1>5, <1>6, CallFields, CallStep DEF CurrentIsGated

\* ... or cannot be.
LEMMA SpawnInv == ASSUME SwapInv, NEW p \in Swappers, Spawn(p) PROVE SwapInv'
<1>1. CASE HookFailed(p, "abort") /\ UNCHANGED child
  <2>1. child[p] = "none"
    BY CallFields DEF Spawn, HookInv, Waiting
  <2>2. child' = [child EXCEPT ![p] = "none"]
    BY <1>1, <2>1, CallFields
  <2> QED
    BY <1>1, <2>2, FailedInv DEF Spawn
<1> QED
  BY <1>1, SpawnedInv DEF Spawn

\* The hook that was waited for has ended well, ...
LEMMA PassedInv ==
  ASSUME SwapInv, NEW p \in Swappers, call[p].pc = "wait", HookPassed(p),
         child' = [child EXCEPT ![p] = "none"], UNCHANGED <<link, tmp, calls, gated, found, alone>>
  PROVE  SwapInv'
<1>1. PICK r \in Calls : r = call[p]
  BY CallFields
<1>2. r.pc = "wait" /\ r.left > 0
  BY <1>1, CallFields DEF HookInv, Waiting
<1>3. PICK n \in Calls :
        /\ call' = [call EXCEPT ![p] = n] /\ n.prev = r.prev
        /\ n.pc = "hooks" /\ n.phase = r.phase /\ n.failed = r.failed
  <2> DEFINE m == [r EXCEPT !.pc = "hooks", !.left = @ - 1]
  <2>0. r.left \in Nat /\ r.left - 1 \in 0..Hooks
    <3>1. r.left \in 0..Hooks
      BY DEF Calls
    <3> QED
      BY <1>2, <3>1, SwapAssumption
  <2>1. m \in Calls /\ m.prev = r.prev /\ m.pc = "hooks" /\ m.phase = r.phase /\ m.failed = r.failed
    BY <1>2, <2>0, SwapAssumption DEF Calls, SwapPlaces
  <2>2. call' = [call EXCEPT ![p] = m]
    BY <1>1, <1>2 DEF HookPassed
  <2> QED
    BY <2>1, <2>2
<1>4. Inside(p) /\ call'[p] = n /\ child'[p] = "none" /\ tmp'[p] = tmp[p]
  <2>1. child' = [child EXCEPT ![p] = "none"] /\ tmp' = [tmp EXCEPT ![p] = tmp[p]]
    BY <1>2, CallFields
  <2>2. Busy(p) /\ n.pc /= "idle" /\ n.prev = call[p].prev
    BY <1>1, <1>2, <1>3 DEF Busy
  <2> QED
    BY <1>2, <1>3, <2>1, <2>2, CallFields, Replaced DEF ChildStates
<1>5. HookInv(p)'
  BY <1>1, <1>2, <1>3, <1>4, CallFields DEF HookInv, Waiting
<1>6. alone[p] => /\ Unswapped(p)' => link' = found[p]
                  /\ call'[p].pc = "done" /\ call'[p].result = "swap" /\ found[p] /= NoLink
                       => link' = found[p]
  BY <1>1, <1>2, <1>3, <1>4, CallFields DEF AloneInv, Unswapped, Waiting
<1> QED
  BY <1>1, <1>2, <1>3, <1>4, <1>5, <1>6, CallFields, CallStep DEF CurrentIsGated

\* ... or not.
LEMMA ReapInv == ASSUME SwapInv, NEW p \in Swappers, Reap(p) PROVE SwapInv'
<1>1. /\ call[p].pc = "wait" /\ call[p].left > 0 /\ child' = [child EXCEPT ![p] = "none"]
      /\ UNCHANGED <<link, tmp, calls, gated, found, alone>>
      /\ HookFailed(p, "abort") \/ HookPassed(p)
  BY CallFields DEF Reap, HookInv, Waiting
<1> QED
  BY <1>1, FailedInv, PassedInv DEF Waiting

\* The deadline of a hook passes.
LEMMA DeadlineInv == ASSUME SwapInv, NEW p \in Swappers, Deadline(p) PROVE SwapInv'
<1>1. PICK r \in Calls : r = call[p]
  BY CallFields
<1>2. PICK w \in {"term", "kill"} :
        /\ call' = [call EXCEPT ![p].pc = w] /\ call[p].pc = "wait" /\ call[p].left > 0
        /\ UNCHANGED <<link, tmp, calls, child, gated, found, alone>>
  BY CallFields DEF Deadline, HookInv, Waiting
<1>3. PICK n \in Calls :
        /\ call' = [call EXCEPT ![p] = n] /\ n.prev = r.prev
        /\ n.pc = w /\ n.phase = r.phase /\ n.left = r.left /\ n.failed = r.failed
  <2> DEFINE m == [r EXCEPT !.pc = w]
  <2>1. /\ m \in Calls /\ m.prev = r.prev /\ m.pc = w /\ m.phase = r.phase
        /\ m.left = r.left /\ m.failed = r.failed
    BY <1>2, SwapAssumption DEF Calls, SwapPlaces
  <2>2. call' = [call EXCEPT ![p] = m]
    BY <1>1, <1>2
  <2> QED
    BY <2>1, <2>2
<1>4. Inside(p) /\ call'[p] = n /\ child'[p] = child[p] /\ tmp'[p] = tmp[p]
  <2>1. child' = [child EXCEPT ![p] = child[p]] /\ tmp' = [tmp EXCEPT ![p] = tmp[p]]
    BY <1>2, CallFields
  <2>2. Busy(p) /\ n.pc /= "idle" /\ n.prev = call[p].prev
    BY <1>1, <1>2, <1>3 DEF Busy
  <2> QED
    BY <1>2, <1>3, <2>1, <2>2, CallFields, Replaced DEF ChildStates
<1>5. HookInv(p)'
  BY <1>1, <1>2, <1>3, <1>4, CallFields DEF HookInv, Waiting
<1>6. alone[p] => /\ Unswapped(p)' => link' = found[p]
                  /\ call'[p].pc = "done" /\ call'[p].result = "swap" /\ found[p] /= NoLink
                       => link' = found[p]
  BY <1>1, <1>2, <1>3, <1>4, CallFields DEF AloneInv, Unswapped, Waiting
<1> QED
  BY <1>1, <1>2, <1>3, <1>4, <1>5, <1>6, CallFields, CallStep DEF CurrentIsGated

\* The hook of a stage that goes on whatever fails has run out of time.
LEMMA StageTimedOutInv ==
  ASSUME SwapInv, NEW p \in Swappers, call[p].pc \in {"term", "kill"}, call[p].phase = "stage_post",
         Finish(p, "timeout"),
         child' = [child EXCEPT ![p] = "none"], UNCHANGED <<link, tmp, calls, gated, found, alone>>
  PROVE  SwapInv'
<1>1. PICK r \in Calls : r = call[p]
  BY CallFields
<1>2. r.pc \in {"term", "kill"} /\ r.phase = "stage_post"
  BY <1>1
<1>3. PICK n \in Calls :
        /\ call' = [call EXCEPT ![p] = n] /\ n.prev = r.prev
        /\ n.pc = "done" /\ n.phase = r.phase /\ n.result = "timeout"
  <2> DEFINE m == [r EXCEPT !.pc = "done", !.result = "timeout"]
  <2>1. m \in Calls /\ m.prev = r.prev /\ m.pc = "done" /\ m.phase = r.phase /\ m.result = "timeout"
    BY <1>2, SwapAssumption DEF Calls, SwapPlaces, Results
  <2>2. call' = [call EXCEPT ![p] = m]
    BY <1>1, <1>2 DEF Finish
  <2> QED
    BY <2>1, <2>2
<1>4. Inside(p) /\ call'[p] = n /\ child'[p] = "none" /\ tmp'[p] = tmp[p]
  <2>1. child' = [child EXCEPT ![p] = "none"] /\ tmp' = [tmp EXCEPT ![p] = tmp[p]]
    BY <1>2, CallFields
  <2>2. Busy(p) /\ n.pc /= "idle" /\ n.prev = call[p].prev
    BY <1>1, <1>2, <1>3 DEF Busy
  <2> QED
    BY <1>2, <1>3, <2>1, <2>2, CallFields, Replaced, ZenonT(40) DEF ChildStates
<1>5. HookInv(p)'
  BY <1>1, <1>2, <1>3, <1>4, CallFields DEF HookInv, Waiting
<1>6. alone[p] => /\ Unswapped(p)' => link' = found[p]
                  /\ call'[p].pc = "done" /\ call'[p].result = "swap" /\ found[p] /= NoLink
                       => link' = found[p]
  BY <1>1, <1>2, <1>3, <1>4, CallFields DEF AloneInv, Unswapped, Waiting
<1> QED
  BY <1>1, <1>2, <1>3, <1>4, <1>5, <1>6, CallFields, CallStep DEF CurrentIsGated

\* The hook that passed its deadline is gone, by itself or killed.
LEMMA TimedOutInv == ASSUME SwapInv, NEW p \in Swappers, Terminated(p) \/ Kill(p) PROVE SwapInv'
<1>1. /\ call[p].pc \in {"term", "kill"} /\ call[p].left > 0 /\ TimedOut(p)
      /\ child' = [child EXCEPT ![p] = "none"] /\ UNCHANGED <<link, tmp, calls, gated, found, alone>>
  BY CallFields DEF Terminated, Kill, Reaped, HookInv, Waiting
<1> QED
  BY <1>1, FailedInv, StageTimedOutInv DEF TimedOut, Waiting

\* The gate of a swap is passed.
LEMMA GatePassedInv ==
  ASSUME SwapInv, NEW p \in Swappers, PhaseEnds(p), call[p].phase = "pre"
  PROVE  SwapInv'
<1>1. PICK r \in Calls : r = call[p]
  BY CallFields
<1>2. /\ call[p].pc = "hooks" /\ call' = [call EXCEPT ![p].pc = "unlink"]
      /\ UNCHANGED <<link, tmp, calls, child, found, alone>>
      /\ gated' = gated \union {p} /\ child[p] = "none" /\ gated' \subseteq Links
  BY CallFields DEF PhaseEnds, HooksDone, HookInv, Waiting, Links, Releases
<1>3. PICK n \in Calls :
        /\ call' = [call EXCEPT ![p] = n] /\ n.prev = r.prev
        /\ n.pc = "unlink" /\ n.phase = r.phase
  <2> DEFINE m == [r EXCEPT !.pc = "unlink"]
  <2>1. m \in Calls /\ m.prev = r.prev /\ m.pc = "unlink" /\ m.phase = r.phase
    BY <1>2, SwapAssumption DEF Calls, SwapPlaces
  <2>2. call' = [call EXCEPT ![p] = m]
    BY <1>1, <1>2
  <2> QED
    BY <2>1, <2>2
<1>4. Inside(p) /\ call'[p] = n /\ child'[p] = child[p] /\ tmp'[p] = tmp[p]
  <2>1. child' = [child EXCEPT ![p] = child[p]] /\ tmp' = [tmp EXCEPT ![p] = tmp[p]]
    BY <1>2, CallFields
  <2>2. Busy(p) /\ n.pc /= "idle" /\ n.prev = call[p].prev
    BY <1>1, <1>2, <1>3 DEF Busy
  <2> QED
    BY <1>2, <1>3, <2>1, <2>2, CallFields, Replaced DEF ChildStates
<1>5. HookInv(p)'
  BY <1>1, <1>2, <1>3, <1>4, CallFields DEF HookInv, Waiting
<1>6. alone[p] => /\ Unswapped(p)' => link' = found[p]
                  /\ call'[p].pc = "done" /\ call'[p].result = "swap" /\ found[p] /= NoLink
                       => link' = found[p]
  BY <1>1, <1>2, <1>3, <1>4, CallFields DEF AloneInv, Unswapped, Waiting
<1> QED
  BY <1>1, <1>2, <1>3, <1>4, <1>5, <1>6, CallFields, CallStep DEF CurrentIsGated

\* The hooks of a phase or of a stage are through.
LEMMA PhaseEndsInv == ASSUME SwapInv, NEW p \in Swappers, PhaseEnds(p) PROVE SwapInv'
<1>0. SUFFICES ASSUME call[p].phase /= "pre" PROVE SwapInv'
  BY GatePassedInv
<1>1. PICK r \in Calls : r = call[p]
  BY CallFields
<1>2. /\ call[p].pc = "hooks" /\ Finish(p, "ok") /\ child[p] = "none"
      /\ UNCHANGED <<link, tmp, calls, child, gated, found, alone>>
  BY <1>0, CallFields DEF PhaseEnds, HooksDone, HookInv, Waiting
<1>3. PICK n \in Calls :
        /\ call' = [call EXCEPT ![p] = n] /\ n.prev = r.prev
        /\ n.pc = "done" /\ n.result = "ok"
  <2> DEFINE m == [r EXCEPT !.pc = "done", !.result = "ok"]
  <2>1. m \in Calls /\ m.prev = r.prev /\ m.pc = "done" /\ m.result = "ok"
    BY <1>2, SwapAssumption DEF Calls, SwapPlaces, Results
  <2>2. call' = [call EXCEPT ![p] = m]
    BY <1>1, <1>2 DEF Finish
  <2> QED
    BY <2>1, <2>2
<1>4. Inside(p) /\ call'[p] = n /\ child'[p] = child[p] /\ tmp'[p] = tmp[p]
  <2>1. child' = [child EXCEPT ![p] = child[p]] /\ tmp' = [tmp EXCEPT ![p] = tmp[p]]
    BY <1>2, CallFields
  <2>2. Busy(p) /\ n.pc /= "idle" /\ n.prev = call[p].prev
    BY <1>1, <1>2, <1>3 DEF Busy
  <2> QED
    BY <1>2, <1>3, <2>1, <2>2, CallFields, Replaced DEF ChildStates
<1>5. HookInv(p)'
  BY <1>1, <1>2, <1>3, <1>4, CallFields DEF HookInv, Waiting
<1>6. alone[p] => /\ Unswapped(p)' => link' = found[p]
                  /\ call'[p].pc = "done" /\ call'[p].result = "swap" /\ found[p] /= NoLink
                       => link' = found[p]
  BY <1>1, <1>2, <1>3, <1>4, CallFields DEF AloneInv, Unswapped, Waiting
<1> QED
  BY <1>1, <1>2, <1>3, <1>4, <1>5, <1>6, CallFields, CallStep DEF CurrentIsGated

\* The temporary link is made, or cannot be.
LEMMA MakeLinkInv == ASSUME SwapInv, NEW p \in Swappers, MakeLink(p) PROVE SwapInv'
<1>1. PICK r \in Calls : r = call[p]
  BY CallFields
<1>2. PICK t \in {p, NoLink}, w \in {"rename", "restore"} :
        /\ call[p].pc = "unlink" /\ UNCHANGED <<link, calls, child, gated, found, alone>>
        /\ tmp' = [tmp EXCEPT ![p] = t] /\ call' = [call EXCEPT ![p].pc = w]
        /\ w = "rename" => t = p
        /\ child[p] = "none" /\ p \in gated
  BY CallFields DEF MakeLink, HookInv, LinkInv, Waiting
<1>3. PICK n \in Calls :
        /\ call' = [call EXCEPT ![p] = n] /\ n.prev = r.prev
        /\ n.pc = w
  <2> DEFINE m == [r EXCEPT !.pc = w]
  <2>1. m \in Calls /\ m.prev = r.prev /\ m.pc = w
    BY <1>2, SwapAssumption DEF Calls, SwapPlaces
  <2>2. call' = [call EXCEPT ![p] = m]
    BY <1>1, <1>2
  <2> QED
    BY <2>1, <2>2
<1>4. Inside(p) /\ call'[p] = n /\ child'[p] = child[p] /\ tmp'[p] = t
  <2>1. child' = [child EXCEPT ![p] = child[p]] /\ tmp' = [tmp EXCEPT ![p] = t]
    BY <1>2, CallFields
  <2>2. Busy(p) /\ n.pc /= "idle" /\ n.prev = call[p].prev
    BY <1>1, <1>2, <1>3 DEF Busy
  <2> QED
    BY <1>2, <1>3, <2>1, <2>2, CallFields, Replaced DEF ChildStates
<1>5. HookInv(p)'
  BY <1>1, <1>2, <1>3, <1>4, CallFields DEF HookInv, Waiting
<1>6. alone[p] => /\ Unswapped(p)' => link' = found[p]
                  /\ call'[p].pc = "done" /\ call'[p].result = "swap" /\ found[p] /= NoLink
                       => link' = found[p]
  BY <1>1, <1>2, <1>3, <1>4, CallFields DEF AloneInv, Unswapped, Waiting
<1> QED
  BY <1>1, <1>2, <1>3, <1>4, <1>5, <1>6, CallFields, CallStep DEF CurrentIsGated

\* The rename makes a gated release current, or nothing happens.
LEMMA RenameInv == ASSUME SwapInv, NEW p \in Swappers, RenameLink(p) PROVE SwapInv'
<1>1. PICK r \in Calls : r = call[p]
  BY CallFields
<1>2. PICK w \in {"signal", "restore"} :
        /\ call[p].pc = "rename" /\ UNCHANGED <<calls, child, gated, found, alone>>
        /\ tmp' = [tmp EXCEPT ![p] = NoLink] /\ call' = [call EXCEPT ![p].pc = w]
        /\ link' \in {p, link} /\ p /= NoLink
        /\ child[p] = "none" /\ p \in gated
  BY SwapAssumption, CallFields DEF RenameLink, HookInv, LinkInv, Waiting
<1>3. PICK n \in Calls :
        /\ call' = [call EXCEPT ![p] = n] /\ n.prev = r.prev
        /\ n.pc = w
  <2> DEFINE m == [r EXCEPT !.pc = w]
  <2>1. m \in Calls /\ m.prev = r.prev /\ m.pc = w
    BY <1>2, SwapAssumption DEF Calls, SwapPlaces
  <2>2. call' = [call EXCEPT ![p] = m]
    BY <1>1, <1>2
  <2> QED
    BY <2>1, <2>2
<1>4. Inside(p) /\ call'[p] = n /\ child'[p] = child[p] /\ tmp'[p] = NoLink
  <2>1. child' = [child EXCEPT ![p] = child[p]] /\ tmp' = [tmp EXCEPT ![p] = NoLink]
    BY <1>2, CallFields
  <2>2. Busy(p) /\ n.pc /= "idle" /\ n.prev = call[p].prev
    BY <1>1, <1>2, <1>3 DEF Busy
  <2> QED
    BY <1>2, <1>3, <2>1, <2>2, CallFields, Replaced DEF ChildStates
<1>5. HookInv(p)'
  BY <1>1, <1>2, <1>3, <1>4, CallFields DEF HookInv, Waiting
<1>6. alone[p] => /\ Unswapped(p)' => link' = found[p]
                  /\ call'[p].pc = "done" /\ call'[p].result = "swap" /\ found[p] /= NoLink
                       => link' = found[p]
  BY <1>1, <1>2, <1>3, <1>4, CallFields DEF AloneInv, Unswapped, Waiting
<1> QED
  BY <1>1, <1>2, <1>3, <1>4, <1>5, <1>6, CallFields, CallStep DEF CurrentIsGated, Links, Releases

\* The master is told, ...
LEMMA ToldInv ==
  ASSUME SwapInv, NEW p \in Swappers, Notify(p),
         call' = [call EXCEPT ![p].pc = "hooks", ![p].phase = "post", ![p].left = Hooks]
  PROVE  SwapInv'
<1>1. PICK r \in Calls : r = call[p]
  BY CallFields
<1>2. /\ call[p].pc = "signal" /\ UNCHANGED <<link, tmp, calls, child, gated, found, alone>>
      /\ child[p] = "none" /\ p \in gated
  BY CallFields DEF Notify, HookInv, LinkInv, Waiting
<1>3. PICK n \in Calls :
        /\ call' = [call EXCEPT ![p] = n] /\ n.prev = r.prev
        /\ n.pc = "hooks" /\ n.phase = "post"
  <2> DEFINE m == [r EXCEPT !.pc = "hooks", !.phase = "post", !.left = Hooks]
  <2>0. Hooks \in 0..Hooks
    BY SwapAssumption
  <2>1. m \in Calls /\ m.prev = r.prev /\ m.pc = "hooks" /\ m.phase = "post"
    BY <1>2, <2>0, SwapAssumption DEF Calls, SwapPlaces, Phases
  <2>2. call' = [call EXCEPT ![p] = m]
    BY <1>1, <1>2
  <2> QED
    BY <2>1, <2>2
<1>4. Inside(p) /\ call'[p] = n /\ child'[p] = child[p] /\ tmp'[p] = tmp[p]
  <2>1. child' = [child EXCEPT ![p] = child[p]] /\ tmp' = [tmp EXCEPT ![p] = tmp[p]]
    BY <1>2, CallFields
  <2>2. Busy(p) /\ n.pc /= "idle" /\ n.prev = call[p].prev
    BY <1>1, <1>2, <1>3 DEF Busy
  <2> QED
    BY <1>2, <1>3, <2>1, <2>2, CallFields, Replaced DEF ChildStates
<1>5. HookInv(p)'
  BY <1>1, <1>2, <1>3, <1>4, CallFields DEF HookInv, Waiting
<1>6. alone[p] => /\ Unswapped(p)' => link' = found[p]
                  /\ call'[p].pc = "done" /\ call'[p].result = "swap" /\ found[p] /= NoLink
                       => link' = found[p]
  BY <1>1, <1>2, <1>3, <1>4, CallFields DEF AloneInv, Unswapped, Waiting
<1> QED
  BY <1>1, <1>2, <1>3, <1>4, <1>5, <1>6, CallFields, CallStep DEF CurrentIsGated

\* ... or is gone.
LEMMA NotifyInv == ASSUME SwapInv, NEW p \in Swappers, Notify(p) PROVE SwapInv'
<1>0. SUFFICES ASSUME call' = [call EXCEPT ![p].pc = "restore"] PROVE SwapInv'
  BY ToldInv DEF Notify
<1>1. PICK r \in Calls : r = call[p]
  BY CallFields
<1>2. /\ call[p].pc = "signal" /\ UNCHANGED <<link, tmp, calls, child, gated, found, alone>>
      /\ child[p] = "none" /\ p \in gated
  BY CallFields DEF Notify, HookInv, LinkInv, Waiting
<1>3. PICK n \in Calls :
        /\ call' = [call EXCEPT ![p] = n] /\ n.prev = r.prev
        /\ n.pc = "restore"
  <2> DEFINE m == [r EXCEPT !.pc = "restore"]
  <2>1. m \in Calls /\ m.prev = r.prev /\ m.pc = "restore"
    BY <1>2, SwapAssumption DEF Calls, SwapPlaces
  <2>2. call' = [call EXCEPT ![p] = m]
    BY <1>1, <1>2, <1>0
  <2> QED
    BY <2>1, <2>2
<1>4. Inside(p) /\ call'[p] = n /\ child'[p] = child[p] /\ tmp'[p] = tmp[p]
  <2>1. child' = [child EXCEPT ![p] = child[p]] /\ tmp' = [tmp EXCEPT ![p] = tmp[p]]
    BY <1>2, CallFields
  <2>2. Busy(p) /\ n.pc /= "idle" /\ n.prev = call[p].prev
    BY <1>1, <1>2, <1>3 DEF Busy
  <2> QED
    BY <1>2, <1>3, <2>1, <2>2, CallFields, Replaced DEF ChildStates
<1>5. HookInv(p)'
  BY <1>1, <1>2, <1>3, <1>4, CallFields DEF HookInv, Waiting
<1>6. alone[p] => /\ Unswapped(p)' => link' = found[p]
                  /\ call'[p].pc = "done" /\ call'[p].result = "swap" /\ found[p] /= NoLink
                       => link' = found[p]
  BY <1>1, <1>2, <1>3, <1>4, CallFields DEF AloneInv, Unswapped, Waiting
<1> QED
  BY <1>1, <1>2, <1>3, <1>4, <1>5, <1>6, CallFields, CallStep DEF CurrentIsGated

\* The way back after a failed swap.
LEMMA RestoreInv ==
  ASSUME SwapInv, NEW p \in Swappers, Restore(p) \/ RestoreFails(p)
  PROVE  SwapInv'
<1>1. PICK r \in Calls : r = call[p]
  BY CallFields
<1>2. PICK e \in {"swap", "not_restored"} :
        /\ call[p].pc = "restore" /\ UNCHANGED <<tmp, calls, child, gated, found, alone>>
        /\ child[p] = "none" /\ Finish(p, e)
        /\ link' = link \/ (link' = found[p] /\ found[p] /= NoLink)
        /\ e = "swap" /\ found[p] /= NoLink => link' = found[p]
        /\ found[p] \in gated \union {NoLink}
  <2>1. /\ call[p].pc = "restore" /\ UNCHANGED <<tmp, calls, child, gated, found, alone>>
        /\ child[p] = "none" /\ found[p] = call[p].prev /\ found[p] \in gated \union {NoLink}
    BY CallFields DEF Restore, RestoreFails, HookInv, LinkInv, Waiting
  <2>2. CASE Restore(p)
    <3>1. Finish(p, "swap") /\ link' = IF found[p] = NoLink THEN link ELSE found[p]
      BY <2>1, <2>2 DEF Restore, Restored
    <3> QED
      BY <2>1, <3>1
  <2>3. CASE RestoreFails(p)
    BY <2>1, <2>3 DEF RestoreFails
  <2> QED
    BY <2>2, <2>3
<1>3. PICK n \in Calls :
        /\ call' = [call EXCEPT ![p] = n] /\ n.prev = r.prev
        /\ n.pc = "done" /\ n.result = e
  <2> DEFINE m == [r EXCEPT !.pc = "done", !.result = e]
  <2>1. m \in Calls /\ m.prev = r.prev /\ m.pc = "done" /\ m.result = e
    BY <1>2, SwapAssumption DEF Calls, SwapPlaces, Results
  <2>2. call' = [call EXCEPT ![p] = m]
    BY <1>1, <1>2 DEF Finish
  <2> QED
    BY <2>1, <2>2
<1>4. Inside(p) /\ call'[p] = n /\ child'[p] = child[p] /\ tmp'[p] = tmp[p]
  <2>1. child' = [child EXCEPT ![p] = child[p]] /\ tmp' = [tmp EXCEPT ![p] = tmp[p]]
    BY <1>2, CallFields
  <2>2. Busy(p) /\ n.pc /= "idle" /\ n.prev = call[p].prev
    BY <1>1, <1>2, <1>3 DEF Busy
  <2> QED
    BY <1>2, <1>3, <2>1, <2>2, CallFields, Replaced DEF ChildStates
<1>5. HookInv(p)'
  BY <1>1, <1>2, <1>3, <1>4, CallFields DEF HookInv, Waiting
<1>6. alone[p] => /\ Unswapped(p)' => link' = found[p]
                  /\ call'[p].pc = "done" /\ call'[p].result = "swap" /\ found[p] /= NoLink
                       => link' = found[p]
  BY <1>1, <1>2, <1>3, <1>4, CallFields DEF AloneInv, Unswapped, Waiting
<1> QED
  BY <1>1, <1>2, <1>3, <1>4, <1>5, <1>6, CallFields, CallStep DEF CurrentIsGated

\* A hook that ends is still waited for.
LEMMA ChildEndsInv == ASSUME SwapInv, NEW p \in Swappers, ChildEnds(p) PROVE SwapInv'
<1>1. SwapTypes' /\ CurrentIsGated'
  BY DEF SwapInv, SwapTypes, CurrentIsGated, ChildEnds
<1>2. \A q \in Swappers : HookInv(q)' /\ LinkInv(q)' /\ AloneInv(q)'
  BY DEF SwapInv, SwapTypes, ChildEnds, HookInv, LinkInv, AloneInv, Unswapped, Busy
<1> QED
  BY <1>1, <1>2 DEF SwapInv

\* The inductive invariant.
THEOREM SwapInvariant == SwapSpec => []SwapInv
<1>1. SwapInv /\ [SwapNext]_swapVars => SwapInv'
  <2> SUFFICES ASSUME SwapInv, [SwapNext]_swapVars PROVE SwapInv'
    OBVIOUS
  <2>1. CASE UNCHANGED swapVars
    BY <2>1 DEF SwapInv, SwapTypes, CurrentIsGated, HookInv, LinkInv, AloneInv, Unswapped, Busy, swapVars
  <2>2. ASSUME NEW p \in Swappers, SwapStep(p) \/ ChildEnds(p) PROVE SwapInv'
    BY <2>2, StartInv, SpawnInv, ReapInv, DeadlineInv, TimedOutInv, PhaseEndsInv, MakeLinkInv,
       RenameInv, NotifyInv, RestoreInv, ChildEndsInv DEF SwapStep, SwapCall, ExecuteCall
  <2> QED
    BY <2>1, <2>2 DEF SwapNext
<1> QED
  BY <1>1, SwapInitially, PTL DEF SwapSpec

\* For any number of processes that swap, hooks and calls: what is current is
\* whole and passed its gates, a swap that fails alone leaves what was there,
\* and no hook outlives the call that started it.
THEOREM SwapsAreAtomic == SwapSpec => []SwapIsAllOrNothing
<1>1. SwapInv => SwapTypeOK
  BY DEF SwapInv, SwapTypes, Calls, SwapTypeOK, LinkInv, Links
<1>2. SwapInv => CurrentIsGated /\ NoHookLeft
  BY DEF SwapInv, NoHookLeft, HookInv, Waiting
<1>3. SwapInv => FailedSwapRestores
  BY DEF SwapInv, FailedSwapRestores, AloneInv, Unswapped
<1> QED
  BY <1>1, <1>2, <1>3, SwapInvariant, PTL DEF SwapIsAllOrNothing

(***************************************************************************)
(* Layered installs: inodes, links and modes                               *)
(***************************************************************************)
Places == {"idle", "exists", "files", "transfer", "modes", "rename", "rollback", "ok", "not_synced",
           "failed", "dead"}
Modes == {"free", "own", "rw-", "r--", "r-x"}
InUse == {"own", "r--", "r-x"}
FileState == [data : Data \union {0}, mode : Modes]

LayerTypes ==
  /\ inode \in [Inodes -> FileState]
  /\ present \in Installers \union {Nobody}
  /\ at \in [Installers -> Places] /\ linkable \in [Installers -> BOOLEAN]
  /\ DOMAIN staging = Installers

\* The mode of an installed file, which never changes.
InstalledMode(p) == IF p \in LooseModes THEN "rw-" ELSE ReadOnly(Existing[p])

ExistingInv ==
  /\ existing \in [DOMAIN Existing -> Inodes] /\ IsInjective(existing)
  /\ \A p \in DOMAIN Existing :
       /\ inode[existing[p]].mode = InstalledMode(p)
       /\ p \notin LooseModes => inode[existing[p]].data = Existing[p].data

\* The installed file of that path is what the index of k asks for, and
\* nobody can write it.
Linked(k, p) == /\ p \in DOMAIN Existing /\ p \notin LooseModes
                /\ Existing[p].data = Target[k][p].data
                /\ ReadOnly(Existing[p]) = ReadOnly(Target[k][p])

\* The file i is the file p of the release of k: the installed one, or a new
\* one that is no installed file.
Serves(k, p, i) == \/ Linked(k, p) /\ i = existing[p]
                   \/ /\ i \in Inodes \ Range(existing)
                      /\ inode[i].data = Target[k][p].data /\ inode[i].mode \in InUse

StagingInv == \A k \in Installers : \A p \in DOMAIN staging[k] :
                p \in DOMAIN Target[k] /\ Serves(k, p, staging[k][p])

\* A file that is not an installed one has one name.
ApartInv ==
  /\ \A k, j \in Installers : \A p \in DOMAIN staging[k] : \A q \in DOMAIN staging[j] :
       staging[k][p] = staging[j][q] /\ staging[k][p] \notin Range(existing) => k = j /\ p = q
  /\ \A k \in Installers : \A p \in DOMAIN staging[k] : \A q \in DOMAIN target :
       staging[k][p] = target[q] => staging[k][p] \in Range(existing)

PlaceInv ==
  \A k \in Installers :
    /\ at[k] = "transfer" => /\ Remaining(k) /= {}
                             /\ linkable[k] => Linked(k, NextPath(k))
    /\ at[k] \in {"modes", "rename"} => DOMAIN staging[k] = DOMAIN Target[k]
    /\ at[k] = "rename" => \A p \in DOMAIN staging[k] :
                             inode[staging[k][p]].mode = ReadOnly(Target[k][p])

TargetInv ==
  /\ present = Nobody => DOMAIN target = {}
  /\ present /= Nobody =>
       /\ DOMAIN target = DOMAIN Target[present]
       /\ \A p \in DOMAIN target : /\ Serves(present, p, target[p])
                                   /\ inode[target[p]].mode = ReadOnly(Target[present][p])

LayerInv == LayerTypes /\ ExistingInv /\ StagingInv /\ ApartInv /\ PlaceInv /\ TargetInv

-----------------------------------------------------------------------------
(* Paths, directories and files. *)

\* The next path of an installer is one that remains.
LEMMA NextPathRemains ==
  ASSUME NEW k \in Installers, Remaining(k) /= {}
  PROVE  NextPath(k) \in Remaining(k)
<1> DEFINE R == OpToRel(<, Nat)
<1>1. IsWellFoundedOn(R, Nat)
  BY NatLessThanWellFounded
<1>2. R = {x \in Nat \X Nat : x[1] < x[2]}
  BY DEF OpToRel
<1> HIDE DEF R
<1>3. PICK S \in SUBSET Nat : S = Remaining(k)
  BY LayerAssumption DEF Remaining
<1>4. PICK p \in S : \A q \in S : ~(<<q, p>> \in R)
  BY <1>1, <1>3, WFMin
<1>5. ASSUME NEW q \in S, q < p PROVE FALSE
  <2>1. <<q, p>> \in Nat \X Nat /\ <<q, p>>[1] < <<q, p>>[2]
    BY <1>5
  <2>2. <<q, p>> \in R
    BY <1>2, <2>1, Zenon
  <2> QED
    BY <1>4, <2>2
<1>6. \A q \in S : ~(q < p) /\ q \in Nat /\ p \in Nat
  BY <1>5
<1>7. \A q \in S : p <= q
  BY <1>6
<1> QED
  BY <1>3, <1>7 DEF NextPath

\* An empty directory has no names.
LEMMA NoDirIsEmpty == DOMAIN NoDir = {}
  BY DEF NoDir

\* The modes of files.
LEMMA ModesDiffer ==
  /\ \A entry : ReadOnly(entry) \in InUse /\ ReadOnly(entry) \in Modes
  /\ "rw-" \notin InUse /\ "free" \notin InUse /\ "free" /= "rw-" /\ InUse \subseteq Modes
  BY DEF ReadOnly, InUse, Modes

\* What an inode has.
LEMMA FileStateIs ==
  ASSUME LayerTypes, NEW i \in Inodes
  PROVE  inode[i] \in FileState /\ inode[i].data \in Data \union {0} /\ inode[i].mode \in Modes
  BY DEF LayerTypes, FileState

\* What is in the range of the installed release.
LEMMA InstalledIs ==
  ASSUME ExistingInv
  PROVE  /\ \A p \in DOMAIN Existing : existing[p] \in Range(existing) /\ existing[p] \in Inodes
         /\ \A i \in Range(existing) : \E p \in DOMAIN Existing : i = existing[p]
         /\ \A p, q \in DOMAIN Existing : existing[p] = existing[q] => p = q
  BY DEF ExistingInv, Range, IsInjective

\* An installed file is not free.
LEMMA InstalledInUse ==
  ASSUME ExistingInv, NEW i \in Range(existing)
  PROVE  inode[i].mode /= "free"
<1>1. PICK p \in DOMAIN Existing : i = existing[p]
  BY InstalledIs
<1>2. inode[i].mode = InstalledMode(p)
  BY <1>1 DEF ExistingInv
<1> QED
  BY <1>2, ModesDiffer DEF InstalledMode

\* A file of a release: where it is, what it holds, and that nobody writes it.
LEMMA ServesIs ==
  ASSUME ExistingInv, NEW k \in Installers, NEW p \in DOMAIN Target[k], NEW i, Serves(k, p, i)
  PROVE  /\ i \in Inodes /\ inode[i].data = Target[k][p].data
         /\ inode[i].mode \in InUse
         /\ i \in Range(existing) =>
              /\ Linked(k, p) /\ i = existing[p]
              /\ inode[i].mode = ReadOnly(Target[k][p])
<1>1. CASE Linked(k, p) /\ i = existing[p]
  <2>1. p \in DOMAIN Existing /\ p \notin LooseModes
    BY <1>1 DEF Linked
  <2>2. inode[i].mode = ReadOnly(Existing[p]) /\ inode[i].data = Existing[p].data
    BY <1>1, <2>1 DEF ExistingInv, InstalledMode
  <2> QED
    BY <1>1, <2>1, <2>2, InstalledIs, ModesDiffer DEF Linked
<1>2. CASE /\ i \in Inodes \ Range(existing)
           /\ inode[i].data = Target[k][p].data /\ inode[i].mode \in InUse
  BY <1>2
<1> QED
  BY <1>1, <1>2 DEF Serves

\* A file of a release stays one while its inode keeps its content and is in use.
LEMMA ServesStays ==
  ASSUME existing' = existing, NEW k \in Installers, NEW p, NEW i, Serves(k, p, i),
         i \notin Range(existing) => inode'[i].data = inode[i].data /\ inode'[i].mode \in InUse
  PROVE  Serves(k, p, i)'
<1>1. Linked(k, p)' <=> Linked(k, p)
  BY DEF Linked, ReadOnly
<1> QED
  BY <1>1 DEF Serves

\* What a step that touches no inode in use keeps.
LEMMA FilesKept ==
  ASSUME LayerInv, existing' = existing,
         \A i \in Inodes : inode[i].mode /= "free" => inode'[i] = inode[i]
  PROVE  /\ ExistingInv'
         /\ \A k \in Installers : \A p \in DOMAIN staging[k] : \A i :
              i = staging[k][p] => Serves(k, p, i)' /\ inode'[i] = inode[i]
         /\ \A k \in Installers : \A p \in DOMAIN target : \A i :
              k = present /\ i = target[p] => Serves(k, p, i)' /\ inode'[i] = inode[i]
<1>1. ExistingInv /\ StagingInv /\ TargetInv /\ LayerTypes
  BY DEF LayerInv
<1>2. \A p \in DOMAIN Existing : inode'[existing[p]] = inode[existing[p]]
  BY <1>1, InstalledIs, InstalledInUse
<1>3. ExistingInv'
  BY <1>1, <1>2 DEF ExistingInv, InstalledMode, ReadOnly, IsInjective
<1>4. ASSUME NEW k \in Installers, NEW p \in DOMAIN Target[k], NEW i, Serves(k, p, i)
      PROVE  Serves(k, p, i)' /\ inode'[i] = inode[i]
  <2>1. i \in Inodes /\ inode[i].mode \in InUse
    BY <1>1, <1>4, ServesIs
  <2>2. inode'[i] = inode[i]
    BY <2>1, ModesDiffer
  <2> QED
    BY <1>4, <2>1, <2>2, ServesStays
<1>5. \A k \in Installers : \A p \in DOMAIN staging[k] : \A i :
        i = staging[k][p] => p \in DOMAIN Target[k] /\ Serves(k, p, i)
  BY <1>1 DEF StagingInv
<1>6. \A k \in Installers : \A p \in DOMAIN target : \A i :
        k = present /\ i = target[p] => p \in DOMAIN Target[k] /\ Serves(k, p, i)
  BY <1>1, LayerAssumption DEF TargetInv
<1>7. \A k \in Installers : \A p \in DOMAIN staging[k] : \A i :
        i = staging[k][p] => Serves(k, p, i)' /\ inode'[i] = inode[i]
  BY <1>4, <1>5
<1>8. \A k \in Installers : \A p \in DOMAIN target : \A i :
        k = present /\ i = target[p] => Serves(k, p, i)' /\ inode'[i] = inode[i]
  BY <1>4, <1>6
<1> QED
  BY <1>3, <1>7, <1>8

-----------------------------------------------------------------------------
(* The steps. *)

\* At first.
LEMMA LayerInitially == ASSUME LayerInit PROVE LayerInv
<1>1. existing \in [DOMAIN Existing -> Inodes] /\ IsInjective(existing)
  BY LayerAssumption DEF LayerInit
<1>2. ASSUME NEW p \in DOMAIN Existing
      PROVE  /\ inode[existing[p]].mode = InstalledMode(p)
             /\ inode[existing[p]].data = Existing[p].data
  <2>1. PICK i \in Inodes : i = existing[p] /\ i \in Range(existing)
    BY <1>1, <1>2 DEF Range
  <2>2. p = CHOOSE q \in DOMAIN existing : existing[q] = i
    BY <1>1, <1>2, <2>1 DEF IsInjective
  <2> DEFINE c == CHOOSE q \in DOMAIN existing : existing[q] = i
  <2>4. inode[i] = [data |-> Existing[c].data,
                    mode |-> IF c \in LooseModes THEN "rw-" ELSE ReadOnly(Existing[c])]
    <3> HIDE <1>1, <1>2, <2>2
    <3>1. inode = [n \in Inodes |->
                     IF n \in Range(existing)
                     THEN LET d == CHOOSE q \in DOMAIN existing : existing[q] = n
                          IN  [data |-> Existing[d].data,
                               mode |-> IF d \in LooseModes THEN "rw-" ELSE ReadOnly(Existing[d])]
                     ELSE [data |-> 0, mode |-> "free"]]
      BY Zenon DEF LayerInit
    <3> QED
      BY <2>1, <3>1, Zenon
  <2> HIDE DEF c
  <2>5. c = p
    BY <2>2 DEF c
  <2>3. inode[i] = [data |-> Existing[p].data, mode |-> InstalledMode(p)]
    BY <2>4, <2>5 DEF InstalledMode
  <2> QED
    BY <2>1, <2>3
<1>3. ExistingInv
  BY <1>1, <1>2 DEF ExistingInv
<1>4. inode \in [Inodes -> FileState]
  <2>1. ASSUME NEW i \in Inodes PROVE inode[i] \in FileState
    <3>1. CASE i \in Range(existing)
      <4>1. PICK p \in DOMAIN Existing : i = existing[p]
        BY <1>3, <3>1, InstalledIs
      <4>2. inode[i].mode \in Modes /\ inode[i].data \in Data
        BY <1>2, <4>1, ModesDiffer, LayerAssumption DEF InstalledMode, Modes, Entry
      <4>3. inode[i] = [data |-> inode[i].data, mode |-> inode[i].mode]
        BY <2>1, <3>1 DEF LayerInit
      <4> QED
        BY <4>2, <4>3 DEF FileState
    <3>2. CASE i \notin Range(existing)
      BY <2>1, <3>2 DEF LayerInit, FileState, Modes
    <3> QED
      BY <3>1, <3>2
  <2>2. DOMAIN inode = Inodes /\ inode = [i \in Inodes |-> inode[i]]
    BY DEF LayerInit
  <2> QED
    BY <2>1, <2>2
<1>5. LayerTypes
  BY <1>4 DEF LayerInit, LayerTypes, Places
<1>6. DOMAIN target = {} /\ \A k \in Installers : DOMAIN staging[k] = {} /\ at[k] = "idle"
  BY NoDirIsEmpty DEF LayerInit
<1>7. StagingInv /\ ApartInv /\ PlaceInv
  BY <1>6 DEF StagingInv, ApartInv, PlaceInv
<1>8. TargetInv
  BY <1>6 DEF TargetInv, LayerInit
<1> QED
  BY <1>3, <1>5, <1>7, <1>8 DEF LayerInv

\* The places an installer goes to without changing a file or a directory.
LEMMA GoInv ==
  ASSUME LayerInv, NEW k \in Installers, NEW place \in Places, Goto(k, place),
         linkable' \in [Installers -> BOOLEAN],
         \A j \in Installers : j /= k => linkable'[j] = linkable[j],
         UNCHANGED <<inode, existing, target, present, staging>>,
         place = "transfer" => Remaining(k) /= {} /\ (linkable'[k] => Linked(k, NextPath(k))),
         place = "modes" => DOMAIN staging[k] = DOMAIN Target[k],
         place /= "rename"
  PROVE  LayerInv'
<1>1. LayerTypes /\ ExistingInv /\ StagingInv /\ ApartInv /\ PlaceInv /\ TargetInv
  BY DEF LayerInv
<1>2. /\ at' \in [Installers -> Places] /\ at'[k] = place
      /\ \A j \in Installers : j /= k => at'[j] = at[j]
  BY <1>1 DEF Goto, LayerTypes
<1>3. LayerTypes' /\ ExistingInv'
  BY <1>1, <1>2 DEF LayerTypes, ExistingInv, InstalledMode, ReadOnly, IsInjective
<1>4. StagingInv' /\ ApartInv'
  BY <1>1 DEF StagingInv, ApartInv, Serves, Linked, ReadOnly, Range
<1>5. TargetInv'
  BY <1>1 DEF TargetInv, Serves, Linked, ReadOnly, Range
<1>6. \A j \in Installers : /\ Remaining(j)' = Remaining(j) /\ NextPath(j)' = NextPath(j)
                            /\ \A p : Linked(j, p)' <=> Linked(j, p)
  BY DEF Remaining, NextPath, Linked, ReadOnly
<1>7. PlaceInv'
  BY <1>1, <1>2, <1>6 DEF PlaceInv, ReadOnly
<1> QED
  BY <1>3, <1>4, <1>5, <1>7 DEF LayerInv

\* An installer begins.
LEMMA BeginInv == ASSUME LayerInv, NEW k \in Installers, Begin(k) PROVE LayerInv'
  BY GoInv DEF Begin, LayerInv, LayerTypes, Places

\* The target is there already.
LEMMA RefusedInv == ASSUME LayerInv, NEW k \in Installers, Refused(k) PROVE LayerInv'
  BY GoInv DEF Refused, LayerInv, LayerTypes, Places

\* A system call of an installer fails.
LEMMA FailsInv == ASSUME LayerInv, NEW k \in Installers, Fails(k) PROVE LayerInv'
  BY GoInv DEF Fails, LayerInv, LayerTypes, Places

\* An installer is killed.
LEMMA KilledInv == ASSUME LayerInv, NEW k \in Installers, Killed(k) PROVE LayerInv'
  BY GoInv DEF Killed, LayerInv, LayerTypes, Places

\* Every file of the index is in the staging directory.
LEMMA VerifyAllInv == ASSUME LayerInv, NEW k \in Installers, VerifyAll(k) PROVE LayerInv'
<1>1. DOMAIN staging[k] = DOMAIN Target[k]
  BY DEF VerifyAll, Remaining, LayerInv, StagingInv
<1>2. CASE Goto(k, "modes")
  BY <1>1, <1>2, GoInv DEF VerifyAll, LayerInv, LayerTypes, Places
<1>3. CASE Goto(k, "rollback")
  BY <1>3, GoInv DEF VerifyAll, LayerInv, LayerTypes, Places
<1> QED
  BY <1>2, <1>3 DEF VerifyAll

\* A file that may be linked is one of the installed ones that nobody writes:
\* its mode is what it was, whenever the link is made.
LEMMA VerifySourceInv == ASSUME LayerInv, NEW k \in Installers, VerifySource(k) PROVE LayerInv'
<1>1. PICK p : p = NextPath(k)
  OBVIOUS
<1>2. LayerTypes /\ ExistingInv
  BY DEF LayerInv
<1>3. /\ Remaining(k) /= {} /\ linkable' = [linkable EXCEPT ![k] = MayLink(k, p)]
      /\ UNCHANGED <<inode, existing, target, present, staging>>
      /\ Goto(k, "transfer") \/ Goto(k, "rollback")
  BY <1>1 DEF VerifySource
<1>4. MayLink(k, p) \in BOOLEAN
  BY DEF MayLink
<1>5. /\ linkable' \in [Installers -> BOOLEAN] /\ linkable'[k] = MayLink(k, p)
      /\ \A j \in Installers : j /= k => linkable'[j] = linkable[j]
  BY <1>2, <1>3, <1>4 DEF LayerTypes
<1>6. MayLink(k, p) => Linked(k, p)
  <2>1. SUFFICES ASSUME MayLink(k, p) PROVE Linked(k, p)
    OBVIOUS
  <2>2. p \in DOMAIN Existing /\ Existing[p].data = Target[k][p].data
    BY <2>1 DEF MayLink, FromExisting, FindEntry
  <2>3. p \notin LooseModes
    <3>1. inode[existing[p]].mode = InstalledMode(p) /\ inode[existing[p]].mode \in InUse
      BY <1>2, <2>1, <2>2, ModesDiffer DEF ExistingInv, MayLink
    <3> QED
      BY <3>1, ModesDiffer DEF InstalledMode
  <2> QED
    BY <2>1, <2>2, <2>3 DEF MayLink, Linked
<1>7. CASE Goto(k, "transfer")
  BY <1>1, <1>3, <1>5, <1>6, <1>7, GoInv DEF Places
<1>8. CASE Goto(k, "rollback")
  BY <1>3, <1>5, <1>8, GoInv DEF Places
<1> QED
  BY <1>3, <1>7, <1>8

\* A file gets a name in a staging directory: an installed one, or one that
\* was free.
LEMMA StageInv ==
  ASSUME LayerInv, NEW k \in Installers, NEW p \in Remaining(k), NEW i, Staged(k, p, i),
         Goto(k, "files"), UNCHANGED <<existing, target, present, linkable>>,
         inode' \in [Inodes -> FileState],
         \A j \in Inodes : inode[j].mode /= "free" => inode'[j] = inode[j],
         Serves(k, p, i)', i \in Inodes, i \notin Range(existing) => inode[i].mode = "free"
  PROVE  LayerInv'
<1>1. LayerTypes /\ ExistingInv /\ StagingInv /\ ApartInv /\ PlaceInv /\ TargetInv
  BY DEF LayerInv
<1>2. /\ at' \in [Installers -> Places] /\ at'[k] = "files"
      /\ \A j \in Installers : j /= k => at'[j] = at[j]
  BY <1>1 DEF Goto, LayerTypes, Places
<1>3. /\ DOMAIN staging' = Installers /\ DOMAIN staging'[k] = DOMAIN staging[k] \union {p}
      /\ staging'[k][p] = i
      /\ \A q \in DOMAIN staging[k] : q /= p /\ staging'[k][q] = staging[k][q]
      /\ \A j \in Installers : j /= k => staging'[j] = staging[j]
  BY <1>1 DEF Staged, LayerTypes, Remaining
<1>4. /\ ExistingInv'
      /\ \A j \in Installers : \A q \in DOMAIN staging[j] : \A n :
           n = staging[j][q] => Serves(j, q, n)' /\ inode'[n] = inode[n]
      /\ \A j \in Installers : \A q \in DOMAIN target : \A n :
           j = present /\ n = target[q] => Serves(j, q, n)' /\ inode'[n] = inode[n]
  BY FilesKept
<1>5. LayerTypes'
  BY <1>1, <1>2, <1>3 DEF LayerTypes
<1>6. p \in DOMAIN Target[k] /\ p \notin DOMAIN staging[k]
  BY DEF Remaining
<1>7. StagingInv'
  <2>1. \A j \in Installers : \A q \in DOMAIN staging'[j] : \A n :
          n = staging'[j][q] => q \in DOMAIN Target[j] /\ Serves(j, q, n)'
    BY <1>1, <1>3, <1>4, <1>6 DEF StagingInv
  <2> QED
    BY <2>1 DEF StagingInv
<1>8. \A j \in Installers : \A q \in DOMAIN staging[j] :
        staging[j][q] = i => i \in Range(existing)
  <2>1. \A j \in Installers : \A q \in DOMAIN staging[j] : inode[staging[j][q]].mode /= "free"
    BY <1>1, ServesIs, ModesDiffer DEF StagingInv
  <2> QED
    BY <2>1
<1>9. \A q \in DOMAIN target : target[q] = i => i \in Range(existing)
  <2>1. \A q \in DOMAIN target : inode[target[q]].mode /= "free"
    BY <1>1, ModesDiffer DEF TargetInv
  <2> QED
    BY <2>1
<1>10. ApartInv'
  <2>0. \A j, m \in Installers : \A q \in DOMAIN staging[j] : \A r \in DOMAIN staging[m] :
          staging[j][q] = staging[m][r] /\ staging[j][q] \notin Range(existing) => j = m /\ q = r
    BY <1>1 DEF ApartInv
  <2>1. Range(existing)' = Range(existing)
    BY DEF Range
  <2>2. ASSUME NEW j \in Installers, NEW m \in Installers,
               NEW q \in DOMAIN staging'[j], NEW r \in DOMAIN staging'[m],
               staging'[j][q] = staging'[m][r], staging'[j][q] \notin Range(existing)
        PROVE  j = m /\ q = r
    <3>1. CASE j = k /\ q = p
      <4>1. staging'[m][r] = i
        BY <1>3, <2>2, <3>1
      <4>2. CASE m = k /\ r = p
        BY <3>1, <4>2
      <4>3. CASE ~(m = k /\ r = p)
        BY <1>3, <1>8, <2>2, <4>1, <4>3
      <4> QED
        BY <4>2, <4>3
    <3>2. CASE m = k /\ r = p
      <4>1. staging'[j][q] = i
        BY <1>3, <2>2, <3>2
      <4>3. CASE ~(j = k /\ q = p)
        BY <1>3, <1>8, <2>2, <4>1, <4>3
      <4> QED
        BY <3>1, <4>3
    <3>3. CASE ~(j = k /\ q = p) /\ ~(m = k /\ r = p)
      <4>1. q \in DOMAIN staging[j] /\ staging'[j][q] = staging[j][q]
        BY <1>3, <2>2, <3>3
      <4>2. r \in DOMAIN staging[m] /\ staging'[m][r] = staging[m][r]
        BY <1>3, <2>2, <3>3
      <4>3. staging[j][q] = staging[m][r] /\ staging[j][q] \notin Range(existing)
        BY <2>2, <4>1, <4>2
      <4> QED
        BY <2>0, <4>1, <4>2, <4>3
    <3> QED
      BY <3>1, <3>2, <3>3
  <2>3. ASSUME NEW j \in Installers, NEW q \in DOMAIN staging'[j], NEW r \in DOMAIN target,
               staging'[j][q] = target[r]
        PROVE  staging'[j][q] \in Range(existing)
    <3>1. CASE j = k /\ q = p
      BY <1>3, <1>9, <2>3, <3>1
    <3>2. CASE ~(j = k /\ q = p)
      BY <1>1, <1>3, <2>3, <3>2 DEF ApartInv
    <3> QED
      BY <3>1, <3>2
  <2> QED
    BY <2>1, <2>2, <2>3 DEF ApartInv
<1>11. PlaceInv'
  <2>1. \A j \in Installers : j /= k => Remaining(j)' = Remaining(j) /\ NextPath(j)' = NextPath(j)
    BY <1>3 DEF Remaining, NextPath
  <2>2. \A j : \A q : Linked(j, q)' <=> Linked(j, q)
    BY DEF Linked, ReadOnly
  <2> QED
    BY <1>1, <1>2, <1>3, <1>4, <2>1, <2>2 DEF PlaceInv, ReadOnly
<1>12. TargetInv'
  <2>1. \A q \in DOMAIN target : \A j \in Installers : j = present =>
          /\ inode'[target[q]] = inode[target[q]]
          /\ \A n : n = target[q] => Serves(j, q, n)'
    BY <1>4
  <2> QED
    BY <1>1, <2>1 DEF TargetInv, LayerTypes, ReadOnly
<1> QED
  BY <1>4, <1>5, <1>7, <1>10, <1>11, <1>12 DEF LayerInv

\* A link to the installed file.
LEMMA LinkFileInv == ASSUME LayerInv, NEW k \in Installers, Link(k) PROVE LayerInv'
<1>1. PICK p : p = NextPath(k)
  OBVIOUS
<1>2. LayerTypes /\ ExistingInv /\ PlaceInv
  BY DEF LayerInv
<1>3. /\ at[k] = "transfer" /\ linkable[k]
      /\ UNCHANGED <<inode, existing, payload, target, present, linkable, writes>>
  BY DEF Link
<1>4. Linked(k, p) /\ p \in Remaining(k)
  BY <1>1, <1>2, <1>3, NextPathRemains DEF PlaceInv
<1>5. CASE Staged(k, p, existing[p]) /\ Goto(k, "files")
  <2>1. PICK i \in Inodes : i = existing[p] /\ i \in Range(existing)
    BY <1>2, <1>4, InstalledIs DEF Linked
  <2>2. Serves(k, p, i)
    BY <1>4, <2>1 DEF Serves
  <2>3. Serves(k, p, i)'
    BY <1>3, <2>1, <2>2, ServesStays
  <2>4. inode' \in [Inodes -> FileState]
    BY <1>2, <1>3 DEF LayerTypes
  <2>5. Staged(k, p, i)
    BY <1>5, <2>1
  <2> QED
    BY <1>3, <1>4, <1>5, <2>1, <2>3, <2>4, <2>5, StageInv
<1>6. CASE UNCHANGED staging /\ Goto(k, "rollback")
  BY <1>2, <1>3, <1>6, GoInv DEF LayerTypes, Places
<1> QED
  BY <1>1, <1>5, <1>6 DEF Link

\* A copy into a file that was free.
LEMMA CopyInv == ASSUME LayerInv, NEW k \in Installers, Copy(k) PROVE LayerInv'
<1>1. PICK p : p = NextPath(k)
  OBVIOUS
<1>2. LayerTypes /\ ExistingInv /\ PlaceInv
  BY DEF LayerInv
<1>3. /\ at[k] = "transfer"
      /\ UNCHANGED <<existing, payload, target, present, linkable, writes>>
  BY DEF Copy
<1>4. p \in Remaining(k)
  BY <1>1, <1>2, <1>3, NextPathRemains DEF PlaceInv
<1>5. CASE UNCHANGED <<inode, staging>> /\ Goto(k, "rollback")
  BY <1>2, <1>3, <1>5, GoInv DEF LayerTypes, Places
<1>6. CASE \E i \in Inodes : \E data :
             /\ inode[i].mode = "free" /\ data = Target[k][p].data
             /\ inode' = [inode EXCEPT ![i] = [data |-> data, mode |-> "own"]]
             /\ Staged(k, p, i) /\ Goto(k, "files")
  <2>1. PICK i \in Inodes : \E data :
             /\ inode[i].mode = "free" /\ data = Target[k][p].data
             /\ inode' = [inode EXCEPT ![i] = [data |-> data, mode |-> "own"]]
             /\ Staged(k, p, i) /\ Goto(k, "files")
    BY <1>6
  <2>2. PICK data : data = Target[k][p].data
    OBVIOUS
  <2>3. /\ inode[i].mode = "free" /\ inode' = [inode EXCEPT ![i] = [data |-> data, mode |-> "own"]]
        /\ Staged(k, p, i) /\ Goto(k, "files")
    BY <2>1, <2>2
  <2>4. data \in Data
    BY <1>4, <2>2, LayerAssumption DEF Remaining, Entry
  <2>5. [data |-> data, mode |-> "own"] \in FileState
    BY <2>4 DEF FileState, Modes
  <2>6. /\ inode' \in [Inodes -> FileState] /\ inode'[i] = [data |-> data, mode |-> "own"]
        /\ \A j \in Inodes : j /= i => inode'[j] = inode[j]
    BY <1>2, <2>3, <2>5 DEF LayerTypes
  <2>7. i \notin Range(existing)
    BY <1>2, <2>3, InstalledInUse
  <2>8. inode'[i].data = Target[k][p].data /\ inode'[i].mode \in InUse
    BY <2>2, <2>6 DEF InUse
  <2>9. Serves(k, p, i)'
    BY <1>3, <2>7, <2>8 DEF Serves, Range
  <2>10. \A j \in Inodes : inode[j].mode /= "free" => inode'[j] = inode[j]
    BY <2>3, <2>6
  <2> QED
    BY <1>3, <1>4, <2>3, <2>6, <2>9, <2>10, StageInv
<1> QED
  BY <1>1, <1>5, <1>6 DEF Copy, CopyVerified

\* No two files of a staging directory are one.
LEMMA StagingInjective ==
  ASSUME LayerInv, NEW k \in Installers, NEW p \in DOMAIN staging[k], NEW q \in DOMAIN staging[k],
         staging[k][p] = staging[k][q]
  PROVE  p = q
<1>1. ExistingInv /\ StagingInv /\ ApartInv
  BY DEF LayerInv
<1>2. CASE staging[k][p] \notin Range(existing)
  BY <1>1, <1>2 DEF ApartInv
<1>3. CASE staging[k][p] \in Range(existing)
  <2>1. PICK i : i = staging[k][p]
    OBVIOUS
  <2>2. /\ p \in DOMAIN Target[k] /\ q \in DOMAIN Target[k]
        /\ Serves(k, p, i) /\ Serves(k, q, i) /\ i \in Range(existing)
    BY <1>1, <1>3, <2>1 DEF StagingInv
  <2>3. i = existing[p] /\ i = existing[q] /\ p \in DOMAIN Existing /\ q \in DOMAIN Existing
    BY <1>1, <2>2, ServesIs DEF Linked
  <2> QED
    BY <1>1, <2>3, InstalledIs
<1> QED
  BY <1>2, <1>3

\* What enforce_file_permissions does to the files: those of the staging
\* directory have the modes of the index, and an installed file among them
\* had its mode before.
LEMMA EnforceIs ==
  ASSUME LayerInv, NEW k \in Installers, Enforce(k)
  PROVE  /\ inode' \in [Inodes -> FileState]
         /\ \A i \in Inodes : inode'[i].data = inode[i].data
         /\ \A i \in Inodes : inode[i].mode \in InUse => inode'[i].mode \in InUse
         /\ \A p \in DOMAIN staging[k] : inode'[staging[k][p]].mode = ReadOnly(Target[k][p])
         /\ \A i \in Inodes : i \notin Range(staging[k]) => inode'[i] = inode[i]
         /\ \A i \in Range(existing) : inode'[i] = inode[i]
<1>1. LayerTypes /\ ExistingInv /\ StagingInv
  BY DEF LayerInv
<1>2. inode' = [i \in Inodes |->
       IF i \in Range(staging[k])
       THEN [inode[i] EXCEPT !.mode = ReadOnly(Target[k][CHOOSE p \in DOMAIN staging[k] :
                                                           staging[k][p] = i])]
       ELSE inode[i]]
  BY DEF Enforce
<1>3. ASSUME NEW p \in DOMAIN staging[k], NEW i, i = staging[k][p]
      PROVE  /\ i \in Inodes /\ inode'[i] = [inode[i] EXCEPT !.mode = ReadOnly(Target[k][p])]
             /\ i \in Range(existing) => inode[i].mode = ReadOnly(Target[k][p])
  <2>1. p \in DOMAIN Target[k] /\ Serves(k, p, i)
    BY <1>1, <1>3 DEF StagingInv
  <2>2. i \in Inodes /\ (i \in Range(existing) => inode[i].mode = ReadOnly(Target[k][p]))
    BY <1>1, <2>1, ServesIs
  <2>3. p = CHOOSE q \in DOMAIN staging[k] : staging[k][q] = i
    BY <1>3, StagingInjective
  <2>4. i \in Range(staging[k])
    BY <1>3 DEF Range
  <2> DEFINE c == CHOOSE q \in DOMAIN staging[k] : staging[k][q] = i
  <2>5. inode'[i] = [inode[i] EXCEPT !.mode = ReadOnly(Target[k][c])]
    BY <1>2, <2>2, <2>4
  <2>6. c = p
    BY <2>3
  <2> HIDE DEF c
  <2> QED
    BY <2>2, <2>5, <2>6
<1>4. \A i \in Inodes : i \notin Range(staging[k]) => inode'[i] = inode[i]
  BY <1>2
<1>5. \A i \in Range(staging[k]) : \E p \in DOMAIN staging[k] : i = staging[k][p]
  BY DEF Range
<1>6. ASSUME NEW i \in Inodes
      PROVE  /\ inode'[i] \in FileState /\ inode'[i].data = inode[i].data
             /\ inode[i].mode \in InUse => inode'[i].mode \in InUse
             /\ i \in Range(existing) => inode'[i] = inode[i]
  <2>1. CASE i \in Range(staging[k])
    <3>1. PICK p \in DOMAIN staging[k] : i = staging[k][p]
      BY <1>5, <2>1
    <3>2. PICK f \in FileState : f = inode[i]
      BY <1>1, FileStateIs
    <3>3. PICK m \in InUse : m = ReadOnly(Target[k][p])
      BY ModesDiffer
    <3>4. inode'[i] = [f EXCEPT !.mode = m] /\ (i \in Range(existing) => f.mode = m)
      BY <1>3, <3>1, <3>2, <3>3
    <3>5. /\ [f EXCEPT !.mode = m] \in FileState /\ [f EXCEPT !.mode = m].data = f.data
          /\ [f EXCEPT !.mode = m].mode = m /\ (f.mode = m => [f EXCEPT !.mode = m] = f)
      BY <3>3 DEF FileState, InUse, Modes
    <3> QED
      BY <3>2, <3>3, <3>4, <3>5
  <2>2. CASE i \notin Range(staging[k])
    BY <1>1, <1>4, <2>2, FileStateIs
  <2> QED
    BY <2>1, <2>2
<1>7. inode' \in [Inodes -> FileState]
  BY <1>2, <1>6
<1>8. \A p \in DOMAIN staging[k] : inode'[staging[k][p]].mode = ReadOnly(Target[k][p])
  <2>1. ASSUME NEW p \in DOMAIN staging[k] PROVE inode'[staging[k][p]].mode = ReadOnly(Target[k][p])
    <3>1. PICK i \in Inodes : i = staging[k][p]
      BY <1>3
    <3>2. PICK f \in FileState : f = inode[i]
      BY <1>1, FileStateIs
    <3>3. inode'[i] = [f EXCEPT !.mode = ReadOnly(Target[k][p])]
      BY <1>3, <3>1, <3>2
    <3> QED
      BY <3>1, <3>3 DEF FileState
  <2> QED
    BY <2>1
<1>9. \A i \in Range(existing) : i \in Inodes
  BY <1>1, InstalledIs
<1> QED
  BY <1>4, <1>6, <1>7, <1>8, <1>9

\* The modes are enforced.
LEMMA EnforceInv == ASSUME LayerInv, NEW k \in Installers, Enforce(k) PROVE LayerInv'
<1>1. LayerTypes /\ ExistingInv /\ StagingInv /\ ApartInv /\ PlaceInv /\ TargetInv
  BY DEF LayerInv
<1>2. /\ inode' \in [Inodes -> FileState]
      /\ \A i \in Inodes : inode'[i].data = inode[i].data
      /\ \A i \in Inodes : inode[i].mode \in InUse => inode'[i].mode \in InUse
      /\ \A p \in DOMAIN staging[k] : inode'[staging[k][p]].mode = ReadOnly(Target[k][p])
      /\ \A i \in Inodes : i \notin Range(staging[k]) => inode'[i] = inode[i]
      /\ \A i \in Range(existing) : inode'[i] = inode[i]
  BY EnforceIs
<1>3. /\ at[k] = "modes" /\ UNCHANGED <<existing, payload, target, present, staging, linkable, writes>>
      /\ at' \in [Installers -> Places] /\ at'[k] = "rename"
      /\ \A j \in Installers : j /= k => at'[j] = at[j]
  BY <1>1 DEF Enforce, Goto, LayerTypes, Places
<1>4. LayerTypes'
  BY <1>1, <1>2, <1>3 DEF LayerTypes
<1>5. ExistingInv'
  <2>1. \A p \in DOMAIN Existing : inode'[existing[p]] = inode[existing[p]]
    BY <1>1, <1>2, InstalledIs
  <2> QED
    BY <1>1, <1>3, <2>1 DEF ExistingInv, InstalledMode, ReadOnly, IsInjective
<1>6. ASSUME NEW j \in Installers, NEW p \in DOMAIN Target[j], NEW i, Serves(j, p, i)
      PROVE  Serves(j, p, i)'
  <2>1. i \in Inodes /\ inode[i].mode \in InUse
    BY <1>1, <1>6, ServesIs
  <2> QED
    BY <1>2, <1>3, <1>6, <2>1, ServesStays
<1>7. StagingInv'
  <2>1. \A j \in Installers : \A p \in DOMAIN staging[j] : \A i : i = staging'[j][p] =>
          p \in DOMAIN Target[j] /\ Serves(j, p, i)'
    BY <1>1, <1>3, <1>6 DEF StagingInv
  <2> QED
    BY <1>3, <2>1 DEF StagingInv
<1>8. ApartInv'
  BY <1>1, <1>3 DEF ApartInv, Range
<1>9. PlaceInv'
  <2>1. \A j \in Installers : /\ Remaining(j)' = Remaining(j) /\ NextPath(j)' = NextPath(j)
                              /\ \A p : Linked(j, p)' <=> Linked(j, p)
    BY <1>3 DEF Remaining, NextPath, Linked, ReadOnly
  <2>2. ASSUME NEW j \in Installers, j /= k, NEW p \in DOMAIN staging[j]
        PROVE  inode'[staging[j][p]] = inode[staging[j][p]]
    <3>1. PICK i : i = staging[j][p]
      OBVIOUS
    <3>2. i \in Inodes
      BY <1>1, <2>2, <3>1, ServesIs DEF StagingInv
    <3>3. CASE i \notin Range(staging[k])
      BY <1>2, <3>1, <3>2, <3>3
    <3>4. CASE i \in Range(staging[k])
      <4>1. PICK q \in DOMAIN staging[k] : i = staging[k][q]
        BY <3>4 DEF Range
      <4>2. i \in Range(existing)
        BY <1>1, <2>2, <3>1, <4>1 DEF ApartInv
      <4> QED
        BY <1>2, <3>1, <4>2
    <3> QED
      BY <3>3, <3>4
  <2>3. at[k] = "modes" => DOMAIN staging[k] = DOMAIN Target[k]
    BY <1>1 DEF PlaceInv
  <2> QED
    BY <1>1, <1>2, <1>3, <2>1, <2>2, <2>3 DEF PlaceInv, ReadOnly
<1>10. TargetInv'
  <2>1. SUFFICES ASSUME present /= Nobody PROVE TargetInv'
    BY <1>1, <1>3 DEF TargetInv
  <2>2. PICK j \in Installers : j = present
    BY <1>1, <2>1 DEF LayerTypes
  <2>3. DOMAIN target = DOMAIN Target[j]
    BY <1>1, <2>1, <2>2 DEF TargetInv
  <2>4. \A q \in DOMAIN staging[k] : \A p \in DOMAIN target :
          staging[k][q] = target[p] => staging[k][q] \in Range(existing)
    BY <1>1 DEF ApartInv
  <2>5. ASSUME NEW p \in DOMAIN target, NEW i, i = target[p]
        PROVE  Serves(j, p, i)' /\ inode'[i].mode = ReadOnly(Target[j][p])
    <3>1. Serves(j, p, i) /\ inode[i].mode = ReadOnly(Target[j][p])
      BY <1>1, <2>1, <2>2, <2>5 DEF TargetInv
    <3>2. i \in Inodes
      BY <1>1, <2>3, <3>1, ServesIs
    <3>3. CASE i \notin Range(staging[k])
      BY <1>2, <1>6, <2>3, <3>1, <3>2, <3>3
    <3>4. CASE i \in Range(staging[k])
      <4>1. PICK q \in DOMAIN staging[k] : i = staging[k][q]
        BY <3>4 DEF Range
      <4>2. i \in Range(existing)
        BY <2>4, <2>5, <4>1
      <4> QED
        BY <1>2, <1>6, <2>3, <3>1, <4>2
    <3> QED
      BY <3>3, <3>4
  <2> QED
    BY <1>3, <2>1, <2>2, <2>3, <2>5 DEF TargetInv, ReadOnly
<1> QED
  BY <1>4, <1>5, <1>7, <1>8, <1>9, <1>10 DEF LayerInv

\* The staging directory becomes the target, or it is there already.
LEMMA RenameDirInv == ASSUME LayerInv, NEW k \in Installers, Rename(k) PROVE LayerInv'
<1>1. LayerTypes /\ ExistingInv /\ StagingInv /\ ApartInv /\ PlaceInv /\ TargetInv
  BY DEF LayerInv
<1>2. at[k] = "rename" /\ UNCHANGED <<inode, existing, payload, linkable, writes>>
  BY DEF Rename
<1>3. CASE UNCHANGED <<target, present, staging>> /\ Goto(k, "rollback")
  BY <1>1, <1>2, <1>3, GoInv DEF LayerTypes, Places
<1>4. CASE /\ target' = staging[k] /\ present' = k
           /\ staging' = [staging EXCEPT ![k] = NoDir]
           /\ \E r \in {"ok", "not_synced"} : Goto(k, r)
  <2>1. /\ at' \in [Installers -> Places] /\ at'[k] \in {"ok", "not_synced"}
        /\ \A j \in Installers : j /= k => at'[j] = at[j]
    BY <1>1, <1>4 DEF Goto, LayerTypes, Places
  <2>2. /\ DOMAIN staging' = Installers /\ DOMAIN staging'[k] = {}
        /\ \A j \in Installers : j /= k => staging'[j] = staging[j]
    BY <1>1, <1>4, NoDirIsEmpty DEF LayerTypes
  <2>3. LayerTypes' /\ ExistingInv'
    BY <1>1, <1>2, <1>4, <2>1, <2>2
    DEF LayerTypes, ExistingInv, InstalledMode, ReadOnly, IsInjective
  <2>4. \A j \in Installers : \A p : \A i : Serves(j, p, i)' <=> Serves(j, p, i)
    BY <1>2 DEF Serves, Linked, ReadOnly, Range
  <2>5. StagingInv'
    <3>1. \A j \in Installers : \A p \in DOMAIN staging'[j] : \A i : i = staging'[j][p] =>
            p \in DOMAIN Target[j] /\ Serves(j, p, i)'
      BY <1>1, <2>2, <2>4 DEF StagingInv
    <3> QED
      BY <3>1 DEF StagingInv
  <2>6. ApartInv'
    <3>1. Range(existing)' = Range(existing)
      BY <1>2 DEF Range
    <3>2. ASSUME NEW j \in Installers, NEW p \in DOMAIN staging'[j], NEW q \in DOMAIN target',
                 staging'[j][p] = target'[q]
          PROVE  staging'[j][p] \in Range(existing)
      <4>1. j /= k /\ p \in DOMAIN staging[j] /\ q \in DOMAIN staging[k]
            /\ staging[j][p] = staging[k][q]
        BY <1>4, <2>2, <3>2
      <4> QED
        BY <1>1, <2>2, <4>1 DEF ApartInv
    <3>3. ASSUME NEW j \in Installers, NEW m \in Installers,
                 NEW p \in DOMAIN staging'[j], NEW q \in DOMAIN staging'[m],
                 staging'[j][p] = staging'[m][q], staging'[j][p] \notin Range(existing)
          PROVE  j = m /\ p = q
      <4>1. j /= k /\ m /= k /\ staging'[j] = staging[j] /\ staging'[m] = staging[m]
        BY <2>2, <3>3
      <4> QED
        BY <1>1, <3>3, <4>1 DEF ApartInv
    <3> QED
      BY <3>1, <3>2, <3>3 DEF ApartInv
  <2>7. PlaceInv'
    <3>1. \A j \in Installers : j /= k => /\ Remaining(j)' = Remaining(j) /\ NextPath(j)' = NextPath(j)
                                          /\ \A p : Linked(j, p)' <=> Linked(j, p)
      BY <2>2 DEF Remaining, NextPath, Linked, ReadOnly
    <3> QED
      BY <1>1, <1>2, <2>1, <2>2, <3>1 DEF PlaceInv, ReadOnly
  <2>8. TargetInv'
    <3>1. k /= Nobody
      BY LayerAssumption
    <3>2. DOMAIN staging[k] = DOMAIN Target[k]
      BY <1>1, <1>2 DEF PlaceInv
    <3>3. \A p \in DOMAIN staging[k] : \A i : i = staging[k][p] =>
            Serves(k, p, i)' /\ inode'[i].mode = ReadOnly(Target[k][p])
      BY <1>1, <1>2, <2>4 DEF StagingInv, PlaceInv
    <3> QED
      BY <1>4, <3>1, <3>2, <3>3 DEF TargetInv, ReadOnly
  <2> QED
    BY <2>3, <2>5, <2>6, <2>7, <2>8 DEF LayerInv
<1> QED
  BY <1>3, <1>4 DEF Rename

\* What cleanup_staging does to the files: those with another name stay.
LEMMA RollbackIs ==
  ASSUME LayerInv, NEW k \in Installers, Rollback(k)
  PROVE  /\ inode' \in [Inodes -> FileState]
         /\ \A i \in Range(existing) : inode'[i] = inode[i]
         /\ \A p \in DOMAIN target : inode'[target[p]] = inode[target[p]]
         /\ \A j \in Installers : \A p \in DOMAIN staging[j] :
              j /= k => inode'[staging[j][p]] = inode[staging[j][p]]
<1>1. LayerTypes /\ ExistingInv /\ StagingInv /\ TargetInv
  BY DEF LayerInv
<1>2. inode' = [i \in Inodes |-> IF i \in Range(staging[k]) /\ ~ Named(i, k)
                                 THEN [data |-> 0, mode |-> "free"] ELSE inode[i]]
  BY DEF Rollback
<1>3. [data |-> 0, mode |-> "free"] \in FileState /\ \A i \in Inodes : inode[i] \in FileState
  BY <1>1, FileStateIs DEF FileState, Modes
<1>4. inode' \in [Inodes -> FileState]
  BY <1>2, <1>3
<1>5. \A i \in Inodes : Named(i, k) => inode'[i] = inode[i]
  BY <1>2
<1>6. \A i \in Range(existing) : i \in Inodes /\ Named(i, k)
  BY <1>1, InstalledIs DEF Named
<1>7. \A p \in DOMAIN target : target[p] \in Inodes /\ Named(target[p], k)
  <2>1. SUFFICES ASSUME NEW p \in DOMAIN target PROVE target[p] \in Inodes /\ Named(target[p], k)
    OBVIOUS
  <2>2. present /= Nobody
    BY <1>1 DEF TargetInv
  <2>3. PICK j \in Installers : j = present
    BY <1>1, <2>2 DEF LayerTypes
  <2>4. p \in DOMAIN Target[j] /\ Serves(j, p, target[p])
    BY <1>1, <2>2, <2>3 DEF TargetInv
  <2>5. target[p] \in Inodes
    BY <1>1, <2>4, ServesIs
  <2> QED
    BY <2>5 DEF Named, Range
<1>8. \A j \in Installers : \A p \in DOMAIN staging[j] :
        j /= k => staging[j][p] \in Inodes /\ Named(staging[j][p], k)
  <2>1. \A j \in Installers : \A p \in DOMAIN staging[j] : staging[j][p] \in Inodes
    BY <1>1, ServesIs DEF StagingInv
  <2>2. \A j \in Installers : \A p \in DOMAIN staging[j] : staging[j][p] \in Range(staging[j])
    BY DEF Range
  <2> QED
    BY <2>1, <2>2 DEF Named
<1> QED
  BY <1>4, <1>5, <1>6, <1>7, <1>8

\* The staging directory goes, and with it the files that had no other name.
LEMMA RollbackInv == ASSUME LayerInv, NEW k \in Installers, Rollback(k) PROVE LayerInv'
<1>1. LayerTypes /\ ExistingInv /\ StagingInv /\ ApartInv /\ PlaceInv /\ TargetInv
  BY DEF LayerInv
<1>2. /\ inode' \in [Inodes -> FileState]
      /\ \A i \in Range(existing) : inode'[i] = inode[i]
      /\ \A p \in DOMAIN target : inode'[target[p]] = inode[target[p]]
      /\ \A j \in Installers : \A p \in DOMAIN staging[j] :
           j /= k => inode'[staging[j][p]] = inode[staging[j][p]]
  BY RollbackIs
<1>3. /\ UNCHANGED <<existing, payload, target, present, linkable, writes>>
      /\ at' \in [Installers -> Places] /\ at'[k] = "failed"
      /\ \A j \in Installers : j /= k => at'[j] = at[j]
  BY <1>1 DEF Rollback, Goto, LayerTypes, Places
<1>4. /\ DOMAIN staging' = Installers /\ DOMAIN staging'[k] = {}
      /\ \A j \in Installers : j /= k => staging'[j] = staging[j]
  BY <1>1, NoDirIsEmpty DEF LayerTypes, Rollback
<1>5. LayerTypes'
  BY <1>1, <1>2, <1>3, <1>4 DEF LayerTypes
<1>6. ExistingInv'
  <2>1. \A p \in DOMAIN Existing : inode'[existing[p]] = inode[existing[p]]
    BY <1>1, <1>2, InstalledIs
  <2> QED
    BY <1>1, <1>3, <2>1 DEF ExistingInv, InstalledMode, ReadOnly, IsInjective
<1>7. ASSUME NEW j \in Installers, NEW p \in DOMAIN Target[j], NEW i, Serves(j, p, i),
             inode'[i] = inode[i]
      PROVE  Serves(j, p, i)'
  BY <1>1, <1>3, <1>7, ServesIs, ServesStays
<1>8. StagingInv'
  <2>1. \A j \in Installers : \A p \in DOMAIN staging'[j] : \A i : i = staging'[j][p] =>
          p \in DOMAIN Target[j] /\ Serves(j, p, i)'
    BY <1>1, <1>2, <1>4, <1>7 DEF StagingInv
  <2> QED
    BY <2>1 DEF StagingInv
<1>9. ApartInv'
  <2>1. Range(existing)' = Range(existing)
    BY <1>3 DEF Range
  <2>2. ASSUME NEW j \in Installers, NEW p \in DOMAIN staging'[j], NEW q \in DOMAIN target',
               staging'[j][p] = target'[q]
        PROVE  staging'[j][p] \in Range(existing)
    <3>1. j /= k /\ staging'[j] = staging[j] /\ target' = target
      BY <1>3, <1>4, <2>2
    <3> QED
      BY <1>1, <2>2, <3>1 DEF ApartInv
  <2>3. ASSUME NEW j \in Installers, NEW m \in Installers,
               NEW p \in DOMAIN staging'[j], NEW q \in DOMAIN staging'[m],
               staging'[j][p] = staging'[m][q], staging'[j][p] \notin Range(existing)
        PROVE  j = m /\ p = q
    <3>1. j /= k /\ m /= k /\ staging'[j] = staging[j] /\ staging'[m] = staging[m]
      BY <1>4, <2>3
    <3> QED
      BY <1>1, <2>3, <3>1 DEF ApartInv
  <2> QED
    BY <2>1, <2>2, <2>3 DEF ApartInv
<1>10. PlaceInv'
  <2>1. \A j \in Installers : j /= k => /\ Remaining(j)' = Remaining(j) /\ NextPath(j)' = NextPath(j)
                                        /\ \A p : Linked(j, p)' <=> Linked(j, p)
    BY <1>4 DEF Remaining, NextPath, Linked, ReadOnly
  <2> QED
    BY <1>1, <1>2, <1>3, <1>4, <2>1 DEF PlaceInv, ReadOnly
<1>11. TargetInv'
  <2>1. SUFFICES ASSUME present /= Nobody PROVE TargetInv'
    BY <1>1, <1>3 DEF TargetInv
  <2>2. PICK j \in Installers : j = present
    BY <1>1, <2>1 DEF LayerTypes
  <2>3. DOMAIN target = DOMAIN Target[j]
    BY <1>1, <2>1, <2>2 DEF TargetInv
  <2>4. \A p \in DOMAIN target : \A i : i = target[p] =>
          Serves(j, p, i)' /\ inode'[i].mode = ReadOnly(Target[j][p])
    BY <1>1, <1>2, <1>7, <2>1, <2>2, <2>3 DEF TargetInv
  <2> QED
    BY <1>3, <2>1, <2>2, <2>3, <2>4 DEF TargetInv, ReadOnly
<1> QED
  BY <1>5, <1>6, <1>8, <1>9, <1>10, <1>11 DEF LayerInv

\* What another process writes: nothing but an installed file that anybody may
\* write, which no installer links.
LEMMA ScribbleIs ==
  ASSUME LayerInv, Scribble
  PROVE  /\ inode' \in [Inodes -> FileState]
         /\ \A i \in Inodes : inode'[i].mode = inode[i].mode
         /\ \A i \in Inodes : inode[i].mode /= "rw-" => inode'[i] = inode[i]
<1>1. LayerTypes /\ ExistingInv
  BY DEF LayerInv
<1>2. CASE UNCHANGED inode
  BY <1>1, <1>2 DEF LayerTypes
<1>3. CASE \E i \in Range(existing), d \in Data :
             inode[i].mode = "rw-" /\ inode' = [inode EXCEPT ![i].data = d]
  <2>1. PICK i \in Range(existing) : \E d \in Data :
             inode[i].mode = "rw-" /\ inode' = [inode EXCEPT ![i].data = d]
    BY <1>3
  <2>2. PICK d \in Data : inode[i].mode = "rw-" /\ inode' = [inode EXCEPT ![i].data = d]
    BY <2>1
  <2>3. i \in Inodes
    BY <1>1, InstalledIs
  <2>4. PICK f \in FileState : f = inode[i]
    BY <1>1, <2>3, FileStateIs
  <2>5. [f EXCEPT !.data = d] \in FileState /\ [f EXCEPT !.data = d].mode = f.mode
    BY DEF FileState
  <2>6. inode' = [inode EXCEPT ![i] = [f EXCEPT !.data = d]]
    BY <2>2, <2>4
  <2> QED
    BY <1>1, <2>2, <2>3, <2>4, <2>5, <2>6 DEF LayerTypes
<1> QED
  BY <1>2, <1>3 DEF Scribble

\* A write of another process keeps the invariant.
LEMMA ScribbleInv == ASSUME LayerInv, Scribble PROVE LayerInv'
<1>1. LayerTypes /\ ExistingInv /\ StagingInv /\ ApartInv /\ PlaceInv /\ TargetInv
  BY DEF LayerInv
<1>2. /\ inode' \in [Inodes -> FileState]
      /\ \A i \in Inodes : inode'[i].mode = inode[i].mode
      /\ \A i \in Inodes : inode[i].mode /= "rw-" => inode'[i] = inode[i]
  BY ScribbleIs
<1>3. UNCHANGED <<existing, target, present, at, staging, linkable>>
  BY DEF Scribble
<1>4. LayerTypes'
  BY <1>1, <1>2, <1>3 DEF LayerTypes
<1>5. ExistingInv'
  <2>1. \A p \in DOMAIN Existing :
          /\ inode'[existing[p]].mode = inode[existing[p]].mode
          /\ p \notin LooseModes => inode'[existing[p]] = inode[existing[p]]
    BY <1>1, <1>2, InstalledIs, ModesDiffer DEF ExistingInv, InstalledMode
  <2> QED
    BY <1>1, <1>3, <2>1 DEF ExistingInv, InstalledMode, ReadOnly, IsInjective
<1>6. ASSUME NEW j \in Installers, NEW p \in DOMAIN Target[j], NEW i, Serves(j, p, i)
      PROVE  Serves(j, p, i)' /\ inode'[i] = inode[i]
  <2>1. i \in Inodes /\ inode[i].mode \in InUse
    BY <1>1, <1>6, ServesIs
  <2>2. inode'[i] = inode[i]
    BY <1>2, <2>1, ModesDiffer
  <2> QED
    BY <1>3, <1>6, <2>1, <2>2, ServesStays
<1>7. \A j \in Installers : \A p \in DOMAIN staging[j] : \A i : i = staging[j][p] =>
        p \in DOMAIN Target[j] /\ Serves(j, p, i)' /\ inode'[i] = inode[i]
  BY <1>1, <1>6 DEF StagingInv
<1>8. StagingInv' /\ ApartInv'
  BY <1>1, <1>3, <1>7 DEF StagingInv, ApartInv, Range
<1>9. PlaceInv'
  <2>1. \A j \in Installers : /\ Remaining(j)' = Remaining(j) /\ NextPath(j)' = NextPath(j)
                              /\ \A p : Linked(j, p)' <=> Linked(j, p)
    BY <1>3 DEF Remaining, NextPath, Linked, ReadOnly
  <2> QED
    BY <1>1, <1>3, <1>7, <2>1 DEF PlaceInv, ReadOnly
<1>10. TargetInv'
  <2>1. SUFFICES ASSUME present /= Nobody PROVE TargetInv'
    BY <1>1, <1>3 DEF TargetInv
  <2>2. PICK j \in Installers : j = present
    BY <1>1, <2>1 DEF LayerTypes
  <2>3. DOMAIN target = DOMAIN Target[j]
    BY <1>1, <2>1, <2>2 DEF TargetInv
  <2>4. \A p \in DOMAIN target : \A i : i = target[p] =>
          Serves(j, p, i)' /\ inode'[i].mode = ReadOnly(Target[j][p])
    BY <1>1, <1>6, <2>1, <2>2, <2>3 DEF TargetInv
  <2> QED
    BY <1>3, <2>1, <2>2, <2>3, <2>4 DEF TargetInv, ReadOnly
<1> QED
  BY <1>4, <1>5, <1>8, <1>9, <1>10 DEF LayerInv

-----------------------------------------------------------------------------
(* The theorems about layered installs. *)

\* Every step keeps the invariant.
LEMMA LayerSteps == LayerInv /\ [LayerNext]_layerVars => LayerInv'
<1>1. CASE LayerInv /\ UNCHANGED layerVars
  <2>1. /\ inode' = inode /\ existing' = existing /\ target' = target /\ present' = present
        /\ at' = at /\ staging' = staging /\ linkable' = linkable
    BY <1>1 DEF layerVars
  <2>2. (LayerTypes /\ ExistingInv /\ StagingInv)'
    BY <1>1, <2>1 DEF LayerInv, LayerTypes, ExistingInv, StagingInv, InstalledMode, ReadOnly,
                      IsInjective, Serves, Linked, Range
  <2>3. ApartInv' /\ TargetInv'
    BY <1>1, <2>1 DEF LayerInv, ApartInv, TargetInv, ReadOnly, Serves, Linked, Range
  <2>4. \A j \in Installers : /\ Remaining(j)' = Remaining(j) /\ NextPath(j)' = NextPath(j)
                              /\ \A p : Linked(j, p)' <=> Linked(j, p)
    BY <2>1 DEF Remaining, NextPath, Linked, ReadOnly
  <2>5. PlaceInv'
    BY <1>1, <2>1, <2>4 DEF LayerInv, PlaceInv, ReadOnly
  <2> QED
    BY <2>2, <2>3, <2>5 DEF LayerInv
<1>2. ASSUME LayerInv, NEW k \in Installers,
             \/ Begin(k) \/ Refused(k) \/ VerifySource(k) \/ Link(k)
             \/ Copy(k) \/ VerifyAll(k) \/ Enforce(k) \/ Rename(k)
             \/ Fails(k) \/ Rollback(k) \/ Killed(k)
      PROVE  LayerInv'
  BY <1>2, BeginInv, RefusedInv, VerifySourceInv, LinkFileInv, CopyInv, VerifyAllInv, EnforceInv,
     RenameDirInv, FailsInv, RollbackInv, KilledInv
<1> QED
  BY <1>1, <1>2, ScribbleInv DEF LayerNext

\* The invariant of layered installs, for any number of installers and any
\* indexes.
THEOREM LayerInvariant == LayerSpec => []LayerInv
  BY LayerInitially, LayerSteps, PTL DEF LayerSpec

\* Once it has its name, the target directory is the release of one installer,
\* complete, verified and read-only, whoever wrote to the sources or was
\* killed (alrios_layering_install).
THEOREM TargetsAreReleases == LayerSpec => []TargetIsRelease
<1>1. LayerInv => TargetIsRelease
  <2> SUFFICES ASSUME LayerInv PROVE TargetIsRelease
    OBVIOUS
  <2>1. LayerTypes /\ ExistingInv /\ StagingInv /\ TargetInv
    BY DEF LayerInv
  <2>2. \A k \in Installers : Range(staging[k]) \subseteq Inodes
    BY <2>1, ServesIs DEF StagingInv, Range
  <2>3. LayerTypeOK
    BY <2>1, <2>2 DEF LayerTypes, LayerTypeOK, FileState, Modes
  <2>4. ASSUME present /= Nobody
        PROVE  /\ DOMAIN target = DOMAIN Target[present]
               /\ \A p \in DOMAIN target : /\ inode[target[p]].data = Target[present][p].data
                                           /\ inode[target[p]].mode = ReadOnly(Target[present][p])
    <3>1. PICK k \in Installers : k = present
      BY <2>1, <2>4 DEF LayerTypes
    <3>2. DOMAIN target = DOMAIN Target[k]
      BY <2>1, <2>4, <3>1 DEF TargetInv
    <3>3. \A p \in DOMAIN target : /\ Serves(k, p, target[p])
                                   /\ inode[target[p]].mode = ReadOnly(Target[k][p])
      BY <2>1, <2>4, <3>1 DEF TargetInv
    <3>4. \A p \in DOMAIN target : inode[target[p]].data = Target[k][p].data
      BY <2>1, <3>2, <3>3, ServesIs
    <3> QED
      BY <3>1, <3>2, <3>3, <3>4
  <2> QED
    BY <2>3, <2>4 DEF TargetIsRelease
<1> QED
  BY <1>1, LayerInvariant, PTL

\* No step of an installer changes a file of the installed release, nor a
\* target that is there (hard links share the inodes that
\* enforce_file_permissions and cleanup_staging work on).
THEOREM InstallsKeepExisting == LayerSpec => ExistingUntouched
<1>1. ASSUME LayerInv, LayerNext PROVE KeepsExisting
  <2>1. LayerTypes /\ ExistingInv
    BY <1>1 DEF LayerInv
  <2>2. \A i \in Range(existing) : i \in Inodes
    BY <2>1, InstalledIs
  <2>3. ASSUME NEW k \in Installers,
               \/ Begin(k) \/ Refused(k) \/ VerifySource(k) \/ Link(k)
               \/ VerifyAll(k) \/ Fails(k) \/ Killed(k)
        PROVE  KeepsExisting
    BY <2>3 DEF KeepsExisting, Begin, Refused, VerifySource, Link, VerifyAll, Fails, Killed
  <2>4. ASSUME NEW k \in Installers, Copy(k) PROVE KeepsExisting
    <3>1. UNCHANGED <<present, target>>
      BY <2>4 DEF Copy
    <3>2. \A i \in Inodes : inode[i].mode /= "free" => inode'[i] = inode[i]
      BY <2>1, <2>4 DEF Copy, LayerTypes
    <3> QED
      BY <2>1, <2>2, <3>1, <3>2, InstalledInUse DEF KeepsExisting
  <2>5. ASSUME NEW k \in Installers, Enforce(k) PROVE KeepsExisting
    <3>1. UNCHANGED <<present, target>>
      BY <2>5 DEF Enforce
    <3> QED
      BY <1>1, <2>5, <3>1, EnforceIs DEF KeepsExisting
  <2>6. ASSUME NEW k \in Installers, Rename(k) PROVE KeepsExisting
    BY <2>6 DEF KeepsExisting, Rename, TargetFree
  <2>7. ASSUME NEW k \in Installers, Rollback(k) PROVE KeepsExisting
    <3>1. UNCHANGED <<present, target>>
      BY <2>7 DEF Rollback
    <3> QED
      BY <1>1, <2>7, <3>1, RollbackIs DEF KeepsExisting
  <2>8. ASSUME Scribble PROVE KeepsExisting
    <3>1. UNCHANGED <<present, target>>
      BY <2>8 DEF Scribble
    <3> QED
      BY <1>1, <2>2, <2>8, <3>1, ScribbleIs DEF KeepsExisting
  <2> QED
    BY <1>1, <2>3, <2>4, <2>5, <2>6, <2>7, <2>8 DEF LayerNext
<1>2. LayerInv /\ [LayerNext]_layerVars => [KeepsExisting]_layerVars
  BY <1>1
<1> QED
  BY <1>2, LayerInvariant, PTL DEF LayerSpec, ExistingUntouched

(***************************************************************************)
(* The security epoch: the record, its setters and the daemon              *)
(***************************************************************************)
SetterPlaces == {"idle", "lock", "read", "write", "sync"}
DaemonPlaces == {"off", "create", "created", "monitor", "loop", "saved"}
DaemonType == [pc : DaemonPlaces, state : StateType, last : Times \union {0},
               mono : 0 .. MaxClock, ticks : Nat]

\* The types, in the form the proofs use.
EpochTypes ==
  /\ file \in FileType /\ ondisk \subseteq FileType /\ granted \in StateType
  /\ lock \in Setters \union {NoOne}
  /\ setter \in [Setters -> [pc : SetterPlaces, state : StateType]]
  /\ daemon \in DaemonType
  /\ realtime \in Times /\ monotonic \in 1..MaxClock
  /\ losses \in Nat /\ provisioned \in BOOLEAN

\* A tag is of a time that has been.
Past(s) == s.tag[3] <= monotonic

TagsPast ==
  /\ Past(file.state) /\ \A c \in ondisk : Past(c.state)
  /\ \A p \in Setters : Past(setter[p].state)
  /\ Past(daemon.state)
  /\ daemon.mono <= monotonic
  /\ daemon.pc = "loop" => daemon.state.tag[3] <= daemon.mono
  /\ daemon.pc /= "saved"

\* Whoever decides and writes has the lock, and what it writes is intact.
SetterInv ==
  \A p \in Setters :
    /\ setter[p].pc \in {"read", "write", "sync"} => lock = p
    /\ setter[p].pc \in {"write", "sync"} => Intact(setter[p].state) /\ setter[p].state.mono >= 1

\* The epoch and the anchor of s are not below those of t.
NotBelow(s, t) == s.epoch >= t.epoch /\ s.at >= t.at

\* On a provisioned system the daemon writes nothing, and every record that
\* reads as intact is not below what was granted; a setter about to write has
\* read such a record, which is still there.
ProvisionedInv ==
  provisioned =>
    /\ \A c \in ondisk \union {file} : c.kind = "record" /\ (Readable(c) => NotBelow(c.state, granted))
    /\ daemon.pc \notin {"create", "created"}
    /\ \A p \in Setters :
         /\ setter[p].pc = "write" => Readable(file) /\ NotBelow(setter[p].state, file.state)
         /\ setter[p].pc = "sync" => file = Holding(setter[p].state)

EpochInv == EpochTypes /\ TagsPast /\ SetterInv /\ ProvisionedInv

-----------------------------------------------------------------------------
(* States and files. *)

AnEpoch == Epochs \union {0, 1}

\* The values in a state are numbers.
LEMMA StateNumbers ==
  ASSUME NEW s \in StateType
  PROVE  /\ s.epoch \in Nat /\ s.at \in Nat /\ s.mono \in 0..MaxClock /\ s.tag[3] \in 0..MaxClock
         /\ MaxClock \in Nat \ {0}
<1>1. s.epoch \in Epochs \union {0, 1} /\ s.at \in Times \union {0} /\ s.mono \in 0..MaxClock
  BY DEF StateType
<1>2. s.tag \in (Epochs \union {0, 1}) \X (Times \union {0}) \X (0 .. MaxClock)
  BY DEF StateType
<1>3. s.tag[3] \in 0..MaxClock
  BY <1>2
<1>4. Epochs \union {0, 1} \subseteq Nat /\ Times \union {0} \subseteq Nat
  <2>1. Epochs \subseteq Nat /\ Times \subseteq Nat
    BY EpochAssumption
  <2>2. 0 \in Nat /\ 1 \in Nat
    OBVIOUS
  <2> QED
    BY <2>1, <2>2
<1>5. MaxClock \in Nat \ {0}
  BY EpochAssumption
<1> QED
  BY <1>1, <1>3, <1>4, <1>5

\* What alrios_epoch_state_init makes is intact and of now.
LEMMA StateOfIs ==
  ASSUME realtime \in Times, monotonic \in 1..MaxClock, NEW e \in AnEpoch
  PROVE  /\ StateOf(e) \in StateType /\ StateOf(e).epoch = e /\ StateOf(e).at = realtime
         /\ StateOf(e).mono = monotonic /\ Intact(StateOf(e)) /\ Past(StateOf(e))
         /\ StateOf(e).mono >= 1
<1> DEFINE m == [epoch |-> e, at |-> realtime, mono |-> monotonic, tag |-> WrongTag]
           n == [m EXCEPT !.tag = <<e, realtime, monotonic>>]
<1>1. StateOf(e) = n
  BY DEF StateOf, Sealed, Body
<1>2. monotonic \in 0..MaxClock /\ monotonic >= 1 /\ monotonic <= monotonic
  BY EpochAssumption
<1>3. <<e, realtime, monotonic>> \in AnEpoch \X (Times \union {0}) \X (0..MaxClock)
  BY <1>2
<1>4. /\ n.epoch = e /\ n.at = realtime /\ n.mono = monotonic
      /\ n.tag = <<e, realtime, monotonic>>
      /\ n = [epoch |-> e, at |-> realtime, mono |-> monotonic, tag |-> <<e, realtime, monotonic>>]
  OBVIOUS
<1>5. n \in StateType
  BY <1>2, <1>3, <1>4 DEF StateType, AnEpoch
<1> HIDE DEF n
<1> QED
  BY <1>1, <1>2, <1>4, <1>5 DEF Intact, Past, Body

\* The state of nothing.
LEMMA NoStateIs ==
  /\ NoState \in StateType /\ NoState.tag[3] = 0
  /\ EmptyFile \in FileType /\ ShortFile \in FileType /\ Missing \in FileType
  /\ EmptyFile.state = NoState /\ ShortFile.state = NoState /\ Missing.state = NoState
  /\ ~ Readable(EmptyFile) /\ ~ Readable(ShortFile) /\ ~ Readable(Missing)
<1>1. 0 \in 0..MaxClock /\ 0 \in AnEpoch /\ 0 \in Times \union {0}
  BY EpochAssumption DEF AnEpoch
<1>2. NoState \in StateType /\ NoState.tag[3] = 0
  BY <1>1 DEF NoState, StateType, WrongTag, AnEpoch
<1> QED
  BY <1>2 DEF EmptyFile, ShortFile, Missing, FileType, Readable, ReadResult

\* A file with a record.
LEMMA HoldingIs ==
  ASSUME NEW s \in StateType
  PROVE  /\ Holding(s) \in FileType /\ Holding(s).kind = "record" /\ Holding(s).state = s
         /\ Readable(Holding(s)) <=> Intact(s)
  BY DEF Holding, FileType, Readable, ReadResult

\* What an unfinished write leaves is never taken for a record.
LEMMA TornIs ==
  ASSUME NEW c \in FileType, NEW s \in StateType, s.mono >= 1
  PROVE  /\ Torn(c, s) \in FileType /\ ~ Readable(Torn(c, s)) /\ Torn(c, s).state.tag[3] = 0
         /\ c.kind = "record" => Torn(c, s).kind = "record"
<1>1. CASE c.kind /= "record"
  BY <1>1, NoStateIs DEF Torn
<1>2. CASE c.kind = "record"
  <2> DEFINE u == [s EXCEPT !.tag = WrongTag]
  <2>1. 0 \in 0..MaxClock /\ 0 \in AnEpoch /\ 0 \in Times \union {0}
    BY EpochAssumption DEF AnEpoch
  <2>2. WrongTag \in AnEpoch \X (Times \union {0}) \X (0..MaxClock) /\ WrongTag[3] = 0
    BY <2>1 DEF WrongTag
  <2>3. u \in StateType /\ u.tag = WrongTag /\ u.mono = s.mono
    BY <2>2 DEF StateType, AnEpoch
  <2> HIDE DEF u
  <2>4. Body(u)[3] = s.mono /\ s.mono /= 0
    BY <2>3, StateNumbers DEF Body
  <2>5. ~ Intact(u)
    BY <2>2, <2>3, <2>4 DEF Intact
  <2>6. Torn(c, s) = Holding(u)
    BY <1>2 DEF Torn, u
  <2> QED
    BY <1>2, <2>2, <2>3, <2>5, <2>6, HoldingIs
<1> QED
  BY <1>1, <1>2

\* A record that is read as intact.
LEMMA ReadableIs ==
  ASSUME NEW c \in FileType
  PROVE  Readable(c) <=> c.kind = "record" /\ Intact(c.state)
  BY DEF Readable, ReadResult

\* The order of states.
LEMMA NotBelowTrans ==
  ASSUME NEW s \in StateType, NEW t \in StateType, NEW u \in StateType,
         NotBelow(s, t), NotBelow(t, u)
  PROVE  NotBelow(s, u)
  BY StateNumbers DEF NotBelow

-----------------------------------------------------------------------------
(* The steps. *)

\* What the steps of a setter leave alone.
LEMMA StepIs ==
  ASSUME EpochTypes, NEW p \in Setters, NEW pc \in SetterPlaces, NEW s \in StateType, Step(p, pc, s)
  PROVE  /\ setter' \in [Setters -> [pc : SetterPlaces, state : StateType]]
         /\ setter'[p].pc = pc /\ setter'[p].state = s
         /\ \A q \in Setters : q /= p => setter'[q] = setter[q]
  BY DEF EpochTypes, Step

\* A setter that has ended its call.
LEMMA IdleIs ==
  ASSUME EpochTypes, NEW p \in Setters, setter' = [setter EXCEPT ![p] = Idle]
  PROVE  /\ setter' \in [Setters -> [pc : SetterPlaces, state : StateType]]
         /\ setter'[p].pc = "idle" /\ setter'[p].state = NoState
         /\ \A q \in Setters : q /= p => setter'[q] = setter[q]
  BY NoStateIs DEF EpochTypes, Idle, SetterPlaces

\* At first.
LEMMA EpochInitially == ASSUME EpochInit, provisioned \in BOOLEAN PROVE EpochInv
<1>1. /\ realtime \in Times /\ monotonic = 1 /\ monotonic \in 1..MaxClock
      /\ ondisk = {file} /\ lock = NoOne
      /\ granted = file.state /\ losses = 0 /\ setter = [p \in Setters |-> Idle]
      /\ daemon = DaemonOff /\ file = IF provisioned THEN Holding(StateOf(1)) ELSE Missing
  BY EpochAssumption DEF EpochInit
<1>2. 1 \in AnEpoch
  BY DEF AnEpoch
<1>3. file \in FileType /\ Past(file.state) /\ file.state \in StateType
  <2>1. CASE provisioned
    BY <1>1, <1>2, <2>1, StateOfIs, HoldingIs
  <2>2. CASE ~ provisioned
    BY <1>1, <2>2, NoStateIs DEF Past
  <2> QED
    BY <2>1, <2>2
<1>4. Past(NoState) /\ NoState \in StateType /\ 0 \in 0..MaxClock /\ 0 <= monotonic
  BY <1>1, NoStateIs, EpochAssumption DEF Past
<1>5. EpochTypes
  BY <1>1, <1>3, <1>4 DEF EpochTypes, Idle, DaemonOff, SetterPlaces, DaemonPlaces, DaemonType
<1>6. TagsPast
  BY <1>1, <1>3, <1>4 DEF TagsPast, Idle, DaemonOff
<1>7. SetterInv
  BY <1>1 DEF SetterInv, Idle
<1>8. ProvisionedInv
  <2>1. CASE provisioned
    <3>1. file.kind = "record" /\ NotBelow(file.state, granted)
      BY <1>1, <1>2, <1>3, <2>1, StateOfIs, HoldingIs, StateNumbers DEF NotBelow
    <3> QED
      BY <1>1, <3>1 DEF ProvisionedInv, Idle, DaemonOff
  <2> QED
    BY <2>1 DEF ProvisionedInv
<1> QED
  BY <1>5, <1>6, <1>7, <1>8 DEF EpochInv

\* open: a file that was missing is empty now.
LEMMA OpenInv ==
  ASSUME EpochInv, NEW p \in Setters, Open(p), provisioned' = provisioned
  PROVE  EpochInv'
<1>1. PICK e \in Epochs : Step(p, "lock", [NoState EXCEPT !.epoch = e])
  BY DEF Open
<1> DEFINE s == [NoState EXCEPT !.epoch = e]
<1>2. s \in StateType /\ s.tag = NoState.tag
  BY NoStateIs DEF StateType
<1>3. EpochTypes /\ TagsPast /\ SetterInv /\ ProvisionedInv
  BY DEF EpochInv
<1>4. /\ setter' \in [Setters -> [pc : SetterPlaces, state : StateType]]
      /\ setter'[p].pc = "lock" /\ setter'[p].state = s
      /\ \A q \in Setters : q /= p => setter'[q] = setter[q]
  <2> HIDE DEF s
  <2> QED
    BY <1>1, <1>2, <1>3, StepIs DEF SetterPlaces, s
<1> HIDE DEF s
<1>5. /\ file' \in {file, EmptyFile} /\ ondisk' = ondisk \union {file'}
      /\ file.kind = "record" => file' = file
      /\ UNCHANGED <<lock, daemon, realtime, monotonic, granted, losses, provisioned>>
  BY DEF Open
<1>6. Past(s) /\ Past(NoState)
  BY <1>2, <1>3, NoStateIs DEF Past, EpochTypes
<1>7. EpochTypes'
  BY <1>3, <1>4, <1>5, NoStateIs DEF EpochTypes
<1>8. TagsPast'
  BY <1>3, <1>4, <1>5, <1>6, NoStateIs DEF TagsPast, Past
<1>9. SetterInv'
  BY <1>3, <1>4, <1>5 DEF SetterInv
<1>10. ProvisionedInv'
  BY <1>3, <1>4, <1>5 DEF ProvisionedInv
<1> QED
  BY <1>7, <1>8, <1>9, <1>10 DEF EpochInv

\* The lock.
LEMMA LockInv ==
  ASSUME EpochInv, NEW p \in Setters, Lock(p), provisioned' = provisioned
  PROVE  EpochInv'
<1>3. EpochTypes /\ TagsPast /\ SetterInv /\ ProvisionedInv
  BY DEF EpochInv
<1>4. /\ setter' \in [Setters -> [pc : SetterPlaces, state : StateType]]
      /\ setter'[p].pc = "read" /\ setter'[p].state = setter[p].state
      /\ \A q \in Setters : q /= p => setter'[q] = setter[q]
  <2>1. setter[p].state \in StateType /\ Step(p, "read", setter[p].state)
    BY <1>3 DEF EpochTypes, Lock
  <2> QED
    BY <1>3, <2>1, StepIs DEF SetterPlaces
<1>5. /\ lock = NoOne /\ lock' = p
      /\ UNCHANGED <<file, ondisk, daemon, realtime, monotonic, granted, losses, provisioned>>
  BY DEF Lock
<1>6. \A q \in Setters : setter[q].pc \notin {"read", "write", "sync"}
  BY <1>3, <1>5, EpochAssumption DEF SetterInv
<1>7. EpochTypes'
  BY <1>3, <1>4, <1>5 DEF EpochTypes
<1>8. TagsPast'
  BY <1>3, <1>4, <1>5 DEF TagsPast, Past
<1>9. SetterInv'
  BY <1>4, <1>5, <1>6 DEF SetterInv
<1>10. ProvisionedInv'
  BY <1>3, <1>4, <1>5, <1>6 DEF ProvisionedInv
<1> QED
  BY <1>7, <1>8, <1>9, <1>10 DEF EpochInv

\* A setter that ends, having changed nothing or left the beginning of a record.
LEMMA EndInv ==
  ASSUME EpochInv, NEW p \in Setters, setter' = [setter EXCEPT ![p] = Idle],
         lock' \in Setters \union {NoOne}, \A q \in Setters : q /= p /\ lock = q => lock' = q,
         losses' \in Nat,
         UNCHANGED <<daemon, realtime, monotonic, granted, provisioned>>,
         \/ UNCHANGED <<file, ondisk>>
         \/ /\ setter[p].pc = "write" /\ file' = Torn(file, setter[p].state)
            /\ ondisk' = ondisk \union {file'}
  PROVE  EpochInv'
<1>3. EpochTypes /\ TagsPast /\ SetterInv /\ ProvisionedInv
  BY DEF EpochInv
<1>4. /\ setter' \in [Setters -> [pc : SetterPlaces, state : StateType]]
      /\ setter'[p].pc = "idle" /\ setter'[p].state = NoState
      /\ \A q \in Setters : q /= p => setter'[q] = setter[q]
  BY <1>3, IdleIs
<1>5. \/ UNCHANGED <<file, ondisk>>
      \/ /\ lock = p /\ ondisk' = ondisk \union {file'} /\ file' \in FileType /\ ~ Readable(file')
         /\ file'.state.tag[3] = 0 /\ (file.kind = "record" => file'.kind = "record")
  <2>1. CASE UNCHANGED <<file, ondisk>>
    BY <2>1
  <2>2. CASE /\ setter[p].pc = "write" /\ file' = Torn(file, setter[p].state)
             /\ ondisk' = ondisk \union {file'}
    <3>1. /\ setter[p].state \in StateType /\ setter[p].state.mono >= 1 /\ lock = p
          /\ file \in FileType
      BY <1>3, <2>2 DEF EpochTypes, SetterInv
    <3> QED
      BY <2>2, <3>1, TornIs
  <2> QED
    BY <2>1, <2>2
<1>6. Past(NoState) /\ NoState \in StateType /\ monotonic \in Nat
  BY <1>3, NoStateIs, EpochAssumption DEF Past, EpochTypes
<1>7. EpochTypes'
  BY <1>3, <1>4, <1>5 DEF EpochTypes
<1>8. TagsPast'
  <2>1. Past(file'.state) /\ \A c \in ondisk' : Past(c.state)
    <3>1. CASE UNCHANGED <<file, ondisk>>
      BY <1>3, <3>1 DEF TagsPast
    <3>2. CASE ondisk' = ondisk \union {file'} /\ file'.state.tag[3] = 0
      BY <1>3, <1>6, <3>2 DEF TagsPast, Past
    <3> QED
      BY <1>5, <3>1, <3>2
  <2>2. \A q \in Setters : Past(setter'[q].state)
    BY <1>3, <1>4, <1>6 DEF TagsPast
  <2> QED
    BY <1>3, <2>1, <2>2 DEF TagsPast, Past
<1>9. SetterInv'
  BY <1>3, <1>4 DEF SetterInv
<1>10. ProvisionedInv'
  <2>1. CASE UNCHANGED <<file, ondisk>>
    BY <1>3, <1>4, <2>1 DEF ProvisionedInv
  <2>2. CASE /\ lock = p /\ ondisk' = ondisk \union {file'} /\ file' \in FileType /\ ~ Readable(file')
             /\ file'.state.tag[3] = 0 /\ (file.kind = "record" => file'.kind = "record")
    <3>1. \A q \in Setters : q /= p => setter[q].pc \notin {"write", "sync"}
      BY <1>3, <2>2 DEF SetterInv
    <3> QED
      BY <1>3, <1>4, <2>2, <3>1 DEF ProvisionedInv, Readable, ReadResult
  <2> QED
    BY <1>5, <2>1, <2>2
<1> QED
  BY <1>7, <1>8, <1>9, <1>10 DEF EpochInv

\* The verdict on what the file holds.
LEMMA DecideInv ==
  ASSUME EpochInv, NEW p \in Setters, Decide(p), provisioned' = provisioned
  PROVE  EpochInv'
<1>1. PICK e \in AnEpoch : e = setter[p].state.epoch
  BY DEF EpochInv, EpochTypes, StateType, AnEpoch
<1>3. EpochTypes /\ TagsPast /\ SetterInv /\ ProvisionedInv
  BY DEF EpochInv
<1>5. /\ setter[p].pc = "read" /\ lock = p
      /\ UNCHANGED <<file, ondisk, daemon, realtime, monotonic, granted, losses, provisioned>>
  BY <1>3 DEF Decide, SetterInv
<1>6. CASE setter' = [setter EXCEPT ![p] = Idle] /\ lock' = NoOne
  BY <1>3, <1>5, <1>6, EndInv DEF EpochTypes
<1>7. CASE /\ Step(p, "write", StateOf(e)) /\ UNCHANGED lock
           /\ \/ file.kind = "empty"
              \/ Readable(file) /\ AdvanceResult(file.state, e) = "ok"
  <2>1. /\ StateOf(e) \in StateType /\ StateOf(e).epoch = e /\ StateOf(e).at = realtime
        /\ Intact(StateOf(e)) /\ Past(StateOf(e)) /\ StateOf(e).mono >= 1
    BY <1>3, StateOfIs DEF EpochTypes
  <2>2. PICK s \in StateType : s = StateOf(e)
    BY <2>1
  <2>3. /\ setter' \in [Setters -> [pc : SetterPlaces, state : StateType]]
        /\ setter'[p].pc = "write" /\ setter'[p].state = s
        /\ \A q \in Setters : q /= p => setter'[q] = setter[q]
    BY <1>3, <1>7, <2>2, StepIs DEF SetterPlaces
  <2>4. provisioned => Readable(file) /\ NotBelow(s, file.state)
    <3>1. SUFFICES ASSUME provisioned PROVE Readable(file) /\ NotBelow(s, file.state)
      OBVIOUS
    <3>2. Readable(file) /\ AdvanceResult(file.state, e) = "ok"
      BY <1>3, <1>7, <3>1 DEF ProvisionedInv
    <3>3. ~ e < file.state.epoch /\ ~ realtime < file.state.at
      BY <3>2 DEF AdvanceResult
    <3>4. file.state \in StateType /\ e \in Nat /\ realtime \in Nat
      BY <1>3, EpochAssumption DEF EpochTypes, FileType, AnEpoch
    <3> QED
      BY <2>1, <2>2, <3>2, <3>3, <3>4, StateNumbers DEF NotBelow
  <2>5. EpochTypes'
    BY <1>3, <1>5, <1>7, <2>3 DEF EpochTypes
  <2>6. TagsPast'
    BY <1>3, <1>5, <2>1, <2>2, <2>3 DEF TagsPast, Past
  <2>7. SetterInv'
    BY <1>3, <1>5, <1>7, <2>1, <2>2, <2>3 DEF SetterInv, Intact, Body
  <2>8. ProvisionedInv'
    BY <1>3, <1>5, <2>3, <2>4 DEF ProvisionedInv, Readable, ReadResult, Intact, Body
  <2> QED
    BY <2>5, <2>6, <2>7, <2>8 DEF EpochInv
<1>8. ~ Readable(file) => ReadResult(file) /= "ok"
  BY DEF Readable
<1> QED
  BY <1>1, <1>6, <1>7, <1>8 DEF Decide

\* The record is written: it is not below what it replaces.
LEMMA SetterWriteInv ==
  ASSUME EpochInv, NEW p \in Setters, SetterWrite(p), provisioned' = provisioned
  PROVE  EpochInv'
<1>1. PICK s \in StateType : s = setter[p].state
  BY DEF EpochInv, EpochTypes
<1>3. EpochTypes /\ TagsPast /\ SetterInv /\ ProvisionedInv
  BY DEF EpochInv
<1>4. /\ setter' \in [Setters -> [pc : SetterPlaces, state : StateType]]
      /\ setter'[p].pc = "sync" /\ setter'[p].state = s
      /\ \A q \in Setters : q /= p => setter'[q] = setter[q]
  BY <1>1, <1>3, StepIs DEF SetterPlaces, SetterWrite
<1>5. /\ setter[p].pc = "write" /\ lock = p /\ Intact(s) /\ s.mono >= 1 /\ Past(s)
      /\ file' = Holding(s) /\ ondisk' = ondisk \union {file', Torn(file, s)}
      /\ UNCHANGED <<lock, daemon, realtime, monotonic, granted, losses, provisioned>>
  BY <1>1, <1>3 DEF SetterWrite, Write, SetterInv, TagsPast
<1>6. PICK t \in FileType : /\ t = Torn(file, s) /\ ~ Readable(t) /\ t.state.tag[3] = 0
                            /\ file.kind = "record" => t.kind = "record"
  BY <1>3, <1>5, TornIs DEF EpochTypes
<1>7. file' \in FileType /\ file'.kind = "record" /\ file'.state = s /\ Readable(file')
  BY <1>5, HoldingIs
<1>8. EpochTypes'
  BY <1>3, <1>4, <1>5, <1>6, <1>7 DEF EpochTypes
<1>9. TagsPast'
  <2>1. monotonic \in Nat
    BY <1>3, EpochAssumption DEF EpochTypes
  <2> QED
    BY <1>3, <1>4, <1>5, <1>6, <1>7, <2>1 DEF TagsPast, Past
<1>10. SetterInv'
  BY <1>3, <1>4, <1>5 DEF SetterInv
<1>11. ProvisionedInv'
  <2>1. SUFFICES ASSUME provisioned PROVE ProvisionedInv'
    BY <1>5 DEF ProvisionedInv
  <2>2. NotBelow(s, granted)
    <3>1. Readable(file) /\ NotBelow(s, file.state) /\ NotBelow(file.state, granted)
      BY <1>1, <1>3, <1>5, <2>1 DEF ProvisionedInv
    <3>2. file.state \in StateType /\ granted \in StateType
      BY <1>3 DEF EpochTypes, FileType
    <3> QED
      BY <3>1, <3>2, NotBelowTrans
  <2>3. \A c \in (ondisk \union {file})' :
          c.kind = "record" /\ (Readable(c) => NotBelow(c.state, granted))
    BY <1>3, <1>5, <1>6, <1>7, <2>1, <2>2 DEF ProvisionedInv
  <2>4. \A q \in Setters : q /= p => setter'[q].pc \notin {"write", "sync"}
    BY <1>3, <1>4, <1>5 DEF SetterInv
  <2> QED
    BY <1>3, <1>4, <1>5, <2>1, <2>3, <2>4 DEF ProvisionedInv, Readable, ReadResult
<1> QED
  BY <1>8, <1>9, <1>10, <1>11 DEF EpochInv

\* The record is on the disk and the epoch granted.
LEMMA SetterSyncInv ==
  ASSUME EpochInv, NEW p \in Setters, SetterSync(p), provisioned' = provisioned
  PROVE  EpochInv'
<1>1. PICK s \in StateType : s = setter[p].state
  BY DEF EpochInv, EpochTypes
<1>3. EpochTypes /\ TagsPast /\ SetterInv /\ ProvisionedInv
  BY DEF EpochInv
<1>4. /\ setter' \in [Setters -> [pc : SetterPlaces, state : StateType]]
      /\ setter'[p].pc = "idle" /\ setter'[p].state = NoState
      /\ \A q \in Setters : q /= p => setter'[q] = setter[q]
  BY <1>3, IdleIs DEF SetterSync
<1>5. /\ setter[p].pc = "sync" /\ lock = p /\ ondisk' = {file} /\ granted' = s /\ lock' = NoOne
      /\ UNCHANGED <<file, daemon, realtime, monotonic, losses, provisioned>>
  BY <1>1, <1>3 DEF SetterSync, SetterInv
<1>6. Past(NoState)
  BY <1>3, NoStateIs, EpochAssumption DEF Past, EpochTypes
<1>7. \A q \in Setters : q /= p => setter[q].pc \notin {"read", "write", "sync"}
  BY <1>3, <1>5 DEF SetterInv
<1>8. EpochTypes'
  BY <1>3, <1>4, <1>5 DEF EpochTypes
<1>9. TagsPast'
  BY <1>3, <1>4, <1>5, <1>6 DEF TagsPast, Past
<1>10. SetterInv'
  BY <1>4, <1>7 DEF SetterInv
<1>11. ProvisionedInv'
  <2>1. SUFFICES ASSUME provisioned PROVE ProvisionedInv'
    BY <1>5 DEF ProvisionedInv
  <2>2. file = Holding(s)
    BY <1>1, <1>3, <1>5, <2>1 DEF ProvisionedInv
  <2>3. file.kind = "record" /\ file.state = s /\ NotBelow(s, s)
    BY <2>2, HoldingIs, StateNumbers DEF NotBelow
  <2>4. \A c \in (ondisk \union {file})' :
          c.kind = "record" /\ (Readable(c) => NotBelow(c.state, granted'))
    BY <1>5, <2>3
  <2> QED
    BY <1>3, <1>4, <1>5, <1>7, <2>1, <2>4 DEF ProvisionedInv, Readable, ReadResult
<1> QED
  BY <1>8, <1>9, <1>10, <1>11 DEF EpochInv

\* A setter fails or is killed.
LEMMA SetterFailsInv ==
  ASSUME EpochInv, NEW p \in Setters, SetterFails(p), provisioned' = provisioned
  PROVE  EpochInv'
<1>1. lock' \in Setters \union {NoOne} /\ losses' \in Nat
  BY DEF SetterFails, EpochInv, EpochTypes
<1>2. \A q \in Setters : q /= p /\ lock = q => lock' = q
  BY DEF SetterFails
<1> QED
  BY <1>1, <1>2, EndInv DEF SetterFails

\* The daemon writes nothing that matters: what is said of the file stays.
LEMMA DaemonInv ==
  ASSUME EpochInv,
         UNCHANGED <<file, ondisk, lock, setter, realtime, monotonic, granted, losses, provisioned>>,
         daemon' \in DaemonType,
         Past(daemon'.state), daemon'.mono <= monotonic,
         daemon'.pc = "loop" => daemon'.state.tag[3] <= daemon'.mono, daemon'.pc /= "saved",
         provisioned => daemon'.pc \notin {"create", "created"}
  PROVE  EpochInv'
<1>1. EpochTypes /\ TagsPast /\ SetterInv /\ ProvisionedInv
  BY DEF EpochInv
<1>2. EpochTypes' /\ SetterInv'
  BY <1>1 DEF EpochTypes, SetterInv
<1>3. TagsPast'
  BY <1>1 DEF TagsPast, Past
<1>4. ProvisionedInv'
  BY <1>1 DEF ProvisionedInv, Readable, ReadResult
<1> QED
  BY <1>2, <1>3, <1>4 DEF EpochInv

\* The daemon that is off, or turned off.
LEMMA OffIs ==
  /\ DaemonOff \in DaemonType
  /\ DaemonOff.state = NoState /\ DaemonOff.mono = 0 /\ DaemonOff.pc = "off"
  BY NoStateIs, EpochAssumption DEF DaemonOff, DaemonPlaces, DaemonType

\* The daemon loads a state, or finds that there is none.
LEMMA LoadInv == ASSUME EpochInv, Load, provisioned' = provisioned PROVE EpochInv'
<1>1. EpochTypes /\ TagsPast /\ SetterInv /\ ProvisionedInv
  BY DEF EpochInv
<1>2. PICK d \in DaemonType : d = daemon
  BY <1>1 DEF EpochTypes, DaemonType
<1>3. PICK s \in StateType : s = file.state
  BY <1>1 DEF EpochTypes, FileType
<1>4. d.pc = "off" /\ Past(d.state) /\ Past(s) /\ d.mono <= monotonic
  BY <1>1, <1>2, <1>3 DEF Load, TagsPast
<1>5. provisioned => ReadResult(file) /= "io"
  BY <1>1 DEF ProvisionedInv, ReadResult
<1> DEFINE m == [d EXCEPT !.pc = "monitor", !.state = s]
           k == [d EXCEPT !.pc = "create"]
<1>6. /\ m \in DaemonType /\ m.pc = "monitor" /\ m.state = s /\ m.mono = d.mono
      /\ k \in DaemonType /\ k.pc = "create" /\ k.state = d.state /\ k.mono = d.mono
  BY DEF DaemonType, DaemonPlaces
<1>7. /\ daemon' = IF ReadResult(file) = "ok" THEN m ELSE IF ReadResult(file) = "io" THEN k ELSE d
      /\ UNCHANGED <<file, ondisk, lock, setter, realtime, monotonic, granted, losses>>
  BY <1>2, <1>3 DEF Load
<1> HIDE DEF m, k
<1>8. /\ daemon' \in DaemonType /\ Past(daemon'.state) /\ daemon'.mono <= monotonic
      /\ daemon'.pc \in {"off", "create", "monitor"}
      /\ provisioned => daemon'.pc \notin {"create", "created"}
  BY <1>4, <1>5, <1>6, <1>7
<1> QED
  BY <1>7, <1>8, DaemonInv

\* The daemon makes the first record; there was none, so nothing was granted
\* on the strength of a record that was there from the beginning.
LEMMA CreateInv == ASSUME EpochInv, Create, provisioned' = provisioned PROVE EpochInv'
<1>1. EpochTypes /\ TagsPast /\ SetterInv /\ ProvisionedInv
  BY DEF EpochInv
<1>2. ~ provisioned /\ ~ provisioned' /\ daemon.pc = "create"
  BY <1>1 DEF Create, ProvisionedInv
<1>3. 1 \in AnEpoch /\ realtime \in Times /\ monotonic \in 1..MaxClock
  BY <1>1 DEF AnEpoch, EpochTypes
<1>4. PICK s \in StateType : s = StateOf(1) /\ s.mono >= 1 /\ Past(s)
  BY <1>3, StateOfIs
<1>5. PICK d \in DaemonType : d = daemon
  BY <1>1 DEF EpochTypes, DaemonType
<1> DEFINE n == [d EXCEPT !.pc = "created", !.state = s]
<1>6. n \in DaemonType /\ n.pc = "created" /\ n.state = s /\ n.mono = d.mono
  BY DEF DaemonType, DaemonPlaces
<1>7. /\ daemon' = n /\ file' = Holding(s) /\ ondisk' = ondisk \union {file', Torn(file, s)}
      /\ UNCHANGED <<lock, setter, realtime, monotonic, granted, losses>>
  BY <1>4, <1>5 DEF Create, Write
<1> HIDE DEF n
<1>8. PICK t \in FileType : t = Torn(file, s) /\ t.state.tag[3] = 0
  BY <1>1, <1>4, TornIs DEF EpochTypes
<1>9. file' \in FileType /\ file'.state = s
  BY <1>7, HoldingIs
<1>10. EpochTypes'
  BY <1>1, <1>6, <1>7, <1>8, <1>9 DEF EpochTypes, DaemonType
<1>11. TagsPast'
  <2>1. Past(t.state) /\ d.mono <= monotonic
    BY <1>1, <1>3, <1>5, <1>8, EpochAssumption DEF Past, TagsPast
  <2>2. Past(file'.state) /\ \A c \in ondisk' : Past(c.state)
    BY <1>1, <1>4, <1>7, <1>8, <1>9, <2>1 DEF TagsPast
  <2> QED
    BY <1>1, <1>4, <1>6, <1>7, <2>1, <2>2 DEF TagsPast, Past
<1>12. SetterInv' /\ ProvisionedInv'
  BY <1>1, <1>2, <1>7 DEF SetterInv, ProvisionedInv
<1> QED
  BY <1>10, <1>11, <1>12 DEF EpochInv

\* The record the daemon made is on the disk.
LEMMA SavedInv == ASSUME EpochInv, Saved, provisioned' = provisioned PROVE EpochInv'
<1>1. EpochTypes /\ TagsPast /\ SetterInv /\ ProvisionedInv
  BY DEF EpochInv
<1>2. daemon.pc = "created"
  BY <1>1 DEF Saved, TagsPast
<1>3. ~ provisioned /\ ~ provisioned'
  BY <1>1, <1>2 DEF ProvisionedInv
<1>5. PICK d \in DaemonType : d = daemon
  BY <1>1 DEF EpochTypes, DaemonType
<1> DEFINE n == [d EXCEPT !.pc = "monitor"]
<1>6. n \in DaemonType /\ n.pc = "monitor" /\ n.state = d.state /\ n.mono = d.mono
  BY DEF DaemonType, DaemonPlaces
<1>7. /\ daemon' = n /\ ondisk' = {file}
      /\ UNCHANGED <<file, lock, setter, realtime, monotonic, granted, losses>>
  BY <1>2, <1>5 DEF Saved
<1> HIDE DEF n
<1>8. EpochTypes'
  BY <1>1, <1>6, <1>7 DEF EpochTypes, DaemonType
<1>9. TagsPast'
  BY <1>1, <1>5, <1>6, <1>7 DEF TagsPast, Past
<1>10. SetterInv' /\ ProvisionedInv'
  BY <1>1, <1>3, <1>7 DEF SetterInv, ProvisionedInv
<1> QED
  BY <1>8, <1>9, <1>10 DEF EpochInv

\* What a daemon that has read the clocks has read.
LEMMA SampledIs ==
  ASSUME EpochTypes, NEW d \in DaemonType
  PROVE  /\ Sampled(d) \in DaemonType /\ Sampled(d).mono = monotonic /\ Sampled(d).last = realtime
         /\ Sampled(d).state = d.state /\ Sampled(d).pc = d.pc /\ Sampled(d).ticks = d.ticks
<1>1. realtime \in Times /\ monotonic \in 0..MaxClock
  BY EpochAssumption DEF EpochTypes
<1> QED
  BY <1>1 DEF Sampled, DaemonType

\* The first reading of the clocks, against the anchor.
LEMMA FirstSampleInv == ASSUME EpochInv, FirstSample, provisioned' = provisioned PROVE EpochInv'
<1>1. EpochTypes /\ TagsPast /\ SetterInv /\ ProvisionedInv
  BY DEF EpochInv
<1>2. PICK d \in DaemonType : d = daemon
  BY <1>1 DEF EpochTypes, DaemonType
<1>3. PICK e \in DaemonType : e = Sampled(d) /\ e.mono = monotonic /\ e.state = d.state
  BY <1>1, SampledIs
<1> DEFINE n == [e EXCEPT !.pc = "loop"]
<1>4. n \in DaemonType /\ n.pc = "loop" /\ n.state = d.state /\ n.mono = monotonic
  BY <1>3 DEF DaemonType, DaemonPlaces
<1>5. /\ daemon' \in {n, DaemonOff}
      /\ UNCHANGED <<file, ondisk, lock, setter, realtime, monotonic, granted, losses>>
  BY <1>2, <1>3 DEF FirstSample
<1> HIDE DEF n
<1>6. Past(d.state) /\ monotonic <= monotonic /\ 0 <= monotonic /\ Past(NoState)
  BY <1>1, <1>2, NoStateIs, EpochAssumption DEF TagsPast, EpochTypes, Past
<1>7. /\ daemon' \in DaemonType /\ Past(daemon'.state) /\ daemon'.mono <= monotonic
      /\ daemon'.pc \in {"off", "loop"}
      /\ daemon'.pc = "loop" => daemon'.state.tag[3] <= daemon'.mono
  BY <1>4, <1>5, <1>6, OffIs DEF Past
<1> QED
  BY <1>5, <1>7, DaemonInv

\* A turn of the loop.  The anchor that is due keeps the tag of a body whose
\* monotonic time is past, so it is not intact, and it is not saved.
LEMMA TurnInv == ASSUME EpochInv, Turn, provisioned' = provisioned PROVE EpochInv'
<1>1. EpochTypes /\ TagsPast /\ SetterInv /\ ProvisionedInv
  BY DEF EpochInv
<1>2. PICK d \in DaemonType : d = daemon
  BY <1>1 DEF EpochTypes, DaemonType
<1>3. PICK e \in DaemonType : /\ e = Sampled(d) /\ e.mono = monotonic /\ e.last = realtime
                              /\ e.state = d.state /\ e.pc = d.pc /\ e.ticks = d.ticks
  BY <1>1, SampledIs
<1>4. d.pc = "loop" /\ monotonic > d.mono /\ d.state.tag[3] <= d.mono
  BY <1>1, <1>2 DEF Turn, TagsPast
<1>5. d.state \in StateType /\ d.mono \in 0..MaxClock /\ d.ticks \in Nat
  BY DEF DaemonType
<1>6. monotonic \in 0..MaxClock /\ monotonic \in Nat /\ realtime \in Times /\ MaxClock \in Nat
  BY <1>1, EpochAssumption DEF EpochTypes
<1>7. PICK a \in StateType : /\ a = Anchor(e) /\ a.tag = d.state.tag /\ a.mono = monotonic
  <2> DEFINE a == [d.state EXCEPT !.at = realtime, !.mono = monotonic]
  <2>1. a \in StateType /\ a.tag = d.state.tag /\ a.mono = monotonic
    BY <1>5, <1>6 DEF StateType
  <2>2. a = Anchor(e)
    BY <1>3 DEF Anchor
  <2> QED
    BY <2>1, <2>2
<1>8. ~ Intact(a)
  <2>1. d.state.tag[3] \in Nat
    BY <1>5, StateNumbers
  <2>2. d.state.tag[3] /= monotonic
    BY <1>4, <1>5, <1>6, <2>1
  <2>3. Body(a)[3] = monotonic
    BY <1>7 DEF Body
  <2> QED
    BY <1>7, <2>2, <2>3 DEF Intact
<1> DEFINE u == [e EXCEPT !.ticks = @ + 1]
           v == [e EXCEPT !.state = a, !.ticks = 0]
<1>9. /\ daemon' \in {DaemonOff, u, v} /\ UNCHANGED <<file, ondisk>>
      /\ UNCHANGED <<lock, setter, realtime, monotonic, granted, losses>>
  BY <1>2, <1>3, <1>7, <1>8 DEF Turn
<1>10. /\ u \in DaemonType /\ u.pc = "loop" /\ u.state = d.state /\ u.mono = monotonic
       /\ v \in DaemonType /\ v.pc = "loop" /\ v.state = a /\ v.mono = monotonic
  <2>1. e.ticks + 1 \in Nat
    BY <1>3, <1>5
  <2> QED
    BY <1>3, <1>4, <2>1 DEF DaemonType
<1> HIDE DEF u, v
<1>11. d.state.tag[3] <= monotonic /\ a.tag[3] <= monotonic /\ NoState.tag[3] <= monotonic
       /\ 0 <= monotonic /\ monotonic <= monotonic
  <2>1. d.state.tag[3] \in Nat
    BY <1>5, StateNumbers
  <2> QED
    BY <1>4, <1>5, <1>6, <1>7, <2>1, NoStateIs
<1>12. /\ daemon' \in DaemonType /\ daemon'.state.tag[3] <= monotonic /\ daemon'.mono <= monotonic
       /\ daemon'.pc \in {"off", "loop"}
       /\ daemon'.pc = "loop" => daemon'.state.tag[3] <= daemon'.mono
  BY <1>9, <1>10, <1>11, OffIs
<1> QED
  BY <1>9, <1>12, DaemonInv DEF Past

\* The daemon is told to stop.
LEMMA TerminateInv == ASSUME EpochInv, Terminate, provisioned' = provisioned PROVE EpochInv'
<1>1. /\ daemon' = DaemonOff
      /\ UNCHANGED <<file, ondisk, lock, setter, realtime, monotonic, granted, losses>>
  BY DEF Terminate
<1>2. Past(NoState) /\ 0 <= monotonic
  BY NoStateIs, EpochAssumption DEF EpochInv, EpochTypes, Past
<1> QED
  BY <1>1, <1>2, OffIs, DaemonInv

\* The clocks run.
LEMMA ClockRunsInv == ASSUME EpochInv, ClockRuns, provisioned' = provisioned PROVE EpochInv'
<1>1. EpochTypes /\ TagsPast /\ SetterInv /\ ProvisionedInv
  BY DEF EpochInv
<1>2. /\ monotonic' = monotonic + 1 /\ monotonic < MaxClock /\ realtime' \in Times
      /\ UNCHANGED <<file, ondisk, lock, setter, daemon, granted, losses, provisioned>>
  BY DEF ClockRuns
<1>3. monotonic \in Nat /\ monotonic' \in 1..MaxClock
  BY <1>1, <1>2, EpochAssumption DEF EpochTypes
<1>4. EpochTypes' /\ SetterInv'
  BY <1>1, <1>2, <1>3 DEF EpochTypes, SetterInv
<1>5. \A s \in StateType : Past(s) => s.tag[3] <= monotonic'
  BY <1>2, <1>3, StateNumbers DEF Past
<1>6. /\ file.state \in StateType /\ \A c \in ondisk : c.state \in StateType
      /\ \A p \in Setters : setter[p].state \in StateType
      /\ daemon.state \in StateType /\ daemon.mono \in 0..MaxClock
  BY <1>1 DEF EpochTypes, FileType, DaemonType
<1>7. daemon.mono <= monotonic'
  BY <1>1, <1>2, <1>3, <1>6, EpochAssumption DEF TagsPast
<1>8. TagsPast'
  BY <1>1, <1>2, <1>5, <1>6, <1>7 DEF TagsPast, Past
<1>9. ProvisionedInv'
  BY <1>1, <1>2 DEF ProvisionedInv, Readable, ReadResult
<1> QED
  BY <1>4, <1>8, <1>9 DEF EpochInv

\* The power fails: the file is what the disk had of it, and nobody runs.
LEMMA OutageInv == ASSUME EpochInv, Outage, provisioned' = provisioned PROVE EpochInv'
<1>1. EpochTypes /\ TagsPast /\ SetterInv /\ ProvisionedInv
  BY DEF EpochInv
<1>2. PICK c \in ondisk : file' = c /\ ondisk' = {c}
  BY DEF Outage
<1>3. /\ losses' = losses + 1 /\ lock' = NoOne /\ daemon' = DaemonOff
      /\ setter' = [p \in Setters |-> Idle]
      /\ UNCHANGED <<realtime, monotonic, granted, provisioned>>
  BY DEF Outage
<1>4. c \in FileType /\ losses' \in Nat
  BY <1>1, <1>3 DEF EpochTypes
<1>5. Past(NoState) /\ 0 <= monotonic /\ NoState \in StateType
  BY <1>1, NoStateIs, EpochAssumption DEF EpochTypes, Past
<1>6. /\ setter' \in [Setters -> [pc : SetterPlaces, state : StateType]]
      /\ \A p \in Setters : setter'[p].pc = "idle" /\ setter'[p].state = NoState
  BY <1>3, <1>5 DEF Idle, SetterPlaces
<1>7. EpochTypes'
  BY <1>1, <1>2, <1>3, <1>4, <1>6, OffIs DEF EpochTypes
<1>8. TagsPast'
  BY <1>1, <1>2, <1>3, <1>5, <1>6, OffIs DEF TagsPast, Past
<1>9. SetterInv'
  BY <1>6 DEF SetterInv
<1>10. ProvisionedInv'
  BY <1>1, <1>2, <1>3, <1>6, OffIs DEF ProvisionedInv, Readable, ReadResult
<1> QED
  BY <1>7, <1>8, <1>9, <1>10 DEF EpochInv

\* The invariant of the epoch record, for any number of processes that set the
\* epoch, any epochs, any readings of the clocks and any number of failures.
THEOREM EpochInvariant == EpochSpec => []EpochInv
<1>1. EpochInit => EpochInv
  <2>1. EpochInit => provisioned \in BOOLEAN
    BY DEF EpochInit
  <2> QED
    BY <2>1, EpochInitially
<1>2. EpochInv /\ [EpochNext /\ UNCHANGED provisioned]_epochVars => EpochInv'
  <2>1. CASE EpochInv /\ UNCHANGED epochVars
    <3>1. EpochTypes' /\ SetterInv'
      BY <2>1 DEF epochVars, EpochInv, EpochTypes, SetterInv
    <3>2. TagsPast' /\ ProvisionedInv'
      BY <2>1 DEF epochVars, EpochInv, TagsPast, Past, ProvisionedInv, Readable, ReadResult
    <3> QED
      BY <3>1, <3>2 DEF EpochInv
  <2>2. CASE EpochInv /\ EpochNext /\ UNCHANGED provisioned
    <3>1. ASSUME NEW p \in Setters,
                 \/ Open(p) \/ Lock(p) \/ Decide(p)
                 \/ SetterWrite(p) \/ SetterSync(p) \/ SetterFails(p)
          PROVE  EpochInv'
      BY <2>2, <3>1, OpenInv, LockInv, DecideInv, SetterWriteInv, SetterSyncInv, SetterFailsInv
    <3> QED
      BY <2>2, <3>1, LoadInv, CreateInv, SavedInv, FirstSampleInv, TurnInv, TerminateInv,
         ClockRunsInv, OutageInv DEF EpochNext
  <2> QED
    BY <2>1, <2>2
<1> QED
  BY <1>1, <1>2, PTL DEF EpochSpec

\* Anti-rollback: whatever can be read from a provisioned file, now or after a
\* power failure, is not below what --set-epoch has granted, and all that the
\* granted epoch refuses as outdated it refuses (alrios_epoch_file_advance,
\* alrios_epoch_gate_policy, alrios_epoch_gate_algorithm).
THEOREM AdvancesStand == EpochSpec => []AdvanceStands
<1>1. EpochInv => AdvanceStands
  <2> SUFFICES ASSUME EpochInv PROVE AdvanceStands
    OBVIOUS
  <2>1. EpochTypes /\ ProvisionedInv
    BY DEF EpochInv
  <2>2. EpochTypeOK
    BY <2>1 DEF EpochTypes, EpochTypeOK, SetterPlaces, DaemonPlaces, DaemonType
  <2>3. ASSUME NEW c \in ondisk \union {file}, provisioned, Readable(c)
        PROVE  /\ c.state.epoch >= granted.epoch
               /\ c.state.at >= granted.at
               /\ \A p \in Policies : GatePolicy(granted, p) = "outdated"
                                        => GatePolicy(c.state, p) = "outdated"
               /\ \A algo \in Algorithms : GateAlgorithm(granted, algo) = "outdated"
                                             => GateAlgorithm(c.state, algo) = "outdated"
    <3>1. c.state.epoch >= granted.epoch /\ c.state.at >= granted.at
      BY <2>1, <2>3 DEF ProvisionedInv, NotBelow
    <3>2. c.state \in StateType /\ granted \in StateType
      BY <2>1 DEF EpochTypes, FileType
    <3>3. PICK e \in Nat : e = c.state.epoch
      BY <3>2, StateNumbers
    <3>4. PICK g \in Nat : g = granted.epoch
      BY <3>2, StateNumbers
    <3>5. e >= g
      BY <3>1, <3>3, <3>4
    <3>6. ASSUME NEW p \in Policies, GatePolicy(granted, p) = "outdated"
          PROVE  GatePolicy(c.state, p) = "outdated"
      <4>1. p.epoch \in Nat
        BY EpochAssumption DEF Policies
      <4>2. p.epoch < g
        BY <3>4, <3>6 DEF GatePolicy
      <4>3. p.epoch < e
        BY <3>5, <4>1, <4>2
      <4> QED
        BY <3>3, <4>3 DEF GatePolicy
    <3>7. ASSUME NEW algo \in Algorithms, GateAlgorithm(granted, algo) = "outdated"
          PROVE  GateAlgorithm(c.state, algo) = "outdated"
      <4>1. algo = "ed25519" /\ g >= HybridEpoch
        BY <3>4, <3>7 DEF GateAlgorithm
      <4>2. e >= HybridEpoch
        BY <3>5, <4>1, EpochAssumption
      <4> QED
        BY <3>3, <4>1, <4>2 DEF GateAlgorithm
    <3> QED
      BY <3>1, <3>6, <3>7
  <2> QED
    BY <2>2, <2>3 DEF AdvanceStands
<1> QED
  BY <1>1, EpochInvariant, PTL

\* The daemon never saves an anchor: the state it would save keeps the tag of
\* the state it loaded, so encoding it fails (the loop of ar_chronod against
\* alrios_epoch_state_encode).
THEOREM AnchorIsNeverSaved == EpochSpec => [](daemon.pc /= "saved")
<1>1. EpochInv => daemon.pc /= "saved"
  BY DEF EpochInv, TagsPast
<1> QED
  BY <1>1, EpochInvariant, PTL
=============================================================================
