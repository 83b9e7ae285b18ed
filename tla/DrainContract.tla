---------------------------- MODULE DrainContract ----------------------------
(***************************************************************************)
(* What a connection drain promises to its callers, with no slots, locks,  *)
(* clocks or threads: a set of open streams and the phase of the drain.    *)
(* Streams are accepted only in the first phase, which is never entered    *)
(* again, and the drain is reported complete only when nothing is open.    *)
(***************************************************************************)
CONSTANT Ids

VARIABLES open,   \* the streams in flight
          phase   \* ACTIVE (accepting), DRAINING, COMPLETED, TIMED_OUT or IDLE

vars == <<open, phase>>

Phases == {"ACTIVE", "DRAINING", "COMPLETED", "TIMED_OUT", "IDLE"}

Init == open = {} /\ phase = "ACTIVE"

\* A stream joins while the tracker accepts.
Accept(id) ==
  /\ phase = "ACTIVE"
  /\ id \notin open
  /\ open' = open \cup {id}
  /\ UNCHANGED phase

\* A stream ends; the one that ends last completes a drain in progress.
Finish(id) ==
  /\ id \in open
  /\ open' = open \ {id}
  /\ phase' = IF phase = "DRAINING" /\ open' = {} THEN "COMPLETED" ELSE phase

\* The drain advances; no advance accepts again, none completes too early.
Advance ==
  /\ phase' \in Phases \ {"ACTIVE"}
  /\ phase' = "COMPLETED" => open = {}
  /\ UNCHANGED open

\* The owner forgets the streams.
Forget == open' = {} /\ UNCHANGED phase

Next == (\E id \in Ids : Accept(id) \/ Finish(id)) \/ Advance \/ Forget

Spec == Init /\ [][Next]_vars
=============================================================================
