--------------------------- MODULE MCEventDaemon ---------------------------
(* Instances of EventDaemon for TLC. *)
EXTENDS EventDaemon, TLC

CONSTANTS a, b, c1, c2

\* c1 and c2 are connections of the same process.
TwoOfA == (c1 :> a) @@ (c2 :> a)
AAndB == (c1 :> a) @@ (c2 :> b)
AnyJunk == SUBSET Events
CleanJunk == {{}}
RootIsA == {<<a, a>>, <<a, b>>, <<b, b>>}
=============================================================================
