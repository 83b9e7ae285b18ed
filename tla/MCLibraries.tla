---------------------------- MODULE MCLibraries ----------------------------
(***************************************************************************)
(* Libraries that keep their state in memory, and the tools that work on   *)
(* one directory: the guest router and the event broker, each called by    *)
(* one thread, the evaluation of memory pressure with the daemon that      *)
(* calls it, the handover of listening sockets, armake, and the index of a *)
(* release.  They share no state; `part' says which of them a behaviour    *)
(* exercises.                                                              *)
(***************************************************************************)
EXTENDS TLC, GuestRouter, EventBroker, Handover, BuildTree, PackageIndex

CONSTANTS a, b,    \* two identities of the broker
          u1, u2   \* two builders of an index, which differ in nothing

Interchangeable == Permutations({u1, u2})

VARIABLE part

\* Each identity may remove its own subscription; a (uid 0) may remove all.
RootIsA == {<<a, a>>, <<a, b>>, <<b, b>>}

\* The lines of /proc/pressure/memory, whole and broken.
Line(name, value) ==
  [name |-> name, fields |-> <<[key |-> "avg10", value |-> value], [key |-> "avg60", value |-> 0],
                               [key |-> "avg300", value |-> 0], [key |-> "total", value |-> 700]>>]
Lines(value) == <<Line("some", value), Line("full", 0)>>
KeyTwice == [Line("some", 95) EXCEPT !.fields[2].key = "avg10"]

(***************************************************************************)
(* Workers that differ in tier, name or pid only, one that must not be     *)
(* shed, one that is protected, a core daemon; up to three of them in any  *)
(* order.                                                                  *)
(***************************************************************************)
Process(pid, name, tier) ==
  [pid |-> pid, name |-> name, tier |-> tier, protected |-> FALSE, allow |-> TRUE, deny |-> FALSE]
Processes == {Process(1, 2, 3), Process(2, 2, 3), Process(3, 1, 3),
              [Process(5, 4, 4) EXCEPT !.deny = TRUE],
              [Process(6, 5, 5) EXCEPT !.protected = TRUE], Process(7, 9, 5)}

VARIABLES text, resourced, evaluation

P == INSTANCE Pressure WITH
  Texts <- {Lines(79), Lines(80), Lines(90), Lines(101),
            <<KeyTwice, Line("full", 0)>>},
  Warning <- 80, Shedding <- 90, CoreNames <- {9},
  Inventories <- {s \in UNION {[1..n -> Processes] : n \in 0..3} :
                    \A i, j \in DOMAIN s : s[i] = s[j] => i = j},
  daemon <- resourced, call <- evaluation

(***************************************************************************)
(* Four manifests: files as they are, two steps, steps around the engine   *)
(* of an ARWE application, and a command without a list of files.          *)
(***************************************************************************)
Manifest(steps, files, arwe, output) ==
  [steps |-> steps, files |-> files, arwe |-> arwe, output |-> output]
Manifests == {Manifest(0, <<"code", "page">>, FALSE, "in.arapp"),
              Manifest(2, <<"app", "page">>, FALSE, "out.arapp"),
              Manifest(1, <<"app">>, TRUE, "in.arapp"),
              Manifest(1, <<>>, FALSE, "out.arapp")}
HashNames == [x \in {"in.arapp", "out.arapp"} |->
                IF x = "in.arapp" THEN "in.hash" ELSE "out.hash"]

(***************************************************************************)
(* What a file of the release holds at first, and what a change makes of   *)
(* it: other content, another mode and nothing to read, or a link.         *)
(***************************************************************************)
IndexedFile(kind, mode, data) == [kind |-> kind, mode |-> mode, data |-> data]
ReleasedFile == IndexedFile("file", 0, <<1, 1>>)
ChangedFiles == {IndexedFile("file", 0, <<2, 1>>), IndexedFile("file", 1, <<>>),
                 IndexedFile("link", 0, <<1>>)}
IndexKeyFiles == {[form |-> "raw64", key |-> 1], [form |-> "pem", key |-> 2]}

pressureVars == <<text, resourced, evaluation>>

LibrariesInit == /\ part \in {"router", "broker", "pressure", "handover", "build", "index"}
                 /\ Init /\ BrokerInit /\ HandoverInit /\ IndexInit
                 /\ P!PressureInit /\ (part # "pressure" => text = {})
                 /\ BuildInit /\ (part # "build" => plan.steps = 0)

LibrariesNext ==
  \/ part = "router" /\ Next
     /\ UNCHANGED <<part, brokerVars, pressureVars, handoverVars, buildVars, indexVars>>
  \/ part = "broker" /\ BrokerNext
     /\ UNCHANGED <<part, vars, pressureVars, handoverVars, buildVars, indexVars>>
  \/ part = "pressure" /\ P!PressureNext
     /\ UNCHANGED <<part, vars, brokerVars, handoverVars, buildVars, indexVars>>
  \/ part = "handover" /\ HandoverNext
     /\ UNCHANGED <<part, vars, brokerVars, pressureVars, buildVars, indexVars>>
  \/ part = "build" /\ BuildNext
     /\ UNCHANGED <<part, vars, brokerVars, pressureVars, handoverVars, indexVars>>
  \/ part = "index" /\ IndexNext
     /\ UNCHANGED <<part, vars, brokerVars, pressureVars, handoverVars, buildVars>>

libraryVars == <<part, vars, brokerVars, pressureVars, handoverVars, buildVars, indexVars>>

LibrariesSpec == LibrariesInit /\ [][LibrariesNext]_libraryVars

\* The properties of the libraries, as their modules state them (those of all
\* but the pressure monitor are used as they are): types, ...
LibrariesTypeOK == /\ part = "router" => RouterTypeOK
                   /\ part = "broker" => BrokerTypeOK
                   /\ part = "pressure" => P!PressureTypeOK
                   /\ part = "handover" => HandoverTypeOK
                   /\ part = "build" => BuildTypeOK
                   /\ part = "index" => IndexTypeOK
\* ... pressure told to the least important process first, ...
LeastImportantFirst == part = "pressure" => P!LeastImportantFirst
\* ... and a daemon that reports the shedding threshold and goes on.
SheddingIsReported == P!SheddingIsReported
=============================================================================
