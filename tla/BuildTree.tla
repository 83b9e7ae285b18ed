------------------------------ MODULE BuildTree ------------------------------
(***************************************************************************)
(* armake on one application directory: `build' (src/commands/armake/      *)
(* armake.c, cmd_build) with its incremental test, its build steps, its    *)
(* staging directory and its cleanup; `pack'; and the pair `snapshot' and  *)
(* `cleanup' that a wrapper calls around a compiler.  One armake works on  *)
(* a directory at a time; the user edits, creates and removes files while  *)
(* it runs, a build step is a process of its own that may outlive it, and  *)
(* a signal or a kill may end it anywhere.                                 *)
(*                                                                         *)
(* A file is a name and a version; a directory stands for the files in it. *)
(* Every write of the user brings a version that was never there before.   *)
(***************************************************************************)
EXTENDS Integers, Sequences, FiniteSets, Functions

CONSTANTS
  Inside,       \* the names below the application directory
  Vcs,          \* those below .git and .svn
  Unmapped,     \* those below the directories that are always build output
  Unhashed,     \* those that are no part of the source hash
  Private,      \* names of key material, which no package may hold
  UserFiles,    \* the names the user writes
  StepFiles,    \* the names below the directory that a build step writes
  TidyFiles,    \* the names in the manifest's build.cleanup
  FirstTree,    \* the names there at the beginning, all of version 0
  Code, Binary, \* the names the steps compile, and what they leave in the staging
  HashOf,       \* output name -> the name of its hash file
  Plans,        \* manifests with an output: steps, files, arwe, output
  RmCap,        \* RM_CAP: how many names one cleanup can list
  MaxCommands, MaxEdits

Outputs == DOMAIN HashOf \cup Range(HashOf)

(***************************************************************************)
(* Packages and hash files are no sources and have names of their own.     *)
(* What the steps write is neither written nor tidied away by others, what *)
(* they compile is hashed, and what they build is the first file of a      *)
(* manifest that lists files.                                              *)
(***************************************************************************)
ASSUME BuildAssumption ==
  /\ FirstTree \cup UserFiles \cup StepFiles \subseteq Inside \ Outputs
  /\ Inside \cap Outputs \subseteq Unhashed
  /\ DOMAIN HashOf \cap Range(HashOf) = {}
  /\ StepFiles \cap (UserFiles \cup TidyFiles \cup Code) = {}
  /\ Code \subseteq Inside \ Unhashed
  /\ \A p \in Plans :
       /\ p.steps \in Nat /\ p.output \in DOMAIN HashOf /\ p.files \in Seq(Inside \cup {Binary})
       /\ p.steps > 0 /\ p.files # <<>> /\ ~p.arwe => p.files[1] = Binary

VARIABLES
  plan,         \* the manifest and the output that armake is called with
  disk,         \* name -> version, package or source hash
  stage,        \* the staging directory: name -> version
  snapfile,     \* the file that `snapshot' writes
  armake,       \* the process
  child,        \* the build step it waits for, and one that outlived an armake
  commands, edits,
  kept,         \* names mapped by the snapshot in use that nobody else removed
  late,         \* names written since the cleanup listed what it removes, or
                \* more than it can list
  spoiled       \* "cut": the last rewrite of the package came to no good end;
                \* "strayed": a step that outlived its armake wrote the staging

diskVars == <<disk, stage, snapfile>>
buildVars == <<plan, disk, stage, snapfile, armake, child, commands, edits, kept, late, spoiled>>

NoArmake == [pc |-> "idle", cmd |-> "none", step |-> 0, hash |-> <<>>, snap |-> {}, rm |-> {},
             packed |-> <<>>, exit |-> "none", handles |-> FALSE, sound |-> TRUE]
NoChild == [runs |-> FALSE, read |-> <<>>, built |-> FALSE]
NoFile == [there |-> FALSE, names |-> {}, of |-> {}]

Output == plan.output
HashFile == HashOf[Output]

(***************************************************************************)
(* Walking the tree                                                        *)
(***************************************************************************)
Tree == DOMAIN disk \cap Inside
With(f, n, v) == [x \in DOMAIN f \cup {n} |-> IF x = n THEN v ELSE f[x]]
Dropping(f, S) == Restrict(f, DOMAIN f \ S)

\* calc_app_source_hash: names, sizes and contents of what is not skipped.
SourceHash == Restrict(disk, Tree \ Unhashed)

MutMapsHashed == Tree \ (Vcs \cup Unmapped \cup Unhashed)
\* snap_dir and is_build_artifact: the names that the snapshot records.
Mappable == Tree \ (Vcs \cup Unmapped)

\* scan_for_added: what is there and was not mapped.
Added(snap) == {n \in Tree \ Vcs : n \notin snap}

\* At most RM_CAP of them fit into the list.
TooMany(snap) == Cardinality(Added(snap)) > RmCap
Listings(snap) ==
  IF snap = {} THEN {{}}
  ELSE IF ~TooMany(snap) THEN {Added(snap)}
  ELSE {S \in SUBSET Added(snap) : Cardinality(S) = RmCap}

(***************************************************************************)
(* The commands                                                            *)
(***************************************************************************)
BuildInit ==
  /\ plan \in Plans
  /\ disk = [n \in FirstTree |-> 0]
  /\ stage = <<>>
  /\ snapfile = NoFile
  /\ armake = NoArmake
  /\ child = [c \in {"own", "orphan"} |-> NoChild]
  /\ commands = 0 /\ edits = 0
  /\ kept = {} /\ late = {}
  /\ spoiled = "no"

Spoils(how) == spoiled' = IF spoiled = "strayed" THEN "strayed" ELSE how

StartCommand(cmd, pc) ==
  /\ armake.pc = "idle" /\ commands < MaxCommands
  /\ commands' = commands + 1
  /\ armake' = [NoArmake EXCEPT !.cmd = cmd, !.pc = pc]
  /\ kept' = {} /\ late' = {}
  /\ UNCHANGED <<plan, diskVars, child, edits, spoiled>>

\* cmd_build, cmd_buildapp and the dispatcher lead to one of these.
CallBuild == \E force \in BOOLEAN : StartCommand(IF force THEN "force" ELSE "build", "hash")
CallPack == StartCommand("pack", "open")
CallSnapshot == StartCommand("snapshot", "map")
CallCleanup == StartCommand("cleanup", "load")

EndCommand(exit) == armake' = [NoArmake EXCEPT !.exit = exit]

\* find_manifest and read_manifest: none is found, or it cannot be read.
NoManifest ==
  /\ armake.pc = "hash"
  /\ EndCommand("failed")
  /\ UNCHANGED <<plan, diskVars, child, commands, edits, kept, late, spoiled>>

\* The files of the tree are as a build found them that wrote this hash.
UpToDate ==
  /\ armake.cmd = "build"
  /\ Output \in DOMAIN disk /\ HashFile \in DOMAIN disk
  /\ disk[HashFile] = SourceHash

(***************************************************************************)
(* The incremental test.  The hash that will be written is the one of the  *)
(* sources before anything is built.                                       *)
(***************************************************************************)
Test ==
  /\ armake.pc = "hash"
  /\ IF UpToDate THEN EndCommand("uptodate")
     ELSE armake' = [armake EXCEPT !.hash = SourceHash,
                                   !.pc = IF plan.steps > 0 THEN "map" ELSE "open"]
  /\ UNCHANGED <<plan, diskVars, child, commands, edits, kept, late, spoiled>>

\* snap_dir for a build, or for `snapshot', which has nothing to save when
\* nothing was mapped.
Map ==
  /\ armake.pc = "map"
  /\ IF armake.cmd = "snapshot" /\ Mappable = {} THEN EndCommand("failed")
     ELSE armake' = [armake EXCEPT !.snap = Mappable,
                                   !.pc = IF armake.cmd = "snapshot" THEN "save" ELSE "step"]
  /\ kept' = Tree \ (Vcs \cup Unmapped)
  /\ UNCHANGED <<plan, diskVars, child, commands, edits, late, spoiled>>

(***************************************************************************)
(* save_snapshot_file writes in place: what a kill leaves is some of the   *)
(* lines.                                                                  *)
(***************************************************************************)
Save ==
  /\ armake.pc = "save"
  /\ \E names \in SUBSET armake.snap :
       snapfile' = [there |-> TRUE, names |-> names, of |-> kept]
  /\ armake' = [armake EXCEPT !.pc = "saved"]
  /\ UNCHANGED <<plan, disk, stage, child, commands, edits, kept, late, spoiled>>

Saved ==
  /\ armake.pc = "saved"
  /\ snapfile' = [snapfile EXCEPT !.names = armake.snap]
  /\ EndCommand("ok")
  /\ UNCHANGED <<plan, disk, stage, child, commands, edits, kept, late, spoiled>>

\* load_snapshot_file: without the file there is nothing to clean up.
Load ==
  /\ armake.pc = "load"
  /\ IF ~snapfile.there THEN EndCommand("ok") /\ UNCHANGED kept
     ELSE /\ armake' = [armake EXCEPT !.snap = snapfile.names, !.pc = "scan",
                                      !.exit = "ok", !.sound = snapfile.names = snapfile.of]
          /\ kept' = snapfile.of \cap Tree
  /\ UNCHANGED <<plan, diskVars, child, commands, edits, late, spoiled>>

(***************************************************************************)
(* The build steps                                                         *)
(***************************************************************************)

\* A step reads its sources as it finds them.
CodeRead == Restrict(disk, Code \cap Tree)

\* run_build_steps_from_manifest: the handlers are installed, then each step
\* is run by a shell, or refused.
StartStep ==
  /\ armake.pc = "step"
  /\ \/ /\ child' = [child EXCEPT !["own"] = [runs |-> TRUE, read |-> CodeRead, built |-> FALSE]]
        /\ armake' = [armake EXCEPT !.pc = "wait", !.step = @ + 1, !.handles = TRUE]
     \/ /\ armake' = [armake EXCEPT !.pc = "scan", !.exit = "failed", !.handles = TRUE]
        /\ UNCHANGED child
  /\ UNCHANGED <<plan, diskVars, commands, edits, kept, late, spoiled>>

\* A step leaves files in the tree ...
ChildWrites(c) ==
  /\ child[c].runs
  /\ \E n \in StepFiles : disk' = With(disk, n, 0) /\ late' = late \cup {n}
  /\ UNCHANGED <<plan, stage, snapfile, armake, child, commands, edits, kept, spoiled>>

\* ... and what it compiled in the staging directory.
ChildBuilds(c) ==
  /\ child[c].runs /\ ~child[c].built
  /\ stage' = With(stage, Binary, child[c].read)
  /\ child' = [child EXCEPT ![c].built = TRUE]
  /\ IF c = "orphan" THEN spoiled' = "strayed" ELSE UNCHANGED spoiled
  /\ UNCHANGED <<plan, disk, snapfile, armake, commands, edits, kept, late>>

NextStep(ok) ==
  armake' = IF ~ok THEN [armake EXCEPT !.pc = "scan", !.exit = "failed"]
            ELSE [armake EXCEPT !.pc = IF armake.step < plan.steps THEN "step" ELSE "tidy"]

\* A step that succeeds has compiled what it read.
ChildExits ==
  /\ child["own"].runs
  /\ \E ok \in BOOLEAN : (ok => child["own"].built) /\ NextStep(ok)
  /\ child' = [child EXCEPT !["own"] = NoChild]
  /\ UNCHANGED <<plan, diskVars, commands, edits, kept, late, spoiled>>

\* The names that the manifest tells to remove after the steps.
Tidy ==
  /\ armake.pc = "tidy"
  /\ disk' = Dropping(disk, TidyFiles)
  /\ kept' = kept \ TidyFiles
  /\ armake' = [armake EXCEPT !.pc = "open"]
  /\ UNCHANGED <<plan, stage, snapfile, child, commands, edits, late, spoiled>>

(***************************************************************************)
(* The package                                                             *)
(***************************************************************************)

\* zip_open_arapp truncates the file and writes the header.
EmptyPackage == [files |-> <<>>, closed |-> FALSE]

Open ==
  /\ armake.pc = "open"
  /\ disk' = With(disk, Output, EmptyPackage)
  /\ late' = late \cup {Output}
  /\ armake' = [armake EXCEPT !.pc = "stage"]
  /\ Spoils("cut")
  /\ UNCHANGED <<plan, stage, snapfile, child, commands, edits, kept>>

\* The output cannot be created, or the file system boundary that `pack' and
\* a build without steps put around themselves is not to be had.
OpenFails ==
  /\ armake.pc = "open"
  /\ armake' = [armake EXCEPT !.pc = "scan", !.exit = "failed"]
  /\ UNCHANGED <<plan, diskVars, child, commands, edits, kept, late, spoiled>>

\* find_static_src: the files of the manifest that a copy can be found for.
Missing == {f \in Range(plan.files) : f \notin DOMAIN stage /\ f \in Tree}

\* prepare_staging: the entry of an ARWE application is always copied, a file
\* of the manifest when the staging directory has none of that name.
Staged ==
  LET copied == [f \in DOMAIN stage \cup Missing |->
                   IF f \in DOMAIN stage THEN stage[f] ELSE disk[f]]
  IN IF plan.arwe THEN With(copied, Binary, <<>>) ELSE copied

\* Only a build with steps and files stages; a manifest that cannot be read
\* again ends the build and leaves the empty package.
Stage ==
  /\ armake.pc = "stage"
  /\ \/ /\ armake' = [armake EXCEPT !.pc = "pack"]
        /\ stage' = IF armake.cmd \in {"build", "force"} /\ plan.steps > 0 /\ plan.files # <<>>
                    THEN Staged ELSE stage
     \/ /\ armake.cmd \in {"build", "force"}
        /\ armake' = [armake EXCEPT !.pc = "scan", !.exit = "failed"]
        /\ UNCHANGED stage
  /\ UNCHANGED <<plan, disk, snapfile, child, commands, edits, kept, late, spoiled>>

\* Files come from the staging directory when the first one is there.
FromStage == plan.steps > 0 /\ Head(plan.files) \in DOMAIN stage
PackedFrom == IF FromStage THEN stage ELSE Restrict(disk, Tree)

\* walk_dir: every file of the directory.  The package itself is left out.
Walked == Restrict(disk, Tree \ (Vcs \cup Private \cup Outputs))

\* validate_pack_file_path: a path that must not be packed is an error, like
\* one that is not there.
Packable(f) == f \notin Private /\ f \in DOMAIN PackedFrom

\* The writer keeps its file open: once unlinked, nobody sees what it writes.
PackInto(files, closed) ==
  disk' = IF Output \in DOMAIN disk
          THEN [disk EXCEPT ![Output] = [files |-> files, closed |-> closed]] ELSE disk

Packs(files) ==
  /\ armake' = [armake EXCEPT !.packed = files]
  /\ PackInto(files, FALSE)

PackEnds(exit) == armake' = [armake EXCEPT !.pc = "close", !.exit = exit] /\ UNCHANGED disk

\* pack_file_list: one file after the other, until one is missing; without a
\* list, and for `pack', the whole directory.
Pack ==
  /\ armake.pc = "pack"
  /\ LET todo == {i \in 1..Len(plan.files) : plan.files[i] \notin DOMAIN armake.packed}
         next == plan.files[CHOOSE i \in todo : \A j \in todo : i <= j]
     IN IF armake.cmd = "pack" \/ plan.files = <<>>
        THEN \/ armake.packed # Walked /\ Packs(Walked)
             \/ armake.packed = Walked /\ PackEnds("ok")
        ELSE \/ todo = {} /\ PackEnds("ok")
             \/ todo # {} /\ ~Packable(next) /\ PackEnds("unpacked")
             \/ /\ todo # {} /\ Packable(next)
                /\ Packs(With(armake.packed, next, PackedFrom[next]))
  /\ UNCHANGED <<plan, stage, snapfile, child, commands, edits, kept, late, spoiled>>

Close ==
  /\ armake.pc = "close"
  /\ PackInto(armake.packed, TRUE)
  /\ IF armake.cmd = "pack" THEN EndCommand("ok") ELSE armake' = [armake EXCEPT !.pc = "scan"]
  /\ UNCHANGED <<plan, stage, snapfile, child, commands, edits, kept, late, spoiled>>

(***************************************************************************)
(* cleanup_and_report, and what follows it                                 *)
(***************************************************************************)
Scan ==
  /\ armake.pc = "scan"
  /\ \E rm \in Listings(armake.snap) : armake' = [armake EXCEPT !.rm = rm, !.pc = "remove"]
  /\ late' = IF TooMany(armake.snap) THEN Added(armake.snap) ELSE {}
  /\ UNCHANGED <<plan, diskVars, child, commands, edits, kept, spoiled>>

RemoveAdded ==
  /\ armake.pc = "remove" /\ armake.rm # {}
  /\ \E n \in armake.rm :
       /\ disk' = Dropping(disk, {n})
       /\ armake' = [armake EXCEPT !.rm = @ \ {n}]
  /\ UNCHANGED <<plan, stage, snapfile, child, commands, edits, kept, late, spoiled>>

\* A package that could not be packed is removed.
Unpacked(exit) == exit = "unpacked"

Cleaned ==
  /\ armake.pc = "remove" /\ armake.rm = {}
  /\ IF Unpacked(armake.exit)
     THEN disk' = Dropping(disk, {Output}) /\ kept' = kept \ {Output} /\ Spoils("no")
     ELSE UNCHANGED <<disk, kept, spoiled>>
  /\ armake' = [armake EXCEPT !.pc = IF armake.exit = "ok" /\ armake.cmd # "cleanup"
                                     THEN "record" ELSE "ended"]
  /\ UNCHANGED <<plan, stage, snapfile, child, commands, edits, late>>

MutHashesAtEnd == SourceHash
\* The hash file gets the hash of the sources that the build began with.
Recorded == armake.hash

Record ==
  /\ armake.pc = "record"
  /\ \/ disk' = With(disk, HashFile, Recorded) /\ late' = late \cup {HashFile}
        /\ Spoils("no")
     \/ UNCHANGED <<disk, late, spoiled>>
  /\ armake' = [armake EXCEPT !.pc = "ended"]
  /\ UNCHANGED <<plan, stage, snapfile, child, commands, edits, kept>>

End ==
  /\ armake.pc = "ended"
  /\ EndCommand(armake.exit)
  /\ UNCHANGED <<plan, diskVars, child, commands, edits, kept, late, spoiled>>

(***************************************************************************)
(* Signals, kills and the user                                             *)
(***************************************************************************)
\* The step goes on without its armake, or ends with it.
LosesArmake ==
  \/ child' = [child EXCEPT !["own"] = NoChild]
  \/ /\ child["own"].runs /\ ~child["orphan"].runs
     /\ child' = [own |-> NoChild, orphan |-> child["own"]]

\* on_signal: cleans up and exits, wherever the build was.
Signal ==
  /\ armake.handles /\ armake.pc # "ended" /\ armake.exit # "signal"
  /\ armake' = [armake EXCEPT !.pc = "scan", !.exit = "signal"]
  /\ LosesArmake
  /\ UNCHANGED <<plan, diskVars, commands, edits, kept, late, spoiled>>

\* A kill, a power cut, or a signal before the handlers are there.
Kill ==
  /\ armake.pc # "idle"
  /\ EndCommand("killed")
  /\ LosesArmake
  /\ kept' = {} /\ late' = {}
  /\ UNCHANGED <<plan, diskVars, commands, edits, spoiled>>

OrphanExits ==
  /\ child["orphan"].runs
  /\ child' = [child EXCEPT !["orphan"] = NoChild]
  /\ UNCHANGED <<plan, diskVars, armake, commands, edits, kept, late, spoiled>>

UserWrites ==
  /\ edits < MaxEdits
  /\ edits' = edits + 1
  /\ \E n \in UserFiles : disk' = With(disk, n, edits + 1) /\ late' = late \cup {n}
  /\ UNCHANGED <<plan, stage, snapfile, armake, child, commands, kept, spoiled>>

UserRemoves ==
  /\ edits < MaxEdits
  /\ edits' = edits + 1
  /\ \E n \in UserFiles \cup {Output} :
       n \in DOMAIN disk /\ disk' = Dropping(disk, {n}) /\ kept' = kept \ {n}
  /\ UNCHANGED <<plan, stage, snapfile, armake, child, commands, late, spoiled>>

ArmakeNext ==
  \/ CallBuild \/ CallPack \/ CallSnapshot \/ CallCleanup
  \/ NoManifest \/ Test \/ Map \/ Save \/ Saved \/ Load \/ StartStep \/ Tidy
  \/ Open \/ OpenFails \/ Stage \/ Pack \/ Close \/ Scan \/ RemoveAdded \/ Cleaned \/ Record \/ End

BuildNext ==
  \/ ArmakeNext
  \/ \E c \in {"own", "orphan"} : ChildWrites(c) \/ ChildBuilds(c)
  \/ ChildExits \/ OrphanExits
  \/ Signal \/ Kill \/ UserWrites \/ UserRemoves

BuildSpec == BuildInit /\ [][BuildNext]_buildVars

(***************************************************************************)
(* Properties                                                              *)
(***************************************************************************)
\* The names and counters that the code keeps stay in their ranges.
BuildTypeOK ==
  /\ plan \in Plans
  /\ DOMAIN disk \subseteq Inside \cup Outputs
  /\ armake.snap \subseteq Inside /\ armake.rm \subseteq Inside /\ kept \subseteq Inside
  /\ armake.step \in 0..plan.steps
  /\ spoiled \in {"no", "cut", "strayed"}

(***************************************************************************)
(* However a build or a `cleanup' goes, whatever is written meanwhile and  *)
(* wherever a signal ends it: no file is removed that was there when the   *)
(* directory was mapped, outside the directories that count as output,     *)
(* unless a step, the manifest or the user removed it or it was a package  *)
(* that could not be packed; and when it ends nothing is left that was not *)
(* mapped, except what was written after the cleanup had listed what to    *)
(* remove or exceeds RM_CAP (armake.c:471, "removes only what was ADDED").  *)
(* For `cleanup' this needs a snapshot that was written to its end.        *)
(***************************************************************************)
BuildRestoresTree ==
  /\ armake.pc # "idle" /\ armake.sound => kept \subseteq DOMAIN disk
  /\ armake.pc = "ended" /\ armake.snap # {} => Tree \ Vcs \subseteq armake.snap \cup late

\* What the package holds is what the sources are, those that count for the
\* hash.  A static file that went through the staging directory may be older.
HoldsSources ==
  LET files == disk[Output].files
      Same(n, f) == n \in DOMAIN f /\ f[n] = disk[n]
  IN /\ disk[Output].closed
     /\ IF plan.files = <<>> THEN \A n \in Tree \ (Unhashed \cup Vcs \cup Private) : Same(n, files)
        ELSE IF plan.steps = 0 THEN \A n \in (Range(plan.files) \cap Tree) \ Unhashed : Same(n, files)
        ELSE plan.arwe \/ \A n \in Code \cap Tree : Same(n, files[Binary])

(***************************************************************************)
(* When armake answers UP-TO-DATE (armake.c:1627), the package is complete *)
(* and was made from the sources as they are now, whatever was edited      *)
(* while it was built and however often builds failed, unless the last     *)
(* rewrite of the package was cut off or a step outlived its armake.       *)
(***************************************************************************)
UpToDateIsTrue == armake.pc = "hash" /\ UpToDate /\ spoiled = "no" => HoldsSources
=============================================================================
