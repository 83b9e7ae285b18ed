---------------------------- MODULE AppRegistry ----------------------------
(***************************************************************************)
(* Installed applications: the packages of the apps directory, what the    *)
(* supervisor unpacked of them, its registry apps[] (daemons/supervisor/   *)
(* loader.c) and the package manager that changes the directory under it   *)
(* (commands/alrios/arpm.c).  An arpm command is a process of its own; it  *)
(* tells the supervisor over a control connection, whose answer it awaits  *)
(* for at most five seconds, so the request may still run when arpm goes   *)
(* on.  Starting and stopping one process is SupervisorApp; here a process *)
(* is the version of the package it was unpacked from.                     *)
(***************************************************************************)
EXTENDS Naturals, Sequences, FiniteSets

CONSTANTS Apps,          \* application names: file name and manifest name
          Versions,      \* contents of a package, natural numbers
          Headerless,    \* the version whose file has no package header
          FirstVersion,  \* the version that may be installed at the start
          OwnVersions,   \* the versions users may have files of
          Sha,           \* app -> versions the registry's sha256 admits, all if it has none
          Arpms,         \* arpm processes
          Serves,        \* arpm process -> the applications it is used for
          Conns,         \* control connections served at a time
          MaxApps,       \* AR_MAX_APPS
          MaxCommands,   \* bound: arpm commands and operator requests
          MaxSeconds     \* bound: seconds

\* Version 0 is no version; the packages that are installed at the start have
\* the package header.
ASSUME RegistryAssumption ==
  /\ Versions \subseteq Nat \ {0} /\ Headerless \in Versions
  /\ FirstVersion \in Versions \ {Headerless} /\ OwnVersions \subseteq Versions
  /\ Serves \in [Arpms -> SUBSET Apps]
  /\ MaxApps \in Nat /\ MaxCommands \in Nat /\ MaxSeconds \in Nat \ {0}

VARIABLES seconds,
          own,           \* app -> the package file a user has of his own
          download,      \* app -> staging/<app>.arapp.download
          package,       \* app -> apps/<app>.arapp
          cache,         \* app -> programfiles/<app>
          autofile,      \* the names in autostart.cfg
          apps,          \* the registry, names in the order of apps[]
          running,       \* app -> version of its process, or NoVersion
          outside,       \* prune wrote in front of apps[0]
          crowded,       \* the last scan found "registry full" (process_app)
          cmd,           \* each arpm process
          conn,          \* each control connection
          commands       \* commands so far

disk == <<own, download, package, cache, autofile>>
marks == <<outside, crowded>>
registryVars == <<seconds, disk, apps, running, marks, cmd, conn, commands>>

NoVersion == 0
NoFile == [v |-> NoVersion, t |-> 0]
File(v) == [v |-> v, t |-> seconds]
Exists(f) == f # NoFile

IdleArpm == [at |-> "idle", op |-> "none", app |-> "none", from |-> "none",
            force |-> FALSE, run |-> "no"]
NoRequest == [at |-> "idle", op |-> "none", app |-> "none",
              seen |-> {}, listed |-> {}, i |-> 0]

\* Some applications are installed, unpacked and registered already.
RegistryInit ==
  \E order \in {s \in UNION {[1..n -> Apps] : n \in 0..MaxApps} :
                 \A k, l \in DOMAIN s : s[k] = s[l] => k = l} :
    /\ seconds = 1
    /\ own \in [Apps -> {NoFile} \cup {[v |-> w, t |-> 1] : w \in OwnVersions}]
    /\ \A x \in Apps : own[x] = NoFile \/ \E p \in Arpms : x \in Serves[p]
    /\ download = [x \in Apps |-> NoFile]
    /\ package = [x \in Apps |-> IF x \in {order[k] : k \in DOMAIN order}
                                 THEN [v |-> FirstVersion, t |-> 1] ELSE NoFile]
    /\ cache = package
    /\ autofile = {} /\ apps = order /\ running = [x \in Apps |-> NoVersion]
    /\ outside = FALSE /\ crowded = FALSE
    /\ cmd = [p \in Arpms |-> IdleArpm] /\ conn = [c \in Conns |-> NoRequest]
    /\ commands = 0

Registered(x) == \E k \in DOMAIN apps : apps[k] = x

----------------------------------------------------------------------------
(* The supervisor's side of a control connection. *)

Goes(c, at) == conn' = [conn EXCEPT ![c].at = at]
Answered(c) == conn' = [conn EXCEPT ![c] = NoRequest]

\* ar_supervisor_start_app: an entry that runs already is left alone.
StartApp(c) ==
  /\ conn[c].at = "start"
  /\ running' = IF Registered(conn[c].app) /\ running[conn[c].app] = NoVersion
                THEN [running EXCEPT ![conn[c].app] = cache[conn[c].app].v]
                ELSE running
  /\ Answered(c)
  /\ UNCHANGED <<seconds, disk, apps, marks, cmd, commands>>

StopApp(c) ==
  /\ conn[c].at = "stop"
  /\ running' = IF Registered(conn[c].app)
                THEN [running EXCEPT ![conn[c].app] = NoVersion] ELSE running
  /\ IF conn[c].op = "restart" THEN Goes(c, "start") ELSE Answered(c)
  /\ UNCHANGED <<seconds, disk, apps, marks, cmd, commands>>

\* ar_supervisor_stop_all
AllStopped == [x \in Apps |-> NoVersion]

\* A scan reads the directory entry by entry: it sees what is there from
\* its beginning to its end, and may see what comes and goes meanwhile.
ScanBegin(c) ==
  /\ conn[c].at = "scan"
  /\ running' = IF conn[c].op = "reload" THEN AllStopped ELSE running
  /\ conn' = [conn EXCEPT ![c].at = "each", ![c].seen = {},
                          ![c].listed = {x \in Apps : Exists(package[x])}]
  /\ crowded' = FALSE
  /\ UNCHANGED <<seconds, disk, apps, outside, cmd, commands>>

\* is_cache_fresh: whole seconds, and the same second is not fresh.
CacheFresh(op, x) == op # "reload" /\ Exists(cache[x]) /\ cache[x].t > package[x].t

RegistryFull(x) == ~Registered(x) /\ Len(apps) >= MaxApps

MutRegisterTwice(x) == IF Len(apps) >= MaxApps THEN apps ELSE Append(apps, x)
\* ar_supervisor_register_app.
Register(x) == IF Registered(x) \/ Len(apps) >= MaxApps THEN apps ELSE Append(apps, x)

\* extract_arapp
Extracted(x) == [cache EXCEPT ![x] = File(package[x].v)]

\* scan_arapp_file and process_app in phase 2.
ScanOne(c) ==
  /\ conn[c].at = "each"
  /\ \E x \in Apps \ conn[c].seen :
       /\ Exists(package[x])
       /\ cache' = IF CacheFresh(conn[c].op, x) THEN cache
                   ELSE Extracted(x)
       /\ apps' = Register(x)
       /\ crowded' = (crowded \/ RegistryFull(x))
       /\ conn' = [conn EXCEPT ![c].seen = @ \cup {x}]
  /\ UNCHANGED <<seconds, own, download, package, autofile, running, outside, cmd, commands>>

\* After a reload the applications of autostart.cfg are started.
Autostarted == [x \in Apps |-> IF x \in autofile /\ Registered(x) /\ running[x] = NoVersion
                               THEN cache[x].v ELSE running[x]]

ScanEnd(c) ==
  /\ conn[c].at = "each"
  /\ \A x \in conn[c].listed \ conn[c].seen : ~Exists(package[x])
  /\ IF conn[c].op = "reload"
     THEN Answered(c) /\ running' = Autostarted
     ELSE conn' = [conn EXCEPT ![c].at = "prune", ![c].i = 1] /\ UNCHANGED running
  /\ UNCHANGED <<seconds, disk, apps, marks, cmd, commands>>

\* loader_prune_missing under app_mutex: entries whose package is there are
\* passed over; the first one without is taken down outside the mutex.
Prune(c) ==
  LET i == conn[c].i IN
  /\ conn[c].at = "prune"
  /\ \/ i > Len(apps) /\ Answered(c)
     \/ /\ i <= Len(apps)
        /\ IF Exists(package[apps[i]]) THEN conn' = [conn EXCEPT ![c].i = @ + 1]
           ELSE conn' = [conn EXCEPT ![c].at = "take_down", ![c].app = apps[i]]
  /\ UNCHANGED <<seconds, disk, apps, running, marks, cmd, commands>>

MutNeverStops(x) == running
\* ar_supervisor_stop_app, for an application that the registry has.
Stopped(x) == IF Registered(x) THEN [running EXCEPT ![x] = NoVersion] ELSE running

TakeDown(c) ==
  /\ conn[c].at = "take_down" /\ Goes(c, "drop")
  /\ running' = Stopped(conn[c].app)
  /\ UNCHANGED <<seconds, disk, apps, marks, cmd, commands>>

\* Entry i, whatever it is by now, is overwritten by the last one.
Without(i) ==
  LET n == Len(apps) IN
  SubSeq(IF i < n THEN [apps EXCEPT ![i] = apps[n]] ELSE apps, 1, n - 1)

Drop(c) ==
  /\ conn[c].at = "drop" /\ Goes(c, "prune")
  /\ IF apps = <<>> THEN outside' = TRUE /\ UNCHANGED apps
     ELSE apps' = Without(conn[c].i) /\ UNCHANGED outside
  /\ UNCHANGED <<seconds, disk, running, crowded, cmd, commands>>

Serve(c) == \/ StartApp(c) \/ StopApp(c) \/ ScanBegin(c) \/ ScanOne(c) \/ ScanEnd(c)
            \/ Prune(c) \/ TakeDown(c) \/ Drop(c)

\* A request accepted on a free connection.
Requested(op, x) ==
  \E c \in Conns :
    /\ conn[c].at = "idle"
    /\ conn' = [conn EXCEPT ![c] = [NoRequest EXCEPT
                  !.op = op, !.app = x,
                  !.at = CASE op \in {"refresh", "reload"} -> "scan"
                           [] op = "restart" -> "stop" [] OTHER -> op]]

\* What an operator does by hand: alrios start, stop, restart, power reload
\* (power on does the same when the core is up), and start add and start del,
\* which change autostart.cfg first.
OperatorRequests ==
  \/ \E op \in {"start", "stop", "restart"}, x \in Apps : Requested(op, x)
  \/ Requested("reload", "none")
AutostartOn(x) == autofile' = autofile \cup {x} /\ Requested("start", x)
AutostartOff(x) == autofile' = autofile \ {x} /\ Requested("stop", x)

Operator ==
  /\ commands < MaxCommands /\ commands' = commands + 1
  /\ \/ OperatorRequests /\ UNCHANGED autofile
     \/ \E x \in Apps : AutostartOn(x) \/ AutostartOff(x)
  /\ UNCHANGED <<seconds, own, download, package, cache, apps, running, marks, cmd>>

----------------------------------------------------------------------------
(* arpm. *)

Moves(p, at) == cmd' = [cmd EXCEPT ![p].at = at]
Ends(p) == cmd' = [cmd EXCEPT ![p] = IdleArpm]
NoRequestMade == UNCHANGED <<conn, apps, running, marks>>

\* The command lines of cmd_install, cmd_update (a forced install of what the
\* registry has), cmd_install_src and cmd_uninstall.
InstallOf(x, from, force, run) ==
  [at |-> IF from = "own" THEN "verify" ELSE "fetch", op |-> "install", app |-> x,
   from |-> from, force |-> force, run |-> run]
UpdateOf(x) == InstallOf(x, "remote", TRUE, "no")
BuildOf(x, run) == [IdleArpm EXCEPT !.at = "build", !.op = "build", !.app = x, !.run = run]
UninstallOf(x) == [IdleArpm EXCEPT !.at = "halt", !.op = "uninstall", !.app = x]

Invoke(p) ==
  /\ cmd[p].at = "idle" /\ commands < MaxCommands /\ commands' = commands + 1
  /\ \E x \in Serves[p], run \in {"no", "start", "autostart"} :
       \/ \E force \in BOOLEAN, from \in {"remote", "own"} :
            /\ from = "own" => Exists(own[x])
            /\ cmd' = [cmd EXCEPT ![p] = InstallOf(x, from, force, run)]
       \/ cmd' = [cmd EXCEPT ![p] = UpdateOf(x)]
       \/ cmd' = [cmd EXCEPT ![p] = BuildOf(x, run)]
       \/ cmd' = [cmd EXCEPT ![p] = UninstallOf(x)]
  /\ NoRequestMade /\ UNCHANGED <<seconds, disk>>

\* The file being installed; `local_tmp != target' compares two arrays'
\* addresses, so a user's own file is moved and removed like a download.
Source(p) == IF cmd[p].from = "own" THEN own[cmd[p].app] ELSE download[cmd[p].app]
SourceGone(p) ==
  IF cmd[p].from = "own"
  THEN own' = [own EXCEPT ![cmd[p].app] = NoFile] /\ UNCHANGED download
  ELSE download' = [download EXCEPT ![cmd[p].app] = NoFile] /\ UNCHANGED own

\* resolve_registry_package does not find the package, nothing is touched.
Unresolved(p) ==
  /\ cmd[p].at = "fetch" /\ Ends(p)
  /\ NoRequestMade /\ UNCHANGED <<seconds, disk, commands>>

\* download_file
Fetch(p) ==
  /\ cmd[p].at = "fetch"
  /\ \/ \E w \in Versions :
          /\ download' = [download EXCEPT ![cmd[p].app] = File(w)] /\ Moves(p, "verify")
     \/ download' = [download EXCEPT ![cmd[p].app] = NoFile] /\ Ends(p)
  /\ NoRequestMade /\ UNCHANGED <<seconds, own, package, cache, autofile, commands>>

\* zip_is_arapp, then the sha256 of the registry; a file given by its path
\* has none.
ShaAdmits(x, v) == v \in Sha[x]
Accepted(p, f) ==
  /\ Exists(f) /\ f.v # Headerless
  /\ cmd[p].from = "remote" => ShaAdmits(cmd[p].app, f.v)

Verify(p) ==
  /\ cmd[p].at = "verify"
  /\ IF Accepted(p, Source(p)) /\ (cmd[p].force \/ ~Exists(package[cmd[p].app]))
     THEN Moves(p, "move") /\ UNCHANGED <<own, download>>
     ELSE SourceGone(p) /\ Ends(p)
  /\ NoRequestMade /\ UNCHANGED <<seconds, package, cache, autofile, commands>>

\* rename(2) keeps the file's time; its result is not looked at, and fails
\* for a file that is gone or of another file system.
Move(p) ==
  /\ cmd[p].at = "move"
  /\ \/ /\ Exists(Source(p))
        /\ package' = [package EXCEPT ![cmd[p].app] = Source(p)] /\ SourceGone(p)
     \/ /\ cmd[p].from = "own" \/ ~Exists(Source(p))
        /\ UNCHANGED <<package, own, download>>
  /\ Moves(p, "autostart")
  /\ NoRequestMade /\ UNCHANGED <<seconds, cache, autofile, commands>>

\* armake writes the package, or fails; the package must then be there.
Build(p) ==
  /\ cmd[p].at = "build"
  /\ \/ \E w \in Versions \ {Headerless} :
          package' = [package EXCEPT ![cmd[p].app] = File(w)] /\ Moves(p, "autostart")
     \/ UNCHANGED package /\ Ends(p)
  /\ NoRequestMade /\ UNCHANGED <<seconds, own, download, cache, autofile, commands>>

AutostartAdd(p) ==
  /\ cmd[p].at = "autostart"
  /\ autofile' = IF cmd[p].run = "autostart" THEN autofile \cup {cmd[p].app} ELSE autofile
  /\ Moves(p, "refresh")
  /\ NoRequestMade /\ UNCHANGED <<seconds, own, download, package, cache, commands>>

\* trigger_arcore_refresh, and trigger_arcore_start for --start or --autostart.
NotifyRefresh(p) ==
  /\ cmd[p].at = "refresh" /\ Requested("refresh", "none")
  /\ IF cmd[p].run # "no" THEN Moves(p, "start") ELSE Ends(p)
  /\ UNCHANGED <<seconds, disk, apps, running, marks, commands>>
NotifyStart(p) ==
  /\ cmd[p].at = "start" /\ Requested("start", cmd[p].app) /\ Ends(p)
  /\ UNCHANGED <<seconds, disk, apps, running, marks, commands>>

\* cmd_uninstall.
Halt(p) ==
  /\ cmd[p].at = "halt" /\ Requested("stop", cmd[p].app) /\ Moves(p, "forget")
  /\ UNCHANGED <<seconds, disk, apps, running, marks, commands>>
AutostartRemove(p) ==
  /\ cmd[p].at = "forget" /\ autofile' = autofile \ {cmd[p].app} /\ Moves(p, "remove")
  /\ NoRequestMade /\ UNCHANGED <<seconds, own, download, package, cache, commands>>
RemovePackage(p) ==
  /\ cmd[p].at = "remove" /\ package' = [package EXCEPT ![cmd[p].app] = NoFile]
  /\ Moves(p, "uncache")
  /\ NoRequestMade /\ UNCHANGED <<seconds, own, download, cache, autofile, commands>>
Uncache(p) ==
  /\ cmd[p].at = "uncache" /\ cache' = [cache EXCEPT ![cmd[p].app] = NoFile]
  /\ Moves(p, "refresh")
  /\ NoRequestMade /\ UNCHANGED <<seconds, own, download, package, autofile, commands>>

Arpm(p) == \/ Invoke(p) \/ Unresolved(p) \/ Fetch(p) \/ Verify(p) \/ Move(p) \/ Build(p)
           \/ AutostartAdd(p) \/ NotifyRefresh(p) \/ NotifyStart(p)
           \/ Halt(p) \/ AutostartRemove(p) \/ RemovePackage(p) \/ Uncache(p)

SecondPasses == seconds < MaxSeconds /\ seconds' = seconds + 1
        /\ UNCHANGED <<disk, apps, running, marks, cmd, conn, commands>>

RegistryNext == \/ \E c \in Conns : Serve(c)
                \/ \E p \in Arpms : Arpm(p)
                \/ Operator \/ SecondPasses

RegistrySpec == RegistryInit /\ [][RegistryNext]_registryVars

----------------------------------------------------------------------------
Files == {NoFile} \cup [v : Versions, t : 1..MaxSeconds]

\* Files are those of some version, the registry never exceeds its array.
RegistryTypeOK ==
  /\ own \in [Apps -> Files] /\ download \in [Apps -> Files]
  /\ package \in [Apps -> Files] /\ cache \in [Apps -> Files]
  /\ autofile \subseteq Apps /\ apps \in Seq(Apps) /\ Len(apps) <= MaxApps
  /\ running \in [Apps -> Versions \cup {NoVersion}]
  /\ outside \in BOOLEAN /\ crowded \in BOOLEAN /\ commands \in 0..MaxCommands

Quiet == (\A p \in Arpms : cmd[p] = IdleArpm) /\ (\A c \in Conns : conn[c] = NoRequest)

\* However arpm's changes of the directory, its control requests and the
\* supervisor's scans and prunes interleave, when nothing is under way the
\* registry lists, once each, exactly the installed applications, or some of
\* them if the last scan found apps[] full (loader_prune_missing swaps
\* entries, scans run while files come and go, requests outlive the arpm that
\* made them; the places that a prune frees are filled by the next scan only).
RegistryFollowsPackages ==
  /\ RegistryTypeOK
  /\ Quiet => /\ \A k \in DOMAIN apps : Exists(package[apps[k]])
              /\ \A k, l \in DOMAIN apps : apps[k] = apps[l] => k = l
              /\ crowded \/ \A x \in Apps : Exists(package[x]) => Registered(x)

\* No process is left without an entry of apps[] to stop it by, and the
\* prune loop stays inside the array.
NoProcessOrphaned ==
  ~outside /\ \A x \in Apps : running[x] # NoVersion => Registered(x)

\* No file without the package header is ever installed, nor unpacked and
\* run, with the download of one arpm beside the commands of another.
OnlyPackagesRun ==
  \A x \in Apps : /\ package[x].v # Headerless /\ cache[x].v # Headerless
                  /\ running[x] # Headerless

\* Both: a process that runs is of a package, and the registry can stop it.
RunsOnlyRegistered == NoProcessOrphaned /\ OnlyPackagesRun

\* What the properties ask of the surroundings: one control request is served
\* at a time (for NoProcessOrphaned and RegistryFollowsPackages), and no two
\* arpm processes work on one application (for OnlyPackagesRun).
OneRequestAtATime == \A c, d \in Conns : c = d
OneArpmPerApp == \A p, q \in Arpms : p # q => Serves[p] \cap Serves[q] = {}
=============================================================================
