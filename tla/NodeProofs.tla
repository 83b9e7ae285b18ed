----------------------------- MODULE NodeProofs -----------------------------
(***************************************************************************)
(* Proofs about what a node trusts and runs.                               *)
(*                                                                         *)
(* The registry of applications, for any applications, versions, arpm      *)
(* processes and control connections: its books against the directory of   *)
(* packages and against the processes that run.                            *)
(*                                                                         *)
(* The chain of trust, for any certificates, periods, packages and keys:   *)
(* what is launched, staged or verified is certified and approved.         *)
(*                                                                         *)
(* The secret vault, for any savers, readers, stores and requests: what is *)
(* delivered is one store.                                                 *)
(***************************************************************************)
EXTENDS AppRegistry, TrustChain, VaultStore, TLAPS

(***************************************************************************)
(* The registry of applications                                            *)
(***************************************************************************)
\* A change of the directory of which the supervisor will be told.
Pending(x) == \E p \in Arpms : cmd[p].app = x /\ cmd[p].at \in {"autostart", "uncache", "refresh"}

\* The places of an arpm and of a connection, and what each holds there.
CmdPlaces == {"idle", "fetch", "verify", "move", "build", "autostart", "refresh", "start",
              "halt", "forget", "remove", "uncache"}
CmdType == [at : CmdPlaces, op : {"none", "install", "build", "uninstall"},
            app : Apps \cup {"none"}, from : {"none", "remote", "own"}, force : BOOLEAN,
            run : {"no", "start", "autostart"}]
ConnPlaces == {"idle", "start", "stop", "scan", "each", "prune", "take_down", "drop"}
ConnType == [at : ConnPlaces, op : {"none", "start", "stop", "restart", "refresh", "reload"},
             app : Apps \cup {"none"}, seen : SUBSET Apps, listed : SUBSET Apps, i : Nat]

CmdTypes == /\ cmd \in [Arpms -> CmdType]
            /\ \A p \in Arpms : cmd[p].at # "idle" => cmd[p].app \in Serves[p]
ConnTypes ==
  /\ conn \in [Conns -> ConnType]
  /\ \A c \in Conns : conn[c].at \in {"start", "stop"} => conn[c].app \in Apps
  /\ \A c \in Conns : conn[c].at \in {"prune", "take_down", "drop"} =>
                        conn[c].op = "refresh" /\ conn[c].i # 0
  /\ \A c \in Conns : conn[c].at \in {"take_down", "drop"} => conn[c].app \in Apps
  /\ \A c \in Conns : conn[c].at \in {"scan", "each"} => conn[c].op \in {"refresh", "reload"}
RegTypes == RegistryTypeOK /\ CmdTypes /\ ConnTypes /\ seconds \in 1..MaxSeconds

USE RegistryAssumption

\* An arpm that goes on to a place keeps its command.
LEMMA MovesFact ==
  ASSUME CmdTypes, NEW p \in Arpms, NEW at \in CmdPlaces, Moves(p, at), cmd[p].at # "idle"
  PROVE  /\ CmdTypes'
         /\ \A q \in Arpms : /\ cmd'[q].app = cmd[q].app /\ cmd'[q].from = cmd[q].from
                             /\ cmd'[q].at = IF q = p THEN at ELSE cmd[q].at
                             /\ q # p => cmd'[q] = cmd[q]
<1>. PICK r \in CmdType : r = cmd[p]  BY DEF CmdTypes
<1>1. cmd' = [cmd EXCEPT ![p] = [r EXCEPT !.at = at]]  BY DEF Moves, CmdTypes
<1>2. [r EXCEPT !.at = at] \in CmdType  BY DEF CmdType
<1>3. /\ [r EXCEPT !.at = at].app = r.app /\ [r EXCEPT !.at = at].from = r.from
      /\ [r EXCEPT !.at = at].at = at
  BY DEF CmdType
<1>4. \A q \in Arpms : cmd'[q] = IF q = p THEN [r EXCEPT !.at = at] ELSE cmd[q]
  BY <1>1 DEF CmdTypes
<1>5. cmd' \in [Arpms -> CmdType]  BY <1>1, <1>2 DEF CmdTypes
<1>6. \A q \in Arpms : /\ cmd'[q].app = cmd[q].app /\ cmd'[q].from = cmd[q].from
                       /\ cmd'[q].at = IF q = p THEN at ELSE cmd[q].at
                       /\ q # p => cmd'[q] = cmd[q]
  BY <1>3, <1>4
<1>. QED  BY <1>5, <1>6 DEF CmdTypes

\* An arpm that ends is idle; the others are as they were.
LEMMA EndsFact ==
  ASSUME CmdTypes, NEW p \in Arpms, Ends(p)
  PROVE  /\ CmdTypes'
         /\ \A q \in Arpms : cmd'[q] = IF q = p THEN IdleArpm ELSE cmd[q]
         /\ cmd'[p].at = "idle"
<1>1. IdleArpm \in CmdType /\ IdleArpm.at = "idle"  BY DEF IdleArpm, CmdType, CmdPlaces
<1>2. \A q \in Arpms : cmd'[q] = IF q = p THEN IdleArpm ELSE cmd[q]  BY DEF Ends, CmdTypes
<1>3. cmd' \in [Arpms -> CmdType]  BY <1>1 DEF Ends, CmdTypes
<1>. QED  BY <1>1, <1>2, <1>3 DEF CmdTypes

\* A connection that goes on to a place keeps its request.
LEMMA GoesFact ==
  ASSUME ConnTypes, NEW c \in Conns, NEW at \in ConnPlaces, Goes(c, at)
  PROVE  /\ conn' \in [Conns -> ConnType]
         /\ \A d \in Conns : /\ conn'[d].app = conn[d].app /\ conn'[d].op = conn[d].op
                             /\ conn'[d].seen = conn[d].seen /\ conn'[d].listed = conn[d].listed
                             /\ conn'[d].i = conn[d].i
                             /\ conn'[d].at = IF d = c THEN at ELSE conn[d].at
<1>. PICK r \in ConnType : r = conn[c]  BY DEF ConnTypes
<1>1. conn' = [conn EXCEPT ![c] = [r EXCEPT !.at = at]]  BY DEF Goes, ConnTypes
<1>2. [r EXCEPT !.at = at] \in ConnType  BY DEF ConnType
<1>3. /\ [r EXCEPT !.at = at].app = r.app /\ [r EXCEPT !.at = at].op = r.op
      /\ [r EXCEPT !.at = at].seen = r.seen /\ [r EXCEPT !.at = at].listed = r.listed
      /\ [r EXCEPT !.at = at].i = r.i /\ [r EXCEPT !.at = at].at = at
  BY DEF ConnType
<1>4. \A d \in Conns : conn'[d] = IF d = c THEN [r EXCEPT !.at = at] ELSE conn[d]
  BY <1>1 DEF ConnTypes
<1>5. conn' \in [Conns -> ConnType]  BY <1>1, <1>2 DEF ConnTypes
<1>. QED  BY <1>3, <1>4, <1>5

\* A connection whose request is answered is idle.
LEMMA AnsweredFact ==
  ASSUME ConnTypes, NEW c \in Conns, Answered(c)
  PROVE  /\ ConnTypes'
         /\ \A d \in Conns : conn'[d] = IF d = c THEN NoRequest ELSE conn[d]
         /\ conn'[c].at = "idle"
<1>1. NoRequest \in ConnType /\ NoRequest.at = "idle"  BY DEF NoRequest, ConnType, ConnPlaces
<1>2. \A d \in Conns : conn'[d] = IF d = c THEN NoRequest ELSE conn[d]
  BY DEF Answered, ConnTypes
<1>3. conn' \in [Conns -> ConnType]  BY <1>1 DEF Answered, ConnTypes
<1>. QED  BY <1>1, <1>2, <1>3 DEF ConnTypes

\* A request takes an idle connection and begins with a scan if it is a
\* refresh or a reload.
LEMMA RequestedFact ==
  ASSUME ConnTypes, NEW op \in {"start", "stop", "restart", "refresh", "reload"},
         NEW x \in Apps \cup {"none"}, Requested(op, x), op \in {"refresh", "reload"} \/ x \in Apps
  PROVE  /\ ConnTypes'
         /\ \E c \in Conns :
              /\ conn[c].at = "idle"
              /\ conn'[c].at \in {"start", "stop", "scan"} /\ conn'[c].op = op
              /\ op = "refresh" => conn'[c].at = "scan"
              /\ \A d \in Conns : d # c => conn'[d] = conn[d]
<1>. DEFINE at == CASE op \in {"refresh", "reload"} -> "scan"
                     [] op = "restart" -> "stop" [] OTHER -> op
            r == [NoRequest EXCEPT !.op = op, !.app = x, !.at = at]
<1>1. PICK c \in Conns : conn[c].at = "idle" /\ conn' = [conn EXCEPT ![c] = r]
  BY DEF Requested
<1>2. /\ at \in {"start", "stop", "scan"}
      /\ op = "refresh" => at = "scan"
      /\ at \in {"start", "stop"} => x \in Apps
      /\ at = "scan" => op \in {"refresh", "reload"}
  OBVIOUS
<1>. HIDE DEF at
<1>3. r \in ConnType /\ r.at = at /\ r.op = op /\ r.app = x
  BY <1>2 DEF NoRequest, ConnType, ConnPlaces
<1>. HIDE DEF r
<1>4. \A d \in Conns : conn'[d] = IF d = c THEN r ELSE conn[d]  BY <1>1 DEF ConnTypes
<1>5. conn' \in [Conns -> ConnType]  BY <1>1, <1>3 DEF ConnTypes
<1>6. ConnTypes'  BY <1>2, <1>3, <1>4, <1>5 DEF ConnTypes
<1>. QED  BY <1>1, <1>2, <1>3, <1>4, <1>6

\* A file that exists has a version, and one that does not is NoFile.
LEMMA FileFact ==
  ASSUME seconds \in 1..MaxSeconds
  PROVE  /\ \A v \in Versions : File(v) \in Files /\ File(v).v = v /\ Exists(File(v))
         /\ \A f \in Files : /\ Exists(f) => f.v \in Versions
                             /\ f.v \in Versions \cup {NoVersion}
                             /\ ~Exists(f) => f = NoFile
         /\ NoFile \in Files /\ NoFile.v = NoVersion /\ ~Exists(NoFile)
         /\ NoVersion \notin Versions
BY DEF File, Files, Exists, NoFile, NoVersion

\* Starting an application keeps the types (ar_supervisor_start_app).
LEMMA StartAppTypes ==
  ASSUME RegTypes, NEW c \in Conns, StartApp(c)
  PROVE  RegTypes'
<1>1. ConnTypes'  BY AnsweredFact DEF StartApp, RegTypes
<1>2. running' \in [Apps -> Versions \cup {NoVersion}]
  BY FileFact DEF StartApp, RegTypes, RegistryTypeOK, ConnTypes
<1>. QED  BY <1>1, <1>2 DEF StartApp, RegTypes, RegistryTypeOK, CmdTypes, disk, marks

\* Stopping one keeps the types (ar_supervisor_stop_app).
LEMMA StopAppTypes ==
  ASSUME RegTypes, NEW c \in Conns, StopApp(c)
  PROVE  RegTypes'
<1>1. ConnTypes'
  <2>1. CASE Answered(c)  BY <2>1, AnsweredFact DEF RegTypes
  <2>2. CASE Goes(c, "start")
    BY <2>2, GoesFact DEF RegTypes, ConnTypes, ConnPlaces, StopApp
  <2>. QED  BY <2>1, <2>2 DEF StopApp
<1>2. running' \in [Apps -> Versions \cup {NoVersion}]
  BY DEF StopApp, RegTypes, RegistryTypeOK, ConnTypes
<1>. QED  BY <1>1, <1>2 DEF StopApp, RegTypes, RegistryTypeOK, CmdTypes, disk, marks

\* What the beginning of a scan does to its connection.
LEMMA ScanBeginFact ==
  ASSUME RegTypes, NEW c \in Conns, ScanBegin(c)
  PROVE  /\ ConnTypes'
         /\ conn'[c].at = "each" /\ conn'[c].op = conn[c].op /\ conn'[c].seen = {}
         /\ conn'[c].listed = {x \in Apps : Exists(package[x])}
         /\ \A d \in Conns : d # c => conn'[d] = conn[d]
<1>. DEFINE L == {x \in Apps : Exists(package[x])}
<1>. PICK r \in ConnType : r = conn[c]  BY DEF RegTypes, ConnTypes
<1>. DEFINE q == [r EXCEPT !.at = "each", !.seen = {}, !.listed = L]
<1>1. conn' = [conn EXCEPT ![c] = q]  BY DEF ScanBegin, RegTypes, ConnTypes
<1>2. q \in ConnType /\ q.at = "each" /\ q.op = r.op /\ q.seen = {} /\ q.listed = L
  BY DEF ConnType, ConnPlaces
<1>. HIDE DEF q, L
<1>3. \A d \in Conns : conn'[d] = IF d = c THEN q ELSE conn[d]
  BY <1>1 DEF RegTypes, ConnTypes
<1>4. conn' \in [Conns -> ConnType]  BY <1>1, <1>2 DEF RegTypes, ConnTypes
<1>5. r.op \in {"refresh", "reload"}  BY DEF ScanBegin, RegTypes, ConnTypes
<1>6. ConnTypes'  BY <1>2, <1>3, <1>4, <1>5 DEF RegTypes, ConnTypes
<1>. QED  BY <1>2, <1>3, <1>6 DEF L

\* ... and keeps the types (ar_loader_scan_apps).
LEMMA ScanBeginTypes ==
  ASSUME RegTypes, NEW c \in Conns, ScanBegin(c)
  PROVE  RegTypes'
<1>1. ConnTypes'  BY ScanBeginFact
<1>2. running' \in [Apps -> Versions \cup {NoVersion}]
  BY DEF ScanBegin, RegTypes, RegistryTypeOK, AllStopped
<1>. QED  BY <1>1, <1>2 DEF ScanBegin, RegTypes, RegistryTypeOK, CmdTypes, disk

\* What one entry of a scan does: x is registered, or the registry is full.
LEMMA ScanOneFact ==
  ASSUME RegTypes, NEW c \in Conns, ScanOne(c)
  PROVE  /\ ConnTypes'
         /\ \E x \in Apps :
              /\ x \notin conn[c].seen /\ Exists(package[x])
              /\ cache' = cache \/ cache' = Extracted(x)
              /\ apps' = Register(x) /\ crowded' = (crowded \/ RegistryFull(x))
              /\ conn'[c].seen = conn[c].seen \cup {x}
         /\ conn'[c].at = "each" /\ conn'[c].op = conn[c].op /\ conn'[c].listed = conn[c].listed
         /\ \A d \in Conns : d # c => conn'[d] = conn[d]
<1>1. PICK x \in Apps \ conn[c].seen :
        /\ Exists(package[x])
        /\ cache' = IF CacheFresh(conn[c].op, x) THEN cache ELSE Extracted(x)
        /\ apps' = Register(x) /\ crowded' = (crowded \/ RegistryFull(x))
        /\ conn' = [conn EXCEPT ![c].seen = @ \cup {x}]
  BY DEF ScanOne
<1>. PICK r \in ConnType : r = conn[c]  BY DEF RegTypes, ConnTypes
<1>. DEFINE q == [r EXCEPT !.seen = @ \cup {x}]
<1>2. conn' = [conn EXCEPT ![c] = q]  BY <1>1 DEF RegTypes, ConnTypes
<1>3. /\ q \in ConnType /\ q.at = r.at /\ q.op = r.op /\ q.seen = r.seen \cup {x}
      /\ q.listed = r.listed
  BY DEF ConnType, ConnPlaces
<1>. HIDE DEF q
<1>4. \A d \in Conns : conn'[d] = IF d = c THEN q ELSE conn[d]
  BY <1>2 DEF RegTypes, ConnTypes
<1>5. conn' \in [Conns -> ConnType]  BY <1>2, <1>3 DEF RegTypes, ConnTypes
<1>6. r.at = "each"  BY DEF ScanOne
<1>7. ConnTypes'  BY <1>3, <1>4, <1>5, <1>6 DEF RegTypes, ConnTypes
<1>8. conn'[c].at = "each" /\ conn'[c].op = conn[c].op /\ conn'[c].listed = conn[c].listed
  BY <1>3, <1>4, <1>6
<1>9. conn'[c].seen = conn[c].seen \cup {x}  BY <1>3, <1>4
<1>. QED  BY <1>1, <1>4, <1>7, <1>8, <1>9

\* Registering keeps the names and appends at most one.
LEMMA RegisterFact ==
  ASSUME RegistryTypeOK, NEW x \in Apps
  PROVE  /\ Register(x) \in Seq(Apps) /\ Len(Register(x)) <= MaxApps
         /\ \A k \in DOMAIN apps : k \in DOMAIN Register(x) /\ Register(x)[k] = apps[k]
         /\ \A k \in DOMAIN Register(x) : k \in DOMAIN apps \/ (Register(x)[k] = x /\ ~Registered(x))
         /\ RegistryFull(x) \/ \E k \in DOMAIN Register(x) : Register(x)[k] = x
         /\ Len(Register(x)) <= Len(apps) + 1
<1>. apps \in Seq(Apps) /\ Len(apps) \in Nat /\ DOMAIN apps = 1..Len(apps) /\ Len(apps) <= MaxApps
  BY DEF RegistryTypeOK
<1>1. CASE Registered(x) \/ Len(apps) >= MaxApps
  <2>1. Register(x) = apps  BY <1>1 DEF Register
  <2>2. RegistryFull(x) \/ \E k \in DOMAIN apps : apps[k] = x
    BY <1>1 DEF RegistryFull, Registered
  <2>. QED  BY <2>1, <2>2
<1>2. CASE ~(Registered(x) \/ Len(apps) >= MaxApps)
  <2>1. Register(x) = Append(apps, x)  BY <1>2 DEF Register
  <2>2. /\ Append(apps, x) \in Seq(Apps) /\ Len(Append(apps, x)) = Len(apps) + 1
        /\ Append(apps, x)[Len(apps) + 1] = x
        /\ \A k \in 1..Len(apps) : Append(apps, x)[k] = apps[k]
    OBVIOUS
  <2>3. DOMAIN Append(apps, x) = 1..(Len(apps) + 1)  BY <2>2
  <2>. QED  BY <1>2, <2>1, <2>2, <2>3
<1>. QED  BY <1>1, <1>2

\* ... so a step of the scan keeps the types.
LEMMA ScanOneTypes ==
  ASSUME RegTypes, NEW c \in Conns, ScanOne(c)
  PROVE  RegTypes'
<1>1. PICK x \in Apps :
        /\ x \notin conn[c].seen /\ Exists(package[x])
        /\ cache' = cache \/ cache' = Extracted(x)
        /\ apps' = Register(x) /\ crowded' = (crowded \/ RegistryFull(x))
  BY ScanOneFact
<1>2. cache' \in [Apps -> Files]
  <2>1. package[x] \in Files /\ cache \in [Apps -> Files]  BY DEF RegTypes, RegistryTypeOK
  <2>2. File(package[x].v) \in Files  BY <1>1, <2>1, FileFact DEF RegTypes
  <2>. QED  BY <1>1, <2>1, <2>2 DEF Extracted
<1>3. apps' \in Seq(Apps) /\ Len(apps') <= MaxApps  BY <1>1, RegisterFact DEF RegTypes
<1>4. ConnTypes'  BY ScanOneFact
<1>5. crowded' \in BOOLEAN  BY <1>1 DEF RegTypes, RegistryTypeOK, RegistryFull
<1>. QED  BY <1>2, <1>3, <1>4, <1>5 DEF ScanOne, RegTypes, RegistryTypeOK, CmdTypes

\* A connection that goes to prune from a scan, and from one entry to the next.
LEMMA PointFact ==
  ASSUME ConnTypes, NEW c \in Conns, NEW n \in Nat \ {0}, conn[c].op = "refresh",
         conn' = [conn EXCEPT ![c].at = "prune", ![c].i = n]
  PROVE  /\ ConnTypes'
         /\ conn'[c].at = "prune" /\ conn'[c].i = n /\ conn'[c].op = "refresh"
         /\ \A d \in Conns : d # c => conn'[d] = conn[d]
<1>. PICK r \in ConnType : r = conn[c]  BY DEF ConnTypes
<1>. DEFINE q == [r EXCEPT !.at = "prune", !.i = n]
<1>1. conn' = [conn EXCEPT ![c] = q]  BY DEF ConnTypes
<1>2. q \in ConnType /\ q.at = "prune" /\ q.op = r.op /\ q.i = n  BY DEF ConnType, ConnPlaces
<1>. HIDE DEF q
<1>3. \A d \in Conns : conn'[d] = IF d = c THEN q ELSE conn[d]  BY <1>1 DEF ConnTypes
<1>4. conn' \in [Conns -> ConnType]  BY <1>1, <1>2 DEF ConnTypes
<1>5. ConnTypes'  BY <1>2, <1>3, <1>4 DEF ConnTypes
<1>. QED  BY <1>2, <1>3, <1>5

\* The end of a scan keeps the types: a reload is answered, a refresh prunes.
LEMMA ScanEndTypes ==
  ASSUME RegTypes, NEW c \in Conns, ScanEnd(c)
  PROVE  RegTypes'
<1>0. conn[c].op # "reload" => conn[c].op = "refresh"
  BY DEF RegTypes, ConnTypes, ScanEnd
<1>1. ConnTypes'
  <2>1. CASE Answered(c)  BY <2>1, AnsweredFact DEF RegTypes
  <2>2. CASE conn[c].op # "reload" /\ conn' = [conn EXCEPT ![c].at = "prune", ![c].i = 1]
    <3>1. 1 \in Nat \ {0} /\ conn[c].op = "refresh" /\ ConnTypes  BY <2>2, <1>0 DEF RegTypes
    <3>. QED  BY <2>2, <3>1, PointFact
  <2>. QED  BY <2>1, <2>2 DEF ScanEnd
<1>2. running' \in [Apps -> Versions \cup {NoVersion}]
  BY FileFact DEF ScanEnd, RegTypes, RegistryTypeOK, Autostarted
<1>. QED  BY <1>1, <1>2 DEF ScanEnd, RegTypes, RegistryTypeOK, CmdTypes, disk, marks

\* The prune goes down to the entry below, or stays at one whose package is gone.
LEMMA PruneFact ==
  ASSUME RegTypes, NEW c \in Conns, Prune(c)
  PROVE  /\ ConnTypes'
         /\ \/ conn[c].i > Len(apps) /\ Answered(c)
            \/ /\ conn[c].i \in DOMAIN apps /\ Exists(package[apps[conn[c].i]])
               /\ conn'[c].at = "prune" /\ conn'[c].i = conn[c].i + 1 /\ conn'[c].op = "refresh"
            \/ /\ conn[c].i \in DOMAIN apps /\ ~Exists(package[apps[conn[c].i]])
               /\ conn'[c].at = "take_down" /\ conn'[c].i = conn[c].i /\ conn'[c].op = "refresh"
               /\ conn'[c].app = apps[conn[c].i]
         /\ \A d \in Conns : d # c => conn'[d] = conn[d]
<1>. apps \in Seq(Apps) /\ Len(apps) \in Nat /\ DOMAIN apps = 1..Len(apps)
  BY DEF RegTypes, RegistryTypeOK
<1>. PICK r \in ConnType : r = conn[c]  BY DEF RegTypes, ConnTypes
<1>. r.at = "prune" /\ r.i \in Nat \ {0} /\ r.op = "refresh"
  BY DEF Prune, RegTypes, ConnTypes, ConnType
<1>. ConnTypes  BY DEF RegTypes
<1>1. CASE conn[c].i > Len(apps) /\ Answered(c)
  BY <1>1, AnsweredFact
<1>2. CASE r.i <= Len(apps) /\ Exists(package[apps[r.i]]) /\ conn' = [conn EXCEPT ![c].i = @ + 1]
  <2>. DEFINE q == [r EXCEPT !.i = r.i + 1]
  <2>1. conn' = [conn EXCEPT ![c] = q]  BY <1>2 DEF ConnTypes
  <2>2. q \in ConnType /\ q.at = "prune" /\ q.op = r.op /\ q.i = r.i + 1
    BY DEF ConnType, ConnPlaces
  <2>. HIDE DEF q
  <2>3. \A d \in Conns : conn'[d] = IF d = c THEN q ELSE conn[d]  BY <2>1 DEF ConnTypes
  <2>4. conn' \in [Conns -> ConnType]  BY <2>1, <2>2 DEF ConnTypes
  <2>5. ConnTypes'  BY <2>2, <2>3, <2>4 DEF ConnTypes
  <2>. QED  BY <1>2, <2>2, <2>3, <2>5
<1>3. CASE /\ r.i <= Len(apps) /\ ~Exists(package[apps[r.i]])
           /\ conn' = [conn EXCEPT ![c].at = "take_down", ![c].app = apps[r.i]]
  <2>. DEFINE q == [r EXCEPT !.at = "take_down", !.app = apps[r.i]]
  <2>0. apps[r.i] \in Apps  BY <1>3
  <2>1. conn' = [conn EXCEPT ![c] = q]  BY <1>3 DEF ConnTypes
  <2>2. /\ q \in ConnType /\ q.at = "take_down" /\ q.op = r.op /\ q.i = r.i
        /\ q.app = apps[r.i]
    BY <2>0 DEF ConnType, ConnPlaces
  <2>. HIDE DEF q
  <2>3. \A d \in Conns : conn'[d] = IF d = c THEN q ELSE conn[d]  BY <2>1 DEF ConnTypes
  <2>4. conn' \in [Conns -> ConnType]  BY <2>1, <2>2 DEF ConnTypes
  <2>5. ConnTypes'  BY <2>0, <2>2, <2>3, <2>4 DEF ConnTypes
  <2>6. conn'[c] = q /\ \A d \in Conns : d # c => conn'[d] = conn[d]  BY <2>3
  <2>7. /\ conn[c].i \in DOMAIN apps /\ ~Exists(package[apps[conn[c].i]])
        /\ conn'[c].at = "take_down" /\ conn'[c].i = conn[c].i /\ conn'[c].op = "refresh"
        /\ conn'[c].app = apps[conn[c].i]
    BY <1>3, <2>2, <2>6
  <2>. QED  BY <2>5, <2>6, <2>7
<1>. QED  BY <1>1, <1>2, <1>3 DEF Prune

\* ... and keeps the types.
LEMMA PruneTypes ==
  ASSUME RegTypes, NEW c \in Conns, Prune(c)
  PROVE  RegTypes'
BY PruneFact DEF Prune, RegTypes, RegistryTypeOK, CmdTypes, disk, marks

\* Taking an application down keeps the types.
LEMMA TakeDownTypes ==
  ASSUME RegTypes, NEW c \in Conns, TakeDown(c)
  PROVE  RegTypes'
<1>1. ConnTypes'  BY GoesFact DEF TakeDown, RegTypes, ConnTypes, ConnPlaces
<1>2. running' \in [Apps -> Versions \cup {NoVersion}]
  BY DEF TakeDown, RegTypes, RegistryTypeOK, Stopped
<1>. QED  BY <1>1, <1>2 DEF TakeDown, RegTypes, RegistryTypeOK, CmdTypes, disk, marks

\* The last entry takes the place of entry i.
LEMMA WithoutFact ==
  ASSUME RegistryTypeOK, NEW i \in Nat \ {0}, apps # <<>>
  PROVE  /\ Without(i) \in Seq(Apps) /\ Len(Without(i)) = Len(apps) - 1
         /\ \A k \in 1..(Len(apps) - 1) :
              Without(i)[k] = IF k = i THEN apps[Len(apps)] ELSE apps[k]
<1>. DEFINE n == Len(apps)
            s == IF i < n THEN [apps EXCEPT ![i] = apps[n]] ELSE apps
<1>1. apps \in Seq(Apps) /\ n \in Nat \ {0} /\ DOMAIN apps = 1..n  BY DEF RegistryTypeOK
<1>2. s \in Seq(Apps) /\ Len(s) = n
  <2>1. apps \in [1..n -> Apps] /\ apps[n] \in Apps  BY <1>1
  <2>2. s \in [1..n -> Apps]  BY <1>1, <2>1
  <2>. QED  BY <1>1, <2>2
<1>3. \A k \in 1..n : s[k] = IF k = i /\ i < n THEN apps[n] ELSE apps[k]  BY <1>1
<1>. HIDE DEF s
<1>4. /\ SubSeq(s, 1, n - 1) \in Seq(Apps) /\ Len(SubSeq(s, 1, n - 1)) = n - 1
      /\ \A k \in 1..(n - 1) : SubSeq(s, 1, n - 1)[k] = s[k]
  BY <1>1, <1>2
<1>5. Without(i) = SubSeq(s, 1, n - 1)  BY DEF Without, s
<1>. QED  BY <1>1, <1>3, <1>4, <1>5

\* Dropping an entry keeps the types.
LEMMA DropTypes ==
  ASSUME RegTypes, NEW c \in Conns, Drop(c)
  PROVE  RegTypes'
<1>1. ConnTypes'  BY GoesFact DEF Drop, RegTypes, ConnTypes, ConnPlaces
<1>2. apps' \in Seq(Apps) /\ Len(apps') <= MaxApps /\ outside' \in BOOLEAN
  <2>1. CASE apps = <<>>  BY <2>1 DEF Drop, RegTypes, RegistryTypeOK
  <2>2. CASE apps # <<>>
    <3>1. conn[c].i \in Nat \ {0}  BY DEF Drop, RegTypes, ConnTypes, ConnType
    <3>2. apps' = Without(conn[c].i) /\ outside' = outside  BY <2>2 DEF Drop
    <3>3. Len(apps) \in Nat /\ Len(apps) <= MaxApps /\ outside \in BOOLEAN
      BY DEF RegTypes, RegistryTypeOK
    <3>. QED  BY <2>2, <3>1, <3>2, <3>3, WithoutFact DEF RegTypes
  <2>. QED  BY <2>1, <2>2
<1>. QED  BY <1>1, <1>2 DEF Drop, RegTypes, RegistryTypeOK, CmdTypes, disk

\* A request of the operator keeps the types.
LEMMA OperatorTypes ==
  ASSUME RegTypes, Operator
  PROVE  RegTypes'
<1>1. \E op \in {"start", "stop", "restart", "refresh", "reload"}, x \in Apps \cup {"none"} :
        Requested(op, x) /\ (op \in {"refresh", "reload"} \/ x \in Apps)
  BY DEF Operator, OperatorRequests, AutostartOn, AutostartOff
<1>2. ConnTypes'  BY <1>1, RequestedFact DEF RegTypes
<1>3. autofile' \subseteq Apps
  BY DEF Operator, OperatorRequests, AutostartOn, AutostartOff, RegTypes, RegistryTypeOK
<1>4. commands' \in 0..MaxCommands  BY DEF Operator, RegTypes, RegistryTypeOK
<1>. QED  BY <1>2, <1>3, <1>4 DEF Operator, RegTypes, RegistryTypeOK, CmdTypes, marks

\* So does time.
LEMMA SecondPassesTypes ==
  ASSUME RegTypes, SecondPasses
  PROVE  RegTypes'
BY DEF SecondPasses, RegTypes, RegistryTypeOK, CmdTypes, ConnTypes, disk, marks

\* A command begins with an application of the process and at its first place.
LEMMA InvokeFact ==
  ASSUME RegTypes, NEW p \in Arpms, Invoke(p)
  PROVE  /\ CmdTypes'
         /\ cmd'[p].at \in {"verify", "fetch", "build", "halt"}
         /\ \A q \in Arpms : q # p => cmd'[q] = cmd[q]
<1>1. PICK x \in Serves[p], run \in {"no", "start", "autostart"} :
        \/ \E force \in BOOLEAN, from \in {"remote", "own"} :
             cmd' = [cmd EXCEPT ![p] = InstallOf(x, from, force, run)]
        \/ cmd' = [cmd EXCEPT ![p] = UpdateOf(x)]
        \/ cmd' = [cmd EXCEPT ![p] = BuildOf(x, run)]
        \/ cmd' = [cmd EXCEPT ![p] = UninstallOf(x)]
  BY DEF Invoke
<1>. x \in Apps  OBVIOUS
<1>2. \E r \in CmdType : /\ cmd' = [cmd EXCEPT ![p] = r] /\ r.app = x
                         /\ r.at \in {"verify", "fetch", "build", "halt"}
  <2>1. \A force \in BOOLEAN, from \in {"remote", "own"} :
          LET r == InstallOf(x, from, force, run)
          IN r \in CmdType /\ r.app = x /\ r.at \in {"verify", "fetch"}
    BY DEF InstallOf, CmdType, CmdPlaces
  <2>2. LET r == UpdateOf(x) IN r \in CmdType /\ r.app = x /\ r.at = "fetch"
    BY DEF InstallOf, UpdateOf, CmdType, CmdPlaces
  <2>3. LET r == BuildOf(x, run) IN r \in CmdType /\ r.app = x /\ r.at = "build"
    BY DEF BuildOf, IdleArpm, CmdType, CmdPlaces
  <2>4. LET r == UninstallOf(x) IN r \in CmdType /\ r.app = x /\ r.at = "halt"
    BY DEF UninstallOf, IdleArpm, CmdType, CmdPlaces
  <2>. QED  BY <1>1, <2>1, <2>2, <2>3, <2>4
<1>3. PICK r \in CmdType : /\ cmd' = [cmd EXCEPT ![p] = r] /\ r.app = x
                           /\ r.at \in {"verify", "fetch", "build", "halt"}
  BY <1>2
<1>4. \A q \in Arpms : cmd'[q] = IF q = p THEN r ELSE cmd[q]  BY <1>3 DEF RegTypes, CmdTypes
<1>5. cmd' \in [Arpms -> CmdType]  BY <1>3 DEF RegTypes, CmdTypes
<1>. QED  BY <1>3, <1>4, <1>5 DEF RegTypes, CmdTypes

\* ... and keeps the types.
LEMMA InvokeTypes ==
  ASSUME RegTypes, NEW p \in Arpms, Invoke(p)
  PROVE  RegTypes'
<1>1. CmdTypes'  BY InvokeFact
<1>2. commands' \in 0..MaxCommands  BY DEF Invoke, RegTypes, RegistryTypeOK
<1>. QED  BY <1>1, <1>2 DEF Invoke, NoRequestMade, RegTypes, RegistryTypeOK, ConnTypes, disk, marks

\* The application of a command that is under way.
LEMMA CmdApp ==
  ASSUME RegTypes, NEW p \in Arpms, cmd[p].at # "idle"
  PROVE  cmd[p].app \in Apps /\ cmd[p].app \in Serves[p] /\ Source(p) \in Files
BY DEF RegTypes, CmdTypes, RegistryTypeOK, Source

\* The steps of an arpm keep the types: nothing to install ...
LEMMA UnresolvedTypes ==
  ASSUME RegTypes, NEW p \in Arpms, Unresolved(p)
  PROVE  RegTypes'
<1>1. CmdTypes'  BY EndsFact DEF Unresolved, RegTypes
<1>. QED  BY <1>1 DEF Unresolved, NoRequestMade, RegTypes, RegistryTypeOK, ConnTypes, disk, marks

\* ... the package is fetched ...
LEMMA FetchTypes ==
  ASSUME RegTypes, NEW p \in Arpms, Fetch(p)
  PROVE  RegTypes'
<1>. CmdTypes /\ cmd[p].at = "fetch" /\ cmd[p].at # "idle"  BY DEF RegTypes, Fetch
<1>1. CmdTypes'
  <2>1. CASE Moves(p, "verify")  BY <2>1, MovesFact DEF CmdPlaces
  <2>2. CASE Ends(p)  BY <2>2, EndsFact
  <2>. QED  BY <2>1, <2>2 DEF Fetch
<1>2. download' \in [Apps -> Files]
  BY CmdApp, FileFact DEF Fetch, RegTypes, RegistryTypeOK
<1>. QED  BY <1>1, <1>2 DEF Fetch, NoRequestMade, RegTypes, RegistryTypeOK, ConnTypes, marks

\* ... verified ...
LEMMA VerifyTypes ==
  ASSUME RegTypes, NEW p \in Arpms, Verify(p)
  PROVE  RegTypes'
<1>. CmdTypes /\ cmd[p].at = "verify" /\ cmd[p].at # "idle"  BY DEF RegTypes, Verify
<1>1. CmdTypes'
  <2>1. CASE Moves(p, "move")  BY <2>1, MovesFact DEF CmdPlaces
  <2>2. CASE Ends(p)  BY <2>2, EndsFact
  <2>. QED  BY <2>1, <2>2 DEF Verify
<1>2. download' \in [Apps -> Files] /\ own' \in [Apps -> Files]
  BY CmdApp, FileFact DEF Verify, SourceGone, RegTypes, RegistryTypeOK
<1>. QED  BY <1>1, <1>2 DEF Verify, NoRequestMade, RegTypes, RegistryTypeOK, ConnTypes, marks

\* ... moved into the directory of packages ...
LEMMA MoveTypes ==
  ASSUME RegTypes, NEW p \in Arpms, Move(p)
  PROVE  RegTypes'
<1>. CmdTypes /\ cmd[p].at = "move" /\ cmd[p].at # "idle"  BY DEF RegTypes, Move
<1>1. CmdTypes'  BY MovesFact DEF Move, CmdPlaces
<1>2. /\ download' \in [Apps -> Files] /\ own' \in [Apps -> Files]
      /\ package' \in [Apps -> Files]
  <2>1. cmd[p].app \in Apps /\ Source(p) \in Files  BY CmdApp
  <2>2. NoFile \in Files  BY DEF Files
  <2>3. CASE UNCHANGED <<package, own, download>>  BY <2>3 DEF RegTypes, RegistryTypeOK
  <2>4. CASE package' = [package EXCEPT ![cmd[p].app] = Source(p)] /\ SourceGone(p)
    <3>1. package' \in [Apps -> Files]  BY <2>1, <2>4 DEF RegTypes, RegistryTypeOK
    <3>. QED  BY <2>2, <2>4, <3>1 DEF SourceGone, RegTypes, RegistryTypeOK
  <2>. QED  BY <2>3, <2>4 DEF Move
<1>. QED  BY <1>1, <1>2 DEF Move, NoRequestMade, RegTypes, RegistryTypeOK, ConnTypes, marks

\* ... or built there ...
LEMMA BuildTypes ==
  ASSUME RegTypes, NEW p \in Arpms, Build(p)
  PROVE  RegTypes'
<1>. CmdTypes /\ cmd[p].at = "build" /\ cmd[p].at # "idle"  BY DEF RegTypes, Build
<1>1. CmdTypes'
  <2>1. CASE Moves(p, "autostart")  BY <2>1, MovesFact DEF CmdPlaces
  <2>2. CASE Ends(p)  BY <2>2, EndsFact
  <2>. QED  BY <2>1, <2>2 DEF Build
<1>2. package' \in [Apps -> Files]
  BY CmdApp, FileFact DEF Build, RegTypes, RegistryTypeOK
<1>. QED  BY <1>1, <1>2 DEF Build, NoRequestMade, RegTypes, RegistryTypeOK, ConnTypes, marks

\* ... the application is marked to be started ...
LEMMA AutostartAddTypes ==
  ASSUME RegTypes, NEW p \in Arpms, AutostartAdd(p)
  PROVE  RegTypes'
<1>. CmdTypes /\ cmd[p].at = "autostart" /\ cmd[p].at # "idle"  BY DEF RegTypes, AutostartAdd
<1>1. CmdTypes'  BY MovesFact DEF AutostartAdd, CmdPlaces
<1>2. autofile' \subseteq Apps  BY CmdApp DEF AutostartAdd, RegTypes, RegistryTypeOK
<1>. QED
  BY <1>1, <1>2 DEF AutostartAdd, NoRequestMade, RegTypes, RegistryTypeOK, ConnTypes, marks

\* ... the supervisor told to look again ...
LEMMA NotifyRefreshTypes ==
  ASSUME RegTypes, NEW p \in Arpms, NotifyRefresh(p)
  PROVE  RegTypes'
<1>. CmdTypes /\ cmd[p].at = "refresh" /\ cmd[p].at # "idle"  BY DEF RegTypes, NotifyRefresh
<1>1. CmdTypes'
  <2>1. CASE Moves(p, "start")  BY <2>1, MovesFact DEF CmdPlaces
  <2>2. CASE Ends(p)  BY <2>2, EndsFact
  <2>. QED  BY <2>1, <2>2 DEF NotifyRefresh
<1>2. ConnTypes'  BY RequestedFact DEF NotifyRefresh, RegTypes
<1>. QED  BY <1>1, <1>2 DEF NotifyRefresh, RegTypes, RegistryTypeOK, disk, marks

\* ... and to start it;
LEMMA NotifyStartTypes ==
  ASSUME RegTypes, NEW p \in Arpms, NotifyStart(p)
  PROVE  RegTypes'
<1>. CmdTypes /\ cmd[p].at = "start" /\ cmd[p].at # "idle"  BY DEF RegTypes, NotifyStart
<1>1. CmdTypes'  BY EndsFact DEF NotifyStart
<1>2. ConnTypes'  BY RequestedFact, CmdApp DEF NotifyStart, RegTypes
<1>. QED  BY <1>1, <1>2 DEF NotifyStart, RegTypes, RegistryTypeOK, disk, marks

\* ... the application is stopped ...
LEMMA HaltTypes ==
  ASSUME RegTypes, NEW p \in Arpms, Halt(p)
  PROVE  RegTypes'
<1>. CmdTypes /\ cmd[p].at = "halt" /\ cmd[p].at # "idle"  BY DEF RegTypes, Halt
<1>1. CmdTypes'  BY MovesFact DEF Halt, CmdPlaces
<1>2. ConnTypes'  BY RequestedFact, CmdApp DEF Halt, RegTypes
<1>. QED  BY <1>1, <1>2 DEF Halt, RegTypes, RegistryTypeOK, disk, marks

\* ... no longer marked ...
LEMMA AutostartRemoveTypes ==
  ASSUME RegTypes, NEW p \in Arpms, AutostartRemove(p)
  PROVE  RegTypes'
<1>. CmdTypes /\ cmd[p].at = "forget" /\ cmd[p].at # "idle"  BY DEF RegTypes, AutostartRemove
<1>1. CmdTypes'  BY MovesFact DEF AutostartRemove, CmdPlaces
<1>. QED
  BY <1>1 DEF AutostartRemove, NoRequestMade, RegTypes, RegistryTypeOK, ConnTypes, marks

\* ... its package removed ...
LEMMA RemovePackageTypes ==
  ASSUME RegTypes, NEW p \in Arpms, RemovePackage(p)
  PROVE  RegTypes'
<1>. CmdTypes /\ cmd[p].at = "remove" /\ cmd[p].at # "idle"  BY DEF RegTypes, RemovePackage
<1>1. CmdTypes'  BY MovesFact DEF RemovePackage, CmdPlaces
<1>2. package' \in [Apps -> Files]
  BY FileFact DEF RemovePackage, RegTypes, RegistryTypeOK
<1>. QED
  BY <1>1, <1>2 DEF RemovePackage, NoRequestMade, RegTypes, RegistryTypeOK, ConnTypes, marks

\* ... and what was cached of it.
LEMMA UncacheTypes ==
  ASSUME RegTypes, NEW p \in Arpms, Uncache(p)
  PROVE  RegTypes'
<1>. CmdTypes /\ cmd[p].at = "uncache" /\ cmd[p].at # "idle"  BY DEF RegTypes, Uncache
<1>1. CmdTypes'  BY MovesFact DEF Uncache, CmdPlaces
<1>2. cache' \in [Apps -> Files]  BY FileFact DEF Uncache, RegTypes, RegistryTypeOK
<1>. QED
  BY <1>1, <1>2 DEF Uncache, NoRequestMade, RegTypes, RegistryTypeOK, ConnTypes, marks

\* The initial state for the packages installed in this order.
InitWith(order) ==
  /\ seconds = 1
  /\ own \in [Apps -> {NoFile} \cup {[v |-> w, t |-> 1] : w \in OwnVersions}]
  /\ download = [x \in Apps |-> NoFile]
  /\ package = [x \in Apps |-> IF x \in {order[k] : k \in DOMAIN order}
                               THEN [v |-> FirstVersion, t |-> 1] ELSE NoFile]
  /\ cache = package
  /\ autofile = {} /\ apps = order /\ running = [x \in Apps |-> NoVersion]
  /\ outside = FALSE /\ crowded = FALSE
  /\ cmd = [p \in Arpms |-> IdleArpm] /\ conn = [c \in Conns |-> NoRequest]
  /\ commands = 0

\* The initial states are well typed.
LEMMA RegistryInitTypes == RegistryInit => RegTypes
<1>. SUFFICES ASSUME RegistryInit PROVE RegTypes  OBVIOUS
<1>0. PICK n \in 0..MaxApps : \E order \in [1..n -> Apps] : InitWith(order)
  BY DEF RegistryInit, InitWith
<1>. PICK order \in [1..n -> Apps] : InitWith(order)  BY <1>0
<1>2. NoFile \in Files /\ \A w \in Versions : [v |-> w, t |-> 1] \in Files  BY DEF Files
<1>3. /\ own \in [Apps -> Files] /\ download \in [Apps -> Files]
      /\ package \in [Apps -> Files] /\ cache \in [Apps -> Files]
  <2>1. {NoFile} \cup {[v |-> w, t |-> 1] : w \in OwnVersions} \subseteq Files  BY <1>2
  <2>2. own \in [Apps -> Files]  BY <2>1 DEF InitWith
  <2>3. download \in [Apps -> Files] /\ package \in [Apps -> Files]  BY <1>2 DEF InitWith
  <2>. QED  BY <2>2, <2>3 DEF InitWith
<1>4. apps \in Seq(Apps) /\ Len(apps) <= MaxApps
  <2>1. n \in Nat /\ n <= MaxApps  OBVIOUS
  <2>. QED  BY <2>1, SMTT(30) DEF InitWith
<1>5. CmdTypes
  <2>1. IdleArpm \in CmdType /\ IdleArpm.at = "idle"  BY DEF IdleArpm, CmdType, CmdPlaces
  <2>. QED  BY <2>1 DEF CmdTypes, InitWith
<1>6. ConnTypes
  <2>1. NoRequest \in ConnType /\ NoRequest.at = "idle"  BY DEF NoRequest, ConnType, ConnPlaces
  <2>. QED  BY <2>1 DEF ConnTypes, InitWith
<1>7. running \in [Apps -> Versions \cup {NoVersion}]  BY DEF InitWith
<1>8. autofile \subseteq Apps /\ outside \in BOOLEAN /\ crowded \in BOOLEAN
  BY Zenon DEF InitWith
<1>9. commands \in 0..MaxCommands /\ seconds \in 1..MaxSeconds  BY DEF InitWith
<1>. QED  BY <1>3, <1>4, <1>5, <1>6, <1>7, <1>8, <1>9 DEF RegTypes, RegistryTypeOK

\* Every step keeps the types.
LEMMA RegistryNextTypes ==
  ASSUME RegTypes, [RegistryNext]_registryVars
  PROVE  RegTypes'
<1>1. ASSUME NEW c \in Conns, Serve(c) PROVE RegTypes'
  BY <1>1, StartAppTypes, StopAppTypes, ScanBeginTypes, ScanOneTypes, ScanEndTypes, PruneTypes,
     TakeDownTypes, DropTypes DEF Serve
<1>2. ASSUME NEW p \in Arpms, Arpm(p) PROVE RegTypes'
  BY <1>2, InvokeTypes, UnresolvedTypes, FetchTypes, VerifyTypes, MoveTypes, BuildTypes,
     AutostartAddTypes, NotifyRefreshTypes, NotifyStartTypes, HaltTypes, AutostartRemoveTypes,
     RemovePackageTypes, UncacheTypes DEF Arpm
<1>3. CASE UNCHANGED registryVars
  BY <1>3 DEF registryVars, disk, marks, RegTypes, RegistryTypeOK, CmdTypes, ConnTypes
<1>. QED  BY <1>1, <1>2, <1>3, OperatorTypes, SecondPassesTypes DEF RegistryNext

\* Files with a package header only: installed, cached, running, and about to be
\* moved into the directory.
Headed ==
  /\ \A x \in Apps : /\ package[x].v # Headerless /\ cache[x].v # Headerless
                     /\ running[x] # Headerless
  /\ \A p \in Arpms : cmd[p].at = "move" => Source(p).v # Headerless

\* What an arpm is about to move stays as it was verified while nobody writes it.
LEMMA SourceKept ==
  ASSUME Headed,
         \A q \in Arpms : cmd'[q].at = "move" =>
            /\ cmd[q].at = "move" /\ cmd'[q].app = cmd[q].app /\ cmd'[q].from = cmd[q].from
            /\ own'[cmd[q].app] = own[cmd[q].app] /\ download'[cmd[q].app] = download[cmd[q].app]
  PROVE  \A q \in Arpms : cmd'[q].at = "move" => Source(q)'.v # Headerless
BY DEF Headed, Source

\* The supervisor starts packages that are there, so it runs only such files.
LEMMA ServeHeaded ==
  ASSUME RegTypes, Headed, NEW c \in Conns, Serve(c)
  PROVE  Headed'
<1>. /\ \A x \in Apps : /\ package[x] \in Files /\ cache[x] \in Files
                        /\ running[x] \in Versions \cup {NoVersion}
                        /\ package[x].v # Headerless /\ cache[x].v # Headerless
                        /\ running[x] # Headerless
     /\ Headerless # NoVersion
  BY DEF RegTypes, RegistryTypeOK, Headed, NoVersion
<1>1. cmd' = cmd /\ own' = own /\ download' = download /\ package' = package
  BY DEF Serve, StartApp, StopApp, ScanBegin, ScanOne, ScanEnd, Prune, TakeDown, Drop, disk
<1>2. \A q \in Arpms : cmd'[q].at = "move" => Source(q)'.v # Headerless
  BY <1>1, SourceKept
<1>3. \A x \in Apps : cache'[x].v # Headerless
  <2>1. CASE cache' = cache  BY <2>1
  <2>2. CASE ScanOne(c)
    <3>1. PICK x \in Apps : Exists(package[x]) /\ (cache' = cache \/ cache' = Extracted(x))
      BY <2>2, ScanOneFact
    <3>2. File(package[x].v).v # Headerless  BY <3>1, FileFact DEF RegTypes
    <3>3. cache \in [Apps -> Files]  BY DEF RegTypes, RegistryTypeOK
    <3>. QED  BY <3>1, <3>2, <3>3 DEF Extracted
  <2>. QED  BY <2>1, <2>2 DEF Serve, StartApp, StopApp, ScanBegin, ScanEnd, Prune, TakeDown, Drop, disk
<1>4. \A x \in Apps : running'[x] # Headerless
  BY DEF Serve, StartApp, StopApp, ScanBegin, ScanOne, ScanEnd, Prune, TakeDown, Drop,
     AllStopped, Autostarted, Stopped, RegTypes, RegistryTypeOK, ConnTypes
<1>. QED  BY <1>1, <1>2, <1>3, <1>4 DEF Headed

\* arpm moves what it verified and what its user built; with one arpm for an
\* application nobody exchanges the file between the two.
LEMMA ArpmHeaded ==
  ASSUME OneArpmPerApp, RegTypes, Headed, NEW p \in Arpms, Arpm(p)
  PROVE  Headed'
<1>0. /\ \A x \in Apps : package[x] \in Files /\ cache[x] \in Files
      /\ package \in [Apps -> Files] /\ cache \in [Apps -> Files]
      /\ own \in [Apps -> Files] /\ download \in [Apps -> Files]
      /\ Headerless # NoVersion /\ NoFile.v = NoVersion /\ CmdTypes
  BY FileFact DEF RegTypes, RegistryTypeOK, NoVersion
<1>1. \A q \in Arpms : q # p /\ cmd[q].at # "idle" /\ cmd[p].at # "idle" => cmd[q].app # cmd[p].app
  BY CmdApp DEF OneArpmPerApp
<1>2. running' = running
  BY DEF Arpm, Invoke, Unresolved, Fetch, Verify, Move, Build, AutostartAdd, NotifyRefresh, NotifyStart,
     Halt, AutostartRemove, RemovePackage, Uncache, NoRequestMade
<1>3. \A x \in Apps : cache'[x].v # Headerless
  BY <1>0 DEF Headed, Arpm, Invoke, Unresolved, Fetch, Verify, Move, Build, AutostartAdd, NotifyRefresh,
     NotifyStart, Halt, AutostartRemove, RemovePackage, Uncache, disk
<1>4. \A x \in Apps : package'[x].v # Headerless
  <2>1. CASE package' = package  BY <2>1 DEF Headed
  <2>2. CASE Move(p)
    <3>1. Source(p).v # Headerless  BY <2>2 DEF Move, Headed
    <3>. QED  BY <1>0, <2>2, <3>1 DEF Move, Headed
  <2>3. CASE Build(p)
    <3>1. \A w \in Versions \ {Headerless} : File(w).v # Headerless  BY FileFact DEF RegTypes
    <3>. QED  BY <1>0, <2>3, <3>1 DEF Build, Headed
  <2>4. CASE RemovePackage(p)  BY <1>0, <2>4 DEF RemovePackage, Headed
  <2>. QED
    BY <2>1, <2>2, <2>3, <2>4 DEF Arpm, Invoke, Unresolved, Fetch, Verify, AutostartAdd,
       NotifyRefresh, NotifyStart, Halt, AutostartRemove, Uncache, disk
<1>5. \A q \in Arpms : cmd'[q].at = "move" => Source(q)'.v # Headerless
  <2>1. CASE Verify(p) /\ Moves(p, "move") /\ UNCHANGED <<own, download>> /\ Accepted(p, Source(p))
    <3>1. \A q \in Arpms : /\ cmd'[q].app = cmd[q].app /\ cmd'[q].from = cmd[q].from
                           /\ cmd'[q].at = IF q = p THEN "move" ELSE cmd[q].at
      BY <1>0, <2>1, MovesFact DEF Verify, CmdPlaces
    <3>2. \A q \in Arpms : Source(q)' = Source(q)  BY <2>1, <3>1 DEF Source
    <3>. QED  BY <2>1, <3>1, <3>2 DEF Accepted, Headed
  <2>2. CASE Invoke(p) \/ Unresolved(p) \/ Build(p) \/ AutostartAdd(p) \/ NotifyRefresh(p)
             \/ NotifyStart(p) \/ Halt(p) \/ AutostartRemove(p) \/ RemovePackage(p) \/ Uncache(p)
    <3>1. own' = own /\ download' = download
      BY <2>2 DEF Invoke, Unresolved, Build, AutostartAdd, NotifyRefresh, NotifyStart, Halt,
         AutostartRemove, RemovePackage, Uncache, disk
    <3>2. \A q \in Arpms : /\ q # p => cmd'[q] = cmd[q]
                           /\ cmd'[p].at # "move"
      <4>1. CASE Invoke(p)  BY <4>1, InvokeFact
      <4>2. CASE \E at \in CmdPlaces \ {"idle", "move"} : Moves(p, at) /\ cmd[p].at # "idle"
        BY <1>0, <4>2, MovesFact
      <4>3. CASE Ends(p)  BY <1>0, <4>3, EndsFact
      <4>. QED  BY <2>2, <4>1, <4>2, <4>3 DEF Unresolved, Build, AutostartAdd, NotifyRefresh,
                   NotifyStart, Halt, AutostartRemove, RemovePackage, Uncache, CmdPlaces
    <3>. QED  BY <3>1, <3>2, SourceKept
  <2>3. CASE Fetch(p) \/ (Verify(p) /\ Ends(p) /\ SourceGone(p)) \/ Move(p)
    <3>1. cmd[p].at # "idle"  BY <2>3 DEF Fetch, Verify, Move
    <3>2. \A x \in Apps : x # cmd[p].app => own'[x] = own[x] /\ download'[x] = download[x]
      BY <1>0, <2>3 DEF Fetch, Verify, Move, SourceGone
    <3>3. \A q \in Arpms : /\ q # p => cmd'[q] = cmd[q]
                           /\ cmd'[p].at # "move"
      <4>2. CASE \E at \in CmdPlaces \ {"idle", "move"} : Moves(p, at)
        BY <1>0, <3>1, <4>2, MovesFact
      <4>3. CASE Ends(p)  BY <1>0, <4>3, EndsFact
      <4>. QED  BY <2>3, <4>2, <4>3 DEF Fetch, Move, CmdPlaces
    <3>4. \A q \in Arpms : q # p /\ cmd[q].at = "move" => cmd[q].app \in Apps
      BY CmdApp
    <3>. QED  BY <1>1, <3>1, <3>2, <3>3, <3>4, SourceKept
  <2>. QED  BY <2>1, <2>2, <2>3 DEF Arpm, Verify
<1>. QED  BY <1>2, <1>3, <1>4, <1>5 DEF Headed

\* Every step keeps files without a package header out.
LEMMA HeadedNext ==
  ASSUME OneArpmPerApp, RegTypes, Headed, [RegistryNext]_registryVars
  PROVE  Headed'
<1>1. CASE Operator \/ SecondPasses \/ UNCHANGED registryVars
  BY <1>1 DEF Operator, SecondPasses, registryVars, disk, marks, Headed, Source
<1>. QED  BY <1>1, ServeHeaded, ArpmHeaded DEF RegistryNext

\* The books of the registry: no application twice ...
Distinct == \A k, l \in DOMAIN apps : apps[k] = apps[l] => k = l
\* ... the entry that a prune takes down is the one it read before it let go of
\* the lock ...
Pointed == \A c \in Conns : conn[c].at \in {"take_down", "drop"} =>
             /\ conn[c].i \in DOMAIN apps /\ apps[conn[c].i] = conn[c].app
             /\ conn[c].at = "drop" => running[conn[c].app] = NoVersion
             /\ Exists(package[conn[c].app]) => Pending(conn[c].app)
\* ... an entry whose package is gone will be pruned: the supervisor will be told,
\* or a refresh has it still before it ...
WillGo ==
  \A k \in DOMAIN apps : ~Exists(package[apps[k]]) =>
     \/ Pending(apps[k])
     \/ \E c \in Conns : /\ conn[c].op = "refresh"
                         /\ \/ conn[c].at \in {"scan", "each"}
                            \/ conn[c].at \in {"prune", "take_down", "drop"} /\ k >= conn[c].i
\* ... a package without an entry will be registered, or was refused ...
WillCome ==
  \A x \in Apps : Exists(package[x]) /\ ~Registered(x) =>
     \/ crowded \/ Pending(x)
     \/ \E c \in Conns : conn[c].at = "scan" \/ (conn[c].at = "each" /\ x \notin conn[c].seen)
\* ... and a package that came after the scan listed the directory will be told.
WasListed ==
  \A c \in Conns : conn[c].at = "each" =>
     \A x \in Apps : Exists(package[x]) /\ x \notin conn[c].listed => Pending(x)
Books == NoProcessOrphaned /\ Distinct /\ Pointed /\ WillGo /\ WillCome /\ WasListed

\* A change that will be told stays so until the supervisor is told.
LEMMA PendingKept ==
  ASSUME RegTypes, NEW p \in Arpms, Arpm(p), ~NotifyRefresh(p), NEW x, Pending(x)
  PROVE  Pending(x)'
<1>0. CmdTypes  BY DEF RegTypes
<1>1. PICK q \in Arpms : cmd[q].app = x /\ cmd[q].at \in {"autostart", "uncache", "refresh"}
  BY DEF Pending
<1>2. CASE q # p
  <2>1. cmd'[q] = cmd[q]
    <3>1. CASE Invoke(p)  BY <1>2, <3>1, InvokeFact
    <3>2. CASE \E at \in CmdPlaces : Moves(p, at) /\ cmd[p].at # "idle"  BY <1>0, <1>2, <3>2, MovesFact
    <3>3. CASE Ends(p)  BY <1>0, <1>2, <3>3, EndsFact
    <3>. QED  BY <3>1, <3>2, <3>3 DEF Arpm, Unresolved, Fetch, Verify, Move, Build, AutostartAdd,
                 NotifyStart, Halt, AutostartRemove, RemovePackage, Uncache, CmdPlaces
  <2>. QED  BY <1>1, <2>1 DEF Pending
<1>3. CASE q = p
  <2>1. CASE AutostartAdd(p) \/ Uncache(p)
    <3>1. Moves(p, "refresh") /\ cmd[p].at # "idle"  BY <2>1 DEF AutostartAdd, Uncache
    <3>2. cmd'[p].app = cmd[p].app /\ cmd'[p].at = "refresh"  BY <1>0, <3>1, MovesFact DEF CmdPlaces
    <3>. QED  BY <1>1, <1>3, <3>2 DEF Pending
  <2>. QED  BY <1>1, <1>3, <2>1 DEF Arpm, Invoke, Unresolved, Fetch, Verify, Move, Build, NotifyStart,
               Halt, AutostartRemove, RemovePackage
<1>. QED  BY <1>2, <1>3

\* Whoever changes the directory of packages has the supervisor told about it.
LEMMA PackageChange ==
  ASSUME RegTypes, NEW p \in Arpms, Arpm(p)
  PROVE  \A x \in Apps : package'[x] = package[x] \/ Pending(x)'
<1>0. CmdTypes /\ package \in [Apps -> Files]  BY DEF RegTypes, RegistryTypeOK
<1>1. CASE package' = package  BY <1>1
<1>2. CASE \E f : \E at \in {"autostart", "uncache"} :
             /\ Moves(p, at) /\ cmd[p].at # "idle"
             /\ package' = [package EXCEPT ![cmd[p].app] = f]
  <2>1. cmd'[p].app = cmd[p].app /\ cmd'[p].at \in {"autostart", "uncache"}
    BY <1>0, <1>2, MovesFact DEF CmdPlaces
  <2>2. \A x : x = cmd[p].app => Pending(x)'  BY <2>1 DEF Pending
  <2>3. \A x \in Apps : x # cmd[p].app => package'[x] = package[x]  BY <1>0, <1>2
  <2>. QED  BY <2>2, <2>3
<1>3. CASE Move(p)  BY <1>1, <1>2, <1>3 DEF Move
<1>4. CASE Build(p)  BY <1>1, <1>2, <1>4 DEF Build
<1>5. CASE RemovePackage(p)  BY <1>2, <1>5 DEF RemovePackage
<1>. QED  BY <1>1, <1>3, <1>4, <1>5 DEF Arpm, Invoke, Unresolved, Fetch, Verify, AutostartAdd,
             NotifyRefresh, NotifyStart, Halt, AutostartRemove, Uncache, disk

\* arpm changes the directory and sends requests, and leaves the registry alone.
LEMMA ArpmBooks ==
  ASSUME OneRequestAtATime, RegTypes, Books, NEW p \in Arpms, Arpm(p)
  PROVE  Books'
<1>0. apps' = apps /\ running' = running /\ outside' = outside /\ crowded' = crowded
  BY DEF Arpm, Invoke, Unresolved, Fetch, Verify, Move, Build, AutostartAdd, NotifyRefresh, NotifyStart,
     Halt, AutostartRemove, RemovePackage, Uncache, NoRequestMade, marks
<1>1. NoProcessOrphaned' /\ Distinct' /\ (\A x : Registered(x)' <=> Registered(x))
  BY <1>0 DEF Books, NoProcessOrphaned, Distinct, Registered
<1>2. \A k \in DOMAIN apps : apps[k] \in Apps  BY DEF RegTypes, RegistryTypeOK
<1>3. CASE NotifyRefresh(p)
  <2>1. PICK c \in Conns : conn'[c].at = "scan" /\ conn'[c].op = "refresh"
    BY <1>3, RequestedFact DEF NotifyRefresh, RegTypes
  <2>2. \A d \in Conns : d = c  BY DEF OneRequestAtATime
  <2>. QED  BY <1>1, <2>1, <2>2 DEF Books, Pointed, WillGo, WillCome, WasListed
<1>4. CASE (NotifyStart(p) \/ Halt(p)) /\ ~NotifyRefresh(p)
  <2>0. cmd[p].at # "idle"  BY <1>4 DEF NotifyStart, Halt
  <2>1. PICK op \in {"start", "stop"} : Requested(op, cmd[p].app)
    BY <1>4 DEF NotifyStart, Halt
  <2>2. PICK c \in Conns : conn[c].at = "idle" /\ conn'[c].at \in {"start", "stop", "scan"}
                           /\ conn'[c].op = op /\ ConnTypes'
    BY <2>0, <2>1, RequestedFact, CmdApp DEF RegTypes
  <2>3. conn'[c].at \in {"start", "stop"}  BY <2>2 DEF ConnTypes
  <2>4. \A d \in Conns : d = c  BY DEF OneRequestAtATime
  <2>5. package' = package  BY <1>4 DEF NotifyStart, Halt, disk
  <2>6. Pointed' /\ WasListed'  BY <2>3, <2>4 DEF Pointed, WasListed
  <2>7. WillGo'  BY <1>0, <1>2, <1>4, <2>2, <2>4, <2>5, PendingKept DEF Books, WillGo
  <2>8. WillCome'  BY <1>0, <1>1, <1>4, <2>2, <2>4, <2>5, PendingKept DEF Books, WillCome
  <2>. QED  BY <1>1, <2>6, <2>7, <2>8 DEF Books
<1>5. CASE conn' = conn /\ ~NotifyRefresh(p)
  <2>1. \A x : Pending(x) => Pending(x)'  BY <1>5, PendingKept
  <2>2. \A x \in Apps : package'[x] = package[x] \/ Pending(x)'  BY PackageChange
  <2>3. WillGo'  BY <1>0, <1>2, <1>5, <2>1, <2>2 DEF Books, WillGo
  <2>4. WillCome'  BY <1>0, <1>1, <1>5, <2>1, <2>2 DEF Books, WillCome
  <2>5. WasListed'  BY <1>5, <2>1, <2>2 DEF Books, WasListed
  <2>6. Pointed'  BY <1>0, <1>2, <1>5, <2>1, <2>2 DEF Books, Pointed
  <2>. QED  BY <1>1, <2>3, <2>4, <2>5, <2>6 DEF Books
<1>. QED  BY <1>3, <1>4, <1>5 DEF Arpm, Invoke, Unresolved, Fetch, Verify, Move, Build, AutostartAdd,
             AutostartRemove, RemovePackage, Uncache, NoRequestMade

\* A request of the operator takes an idle connection and changes nothing else.
LEMMA OperatorBooks ==
  ASSUME OneRequestAtATime, RegTypes, Books, Operator
  PROVE  Books'
<1>1. \E op \in {"start", "stop", "restart", "reload"}, x \in Apps \cup {"none"} :
        Requested(op, x) /\ (op = "reload" \/ x \in Apps)
  BY DEF Operator, OperatorRequests, AutostartOn, AutostartOff
<1>2. PICK op \in {"start", "stop", "restart", "reload"}, x \in Apps \cup {"none"} :
        Requested(op, x) /\ (op = "reload" \/ x \in Apps)
  BY <1>1
<1>3. PICK c \in Conns : conn[c].at = "idle" /\ conn'[c].at \in {"start", "stop", "scan"}
  BY <1>2, RequestedFact DEF RegTypes
<1>4. \A d \in Conns : d = c  BY DEF OneRequestAtATime
<1>5. /\ apps' = apps /\ running' = running /\ outside' = outside /\ crowded' = crowded
      /\ package' = package /\ cmd' = cmd
  BY DEF Operator, marks
<1>6. (\A y : Pending(y)' <=> Pending(y)) /\ (\A y : Registered(y)' <=> Registered(y))
  BY <1>5 DEF Pending, Registered
<1>7. NoProcessOrphaned' /\ Distinct'
  BY <1>5, <1>6 DEF Books, NoProcessOrphaned, Distinct
<1>8. Pointed' /\ WasListed'  BY <1>3, <1>4 DEF Pointed, WasListed
<1>9. WillGo'  BY <1>3, <1>4, <1>5, <1>6 DEF Books, WillGo
<1>10. WillCome'  BY <1>3, <1>4, <1>5, <1>6 DEF Books, WillCome
<1>. QED  BY <1>7, <1>8, <1>9, <1>10 DEF Books

\* Starting and stopping change no entry; what is started is registered.
LEMMA StartStopBooks ==
  ASSUME OneRequestAtATime, RegTypes, Books, NEW c \in Conns, StartApp(c) \/ StopApp(c)
  PROVE  Books'
<1>0. \A d \in Conns : d = c  BY DEF OneRequestAtATime
<1>1. /\ apps' = apps /\ outside' = outside /\ crowded' = crowded /\ package' = package
      /\ cmd' = cmd /\ conn[c].at \in {"start", "stop"}
  BY DEF StartApp, StopApp, disk, marks
<1>2. conn'[c].at \in {"idle", "start"}
  <2>1. CASE Answered(c)  BY <2>1, AnsweredFact DEF RegTypes
  <2>2. CASE Goes(c, "start")  BY <2>2, GoesFact DEF RegTypes, ConnPlaces
  <2>. QED  BY <2>1, <2>2 DEF StartApp, StopApp
<1>3. (\A y : Pending(y)' <=> Pending(y)) /\ (\A y : Registered(y)' <=> Registered(y))
  BY <1>1 DEF Pending, Registered
<1>4. NoProcessOrphaned'
  BY <1>1, <1>3 DEF Books, NoProcessOrphaned, StartApp, StopApp, RegTypes, RegistryTypeOK
<1>5. Pointed' /\ WasListed' /\ Distinct'
  BY <1>0, <1>1, <1>2 DEF Books, Pointed, WasListed, Distinct
<1>6. WillGo'  BY <1>0, <1>1, <1>2, <1>3 DEF Books, WillGo
<1>7. WillCome'  BY <1>0, <1>1, <1>2, <1>3 DEF Books, WillCome
<1>. QED  BY <1>4, <1>5, <1>6, <1>7 DEF Books

\* A scan lists every package that is there.
LEMMA ScanBeginBooks ==
  ASSUME OneRequestAtATime, RegTypes, Books, NEW c \in Conns, ScanBegin(c)
  PROVE  Books'
<1>0. \A d \in Conns : d = c  BY DEF OneRequestAtATime
<1>1. /\ apps' = apps /\ outside' = outside /\ package' = package /\ cmd' = cmd
      /\ conn[c].at = "scan"
  BY DEF ScanBegin, disk
<1>2. /\ conn'[c].at = "each" /\ conn'[c].op = conn[c].op /\ conn'[c].seen = {}
      /\ conn'[c].listed = {x \in Apps : Exists(package[x])}
  BY ScanBeginFact
<1>3. (\A y : Pending(y)' <=> Pending(y)) /\ (\A y : Registered(y)' <=> Registered(y))
  BY <1>1 DEF Pending, Registered
<1>4. NoProcessOrphaned'
  BY <1>1, <1>3 DEF Books, NoProcessOrphaned, ScanBegin, AllStopped, RegTypes, RegistryTypeOK
<1>5. Pointed' /\ WasListed' /\ Distinct'
  BY <1>0, <1>1, <1>2 DEF Books, Pointed, WasListed, Distinct
<1>6. WillGo'  BY <1>0, <1>1, <1>2, <1>3 DEF Books, WillGo
<1>7. WillCome'  BY <1>1, <1>2, <1>3 DEF WillCome
<1>. QED  BY <1>4, <1>5, <1>6, <1>7 DEF Books

\* A step of the scan registers the package, or finds the registry full.
LEMMA ScanOneBooks ==
  ASSUME OneRequestAtATime, RegTypes, Books, NEW c \in Conns, ScanOne(c)
  PROVE  Books'
<1>0. \A d \in Conns : d = c  BY DEF OneRequestAtATime
<1>1. /\ running' = running /\ outside' = outside /\ package' = package /\ cmd' = cmd
      /\ conn[c].at = "each"
  BY DEF ScanOne
<1>2. PICK x \in Apps :
        /\ x \notin conn[c].seen /\ Exists(package[x])
        /\ apps' = Register(x) /\ crowded' = (crowded \/ RegistryFull(x))
        /\ conn'[c].seen = conn[c].seen \cup {x}
  BY ScanOneFact
<1>3. conn'[c].at = "each" /\ conn'[c].op = conn[c].op /\ conn'[c].listed = conn[c].listed
  BY ScanOneFact
<1>4. \A y : Pending(y)' <=> Pending(y)  BY <1>1 DEF Pending
<1>5. /\ \A k \in DOMAIN apps : k \in DOMAIN apps' /\ apps'[k] = apps[k]
      /\ \A k \in DOMAIN apps' : k \in DOMAIN apps \/ (apps'[k] = x /\ ~Registered(x))
      /\ RegistryFull(x) \/ \E k \in DOMAIN apps' : apps'[k] = x
      /\ Len(apps') <= Len(apps) + 1
  BY <1>2, RegisterFact DEF RegTypes
<1>6. \A y : Registered(y) => Registered(y)'
  <2>. SUFFICES ASSUME NEW y, Registered(y) PROVE Registered(y)'  OBVIOUS
  <2>1. PICK k \in DOMAIN apps : apps[k] = y  BY DEF Registered
  <2>. QED  BY <1>5, <2>1 DEF Registered
<1>7. NoProcessOrphaned'  BY <1>1, <1>6 DEF Books, NoProcessOrphaned
<1>8. Distinct'
  <2>1. /\ apps \in Seq(Apps) /\ apps' \in Seq(Apps) /\ Len(apps) \in Nat /\ Len(apps') \in Nat
        /\ DOMAIN apps = 1..Len(apps) /\ DOMAIN apps' = 1..Len(apps')
    BY ScanOneTypes DEF RegTypes, RegistryTypeOK
  <2>2. \A k \in DOMAIN apps' : k \notin DOMAIN apps => k = Len(apps) + 1  BY <1>5, <2>1
  <2>. SUFFICES ASSUME NEW k \in DOMAIN apps', NEW l \in DOMAIN apps', apps'[k] = apps'[l]
                PROVE  k = l
    BY DEF Distinct
  <2>3. CASE k \in DOMAIN apps /\ l \in DOMAIN apps  BY <1>5, <2>3 DEF Books, Distinct
  <2>4. CASE k \notin DOMAIN apps /\ l \notin DOMAIN apps  BY <2>2, <2>4
  <2>5. CASE k \in DOMAIN apps /\ l \notin DOMAIN apps  BY <1>5, <2>5 DEF Registered
  <2>6. CASE k \notin DOMAIN apps /\ l \in DOMAIN apps  BY <1>5, <2>6 DEF Registered
  <2>. QED  BY <2>3, <2>4, <2>5, <2>6
<1>9. Pointed' /\ WasListed'
  BY <1>0, <1>1, <1>3, <1>4 DEF Books, Pointed, WasListed
<1>10. WillGo'  
  <2>1. conn[c].op \in {"refresh", "reload"}  BY <1>1 DEF RegTypes, ConnTypes
  <2>. SUFFICES ASSUME NEW k \in DOMAIN apps', ~Exists(package[apps'[k]])
                PROVE  \/ \A y : y = apps'[k] => Pending(y)
                       \/ conn[c].op = "refresh"
    BY <1>1, <1>3, <1>4 DEF WillGo
  <2>2. k \in DOMAIN apps /\ apps'[k] = apps[k]  BY <1>2, <1>5
  <2>. QED  BY <1>0, <2>2 DEF Books, WillGo
<1>11. WillCome'
  <2>. SUFFICES ASSUME NEW y \in Apps, Exists(package[y]), ~Registered(y)', ~crowded', ~Pending(y)
                PROVE  y \notin conn'[c].seen
    BY <1>1, <1>3, <1>4 DEF WillCome
  <2>1. y # x  BY <1>2, <1>5 DEF Registered
  <2>2. ~Registered(y) /\ ~crowded  BY <1>2, <1>6
  <2>. QED  BY <1>0, <1>1, <1>2, <2>1, <2>2 DEF Books, WillCome
<1>. QED  BY <1>7, <1>8, <1>9, <1>10, <1>11 DEF Books

\* A scan that ends has seen all it listed.
LEMMA ScanEndBooks ==
  ASSUME OneRequestAtATime, RegTypes, Books, NEW c \in Conns, ScanEnd(c)
  PROVE  Books'
<1>0. \A d \in Conns : d = c  BY DEF OneRequestAtATime
<1>1. /\ apps' = apps /\ outside' = outside /\ crowded' = crowded /\ package' = package
      /\ cmd' = cmd /\ conn[c].at = "each"
  BY DEF ScanEnd, disk, marks
<1>2. (\A y : Pending(y)' <=> Pending(y)) /\ (\A y : Registered(y)' <=> Registered(y))
  BY <1>1 DEF Pending, Registered
<1>3. \/ conn[c].op = "reload" /\ conn'[c].at = "idle"
      \/ conn'[c].at = "prune" /\ conn'[c].i = 1 /\ conn'[c].op = "refresh"
  <2>1. CASE conn[c].op = "reload" /\ Answered(c)  BY <2>1, AnsweredFact DEF RegTypes
  <2>2. CASE conn[c].op # "reload" /\ conn' = [conn EXCEPT ![c].at = "prune", ![c].i = 1]
    <3>1. 1 \in Nat \ {0} /\ conn[c].op = "refresh" /\ ConnTypes
      BY <2>2 DEF RegTypes, ConnTypes, ScanEnd
    <3>. QED  BY <2>2, <3>1, PointFact
  <2>. QED  BY <2>1, <2>2 DEF ScanEnd
<1>4. NoProcessOrphaned'
  BY <1>1, <1>2 DEF Books, NoProcessOrphaned, ScanEnd, Autostarted
<1>5. Pointed' /\ WasListed' /\ Distinct'
  BY <1>0, <1>1, <1>3 DEF Books, Pointed, WasListed, Distinct
<1>6. WillGo'
  <2>1. \A k \in DOMAIN apps : k >= 1
    BY DEF RegTypes, RegistryTypeOK
  <2>. QED  BY <1>0, <1>1, <1>2, <1>3, <2>1 DEF Books, WillGo
<1>7. WillCome'
  <2>. SUFFICES ASSUME NEW y \in Apps, Exists(package[y]), ~Registered(y), ~crowded
                PROVE  Pending(y)
    BY <1>1, <1>2 DEF WillCome
  <2>1. Pending(y) \/ y \notin conn[c].seen  BY <1>0, <1>1 DEF Books, WillCome
  <2>2. y \notin conn[c].seen => y \notin conn[c].listed  BY DEF ScanEnd
  <2>. QED  BY <1>1, <2>1, <2>2 DEF Books, WasListed
<1>. QED  BY <1>4, <1>5, <1>6, <1>7 DEF Books

\* The prune passes an entry whose package is there.
LEMMA PruneBooks ==
  ASSUME OneRequestAtATime, RegTypes, Books, NEW c \in Conns, Prune(c)
  PROVE  Books'
<1>0. \A d \in Conns : d = c  BY DEF OneRequestAtATime
<1>1. /\ apps' = apps /\ outside' = outside /\ crowded' = crowded /\ package' = package
      /\ cmd' = cmd /\ running' = running /\ conn[c].at = "prune"
  BY DEF Prune, disk, marks
<1>2. (\A y : Pending(y)' <=> Pending(y)) /\ (\A y : Registered(y)' <=> Registered(y))
  BY <1>1 DEF Pending, Registered
<1>3. \/ conn[c].i > Len(apps) /\ conn'[c].at = "idle"
      \/ /\ conn[c].i \in DOMAIN apps /\ Exists(package[apps[conn[c].i]])
         /\ conn'[c].at = "prune" /\ conn'[c].i = conn[c].i + 1 /\ conn'[c].op = "refresh"
      \/ /\ conn[c].i \in DOMAIN apps /\ ~Exists(package[apps[conn[c].i]])
         /\ conn'[c].at = "take_down" /\ conn'[c].i = conn[c].i /\ conn'[c].op = "refresh"
         /\ conn'[c].app = apps[conn[c].i]
  <2>1. CASE Answered(c) /\ conn[c].i > Len(apps)  BY <2>1, AnsweredFact DEF RegTypes
  <2>. QED  BY <2>1, PruneFact
<1>4. NoProcessOrphaned' /\ Distinct' /\ WasListed'
  BY <1>0, <1>1, <1>2, <1>3 DEF Books, NoProcessOrphaned, Distinct, WasListed
<1>5. Pointed'  BY <1>0, <1>1, <1>3 DEF Pointed
<1>6. WillGo'
  <2>1. DOMAIN apps = 1..Len(apps) /\ Len(apps) \in Nat /\ conn[c].i \in Nat
    BY DEF RegTypes, RegistryTypeOK, ConnTypes, ConnType
  <2>. SUFFICES ASSUME NEW k \in DOMAIN apps, ~Exists(package[apps[k]]), ~Pending(apps[k])
                PROVE  /\ conn'[c].op = "refresh"
                       /\ conn'[c].at \in {"prune", "take_down", "drop"} /\ k >= conn'[c].i
    BY <1>1, <1>2 DEF WillGo
  <2>2. k >= conn[c].i  BY <1>0, <1>1 DEF Books, WillGo
  <2>3. k \in Nat  BY <2>1
  <2>. QED  BY <1>3, <2>1, <2>2, <2>3
<1>7. WillCome'  BY <1>0, <1>1, <1>2 DEF Books, WillCome
<1>. QED  BY <1>4, <1>5, <1>6, <1>7 DEF Books

\* Taking an application down leaves nothing of it running.
LEMMA TakeDownBooks ==
  ASSUME OneRequestAtATime, RegTypes, Books, NEW c \in Conns, TakeDown(c)
  PROVE  Books'
<1>0. \A d \in Conns : d = c  BY DEF OneRequestAtATime
<1>1. /\ apps' = apps /\ outside' = outside /\ crowded' = crowded /\ package' = package
      /\ cmd' = cmd /\ conn[c].at = "take_down" /\ conn[c].app \in Apps
  BY DEF TakeDown, disk, marks, RegTypes, ConnTypes
<1>2. (\A y : Pending(y)' <=> Pending(y)) /\ (\A y : Registered(y)' <=> Registered(y))
  BY <1>1 DEF Pending, Registered
<1>3. /\ conn'[c].at = "drop" /\ conn'[c].i = conn[c].i /\ conn'[c].op = conn[c].op
      /\ conn'[c].app = conn[c].app
  BY GoesFact DEF TakeDown, RegTypes, ConnPlaces
<1>4. Registered(conn[c].app)  BY <1>1 DEF Books, Pointed, Registered
<1>5. running' = [running EXCEPT ![conn[c].app] = NoVersion]
  BY <1>4 DEF TakeDown, Stopped
<1>6. NoProcessOrphaned' /\ Distinct' /\ WasListed'
  BY <1>0, <1>1, <1>2, <1>3, <1>5 DEF Books, NoProcessOrphaned, Distinct, WasListed, RegTypes, RegistryTypeOK
<1>7. Pointed'
  <2>1. running'[conn[c].app] = NoVersion  BY <1>1, <1>5 DEF RegTypes, RegistryTypeOK
  <2>2. /\ conn[c].i \in DOMAIN apps /\ apps[conn[c].i] = conn[c].app
        /\ Exists(package[conn[c].app]) => Pending(conn[c].app)
    BY <1>1 DEF Books, Pointed
  <2>3. Pending(conn[c].app) => \A y : y = conn'[c].app => Pending(y)'  BY <1>2, <1>3
  <2>. QED  BY <1>0, <1>1, <1>3, <2>1, <2>2, <2>3 DEF Pointed
<1>8. WillGo'  BY <1>0, <1>1, <1>2, <1>3 DEF Books, WillGo
<1>9. WillCome'  BY <1>0, <1>1, <1>2 DEF Books, WillCome
<1>. QED  BY <1>6, <1>7, <1>8, <1>9 DEF Books

\* Dropping an entry keeps the books of the others, whose places change.
LEMMA DropBooks ==
  ASSUME OneRequestAtATime, RegTypes, Books, NEW c \in Conns, Drop(c)
  PROVE  Books'
<1>0. \A d \in Conns : d = c  BY DEF OneRequestAtATime
<1>1. /\ crowded' = crowded /\ package' = package /\ cmd' = cmd /\ running' = running
      /\ conn[c].at = "drop" /\ conn[c].app \in Apps /\ conn[c].op = "refresh"
  BY DEF Drop, disk, RegTypes, ConnTypes
<1>2. \A y : Pending(y)' <=> Pending(y)  BY <1>1 DEF Pending
<1>3. conn'[c].at = "prune" /\ conn'[c].i = conn[c].i /\ conn'[c].op = conn[c].op
  BY GoesFact DEF Drop, RegTypes, ConnPlaces
<1>. DEFINE i == conn[c].i
            n == Len(apps)
<1>4. /\ n \in Nat \ {0} /\ DOMAIN apps = 1..n /\ i \in 1..n /\ i \in Nat \ {0} /\ apps # <<>>
      /\ apps[i] = conn[c].app /\ running[conn[c].app] = NoVersion
      /\ Exists(package[conn[c].app]) => Pending(conn[c].app)
  BY <1>1 DEF Books, Pointed, RegTypes, RegistryTypeOK
<1>5. apps' = Without(i) /\ outside' = outside  BY <1>4 DEF Drop
<1>6. /\ Len(apps') = n - 1 /\ DOMAIN apps' = 1..(n - 1)
      /\ \A k \in 1..(n - 1) : apps'[k] = IF k = i THEN apps[n] ELSE apps[k]
  <2>1. RegistryTypeOK  BY DEF RegTypes
  <2>. HIDE DEF i
  <2>2. /\ apps' \in Seq(Apps) /\ Len(apps') = n - 1
        /\ \A k \in 1..(n - 1) : apps'[k] = IF k = i THEN apps[n] ELSE apps[k]
    BY <1>4, <1>5, <2>1, WithoutFact
  <2>. QED  BY <2>2
<1>. HIDE DEF i, n
<1>7. \A y : Registered(y) /\ y # conn[c].app => Registered(y)'
  <2>. SUFFICES ASSUME NEW y, Registered(y), y # conn[c].app PROVE Registered(y)'  OBVIOUS
  <2>1. PICK k \in 1..n : apps[k] = y  BY <1>4 DEF Registered
  <2>2. k # i  BY <1>4, <2>1
  <2>3. CASE k = n
    <3>1. i \in 1..(n - 1)  BY <1>4, <2>2, <2>3
    <3>. QED  BY <1>6, <2>1, <2>3, <3>1 DEF Registered
  <2>4. CASE k # n
    <3>1. k \in 1..(n - 1)  BY <1>4, <2>4
    <3>. QED  BY <1>6, <2>1, <2>2, <3>1 DEF Registered
  <2>. QED  BY <2>3, <2>4
<1>8. NoProcessOrphaned'  BY <1>1, <1>4, <1>5, <1>7 DEF Books, NoProcessOrphaned
<1>9. Distinct'
  <2>. SUFFICES ASSUME NEW k \in 1..(n - 1), NEW l \in 1..(n - 1), apps'[k] = apps'[l]
                PROVE  k = l
    BY <1>6 DEF Distinct
  <2>1. k \in 1..n /\ l \in 1..n /\ n \in 1..n /\ k # n /\ l # n  BY <1>4
  <2>2. \A a, b \in 1..n : apps[a] = apps[b] => a = b  BY <1>4 DEF Books, Distinct
  <2>. QED  BY <1>6, <2>1, <2>2
<1>10. Pointed' /\ WasListed'  BY <1>0, <1>3 DEF Pointed, WasListed
<1>11. WillGo'
  <2>. SUFFICES ASSUME NEW k \in 1..(n - 1), ~Exists(package[apps'[k]]),
                       ~ \A y : y = apps'[k] => Pending(y)
                PROVE  k >= i
    BY <1>1, <1>2, <1>3, <1>6 DEF WillGo, i
  <2>1. CASE k = i  BY <1>4, <2>1
  <2>2. CASE k # i
    <3>1. apps'[k] = apps[k] /\ k \in DOMAIN apps  BY <1>4, <1>6, <2>2
    <3>2. ~Exists(package[apps[k]]) /\ ~Pending(apps[k])  BY <3>1
    <3>. QED  BY <1>0, <1>1, <3>1, <3>2 DEF Books, WillGo, i
  <2>. QED  BY <2>1, <2>2
<1>12. WillCome'
  <2>. SUFFICES ASSUME NEW y \in Apps, Exists(package[y]), ~Registered(y)', ~crowded
                PROVE  Pending(y)
    BY <1>1, <1>2 DEF WillCome
  <2>1. CASE y = conn[c].app  BY <1>4, <2>1
  <2>2. CASE y # conn[c].app  BY <1>0, <1>1, <1>7, <2>2 DEF Books, WillCome
  <2>. QED  BY <2>1, <2>2
<1>. QED  BY <1>8, <1>9, <1>10, <1>11, <1>12 DEF Books

\* At the start the registry names exactly the packages that are installed.
LEMMA RegistryInitBooks == RegistryInit => Books
<1>. SUFFICES ASSUME RegistryInit PROVE Books  OBVIOUS
<1>1. PICK order : InitWith(order) /\ \A k, l \in DOMAIN order : order[k] = order[l] => k = l
  BY DEF RegistryInit, InitWith
<1>2. RegTypes  BY RegistryInitTypes
<1>3. IdleArpm.at = "idle" /\ NoRequest.at = "idle"  BY DEF IdleArpm, NoRequest
<1>4. \A c \in Conns : conn[c].at = "idle"  BY <1>1, <1>3 DEF InitWith
<1>5. Pointed /\ WasListed  BY <1>4 DEF Pointed, WasListed
<1>6. Distinct /\ NoProcessOrphaned  BY <1>1 DEF Distinct, NoProcessOrphaned, InitWith
<1>7. \A k \in DOMAIN apps : Exists(package[apps[k]])
  <2>1. \A k \in DOMAIN apps : apps[k] \in Apps  BY <1>2 DEF RegTypes, RegistryTypeOK
  <2>2. [v |-> FirstVersion, t |-> 1] # NoFile  BY DEF NoFile, NoVersion
  <2>. QED  BY <1>1, <2>1, <2>2 DEF InitWith, Exists
<1>8. \A x \in Apps : Exists(package[x]) => Registered(x)
  BY <1>1 DEF InitWith, Exists, Registered
<1>. QED  BY <1>5, <1>6, <1>7, <1>8 DEF Books, WillGo, WillCome

\* Every step keeps the books, when requests are served one at a time.
LEMMA BooksNext ==
  ASSUME OneRequestAtATime, RegTypes, Books, [RegistryNext]_registryVars
  PROVE  Books'
<1>1. ASSUME NEW c \in Conns, Serve(c) PROVE Books'
  BY <1>1, StartStopBooks, ScanBeginBooks, ScanOneBooks, ScanEndBooks, PruneBooks, TakeDownBooks,
     DropBooks DEF Serve
<1>2. CASE SecondPasses \/ UNCHANGED registryVars
  <2>1. /\ apps' = apps /\ outside' = outside /\ crowded' = crowded /\ package' = package
        /\ cmd' = cmd /\ conn' = conn /\ running' = running
    BY <1>2 DEF SecondPasses, registryVars, disk, marks
  <2>2. (\A y : Pending(y)' <=> Pending(y)) /\ (\A y : Registered(y)' <=> Registered(y))
    BY <2>1 DEF Pending, Registered
  <2>3. NoProcessOrphaned' /\ Distinct'  BY <2>1, <2>2 DEF Books, NoProcessOrphaned, Distinct
  <2>4. Pointed' /\ WasListed'  BY <2>1, <2>2 DEF Books, Pointed, WasListed
  <2>5. WillGo' /\ WillCome'  BY <2>1, <2>2 DEF Books, WillGo, WillCome
  <2>. QED  BY <2>3, <2>4, <2>5 DEF Books
<1>. QED  BY <1>1, <1>2, ArpmBooks, OperatorBooks DEF RegistryNext

\* Every reachable state of the registry, the control connections and the arpm
\* processes is well typed.
THEOREM RegistryTypeCorrect == RegistrySpec => [](RegTypes)
<1>1. RegistryInit => RegTypes  BY RegistryInitTypes
<1>2. RegTypes /\ [RegistryNext]_registryVars => RegTypes'  BY RegistryNextTypes
<1>. QED  BY <1>1, <1>2, PTL DEF RegistrySpec

\* At the start every package has its header.
LEMMA RegistryInitHeaded == RegistryInit => Headed
<1>. SUFFICES ASSUME RegistryInit PROVE Headed  OBVIOUS
<1>1. PICK order : InitWith(order)  BY DEF RegistryInit, InitWith
<1>2. /\ NoFile.v # Headerless /\ [v |-> FirstVersion, t |-> 1].v # Headerless
      /\ NoVersion # Headerless /\ IdleArpm.at = "idle"
  BY DEF NoFile, NoVersion, IdleArpm
<1>. QED  BY <1>1, <1>2 DEF InitWith, Headed

\* With one arpm for an application, what runs and what is installed are files
\* with a package header (loader.c, verify_package in arpm).
THEOREM OnlyPackagesRunCorrect == OneArpmPerApp => (RegistrySpec => []OnlyPackagesRun)
<1>. SUFFICES ASSUME OneArpmPerApp PROVE RegistrySpec => []OnlyPackagesRun  OBVIOUS
<1>1. RegistryInit => Headed  BY RegistryInitHeaded
<1>2. RegTypes /\ Headed /\ [RegistryNext]_registryVars => Headed'  BY HeadedNext
<1>3. Headed => OnlyPackagesRun  BY DEF Headed, OnlyPackagesRun
<1>. QED  BY <1>1, <1>2, <1>3, RegistryTypeCorrect, PTL DEF RegistrySpec

\* With requests served one at a time, every difference between the registry and
\* the directory of packages is one that a command or a request under way will
\* settle, or that a scan reported (loader.c:589).
THEOREM RegistryBooksCorrect == OneRequestAtATime => (RegistrySpec => []Books)
<1>. SUFFICES ASSUME OneRequestAtATime PROVE RegistrySpec => []Books  OBVIOUS
<1>1. RegistryInit => Books  BY RegistryInitBooks
<1>2. RegTypes /\ Books /\ [RegistryNext]_registryVars => Books'  BY BooksNext
<1>. QED  BY <1>1, <1>2, RegistryTypeCorrect, PTL DEF RegistrySpec

\* With requests served one at a time: between requests the registry names
\* exactly the packages that are installed, but for those a full registry refused.
THEOREM RegistryFollowsPackagesCorrect ==
  OneRequestAtATime => (RegistrySpec => []RegistryFollowsPackages)
<1>. SUFFICES ASSUME OneRequestAtATime PROVE RegistrySpec => []RegistryFollowsPackages  OBVIOUS
<1>1. ASSUME RegTypes, Books PROVE RegistryFollowsPackages
  <2>1. IdleArpm.at = "idle" /\ NoRequest.at = "idle"  BY DEF IdleArpm, NoRequest
  <2>2. ASSUME Quiet
        PROVE  /\ \A k \in DOMAIN apps : Exists(package[apps[k]])
               /\ \A k, l \in DOMAIN apps : apps[k] = apps[l] => k = l
               /\ crowded \/ \A x \in Apps : Exists(package[x]) => Registered(x)
    <3>1. (\A x : ~Pending(x)) /\ \A c \in Conns : conn[c].at = "idle"
      BY <2>1, <2>2 DEF Quiet, Pending
    <3>. QED  BY <1>1, <3>1 DEF Books, Distinct, WillGo, WillCome
  <2>. QED  BY <1>1, <2>2 DEF RegistryFollowsPackages, RegTypes
<1>. QED  BY <1>1, RegistryTypeCorrect, RegistryBooksCorrect, PTL

\* With requests served one at a time and one arpm for an application: every
\* process is of a registered application and of a file with a package header.
THEOREM RunsOnlyRegisteredCorrect ==
  OneRequestAtATime /\ OneArpmPerApp => (RegistrySpec => []RunsOnlyRegistered)
<1>. SUFFICES ASSUME OneRequestAtATime, OneArpmPerApp PROVE RegistrySpec => []RunsOnlyRegistered
  OBVIOUS
<1>1. Books => NoProcessOrphaned  BY DEF Books
<1>2. RegistrySpec => []Books  BY RegistryBooksCorrect
<1>3. RegistrySpec => []OnlyPackagesRun  BY OnlyPackagesRunCorrect
<1>4. NoProcessOrphaned /\ OnlyPackagesRun => RunsOnlyRegistered  BY DEF RunsOnlyRegistered
<1>. QED  BY <1>1, <1>2, <1>3, <1>4, PTL

HIDE RegistryAssumption

(***************************************************************************)
(* The chain of trust                                                      *)
(***************************************************************************)
Cert == [role : Roles, key : Nat, issuer : Nat, from : Nat, until : Nat, by : Nat]

\* One certificate of its role, or none, in each file.
CertFiles(f) == /\ f \in [Roles -> SUBSET Cert]
                /\ \A r \in Roles : AtMostOne(f[r]) /\ \A c \in f[r] : c.role = r

\* A ceremony holds the certificate of its role and a key that was drawn.
CaPlaces == {"idle", "issue", "cert", "cert2", "key", "key2"}
CaTypes ==
  /\ ca \in [pc : CaPlaces, role : Roles, parent : SUBSET Cert, made : SUBSET Cert, key : Nat]
  /\ AtMostOne(ca.parent) /\ AtMostOne(ca.made) /\ \A c \in ca.made : c.role = ca.role
  /\ ca.pc \in {"cert", "cert2", "key", "key2"} => ca.key \in 1..MaxKeys
  /\ ca.pc = "issue" => keys < MaxKeys
FileTypes == /\ CertFiles(certFile)
             /\ keyFile \in [Roles -> SUBSET (1..MaxKeys)] /\ \A r \in Roles : AtMostOne(keyFile[r])
             /\ time \in 2..MaxTime /\ keys \in 4..MaxKeys /\ exists \in BOOLEAN

\* Every signature that a package carries, wherever it lies, was approved.
Signed(p) == p \in Packages /\ AtMostOne(p.ed) /\ p.ed \cup p.pq \subseteq approved
PackageInv == /\ AtMostOne(artifact) /\ AtMostOne(maker) /\ AtMostOne(detached)
              /\ \A p \in artifact \cup maker : Signed(p)
              /\ approved \subseteq Signatures
              /\ \A p \in Delivered : p.ed \cup p.pq \subseteq approved

\* So was what arsign is about to write over the package.
SignPlaces == {"idle", "chain", "key", "sign", "truncate", "write"}
SignTypes == [pc : SignPlaces, op : {"none", "embed", "detach", "verify"}, todo : Seq(Roles),
              read : [Roles -> SUBSET Cert], key : SUBSET (1..MaxKeys),
              out : SUBSET (Packages \cup [by : Nat, of : Packages])]
SignInv ==
  /\ arsign \in SignTypes
  /\ CertFiles(arsign.read) /\ AtMostOne(arsign.key) /\ AtMostOne(arsign.out)
  /\ arsign.op = "embed" => \A p \in arsign.out : Signed(p)

PolicyInv == /\ policy \in [todo : Seq(Roles), read : [Roles -> SUBSET Cert], done : BOOLEAN]
             /\ CertFiles(policy.read)
TrustInv == CaTypes /\ FileTypes /\ PackageInv /\ SignInv /\ PolicyInv

USE TrustAssumption

(* What the invariant says about an answer. *)

\* A chain that verifies is a chain of signatures in their periods.
LEMMA ChainIsCertified ==
  ASSUME NEW read, CertFiles(read), NEW k, ChainOf(read, time),
         \E l \in read["leaf"] : l.key = k
  PROVE  Certified(read, k)
<1>1. PICK leaf \in read["leaf"], inter \in read["intermediate"] :
        VerifyChain(Store(read["root"]), leaf, inter, time)
  BY DEF ChainOf
<1>2. PICK root \in read["root"] : /\ InWindow(root, time) /\ leaf.by = inter.key
                                   /\ inter.by = root.key
  BY <1>1 DEF VerifyChain, Lookup, Store, SignedBy
<1>3. leaf.key = k  BY DEF CertFiles, AtMostOne, Roles
<1>4. InWindow(leaf, time) /\ InWindow(inter, time)  BY <1>1 DEF VerifyChain
<1>. QED  BY <1>2, <1>3, <1>4 DEF Certified

\* The converse, for certificates whose issuer is the signer.
LEMMA CertifiedIsChain ==
  ASSUME NEW read, CertFiles(read), NEW k, Certified(read, k), WholeCeremonies(read),
         time \in Nat
  PROVE  ChainOf(read, time) /\ k \in PublicKey(read, 3)
<1>1. PICK r \in read["root"], i \in read["intermediate"], l \in read["leaf"] :
        /\ i.by = r.key /\ l.by = i.key /\ l.key = k
        /\ \A c \in {r, i, l} : InWindow(c, time)
  BY DEF Certified
<1>2. i.issuer = i.by /\ l.issuer = l.by  BY DEF WholeCeremonies, Roles
<1>3. r \in Cert /\ r.role = "root" /\ i.role = "intermediate" /\ l.role = "leaf"
  BY DEF CertFiles, Roles
<1>4. WellFormed(r)
  <2>1. r.from \in Nat /\ r.until \in Nat  BY <1>3 DEF Cert
  <2>2. r.from <= time /\ time <= r.until  BY <1>1 DEF InWindow
  <2>. QED  BY <2>1, <2>2 DEF WellFormed
<1>5. r \in Lookup(Store(read["root"]), i.issuer)  BY <1>1, <1>2, <1>3, <1>4 DEF Lookup, Store
<1>6. VerifyChain(Store(read["root"]), l, i, time)
  BY <1>1, <1>2, <1>3, <1>5 DEF VerifyChain, SignedBy
<1>7. ChainOf(read, time)  BY <1>6 DEF ChainOf
<1>8. k \in {c.key : c \in read["leaf"]}  BY <1>1
<1>9. SignerRole[3] = "leaf"  BY DEF SignerRole
<1>. QED  BY <1>7, <1>8, <1>9 DEF PublicKey

\* The keys of level 3 are those of the leaf certificates.
LEMMA LeafKey ==
  ASSUME NEW read, NEW k \in PublicKey(read, 3)
  PROVE  \E l \in read["leaf"] : l.key = k
<1>1. SignerRole[3] = "leaf"  BY DEF SignerRole
<1>. QED  BY <1>1 DEF PublicKey

\* A policy that was started read certificate files, has a level, and is ready
\* unless it is an edge node.
LEMMA PolicyFact ==
  ASSUME PolicyInv, NEW pol \in StartedPolicies
  PROVE  /\ CertFiles(pol.read) /\ pol.level \in 1..3
         /\ pol.profile # "edge" => pol.ready
<1>1. PICK profile \in NodeProfiles, configured \in Levels, pq \in BOOLEAN :
        pol = Started(profile, configured, pq)
  BY DEF StartedPolicies
<1>2. pol.read = policy.read /\ pol.level = LevelOf(configured, policy.read)
  BY <1>1 DEF Started
<1>3. LevelOf(configured, policy.read) \in 1..3  BY DEF LevelOf
<1>4. pol.ready \/ pol.profile = "edge"  BY DEF StartedPolicies
<1>. QED  BY <1>2, <1>3, <1>4 DEF PolicyInv

\* A package admitted with a signature was signed by a key of the policy, and
\* covers what it holds.
LEMMA AdmitsFact ==
  ASSUME NEW pol, NEW p, NEW now, Admits(pol, p, now), p.ed # {}
  PROVE  EdValid(pol, p) /\ ChainValid(pol, now) /\ (p.legacy \/ Valid(p, now))
BY DEF Admits, SignedOk, Hybrid, Classical

\* A sovereign node asks for both signatures.
LEMMA AdmitsSovereign ==
  ASSUME NEW pol, NEW p, NEW now, Admits(pol, p, now), pol.profile = "sovereign"
  PROVE  p.ed # {} /\ MlValid(pol, p)
BY DEF Admits, SignedOk, Hybrid, Classical

\* What an enterprise node admits: signed, valid, with a chain.
LEMMA AdmitsEnterprise ==
  ASSUME NEW pol, NEW p, NEW now, pol.profile = "enterprise", ~p.pqc, Valid(p, now),
         p.ed # {}, EdValid(pol, p), ChainValid(pol, now)
  PROVE  Admits(pol, p, now)
BY DEF Admits, SignedOk, Classical, Consistent

\* A signed package is staged only with a chain and a signature of its leaf key.
LEMMA StagesFact ==
  ASSUME NEW pol, NEW p, NEW u, NEW q, NEW now, Stages(pol, p, u, q, now), p.ed # {}
  PROVE  /\ ChainOf(pol.read, now) /\ Valid(p, now)
         /\ \E k \in PublicKey(pol.read, 3) : SignatureHolds(p, p.ed, k)
BY DEF Stages, EnvelopeHolds

\* A package has one signature; if it holds, it is an approved one of this content.
LEMMA SignatureFact ==
  ASSUME NEW p, Signed(p), approved \subseteq Signatures, NEW s \in p.ed, NEW k,
         SignatureHolds(p, p.ed, k)
  PROVE  /\ s.by = k /\ s.of = Tbs(p) /\ s \in approved
         /\ s = [by |-> k, of |-> Tbs(p)]
<1>1. s.by = k /\ s.of = Tbs(p)  BY DEF Signed, AtMostOne, SignatureHolds
<1>2. s \in approved /\ s \in Signatures  BY DEF Signed
<1>. QED  BY <1>1, <1>2 DEF Signatures

\* The invariant answers every question about a launch, a staging and a notary
\* verification as certified.
THEOREM LaunchesFollow == TrustInv => LaunchedAsCertified
<1>. SUFFICES ASSUME TrustInv PROVE LaunchedAsCertified  OBVIOUS
<1>0. time \in Nat /\ approved \subseteq Signatures  BY DEF TrustInv, FileTypes, PackageInv
<1>1. ASSUME NEW pol \in StartedPolicies, NEW p \in artifact, NEW s \in p.ed
      PROVE  /\ pol.level = 3 /\ ~ p.legacy /\ Admits(pol, p, time) => Certified(pol.read, s.by)
             /\ \A unsigned, pqc \in BOOLEAN :
                  Stages(pol, p, unsigned, pqc, time) => Certified(pol.read, s.by)
             /\ pol.profile = "enterprise" /\ pol.level = 3 /\ ~ p.pqc /\ Valid(p, time)
                /\ Certified(pol.read, s.by) /\ WholeCeremonies(pol.read)
                /\ s \in approved /\ s.of = Tbs(p) => Admits(pol, p, time)
  <2>0. Signed(p) /\ CertFiles(pol.read) /\ p.ed # {}
    BY PolicyFact DEF TrustInv, PackageInv
  <2>1. ASSUME pol.level = 3, Admits(pol, p, time) PROVE Certified(pol.read, s.by)
    <3>1. PICK k \in PublicKey(pol.read, 3) : SignatureHolds(p, p.ed, k)
      BY <2>0, <2>1, AdmitsFact DEF EdValid
    <3>2. ChainOf(pol.read, time)  BY <2>0, <2>1, AdmitsFact DEF ChainValid
    <3>3. s.by = k  BY <1>0, <2>0, <3>1, SignatureFact
    <3>. QED  BY <2>0, <3>1, <3>2, <3>3, LeafKey, ChainIsCertified
  <2>2. ASSUME NEW u, NEW q, Stages(pol, p, u, q, time) PROVE Certified(pol.read, s.by)
    <3>1. PICK k \in PublicKey(pol.read, 3) : SignatureHolds(p, p.ed, k)
      BY <2>0, <2>2, StagesFact
    <3>2. ChainOf(pol.read, time)  BY <2>0, <2>2, StagesFact
    <3>3. s.by = k  BY <1>0, <2>0, <3>1, SignatureFact
    <3>. QED  BY <2>0, <3>1, <3>2, <3>3, LeafKey, ChainIsCertified
  <2>3. ASSUME pol.profile = "enterprise", pol.level = 3, ~ p.pqc, Valid(p, time),
               Certified(pol.read, s.by), WholeCeremonies(pol.read), s.of = Tbs(p)
        PROVE  Admits(pol, p, time)
    <3>1. ChainOf(pol.read, time) /\ s.by \in PublicKey(pol.read, 3)
      BY <1>0, <2>0, <2>3, CertifiedIsChain
    <3>2. pol.ready  BY <2>3, PolicyFact DEF TrustInv
    <3>3. EdValid(pol, p)  BY <2>3, <3>1, <3>2 DEF EdValid, SignatureHolds
    <3>4. ChainValid(pol, time)  BY <2>3, <3>1 DEF ChainValid
    <3>. QED  BY <2>0, <2>3, <3>3, <3>4, AdmitsEnterprise
  <2>. QED  BY <2>1, <2>2, <2>3
<1>2. \A p \in artifact : UNION {q.ed : q \in artifact} = p.ed
  BY DEF TrustInv, PackageInv, AtMostOne
<1>3. ASSUME Verifying, NEW p \in artifact, NEW sig \in detached,
             NotaryAccepts(arsign.read, p, sig, time)
      PROVE  Certified(arsign.read, sig.by) /\ sig.of = p
  <2>1. CertFiles(arsign.read)  BY DEF TrustInv, SignInv
  <2>2. ChainOf(arsign.read, time) /\ \E l \in arsign.read["leaf"] : l.key = sig.by /\ sig.of = p
    BY <1>3 DEF NotaryAccepts
  <2>. QED  BY <2>1, <2>2, ChainIsCertified
<1>. QED  BY <1>1, <1>2, <1>3 DEF LaunchedAsCertified

\* The invariant lets only approved content start.
THEOREM ContentFollows == TrustInv => SignedContentOnly
<1>. SUFFICES ASSUME TrustInv, NEW pol \in StartedPolicies, NEW p \in artifact,
                     Admits(pol, p, time) \/ (\E pqc \in BOOLEAN : Stages(pol, p, FALSE, pqc, time))
              PROVE  /\ p.ed # {} /\ ~ p.legacy =>
                          /\ [by |-> (CHOOSE s \in p.ed : TRUE).by, of |-> Tbs(p)] \in approved
                          /\ time <= p.expires
                     /\ pol.profile = "sovereign" /\ Admits(pol, p, time) =>
                          p.ed # {} /\ [by |-> 0, of |-> Tbs(p)] \in approved
  BY DEF SignedContentOnly
<1>0. Signed(p) /\ approved \subseteq Signatures  BY DEF TrustInv, PackageInv
<1>1. ASSUME p.ed # {}, ~ p.legacy
      PROVE  /\ [by |-> (CHOOSE s \in p.ed : TRUE).by, of |-> Tbs(p)] \in approved
             /\ time <= p.expires
  <2>. DEFINE s == CHOOSE s \in p.ed : TRUE
  <2>1. s \in p.ed  BY <1>1
  <2>. HIDE DEF s
  <2>2. (\E k : SignatureHolds(p, p.ed, k)) /\ Valid(p, time)
    BY <1>1, AdmitsFact, StagesFact DEF EdValid
  <2>3. s = [by |-> s.by, of |-> Tbs(p)] /\ s \in approved
    BY <1>0, <2>1, <2>2, SignatureFact
  <2>4. time <= p.expires  BY <2>2 DEF Valid, TimeWindow
  <2>. QED  BY <2>3, <2>4 DEF s
<1>2. ASSUME pol.profile = "sovereign", Admits(pol, p, time)
      PROVE  p.ed # {} /\ [by |-> 0, of |-> Tbs(p)] \in approved
  <2>1. p.ed # {} /\ SignatureHolds(p, p.pq, 0)  BY <1>2, AdmitsSovereign DEF MlValid
  <2>2. PICK t \in p.pq : t.by = 0 /\ t.of = Tbs(p)  BY <2>1 DEF SignatureHolds
  <2>3. t \in approved /\ t \in Signatures  BY <1>0 DEF Signed
  <2>4. t = [by |-> 0, of |-> Tbs(p)]  BY <2>2, <2>3 DEF Signatures
  <2>. QED  BY <2>1, <2>3, <2>4
<1>. QED  BY <1>1, <1>2

(* The invariant holds at the start and is kept by every step. *)

\* The keys of the first chain.
LEMMA FirstKeys == \A r \in Roles : /\ Parent[r] \in Roles /\ FirstKey[r] \in 1..3
                                   /\ FirstKey[Parent[r]] \in 1..3
BY DEF Roles, Parent, FirstKey

\* An idle issuer, an idle arsign and a policy that is not loaded.
LEMMA IdleIsSound ==
  /\ CertFiles(Empty) /\ CertFiles(SignIdle.read) /\ CertFiles(NotLoaded.read)
  /\ CaIdle \in [pc : CaPlaces, role : Roles, parent : SUBSET Cert, made : SUBSET Cert, key : Nat]
  /\ CaIdle.pc = "idle" /\ CaIdle.parent = {} /\ CaIdle.made = {}
  /\ SignIdle \in SignTypes
  /\ SignIdle.op = "none" /\ SignIdle.key = {} /\ SignIdle.out = {}
  /\ NotLoaded \in [todo : Seq(Roles), read : [Roles -> SUBSET Cert], done : BOOLEAN]
<1>1. /\ CertFiles(Empty) /\ Empty \in [Roles -> SUBSET Cert]
  BY DEF CertFiles, Empty, AtMostOne
<1>2. << >> \in Seq(Roles)  OBVIOUS
<1>3. "root" \in Roles  BY DEF Roles
<1>. QED  BY <1>1, <1>2, <1>3 DEF CaIdle, SignIdle, NotLoaded, CaPlaces, SignPlaces, SignTypes

\* An issuer that ended or died holds nothing.
LEMMA CaRests == ca' = CaIdle => CaTypes'
BY IdleIsSound DEF CaTypes, AtMostOne

\* An arsign that ended or died holds nothing.
LEMMA SignRests == arsign' = SignIdle => SignInv'
BY IdleIsSound DEF SignInv, AtMostOne

\* What is unchanged keeps its part of the invariant: the issuer ...
LEMMA CaKept == CaTypes /\ UNCHANGED <<ca, keys>> => CaTypes'
BY DEF CaTypes

\* ... the files ...
LEMMA FilesKept == FileTypes /\ UNCHANGED <<certFile, keyFile, keys, time, exists>> => FileTypes'
BY DEF FileTypes, CertFiles

\* ... the packages ...
LEMMA PackagesKept ==
  PackageInv /\ UNCHANGED <<artifact, maker, detached, approved>> => PackageInv'
BY DEF PackageInv, Signed

\* ... arsign ...
LEMMA SignKept == SignInv /\ UNCHANGED <<arsign, approved>> => SignInv'
BY DEF SignInv, Signed

\* ... and the policy.
LEMMA PolicyKept == PolicyInv /\ UNCHANGED policy => PolicyInv'
BY DEF PolicyInv

\* What a reader decodes from a certificate file is a certificate of the role.
LEMMA DecodedFile ==
  ASSUME FileTypes, NEW r \in Roles
  PROVE  /\ Decoded(certFile[r]) \in SUBSET Cert /\ AtMostOne(Decoded(certFile[r]))
         /\ \A c \in Decoded(certFile[r]) : c.role = r
<1>1. Decoded(certFile[r]) \subseteq certFile[r]  BY DEF Decoded
<1>2. CertFiles(certFile)  BY DEF FileTypes
<1>3. certFile[r] \in SUBSET Cert /\ AtMostOne(certFile[r]) /\ \A c \in certFile[r] : c.role = r
  BY <1>2 DEF CertFiles
<1>. QED  BY <1>1, <1>3 DEF AtMostOne

\* Replacing one file by a certificate of its role.
LEMMA FileReplaced ==
  ASSUME NEW f, CertFiles(f), NEW r \in Roles, NEW s \in SUBSET Cert, AtMostOne(s),
         \A c \in s : c.role = r
  PROVE  CertFiles([f EXCEPT ![r] = s])
BY DEF CertFiles

\* The invariant holds at the start.
LEMMA TrustInitInv == TrustInit => TrustInv
<1>. SUFFICES ASSUME TrustInit PROVE TrustInv  OBVIOUS
<1>. USE DEF TrustInit
<1>1. \A r \in Roles : FirstCert(r) \in Cert /\ FirstCert(r).role = r
  <2>1. \A r \in Roles : FirstUntil[r] \in Nat  OBVIOUS
  <2>. QED  BY <2>1, FirstKeys DEF FirstCert, Cert
<1>2. \A r \in Roles : [FirstCert(r) EXCEPT !.key = 4] \in Cert /\ [FirstCert(r) EXCEPT !.key = 4].role = r
  BY <1>1 DEF Cert
<1>3. CertFiles(certFile)
  <2>1. CASE certFile = [r \in Roles |-> {FirstCert(r)}]
    BY <2>1, <1>1 DEF CertFiles, AtMostOne
  <2>2. CASE certFile = [r \in Roles |-> IF r = "intermediate" THEN {[FirstCert(r) EXCEPT !.key = 4]}
                                    ELSE {FirstCert(r)}]
    <3>1. \A r \in Roles : certFile[r] \in {{FirstCert(r)}, {[FirstCert(r) EXCEPT !.key = 4]}}
      BY <2>2
    <3>2. ASSUME NEW r \in Roles
          PROVE  certFile[r] \in SUBSET Cert /\ AtMostOne(certFile[r])
                 /\ \A c \in certFile[r] : c.role = r
      <4>1. PICK c : c \in Cert /\ c.role = r /\ certFile[r] = {c}  BY <3>1, <1>1, <1>2
      <4>. QED  BY <4>1 DEF AtMostOne
    <3>3. certFile \in [Roles -> SUBSET Cert]  BY <2>2, <3>2
    <3>. QED  BY <3>2, <3>3 DEF CertFiles
  <2>. QED  BY <2>1, <2>2
<1>4. \A r \in Roles : FirstKey[r] \in 1..MaxKeys  BY FirstKeys
<1>5. FileTypes
  <2>1. keyFile \in [Roles -> SUBSET (1..MaxKeys)]  BY <1>4
  <2>2. \A r \in Roles : AtMostOne(keyFile[r])  BY DEF AtMostOne
  <2>3. time \in 2..MaxTime /\ keys \in 4..MaxKeys /\ exists \in BOOLEAN  OBVIOUS
  <2>. QED  BY <1>3, <2>1, <2>2, <2>3 DEF FileTypes
<1>6. CaTypes  BY IdleIsSound DEF CaTypes, AtMostOne
<1>7. SignInv  BY IdleIsSound DEF SignInv, AtMostOne
<1>8. PolicyInv  BY IdleIsSound DEF PolicyInv
<1>9. PackageInv
  <2>1. \A p \in Delivered \union Installed : p.ed \union p.pq \subseteq Signatures
    BY DEF Packages
  <2>2. approved \subseteq Signatures  BY <2>1
  <2>3. \A p \in artifact : p \in Installed  OBVIOUS
  <2>4. \A p \in Installed : p.ed \cup p.pq \subseteq approved  OBVIOUS
  <2>5. \A p \in artifact : Signed(p)  BY <2>3, <2>4 DEF Signed
  <2>6. AtMostOne(artifact) /\ AtMostOne(maker) /\ AtMostOne(detached)  BY DEF AtMostOne
  <2>7. \A p \in Delivered : p.ed \cup p.pq \subseteq approved  OBVIOUS
  <2>. QED  BY <2>2, <2>5, <2>6, <2>7 DEF PackageInv
<1>. QED  BY <1>5, <1>6, <1>7, <1>8, <1>9 DEF TrustInv

\* Every step keeps the invariant: a ceremony starts ...
LEMMA CaStartInv == ASSUME TrustInv, NEW role \in Roles, CaStart(role) PROVE TrustInv'
<1>. USE DEF TrustInv
<1>1. FileTypes' /\ PackageInv' /\ SignInv' /\ PolicyInv'
  BY FilesKept, PackagesKept, SignKept, PolicyKept DEF CaStart, makerVars, signVars
<1>2. CaTypes'
  <2>1. Decoded(certFile[Parent[role]]) \in SUBSET Cert /\ AtMostOne(Decoded(certFile[Parent[role]]))
    BY DecodedFile, FirstKeys
  <2>2. PICK S \in SUBSET Cert : AtMostOne(S) /\ ca' = [CaIdle EXCEPT !.pc = "issue", !.role = role, !.parent = S]
    <3>1. CASE role = "root"
      <4>1. ca' = [CaIdle EXCEPT !.pc = "issue", !.role = role, !.parent = {}]
        BY <3>1 DEF CaStart, CaIdle
      <4>2. AtMostOne({})  BY DEF AtMostOne
      <4>. QED  BY <4>1, <4>2
    <3>2. CASE role # "root"  BY <3>2, <2>1 DEF CaStart
    <3>. QED  BY <3>1, <3>2
  <2>3. ca' = [pc |-> "issue", role |-> role, parent |-> S, made |-> {}, key |-> 0]
    BY <2>2 DEF CaIdle
  <2>4. keys' = keys /\ keys < MaxKeys  BY DEF CaStart
  <2>5. ca' \in [pc : CaPlaces, role : Roles, parent : SUBSET Cert, made : SUBSET Cert, key : Nat]
    BY <2>3 DEF CaPlaces
  <2>6. ca'.pc = "issue" /\ ca'.made = {} /\ ca'.parent = S  BY <2>3
  <2>7. AtMostOne({})  BY DEF AtMostOne
  <2>. QED  BY <2>2, <2>4, <2>5, <2>6, <2>7 DEF CaTypes
<1>. QED  BY <1>1, <1>2

\* What sign_tbs makes is a certificate of the role.
LEMMA CertificateIs ==
  ASSUME FileTypes, NEW r \in Roles, NEW k \in Nat, NEW i \in Nat, NEW b \in Nat, NEW d \in Validities
  PROVE  Certificate(r, k, i, b, d) \in Cert /\ Certificate(r, k, i, b, d).role = r
<1>1. time \in Nat /\ time + d \in Nat /\ (time + d) % TimeSpace \in Nat
  BY DEF FileTypes
<1>. QED  BY <1>1 DEF Certificate, Cert

\* ... issues ...
LEMMA CaIssueInv == ASSUME TrustInv, CaIssue PROVE TrustInv'
<1>. USE DEF TrustInv
<1>0. keys' \in 4..MaxKeys /\ keys' = keys + 1
  <2>1. keys \in 4..MaxKeys /\ keys < MaxKeys /\ keys' = keys + 1
    BY DEF CaIssue, CaTypes, FileTypes
  <2>. QED  BY <2>1
<1>1. PackageInv' /\ SignInv' /\ PolicyInv'
  BY PackagesKept, SignKept, PolicyKept DEF CaIssue, makerVars, signVars
<1>2. FileTypes'
  <2>1. UNCHANGED <<certFile, keyFile, time, exists>>  BY DEF CaIssue, makerVars
  <2>. QED  BY <1>0, <2>1 DEF FileTypes, CertFiles
<1>3. CaTypes'
  <2>1. PICK days \in Validities :
          ca' = IF Encodable(CaMakes(keys + 1, days))
                THEN [ca EXCEPT !.pc = "cert", !.made = CaMakes(keys + 1, days), !.key = keys + 1]
                ELSE CaIdle
    BY DEF CaIssue
  <2>. DEFINE signer == keyFile[Parent[ca.role]]
              made == CaMakes(keys', days)
  <2>2. ca' = IF Encodable(made) THEN [ca EXCEPT !.pc = "cert", !.made = made, !.key = keys']
              ELSE CaIdle
    BY <1>0, <2>1
  <2>3. ca.role \in Roles /\ ca.parent \in SUBSET Cert /\ AtMostOne(ca.parent)  BY DEF CaTypes
  <2>4. signer \in SUBSET Nat /\ AtMostOne(signer)
    BY <2>3, FirstKeys DEF FileTypes
  <2>5. \A c \in ca.parent : c.key \in Nat  BY <2>3 DEF Cert
  <2>6. keys' \in Nat  BY <1>0
  <2>7. made \in SUBSET Cert /\ AtMostOne(made) /\ \A c \in made : c.role = ca.role
    <3>1. CASE ca.role = "root"
      <4>1. made = {IssueRoot(keys', days)}  BY <3>1 DEF CaMakes
      <4>2. IssueRoot(keys', days) \in Cert /\ IssueRoot(keys', days).role = "root"
        BY <2>6, CertificateIs DEF IssueRoot, Roles
      <4>. QED  BY <3>1, <4>1, <4>2 DEF AtMostOne
    <3>2. CASE ca.role = "intermediate"
      <4>1. made = {IssueIntermediate(keys', c, k, days) : c \in ca.parent, k \in signer}  BY <3>2 DEF CaMakes
      <4>2. ASSUME NEW c \in ca.parent, NEW k \in signer
            PROVE  IssueIntermediate(keys', c, k, days) \in Cert /\ IssueIntermediate(keys', c, k, days).role = "intermediate"
        <5>1. c.key \in Nat /\ k \in Nat  BY <2>4, <2>5
        <5>2. "intermediate" \in Roles  BY DEF Roles
        <5>. QED  BY <2>6, <5>1, <5>2, CertificateIs DEF IssueIntermediate
      <4>3. AtMostOne(made)
        <5>. HIDE DEF made
        <5>. SUFFICES ASSUME NEW a \in made, NEW b \in made PROVE a = b  BY DEF AtMostOne
        <5>1. PICK c1 \in ca.parent, k1 \in signer : a = IssueIntermediate(keys', c1, k1, days)  BY <4>1
        <5>2. PICK c2 \in ca.parent, k2 \in signer : b = IssueIntermediate(keys', c2, k2, days)  BY <4>1
        <5>3. c1 = c2 /\ k1 = k2  BY <2>3, <2>4 DEF AtMostOne
        <5>. QED  BY <5>1, <5>2, <5>3
      <4>. HIDE DEF made
      <4>4. \A m \in made : m \in Cert /\ m.role = "intermediate"  BY <4>1, <4>2
      <4>. QED  BY <3>2, <4>3, <4>4
    <3>3. CASE ca.role # "root" /\ ca.role # "intermediate"
      <4>1. made = {IssueLeaf(keys', c, k, days) : c \in ca.parent, k \in signer}  BY <3>3 DEF CaMakes
      <4>2. ASSUME NEW c \in ca.parent, NEW k \in signer
            PROVE  IssueLeaf(keys', c, k, days) \in Cert /\ IssueLeaf(keys', c, k, days).role = "leaf"
        <5>1. c.key \in Nat /\ k \in Nat  BY <2>4, <2>5
        <5>. QED  BY <2>6, <5>1, CertificateIs DEF IssueLeaf, Roles
      <4>3. AtMostOne(made)
        <5>. HIDE DEF made
        <5>. SUFFICES ASSUME NEW a \in made, NEW b \in made PROVE a = b  BY DEF AtMostOne
        <5>1. PICK c1 \in ca.parent, k1 \in signer : a = IssueLeaf(keys', c1, k1, days)  BY <4>1
        <5>2. PICK c2 \in ca.parent, k2 \in signer : b = IssueLeaf(keys', c2, k2, days)  BY <4>1
        <5>3. c1 = c2 /\ k1 = k2  BY <2>3, <2>4 DEF AtMostOne
        <5>. QED  BY <5>1, <5>2, <5>3
      <4>. HIDE DEF made
      <4>4. \A m \in made : m \in Cert /\ m.role = "leaf"  BY <4>1, <4>2
      <4>5. ca.role = "leaf"  BY <2>3, <3>3 DEF Roles
      <4>. QED  BY <4>3, <4>4, <4>5
    <3>. QED  BY <3>1, <3>2, <3>3
  <2>. HIDE DEF made, signer
  <2>8. CASE ca' = CaIdle  BY <2>8, CaRests
  <2>9. CASE ca' = [ca EXCEPT !.pc = "cert", !.made = made, !.key = keys']
    <3>1. ca \in [pc : CaPlaces, role : Roles, parent : SUBSET Cert, made : SUBSET Cert, key : Nat]
      BY DEF CaTypes
    <3>2. ca' \in [pc : CaPlaces, role : Roles, parent : SUBSET Cert, made : SUBSET Cert, key : Nat]
      BY <2>6, <2>7, <2>9, <3>1 DEF CaPlaces
    <3>3. ca'.pc = "cert" /\ ca'.made = made /\ ca'.key = keys' /\ ca'.role = ca.role /\ ca'.parent = ca.parent
      BY <2>9, <3>1
    <3>4. keys' \in 1..MaxKeys  BY <1>0
    <3>. QED  BY <2>3, <2>7, <3>2, <3>3, <3>4 DEF CaTypes
  <2>. QED  BY <2>2, <2>8, <2>9
<1>. QED  BY <1>1, <1>2, <1>3

\* ... writes its two files ...
LEMMA CaWriteInv == ASSUME TrustInv, CaWrite PROVE TrustInv'
<1>. USE DEF TrustInv
<1>1. PackageInv' /\ SignInv' /\ PolicyInv'
  BY PackagesKept, SignKept, PolicyKept DEF CaWrite, makerVars, signVars
<1>2. ca \in [pc : CaPlaces, role : Roles, parent : SUBSET Cert, made : SUBSET Cert, key : Nat]
  BY DEF CaTypes
<1>3. CaTypes'
  <2>1. CASE ca' = CaIdle  BY <2>1, CaRests
  <2>2. ASSUME NEW pc \in {"cert2", "key", "key2"}, ca' = [ca EXCEPT !.pc = pc],
               ca.pc \in {"cert", "cert2", "key", "key2"}
        PROVE  CaTypes'
    <3>1. ca' \in [pc : CaPlaces, role : Roles, parent : SUBSET Cert, made : SUBSET Cert, key : Nat]
      BY <1>2, <2>2 DEF CaPlaces
    <3>2. ca'.pc = pc /\ ca'.made = ca.made /\ ca'.key = ca.key /\ ca'.role = ca.role /\ ca'.parent = ca.parent
      BY <1>2, <2>2
    <3>. QED  BY <2>2, <3>1, <3>2 DEF CaTypes
  <2>. QED  BY <2>1, <2>2 DEF CaWrite
<1>4. FileTypes'
  <2>0. UNCHANGED <<time, keys, exists>>  BY DEF CaWrite, makerVars
  <2>1. ca.role \in Roles /\ ca.made \in SUBSET Cert /\ AtMostOne(ca.made) /\ \A c \in ca.made : c.role = ca.role
    BY DEF CaTypes
  <2>2. AtMostOne({})  BY DEF AtMostOne
  <2>3. CertFiles(certFile')
    <3>1. CertFiles(certFile)  BY DEF FileTypes
    <3>2. CertFiles([certFile EXCEPT ![ca.role] = {}])  BY <2>1, <2>2, <3>1, FileReplaced
    <3>3. CertFiles([certFile EXCEPT ![ca.role] = ca.made])  BY <2>1, <3>1, FileReplaced
    <3>. QED  BY <3>1, <3>2, <3>3 DEF CaWrite
  <2>4. keyFile' \in [Roles -> SUBSET (1..MaxKeys)] /\ \A r \in Roles : AtMostOne(keyFile'[r])
    <3>1. keyFile \in [Roles -> SUBSET (1..MaxKeys)] /\ \A r \in Roles : AtMostOne(keyFile[r])
      BY DEF FileTypes
    <3>2. CASE keyFile' = keyFile  BY <3>1, <3>2
    <3>3. CASE keyFile' = [keyFile EXCEPT ![ca.role] = {}]  BY <3>1, <3>3 DEF AtMostOne
    <3>4. CASE ca.pc = "key2" /\ keyFile' = [keyFile EXCEPT ![ca.role] = {ca.key}]
      <4>1. ca.key \in 1..MaxKeys  BY <3>4 DEF CaTypes
      <4>2. keyFile' \in [Roles -> SUBSET (1..MaxKeys)]  BY <3>1, <3>4, <4>1
      <4>3. \A r \in Roles : keyFile'[r] = keyFile[r] \/ keyFile'[r] = {ca.key}
        BY <3>1, <3>4
      <4>4. AtMostOne({ca.key})  BY DEF AtMostOne
      <4>5. \A r \in Roles : AtMostOne(keyFile'[r])
        <5>. SUFFICES ASSUME NEW r \in Roles PROVE AtMostOne(keyFile'[r])  OBVIOUS
        <5>. QED  BY <3>1, <4>3, <4>4
      <4>. QED  BY <4>2, <4>5
    <3>. QED  BY <3>2, <3>3, <3>4 DEF CaWrite
  <2>. QED  BY <2>0, <2>3, <2>4 DEF FileTypes, CertFiles
<1>. QED  BY <1>1, <1>3, <1>4

\* ... or dies;
LEMMA CaDiesInv == ASSUME TrustInv, CaDies PROVE TrustInv'
BY CaRests, FilesKept, PackagesKept, SignKept, PolicyKept DEF TrustInv, CaDies, makerVars, signVars

\* armake writes an unsigned package;
LEMMA MakerInv == ASSUME TrustInv, MakerCreates \/ MakerEnds PROVE TrustInv'
<1>. USE DEF TrustInv
<1>1. CaTypes' /\ SignInv' /\ PolicyInv'
  BY CaKept, SignKept, PolicyKept DEF MakerCreates, MakerEnds, caVars, signVars
<1>2. FileTypes'
  <2>1. UNCHANGED <<certFile, keyFile, keys, time>> /\ exists' \in BOOLEAN
    BY DEF MakerCreates, MakerEnds, caVars, FileTypes
  <2>. QED  BY <2>1 DEF FileTypes, CertFiles
<1>3. AtMostOne({})  BY DEF AtMostOne
<1>4. PackageInv'
  <2>1. CASE MakerCreates
    <3>1. PICK profile \in PackageProfiles, data \in Payloads :
            maker' = {Envelope(profile, Issued, Expires, data)}
      BY <2>1 DEF MakerCreates
    <3>2. artifact' = {} /\ UNCHANGED <<detached, approved>>  BY <2>1 DEF MakerCreates, signVars
    <3>3. Envelope(profile, Issued, Expires, data) \in Packages
      <4>1. profile \in Profiles /\ data \in Nat  OBVIOUS
      <4>2. {} \subseteq Signatures /\ FALSE \in BOOLEAN /\ 0 \in Nat  OBVIOUS
      <4>6. "devmode" \in Rings  BY DEF Rings
      <4>7. Issued \in Nat /\ Expires \in Nat  OBVIOUS
      <4>3. "devmode" \in Rings /\ Issued \in Nat /\ Expires \in Nat  BY <4>6, <4>7
      <4>4. {} \in SUBSET Signatures  BY <4>2
      <4>5. \A i, e, d \in Nat, q \in Profiles, r \in Rings, g \in SUBSET Signatures :
              [legacy |-> FALSE, profile |-> q, ring |-> r, pqc |-> FALSE, issued |-> i,
               expires |-> e, data |-> d, sha |-> 0, ed |-> g, pq |-> g] \in Packages
        BY DEF Packages
      <4>. QED  BY <4>1, <4>3, <4>4, <4>5 DEF Envelope
    <3>4. Signed(Envelope(profile, Issued, Expires, data))
      BY <3>3, <1>3 DEF Envelope, Signed
    <3>5. \A p \in artifact' \cup maker' : Signed(p)  BY <3>1, <3>2, <3>4
    <3>6. \A p \in artifact' \cup maker' : Signed(p)'  BY <3>2, <3>5 DEF Signed
    <3>7. AtMostOne(artifact') /\ AtMostOne(maker')  BY <3>1, <3>2 DEF AtMostOne
    <3>. QED  BY <3>2, <3>6, <3>7 DEF PackageInv
  <2>2. CASE MakerEnds
    <3>1. artifact' \in {artifact, maker, {}} /\ maker' = {} /\ UNCHANGED <<detached, approved>>
      BY <2>2 DEF MakerEnds, signVars
    <3>2. AtMostOne(artifact') /\ \A p \in artifact' : Signed(p)  BY <1>3, <3>1 DEF PackageInv
    <3>3. \A p \in artifact' \cup maker' : Signed(p)'  BY <3>1, <3>2 DEF Signed
    <3>. QED  BY <1>3, <3>1, <3>2, <3>3 DEF PackageInv
  <2>. QED  BY <2>1, <2>2
<1>. QED  BY <1>1, <1>2, <1>4

\* a package arrives, whose signatures were approved elsewhere;
LEMMA ArrivalInv == ASSUME TrustInv, PackageArrives PROVE TrustInv'
<1>. USE DEF TrustInv
<1>1. CaTypes' /\ SignInv' /\ PolicyInv'
  BY CaKept, SignKept, PolicyKept DEF PackageArrives, caVars, signVars
<1>2. FileTypes'
  <2>1. UNCHANGED <<certFile, keyFile, keys, time>> /\ exists' \in BOOLEAN
    BY DEF PackageArrives, caVars, FileTypes
  <2>. QED  BY <2>1 DEF FileTypes, CertFiles
<1>3. PackageInv'
  <2>1. PICK p \in Delivered : artifact' = {p}  BY DEF PackageArrives
  <2>2. UNCHANGED <<detached, approved, maker>>  BY DEF PackageArrives, signVars
  <2>3. Signed(p)  BY DEF Signed, PackageInv
  <2>4. \A q \in artifact' \cup maker' : Signed(q)'  BY <2>1, <2>2, <2>3 DEF Signed, PackageInv
  <2>5. AtMostOne(artifact')  BY <2>1 DEF AtMostOne
  <2>. QED  BY <2>2, <2>4, <2>5 DEF PackageInv
<1>. QED  BY <1>1, <1>2, <1>3

\* Damaged content leaves the signatures as they are.
LEMMA DataChanged ==
  ASSUME NEW p, Signed(p), NEW d \in Damages
  PROVE  Signed([p EXCEPT !.data = d])
<1>1. p \in Packages /\ d \in Nat  BY DEF Signed
<1>2. /\ [p EXCEPT !.data = d] \in Packages /\ [p EXCEPT !.data = d].ed = p.ed
      /\ [p EXCEPT !.data = d].pq = p.pq
  BY <1>1 DEF Packages
<1>. QED  BY <1>2 DEF Signed

\* the package is damaged;
LEMMA DamageInv == ASSUME TrustInv, PackageDamaged PROVE TrustInv'
<1>. USE DEF TrustInv
<1>1. CaTypes' /\ SignInv' /\ PolicyInv' /\ FileTypes'
  BY CaKept, SignKept, PolicyKept, FilesKept DEF PackageDamaged, caVars, signVars, makerVars
<1>2. PackageInv'
  <2>1. PICK p \in artifact, data \in Damages : artifact' = {[p EXCEPT !.data = data]}
    BY DEF PackageDamaged
  <2>2. UNCHANGED <<detached, approved, maker>>  BY DEF PackageDamaged, signVars, makerVars
  <2>3. Signed(p)  BY DEF PackageInv
  <2>4. Signed([p EXCEPT !.data = data])  BY <2>3, DataChanged
  <2>5. \A q \in artifact' \cup maker' : Signed(q)'  BY <2>1, <2>2, <2>4 DEF Signed, PackageInv
  <2>6. AtMostOne(artifact')  BY <2>1 DEF AtMostOne
  <2>. QED  BY <2>2, <2>5, <2>6 DEF PackageInv
<1>. QED  BY <1>1, <1>2

\* What a step of arsign leaves alone.
LEMMA SignOnly ==
  ASSUME TrustInv, UNCHANGED <<time, caVars, artifact, makerVars, detached, approved, policy>>, SignInv'
  PROVE  TrustInv'
BY CaKept, PolicyKept, FilesKept, PackagesKept DEF TrustInv, caVars, makerVars

\* arsign starts ...
LEMMA SignStartInv == ASSUME TrustInv, NEW op \in {"embed", "detach", "verify"}, SignStart(op)
                      PROVE  TrustInv'
<1>1. PICK withChain \in BOOLEAN :
        arsign' = [SignIdle EXCEPT !.pc = IF withChain THEN "chain" ELSE "key", !.op = op,
                                  !.todo = IF withChain THEN ChainFiles ELSE <<>>]
  BY DEF SignStart
<1>. DEFINE todo == IF withChain THEN ChainFiles ELSE <<>>
            pc == IF withChain THEN "chain" ELSE "key"
<1>2. todo \in Seq(Roles) /\ pc \in SignPlaces
  <2>1. "leaf" \in Roles /\ "intermediate" \in Roles /\ "root" \in Roles  BY DEF Roles
  <2>2. ChainFiles \in Seq(Roles)  BY <2>1 DEF ChainFiles
  <2>3. <<>> \in Seq(Roles)  OBVIOUS
  <2>4. todo \in Seq(Roles)  BY <2>2, <2>3
  <2>5. pc \in SignPlaces  BY DEF SignPlaces
  <2>. QED  BY <2>4, <2>5
<1>. HIDE DEF todo, pc
<1>3. arsign' = [pc |-> pc, op |-> op, todo |-> todo, read |-> Empty, key |-> {}, out |-> {}]
  BY <1>1 DEF SignIdle, todo, pc
<1>4. CertFiles(Empty) /\ Empty \in [Roles -> SUBSET Cert]  BY IdleIsSound DEF CertFiles
<1>5. arsign' \in SignTypes  BY <1>2, <1>3, <1>4 DEF SignTypes
<1>6. AtMostOne({})  BY DEF AtMostOne
<1>7. arsign'.read = Empty /\ arsign'.key = {} /\ arsign'.out = {}  BY <1>3
<1>8. SignInv'  BY <1>4, <1>5, <1>6, <1>7 DEF SignInv, SignTypes
<1>. QED  BY <1>8, SignOnly DEF SignStart

\* Reading one certificate file of a chain.
LEMMA ReadStep ==
  ASSUME FileTypes, NEW read, CertFiles(read), NEW todo \in Seq(Roles), todo # <<>>
  PROVE  /\ CertFiles([read EXCEPT ![Head(todo)] = Decoded(certFile[Head(todo)])])
         /\ Tail(todo) \in Seq(Roles)
<1>1. Head(todo) \in Roles /\ Tail(todo) \in Seq(Roles)  OBVIOUS
<1>. QED  BY <1>1, DecodedFile, FileReplaced

\* ... reads the chain ...
LEMMA SignReadsInv == ASSUME TrustInv, SignReads PROVE TrustInv'
<1>. SUFFICES SignInv'  BY SignOnly DEF SignReads
<1>1. CASE arsign' = SignIdle  BY <1>1, SignRests
<1>2. CASE arsign' = ReadNext(arsign)
  <2>1. arsign \in SignTypes /\ CertFiles(arsign.read) /\ AtMostOne(arsign.key) /\ AtMostOne(arsign.out)
        /\ (arsign.op = "embed" => \A p \in arsign.out : Signed(p))
    BY DEF TrustInv, SignInv, SignTypes
  <2>2. arsign.todo \in Seq(Roles) /\ arsign.todo # <<>>  BY <2>1 DEF SignReads, SignTypes
  <2>. DEFINE read == [arsign.read EXCEPT ![Head(arsign.todo)] = Decoded(certFile[Head(arsign.todo)])]
              todo == Tail(arsign.todo)
  <2>3. CertFiles(read) /\ todo \in Seq(Roles)  BY <2>1, <2>2, ReadStep DEF TrustInv
  <2>4. arsign' = [arsign EXCEPT !.read = read, !.todo = todo]  BY <1>2 DEF ReadNext
  <2>. HIDE DEF read, todo
  <2>5. read \in [Roles -> SUBSET Cert]  BY <2>3 DEF CertFiles
  <2>6. arsign' \in SignTypes  BY <2>1, <2>3, <2>4, <2>5 DEF SignTypes
  <2>7. /\ arsign'.read = read /\ arsign'.key = arsign.key /\ arsign'.out = arsign.out
        /\ arsign'.op = arsign.op
    BY <2>1, <2>4 DEF SignTypes
  <2>8. \A p : Signed(p)' = Signed(p)  BY DEF Signed, SignReads
  <2>. QED  BY <2>1, <2>3, <2>6, <2>7, <2>8 DEF SignInv, SignTypes
<1>. QED  BY <1>1, <1>2 DEF SignReads

\* Moving on without touching what was read and what is to be written.
LEMMA SignMoves ==
  ASSUME TrustInv, NEW pc \in SignPlaces, arsign' = [arsign EXCEPT !.pc = pc], UNCHANGED approved
  PROVE  SignInv'
<1>1. arsign \in SignTypes /\ CertFiles(arsign.read) /\ AtMostOne(arsign.key) /\ AtMostOne(arsign.out)
      /\ (arsign.op = "embed" => \A p \in arsign.out : Signed(p))
  BY DEF TrustInv, SignInv, SignTypes
<1>2. arsign' \in SignTypes  BY <1>1 DEF SignTypes
<1>3. /\ arsign'.read = arsign.read /\ arsign'.key = arsign.key /\ arsign'.out = arsign.out
      /\ arsign'.op = arsign.op
  BY <1>1 DEF SignTypes
<1>4. \A p : Signed(p)' = Signed(p)  BY DEF Signed
<1>. QED  BY <1>1, <1>2, <1>3, <1>4 DEF SignInv, SignTypes

\* ... checks it ...
LEMMA SignChecksInv == ASSUME TrustInv, SignChecks PROVE TrustInv'
<1>. SUFFICES SignInv'  BY SignOnly DEF SignChecks
<1>1. CASE arsign' = SignIdle  BY <1>1, SignRests
<1>2. CASE arsign' = [arsign EXCEPT !.pc = "key"]
  <2>1. "key" \in SignPlaces /\ UNCHANGED approved  BY DEF SignPlaces, SignChecks
  <2>. QED  BY <1>2, <2>1, SignMoves
<1>. QED  BY <1>1, <1>2 DEF SignChecks

\* ... loads the key ...
LEMMA SignLoadsKeyInv == ASSUME TrustInv, SignLoadsKey PROVE TrustInv'
<1>. SUFFICES SignInv'  BY SignOnly DEF SignLoadsKey
<1>1. CASE arsign' = SignIdle  BY <1>1, SignRests
<1>2. ASSUME NEW role \in SigningKeys, arsign' = [arsign EXCEPT !.pc = "sign", !.key = keyFile[role]]
      PROVE  SignInv'
  <2>1. arsign \in SignTypes /\ CertFiles(arsign.read) /\ AtMostOne(arsign.key) /\ AtMostOne(arsign.out)
        /\ (arsign.op = "embed" => \A p \in arsign.out : Signed(p))
    BY DEF TrustInv, SignInv, SignTypes
  <2>2. keyFile[role] \in SUBSET (1..MaxKeys) /\ AtMostOne(keyFile[role])
    BY DEF TrustInv, FileTypes
  <2>3. arsign' \in SignTypes  BY <1>2, <2>1, <2>2 DEF SignTypes, SignPlaces
  <2>4. /\ arsign'.read = arsign.read /\ arsign'.key = keyFile[role] /\ arsign'.out = arsign.out
        /\ arsign'.op = arsign.op
    BY <1>2, <2>1 DEF SignTypes
  <2>5. \A p : Signed(p)' = Signed(p)  BY DEF Signed, SignLoadsKey
  <2>. QED  BY <2>1, <2>2, <2>3, <2>4, <2>5 DEF SignInv, SignTypes
<1>. QED  BY <1>1, <1>2 DEF SignLoadsKey

\* The signature falls on the content of a package of the old format, and
\* replaces the one of any other.
LEMMA EmbeddedPackage ==
  ASSUME NEW p, Signed(p), NEW k \in Nat
  PROVE  /\ Embedded(p, k) \in Packages /\ AtMostOne(Embedded(p, k).ed)
         /\ Embedded(p, k).ed \cup Embedded(p, k).pq \subseteq approved \cup {[by |-> k, of |-> Tbs(p)]}
         /\ [by |-> k, of |-> Tbs(p)] \in Signatures
<1>0. p \in Packages /\ AtMostOne(p.ed) /\ p.ed \cup p.pq \subseteq approved  BY DEF Signed
<1>1. [by |-> k, of |-> Tbs(p)] \in Signatures
  <2>1. Tbs(p) \in Bodies  BY <1>0 DEF Tbs, Bodies, Packages
  <2>. QED  BY <2>1 DEF Signatures
<1>2. CASE p.legacy
  <2>1. (CHOOSE d \in Damages : TRUE) \in Damages  OBVIOUS
  <2>2. PICK d \in Damages : Embedded(p, k) = [p EXCEPT !.data = d]
    BY <1>2, <2>1 DEF Embedded
  <2>3. Signed([p EXCEPT !.data = d])  BY DataChanged
  <2>. QED  BY <1>1, <2>2, <2>3 DEF Signed
<1>3. CASE ~ p.legacy
  <2>. DEFINE s == [by |-> k, of |-> Tbs(p)]
  <2>1. Embedded(p, k) = [p EXCEPT !.ed = {s}]  BY <1>3 DEF Embedded
  <2>2. s \in Signatures  BY <1>1
  <2>. HIDE DEF s
  <2>3. /\ [p EXCEPT !.ed = {s}] \in Packages /\ [p EXCEPT !.ed = {s}].ed = {s}
        /\ [p EXCEPT !.ed = {s}].pq = p.pq
    BY <1>0, <2>2 DEF Packages
  <2>4. AtMostOne({s})  BY DEF AtMostOne
  <2>. QED  BY <1>0, <1>1, <2>1, <2>3, <2>4 DEF s
<1>. QED  BY <1>2, <1>3

\* ... signs, which approves the content ...
LEMMA SignMakesInv == ASSUME TrustInv, SignMakes PROVE TrustInv'
<1>0. UNCHANGED <<time, caVars, artifact, makerVars, detached, policy>>  BY DEF SignMakes
<1>1. CASE arsign' = SignIdle /\ UNCHANGED approved  BY <1>0, <1>1, SignRests, SignOnly
<1>2. ASSUME NEW p \in artifact, NEW k \in arsign.key,
             arsign' = [arsign EXCEPT !.pc = "truncate", !.out =
                          {IF arsign.op = "embed" THEN Embedded(p, k) ELSE Detached(p, k)}],
             approved' = IF arsign.op = "embed"
                         THEN approved \union {[by |-> k, of |-> Tbs(p)]} ELSE approved
      PROVE  TrustInv'
  <2>1. arsign \in SignTypes /\ CertFiles(arsign.read) /\ AtMostOne(arsign.key)
    BY DEF TrustInv, SignInv, SignTypes
  <2>2. Signed(p) /\ p \in Packages  BY DEF TrustInv, PackageInv, Signed
  <2>3. k \in Nat  BY <2>1 DEF SignTypes
  <2>. DEFINE o == IF arsign.op = "embed" THEN Embedded(p, k) ELSE Detached(p, k)
  <2>4. o \in Packages \cup [by : Nat, of : Packages]
    <3>1. Embedded(p, k) \in Packages  BY <2>2, <2>3, EmbeddedPackage
    <3>2. Detached(p, k) \in [by : Nat, of : Packages]  BY <2>2, <2>3 DEF Detached
    <3>. QED  BY <3>1, <3>2
  <2>5. arsign.op = "embed" => \A z : z = o => Signed(z)'
    <3>. SUFFICES ASSUME arsign.op = "embed", NEW z, z = o PROVE Signed(z)'  OBVIOUS
    <3>1. z = Embedded(p, k)  OBVIOUS
    <3>2. approved' = approved \cup {[by |-> k, of |-> Tbs(p)]}  BY <1>2
    <3>3. /\ z \in Packages /\ AtMostOne(z.ed)
          /\ z.ed \cup z.pq \subseteq approved \cup {[by |-> k, of |-> Tbs(p)]}
      BY <2>2, <2>3, <3>1, EmbeddedPackage
    <3>. QED  BY <3>2, <3>3 DEF Signed
  <2>6. approved \subseteq approved' /\ approved' \subseteq Signatures
    <3>1. approved \subseteq Signatures  BY DEF TrustInv, PackageInv
    <3>2. [by |-> k, of |-> Tbs(p)] \in Signatures  BY <2>2, <2>3, EmbeddedPackage
    <3>. QED  BY <1>2, <3>1, <3>2
  <2>7. arsign' = [arsign EXCEPT !.pc = "truncate", !.out = {o}]  BY <1>2
  <2>. HIDE DEF o
  <2>8. SignInv'
    <3>1. arsign' \in SignTypes  BY <2>1, <2>4, <2>7 DEF SignTypes, SignPlaces
    <3>2. /\ arsign'.read = arsign.read /\ arsign'.key = arsign.key /\ arsign'.out = {o}
          /\ arsign'.op = arsign.op
      BY <2>1, <2>7 DEF SignTypes
    <3>3. AtMostOne({o})  BY DEF AtMostOne
    <3>4. arsign'.op = "embed" => \A q \in arsign'.out : Signed(q)'
      <4>. SUFFICES ASSUME arsign.op = "embed", NEW q, q = o PROVE Signed(q)'  BY <3>2
      <4>. QED  BY <2>5
    <3>. QED  BY <2>1, <3>1, <3>2, <3>3, <3>4 DEF SignInv, SignTypes
  <2>9. PackageInv'
    <3>1. UNCHANGED <<artifact, maker, detached>>  BY <1>0 DEF makerVars
    <3>2. \A q \in artifact \cup maker : Signed(q)'  BY <2>6 DEF TrustInv, PackageInv, Signed
    <3>. QED  BY <2>6, <3>1, <3>2 DEF TrustInv, PackageInv
  <2>10. CaTypes' /\ FileTypes' /\ PolicyInv'
    BY <1>0, CaKept, FilesKept, PolicyKept DEF TrustInv, caVars, makerVars
  <2>. QED  BY <2>8, <2>9, <2>10 DEF TrustInv
<1>. QED  BY <1>1, <1>2 DEF SignMakes

\* ... writes over the package ...
LEMMA SignWritesInv == ASSUME TrustInv, SignWrites PROVE TrustInv'
<1>0. UNCHANGED <<time, caVars, maker, approved, policy>>  BY DEF SignWrites
<1>1. SignInv'
  <2>1. CASE arsign' = SignIdle  BY <2>1, SignRests
  <2>2. CASE arsign' = [arsign EXCEPT !.pc = "write"]
    <3>1. "write" \in SignPlaces  BY DEF SignPlaces
    <3>. QED  BY <1>0, <2>2, <3>1, SignMoves
  <2>. QED  BY <2>1, <2>2 DEF SignWrites
<1>2. PICK content \in {arsign.out, {}} :
        IF arsign.op = "embed" THEN artifact' = content /\ exists' = TRUE /\ UNCHANGED detached
        ELSE detached' = content /\ UNCHANGED <<artifact, exists>>
  BY DEF SignWrites
<1>3. AtMostOne({}) /\ AtMostOne(arsign.out) /\ (arsign.op = "embed" => \A p \in arsign.out : Signed(p))
  BY DEF TrustInv, SignInv, AtMostOne
<1>4. FileTypes'
  <2>1. exists' \in BOOLEAN  BY <1>2 DEF TrustInv, FileTypes
  <2>. QED  BY <1>0, <2>1 DEF TrustInv, FileTypes, CertFiles, caVars
<1>5. PackageInv'
  <2>1. AtMostOne(artifact') /\ AtMostOne(detached') /\ \A p \in artifact' : Signed(p)
    BY <1>2, <1>3 DEF TrustInv, PackageInv
  <2>2. \A p \in artifact' \cup maker' : Signed(p)'  BY <1>0, <2>1 DEF TrustInv, PackageInv, Signed
  <2>. QED  BY <1>0, <2>1, <2>2 DEF TrustInv, PackageInv
<1>6. CaTypes' /\ PolicyInv'  BY <1>0, CaKept, PolicyKept DEF TrustInv, caVars
<1>. QED  BY <1>1, <1>4, <1>5, <1>6 DEF TrustInv

\* ... and answers or dies;
LEMMA SignEndsInv == ASSUME TrustInv, SignAnswers \/ SignDies PROVE TrustInv'
BY SignRests, SignOnly DEF SignAnswers, SignDies

\* What a step of the policy leaves alone.
LEMMA PolicyOnly ==
  ASSUME TrustInv, UNCHANGED <<time, caVars, artifact, makerVars, signVars>>, PolicyInv'
  PROVE  TrustInv'
BY CaKept, SignKept, FilesKept, PackagesKept DEF TrustInv, caVars, makerVars, signVars

\* the policy starts, reads its certificates, and stops;
LEMMA PolicyStepInv == ASSUME TrustInv, PolicyStarts \/ PolicyReads \/ PolicyStops PROVE TrustInv'
<1>. SUFFICES PolicyInv'  BY PolicyOnly DEF PolicyStarts, PolicyReads, PolicyStops
<1>0. policy \in [todo : Seq(Roles), read : [Roles -> SUBSET Cert], done : BOOLEAN] /\ CertFiles(policy.read)
  BY DEF TrustInv, PolicyInv
<1>1. CASE PolicyStarts
  <2>1. <<"root", "intermediate", "leaf">> \in Seq(Roles)  BY DEF Roles
  <2>2. policy' = [policy EXCEPT !.todo = <<"root", "intermediate", "leaf">>, !.done = TRUE]
    BY <1>1 DEF PolicyStarts
  <2>3. policy' \in [todo : Seq(Roles), read : [Roles -> SUBSET Cert], done : BOOLEAN]
        /\ policy'.read = policy.read
    BY <1>0, <2>1, <2>2
  <2>. QED  BY <1>0, <2>3 DEF PolicyInv
<1>2. CASE PolicyReads
  <2>. DEFINE read == [policy.read EXCEPT ![Head(policy.todo)] = Decoded(certFile[Head(policy.todo)])]
              todo == Tail(policy.todo)
  <2>1. policy.todo \in Seq(Roles) /\ policy.todo # <<>>  BY <1>0, <1>2 DEF PolicyReads
  <2>2. CertFiles(read) /\ todo \in Seq(Roles)  BY <1>0, <2>1, ReadStep DEF TrustInv
  <2>3. policy' = [policy EXCEPT !.read = read, !.todo = todo]  BY <1>2 DEF PolicyReads, ReadNext
  <2>. HIDE DEF read, todo
  <2>4. read \in [Roles -> SUBSET Cert]  BY <2>2 DEF CertFiles
  <2>5. policy' \in [todo : Seq(Roles), read : [Roles -> SUBSET Cert], done : BOOLEAN]
        /\ policy'.read = read
    BY <1>0, <2>2, <2>3, <2>4
  <2>. QED  BY <2>2, <2>5 DEF PolicyInv
<1>3. CASE PolicyStops  BY <1>3, IdleIsSound DEF PolicyStops, PolicyInv
<1>. QED  BY <1>1, <1>2, <1>3

\* time passes.
LEMMA TimeInv == ASSUME TrustInv, TimePasses PROVE TrustInv'
<1>1. CaTypes' /\ PackageInv' /\ SignInv' /\ PolicyInv'
  BY CaKept, PackagesKept, SignKept, PolicyKept DEF TrustInv, TimePasses, caVars, makerVars, signVars
<1>2. time' \in 2..MaxTime
  <2>1. time \in 2..MaxTime /\ time < MaxTime /\ time' = time + 1
    BY DEF TrustInv, FileTypes, TimePasses
  <2>. QED  BY <2>1
<1>3. FileTypes'  BY <1>2 DEF TrustInv, TimePasses, FileTypes, CertFiles, caVars, makerVars
<1>. QED  BY <1>1, <1>3 DEF TrustInv

\* Every step keeps the invariant.
LEMMA TrustNextInv == TrustInv /\ [TrustNext]_trustVars => TrustInv'
<1>. SUFFICES ASSUME TrustInv, [TrustNext]_trustVars PROVE TrustInv'  OBVIOUS
<1>1. CASE UNCHANGED trustVars
  BY <1>1, CaKept, FilesKept, PackagesKept, SignKept, PolicyKept DEF TrustInv, trustVars
<1>2. CASE \E role \in Roles : CaStart(role)  BY <1>2, CaStartInv
<1>3. CASE CaIssue \/ CaWrite \/ CaDies  BY <1>3, CaIssueInv, CaWriteInv, CaDiesInv
<1>4. CASE MakerCreates \/ MakerEnds \/ PackageArrives \/ PackageDamaged
  BY <1>4, MakerInv, ArrivalInv, DamageInv
<1>5. CASE \E op \in {"embed", "detach", "verify"} : SignStart(op)  BY <1>5, SignStartInv
<1>6. CASE SignReads \/ SignChecks \/ SignLoadsKey \/ SignMakes \/ SignWrites \/ SignAnswers \/ SignDies
  BY <1>6, SignReadsInv, SignChecksInv, SignLoadsKeyInv, SignMakesInv, SignWritesInv, SignEndsInv
<1>7. CASE PolicyStarts \/ PolicyReads \/ PolicyStops  BY <1>7, PolicyStepInv
<1>8. CASE TimePasses  BY <1>8, TimeInv
<1>. QED  BY <1>1, <1>2, <1>3, <1>4, <1>5, <1>6, <1>7, <1>8 DEF TrustNext

\* The invariant contains the types.
LEMMA TypesFollow == TrustInv => TrustTypeOK
<1>. SUFFICES ASSUME TrustInv PROVE TrustTypeOK  OBVIOUS
<1>1. \A r \in Roles : /\ AtMostOne(certFile[r]) /\ \A c \in certFile[r] : c.role = r
                       /\ AtMostOne(keyFile[r]) /\ keyFile[r] \subseteq 1..MaxKeys
  BY DEF TrustInv, FileTypes, CertFiles
<1>2. \A pol \in StartedPolicies : pol.level \in 1..3  BY PolicyFact DEF TrustInv
<1>3. ca.pc \in CaPlaces /\ arsign.pc \in SignPlaces  BY DEF TrustInv, CaTypes, SignInv, SignTypes
<1>. QED  BY <1>1, <1>2, <1>3 DEF TrustTypeOK, TrustInv, FileTypes, PackageInv, CaPlaces, SignPlaces

\* The invariant of ceremonies, packages, signings and policies holds in every
\* reachable state.
THEOREM TrustInvariant == TrustSpec => []TrustInv
<1>1. TrustInit => TrustInv  BY TrustInitInv
<1>2. TrustInv /\ [TrustNext]_trustVars => TrustInv'  BY TrustNextInv
<1>. QED  BY <1>1, <1>2, PTL DEF TrustSpec

\* For any certificates, packages, keys and periods, whatever ceremonies, signings,
\* deaths and damage went before: launches, stagings and verifications rest on a
\* current chain and on content its signer approved (policy.c:644,
\* sovereign_loader.c:143, notary.c:452).
THEOREM CertifiedContentOnlyCorrect == TrustSpec => []CertifiedContentOnly
<1>1. TrustInv => CertifiedContentOnly
  BY TypesFollow, LaunchesFollow, ContentFollows DEF CertifiedContentOnly
<1>. QED  BY <1>1, TrustInvariant, PTL

HIDE TrustAssumption

(***************************************************************************)
(* The secret vault                                                        *)
(***************************************************************************)
\* What a call can return, and the record of a reader.
Outcomes == {Failed(s) : s \in {"none", "format", "memfd"}}
            \cup {Inject(s, b, q) : s \in Stores, b \in Seq(Stores), q \in Requests}
ReaderRecords == [pc : {"idle", "blob", "inject", "memfd", "done"}, store : Stores \cup {NoStore},
                  blocks : Seq(Stores), request : Requests, result : Outcomes]

\* What a reader holds at each of its places.
Holds(r) ==
  /\ r.pc \in {"blob", "inject", "memfd"} => r.store \in Stores
  /\ r.pc \in {"inject", "memfd"} => Len(r.blocks) = Texts[r.store].blocks
  /\ r.pc = "memfd" => Inject(r.store, r.blocks, r.request).status = "ok"
  /\ r.pc = "done" => \/ r.result.status # "ok" /\ r.result.env = <<>>
                      \/ /\ r.store \in Stores /\ Len(r.blocks) = Texts[r.store].blocks
                         /\ r.result = Inject(r.store, r.blocks, r.request)

\* A memfd exists while its reader writes it, and after it was delivered.
Delivering(f, r) == r.pc = "memfd" \/ (r.pc = "done" /\ r.result.status = "ok" /\ f.sealed)

FileInv == header \in Stores \cup {NoStore} /\ blob \in Seq(Stores)
SaverInv == saver \in [Savers -> [pc : {"idle", "header", "blob"}, store : Stores \cup {NoStore}]]
            /\ \A p \in Savers : saver[p].pc # "idle" => saver[p].store \in Stores
ReaderInv == reader \in [Readers -> ReaderRecords] /\ \A p \in Readers : Holds(reader[p])
MemfdInv == /\ fds \subseteq [of : Readers, sealed : BOOLEAN]
            /\ \A p \in Readers, f \in fds : f.of = p => Delivering(f, reader[p])
VaultInv == FileInv /\ SaverInv /\ ReaderInv /\ MemfdInv

USE VaultAssumption

\* A reader at rest, and one whose call failed early.
LEMMA RestingIs ==
  /\ Resting \in ReaderRecords /\ Resting.pc = "idle" /\ Holds(Resting)
  /\ \A s \in {"format", "memfd"} :
       LET z == [Resting EXCEPT !.pc = "done", !.result = Failed(s)]
       IN z \in ReaderRecords /\ Holds(z) /\ z.pc = "done"
<1>1. (CHOOSE r \in Requests : TRUE) \in Requests  OBVIOUS
<1>2. \A s \in {"none", "format", "memfd"} : Failed(s) \in Outcomes  BY DEF Outcomes
<1>3. \A s : Failed(s).status = s /\ Failed(s).env = <<>>  BY DEF Failed
<1>4. <<>> \in Seq(Stores)  OBVIOUS
<1>5. Resting \in ReaderRecords /\ Resting.pc = "idle"
  BY <1>1, <1>2, <1>4 DEF Resting, ReaderRecords
<1>6. Holds(Resting)  BY <1>5 DEF Holds
<1>7. ASSUME NEW s \in {"format", "memfd"}
      PROVE  LET z == [Resting EXCEPT !.pc = "done", !.result = Failed(s)]
             IN z \in ReaderRecords /\ Holds(z) /\ z.pc = "done"
  <2>. DEFINE z == [Resting EXCEPT !.pc = "done", !.result = Failed(s)]
  <2>1. z \in ReaderRecords /\ z.pc = "done" /\ z.result = Failed(s)
    BY <1>2, <1>5 DEF ReaderRecords
  <2>. HIDE DEF z
  <2>2. Holds(z)  BY <1>3, <2>1 DEF Holds
  <2>. QED  BY <2>1, <2>2 DEF z
<1>. QED  BY <1>5, <1>6, <1>7

\* The blob with a store's blocks over it is made of blocks of stores.
LEMMA OverlayBlocks ==
  ASSUME NEW b \in Seq(Stores), NEW s \in Stores
  PROVE  Overlay(b, s) \in Seq(Stores)
<1>. DEFINE n == IF Len(b) > Texts[s].blocks THEN Len(b) ELSE Texts[s].blocks
<1>1. Len(b) \in Nat /\ Texts[s].blocks \in Nat  BY DEF Stores
<1>2. n \in Nat  BY <1>1
<1>3. \A i \in 1..n : (IF i <= Texts[s].blocks THEN s ELSE b[i]) \in Stores
  <2>. SUFFICES ASSUME NEW i \in 1..n, ~ (i <= Texts[s].blocks) PROVE b[i] \in Stores
    OBVIOUS
  <2>1. i \in 1..Len(b)  BY <1>1
  <2>. QED  BY <2>1
<1>. HIDE DEF n
<1>4. [i \in 1..n |-> IF i <= Texts[s].blocks THEN s ELSE b[i]] \in [1..n -> Stores]  BY <1>3
<1>5. [i \in 1..n |-> IF i <= Texts[s].blocks THEN s ELSE b[i]] \in Seq(Stores)  BY <1>2, <1>4
<1>. QED  BY <1>5 DEF Overlay, n

\* The invariant holds at the start.
LEMMA VaultInitInv == VaultInit => VaultInv
<1>. SUFFICES ASSUME VaultInit PROVE VaultInv  OBVIOUS
<1>1. FileInv  BY DEF VaultInit, FileInv
<1>2. SaverInv  BY DEF VaultInit, SaverInv
<1>3. ReaderInv
  <2>1. reader = [p \in Readers |-> Resting]  BY DEF VaultInit
  <2>. QED  BY <2>1, RestingIs DEF ReaderInv
<1>4. MemfdInv  BY DEF VaultInit, MemfdInv
<1>. QED  BY <1>1, <1>2, <1>3, <1>4 DEF VaultInv

\* Savers keep it, though nothing excludes a second one ...
LEMMA SaverStepInv ==
  ASSUME VaultInv, NEW p \in Savers, Truncate(p) \/ WriteHeader(p) \/ WriteBlob(p) \/ SaveStops(p)
  PROVE  VaultInv'
<1>1. UNCHANGED <<reader, fds>>  BY DEF Truncate, WriteHeader, WriteBlob, SaveStops
<1>2. ReaderInv' /\ MemfdInv'  BY <1>1 DEF VaultInv, ReaderInv, MemfdInv
<1>3. PICK w \in [pc : {"idle", "header", "blob"}, store : Stores \cup {NoStore}] : w = saver[p]
  BY DEF VaultInv, SaverInv
<1>4. w.pc # "idle" => w.store \in Stores  BY <1>3 DEF VaultInv, SaverInv
<1>5. ASSUME NEW v \in [pc : {"idle", "header", "blob"}, store : Stores \cup {NoStore}],
             v.pc # "idle" => v.store \in Stores, saver' = [saver EXCEPT ![p] = v]
      PROVE  SaverInv'
  BY <1>5 DEF VaultInv, SaverInv
<1>6. ASSUME NEW pc \in {"idle", "header", "blob"}, pc = "idle" \/ w.pc # "idle",
             saver' = [saver EXCEPT ![p].pc = pc]
      PROVE  SaverInv'
  <2>. DEFINE v == [w EXCEPT !.pc = pc]
  <2>1. v \in [pc : {"idle", "header", "blob"}, store : Stores \cup {NoStore}]
        /\ v.pc = pc /\ v.store = w.store
    OBVIOUS
  <2>2. saver' = [saver EXCEPT ![p] = v]  BY <1>3, <1>6
  <2>. HIDE DEF v
  <2>. QED  BY <1>4, <1>5, <1>6, <2>1, <2>2
<1>7. SaverInv'
  <2>1. CASE Truncate(p)
    <3>1. PICK s \in Stores : saver' = [saver EXCEPT ![p] = [pc |-> "header", store |-> s]]
      BY <2>1 DEF Truncate
    <3>2. [pc |-> "header", store |-> s] \in [pc : {"idle", "header", "blob"}, store : Stores \cup {NoStore}]
      OBVIOUS
    <3>. QED  BY <1>5, <3>1, <3>2
  <2>2. CASE WriteHeader(p)  BY <1>3, <1>6, <2>2 DEF WriteHeader
  <2>3. CASE WriteBlob(p)  BY <1>6, <2>3 DEF WriteBlob
  <2>4. CASE SaveStops(p)  BY <1>6, <2>4 DEF SaveStops
  <2>. QED  BY <2>1, <2>2, <2>3, <2>4
<1>8. FileInv'
  <2>0. FileInv  BY DEF VaultInv
  <2>1. CASE Truncate(p)  BY <2>1 DEF Truncate, FileInv
  <2>2. CASE WriteHeader(p)  BY <1>3, <1>4, <2>0, <2>2 DEF WriteHeader, FileInv
  <2>3. CASE WriteBlob(p)
    <3>1. w.store \in Stores /\ blob' = Overlay(blob, w.store) /\ UNCHANGED header
      BY <1>3, <1>4, <2>3 DEF WriteBlob
    <3>. QED  BY <2>0, <3>1, OverlayBlocks DEF FileInv
  <2>4. CASE SaveStops(p)  BY <2>0, <2>4 DEF SaveStops, FileInv
  <2>. QED  BY <2>1, <2>2, <2>3, <2>4
<1>. QED  BY <1>2, <1>7, <1>8 DEF VaultInv

\* A step of a reader changes the record of the reader and its memfds only.
LEMMA ReaderOnly ==
  ASSUME VaultInv, NEW p \in Readers, NEW z \in ReaderRecords, Holds(z),
         reader' = [reader EXCEPT ![p] = z],
         fds' \subseteq [of : Readers, sealed : BOOLEAN],
         \A f \in fds' : f.of # p => f \in fds,
         \A f \in fds' : f.of = p => Delivering(f, z),
         UNCHANGED <<header, blob, saver>>
  PROVE  VaultInv'
<1>1. reader' \in [Readers -> ReaderRecords]  BY DEF VaultInv, ReaderInv
<1>2. \A q \in Readers : reader'[q] = IF q = p THEN z ELSE reader[q]  BY DEF VaultInv, ReaderInv
<1>3. ReaderInv'  BY <1>1, <1>2 DEF VaultInv, ReaderInv
<1>4. \A q \in Readers, f \in fds' : f.of = q => Delivering(f, reader'[q])
  BY <1>2 DEF VaultInv, MemfdInv
<1>5. MemfdInv'  BY <1>4 DEF MemfdInv
<1>6. FileInv' /\ SaverInv'  BY DEF VaultInv, FileInv, SaverInv
<1>. QED  BY <1>3, <1>5, <1>6 DEF VaultInv

\* ... and so does a reader that loads the header ...
LEMMA LoadHeaderInv == ASSUME VaultInv, NEW p \in Readers, LoadHeader(p) PROVE VaultInv'
<1>1. PICK r \in Requests :
        reader' = [reader EXCEPT ![p] =
          IF header = NoStore THEN [Resting EXCEPT !.pc = "done", !.result = Failed("format")]
          ELSE [Resting EXCEPT !.pc = "blob", !.store = header, !.request = r]]
  BY DEF LoadHeader
<1>. DEFINE z == IF header = NoStore THEN [Resting EXCEPT !.pc = "done", !.result = Failed("format")]
                 ELSE [Resting EXCEPT !.pc = "blob", !.store = header, !.request = r]
<1>2. z \in ReaderRecords /\ Holds(z)
  <2>1. CASE header = NoStore  BY <2>1, RestingIs
  <2>2. CASE header # NoStore
    <3>. DEFINE y == [Resting EXCEPT !.pc = "blob", !.store = header, !.request = r]
    <3>1. header \in Stores  BY <2>2 DEF VaultInv, FileInv
    <3>2. y \in ReaderRecords /\ y.pc = "blob" /\ y.store = header
      BY <3>1, RestingIs DEF ReaderRecords
    <3>. HIDE DEF y
    <3>3. Holds(y)  BY <3>1, <3>2 DEF Holds
    <3>4. z = y  BY <2>2 DEF y
    <3>. QED  BY <3>2, <3>3, <3>4
  <2>. QED  BY <2>1, <2>2
<1>3. reader' = [reader EXCEPT ![p] = z]  BY <1>1
<1>. HIDE DEF z
<1>4. \A f \in fds : f.of # p
  BY DEF VaultInv, MemfdInv, LoadHeader, Delivering
<1>5. fds \subseteq [of : Readers, sealed : BOOLEAN]  BY DEF VaultInv, MemfdInv
<1>6. UNCHANGED <<header, blob, saver, fds>>  BY DEF LoadHeader
<1>. QED  BY <1>2, <1>3, <1>4, <1>5, <1>6, ReaderOnly

\* ... loads the blob ...
LEMMA LoadBlobInv == ASSUME VaultInv, NEW p \in Readers, LoadBlob(p) PROVE VaultInv'
<1>1. PICK r \in ReaderRecords : r = reader[p]  BY DEF VaultInv, ReaderInv
<1>2. r.pc = "blob" /\ r.store \in Stores
  BY <1>1 DEF VaultInv, ReaderInv, Holds, LoadBlob
<1>. DEFINE part == SubSeq(blob, 1, Texts[r.store].blocks)
            y == [r EXCEPT !.pc = "inject", !.blocks = part]
            z == IF BlobComplete(r.store) THEN y
                 ELSE [Resting EXCEPT !.pc = "done", !.result = Failed("format")]
<1>3. reader' = [reader EXCEPT ![p] = z]  BY <1>1 DEF LoadBlob
<1>4. z \in ReaderRecords /\ Holds(z)
  <2>1. CASE BlobComplete(r.store)
    <3>1. Len(blob) = Texts[r.store].blocks /\ blob \in Seq(Stores)
      BY <2>1 DEF BlobComplete, VaultInv, FileInv
    <3>2. part \in Seq(Stores) /\ Len(part) = Texts[r.store].blocks
      BY <3>1
    <3>. HIDE DEF part
    <3>3. y \in ReaderRecords /\ y.pc = "inject" /\ y.store = r.store /\ y.blocks = part
      BY <3>2 DEF ReaderRecords
    <3>. HIDE DEF y
    <3>4. Holds(y)  BY <1>2, <3>2, <3>3 DEF Holds
    <3>. QED  BY <2>1, <3>3, <3>4
  <2>2. CASE ~ BlobComplete(r.store)  BY <2>2, RestingIs
  <2>. QED  BY <2>1, <2>2
<1>. HIDE DEF z
<1>5. \A f \in fds : f.of # p
  BY <1>1, <1>2 DEF VaultInv, MemfdInv, Delivering
<1>6. fds \subseteq [of : Readers, sealed : BOOLEAN]  BY DEF VaultInv, MemfdInv
<1>7. UNCHANGED <<header, blob, saver, fds>>  BY DEF LoadBlob
<1>. QED  BY <1>3, <1>4, <1>5, <1>6, <1>7, ReaderOnly

\* A call that fails delivers nothing.
LEMMA InjectFails ==
  ASSUME NEW s, NEW b, NEW q, Inject(s, b, q).status # "ok"
  PROVE  Inject(s, b, q).env = <<>>
BY DEF Inject, Failed

\* A reader that was given the answer of a call.
LEMMA ReaderAnswered ==
  ASSUME NEW r \in ReaderRecords, r.pc \in {"inject", "memfd"}, Holds(r)
  PROVE  LET z == [r EXCEPT !.pc = "done", !.result = Inject(r.store, r.blocks, r.request)]
         IN z \in ReaderRecords /\ Holds(z) /\ z.pc = "done"
            /\ z.result = Inject(r.store, r.blocks, r.request)
<1>. DEFINE a == Inject(r.store, r.blocks, r.request)
            z == [r EXCEPT !.pc = "done", !.result = a]
<1>1. r.store \in Stores /\ r.blocks \in Seq(Stores) /\ r.request \in Requests
      /\ Len(r.blocks) = Texts[r.store].blocks
  BY DEF ReaderRecords, Holds
<1>2. a \in Outcomes  BY <1>1 DEF Outcomes
<1>3. z \in ReaderRecords /\ z.pc = "done" /\ z.result = a /\ z.store = r.store
      /\ z.blocks = r.blocks /\ z.request = r.request
  <2>. HIDE DEF a
  <2>. QED  BY <1>2 DEF ReaderRecords
<1>. HIDE DEF z
<1>4. Holds(z)  BY <1>1, <1>3 DEF Holds
<1>. QED  BY <1>3, <1>4 DEF z

\* ... delivers an environment ...
LEMMA InjectEnvInv == ASSUME VaultInv, NEW p \in Readers, InjectEnv(p) PROVE VaultInv'
<1>1. PICK r \in ReaderRecords : r = reader[p]  BY DEF VaultInv, ReaderInv
<1>2. r.pc = "inject" /\ Holds(r)  BY <1>1 DEF VaultInv, ReaderInv, InjectEnv
<1>. DEFINE a == Inject(r.store, r.blocks, r.request)
            z == [r EXCEPT !.pc = "done", !.result = a]
<1>3. z \in ReaderRecords /\ Holds(z)  BY <1>2, ReaderAnswered
<1>4. reader' = [reader EXCEPT ![p] = z]
  <2>1. reader' = [reader EXCEPT ![p].pc = "done", ![p].result = a]  BY <1>1 DEF InjectEnv
  <2>2. reader \in [Readers -> ReaderRecords]  BY DEF VaultInv, ReaderInv
  <2>. HIDE DEF a
  <2>. QED  BY <1>1, <2>1, <2>2
<1>. HIDE DEF z
<1>5. \A f \in fds : f.of # p
  BY <1>1, <1>2 DEF VaultInv, MemfdInv, Delivering
<1>6. fds \subseteq [of : Readers, sealed : BOOLEAN]  BY DEF VaultInv, MemfdInv
<1>7. UNCHANGED <<header, blob, saver, fds>>  BY DEF InjectEnv
<1>. QED  BY <1>3, <1>4, <1>5, <1>6, <1>7, ReaderOnly

\* ... or creates a memfd ...
LEMMA MemfdCreateInv == ASSUME VaultInv, NEW p \in Readers, MemfdCreate(p) PROVE VaultInv'
<1>1. PICK r \in ReaderRecords : r = reader[p]  BY DEF VaultInv, ReaderInv
<1>2. r.pc = "inject" /\ Holds(r) /\ Inject(r.store, r.blocks, r.request).status = "ok"
  BY <1>1 DEF VaultInv, ReaderInv, MemfdCreate
<1>. DEFINE z == [r EXCEPT !.pc = "memfd"]
<1>3. z \in ReaderRecords /\ z.pc = "memfd" /\ z.store = r.store /\ z.blocks = r.blocks
      /\ z.request = r.request
  BY DEF ReaderRecords
<1>4. reader' = [reader EXCEPT ![p] = z]  BY <1>1 DEF MemfdCreate
<1>. HIDE DEF z
<1>5. Holds(z)  BY <1>2, <1>3 DEF Holds
<1>6. fds' = fds \cup {[of |-> p, sealed |-> FALSE]}  BY DEF MemfdCreate
<1>7. fds' \subseteq [of : Readers, sealed : BOOLEAN]
  <2>1. [of |-> p, sealed |-> FALSE] \in [of : Readers, sealed : BOOLEAN]  OBVIOUS
  <2>2. fds \subseteq [of : Readers, sealed : BOOLEAN]  BY DEF VaultInv, MemfdInv
  <2>. QED  BY <1>6, <2>1, <2>2, Zenon
<1>8. \A f \in fds' : f.of # p => f \in fds  BY <1>6
<1>9. \A f \in fds' : f.of = p => Delivering(f, z)  BY <1>3 DEF Delivering
<1>10. UNCHANGED <<header, blob, saver>>  BY DEF MemfdCreate
<1>. QED  BY <1>3, <1>4, <1>5, <1>7, <1>8, <1>9, <1>10, ReaderOnly

\* ... seals it ...
LEMMA MemfdSealInv == ASSUME VaultInv, NEW p \in Readers, MemfdSeal(p) PROVE VaultInv'
<1>1. PICK r \in ReaderRecords : r = reader[p]  BY DEF VaultInv, ReaderInv
<1>2. r.pc = "memfd" /\ Holds(r)  BY <1>1 DEF VaultInv, ReaderInv, MemfdSeal
<1>. DEFINE a == Inject(r.store, r.blocks, r.request)
            z == [r EXCEPT !.pc = "done", !.result = a]
<1>3. z \in ReaderRecords /\ Holds(z) /\ z.pc = "done" /\ z.result = a  BY <1>2, ReaderAnswered
<1>4. a.status = "ok"  BY <1>2 DEF Holds
<1>. HIDE DEF a
<1>5. reader' = [reader EXCEPT ![p] = z]
  <2>1. reader' = [reader EXCEPT ![p].pc = "done", ![p].result = a]  BY <1>1 DEF MemfdSeal, a
  <2>2. reader \in [Readers -> ReaderRecords]  BY DEF VaultInv, ReaderInv
  <2>. QED  BY <1>1, <2>1, <2>2
<1>. HIDE DEF z
<1>6. fds' = {f \in fds : f.of /= p} \cup {[of |-> p, sealed |-> TRUE]}  BY DEF MemfdSeal
<1>7. fds' \subseteq [of : Readers, sealed : BOOLEAN]
  <2>1. [of |-> p, sealed |-> TRUE] \in [of : Readers, sealed : BOOLEAN]  OBVIOUS
  <2>2. fds \subseteq [of : Readers, sealed : BOOLEAN]  BY DEF VaultInv, MemfdInv
  <2>. QED  BY <1>6, <2>1, <2>2, Zenon
<1>8. \A f \in fds' : f.of # p => f \in fds  BY <1>6
<1>9. \A f \in fds' : f.of = p => Delivering(f, z)  BY <1>3, <1>4, <1>6 DEF Delivering
<1>10. UNCHANGED <<header, blob, saver>>  BY DEF MemfdSeal
<1>. QED  BY <1>3, <1>5, <1>7, <1>8, <1>9, <1>10, ReaderOnly

\* ... fails with it, or frees what it got.
LEMMA ReleasedInv == ASSUME VaultInv, NEW p \in Readers, MemfdFails(p) \/ Free(p) PROVE VaultInv'
<1>1. PICK z \in ReaderRecords : Holds(z) /\ reader' = [reader EXCEPT ![p] = z]
  BY RestingIs DEF MemfdFails, Free
<1>2. fds' = {f \in fds : f.of /= p}  BY DEF MemfdFails, Free, WithoutMemfd
<1>3. fds' \subseteq [of : Readers, sealed : BOOLEAN]  BY <1>2 DEF VaultInv, MemfdInv
<1>4. UNCHANGED <<header, blob, saver>>  BY DEF MemfdFails, Free
<1>. QED  BY <1>1, <1>2, <1>3, <1>4, ReaderOnly

\* Every step keeps the invariant.
LEMMA VaultNextInv == VaultInv /\ [VaultNext]_vaultVars => VaultInv'
<1>. SUFFICES ASSUME VaultInv, [VaultNext]_vaultVars PROVE VaultInv'  OBVIOUS
<1>1. CASE UNCHANGED vaultVars
  BY <1>1 DEF VaultInv, vaultVars, FileInv, SaverInv, ReaderInv, MemfdInv
<1>2. CASE \E p \in Savers : Truncate(p) \/ WriteHeader(p) \/ WriteBlob(p) \/ SaveStops(p)
  BY <1>2, SaverStepInv
<1>3. CASE \E p \in Readers : \/ LoadHeader(p) \/ LoadBlob(p) \/ InjectEnv(p)
                              \/ MemfdCreate(p) \/ MemfdSeal(p) \/ MemfdFails(p)
                              \/ Free(p)
  BY <1>3, LoadHeaderInv, LoadBlobInv, InjectEnvInv, MemfdCreateInv, MemfdSealInv, ReleasedInv
<1>. QED  BY <1>1, <1>2, <1>3 DEF VaultNext

\* A call that succeeds opened a store whole and delivers what it selected.
LEMMA InjectDelivers ==
  ASSUME NEW s, NEW b, NEW q, Inject(s, b, q).status = "ok"
  PROVE  /\ Opens(s, b, DeriveKey(s, q.material, 0))
         /\ Inject(s, b, q).env = Environment(Texts[s], Selected(Texts[s], q))
BY DEF Inject, Failed

\* For values of one line the environment is the selected records, no more and no
\* less.
LEMMA EnvironmentHolds ==
  ASSUME NEW text, NEW q, SingleLine(text)
  PROVE  HoldsTheSecrets(Environment(text, Selected(text, q)), text, q)
<1>. DEFINE chosen == Selected(text, q)
            places == UNION {{i} \X DOMAIN text.entries[i].lines : i \in chosen}
            env == Environment(text, chosen)
<1>1. DOMAIN env = places /\ \A z \in places : env[z] = text.entries[z[1]].lines[z[2]]
  BY DEF Environment
<1>2. \A i \in chosen : /\ i \in Records(text) /\ Belongs(text.entries[i], q.app)
                        /\ Authorized(text.entries[i].key, q.keys)
  BY DEF Selected
<1>3. \A i \in chosen : DOMAIN text.entries[i].lines = {1}
  BY <1>2 DEF SingleLine
<1>4. \A z \in places : z[1] \in chosen /\ z[2] = 1  BY <1>3
<1>5. \A i \in chosen : <<i, 1>> \in places  BY <1>3
<1>6. \A i \in Records(text) : Belongs(text.entries[i], q.app) /\ Authorized(text.entries[i].key, q.keys)
                                 => i \in chosen
  BY DEF Selected
<1>. HIDE DEF chosen, places, env
<1>7. HoldsTheSecrets(env, text, q)
  BY <1>1, <1>2, <1>4, <1>5, <1>6 DEF HoldsTheSecrets, Belongs, Authorized
<1>. QED  BY <1>7 DEF env, chosen

\* The invariant contains the promise.
LEMMA DeliveryFollows == VaultInv => DeliversOneStore
<1>. SUFFICES ASSUME VaultInv PROVE DeliversOneStore  OBVIOUS
<1>1. VaultTypeOK
  BY DEF VaultInv, VaultTypeOK, FileInv, SaverInv, ReaderInv, MemfdInv, ReaderRecords
<1>2. ASSUME NEW p \in Readers, NEW r, r = reader[p], r.pc = "done", r.result.status = "ok"
      PROVE  /\ r.store \in Stores
             /\ Opens(r.store, r.blocks, DeriveKey(r.store, r.request.material, 0))
             /\ Len(r.blocks) = Texts[r.store].blocks
             /\ \A i \in DOMAIN r.blocks : r.blocks[i] = r.store
             /\ SingleLine(Texts[r.store]) =>
                  HoldsTheSecrets(r.result.env, Texts[r.store], r.request)
             /\ \A f \in fds : f.of = p => f.sealed
  <2>1. r.store \in Stores /\ Len(r.blocks) = Texts[r.store].blocks
        /\ r.result = Inject(r.store, r.blocks, r.request)
    BY <1>2 DEF VaultInv, ReaderInv, Holds
  <2>2. /\ Opens(r.store, r.blocks, DeriveKey(r.store, r.request.material, 0))
        /\ r.result.env = Environment(Texts[r.store], Selected(Texts[r.store], r.request))
    BY <1>2, <2>1, InjectDelivers
  <2>3. \A i \in DOMAIN r.blocks : r.blocks[i] = r.store  BY <2>2 DEF Opens
  <2>4. SingleLine(Texts[r.store]) => HoldsTheSecrets(r.result.env, Texts[r.store], r.request)
    BY <2>2, EnvironmentHolds
  <2>5. \A f \in fds : f.of = p => f.sealed
    BY <1>2 DEF VaultInv, MemfdInv, Delivering
  <2>. QED  BY <2>1, <2>2, <2>3, <2>4, <2>5
<1>3. ASSUME NEW p \in Readers, NEW r, r = reader[p], r.pc = "done", r.result.status # "ok"
      PROVE  r.result.env = <<>> /\ \A f \in fds : f.of # p
  <2>1. r.result.env = <<>>  BY <1>3, InjectFails DEF VaultInv, ReaderInv, Holds
  <2>2. \A f \in fds : f.of # p  BY <1>3 DEF VaultInv, MemfdInv, Delivering
  <2>. QED  BY <2>1, <2>2
<1>. QED  BY <1>1, <1>2, <1>3 DEF DeliversOneStore

\* The invariant of the file, its savers and its readers holds in every reachable
\* state.
THEOREM VaultInvariant == VaultSpec => []VaultInv
<1>1. VaultInit => VaultInv  BY VaultInitInv
<1>2. VaultInv /\ [VaultNext]_vaultVars => VaultInv'  BY VaultNextInv
<1>. QED  BY <1>1, <1>2, PTL DEF VaultSpec

\* For any savers, readers, stores and requests: a call delivers the secrets of one
\* store that was saved whole or nothing, and only a sealed memfd (store.c:
\* load_file, decrypt_store, inject_memfd_for_app).
THEOREM DeliversOneStoreCorrect == VaultSpec => []DeliversOneStore
<1>1. VaultInv => DeliversOneStore  BY DeliveryFollows
<1>. QED  BY <1>1, VaultInvariant, PTL
=============================================================================
