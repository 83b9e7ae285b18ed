------------------------------ MODULE Layering ------------------------------
(***************************************************************************)
(* Installing a release over an installed one: the files that did not      *)
(* change are hard linked or cloned from it, the others copied from the    *)
(* payload, into a staging directory that is verified, made read-only and  *)
(* renamed to the target (libraries/deploy/layering.c).                    *)
(*                                                                         *)
(* A file is an inode with data and a mode; hard links share the inode.    *)
(* The data of a file stands for its size and SHA-256.  Any process may    *)
(* write a file that is writable, the payload included, at any moment.     *)
(***************************************************************************)
EXTENDS Naturals, FiniteSets, Functions

CONSTANTS Installers,  \* processes that install
          Existing,    \* the index of the installed release: path -> [data, exec]
          Target,      \* the index each installer was given
          PayloadData, \* what the payload holds at first: path -> data
          Data,        \* what a file may hold
          LooseModes,  \* the installed paths whose file is writable
          Inodes,      \* bound: a set of numbers
          MaxWrites    \* bound: writes of other processes

VARIABLES inode,       \* inode -> [data, mode]; mode "free" while unused
          existing,    \* the installed release: path -> inode
          payload,     \* path -> data
          target,      \* the target directory: path -> inode
          present,     \* whether it exists, and who renamed it there
          at, staging, \* per installer: its place and its staging directory
          linkable, writes

layerVars == <<inode, existing, payload, target, present, at, staging, linkable, writes>>

NoDir == <<>>
Nobody == "nobody"

Entry == [data : Data, exec : BOOLEAN]

ASSUME LayerAssumption ==
  /\ Nobody \notin Installers
  /\ \A p \in DOMAIN Existing : Existing[p] \in Entry
  /\ \A k \in Installers : /\ DOMAIN Target[k] \subseteq Nat
                           /\ \A p \in DOMAIN Target[k] : Target[k][p] \in Entry
  /\ \E f \in [DOMAIN Existing -> Inodes] : IsInjective(f)

\* readonly_mode
ReadOnly(entry) == IF entry.exec THEN "r-x" ELSE "r--"

\* find_entry: the entry of the same path, if the content is the same.
FindEntry(index, path, entry) == path \in DOMAIN index /\ index[path].data = entry.data

Verified(i, entry) == inode[i].data = entry.data

(***************************************************************************)
(* alrios_layering_install                                                 *)
(***************************************************************************)
\* The installed release is there; no other inode is in use.
LayerInit ==
  /\ existing = CHOOSE f \in [DOMAIN Existing -> Inodes] : IsInjective(f)
  /\ inode = [i \in Inodes |->
       IF i \in Range(existing)
       THEN LET p == CHOOSE q \in DOMAIN existing : existing[q] = i
            IN  [data |-> Existing[p].data,
                 mode |-> IF p \in LooseModes THEN "rw-" ELSE ReadOnly(Existing[p])]
       ELSE [data |-> 0, mode |-> "free"]]
  /\ payload = PayloadData
  /\ target = NoDir /\ present = Nobody
  /\ at = [k \in Installers |-> "idle"]
  /\ staging = [k \in Installers |-> NoDir]
  /\ linkable = [k \in Installers |-> FALSE]
  /\ writes = 0

Goto(k, place) == at' = [at EXCEPT ![k] = place]

\* The paths of the target that are not staged yet, the next one first.
Remaining(k) == DOMAIN Target[k] \ DOMAIN staging[k]
NextPath(k) == CHOOSE p \in Remaining(k) : \A q \in Remaining(k) : p <= q

Begin(k) == /\ at[k] = "idle" /\ present = Nobody
            /\ Goto(k, "files")
            /\ UNCHANGED <<inode, existing, payload, target, present, staging, linkable, writes>>

\* The target exists: ERR_EXISTS.
Refused(k) == /\ at[k] = "idle" /\ present /= Nobody
              /\ Goto(k, "exists")
              /\ UNCHANGED <<inode, existing, payload, target, present, staging, linkable, writes>>

FromExisting(k, p) == FindEntry(Existing, p, Target[k][p])

\* Mutant: a file is linked whatever its mode.
MutLinksAnyMode(k, p) == FromExisting(k, p)

\* The index asks for the mode the installed file has, and the file has it.
MayLink(k, p) == /\ FromExisting(k, p)
                 /\ ReadOnly(Existing[p]) = ReadOnly(Target[k][p])
                 /\ inode[existing[p]].mode = ReadOnly(Target[k][p])

\* transfer_file: the source is verified, and whether it may be linked is
\* decided, ...
VerifySource(k) ==
  LET p == NextPath(k)
      data == IF FromExisting(k, p) THEN inode[existing[p]].data ELSE payload[p]
  IN  /\ at[k] = "files" /\ Remaining(k) /= {}
      /\ IF data = Target[k][p].data THEN Goto(k, "transfer") ELSE Goto(k, "rollback")
      /\ linkable' = [linkable EXCEPT ![k] = MayLink(k, p)]
      /\ UNCHANGED <<inode, existing, payload, target, present, staging, writes>>

Staged(k, p, i) == staging' = [staging EXCEPT ![k] = [q \in DOMAIN @ \union {p} |->
                                                        IF q = p THEN i ELSE @[q]]]

\* ... then it is linked and verified again, ...
Link(k) ==
  LET p == NextPath(k)
  IN  /\ at[k] = "transfer" /\ linkable[k]
      /\ IF Verified(existing[p], Target[k][p])
         THEN Staged(k, p, existing[p]) /\ Goto(k, "files")
         ELSE UNCHANGED staging /\ Goto(k, "rollback")
      /\ UNCHANGED <<inode, existing, payload, target, present, linkable, writes>>

CopyVerified(k, p, data) == data = Target[k][p].data

\* ... or, if it may not or cannot be, cloned or copied into a new file,
\* which is verified and removed again if it differs.
Copy(k) ==
  LET p == NextPath(k)
      data == IF FromExisting(k, p) THEN inode[existing[p]].data ELSE payload[p]
  IN  /\ at[k] = "transfer"
      /\ \E i \in Inodes :
           /\ inode[i].mode = "free" /\ \A j \in Inodes : inode[j].mode = "free" => i <= j
           /\ IF CopyVerified(k, p, data)
              THEN /\ inode' = [inode EXCEPT ![i] = [data |-> data, mode |-> "own"]]
                   /\ Staged(k, p, i) /\ Goto(k, "files")
              ELSE UNCHANGED <<inode, staging>> /\ Goto(k, "rollback")
      /\ UNCHANGED <<existing, payload, target, present, linkable, writes>>

VerifyAll(k) ==
  /\ at[k] = "files" /\ Remaining(k) = {}
  /\ IF \A p \in DOMAIN Target[k] : Verified(staging[k][p], Target[k][p])
     THEN Goto(k, "modes") ELSE Goto(k, "rollback")
  /\ UNCHANGED <<inode, existing, payload, target, present, staging, linkable, writes>>

\* Mutant: the files keep the modes they were created or linked with.
MutNoModes(k) ==
  /\ at[k] = "modes"
  /\ Goto(k, "rename")
  /\ UNCHANGED <<inode, existing, payload, target, present, staging, linkable, writes>>

\* enforce_file_permissions changes the inodes, shared or not; then the
\* directories.
Enforce(k) ==
  /\ at[k] = "modes"
  /\ inode' = [i \in Inodes |->
       IF i \in Range(staging[k])
       THEN [inode[i] EXCEPT !.mode = ReadOnly(Target[k][CHOOSE p \in DOMAIN staging[k] :
                                                           staging[k][p] = i])]
       ELSE inode[i]]
  /\ Goto(k, "rename")
  /\ UNCHANGED <<existing, payload, target, present, staging, linkable, writes>>

TargetFree == present = Nobody

Rename(k) ==
  /\ at[k] = "rename"
  /\ IF TargetFree
     THEN /\ target' = staging[k] /\ present' = k
          /\ staging' = [staging EXCEPT ![k] = NoDir]
          /\ \E r \in {"ok", "not_synced"} : Goto(k, r)
     ELSE UNCHANGED <<target, present, staging>> /\ Goto(k, "rollback")
  /\ UNCHANGED <<inode, existing, payload, linkable, writes>>

\* mkdtemp, mkdirat, fsync, fchmod or rename fails.
Fails(k) == /\ at[k] \in {"files", "transfer", "modes", "rename"}
            /\ Goto(k, "rollback")
            /\ UNCHANGED <<inode, existing, payload, target, present, staging, linkable, writes>>

\* cleanup_staging: the names go, and with the last name the file.
Named(i, k) == \/ i \in Range(existing) \/ i \in Range(target)
               \/ \E j \in Installers \ {k} : i \in Range(staging[j])
Rollback(k) ==
  /\ at[k] = "rollback"
  /\ staging' = [staging EXCEPT ![k] = NoDir]
  /\ inode' = [i \in Inodes |-> IF i \in Range(staging[k]) /\ ~ Named(i, k)
                                THEN [data |-> 0, mode |-> "free"] ELSE inode[i]]
  /\ Goto(k, "failed")
  /\ UNCHANGED <<existing, payload, target, present, linkable, writes>>

\* The process ends anywhere; its staging directory stays.
Killed(k) == /\ at[k] \in {"files", "transfer", "modes", "rename", "rollback"}
             /\ Goto(k, "dead")
             /\ UNCHANGED <<inode, existing, payload, target, present, staging, linkable, writes>>

\* Another process writes the payload or an installed file that it may write.
Scribble == /\ writes < MaxWrites
            /\ writes' = writes + 1
            /\ \/ \E p \in DOMAIN payload, d \in Data :
                    payload' = [payload EXCEPT ![p] = d] /\ UNCHANGED inode
               \/ \E i \in Range(existing), d \in Data :
                    /\ inode[i].mode = "rw-"
                    /\ inode' = [inode EXCEPT ![i].data = d]
                    /\ UNCHANGED payload
            /\ UNCHANGED <<existing, target, present, at, staging, linkable>>

LayerNext == \/ \E k \in Installers : \/ Begin(k) \/ Refused(k) \/ VerifySource(k) \/ Link(k)
                                      \/ Copy(k) \/ VerifyAll(k) \/ Enforce(k) \/ Rename(k)
                                      \/ Fails(k) \/ Rollback(k) \/ Killed(k)
             \/ Scribble

LayerSpec == LayerInit /\ [][LayerNext]_layerVars

(***************************************************************************)
(* Properties                                                              *)
(***************************************************************************)
LayerTypeOK ==
  /\ inode \in [Inodes -> [data : Data \union {0}, mode : {"free", "own", "rw-", "r--", "r-x"}]]
  /\ present \in Installers \union {Nobody}
  /\ \A k \in Installers : Range(staging[k]) \subseteq Inodes

\* The target directory, once it has its name, is the release of one
\* installer: all its files and no other, each with the content of the index
\* and read-only, whoever scribbled on the sources, whoever else installed
\* to the same place and wherever an installer was killed.
TargetIsRelease ==
  /\ LayerTypeOK
  /\ present /= Nobody =>
       /\ DOMAIN target = DOMAIN Target[present]
       /\ \A p \in DOMAIN target : /\ inode[target[p]].data = Target[present][p].data
                                   /\ inode[target[p]].mode = ReadOnly(Target[present][p])

\* Nothing an installer does changes the release it takes files from: its
\* files keep their mode, and a read-only file its content (hard links share
\* the inode that enforce_file_permissions and the rollback work on).  Nor
\* does an installer replace a target that another one put there first.
KeepsExisting ==
  /\ \A i \in Range(existing) : /\ inode'[i].mode = inode[i].mode
                                /\ inode[i].mode /= "rw-" => inode'[i] = inode[i]
  /\ present /= Nobody => present' = present /\ target' = target
ExistingUntouched == [][KeepsExisting]_layerVars
=============================================================================
