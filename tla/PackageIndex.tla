---------------------------- MODULE PackageIndex ----------------------------
(* The signed index of a release directory: built and replaced by              *)
(* `armake index' (src/src/libraries/package/index_writer.c), read and compared *)
(* with a directory by delta installs (src/src/libraries/package/index.c and    *)
(* load_verified_index of src/src/commands/alrios/arpm.c).                     *)
(*                                                                             *)
(* Builders and a verifier are processes without a lock between them; somebody *)
(* else may rewrite, add or remove files at any step.  A file has a kind, a    *)
(* mode and contents, read in two chunks; a name is a number, in the order of  *)
(* strcmp.  Directories below the root are part of the paths.                  *)
EXTENDS Integers, Sequences, SequencesExt

CONSTANTS
    Paths,      \* the names of the release's files
    Mutable,    \* those whose extension says they change (.db, .log, ...)
    IndexName,  \* .arapp.index, when the index lies in the directory it describes
    Temps,      \* the names mkstemp may give beside the index
    Files,      \* what a file may be: [kind, mode, data]
    FirstFile,  \* what every path but the mutable ones holds at first
    Builders,
    KeyFiles,   \* the key files at hand: [form, key]
    MaxBuilds, MaxWrites

FileContents == [kind : {"file", "link", "special"}, mode : Nat, data : Seq(Nat)]

ASSUME IndexAssumption ==
    /\ Paths \cup Temps \cup {IndexName} \subseteq Int
    /\ Paths \cap Temps = {} /\ IndexName \notin Paths \cup Temps
    /\ Files \cup {FirstFile} \subseteq FileContents
    /\ MaxBuilds \in Nat /\ MaxWrites \in Nat

VARIABLES
    dir,       \* name -> {} or {file}
    index,     \* {} or {the complete index under its name}
    builder,   \* per builder: place, names visited, file at hand, entries
    verifier,  \* place, index at hand, entries still to compare, answer
    builds, writes

indexVars == <<dir, index, builder, verifier, builds, writes>>

Names == Paths \cup {IndexName} \cup Temps

NoBuild == [pc |-> "idle", key |-> 0, start |-> {}, visited |-> {}, path |-> 0,
            seen |-> {}, half |-> <<>>, entries |-> <<>>, temp |-> 0, calm |-> TRUE]

NoVerify == [pc |-> "idle", key |-> 0, wire |-> {}, left |-> <<>>, half |-> <<>>,
             answer |-> "none", calm |-> TRUE]

IndexInit ==
    /\ dir = [n \in Names |-> IF n \in Paths \ Mutable THEN {FirstFile} ELSE {}]
    /\ index = {}
    /\ builder = [b \in Builders |-> NoBuild]
    /\ verifier = NoVerify
    /\ builds = 0 /\ writes = 0

----------------------------------------------------------------------------
\* alrios_package_index_load_private_key_file: 32 raw bytes, 64 hexadecimal
\* digits, 64 raw bytes of which the first half counts, or PEM.
PrivateKey(f) == IF f.form \in {"raw32", "hex64", "raw64", "pem"} THEN {f.key} ELSE {}

\* alrios_package_index_load_public_key_file: 64 raw bytes are none of its forms.
PublicKey(f) == IF f.form \in {"raw32", "hex64", "pem"} THEN {f.key} ELSE {}

\* alrios_package_index_path_is_mutable
PathIsMutable(path) == path \in Mutable

Present(d) == {n \in Names : d[n] # {}}

\* The names readdir may return that are looked at: never the index itself.
Scanned == Present(dir) \ {IndexName}

\* The files changed under the builds and the check that are under way, and
\* under the index that is installed.
Disturbed(bs) == [b \in Builders |-> [bs[b] EXCEPT !.calm = FALSE]]
NotCalm(set) == {[x EXCEPT !.calm = FALSE] : x \in set}

Set(b, record) == builder' = [builder EXCEPT ![b] = record]

\* cmd_index reads its key; the scan opens the root.  Another build that is
\* under way disturbs this one and is disturbed by it.
BuildStarts(b) ==
    /\ builder[b].pc = "idle"
    /\ builds < MaxBuilds
    /\ builds' = builds + 1
    /\ \E f \in KeyFiles : \E key \in PrivateKey(f) :
           LET alone == \A c \in Builders : builder[c].pc = "idle"
               begun == [NoBuild EXCEPT !.pc = "scan", !.key = key,
                                        !.start = Scanned, !.calm = alone]
           IN  builder' = [(IF alone THEN builder ELSE Disturbed(builder))
                             EXCEPT ![b] = begun]
    /\ UNCHANGED <<dir, index, verifier, writes>>

Fails(b) ==
    /\ Set(b, NoBuild)
    /\ UNCHANGED <<dir, index, verifier, builds, writes>>

\* readdir and fstatat: a name not seen yet, in any order; a link or a special
\* file ends the build, and so does a file that is gone.
BuildStats(b) ==
    /\ builder[b].pc = "scan"
    /\ \E n \in (Scanned \cup builder[b].start) \ builder[b].visited :
           \/ /\ \E f \in dir[n] :
                     /\ f.kind = "file"
                     /\ Set(b, [builder[b] EXCEPT !.pc = "open", !.path = n, !.seen = {f}])
              /\ UNCHANGED <<dir, index, verifier, builds, writes>>
           \/ dir[n] = {} /\ Fails(b)
           \/ (\E f \in dir[n] : f.kind # "file") /\ Fails(b)

\* What the first read returns of a file; nothing is the end of it.
FirstChunk(now) == IF now.data = <<>> THEN <<>> ELSE <<Head(now.data)>>

\* openat and fstat, compared with what fstatat saw; append_entry refuses a
\* mutable path and then reads the first chunk.
BuildOpens(b) ==
    /\ builder[b].pc = "open"
    /\ \E before \in builder[b].seen :
           IF \E now \in dir[builder[b].path] :
                  now.kind = "file" /\ Len(now.data) = Len(before.data)
           THEN \E now \in dir[builder[b].path] :
                    IF PathIsMutable(builder[b].path) THEN Fails(b)
                    ELSE /\ Set(b, [builder[b] EXCEPT !.pc = "read", !.seen = {now},
                                                      !.half = FirstChunk(now)])
                         /\ UNCHANGED <<dir, index, verifier, builds, writes>>
           ELSE Fails(b)

\* sha256_fd: the rest of the file as it is by now; its size must be the one
\* that fstat told.  The digest is the digest of the chunks that were read.
Chunks(half, now) ==
    IF half = <<>> THEN <<>> ELSE half \o SubSeq(now.data, 2, Len(now.data))

\* The builder holds the file open, so a removal does not stop it: it then reads
\* on what it opened.
BuildReads(b) ==
    /\ builder[b].pc = "read"
    /\ \E opened \in builder[b].seen :
           LET now == IF dir[builder[b].path] = {} THEN opened
                      ELSE CHOOSE f \in dir[builder[b].path] : TRUE
               read == Chunks(builder[b].half, now)
               entry == [path |-> builder[b].path, size |-> Len(opened.data),
                         mode |-> opened.mode, digest |-> read]
           IN  IF now.kind = "file" /\ Len(read) = Len(opened.data)
               THEN /\ Set(b, [builder[b] EXCEPT
                             !.pc = "scan", !.visited = @ \cup {builder[b].path},
                             !.entries = Append(@, entry)])
                    /\ UNCHANGED <<dir, index, verifier, builds, writes>>
               ELSE Fails(b)

\* Mutant: the entries stay in the order of readdir.
MutKeepsOrder(entries) == {entries}

\* qsort with compare_entries: the same entries, in the order of their paths.
Sorted(entries) ==
    {[i \in DOMAIN entries |-> entries[from[i]]] :
        from \in {f \in Bijection(DOMAIN entries, DOMAIN entries) :
                     \A i, j \in DOMAIN entries :
                         i < j => entries[f[i]].path <= entries[f[j]].path}}

Total(entries) == FoldLeft(LAMBDA sum, e : sum + e.size, 0, entries)

\* The rest of build_directory: header, entries, digest of the entries and the
\* signature over all of it.
Wire(list, key) ==
    [entries |-> list, total |-> Total(list), signature |-> <<key, list, Total(list)>>]

\* write_directory: the scan is over when every name that was there all the time
\* was visited; mkstemp creates the file beside the index, ...
BuildCreates(b) ==
    /\ builder[b].pc = "scan"
    /\ (builder[b].start \cap Scanned) \subseteq builder[b].visited
    /\ \/ Fails(b)
       \/ /\ \E n \in Temps :
                 /\ dir[n] = {}
                 /\ dir' = [dir EXCEPT ![n] =
                               {[kind |-> "file", mode |-> 0, data |-> <<0, builds>>]}]
                 /\ Set(b, [builder[b] EXCEPT !.pc = "rename", !.temp = n])
          /\ UNCHANGED <<index, verifier, builds, writes>>

\* ... which is written, synced and renamed over the index, or removed again.
BuildEnds(b) ==
    /\ builder[b].pc = "rename"
    /\ Set(b, NoBuild)
    /\ \/ /\ dir' = [dir EXCEPT ![IndexName] = dir[builder[b].temp], ![builder[b].temp] = {}]
          /\ \E list \in Sorted(builder[b].entries) :
                 index' = {[wire |-> Wire(list, builder[b].key), calm |-> builder[b].calm]}
       \/ /\ dir' = [dir EXCEPT ![builder[b].temp] = {}]
          /\ UNCHANGED index
    /\ UNCHANGED <<verifier, builds, writes>>

\* The builder is killed; what mkstemp made stays.
BuilderDies(b) ==
    /\ builder[b].pc # "idle"
    /\ Fails(b)

----------------------------------------------------------------------------
\* load_verified_index: the file is read through one descriptor, so one whole
\* index, ...
VerifyStarts ==
    /\ verifier.pc = "idle"
    /\ \E f \in KeyFiles : \E key \in PublicKey(f) : \E i \in index :
           verifier' = [NoVerify EXCEPT !.pc = "parse", !.key = key,
                                        !.wire = {i.wire}, !.calm = i.calm]
    /\ UNCHANGED <<dir, index, builder, builds, writes>>

\* ... and alrios_package_index_parse_and_verify: signature, no mutable path,
\* strictly ascending paths, the total.
ParseAccepts(wire, key) ==
    /\ wire.signature = <<key, wire.entries, wire.total>>
    /\ \A i \in 1..Len(wire.entries) :
           /\ ~PathIsMutable(wire.entries[i].path)
           /\ i > 1 => wire.entries[i - 1].path < wire.entries[i].path
    /\ wire.total = Total(wire.entries)

Answers(answer) == verifier' = [verifier EXCEPT !.pc = "done", !.answer = answer]

VerifyParses ==
    /\ verifier.pc = "parse"
    /\ \E wire \in verifier.wire :
           IF ParseAccepts(wire, verifier.key)
           THEN verifier' = [verifier EXCEPT !.pc = "open", !.left = wire.entries]
           ELSE Answers("refused")
    /\ UNCHANGED <<dir, index, builder, builds, writes>>

\* alrios_package_index_verify_directory, one entry: opened without following
\* links, kind, size and mode compared, the first chunk read, ...
VerifyOpens ==
    /\ verifier.pc = "open"
    /\ IF verifier.left = <<>> THEN Answers("ok")
       ELSE LET e == Head(verifier.left)
            IN  IF \E f \in dir[e.path] : /\ f.kind = "file" /\ f.mode = e.mode
                                          /\ Len(f.data) = e.size
                THEN \E f \in dir[e.path] :
                         verifier' = [verifier EXCEPT !.pc = "hash", !.half = FirstChunk(f)]
                ELSE Answers("changed")
    /\ UNCHANGED <<dir, index, builder, builds, writes>>

\* ... then the rest, and the digests compared.
VerifyHashes ==
    /\ verifier.pc = "hash"
    /\ LET e == Head(verifier.left)
       IN  IF \E f \in dir[e.path] : f.kind = "file" /\ Chunks(verifier.half, f) = e.digest
           THEN verifier' = [verifier EXCEPT !.pc = "open", !.left = Tail(@)]
           ELSE Answers("changed")
    /\ UNCHANGED <<dir, index, builder, builds, writes>>

VerifyReturns ==
    /\ verifier.pc = "done"
    /\ verifier' = NoVerify
    /\ UNCHANGED <<dir, index, builder, builds, writes>>

\* Somebody rewrites, adds or removes a file of the release.
Changes ==
    /\ writes < MaxWrites
    /\ writes' = writes + 1
    /\ \E n \in Paths, new \in {{f} : f \in Files} \cup {{}} :
           dir[n] # new /\ dir' = [dir EXCEPT ![n] = new]
    /\ builder' = Disturbed(builder)
    /\ verifier' = [verifier EXCEPT !.calm = FALSE]
    /\ index' = NotCalm(index)
    /\ UNCHANGED builds

BuildStep(b) ==
    \/ BuildStarts(b) \/ BuildStats(b) \/ BuildOpens(b) \/ BuildReads(b)
    \/ BuildCreates(b) \/ BuildEnds(b) \/ BuilderDies(b)

VerifyStep == VerifyStarts \/ VerifyParses \/ VerifyOpens \/ VerifyHashes \/ VerifyReturns

IndexNext == (\E b \in Builders : BuildStep(b)) \/ VerifyStep \/ Changes

IndexSpec == IndexInit /\ [][IndexNext]_indexVars

----------------------------------------------------------------------------
\* The shape of the state.
IndexTypeOK ==
    /\ \A n \in Names : dir[n] \subseteq FileContents /\ \A f, g \in dir[n] : f = g
    /\ \A i, j \in index : i = j
    /\ \A b \in Builders : builder[b].pc \in {"idle", "scan", "open", "read", "rename"}
    /\ verifier.pc \in {"idle", "parse", "open", "hash", "done"}
    /\ builds \in 0..MaxBuilds /\ writes \in 0..MaxWrites

\* What the writer wrote the reader takes, and it takes nothing else: an index
\* whose directory nobody touched since its build began, with no other build
\* beside it, passes the parser and the comparison under its own key, also after
\* crashed and repeated builds have left files behind; and an accepted index was
\* signed with the verifier's key and, if nothing changed meanwhile, names the
\* files as they are (index_writer.c:571, index.c:325 and index.c:466).
FreshIndexVerifies ==
    \A wire \in verifier.wire :
        /\ verifier.calm /\ wire.signature[1] = verifier.key =>
               verifier.answer \in {"none", "ok"}
        /\ verifier.answer = "ok" =>
               /\ wire.signature[1] = verifier.key
               /\ verifier.calm =>
                      /\ \A e \in Range(wire.entries) : \E f \in dir[e.path] :
                             f.data = e.digest /\ f.mode = e.mode
                      /\ Present(dir) \cap Paths
                             \subseteq {e.path : e \in Range(wire.entries)}
=============================================================================
