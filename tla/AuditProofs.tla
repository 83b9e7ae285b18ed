---------------------------- MODULE AuditProofs ----------------------------
(***************************************************************************)
(* Proofs about the audit log, for any number of writers, any length of    *)
(* the log, any number of failing system calls, kills and power failures,  *)
(* and with ar_auditd running beside it.                                   *)
(***************************************************************************)
EXTENDS AuditDaemon, SequenceTheorems, TLAPS

Hashes == Seq((1..MaxSeq) \X Writers)
Block == [seq : 1..MaxSeq, prev : Hashes, payload : Writers]
Scans == [count : 0..MaxSeq, last : 0..MaxSeq, hash : Hashes]
Places == {"idle", "scan", "cut", "cutsync", "write", "writing", "sync", "undo",
           "undosync", "unlock"}
Calls == {"none", "append", "recover"}
Codes == {"none", "ok", "io", "invalid", "refused"}

\* The locals of the calls keep their types.
LocalsOK == /\ lock \in Writers \cup {NoOne}
            /\ at \in [Writers -> Places]
            /\ op \in [Writers -> Calls]
            /\ status \in [Writers -> Codes]
            /\ chain \in [Writers -> Scans]

\* A content that extends what was promised and is a valid chain.
Good(f) == /\ f.blocks \in Seq(Block)
           /\ ChainValid(f.blocks)
           /\ IsPrefix(committed, f.blocks)

FilesGood == /\ committed \in Seq(Block)
             /\ file \in ondisk
             /\ \A f \in ondisk : Good(f)

\* What a process relies on between its scan and its return: it alone is in
\* a call, the scan is current until it writes, the rollback cuts nothing
\* that was promised, and what it is about to promise is durable.
CallInv(w) ==
  /\ at[w] # "idle" => lock = w
  /\ at[w] \in {"write", "writing"} => /\ chain[w] = ScanResult(file.blocks)
                                       /\ Len(file.blocks) < MaxSeq
  /\ at[w] = "sync" => /\ Len(file.blocks) = chain[w].count + 1
                       /\ Len(committed) <= chain[w].count
  /\ at[w] = "undo" => /\ chain[w].count <= Len(file.blocks)
                       /\ Len(committed) <= chain[w].count
  /\ at[w] \in {"undo", "undosync"} => status[w] # "ok"
  /\ (at[w] = "unlock" /\ op[w] = "append" /\ status[w] = "ok")
        => ondisk = {file} /\ Len(file.blocks) = chain[w].count + 1

ChainInv == LocalsOK /\ FilesGood /\ \A w \in Writers : CallInv(w)

-----------------------------------------------------------------------------
(* Sequences. *)

\* IsPrefix, element by element.
LEMMA PrefixIs ==
  ASSUME NEW S, NEW s \in Seq(S), NEW t \in Seq(S)
  PROVE  IsPrefix(s, t) <=> /\ Len(s) <= Len(t)
                            /\ \A i \in 1..Len(s) : s[i] = t[i]
<1>1. SubSeq(s, 1, Len(s)) = s
  BY SubSeqFull
<1>2. ASSUME Len(s) <= Len(t)
      PROVE  /\ SubSeq(t, 1, Len(s)) \in Seq(S)
             /\ Len(SubSeq(t, 1, Len(s))) = Len(s)
             /\ \A i \in 1..Len(s) : SubSeq(t, 1, Len(s))[i] = t[i]
  <2>1. Len(s) \in Nat /\ Len(t) \in Nat /\ \A i \in 1..Len(s) : t[i] \in S
    BY <1>2, LenProperties, ElementOfSeq
  <2> QED
    BY <2>1, SubSeqProperties
<1>3. ASSUME Len(s) <= Len(t), \A i \in 1..Len(s) : s[i] = t[i]
      PROVE  s = SubSeq(t, 1, Len(s))
  BY <1>2, <1>3, SeqEqual
<1> QED
  BY <1>1, <1>2, <1>3 DEF IsPrefix

\* The first n elements.
LEMMA Take ==
  ASSUME NEW S, NEW s \in Seq(S), NEW n \in 0..Len(s)
  PROVE  /\ SubSeq(s, 1, n) \in Seq(S)
         /\ Len(SubSeq(s, 1, n)) = n
         /\ \A i \in 1..n : SubSeq(s, 1, n)[i] = s[i]
<1>1. Len(s) \in Nat /\ \A i \in 1..n : s[i] \in S
  BY LenProperties, ElementOfSeq
<1> QED
  BY <1>1, SubSeqProperties

\* The first elements of two sequences that agree on them.
LEMMA SameTake ==
  ASSUME NEW S, NEW s \in Seq(S), NEW t \in Seq(S),
         NEW n \in Nat, n <= Len(s), n <= Len(t), \A i \in 1..n : s[i] = t[i]
  PROVE  SubSeq(s, 1, n) = SubSeq(t, 1, n)
<1>1. n \in 0..Len(s) /\ n \in 0..Len(t)
  BY LenProperties
<1> QED
  BY <1>1, Take, SeqEqual

-----------------------------------------------------------------------------
(* Chains. *)

\* Cutting a valid chain leaves a valid chain, and keeps a promised prefix
\* that is not longer than what is left.
LEMMA CutValid ==
  ASSUME NEW s \in Seq(Block), ChainValid(s), NEW n \in 0..Len(s)
  PROVE  /\ SubSeq(s, 1, n) \in Seq(Block)
         /\ ChainValid(SubSeq(s, 1, n))
<1> DEFINE c == SubSeq(s, 1, n)
<1>1. /\ c \in Seq(Block) /\ Len(c) = n
      /\ \A i \in 1..n : c[i] = s[i]
  BY Take
<1>2. ASSUME NEW i \in 1..n
      PROVE  SubSeq(c, 1, i - 1) = SubSeq(s, 1, i - 1)
  <2>1. i - 1 \in Nat /\ i - 1 <= Len(c) /\ i - 1 <= Len(s)
    BY <1>1, LenProperties
  <2>2. \A j \in 1..(i - 1) : c[j] = s[j]
    BY <1>1
  <2> QED
    BY <1>1, <2>1, <2>2, SameTake
<1>3. Len(s) \in Nat /\ n \in Nat /\ n <= Len(s)
  BY LenProperties
<1>4. Len(c) <= MaxSeq
  BY <1>1, <1>3, AuditAssumption DEF ChainValid
<1>5. ASSUME NEW i \in 1..Len(c)
      PROVE  c[i].seq = i /\ c[i].prev = LastHash(SubSeq(c, 1, i - 1))
  <2>1. i \in 1..n /\ i \in 1..Len(s)
    BY <1>1, <1>3
  <2>2. s[i].seq = i /\ s[i].prev = LastHash(SubSeq(s, 1, i - 1))
    BY <2>1 DEF ChainValid
  <2>3. c[i] = s[i] /\ SubSeq(c, 1, i - 1) = SubSeq(s, 1, i - 1)
    BY <1>1, <1>2, <2>1
  <2> QED
    BY <2>2, <2>3
<1>6. ChainValid(c)
  BY <1>4, <1>5 DEF ChainValid
<1> QED
  BY <1>1, <1>6

\* A chain that is a prefix of a file is one of the file cut at or past its end.
LEMMA CutPrefix ==
  ASSUME NEW s \in Seq(Block), NEW t \in Seq(Block), IsPrefix(s, t),
         NEW n \in 0..Len(t), Len(s) <= n
  PROVE  IsPrefix(s, SubSeq(t, 1, n))
<1>1. Len(s) \in Nat /\ Len(t) \in Nat
  BY LenProperties
<1>2. \A i \in 1..Len(s) : s[i] = t[i]
  BY PrefixIs
<1>3. /\ SubSeq(t, 1, n) \in Seq(Block) /\ Len(SubSeq(t, 1, n)) = n
      /\ \A i \in 1..n : SubSeq(t, 1, n)[i] = t[i]
  BY Take
<1>4. \A i \in 1..Len(s) : s[i] = SubSeq(t, 1, n)[i]
  BY <1>1, <1>2, <1>3
<1> QED
  BY <1>3, <1>4, PrefixIs

\* The hash of a chain, and of the record that goes on with it.
LEMMA HashType ==
  ASSUME NEW s \in Seq(Block)
  PROVE  LastHash(s) \in Hashes
<1>1. CASE s = <<>>
  BY <1>1 DEF LastHash, ZeroHash, Hashes
<1>2. CASE s # <<>>
  <2>1. Len(s) \in 1..Len(s)
    BY <1>2, EmptySeq, LenProperties
  <2>2. s[Len(s)] \in Block
    BY <2>1, ElementOfSeq
  <2>3. LastHash(s) = Append(s[Len(s)].prev, <<s[Len(s)].seq, s[Len(s)].payload>>)
    BY <1>2 DEF LastHash, HashOf, Last
  <2> QED
    BY <2>2, <2>3, AppendProperties DEF Block, Hashes
<1> QED
  BY <1>1, <1>2

\* A scan of a valid chain: the last number is the number of records.
LEMMA ScanIs ==
  ASSUME NEW s \in Seq(Block), ChainValid(s)
  PROVE  /\ ScanResult(s) \in Scans
         /\ ScanResult(s).count = Len(s)
         /\ ScanResult(s).last = Len(s)
         /\ ScanResult(s).hash = LastHash(s)
<1>1. Len(s) \in 0..MaxSeq
  BY LenProperties, AuditAssumption DEF ChainValid
<1>2. CASE s = <<>>
  BY <1>1, <1>2, HashType, EmptySeq DEF ScanResult, Scans
<1>3. CASE s # <<>>
  <2>1. Len(s) \in 1..Len(s)
    BY <1>3, EmptySeq, LenProperties
  <2>2. s[Len(s)].seq = Len(s)
    BY <2>1 DEF ChainValid
  <2> QED
    BY <1>1, <1>3, <2>2, HashType DEF ScanResult, Scans, Last
<1> QED
  BY <1>2, <1>3

\* Appending the record that was made for the scanned chain.
LEMMA AppendValid ==
  ASSUME NEW s \in Seq(Block), ChainValid(s), Len(s) < MaxSeq, NEW w \in Writers
  PROVE  LET b == BlockEncode(ScanResult(s), w)
         IN  /\ b \in Block
             /\ Append(s, b) \in Seq(Block)
             /\ ChainValid(Append(s, b))
<1> DEFINE b == BlockEncode(ScanResult(s), w)
           a == Append(s, b)
<1>1. Len(s) \in Nat /\ Len(s) <= MaxSeq
  BY LenProperties DEF ChainValid
<1>2. b.seq = Len(s) + 1 /\ b.prev = LastHash(s) /\ b \in Block
  <2>1. /\ ScanResult(s).count = Len(s) /\ ScanResult(s).last = Len(s)
        /\ ScanResult(s).hash = LastHash(s)
    BY ScanIs
  <2>2. b = [seq |-> Len(s) + 1, prev |-> LastHash(s), payload |-> w]
    BY <1>1, <2>1 DEF BlockEncode
  <2>3. Len(s) + 1 \in 1..MaxSeq /\ LastHash(s) \in Hashes
    BY <1>1, AuditAssumption, HashType
  <2> HIDE DEF b
  <2>4. b.seq = Len(s) + 1 /\ b.prev = LastHash(s)
    BY <2>2
  <2>5. b \in Block
    BY <2>2, <2>3 DEF Block
  <2> QED
    BY <2>4, <2>5
<1>3. /\ a \in Seq(Block) /\ Len(a) = Len(s) + 1
      /\ \A i \in 1..Len(s) : a[i] = s[i]
      /\ a[Len(s) + 1] = b
  BY <1>2, AppendProperties
<1>4. ASSUME NEW i \in 1..Len(a)
      PROVE  SubSeq(a, 1, i - 1) = SubSeq(s, 1, i - 1)
  <2>1. i - 1 \in Nat /\ i - 1 <= Len(a) /\ i - 1 <= Len(s)
    BY <1>1, <1>3
  <2>2. \A j \in 1..(i - 1) : a[j] = s[j]
    BY <1>1, <1>3, <2>1
  <2> QED
    BY <1>3, <2>1, <2>2, SameTake
<1>5. ASSUME NEW i \in 1..Len(a)
      PROVE  a[i].seq = i /\ a[i].prev = LastHash(SubSeq(a, 1, i - 1))
  <2>1. CASE i \in 1..Len(s)
    BY <1>3, <1>4, <2>1 DEF ChainValid
  <2>2. CASE i = Len(s) + 1
    <3>1. SubSeq(s, 1, i - 1) = s
      BY <1>1, <2>2, SubSeqFull
    <3> QED
      BY <1>2, <1>3, <1>4, <2>2, <3>1
  <2> QED
    BY <1>1, <1>3, <2>1, <2>2
<1>6. Len(a) <= MaxSeq
  BY <1>1, <1>3, AuditAssumption
<1> QED
  BY <1>2, <1>3, <1>5, <1>6 DEF ChainValid

\* Appending keeps a prefix, and a whole record behind all scanned records
\* is an append.
LEMMA AppendPrefix ==
  ASSUME NEW s \in Seq(Block), NEW t \in Seq(Block), IsPrefix(s, t), NEW b \in Block
  PROVE  IsPrefix(s, Append(t, b))
<1>1. Len(s) \in Nat /\ Len(t) \in Nat
  BY LenProperties
<1>2. Len(s) <= Len(t) /\ \A i \in 1..Len(s) : s[i] = t[i]
  BY PrefixIs
<1>3. /\ Append(t, b) \in Seq(Block) /\ Len(Append(t, b)) = Len(t) + 1
      /\ \A i \in 1..Len(t) : Append(t, b)[i] = t[i]
  BY AppendProperties
<1>4. /\ Len(s) <= Len(Append(t, b))
      /\ \A i \in 1..Len(s) : s[i] = Append(t, b)[i]
  BY <1>1, <1>2, <1>3
<1> QED
  BY <1>3, <1>4, PrefixIs

\* Writing a whole record at the end of the last complete one appends it.
LEMMA WriteAppends ==
  ASSUME file.blocks \in Seq(Block), NEW b \in Block
  PROVE  /\ WriteAt(Len(file.blocks), b) = WholeFile(Append(file.blocks, b))
         /\ WriteAt(Len(file.blocks), b).blocks = Append(file.blocks, b)
<1> DEFINE s == file.blocks
<1>1. Len(s) \in Nat
  BY LenProperties
<1>2. SubSeq(s, 1, Len(s)) = s
  BY SubSeqFull
<1>3. SubSeq(s, Len(s) + 2, Len(s)) = <<>>
  BY <1>1, SubSeqEmpty
<1>4. s \o <<b>> = Append(s, b)
  BY AppendIsConcat
<1>5. Append(s, b) \o <<>> = Append(s, b)
  BY AppendProperties, ConcatEmptySeq
<1>6. s \o <<b>> \o SubSeq(s, Len(s) + 2, Len(s)) = Append(s, b)
  BY <1>3, <1>4, <1>5
<1> QED
  BY <1>2, <1>6 DEF WriteAt, WholeFile

-----------------------------------------------------------------------------
(* What all steps of a process have in common. *)

\* All but the process that has the lock are outside of their calls.
LEMMA Others ==
  ASSUME ChainInv, NEW w \in Writers, LockFree(w), NEW x, at' = [at EXCEPT ![w] = x]
  PROVE  \A v \in Writers : v # w => CallInv(v)'
<1> SUFFICES ASSUME NEW v \in Writers, v # w
             PROVE  CallInv(v)'
  OBVIOUS
<1>1. at[v] = "idle"
  BY AuditAssumption DEF ChainInv, CallInv, LockFree
<1>2. at'[v] = "idle"
  BY <1>1 DEF ChainInv, LocalsOK
<1> QED
  BY <1>2 DEF CallInv

\* A writer inside a call holds the lock of the log, and nobody else does.
LEMMA InCall ==
  ASSUME ChainInv, NEW w \in Writers, at[w] # "idle"
  PROVE  lock = w /\ LockFree(w)
BY DEF ChainInv, CallInv, LockFree

\* The file is one of the good contents, and holds at least what was promised.
LEMMA FileGood ==
  ASSUME ChainInv
  PROVE  /\ Good(file) /\ file.blocks \in Seq(Block) /\ ChainValid(file.blocks)
         /\ Len(file.blocks) \in Nat /\ Len(committed) \in Nat
         /\ Len(committed) <= Len(file.blocks)
<1>1. Good(file) /\ committed \in Seq(Block)
  BY DEF ChainInv, FilesGood
<1>2. /\ file.blocks \in Seq(Block) /\ ChainValid(file.blocks)
      /\ IsPrefix(committed, file.blocks)
  BY <1>1 DEF Good
<1>3. Len(committed) <= Len(file.blocks)
  BY <1>1, <1>2, PrefixIs
<1> QED
  BY <1>1, <1>2, <1>3, LenProperties

\* The file stays, ...
LEMMA FilesStay ==
  ASSUME ChainInv, UNCHANGED <<file, ondisk, committed>>
  PROVE  FilesGood'
BY DEF ChainInv, FilesGood, Good

\* ... or is replaced by a good content, ...
LEMMA FilesModified ==
  ASSUME ChainInv, UNCHANGED committed, NEW f, Good(f), file' = f,
         ondisk' = ondisk \cup {f}
  PROVE  FilesGood'
BY DEF ChainInv, FilesGood, Good

\* ... or becomes the only content that is left.
LEMMA FilesSynced ==
  ASSUME ChainInv, UNCHANGED <<file, committed>>, SyncFd
  PROVE  FilesGood'
BY DEF ChainInv, FilesGood, Good, SyncFd

\* A cut that keeps what was promised.
LEMMA CutGood ==
  ASSUME ChainInv, NEW n \in 0..Len(file.blocks), Len(committed) <= n
  PROVE  /\ Good(TruncateTo(n)) /\ Len(TruncateTo(n).blocks) = n
         /\ Good(WritePartAt(n)) /\ Len(WritePartAt(n).blocks) = n
<1> DEFINE c == SubSeq(file.blocks, 1, n)
<1>1. /\ file.blocks \in Seq(Block) /\ ChainValid(file.blocks)
      /\ committed \in Seq(Block) /\ IsPrefix(committed, file.blocks)
  BY FileGood DEF ChainInv, FilesGood, Good
<1>2. c \in Seq(Block) /\ ChainValid(c) /\ Len(c) = n
  BY <1>1, CutValid, Take
<1>3. IsPrefix(committed, c)
  BY <1>1, CutPrefix
<1>4. TruncateTo(n).blocks = c /\ WritePartAt(n).blocks = c
  BY DEF TruncateTo, WritePartAt, WholeFile
<1> HIDE DEF c
<1> QED
  BY <1>2, <1>3, <1>4 DEF Good

\* An empty scan, as a call starts with and leaves behind.
LEMMA EmptyScan == EmptyChain \in Scans
<1>1. <<>> \in Seq(Block) /\ Len(<<>>) = 0
  BY EmptySeq
<1>2. ChainValid(<<>>)
  BY <1>1, AuditAssumption DEF ChainValid
<1> QED
  BY <1>1, <1>2, ScanIs DEF EmptyChain

\* A call that returns leaves its writer idle and its locals well formed.
LEMMA LeaveLocals ==
  ASSUME ChainInv, NEW w \in Writers, Leave(w), lock' \in Writers \cup {NoOne}
  PROVE  LocalsOK' /\ at'[w] = "idle" /\ CallInv(w)'
<1>1. LocalsOK'
  BY EmptyScan DEF ChainInv, LocalsOK, Leave, Go, Places, Calls, Codes
<1>2. at'[w] = "idle"
  BY DEF ChainInv, LocalsOK, Leave, Go
<1> QED
  BY <1>1, <1>2 DEF CallInv

-----------------------------------------------------------------------------
(* One lemma for each step. *)

\* lock_fd: the writer that takes the lock has no stale scan.
LEMMA LockStep ==
  ASSUME ChainInv, NEW w \in Writers, LockFd(w)
  PROVE  ChainInv'
<1>1. at' = [at EXCEPT ![w] = "scan"] /\ LockFree(w) /\ lock' = w
  BY DEF LockFd, Give, Go
<1>2. LocalsOK'
  BY <1>1 DEF ChainInv, LocalsOK, LockFd, Give, Go, Places, Calls, Codes
<1>3. CallInv(w)'
  BY <1>1 DEF ChainInv, LocalsOK, CallInv
<1>4. FilesGood'
  BY FilesStay DEF LockFd
<1> QED
  BY <1>1, <1>2, <1>3, <1>4, Others DEF ChainInv

\* The end of a successful scan, with or without a tail that was cut off.
LEMMA ScannedStep ==
  ASSUME ChainInv, NEW w \in Writers, at[w] # "idle", Scanned(w),
         UNCHANGED <<file, lock, op, committed>>, FilesGood'
  PROVE  ChainInv'
<1>1. lock = w /\ LockFree(w)
  BY InCall
<1>2. /\ ScanResult(file.blocks) \in Scans
      /\ ScanResult(file.blocks).last = Len(file.blocks)
  BY FileGood, ScanIs
<1>3. PICK x \in {"write", "unlock"}, c \in {"ok", "refused"} :
        /\ Give(w, x, c)
        /\ x = "write" => Len(file.blocks) < MaxSeq
        /\ x = "unlock" => op[w] # "append" \/ c # "ok"
  BY <1>2 DEF Scanned
<1>4. /\ at' = [at EXCEPT ![w] = x] /\ status' = [status EXCEPT ![w] = c]
      /\ chain' = [chain EXCEPT ![w] = ScanResult(file.blocks)]
  BY <1>3 DEF Give, Go, Scanned
<1>5. LocalsOK'
  BY <1>2, <1>4 DEF ChainInv, LocalsOK, Places, Codes
<1>6. CallInv(w)'
  <2>1. /\ at'[w] = x /\ status'[w] = c /\ op'[w] = op[w] /\ lock' = w /\ file' = file
        /\ chain'[w] = ScanResult(file.blocks)
    BY <1>1, <1>4 DEF ChainInv, LocalsOK
  <2> QED
    BY <1>3, <2>1 DEF CallInv
<1> QED
  BY <1>1, <1>4, <1>5, <1>6, Others DEF ChainInv

\* A process that goes on, or gives up, without having changed the file.
LEMMA QuietStep ==
  ASSUME ChainInv, NEW w \in Writers, at[w] # "idle",
         NEW x \in {"cut", "unlock"}, NEW c \in Codes,
         x = "unlock" => c # "ok", Give(w, x, c),
         UNCHANGED <<file, ondisk, lock, op, chain, committed>>
  PROVE  ChainInv'
<1>1. lock = w /\ LockFree(w)
  BY InCall
<1>2. at' = [at EXCEPT ![w] = x] /\ status' = [status EXCEPT ![w] = c]
  BY DEF Give, Go
<1>3. LocalsOK'
  BY <1>2 DEF ChainInv, LocalsOK, Places
<1>4. CallInv(w)'
  <2>1. at'[w] = x /\ status'[w] = c /\ lock' = w
    BY <1>1, <1>2 DEF ChainInv, LocalsOK
  <2> QED
    BY <2>1 DEF CallInv
<1>5. FilesGood'
  BY FilesStay
<1> QED
  BY <1>1, <1>2, <1>3, <1>4, <1>5, Others DEF ChainInv

\* The scan under the lock reads what the file holds.
LEMMA ScanStep ==
  ASSUME ChainInv, NEW w \in Writers, Scan(w)
  PROVE  ChainInv'
<1>1. at[w] # "idle" /\ UNCHANGED <<file, ondisk, lock, op, committed>>
  BY DEF Scan
<1>2. CASE Give(w, "unlock", "invalid") /\ UNCHANGED chain
  BY <1>1, <1>2, QuietStep DEF Codes
<1>3. CASE Give(w, "cut", "ok") /\ UNCHANGED chain
  BY <1>1, <1>3, QuietStep DEF Codes
<1>4. CASE Scanned(w)
  BY <1>1, <1>4, FilesStay, ScannedStep
<1> QED
  BY <1>2, <1>3, <1>4 DEF Scan

\* Cutting a torn tail off leaves the complete records.
LEMMA CutTailStep ==
  ASSUME ChainInv, NEW w \in Writers, CutTail(w)
  PROVE  ChainInv'
<1>1. at[w] # "idle" /\ UNCHANGED <<lock, op, chain, committed>>
  BY DEF CutTail
<1>2. lock = w /\ LockFree(w)
  BY <1>1, InCall
<1>3. CASE Modify(TruncateTo(Len(file.blocks))) /\ Give(w, "cutsync", "ok")
  <2>1. /\ at' = [at EXCEPT ![w] = "cutsync"] /\ status' = [status EXCEPT ![w] = "ok"]
        /\ file' = TruncateTo(Len(file.blocks))
        /\ ondisk' = ondisk \cup {TruncateTo(Len(file.blocks))}
    BY <1>3 DEF Give, Go, Modify
  <2>2. Good(TruncateTo(Len(file.blocks)))
    BY FileGood, CutGood
  <2>3. FilesGood'
    BY <1>1, <2>1, <2>2, FilesModified
  <2>4. LocalsOK'
    BY <1>1, <2>1 DEF ChainInv, LocalsOK, Places, Codes
  <2>5. CallInv(w)'
    <3>1. at'[w] = "cutsync" /\ lock' = w
      BY <1>1, <1>2, <2>1 DEF ChainInv, LocalsOK
    <3> QED
      BY <3>1 DEF CallInv
  <2> QED
    BY <1>2, <2>1, <2>3, <2>4, <2>5, Others DEF ChainInv
<1>4. CASE Give(w, "unlock", "io") /\ UNCHANGED <<file, ondisk>>
  BY <1>1, <1>4, QuietStep DEF Codes
<1> QED
  BY <1>3, <1>4 DEF CutTail

\* The fsync after the cut fixes what the cut left.
LEMMA CutSyncStep ==
  ASSUME ChainInv, NEW w \in Writers, CutSync(w)
  PROVE  ChainInv'
<1>1. at[w] # "idle" /\ UNCHANGED <<file, lock, op, committed>>
  BY DEF CutSync
<1>2. CASE SyncFd /\ Scanned(w)
  BY <1>1, <1>2, FilesSynced, ScannedStep
<1>3. CASE Give(w, "unlock", "io") /\ UNCHANGED <<ondisk, chain>>
  BY <1>1, <1>3, QuietStep DEF Codes
<1> QED
  BY <1>2, <1>3 DEF CutSync

\* Before it writes, a process has scanned the file as it is.
LEMMA ScanCurrent ==
  ASSUME ChainInv, NEW w \in Writers, at[w] \in {"write", "writing"}
  PROVE  /\ chain[w] = ScanResult(file.blocks) /\ chain[w].count = Len(file.blocks)
         /\ Len(file.blocks) < MaxSeq
         /\ lock = w /\ LockFree(w)
<1>1. chain[w] = ScanResult(file.blocks) /\ Len(file.blocks) < MaxSeq
  BY DEF ChainInv, CallInv
<1>2. ScanResult(file.blocks).count = Len(file.blocks)
  BY FileGood, ScanIs
<1> QED
  BY <1>1, <1>2, InCall

\* A short write leaves a torn record behind the complete ones.
LEMMA WriteSomeStep ==
  ASSUME ChainInv, NEW w \in Writers, WriteSome(w)
  PROVE  ChainInv'
<1>1. /\ at[w] \in {"write", "writing"} /\ at' = [at EXCEPT ![w] = "writing"]
      /\ UNCHANGED <<lock, op, chain, status, committed>>
      /\ file' = WritePartAt(chain[w].count)
      /\ ondisk' = ondisk \cup {WritePartAt(chain[w].count)}
  BY DEF WriteSome, Go, Modify
<1>2. /\ chain[w] = ScanResult(file.blocks) /\ chain[w].count = Len(file.blocks)
      /\ Len(file.blocks) < MaxSeq /\ lock = w /\ LockFree(w)
  BY <1>1, ScanCurrent
<1>3. Good(WritePartAt(chain[w].count))
  BY <1>2, FileGood, CutGood
<1>4. file'.blocks = file.blocks
  <2>1. file'.blocks = SubSeq(file.blocks, 1, Len(file.blocks))
    BY <1>1, <1>2 DEF WritePartAt
  <2> QED
    BY <2>1, FileGood, SubSeqFull
<1>5. FilesGood'
  BY <1>1, <1>3, FilesModified
<1>6. LocalsOK'
  BY <1>1 DEF ChainInv, LocalsOK, Places
<1>7. CallInv(w)'
  <2>1. at'[w] = "writing" /\ lock' = w /\ chain'[w] = ScanResult(file'.blocks)
    BY <1>1, <1>2, <1>4 DEF ChainInv, LocalsOK
  <2> QED
    BY <1>2, <1>4, <2>1 DEF CallInv
<1> QED
  BY <1>1, <1>2, <1>5, <1>6, <1>7, Others DEF ChainInv

\* A write that completes appends one record that links to the last.
LEMMA WriteRestStep ==
  ASSUME ChainInv, NEW w \in Writers, WriteRest(w)
  PROVE  ChainInv'
<1> DEFINE b == BlockEncode(ScanResult(file.blocks), w)
           n == WriteAt(Len(file.blocks), b)
<1>1. /\ at[w] \in {"write", "writing"} /\ at' = [at EXCEPT ![w] = "sync"]
      /\ UNCHANGED <<lock, op, chain, status, committed>>
  BY DEF WriteRest, Go
<1>2. /\ chain[w] = ScanResult(file.blocks) /\ chain[w].count = Len(file.blocks)
      /\ Len(file.blocks) < MaxSeq /\ lock = w /\ LockFree(w)
  BY <1>1, ScanCurrent
<1>3. file' = n /\ ondisk' = ondisk \cup {n}
  BY <1>2 DEF WriteRest, Modify
<1>4. /\ b \in Block /\ Append(file.blocks, b) \in Seq(Block)
      /\ ChainValid(Append(file.blocks, b))
  BY <1>2, FileGood, AppendValid
<1> HIDE DEF b
<1>5. n.blocks = Append(file.blocks, b)
  BY <1>4, FileGood, WriteAppends
<1> HIDE DEF n
<1>6. Good(n)
  <2>1. IsPrefix(committed, Append(file.blocks, b))
    BY <1>4, FileGood, AppendPrefix DEF ChainInv, FilesGood, Good
  <2> QED
    BY <1>4, <1>5, <2>1 DEF Good
<1>7. Len(file'.blocks) = Len(file.blocks) + 1
  BY <1>3, <1>4, <1>5, FileGood, AppendProperties
<1>8. FilesGood'
  BY <1>1, <1>3, <1>6, FilesModified
<1>9. LocalsOK'
  BY <1>1 DEF ChainInv, LocalsOK, Places
<1>10. CallInv(w)'
  <2>1. /\ at'[w] = "sync" /\ lock' = w /\ chain'[w] = chain[w]
        /\ Len(committed') <= chain'[w].count
    BY <1>1, <1>2, FileGood DEF ChainInv, LocalsOK
  <2> QED
    BY <1>2, <1>7, <2>1 DEF CallInv
<1> QED
  BY <1>1, <1>2, <1>8, <1>9, <1>10, Others DEF ChainInv

\* A write or an fsync that failed starts the rollback.
LEMMA UndoStarts ==
  ASSUME ChainInv, NEW w \in Writers, at[w] \in {"write", "writing", "sync"},
         Give(w, "undo", "io"), UNCHANGED <<file, ondisk, lock, op, chain, committed>>
  PROVE  ChainInv'
<1>1. lock = w /\ LockFree(w)
  BY InCall
<1>2. at' = [at EXCEPT ![w] = "undo"] /\ status' = [status EXCEPT ![w] = "io"]
  BY DEF Give, Go
<1>3. chain[w].count <= Len(file.blocks) /\ Len(committed) <= chain[w].count
  <2>1. CASE at[w] \in {"write", "writing"}
    BY <2>1, ScanCurrent, FileGood
  <2>2. CASE at[w] = "sync"
    <3>1. chain[w].count \in Nat
      BY AuditAssumption DEF ChainInv, LocalsOK, Scans
    <3> QED
      BY <2>2, <3>1 DEF ChainInv, CallInv
  <2> QED
    BY <2>1, <2>2
<1>4. LocalsOK'
  BY <1>2 DEF ChainInv, LocalsOK, Places, Codes
<1>5. CallInv(w)'
  <2>1. at'[w] = "undo" /\ status'[w] = "io" /\ lock' = w
    BY <1>1, <1>2 DEF ChainInv, LocalsOK
  <2> QED
    BY <1>3, <2>1 DEF CallInv
<1> QED
  BY <1>1, <1>2, <1>4, <1>5, FilesStay, Others DEF ChainInv

\* The fsync of the record makes it durable before OK is returned.
LEMMA SyncRecordStep ==
  ASSUME ChainInv, NEW w \in Writers, SyncRecord(w)
  PROVE  ChainInv'
<1>1. at[w] = "sync" /\ UNCHANGED <<file, lock, op, chain, committed>>
  BY DEF SyncRecord
<1>2. CASE SyncFd /\ Give(w, "unlock", "ok")
  <2>1. lock = w /\ LockFree(w)
    BY <1>1, InCall
  <2>2. at' = [at EXCEPT ![w] = "unlock"] /\ status' = [status EXCEPT ![w] = "ok"]
    BY <1>2 DEF Give, Go
  <2>3. FilesGood'
    BY <1>1, <1>2, FilesSynced
  <2>4. LocalsOK'
    BY <1>1, <2>2 DEF ChainInv, LocalsOK, Places, Codes
  <2>5. CallInv(w)'
    <3>1. at'[w] = "unlock" /\ lock' = w /\ ondisk' = {file'}
      BY <1>1, <1>2, <2>1, <2>2 DEF ChainInv, LocalsOK, SyncFd
    <3>2. Len(file'.blocks) = chain'[w].count + 1
      BY <1>1 DEF ChainInv, CallInv
    <3> QED
      BY <3>1, <3>2 DEF CallInv
  <2> QED
    BY <2>1, <2>2, <2>3, <2>4, <2>5, Others DEF ChainInv
<1>3. CASE Give(w, "undo", "io") /\ UNCHANGED ondisk
  BY <1>1, <1>3, UndoStarts
<1> QED
  BY <1>2, <1>3 DEF SyncRecord

\* The rest of the rollback: the call returns an error whatever happens.
LEMMA UndoEnds ==
  ASSUME ChainInv, NEW w \in Writers, at[w] \in {"undo", "undosync"},
         NEW x \in {"undosync", "unlock"}, Go(w, x), FilesGood',
         UNCHANGED <<lock, op, chain, status, committed>>
  PROVE  ChainInv'
<1>1. lock = w /\ LockFree(w)
  BY InCall
<1>2. at' = [at EXCEPT ![w] = x]
  BY DEF Go
<1>3. LocalsOK'
  BY <1>2 DEF ChainInv, LocalsOK, Places
<1>4. CallInv(w)'
  <2>1. at'[w] = x /\ status'[w] # "ok" /\ lock' = w
    BY <1>1, <1>2 DEF ChainInv, LocalsOK, CallInv
  <2> QED
    BY <2>1 DEF CallInv
<1> QED
  BY <1>1, <1>2, <1>3, <1>4, Others DEF ChainInv

\* Undoing a failed append removes no record that was promised.
LEMMA UndoRecordStep ==
  ASSUME ChainInv, NEW w \in Writers, UndoRecord(w)
  PROVE  ChainInv'
<1>1. at[w] = "undo" /\ UNCHANGED <<lock, op, chain, status, committed>>
  BY DEF UndoRecord
<1>2. CASE Modify(TruncateTo(chain[w].count)) /\ Go(w, "undosync")
  <2>1. chain[w].count \in 0..Len(file.blocks) /\ Len(committed) <= chain[w].count
    BY <1>1, FileGood, AuditAssumption DEF ChainInv, CallInv, LocalsOK, Scans
  <2>2. Good(TruncateTo(chain[w].count))
    BY <2>1, CutGood
  <2>3. FilesGood'
    BY <1>1, <1>2, <2>2, FilesModified DEF Modify
  <2> QED
    BY <1>1, <1>2, <2>3, UndoEnds
<1>3. CASE Go(w, "unlock") /\ UNCHANGED <<file, ondisk>>
  BY <1>1, <1>3, FilesStay, UndoEnds
<1> QED
  BY <1>2, <1>3 DEF UndoRecord

\* The fsync of the undo fixes the file as it was before the call.
LEMMA UndoSyncStep ==
  ASSUME ChainInv, NEW w \in Writers, UndoSync(w)
  PROVE  ChainInv'
<1>1. /\ at[w] = "undosync" /\ Go(w, "unlock")
      /\ UNCHANGED <<file, lock, op, chain, status, committed>>
  BY DEF UndoSync
<1>2. FilesGood'
  BY <1>1, FilesStay, FilesSynced DEF UndoSync
<1> QED
  BY <1>1, <1>2, UndoEnds

\* The promise: the file as it is is the only content left, so that all of
\* it can be promised.
LEMMA UnlockStep ==
  ASSUME ChainInv, NEW w \in Writers, UnlockFd(w)
  PROVE  ChainInv'
<1>1. at[w] # "idle" /\ Leave(w) /\ UNCHANGED <<file, ondisk>> /\ lock' \in {lock, NoOne}
  BY DEF UnlockFd
<1>2. lock = w /\ LockFree(w) /\ lock' \in Writers \cup {NoOne}
  BY <1>1, InCall
<1>3. FilesGood'
  <2>1. CASE committed' = committed
    BY <1>1, <2>1, FilesStay
  <2>2. CASE committed' # committed
    <3>1. /\ at[w] = "unlock" /\ op[w] = "append" /\ status[w] = "ok"
          /\ committed' = SubSeq(file.blocks, 1, chain[w].count + 1)
      BY <2>2 DEF UnlockFd
    <3>2. ondisk = {file} /\ Len(file.blocks) = chain[w].count + 1
      BY <3>1 DEF ChainInv, CallInv
    <3>3. file.blocks \in Seq(Block) /\ ChainValid(file.blocks)
      BY FileGood
    <3>4. committed' = file.blocks
      BY <3>1, <3>2, <3>3, SubSeqFull
    <3>5. IsPrefix(file.blocks, file.blocks)
      BY <3>3, PrefixIs, LenProperties
    <3> QED
      BY <1>1, <3>2, <3>3, <3>4, <3>5 DEF FilesGood, Good
  <2> QED
    BY <2>1, <2>2
<1>4. LocalsOK' /\ CallInv(w)'
  BY <1>1, <1>2, LeaveLocals
<1> QED
  BY <1>1, <1>2, <1>3, <1>4, Others DEF ChainInv, Leave, Go

\* Killing a writer anywhere frees the lock and leaves a good file.
LEMMA KillStep ==
  ASSUME ChainInv, NEW w \in Writers, KillWriter(w)
  PROVE  ChainInv'
<1>1. /\ Leave(w) /\ LockFree(w) /\ lock' \in Writers \cup {NoOne}
      /\ UNCHANGED <<file, ondisk, committed>>
  BY DEF KillWriter, LockFree
<1>2. LocalsOK' /\ CallInv(w)'
  BY <1>1, LeaveLocals
<1> QED
  BY <1>1, <1>2, FilesStay, Others DEF ChainInv, Leave, Go

\* After a power failure the file is one of the contents the disk could hold.
LEMMA OutageStep ==
  ASSUME ChainInv, ChainOutage
  PROVE  ChainInv'
<1>1. LocalsOK'
  BY EmptyScan DEF ChainOutage, LocalsOK, Places, Calls, Codes
<1>2. FilesGood'
  BY DEF ChainInv, ChainOutage, FilesGood, Good
<1>3. \A w \in Writers : CallInv(w)'
  BY DEF ChainOutage, CallInv
<1> QED
  BY <1>1, <1>2, <1>3 DEF ChainInv

-----------------------------------------------------------------------------
(* The invariant and the properties. *)

logVars == <<file, ondisk, lock, at, op, chain, status, committed>>

\* An empty log satisfies the invariant.
LEMMA ChainInitially ==
  ASSUME ChainInit
  PROVE  ChainInv
<1>1. <<>> \in Seq(Block) /\ Len(<<>>) = 0
  BY EmptySeq
<1>2. ChainValid(<<>>) /\ IsPrefix(<<>>, <<>>)
  <2>1. ChainValid(<<>>)
    BY <1>1, AuditAssumption DEF ChainValid
  <2>2. \A i \in 1..Len(<<>>) : <<>>[i] = <<>>[i]
    OBVIOUS
  <2>3. Len(<<>>) <= Len(<<>>)
    BY <1>1
  <2>4. IsPrefix(<<>>, <<>>)
    BY <1>1, <2>2, <2>3, PrefixIs
  <2> QED
    BY <2>1, <2>4
<1>3. FilesGood
  <2>1. file = WholeFile(<<>>) /\ ondisk = {file} /\ committed = <<>>
    BY DEF ChainInit
  <2>2. file.blocks = <<>>
    BY <2>1 DEF WholeFile
  <2> QED
    BY <1>1, <1>2, <2>1, <2>2 DEF FilesGood, Good
<1>4. LocalsOK
  BY EmptyScan DEF ChainInit, LocalsOK, Places, Calls, Codes
<1>5. \A w \in Writers : CallInv(w)
  BY DEF ChainInit, CallInv
<1> QED
  BY <1>3, <1>4, <1>5 DEF ChainInv

\* Every step of the log keeps the invariant.
LEMMA ChainKept ==
  ASSUME ChainInv, ChainStep
  PROVE  ChainInv'
<1>1. PICK w \in Writers : WriterStep(w) \/ KillWriter(w)
  BY DEF ChainStep
<1>2. CASE WriteFails(w)
  BY <1>2, UndoStarts DEF WriteFails
<1> QED
  BY <1>1, <1>2, LockStep, ScanStep, CutTailStep, CutSyncStep, WriteSomeStep,
     WriteRestStep, SyncRecordStep, UndoRecordStep, UndoSyncStep, UnlockStep,
     KillStep DEF WriterStep

\* ar_auditd only reads the log.
LEMMA DaemonReads ==
  ASSUME Start \/ Stop \/ Running \/ KillDaemon
  PROVE  UNCHANGED logVars
BY DEF Start, Stop, Running, Watch, WatchFails, Flush, Send, SendFails, StateWrite,
       StateWriteFails, StateSync, StateSyncFails, KillDaemon, chainVars, logVars

\* A step of the daemon alone leaves the log, and so the invariant, alone.
LEMMA ChainStays ==
  ASSUME ChainInv, UNCHANGED logVars
  PROVE  ChainInv'
<1>1. LocalsOK' /\ FilesGood'
  BY FilesStay DEF logVars, ChainInv, LocalsOK
<1>2. \A w \in Writers : CallInv(w)'
  BY DEF logVars, ChainInv, CallInv
<1> QED
  BY <1>1, <1>2 DEF ChainInv

\* The invariant is kept by every step of the composed system.
LEMMA ChainInductive ==
  ASSUME ChainInv, [Next]_vars
  PROVE  ChainInv'
<1>1. CASE ChainStep
  BY <1>1, ChainKept
<1>2. CASE Start \/ Stop \/ Running \/ KillDaemon
  BY <1>2, DaemonReads, ChainStays
<1>3. CASE Outage
  BY <1>3, OutageStep DEF Outage
<1>4. CASE UNCHANGED vars
  <2>1. UNCHANGED logVars
    BY <1>4 DEF vars, chainVars, logVars
  <2> QED
    BY <2>1, ChainStays
<1> QED
  BY <1>1, <1>2, <1>3, <1>4 DEF Next

\* The inductive invariant: at most one process is in a call, what it
\* scanned is current until it writes, its rollback cuts nothing that was
\* promised, and every content the disk may hold is a valid chain that
\* extends what was promised.
THEOREM ChainInvariant == Spec => []ChainInv
<1>1. DaemonInit => ChainInv
  BY ChainInitially DEF DaemonInit
<1>2. ChainInv /\ [Next]_vars => ChainInv'
  BY ChainInductive
<1> QED
  BY <1>1, <1>2, PTL DEF Spec

\* An append that returned OK survives failed calls, rollbacks, kills and
\* power failures (fsync before success in append_fd), for any number of
\* them and of writers.
THEOREM AppendsAreDurable == Spec => []CommittedSurvives
<1>1. ChainInv => CommittedSurvives
  BY DEF ChainInv, FilesGood, Good, CommittedSurvives
<1> QED
  BY <1>1, ChainInvariant, PTL

\* The complete records are a valid chain at all times and after any power
\* failure: recovery by scan_locked always has something to recover.
THEOREM LogVerifies == Spec => []ChainVerifies
<1>1. ChainInv => ChainVerifies
  BY DEF ChainInv, FilesGood, Good, ChainVerifies
<1> QED
  BY <1>1, ChainInvariant, PTL

(***************************************************************************)
(* ar_auditd and its forwarder, for any capacity of the queue: what it     *)
(* acknowledges is true.  The argument rests on the invariant of the log:  *)
(* a process that rolls its append back cannot cut a record that ar_auditd *)
(* has seen, because ar_auditd reads only while nobody has the lock.       *)
(***************************************************************************)
\* The variables of ar_auditd keep their types.
DaemonTypes ==
  /\ daemon \in {"down", "watch", "send", "persist", "fsync"}
  /\ queue \in Seq(Checkpoints) /\ Len(queue) <= QueueCapacity
  /\ ack \in Checkpoints
  /\ statedisk \subseteq Checkpoints \cup {Torn} /\ state \in statedisk
  /\ outages \in Nat

\* What each step of a flush relies on.
FlushInv ==
  /\ daemon \in {"send", "persist", "fsync"} => queue # <<>>
  /\ daemon \in {"persist", "fsync"} => Head(queue) \in collected
  /\ daemon = "down" => queue = <<>> /\ ack = None
  /\ \A c \in statedisk : c \in {None, Torn} \/ c \in collected

\* The queue is in order and starts where the acknowledgements end.
QueueOrdered ==
  /\ \A i \in 1..Len(queue) : ack.seq <= queue[i].seq
  /\ \A i, j \in 1..Len(queue) : i <= j => queue[i].seq <= queue[j].seq

\* The checkpoints that ar_auditd and its state file hold.
Known == {ack} \cup ({state} \ {Torn}) \cup {queue[i] : i \in 1..Len(queue)}

\* They name records of the log, and no rollback that is under way cuts one
\* off: always while ar_auditd runs, since a start compares the state file
\* with the log, and before it runs unless the power failed.
KnownInLog ==
  daemon # "down" \/ outages = 0 =>
    \A c \in Known :
      /\ InChain(c)
      /\ \A w \in Writers : at[w] \in {"sync", "undo"} => c.seq <= chain[w].count

AckInv == DaemonTypes /\ FlushInv /\ QueueOrdered /\ KnownInLog

-----------------------------------------------------------------------------
(* The log under ar_auditd. *)

\* No record at all is part of every log.
LEMMA NoneInChain ==
  ASSUME ChainInv
  PROVE  InChain(None) /\ None \in Checkpoints /\ None.seq = 0
<1>1. Len(file.blocks) \in Nat
  BY FileGood
<1>2. 0 \in 0..Len(file.blocks)
  BY <1>1
<1>3. SubSeq(file.blocks, 1, 0) = <<>>
  BY SubSeqEmpty
<1>4. LastHash(<<>>) = ZeroHash
  BY DEF LastHash
<1>5. InChain(None)
  BY <1>2, <1>3, <1>4 DEF InChain, None
<1>6. ZeroHash \in Seq((1..MaxSeq) \X Writers)
  BY EmptySeq DEF ZeroHash
<1> QED
  BY <1>5, <1>6, AuditAssumption DEF None, Checkpoints

\* The tip is the last record of the log.
LEMMA TipIs ==
  ASSUME ChainInv
  PROVE  InChain(Tip) /\ Tip \in Checkpoints /\ Tip.seq = Len(file.blocks)
<1>1. file.blocks \in Seq(Block) /\ ChainValid(file.blocks) /\ Len(file.blocks) \in Nat
  BY FileGood
<1>2. /\ ScanResult(file.blocks) \in Scans /\ ScanResult(file.blocks).last = Len(file.blocks)
      /\ ScanResult(file.blocks).hash = LastHash(file.blocks)
  BY <1>1, ScanIs
<1>3. SubSeq(file.blocks, 1, Len(file.blocks)) = file.blocks
  BY <1>1, SubSeqFull
<1>4. Len(file.blocks) \in 0..Len(file.blocks)
  BY <1>1
<1> QED
  BY <1>2, <1>3, <1>4 DEF InChain, Tip, Checkpoints, Scans, Hashes

\* A checkpoint of the log is not beyond its end.
LEMMA InChainBound ==
  ASSUME ChainInv, NEW c, InChain(c)
  PROVE  c.seq \in 0..Len(file.blocks)
BY DEF InChain

\* A step of a writer keeps the records up to some number n: all of them, or,
\* in a rollback, those that were scanned.
LEMMA WriterKeeps ==
  ASSUME ChainInv, ChainStep, ChainInv'
  PROVE  \E n \in 0..Len(file.blocks) :
           /\ n <= Len(file'.blocks)
           /\ SubSeq(file'.blocks, 1, n) = SubSeq(file.blocks, 1, n)
           /\ n = Len(file.blocks) \/ \E w \in Writers : at[w] = "undo" /\ n = chain[w].count
<1>1. PICK w \in Writers : WriterStep(w) \/ KillWriter(w)
  BY DEF ChainStep
<1>2. /\ file.blocks \in Seq(Block) /\ Len(file.blocks) \in Nat
      /\ Len(file.blocks) \in 0..Len(file.blocks)
      /\ SubSeq(file.blocks, 1, Len(file.blocks)) = file.blocks
  BY FileGood, SubSeqFull
<1>3. CASE file'.blocks = file.blocks
  BY <1>2, <1>3
<1>4. CASE WriteSome(w) \/ CutTail(w)
  <2>1. file'.blocks = file.blocks
    <3>1. CASE WriteSome(w)
      BY <1>2, <3>1, ScanCurrent DEF WriteSome, Modify, WritePartAt
    <3>2. CASE CutTail(w)
      BY <1>2, <3>2 DEF CutTail, Modify, TruncateTo, WholeFile
    <3> QED
      BY <1>4, <3>1, <3>2
  <2> QED
    BY <1>3, <2>1
<1>5. CASE WriteRest(w)
  <2> DEFINE b == BlockEncode(ScanResult(file.blocks), w)
  <2>1. chain[w] = ScanResult(file.blocks) /\ chain[w].count = Len(file.blocks) /\ Len(file.blocks) < MaxSeq
    BY <1>5, ScanCurrent DEF WriteRest
  <2>a. b \in Block
    BY <2>1, FileGood, AppendValid
  <2>b. file' = WriteAt(Len(file.blocks), b)
    BY <1>5, <2>1 DEF WriteRest, Modify
  <2> HIDE DEF b
  <2>2. b \in Block /\ file' = WriteAt(Len(file.blocks), b)
    BY <2>a, <2>b
  <2>3. file'.blocks = Append(file.blocks, b)
    BY <1>2, <2>2, WriteAppends
  <2>4. /\ Append(file.blocks, b) \in Seq(Block)
        /\ Len(file.blocks) <= Len(Append(file.blocks, b))
        /\ \A i \in 1..Len(file.blocks) : Append(file.blocks, b)[i] = file.blocks[i]
    BY <1>2, <2>2, AppendProperties
  <2>5. SubSeq(Append(file.blocks, b), 1, Len(file.blocks)) = SubSeq(file.blocks, 1, Len(file.blocks))
    BY <1>2, <2>4, SameTake
  <2> QED
    BY <1>2, <2>3, <2>4, <2>5
<1>6. CASE UndoRecord(w)
  <2>1. CASE file' = file
    BY <1>3, <2>1
  <2>2. CASE file' = TruncateTo(chain[w].count)
    <3> DEFINE n == chain[w].count
    <3>1. at[w] = "undo" /\ n \in 0..Len(file.blocks) /\ n = chain[w].count
      BY <1>2, <1>6 DEF UndoRecord, ChainInv, CallInv, LocalsOK, Scans
    <3>2. file'.blocks = SubSeq(file.blocks, 1, n)
      BY <2>2 DEF TruncateTo, WholeFile
    <3> HIDE DEF n
    <3>3. /\ SubSeq(file.blocks, 1, n) \in Seq(Block) /\ Len(SubSeq(file.blocks, 1, n)) = n
      BY <1>2, <3>1, Take
    <3>4. SubSeq(file'.blocks, 1, n) = file'.blocks
      BY <3>2, <3>3, SubSeqFull
    <3> QED
      <4>1. n <= Len(file'.blocks) /\ SubSeq(file'.blocks, 1, n) = SubSeq(file.blocks, 1, n)
        BY <3>1, <3>2, <3>3, <3>4
      <4> QED
        BY <3>1, <4>1
  <2> QED
    BY <1>6, <2>1, <2>2 DEF UndoRecord, Modify
<1>7. CASE LockFd(w) \/ Scan(w) \/ CutSync(w) \/ WriteFails(w) \/ SyncRecord(w) \/ UndoSync(w)
           \/ UnlockFd(w) \/ KillWriter(w)
  <2>1. file' = file
    BY <1>7 DEF LockFd, Scan, CutSync, WriteFails, SyncRecord, UndoSync, UnlockFd, KillWriter
  <2> QED
    BY <1>3, <2>1
<1> QED
  BY <1>1, <1>4, <1>5, <1>6, <1>7 DEF WriterStep

\* A process that may roll back has scanned what is kept.
LEMMA RollbackScanned ==
  ASSUME ChainInv, ChainStep
  PROVE  /\ outages' = outages
         /\ \A w \in Writers : at'[w] \in {"sync", "undo"} =>
              /\ chain'[w] = chain[w]
              /\ at[w] \in {"sync", "undo"} \/ chain[w].count = Len(file.blocks)
<1>1. PICK v \in Writers : WriterStep(v) \/ KillWriter(v)
  BY DEF ChainStep
<1>2. outages' = outages
  BY <1>1 DEF WriterStep, LockFd, Scan, CutTail, CutSync, WriteSome, WriteRest, WriteFails,
              SyncRecord, UndoRecord, UndoSync, UnlockFd, KillWriter
<1> SUFFICES ASSUME NEW w \in Writers, at'[w] \in {"sync", "undo"}
             PROVE  chain'[w] = chain[w]
                    /\ (at[w] \in {"sync", "undo"} \/ chain[w].count = Len(file.blocks))
  BY <1>2
<1>3. at \in [Writers -> Places] /\ chain \in [Writers -> Scans]
  BY DEF ChainInv, LocalsOK
<1>4. CASE LockFd(v) \/ Scan(v) \/ CutTail(v) \/ CutSync(v) \/ WriteSome(v)
           \/ UndoRecord(v) \/ UndoSync(v) \/ UnlockFd(v) \/ KillWriter(v)
  <2>1. w # v
    BY <1>3, <1>4 DEF LockFd, Scan, Scanned, CutTail, CutSync, WriteSome, UndoRecord, UndoSync,
                      UnlockFd, KillWriter, Leave, Give, Go
  <2>2. at'[w] = at[w] /\ chain'[w] = chain[w]
    BY <1>3, <1>4, <2>1 DEF LockFd, Scan, Scanned, CutTail, CutSync, WriteSome, UndoRecord, UndoSync,
                      UnlockFd, KillWriter, Leave, Give, Go
  <2> QED
    BY <2>2
<1>5. CASE WriteRest(v) \/ WriteFails(v) \/ SyncRecord(v)
  <2>1. chain' = chain /\ (w # v => at'[w] = at[w])
    BY <1>3, <1>5 DEF WriteRest, WriteFails, SyncRecord, Give, Go
  <2>2. at[v] \in {"write", "writing", "sync"}
    BY <1>5 DEF WriteRest, WriteFails, SyncRecord
  <2> QED
    BY <2>1, <2>2, ScanCurrent
<1> QED
  BY <1>1, <1>4, <1>5 DEF WriterStep

-----------------------------------------------------------------------------
(* The steps. *)

\* The types of what is known, and where the numbers in a scan lie.
LEMMA KnownTypes ==
  ASSUME DaemonTypes
  PROVE  Known \subseteq Checkpoints /\ \A c \in Known : c.seq \in Nat
<1>1. \A i \in 1..Len(queue) : queue[i] \in Checkpoints
  BY ElementOfSeq DEF DaemonTypes
<1>2. Known \subseteq Checkpoints
  BY <1>1 DEF Known, DaemonTypes
<1> QED
  BY <1>2, AuditAssumption DEF Checkpoints

\* Writers do not make ar_auditd forget, nor its checkpoints wrong.
LEMMA WritersKeepAck ==
  ASSUME ChainInv, ChainInv', AckInv, ChainStep, UNCHANGED daemonVars
  PROVE  AckInv'
<1>1. outages' = outages /\ Known' = Known
  BY RollbackScanned DEF daemonVars, Known
<1>2. DaemonTypes' /\ FlushInv' /\ QueueOrdered'
  BY <1>1 DEF daemonVars, AckInv, DaemonTypes, FlushInv, QueueOrdered
<1>3. KnownInLog'
  <2> SUFFICES ASSUME daemon # "down" \/ outages = 0, NEW c \in Known
               PROVE  /\ InChain(c)'
                      /\ \A w \in Writers : at'[w] \in {"sync", "undo"} => c.seq <= chain'[w].count
    BY <1>1 DEF KnownInLog, daemonVars
  <2>1. InChain(c) /\ \A w \in Writers : at[w] \in {"sync", "undo"} => c.seq <= chain[w].count
    BY DEF AckInv, KnownInLog
  <2>2. PICK i \in 0..Len(file.blocks) : c = [seq |-> i, hash |-> LastHash(SubSeq(file.blocks, 1, i))]
    BY <2>1 DEF InChain
  <2>3. PICK n \in 0..Len(file.blocks) :
           /\ n <= Len(file'.blocks)
           /\ SubSeq(file'.blocks, 1, n) = SubSeq(file.blocks, 1, n)
           /\ n = Len(file.blocks) \/ \E w \in Writers : at[w] = "undo" /\ n = chain[w].count
    BY WriterKeeps
  <2>4. c.seq = i /\ i <= n
    BY <2>1, <2>2, <2>3
  <2>5. SubSeq(file'.blocks, 1, i) = SubSeq(file.blocks, 1, i)
    <3>1. /\ file.blocks \in Seq(Block) /\ file'.blocks \in Seq(Block)
          /\ n \in 0..Len(file'.blocks) /\ Len(file.blocks) \in Nat
      BY <2>3, FileGood DEF ChainInv, FilesGood, Good
    <3>2. /\ \A j \in 1..n : SubSeq(file'.blocks, 1, n)[j] = file'.blocks[j]
          /\ \A j \in 1..n : SubSeq(file.blocks, 1, n)[j] = file.blocks[j]
      BY <3>1, Take
    <3>3. \A j \in 1..n : file'.blocks[j] = file.blocks[j]
      BY <2>3, <3>2
    <3>4. Len(file'.blocks) \in Nat
      BY <3>1, LenProperties
    <3>5. i \in Nat /\ i <= Len(file.blocks) /\ i <= Len(file'.blocks)
          /\ \A j \in 1..i : file'.blocks[j] = file.blocks[j]
      BY <2>3, <2>4, <3>1, <3>3, <3>4
    <3> QED
      BY <3>1, <3>5, SameTake
  <2>6. InChain(c)'
    <3>1. i \in 0..Len(file'.blocks)
      <4>1. file'.blocks \in Seq(Block)
        BY DEF ChainInv, FilesGood, Good
      <4>2. Len(file'.blocks) \in Nat
        BY <4>1, LenProperties
      <4> QED
        BY <2>3, <2>4, <4>2
    <3> QED
      BY <2>2, <2>5, <3>1 DEF InChain
  <2>7. \A w \in Writers : at'[w] \in {"sync", "undo"} => c.seq <= chain'[w].count
    BY <2>1, <2>2, RollbackScanned
  <2> QED
    BY <2>6, <2>7
<1> QED
  BY <1>2, <1>3 DEF AckInv

\* A step of ar_auditd learns at most the tip, and that only while no process
\* is in a call.
LEMMA DaemonLearns ==
  ASSUME ChainInv, AckInv, UNCHANGED logVars, outages' = outages,
         daemon' # "down" \/ outages = 0 =>
           Known' \subseteq (IF daemon # "down" \/ outages = 0 THEN Known ELSE {})
                             \cup {None} \cup (IF lock = NoOne THEN {Tip} ELSE {})
  PROVE  KnownInLog'
<1> SUFFICES ASSUME daemon' # "down" \/ outages = 0, NEW c \in Known'
             PROVE  /\ InChain(c)
                    /\ \A w \in Writers : at[w] \in {"sync", "undo"} => c.seq <= chain[w].count
  <2>1. \A c \in Known' : InChain(c)' <=> InChain(c)
    BY DEF InChain, logVars
  <2> QED
    BY <2>1 DEF KnownInLog, logVars
<1>1. CASE c \in Known /\ (daemon # "down" \/ outages = 0)
  BY <1>1 DEF AckInv, KnownInLog
<1>2. CASE c = None
  <2>1. \A w \in Writers : chain[w].count \in Nat
    BY AuditAssumption DEF ChainInv, LocalsOK, Scans
  <2> QED
    BY <1>2, <2>1, NoneInChain
<1>3. CASE lock = NoOne /\ c = Tip
  <2>1. \A w \in Writers : at[w] = "idle"
    BY <1>3, AuditAssumption DEF ChainInv, CallInv
  <2> QED
    BY <1>3, <2>1, TipIs
<1> QED
  BY <1>1, <1>2, <1>3

\* ar_auditd ends, by itself or killed: the state file stays.
LEMMA ExitKeepsAck ==
  ASSUME ChainInv, AckInv, Exit, UNCHANGED logVars, outages' = outages,
         state' \in {state, Torn}, state' \in statedisk',
         statedisk' \subseteq statedisk \cup {state'}, collected \subseteq collected'
  PROVE  AckInv'
<1>1. daemon' = "down" /\ queue' = <<>> /\ ack' = None
  BY DEF Exit
<1>2. None \in Checkpoints
  BY NoneInChain
<1>3. DaemonTypes'
  BY <1>1, <1>2, QueueAssumption, EmptySeq DEF AckInv, DaemonTypes
<1>4. FlushInv'
  BY <1>1 DEF AckInv, FlushInv, DaemonTypes
<1>5. QueueOrdered'
  BY <1>1, EmptySeq DEF QueueOrdered
<1>6. Known' \subseteq {None} \cup Known
  BY <1>1, EmptySeq DEF Known
<1>7. KnownInLog'
  BY <1>1, <1>6, DaemonLearns
<1> QED
  BY <1>3, <1>4, <1>5, <1>7 DEF AckInv

\* A flush that fails, whatever it had done to the state file.
LEMMA FailKeepsAck ==
  ASSUME ChainInv, AckInv, FlushFails, daemon # "down", UNCHANGED logVars, outages' = outages,
         state' \in {state, Torn}, state' \in statedisk',
         statedisk' \subseteq statedisk \cup {state'}, collected \subseteq collected'
  PROVE  AckInv'
<1>1. CASE Exit
  BY <1>1, ExitKeepsAck
<1>2. CASE daemon' = "watch" /\ UNCHANGED <<strict, queue, ack>>
  <2>1. Known' \subseteq Known
    BY <1>2 DEF Known
  <2>2. KnownInLog'
    BY <1>2, <2>1, DaemonLearns
  <2>3. DaemonTypes' /\ FlushInv' /\ QueueOrdered'
    BY <1>2 DEF AckInv, DaemonTypes, FlushInv, QueueOrdered
  <2> QED
    BY <2>2, <2>3 DEF AckInv
<1> QED
  BY <1>1, <1>2 DEF FlushFails

\* The head of a queue that is not empty, and what is behind it.
LEMMA HeadAndTail ==
  ASSUME DaemonTypes, queue # <<>>
  PROVE  /\ Head(queue) = queue[1] /\ Head(queue) \in Checkpoints /\ 1 \in 1..Len(queue)
         /\ Tail(queue) \in Seq(Checkpoints) /\ Len(Tail(queue)) = Len(queue) - 1
         /\ \A i \in 1..Len(Tail(queue)) : Tail(queue)[i] = queue[i + 1] /\ i + 1 \in 1..Len(queue)
<1>1. Len(queue) \in Nat /\ Len(queue) > 0 /\ queue \in Seq(Checkpoints)
  BY EmptySeq, LenProperties DEF DaemonTypes
<1>2. Head(queue) = queue[1] /\ Head(queue) \in Checkpoints
  BY <1>1, ElementOfSeq DEF DaemonTypes
<1> QED
  BY <1>1, <1>2, HeadTailProperties

\* A start takes over a state file that names the tip, or nothing.
LEMMA StartKeepsAck ==
  ASSUME ChainInv, AckInv, Start
  PROVE  AckInv'
<1>1. /\ daemon = "down" /\ queue = <<>> /\ state # Torn /\ lock = NoOne
      /\ state = None \/ state = Tip
      /\ ack' = state /\ UNCHANGED <<logVars, outages, state, statedisk, collected>>
  BY DEF Start, MayRead, NotRolledBack, AckInv, FlushInv, logVars, chainVars
<1>2. \/ daemon' = "watch" /\ queue' = <<>>
      \/ daemon' = "send" /\ queue' = <<Tip>> /\ Tip.seq > state.seq
  BY <1>1 DEF Start
<1>3. Tip \in Checkpoints /\ None \in Checkpoints
  BY TipIs, NoneInChain
<1>4. /\ <<>> \in Seq(Checkpoints) /\ Len(<<>>) = 0
      /\ <<Tip>> \in Seq(Checkpoints) /\ Len(<<Tip>>) = 1 /\ <<Tip>>[1] = Tip /\ <<Tip>> # <<>>
  BY <1>3, EmptySeq
<1>5. Known' \subseteq {None, Tip}
  BY <1>1, <1>2, <1>4 DEF Known
<1>6. KnownInLog'
  BY <1>1, <1>5, DaemonLearns
<1>a. /\ queue' \in Seq(Checkpoints) /\ Len(queue') <= QueueCapacity
      /\ daemon' \in {"watch", "send"} /\ (daemon' = "send" => queue' # <<>>)
  <2>1. CASE daemon' = "watch" /\ queue' = <<>>
    <3>1. queue' \in Seq(Checkpoints) /\ Len(queue') = 0
      BY <1>4, <2>1
    <3> QED
      BY <2>1, <3>1, QueueAssumption
  <2>2. CASE daemon' = "send" /\ queue' = <<Tip>>
    <3>1. queue' \in Seq(Checkpoints) /\ Len(queue') = 1 /\ queue' # <<>>
      BY <1>4, <2>2
    <3> QED
      BY <2>2, <3>1, QueueAssumption
  <2> QED
    BY <1>2, <2>1, <2>2
<1>7. DaemonTypes'
  BY <1>1, <1>3, <1>a DEF AckInv, DaemonTypes
<1>8. FlushInv'
  BY <1>1, <1>a DEF AckInv, FlushInv
<1>9. QueueOrdered'
  <2>1. Tip.seq \in Nat /\ None.seq \in Nat
    BY <1>3, AuditAssumption DEF Checkpoints
  <2> QED
    BY <1>1, <1>2, <1>4, <2>1 DEF QueueOrdered
<1> QED
  BY <1>6, <1>7, <1>8, <1>9 DEF AckInv

\* The new tip is behind everything that is queued.
LEMMA WatchKeepsAck ==
  ASSUME ChainInv, AckInv, Watch
  PROVE  AckInv'
<1>1. /\ daemon = "watch" /\ lock = NoOne /\ Len(queue) < QueueCapacity
      /\ queue' = Append(queue, Tip) /\ daemon' = "send" /\ Tip.seq > ack.seq
      /\ UNCHANGED <<logVars, outages, ack, state, statedisk, collected>>
  BY DEF Watch, MayRead, NewTip, Enqueue, logVars, chainVars
<1>2. Tip \in Checkpoints /\ Tip.seq = Len(file.blocks) /\ Len(file.blocks) \in Nat
  BY TipIs, FileGood
<1>3. queue \in Seq(Checkpoints) /\ Len(queue) \in Nat
  BY LenProperties DEF AckInv, DaemonTypes
<1>4. /\ queue' \in Seq(Checkpoints) /\ Len(queue') = Len(queue) + 1 /\ queue' # <<>>
      /\ \A i \in 1..Len(queue) : queue'[i] = queue[i]
      /\ queue'[Len(queue) + 1] = Tip
  BY <1>1, <1>2, <1>3, AppendProperties
<1>5. Known' \subseteq Known \cup {Tip}
  <2>1. \A i \in 1..Len(queue') : i \in 1..Len(queue) \/ i = Len(queue) + 1
    BY <1>3, <1>4
  <2> QED
    BY <1>1, <1>4, <2>1 DEF Known
<1>6. KnownInLog'
  BY <1>1, <1>5, DaemonLearns
<1>7. DaemonTypes'
  BY <1>1, <1>3, <1>4, QueueAssumption DEF AckInv, DaemonTypes
<1>8. FlushInv'
  BY <1>1, <1>4 DEF AckInv, FlushInv
<1>9. QueueOrdered'
  <2>1. \A i \in 1..Len(queue) : queue[i].seq \in Nat /\ queue[i].seq <= Tip.seq /\ ack.seq \in Nat
    <3>1. \A i \in 1..Len(queue) : queue[i] \in Known
      BY DEF Known
    <3> QED
      BY <1>1, <1>2, <3>1, KnownTypes, InChainBound DEF AckInv, KnownInLog, Known
  <2>2. \A i \in 1..Len(queue') : i \in 1..Len(queue) \/ i = Len(queue) + 1
    BY <1>3, <1>4
  <2>3. ack.seq \in Nat /\ Tip.seq \in Nat
    BY <1>2, KnownTypes DEF Known, AckInv
  <2>4. \A i \in 1..Len(queue') : ack'.seq <= queue'[i].seq
    BY <1>1, <1>4, <2>2, <2>3 DEF AckInv, QueueOrdered
  <2>5. ASSUME NEW i \in 1..Len(queue'), NEW j \in 1..Len(queue'), i <= j
        PROVE  queue'[i].seq <= queue'[j].seq
    <3>1. CASE j = Len(queue) + 1
      BY <1>4, <2>1, <2>2, <2>3, <3>1
    <3>2. CASE j # Len(queue) + 1
      <4>1. j \in 1..Len(queue) /\ i \in 1..Len(queue)
        BY <1>3, <2>2, <2>5, <3>2
      <4> QED
        BY <1>4, <2>5, <4>1 DEF AckInv, QueueOrdered
    <3> QED
      BY <3>1, <3>2
  <2> QED
    BY <2>4, <2>5 DEF QueueOrdered
<1> QED
  BY <1>6, <1>7, <1>8, <1>9 DEF AckInv

\* The oldest entry is sent and written into the state file.
LEMMA SendKeepsAck ==
  ASSUME ChainInv, AckInv, Send \/ SendFails
  PROVE  AckInv'
<1>1. /\ daemon = "send" /\ UNCHANGED <<logVars, outages, state, statedisk>>
      /\ collected \subseteq collected'
  BY DEF Send, SendFails, logVars, chainVars
<1>2. CASE FlushFails
  BY <1>1, <1>2, FailKeepsAck DEF AckInv, DaemonTypes
<1>3. CASE /\ daemon' = "persist" /\ UNCHANGED <<strict, queue, ack>>
           /\ collected' = collected \cup {Head(queue)}
  <2>1. Known' = Known
    BY <1>1, <1>3 DEF Known
  <2>2. KnownInLog'
    BY <1>1, <2>1, DaemonLearns
  <2>3. DaemonTypes' /\ FlushInv' /\ QueueOrdered'
    BY <1>1, <1>3 DEF AckInv, DaemonTypes, FlushInv, QueueOrdered
  <2> QED
    BY <2>2, <2>3 DEF AckInv
<1> QED
  BY <1>2, <1>3 DEF Send, SendFails

\* Writing the state file (audit daemon, persist step) keeps the invariant, written or not.
LEMMA WriteKeepsAck ==
  ASSUME ChainInv, AckInv, StateWrite \/ StateWriteFails
  PROVE  AckInv'
<1>1. /\ daemon = "persist" /\ UNCHANGED <<logVars, outages, collected>>
  BY DEF StateWrite, StateWriteFails, logVars, chainVars
<1>2. CASE StateWriteFails
  BY <1>1, <1>2, FailKeepsAck DEF StateWriteFails, AckInv, DaemonTypes
<1>3. CASE StateWrite
  <2>1. /\ state' = Head(queue) /\ statedisk' = statedisk \cup {Head(queue), Torn}
        /\ daemon' = "fsync" /\ UNCHANGED <<queue, ack>>
    BY <1>3 DEF StateWrite
  <2>2. /\ queue # <<>> /\ Head(queue) \in collected
        /\ Head(queue) = queue[1] /\ Head(queue) \in Checkpoints /\ 1 \in 1..Len(queue)
    BY <1>1, HeadAndTail DEF AckInv, FlushInv
  <2>3. Known' \subseteq Known
    BY <2>1, <2>2 DEF Known
  <2>4. KnownInLog'
    BY <1>1, <2>3, DaemonLearns
  <2>5. DaemonTypes' /\ FlushInv' /\ QueueOrdered'
    BY <1>1, <2>1, <2>2 DEF AckInv, DaemonTypes, FlushInv, QueueOrdered
  <2> QED
    BY <2>4, <2>5 DEF AckInv
<1> QED
  BY <1>2, <1>3

\* The entry that is now acknowledged leaves the queue.
LEMMA SyncKeepsAck ==
  ASSUME ChainInv, AckInv, StateSync \/ StateSyncFails
  PROVE  AckInv'
<1>1. /\ daemon = "fsync" /\ UNCHANGED <<logVars, outages, state, collected>>
  BY DEF StateSync, StateSyncFails, logVars, chainVars
<1>2. CASE StateSyncFails
  BY <1>1, <1>2, FailKeepsAck DEF StateSyncFails, AckInv, DaemonTypes
<1>3. CASE StateSync
  <2>1. /\ statedisk' = {state} /\ ack' = Head(queue) /\ queue' = Tail(queue) /\ daemon' = "watch"
    BY <1>3 DEF StateSync
  <2>2. /\ Head(queue) = queue[1] /\ Head(queue) \in Checkpoints /\ 1 \in 1..Len(queue)
        /\ Tail(queue) \in Seq(Checkpoints) /\ Len(Tail(queue)) = Len(queue) - 1
        /\ \A i \in 1..Len(Tail(queue)) : Tail(queue)[i] = queue[i + 1] /\ i + 1 \in 1..Len(queue)
    BY <1>1, HeadAndTail DEF AckInv, FlushInv
  <2>3. Known' \subseteq Known
    BY <1>1, <2>1, <2>2 DEF Known
  <2>4. KnownInLog'
    BY <1>1, <2>3, DaemonLearns
  <2>5. DaemonTypes'
    <3>1. Len(queue) \in Nat
      BY LenProperties DEF AckInv, DaemonTypes
    <3> QED
      BY <1>1, <2>1, <2>2, <3>1, QueueAssumption DEF AckInv, DaemonTypes
  <2>6. FlushInv'
    BY <1>1, <2>1 DEF AckInv, FlushInv, DaemonTypes
  <2>7. QueueOrdered'
    <3>1. \A i \in 1..Len(queue') : ack'.seq <= queue'[i].seq
      BY <2>1, <2>2 DEF AckInv, QueueOrdered
    <3>2. \A i, j \in 1..Len(queue') : i <= j => queue'[i].seq <= queue'[j].seq
      BY <2>1, <2>2 DEF AckInv, QueueOrdered
    <3> QED
      BY <3>1, <3>2 DEF QueueOrdered
  <2> QED
    BY <2>4, <2>5, <2>6, <2>7 DEF AckInv
<1> QED
  BY <1>2, <1>3

\* After a power failure the state file is one the disk may have held.
LEMMA OutageKeepsAck ==
  ASSUME ChainInv, AckInv, Outage
  PROVE  AckInv'
<1>1. /\ daemon' = "down" /\ queue' = <<>> /\ ack' = None
      /\ state' \in statedisk /\ statedisk' = {state'} /\ collected' = collected
      /\ outages' = outages + 1
  BY DEF Outage, Exit, ChainOutage
<1>2. None \in Checkpoints
  BY NoneInChain
<1>3. DaemonTypes'
  BY <1>1, <1>2, QueueAssumption, EmptySeq DEF AckInv, DaemonTypes
<1>4. FlushInv'
  BY <1>1 DEF AckInv, FlushInv
<1>5. QueueOrdered'
  BY <1>1, EmptySeq DEF QueueOrdered
<1>6. KnownInLog'
  <2>1. daemon' = "down" /\ outages' # 0
    BY <1>1 DEF AckInv, DaemonTypes
  <2> QED
    BY <2>1 DEF KnownInLog
<1> QED
  BY <1>3, <1>4, <1>5, <1>6 DEF AckInv

\* The invariant holds when the daemon is down and the state file does not exist.
LEMMA AckInitially ==
  ASSUME DaemonInit
  PROVE  AckInv
<1>1. ChainInv
  BY ChainInitially DEF DaemonInit
<1>2. /\ daemon = "down" /\ queue = <<>> /\ ack = None /\ state = None /\ statedisk = {None}
      /\ outages = 0 /\ \A w \in Writers : at[w] = "idle"
  BY DEF DaemonInit, ChainInit
<1>3. InChain(None) /\ None \in Checkpoints
  BY <1>1, NoneInChain
<1>4. <<>> \in Seq(Checkpoints) /\ Len(<<>>) = 0
  BY EmptySeq
<1>5. Known \subseteq {None}
  BY <1>2, <1>4 DEF Known
<1>6. KnownInLog
  BY <1>2, <1>3, <1>5 DEF KnownInLog
<1> QED
  BY <1>2, <1>3, <1>4, <1>6, QueueAssumption DEF AckInv, DaemonTypes, FlushInv, QueueOrdered

\* Every step of the writers, the daemon, the collector and of failures keeps the invariant.
LEMMA AckInductive ==
  ASSUME ChainInv, AckInv, [Next]_vars
  PROVE  AckInv'
<1>1. CASE ChainStep /\ UNCHANGED daemonVars
  BY <1>1, ChainKept, WritersKeepAck
<1>2. CASE Stop \/ WatchFails \/ KillDaemon
  <2>1. Exit /\ UNCHANGED <<logVars, outages, state, statedisk, collected>>
    BY <1>2 DEF Stop, WatchFails, KillDaemon, logVars, chainVars
  <2> QED
    BY <2>1, ExitKeepsAck DEF AckInv, DaemonTypes
<1>3. CASE UNCHANGED vars
  <2>1. UNCHANGED <<logVars, outages, daemon, queue, ack, state, statedisk, collected>>
    BY <1>3 DEF vars, chainVars, daemonVars, logVars
  <2>2. Known' = Known
    BY <2>1 DEF Known
  <2>3. KnownInLog'
    BY <2>1, <2>2, DaemonLearns
  <2> QED
    BY <2>1, <2>3 DEF AckInv, DaemonTypes, FlushInv, QueueOrdered
<1> QED
  BY <1>1, <1>2, <1>3, StartKeepsAck, WatchKeepsAck, SendKeepsAck, WriteKeepsAck, SyncKeepsAck,
     OutageKeepsAck DEF Next, Running, Flush

-----------------------------------------------------------------------------
(* The properties. *)

\* The invariant of ar_auditd: every checkpoint that it holds while it runs
\* names a record of the log, and no rollback under way reaches it.
THEOREM AckInvariant == Spec => []AckInv
<1>1. DaemonInit => AckInv
  BY AckInitially
<1>2. AckInv /\ ChainInv /\ [Next]_vars => AckInv'
  BY AckInductive
<1> QED
  BY <1>1, <1>2, ChainInvariant, PTL DEF Spec

\* AuditTypeOK: types, and that a process is in a call only with the lock.
THEOREM AuditTypes == Spec => []AuditTypeOK
<1>1. ChainInv /\ AckInv => AuditTypeOK
  <2> SUFFICES ASSUME ChainInv, AckInv PROVE AuditTypeOK
    OBVIOUS
  <2>1. \A w \in Writers : chain[w].count \in 0..MaxSeq /\ at[w] \in Places
    BY DEF ChainInv, LocalsOK, Scans
  <2> QED
    BY <2>1 DEF ChainInv, LocalsOK, Places, CallInv, AckInv, DaemonTypes, AuditTypeOK
<1> QED
  BY <1>1, ChainInvariant, AckInvariant, PTL

\* AcknowledgementsTrue: the state file claims only what the collector got,
\* checkpoints name records that are still in the log as long as the power
\* stays on, and the queue is never out of order (forwarder.c, main.c).
THEOREM AcknowledgementsAreTrue == Spec => []AcknowledgementsTrue
<1>1. AckInv => AcknowledgementsTrue
  <2> SUFFICES ASSUME AckInv PROVE AcknowledgementsTrue
    OBVIOUS
  <2>1. outages = 0 => /\ InChain(ack) /\ (state # Torn => InChain(state))
                       /\ \A i \in 1..Len(queue) : InChain(queue[i])
    BY DEF AckInv, KnownInLog, Known
  <2> QED
    BY <2>1 DEF AckInv, FlushInv, QueueOrdered, AcknowledgementsTrue
<1> QED
  BY <1>1, AckInvariant, PTL
=============================================================================
