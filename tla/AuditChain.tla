----------------------------- MODULE AuditChain -----------------------------
(***************************************************************************)
(* The audit log: one file of hash-chained records, appended to by any     *)
(* number of processes that share nothing but the file and its advisory    *)
(* whole-file lock (libraries/audit/hash_chain.c).                         *)
(*                                                                         *)
(* A record is abstracted to its sequence number, the hash of its          *)
(* predecessor and its payload; the SHA-256 of a record is an injective    *)
(* function of these (HashOf).  Bytes matter only where a record can be    *)
(* incomplete: the file is a sequence of whole records and possibly the    *)
(* beginning of one more.                                                  *)
(*                                                                         *)
(* `file' is what the processes read and write (the page cache), `ondisk'  *)
(* every content that a power failure may leave behind: whatever the file  *)
(* held since the last successful fsync.  The file system is assumed to    *)
(* extend a file only after the bytes of the extension are written, so a   *)
(* power failure tears a record but does not fill it with rubbish.         *)
(***************************************************************************)
EXTENDS Naturals, Sequences, FiniteSets, SequencesExt

CONSTANTS Writers,      \* the processes that append and recover
          NoOne,        \* the owner of a free lock
          MaxSeq,       \* UINT64_MAX, the last sequence number
          MaxFaults,    \* bound: system calls that fail
          MaxCrashes    \* bound: processes that die and power failures

ASSUME AuditAssumption == /\ NoOne \notin Writers
                          /\ MaxSeq \in Nat \ {0}
                          /\ {MaxFaults, MaxCrashes} \subseteq Nat

VARIABLES file,       \* [blocks, partial]: the records and an unfinished one
          ondisk,     \* the contents that a power failure may leave
          lock,       \* the process that holds the exclusive lock
          at,         \* where each process is in its call
          op,         \* the call it is in
          chain,      \* alrios_audit_chain_result_t of its scan
          status,     \* what the call will return
          committed,  \* the records up to the last append that returned OK
          faults, kills, outages

chainVars == <<file, ondisk, lock, at, op, chain, status, committed,
               faults, kills, outages>>

(***************************************************************************)
(* Records                                                                 *)
(***************************************************************************)
ZeroHash == <<>>

\* The SHA-256 over header and payload: it determines the record and,
\* through `prev', all records before it.
HashOf(b) == Append(b.prev, <<b.seq, b.payload>>)

LastHash(blocks) == IF blocks = <<>> THEN ZeroHash ELSE HashOf(Last(blocks))

\* Mutant: every record names the zero hash.
MutUnchained(c, payload) == [seq |-> c.count + 1, prev |-> ZeroHash, payload |-> payload]

BlockEncode(c, payload) ==
  [seq |-> IF c.count = 0 THEN 1 ELSE c.last + 1, prev |-> c.hash, payload |-> payload]

\* scan_locked's checks on complete records: numbered from 1 without a gap,
\* each naming the hash of the one before it.
ChainValid(blocks) ==
  /\ Len(blocks) <= MaxSeq
  /\ \A i \in 1..Len(blocks) :
        /\ blocks[i].seq = i
        /\ blocks[i].prev = LastHash(SubSeq(blocks, 1, i - 1))

ScanResult(blocks) == [count |-> Len(blocks),
                       last  |-> IF blocks = <<>> THEN 0 ELSE Last(blocks).seq,
                       hash  |-> LastHash(blocks)]

EmptyChain == ScanResult(<<>>)

\* alrios_audit_chain_verify_fd succeeds, under a shared lock.
Verifies == ChainValid(file.blocks) /\ ~file.partial

(***************************************************************************)
(* The file                                                                *)
(***************************************************************************)
WholeFile(blocks) == [blocks |-> blocks, partial |-> FALSE]

\* A modification reaches the disk whenever the system writes it back.
Modify(f) == file' = f /\ ondisk' = ondisk \cup {f}

\* write_exact_at of one record behind the n records that were scanned.
WriteAt(n, b) ==
  WholeFile(SubSeq(file.blocks, 1, n) \o <<b>> \o SubSeq(file.blocks, n + 2, Len(file.blocks)))

WritePartAt(n) == [blocks |-> SubSeq(file.blocks, 1, n), partial |-> TRUE]

TruncateTo(n) == WholeFile(SubSeq(file.blocks, 1, n))

\* Mutant: fsync is left out.
MutNoSync == UNCHANGED ondisk

\* sync_fd that succeeds.
SyncFd == ondisk' = {file}

\* Mutant: the lock is not waited for.
MutNoLock(w) == TRUE

\* fcntl F_SETLKW waits for the other owners; the lock belongs to the
\* process, which may hold it already when an earlier unlock failed.
LockFree(w) == lock \in {NoOne, w}

Crash == kills + outages < MaxCrashes

Fault == faults < MaxFaults /\ faults' = faults + 1

Go(w, where) == at' = [at EXCEPT ![w] = where]

Give(w, where, code) == Go(w, where) /\ status' = [status EXCEPT ![w] = code]

\* The call is over and its locals are gone.
Leave(w) == /\ Go(w, "idle")
            /\ op' = [op EXCEPT ![w] = "none"]
            /\ chain' = [chain EXCEPT ![w] = EmptyChain]
            /\ status' = [status EXCEPT ![w] = "none"]

(***************************************************************************)
(* chain_operation and alrios_audit_chain_append_fd                        *)
(***************************************************************************)
ChainInit == /\ file = WholeFile(<<>>)
             /\ ondisk = {WholeFile(<<>>)}
             /\ lock = NoOne
             /\ at = [w \in Writers |-> "idle"]
             /\ op = [w \in Writers |-> "none"]
             /\ chain = [w \in Writers |-> EmptyChain]
             /\ status = [w \in Writers |-> "none"]
             /\ committed = <<>>
             /\ faults = 0 /\ kills = 0 /\ outages = 0

\* lock_fd for an exclusive lock, at the start of either call.
LockFd(w) ==
  /\ at[w] = "idle" /\ LockFree(w)
  /\ lock' = w
  /\ \E o \in {"append", "recover"} : op' = [op EXCEPT ![w] = o]
  /\ Give(w, "scan", "ok")
  /\ UNCHANGED <<file, ondisk, chain, committed, faults, kills, outages>>

\* After a scan that succeeded: recovery is done; an append goes on unless
\* the numbers are used up or, at any time, it gets no buffer.
Scanned(w) ==
  /\ chain' = [chain EXCEPT ![w] = ScanResult(file.blocks)]
  /\ \/ op[w] = "recover" /\ Give(w, "unlock", "ok")
     \/ op[w] = "append" /\ Give(w, "unlock", "refused")
     \/ op[w] = "append" /\ ScanResult(file.blocks).last < MaxSeq /\ Give(w, "write", "ok")

Scan(w) ==
  /\ at[w] = "scan"
  /\ IF ~ChainValid(file.blocks) THEN Give(w, "unlock", "invalid") /\ UNCHANGED chain
     ELSE IF file.partial        THEN Give(w, "cut", "ok") /\ UNCHANGED chain
     ELSE Scanned(w)
  /\ UNCHANGED <<file, ondisk, lock, op, committed, faults, kills, outages>>

\* The partial_tail branch of scan_locked: truncate ...
CutTail(w) ==
  /\ at[w] = "cut"
  /\ \/ Modify(TruncateTo(Len(file.blocks))) /\ Give(w, "cutsync", "ok") /\ UNCHANGED faults
     \/ Fault /\ Give(w, "unlock", "io") /\ UNCHANGED <<file, ondisk>>
  /\ UNCHANGED <<lock, op, chain, committed, kills, outages>>

\* ... and make that durable before anything is appended.
CutSync(w) ==
  /\ at[w] = "cutsync"
  /\ \/ SyncFd /\ Scanned(w) /\ UNCHANGED faults
     \/ Fault /\ Give(w, "unlock", "io") /\ UNCHANGED <<ondisk, chain>>
  /\ UNCHANGED <<file, lock, op, committed, kills, outages>>

\* write_exact_at may take several calls of pwrite ...
WriteSome(w) ==
  /\ at[w] = "write"
  /\ Modify(WritePartAt(chain[w].count))
  /\ Go(w, "writing")
  /\ UNCHANGED <<lock, op, chain, status, committed, faults, kills, outages>>

\* ... the last of which completes the record ...
WriteRest(w) ==
  /\ at[w] \in {"write", "writing"}
  /\ Modify(WriteAt(chain[w].count, BlockEncode(chain[w], w)))
  /\ Go(w, "sync")
  /\ UNCHANGED <<lock, op, chain, status, committed, faults, kills, outages>>

\* ... and any of which may fail.
WriteFails(w) ==
  /\ at[w] \in {"write", "writing"}
  /\ Fault
  /\ Give(w, "undo", "io")
  /\ UNCHANGED <<file, ondisk, lock, op, chain, committed, kills, outages>>

SyncRecord(w) ==
  /\ at[w] = "sync"
  /\ \/ SyncFd /\ Give(w, "unlock", "ok") /\ UNCHANGED faults
     \/ Fault /\ Give(w, "undo", "io") /\ UNCHANGED ondisk
  /\ UNCHANGED <<file, lock, op, chain, committed, kills, outages>>

\* The rollback to the previously valid length, itself of two calls.
UndoRecord(w) ==
  /\ at[w] = "undo"
  /\ \/ Modify(TruncateTo(chain[w].count)) /\ Go(w, "undosync") /\ UNCHANGED faults
     \/ Fault /\ Go(w, "unlock") /\ UNCHANGED <<file, ondisk>>
  /\ UNCHANGED <<lock, op, chain, status, committed, kills, outages>>

UndoSync(w) ==
  /\ at[w] = "undosync"
  /\ \/ SyncFd /\ UNCHANGED faults
     \/ Fault /\ UNCHANGED ondisk
  /\ Go(w, "unlock")
  /\ UNCHANGED <<file, lock, op, chain, status, committed, kills, outages>>

\* unlock_fd and the return to the caller.  An append that returns OK has
\* promised its record.  If unlocking fails the lock stays with the process
\* and even a finished append reports an error.
UnlockFd(w) ==
  /\ at[w] = "unlock"
  /\ \/ /\ lock' = NoOne /\ UNCHANGED faults
        /\ committed' = IF op[w] = "append" /\ status[w] = "ok"
                        THEN SubSeq(file.blocks, 1, chain[w].count + 1) ELSE committed
     \/ Fault /\ UNCHANGED <<lock, committed>>
  /\ Leave(w)
  /\ UNCHANGED <<file, ondisk, kills, outages>>

(***************************************************************************)
(* Crashes                                                                 *)
(***************************************************************************)
\* A process dies (or exits): its lock goes with it, the file stays.
KillWriter(w) ==
  /\ Crash /\ kills' = kills + 1
  /\ lock = w /\ lock' = NoOne
  /\ Leave(w)
  /\ UNCHANGED <<file, ondisk, committed, faults, outages>>

\* The power fails: all processes are gone and the file is one of the
\* contents the disk may have had.
ChainOutage ==
  /\ Crash /\ outages' = outages + 1
  /\ file' \in ondisk /\ ondisk' = {file'}
  /\ lock' = NoOne
  /\ at' = [w \in Writers |-> "idle"]
  /\ op' = [w \in Writers |-> "none"]
  /\ chain' = [w \in Writers |-> EmptyChain]
  /\ status' = [w \in Writers |-> "none"]
  /\ UNCHANGED <<committed, faults, kills>>

WriterStep(w) == \/ LockFd(w)
                 \/ Scan(w) \/ CutTail(w) \/ CutSync(w)
                 \/ WriteSome(w) \/ WriteRest(w) \/ WriteFails(w)
                 \/ SyncRecord(w) \/ UndoRecord(w) \/ UndoSync(w)
                 \/ UnlockFd(w)

ChainStep == \E w \in Writers : WriterStep(w) \/ KillWriter(w)

ChainSpec == ChainInit /\ [][ChainStep \/ ChainOutage]_chainVars

(***************************************************************************)
(* Properties                                                              *)
(***************************************************************************)
\* An append that returned OK is for good: its record and all records
\* before it stay where they are through the appends, recoveries, failed
\* system calls and rollbacks of all processes, through crashes and through
\* power failures (the fsync-before-success rule of append_fd).
CommittedSurvives ==
  \A f \in ondisk \cup {file} : IsPrefix(committed, f.blocks)

\* Whatever interrupts whom, the complete records in the file form a valid
\* chain, now and after a power failure: at worst an unfinished record
\* follows, which scan_locked recognises and cuts off.
ChainVerifies == \A f \in ondisk \cup {file} : ChainValid(f.blocks)
=============================================================================
