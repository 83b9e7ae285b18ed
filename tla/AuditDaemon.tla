---------------------------- MODULE AuditDaemon ----------------------------
(***************************************************************************)
(* ar_auditd and the forwarder it drives (daemons/ar_auditd/main.c,        *)
(* libraries/audit/forwarder.c): it watches the tip of the audit log,      *)
(* queues a checkpoint of each new tip, sends the oldest one to the        *)
(* collector, and keeps the last acknowledged checkpoint in a state file.  *)
(* The log and the processes that write it are those of AuditChain.        *)
(*                                                                         *)
(* A checkpoint is the pair of a sequence number and a record hash; its    *)
(* MAC, the timestamp (always 0) and the receipt's nonce are left out.     *)
(* The ring buffer of the forwarder is a sequence of bounded length.       *)
(***************************************************************************)
EXTENDS AuditChain

CONSTANTS QueueCapacity,  \* AUDITD_DEFAULT_QUEUE_SIZE
          Torn            \* a state file whose size or MAC is wrong

ASSUME QueueAssumption == QueueCapacity \in Nat \ {0}

VARIABLES daemon,     \* where ar_auditd is
          strict,     \* in the flush of --drain-existing, whose failure is fatal
          queue,      \* fwd->queue
          ack,        \* fwd->persisted_state
          state,      \* the state file
          statedisk,  \* the contents a power failure may leave in it
          collected   \* the checkpoints that the collector has received

daemonVars == <<daemon, strict, queue, ack, state, statedisk, collected>>

vars == <<chainVars, daemonVars>>

None == [seq |-> 0, hash |-> ZeroHash]

Tip == [seq |-> ScanResult(file.blocks).last, hash |-> ScanResult(file.blocks).hash]

\* Mutant: the log is read without the lock.
MutReadsUnlocked == TRUE

\* lock_fd for a shared lock: verification waits while a process is writing.
MayRead == lock = NoOne

DaemonInit == /\ ChainInit
              /\ daemon = "down" /\ strict = FALSE
              /\ queue = <<>> /\ ack = None
              /\ state = None /\ statedisk = {None}
              /\ collected = {}

(***************************************************************************)
(* Start and end of the process                                            *)
(***************************************************************************)
Exit == daemon' = "down" /\ queue' = <<>> /\ ack' = None /\ strict' = FALSE

\* alrios_forwarder_verify_chain_not_rolled_back: the tip must be exactly
\* the checkpoint that was acknowledged last, if there was one.
NotRolledBack == Verifies /\ (state # None => Tip = state)

\* ar_auditd comes up, and with --drain-existing queues the tip at once.
\* A start that finds the state file torn or the log rolled back ends
\* without having changed anything.
Start ==
  /\ daemon = "down" /\ state # Torn
  /\ MayRead /\ NotRolledBack
  /\ ack' = state
  /\ \/ daemon' = "watch" /\ UNCHANGED <<queue, strict>>
     \/ /\ Tip.seq > state.seq
        /\ daemon' = "send" /\ queue' = <<Tip>> /\ strict' = TRUE
  /\ UNCHANGED <<chainVars, state, statedisk, collected>>

\* A signal, or --once: the loop is left at its end.
Stop == /\ daemon = "watch" /\ Exit
        /\ UNCHANGED <<chainVars, state, statedisk, collected>>

(***************************************************************************)
(* The loop                                                                *)
(***************************************************************************)
\* The chain no longer verifies: ar_auditd ends.
WatchFails == /\ daemon = "watch" /\ MayRead /\ ~Verifies
              /\ Exit
              /\ UNCHANGED <<chainVars, state, statedisk, collected>>

\* Mutant: what is queued already is not queued again.
MutOnlyUnqueued == Tip.seq > (IF queue = <<>> THEN ack ELSE Last(queue)).seq

NewTip == Tip.seq > ack.seq

Enqueue(c) == Append(queue, c)

\* alrios_forwarder_enqueue: a new tip is queued unless the queue is full;
\* only then is the queue flushed.
Watch == /\ daemon = "watch" /\ MayRead /\ Verifies
         /\ NewTip /\ Len(queue) < QueueCapacity
         /\ queue' = Enqueue(Tip)
         /\ daemon' = "send"
         /\ UNCHANGED <<chainVars, strict, ack, state, statedisk, collected>>

\* A flush that fails leaves its entry at the head of the queue.  The loop
\* ignores the failure, --drain-existing does not.
FlushFails == IF strict THEN Exit
              ELSE daemon' = "watch" /\ UNCHANGED <<strict, queue, ack>>

\* The transport delivers the oldest entry and brings back the receipt.
\* alrios_forwarder_flush refuses to go back behind the last receipt.
Send == /\ daemon = "send"
        /\ collected' = collected \cup {Head(queue)}
        /\ IF ack.seq > Head(queue).seq THEN FlushFails
           ELSE daemon' = "persist" /\ UNCHANGED <<strict, queue, ack>>
        /\ UNCHANGED <<chainVars, state, statedisk>>

\* It delivers nothing, or only the receipt is lost, late or forged.
SendFails == /\ daemon = "send" /\ Fault
             /\ collected' \in {collected, collected \cup {Head(queue)}}
             /\ FlushFails
             /\ UNCHANGED <<file, ondisk, lock, at, op, chain, status, committed,
                            kills, outages, state, statedisk>>

\* alrios_forwarder_state_write overwrites the state file in place ...
StateWrite == /\ daemon = "persist"
              /\ state' = Head(queue)
              /\ statedisk' = statedisk \cup {Head(queue), Torn}
              /\ daemon' = "fsync"
              /\ UNCHANGED <<chainVars, strict, queue, ack, collected>>

\* ... where the pwrite may fail at the start or half way ...
StateWriteFails ==
  /\ daemon = "persist" /\ Fault
  /\ state' \in {state, Torn} /\ statedisk' = statedisk \cup {state'}
  /\ FlushFails
  /\ UNCHANGED <<file, ondisk, lock, at, op, chain, status, committed,
                 kills, outages, collected>>

\* ... and only after the fsync the entry leaves the queue.
StateSync == /\ daemon = "fsync"
             /\ statedisk' = {state}
             /\ ack' = Head(queue) /\ queue' = Tail(queue)
             /\ daemon' = "watch" /\ strict' = FALSE
             /\ UNCHANGED <<chainVars, state, collected>>

\* The ftruncate or the fsync fails: the file has the new checkpoint, the
\* process keeps the old one.
StateSyncFails == /\ daemon = "fsync" /\ Fault
                  /\ FlushFails
                  /\ UNCHANGED <<file, ondisk, lock, at, op, chain, status, committed,
                                 kills, outages, state, statedisk, collected>>

(***************************************************************************)
(* Crashes                                                                 *)
(***************************************************************************)
KillDaemon == /\ daemon # "down" /\ Crash /\ kills' = kills + 1
              /\ Exit
              /\ UNCHANGED <<file, ondisk, lock, at, op, chain, status, committed,
                             faults, outages, state, statedisk, collected>>

Outage == /\ ChainOutage
          /\ state' \in statedisk /\ statedisk' = {state'}
          /\ Exit
          /\ UNCHANGED collected

Flush == \/ Send \/ SendFails
         \/ StateWrite \/ StateWriteFails \/ StateSync \/ StateSyncFails

Running == Watch \/ WatchFails \/ Flush

Next == \/ ChainStep /\ UNCHANGED daemonVars
        \/ Start \/ Stop \/ Running
        \/ KillDaemon \/ Outage

Spec == DaemonInit /\ [][Next]_vars

\* A process that has the lock runs on, and so does ar_auditd: both are
\* ordinary loops without waiting other than for the lock, which is granted
\* sooner or later (strong fairness: the lock is free between two appends).
FairSpec ==
  /\ Spec
  /\ \A w \in Writers :
        WF_vars(WriterStep(w) /\ ~LockFd(w) /\ UNCHANGED <<daemonVars, faults>>)
  /\ SF_vars(Running /\ UNCHANGED faults)

(***************************************************************************)
(* Properties                                                              *)
(***************************************************************************)
Checkpoints == [seq : 0..MaxSeq, hash : Seq((1..MaxSeq) \X Writers)]

AuditTypeOK ==
  /\ lock \in Writers \cup {NoOne}
  /\ \A w \in Writers :
       /\ at[w] \in {"idle", "scan", "cut", "cutsync", "write", "writing", "sync",
                     "undo", "undosync", "unlock"}
       /\ chain[w].count \in 0..MaxSeq
       /\ at[w] # "idle" => lock = w
  /\ daemon \in {"down", "watch", "send", "persist", "fsync"}
  /\ queue \in Seq(Checkpoints) /\ Len(queue) <= QueueCapacity
  /\ ack \in Checkpoints
  /\ state \in Checkpoints \cup {Torn} /\ state \in statedisk

InChain(c) == \E i \in 0..Len(file.blocks) :
                 c = [seq |-> i, hash |-> LastHash(SubSeq(file.blocks, 1, i))]

\* An acknowledgement is true.  No crash, lost receipt or failed write makes
\* the state file claim what the collector did not get.  As long as the power
\* stays on, what was acknowledged, by the process and by its state file, and
\* what is queued to be, names records that are still in the log: a rollback
\* of a failed append never takes back a record that ar_auditd has seen.  And
\* the queue is in the order of the log, with nothing older than the last
\* acknowledgement, whatever failed flushes left in it: the ROLLBACK_DETECTED
\* return of alrios_forwarder_flush is never taken.
AcknowledgementsTrue ==
  /\ \A c \in statedisk : c \in {None, Torn} \/ c \in collected
  /\ outages = 0 => /\ InChain(ack) /\ (state # Torn => InChain(state))
                    /\ \A i \in 1..Len(queue) : InChain(queue[i])
  /\ \A i \in 1..Len(queue) : ack.seq <= queue[i].seq
  /\ \A i, j \in 1..Len(queue) : i <= j => queue[i].seq <= queue[j].seq

\* While ar_auditd runs, a record that is in the log is acknowledged in the
\* end ("Monitor chain tip and forward when new blocks appear"), unless an
\* idle process was left with the lock or the queue has filled up.
TipForwarded ==
  \A n \in 1..MaxSeq :
    (daemon # "down" /\ Len(file.blocks) >= n)
      ~> \/ daemon = "down" \/ ack.seq >= n
         \/ Len(file.blocks) < n
         \/ lock # NoOne /\ at[lock] = "idle"

\* What the message "audit log rollback or tampering detected" says: where
\* ar_auditd refuses to start because of the log, the log has lost a record
\* that the state file acknowledges.
AlarmMeansRollback ==
  (daemon = "down" /\ state # Torn /\ lock = NoOne /\ ~NotRolledBack) => ~InChain(state)
=============================================================================
