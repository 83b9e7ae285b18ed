---------------------------- MODULE SecurityEpoch ----------------------------
(***************************************************************************)
(* The security epoch: one record in one file, advanced by                 *)
(* `ar_chronod --set-epoch N' under an exclusive lock and loaded by the    *)
(* time daemon without one (libraries/policy/security_epoch.c,             *)
(* daemons/ar_chronod/main.c).                                             *)
(*                                                                         *)
(* The integrity tag is an injective function of the body, so a state is   *)
(* intact when its `tag' equals its body.  `ondisk' is every content that  *)
(* a power failure may leave: what the file held since the last fsync.     *)
(* The record is overwritten in place; a write that stops half way leaves  *)
(* a mixture, whose tag is wrong, or, in a new file, a short file.         *)
(***************************************************************************)
EXTENDS Naturals, FiniteSets

CONSTANTS Setters,      \* processes that run --set-epoch
          NoOne,        \* the owner of a free lock
          Epochs,       \* the epochs asked for
          HybridEpoch,  \* ALRIOS_EPOCH_CRYPTO_HYBRID_PQC
          Times,        \* the readings of CLOCK_REALTIME
          Threshold,    \* backward_step_threshold_ns
          SavePeriod,   \* ticks of the daemon between two saves
          FirstFiles,   \* the files the system starts with: "record" or "none"
          MaxClock,     \* bound: readings of CLOCK_MONOTONIC
          MaxLosses     \* bound: failed writes, killed processes, outages

ASSUME EpochAssumption == /\ Epochs \subseteq Nat /\ Times \subseteq Nat
                          /\ HybridEpoch \in Nat /\ Threshold \in Nat
                          /\ SavePeriod \in Nat /\ MaxLosses \in Nat
                          /\ MaxClock \in Nat \ {0}
                          /\ NoOne \notin Setters

VARIABLES file, ondisk, lock, setter, daemon, realtime, monotonic, granted, losses,
          provisioned   \* whether the file held a record from the beginning

epochVars == <<file, ondisk, lock, setter, daemon, realtime, monotonic, granted, losses,
               provisioned>>

(***************************************************************************)
(* Records and files                                                       *)
(***************************************************************************)
Body(s) == <<s.epoch, s.at, s.mono>>
WrongTag == <<0, 0, 0>>

\* compute_integrity_tag over build_body, and the check of it.
Sealed(s) == [s EXCEPT !.tag = Body(s)]
Intact(s) == s.tag = Body(s)

NoState == [epoch |-> 0, at |-> 0, mono |-> 0, tag |-> WrongTag]
StateOf(e) == Sealed([epoch |-> e, at |-> realtime, mono |-> monotonic, tag |-> WrongTag])

Missing == [kind |-> "none", state |-> NoState]
EmptyFile == [kind |-> "empty", state |-> NoState]
ShortFile == [kind |-> "short", state |-> NoState]
Holding(s) == [kind |-> "record", state |-> s]

\* What a write of s that does not finish leaves of the content c.
Torn(c, s) == IF c.kind = "record" THEN Holding([s EXCEPT !.tag = WrongTag])
                                   ELSE ShortFile

\* alrios_epoch_state_read_fd: too few bytes, a wrong tag, or a state.
ReadResult(c) == IF c.kind /= "record" THEN "io"
                 ELSE IF ~ Intact(c.state) THEN "integrity" ELSE "ok"
Readable(c) == ReadResult(c) = "ok"

\* Mutant: the realtime clock may be behind the record.
MutIgnoresAnchor(s, e) == IF e < s.epoch THEN "rollback" ELSE "ok"

\* alrios_epoch_state_advance: the verdict on an intact state.
AdvanceResult(s, e) == IF e < s.epoch THEN "rollback"
                       ELSE IF realtime < s.at THEN "time_backward" ELSE "ok"

(***************************************************************************)
(* The gates: what an epoch refuses                                        *)
(***************************************************************************)
GatePolicy(s, p) == IF p.epoch < s.epoch THEN "outdated"
                    ELSE IF s.epoch < p.min THEN "rollback"
                    ELSE IF p.until > 0 /\ s.at > p.until THEN "expired" ELSE "ok"

GateAlgorithm(s, algo) ==
  IF algo = "ed25519" /\ s.epoch >= HybridEpoch THEN "outdated" ELSE "ok"

Algorithms == {"ed25519", "ml_dsa", "hybrid", "ml_kem", "aes_gcm"}
Policies == [epoch : Epochs, min : Epochs, until : Times \union {0}]

(***************************************************************************)
(* --set-epoch: alrios_epoch_file_advance                                  *)
(***************************************************************************)
Idle == [pc |-> "idle", state |-> NoState]
DaemonOff == [pc |-> "off", state |-> NoState, last |-> 0, mono |-> 0, ticks |-> 0]

EpochInit == /\ realtime \in Times /\ monotonic = 1
             /\ \E first \in FirstFiles :
                  /\ provisioned = (first = "record")
                  /\ file = IF provisioned THEN Holding(StateOf(1)) ELSE Missing
             /\ ondisk = {file}
             /\ lock = NoOne
             /\ setter = [p \in Setters |-> Idle]
             /\ daemon = DaemonOff
             /\ granted = file.state
             /\ losses = 0

Step(p, pc, s) == setter' = [setter EXCEPT ![p] = [pc |-> pc, state |-> s]]

\* open(O_CREAT); the epoch asked for waits in the state.
Open(p) == /\ setter[p].pc = "idle"
           /\ \E e \in Epochs : Step(p, "lock", [NoState EXCEPT !.epoch = e])
           /\ file' = IF file.kind = "none" THEN EmptyFile ELSE file
           /\ ondisk' = ondisk \union {file'}
           /\ UNCHANGED <<lock, daemon, realtime, monotonic, granted, losses>>

Lock(p) == /\ setter[p].pc = "lock" /\ lock = NoOne
           /\ lock' = p
           /\ Step(p, "read", setter[p].state)
           /\ UNCHANGED <<file, ondisk, daemon, realtime, monotonic, granted, losses>>

\* An empty file is initialised, any other one read and advanced; a refusal
\* unlocks and ends the call.
Decide(p) ==
  LET e == setter[p].state.epoch
      result == IF file.kind = "empty" THEN "ok"
                ELSE IF Readable(file) THEN AdvanceResult(file.state, e)
                ELSE ReadResult(file)
  IN  /\ setter[p].pc = "read"
      /\ IF result = "ok" THEN Step(p, "write", StateOf(e)) /\ UNCHANGED lock
                          ELSE setter' = [setter EXCEPT ![p] = Idle] /\ lock' = NoOne
      /\ UNCHANGED <<file, ondisk, daemon, realtime, monotonic, granted, losses>>

\* alrios_epoch_state_write_fd up to the fsync.
Write(s) == file' = Holding(s) /\ ondisk' = ondisk \union {file', Torn(file, s)}

SetterWrite(p) == /\ setter[p].pc = "write"
                  /\ Write(setter[p].state)
                  /\ Step(p, "sync", setter[p].state)
                  /\ UNCHANGED <<lock, daemon, realtime, monotonic, granted, losses>>

\* fsync, unlock, and OK for the caller.
SetterSync(p) == /\ setter[p].pc = "sync"
                 /\ ondisk' = {file}
                 /\ granted' = setter[p].state
                 /\ lock' = NoOne
                 /\ setter' = [setter EXCEPT ![p] = Idle]
                 /\ UNCHANGED <<file, daemon, realtime, monotonic, losses>>

\* write, ftruncate or fsync fails, or the process is killed at any point:
\* the lock is gone and nothing was promised.
SetterFails(p) ==
  /\ setter[p].pc /= "idle" /\ losses < MaxLosses
  /\ losses' = losses + 1
  /\ \/ UNCHANGED <<file, ondisk>>
     \/ /\ setter[p].pc = "write"
        /\ file' = Torn(file, setter[p].state)
        /\ ondisk' = ondisk \union {file'}
  /\ lock' = IF lock = p THEN NoOne ELSE lock
  /\ setter' = [setter EXCEPT ![p] = Idle]
  /\ UNCHANGED <<daemon, realtime, monotonic, granted>>

(***************************************************************************)
(* The time monitor and the daemon                                         *)
(***************************************************************************)
\* alrios_time_monitor_update: d.last and d.mono are 0 before the first one.
MonitorResult(d) == IF d.last = 0 /\ d.mono = 0 THEN "ok"
                    ELSE IF \/ monotonic < d.mono
                            \/ d.last > realtime + Threshold THEN "time_backward" ELSE "ok"
Sampled(d) == [d EXCEPT !.last = realtime, !.mono = monotonic]

\* alrios_time_monitor_verify_against_anchor.
AgainstAnchor(d) == d.state.at = 0 \/ d.last = 0 \/ d.last >= d.state.at

Load == /\ daemon.pc = "off"
        /\ daemon' = CASE ReadResult(file) = "ok" ->
                            [daemon EXCEPT !.pc = "monitor", !.state = file.state]
                       [] ReadResult(file) = "io" -> [daemon EXCEPT !.pc = "create"]
                       [] OTHER                   -> daemon
        /\ UNCHANGED <<file, ondisk, lock, setter, realtime, monotonic, granted, losses>>

\* The file cannot be read: epoch 1, saved without the lock.
Create == /\ daemon.pc = "create"
          /\ Write(StateOf(1))
          /\ daemon' = [daemon EXCEPT !.pc = "created", !.state = StateOf(1)]
          /\ UNCHANGED <<lock, setter, realtime, monotonic, granted, losses>>

Saved == /\ daemon.pc \in {"created", "saved"}
         /\ ondisk' = {file}
         /\ daemon' = [daemon EXCEPT !.pc = IF @ = "created" THEN "monitor" ELSE "loop"]
         /\ UNCHANGED <<file, lock, setter, realtime, monotonic, granted, losses>>

FirstSample == LET d == Sampled(daemon) IN
  /\ daemon.pc = "monitor"
  /\ daemon' \in IF AgainstAnchor(d) THEN {[d EXCEPT !.pc = "loop"], DaemonOff} ELSE {DaemonOff}
  /\ UNCHANGED <<file, ondisk, lock, setter, realtime, monotonic, granted, losses>>

\* What the daemon saves every SavePeriod ticks: the tag is the old one.
Anchor(d) == [d.state EXCEPT !.at = d.last, !.mono = d.mono]

\* One turn of the loop, after a sleep; a save that fails is ignored, and
\* encoding fails for a state that is not intact.
Turn ==
  LET d == Sampled(daemon)
      due == daemon.ticks + 1 >= SavePeriod
      saved == [d EXCEPT !.state = Anchor(d), !.ticks = 0]
  IN  /\ daemon.pc = "loop" /\ monotonic > daemon.mono
      /\ IF MonitorResult(daemon) /= "ok" \/ ~ AgainstAnchor(d)
         THEN daemon' = DaemonOff /\ UNCHANGED <<file, ondisk>>
         ELSE IF ~ due
         THEN daemon' = [d EXCEPT !.ticks = @ + 1] /\ UNCHANGED <<file, ondisk>>
         ELSE IF Intact(Anchor(d))
         THEN daemon' = [saved EXCEPT !.pc = "saved"] /\ Write(Anchor(d))
         ELSE daemon' = saved /\ UNCHANGED <<file, ondisk>>
      /\ UNCHANGED <<lock, setter, realtime, monotonic, granted, losses>>

Terminate == /\ daemon.pc /= "off"
             /\ daemon' = DaemonOff
             /\ UNCHANGED <<file, ondisk, lock, setter, realtime, monotonic, granted, losses>>

(***************************************************************************)
(* The machine: clocks that run and are set, and power failures            *)
(***************************************************************************)
ClockRuns == /\ monotonic < MaxClock
             /\ monotonic' = monotonic + 1
             /\ realtime' \in Times
             /\ UNCHANGED <<file, ondisk, lock, setter, daemon, granted, losses>>

\* CLOCK_MONOTONIC starts again at boot; its readings are numbered on, since
\* two boots never meet in one comparison except for equality of a tag.
Outage == /\ losses < MaxLosses
          /\ losses' = losses + 1
          /\ \E c \in ondisk : file' = c /\ ondisk' = {c}
          /\ lock' = NoOne
          /\ setter' = [p \in Setters |-> Idle]
          /\ daemon' = DaemonOff
          /\ UNCHANGED <<realtime, monotonic, granted>>

EpochNext == \/ \E p \in Setters : \/ Open(p) \/ Lock(p) \/ Decide(p)
                                   \/ SetterWrite(p) \/ SetterSync(p) \/ SetterFails(p)
             \/ Load \/ Create \/ Saved \/ FirstSample \/ Turn \/ Terminate
             \/ ClockRuns \/ Outage

EpochSpec == EpochInit /\ [][EpochNext /\ UNCHANGED provisioned]_epochVars

(***************************************************************************)
(* Properties                                                              *)
(***************************************************************************)
StateType == [epoch : Epochs \union {0, 1}, at : Times \union {0}, mono : 0 .. MaxClock,
              tag : (Epochs \union {0, 1}) \X (Times \union {0}) \X (0 .. MaxClock)]
FileType == [kind : {"none", "empty", "short", "record"}, state : StateType]

EpochTypeOK == /\ file \in FileType /\ ondisk \subseteq FileType /\ granted \in StateType
               /\ lock \in Setters \union {NoOne}
               /\ setter \in [Setters -> [pc : {"idle", "lock", "read", "write", "sync"},
                                          state : StateType]]
               /\ daemon.pc \in {"off", "create", "created", "monitor", "loop", "saved"}
               /\ daemon.state \in StateType

\* Anti-rollback, on a system whose file was provisioned: once --set-epoch
\* has returned success, whatever can be read from the file, now or after a power failure, has no lower epoch and
\* no earlier anchor, and refuses as outdated all that the granted epoch
\* refused (alrios_epoch_file_advance against concurrent setters, failed
\* writes, outages, and a daemon that saves the state it loaded long ago).
AdvanceStands ==
  /\ EpochTypeOK
  /\ \A c \in ondisk \union {file} :
       provisioned /\ Readable(c) =>
         /\ c.state.epoch >= granted.epoch
         /\ c.state.at >= granted.at
         /\ \A p \in Policies : GatePolicy(granted, p) = "outdated"
                                  => GatePolicy(c.state, p) = "outdated"
         /\ \A algo \in Algorithms : GateAlgorithm(granted, algo) = "outdated"
                                       => GateAlgorithm(c.state, algo) = "outdated"
=============================================================================
