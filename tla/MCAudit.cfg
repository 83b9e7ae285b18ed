\* Two processes append while ar_auditd forwards; system calls fail,
\* processes die and the power goes once.
SPECIFICATION FairSpec
CONSTANTS
  Writers = {w1, w2}
  NoOne = NoOne
  MaxSeq = 2
  MaxFaults = 2
  MaxCrashes = 1
  QueueCapacity = 3
  Torn = Torn
INVARIANTS
  AuditTypeOK
  CommittedSurvives
  ChainVerifies
  AcknowledgementsTrue

  
CHECK_DEADLOCK FALSE
