CONSTANTS
  Ids = {s1, s2}
  NoId = NoId
  Threads = {t1, t2}
  MaxStreams = 2
  DrainTimeout = 1
  WaitLimits = {1}
  MaxNow = 2
  MaxAccepted = 2
SPECIFICATION FairSpec
INVARIANTS
  TypeOK
  BooksExact
  CompletedMeansEmpty
PROPERTIES
  DrainOnlyShrinks
  RefinesContract
  WaitReturns
