CONSTANTS
  k1 = k1
  k2 = k2
  Controllers = {k1}
  Main = main
  Ops = {"start", "stop", "restart", "reload", "deploy", "list"}
  MaxProcs = 3
  HasServices = TRUE
SPECIFICATION FairSpec
INVARIANTS
  UpIsRunning
PROPERTIES
  
  CrashNoticed
