CONSTANTS
  k1 = k1
  k2 = k2
  Controllers = {k1, k2}
  Main = main
  Ops = {"start", "stop", "restart", "reload", "deploy", "list"}
  MaxProcs = 2
  HasServices = TRUE
SPECIFICATION Spec
SYMMETRY Controllers2
INVARIANTS
  DeployedIsInSlot
  SignalsSpareServing
