CONSTANTS
  k1 = k1
  k2 = k2
  Controllers = {k1}
  Main = main
  Ops = {"start", "stop", "reload", "deploy"}
  MaxProcs = 2
  HasServices = TRUE
SPECIFICATION Spec
INVARIANT ReplacedIsGone
