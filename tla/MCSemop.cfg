SPECIFICATION Spec
CONSTANTS
  NoThread = NoThread
  Threads = {t1, t2, t3}
  Sems = {0, 1}
  Vectors <- OnceEach
  SetVals = {2}
  Exits = TRUE
  Modulus = 8
  MaxCalls = 4
SYMMETRY Symmetry
INVARIANT NoCircularWait
PROPERTY ImplementsSemSpec
CHECK_DEADLOCK FALSE
