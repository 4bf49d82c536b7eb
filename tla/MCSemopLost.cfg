SPECIFICATION FairSpec
CONSTANTS
  NoThread = NoThread
  Threads = {t1, t2}
  Sems = {0}
  Vectors <- PostWait
  SetVals = {2}
  Exits = FALSE
  Modulus = 8
  MaxCalls = 3
PROPERTY SemopWakes
CHECK_DEADLOCK FALSE
