SPECIFICATION MCSpec
CONSTANTS
  Threads = {t1, t2, t3}
  MaxRounds = 3
  KeyThreads = {t1, t2}
  MaxKeys = 3
  Iterations = 2
  MaxCounter = 4
  None = None
CHECK_DEADLOCK FALSE
INVARIANTS
  BarrierHolds
  OnceAndKeys
PROPERTIES
  BarrierOpens
  DestroyEnds
