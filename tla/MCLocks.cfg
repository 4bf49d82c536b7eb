SPECIFICATION MCSpec
CONSTANTS
  Threads = {t1, t2, t3}
  None = None
  Types = {"NORMAL", "RECURSIVE", "ERRORCHECK", "ROBUST"}
  MaxDepth = 2
  Readers = {t1, t2}
  Writers = {t3}
  Consumers = {t1, t2}
  Producers = {t3}
  MaxPuts = 2
INVARIANTS
  OwnerExact
  WakeupPending
  RwlockExact
  SignalInFlight
PROPERTIES
  NoStrandedSleeper
  ImplementsMutexSpec
  NoLostWakeup
