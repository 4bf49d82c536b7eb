SPECIFICATION MCSpec
CONSTANTS
  Threads = {t1}
  RingCbs = {c1, c2}
  Null = Null
  Entries = 2
  Width = 8
  Tries = 2
  RingCalls = 2
  Ops = {"aio_read", "LIO_WAIT", "LIO_NOWAIT", "aio_error", "aio_suspend", "aio_cancel", "aio_destroy"}
  Faults = TRUE
  Users = {u1, u2}
  Workers = {w1, w2}
  Cbs = {c1, c2}
  NoCb = NoCb
  QueueSize = 2
  MaxCalls = 4
INVARIANTS
  RingSound
  WorkersOwnQueue
PROPERTIES
  AcceptedCompletes
  PoolProceeds
