SPECIFICATION MCSpec
CONSTANTS
  Threads = {t1, t2, t3, t4}
  Width = 5
  Mallocs = {t1}
  Forker = forker
  Child = child
  Bins = 2
  ForkWidth = 2
  Users = {t1, t2}
  TlsOf <- OwnTls
  Limit = 6
  Chunk = 4
  MinChunk = 2
  Needs = {2, 3}
  CursorWidth = 24
  MaxCursor = 12
INVARIANTS
  FirstComeFirstServed
  SnapshotConsistent
  
PROPERTIES
  EveryoneServed
  ParentProceeds
