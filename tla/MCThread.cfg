SPECIFICATION ReturnsFairSpec
CONSTANTS
  Mains = {m1, m2}
  Children = {c1}
  Programs <- AllPrograms
  None = None
  Canceled = Canceled
INVARIANTS
  JoinResult
PROPERTIES
  JoinEnds
