SPECIFICATION MCSpec
CONSTANTS
  Threads = {t1, t2, t3}
  Prios = {0, 1}
  MaxMsg = 2
  MaxSends = 4
  MaxRegs = 1
  Openers = {o1, o2}
  Names = {a, b}
  NoName = NoName
  PoolMax = 2
  DescMax = 3
  BadAttr = TRUE
  Shared = FALSE
  MaxOpens = 3
SYMMETRY Symmetry
INVARIANTS
  NoLostWakeup
  RegistrySound
PROPERTY
  ImplementsMqueueSpec
