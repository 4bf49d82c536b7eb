SPECIFICATION Spec
CONSTANTS
  Threads = {t1}
  None = None
  HDR = 1
  Linear = 4
  Concurency = 8
  COALESCING = 4
  HeapInit = 16
  HeapSeg = 9
  HeapMax = 16
  Page = 3
  Memseg = 1
  RecSizes = {}
  RECYCLING = 0
  Requests = {1, 2, 3}
  MaxLive = 4
INVARIANT LiveApart
