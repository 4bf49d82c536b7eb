SPECIFICATION MCSpec
CONSTANTS
  t1 = t1
  t2 = t2
  t3 = t3
  Nil = Nil
  Private = Private
  Threads = {t1}
  None = None
  HDR = 1
  Linear = 4
  Concurency = 8
  COALESCING = 100
  HeapInit = 12
  HeapSeg = 9
  HeapMax = 21
  Page = 3
  Memseg = 1
  RecSizes = {2}
  RECYCLING = 1
  Requests = {1, 2, 4}
  MaxLive = 3
INVARIANTS
  BinsAccounted
  
  RecordsExact
  
  SearchExact
  JsTreeExact
  DatesExact
  TextSurvives
  
  FnmatchExact
  
  MsgSound
  ShmSound
CHECK_DEADLOCK FALSE
