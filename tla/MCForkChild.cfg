SPECIFICATION ForkFairSpec
CONSTANTS
  Mallocs = {t1}
  Forker = forker
  Child = child
  Bins = 2
  ForkWidth = 3
PROPERTIES
  ChildProceeds
