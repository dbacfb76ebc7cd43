SPECIFICATION Spec
CONSTANTS
  t1 = t1
  t2 = t2
  f1 = f1
  f2 = f2
  Thread <- OneThread
  Cfi <- TwoCfis
  Images <- MCImages
  Owner <- MCOwner
  Pc <- MCPc
  CacheSize = 2
  GroupBits = 3
  IntBits = 8
  WordBits = 16
  MaxUleb = 4
  MaxSleb = 6
INVARIANT RowExact
INVARIANT FailsEmpty
INVARIANT CacheFaithful
