SPECIFICATION Spec
CONSTANTS
  Indices = {1, 2, 3}
  Requests = {0, 2, 4, 8, 12}
  N_LISTS = 6
  CHUNKSIZE = 8
  MAX_HEAP = 34
  s = 1
  E = 3
  b = 1
  Addresses = {0, 4, 9, 12, 2}
  IntBits = 3
  MaxLines = 5
INVARIANTS
  HeapSafe
  NoWaste
PROPERTIES
  OnlyShrinkLeavesPairs
  ImplementsAllocator
  ImplementsLru
CHECK_DEADLOCK FALSE
