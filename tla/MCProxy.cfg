SPECIFICATION ProxySpec
CONSTANTS
  Producers = {p1, p2}
  Consumers = {c1, c2}
  Pollers = {q1}
  Items = {a, b}
  NoItem = NoItem
  N = 2
  MaxRequests = 4
  Workers = {t1, t2, t3}
  Keys = {k1, k2}
  Sizes = {1, 2, 4}
  MaxCache = 3
  MaxObject = 2
  Null = Null
  MaxCalls = 4
INVARIANTS
  RingSafe
  NoLostWakeup
  LockSafe
  SizeExact
  CopySafe
  EvictFinds
PROPERTIES
  ImplementsFifo
  InsertReturns
  EveryItemTaken
  ImplementsLock
  CallsReturn
CHECK_DEADLOCK FALSE
