SPECIFICATION Spec
CONSTANTS
  Readers = {r1, r2, r3}
  Writers = {w1, w2}
  N = 2
  Clients = {1, 2, 3}
  SetSize = 6
  MaxLine = 1
  RioBufSize = 3
  Room = 1
  Answer = 2
  MaxBytes = 3
  MaxLines = 4
INVARIANTS
  RWSafe
  SelectSafe
  TimedSafe
PROPERTIES
  ImplementsLock
  WritersFirst
  LocksLive
  WritersGetIn
  EveryoneServed
  TimedLive
CHECK_DEADLOCK FALSE
