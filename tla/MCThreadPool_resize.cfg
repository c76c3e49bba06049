SPECIFICATION FairSpec
CONSTANTS
  N_THREADS = 2
  MAX_THREADS = 2
  SBUFSIZE = 2
  MaxConns = 5
INVARIANTS
  PoolSafe
  LocksHaveOwners
  NeverUndercounts
  OneOwner
PROPERTY JoinReturns
CHECK_DEADLOCK FALSE
