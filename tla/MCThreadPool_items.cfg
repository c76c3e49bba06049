SPECIFICATION Spec
CONSTANTS
  N_THREADS = 2
  MAX_THREADS = 2
  SBUFSIZE = 2
  MaxConns = 4
INVARIANT ItemsCounted
CHECK_DEADLOCK FALSE
