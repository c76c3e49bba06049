SPECIFICATION Spec
CONSTANTS
  MAXJOBS = 1
  MaxPids = 1
  Users <- NamesByPid
INVARIANT KeysGoToJobs
CHECK_DEADLOCK FALSE
