SPECIFICATION FairSpec
CONSTANTS
  MAXJOBS = 2
  MaxPids = 3
  Users <- ManyOrLone
INVARIANTS
  JobsMatchChildren
  ReapsKnownJob
  WaitsUnmasked
  OneForeground
PROPERTIES
  LoneReaped
  EndNoticed
CHECK_DEADLOCK FALSE
