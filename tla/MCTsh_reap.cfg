SPECIFICATION FairSpec
CONSTANTS
  MAXJOBS = 2
  MaxPids = 2
  Users <- RunsTwo
PROPERTY ZombiesReaped
CHECK_DEADLOCK FALSE
