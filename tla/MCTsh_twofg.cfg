SPECIFICATION Spec
CONSTANTS
  MAXJOBS = 2
  MaxPids = 2
  Users <- NamesByJid
INVARIANT OneForeground
CHECK_DEADLOCK FALSE
