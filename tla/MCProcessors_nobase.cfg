SPECIFICATION AnySpec
CONSTANTS
  Width = 4
  CodeLen = 6
  DataLen = 2
  RRSP = "rsp"
  RNONE = "none"
  Registers = {"rsp", "rax"}
  Versions = {"std", "full", "nt", "btfnt", "lf"}
  SeqVersions = {}
  MaxSteps = 80
  Ops = {"irmovq", "sub", "call", "push", "load", "store", "absload", "absstore"}
  Lasts = {"absload", "absstore"}
INVARIANT IsaCheck
CHECK_DEADLOCK FALSE
