SPECIFICATION AnySpec
CONSTANTS
  Width = 4
  CodeLen = 6
  DataLen = 2
  RRSP = "rsp"
  RNONE = "none"
  Registers = {"rsp", "rax"}
  Versions = {"1w"}
  SeqVersions = {}
  MaxSteps = 80
  Ops = {"irmovq", "iaddq", "cmove", "sub", "back", "fore", "jmp", "call", "ret", "pop", "popsp", "push", "load", "store", "bad"}
  Lasts = {"sub", "ret", "push"}
INVARIANT IsaCheck
CHECK_DEADLOCK FALSE
