SPECIFICATION MCSpec
CONSTANTS
  Width = 4
  CodeLen = 6
  DataLen = 2
  RRSP = "rsp"
  RNONE = "none"
  Registers = {"rsp", "rax"}
  Versions = {"std", "full", "nobypass", "nt", "btfnt", "lf"}
  SeqVersions = {"seq-std", "seq-full", "seq+-std"}
  MaxSteps = 80
  Ops = {"irmovq", "iaddq", "cmove", "sub", "back", "fore", "jmp", "call", "ret", "pop", "popsp", "push", "load", "store", "absload", "absstore", "bad"}
  Lasts = {"sub", "ret"}
INVARIANT
  IsaCheck
PROPERTIES
  AllImplementIsa
  NeverStuck
CHECK_DEADLOCK FALSE
