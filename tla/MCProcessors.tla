----------------------------- MODULE MCProcessors -----------------------------
(* The processors of ch4sim on small programs.                             *)
EXTENDS Processors

CONSTANTS Versions,     \* of the pipeline
          SeqVersions,  \* of the sequential processor
          Ops, Lasts    \* instructions of the programs, see Shapes

(* Programs of three instructions of Ops and one of Lasts; the memory      *)
(* behind them is zero, which is halt.                                     *)
Shapes ==
  [iaddq  |-> Instr("IADDQ", "YES", RNONE, RRSP, 1),
   irmovq |-> Instr("IRMOVQ", "YES", RNONE, "rax", 2),
   cmove  |-> Instr("RRMOVQ", "E", RRSP, "rax", 0),
   sub    |-> Instr("OPQ", "SUB", "rax", RRSP, 0),
   back   |-> Instr("JXX", "NE", "rax", RNONE, 0),
   fore   |-> Instr("JXX", "LE", "rax", RNONE, 3),
   jmp    |-> Instr("JXX", "YES", "rax", RNONE, 2),
   call   |-> Instr("CALL", "YES", "rax", RNONE, 2),
   ret    |-> Instr("RET", "YES", RNONE, RNONE, 0),
   push   |-> Instr("PUSHQ", "YES", "rax", RNONE, 0),
   pop    |-> Instr("POPQ", "YES", "rax", RNONE, 0),
   popsp  |-> Instr("POPQ", "YES", RRSP, RNONE, 0),
   load   |-> Instr("MRMOVQ", "YES", "rax", RRSP, 0),
   store  |-> Instr("RMMOVQ", "YES", "rax", RRSP, 0),
   absload  |-> Instr("MRMOVQ", "YES", "rax", RNONE, 1),
   absstore |-> Instr("RMMOVQ", "YES", "rax", RNONE, 1),
   bad    |-> Instr("BAD", "YES", RNONE, RNONE, 0)]
Zero == Instr("HALT", "YES", "rax", RNONE, 0)

Code(p) == [a \in 0..(CodeLen - 1) |-> IF a \in DOMAIN p THEN Shapes[p[a]] ELSE Zero]
Start(p) == NewState(Code(p), [a \in 0..(DataLen - 1) |-> a], [r \in Registers |-> 1])

Programs == {p \in [0..3 -> Ops] : p[3] \in Lasts}

MCInit ==
  /\ \/ /\ processor = "pipe"
        /\ \E p \in Programs, v \in Versions : PipeInit(v, Start(p))
        /\ SeqInit("seq-std", Start(<<>>))
     \/ /\ processor = "seq"
        /\ \E p \in Programs, v \in SeqVersions : SeqInit(v, Start(p))
        /\ PipeInit("std", Start(<<>>))
  /\ ProcessorsInit

(* All programs on all versions, and those that a version gets right.      *)
AnySpec == MCInit /\ [][ProcessorsNext]_allvars
SoundInit == MCInit /\ Sound
MCSpec == SoundInit /\ [][ProcessorsNext]_allvars /\ WF_allvars(Pipeline)

(* The pipeline, when it is the one that runs, never waits for ever.       *)
NeverStuck == processor = "pipe" => KeepsRetiring
=============================================================================
