---------------------------------- MODULE Pipe --------------------------------
(***************************************************************************)
(* The pipelined processors of ch4sim/pipe: psim.c, linked with the        *)
(* control logic of one of the pipe-*.hcl, executes one cycle per step.    *)
(* What the HCL of a version changes of pipe-std.hcl is a disjunct with    *)
(* its name.  The names are those of the HCL files.                        *)
(*                                                                         *)
(* psim -t runs the program on step_state of isa.c too and compares.       *)
(***************************************************************************)
EXTENDS Y86, FiniteSets

CONSTANT MaxSteps       \* bounds the ISA's run that psim -t compares with

ASSUME PipeAssumption == MaxSteps \in Nat

VARIABLES hcl,          \* the version: "std" "full" "nobypass" "nt" "btfnt" "lf" "1w"
          start,        \* mem0 and reg0: the state the simulation began in
          F_predPC,     \* the pipe registers
          D, E, M, W,
          reg, data, cc \* the program-visible state

pipe == <<F_predPC, D, E, M, W>>
vars == <<hcl, start, F_predPC, D, E, M, W, reg, data, cc>>

Bubble_if_id == [icode |-> "NOP", ifun |-> "YES", rA |-> RNONE, rB |-> RNONE,
                 valC |-> 0, valP |-> 0, stat |-> "BUB", pc |-> 0]
Bubble_id_ex == [icode |-> "NOP", ifun |-> "YES", valC |-> 0, valA |-> 0, valB |-> 0,
                 srcA |-> RNONE, dstE |-> RNONE, dstM |-> RNONE, stat |-> "BUB", pc |-> 0]
Bubble_ex_mem == [icode |-> "NOP", ifun |-> "YES", Cnd |-> FALSE, valE |-> 0, valA |-> 0,
                  dstE |-> RNONE, dstM |-> RNONE, stat |-> "BUB", pc |-> 0]
Bubble_mem_wb == [icode |-> "NOP", valE |-> 0, valM |-> 0, dstE |-> RNONE, dstM |-> RNONE,
                  stat |-> "BUB", pc |-> 0]

(* A simulation of version v starts in state s with an empty pipeline.     *)
PipeInit(v, s) ==
        /\ hcl = v /\ start = s
        /\ F_predPC = 0
        /\ D = Bubble_if_id /\ E = Bubble_id_ex /\ M = Bubble_ex_mem /\ W = Bubble_mem_wb
        /\ reg = s.r /\ data = s.data /\ cc = s.cc

Faulty(stat) == stat \in {"ADR", "INS", "HLT"}
Stat == IF W.stat = "BUB" THEN "AOK" ELSE W.stat

-----------------------------------------------------------------------------
(* Memory stage                                                            *)
mem_addr == IF M.icode \in {"RMMOVQ", "PUSHQ", "CALL", "MRMOVQ", "POP2"} THEN M.valE
            ELSE IF M.icode \in {"RET", IF hcl = "1w" THEN "RET" ELSE "POPQ"} THEN M.valA
            ELSE 0
mem_read == \/ M.icode \in {"MRMOVQ", "RET"}
            \/ M.icode = IF hcl = "1w" THEN "POP2" ELSE "POPQ"
mem_write == M.icode \in {"RMMOVQ", "PUSHQ", "CALL"}
dmem_error == (mem_read \/ mem_write) /\ ~ValidData(mem_addr)
m_valM == IF mem_read /\ ~dmem_error THEN data[mem_addr] ELSE 0
m_stat == IF dmem_error THEN "ADR" ELSE M.stat

(* Execute stage                                                           *)
aluA == CASE E.icode \in {"RRMOVQ", "OPQ"} -> E.valA
          [] E.icode \in {"IRMOVQ", "RMMOVQ", "MRMOVQ", "IADDQ"} -> E.valC
          [] hcl = "btfnt" /\ E.icode = "JXX" /\ E.ifun # "YES" -> E.valC
          [] E.icode \in {"CALL", "PUSHQ", "POP2"} -> -1
          [] E.icode \in {"RET", "POPQ"} -> 1
          [] OTHER -> 0
aluB == IF E.icode \in {"RMMOVQ", "MRMOVQ", "OPQ", "CALL", "PUSHQ", "RET", "POPQ",
                        "IADDQ", "POP2"} THEN E.valB ELSE 0
alufun == IF E.icode = "OPQ" THEN E.ifun ELSE "ADD"
e_valE == compute_alu(alufun, aluA, aluB)
e_Cnd == cond_holds(cc, E.ifun)

(* Seeded bug: the instruction behind one with an error sets them too.     *)
Bugset_cc == E.icode \in {"OPQ", "IADDQ"} \cup (IF hcl = "1w" THEN {"POPQ"} ELSE {})
set_cc == /\ E.icode \in {"OPQ", "IADDQ"} \cup (IF hcl = "1w" THEN {"POPQ"} ELSE {})
          /\ ~Faulty(m_stat) /\ ~Faulty(W.stat)
e_valA == CASE hcl = "nt" /\ E.icode = "JXX" /\ E.ifun # "YES" -> E.valC
            [] hcl = "lf" /\ E.icode \in {"RMMOVQ", "PUSHQ"} /\ E.srcA = M.dstM -> m_valM
            [] OTHER -> E.valA
e_dstE == IF E.icode = "RRMOVQ" /\ ~e_Cnd THEN RNONE ELSE E.dstE

Mispredicted ==
  /\ E.icode = "JXX"
  /\ CASE hcl = "nt" -> E.ifun # "YES" /\ e_Cnd
       [] hcl = "btfnt" -> E.ifun # "YES" /\ (e_Cnd <=> E.valC >= E.valA)
       [] OTHER -> ~e_Cnd

(* Write back                                                              *)
w_dstE == IF hcl = "1w" /\ W.dstM # RNONE THEN W.dstM ELSE W.dstE
w_valE == IF hcl = "1w" /\ W.dstM # RNONE THEN W.valM ELSE W.valE
w_dstM == IF hcl = "1w" THEN RNONE ELSE W.dstM
w_valM == IF hcl = "1w" THEN 0 ELSE W.valM

(* Decode stage                                                            *)
d_srcA == IF D.icode \in {"RRMOVQ", "RMMOVQ", "OPQ", "PUSHQ"} THEN D.rA
          ELSE IF D.icode \in {"RET", IF hcl = "1w" THEN "RET" ELSE "POPQ"} THEN RRSP ELSE RNONE
d_srcB == IF D.icode \in {"OPQ", "RMMOVQ", "MRMOVQ", "IADDQ"} THEN D.rB
          ELSE IF D.icode \in {"PUSHQ", "POPQ", "CALL", "RET", "POP2"} THEN RRSP ELSE RNONE
d_dstE == IF D.icode \in {"RRMOVQ", "IRMOVQ", "OPQ", "IADDQ"} THEN D.rB
          ELSE IF D.icode \in {"PUSHQ", "POPQ", "CALL", "RET"} THEN RRSP ELSE RNONE
d_dstM == IF D.icode \in {"MRMOVQ", IF hcl = "1w" THEN "POP2" ELSE "POPQ"} THEN D.rA ELSE RNONE

(* Seeded bug: of a pop into the stack pointer the increment is forwarded. *)
BugForwarded(src) ==
  CASE src = e_dstE -> e_valE
    [] src = M.dstE -> M.valE
    [] src = M.dstM -> m_valM
    [] src = W.dstM -> W.valM
    [] src = W.dstE -> W.valE
    [] OTHER -> get_reg_val(reg, src)

Forwarded(src) ==
  IF hcl = "nobypass" THEN get_reg_val(reg, src)
  ELSE IF src = e_dstE THEN e_valE
  ELSE IF src = M.dstM THEN m_valM
  ELSE IF src = M.dstE THEN M.valE
  ELSE IF src = W.dstM THEN W.valM
  ELSE IF src = W.dstE THEN W.valE
  ELSE get_reg_val(reg, src)

(* Seeded bug: instructions that read no register wait as well.            *)
BugPending(src) == src \in {e_dstE, E.dstM, M.dstM, M.dstE, W.dstM, W.dstE}
Pending(src) == src # RNONE /\ src \in {e_dstE, E.dstM, M.dstM, M.dstE, W.dstM, W.dstE}

(* The instruction in decode has to wait for a register.                   *)
Hazard ==
  CASE hcl = "nobypass" -> Pending(d_srcA) \/ Pending(d_srcB)
    [] hcl = "lf" ->
         /\ E.icode \in {"MRMOVQ", "POPQ"}
         /\ \/ E.dstM = d_srcB
            \/ /\ E.dstM = d_srcA
               /\ D.icode \notin {"RMMOVQ", "PUSHQ"}
    [] OTHER ->
         /\ E.icode \in {"MRMOVQ", IF hcl = "1w" THEN "POP2" ELSE "POPQ"}
         /\ E.dstM \in {d_srcA, d_srcB}

(* Fetch stage                                                             *)
f_pc ==
  CASE hcl = "nt" /\ M.icode = "JXX" /\ M.ifun # "YES" /\ M.Cnd -> M.valA
    [] hcl = "btfnt" /\ M.icode = "JXX" /\ M.ifun # "YES" /\ M.Cnd /\ M.valE >= M.valA -> M.valE
    [] hcl = "btfnt" /\ M.icode = "JXX" /\ M.ifun # "YES" /\ ~M.Cnd /\ M.valE < M.valA -> M.valA
    [] hcl \notin {"nt", "btfnt"} /\ M.icode = "JXX" /\ ~M.Cnd -> M.valA
    [] W.icode = "RET" -> W.valM
    [] OTHER -> F_predPC
imem_error == ~ValidCode(f_pc)
Fetched == start.code[f_pc]
f_icode == IF imem_error THEN "NOP"
           ELSE IF hcl = "1w" /\ D.icode = "POPQ" THEN "POP2" ELSE Fetched.op
instr_valid == f_icode \in {"NOP", "HALT", "RRMOVQ", "IRMOVQ", "RMMOVQ", "MRMOVQ", "OPQ",
                            "JXX", "CALL", "RET", "PUSHQ", "POPQ"}
                 \cup (IF hcl = "1w" THEN {"POP2"} ELSE {})
                 \cup (IF hcl = "full" THEN {"IADDQ"} ELSE {})
f_stat == IF imem_error THEN "ADR" ELSE IF ~instr_valid THEN "INS"
          ELSE IF f_icode = "HALT" THEN "HLT" ELSE "AOK"
need_regids == instr_valid /\ f_icode \notin {"NOP", "HALT", "JXX", "CALL", "RET"}
need_valC == /\ instr_valid
             /\ f_icode \in {"IRMOVQ", "RMMOVQ", "MRMOVQ", "JXX", "CALL", "IADDQ"}
f_valC == IF need_valC THEN Fetched.c ELSE 0
f_valP == Wrap(f_pc + 1)
PredictedTaken == /\ f_icode = "JXX"
                  /\ CASE hcl = "nt" -> Fetched.fn = "YES"
                       [] hcl = "btfnt" -> Fetched.fn = "YES" \/ f_valC < f_valP
                       [] OTHER -> TRUE
f_predPC == IF f_icode = "CALL" \/ PredictedTaken THEN f_valC
            ELSE IF hcl = "1w" /\ D.icode = "POPQ" THEN f_pc ELSE f_valP

-----------------------------------------------------------------------------
(* What the stages compute for the next pipe registers.                    *)
if_id_next ==
  [icode |-> f_icode, ifun |-> IF imem_error THEN "YES" ELSE Fetched.fn,
   rA |-> IF need_regids THEN Fetched.ra ELSE RNONE,
   rB |-> IF need_regids THEN Fetched.rb ELSE RNONE,
   valC |-> f_valC, valP |-> f_valP, stat |-> f_stat, pc |-> f_pc]
id_ex_next ==
  [icode |-> D.icode, ifun |-> D.ifun, valC |-> D.valC,
   valA |-> IF D.icode \in {"CALL", "JXX"} THEN D.valP ELSE Forwarded(d_srcA),
   valB |-> Forwarded(d_srcB),
   srcA |-> d_srcA, dstE |-> d_dstE, dstM |-> d_dstM, stat |-> D.stat, pc |-> D.pc]
ex_mem_next ==
  [icode |-> E.icode, ifun |-> E.ifun, Cnd |-> e_Cnd, valE |-> e_valE, valA |-> e_valA,
   dstE |-> e_dstE, dstM |-> E.dstM, stat |-> E.stat, pc |-> E.pc]
mem_wb_next ==
  [icode |-> M.icode, valE |-> M.valE, valM |-> m_valM, dstE |-> M.dstE, dstM |-> M.dstM,
   stat |-> m_stat, pc |-> M.pc]

(* pipe_cntl and update_pipes: a register that is told to stall and to     *)
(* take a bubble at once is in error.                                      *)
RetComing == "RET" \in {D.icode, E.icode, M.icode}
Held == hcl = "nobypass" /\ Mispredicted
F_stall == (Hazard \/ RetComing) /\ ~Held
D_stall == Hazard /\ ~Held
D_bubble == Mispredicted \/ (~Hazard /\ RetComing)
E_bubble == Mispredicted \/ Hazard
M_bubble == Faulty(m_stat) \/ Faulty(W.stat)
W_stall == Faulty(W.stat)

Update(stall, bubble, curr, next, bub) ==
  IF stall /\ bubble THEN [bub EXCEPT !.stat = "PIP"]
  ELSE IF stall THEN curr ELSE IF bubble THEN bub ELSE next

update_pipes ==
  /\ F_predPC' = IF F_stall THEN F_predPC ELSE f_predPC
  /\ D' = Update(D_stall, D_bubble, D, if_id_next, Bubble_if_id)
  /\ E' = Update(FALSE, E_bubble, E, id_ex_next, Bubble_id_ex)
  /\ M' = Update(FALSE, M_bubble, M, ex_mem_next, Bubble_ex_mem)
  /\ W' = Update(W_stall, FALSE, W, mem_wb_next, Bubble_mem_wb)

update_state ==
  /\ reg' = set_reg_val(set_reg_val(reg, w_dstE, w_valE), w_dstM, w_valM)
  /\ data' = IF mem_write /\ ~dmem_error THEN [data EXCEPT ![mem_addr] = M.valA] ELSE data
  /\ cc' = IF set_cc THEN compute_cc(alufun, aluA, aluB) ELSE cc

(* The stages of one call of sim_step_pipe and the updates of the next,    *)
(* which sim_run_pipe makes if the status is still AOK.                    *)
Cycle == /\ Stat = "AOK"
         /\ update_state /\ update_pipes
         /\ UNCHANGED <<hcl, start>>
-----------------------------------------------------------------------------
(* The state of the instruction set that a cycle stands for: the registers *)
(* and the memory with what the instructions past execute still have to    *)
(* write, and the address of the first instruction before it.              *)
Written(r, i, valM) ==
  IF Faulty(i.stat)
  THEN IF i.icode \in {"PUSHQ", "POPQ", "CALL"} THEN set_reg_val(r, i.dstE, i.valE) ELSE r
  ELSE set_reg_val(set_reg_val(r, i.dstE, i.valE), i.dstM, valM)

Architectural ==
  LET inM == mem_wb_next
      after == IF Faulty(W.stat) THEN Written(reg, W, W.valM)
               ELSE Written(Written(reg, W, W.valM), inM, m_valM)
  IN
  [code |-> start.code, r |-> after, cc |-> cc,
   data |-> IF mem_write /\ ~dmem_error THEN [data EXCEPT ![mem_addr] = M.valA] ELSE data,
   stat |-> IF Faulty(W.stat) THEN W.stat ELSE IF Faulty(m_stat) THEN m_stat ELSE "AOK",
   pc |-> CASE Faulty(W.stat) -> W.pc
            [] ~Faulty(W.stat) /\ Faulty(m_stat) -> M.pc
            [] OTHER -> IF E.stat # "BUB" THEN E.pc
                        ELSE IF D.stat # "BUB" THEN D.pc
                        ELSE IF M.icode = "RET" THEN m_valM ELSE f_pc]

(* Every cycle of a pipeline executes the next instruction of its program, *)
(* or none: stalling, forwarding, prediction and the cancelling of what    *)
(* was fetched in vain are invisible.                                      *)
InstructionSet == INSTANCE Isa WITH state <- Architectural
ImplementsIsa == InstructionSet!Spec

(* psim -t: when the simulation has stopped, registers, memory and         *)
(* condition codes are those of step_state run on the same program.  A     *)
(* push, pop or call with a bad stack address is excepted: step_state has  *)
(* moved %rsp by then, the pipeline stops before it writes it.             *)
Run[n \in 0..MaxSteps] ==
  IF n = 0 THEN start
  ELSE LET s == Run[n - 1] IN IF s.stat = "AOK" THEN step_state(s) ELSE s
IsaCheck ==
  Faulty(Stat) =>
    LET s == Run[MaxSteps] IN
      \/ s.stat = "ADR" /\ ValidCode(s.pc) /\ s.code[s.pc].op \in {"PUSHQ", "POPQ", "CALL"}
      \/ /\ reg = s.r /\ data = s.data /\ cc = s.cc
         /\ Stat = s.stat

(* The pipeline never waits for ever: instructions go on coming out of it  *)
(* until it stops.                                                         *)
KeepsRetiring == []<>(Stat # "AOK" \/ W.stat # "BUB")
=============================================================================
