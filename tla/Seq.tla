----------------------------------- MODULE Seq --------------------------------
(***************************************************************************)
(* The sequential processors of ch4sim/seq: ssim.c, linked with            *)
(* seq-std.hcl, seq-full.hcl (with iaddq) or seq+-std.hcl, executes one    *)
(* instruction per step.  A step first makes the updates that the step     *)
(* before has computed, so the simulator is one instruction ahead of the   *)
(* state it shows.  In SEQ+ the address of an instruction is computed when *)
(* it is fetched, from what the one before has left.                       *)
(***************************************************************************)
EXTENDS Y86

VARIABLES seq,          \* the version: "seq-std" "seq-full" "seq+-std"
          image,        \* the state the simulation began in
          pc,           \* the address of the instruction last executed
          out,          \* what it has still to write
          sreg, sdata, scc, sstat

seqvars == <<seq, image, pc, out, sreg, sdata, scc, sstat>>

(* The simulator starts behind a nop.                                      *)
Nothing == [icode |-> "NOP", valC |-> 0, valM |-> 0, valP |-> 0, Cnd |-> FALSE,
            dstE |-> RNONE, valE |-> 0, dstM |-> RNONE,
            mem_write |-> FALSE, mem_addr |-> 0, mem_data |-> 0,
            cc |-> DEFAULT_CC]

SeqInit(v, s) == /\ seq = v /\ image = s
                 /\ pc = 0 /\ out = Nothing
                 /\ sreg = s.r /\ sdata = s.data /\ scc = s.cc
                 /\ sstat = "AOK"

new_pc(o) == CASE o.icode = "CALL" -> o.valC
               [] o.icode = "JXX" /\ o.Cnd -> o.valC
               [] o.icode = "RET" -> o.valM
               [] OTHER -> o.valP

(* Seeded bug: of a pop into the stack pointer the increment is kept.      *)
BugWriteback(r, o) == set_reg_val(set_reg_val(r, o.dstM, o.valM), o.dstE, o.valE)

Writeback(r, o) == set_reg_val(set_reg_val(r, o.dstE, o.valE), o.dstM, o.valM)

MemWrite(d, o) == IF o.mem_write THEN [d EXCEPT ![o.mem_addr] = o.mem_data] ELSE d

-----------------------------------------------------------------------------
(* What the instruction at `at' computes, given registers, data and        *)
(* condition codes: the signals of the HCL files.                          *)
Implemented == {"NOP", "HALT", "RRMOVQ", "IRMOVQ", "RMMOVQ", "MRMOVQ", "OPQ", "JXX",
                "CALL", "RET", "PUSHQ", "POPQ"}
                 \cup (IF seq = "seq-full" THEN {"IADDQ"} ELSE {})

Execute(at, r, d, cc0) ==
  LET imem_error == ~ValidCode(at)
      in == IF imem_error THEN Instr("NOP", "YES", RNONE, RNONE, 0) ELSE image.code[at]
      Is(ops) == in.op \in ops
      srcA == IF Is({"RRMOVQ", "RMMOVQ", "OPQ", "PUSHQ"}) THEN in.ra
              ELSE IF Is({"POPQ", "RET"}) THEN RRSP ELSE RNONE
      srcB == IF Is({"OPQ", "RMMOVQ", "MRMOVQ", "IADDQ"}) THEN in.rb
              ELSE IF Is({"PUSHQ", "POPQ", "CALL", "RET"}) THEN RRSP ELSE RNONE
      valA == get_reg_val(r, srcA)
      valB == get_reg_val(r, srcB)
      valP == Wrap(at + 1)
      Cnd == cond_holds(cc0, in.fn)
      aluA == CASE Is({"RRMOVQ", "OPQ"}) -> valA
                [] Is({"IRMOVQ", "RMMOVQ", "MRMOVQ", "IADDQ"}) -> in.c
                [] Is({"CALL", "PUSHQ"}) -> -1
                [] Is({"RET", "POPQ"}) -> 1
                [] OTHER -> 0
      aluB == IF Is({"RRMOVQ", "IRMOVQ"}) THEN 0 ELSE valB
      alufun == IF Is({"OPQ"}) THEN in.fn ELSE "ADD"
      valE == compute_alu(alufun, aluA, aluB)
      mem_read == Is({"MRMOVQ", "POPQ", "RET"})
      mem_write == Is({"RMMOVQ", "PUSHQ", "CALL"})
      mem_addr == IF Is({"RMMOVQ", "PUSHQ", "CALL", "MRMOVQ"}) THEN valE
                  ELSE IF Is({"POPQ", "RET"}) THEN valA ELSE 0
      dmem_error == (mem_read \/ mem_write) /\ ~ValidData(mem_addr)
  IN  [stat |-> IF imem_error \/ dmem_error THEN "ADR"
                ELSE IF ~Is(Implemented) THEN "INS"
                ELSE IF Is({"HALT"}) THEN "HLT" ELSE "AOK",
       out |->
         [icode |-> in.op, valC |-> in.c, valP |-> valP, Cnd |-> Cnd,
          valM |-> IF mem_read /\ ~dmem_error THEN d[mem_addr] ELSE 0,
          dstE |-> IF (Is({"RRMOVQ"}) /\ Cnd) \/ Is({"IRMOVQ", "OPQ", "IADDQ"}) THEN in.rb
                   ELSE IF Is({"PUSHQ", "POPQ", "CALL", "RET"}) THEN RRSP ELSE RNONE,
          valE |-> valE,
          dstM |-> IF Is({"MRMOVQ", "POPQ"}) THEN in.ra ELSE RNONE,
          mem_write |-> mem_write /\ ~dmem_error, mem_addr |-> mem_addr,
          mem_data |-> IF Is({"CALL"}) THEN valP ELSE valA,
          cc |-> IF Is({"OPQ", "IADDQ"}) THEN compute_cc(alufun, aluA, aluB) ELSE cc0]]

(* sim_step, which sim_run calls for as long as it returns AOK.            *)
SeqStep ==
  /\ sstat = "AOK"
  /\ sreg' = Writeback(sreg, out)
  /\ sdata' = MemWrite(sdata, out)
  /\ scc' = out.cc
  /\ pc' = new_pc(out)
  /\ LET x == Execute(pc', sreg', sdata', scc') IN sstat' = x.stat /\ out' = x.out
  /\ UNCHANGED <<seq, image>>
-----------------------------------------------------------------------------
(* The state of the instruction set the simulator stands for: with the     *)
(* updates it has still to make, unless it has stopped and never will.     *)
(* step_state has moved %rsp when the address of a push is bad.            *)
SeqArchitectural ==
  [code |-> image.code, stat |-> sstat,
   r |-> IF sstat = "AOK" THEN Writeback(sreg, out)
         ELSE IF out.icode \in {"PUSHQ", "POPQ", "CALL"}
         THEN set_reg_val(sreg, out.dstE, out.valE) ELSE sreg,
   data |-> IF sstat = "AOK" THEN MemWrite(sdata, out) ELSE sdata,
   cc |-> IF sstat = "AOK" THEN out.cc ELSE scc,
   pc |-> IF sstat = "AOK" THEN new_pc(out) ELSE pc]

(* A step of the simulator executes one instruction.                       *)
SeqIsa == INSTANCE Isa WITH state <- SeqArchitectural
SeqImplementsIsa == SeqIsa!Spec
=============================================================================
