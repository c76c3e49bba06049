------------------------------ MODULE Processors ------------------------------
(***************************************************************************)
(* The processors of ch4sim side by side: a behaviour runs one program on  *)
(* one version of the pipeline, or of the sequential processor.            *)
(***************************************************************************)
EXTENDS Pipe, Seq

VARIABLE processor

allvars == <<processor, vars, seqvars>>

(* What yas makes of a line: an instruction names the registers that it    *)
(* has fields for, but an address may do without a base register.  POP2    *)
(* is the second half of a popq in pipe-1w.hcl, and iaddq is in the two    *)
(* processors that the exercises add it to.                                *)
Assembled(in, version) ==
  /\ in.c \in Words /\ {in.ra, in.rb} \subseteq Registers \cup {RNONE}
  /\ in.op \in {"RRMOVQ", "RMMOVQ", "MRMOVQ", "OPQ", "PUSHQ", "POPQ"} => in.ra \in Registers
  /\ in.op \in {"RRMOVQ", "IRMOVQ", "OPQ", "IADDQ"} => in.rb \in Registers
  /\ in.op # "POP2" /\ (in.op = "IADDQ" => version \in {"full", "seq-full"})

(* The states a version may be started in.                                 *)
Loaded(version, s) ==
  /\ s = NewState(s.code, s.data, s.r)
  /\ \A a \in 0..(CodeLen - 1) : Assembled(s.code[a], version)
  /\ s.data \in [0..(DataLen - 1) -> Words] /\ s.r \in [Registers -> Words]

ProcessorsInit ==
  /\ processor \in {"pipe", "seq"}
  /\ hcl \in {"std", "full", "nobypass", "nt", "btfnt", "lf", "1w"}
  /\ PipeInit(hcl, start) /\ Loaded(hcl, start)
  /\ seq \in {"seq-std", "seq-full", "seq+-std"}
  /\ SeqInit(seq, image) /\ Loaded(seq, image)

Pipeline == processor = "pipe" /\ Cycle /\ UNCHANGED <<processor, seqvars>>
Sequential == processor = "seq" /\ SeqStep /\ UNCHANGED <<processor, vars>>

ProcessorsNext == Pipeline \/ Sequential
ProcessorsSpec == ProcessorsInit /\ [][ProcessorsNext]_allvars

(* Every address of the program names a base register.                     *)
Based(s) ==
  \A a \in 0..(CodeLen - 1) : s.code[a].op \in {"RMMOVQ", "MRMOVQ"} => s.code[a].rb # RNONE

(* What the pipeline gets right: a version that forwards takes RNONE for a *)
(* register like the others, and where an address has no base it adds what *)
(* an instruction without a destination has computed; pipe-1w.hcl loses    *)
(* the second half of a popq besides.  pipe-nobypass.hcl does neither.     *)
Sound == hcl = "nobypass" \/ (hcl # "1w" /\ Based(start))

(* Every cycle of the pipeline and every step of the sequential processor  *)
(* is an instruction of step_state (isa.c), or changes nothing that the    *)
(* programmer sees.                                                        *)
AllImplementIsa == ImplementsIsa /\ SeqImplementsIsa
=============================================================================
