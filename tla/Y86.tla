---------------------------------- MODULE Y86 ---------------------------------
(***************************************************************************)
(* The instruction set of ch4sim: words, the arithmetic unit, conditions,  *)
(* and step_state of misc/isa.c, which executes one instruction.           *)
(*                                                                         *)
(* Words are of Width bits, the unit of addresses is one instruction for   *)
(* code and eight bytes for data, and code and data are apart: a program   *)
(* neither reads nor writes its own instructions.                          *)
(***************************************************************************)
EXTENDS Integers, Sums

CONSTANTS Width,
          CodeLen,          \* addresses of code are 0..CodeLen-1
          DataLen,          \* addresses of data are 0..DataLen-1
          RRSP, RNONE,
          Registers

ASSUME Y86Assumption ==
  /\ Width \in Nat \ {0} /\ CodeLen \in 1..(2^(Width - 1) - 2) /\ DataLen \in 1..2^(Width - 1)
  /\ RRSP \in Registers /\ RNONE \notin Registers

Words == -2^(Width - 1)..(2^(Width - 1) - 1)
Wrap(n) == ((n + 2^(Width - 1)) % 2^Width) - 2^(Width - 1)
ValidCode(a) == a \in 0..(CodeLen - 1)
ValidData(a) == a \in 0..(DataLen - 1)

(* ra and rb of an instruction without register byte are what is found in  *)
(* that place.                                                             *)
Instr(op, fn, ra, rb, c) == [op |-> op, fn |-> fn, ra |-> ra, rb |-> rb, c |-> c]

(* C's & and ^ combine the bits of two words.                              *)
Bit(n, i) == (n \div 2^(i - 1)) % 2
OfBits(bits) == Wrap(SumTo([i \in 1..Width |-> bits[i] * 2^(i - 1)], Width))
BitAnd(a, b) == OfBits([i \in 1..Width |-> Bit(a, i) * Bit(b, i)])
BitXor(a, b) == OfBits([i \in 1..Width |-> (Bit(a, i) + Bit(b, i)) % 2])

compute_alu(op, argA, argB) ==
  CASE op = "ADD" -> Wrap(argA + argB)
    [] op = "SUB" -> Wrap(argB - argA)
    [] op = "AND" -> BitAnd(argA, argB)
    [] op = "XOR" -> BitXor(argA, argB)
    [] OTHER -> 0

compute_cc(op, argA, argB) ==
  LET val == compute_alu(op, argA, argB) IN
    [zf |-> val = 0, sf |-> val < 0,
     of |-> \/ op = "ADD" /\ (argA < 0) = (argB < 0) /\ (val < 0) # (argA < 0)
            \/ op = "SUB" /\ (argA > 0) = (argB < 0) /\ (val < 0) # (argB < 0)]

DEFAULT_CC == [zf |-> TRUE, sf |-> FALSE, of |-> FALSE]

cond_holds(cc, bcond) ==
  LET less == cc.sf # cc.of IN
    \/ bcond = "YES"
    \/ bcond = "LE" /\ (less \/ cc.zf)
    \/ bcond = "L" /\ less
    \/ bcond = "E" /\ cc.zf
    \/ bcond = "NE" /\ ~cc.zf
    \/ bcond = "GE" /\ ~less
    \/ bcond = "G" /\ ~less /\ ~cc.zf

get_reg_val(r, id) == IF id = RNONE THEN 0 ELSE r[id]
set_reg_val(r, id, val) == IF id = RNONE THEN r ELSE [r EXCEPT ![id] = val]

-----------------------------------------------------------------------------
(* A state has the code and the data of its memory m, the registers r, cc, *)
(* pc, and stat, what step_state returned last.                            *)
NewState(code, data, r) ==
  [code |-> code, data |-> data, r |-> r, cc |-> DEFAULT_CC, pc |-> 0, stat |-> "AOK"]

Fails(s, stat) == [s EXCEPT !.stat = stat]

(* A word is stored and execution goes on at pc; the address may be bad.   *)
Stores(s, addr, val, pc) ==
  IF ValidData(addr) THEN [s EXCEPT !.data[addr] = val, !.pc = pc] ELSE Fails(s, "ADR")

Sets(s, id, val, pc) == [s EXCEPT !.r = set_reg_val(s.r, id, val), !.pc = pc]

step_state(s) ==
  LET in == s.code[s.pc]
      ftpc == Wrap(s.pc + 1)
      argA == get_reg_val(s.r, in.ra)
      argB == get_reg_val(s.r, in.rb)
      addr == Wrap(in.c + argB)
      rsp == s.r[RRSP]
      down == Wrap(rsp - 1)
      up == Wrap(rsp + 1)
  IN  IF ~ValidCode(s.pc) THEN Fails(s, "ADR") ELSE
      CASE in.op = "NOP" -> [s EXCEPT !.pc = ftpc]
        [] in.op = "HALT" -> Fails(s, "HLT")
        [] in.op = "RRMOVQ" ->
             Sets(s, IF cond_holds(s.cc, in.fn) THEN in.rb ELSE RNONE, argA, ftpc)
        [] in.op = "IRMOVQ" -> Sets(s, in.rb, in.c, ftpc)
        [] in.op = "RMMOVQ" -> Stores(s, addr, argA, ftpc)
        [] in.op = "MRMOVQ" ->
             IF ValidData(addr) THEN Sets(s, in.ra, s.data[addr], ftpc) ELSE Fails(s, "ADR")
        [] in.op = "OPQ" ->
             [Sets(s, in.rb, compute_alu(in.fn, argA, argB), ftpc)
                EXCEPT !.cc = compute_cc(in.fn, argA, argB)]
        [] in.op = "IADDQ" ->
             [Sets(s, in.rb, Wrap(argB + in.c), ftpc)
                EXCEPT !.cc = compute_cc("ADD", in.c, argB)]
        [] in.op = "JXX" -> [s EXCEPT !.pc = IF cond_holds(s.cc, in.fn) THEN in.c ELSE ftpc]
        [] in.op = "CALL" -> Stores([s EXCEPT !.r[RRSP] = down], down, ftpc, in.c)
        [] in.op = "RET" ->
             IF ValidData(rsp) THEN Sets(s, RRSP, up, s.data[rsp]) ELSE Fails(s, "ADR")
        [] in.op = "PUSHQ" -> Stores([s EXCEPT !.r[RRSP] = down], down, argA, ftpc)
        [] in.op = "POPQ" ->
             LET popped == [s EXCEPT !.r[RRSP] = up] IN
               IF ValidData(rsp) THEN Sets(popped, in.ra, s.data[rsp], ftpc)
               ELSE Fails(popped, "ADR")
        [] OTHER -> Fails(s, "INS")
=============================================================================
