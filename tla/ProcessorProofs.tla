---------------------------- MODULE ProcessorProofs ---------------------------
(***************************************************************************)
(* The processors of ch4sim implement the instruction set, for every width *)
(* of word and every size of memory: at each step what the programmer can  *)
(* see is the state that step_state of misc/isa.c comes to, or else the    *)
(* step retires no instruction; and the check that psim makes at the end   *)
(* succeeds.  The sequential processors and pipe-nobypass do so with every *)
(* program, the pipelines that forward with those whose addresses all have *)
(* a base register; pipe-1w is left out.                                   *)
(***************************************************************************)
EXTENDS Processors, Counting, TLAPS

-----------------------------------------------------------------------------
(* Words.                                                                  *)

(* Powers of two.                                                          *)
LEMMA PowersOfTwo ==
  ASSUME NEW n \in Nat
  PROVE  2^n \in Nat \ {0} /\ 2^(n + 1) = 2 * 2^n
<1> DEFINE N == 1..n
           with == {T \cup {n + 1} : T \in SUBSET N}
<1>1. IsFiniteSet(N) /\ Cardinality(N) = n /\ n + 1 \notin N
  BY FS_Interval
<1>2. IsFiniteSet(SUBSET N) /\ Cardinality(SUBSET N) = 2^n
  BY <1>1, FS_SUBSET
<1>3. 2^n \in Nat \ {0}
  BY <1>2, FS_CardinalityType, FS_EmptySet
<1>4. IsFiniteSet(SUBSET (1..(n + 1))) /\ Cardinality(SUBSET (1..(n + 1))) = 2^(n + 1)
  <2>1. IsFiniteSet(1..(n + 1)) /\ Cardinality(1..(n + 1)) = n + 1
    BY FS_Interval
  <2> QED
    BY <2>1, FS_SUBSET
<1>5. SUBSET (1..(n + 1)) = (SUBSET N) \cup with /\ (SUBSET N) \cap with = {}
  <2>1. 1..(n + 1) = N \cup {n + 1}
    OBVIOUS
  <2>2. ASSUME NEW T \in SUBSET (1..(n + 1)), n + 1 \in T PROVE T \in with
    <3>1. T \ {n + 1} \in SUBSET N /\ T = (T \ {n + 1}) \cup {n + 1}
      BY <2>1, <2>2
    <3> QED
      BY <3>1
  <2>3. \A T \in with : T \in SUBSET (1..(n + 1)) /\ n + 1 \in T
    BY <2>1
  <2>4. \A T \in SUBSET (1..(n + 1)) : n + 1 \notin T => T \in SUBSET N
    BY <2>1
  <2>5. \A T \in SUBSET N : T \in SUBSET (1..(n + 1)) /\ n + 1 \notin T
    BY <2>1, <1>1
  <2> HIDE DEF with, N
  <2> QED
    BY <2>2, <2>3, <2>4, <2>5
<1>6. IsFiniteSet(with) /\ Cardinality(with) = Cardinality(SUBSET N)
  <2> DEFINE f == [T \in SUBSET N |-> T \cup {n + 1}]
  <2>1. \A T \in SUBSET N : f[T] \in with
    OBVIOUS
  <2>2. ASSUME NEW T \in SUBSET N, NEW U \in SUBSET N, f[T] = f[U] PROVE T = U
    <3>1. T \cup {n + 1} = U \cup {n + 1} /\ n + 1 \notin T /\ n + 1 \notin U
      BY <2>2, <1>1
    <3> QED
      BY <3>1
  <2>3. \A z \in with : \E T \in SUBSET N : f[T] = z
    OBVIOUS
  <2>4. Cardinality(with) = Cardinality(SUBSET N)
    <3> DEFINE from == SUBSET N
    <3>1. \A T, U \in from : f[T] = f[U] => T = U
      BY <2>2
    <3>2. \A T \in from : f[T] \in with
      BY <2>1
    <3>3. \A z \in with : \E T \in from : f[T] = z
      BY <2>3
    <3>0. IsFiniteSet(from)
      BY <1>2
    <3> HIDE DEF f, with, from
    <3>4. Cardinality(with) = Cardinality(from)
      BY <3>0, <3>1, <3>2, <3>3, OneToOne
    <3> QED
      BY <3>4 DEF from
  <2>5. IsFiniteSet(with)
    <3>1. with \in SUBSET SUBSET (1..(n + 1))
      BY <1>5
    <3> HIDE DEF with
    <3> QED
      BY <3>1, <1>4, FS_Subset
  <2> QED
    BY <2>4, <2>5
<1>7. 2^(n + 1) = 2^n + 2^n
  <2>1. Cardinality((SUBSET N) \cup with)
          = Cardinality(SUBSET N) + Cardinality(with) - Cardinality((SUBSET N) \cap with)
    BY <1>2, <1>6, FS_Union
  <2>2. Cardinality((SUBSET N) \cap with) = 0
    BY <1>5, FS_EmptySet
  <2>3. Cardinality((SUBSET N) \cup with) = 2^(n + 1)
    BY <1>4, <1>5
  <2> HIDE DEF N, with
  <2> QED
    BY <2>1, <2>2, <2>3, <1>2, <1>3, <1>6
<1> QED
  BY <1>3, <1>7

(* The sizes that Y86Assumption admits: an address of code, or of data, is *)
(* a word.                                                                 *)
LEMMA Sizes ==
  /\ 2^(Width - 1) \in Nat \ {0} /\ 2^Width = 2 * 2^(Width - 1)
  /\ CodeLen \in Nat \ {0} /\ DataLen \in Nat \ {0}
  /\ CodeLen < 2^(Width - 1) - 1 /\ DataLen <= 2^(Width - 1)
<1>1. Width - 1 \in Nat /\ (Width - 1) + 1 = Width
  BY Y86Assumption DEF Y86Assumption
<1>2. 2^(Width - 1) \in Nat \ {0} /\ 2^Width = 2 * 2^(Width - 1)
  BY <1>1, PowersOfTwo
<1> QED
  BY <1>2, Y86Assumption DEF Y86Assumption

(* A result is cut to a word, which a word is already; addresses are words. *)
LEMMA Wraps ==
  /\ Words \subseteq Int /\ 0 \in Words
  /\ \A n \in Int : Wrap(n) \in Words
  /\ \A w \in Words : Wrap(w) = w /\ Wrap(w + 0) = w /\ Wrap(0 + w) = w
  /\ \A a : ValidCode(a) => a \in Words /\ Wrap(a + 1) = a + 1 /\ a + 1 \in Words
<1> DEFINE H == 2^(Width - 1)
<1>1. H \in Nat \ {0} /\ 2^Width = 2 * H /\ CodeLen \in Nat /\ CodeLen < H - 1
  BY Sizes
<1>2. Words = -H..(H - 1)
  BY DEF Words
<1> HIDE DEF H
<1>3. \A n \in Int : Wrap(n) = ((n + H) % (2 * H)) - H
  BY <1>1 DEF Wrap, H
<1>4. \A n \in Int : (n + H) % (2 * H) \in 0..(2 * H - 1)
  BY <1>1
<1>5. \A n \in -H..(H - 1) : (n + H) % (2 * H) = n + H
  BY <1>1
<1>6. ASSUME NEW n \in Int PROVE Wrap(n) \in Words
  <2> DEFINE x == (n + H) % (2 * H)
  <2>1. x \in 0..(2 * H - 1) /\ Wrap(n) = x - H
    BY <1>3, <1>4
  <2> HIDE DEF x
  <2> QED
    BY <2>1, <1>1, <1>2
<1>7. ASSUME NEW w \in Words PROVE w \in Int /\ Wrap(w) = w
  <2> DEFINE x == (w + H) % (2 * H)
  <2>1. w \in Int /\ w \in -H..(H - 1)
    BY <1>1, <1>2
  <2>2. x = w + H /\ Wrap(w) = x - H
    BY <2>1, <1>3, <1>5
  <2> HIDE DEF x
  <2> QED
    BY <2>1, <2>2, <1>1
<1>8. 0 \in Words
  BY <1>1, <1>2
<1>9. \A w \in Words : w + 0 = w /\ 0 + w = w
  BY <1>7
<1>10. \A a : ValidCode(a) => a \in Words /\ a + 1 \in Words
  BY <1>1, <1>2 DEF ValidCode
<1> QED
  BY <1>6, <1>7, <1>8, <1>9, <1>10

(* The arithmetic unit puts out words.                                     *)
LEMMA AluWord ==
  ASSUME NEW op, NEW a \in Words, NEW b \in Words
  PROVE  compute_alu(op, a, b) \in Words
<1>1. a \in Int /\ b \in Int
  BY Wraps
<1>2. \A i \in 1..Width : 2^(i - 1) \in Nat \ {0}
  <2>1. \A i \in 1..Width : i - 1 \in Nat
    BY Y86Assumption DEF Y86Assumption
  <2> QED
    BY <2>1, PowersOfTwo
<1>3. ASSUME NEW n \in Int, NEW i \in 1..Width PROVE Bit(n, i) \in {0, 1}
  <2>1. n \div 2^(i - 1) \in Int
    BY <1>2
  <2> QED
    BY <2>1 DEF Bit
<1>4. ASSUME NEW bits, \A i \in 1..Width : bits[i] \in {0, 1}
      PROVE  OfBits(bits) \in Words
  <2> DEFINE f == [i \in 1..Width |-> bits[i] * 2^(i - 1)]
  <2>1. \A i \in 1..Width : bits[i] * 2^(i - 1) \in Nat
    BY <1>2, <1>4
  <2>2. f \in [1..Width -> Nat]
    BY <2>1
  <2>3. SumTo(f, Width) \in Nat
    BY <2>2, SumType, Y86Assumption DEF Y86Assumption
  <2> QED
    BY <2>3, Wraps DEF OfBits
<1>5. BitAnd(a, b) \in Words
  <2> DEFINE g == [i \in 1..Width |-> Bit(a, i) * Bit(b, i)]
  <2>1. \A i \in 1..Width : g[i] \in {0, 1}
    BY <1>1, <1>3
  <2> HIDE DEF g
  <2>2. OfBits(g) \in Words
    BY <2>1, <1>4
  <2> QED
    BY <2>2 DEF BitAnd, g
<1>6. BitXor(a, b) \in Words
  <2> DEFINE g == [i \in 1..Width |-> (Bit(a, i) + Bit(b, i)) % 2]
  <2>1. \A i \in 1..Width : g[i] \in {0, 1}
    <3> TAKE i \in 1..Width
    <3>1. Bit(a, i) \in {0, 1} /\ Bit(b, i) \in {0, 1}
      BY <1>1, <1>3
    <3> QED
      BY <3>1
  <2> HIDE DEF g
  <2>2. OfBits(g) \in Words
    BY <2>1, <1>4
  <2> QED
    BY <2>2 DEF BitXor, g
<1>7. a + b \in Int /\ b - a \in Int
  BY <1>1
<1> QED
  BY <1>5, <1>6, <1>7, Wraps DEF compute_alu

-----------------------------------------------------------------------------
(* An instruction as the processors see it: the registers it reads, what   *)
(* the arithmetic unit makes of their contents a and b, the access to      *)
(* memory, and the registers it writes.                                    *)
Live == {"NOP", "RRMOVQ", "IRMOVQ", "RMMOVQ", "MRMOVQ", "OPQ", "IADDQ", "JXX", "CALL", "RET",
         "PUSHQ", "POPQ"}
Stack == {"PUSHQ", "POPQ", "CALL"}

SrcA(in) == IF in.op \in {"RRMOVQ", "RMMOVQ", "OPQ", "PUSHQ"} THEN in.ra
            ELSE IF in.op \in {"POPQ", "RET"} THEN RRSP ELSE RNONE
SrcB(in) == IF in.op \in {"OPQ", "RMMOVQ", "MRMOVQ", "IADDQ"} THEN in.rb
            ELSE IF in.op \in {"PUSHQ", "POPQ", "CALL", "RET"} THEN RRSP ELSE RNONE
DstE(in) == IF in.op \in {"RRMOVQ", "IRMOVQ", "OPQ", "IADDQ"} THEN in.rb
            ELSE IF in.op \in {"PUSHQ", "POPQ", "CALL", "RET"} THEN RRSP ELSE RNONE
DstM(in) == IF in.op \in {"MRMOVQ", "POPQ"} THEN in.ra ELSE RNONE

InA(in, a) == CASE in.op \in {"RRMOVQ", "OPQ"} -> a
                [] in.op \in {"IRMOVQ", "RMMOVQ", "MRMOVQ", "IADDQ"} -> in.c
                [] in.op \in {"CALL", "PUSHQ"} -> -1
                [] in.op \in {"RET", "POPQ"} -> 1
                [] OTHER -> 0
InB(in, b) == IF in.op \in {"RRMOVQ", "IRMOVQ", "JXX", "NOP"} THEN 0 ELSE b
Fun(in) == IF in.op = "OPQ" THEN in.fn ELSE "ADD"
Sum(in, a, b) == compute_alu(Fun(in), InA(in, a), InB(in, b))
Flags(in, a, b) == compute_cc(Fun(in), InA(in, a), InB(in, b))

Loads(in) == in.op \in {"MRMOVQ", "POPQ", "RET"}
Saves(in) == in.op \in {"RMMOVQ", "PUSHQ", "CALL"}
Address(in, a, e) == IF in.op \in {"POPQ", "RET"} THEN a ELSE e
BadAddress(in, a, e) == (Loads(in) \/ Saves(in)) /\ ~ValidData(Address(in, a, e))

Goes(in, cc0) == cond_holds(cc0, in.fn)
DstEIf(in, cc0) == IF in.op = "RRMOVQ" /\ ~Goes(in, cc0) THEN RNONE ELSE DstE(in)

(* The state after the instruction in at pc, with operands a and b, result *)
(* e, m from memory.                                                       *)
MkState(c, d, r, cc0, at, st) == [code |-> c, data |-> d, r |-> r, cc |-> cc0, pc |-> at, stat |-> st]

After(in, c, d, r, cc0, at, a, b, e, m) ==
  IF BadAddress(in, a, e)
  THEN MkState(c, d, IF in.op \in Stack THEN set_reg_val(r, DstE(in), e) ELSE r, cc0, at, "ADR")
  ELSE MkState(c,
         IF Saves(in)
         THEN [d EXCEPT ![Address(in, a, e)] = IF in.op = "CALL" THEN Wrap(at + 1) ELSE a]
         ELSE d,
         set_reg_val(set_reg_val(r, DstEIf(in, cc0), e), DstM(in), m),
         IF in.op \in {"OPQ", "IADDQ"} THEN Flags(in, a, b) ELSE cc0,
         CASE in.op = "CALL" \/ (in.op = "JXX" /\ Goes(in, cc0)) -> in.c
           [] in.op = "RET" -> m
           [] OTHER -> Wrap(at + 1),
         "AOK")

(* What the instruction at an address makes of the state, its operands     *)
(* read from the registers.                                                *)
Act(c, d, r, cc0, at) ==
  LET in == c[at]
      a == get_reg_val(r, SrcA(in))
      b == get_reg_val(r, SrcB(in))
      e == Sum(in, a, b)
  IN  After(in, c, d, r, cc0, at, a, b, e, d[Address(in, a, e)])

(* A memory and a register file hold words.                                *)
DataType(d) == d \in [0..(DataLen - 1) -> Words]
RegType(r) == r \in [Registers -> Words]

(* What a register file and a memory hold are words.                       *)
LEMMA RegWords ==
  /\ \A r, id : RegType(r) /\ id \in Registers \cup {RNONE} => get_reg_val(r, id) \in Words
  /\ \A r, id, v : /\ RegType(r) /\ v \in Words /\ id \in Registers \cup {RNONE}
                   => RegType(set_reg_val(r, id, v))
  /\ \A d, a : DataType(d) /\ ValidData(a) => d[a] \in Words /\ a \in 0..(DataLen - 1)
  /\ RRSP \in Registers /\ RNONE \notin Registers
  BY Wraps, Y86Assumption DEF Y86Assumption, RegType, DataType, ValidData, get_reg_val, set_reg_val

(* An instruction of a program started by Loaded, and its operands.        *)
LEMMA Operands ==
  ASSUME NEW in, NEW v, Assembled(in, v)
  PROVE  /\ SrcA(in) \in Registers \cup {RNONE} /\ SrcB(in) \in Registers \cup {RNONE}
         /\ DstE(in) \in Registers \cup {RNONE} /\ DstM(in) \in Registers \cup {RNONE}
         /\ in.c \in Words /\ in.c \in Int
  BY Wraps, RegWords DEF Assembled, SrcA, SrcB, DstE, DstM

(* The branch that step_state takes.                                       *)
BranchTaken(s, in) ==
  LET argA == get_reg_val(s.r, in.ra)
        argB == get_reg_val(s.r, in.rb)
        addr == Wrap(in.c + argB)
        rsp == s.r[RRSP]
        down == Wrap(rsp - 1)
        popped == [s EXCEPT !.r[RRSP] = Wrap(rsp + 1)]
        to == Wrap(s.pc + 1)
    IN
    /\ in.op = "NOP" => step_state(s) = [s EXCEPT !.pc = to]
    /\ in.op = "HALT" => step_state(s) = Fails(s, "HLT")
    /\ in.op = "RRMOVQ" =>
         step_state(s) = Sets(s, IF cond_holds(s.cc, in.fn) THEN in.rb ELSE RNONE, argA, to)
    /\ in.op = "IRMOVQ" => step_state(s) = Sets(s, in.rb, in.c, to)
    /\ in.op = "RMMOVQ" => step_state(s) = Stores(s, addr, argA, to)
    /\ in.op = "MRMOVQ" =>
         step_state(s) = IF ValidData(addr) THEN Sets(s, in.ra, s.data[addr], to) ELSE Fails(s, "ADR")
    /\ in.op = "OPQ" =>
         step_state(s) = [Sets(s, in.rb, compute_alu(in.fn, argA, argB), to)
                            EXCEPT !.cc = compute_cc(in.fn, argA, argB)]
    /\ in.op = "IADDQ" =>
         step_state(s) = [Sets(s, in.rb, Wrap(argB + in.c), to)
                            EXCEPT !.cc = compute_cc("ADD", in.c, argB)]
    /\ in.op = "JXX" =>
         step_state(s) = [s EXCEPT !.pc = IF cond_holds(s.cc, in.fn) THEN in.c ELSE to]
    /\ in.op = "CALL" => step_state(s) = Stores([s EXCEPT !.r[RRSP] = down], down, to, in.c)
    /\ in.op = "RET" =>
         step_state(s) = IF ValidData(rsp) THEN Sets(s, RRSP, Wrap(rsp + 1), s.data[rsp])
                         ELSE Fails(s, "ADR")
    /\ in.op = "PUSHQ" => step_state(s) = Stores([s EXCEPT !.r[RRSP] = down], down, argA, to)
    /\ in.op = "POPQ" =>
         step_state(s) = IF ValidData(rsp) THEN Sets(popped, in.ra, s.data[rsp], to)
                         ELSE Fails(popped, "ADR")
    /\ in.op \notin Live \cup {"HALT"} => step_state(s) = Fails(s, "INS")

(* step_state takes the branch of its case statement that the opcode       *)
(* selects.                                                                *)
LEMMA Branches ==
  ASSUME NEW s, ValidCode(s.pc), NEW in, in = s.code[s.pc]
  PROVE  BranchTaken(s, in)
<1>1. CASE in.op = "NOP"
  BY <1>1 DEF BranchTaken, step_state, Live
<1>2. CASE in.op = "HALT"
  BY <1>2 DEF BranchTaken, step_state, Live
<1>3. CASE in.op = "RRMOVQ"
  BY <1>3 DEF BranchTaken, step_state, Live
<1>4. CASE in.op = "IRMOVQ"
  BY <1>4 DEF BranchTaken, step_state, Live
<1>5. CASE in.op = "RMMOVQ"
  BY <1>5 DEF BranchTaken, step_state, Live
<1>6. CASE in.op = "MRMOVQ"
  BY <1>6 DEF BranchTaken, step_state, Live
<1>7. CASE in.op = "OPQ"
  BY <1>7 DEF BranchTaken, step_state, Live
<1>8. CASE in.op = "IADDQ"
  BY <1>8 DEF BranchTaken, step_state, Live
<1>9. CASE in.op = "JXX"
  BY <1>9 DEF BranchTaken, step_state, Live
<1>10. CASE in.op = "CALL"
  BY <1>10 DEF BranchTaken, step_state, Live
<1>11. CASE in.op = "RET"
  BY <1>11 DEF BranchTaken, step_state, Live
<1>12. CASE in.op = "PUSHQ"
  BY <1>12 DEF BranchTaken, step_state, Live
<1>13. CASE in.op = "POPQ"
  BY <1>13 DEF BranchTaken, step_state, Live
<1>14. CASE in.op \notin Live \cup {"HALT"}
  BY <1>14 DEF BranchTaken, step_state, Live
<1> QED
  BY <1>1, <1>2, <1>3, <1>4, <1>5, <1>6, <1>7, <1>8, <1>9, <1>10, <1>11, <1>12, <1>13, <1>14 DEF Live

(* The ways in which step_state ends.                                      *)
LEMMA StateParts ==
  ASSUME NEW c, NEW d, NEW r, NEW cc0, NEW at, NEW st
  PROVE  LET s == MkState(c, d, r, cc0, at, st) IN
         /\ s.code = c /\ s.data = d /\ s.r = r /\ s.cc = cc0 /\ s.pc = at /\ s.stat = st
         /\ \A st2 : Fails(s, st2) = MkState(c, d, r, cc0, at, st2)
         /\ \A id, val, to : Sets(s, id, val, to) = MkState(c, d, set_reg_val(r, id, val), cc0, to, st)
         /\ \A addr, val, to : ValidData(addr) =>
              Stores(s, addr, val, to) = MkState(c, [d EXCEPT ![addr] = val], r, cc0, to, st)
         /\ \A addr, val, to : ~ValidData(addr) =>
              Stores(s, addr, val, to) = MkState(c, d, r, cc0, at, "ADR")
         /\ \A to : [s EXCEPT !.pc = to] = MkState(c, d, r, cc0, to, st)
         /\ \A new : [s EXCEPT !.cc = new] = MkState(c, d, r, new, at, st)
         /\ \A id, val : [s EXCEPT !.r[id] = val] = MkState(c, d, [r EXCEPT ![id] = val], cc0, at, st)
<1>1. ASSUME NEW st2
      PROVE  Fails(MkState(c, d, r, cc0, at, st), st2) = MkState(c, d, r, cc0, at, st2)
  BY DEF MkState, Fails
<1>2. ASSUME NEW id, NEW val, NEW to
      PROVE  Sets(MkState(c, d, r, cc0, at, st), id, val, to)
               = MkState(c, d, set_reg_val(r, id, val), cc0, to, st)
  <2>1. MkState(c, d, r, cc0, at, st).r = r
    BY DEF MkState
  <2> DEFINE new == set_reg_val(r, id, val)
  <2> HIDE DEF new
  <2>2. [MkState(c, d, r, cc0, at, st) EXCEPT !.r = new] = MkState(c, d, new, cc0, at, st)
    BY DEF MkState
  <2>3. [MkState(c, d, new, cc0, at, st) EXCEPT !.pc = to] = MkState(c, d, new, cc0, to, st)
    BY DEF MkState
  <2>4. [MkState(c, d, r, cc0, at, st) EXCEPT !.r = new, !.pc = to]
           = MkState(c, d, new, cc0, to, st)
    BY <2>2, <2>3
  <2> QED
    BY <2>1, <2>4 DEF Sets, new
<1>3. \A addr, val, to : ValidData(addr) => Stores(MkState(c, d, r, cc0, at, st), addr, val, to)
        = MkState(c, [d EXCEPT ![addr] = val], r, cc0, to, st)
  BY DEF MkState, Stores
<1>4. \A addr, val, to : ~ValidData(addr) => Stores(MkState(c, d, r, cc0, at, st), addr, val, to)
        = MkState(c, d, r, cc0, at, "ADR")
  BY DEF MkState, Stores, Fails
<1>5. \A id, val : [MkState(c, d, r, cc0, at, st) EXCEPT !.r[id] = val]
        = MkState(c, d, [r EXCEPT ![id] = val], cc0, at, st)
  BY DEF MkState
<1>6. \A new : /\ [MkState(c, d, r, cc0, at, st) EXCEPT !.pc = new] = MkState(c, d, r, cc0, new, st)
              /\ [MkState(c, d, r, cc0, at, st) EXCEPT !.cc = new] = MkState(c, d, r, new, at, st)
  BY DEF MkState
<1>7. LET s == MkState(c, d, r, cc0, at, st) IN
      s.code = c /\ s.data = d /\ s.r = r /\ s.cc = cc0 /\ s.pc = at /\ s.stat = st
  BY DEF MkState
<1> QED
  BY <1>1, <1>2, <1>3, <1>4, <1>5, <1>6, <1>7

(* What step_state makes of each instruction.                              *)
StepMakes(c, d, r, cc0, at, in) ==
  LET step == step_state(MkState(c, d, r, cc0, at, "AOK"))
      argA == get_reg_val(r, in.ra)
      argB == get_reg_val(r, in.rb)
      addr == Wrap(in.c + argB)
      down == Wrap(r[RRSP] - 1)
      pushed == [r EXCEPT ![RRSP] = down]
      popped == [r EXCEPT ![RRSP] = Wrap(r[RRSP] + 1)]
      to == Wrap(at + 1)
      Good(d2, r2, cc2, to2) == step = MkState(c, d2, r2, cc2, to2, "AOK")
      Bad(r2, st) == step = MkState(c, d, r2, cc0, at, st)
  IN
  /\ in.op = "NOP" => Good(d, r, cc0, to)
  /\ in.op = "HALT" => Bad(r, "HLT")
  /\ in.op = "RRMOVQ" =>
       Good(d, set_reg_val(r, IF cond_holds(cc0, in.fn) THEN in.rb ELSE RNONE, argA), cc0, to)
  /\ in.op = "IRMOVQ" => Good(d, set_reg_val(r, in.rb, in.c), cc0, to)
  /\ in.op = "RMMOVQ" => IF ValidData(addr) THEN Good([d EXCEPT ![addr] = argA], r, cc0, to)
                         ELSE Bad(r, "ADR")
  /\ in.op = "MRMOVQ" => IF ValidData(addr) THEN Good(d, set_reg_val(r, in.ra, d[addr]), cc0, to)
                         ELSE Bad(r, "ADR")
  /\ in.op = "OPQ" => Good(d, set_reg_val(r, in.rb, compute_alu(in.fn, argA, argB)),
                           compute_cc(in.fn, argA, argB), to)
  /\ in.op = "IADDQ" => Good(d, set_reg_val(r, in.rb, Wrap(argB + in.c)),
                             compute_cc("ADD", in.c, argB), to)
  /\ in.op = "JXX" => Good(d, r, cc0, IF cond_holds(cc0, in.fn) THEN in.c ELSE to)
  /\ in.op = "CALL" => IF ValidData(down) THEN Good([d EXCEPT ![down] = to], pushed, cc0, in.c)
                       ELSE Bad(pushed, "ADR")
  /\ in.op = "RET" => IF ValidData(r[RRSP])
                      THEN Good(d, set_reg_val(r, RRSP, Wrap(r[RRSP] + 1)), cc0, d[r[RRSP]])
                      ELSE Bad(r, "ADR")
  /\ in.op = "PUSHQ" => IF ValidData(down) THEN Good([d EXCEPT ![down] = argA], pushed, cc0, to)
                        ELSE Bad(pushed, "ADR")
  /\ in.op = "POPQ" => IF ValidData(r[RRSP])
                       THEN Good(d, set_reg_val(popped, in.ra, d[r[RRSP]]), cc0, to)
                       ELSE Bad(popped, "ADR")
  /\ in.op \notin Live \cup {"HALT"} => Bad(r, "INS")

(* step_state of a state made up of its parts.                             *)
LEMMA StepOf ==
  ASSUME NEW c, NEW d, NEW r, NEW cc0, NEW at, ValidCode(at), NEW in, in = c[at]
  PROVE  StepMakes(c, d, r, cc0, at, in)
<1> DEFINE s == MkState(c, d, r, cc0, at, "AOK")
<1>1. s.code = c /\ s.data = d /\ s.r = r /\ s.cc = cc0 /\ s.pc = at /\ s.stat = "AOK"
  BY StateParts
<1>2. /\ \A st2 : Fails(s, st2) = MkState(c, d, r, cc0, at, st2)
      /\ \A to : [s EXCEPT !.pc = to] = MkState(c, d, r, cc0, to, "AOK")
  BY StateParts
<1>3. BranchTaken(s, in)
  BY <1>1, Branches
<1>4. \A d2, r2, cc2, to, new :
        [MkState(c, d2, r2, cc2, to, "AOK") EXCEPT !.cc = new] = MkState(c, d2, r2, new, to, "AOK")
  BY StateParts
<1>5. \A r2, id, val, to :
        Sets(MkState(c, d, r2, cc0, at, "AOK"), id, val, to)
          = MkState(c, d, set_reg_val(r2, id, val), cc0, to, "AOK")
  BY StateParts
<1>6. /\ \A r2, addr, val, to : ValidData(addr) =>
           Stores(MkState(c, d, r2, cc0, at, "AOK"), addr, val, to)
             = MkState(c, [d EXCEPT ![addr] = val], r2, cc0, to, "AOK")
      /\ \A r2, addr, val, to : ~ValidData(addr) =>
           Stores(MkState(c, d, r2, cc0, at, "AOK"), addr, val, to) = MkState(c, d, r2, cc0, at, "ADR")
  <2>1. ASSUME NEW r2, NEW addr, NEW val, NEW to, ValidData(addr)
        PROVE  Stores(MkState(c, d, r2, cc0, at, "AOK"), addr, val, to)
                 = MkState(c, [d EXCEPT ![addr] = val], r2, cc0, to, "AOK")
    BY <2>1 DEF MkState, Stores
  <2>2. ASSUME NEW r2, NEW addr, NEW val, NEW to, ~ValidData(addr)
        PROVE  Stores(MkState(c, d, r2, cc0, at, "AOK"), addr, val, to) = MkState(c, d, r2, cc0, at, "ADR")
    BY <2>2, StateParts
  <2> QED
    BY <2>1, <2>2
<1>22. \A r2 : Fails(MkState(c, d, r2, cc0, at, "AOK"), "ADR") = MkState(c, d, r2, cc0, at, "ADR")
  BY StateParts
<1> DEFINE moved(v) == [s EXCEPT !.r[RRSP] = v]
           sp(v) == [r EXCEPT ![RRSP] = v]
<1>21. \A v : moved(v) = MkState(c, d, sp(v), cc0, at, "AOK")
  <2> TAKE v
  <2> QED
    BY DEF MkState
<1> HIDE DEF s
<1>7. CASE in.op = "NOP"
  BY <1>1, <1>2, <1>3, <1>4, <1>5, <1>6, <1>7 DEF BranchTaken, StepMakes, Live, s
<1>8. CASE in.op = "HALT"
  BY <1>1, <1>2, <1>3, <1>4, <1>5, <1>6, <1>8 DEF BranchTaken, StepMakes, Live, s
<1>9. CASE in.op = "RRMOVQ"
  BY <1>1, <1>2, <1>3, <1>4, <1>5, <1>6, <1>9 DEF BranchTaken, StepMakes, Live, s
<1>10. CASE in.op = "IRMOVQ"
  BY <1>1, <1>2, <1>3, <1>4, <1>5, <1>6, <1>10 DEF BranchTaken, StepMakes, Live, s
<1>11. CASE in.op = "RMMOVQ"
  BY <1>1, <1>2, <1>3, <1>4, <1>5, <1>6, <1>11 DEF BranchTaken, StepMakes, Live, s
<1>12. CASE in.op = "MRMOVQ"
  BY <1>1, <1>2, <1>3, <1>4, <1>5, <1>6, <1>12 DEF BranchTaken, StepMakes, Live, s
<1>13. CASE in.op = "OPQ"
  BY <1>1, <1>2, <1>3, <1>4, <1>5, <1>6, <1>13 DEF BranchTaken, StepMakes, Live, s
<1>14. CASE in.op = "IADDQ"
  BY <1>1, <1>2, <1>3, <1>4, <1>5, <1>6, <1>14 DEF BranchTaken, StepMakes, Live, s
<1>15. CASE in.op = "JXX"
  BY <1>1, <1>2, <1>3, <1>4, <1>5, <1>6, <1>15 DEF BranchTaken, StepMakes, Live, s
<1>16. CASE in.op = "CALL"
  <2> DEFINE down == Wrap(r[RRSP] - 1)
             val == Wrap(at + 1)
             to == in.c
  <2>1. step_state(s) = Stores(moved(down), down, val, to)
    BY <1>1, <1>3, <1>16 DEF BranchTaken
  <2>2. step_state(s) = Stores(MkState(c, d, sp(down), cc0, at, "AOK"), down, val, to)
    BY <2>1, <1>21
  <2> HIDE DEF down, val, to, moved, sp
  <2>3. ValidData(down) =>
          step_state(s) = MkState(c, [d EXCEPT ![down] = val], sp(down), cc0, to, "AOK")
    BY <2>2, <1>6
  <2>4. ~ValidData(down) => step_state(s) = MkState(c, d, sp(down), cc0, at, "ADR")
    BY <2>2, <1>6
  <2> QED
    BY <2>3, <2>4, <1>16 DEF StepMakes, Live, s, down, val, to, sp
<1>17. CASE in.op = "RET"
  BY <1>1, <1>2, <1>3, <1>4, <1>5, <1>6, <1>17 DEF BranchTaken, StepMakes, Live, s
<1>18. CASE in.op = "PUSHQ"
  <2> DEFINE down == Wrap(r[RRSP] - 1)
             val == get_reg_val(r, in.ra)
             to == Wrap(at + 1)
  <2>1. step_state(s) = Stores(moved(down), down, val, to)
    BY <1>1, <1>3, <1>18 DEF BranchTaken
  <2>2. step_state(s) = Stores(MkState(c, d, sp(down), cc0, at, "AOK"), down, val, to)
    BY <2>1, <1>21
  <2> HIDE DEF down, val, to, moved, sp
  <2>3. ValidData(down) =>
          step_state(s) = MkState(c, [d EXCEPT ![down] = val], sp(down), cc0, to, "AOK")
    BY <2>2, <1>6
  <2>4. ~ValidData(down) => step_state(s) = MkState(c, d, sp(down), cc0, at, "ADR")
    BY <2>2, <1>6
  <2> QED
    BY <2>3, <2>4, <1>18 DEF StepMakes, Live, s, down, val, to, sp
<1>19. CASE in.op = "POPQ"
  <2> DEFINE up == Wrap(r[RRSP] + 1)
             val == d[r[RRSP]]
             to == Wrap(at + 1)
  <2>1. step_state(s) = IF ValidData(r[RRSP]) THEN Sets(moved(up), in.ra, val, to)
                        ELSE Fails(moved(up), "ADR")
    BY <1>1, <1>3, <1>19 DEF BranchTaken
  <2>2. moved(up) = MkState(c, d, sp(up), cc0, at, "AOK")
    BY <1>21
  <2> HIDE DEF up, val, to, moved, sp
  <2>3. ValidData(r[RRSP]) =>
          step_state(s) = MkState(c, d, set_reg_val(sp(up), in.ra, val), cc0, to, "AOK")
    BY <2>1, <2>2, <1>5
  <2>4. ~ValidData(r[RRSP]) => step_state(s) = MkState(c, d, sp(up), cc0, at, "ADR")
    BY <2>1, <2>2, <1>22
  <2> QED
    BY <2>3, <2>4, <1>19 DEF StepMakes, Live, s, up, val, to, sp
<1>20. CASE in.op \notin Live \cup {"HALT"}
  BY <1>1, <1>2, <1>3, <1>20 DEF BranchTaken, StepMakes, Live, s
<1> QED
  BY <1>7, <1>8, <1>9, <1>10, <1>11, <1>12, <1>13, <1>14, <1>15, <1>16, <1>17, <1>18, <1>19, <1>20, Zenon DEF Live

(* step_state makes of an instruction what Act says.                       *)
LEMMA StepIsAct ==
  ASSUME NEW c, NEW d, NEW r, NEW cc0, NEW at, NEW v,
         RegType(r), DataType(d), ValidCode(at), Assembled(c[at], v), c[at].op \in Live
  PROVE  step_state(MkState(c, d, r, cc0, at, "AOK")) = Act(c, d, r, cc0, at)
<1> DEFINE in == c[at]
           argA == get_reg_val(r, in.ra)
           argB == get_reg_val(r, in.rb)
           rsp == r[RRSP]
<1>1. StepMakes(c, d, r, cc0, at, in)
  BY StepOf
<1>2. /\ in.c \in Words /\ in.c \in Int /\ rsp \in Words /\ rsp \in Int
      /\ argA \in Words /\ argB \in Words /\ argA \in Int /\ argB \in Int
  BY Wraps, RegWords DEF Assembled, RegType
<1>3. RRSP # RNONE /\ get_reg_val(r, RRSP) = rsp /\ get_reg_val(r, RNONE) = 0
  BY RegWords DEF get_reg_val
<1>4. \A w, x : compute_alu("ADD", w, x) = Wrap(w + x)
  BY DEF compute_alu
<1>5. /\ \A w : set_reg_val(w, RNONE, w) = w
      /\ \A q, w : set_reg_val(q, RNONE, w) = q
      /\ \A q, w : set_reg_val(q, RRSP, w) = [q EXCEPT ![RRSP] = w]
  BY <1>3 DEF set_reg_val
<1>6. /\ Wrap(argA + 0) = argA /\ Wrap(in.c + 0) = in.c
      /\ Wrap(-1 + rsp) = Wrap(rsp - 1) /\ Wrap(1 + rsp) = Wrap(rsp + 1)
      /\ Wrap(argB + in.c) = Wrap(in.c + argB)
  <2>1. -1 + rsp = rsp - 1 /\ 1 + rsp = rsp + 1 /\ argB + in.c = in.c + argB
    BY <1>2
  <2> QED
    BY <2>1, <1>2, Wraps
<1> HIDE DEF in
<1>7. CASE in.op = "NOP"
  BY <1>1, <1>2, <1>3, <1>4, <1>5, <1>6, <1>7
  DEF StepMakes, Act, After, BadAddress, Address, Loads, Saves, Stack, SrcA, SrcB,
      DstE, DstEIf, DstM, Goes, Sum, Flags, Fun, InA, InB, in
<1>8. CASE in.op = "RRMOVQ"
  <2>1. CASE cond_holds(cc0, in.fn)
    BY <1>1, <1>2, <1>3, <1>4, <1>5, <1>6, <1>8, <2>1
    DEF StepMakes, Act, After, BadAddress, Address, Loads, Saves, Stack, SrcA, SrcB,
        DstE, DstEIf, DstM, Goes, Sum, Flags, Fun, InA, InB, in
  <2>2. CASE ~cond_holds(cc0, in.fn)
    BY <1>1, <1>2, <1>3, <1>4, <1>5, <1>6, <1>8, <2>2
    DEF StepMakes, Act, After, BadAddress, Address, Loads, Saves, Stack, SrcA, SrcB,
        DstE, DstEIf, DstM, Goes, Sum, Flags, Fun, InA, InB, in
  <2> QED
    BY <2>1, <2>2
<1>9. CASE in.op = "IRMOVQ"
  BY <1>1, <1>2, <1>3, <1>4, <1>5, <1>6, <1>9
  DEF StepMakes, Act, After, BadAddress, Address, Loads, Saves, Stack, SrcA, SrcB,
      DstE, DstEIf, DstM, Goes, Sum, Flags, Fun, InA, InB, in
<1>10. CASE in.op = "RMMOVQ"
  <2> DEFINE x == Wrap(in.c + argB)
             a == get_reg_val(r, SrcA(in))
             b == get_reg_val(r, SrcB(in))
             val == argA
             to == Wrap(at + 1)
             regs == r
  <2>1. step_state(MkState(c, d, r, cc0, at, "AOK"))
          = IF ValidData(x) THEN MkState(c, [d EXCEPT ![x] = val], regs, cc0, to, "AOK")
            ELSE MkState(c, d, regs, cc0, at, "ADR")
    BY <1>1, <1>10 DEF StepMakes
  <2>2. Sum(in, a, b) = x /\ Address(in, a, x) = x
    BY <1>3, <1>4, <1>6, <1>10 DEF Sum, Fun, InA, InB, SrcB, Address
  <2>3. BadAddress(in, a, x) = ~ValidData(x)
    BY <2>2, <1>10 DEF BadAddress, Loads, Saves
  <2>4. /\ set_reg_val(set_reg_val(r, DstEIf(in, cc0), x), DstM(in), d[x]) = regs
        /\ (IF in.op \in Stack THEN set_reg_val(r, DstE(in), x) ELSE r) = regs
    BY <1>5, <1>10 DEF DstEIf, DstE, DstM, Stack
  <2>5. (IF in.op = "CALL" THEN Wrap(at + 1) ELSE a) = val
    BY <1>10 DEF SrcA
  <2>6. After(in, c, d, r, cc0, at, a, b, x, d[x])
          = IF ValidData(x) THEN MkState(c, [d EXCEPT ![x] = val], regs, cc0, to, "AOK")
            ELSE MkState(c, d, regs, cc0, at, "ADR")
    <3> HIDE DEF x, a, b, regs, val
    <3> QED
      BY <2>2, <2>3, <2>4, <2>5, <1>10 DEF After, Saves
  <2> QED
    BY <2>1, <2>2, <2>6 DEF Act, in
<1>11. CASE in.op = "MRMOVQ"
  BY <1>1, <1>2, <1>3, <1>4, <1>5, <1>6, <1>11
  DEF StepMakes, Act, After, BadAddress, Address, Loads, Saves, Stack, SrcA, SrcB,
      DstE, DstEIf, DstM, Goes, Sum, Flags, Fun, InA, InB, in
<1>12. CASE in.op = "OPQ"
  BY <1>1, <1>2, <1>3, <1>4, <1>5, <1>6, <1>12
  DEF StepMakes, Act, After, BadAddress, Address, Loads, Saves, Stack, SrcA, SrcB,
      DstE, DstEIf, DstM, Goes, Sum, Flags, Fun, InA, InB, in
<1>13. CASE in.op = "IADDQ"
  BY <1>1, <1>2, <1>3, <1>4, <1>5, <1>6, <1>13
  DEF StepMakes, Act, After, BadAddress, Address, Loads, Saves, Stack, SrcA, SrcB,
      DstE, DstEIf, DstM, Goes, Sum, Flags, Fun, InA, InB, in
<1>14. CASE in.op = "JXX"
  BY <1>1, <1>2, <1>3, <1>4, <1>5, <1>6, <1>14
  DEF StepMakes, Act, After, BadAddress, Address, Loads, Saves, Stack, SrcA, SrcB,
      DstE, DstEIf, DstM, Goes, Sum, Flags, Fun, InA, InB, in
<1>15. CASE in.op = "CALL"
  <2> DEFINE x == Wrap(rsp - 1)
             a == get_reg_val(r, SrcA(in))
             b == get_reg_val(r, SrcB(in))
             val == Wrap(at + 1)
             to == in.c
             regs == [r EXCEPT ![RRSP] = x]
  <2>1. step_state(MkState(c, d, r, cc0, at, "AOK"))
          = IF ValidData(x) THEN MkState(c, [d EXCEPT ![x] = val], regs, cc0, to, "AOK")
            ELSE MkState(c, d, regs, cc0, at, "ADR")
    BY <1>1, <1>15 DEF StepMakes
  <2>2. Sum(in, a, b) = x /\ Address(in, a, x) = x
    BY <1>3, <1>4, <1>6, <1>15 DEF Sum, Fun, InA, InB, SrcB, Address
  <2>3. BadAddress(in, a, x) = ~ValidData(x)
    BY <2>2, <1>15 DEF BadAddress, Loads, Saves
  <2>4. /\ set_reg_val(set_reg_val(r, DstEIf(in, cc0), x), DstM(in), d[x]) = regs
        /\ (IF in.op \in Stack THEN set_reg_val(r, DstE(in), x) ELSE r) = regs
    BY <1>5, <1>15 DEF DstEIf, DstE, DstM, Stack
  <2>5. (IF in.op = "CALL" THEN Wrap(at + 1) ELSE a) = val
    BY <1>15 DEF SrcA
  <2>6. After(in, c, d, r, cc0, at, a, b, x, d[x])
          = IF ValidData(x) THEN MkState(c, [d EXCEPT ![x] = val], regs, cc0, to, "AOK")
            ELSE MkState(c, d, regs, cc0, at, "ADR")
    <3> HIDE DEF x, a, b, regs, val
    <3> QED
      BY <2>2, <2>3, <2>4, <2>5, <1>15 DEF After, Saves
  <2> QED
    BY <2>1, <2>2, <2>6 DEF Act, in
<1>16. CASE in.op = "RET"
  BY <1>1, <1>2, <1>3, <1>4, <1>5, <1>6, <1>16
  DEF StepMakes, Act, After, BadAddress, Address, Loads, Saves, Stack, SrcA, SrcB,
      DstE, DstEIf, DstM, Goes, Sum, Flags, Fun, InA, InB, in
<1>17. CASE in.op = "PUSHQ"
  <2> DEFINE x == Wrap(rsp - 1)
             a == get_reg_val(r, SrcA(in))
             b == get_reg_val(r, SrcB(in))
             val == argA
             to == Wrap(at + 1)
             regs == [r EXCEPT ![RRSP] = x]
  <2>1. step_state(MkState(c, d, r, cc0, at, "AOK"))
          = IF ValidData(x) THEN MkState(c, [d EXCEPT ![x] = val], regs, cc0, to, "AOK")
            ELSE MkState(c, d, regs, cc0, at, "ADR")
    BY <1>1, <1>17 DEF StepMakes
  <2>2. Sum(in, a, b) = x /\ Address(in, a, x) = x
    BY <1>3, <1>4, <1>6, <1>17 DEF Sum, Fun, InA, InB, SrcB, Address
  <2>3. BadAddress(in, a, x) = ~ValidData(x)
    BY <2>2, <1>17 DEF BadAddress, Loads, Saves
  <2>4. /\ set_reg_val(set_reg_val(r, DstEIf(in, cc0), x), DstM(in), d[x]) = regs
        /\ (IF in.op \in Stack THEN set_reg_val(r, DstE(in), x) ELSE r) = regs
    BY <1>5, <1>17 DEF DstEIf, DstE, DstM, Stack
  <2>5. (IF in.op = "CALL" THEN Wrap(at + 1) ELSE a) = val
    BY <1>17 DEF SrcA
  <2>6. After(in, c, d, r, cc0, at, a, b, x, d[x])
          = IF ValidData(x) THEN MkState(c, [d EXCEPT ![x] = val], regs, cc0, to, "AOK")
            ELSE MkState(c, d, regs, cc0, at, "ADR")
    <3> HIDE DEF x, a, b, regs, val
    <3> QED
      BY <2>2, <2>3, <2>4, <2>5, <1>17 DEF After, Saves
  <2> QED
    BY <2>1, <2>2, <2>6 DEF Act, in
<1>18. CASE in.op = "POPQ"
  BY <1>1, <1>2, <1>3, <1>4, <1>5, <1>6, <1>18
  DEF StepMakes, Act, After, BadAddress, Address, Loads, Saves, Stack, SrcA, SrcB,
      DstE, DstEIf, DstM, Goes, Sum, Flags, Fun, InA, InB, in
<1> QED
  BY <1>7, <1>8, <1>9, <1>10, <1>11, <1>12, <1>13, <1>14, <1>15, <1>16, <1>17, <1>18 DEF Live, in

(* A state of the program again, whose registers and memory hold words.    *)
LEMMA ActTypes ==
  ASSUME NEW c, NEW d, NEW r, NEW cc0, NEW at, NEW v,
         RegType(r), DataType(d), ValidCode(at), Assembled(c[at], v)
  PROVE  LET in == c[at]
             a == get_reg_val(r, SrcA(in))
             b == get_reg_val(r, SrcB(in))
             e == Sum(in, a, b)
             m == d[Address(in, a, e)]
         IN  /\ a \in Words /\ b \in Words /\ e \in Words
             /\ Loads(in) /\ ~BadAddress(in, a, e) => m \in Words
             /\ Saves(in) /\ ~BadAddress(in, a, e) =>
                  /\ Address(in, a, e) = e /\ ValidData(e)
                  /\ (IF in.op = "CALL" THEN Wrap(at + 1) ELSE a) \in Words
             /\ RegType(Act(c, d, r, cc0, at).r) /\ DataType(Act(c, d, r, cc0, at).data)
<1> DEFINE in == c[at]
           a == get_reg_val(r, SrcA(in))
           b == get_reg_val(r, SrcB(in))
           e == Sum(in, a, b)
           m == d[Address(in, a, e)]
           val == IF in.op = "CALL" THEN Wrap(at + 1) ELSE a
<1>1. a \in Words /\ b \in Words
  BY Operands, RegWords
<1>2. e \in Words
  <2>1. -1 \in Words /\ 1 \in Words /\ 0 \in Words
    BY Sizes, Wraps DEF Words
  <2>2. InA(in, a) \in Words /\ InB(in, b) \in Words
    BY <1>1, <2>1, Operands DEF InA, InB
  <2> QED
    BY <2>2, AluWord DEF Sum
<1>3. ASSUME Loads(in), ~BadAddress(in, a, e) PROVE m \in Words
  BY <1>3, RegWords DEF BadAddress
<1>4. ASSUME Saves(in), ~BadAddress(in, a, e)
      PROVE  Address(in, a, e) = e /\ ValidData(e) /\ val \in Words
  <2>1. Address(in, a, e) = e
    BY <1>4 DEF Saves, Address
  <2> QED
    BY <2>1, <1>1, <1>4, Wraps DEF BadAddress
<1>5. /\ DstE(in) \in Registers \cup {RNONE} /\ DstM(in) \in Registers \cup {RNONE}
      /\ DstEIf(in, cc0) \in Registers \cup {RNONE}
  BY Operands DEF DstEIf
<1>6. RegType(set_reg_val(r, DstE(in), e)) /\ RegType(set_reg_val(r, DstEIf(in, cc0), e))
  BY <1>2, <1>5, RegWords
<1>7. ~BadAddress(in, a, e) => RegType(set_reg_val(set_reg_val(r, DstEIf(in, cc0), e), DstM(in), m))
  <2>1. CASE DstM(in) = RNONE
    BY <2>1, <1>6 DEF set_reg_val
  <2>2. CASE DstM(in) # RNONE
    BY <2>2, <1>3, <1>5, <1>6, RegWords DEF DstM, Loads
  <2> QED
    BY <2>1, <2>2
<1>8. Saves(in) /\ ~BadAddress(in, a, e) => DataType([d EXCEPT ![Address(in, a, e)] = val])
  BY <1>4, RegWords DEF DataType
<1>9. RegType(Act(c, d, r, cc0, at).r) /\ DataType(Act(c, d, r, cc0, at).data)
  <2>1. Act(c, d, r, cc0, at) = After(in, c, d, r, cc0, at, a, b, e, m)
    BY DEF Act
  <2> HIDE DEF in, a, b, e, m
  <2>2. CASE BadAddress(in, a, e)
    BY <2>1, <2>2, <1>6 DEF After, MkState
  <2>3. CASE ~BadAddress(in, a, e)
    BY <2>1, <2>3, <1>7, <1>8 DEF After, MkState
  <2> QED
    BY <2>2, <2>3
<1> QED
  BY <1>1, <1>2, <1>3, <1>4, <1>9

-----------------------------------------------------------------------------
(* The sequential processors.                                              *)

(* The state that SeqArchitectural shows.                                  *)
SeqShows(c, st, o, r, d, cc0, at) ==
  MkState(c, IF st = "AOK" THEN MemWrite(d, o) ELSE d,
          IF st = "AOK" THEN Writeback(r, o)
          ELSE IF o.icode \in Stack THEN set_reg_val(r, o.dstE, o.valE) ELSE r,
          IF st = "AOK" THEN o.cc ELSE cc0,
          IF st = "AOK" THEN new_pc(o) ELSE at,
          st)

(* The state of the sequential processor in its parts: what out still      *)
(* holds is written back first.                                            *)
LEMMA SeqShown == SeqArchitectural = SeqShows(image.code, sstat, out, sreg, sdata, scc, pc)
  BY DEF SeqArchitectural, SeqShows, MkState, Stack

(* The signals of an instruction that is executed.                         *)
LEMMA Signals ==
  ASSUME NEW r, NEW d, NEW cc0, NEW at, ValidCode(at),
         seq # "full", Assembled(image.code[at], seq), image.code[at].op \in Live
  PROVE  LET in == image.code[at]
             a == get_reg_val(r, SrcA(in))
             b == get_reg_val(r, SrcB(in))
             e == Sum(in, a, b)
             x == Execute(at, r, d, cc0)
             o == x.out
             bad == BadAddress(in, a, e)
         IN  /\ x.stat = IF bad THEN "ADR" ELSE "AOK"
             /\ o.icode = in.op /\ o.valC = in.c /\ o.valP = Wrap(at + 1)
             /\ o.Cnd = Goes(in, cc0)
             /\ Loads(in) /\ ~bad => o.valM = d[Address(in, a, e)]
             /\ o.dstE = DstEIf(in, cc0) /\ o.valE = e /\ o.dstM = DstM(in)
             /\ o.mem_write = (Saves(in) /\ ~bad)
             /\ Saves(in) => /\ o.mem_addr = Address(in, a, e)
                             /\ o.mem_data = IF in.op = "CALL" THEN Wrap(at + 1) ELSE a
             /\ o.cc = IF in.op \in {"OPQ", "IADDQ"} THEN Flags(in, a, b) ELSE cc0
<1> DEFINE in == image.code[at]
           a == get_reg_val(r, SrcA(in))
           b == get_reg_val(r, SrcB(in))
           e == Sum(in, a, b)
<1>1. get_reg_val(r, RNONE) = 0
  BY DEF get_reg_val
<1>2. in.op = "IADDQ" => seq = "seq-full"
  BY DEF Assembled
<1>3. CASE in.op = "NOP"
  BY <1>1, <1>2, <1>3
  DEF Execute, Implemented, BadAddress, Address, Loads, Saves, SrcA, SrcB,
      DstE, DstEIf, DstM, Goes, Sum, Flags, Fun, InA, InB
<1>4. CASE in.op = "RRMOVQ"
  BY <1>1, <1>2, <1>4
  DEF Execute, Implemented, BadAddress, Address, Loads, Saves, SrcA, SrcB,
      DstE, DstEIf, DstM, Goes, Sum, Flags, Fun, InA, InB
<1>5. CASE in.op = "IRMOVQ"
  BY <1>1, <1>2, <1>5
  DEF Execute, Implemented, BadAddress, Address, Loads, Saves, SrcA, SrcB,
      DstE, DstEIf, DstM, Goes, Sum, Flags, Fun, InA, InB
<1>6. CASE in.op = "RMMOVQ"
  BY <1>1, <1>2, <1>6
  DEF Execute, Implemented, BadAddress, Address, Loads, Saves, SrcA, SrcB,
      DstE, DstEIf, DstM, Goes, Sum, Flags, Fun, InA, InB
<1>7. CASE in.op = "MRMOVQ"
  BY <1>1, <1>2, <1>7
  DEF Execute, Implemented, BadAddress, Address, Loads, Saves, SrcA, SrcB,
      DstE, DstEIf, DstM, Goes, Sum, Flags, Fun, InA, InB
<1>8. CASE in.op = "OPQ"
  BY <1>1, <1>2, <1>8
  DEF Execute, Implemented, BadAddress, Address, Loads, Saves, SrcA, SrcB,
      DstE, DstEIf, DstM, Goes, Sum, Flags, Fun, InA, InB
<1>9. CASE in.op = "IADDQ"
  BY <1>1, <1>2, <1>9
  DEF Execute, Implemented, BadAddress, Address, Loads, Saves, SrcA, SrcB,
      DstE, DstEIf, DstM, Goes, Sum, Flags, Fun, InA, InB
<1>10. CASE in.op = "JXX"
  BY <1>1, <1>2, <1>10
  DEF Execute, Implemented, BadAddress, Address, Loads, Saves, SrcA, SrcB,
      DstE, DstEIf, DstM, Goes, Sum, Flags, Fun, InA, InB
<1>11. CASE in.op = "CALL"
  BY <1>1, <1>2, <1>11
  DEF Execute, Implemented, BadAddress, Address, Loads, Saves, SrcA, SrcB,
      DstE, DstEIf, DstM, Goes, Sum, Flags, Fun, InA, InB
<1>12. CASE in.op = "RET"
  BY <1>1, <1>2, <1>12
  DEF Execute, Implemented, BadAddress, Address, Loads, Saves, SrcA, SrcB,
      DstE, DstEIf, DstM, Goes, Sum, Flags, Fun, InA, InB
<1>13. CASE in.op = "PUSHQ"
  BY <1>1, <1>2, <1>13
  DEF Execute, Implemented, BadAddress, Address, Loads, Saves, SrcA, SrcB,
      DstE, DstEIf, DstM, Goes, Sum, Flags, Fun, InA, InB
<1>14. CASE in.op = "POPQ"
  BY <1>1, <1>2, <1>14
  DEF Execute, Implemented, BadAddress, Address, Loads, Saves, SrcA, SrcB,
      DstE, DstEIf, DstM, Goes, Sum, Flags, Fun, InA, InB
<1> QED
  BY <1>3, <1>4, <1>5, <1>6, <1>7, <1>8, <1>9, <1>10, <1>11, <1>12, <1>13, <1>14 DEF Live

(* What the processor has computed of an instruction is the state that     *)
(* step_state leads to.                                                    *)
LEMMA ExecuteIsStep ==
  ASSUME NEW r, NEW d, NEW cc0, NEW at, RegType(r), DataType(d), seq # "full", Loaded(seq, image)
  PROVE  LET x == Execute(at, r, d, cc0)
             s == SeqShows(image.code, x.stat, x.out, r, d, cc0, at)
         IN  /\ s = step_state(MkState(image.code, d, r, cc0, at, "AOK"))
             /\ x.stat \in {"AOK", "ADR", "INS", "HLT"}
             /\ x.stat = "AOK" => RegType(s.r) /\ DataType(s.data)
<1> DEFINE c == image.code
           in == image.code[at]
           x == Execute(at, r, d, cc0)
           o == x.out
           s == SeqShows(c, x.stat, o, r, d, cc0, at)
           step == step_state(MkState(c, d, r, cc0, at, "AOK"))
           a == get_reg_val(r, SrcA(in))
           b == get_reg_val(r, SrcB(in))
           e == Sum(in, a, b)
           bad == BadAddress(in, a, e)
<1>1. CASE ~ValidCode(at)
  <2>1. x.stat = "ADR" /\ o.icode = "NOP"
    BY <1>1 DEF Execute, Instr
  <2>2. s = MkState(c, d, r, cc0, at, "ADR")
    BY <2>1 DEF SeqShows, Stack
  <2>3. MkState(c, d, r, cc0, at, "AOK").pc = at
    BY StateParts
  <2>4. step = Fails(MkState(c, d, r, cc0, at, "AOK"), "ADR")
    BY <1>1, <2>3 DEF step_state
  <2>5. Fails(MkState(c, d, r, cc0, at, "AOK"), "ADR") = MkState(c, d, r, cc0, at, "ADR")
    BY StateParts
  <2> QED
    BY <2>1, <2>2, <2>4, <2>5
<1>2. CASE ValidCode(at) /\ in.op \notin Live
  <2>1. x.stat = (IF in.op = "HALT" THEN "HLT" ELSE "INS") /\ o.icode = in.op
    BY <1>2 DEF Execute, Implemented, Live
  <2>2. in.op \notin Stack
    BY <1>2 DEF Stack, Live
  <2>3. s = MkState(c, d, r, cc0, at, x.stat)
    BY <2>1, <2>2 DEF SeqShows
  <2>4. step = MkState(c, d, r, cc0, at, IF in.op = "HALT" THEN "HLT" ELSE "INS")
    <3>1. StepMakes(c, d, r, cc0, at, in)
      BY <1>2, StepOf
    <3> QED
      BY <3>1, <1>2 DEF StepMakes
  <2> QED
    BY <2>1, <2>3, <2>4
<1>3. CASE ValidCode(at) /\ in.op \in Live
  <2>1. Assembled(in, seq)
    BY <1>3 DEF Loaded, ValidCode
  <2>2. /\ x.stat = IF bad THEN "ADR" ELSE "AOK"
        /\ o.icode = in.op /\ o.valC = in.c /\ o.valP = Wrap(at + 1)
        /\ o.Cnd = Goes(in, cc0)
        /\ Loads(in) /\ ~bad => o.valM = d[Address(in, a, e)]
        /\ o.dstE = DstEIf(in, cc0) /\ o.valE = e /\ o.dstM = DstM(in)
        /\ o.mem_write = (Saves(in) /\ ~bad)
        /\ Saves(in) => /\ o.mem_addr = Address(in, a, e)
                        /\ o.mem_data = IF in.op = "CALL" THEN Wrap(at + 1) ELSE a
        /\ o.cc = IF in.op \in {"OPQ", "IADDQ"} THEN Flags(in, a, b) ELSE cc0
    BY <1>3, <2>1, Signals
  <2>3. step = Act(c, d, r, cc0, at)
    BY <1>3, <2>1, StepIsAct
  <2> DEFINE m == d[Address(in, a, e)]
  <2>4. step = After(in, c, d, r, cc0, at, a, b, e, m)
    BY <2>3 DEF Act
  <2>5. RegType(step.r) /\ DataType(step.data)
    BY <2>1, <2>3, <1>3, ActTypes
  <2>6. RNONE \notin Registers
    BY RegWords
  <2> HIDE DEF x, in, step, a, b, e, bad, m
  <2>7. CASE bad
    <3>1. s = MkState(c, d, IF in.op \in Stack THEN set_reg_val(r, DstE(in), e) ELSE r, cc0, at, "ADR")
      BY <2>2, <2>7 DEF SeqShows, DstEIf, Stack
    <3>2. step = MkState(c, d, IF in.op \in Stack THEN set_reg_val(r, DstE(in), e) ELSE r, cc0, at, "ADR")
      BY <2>4, <2>7 DEF After, bad
    <3> QED
      BY <3>1, <3>2, <2>2, <2>7 DEF x, step, s
  <2>8. CASE ~bad
    <3>1. MemWrite(d, o) = IF Saves(in)
                           THEN [d EXCEPT ![Address(in, a, e)] = IF in.op = "CALL" THEN Wrap(at + 1) ELSE a]
                           ELSE d
      BY <2>2, <2>8 DEF MemWrite
    <3>2. Writeback(r, o) = set_reg_val(set_reg_val(r, DstEIf(in, cc0), e), DstM(in), m)
      BY <2>2, <2>8 DEF Writeback, DstM, Loads, set_reg_val, m
    <3>3. new_pc(o) = CASE in.op = "CALL" \/ (in.op = "JXX" /\ Goes(in, cc0)) -> in.c
                        [] in.op = "RET" -> m
                        [] OTHER -> Wrap(at + 1)
      <4>1. in.op = "RET" => o.valM = m
        BY <2>2, <2>8 DEF Loads, m
      <4> QED
        BY <4>1, <2>2 DEF new_pc
    <3>4. s = step
      BY <2>2, <2>4, <2>8, <3>1, <3>2, <3>3 DEF SeqShows, After, bad
    <3> QED
      BY <3>4, <2>2, <2>5, <2>8 DEF x, step, s
  <2> QED
    BY <2>7, <2>8
<1> QED
  BY <1>1, <1>2, <1>3

(* While it runs, the state it shows has words in its registers and its    *)
(* memory.                                                                 *)
SeqIInv == /\ seq # "full" /\ Loaded(seq, image)
           /\ sstat \in {"AOK", "ADR", "INS", "HLT"}
           /\ sstat = "AOK" => RegType(SeqArchitectural.r) /\ DataType(SeqArchitectural.data)

(* The sequential processor starts with its invariant, and shows the state *)
(* it was loaded with.                                                     *)
LEMMA SeqStarts ==
  ASSUME NEW v, NEW s, SeqInit(v, s), Loaded(v, s), v # "full"
  PROVE  SeqIInv /\ SeqArchitectural = s
<1>1. seq = v /\ image = s /\ pc = 0 /\ sreg = s.r /\ sdata = s.data /\ scc = s.cc /\ sstat = "AOK"
      /\ out = Nothing
  BY DEF SeqInit
<1>2. Writeback(sreg, out) = s.r /\ MemWrite(sdata, out) = s.data /\ out.cc = s.cc /\ new_pc(out) = 0
  BY <1>1 DEF Writeback, MemWrite, Nothing, new_pc, set_reg_val, Loaded, NewState
<1>3. s = MkState(s.code, s.data, s.r, DEFAULT_CC, 0, "AOK")
  BY DEF Loaded, NewState, MkState
<1>4. SeqArchitectural = MkState(s.code, s.data, s.r, DEFAULT_CC, 0, "AOK")
  BY <1>1, <1>2 DEF SeqArchitectural, MkState, Nothing
<1>5. RegType(s.r) /\ DataType(s.data)
  BY DEF Loaded, RegType, DataType
<1> QED
  BY <1>1, <1>3, <1>4, <1>5 DEF SeqIInv

(* The instruction set that the refinement speaks of is that of Y86.       *)
LEMMA SeqStepIsStep ==
  /\ \A s : SeqIsa!step_state(s) = step_state(s)
  /\ SeqIsa!DEFAULT_CC = DEFAULT_CC
  BY DEF
      SeqIsa!step_state, step_state, SeqIsa!Wrap, Wrap,
      SeqIsa!ValidCode, ValidCode, SeqIsa!ValidData, ValidData,
      SeqIsa!get_reg_val, get_reg_val, SeqIsa!set_reg_val, set_reg_val,
      SeqIsa!Fails, Fails, SeqIsa!Stores, Stores,
      SeqIsa!Sets, Sets, SeqIsa!cond_holds, cond_holds,
      SeqIsa!compute_alu, compute_alu, SeqIsa!compute_cc, compute_cc,
      SeqIsa!BitAnd, BitAnd, SeqIsa!BitXor, BitXor,
      SeqIsa!OfBits, OfBits, SeqIsa!Bit, Bit,
      SeqIsa!SumTo, SumTo, SeqIsa!DEFAULT_CC, DEFAULT_CC

(* A step of the sequential processor is one of step_state: it writes back *)
(* the last instruction and executes the next.                             *)
LEMMA SeqStepIs ==
  ASSUME SeqIInv, SeqStep
  PROVE  SeqIInv' /\ SeqIsa!Next
<1> DEFINE d == MemWrite(sdata, out)
           r == Writeback(sreg, out)
           x == Execute(pc', sreg', sdata', scc')
<1>1. /\ sstat = "AOK" /\ sreg' = r /\ sdata' = d /\ scc' = out.cc /\ pc' = new_pc(out)
      /\ sstat' = x.stat /\ out' = x.out /\ seq' = seq /\ image' = image
  BY DEF SeqStep
<1>2. SeqArchitectural = MkState(image.code, d, r, out.cc, new_pc(out), "AOK")
  BY <1>1 DEF SeqArchitectural, MkState
<1>3. RegType(r) /\ DataType(d)
  BY <1>1, <1>2, StateParts DEF SeqIInv
<1>4. LET s == SeqShows(image.code, x.stat, x.out, sreg', sdata', scc', pc')
      IN  /\ s = step_state(MkState(image.code, sdata', sreg', scc', pc', "AOK"))
          /\ x.stat \in {"AOK", "ADR", "INS", "HLT"}
          /\ x.stat = "AOK" => RegType(s.r) /\ DataType(s.data)
  BY <1>1, <1>3, ExecuteIsStep DEF SeqIInv
<1>5. SeqArchitectural' = SeqShows(image.code, x.stat, x.out, sreg', sdata', scc', pc')
  <2>1. SeqArchitectural' = SeqShows(image.code', sstat', out', sreg', sdata', scc', pc')
    BY SeqShown DEF SeqArchitectural, SeqShows, MkState, Stack, Writeback, MemWrite, new_pc
  <2> QED
    BY <2>1, <1>1
<1>6. SeqArchitectural' = step_state(SeqArchitectural) /\ SeqArchitectural.stat = "AOK"
  BY <1>1, <1>2, <1>4, <1>5, StateParts
<1>7. SeqIInv'
  <2>1. seq' # "full" /\ Loaded(seq', image')
    BY <1>1 DEF SeqIInv
  <2>2. /\ sstat' \in {"AOK", "ADR", "INS", "HLT"}
        /\ sstat' = "AOK" => RegType(SeqArchitectural'.r) /\ DataType(SeqArchitectural'.data)
    BY <1>1, <1>4, <1>5
  <2> QED
    BY <2>1, <2>2 DEF SeqIInv
<1> QED
  BY <1>6, <1>7, SeqStepIsStep DEF SeqIsa!Next

(* The instruction set that the refinement speaks of is that of Y86.       *)
LEMMA PipeStepIsStep ==
  /\ \A s : InstructionSet!step_state(s) = step_state(s)
  /\ InstructionSet!DEFAULT_CC = DEFAULT_CC
  BY DEF
      InstructionSet!step_state, step_state, InstructionSet!Wrap, Wrap,
      InstructionSet!ValidCode, ValidCode, InstructionSet!ValidData, ValidData,
      InstructionSet!get_reg_val, get_reg_val, InstructionSet!set_reg_val, set_reg_val,
      InstructionSet!Fails, Fails, InstructionSet!Stores, Stores,
      InstructionSet!Sets, Sets, InstructionSet!cond_holds, cond_holds,
      InstructionSet!compute_alu, compute_alu, InstructionSet!compute_cc, compute_cc,
      InstructionSet!BitAnd, BitAnd, InstructionSet!BitXor, BitXor,
      InstructionSet!OfBits, OfBits, InstructionSet!Bit, Bit,
      InstructionSet!SumTo, SumTo, InstructionSet!DEFAULT_CC, DEFAULT_CC

-----------------------------------------------------------------------------
(* The pipelines.                                                          *)

(* The instruction at an address of the program, or what fetch takes for   *)
(* it where there is none, the status it has when it is fetched, and the   *)
(* address that is predicted for the next one.                             *)
In(a) == IF ValidCode(a) THEN start.code[a] ELSE Instr("NOP", "YES", RNONE, RNONE, 0)
Status(a) == IF ~ValidCode(a) THEN "ADR" ELSE IF In(a).op = "HALT" THEN "HLT"
             ELSE IF In(a).op \in Live THEN "AOK" ELSE "INS"
PredPC(a) ==
  IF \/ In(a).op = "CALL"
     \/ /\ In(a).op = "JXX"
        /\ CASE hcl = "nt" -> In(a).fn = "YES"
             [] hcl = "btfnt" -> In(a).fn = "YES" \/ In(a).c < Wrap(a + 1)
             [] OTHER -> TRUE
  THEN In(a).c ELSE Wrap(a + 1)

(* Neither the instruction in write back nor the one in memory has failed. *)
Running == ~Faulty(W.stat) /\ ~Faulty(m_stat)

(* The jump in memory was mispredicted.                                    *)
Redirects ==
  /\ M.icode = "JXX"
  /\ CASE hcl = "nt" -> M.ifun # "YES" /\ M.Cnd
       [] hcl = "btfnt" -> /\ M.ifun # "YES"
                           /\ \/ M.Cnd /\ M.valE >= M.valA
                              \/ ~M.Cnd /\ M.valE < M.valA
       [] OTHER -> ~M.Cnd

(* Decode and execute hold what was fetched, or nothing.                   *)
UsesC(in) == in.op \in {"IRMOVQ", "RMMOVQ", "MRMOVQ", "JXX", "CALL", "IADDQ"}
UsesRegs(in) == in.op \notin {"NOP", "HALT", "JXX", "CALL", "RET"}

InDecode ==
  /\ D.stat = "BUB" => D.icode = "NOP"
  /\ D.stat # "BUB" =>
       /\ D.stat = Status(D.pc) /\ D.icode = In(D.pc).op /\ D.ifun = In(D.pc).fn
       /\ D.valP = Wrap(D.pc + 1)
       /\ D.stat = "AOK" => /\ UsesC(In(D.pc)) => D.valC = In(D.pc).c
                            /\ UsesRegs(In(D.pc)) => D.rA = In(D.pc).ra /\ D.rB = In(D.pc).rb

InExecute ==
  /\ E.stat = "BUB" => E.icode = "NOP" /\ E.dstE = RNONE /\ E.dstM = RNONE
  /\ E.stat # "BUB" =>
       LET in == In(E.pc) IN
       /\ E.stat = Status(E.pc) /\ E.icode = in.op /\ E.ifun = in.fn
       /\ E.stat = "AOK" => /\ UsesC(in) => E.valC = in.c
                            /\ E.srcA = SrcA(in) /\ E.dstE = DstE(in) /\ E.dstM = DstM(in)
                            /\ in.op \in {"CALL", "JXX"} => E.valA = Wrap(E.pc + 1)

(* The operands in execute are what the instructions before leave in the   *)
(* registers.                                                              *)
LoadsLate == hcl = "lf" /\ E.icode \in {"RMMOVQ", "PUSHQ"} /\ E.srcA = M.dstM
OperandsRight ==
  E.stat = "AOK" =>
    LET in == In(E.pc) IN
    /\ SrcA(in) # RNONE /\ ~LoadsLate => E.valA = Architectural.r[SrcA(in)]
    /\ SrcB(in) # RNONE => E.valB = Architectural.r[SrcB(in)]
    /\ SrcB(in) = RNONE /\ hcl = "nobypass" => E.valB = 0

(* The instructions inside follow one another, as far as is known.         *)
Flow ==
  /\ E.stat # "BUB" /\ D.stat # "BUB" => E.icode # "RET" /\ D.pc = PredPC(E.pc)
  /\ E.stat # "BUB" /\ D.stat = "BUB" => E.icode = "RET"
  /\ M.icode = "RET" => D.stat = "BUB" /\ E.stat = "BUB"
  /\ D.stat # "BUB" => /\ ~Redirects /\ W.icode # "RET"
                       /\ D.icode # "RET" => F_predPC = PredPC(D.pc)

(* What has failed can be told from the program.                           *)
InMemory == /\ M.stat = "BUB" => M.icode = "NOP"
            /\ M.stat # "BUB" => M.stat = Status(M.pc) /\ M.icode = In(M.pc).op
InWriteBack ==
  Faulty(W.stat) => /\ M.stat = "BUB" /\ M.icode = "NOP"
                    /\ W.icode \in Stack => W.icode = In(W.pc).op /\ W.stat = "ADR"

(* The versions other than pipe-1w, which writes one register at a time,   *)
(* with a program that has base registers if the version forwards.         *)
TwoPorts ==
  /\ hcl \in {"std", "full", "nobypass", "nt", "btfnt", "lf"} /\ Loaded(hcl, start)
  /\ hcl = "nobypass" \/ Based(start)

(* The invariant of the pipelines with two ports to write registers.  What *)
(* is behind a failure that has been found is of no account, and it is not *)
(* said to be right.                                                       *)
PipeIInv ==
  /\ TwoPorts
  /\ W.stat \in {"BUB", "AOK", "ADR", "INS", "HLT"}
  /\ InMemory /\ InWriteBack
  /\ Running => /\ InDecode /\ InExecute /\ OperandsRight /\ Flow
                /\ RegType(Architectural.r) /\ DataType(Architectural.data)

(* A register that is set holds the value, the others what they held.      *)
LEMMA SetGet ==
  ASSUME NEW r, NEW id, NEW v
  PROVE  /\ DOMAIN set_reg_val(r, id, v) = DOMAIN r
         /\ \A x \in DOMAIN r : x # RNONE => set_reg_val(r, id, v)[x] = IF x = id THEN v ELSE r[x]
         /\ id = RNONE => set_reg_val(r, id, v) = r
  BY DEF set_reg_val

(* What is fetched at f_pc is the instruction of the program.              *)
LEMMA Fetch ==
  ASSUME TwoPorts
  PROVE  LET in == In(f_pc)
             i == if_id_next
         IN  /\ i.stat = Status(f_pc) /\ i.icode = in.op /\ i.ifun = in.fn /\ i.pc = f_pc
             /\ i.valP = Wrap(f_pc + 1) /\ i.stat # "BUB"
             /\ i.stat = "AOK" => /\ UsesC(in) => i.valC = in.c
                                  /\ UsesRegs(in) => i.rA = in.ra /\ i.rB = in.rb
             /\ f_predPC = PredPC(f_pc)
<1> DEFINE in == In(f_pc)
<1>1. f_icode = in.op /\ (~imem_error => in = Fetched /\ Assembled(in, hcl))
  BY DEF TwoPorts, f_icode, imem_error, Fetched, In, Instr, Loaded, ValidCode
<1>2. if_id_next.ifun = in.fn
  BY <1>1 DEF if_id_next, imem_error, Fetched, In, Instr
<1>3. imem_error => in = Instr("NOP", "YES", RNONE, RNONE, 0) /\ in.op = "NOP"
  BY DEF imem_error, In, Instr
<1>5. ~imem_error => (instr_valid <=> in.op \in Live \cup {"HALT"})
  BY <1>1 DEF TwoPorts, instr_valid, Live, Assembled
<1>6. f_stat = Status(f_pc) /\ f_stat # "BUB"
  BY <1>1, <1>3, <1>5 DEF f_stat, Status, imem_error, Live
<1>7. ASSUME f_stat = "AOK"
      PROVE  ~imem_error /\ instr_valid /\ in.op \in Live
  BY <1>1, <1>3, <1>5, <1>6, <1>7 DEF f_stat, Status
<1>8. ASSUME f_stat = "AOK", UsesC(in) PROVE f_valC = in.c
  BY <1>1, <1>7, <1>8 DEF UsesC, f_valC, need_valC
<1>9. ASSUME f_stat = "AOK", UsesRegs(in) PROVE need_regids /\ Fetched.ra = in.ra /\ Fetched.rb = in.rb
  BY <1>1, <1>7, <1>9 DEF UsesRegs, need_regids
<1>10. f_predPC = PredPC(f_pc)
  <2>1. ASSUME in.op \in {"CALL", "JXX"} PROVE ~imem_error /\ f_valC = in.c
    <3>1. ~imem_error
      BY <2>1, <1>3
    <3>2. instr_valid /\ need_valC
      BY <2>1, <3>1, <1>1, <1>5 DEF need_valC, Live
    <3> QED
      BY <3>1, <3>2, <1>1 DEF f_valC
  <2> HIDE DEF in
  <2>2. PredictedTaken <=> /\ in.op = "JXX"
                           /\ CASE hcl = "nt" -> in.fn = "YES"
                                [] hcl = "btfnt" -> in.fn = "YES" \/ in.c < Wrap(f_pc + 1)
                                [] OTHER -> TRUE
    <3>1. CASE in.op # "JXX"
      BY <3>1, <1>1 DEF PredictedTaken
    <3>2. CASE in.op = "JXX"
      BY <3>2, <2>1, <1>1 DEF PredictedTaken, f_valP
    <3> QED
      BY <3>1, <3>2
  <2>3. f_predPC = IF in.op = "CALL" \/ PredictedTaken THEN f_valC ELSE Wrap(f_pc + 1)
    BY <1>1 DEF TwoPorts, f_predPC, f_valP
  <2>4. PredPC(f_pc) = IF in.op = "CALL" \/ PredictedTaken THEN in.c ELSE Wrap(f_pc + 1)
    BY <2>2 DEF PredPC, in
  <2>5. in.op = "CALL" \/ PredictedTaken => f_valC = in.c
    BY <2>1, <2>2
  <2> QED
    BY <2>3, <2>4, <2>5
<1> HIDE DEF in
<1>11. /\ if_id_next.stat = f_stat /\ if_id_next.icode = f_icode /\ if_id_next.pc = f_pc
       /\ if_id_next.valP = Wrap(f_pc + 1) /\ if_id_next.valC = f_valC
       /\ need_regids => if_id_next.rA = Fetched.ra /\ if_id_next.rB = Fetched.rb
  BY DEF if_id_next, f_valP
<1> QED
  BY <1>1, <1>2, <1>6, <1>8, <1>9, <1>10, <1>11 DEF in

(* A program's instruction that is fetched, and one that fails.            *)
LEMMA ProgramHas ==
  ASSUME TwoPorts, NEW a
  PROVE  /\ Status(a) \in {"AOK", "ADR", "INS", "HLT"}
         /\ Status(a) = "AOK" => /\ ValidCode(a) /\ In(a) = start.code[a]
                                 /\ In(a).op \in Live /\ Assembled(In(a), hcl)
                                 /\ \/ hcl = "nobypass" \/ In(a).rb # RNONE
                                    \/ In(a).op \notin {"RMMOVQ", "MRMOVQ"}
         /\ Status(a) # "AOK" => In(a).op \notin Live \ {"NOP"}
         /\ In(a).op \in Live \ {"NOP"} => Status(a) = "AOK"
<1>1. ValidCode(a) => In(a) = start.code[a] /\ Assembled(In(a), hcl)
  BY DEF TwoPorts, In, Loaded, ValidCode
<1>2. ~ValidCode(a) => In(a).op = "NOP"
  BY DEF In, Instr
<1>3. ValidCode(a) => \/ hcl = "nobypass" \/ start.code[a].rb # RNONE
                      \/ start.code[a].op \notin {"RMMOVQ", "MRMOVQ"}
  BY DEF TwoPorts, Based, ValidCode
<1> QED
  BY <1>1, <1>2, <1>3 DEF Status, Live

(* What decode makes of an instruction that has not failed.                *)
LEMMA Decode ==
  ASSUME TwoPorts
  PROVE  /\ D.icode = "NOP" => d_srcA = RNONE /\ d_srcB = RNONE /\ d_dstE = RNONE /\ d_dstM = RNONE
         /\ InDecode /\ D.stat = "AOK" =>
              LET in == In(D.pc) IN
              d_srcA = SrcA(in) /\ d_srcB = SrcB(in) /\ d_dstE = DstE(in) /\ d_dstM = DstM(in)
<1>1. D.icode = "NOP" => d_srcA = RNONE /\ d_srcB = RNONE /\ d_dstE = RNONE /\ d_dstM = RNONE
  BY DEF TwoPorts, d_srcA, d_srcB, d_dstE, d_dstM
<1>2. ASSUME InDecode, D.stat = "AOK"
      PROVE  LET in == In(D.pc) IN
             d_srcA = SrcA(in) /\ d_srcB = SrcB(in) /\ d_dstE = DstE(in) /\ d_dstM = DstM(in)
  <2> DEFINE in == In(D.pc)
  <2>1. D.icode = in.op /\ in.op \in Live /\ (UsesRegs(in) => D.rA = in.ra /\ D.rB = in.rb)
    BY <1>2, ProgramHas DEF InDecode
  <2> HIDE DEF in
  <2>2. d_srcA = SrcA(in) /\ d_dstM = DstM(in)
    BY <2>1 DEF TwoPorts, Live, d_srcA, SrcA, d_dstM, DstM, UsesRegs
  <2>3. d_srcB = SrcB(in) /\ d_dstE = DstE(in)
    BY <2>1 DEF TwoPorts, Live, d_srcB, SrcB, d_dstE, DstE, UsesRegs
  <2> QED
    BY <2>2, <2>3 DEF in
<1> QED
  BY <1>1, <1>2

(* The state of the instruction set, part by part.                         *)
Parts ==
  LET now == Architectural IN
  /\ now = MkState(start.code, now.data, now.r, cc, now.pc, now.stat)
  /\ now.data = IF mem_write /\ ~dmem_error THEN [data EXCEPT ![mem_addr] = M.valA] ELSE data
  /\ now.r = IF Faulty(W.stat) THEN Written(reg, W, W.valM)
             ELSE IF Faulty(m_stat)
             THEN IF M.icode \in Stack THEN set_reg_val(Written(reg, W, W.valM), M.dstE, M.valE)
                  ELSE Written(reg, W, W.valM)
             ELSE set_reg_val(set_reg_val(Written(reg, W, W.valM), M.dstE, M.valE), M.dstM, m_valM)
  /\ now.stat = IF Faulty(W.stat) THEN W.stat ELSE IF Faulty(m_stat) THEN m_stat ELSE "AOK"
  /\ now.pc = IF Faulty(W.stat) THEN W.pc ELSE IF Faulty(m_stat) THEN M.pc
              ELSE IF E.stat # "BUB" THEN E.pc
              ELSE IF D.stat # "BUB" THEN D.pc
              ELSE IF M.icode = "RET" THEN m_valM ELSE f_pc

(* The state that the programmer sees is as Parts says, now ...            *)
LEMMA PartsHold == Parts
<1>1. \A r : Written(r, mem_wb_next, m_valM)
        = IF Faulty(m_stat)
          THEN IF M.icode \in Stack THEN set_reg_val(r, M.dstE, M.valE) ELSE r
          ELSE set_reg_val(set_reg_val(r, M.dstE, M.valE), M.dstM, m_valM)
  BY DEF Written, mem_wb_next, Stack
<1> DEFINE now == Architectural
<1>2. now.r = IF Faulty(W.stat) THEN Written(reg, W, W.valM)
              ELSE Written(Written(reg, W, W.valM), mem_wb_next, m_valM)
  BY DEF Architectural
<1>3. now.r = IF Faulty(W.stat) THEN Written(reg, W, W.valM)
              ELSE IF Faulty(m_stat)
              THEN IF M.icode \in Stack THEN set_reg_val(Written(reg, W, W.valM), M.dstE, M.valE)
                   ELSE Written(reg, W, W.valM)
              ELSE set_reg_val(set_reg_val(Written(reg, W, W.valM), M.dstE, M.valE), M.dstM, m_valM)
  BY <1>1, <1>2
<1>4. now = MkState(start.code, now.data, now.r, cc, now.pc, now.stat)
  BY DEF Architectural, MkState
<1>5. now.data = IF mem_write /\ ~dmem_error THEN [data EXCEPT ![mem_addr] = M.valA] ELSE data
  BY DEF Architectural
<1>6. now.stat = IF Faulty(W.stat) THEN W.stat ELSE IF Faulty(m_stat) THEN m_stat ELSE "AOK"
  BY DEF Architectural
<1>7. now.pc = IF Faulty(W.stat) THEN W.pc ELSE IF Faulty(m_stat) THEN M.pc
               ELSE IF E.stat # "BUB" THEN E.pc
               ELSE IF D.stat # "BUB" THEN D.pc
               ELSE IF M.icode = "RET" THEN m_valM ELSE f_pc
  BY DEF Architectural
<1> QED
  BY <1>3, <1>4, <1>5, <1>6, <1>7 DEF Parts

(* ... and after a step.                                                   *)
LEMMA PartsHoldNext == Parts'
  BY PartsHold, PTL

(* The memory stage of a processor with two ports to write registers.      *)
Memory ==
  TwoPorts =>
    /\ mem_read <=> M.icode \in {"MRMOVQ", "POPQ", "RET"}
    /\ mem_write <=> M.icode \in {"RMMOVQ", "PUSHQ", "CALL"}
    /\ mem_read \/ mem_write =>
         mem_addr = IF M.icode \in {"POPQ", "RET"} THEN M.valA ELSE M.valE
    /\ dmem_error <=> (mem_read \/ mem_write) /\ ~ValidData(mem_addr)
    /\ m_valM = IF mem_read /\ ~dmem_error THEN data[mem_addr] ELSE 0
    /\ m_stat = IF dmem_error THEN "ADR" ELSE M.stat

(* The memory stage is as Memory says, now ...                             *)
LEMMA MemoryHolds == Memory
<1>1. ASSUME TwoPorts
      PROVE  /\ mem_read <=> M.icode \in {"MRMOVQ", "POPQ", "RET"}
             /\ mem_write <=> M.icode \in {"RMMOVQ", "PUSHQ", "CALL"}
  BY <1>1 DEF TwoPorts, mem_read, mem_write
<1>2. ASSUME TwoPorts, mem_read \/ mem_write
      PROVE  mem_addr = IF M.icode \in {"POPQ", "RET"} THEN M.valA ELSE M.valE
  BY <1>1, <1>2 DEF TwoPorts, mem_addr
<1> QED
  BY <1>1, <1>2 DEF Memory, dmem_error, m_valM, m_stat

(* ... and after a step.                                                   *)
LEMMA MemoryHoldsNext == Memory'
  BY MemoryHolds, PTL

(* Where fetch reads.                                                      *)
FetchesAt ==
  TwoPorts /\ ~(Redirects /\ W.icode = "RET") =>
    f_pc = IF Redirects THEN (IF hcl = "btfnt" /\ M.Cnd THEN M.valE ELSE M.valA)
           ELSE IF W.icode = "RET" THEN W.valM ELSE F_predPC

(* Fetch reads where FetchesAt says, now ...                               *)
LEMMA FetchesAtHolds == FetchesAt
<1>1. CASE TwoPorts /\ hcl = "nt"
  BY <1>1 DEF FetchesAt, Redirects, f_pc
<1>2. CASE TwoPorts /\ hcl = "btfnt"
  BY <1>2 DEF FetchesAt, Redirects, f_pc
<1>3. CASE TwoPorts /\ hcl \notin {"nt", "btfnt"}
  BY <1>3 DEF FetchesAt, Redirects, f_pc
<1> QED
  BY <1>1, <1>2, <1>3 DEF FetchesAt

(* ... and after a step.                                                   *)
LEMMA FetchesAtHoldsNext == FetchesAt'
  BY FetchesAtHolds, PTL

(* A cycle in which nothing past execute has failed: what stays, what      *)
(* moves on and what is cancelled.                                         *)
LEMMA Advance ==
  ASSUME TwoPorts, Running, Cycle
  PROVE  /\ hcl' = hcl /\ start' = start /\ TwoPorts'
         /\ M' = ex_mem_next /\ W' = mem_wb_next
         /\ data' = Architectural.data
         /\ Written(reg', W', W'.valM) = Architectural.r
         /\ cc' = IF E.icode \in {"OPQ", "IADDQ"} THEN compute_cc(alufun, aluA, aluB) ELSE cc
         /\ W.stat \in {"BUB", "AOK"}
         /\ Mispredicted => D' = Bubble_if_id /\ E' = Bubble_id_ex
         /\ ~Mispredicted /\ Hazard => D' = D /\ E' = Bubble_id_ex /\ F_predPC' = F_predPC
         /\ ~Mispredicted /\ ~Hazard =>
              /\ E' = id_ex_next
              /\ IF RetComing THEN D' = Bubble_if_id ELSE D' = if_id_next /\ F_predPC' = f_predPC
<1>1. hcl # "1w" /\ hcl' = hcl /\ start' = start /\ update_pipes /\ update_state
  BY DEF TwoPorts, Cycle
<1>2. TwoPorts'
  BY <1>1 DEF TwoPorts
<1>3. ~Faulty(W.stat) /\ ~Faulty(m_stat)
  BY DEF Running
<1>4. M' = ex_mem_next /\ W' = mem_wb_next
  BY <1>1, <1>3 DEF update_pipes, Update, M_bubble, W_stall
<1>5. data' = Architectural.data
  BY <1>1, PartsHold DEF Parts, update_state
<1>6. Written(reg', W', W'.valM) = Architectural.r
  <2>1. reg' = Written(reg, W, W.valM)
    BY <1>1, <1>3 DEF update_state, Written, w_dstE, w_valE, w_dstM, w_valM
  <2>2. Architectural.r
          = set_reg_val(set_reg_val(Written(reg, W, W.valM), M.dstE, M.valE), M.dstM, m_valM)
    BY <1>3, PartsHold DEF Parts
  <2>3. \A r : Written(r, mem_wb_next, mem_wb_next.valM)
                 = set_reg_val(set_reg_val(r, M.dstE, M.valE), M.dstM, m_valM)
    BY <1>3 DEF Written, mem_wb_next
  <2> QED
    BY <1>4, <2>1, <2>2, <2>3
<1>7. cc' = IF E.icode \in {"OPQ", "IADDQ"} THEN compute_cc(alufun, aluA, aluB) ELSE cc
  BY <1>1, <1>3 DEF update_state, set_cc
<1>8. W.stat \in {"BUB", "AOK"}
  BY DEF Cycle, Stat
<1>9. Mispredicted /\ Hazard => hcl = "nobypass"
  BY <1>1 DEF Mispredicted, Hazard
<1>10. Mispredicted => D' = Bubble_if_id /\ E' = Bubble_id_ex
  BY <1>1, <1>9 DEF update_pipes, Update, D_stall, D_bubble, E_bubble, Held
<1>11. ~Mispredicted /\ Hazard => D' = D /\ E' = Bubble_id_ex /\ F_predPC' = F_predPC
  BY <1>1 DEF update_pipes, Update, F_stall, D_stall, D_bubble, E_bubble, Held
<1>12. ~Mispredicted /\ ~Hazard =>
         /\ E' = id_ex_next
         /\ IF RetComing THEN D' = Bubble_if_id ELSE D' = if_id_next /\ F_predPC' = f_predPC
  BY <1>1 DEF update_pipes, Update, F_stall, D_stall, D_bubble, E_bubble, Held
<1> QED
  BY <1>1, <1>2, <1>4, <1>5, <1>6, <1>7, <1>8, <1>10, <1>11, <1>12

(* What execute makes of an instruction that has not failed, whose         *)
(* operands are those of the instruction set.                              *)
LEMMA ExecuteStage ==
  ASSUME PipeIInv, Running, E.stat = "AOK"
  PROVE  LET in == In(E.pc)
             a == get_reg_val(Architectural.r, SrcA(in))
             b == get_reg_val(Architectural.r, SrcB(in))
         IN  /\ in.op # "JXX" => e_valE = Sum(in, a, b)
             /\ SrcA(in) # RNONE => e_valA = a
             /\ in.op = "CALL" => e_valA = Wrap(E.pc + 1)
             /\ in.op = "JXX" =>
                  /\ E.valC = in.c /\ E.valA = Wrap(E.pc + 1)
                  /\ e_valA = IF hcl = "nt" /\ in.fn # "YES" THEN in.c ELSE Wrap(E.pc + 1)
                  /\ hcl = "btfnt" /\ in.fn # "YES" => e_valE = in.c
             /\ e_Cnd = Goes(in, cc)
             /\ e_dstE = DstEIf(in, cc) /\ E.dstM = DstM(in)
             /\ in.op \in {"OPQ", "IADDQ"} => compute_cc(alufun, aluA, aluB) = Flags(in, a, b)
<1> DEFINE in == In(E.pc)
           R == Architectural.r
           a == get_reg_val(R, SrcA(in))
           b == get_reg_val(R, SrcB(in))
<1>1. /\ in.op \in Live /\ Assembled(in, hcl)
      /\ hcl = "nobypass" \/ in.rb # RNONE \/ in.op \notin {"RMMOVQ", "MRMOVQ"}
      /\ E.icode = in.op /\ E.ifun = in.fn /\ (UsesC(in) => E.valC = in.c)
      /\ E.srcA = SrcA(in) /\ E.dstE = DstE(in) /\ E.dstM = DstM(in)
      /\ in.op \in {"CALL", "JXX"} => E.valA = Wrap(E.pc + 1)
  BY ProgramHas DEF PipeIInv, InExecute
<1>2. /\ SrcA(in) # RNONE /\ ~LoadsLate => E.valA = R[SrcA(in)]
      /\ SrcB(in) # RNONE => E.valB = R[SrcB(in)]
      /\ SrcB(in) = RNONE /\ hcl = "nobypass" => E.valB = 0
  BY DEF PipeIInv, OperandsRight
<1>3. RegType(R) /\ RRSP \in Registers /\ RNONE \notin Registers /\ hcl # "1w" /\ TwoPorts
  BY RegWords DEF PipeIInv, TwoPorts
<1>4. SrcB(in) # RNONE \/ hcl = "nobypass" => E.valB = b
  BY <1>2 DEF get_reg_val
<1>5. SrcA(in) # RNONE => a = R[SrcA(in)] /\ SrcA(in) \in Registers
  BY <1>1, Operands DEF get_reg_val
<1>6. SrcA(in) # RNONE => e_valA = a
  <2>1. CASE LoadsLate /\ SrcA(in) # RNONE
    <3>1. R = set_reg_val(set_reg_val(Written(reg, W, W.valM), M.dstE, M.valE), M.dstM, m_valM)
      BY PartsHold DEF Parts, Running
    <3> DEFINE before == set_reg_val(Written(reg, W, W.valM), M.dstE, M.valE)
    <3>2. R = set_reg_val(before, M.dstM, m_valM) /\ DOMAIN R = Registers
      BY <3>1, <1>3 DEF RegType
    <3> HIDE DEF R, before
    <3>3. DOMAIN before = Registers
      BY <3>2, SetGet
    <3>4. M.dstM = SrcA(in) /\ SrcA(in) \in Registers
      BY <2>1, <1>1, <1>5 DEF LoadsLate
    <3>5. R[SrcA(in)] = m_valM
      BY <2>1, <3>2, <3>3, <3>4, SetGet
    <3>6. e_valA = m_valM
      BY <2>1 DEF LoadsLate, e_valA
    <3> QED
      BY <3>5, <3>6, <1>5, <2>1
  <2>2. CASE ~LoadsLate /\ SrcA(in) # RNONE
    <3>1. in.op # "JXX"
      BY <2>2 DEF SrcA
    <3>2. e_valA = E.valA
      BY <2>2, <3>1, <1>1 DEF LoadsLate, e_valA
    <3> QED
      BY <2>2, <3>2, <1>2, <1>5
  <2> QED
    BY <2>1, <2>2
<1>7. in.op \in {"CALL", "JXX"} =>
        e_valA = IF hcl = "nt" /\ in.op = "JXX" /\ in.fn # "YES" THEN E.valC ELSE E.valA
  <2>1. in.op \in {"CALL", "JXX"} => E.icode \notin {"RMMOVQ", "PUSHQ"}
    BY <1>1
  <2> QED
    BY <2>1, <1>1 DEF e_valA
<1>8. in.op \in {"RRMOVQ", "OPQ"} => E.valA = a
  <2>1. in.op \in {"RRMOVQ", "OPQ"} => ~LoadsLate /\ SrcA(in) # RNONE
    BY <1>1, <1>3 DEF LoadsLate, SrcA, Assembled
  <2> QED
    BY <2>1, <1>2, <1>5
<1>9. in.op \in {"RMMOVQ", "MRMOVQ", "OPQ", "CALL", "PUSHQ", "RET", "POPQ", "IADDQ"} => E.valB = b
  <2>1. in.op \in {"RMMOVQ", "MRMOVQ", "OPQ", "CALL", "PUSHQ", "RET", "POPQ", "IADDQ"}
          => SrcB(in) # RNONE \/ hcl = "nobypass"
    BY <1>1, <1>3 DEF SrcB, Assembled
  <2> QED
    BY <2>1, <1>4
<1> HIDE DEF in, a, b, R
<1>10. in.op # "JXX" => aluA = InA(in, a)
  BY <1>1, <1>3, <1>8 DEF aluA, InA, UsesC, Live
<1>11. aluB = InB(in, b)
  BY <1>1, <1>3, <1>9 DEF aluB, InB, Live
<1>12. alufun = Fun(in)
  BY <1>1 DEF alufun, Fun
<1>13. in.op # "JXX" => e_valE = Sum(in, a, b)
  BY <1>10, <1>11, <1>12 DEF e_valE, Sum
<1>14. in.op \in {"OPQ", "IADDQ"} => compute_cc(alufun, aluA, aluB) = Flags(in, a, b)
  BY <1>10, <1>11, <1>12 DEF Flags
<1>15. e_Cnd = Goes(in, cc) /\ e_dstE = DstEIf(in, cc)
  BY <1>1 DEF e_Cnd, Goes, e_dstE, DstEIf
<1>16. in.op = "JXX" /\ hcl = "btfnt" /\ in.fn # "YES" => e_valE = in.c
  <2>1. ASSUME in.op = "JXX", hcl = "btfnt", in.fn # "YES" PROVE e_valE = in.c
    <3>1. aluA = E.valC /\ aluB = 0 /\ alufun = "ADD"
      BY <2>1, <1>1 DEF aluA, aluB, alufun
    <3>2. E.valC = in.c /\ in.c \in Words
      BY <2>1, <1>1 DEF UsesC, Assembled
    <3> QED
      BY <3>1, <3>2, Wraps DEF e_valE, compute_alu
  <2> QED
    BY <2>1
<1>17. in.op = "JXX" => E.valC = in.c
  BY <1>1 DEF UsesC
<1> QED
  BY <1>1, <1>6, <1>7, <1>13, <1>14, <1>15, <1>16, <1>17 DEF in, a, b, R

(* An instruction that execute has finished arrives in memory: all of the  *)
(* state but pc is what After says.                                        *)
LEMMA Arrives ==
  ASSUME PipeIInv, Running, Cycle, E.stat = "AOK"
  PROVE  LET in == In(E.pc)
             now == Architectural
             a == get_reg_val(now.r, SrcA(in))
             b == get_reg_val(now.r, SrcB(in))
             e == Sum(in, a, b)
             m == now.data[Address(in, a, e)]
             next == After(in, start.code, now.data, now.r, cc, E.pc, a, b, e, m)
             bad == BadAddress(in, a, e)
         IN  /\ m_stat' = IF bad THEN "ADR" ELSE "AOK"
             /\ Loads(in) /\ ~bad => m_valM' = m
             /\ now'.data = next.data /\ now'.r = next.r /\ cc' = next.cc
             /\ now'.stat = next.stat
             /\ bad => now' = next
<1> DEFINE in == In(E.pc)
           d == Architectural.data
           R == Architectural.r
           a == get_reg_val(R, SrcA(in))
           b == get_reg_val(R, SrcB(in))
           e == Sum(in, a, b)
           m == d[Address(in, a, e)]
           bad == BadAddress(in, a, e)
           next == After(in, start.code, d, R, cc, E.pc, a, b, e, m)
<1>1. /\ in.op \in Live /\ Assembled(in, hcl) /\ E.icode = in.op /\ TwoPorts
  BY ProgramHas DEF PipeIInv, InExecute
<1>2. /\ start' = start /\ TwoPorts' /\ M' = ex_mem_next /\ W' = mem_wb_next
      /\ data' = d /\ Written(reg', W', W'.valM) = R
      /\ cc' = IF E.icode \in {"OPQ", "IADDQ"} THEN compute_cc(alufun, aluA, aluB) ELSE cc
  BY <1>1, Advance
<1>3. /\ in.op # "JXX" => e_valE = e
      /\ SrcA(in) # RNONE => e_valA = a
      /\ in.op = "CALL" => e_valA = Wrap(E.pc + 1)
      /\ e_Cnd = Goes(in, cc)
      /\ e_dstE = DstEIf(in, cc) /\ E.dstM = DstM(in)
      /\ in.op \in {"OPQ", "IADDQ"} => compute_cc(alufun, aluA, aluB) = Flags(in, a, b)
  BY ExecuteStage
<1>4. /\ M'.icode = in.op /\ M'.valE = e_valE /\ M'.valA = e_valA /\ M'.dstE = e_dstE
      /\ M'.dstM = DstM(in) /\ M'.stat = "AOK" /\ M'.pc = E.pc
  BY <1>1, <1>2, <1>3 DEF ex_mem_next
<1>5. ~Faulty(W'.stat) /\ W'.stat = m_stat
  BY <1>2 DEF mem_wb_next, Running
<1>6. RRSP # RNONE /\ RNONE \notin Registers
  BY RegWords
<1> HIDE DEF in, d, R, a, b, e, m, bad, next
<1>7. /\ mem_read' <=> Loads(in)
      /\ mem_write' <=> Saves(in)
      /\ Loads(in) \/ Saves(in) => mem_addr' = IF in.op \in {"POPQ", "RET"} THEN e_valA ELSE e_valE
      /\ dmem_error' <=> (mem_read' \/ mem_write') /\ ~ValidData(mem_addr')
      /\ m_valM' = IF mem_read' /\ ~dmem_error' THEN d[mem_addr'] ELSE 0
      /\ m_stat' = IF dmem_error' THEN "ADR" ELSE "AOK"
  BY <1>2, <1>4, MemoryHoldsNext DEF Memory, Loads, Saves
<1>8. Loads(in) \/ Saves(in) => mem_addr' = Address(in, a, e)
  <2>1. CASE in.op \in {"POPQ", "RET"}
    <3>1. e_valA = a
      BY <2>1, <1>3, <1>6 DEF SrcA
    <3> QED
      BY <3>1, <2>1, <1>7 DEF Address
  <2>2. CASE in.op \notin {"POPQ", "RET"}
    <3>1. Loads(in) \/ Saves(in) => e_valE = e
      BY <1>3 DEF Loads, Saves
    <3> QED
      BY <3>1, <2>2, <1>7 DEF Address
  <2> QED
    BY <2>1, <2>2
<1>9. dmem_error' <=> bad
  BY <1>7, <1>8 DEF bad, BadAddress
<1>10. m_stat' = IF bad THEN "ADR" ELSE "AOK"
  BY <1>7, <1>9
<1>11. Loads(in) /\ ~bad => m_valM' = m
  BY <1>7, <1>8, <1>9 DEF m
<1>12. next = After(in, start.code, d, R, cc, E.pc, a, b, e, m)
  BY DEF next
<1>13. cc' = IF in.op \in {"OPQ", "IADDQ"} THEN Flags(in, a, b) ELSE cc
  BY <1>1, <1>2, <1>3
<1>14. DstEIf(in, cc) # RNONE => e_valE = e
  BY <1>3 DEF DstEIf, DstE
<1>15. in.op \in Stack => DstEIf(in, cc) = DstE(in)
  BY DEF DstEIf, Stack
<1>16. Saves(in) => e_valA = IF in.op = "CALL" THEN Wrap(E.pc + 1) ELSE a
  BY <1>1, <1>3, <1>6 DEF Saves, SrcA, Assembled
<1>17. DstM(in) # RNONE => Loads(in)
  BY DEF DstM, Loads
<1>18. CASE bad
  <2>1. /\ Architectural' = MkState(start.code', Architectural'.data, Architectural'.r, cc',
                                     Architectural'.pc, Architectural'.stat)
        /\ Architectural'.data = d
        /\ Architectural'.r = IF in.op \in Stack THEN set_reg_val(R, e_dstE, e_valE) ELSE R
        /\ Architectural'.stat = "ADR" /\ Architectural'.pc = E.pc
    BY <1>18, <1>2, <1>4, <1>5, <1>9, <1>10, PartsHoldNext DEF Parts, Faulty
  <2>2. next = MkState(start.code, d,
                 IF in.op \in Stack THEN set_reg_val(R, DstE(in), e) ELSE R, cc, E.pc, "ADR")
    BY <1>12, <1>18 DEF After, bad
  <2>3. in.op \in Stack => set_reg_val(R, e_dstE, e_valE) = set_reg_val(R, DstE(in), e)
    BY <1>3, <1>15 DEF Stack
  <2>4. cc' = cc
    BY <1>13, <1>18 DEF bad, BadAddress, Loads, Saves
  <2>5. Architectural' = next
    BY <2>1, <2>2, <2>3, <2>4, <1>2
  <2>6. cc' = next.cc
    BY <2>2, <2>4, StateParts
  <2> QED
    BY <2>5, <2>6, <1>10, <1>11 DEF in, d, R, a, b, e, m, bad, next
<1>19. CASE ~bad
  <2>1. /\ Architectural'.data = IF Saves(in) THEN [d EXCEPT ![mem_addr'] = e_valA] ELSE d
        /\ Architectural'.r = set_reg_val(set_reg_val(R, e_dstE, e_valE), DstM(in), m_valM')
        /\ Architectural'.stat = "AOK"
    BY <1>19, <1>2, <1>4, <1>5, <1>7, <1>9, <1>10, PartsHoldNext DEF Parts, Faulty
  <2>2. Architectural'.data = IF Saves(in)
          THEN [d EXCEPT ![Address(in, a, e)] = IF in.op = "CALL" THEN Wrap(E.pc + 1) ELSE a]
          ELSE d
    BY <2>1, <1>8, <1>16
  <2>3. Architectural'.r = set_reg_val(set_reg_val(R, DstEIf(in, cc), e), DstM(in), m)
    <3>1. set_reg_val(R, e_dstE, e_valE) = set_reg_val(R, DstEIf(in, cc), e)
      BY <1>3, <1>14 DEF set_reg_val
    <3>2. \A r : set_reg_val(r, DstM(in), m_valM') = set_reg_val(r, DstM(in), m)
      BY <1>11, <1>17, <1>19 DEF set_reg_val
    <3> QED
      BY <2>1, <3>1, <3>2
  <2>4. /\ next.data = (IF Saves(in)
          THEN [d EXCEPT ![Address(in, a, e)] = IF in.op = "CALL" THEN Wrap(E.pc + 1) ELSE a]
          ELSE d)
        /\ next.r = set_reg_val(set_reg_val(R, DstEIf(in, cc), e), DstM(in), m)
        /\ next.cc = IF in.op \in {"OPQ", "IADDQ"} THEN Flags(in, a, b) ELSE cc
        /\ next.stat = "AOK"
    BY <1>12, <1>19 DEF After, MkState, bad
  <2> QED
    BY <2>1, <2>2, <2>3, <2>4, <1>10, <1>11, <1>13, <1>19 DEF in, d, R, a, b, e, m, bad, next
<1> QED
  BY <1>18, <1>19

(* Where execution goes on when the instruction in execute has not failed. *)
LEMMA GoesOn ==
  ASSUME PipeIInv, Running, Cycle, E.stat = "AOK", ~Faulty(m_stat')
  PROVE  LET in == In(E.pc)
         IN  Architectural'.pc = CASE in.op = "CALL" \/ (in.op = "JXX" /\ Goes(in, cc)) -> in.c
                                   [] in.op = "RET" -> m_valM'
                                   [] OTHER -> Wrap(E.pc + 1)
<1> DEFINE in == In(E.pc)
           to == CASE in.op = "CALL" \/ (in.op = "JXX" /\ Goes(in, cc)) -> in.c
                   [] in.op = "RET" -> m_valM'
                   [] OTHER -> Wrap(E.pc + 1)
<1>1. /\ in.op \in Live /\ Assembled(in, hcl) /\ E.icode = in.op /\ E.ifun = in.fn /\ TwoPorts
  BY ProgramHas DEF PipeIInv, InExecute
<1>2. /\ hcl' = hcl /\ start' = start /\ TwoPorts' /\ M' = ex_mem_next /\ W' = mem_wb_next
      /\ Mispredicted => D' = Bubble_if_id /\ E' = Bubble_id_ex
      /\ ~Mispredicted /\ Hazard => D' = D /\ E' = Bubble_id_ex
      /\ ~Mispredicted /\ ~Hazard =>
           /\ E' = id_ex_next
           /\ IF RetComing THEN D' = Bubble_if_id ELSE D' = if_id_next
  BY <1>1, Advance
<1>3. /\ e_Cnd = Goes(in, cc)
      /\ in.op = "JXX" =>
           /\ E.valC = in.c /\ E.valA = Wrap(E.pc + 1)
           /\ e_valA = IF hcl = "nt" /\ in.fn # "YES" THEN in.c ELSE Wrap(E.pc + 1)
           /\ hcl = "btfnt" /\ in.fn # "YES" => e_valE = in.c
  BY ExecuteStage
<1>4. InDecode /\ Flow
  BY DEF PipeIInv
<1>5. M'.icode = in.op /\ M'.ifun = in.fn /\ M'.Cnd = e_Cnd /\ M'.valE = e_valE /\ M'.valA = e_valA
  BY <1>1, <1>2 DEF ex_mem_next
<1>6. Architectural'.pc = IF E'.stat # "BUB" THEN E'.pc
                          ELSE IF D'.stat # "BUB" THEN D'.pc
                          ELSE IF in.op = "RET" THEN m_valM' ELSE f_pc'
  <2>1. ~Faulty(W'.stat)
    BY <1>2 DEF mem_wb_next, Running
  <2> QED
    BY <2>1, <1>5, PartsHoldNext DEF Parts
<1>7. in.c \in Int /\ Wrap(E.pc + 1) \in Int
  <2>1. ValidCode(E.pc)
    BY <1>1, ProgramHas DEF PipeIInv, InExecute
  <2> QED
    BY <2>1, <1>1, Wraps, Operands
<1> DEFINE next == Wrap(E.pc + 1)
<1> HIDE DEF in, next
<1>8. CASE in.op = "RET"
  <2>1. D.stat = "BUB" /\ D.icode = "NOP"
    BY <1>1, <1>4, <1>8 DEF Flow, InDecode
  <2>2. ~Hazard
    <3>1. d_srcA = RNONE /\ d_srcB = RNONE
      BY <1>1, <2>1, Decode
    <3> QED
      BY <3>1, <1>1, <1>8 DEF Hazard, Pending, TwoPorts
  <2>3. ~Mispredicted /\ RetComing
    BY <1>1, <1>8 DEF Mispredicted, RetComing
  <2>4. E'.stat = "BUB" /\ D'.stat = "BUB"
    BY <1>2, <2>1, <2>2, <2>3 DEF id_ex_next, Bubble_if_id
  <2> QED
    BY <2>4, <1>6, <1>8 DEF in
<1>9. CASE Mispredicted
  <2>1. E'.stat = "BUB" /\ D'.stat = "BUB" /\ in.op = "JXX"
    BY <1>1, <1>2, <1>9 DEF Bubble_if_id, Bubble_id_ex, Mispredicted
  <2>2. W'.icode # "RET"
    <3>1. M.icode # "RET"
      BY <1>4 DEF Flow
    <3> QED
      BY <3>1, <1>2 DEF mem_wb_next
  <2>3. /\ Redirects'
        /\ in.op = "JXX" /\ Goes(in, cc) => (IF hcl = "btfnt" /\ e_Cnd THEN e_valE ELSE e_valA) = in.c
        /\ ~Goes(in, cc) => (IF hcl = "btfnt" /\ e_Cnd THEN e_valE ELSE e_valA) = next
    <3>1. CASE hcl = "nt"
      BY <3>1, <1>1, <1>2, <1>3, <1>5, <1>9, <2>1 DEF Redirects, Mispredicted, next
    <3>2. CASE hcl = "btfnt"
      <4>1. in.fn # "YES" /\ (e_Cnd <=> in.c >= next)
        BY <3>2, <1>1, <1>3, <1>9, <2>1 DEF Mispredicted, next
      <4>2. e_valE = in.c /\ e_valA = next
        BY <4>1, <3>2, <1>3, <2>1 DEF next
      <4>3. in.c \in Int /\ next \in Int
        BY <1>7 DEF next
      <4>4. Redirects'
        BY <4>1, <4>2, <4>3, <3>2, <1>2, <1>5, <2>1 DEF Redirects
      <4> QED
        BY <4>1, <4>2, <4>4, <1>3, <3>2
    <3>3. CASE hcl \notin {"nt", "btfnt"}
      BY <3>3, <1>1, <1>2, <1>3, <1>5, <1>9, <2>1 DEF Redirects, Mispredicted, next
    <3> QED
      BY <3>1, <3>2, <3>3
  <2>4. f_pc' = IF hcl = "btfnt" /\ e_Cnd THEN e_valE ELSE e_valA
    BY <1>2, <1>5, <2>2, <2>3, FetchesAtHoldsNext DEF FetchesAt
  <2> QED
    BY <2>1, <2>3, <2>4, <1>6 DEF in, next
<1>10. CASE ~Mispredicted /\ in.op # "RET"
  <2>1. D.stat # "BUB" /\ D.pc = PredPC(E.pc)
    BY <1>1, <1>4, <1>10 DEF Flow
  <2>2. Architectural'.pc = PredPC(E.pc)
    BY <2>1, <1>2, <1>6, <1>10 DEF id_ex_next, Bubble_id_ex
  <2>3. PredPC(E.pc) = IF \/ in.op = "CALL"
                          \/ /\ in.op = "JXX"
                             /\ CASE hcl = "nt" -> in.fn = "YES"
                                  [] hcl = "btfnt" -> in.fn = "YES" \/ in.c < next
                                  [] OTHER -> TRUE
                       THEN in.c ELSE next
    BY DEF PredPC, in, next
  <2>4. in.op = "JXX" => (Goes(in, cc) <=> CASE hcl = "nt" -> in.fn = "YES"
                                          [] hcl = "btfnt" -> in.fn = "YES" \/ in.c < next
                                          [] OTHER -> TRUE)
    <3>0. in.fn = "YES" => Goes(in, cc)
      BY DEF Goes, cond_holds
    <3>1. CASE hcl = "nt"
      BY <3>0, <3>1, <1>1, <1>3, <1>10 DEF Mispredicted
    <3>2. CASE hcl = "btfnt" /\ in.op = "JXX"
      <4>1. in.fn # "YES" => ~(Goes(in, cc) <=> in.c >= next)
        BY <3>2, <1>1, <1>3, <1>10 DEF Mispredicted, next
      <4>2. in.c >= next <=> ~(in.c < next)
        BY <1>7 DEF next
      <4> QED
        BY <4>1, <4>2, <3>0, <3>2
    <3>3. CASE hcl \notin {"nt", "btfnt"}
      BY <3>3, <1>1, <1>3, <1>10 DEF Mispredicted
    <3> QED
      BY <3>1, <3>2, <3>3
  <2> QED
    BY <2>2, <2>3, <2>4, <1>10 DEF in, next
<1> QED
  BY <1>8, <1>9, <1>10

(* The instruction in execute has not failed: the cycle executes it.       *)
LEMMA Executes ==
  ASSUME PipeIInv, Running, Cycle, E.stat = "AOK"
  PROVE  /\ Architectural.stat = "AOK" /\ Architectural' = step_state(Architectural)
         /\ RegType(Architectural'.r) /\ DataType(Architectural'.data)
<1> DEFINE now == Architectural
           d == now.data
           R == now.r
           in == In(E.pc)
           a == get_reg_val(R, SrcA(in))
           b == get_reg_val(R, SrcB(in))
           e == Sum(in, a, b)
           m == d[Address(in, a, e)]
           bad == BadAddress(in, a, e)
           next == After(in, start.code, d, R, cc, E.pc, a, b, e, m)
<1>1. /\ ValidCode(E.pc) /\ in = start.code[E.pc] /\ in.op \in Live /\ Assembled(in, hcl)
      /\ TwoPorts /\ RegType(R) /\ DataType(d)
  BY ProgramHas DEF PipeIInv, InExecute
<1>2. now = MkState(start.code, d, R, cc, E.pc, "AOK") /\ now.stat = "AOK"
  BY PartsHold DEF Parts, Running
<1>3. step_state(now) = Act(start.code, d, R, cc, E.pc)
  BY <1>1, <1>2, StepIsAct
<1>4. Act(start.code, d, R, cc, E.pc) = next
  BY <1>1 DEF Act
<1>5. RegType(next.r) /\ DataType(next.data)
  BY <1>1, <1>4, ActTypes
<1>6. /\ m_stat' = IF bad THEN "ADR" ELSE "AOK"
      /\ Loads(in) /\ ~bad => m_valM' = m
      /\ now'.data = next.data /\ now'.r = next.r /\ cc' = next.cc
      /\ now'.stat = next.stat
      /\ bad => now' = next
  BY Arrives
<1>7. ~bad => now'.pc = CASE in.op = "CALL" \/ (in.op = "JXX" /\ Goes(in, cc)) -> in.c
                          [] in.op = "RET" -> m_valM'
                          [] OTHER -> Wrap(E.pc + 1)
  BY <1>6, GoesOn DEF Faulty
<1>8. now' = MkState(start.code, now'.data, now'.r, cc', now'.pc, now'.stat)
  BY <1>1, Advance, PartsHoldNext DEF Parts
<1> HIDE DEF d, R, in, a, b, e, m, bad, next
<1>9. now' = next
  <2>1. CASE ~bad
    <3>1. now'.pc = next.pc
      <4>1. in.op = "RET" => m_valM' = m
        BY <1>6, <2>1 DEF Loads
      <4>2. next.pc = CASE in.op = "CALL" \/ (in.op = "JXX" /\ Goes(in, cc)) -> in.c
                        [] in.op = "RET" -> m
                        [] OTHER -> Wrap(E.pc + 1)
        BY <2>1 DEF next, After, MkState, bad
      <4> QED
        BY <2>1, <1>7, <4>1, <4>2
    <3>2. next = MkState(start.code, next.data, next.r, next.cc, next.pc, next.stat)
      BY DEF next, After, MkState
    <3> QED
      BY <3>1, <3>2, <1>6, <1>8
  <2> QED
    BY <2>1, <1>6
<1> QED
  BY <1>2, <1>3, <1>4, <1>5, <1>9

(* Execute holds nothing that will go on: an instruction that has failed,  *)
(* or no instruction.                                                      *)
LEMMA NothingArrives ==
  ASSUME PipeIInv, Running, Cycle, E.stat # "AOK"
  PROVE  /\ E.stat \in {"BUB", "ADR", "INS", "HLT"}
         /\ E.stat # "BUB" => In(E.pc).op \notin Live \ {"NOP"} /\ E.stat = Status(E.pc)
         /\ E.icode \notin {"JXX", "RET", "MRMOVQ", "POPQ"}
         /\ ~Mispredicted /\ m_stat' = E.stat /\ start' = start /\ cc' = cc
         /\ Architectural'.data = Architectural.data /\ Architectural'.r = Architectural.r
<1>1. /\ E.stat \in {"BUB", "ADR", "INS", "HLT"} /\ E.icode \notin Live \ {"NOP"}
      /\ E.stat # "BUB" => In(E.pc).op \notin Live \ {"NOP"} /\ E.stat = Status(E.pc)
      /\ E.stat = "BUB" => E.dstE = RNONE /\ E.dstM = RNONE
      /\ TwoPorts
  BY ProgramHas DEF PipeIInv, InExecute, Live
<1>2. /\ start' = start /\ TwoPorts' /\ M' = ex_mem_next /\ W' = mem_wb_next
      /\ data' = Architectural.data /\ Written(reg', W', W'.valM) = Architectural.r
      /\ cc' = IF E.icode \in {"OPQ", "IADDQ"} THEN compute_cc(alufun, aluA, aluB) ELSE cc
  BY <1>1, Advance
<1>3. M'.icode = E.icode /\ M'.stat = E.stat /\ M'.dstE = e_dstE /\ M'.dstM = E.dstM
  BY <1>2 DEF ex_mem_next
<1>4. ~mem_read' /\ ~mem_write' /\ ~dmem_error' /\ m_stat' = E.stat
  BY <1>1, <1>2, <1>3, MemoryHoldsNext DEF Memory, Live
<1>5. ~Faulty(W'.stat)
  BY <1>2 DEF mem_wb_next, Running
<1>6. Architectural'.data = Architectural.data
  BY <1>2, <1>4, PartsHoldNext DEF Parts
<1>7. Architectural'.r = Architectural.r
  <2>1. CASE E.stat # "BUB"
    BY <2>1, <1>1, <1>2, <1>3, <1>4, <1>5, PartsHoldNext DEF Parts, Faulty, Live, Stack
  <2>2. CASE E.stat = "BUB"
    <3>1. e_dstE = RNONE /\ E.dstM = RNONE
      BY <2>2, <1>1 DEF e_dstE
    <3> QED
      BY <2>2, <3>1, <1>1, <1>2, <1>3, <1>4, <1>5, PartsHoldNext, SetGet DEF Parts, Faulty
  <2> QED
    BY <2>1, <2>2
<1>8. ~Mispredicted /\ cc' = cc
  BY <1>1, <1>2 DEF Mispredicted, Live
<1>9. E.icode \notin {"JXX", "RET", "MRMOVQ", "POPQ"}
  BY <1>1 DEF Live
<1> QED
  BY <1>1, <1>2, <1>4, <1>6, <1>7, <1>8, <1>9

(* The instruction in execute has failed: so does the instruction set's.   *)
LEMMA FailsToo ==
  ASSUME PipeIInv, Running, Cycle, E.stat \notin {"AOK", "BUB"}
  PROVE  Architectural.stat = "AOK" /\ Architectural' = step_state(Architectural)
<1> DEFINE now == Architectural
<1>1. /\ In(E.pc).op \notin Live \ {"NOP"} /\ E.stat = Status(E.pc) /\ Faulty(E.stat)
      /\ m_stat' = E.stat /\ start' = start /\ cc' = cc /\ now'.data = now.data /\ now'.r = now.r
      /\ TwoPorts
  BY NothingArrives DEF Faulty, PipeIInv
<1>2. now = MkState(start.code, now.data, now.r, cc, E.pc, "AOK") /\ now.stat = "AOK"
  BY PartsHold DEF Parts, Running
<1>3. ~Faulty(W'.stat) /\ M'.pc = E.pc
  BY <1>1, Advance DEF mem_wb_next, Running, ex_mem_next
<1>4. now' = MkState(start.code, now.data, now.r, cc, E.pc, E.stat)
  BY <1>1, <1>3, PartsHoldNext DEF Parts
<1>5. step_state(now) = Fails(now, E.stat)
  <2>1. now.pc = E.pc /\ now.code = start.code
    BY <1>2, StateParts
  <2>2. CASE ~ValidCode(E.pc)
    BY <2>1, <2>2, <1>1 DEF step_state, Status
  <2>3. CASE ValidCode(E.pc)
    <3> DEFINE in == start.code[E.pc]
    <3>1. in = In(E.pc) /\ in.op \notin Live
      BY <2>3, <1>1 DEF In, Status, Faulty
    <3>2. BranchTaken(now, in)
      BY <2>1, <2>3, Branches
    <3>3. /\ in.op = "HALT" => step_state(now) = Fails(now, "HLT") /\ E.stat = "HLT"
          /\ in.op # "HALT" => step_state(now) = Fails(now, "INS") /\ E.stat = "INS"
      BY <3>1, <3>2, <2>3, <1>1 DEF BranchTaken, Status
    <3> QED
      BY <3>3
  <2> QED
    BY <2>2, <2>3
<1>6. Fails(now, E.stat) = MkState(start.code, now.data, now.r, cc, E.pc, E.stat)
  BY <1>2, StateParts
<1> QED
  BY <1>2, <1>4, <1>5, <1>6

(* Nothing is in execute: the cycle does not show.                         *)
LEMMA Waits ==
  ASSUME PipeIInv, Running, Cycle, E.stat = "BUB"
  PROVE  Architectural' = Architectural
<1> DEFINE now == Architectural
<1>1. /\ m_stat' = "BUB" /\ start' = start /\ cc' = cc /\ now'.data = now.data /\ now'.r = now.r
      /\ ~Mispredicted /\ TwoPorts /\ InDecode /\ Flow /\ E.icode = "NOP"
  BY NothingArrives DEF PipeIInv, InExecute
<1>2. /\ TwoPorts' /\ M' = ex_mem_next /\ W' = mem_wb_next
      /\ Hazard => D' = D /\ E' = Bubble_id_ex
      /\ ~Hazard => /\ E' = id_ex_next
                    /\ IF RetComing THEN D' = Bubble_if_id ELSE D' = if_id_next
  BY <1>1, Advance
<1>3. now = MkState(start.code, now.data, now.r, cc, now.pc, "AOK")
      /\ now.pc = IF D.stat # "BUB" THEN D.pc ELSE IF M.icode = "RET" THEN m_valM ELSE f_pc
  BY PartsHold DEF Parts, Running
<1>4. /\ now' = MkState(start.code, now.data, now.r, cc, now'.pc, "AOK")
      /\ now'.pc = IF E'.stat # "BUB" THEN E'.pc
                   ELSE IF D'.stat # "BUB" THEN D'.pc
                   ELSE IF M'.icode = "RET" THEN m_valM' ELSE f_pc'
  <2>1. ~Faulty(W'.stat)
    BY <1>2 DEF mem_wb_next, Running
  <2> QED
    BY <2>1, <1>1, PartsHoldNext DEF Parts, Faulty
<1>5. now'.pc = now.pc
  <2>1. CASE D.stat # "BUB"
    <3>1. now.pc = D.pc
      BY <2>1, <1>3
    <3>2. CASE Hazard
      BY <3>1, <3>2, <2>1, <1>2, <1>4 DEF Bubble_id_ex
    <3>3. CASE ~Hazard
      BY <3>1, <3>3, <2>1, <1>2, <1>4 DEF id_ex_next
    <3> QED
      BY <3>2, <3>3
  <2>2. CASE D.stat = "BUB"
    <3>1. D.icode = "NOP"
      BY <2>2, <1>1 DEF InDecode
    <3>2. ~Hazard
      <4>1. d_srcA = RNONE /\ d_srcB = RNONE
        BY <3>1, <1>1, Decode
      <4> QED
        BY <4>1, <1>1 DEF Hazard, Pending, TwoPorts
    <3>3. E'.stat = "BUB"
      BY <3>2, <2>2, <1>2 DEF id_ex_next
    <3>4. CASE M.icode = "RET"
      <4>1. D'.stat = "BUB"
        BY <3>2, <3>4, <1>2 DEF RetComing, Bubble_if_id
      <4>2. M'.icode = "NOP" /\ W'.icode = "RET" /\ W'.valM = m_valM
        BY <3>4, <1>1, <1>2 DEF ex_mem_next, mem_wb_next
      <4>3. f_pc' = m_valM
        BY <4>2, <1>2, FetchesAtHoldsNext DEF FetchesAt, Redirects
      <4> QED
        BY <4>1, <4>2, <4>3, <3>3, <3>4, <2>2, <1>3, <1>4
    <3>5. CASE M.icode # "RET"
      <4>1. D' = if_id_next
        BY <3>1, <3>2, <3>5, <1>1, <1>2 DEF RetComing
      <4>2. D'.stat # "BUB" /\ D'.pc = f_pc
        BY <4>1, <1>1, Fetch
      <4> QED
        BY <4>2, <3>3, <3>5, <2>2, <1>3, <1>4
    <3> QED
      BY <3>4, <3>5
  <2> QED
    BY <2>1, <2>2
<1> QED
  BY <1>3, <1>4, <1>5

(* The instruction in memory has failed: it is only passed on.             *)
LEMMA Stops ==
  ASSUME PipeIInv, ~Running, Cycle
  PROVE  /\ Architectural' = Architectural /\ M' = Bubble_ex_mem /\ W' = mem_wb_next
         /\ hcl' = hcl /\ start' = start /\ Faulty(W'.stat)
<1> DEFINE now == Architectural
<1>1. /\ hcl # "1w" /\ TwoPorts /\ ~Faulty(W.stat) /\ Faulty(m_stat)
      /\ hcl' = hcl /\ start' = start /\ update_pipes /\ update_state
  BY DEF PipeIInv, TwoPorts, Cycle, Running, Stat, Faulty
<1>2. M' = Bubble_ex_mem /\ W' = mem_wb_next /\ cc' = cc
  BY <1>1 DEF update_pipes, update_state, set_cc, Update, M_bubble, W_stall
<1>3. TwoPorts' /\ Faulty(W'.stat) /\ W'.stat = m_stat /\ W'.pc = M.pc
  BY <1>1, <1>2 DEF TwoPorts, mem_wb_next
<1>4. data' = now.data
  BY <1>1, PartsHold DEF Parts, update_state
<1>5. Written(reg', W', W'.valM) = now.r
  <2>1. reg' = Written(reg, W, W.valM)
    BY <1>1 DEF update_state, Written, w_dstE, w_valE, w_dstM, w_valM
  <2>2. \A r : Written(r, mem_wb_next, mem_wb_next.valM)
                 = IF M.icode \in Stack THEN set_reg_val(r, M.dstE, M.valE) ELSE r
    BY <1>1 DEF Written, mem_wb_next, Stack
  <2> QED
    BY <1>1, <1>2, <2>1, <2>2, PartsHold DEF Parts
<1>6. ~mem_write' /\ now'.data = now.data
  <2>1. ~mem_write'
    BY <1>2 DEF mem_write, Bubble_ex_mem
  <2> QED
    BY <2>1, <1>4, PartsHoldNext DEF Parts
<1>7. now' = MkState(start.code, now.data, now.r, cc, M.pc, m_stat)
  BY <1>1, <1>2, <1>3, <1>5, <1>6, PartsHoldNext DEF Parts
<1>8. now = MkState(start.code, now.data, now.r, cc, M.pc, m_stat)
  BY <1>1, PartsHold DEF Parts
<1> QED
  BY <1>1, <1>2, <1>3, <1>7, <1>8

(* Forwarding finds what the instructions before leave in a register that  *)
(* none of them has still to load.                                         *)
LEMMA Forwards ==
  ASSUME TwoPorts, Running, RegType(Architectural.r), NEW src \in Registers, src # E.dstM,
         hcl = "nobypass" => ~Pending(src), NEW v
  PROVE  Forwarded(src)
           = set_reg_val(set_reg_val(Architectural.r, e_dstE, e_valE), E.dstM, v)[src]
<1> DEFINE R == Architectural.r
           r1 == set_reg_val(reg, W.dstE, W.valE)
           r2 == set_reg_val(r1, W.dstM, W.valM)
           r3 == set_reg_val(r2, M.dstE, M.valE)
           r4 == set_reg_val(r3, M.dstM, m_valM)
           r5 == set_reg_val(R, e_dstE, e_valE)
           r6 == set_reg_val(r5, E.dstM, v)
<1>1. R = r4
  BY PartsHold DEF Parts, Running, Written
<1>2. src # RNONE
  BY RegWords
<1>3. DOMAIN R = Registers
  BY DEF RegType
<1>4. /\ DOMAIN reg = DOMAIN r1 /\ DOMAIN r1 = DOMAIN r2 /\ DOMAIN r2 = DOMAIN r3
      /\ DOMAIN r3 = DOMAIN r4 /\ DOMAIN R = DOMAIN r5
  BY SetGet
<1>5. \A r, id, val : DOMAIN r = Registers =>
        set_reg_val(r, id, val)[src] = IF src = id THEN val ELSE r[src]
  BY <1>2, SetGet
<1> HIDE DEF R, r1, r2, r3, r4, r5, r6
<1>6. /\ r1[src] = IF src = W.dstE THEN W.valE ELSE reg[src]
      /\ r2[src] = IF src = W.dstM THEN W.valM ELSE r1[src]
      /\ r3[src] = IF src = M.dstE THEN M.valE ELSE r2[src]
      /\ r4[src] = IF src = M.dstM THEN m_valM ELSE r3[src]
      /\ r5[src] = IF src = e_dstE THEN e_valE ELSE R[src]
      /\ r6[src] = IF src = E.dstM THEN v ELSE r5[src]
  BY <1>1, <1>3, <1>4, <1>5 DEF r1, r2, r3, r4, r5, r6
<1>7. get_reg_val(reg, src) = reg[src]
  BY <1>2 DEF get_reg_val
<1>8. Forwarded(src) = r6[src]
  <2>1. CASE hcl = "nobypass"
    BY <2>1, <1>1, <1>2, <1>6, <1>7 DEF Forwarded, Pending
  <2>2. CASE hcl # "nobypass"
    BY <2>2, <1>1, <1>6, <1>7 DEF Forwarded
  <2> QED
    BY <2>1, <2>2
<1> QED
  BY <1>8 DEF R, r5, r6

(* The operands that decode passes on are right.                           *)
LEMMA OperandsRightNext ==
  ASSUME PipeIInv, Running, Cycle, Running'
  PROVE  OperandsRight'
<1> SUFFICES ASSUME E'.stat = "AOK" PROVE OperandsRight'
  BY DEF OperandsRight
<1> DEFINE in == In(D.pc)
           R == Architectural.r
<1>1. /\ TwoPorts /\ InDecode /\ InExecute /\ Flow /\ RegType(R)
  BY DEF PipeIInv
<1>2. /\ hcl' = hcl /\ start' = start /\ M' = ex_mem_next /\ W' = mem_wb_next
      /\ Written(reg', W', W'.valM) = R
      /\ ~Mispredicted /\ ~Hazard /\ E' = id_ex_next
  BY <1>1, Advance DEF Bubble_id_ex
<1>3. D.stat = "AOK" /\ E'.pc = D.pc /\ E'.icode = D.icode /\ E'.srcA = d_srcA
  BY <1>2 DEF id_ex_next
<1>4. /\ D.icode = in.op /\ in.op \in Live /\ Assembled(in, hcl)
      /\ d_srcA = SrcA(in) /\ d_srcB = SrcB(in)
  BY <1>1, <1>3, ProgramHas, Decode DEF InDecode
<1>5. In(E.pc)' = in
  BY <1>2, <1>3 DEF In
<1>6. Architectural'.r = set_reg_val(set_reg_val(R, e_dstE, e_valE), E.dstM, m_valM')
  <2>1. M'.dstE = e_dstE /\ M'.valE = e_valE /\ M'.dstM = E.dstM
    BY <1>2 DEF ex_mem_next
  <2> QED
    BY <2>1, <1>2, PartsHoldNext DEF Parts, Running
<1>7. SrcA(in) \in Registers \cup {RNONE} /\ SrcB(in) \in Registers \cup {RNONE} /\ RNONE \notin Registers
  BY <1>4, Operands, RegWords
<1>8. E.dstM # RNONE => E.icode \in {"MRMOVQ", "POPQ"}
  <2>1. E.stat \in {"BUB", "AOK"}
    <3>1. CASE E.stat = "AOK"
      BY <3>1
    <3>2. CASE E.stat # "AOK"
      BY <3>2, NothingArrives DEF Running, Faulty
    <3> QED
      BY <3>1, <3>2
  <2>2. E.stat = "AOK" => E.icode = In(E.pc).op /\ E.dstM = DstM(In(E.pc))
    BY <1>1 DEF InExecute
  <2>3. E.stat = "BUB" => E.dstM = RNONE
    BY <1>1 DEF InExecute
  <2> QED
    BY <2>1, <2>2, <2>3 DEF DstM
<1>9. \A src \in Registers : src # E.dstM /\ (hcl = "nobypass" => ~Pending(src)) =>
        Forwarded(src) = Architectural'.r[src]
  BY <1>1, <1>6, Forwards
<1>10. hcl = "nobypass" => ~Pending(d_srcA) /\ ~Pending(d_srcB)
  BY <1>2 DEF Hazard
<1>11. hcl = "nobypass" => (d_srcA \in Registers => d_srcA # E.dstM)
                           /\ (d_srcB \in Registers => d_srcB # E.dstM)
  BY <1>7, <1>10 DEF Pending
<1>12. d_srcB \in Registers => d_srcB # E.dstM
  BY <1>1, <1>2, <1>7, <1>8, <1>11 DEF Hazard, TwoPorts
<1>13. d_srcA \in Registers /\ d_srcA = E.dstM => LoadsLate'
  <2> SUFFICES ASSUME d_srcA \in Registers, d_srcA = E.dstM PROVE LoadsLate'
    OBVIOUS
  <2>1. hcl = "lf" /\ D.icode \in {"RMMOVQ", "PUSHQ"}
    BY <1>1, <1>2, <1>7, <1>8, <1>11 DEF Hazard, TwoPorts
  <2>2. M'.dstM = E.dstM
    BY <1>2 DEF ex_mem_next
  <2> QED
    BY <2>1, <2>2, <1>2, <1>3 DEF LoadsLate
<1>14. SrcA(in) # RNONE /\ ~LoadsLate' => E'.valA = Architectural'.r[SrcA(in)]
  <2> SUFFICES ASSUME SrcA(in) # RNONE, ~LoadsLate' PROVE E'.valA = Architectural'.r[SrcA(in)]
    OBVIOUS
  <2>1. D.icode \notin {"CALL", "JXX"}
    BY <1>4 DEF SrcA
  <2>2. E'.valA = Forwarded(d_srcA)
    BY <2>1, <1>2 DEF id_ex_next
  <2> QED
    BY <2>2, <1>4, <1>7, <1>9, <1>10, <1>13
<1>15. SrcB(in) # RNONE => E'.valB = Architectural'.r[SrcB(in)]
  <2>1. E'.valB = Forwarded(d_srcB)
    BY <1>2 DEF id_ex_next
  <2> QED
    BY <2>1, <1>4, <1>7, <1>9, <1>10, <1>12
<1>16. SrcB(in) = RNONE /\ hcl = "nobypass" => E'.valB = 0
  <2>1. E'.valB = Forwarded(d_srcB)
    BY <1>2 DEF id_ex_next
  <2> QED
    BY <2>1, <1>4 DEF Forwarded, get_reg_val
<1> QED
  BY <1>2, <1>5, <1>14, <1>15, <1>16 DEF OperandsRight

(* The program does not change, nor what its addresses hold.               *)
LEMMA SameProgram ==
  ASSUME hcl' = hcl, start' = start
  PROVE  /\ TwoPorts <=> TwoPorts'
         /\ In(D.pc)' = In(D'.pc) /\ In(E.pc)' = In(E'.pc)
         /\ In(M.pc)' = In(M'.pc) /\ In(W.pc)' = In(W'.pc)
         /\ Status(D.pc)' = Status(D'.pc) /\ Status(E.pc)' = Status(E'.pc)
         /\ Status(M.pc)' = Status(M'.pc)
         /\ PredPC(D.pc)' = PredPC(D'.pc) /\ PredPC(E.pc)' = PredPC(E'.pc)
<1>1. TwoPorts <=> TwoPorts'
  BY DEF TwoPorts
<1>2. /\ In(D.pc)' = In(D'.pc) /\ In(E.pc)' = In(E'.pc)
      /\ In(M.pc)' = In(M'.pc) /\ In(W.pc)' = In(W'.pc)
  BY DEF In
<1>3. Status(D.pc)' = Status(D'.pc) /\ Status(E.pc)' = Status(E'.pc) /\ Status(M.pc)' = Status(M'.pc)
  BY DEF Status, In
<1>4. PredPC(D.pc)' = PredPC(D'.pc) /\ PredPC(E.pc)' = PredPC(E'.pc)
  BY DEF PredPC, In
<1> QED
  BY <1>1, <1>2, <1>3, <1>4

(* Decode goes on holding what is in the program.                          *)
LEMMA InDecodeNext ==
  ASSUME PipeIInv, Running, Cycle
  PROVE  InDecode' /\ (D' = D \/ D'.stat = "BUB" \/ (D' = if_id_next /\ D'.pc = f_pc))
<1>1. TwoPorts /\ InDecode
  BY DEF PipeIInv
<1>2. /\ hcl' = hcl /\ start' = start
      /\ D' = D \/ D' = Bubble_if_id \/ D' = if_id_next
  BY <1>1, Advance
<1> DEFINE in == In(f_pc)
           i == if_id_next
<1>3. /\ i.stat = Status(f_pc) /\ i.icode = in.op /\ i.ifun = in.fn /\ i.pc = f_pc
      /\ i.valP = Wrap(f_pc + 1) /\ i.stat # "BUB"
      /\ i.stat = "AOK" => /\ UsesC(in) => i.valC = in.c
                           /\ UsesRegs(in) => i.rA = in.ra /\ i.rB = in.rb
  BY <1>1, Fetch
<1>4. In(D.pc)' = In(D'.pc) /\ Status(D.pc)' = Status(D'.pc)
  BY <1>2, SameProgram
<1>5. CASE D' = D
  BY <1>1, <1>4, <1>5 DEF InDecode, UsesC, UsesRegs
<1>6. CASE D' = Bubble_if_id
  BY <1>6 DEF InDecode, Bubble_if_id
<1>7. CASE D' = if_id_next
  <2>1. In(D.pc)' = in /\ Status(D.pc)' = Status(f_pc)
    BY <1>3, <1>4, <1>7
  <2> HIDE DEF in
  <2> QED
    BY <2>1, <1>3, <1>7 DEF InDecode, UsesC, UsesRegs
<1> QED
  BY <1>2, <1>5, <1>6, <1>7

(* And so does execute.                                                    *)
LEMMA InExecuteNext ==
  ASSUME PipeIInv, Running, Cycle
  PROVE  InExecute'
<1>1. TwoPorts /\ InDecode
  BY DEF PipeIInv
<1>2. /\ hcl' = hcl /\ start' = start
      /\ E' = Bubble_id_ex \/ E' = id_ex_next
  BY <1>1, Advance
<1>3. CASE E' = Bubble_id_ex
  BY <1>3 DEF InExecute, Bubble_id_ex
<1>4. CASE E' = id_ex_next
  <2>1. /\ E'.stat = D.stat /\ E'.icode = D.icode /\ E'.ifun = D.ifun /\ E'.valC = D.valC
        /\ E'.pc = D.pc /\ E'.srcA = d_srcA /\ E'.dstE = d_dstE /\ E'.dstM = d_dstM
        /\ D.icode \in {"CALL", "JXX"} => E'.valA = D.valP
    BY <1>4 DEF id_ex_next
  <2>2. CASE D.stat = "BUB"
    <3>1. D.icode = "NOP" /\ d_dstE = RNONE /\ d_dstM = RNONE
      BY <2>2, <1>1, Decode DEF InDecode
    <3> QED
      BY <2>1, <2>2, <3>1 DEF InExecute
  <2>3. CASE D.stat # "BUB"
    <3> DEFINE in == In(D.pc)
    <3>1. In(E.pc)' = in /\ Status(E.pc)' = Status(D.pc)
      BY <2>1, <1>2, SameProgram
    <3>2. /\ D.stat = Status(D.pc) /\ D.icode = in.op /\ D.ifun = in.fn
          /\ D.valP = Wrap(D.pc + 1)
          /\ D.stat = "AOK" /\ UsesC(in) => D.valC = in.c
      BY <2>3, <1>1 DEF InDecode
    <3>3. D.stat = "AOK" => d_srcA = SrcA(in) /\ d_dstE = DstE(in) /\ d_dstM = DstM(in)
      BY <1>1, Decode
    <3> HIDE DEF in
    <3> QED
      BY <2>1, <2>3, <3>1, <3>2, <3>3 DEF InExecute, UsesC, SrcA, DstE, DstM
  <2> QED
    BY <2>2, <2>3
<1> QED
  BY <1>2, <1>3, <1>4

(* A jump that was mispredicted redirects fetch.                           *)
LEMMA RedirectsNext ==
  ASSUME PipeIInv, Running, Cycle, Redirects'
  PROVE  Mispredicted
<1>1. TwoPorts /\ InExecute
  BY DEF PipeIInv
<1>2. hcl' = hcl /\ M' = ex_mem_next
  BY <1>1, Advance
<1>3. M'.icode = E.icode /\ M'.ifun = E.ifun /\ M'.Cnd = e_Cnd /\ M'.valE = e_valE /\ M'.valA = e_valA
  BY <1>2 DEF ex_mem_next
<1>4. E.icode = "JXX"
  BY <1>3 DEF Redirects
<1>5. E.stat = "AOK"
  BY <1>4, NothingArrives
<1> DEFINE in == In(E.pc)
<1>6. in.op = "JXX" /\ E.ifun = in.fn /\ in.c \in Int /\ Wrap(E.pc + 1) \in Int
  <2>1. in.op = "JXX" /\ E.ifun = in.fn /\ Assembled(in, hcl) /\ ValidCode(E.pc)
    BY <1>1, <1>4, <1>5, ProgramHas DEF InExecute
  <2> QED
    BY <2>1, Operands, Wraps
<1>7. /\ E.valC = in.c /\ E.valA = Wrap(E.pc + 1)
      /\ e_valA = IF hcl = "nt" /\ in.fn # "YES" THEN in.c ELSE Wrap(E.pc + 1)
      /\ hcl = "btfnt" /\ in.fn # "YES" => e_valE = in.c
  BY <1>5, <1>6, ExecuteStage
<1> DEFINE next == Wrap(E.pc + 1)
<1> HIDE DEF in
<1>8. CASE hcl = "nt"
  BY <1>2, <1>3, <1>4, <1>8 DEF Redirects, Mispredicted
<1>9. CASE hcl = "btfnt"
  <2>1. E.ifun # "YES" /\ ((e_Cnd /\ e_valE >= e_valA) \/ (~e_Cnd /\ e_valE < e_valA))
    BY <1>2, <1>3, <1>9 DEF Redirects
  <2>2. e_valE = E.valC /\ e_valA = E.valA /\ E.valC \in Int /\ E.valA \in Int
    BY <2>1, <1>6, <1>7, <1>9
  <2>3. e_Cnd \in BOOLEAN
    BY DEF e_Cnd, cond_holds
  <2>4. e_Cnd <=> E.valC >= E.valA
    BY <2>1, <2>2, <2>3
  <2> QED
    BY <2>1, <2>4, <1>4, <1>9 DEF Mispredicted
<1>10. CASE hcl \notin {"nt", "btfnt"}
  BY <1>2, <1>3, <1>4, <1>10 DEF Redirects, Mispredicted
<1> QED
  BY <1>8, <1>9, <1>10

(* The instructions inside still follow one another.                       *)
LEMMA FlowNext ==
  ASSUME PipeIInv, Running, Cycle
  PROVE  Flow'
<1>1. TwoPorts /\ InDecode /\ InExecute /\ Flow
  BY DEF PipeIInv
<1>2. /\ hcl' = hcl /\ start' = start /\ M' = ex_mem_next /\ W' = mem_wb_next
      /\ Mispredicted => D' = Bubble_if_id /\ E' = Bubble_id_ex
      /\ ~Mispredicted /\ Hazard => D' = D /\ E' = Bubble_id_ex /\ F_predPC' = F_predPC
      /\ ~Mispredicted /\ ~Hazard =>
           /\ E' = id_ex_next
           /\ IF RetComing THEN D' = Bubble_if_id ELSE D' = if_id_next /\ F_predPC' = f_predPC
  BY <1>1, Advance
<1>3. if_id_next.stat # "BUB" /\ if_id_next.pc = f_pc /\ f_predPC = PredPC(f_pc)
  BY <1>1, Fetch
<1>4. PredPC(D.pc)' = PredPC(D'.pc) /\ PredPC(E.pc)' = PredPC(E'.pc)
  BY <1>2, SameProgram
<1>5. M'.icode = E.icode /\ W'.icode = M.icode
  BY <1>2 DEF ex_mem_next, mem_wb_next
<1>6. Bubble_if_id.stat = "BUB" /\ Bubble_id_ex.stat = "BUB"
  BY DEF Bubble_if_id, Bubble_id_ex
<1>7. id_ex_next.stat = D.stat /\ id_ex_next.icode = D.icode /\ id_ex_next.pc = D.pc
  BY DEF id_ex_next
<1>8. D.stat = "BUB" => ~Hazard \/ E'.stat = "BUB"
  BY <1>2, <1>6
<1>9. D.stat = "BUB" => D.icode = "NOP" /\ ~Hazard
  <2>1. D.stat = "BUB" => D.icode = "NOP"
    BY <1>1 DEF InDecode
  <2>2. D.icode = "NOP" => d_srcA = RNONE /\ d_srcB = RNONE
    BY <1>1, Decode
  <2>3. CASE E.icode \in {"MRMOVQ", "POPQ"}
    <3>1. E.stat = "AOK"
      BY <2>3, NothingArrives
    <3>2. E.dstM = DstM(In(E.pc)) /\ In(E.pc).op = E.icode /\ Assembled(In(E.pc), hcl)
      BY <3>1, <1>1, ProgramHas DEF InExecute
    <3>3. E.dstM # RNONE
      BY <3>2, <2>3, RegWords DEF DstM, Assembled
    <3> QED
      BY <2>1, <2>2, <3>3, <1>1 DEF Hazard, Pending, TwoPorts
  <2>4. CASE E.icode \notin {"MRMOVQ", "POPQ"}
    BY <2>1, <2>2, <2>4, <1>1 DEF Hazard, Pending, TwoPorts
  <2> QED
    BY <2>3, <2>4
<1>10. E.icode = "RET" => D.stat = "BUB" /\ E.stat # "BUB"
  BY <1>1 DEF Flow, InExecute
<1>11. E'.stat # "BUB" => ~Mispredicted /\ ~Hazard /\ E' = id_ex_next /\ D.stat # "BUB"
  BY <1>2, <1>6, <1>7
<1>12. E'.stat # "BUB" /\ D'.stat # "BUB" => E'.icode # "RET" /\ D'.pc = PredPC(E'.pc)
  <2> SUFFICES ASSUME E'.stat # "BUB", D'.stat # "BUB"
               PROVE  E'.icode # "RET" /\ D'.pc = PredPC(E'.pc)
    OBVIOUS
  <2>1. D.stat # "BUB" /\ ~RetComing /\ D' = if_id_next
    BY <1>2, <1>6, <1>11
  <2>2. D.icode # "RET" /\ ~Redirects /\ W.icode # "RET" /\ F_predPC = PredPC(D.pc)
    BY <2>1, <1>1 DEF RetComing, Flow
  <2>3. f_pc = F_predPC
    BY <2>2, <1>1, FetchesAtHolds DEF FetchesAt
  <2> QED
    BY <2>1, <2>2, <2>3, <1>3, <1>7, <1>11
<1>13. E'.stat # "BUB" /\ D'.stat = "BUB" => E'.icode = "RET"
  <2> SUFFICES ASSUME E'.stat # "BUB", D'.stat = "BUB" PROVE E'.icode = "RET"
    OBVIOUS
  <2>1. RetComing /\ D.stat # "BUB"
    BY <1>2, <1>3, <1>11
  <2>2. M.icode # "RET" /\ E.icode # "RET"
    BY <2>1, <1>1, <1>10 DEF Flow
  <2> QED
    BY <2>1, <2>2, <1>7, <1>11 DEF RetComing
<1>14. M'.icode = "RET" => D'.stat = "BUB" /\ E'.stat = "BUB"
  <2> SUFFICES ASSUME M'.icode = "RET" PROVE D'.stat = "BUB" /\ E'.stat = "BUB"
    OBVIOUS
  <2>1. E.icode = "RET" /\ D.stat = "BUB" /\ ~Hazard /\ ~Mispredicted /\ RetComing
    BY <1>5, <1>9, <1>10 DEF Mispredicted, RetComing
  <2> QED
    BY <2>1, <1>2, <1>6, <1>7
<1>15. D'.stat # "BUB" => /\ ~Redirects' /\ W'.icode # "RET"
                          /\ D'.icode # "RET" => F_predPC' = PredPC(D'.pc)
  <2> SUFFICES ASSUME D'.stat # "BUB"
               PROVE  /\ ~Redirects' /\ W'.icode # "RET"
                      /\ D'.icode # "RET" => F_predPC' = PredPC(D'.pc)
    OBVIOUS
  <2>1. ~Mispredicted /\ ~Redirects'
    BY <1>2, <1>6, RedirectsNext
  <2>2. W'.icode # "RET"
    <3>1. CASE M.icode = "RET"
      <4>1. D.stat = "BUB" /\ RetComing
        BY <3>1, <1>1 DEF Flow, RetComing
      <4> QED
        BY <4>1, <2>1, <1>2, <1>6, <1>9
    <3> QED
      BY <3>1, <1>5
  <2>3. D'.icode # "RET" => F_predPC' = PredPC(D'.pc)
    <3>1. CASE Hazard
      <4>1. D' = D /\ F_predPC' = F_predPC
        BY <2>1, <3>1, <1>2
      <4> QED
        BY <4>1, <1>1 DEF Flow
    <3>2. CASE ~Hazard
      <4>1. D' = if_id_next /\ F_predPC' = f_predPC
        BY <2>1, <3>2, <1>2, <1>6
      <4> QED
        BY <4>1, <1>3
    <3> QED
      BY <3>1, <3>2
  <2> QED
    BY <2>1, <2>2, <2>3
<1>16. E'.stat # "BUB" /\ D'.stat # "BUB" => E'.icode # "RET" /\ D'.pc = PredPC(E.pc)'
  BY <1>4, <1>12
<1>17. D'.stat # "BUB" => /\ ~Redirects' /\ W'.icode # "RET"
                          /\ D'.icode # "RET" => F_predPC' = PredPC(D.pc)'
  BY <1>4, <1>15
<1> QED
  BY <1>13, <1>14, <1>16, <1>17 DEF Flow

(* What has failed can still be told from the program.                     *)
LEMMA FailuresNext ==
  ASSUME PipeIInv, Cycle
  PROVE  TwoPorts' /\ W'.stat \in {"BUB", "AOK", "ADR", "INS", "HLT"} /\ InMemory' /\ InWriteBack'
<1>1. TwoPorts /\ InMemory
  BY DEF PipeIInv
<1>2. hcl' = hcl /\ start' = start /\ W' = mem_wb_next
  BY <1>1, Advance, Stops
<1>3. TwoPorts' /\ In(M.pc)' = In(M'.pc) /\ In(W.pc)' = In(W'.pc) /\ Status(M.pc)' = Status(M'.pc)
  BY <1>1, <1>2, SameProgram
<1>4. W'.stat = m_stat /\ W'.icode = M.icode /\ W'.pc = M.pc
  BY <1>2 DEF mem_wb_next
<1>5. /\ m_stat = IF dmem_error THEN "ADR" ELSE M.stat
      /\ M.stat = "BUB" => M.icode = "NOP"
      /\ M.stat # "BUB" => M.stat = Status(M.pc) /\ M.icode = In(M.pc).op
      /\ M.stat \in {"BUB", "AOK", "ADR", "INS", "HLT"}
  BY <1>1, MemoryHolds, ProgramHas DEF Memory, InMemory
<1>6. M'.stat = "BUB" => M'.icode = "NOP"
  <2>1. CASE Running
    BY <2>1, <1>1, Advance DEF PipeIInv, InExecute, ex_mem_next
  <2>2. CASE ~Running
    BY <2>2, Stops DEF Bubble_ex_mem
  <2> QED
    BY <2>1, <2>2
<1>7. M'.stat # "BUB" => M'.stat = Status(M'.pc) /\ M'.icode = In(M'.pc).op
  <2>1. CASE Running
    BY <2>1, <1>1, Advance DEF PipeIInv, InExecute, ex_mem_next
  <2>2. CASE ~Running
    BY <2>2, Stops DEF Bubble_ex_mem
  <2> QED
    BY <2>1, <2>2
<1>8. Faulty(W'.stat) => M'.stat = "BUB" /\ M'.icode = "NOP"
  <2>1. CASE Running
    BY <2>1, <1>4 DEF Running
  <2>2. CASE ~Running
    BY <2>2, Stops DEF Bubble_ex_mem
  <2> QED
    BY <2>1, <2>2
<1>9. ASSUME Faulty(W'.stat), W'.icode \in Stack PROVE W'.icode = In(W'.pc).op /\ W'.stat = "ADR"
  <2>1. M.stat # "BUB" /\ M.icode = In(M.pc).op /\ M.icode \in Live \ {"NOP"}
    BY <1>4, <1>5, <1>9 DEF Stack, Live
  <2>2. M.stat = "AOK"
    BY <2>1, <1>1, <1>5, ProgramHas
  <2> QED
    BY <2>1, <2>2, <1>4, <1>5, <1>9 DEF Faulty
<1>10. InMemory'
  BY <1>3, <1>6, <1>7 DEF InMemory
<1>11. InWriteBack'
  BY <1>3, <1>8, <1>9 DEF InWriteBack
<1> QED
  BY <1>3, <1>4, <1>5, <1>10, <1>11

(* A cycle keeps the invariant, and executes the next instruction of the   *)
(* program or none.                                                        *)
LEMMA CycleStep ==
  ASSUME PipeIInv, Cycle
  PROVE  /\ PipeIInv'
         /\ \/ Architectural' = Architectural
            \/ Architectural.stat = "AOK" /\ Architectural' = step_state(Architectural)
<1>1. /\ TwoPorts' /\ W'.stat \in {"BUB", "AOK", "ADR", "INS", "HLT"} /\ InMemory' /\ InWriteBack'
  BY FailuresNext
<1>2. CASE ~Running
  <2>1. Architectural' = Architectural /\ ~Running'
    BY <1>2, Stops DEF Running
  <2> QED
    BY <2>1, <1>1 DEF PipeIInv
<1>3. CASE Running
  <2>1. \/ Architectural' = Architectural
        \/ Architectural.stat = "AOK" /\ Architectural' = step_state(Architectural)
    BY <1>3, Executes, FailsToo, Waits
  <2>2. Running' => RegType(Architectural'.r) /\ DataType(Architectural'.data)
    <3>1. CASE E.stat = "AOK"
      BY <3>1, <1>3, Executes
    <3>2. CASE E.stat # "AOK"
      BY <3>2, <1>3, NothingArrives DEF PipeIInv
    <3> QED
      BY <3>1, <3>2
  <2>3. InDecode' /\ InExecute' /\ Flow' /\ (Running' => OperandsRight')
    BY <1>3, InDecodeNext, InExecuteNext, FlowNext, OperandsRightNext
  <2> QED
    BY <2>1, <2>2, <2>3, <1>1 DEF PipeIInv, RegType, DataType
<1> QED
  BY <1>2, <1>3

(* A simulation that starts.                                               *)
LEMMA PipeStarts ==
  ASSUME hcl \in {"std", "full", "nobypass", "nt", "btfnt", "lf"}, PipeInit(hcl, start),
         Loaded(hcl, start), hcl = "nobypass" \/ Based(start)
  PROVE  PipeIInv /\ Architectural = start
<1>1. /\ TwoPorts /\ F_predPC = 0
      /\ D = Bubble_if_id /\ E = Bubble_id_ex /\ M = Bubble_ex_mem /\ W = Bubble_mem_wb
      /\ reg = start.r /\ data = start.data /\ cc = start.cc
  BY DEF TwoPorts, PipeInit
<1>2. /\ D.stat = "BUB" /\ D.icode = "NOP"
      /\ E.stat = "BUB" /\ E.icode = "NOP" /\ E.dstE = RNONE /\ E.dstM = RNONE
      /\ M.stat = "BUB" /\ M.icode = "NOP" /\ M.dstE = RNONE /\ M.dstM = RNONE
      /\ W.stat = "BUB" /\ W.icode = "NOP" /\ W.dstE = RNONE /\ W.dstM = RNONE
  BY <1>1 DEF Bubble_if_id, Bubble_id_ex, Bubble_ex_mem, Bubble_mem_wb
<1>3. ~mem_write /\ m_stat = "BUB" /\ Running
  BY <1>1, <1>2, MemoryHolds DEF Memory, Running, Faulty
<1>4. f_pc = 0
  BY <1>1, <1>2, FetchesAtHolds DEF FetchesAt, Redirects
<1>5. Written(reg, W, W.valM) = reg
  BY <1>2 DEF Written, Faulty, set_reg_val
<1>6. Architectural = MkState(start.code, start.data, start.r, start.cc, 0, "AOK")
  <2>1. Architectural.r = start.r
    BY <1>1, <1>2, <1>3, <1>5, PartsHold, SetGet DEF Parts, Running
  <2> QED
    BY <2>1, <1>1, <1>2, <1>3, <1>4, PartsHold DEF Parts, Running
<1>7. start = NewState(start.code, start.data, start.r)
  BY DEF Loaded
<1>8. start = MkState(start.code, start.data, start.r, start.cc, 0, "AOK")
  BY <1>7 DEF NewState, MkState
<1>9. RegType(Architectural.r) /\ DataType(Architectural.data)
  BY <1>6, <1>8 DEF Loaded, RegType, DataType
<1> QED
  BY <1>1, <1>2, <1>3, <1>6, <1>8, <1>9
  DEF PipeIInv, InMemory, InWriteBack, InDecode, InExecute, OperandsRight, Flow, Faulty

(* The pipeline's state, when it does not move.                            *)
LEMMA PipeStutters ==
  ASSUME UNCHANGED vars
  PROVE  /\ Architectural' = Architectural /\ (PipeIInv => PipeIInv')
         /\ W' = W /\ reg' = reg /\ data' = data /\ cc' = cc /\ start' = start /\ hcl' = hcl
<1>1. /\ hcl' = hcl /\ start' = start /\ F_predPC' = F_predPC
      /\ D' = D /\ E' = E /\ M' = M /\ W' = W /\ reg' = reg /\ data' = data /\ cc' = cc
  BY DEF vars
<1>2. mem_addr' = mem_addr /\ (mem_read' <=> mem_read) /\ (mem_write' <=> mem_write)
  BY <1>1 DEF mem_addr, mem_read, mem_write
<1>3. dmem_error' <=> dmem_error
  BY <1>2 DEF dmem_error
<1>4. m_valM' = m_valM /\ m_stat' = m_stat
  BY <1>1, <1>2, <1>3 DEF m_valM, m_stat
<1>5. mem_wb_next' = mem_wb_next
  BY <1>1, <1>4 DEF mem_wb_next
<1>6. f_pc' = f_pc
  BY <1>1 DEF f_pc
<1>7. Architectural' = Architectural
  BY <1>1, <1>2, <1>3, <1>4, <1>5, <1>6 DEF Architectural
<1>8. /\ TwoPorts <=> TwoPorts'
      /\ In(D.pc)' = In(D.pc) /\ In(E.pc)' = In(E.pc) /\ In(M.pc)' = In(M.pc) /\ In(W.pc)' = In(W.pc)
      /\ Status(D.pc)' = Status(D.pc) /\ Status(E.pc)' = Status(E.pc) /\ Status(M.pc)' = Status(M.pc)
      /\ PredPC(D.pc)' = PredPC(D.pc) /\ PredPC(E.pc)' = PredPC(E.pc)
  BY <1>1, SameProgram
<1>9. (InMemory <=> InMemory') /\ (InWriteBack <=> InWriteBack')
  BY <1>1, <1>8 DEF InMemory, InWriteBack
<1>10. InDecode => InDecode'
  BY <1>1, <1>8 DEF InDecode, UsesC, UsesRegs
<1>11. InExecute => InExecute'
  BY <1>1, <1>8 DEF InExecute, UsesC
<1>12. OperandsRight => OperandsRight'
  BY <1>1, <1>7, <1>8 DEF OperandsRight, LoadsLate
<1>13. Redirects' <=> Redirects
  BY <1>1 DEF Redirects
<1>14. Flow => Flow'
  BY <1>1, <1>8, <1>13 DEF Flow
<1>15. Running' <=> Running
  BY <1>1, <1>4 DEF Running
<1> QED
  BY <1>1, <1>7, <1>8, <1>9, <1>10, <1>11, <1>12, <1>14, <1>15 DEF PipeIInv, RegType, DataType

(* The sequential processor's state, when it does not move.                *)
LEMMA SeqStutters ==
  ASSUME UNCHANGED seqvars
  PROVE  SeqArchitectural' = SeqArchitectural /\ (SeqIInv => SeqIInv')
<1>1. /\ seq' = seq /\ image' = image /\ pc' = pc /\ out' = out
      /\ sreg' = sreg /\ sdata' = sdata /\ scc' = scc /\ sstat' = sstat
  BY DEF seqvars
<1>2. SeqArchitectural' = SeqArchitectural
  BY <1>1 DEF SeqArchitectural
<1> QED
  BY <1>1, <1>2 DEF SeqIInv, RegType, DataType

(* The sequential processors start in a state the instruction set starts   *)
(* in.                                                                     *)
LEMMA SequentialStarts ==
  ASSUME ProcessorsInit
  PROVE  SeqIInv /\ SeqIsa!Init
<1>1. SeqIInv /\ SeqArchitectural = image
  BY SeqStarts DEF ProcessorsInit
<1>2. image.pc = 0 /\ image.cc = DEFAULT_CC /\ image.stat = "AOK"
  <2>1. image = NewState(image.code, image.data, image.r)
    BY DEF ProcessorsInit, Loaded
  <2> QED
    BY <2>1 DEF NewState
<1> QED
  BY <1>1, <1>2, SeqStepIsStep DEF SeqIsa!Init

(* Every step of a sequential processor is an instruction of its program,  *)
(* whatever the program.                                                   *)
THEOREM SequentialImplements == ProcessorsSpec => SeqImplementsIsa
<1>1. ProcessorsInit => SeqIInv /\ SeqIsa!Init
  BY SequentialStarts
<1>2. SeqIInv /\ [ProcessorsNext]_allvars => SeqIInv' /\ [SeqIsa!Next]_SeqArchitectural
  <2> SUFFICES ASSUME SeqIInv, [ProcessorsNext]_allvars
               PROVE  SeqIInv' /\ [SeqIsa!Next]_SeqArchitectural
    OBVIOUS
  <2>1. CASE Sequential
    BY <2>1, SeqStepIs DEF Sequential
  <2>2. CASE Pipeline \/ UNCHANGED allvars
    BY <2>2, SeqStutters DEF Pipeline, allvars
  <2> QED
    BY <2>1, <2>2 DEF ProcessorsNext
<1>3. ProcessorsSpec => SeqIsa!Spec
  BY <1>1, <1>2, PTL DEF ProcessorsSpec, SeqIsa!Spec
<1> QED
  BY <1>3 DEF SeqImplementsIsa

(* The inductive invariant of both processors.                             *)
ProcessorsIInv == PipeIInv /\ SeqIInv

(* They start with it, and in a state the instruction set starts in.       *)
LEMMA ProcessorsStart ==
  ASSUME ProcessorsInit, Sound
  PROVE  ProcessorsIInv /\ InstructionSet!Init /\ SeqIsa!Init /\ Architectural = start
<1>1. PipeIInv /\ Architectural = start
  BY PipeStarts DEF ProcessorsInit, Sound
<1>2. SeqIInv /\ SeqIsa!Init
  BY SequentialStarts
<1>3. start.pc = 0 /\ start.cc = DEFAULT_CC /\ start.stat = "AOK"
  <2>1. start = NewState(start.code, start.data, start.r)
    BY DEF ProcessorsInit, Loaded
  <2> QED
    BY <2>1 DEF NewState
<1>4. InstructionSet!Init
  BY <1>1, <1>3, PipeStepIsStep DEF InstructionSet!Init
<1> QED
  BY <1>1, <1>2, <1>4 DEF ProcessorsIInv

(* Every step keeps it, and is a step of step_state or changes nothing     *)
(* that the programmer sees.                                               *)
LEMMA ProcessorsStep ==
  ASSUME ProcessorsIInv, [ProcessorsNext]_allvars
  PROVE  /\ ProcessorsIInv' /\ start' = start
         /\ \/ Architectural' = Architectural
            \/ Architectural.stat = "AOK" /\ Architectural' = step_state(Architectural)
         /\ [InstructionSet!Next]_Architectural /\ [SeqIsa!Next]_SeqArchitectural
<1>1. CASE Pipeline
  <2>1. Cycle /\ UNCHANGED seqvars
    BY <1>1 DEF Pipeline
  <2>2. /\ PipeIInv' /\ start' = start
        /\ \/ Architectural' = Architectural
           \/ Architectural.stat = "AOK" /\ Architectural' = step_state(Architectural)
    BY <2>1, CycleStep DEF ProcessorsIInv, Cycle
  <2>3. SeqArchitectural' = SeqArchitectural /\ SeqIInv'
    BY <2>1, SeqStutters DEF ProcessorsIInv
  <2>4. [InstructionSet!Next]_Architectural
    BY <2>2, PipeStepIsStep DEF InstructionSet!Next
  <2> QED
    BY <2>2, <2>3, <2>4 DEF ProcessorsIInv
<1>2. CASE Sequential
  <2>1. SeqStep /\ UNCHANGED vars
    BY <1>2 DEF Sequential
  <2>2. Architectural' = Architectural /\ PipeIInv' /\ start' = start
    BY <2>1, PipeStutters DEF ProcessorsIInv
  <2>3. SeqIInv' /\ SeqIsa!Next
    BY <2>1, SeqStepIs DEF ProcessorsIInv
  <2> QED
    BY <2>2, <2>3 DEF ProcessorsIInv
<1>3. CASE UNCHANGED allvars
  <2>1. UNCHANGED vars /\ UNCHANGED seqvars
    BY <1>3 DEF allvars
  <2>2. Architectural' = Architectural /\ PipeIInv' /\ start' = start
    BY <2>1, PipeStutters DEF ProcessorsIInv
  <2>3. SeqArchitectural' = SeqArchitectural /\ SeqIInv'
    BY <2>1, SeqStutters DEF ProcessorsIInv
  <2> QED
    BY <2>2, <2>3 DEF ProcessorsIInv
<1> QED
  BY <1>1, <1>2, <1>3 DEF ProcessorsNext

(* Every step of a processor is an instruction of its program or none: of  *)
(* pipe-nobypass with every program, of the pipelines that forward if each *)
(* of its addresses has a base register, which pipe-full.hcl:229 needs.    *)
THEOREM ProcessorsImplement == ProcessorsSpec /\ Sound => AllImplementIsa
<1>1. ProcessorsInit /\ Sound => ProcessorsIInv /\ InstructionSet!Init /\ SeqIsa!Init
  BY ProcessorsStart
<1>2. ProcessorsIInv /\ [ProcessorsNext]_allvars
        => ProcessorsIInv' /\ [InstructionSet!Next]_Architectural /\ [SeqIsa!Next]_SeqArchitectural
  BY ProcessorsStep
<1>3. ProcessorsSpec /\ Sound => InstructionSet!Spec /\ SeqIsa!Spec
  BY <1>1, <1>2, PTL DEF ProcessorsSpec, InstructionSet!Spec, SeqIsa!Spec
<1> QED
  BY <1>3 DEF AllImplementIsa, ImplementsIsa, SeqImplementsIsa

-----------------------------------------------------------------------------
(* The run that psim -t compares with.                                     *)
Onward(s) == IF s.stat = "AOK" THEN step_state(s) ELSE s
RunTo(f, n) == /\ f = [i \in 0..n |-> f[i]] /\ f[0] = start
               /\ \A i \in 1..n : f[i] = Onward(f[i - 1])

(* However many steps are asked for, there is a run of that many.          *)
LEMMA RunExists ==
  ASSUME NEW n \in Nat
  PROVE  \E f : RunTo(f, n)
<1> DEFINE Lacking == {m \in 0..n : ~\E f : RunTo(f, m)}
<1> SUFFICES ASSUME n \in Lacking PROVE FALSE
  OBVIOUS
<1>0. Lacking \subseteq Nat /\ Lacking # {}
  <2>1. Lacking \subseteq 0..n
    BY Zenon
  <2> HIDE DEF Lacking
  <2> QED
    BY <2>1
<1>1. PICK m \in Lacking : \A k \in Lacking : m <= k
  <2> HIDE DEF Lacking
  <2> QED
    BY <1>0, LeastNumber
<1>2. m \in 0..n /\ ~\E f : RunTo(f, m)
  OBVIOUS
<1>3. CASE m = 0
  <2>1. RunTo([i \in 0..0 |-> start], m)
    BY <1>3 DEF RunTo
  <2> QED
    BY <1>2, <2>1
<1>4. CASE m # 0
  <2>1. m - 1 \in 0..n /\ ~(m <= m - 1)
    BY <1>2, <1>4
  <2>2. PICK f : RunTo(f, m - 1)
    BY <1>1, <2>1
  <2> DEFINE g == [i \in 0..m |-> IF i = m THEN Onward(f[m - 1]) ELSE f[i]]
  <2>3. \A i \in 1..m : g[i] = Onward(g[i - 1])
    <3> TAKE i \in 1..m
    <3>1. i \in 0..m /\ i - 1 \in 0..m /\ i - 1 # m
      BY <1>2
    <3>2. g[i - 1] = f[i - 1] /\ g[i] = IF i = m THEN Onward(f[m - 1]) ELSE f[i]
      BY <3>1
    <3>3. i # m => i \in 1..(m - 1)
      BY <1>2
    <3> QED
      BY <3>2, <3>3, <2>2 DEF RunTo
  <2>4. g[0] = start /\ g = [i \in 0..m |-> g[i]]
    BY <1>2, <1>4, <2>2 DEF RunTo
  <2>5. RunTo(g, m)
    BY <2>3, <2>4 DEF RunTo
  <2> QED
    BY <1>2, <2>5
<1> QED
  BY <1>3, <1>4

(* It begins in start, and goes on from there step by step.                *)
LEMMA RunIs ==
  /\ MaxSteps \in Nat /\ Run[0] = start
  /\ \A n \in 1..MaxSteps : Run[n] = Onward(Run[n - 1])
<1> DEFINE IsRun(f) == f = [n \in 0..MaxSteps |->
                              IF n = 0 THEN start
                              ELSE LET s == f[n - 1] IN
                                   IF s.stat = "AOK" THEN step_state(s) ELSE s]
<1>1. MaxSteps \in Nat
  BY PipeAssumption DEF PipeAssumption
<1>2. PICK f : RunTo(f, MaxSteps)
  BY <1>1, RunExists
<1>3. IsRun(f)
  <2>1. \A n \in 0..MaxSteps : f[n] = IF n = 0 THEN start
                                      ELSE LET s == f[n - 1] IN
                                           IF s.stat = "AOK" THEN step_state(s) ELSE s
    <3> TAKE n \in 0..MaxSteps
    <3>1. n # 0 => n \in 1..MaxSteps
      BY <1>1
    <3>2. n # 0 => f[n] = Onward(f[n - 1])
      BY <3>1, <1>2 DEF RunTo
    <3>3. n = 0 => f[n] = start
      BY <1>2 DEF RunTo
    <3> QED
      BY <3>2, <3>3 DEF Onward
  <2> QED
    BY <2>1, <1>2 DEF RunTo
<1>4. Run = CHOOSE g : IsRun(g)
  BY DEF Run
<1>5. IsRun(Run)
  <2> HIDE DEF IsRun
  <2> QED
    BY <1>3, <1>4
<1>6. \A n \in 0..MaxSteps : Run[n] = IF n = 0 THEN start ELSE Onward(Run[n - 1])
  BY <1>5 DEF Onward
<1> QED
  BY <1>1, <1>6

(* The program ends within that run: its length, MaxSteps, stands for the  *)
(* limit -l of psim.                                                       *)
RunEnds == Run[MaxSteps].stat # "AOK"

(* The run has ended where it has stopped.                                 *)
LEMMA RunStops ==
  ASSUME NEW n \in 0..MaxSteps, Run[n].stat # "AOK"
  PROVE  Run[MaxSteps] = Run[n]
<1> DEFINE Others == {k \in n..MaxSteps : Run[k] # Run[n]}
<1>1. MaxSteps \in Nat /\ MaxSteps \in n..MaxSteps
  BY RunIs
<1>2. SUFFICES ASSUME Others # {} PROVE FALSE
  <2>1. Others = {} => Run[MaxSteps] = Run[n]
    BY <1>1
  <2> QED
    BY <2>1, Zenon
<1>3. Others \subseteq Nat
  BY <1>1
<1>4. PICK m \in Others : \A k \in Others : m <= k
  <2> HIDE DEF Others
  <2> QED
    BY <1>2, <1>3, LeastNumber
<1>5. m # n /\ m \in n..MaxSteps /\ m - 1 \in n..MaxSteps /\ ~(m <= m - 1) /\ m \in 1..MaxSteps
  BY <1>1, <1>4
<1>6. Run[m - 1] = Run[n]
  BY <1>4, <1>5
<1>7. Run[m] = Run[n]
  BY <1>5, <1>6, RunIs DEF Onward
<1> QED
  BY <1>4, <1>7

(* The state of a pipeline is one of that run.                             *)
OnRun == RunEnds => \E n \in 0..MaxSteps : Architectural = Run[n]

(* When it has stopped, nothing is left to be written but what a push, pop *)
(* or call with a bad address does not write.                              *)
LEMMA Agrees ==
  ASSUME PipeIInv, OnRun, RunEnds
  PROVE  IsaCheck
<1> SUFFICES ASSUME Faulty(Stat) PROVE IsaCheck
  BY DEF IsaCheck
<1> DEFINE s == Run[MaxSteps]
<1>1. Faulty(W.stat) /\ Stat = W.stat
  BY DEF Stat, Faulty
<1>2. /\ M.icode = "NOP"
      /\ W.icode \in Stack => W.icode = In(W.pc).op /\ W.stat = "ADR"
      /\ TwoPorts
  BY <1>1 DEF PipeIInv, InWriteBack
<1>3. ~mem_write
  BY <1>2, MemoryHolds DEF Memory
<1>4. Architectural = MkState(start.code, data, Written(reg, W, W.valM), cc, W.pc, W.stat)
  BY <1>1, <1>3, PartsHold DEF Parts
<1>5. s = Architectural
  <2>1. PICK n \in 0..MaxSteps : Architectural = Run[n]
    BY DEF OnRun
  <2>2. Run[n].stat # "AOK"
    <3>1. Architectural.stat = W.stat
      BY <1>4, StateParts
    <3> QED
      BY <1>1, <2>1, <3>1 DEF Faulty
  <2> QED
    BY <2>1, <2>2, RunStops
<1>6. /\ s.code = start.code /\ s.data = data /\ s.r = Written(reg, W, W.valM) /\ s.cc = cc
      /\ s.pc = W.pc /\ s.stat = W.stat
  BY <1>4, <1>5, StateParts
<1> HIDE DEF s
<1>7. CASE W.icode \in Stack
  <2>1. ValidCode(W.pc) /\ start.code[W.pc].op \in {"PUSHQ", "POPQ", "CALL"} /\ W.stat = "ADR"
    BY <1>2, <1>7 DEF In, Instr, Stack
  <2> QED
    BY <2>1, <1>6 DEF IsaCheck, s
<1>8. CASE W.icode \notin Stack
  <2>1. s.r = reg
    BY <1>1, <1>6, <1>8 DEF Written, Stack
  <2> QED
    BY <2>1, <1>1, <1>6 DEF IsaCheck, s
<1> QED
  BY <1>7, <1>8

(* psim -t finds no difference at the end, with the programs as above.     *)
THEOREM IsaChecked == ProcessorsSpec /\ Sound => [](RunEnds => IsaCheck)
<1>1. ProcessorsInit /\ Sound => ProcessorsIInv /\ OnRun
  <2>1. ASSUME ProcessorsInit, Sound PROVE OnRun
    <3>1. Architectural = Run[0] /\ 0 \in 0..MaxSteps
      BY <2>1, ProcessorsStart, RunIs
    <3> QED
      BY <3>1 DEF OnRun
  <2> QED
    BY <2>1, ProcessorsStart
<1>2. ProcessorsIInv /\ OnRun /\ [ProcessorsNext]_allvars => ProcessorsIInv' /\ OnRun'
  <2> SUFFICES ASSUME ProcessorsIInv, OnRun, [ProcessorsNext]_allvars
               PROVE  ProcessorsIInv' /\ OnRun'
    OBVIOUS
  <2>1. /\ ProcessorsIInv' /\ start' = start
        /\ \/ Architectural' = Architectural
           \/ Architectural.stat = "AOK" /\ Architectural' = step_state(Architectural)
    BY ProcessorsStep
  <2>2. Run' = Run
    BY <2>1 DEF Run
  <2>3. RunEnds => \E n \in 0..MaxSteps : Architectural' = Run[n]
    <3> SUFFICES ASSUME RunEnds PROVE \E n \in 0..MaxSteps : Architectural' = Run[n]
      OBVIOUS
    <3>1. PICK n \in 0..MaxSteps : Architectural = Run[n]
      BY DEF OnRun
    <3>2. CASE Architectural' = Architectural
      BY <3>1, <3>2
    <3>3. CASE Architectural.stat = "AOK" /\ Architectural' = step_state(Architectural)
      <4>1. n # MaxSteps /\ MaxSteps \in Nat
        BY <3>1, <3>3, RunIs DEF RunEnds
      <4>2. n + 1 \in 1..MaxSteps /\ (n + 1) - 1 = n
        BY <4>1
      <4>3. Run[n + 1] = Onward(Run[n])
        BY <4>2, RunIs
      <4>4. Architectural' = Run[n + 1]
        BY <3>1, <3>3, <4>3 DEF Onward
      <4> QED
        BY <4>2, <4>4
    <3> QED
      BY <2>1, <3>2, <3>3
  <2>4. OnRun'
    BY <2>2, <2>3 DEF OnRun, RunEnds
  <2> QED
    BY <2>1, <2>4
<1>3. ProcessorsIInv /\ OnRun => (RunEnds => IsaCheck)
  BY Agrees DEF ProcessorsIInv
<1> QED
  BY <1>1, <1>2, <1>3, PTL DEF ProcessorsSpec
===============================================================================
