--------------------------- MODULE Chapter12Proofs ----------------------------
(***************************************************************************)
(* Theorems about the programs of src/ch12: the readers-writers locks, for *)
(* any finite sets of readers and writers and any N; the pool of pool.c    *)
(* and the servers around it, for any number of clients and any            *)
(* FD_SETSIZE; and the three ways to read a line with a timeout.           *)
(***************************************************************************)
EXTENDS ReadersWriters, SelectPool, TimedRead, Counting, TLAPS

(***************************************************************************)
(* ReadersWriters.                                                         *)
(***************************************************************************)
(* What an instruction does to the semaphores and the counters.            *)
Down(s) == sem[s] > 0 /\ sem' = [sem EXCEPT ![s] = @ - 1] /\ UNCHANGED count
Up(s) == sem' = [sem EXCEPT ![s] = @ + 1] /\ UNCHANGED count
CountUp(c) == count' = [count EXCEPT ![c] = @ + 1] /\ UNCHANGED sem
CountDown(c) == count' = [count EXCEPT ![c] = @ - 1] /\ UNCHANGED sem
Still == UNCHANGED <<sem, count>>

(* The next instruction of a loop of n.                                    *)
Following(i, n) == IF i = n THEN 1 ELSE i + 1

(* The table of instructions is a loop.                                    *)
LEMMA LoopAround ==
  ASSUME NEW n \in Nat, NEW i \in 1..n
  PROVE  1 + (i % n) = Following(i, n)
<1>1. CASE i = n
  BY <1>1 DEF Following
<1>2. CASE i # n
  <2>1. i \in 0..(n - 1) /\ n > 0
    BY <1>2
  <2>2. i % n = i
    BY <2>1
  <2> QED
    BY <1>2, <2>2 DEF Following
<1> QED
  BY <1>1, <1>2

(* A step executes the instruction of one thread, whatever its program.    *)
LEMMA Executes ==
  ASSUME NEW t \in RWThreads, RWStep(t)
  PROVE  /\ pc' = [pc EXCEPT ![t] = 1 + (@ % Len(Code(t)))]
         /\ program' = program
         /\ \A s : Instr(t) = P(s) => Down(s)
         /\ \A s : Instr(t) = V(s) => Up(s)
         /\ \A c : Instr(t) = Inc(c) => CountUp(c)
         /\ \A c : Instr(t) = Dec(c) => CountDown(c)
         /\ \A c, s : Instr(t) = PIfFirst(c, s) => IF count[c] = 1 THEN Down(s) ELSE Still
         /\ \A c, s : Instr(t) = VIfLast(c, s) => IF count[c] = 0 THEN Up(s) ELSE Still
         /\ Instr(t) = Use => Still
<1>1. Take(t) \/ Give(t) \/ Count(t) \/ Pass(t)
  BY DEF RWStep
<1>2. Advance(t)
  BY <1>1 DEF Take, Give, Count, Pass
<1> DEFINE op == Instr(t).op
           i == Instr(t)
<1>3. \/ (op = "P" \/ (op = "Pfirst" /\ count[i.cnt] = 1)) /\ Down(i.sem)
      \/ (op = "V" \/ (op = "Vlast" /\ count[i.cnt] = 0)) /\ Up(i.sem)
      \/ op = "inc" /\ CountUp(i.cnt)
      \/ op = "dec" /\ CountDown(i.cnt)
      \/ /\ op \in {"use", "Pfirst", "Vlast"} /\ Still
         /\ ~(op = "Pfirst" /\ count[i.cnt] = 1)
         /\ ~(op = "Vlast" /\ count[i.cnt] = 0)
  BY <1>1 DEF Take, Give, Count, Pass, Takes, Gives, Down, Up, CountUp, CountDown, Still
<1> HIDE DEF op, i
<1>4. op = i.op
  BY DEF op, i
<1>5. ASSUME NEW s, i = P(s) PROVE Down(s)
  <2>1. i.op = "P" /\ i.sem = s
    BY <1>5 DEF P
  <2> QED
    BY <1>3, <1>4, <2>1
<1>6. ASSUME NEW s, i = V(s) PROVE Up(s)
  <2>1. i.op = "V" /\ i.sem = s
    BY <1>6 DEF V
  <2> QED
    BY <1>3, <1>4, <2>1
<1>7. ASSUME NEW c, i = Inc(c) PROVE CountUp(c)
  <2>1. i.op = "inc" /\ i.cnt = c
    BY <1>7 DEF Inc
  <2> QED
    BY <1>3, <1>4, <2>1
<1>8. ASSUME NEW c, i = Dec(c) PROVE CountDown(c)
  <2>1. i.op = "dec" /\ i.cnt = c
    BY <1>8 DEF Dec
  <2> QED
    BY <1>3, <1>4, <2>1
<1>9. \A c, s : i = PIfFirst(c, s) => IF count[c] = 1 THEN Down(s) ELSE Still
  BY <1>3, <1>4 DEF PIfFirst
<1>10. \A c, s : i = VIfLast(c, s) => IF count[c] = 0 THEN Up(s) ELSE Still
  BY <1>3, <1>4 DEF VIfLast
<1>11. ASSUME i = Use PROVE Still
  <2>1. i.op = "use"
    BY <1>11 DEF Use
  <2> QED
    BY <1>3, <1>4, <2>1
<1> QED
  BY <1>2, <1>5, <1>6, <1>7, <1>8, <1>9, <1>10, <1>11 DEF Advance, i

(* The steps of reader() in p1219.c, and of writer().                       *)
LEMMA Reader1219Steps ==
  ASSUME program = "p1219", NEW t \in Readers, pc[t] \in 1..9, RWStep(t)
  PROVE  /\ pc' = [pc EXCEPT ![t] = Following(@, 9)] /\ program' = program
         /\ pc[t] \in {1, 6} => Down("mutex")
         /\ pc[t] = 2 => CountUp("read")
         /\ pc[t] = 3 => IF count["read"] = 1 THEN Down("w") ELSE Still
         /\ pc[t] \in {4, 9} => Up("mutex")
         /\ pc[t] = 5 => Still
         /\ pc[t] = 7 => CountDown("read")
         /\ pc[t] = 8 => IF count["read"] = 0 THEN Up("w") ELSE Still
<1>1. t \in RWThreads /\ Code(t) = Reader1219 /\ Len(Reader1219) = 9
  BY DEF RWThreads, Code, ReaderCode, Reader1219
<1>2. pc' = [pc EXCEPT ![t] = Following(@, 9)]
  BY <1>1, Executes, LoopAround
<1>3. /\ pc[t] \in {1, 6} => Instr(t) = P("mutex")
      /\ pc[t] = 2 => Instr(t) = Inc("read")
      /\ pc[t] = 3 => Instr(t) = PIfFirst("read", "w")
      /\ pc[t] \in {4, 9} => Instr(t) = V("mutex")
      /\ pc[t] = 5 => Instr(t) = Use
      /\ pc[t] = 7 => Instr(t) = Dec("read")
      /\ pc[t] = 8 => Instr(t) = VIfLast("read", "w")
  BY <1>1 DEF Instr, Reader1219
<1> QED
  BY <1>1, <1>2, <1>3, Executes, Zenon

(* What each instruction of the writer of p1219 does.                      *)
LEMMA Writer1219Steps ==
  ASSUME program = "p1219", NEW t \in Writers, pc[t] \in 1..5, RWStep(t)
  PROVE  /\ pc' = [pc EXCEPT ![t] = Following(@, 5)] /\ program' = program
         /\ pc[t] = 1 => Down("priority_mtx")
         /\ pc[t] = 2 => Down("w")
         /\ pc[t] = 3 => Still
         /\ pc[t] = 4 => Up("w")
         /\ pc[t] = 5 => Up("priority_mtx")
<1>1. t \in RWThreads /\ Code(t) = Writer1219 /\ Len(Writer1219) = 5
  BY RWAssumption DEF RWThreads, Code, WriterCode, RWAssumption, Writer1219
<1>2. pc' = [pc EXCEPT ![t] = Following(@, 5)]
  BY <1>1, Executes, LoopAround
<1>3. /\ pc[t] = 1 => Instr(t) = P("priority_mtx")
      /\ pc[t] = 2 => Instr(t) = P("w")
      /\ pc[t] = 3 => Instr(t) = Use
      /\ pc[t] = 4 => Instr(t) = V("w")
      /\ pc[t] = 5 => Instr(t) = V("priority_mtx")
  BY <1>1 DEF Instr, Writer1219
<1> QED
  BY <1>1, <1>2, <1>3, Executes, Zenon

(* The steps of reader() in p1221.c, and of writer().                       *)
LEMMA Reader1221Steps ==
  ASSUME program = "p1221", NEW t \in Readers, pc[t] \in 1..11, RWStep(t)
  PROVE  /\ pc' = [pc EXCEPT ![t] = Following(@, 11)] /\ program' = program
         /\ pc[t] = 1 => Down("r")
         /\ pc[t] \in {2, 8} => Down("mutex1")
         /\ pc[t] = 3 => CountUp("read")
         /\ pc[t] = 4 => IF count["read"] = 1 THEN Down("w") ELSE Still
         /\ pc[t] \in {5, 11} => Up("mutex1")
         /\ pc[t] = 6 => Up("r")
         /\ pc[t] = 7 => Still
         /\ pc[t] = 9 => CountDown("read")
         /\ pc[t] = 10 => IF count["read"] = 0 THEN Up("w") ELSE Still
<1>1. t \in RWThreads /\ Code(t) = Reader1221 /\ Len(Reader1221) = 11
  BY DEF RWThreads, Code, ReaderCode, Reader1221
<1>2. pc' = [pc EXCEPT ![t] = Following(@, 11)]
  BY <1>1, Executes, LoopAround
<1>3. /\ pc[t] = 1 => Instr(t) = P("r")
      /\ pc[t] \in {2, 8} => Instr(t) = P("mutex1")
      /\ pc[t] = 3 => Instr(t) = Inc("read")
      /\ pc[t] = 4 => Instr(t) = PIfFirst("read", "w")
      /\ pc[t] \in {5, 11} => Instr(t) = V("mutex1")
      /\ pc[t] = 6 => Instr(t) = V("r")
      /\ pc[t] = 7 => Instr(t) = Use
      /\ pc[t] = 9 => Instr(t) = Dec("read")
      /\ pc[t] = 10 => Instr(t) = VIfLast("read", "w")
  BY <1>1 DEF Instr, Reader1221
<1> QED
  BY <1>1, <1>2, <1>3, Executes, Zenon

(* What each instruction of the writer of p1221 does.                      *)
LEMMA Writer1221Steps ==
  ASSUME program = "p1221", NEW t \in Writers, pc[t] \in 1..11, RWStep(t)
  PROVE  /\ pc' = [pc EXCEPT ![t] = Following(@, 11)] /\ program' = program
         /\ pc[t] \in {1, 8} => Down("mutex2")
         /\ pc[t] = 2 => CountUp("write")
         /\ pc[t] = 3 => IF count["write"] = 1 THEN Down("r") ELSE Still
         /\ pc[t] \in {4, 11} => Up("mutex2")
         /\ pc[t] = 5 => Down("w")
         /\ pc[t] = 6 => Still
         /\ pc[t] = 7 => Up("w")
         /\ pc[t] = 9 => CountDown("write")
         /\ pc[t] = 10 => IF count["write"] = 0 THEN Up("r") ELSE Still
<1>1. t \in RWThreads /\ Code(t) = Writer1221 /\ Len(Writer1221) = 11
  BY RWAssumption DEF RWThreads, Code, WriterCode, RWAssumption, Writer1221
<1>2. pc' = [pc EXCEPT ![t] = Following(@, 11)]
  BY <1>1, Executes, LoopAround
<1>3. /\ pc[t] \in {1, 8} => Instr(t) = P("mutex2")
      /\ pc[t] = 2 => Instr(t) = Inc("write")
      /\ pc[t] = 3 => Instr(t) = PIfFirst("write", "r")
      /\ pc[t] \in {4, 11} => Instr(t) = V("mutex2")
      /\ pc[t] = 5 => Instr(t) = P("w")
      /\ pc[t] = 6 => Instr(t) = Use
      /\ pc[t] = 7 => Instr(t) = V("w")
      /\ pc[t] = 9 => Instr(t) = Dec("write")
      /\ pc[t] = 10 => Instr(t) = VIfLast("write", "r")
  BY <1>1 DEF Instr, Writer1221
<1> QED
  BY <1>1, <1>2, <1>3, Executes, Zenon

(* The steps of reader() in p1220.c.                                        *)
LEMMA Reader1220Steps ==
  ASSUME program = "p1220", NEW t \in Readers, pc[t] \in 1..3, RWStep(t)
  PROVE  /\ pc' = [pc EXCEPT ![t] = Following(@, 3)] /\ program' = program
         /\ pc[t] = 1 => Down("counter")
         /\ pc[t] = 2 => Still
         /\ pc[t] = 3 => Up("counter")
<1>1. t \in RWThreads /\ Code(t) = Reader1220 /\ Len(Reader1220) = 3
  BY DEF RWThreads, Code, ReaderCode, Reader1220
<1>2. pc' = [pc EXCEPT ![t] = Following(@, 3)]
  BY <1>1, Executes, LoopAround
<1>3. /\ pc[t] = 1 => Instr(t) = P("counter")
      /\ pc[t] = 2 => Instr(t) = Use
      /\ pc[t] = 3 => Instr(t) = V("counter")
  BY <1>1 DEF Instr, Reader1220
<1> QED
  BY <1>1, <1>2, <1>3, Executes, Zenon

(* Two sequences joined.                                                   *)
LEMMA Joined ==
  ASSUME NEW S, NEW s1 \in Seq(S), NEW s2 \in Seq(S), NEW m, NEW n, Len(s1) = m, Len(s2) = n
  PROVE  /\ s1 \o s2 \in Seq(S) /\ Len(s1 \o s2) = m + n
         /\ \A i \in 1..(m + n) : (s1 \o s2)[i] = IF i <= m THEN s1[i] ELSE s2[i - m]
  OBVIOUS

(* writer() of p1220.c, written out.                                       *)
LEMMA Writer1220Code ==
  /\ Len(Writer1220) = 2 * N + 3
  /\ Writer1220[1] = P("mutex")
  /\ \A i \in 2..(N + 1) : Writer1220[i] = P("counter")
  /\ Writer1220[N + 2] = Use
  /\ \A i \in (N + 3)..(2 * N + 2) : Writer1220[i] = V("counter")
  /\ Writer1220[2 * N + 3] = V("mutex")
<1> DEFINE S == {P("mutex"), P("counter"), Use, V("counter"), V("mutex")}
           takes == Times(P("counter"))
           gives == Times(V("counter"))
           s1 == <<P("mutex")>>
           s2 == s1 \o takes
           s3 == s2 \o <<Use>>
           s4 == s3 \o gives
           s5 == s4 \o <<V("mutex")>>
<1>0. N \in Nat
  BY RWAssumption DEF RWAssumption
<1>1. /\ takes \in Seq(S) /\ Len(takes) = N /\ \A i \in 1..N : takes[i] = P("counter")
      /\ gives \in Seq(S) /\ Len(gives) = N /\ \A i \in 1..N : gives[i] = V("counter")
  BY <1>0 DEF Times
<1>2. /\ s1 \in Seq(S) /\ Len(s1) = 1 /\ s1[1] = P("mutex")
      /\ <<Use>> \in Seq(S) /\ Len(<<Use>>) = 1 /\ <<Use>>[1] = Use
      /\ <<V("mutex")>> \in Seq(S) /\ Len(<<V("mutex")>>) = 1
      /\ <<V("mutex")>>[1] = V("mutex")
  OBVIOUS
<1> HIDE DEF S, takes, gives, s1
<1>3. /\ s2 \in Seq(S) /\ Len(s2) = 1 + N
      /\ \A i \in 1..(1 + N) : s2[i] = IF i <= 1 THEN s1[i] ELSE takes[i - 1]
  <2>1. \A m, n : Len(s1) = m /\ Len(takes) = n =>
          /\ s2 \in Seq(S) /\ Len(s2) = m + n
          /\ \A i \in 1..(m + n) : s2[i] = IF i <= m THEN s1[i] ELSE takes[i - m]
    BY <1>1, <1>2, Joined
  <2> QED
    BY <1>1, <1>2, <2>1
<1> HIDE DEF s2
<1>4. /\ s3 \in Seq(S) /\ Len(s3) = 1 + N + 1
      /\ \A i \in 1..(1 + N + 1) : s3[i] = IF i <= 1 + N THEN s2[i] ELSE <<Use>>[i - (1 + N)]
  BY <1>2, <1>3, Joined
<1> HIDE DEF s3
<1>5. /\ s4 \in Seq(S) /\ Len(s4) = 1 + N + 1 + N
      /\ \A i \in 1..(1 + N + 1 + N) :
            s4[i] = IF i <= 1 + N + 1 THEN s3[i] ELSE gives[i - (1 + N + 1)]
  BY <1>1, <1>4, Joined
<1> HIDE DEF s4
<1>6. /\ Len(s5) = 1 + N + 1 + N + 1
      /\ \A i \in 1..(1 + N + 1 + N + 1) :
            s5[i] = IF i <= 1 + N + 1 + N THEN s4[i] ELSE <<V("mutex")>>[i - (1 + N + 1 + N)]
  BY <1>2, <1>5, Joined
<1>7. Writer1220 = s5
  BY DEF Writer1220, s1, s2, s3, s4, takes, gives
<1> HIDE DEF s5
<1>8. Len(s5) = 2 * N + 3 /\ s5[1] = P("mutex")
  BY <1>0, <1>2, <1>3, <1>4, <1>5, <1>6
<1>9. ASSUME NEW i \in 2..(N + 1) PROVE s5[i] = P("counter")
  <2>1. i - 1 \in 1..N /\ i \in 1..(1 + N) /\ ~(i <= 1)
    BY <1>0
  <2>2. s5[i] = s4[i] /\ s4[i] = s3[i]
    <3>1. i \in 1..(1 + N + 1 + N + 1) /\ i <= 1 + N + 1 + N
      BY <1>0
    <3>2. i \in 1..(1 + N + 1 + N) /\ i <= 1 + N + 1
      BY <1>0
    <3>3. s5[i] = s4[i]
      BY <1>6, <3>1
    <3>4. s4[i] = s3[i]
      BY <1>5, <3>2
    <3> QED
      BY <3>3, <3>4
  <2>3. s3[i] = s2[i]
    BY <1>0, <1>4, <2>1
  <2>4. s2[i] = takes[i - 1]
    BY <1>3, <2>1
  <2> QED
    BY <1>1, <2>1, <2>2, <2>3, <2>4
<1>10. s5[N + 2] = Use
  <2>1. s5[N + 2] = s4[N + 2] /\ s4[N + 2] = s3[N + 2]
    BY <1>0, <1>5, <1>6
  <2>2. s3[N + 2] = <<Use>>[1]
    BY <1>0, <1>4
  <2> QED
    BY <1>2, <2>1, <2>2
<1>11. ASSUME NEW i \in (N + 3)..(2 * N + 2) PROVE s5[i] = V("counter")
  <2>1. i - (1 + N + 1) \in 1..N /\ i \in 1..(1 + N + 1 + N) /\ ~(i <= 1 + N + 1)
    BY <1>0
  <2>2. s5[i] = s4[i]
    BY <1>0, <1>6, <2>1
  <2>3. s4[i] = gives[i - (1 + N + 1)]
    BY <1>5, <2>1
  <2> QED
    BY <1>1, <2>1, <2>2, <2>3
<1>12. s5[2 * N + 3] = V("mutex")
  BY <1>0, <1>2, <1>6
<1> QED
  BY <1>7, <1>8, <1>9, <1>10, <1>11, <1>12

(* The steps of writer() in p1220.c.                                       *)
LEMMA Writer1220Steps ==
  ASSUME program = "p1220", NEW t \in Writers, pc[t] \in 1..(2 * N + 3), RWStep(t)
  PROVE  /\ pc' = [pc EXCEPT ![t] = Following(@, 2 * N + 3)] /\ program' = program
         /\ pc[t] = 1 => Down("mutex")
         /\ pc[t] \in 2..(N + 1) => Down("counter")
         /\ pc[t] = N + 2 => Still
         /\ pc[t] \in (N + 3)..(2 * N + 2) => Up("counter")
         /\ pc[t] = 2 * N + 3 => Up("mutex")
<1>0. N \in Nat /\ 2 * N + 3 \in Nat
  BY RWAssumption DEF RWAssumption
<1>1. t \in RWThreads /\ Code(t) = Writer1220 /\ Len(Writer1220) = 2 * N + 3
  BY RWAssumption, Writer1220Code DEF RWThreads, Code, WriterCode, RWAssumption
<1>2. pc' = [pc EXCEPT ![t] = Following(@, 2 * N + 3)]
  BY <1>0, <1>1, Executes, LoopAround
<1>3. /\ pc[t] = 1 => Instr(t) = P("mutex")
      /\ pc[t] \in 2..(N + 1) => Instr(t) = P("counter")
      /\ pc[t] = N + 2 => Instr(t) = Use
      /\ pc[t] \in (N + 3)..(2 * N + 2) => Instr(t) = V("counter")
      /\ pc[t] = 2 * N + 3 => Instr(t) = V("mutex")
  BY <1>1, Writer1220Code DEF Instr
<1> QED
  BY <1>1, <1>2, <1>3, Executes, Zenon

-----------------------------------------------------------------------------
(* Where the threads are.                                                  *)
Exclusive(S, L) == \A t, u \in S : pc[t] \in L /\ pc[u] \in L => t = u
Free(S, L) == \A t \in S : pc[t] \notin L

(* The semaphore s is held by one thread of S at a time, between the       *)
(* labels L.                                                               *)
Guards(s, S, L) == Exclusive(S, L) /\ sem[s] = IF Free(S, L) THEN 1 ELSE 0

Unused(ss) == \A s \in ss : sem[s] = Initially(s)

RWType == /\ program \in {"p1219", "p1220", "p1221"}
          /\ sem \in [Sems -> Nat]
          /\ count \in [{"read", "write"} -> Nat]
          /\ pc \in [RWThreads -> Nat]

(* p1219.c: w is held by the one writer that got it, or by the readers     *)
(* together, from the first one's P(w) to the last one's V(w).             *)
Inv1219 ==
  /\ \A t \in Readers : pc[t] \in 1..9
  /\ \A t \in Writers : pc[t] \in 1..5
  /\ Guards("mutex", Readers, {2, 3, 4, 7, 8, 9})
  /\ Guards("priority_mtx", Writers, 2..5)
  /\ count["read"] = Num(Readers, pc, 3..7) /\ count["write"] = 0
  /\ sem["w"] = IF Free(Readers, 4..8) /\ Free(Writers, 3..4) THEN 1 ELSE 0
  /\ Free(Readers, 4..8) \/ Free(Writers, 3..4)
  /\ Unused({"counter", "mutex1", "mutex2", "r"})

(* p1220.c: the N places are free, taken by readers, or collected by the   *)
(* one writer past P(mutex), which has taken Held of them.                 *)
Held(i) == IF i <= N + 2 THEN i - 2 ELSE 2 * N + 3 - i

Inv1220 ==
  /\ \A t \in Readers : pc[t] \in 1..3
  /\ \A t \in Writers : pc[t] \in 1..(2 * N + 3)
  /\ Guards("mutex", Writers, 2..(2 * N + 3))
  /\ Free(Writers, 2..(2 * N + 3)) => sem["counter"] + Num(Readers, pc, 2..3) = N
  /\ \A t \in Writers : pc[t] # 1 =>
       sem["counter"] + Num(Readers, pc, 2..3) + Held(pc[t]) = N
  /\ count["read"] = 0 /\ count["write"] = 0
  /\ Unused({"w", "priority_mtx", "mutex1", "mutex2", "r"})

(* p1221.c: readers share w as in p1219.c, and in the same way writers     *)
(* share r, at which readers queue.                                        *)
Inv1221 ==
  /\ \A t \in RWThreads : pc[t] \in 1..11
  /\ Guards("mutex1", Readers, {3, 4, 5, 9, 10, 11})
  /\ Guards("mutex2", Writers, {2, 3, 4, 9, 10, 11})
  /\ count["read"] = Num(Readers, pc, 4..9)
  /\ count["write"] = Num(Writers, pc, 3..9)
  /\ Exclusive(Readers, 2..6) /\ Exclusive(Writers, 6..7)
  /\ sem["r"] = IF Free(Readers, 2..6) /\ Free(Writers, 4..10) THEN 1 ELSE 0
  /\ Free(Readers, 2..6) \/ Free(Writers, 4..10)
  /\ sem["w"] = IF Free(Readers, 5..10) /\ Free(Writers, 6..7) THEN 1 ELSE 0
  /\ Free(Readers, 5..10) \/ Free(Writers, 6..7)
  /\ Unused({"mutex", "priority_mtx", "counter"})

RWIInv == /\ RWType
          /\ program = "p1219" => Inv1219
          /\ program = "p1220" => Inv1220
          /\ program = "p1221" => Inv1221

(* The semaphores and counters after an instruction, one by one.           *)
LEMMA Effects ==
  ASSUME RWType
  PROVE  /\ \A s \in Sems : Down(s) =>
              /\ sem[s] > 0 /\ sem'[s] = sem[s] - 1 /\ count' = count
              /\ \A x \in Sems : x # s => sem'[x] = sem[x]
         /\ \A s \in Sems : Up(s) =>
              /\ sem'[s] = sem[s] + 1 /\ count' = count
              /\ \A x \in Sems : x # s => sem'[x] = sem[x]
         /\ \A c \in {"read", "write"} : CountUp(c) =>
              /\ count'[c] = count[c] + 1 /\ sem' = sem
              /\ \A x \in {"read", "write"} : x # c => count'[x] = count[x]
         /\ \A c \in {"read", "write"} : CountDown(c) =>
              /\ count'[c] = count[c] - 1 /\ sem' = sem
              /\ \A x \in {"read", "write"} : x # c => count'[x] = count[x]
         /\ Still => sem' = sem /\ count' = count
  BY DEF RWType, Down, Up, CountUp, CountDown, Still

(* One thread goes to another label: how many are where.                   *)
Goes(t, to) == \A u \in RWThreads : pc'[u] = IF u = t THEN to ELSE pc[u]

(* An update of pc, place by place.                                        *)
LEMMA Moved ==
  ASSUME RWType, NEW t \in RWThreads, NEW to, pc' = [pc EXCEPT ![t] = to]
  PROVE  Goes(t, to)
  BY DEF RWType, Goes

(* A reader moves: the counts of readers change by that reader.            *)
LEMMA ReaderMoves ==
  ASSUME NEW t \in Readers, NEW to, Goes(t, to), NEW L
  PROVE  /\ Num(Readers, pc, L) \in Nat
         /\ Num(Readers, pc', L)
              = Num(Readers, pc, L) + (IF to \in L THEN 1 ELSE 0) - (IF pc[t] \in L THEN 1 ELSE 0)
         /\ \A u \in Readers : pc'[u] = IF u = t THEN to ELSE pc[u]
         /\ \A u \in Writers : pc'[u] = pc[u]
<1>1. IsFiniteSet(Readers) /\ t \notin Writers
  BY RWAssumption DEF RWAssumption
<1>2. \A u \in Readers : pc'[u] = IF u = t THEN to ELSE pc[u]
  BY DEF Goes, RWThreads
<1>3. \A u \in Writers : pc'[u] = pc[u]
  BY <1>1 DEF Goes, RWThreads
<1>4. Num(Readers, pc, L) \in Nat
  BY <1>1, PlacedFinite
<1>5. Num(Readers, pc', L)
        = Num(Readers, pc, L) + (IF to \in L THEN 1 ELSE 0) - (IF pc[t] \in L THEN 1 ELSE 0)
  BY <1>1, <1>2, NumMove, ZenonT(30)
<1> QED
  BY <1>2, <1>3, <1>4, <1>5, Zenon

(* A writer moves: the counts of writers change by that writer.            *)
LEMMA WriterMoves ==
  ASSUME NEW t \in Writers, NEW to, Goes(t, to), NEW L
  PROVE  /\ Num(Writers, pc, L) \in Nat
         /\ Num(Writers, pc', L)
              = Num(Writers, pc, L) + (IF to \in L THEN 1 ELSE 0) - (IF pc[t] \in L THEN 1 ELSE 0)
         /\ \A u \in Writers : pc'[u] = IF u = t THEN to ELSE pc[u]
         /\ \A u \in Readers : pc'[u] = pc[u]
<1>1. IsFiniteSet(Writers) /\ t \notin Readers
  BY RWAssumption DEF RWAssumption
<1>2. \A u \in Writers : pc'[u] = IF u = t THEN to ELSE pc[u]
  BY DEF Goes, RWThreads
<1>3. \A u \in Readers : pc'[u] = pc[u]
  BY <1>1 DEF Goes, RWThreads
<1>4. Num(Writers, pc, L) \in Nat
  BY <1>1, PlacedFinite
<1>5. Num(Writers, pc', L)
        = Num(Writers, pc, L) + (IF to \in L THEN 1 ELSE 0) - (IF pc[t] \in L THEN 1 ELSE 0)
  BY <1>1, <1>2, NumMove, ZenonT(30)
<1> QED
  BY <1>2, <1>3, <1>4, <1>5, Zenon

(* Threads that did not move are where they were.                          *)
LEMMA Resting ==
  ASSUME NEW S, \A u \in S : pc'[u] = pc[u], NEW L
  PROVE  /\ Free(S, L)' <=> Free(S, L)
         /\ Exclusive(S, L)' <=> Exclusive(S, L)
         /\ Num(S, pc', L) = Num(S, pc, L)
<1>1. Placed(S, pc', L) = Placed(S, pc, L)
  BY DEF Placed
<1> QED
  BY <1>1 DEF Num, Free, Exclusive

(* p1219.c: the invariant is kept by a reader.                             *)
LEMMA Reader1219Keeps ==
  ASSUME RWType, program = "p1219", Inv1219, NEW t \in Readers, RWStep(t)
  PROVE  Inv1219'
<1> DEFINE to == Following(pc[t], 9)
           C == Num(Readers, pc, 3..7)
<1>1. pc[t] \in 1..9 /\ t \in RWThreads
  BY DEF Inv1219, RWThreads
<1>2. pc' = [pc EXCEPT ![t] = to]
  BY <1>1, Reader1219Steps
<1>3. Goes(t, to)
  BY <1>1, <1>2, Moved
<1> HIDE DEF to
<1>4. /\ \A u \in Readers : pc'[u] = IF u = t THEN to ELSE pc[u]
      /\ \A u \in Writers : pc'[u] = pc[u]
      /\ C \in Nat
      /\ Num(Readers, pc', 3..7)
           = C + (IF to \in 3..7 THEN 1 ELSE 0) - (IF pc[t] \in 3..7 THEN 1 ELSE 0)
  BY <1>3, ReaderMoves
<1>5. /\ \A u \in Readers : pc'[u] \in 1..9
      /\ \A u \in Writers : pc'[u] \in 1..5
  BY <1>1, <1>4 DEF Inv1219, Following, to
<1>6. /\ Free(Writers, 2..5)' <=> Free(Writers, 2..5)
      /\ Free(Writers, 3..4)' <=> Free(Writers, 3..4)
      /\ Exclusive(Writers, 2..5)'
  BY <1>4, Resting DEF Inv1219, Guards
<1>7. count["read"] = C /\ (C # 0 <=> \E u \in Readers : pc[u] \in 3..7)
  BY RWAssumption, NumPositive DEF RWAssumption, Inv1219
<1>8. CASE pc[t] = 1
  BY <1>1, <1>4, <1>5, <1>6, <1>7, <1>8, Reader1219Steps, Effects
     DEF Inv1219, Guards, Exclusive, Free, Unused, Following, Sems, to
<1>9. CASE pc[t] = 2
  BY <1>1, <1>4, <1>5, <1>6, <1>7, <1>9, Reader1219Steps, Effects
     DEF Inv1219, Guards, Exclusive, Free, Unused, Following, Sems, to
<1>10. pc[t] = 3 => (C = 1 <=> \A u \in Readers : pc[u] \in 3..7 => u = t)
  BY RWAssumption, NumAlone DEF RWAssumption
<1>11. CASE pc[t] = 3
  BY <1>10, <1>1, <1>4, <1>5, <1>6, <1>7, <1>11, Reader1219Steps, Effects
     DEF Inv1219, Guards, Exclusive, Free, Unused, Following, Sems, to
<1>12. CASE pc[t] = 4
  BY <1>1, <1>4, <1>5, <1>6, <1>7, <1>12, Reader1219Steps, Effects
     DEF Inv1219, Guards, Exclusive, Free, Unused, Following, Sems, to
<1>13. CASE pc[t] = 5
  BY <1>1, <1>4, <1>5, <1>6, <1>7, <1>13, Reader1219Steps, Effects
     DEF Inv1219, Guards, Exclusive, Free, Unused, Following, Sems, to
<1>14. CASE pc[t] = 6
  BY <1>1, <1>4, <1>5, <1>6, <1>7, <1>14, Reader1219Steps, Effects
     DEF Inv1219, Guards, Exclusive, Free, Unused, Following, Sems, to
<1>15. CASE pc[t] = 7
  BY <1>1, <1>4, <1>5, <1>6, <1>7, <1>15, Reader1219Steps, Effects
     DEF Inv1219, Guards, Exclusive, Free, Unused, Following, Sems, to
<1>16. CASE pc[t] = 8
  BY <1>1, <1>4, <1>5, <1>6, <1>7, <1>16, Reader1219Steps, Effects
     DEF Inv1219, Guards, Exclusive, Free, Unused, Following, Sems, to
<1>17. CASE pc[t] = 9
  BY <1>1, <1>4, <1>5, <1>6, <1>7, <1>17, Reader1219Steps, Effects
     DEF Inv1219, Guards, Exclusive, Free, Unused, Following, Sems, to
<1> QED
  BY <1>1, <1>8, <1>9, <1>11, <1>12, <1>13, <1>14, <1>15, <1>16, <1>17

(* p1219.c: the invariant is kept by a writer.                             *)
LEMMA Writer1219Keeps ==
  ASSUME RWType, program = "p1219", Inv1219, NEW t \in Writers, RWStep(t)
  PROVE  Inv1219'
<1> DEFINE to == Following(pc[t], 5)
<1>1. pc[t] \in 1..5 /\ t \in RWThreads
  BY DEF Inv1219, RWThreads
<1>2. pc' = [pc EXCEPT ![t] = to]
  BY <1>1, Writer1219Steps
<1>3. Goes(t, to)
  BY <1>1, <1>2, Moved
<1> HIDE DEF to
<1>4. /\ \A u \in Writers : pc'[u] = IF u = t THEN to ELSE pc[u]
      /\ \A u \in Readers : pc'[u] = pc[u]
  BY <1>3, WriterMoves
<1>5. /\ \A u \in Readers : pc'[u] \in 1..9
      /\ \A u \in Writers : pc'[u] \in 1..5
  BY <1>1, <1>4 DEF Inv1219, Following, to
<1>6. /\ Free(Readers, {2, 3, 4, 7, 8, 9})' <=> Free(Readers, {2, 3, 4, 7, 8, 9})
      /\ Free(Readers, 4..8)' <=> Free(Readers, 4..8)
      /\ Exclusive(Readers, {2, 3, 4, 7, 8, 9})'
      /\ Num(Readers, pc', 3..7) = Num(Readers, pc, 3..7)
  BY <1>4, Resting DEF Inv1219, Guards
<1>10. CASE pc[t] = 1
  BY <1>1, <1>4, <1>5, <1>6, <1>10, Writer1219Steps, Effects
     DEF Inv1219, Guards, Exclusive, Free, Unused, Following, Sems, to
<1>11. CASE pc[t] = 2
  BY <1>1, <1>4, <1>5, <1>6, <1>11, Writer1219Steps, Effects
     DEF Inv1219, Guards, Exclusive, Free, Unused, Following, Sems, to
<1>12. CASE pc[t] = 3
  BY <1>1, <1>4, <1>5, <1>6, <1>12, Writer1219Steps, Effects
     DEF Inv1219, Guards, Exclusive, Free, Unused, Following, Sems, to
<1>13. CASE pc[t] = 4
  BY <1>1, <1>4, <1>5, <1>6, <1>13, Writer1219Steps, Effects
     DEF Inv1219, Guards, Exclusive, Free, Unused, Following, Sems, to
<1>14. CASE pc[t] = 5
  BY <1>1, <1>4, <1>5, <1>6, <1>14, Writer1219Steps, Effects
     DEF Inv1219, Guards, Exclusive, Free, Unused, Following, Sems, to
<1> QED
  BY <1>1, <1>10, <1>11, <1>12, <1>13, <1>14

(* p1220.c: the invariant is kept by a reader.                             *)
LEMMA Reader1220Keeps ==
  ASSUME RWType, program = "p1220", Inv1220, NEW t \in Readers, RWStep(t)
  PROVE  Inv1220'
<1> DEFINE to == Following(pc[t], 3)
           C == Num(Readers, pc, 2..3)
<1>1. pc[t] \in 1..3 /\ t \in RWThreads
  BY DEF Inv1220, RWThreads
<1>2. pc' = [pc EXCEPT ![t] = to]
  BY <1>1, Reader1220Steps
<1>3. Goes(t, to)
  BY <1>1, <1>2, Moved
<1> HIDE DEF to
<1>4. /\ \A u \in Readers : pc'[u] = IF u = t THEN to ELSE pc[u]
      /\ \A u \in Writers : pc'[u] = pc[u]
      /\ C \in Nat
      /\ Num(Readers, pc', 2..3)
           = C + (IF to \in 2..3 THEN 1 ELSE 0) - (IF pc[t] \in 2..3 THEN 1 ELSE 0)
  BY <1>3, ReaderMoves
<1>5. /\ \A u \in Readers : pc'[u] \in 1..3
      /\ \A u \in Writers : pc'[u] \in 1..(2 * N + 3)
  BY <1>1, <1>4 DEF Inv1220, Following, to
<1>6. /\ Free(Writers, 2..(2 * N + 3))' <=> Free(Writers, 2..(2 * N + 3))
      /\ Exclusive(Writers, 2..(2 * N + 3))'
  BY <1>4, Resting DEF Inv1220, Guards
<1>7. /\ \A s \in Sems \ {"counter"} : sem'[s] = sem[s]
      /\ sem'["counter"] + Num(Readers, pc', 2..3) = sem["counter"] + C
      /\ count' = count
  <2>1. sem["counter"] \in Nat
    BY DEF RWType, Sems
  <2>2. CASE pc[t] = 1
    BY <1>1, <1>4, <2>1, <2>2, Reader1220Steps, Effects DEF Following, Sems, to
  <2>3. CASE pc[t] = 2
    BY <1>1, <1>4, <2>1, <2>3, Reader1220Steps, Effects DEF Following, Sems, to
  <2>4. CASE pc[t] = 3
    BY <1>1, <1>4, <2>1, <2>4, Reader1220Steps, Effects DEF Following, Sems, to
  <2> QED
    BY <1>1, <2>2, <2>3, <2>4
<1>8. /\ Free(Writers, 2..(2 * N + 3))' => sem'["counter"] + Num(Readers, pc', 2..3) = N
      /\ \A u \in Writers : pc'[u] # 1 =>
           sem'["counter"] + Num(Readers, pc', 2..3) + Held(pc'[u]) = N
  BY <1>4, <1>6, <1>7 DEF Inv1220
<1>9. Guards("mutex", Writers, 2..(2 * N + 3))' /\ Unused({"w", "priority_mtx", "mutex1", "mutex2", "r"})'
  BY <1>6, <1>7 DEF Inv1220, Guards, Unused, Sems
<1> QED
  BY <1>5, <1>7, <1>8, <1>9 DEF Inv1220

(* p1220.c: the invariant is kept by a writer.                             *)
LEMMA Writer1220Keeps ==
  ASSUME RWType, program = "p1220", Inv1220, NEW t \in Writers, RWStep(t)
  PROVE  Inv1220'
<1> DEFINE to == Following(pc[t], 2 * N + 3)
           C == Num(Readers, pc, 2..3)
<1>0. N \in Nat /\ N > 0
  BY RWAssumption DEF RWAssumption
<1>1. pc[t] \in 1..(2 * N + 3) /\ t \in RWThreads
  BY DEF Inv1220, RWThreads
<1>2. pc' = [pc EXCEPT ![t] = to]
  BY <1>1, Writer1220Steps
<1>3. Goes(t, to)
  BY <1>1, <1>2, Moved
<1> HIDE DEF to
<1>4. /\ \A u \in Writers : pc'[u] = IF u = t THEN to ELSE pc[u]
      /\ \A u \in Readers : pc'[u] = pc[u]
  BY <1>3, WriterMoves
<1>5. /\ \A u \in Readers : pc'[u] \in 1..3
      /\ \A u \in Writers : pc'[u] \in 1..(2 * N + 3)
  BY <1>0, <1>1, <1>4 DEF Inv1220, Following, to
<1>6. Num(Readers, pc', 2..3) = C /\ C \in Nat
  BY <1>4, Resting, RWAssumption, PlacedFinite DEF RWAssumption
<1>7. pc[t] # 1 => \A u \in Writers : u # t => pc[u] = 1
  BY <1>0, <1>1 DEF Inv1220, Guards, Exclusive
<1>8. sem["counter"] \in Nat
  BY DEF RWType, Sems
<1>10. CASE pc[t] = 1
  <2>1. /\ sem["mutex"] > 0 /\ sem'["mutex"] = sem["mutex"] - 1 /\ count' = count
        /\ \A s \in Sems : s # "mutex" => sem'[s] = sem[s]
    BY <1>1, <1>10, Writer1220Steps, Effects DEF Sems
  <2>2. Free(Writers, 2..(2 * N + 3)) /\ sem["mutex"] = 1
    BY <2>1 DEF Inv1220, Guards
  <2>3. \A u \in Writers : u # t => pc[u] = 1
    BY <1>0, <2>2 DEF Free, Inv1220
  <2>4. to = 2 /\ Held(2) = 0
    BY <1>0, <1>10 DEF to, Following, Held
  <2>5. Guards("mutex", Writers, 2..(2 * N + 3))'
    <3>1. Exclusive(Writers, 2..(2 * N + 3))'
      BY <1>4, <2>3 DEF Exclusive
    <3>2. ~Free(Writers, 2..(2 * N + 3))'
      BY <1>0, <1>4, <2>4 DEF Free
    <3> QED
      BY <2>1, <2>2, <3>1, <3>2 DEF Guards
  <2>6. sem'["counter"] + Num(Readers, pc', 2..3) = N
    BY <1>6, <2>1, <2>2 DEF Inv1220, Sems
  <2>7. \A u \in Writers : pc'[u] # 1 =>
          sem'["counter"] + Num(Readers, pc', 2..3) + Held(pc'[u]) = N
    BY <1>0, <1>4, <1>6, <1>8, <2>1, <2>3, <2>4, <2>6 DEF Sems
  <2>8. Unused({"w", "priority_mtx", "mutex1", "mutex2", "r"})'
    BY <2>1 DEF Inv1220, Unused, Sems
  <2> QED
    BY <1>5, <2>1, <2>5, <2>6, <2>7, <2>8 DEF Inv1220
<1>11. CASE pc[t] \in 2..(2 * N + 2)
  <2>1. to = pc[t] + 1 /\ pc[t] # 1
    BY <1>0, <1>11 DEF to, Following
  <2>2. /\ \A s \in Sems \ {"counter"} : sem'[s] = sem[s]
        /\ sem'["counter"] \in Nat /\ count' = count
        /\ sem'["counter"] + Held(to) = sem["counter"] + Held(pc[t])
    <3>1. CASE pc[t] \in 2..(N + 1)
      BY <1>0, <1>1, <1>8, <2>1, <3>1, Writer1220Steps, Effects DEF Sems, Held
    <3>2. CASE pc[t] = N + 2
      BY <1>0, <1>1, <1>8, <2>1, <3>2, Writer1220Steps, Effects DEF Sems, Held
    <3>3. CASE pc[t] \in (N + 3)..(2 * N + 2)
      BY <1>0, <1>1, <1>8, <2>1, <3>3, Writer1220Steps, Effects DEF Sems, Held
    <3> QED
      BY <1>0, <1>11, <3>1, <3>2, <3>3
  <2>3. sem["counter"] + C + Held(pc[t]) = N /\ Held(pc[t]) \in Int /\ Held(to) \in Int
    <3>1. sem["counter"] + C + Held(pc[t]) = N
      BY <2>1 DEF Inv1220
    <3>2. Held(pc[t]) \in Int /\ Held(to) \in Int
      BY <1>0, <1>11, <2>1 DEF Held
    <3> QED
      BY <3>1, <3>2
  <2>4. \A u \in Writers : pc'[u] # 1 =>
          sem'["counter"] + Num(Readers, pc', 2..3) + Held(pc'[u]) = N
    <3>1. sem'["counter"] + C + Held(to) = N
      BY <1>0, <1>6, <1>8, <2>2, <2>3
    <3> QED
      BY <1>4, <1>6, <1>7, <2>1, <3>1
  <2>5. t \in Writers /\ pc'[t] \in 2..(2 * N + 3) /\ pc[t] \in 2..(2 * N + 3)
    BY <1>0, <1>4, <1>11, <2>1
  <2>6. ~Free(Writers, 2..(2 * N + 3)) /\ ~Free(Writers, 2..(2 * N + 3))'
    BY <2>5 DEF Free
  <2>7. Exclusive(Writers, 2..(2 * N + 3))'
    BY <1>0, <1>4, <1>7, <2>1 DEF Exclusive
  <2>8. Guards("mutex", Writers, 2..(2 * N + 3))'
    BY <2>2, <2>6, <2>7 DEF Inv1220, Guards, Sems
  <2>9. Unused({"w", "priority_mtx", "mutex1", "mutex2", "r"})'
    BY <2>2 DEF Inv1220, Unused, Sems
  <2> QED
    BY <1>5, <2>2, <2>4, <2>6, <2>8, <2>9 DEF Inv1220
<1>12. CASE pc[t] = 2 * N + 3
  <2>1. to = 1 /\ Held(pc[t]) = 0 /\ pc[t] # 1
    BY <1>0, <1>12 DEF to, Following, Held
  <2>2. /\ \A s \in Sems \ {"mutex"} : sem'[s] = sem[s]
        /\ sem'["mutex"] = sem["mutex"] + 1 /\ count' = count
    BY <1>1, <1>12, Writer1220Steps, Effects DEF Sems
  <2>3. \A u \in Writers : pc'[u] = 1
    BY <1>4, <1>7, <2>1
  <2>4. Free(Writers, 2..(2 * N + 3))' /\ Exclusive(Writers, 2..(2 * N + 3))'
    BY <1>0, <2>3 DEF Free, Exclusive
  <2>5. sem["mutex"] = 0
    BY <1>0, <1>12 DEF Inv1220, Guards, Free
  <2>6. Guards("mutex", Writers, 2..(2 * N + 3))'
    BY <2>2, <2>4, <2>5 DEF Guards
  <2>7. sem'["counter"] + Num(Readers, pc', 2..3) = N
    BY <1>0, <1>6, <1>8, <2>1, <2>2 DEF Inv1220, Sems
  <2>8. Unused({"w", "priority_mtx", "mutex1", "mutex2", "r"})'
    BY <2>2 DEF Inv1220, Unused, Sems
  <2> QED
    BY <1>5, <2>2, <2>3, <2>6, <2>7, <2>8 DEF Inv1220
<1> QED
  BY <1>0, <1>1, <1>10, <1>11, <1>12

(* p1221.c: the invariant is kept by a reader.                             *)
LEMMA Reader1221Keeps ==
  ASSUME RWType, program = "p1221", Inv1221, NEW t \in Readers, RWStep(t)
  PROVE  Inv1221'
<1> DEFINE to == Following(pc[t], 11)
           C == Num(Readers, pc, 4..9)
<1>1. pc[t] \in 1..11 /\ t \in RWThreads
  BY DEF Inv1221, RWThreads
<1>2. pc' = [pc EXCEPT ![t] = to]
  BY <1>1, Reader1221Steps
<1>3. Goes(t, to)
  BY <1>1, <1>2, Moved
<1> HIDE DEF to
<1>4. /\ \A u \in Readers : pc'[u] = IF u = t THEN to ELSE pc[u]
      /\ \A u \in Writers : pc'[u] = pc[u]
      /\ C \in Nat
      /\ Num(Readers, pc', 4..9)
           = C + (IF to \in 4..9 THEN 1 ELSE 0) - (IF pc[t] \in 4..9 THEN 1 ELSE 0)
  BY <1>3, ReaderMoves
<1>5. \A u \in RWThreads : pc'[u] \in 1..11
  BY <1>1, <1>3 DEF Inv1221, Following, to, Goes
<1>6. /\ Free(Writers, {2, 3, 4, 9, 10, 11})' <=> Free(Writers, {2, 3, 4, 9, 10, 11})
      /\ Free(Writers, 4..10)' <=> Free(Writers, 4..10)
      /\ Free(Writers, 6..7)' <=> Free(Writers, 6..7)
      /\ Exclusive(Writers, {2, 3, 4, 9, 10, 11})' /\ Exclusive(Writers, 6..7)'
      /\ Num(Writers, pc', 3..9) = Num(Writers, pc, 3..9)
  BY <1>4, Resting DEF Inv1221, Guards
<1>8. count["read"] = C /\ (C # 0 <=> \E u \in Readers : pc[u] \in 4..9)
  BY RWAssumption, NumPositive DEF RWAssumption, Inv1221
<1>9. pc[t] = 4 => (C = 1 <=> \A u \in Readers : pc[u] \in 4..9 => u = t)
  BY RWAssumption, NumAlone DEF RWAssumption
<1>10. \A u \in Readers : pc[u] \in 1..11
  BY DEF Inv1221, RWThreads
<1>11. CASE pc[t] = 1
  BY <1>1, <1>4, <1>5, <1>6, <1>8, <1>10, <1>11, Reader1221Steps, Effects
     DEF Inv1221, Guards, Exclusive, Free, Unused, Following, Sems, to
<1>12. CASE pc[t] = 2
  BY <1>1, <1>4, <1>5, <1>6, <1>8, <1>10, <1>12, Reader1221Steps, Effects
     DEF Inv1221, Guards, Exclusive, Free, Unused, Following, Sems, to
<1>13. CASE pc[t] = 3
  BY <1>1, <1>4, <1>5, <1>6, <1>8, <1>10, <1>13, Reader1221Steps, Effects
     DEF Inv1221, Guards, Exclusive, Free, Unused, Following, Sems, to
<1>14. CASE pc[t] = 4
  BY <1>9, <1>1, <1>4, <1>5, <1>6, <1>8, <1>10, <1>14, Reader1221Steps, Effects
     DEF Inv1221, Guards, Exclusive, Free, Unused, Following, Sems, to
<1>15. CASE pc[t] = 5
  BY <1>1, <1>4, <1>5, <1>6, <1>8, <1>10, <1>15, Reader1221Steps, Effects
     DEF Inv1221, Guards, Exclusive, Free, Unused, Following, Sems, to
<1>16. CASE pc[t] = 6
  BY <1>1, <1>4, <1>5, <1>6, <1>8, <1>10, <1>16, Reader1221Steps, Effects
     DEF Inv1221, Guards, Exclusive, Free, Unused, Following, Sems, to
<1>17. CASE pc[t] = 7
  BY <1>1, <1>4, <1>5, <1>6, <1>8, <1>10, <1>17, Reader1221Steps, Effects
     DEF Inv1221, Guards, Exclusive, Free, Unused, Following, Sems, to
<1>18. CASE pc[t] = 8
  BY <1>1, <1>4, <1>5, <1>6, <1>8, <1>10, <1>18, Reader1221Steps, Effects
     DEF Inv1221, Guards, Exclusive, Free, Unused, Following, Sems, to
<1>19. CASE pc[t] = 9
  BY <1>1, <1>4, <1>5, <1>6, <1>8, <1>10, <1>19, Reader1221Steps, Effects
     DEF Inv1221, Guards, Exclusive, Free, Unused, Following, Sems, to
<1>20. CASE pc[t] = 10
  BY <1>1, <1>4, <1>5, <1>6, <1>8, <1>10, <1>20, Reader1221Steps, Effects
     DEF Inv1221, Guards, Exclusive, Free, Unused, Following, Sems, to
<1>21. CASE pc[t] = 11
  BY <1>1, <1>4, <1>5, <1>6, <1>8, <1>10, <1>21, Reader1221Steps, Effects
     DEF Inv1221, Guards, Exclusive, Free, Unused, Following, Sems, to
<1> QED
  BY <1>1, <1>11, <1>12, <1>13, <1>14, <1>15, <1>16, <1>17, <1>18, <1>19, <1>20, <1>21

(* p1221.c: the invariant is kept by a writer.                             *)
LEMMA Writer1221Keeps ==
  ASSUME RWType, program = "p1221", Inv1221, NEW t \in Writers, RWStep(t)
  PROVE  Inv1221'
<1> DEFINE to == Following(pc[t], 11)
           C == Num(Writers, pc, 3..9)
<1>1. pc[t] \in 1..11 /\ t \in RWThreads
  BY DEF Inv1221, RWThreads
<1>2. pc' = [pc EXCEPT ![t] = to]
  BY <1>1, Writer1221Steps
<1>3. Goes(t, to)
  BY <1>1, <1>2, Moved
<1> HIDE DEF to
<1>4. /\ \A u \in Writers : pc'[u] = IF u = t THEN to ELSE pc[u]
      /\ \A u \in Readers : pc'[u] = pc[u]
      /\ C \in Nat
      /\ Num(Writers, pc', 3..9)
           = C + (IF to \in 3..9 THEN 1 ELSE 0) - (IF pc[t] \in 3..9 THEN 1 ELSE 0)
  BY <1>3, WriterMoves
<1>5. \A u \in RWThreads : pc'[u] \in 1..11
  BY <1>1, <1>3 DEF Inv1221, Following, to, Goes
<1>6. /\ Free(Readers, {3, 4, 5, 9, 10, 11})' <=> Free(Readers, {3, 4, 5, 9, 10, 11})
      /\ Free(Readers, 2..6)' <=> Free(Readers, 2..6)
      /\ Free(Readers, 5..10)' <=> Free(Readers, 5..10)
      /\ Exclusive(Readers, {3, 4, 5, 9, 10, 11})' /\ Exclusive(Readers, 2..6)'
      /\ Num(Readers, pc', 4..9) = Num(Readers, pc, 4..9)
  BY <1>4, Resting DEF Inv1221, Guards
<1>8. count["write"] = C /\ (C # 0 <=> \E u \in Writers : pc[u] \in 3..9)
  BY RWAssumption, NumPositive DEF RWAssumption, Inv1221
<1>9. pc[t] = 3 => (C = 1 <=> \A u \in Writers : pc[u] \in 3..9 => u = t)
  BY RWAssumption, NumAlone DEF RWAssumption
<1>10. \A u \in Writers : pc[u] \in 1..11
  BY DEF Inv1221, RWThreads
<1>11. CASE pc[t] = 1
  BY <1>1, <1>4, <1>5, <1>6, <1>8, <1>10, <1>11, Writer1221Steps, Effects
     DEF Inv1221, Guards, Exclusive, Free, Unused, Following, Sems, to
<1>12. CASE pc[t] = 2
  BY <1>1, <1>4, <1>5, <1>6, <1>8, <1>10, <1>12, Writer1221Steps, Effects
     DEF Inv1221, Guards, Exclusive, Free, Unused, Following, Sems, to
<1>13. CASE pc[t] = 3
  BY <1>9, <1>1, <1>4, <1>5, <1>6, <1>8, <1>10, <1>13, Writer1221Steps, Effects
     DEF Inv1221, Guards, Exclusive, Free, Unused, Following, Sems, to
<1>14. CASE pc[t] = 4
  BY <1>1, <1>4, <1>5, <1>6, <1>8, <1>10, <1>14, Writer1221Steps, Effects
     DEF Inv1221, Guards, Exclusive, Free, Unused, Following, Sems, to
<1>15. CASE pc[t] = 5
  BY <1>1, <1>4, <1>5, <1>6, <1>8, <1>10, <1>15, Writer1221Steps, Effects
     DEF Inv1221, Guards, Exclusive, Free, Unused, Following, Sems, to
<1>16. CASE pc[t] = 6
  BY <1>1, <1>4, <1>5, <1>6, <1>8, <1>10, <1>16, Writer1221Steps, Effects
     DEF Inv1221, Guards, Exclusive, Free, Unused, Following, Sems, to
<1>17. CASE pc[t] = 7
  BY <1>1, <1>4, <1>5, <1>6, <1>8, <1>10, <1>17, Writer1221Steps, Effects
     DEF Inv1221, Guards, Exclusive, Free, Unused, Following, Sems, to
<1>18. CASE pc[t] = 8
  BY <1>1, <1>4, <1>5, <1>6, <1>8, <1>10, <1>18, Writer1221Steps, Effects
     DEF Inv1221, Guards, Exclusive, Free, Unused, Following, Sems, to
<1>19. CASE pc[t] = 9
  BY <1>1, <1>4, <1>5, <1>6, <1>8, <1>10, <1>19, Writer1221Steps, Effects
     DEF Inv1221, Guards, Exclusive, Free, Unused, Following, Sems, to
<1>20. CASE pc[t] = 10
  BY <1>1, <1>4, <1>5, <1>6, <1>8, <1>10, <1>20, Writer1221Steps, Effects
     DEF Inv1221, Guards, Exclusive, Free, Unused, Following, Sems, to
<1>21. CASE pc[t] = 11
  BY <1>1, <1>4, <1>5, <1>6, <1>8, <1>10, <1>21, Writer1221Steps, Effects
     DEF Inv1221, Guards, Exclusive, Free, Unused, Following, Sems, to
<1> QED
  BY <1>1, <1>11, <1>12, <1>13, <1>14, <1>15, <1>16, <1>17, <1>18, <1>19, <1>20, <1>21

(* The types are kept when no counter that is 0 is decremented.            *)
Typed == /\ program' = program /\ pc' \in [RWThreads -> Nat]
         /\ \/ \E s \in Sems : Down(s) \/ Up(s)
            \/ \E c \in {"read", "write"} : CountUp(c) \/ (count[c] > 0 /\ CountDown(c))
            \/ Still

(* The types after a step that keeps each part in its type.                *)
LEMMA TypesKept ==
  ASSUME RWType, Typed
  PROVE  RWType'
<1>1. ASSUME NEW s \in Sems, Down(s) PROVE sem' \in [Sems -> Nat] /\ count' = count
  BY <1>1 DEF RWType, Down
<1>2. ASSUME NEW s \in Sems, Up(s) PROVE sem' \in [Sems -> Nat] /\ count' = count
  BY <1>2 DEF RWType, Up
<1>3. ASSUME NEW c \in {"read", "write"}, CountUp(c)
      PROVE  sem' = sem /\ count' \in [{"read", "write"} -> Nat]
  BY <1>3 DEF RWType, CountUp
<1>4. ASSUME NEW c \in {"read", "write"}, count[c] > 0, CountDown(c)
      PROVE  sem' = sem /\ count' \in [{"read", "write"} -> Nat]
  BY <1>4 DEF RWType, CountDown
<1> QED
  BY <1>1, <1>2, <1>3, <1>4 DEF Typed, RWType, Still

(* Every instruction keeps pc, semaphores and counters in their types.     *)
LEMMA StepTyped ==
  ASSUME RWIInv, NEW t \in RWThreads, RWStep(t)
  PROVE  Typed
<1>1. RWType /\ program \in {"p1219", "p1220", "p1221"}
  BY DEF RWIInv, RWType
<1>2. IsFiniteSet(Readers) /\ IsFiniteSet(Writers) /\ N \in Nat
  BY RWAssumption DEF RWAssumption
<1>3. ASSUME NEW n \in Nat, pc[t] \in 1..n, pc' = [pc EXCEPT ![t] = Following(@, n)]
      PROVE  pc' \in [RWThreads -> Nat]
  BY <1>1, <1>3 DEF RWType, Following
<1>4. CASE program = "p1219" /\ t \in Readers
  <2>1. Inv1219 /\ pc[t] \in 1..9
    BY <1>4 DEF RWIInv, Inv1219
  <2>2. pc[t] = 7 => count["read"] > 0
    <3>1. count["read"] = Num(Readers, pc, 3..7)
      BY <2>1 DEF Inv1219
    <3>2. pc[t] = 7 => pc[t] \in 3..7
      OBVIOUS
    <3> QED
      BY <1>1, <1>2, <1>4, <3>1, <3>2, NumPositive DEF RWType
  <2>3. pc' = [pc EXCEPT ![t] = Following(@, 9)] /\ program' = program
    BY <1>4, <2>1, Reader1219Steps
  <2>4. pc' \in [RWThreads -> Nat]
    BY <1>3, <2>1, <2>3
  <2>5. \/ \E s \in Sems : Down(s) \/ Up(s)
        \/ \E c \in {"read", "write"} : CountUp(c) \/ (count[c] > 0 /\ CountDown(c))
        \/ Still
    BY <1>4, <2>1, <2>2, Reader1219Steps DEF Sems
  <2> QED
    BY <2>3, <2>4, <2>5 DEF Typed
<1>5. CASE program = "p1219" /\ t \in Writers
  <2>1. Inv1219 /\ pc[t] \in 1..5
    BY <1>5 DEF RWIInv, Inv1219
  <2>3. pc' = [pc EXCEPT ![t] = Following(@, 5)] /\ program' = program
    BY <1>5, <2>1, Writer1219Steps
  <2>4. pc' \in [RWThreads -> Nat]
    BY <1>3, <2>1, <2>3
  <2>5. (\E s \in Sems : Down(s) \/ Up(s)) \/ Still
    BY <1>5, <2>1, Writer1219Steps DEF Sems
  <2> QED
    BY <2>3, <2>4, <2>5 DEF Typed
<1>6. CASE program = "p1220" /\ t \in Readers
  <2>1. Inv1220 /\ pc[t] \in 1..3
    BY <1>6 DEF RWIInv, Inv1220
  <2>3. pc' = [pc EXCEPT ![t] = Following(@, 3)] /\ program' = program
    BY <1>6, <2>1, Reader1220Steps
  <2>4. pc' \in [RWThreads -> Nat]
    BY <1>3, <2>1, <2>3
  <2>5. (\E s \in Sems : Down(s) \/ Up(s)) \/ Still
    BY <1>6, <2>1, Reader1220Steps DEF Sems
  <2> QED
    BY <2>3, <2>4, <2>5 DEF Typed
<1>7. CASE program = "p1220" /\ t \in Writers
  <2>1. Inv1220 /\ pc[t] \in 1..(2 * N + 3) /\ 2 * N + 3 \in Nat
    BY <1>2, <1>7 DEF RWIInv, Inv1220
  <2>3. pc' = [pc EXCEPT ![t] = Following(@, 2 * N + 3)] /\ program' = program
    BY <1>7, <2>1, Writer1220Steps
  <2>4. pc' \in [RWThreads -> Nat]
    BY <1>3, <2>1, <2>3
  <2>5. \/ pc[t] = 1 \/ pc[t] \in 2..(N + 1) \/ pc[t] = N + 2
        \/ pc[t] \in (N + 3)..(2 * N + 2) \/ pc[t] = 2 * N + 3
    BY <1>2, <2>1
  <2>6. (\E s \in Sems : Down(s) \/ Up(s)) \/ Still
    BY <1>7, <2>1, <2>5, Writer1220Steps DEF Sems
  <2> QED
    BY <2>3, <2>4, <2>6 DEF Typed
<1>8. CASE program = "p1221" /\ t \in Readers
  <2>1. Inv1221 /\ pc[t] \in 1..11
    BY <1>8 DEF RWIInv, Inv1221
  <2>2. pc[t] = 9 => count["read"] > 0
    <3>1. count["read"] = Num(Readers, pc, 4..9)
      BY <2>1 DEF Inv1221
    <3>2. pc[t] = 9 => pc[t] \in 4..9
      OBVIOUS
    <3> QED
      BY <1>1, <1>2, <1>8, <3>1, <3>2, NumPositive DEF RWType
  <2>3. pc' = [pc EXCEPT ![t] = Following(@, 11)] /\ program' = program
    BY <1>8, <2>1, Reader1221Steps
  <2>4. pc' \in [RWThreads -> Nat]
    BY <1>3, <2>1, <2>3
  <2>5. \/ \E s \in Sems : Down(s) \/ Up(s)
        \/ \E c \in {"read", "write"} : CountUp(c) \/ (count[c] > 0 /\ CountDown(c))
        \/ Still
    BY <1>8, <2>1, <2>2, Reader1221Steps DEF Sems
  <2> QED
    BY <2>3, <2>4, <2>5 DEF Typed
<1>9. CASE program = "p1221" /\ t \in Writers
  <2>1. Inv1221 /\ pc[t] \in 1..11
    BY <1>9 DEF RWIInv, Inv1221
  <2>2. pc[t] = 9 => count["write"] > 0
    <3>1. count["write"] = Num(Writers, pc, 3..9)
      BY <2>1 DEF Inv1221
    <3>2. pc[t] = 9 => pc[t] \in 3..9
      OBVIOUS
    <3> QED
      BY <1>1, <1>2, <1>9, <3>1, <3>2, NumPositive DEF RWType
  <2>3. pc' = [pc EXCEPT ![t] = Following(@, 11)] /\ program' = program
    BY <1>9, <2>1, Writer1221Steps
  <2>4. pc' \in [RWThreads -> Nat]
    BY <1>3, <2>1, <2>3
  <2>5. \/ \E s \in Sems : Down(s) \/ Up(s)
        \/ \E c \in {"read", "write"} : CountUp(c) \/ (count[c] > 0 /\ CountDown(c))
        \/ Still
    BY <1>9, <2>1, <2>2, Writer1221Steps DEF Sems
  <2> QED
    BY <2>3, <2>4, <2>5 DEF Typed
<1> QED
  BY <1>1, <1>4, <1>5, <1>6, <1>7, <1>8, <1>9 DEF RWThreads

(* The three locks keep their invariant.                                   *)
LEMMA RWKept ==
  ASSUME RWIInv, NEW t \in RWThreads, RWStep(t)
  PROVE  RWIInv'
<1>1. Typed /\ RWType'
  BY StepTyped, TypesKept DEF RWIInv
<1>2. program' = program /\ program \in {"p1219", "p1220", "p1221"} /\ RWType
  BY <1>1 DEF Typed, RWIInv, RWType
<1>3. program = "p1219" => Inv1219'
  BY <1>2, Reader1219Keeps, Writer1219Keeps DEF RWIInv, RWThreads
<1>4. program = "p1220" => Inv1220'
  BY <1>2, Reader1220Keeps, Writer1220Keeps DEF RWIInv, RWThreads
<1>5. program = "p1221" => Inv1221'
  BY <1>2, Reader1221Keeps, Writer1221Keeps DEF RWIInv, RWThreads
<1> QED
  BY <1>1, <1>2, <1>3, <1>4, <1>5 DEF RWIInv

(* The three programs start in the invariant.                              *)
LEMMA RWStarts ==
  ASSUME RWInit
  PROVE  RWIInv
<1>1. IsFiniteSet(Readers) /\ IsFiniteSet(Writers) /\ N \in Nat /\ N > 0
  BY RWAssumption DEF RWAssumption
<1>2. /\ \A t \in Readers : pc[t] = 1
      /\ \A t \in Writers : pc[t] = 1
      /\ \A s \in Sems : sem[s] = Initially(s)
      /\ count["read"] = 0 /\ count["write"] = 0
  BY DEF RWInit, RWThreads
<1>3. RWType
  BY <1>1 DEF RWInit, RWType, Initially
<1>4. ASSUME NEW S \in {Readers, Writers}, NEW L, 1 \notin L
      PROVE  Exclusive(S, L) /\ Free(S, L) /\ Num(S, pc, L) = 0
  <2>1. IsFiniteSet(S) /\ \A t \in S : pc[t] = 1
    BY <1>1, <1>2
  <2>2. Num(S, pc, L) = 0
    BY <1>4, <2>1, NumPositive
  <2> QED
    BY <1>4, <2>1, <2>2 DEF Exclusive, Free
<1>5. Inv1219
  BY <1>1, <1>2, <1>4 DEF Inv1219, Guards, Unused, Sems, Initially
<1>6. Inv1221
  BY <1>1, <1>2, <1>4 DEF Inv1221, Guards, Unused, Sems, Initially, RWThreads
<1>7. Inv1220
  <2>1. Guards("mutex", Writers, 2..(2 * N + 3))
    BY <1>1, <1>2, <1>4 DEF Guards, Sems, Initially
  <2>2. Num(Readers, pc, 2..3) = 0
    BY <1>1, <1>4
  <2> QED
    BY <1>1, <1>2, <2>1, <2>2 DEF Inv1220, Unused, Sems, Initially
<1> QED
  BY <1>3, <1>5, <1>6, <1>7 DEF RWIInv

(* Whatever the order in which the threads run, their semaphores and       *)
(* counters say where they are.                                            *)
THEOREM RWIInvHolds == RWSpec => []RWIInv
<1>1. RWInit => RWIInv
  BY RWStarts
<1>2. RWIInv /\ [RWNext]_rwvars => RWIInv'
  <2> SUFFICES ASSUME RWIInv, [RWNext]_rwvars PROVE RWIInv'
    OBVIOUS
  <2>1. CASE RWNext
    BY <2>1, RWKept DEF RWNext
  <2>2. CASE UNCHANGED rwvars
    BY <2>2 DEF rwvars, RWIInv, RWType, Inv1219, Inv1220, Inv1221, Guards, Exclusive,
                Free, Unused, Num, Placed, Held
  <2> QED
    BY <2>1, <2>2
<1> QED
  BY <1>1, <1>2, PTL DEF RWSpec

-----------------------------------------------------------------------------
(* What each kind of instruction is.                                       *)
LEMMA Kinds ==
  /\ \A s : P(s).op = "P" /\ P(s).sem = s /\ V(s).op = "V"
  /\ \A c : Inc(c).op = "inc" /\ Dec(c).op = "dec"
  /\ \A c, s : PIfFirst(c, s).op = "Pfirst" /\ PIfFirst(c, s).sem = s
  /\ \A c, s : VIfLast(c, s).op = "Vlast"
  /\ Use.op = "use"
  BY DEF P, V, Inc, Dec, PIfFirst, VIfLast, Use

(* The label at which a thread of each program is inside.                  *)
InsideAt(t) ==
  CASE program = "p1219" -> IF t \in Readers THEN 5 ELSE 3
    [] program = "p1220" -> IF t \in Readers THEN 2 ELSE N + 2
    [] program = "p1221" -> IF t \in Readers THEN 7 ELSE 6

(* A thread is inside exactly when it is at the instruction that uses the  *)
(* data.                                                                   *)
LEMMA Entered ==
  ASSUME RWIInv, NEW t \in RWThreads
  PROVE  Inside(t) <=> pc[t] = InsideAt(t)
<1>1. N \in Nat /\ N > 0 /\ program \in {"p1219", "p1220", "p1221"}
  BY RWAssumption DEF RWAssumption, RWIInv, RWType
<1>2. CASE program = "p1219"
  <2>1. t \in Readers => pc[t] \in 1..9 /\ Code(t) = Reader1219
    BY <1>2 DEF RWIInv, Inv1219, Code, ReaderCode
  <2>2. t \notin Readers => pc[t] \in 1..5 /\ Code(t) = Writer1219
    BY <1>2 DEF RWIInv, Inv1219, Code, WriterCode, RWThreads
  <2>3. t \in Readers => (Inside(t) <=> pc[t] = 5)
    BY <2>1, Kinds DEF Inside, Instr, Reader1219
  <2>4. t \notin Readers => (Inside(t) <=> pc[t] = 3)
    BY <2>2, Kinds DEF Inside, Instr, Writer1219
  <2> QED
    BY <1>2, <2>3, <2>4 DEF InsideAt
<1>3. CASE program = "p1220"
  <2>1. t \in Readers => pc[t] \in 1..3 /\ Code(t) = Reader1220
    BY <1>3 DEF RWIInv, Inv1220, Code, ReaderCode
  <2>2. t \notin Readers => pc[t] \in 1..(2 * N + 3) /\ Code(t) = Writer1220
    BY <1>3 DEF RWIInv, Inv1220, Code, WriterCode, RWThreads
  <2>3. t \in Readers => (Inside(t) <=> pc[t] = 2)
    BY <2>1, Kinds DEF Inside, Instr, Reader1220
  <2>4. t \notin Readers => (Inside(t) <=> pc[t] = N + 2)
    <3>1. P("mutex").op # "use" /\ P("counter").op # "use" /\ Use.op = "use"
          /\ V("mutex").op # "use" /\ V("counter").op # "use"
      BY DEF P, V, Use
    <3>2. t \notin Readers => \/ pc[t] = 1 \/ pc[t] \in 2..(N + 1) \/ pc[t] = N + 2
                              \/ pc[t] \in (N + 3)..(2 * N + 2) \/ pc[t] = 2 * N + 3
      BY <1>1, <2>2
    <3>3. Inside(t) <=> Code(t)[pc[t]].op = "use"
      BY DEF Inside, Instr
    <3> QED
      BY <1>1, <2>2, <3>1, <3>2, <3>3, Writer1220Code
  <2> QED
    BY <1>3, <2>3, <2>4 DEF InsideAt
<1>4. CASE program = "p1221"
  <2>1. pc[t] \in 1..11 /\ (t \in Readers => Code(t) = Reader1221)
        /\ (t \notin Readers => Code(t) = Writer1221)
    BY <1>4 DEF RWIInv, Inv1221, Code, ReaderCode, WriterCode
  <2>3. t \in Readers => (Inside(t) <=> pc[t] = 7)
    BY <2>1, Kinds DEF Inside, Instr, Reader1221
  <2>4. t \notin Readers => (Inside(t) <=> pc[t] = 6)
    BY <2>1, Kinds DEF Inside, Instr, Writer1221
  <2> QED
    BY <1>4, <2>3, <2>4 DEF InsideAt
<1> QED
  BY <1>1, <1>2, <1>3, <1>4

(* Where a writer waits for w, and a reader of p1221.c for r.              *)
LEMMA WaitsAt ==
  ASSUME RWIInv
  PROVE  /\ \A t \in Writers : program = "p1219" /\ WaitsFor(t, "w") => pc[t] = 2
         /\ \A t \in Writers : program = "p1221" /\ WaitsFor(t, "w") => pc[t] = 5
         /\ \A t \in Readers : program = "p1221" /\ WaitsFor(t, "r") => pc[t] = 1
<1>1. ASSUME NEW t \in Writers, program = "p1219", WaitsFor(t, "w") PROVE pc[t] = 2
  <2>1. pc[t] \in 1..5 /\ Code(t) = Writer1219
    BY <1>1, RWAssumption DEF RWIInv, Inv1219, Code, WriterCode, RWAssumption
  <2> QED
    BY <1>1, <2>1, Kinds DEF WaitsFor, Takes, Instr, Writer1219
<1>2. ASSUME NEW t \in Writers, program = "p1221", WaitsFor(t, "w") PROVE pc[t] = 5
  <2>1. pc[t] \in 1..11 /\ Code(t) = Writer1221
    BY <1>2, RWAssumption DEF RWIInv, Inv1221, Code, WriterCode, RWAssumption, RWThreads
  <2> QED
    BY <1>2, <2>1, Kinds DEF WaitsFor, Takes, Instr, Writer1221
<1>3. ASSUME NEW t \in Readers, program = "p1221", WaitsFor(t, "r") PROVE pc[t] = 1
  <2>1. pc[t] \in 1..11 /\ Code(t) = Reader1221
    BY <1>3 DEF RWIInv, Inv1221, Code, ReaderCode, RWThreads
  <2> QED
    BY <1>3, <2>1, Kinds DEF WaitsFor, Takes, Instr, Reader1221
<1> QED
  BY <1>1, <1>2, <1>3

(* A part of the threads is no more than all of them.                      *)
LEMMA NumBounds ==
  ASSUME NEW S \in {Readers, Writers}, NEW L
  PROVE  Num(S, pc, L) \in 0..Cardinality(RWThreads)
<1>1. IsFiniteSet(RWThreads) /\ IsFiniteSet(S)
  BY RWAssumption, FS_Union DEF RWAssumption, RWThreads
<1>2. Placed(S, pc, L) \subseteq RWThreads
  BY DEF Placed, RWThreads
<1> QED
  BY <1>1, <1>2, PlacedFinite, FS_Subset, FS_CardinalityType DEF Num

(* The invariant holds the types the runs check.                           *)
LEMMA TypeFollows ==
  ASSUME RWIInv
  PROVE  RWTypeOK
<1>1. N \in Nat /\ N > 0 /\ program \in {"p1219", "p1220", "p1221"} /\ RWType
  BY RWAssumption DEF RWAssumption, RWIInv, RWType
<1>2. IsFiniteSet(Readers) /\ IsFiniteSet(Writers) /\ Readers \cap Writers = {}
  BY RWAssumption DEF RWAssumption
<1>3. /\ Num(Readers, pc, 3..7) \in 0..Cardinality(RWThreads)
      /\ Num(Readers, pc, 4..9) \in 0..Cardinality(RWThreads)
      /\ Num(Writers, pc, 3..9) \in 0..Cardinality(RWThreads)
      /\ 0 \in 0..Cardinality(RWThreads)
  <2>1. Cardinality(RWThreads) \in Nat
    BY <1>2, FS_Union, FS_CardinalityType DEF RWThreads
  <2> QED
    BY <2>1, NumBounds
<1>4. CASE program = "p1219"
  <2>1. Inv1219
    BY <1>4 DEF RWIInv
  <2>2. \A s \in Sems : sem[s] \in 0..N
    BY <1>1, <2>1 DEF Inv1219, Guards, Unused, Sems, Initially
  <2>3. count["read"] \in 0..Cardinality(RWThreads) /\ count["write"] \in 0..Cardinality(RWThreads)
    BY <1>3, <2>1 DEF Inv1219
  <2>4. \A t \in RWThreads : pc[t] \in DOMAIN Code(t)
    BY <1>2, <1>4, <2>1 DEF Inv1219, RWThreads, Code, ReaderCode, WriterCode, Reader1219, Writer1219
  <2> QED
    BY <1>1, <2>2, <2>3, <2>4 DEF RWTypeOK, RWType
<1>5. CASE program = "p1220"
  <2>1. Inv1220
    BY <1>5 DEF RWIInv
  <2>2. sem["counter"] \in 0..N
    <3>1. Num(Readers, pc, 2..3) \in Nat /\ sem["counter"] \in Nat
      BY <1>1, <1>2, PlacedFinite DEF RWType, Sems
    <3>2. CASE Free(Writers, 2..(2 * N + 3))
      BY <1>1, <2>1, <3>1, <3>2 DEF Inv1220
    <3>3. ASSUME NEW t \in Writers, pc[t] \in 2..(2 * N + 3) PROVE sem["counter"] \in 0..N
      <4>1. sem["counter"] + Num(Readers, pc, 2..3) + Held(pc[t]) = N
        BY <1>1, <2>1, <3>3 DEF Inv1220
      <4>2. Held(pc[t]) \in Nat
        BY <1>1, <3>3 DEF Held
      <4> QED
        BY <1>1, <3>1, <4>1, <4>2
    <3> QED
      BY <3>2, <3>3 DEF Free
  <2>3. \A s \in Sems : sem[s] \in 0..N
    BY <1>1, <2>1, <2>2 DEF Inv1220, Guards, Unused, Sems, Initially
  <2>4. \A t \in RWThreads : pc[t] \in DOMAIN Code(t)
    <3>1. \A t \in Readers : pc[t] \in DOMAIN Code(t)
      BY <1>5, <2>1 DEF Inv1220, Code, ReaderCode, Reader1220
    <3>2. \A t \in Writers : pc[t] \in 1..Len(Writer1220) /\ Code(t) = Writer1220
      BY <1>2, <1>5, <2>1, Writer1220Code DEF Inv1220, Code, WriterCode
    <3>3. DOMAIN Writer1220 = 1..Len(Writer1220)
      BY <1>1 DEF Writer1220, Times
    <3> QED
      BY <3>1, <3>2, <3>3 DEF RWThreads
  <2>5. count["read"] = 0 /\ count["write"] = 0
    BY <2>1 DEF Inv1220
  <2> QED
    BY <1>1, <1>3, <2>3, <2>4, <2>5 DEF RWTypeOK, RWType
<1>6. CASE program = "p1221"
  <2>1. Inv1221
    BY <1>6 DEF RWIInv
  <2>2. \A s \in Sems : sem[s] \in 0..N
    BY <1>1, <2>1 DEF Inv1221, Guards, Unused, Sems, Initially
  <2>3. count["read"] \in 0..Cardinality(RWThreads) /\ count["write"] \in 0..Cardinality(RWThreads)
    BY <1>3, <2>1 DEF Inv1221
  <2>4. \A t \in RWThreads : pc[t] \in DOMAIN Code(t)
    BY <1>2, <1>6, <2>1 DEF Inv1221, RWThreads, Code, ReaderCode, WriterCode, Reader1221, Writer1221
  <2> QED
    BY <1>1, <2>2, <2>3, <2>4 DEF RWTypeOK, RWType
<1> QED
  BY <1>1, <1>4, <1>5, <1>6

(* p1220.c: no more readers are inside than there are places.              *)
LEMMA PlacesFollow ==
  ASSUME RWIInv
  PROVE  ReadersBounded
<1> SUFFICES ASSUME program = "p1220" PROVE Cardinality({t \in Readers : Inside(t)}) <= N
  BY DEF ReadersBounded
<1>1. N \in Nat /\ IsFiniteSet(Readers) /\ Inv1220 /\ RWType
  BY RWAssumption DEF RWAssumption, RWIInv
<1>2. Num(Readers, pc, 2..3) \in Nat /\ sem["counter"] \in Nat
  BY <1>1, PlacedFinite DEF RWType, Sems
<1>3. Num(Readers, pc, 2..3) <= N
  <2>1. CASE Free(Writers, 2..(2 * N + 3))
    BY <1>1, <1>2, <2>1 DEF Inv1220
  <2>2. ASSUME NEW t \in Writers, pc[t] \in 2..(2 * N + 3) PROVE Num(Readers, pc, 2..3) <= N
    <3>1. sem["counter"] + Num(Readers, pc, 2..3) + Held(pc[t]) = N
      BY <1>1, <2>2 DEF Inv1220
    <3>2. Held(pc[t]) \in Nat
      BY <1>1, <2>2 DEF Held
    <3> QED
      BY <1>1, <1>2, <3>1, <3>2
  <2> QED
    BY <2>1, <2>2 DEF Free
<1>4. \A t \in Readers : Inside(t) <=> pc[t] = 2
  BY Entered DEF InsideAt, RWThreads
<1>5. {t \in Readers : Inside(t)} \subseteq Placed(Readers, pc, 2..3)
  BY <1>4 DEF Placed
<1>6. IsFiniteSet(Placed(Readers, pc, 2..3))
  BY <1>1, PlacedFinite
<1>7. /\ Cardinality({t \in Readers : Inside(t)}) <= Num(Readers, pc, 2..3)
      /\ Cardinality({t \in Readers : Inside(t)}) \in Nat
  BY <1>5, <1>6, FS_Subset, FS_CardinalityType DEF Num
<1> QED
  BY <1>1, <1>2, <1>3, <1>7

(* p1219.c: while a writer is inside no other waits for w.                 *)
LEMMA ReadersNextFollows ==
  ASSUME RWIInv
  PROVE  ReadersNext
<1> SUFFICES ASSUME program = "p1219", NEW u \in Writers, NEW v \in Writers,
                    Inside(u), u # v, WaitsFor(v, "w")
             PROVE  FALSE
  BY DEF ReadersNext
<1>1. pc[u] = 3 /\ pc[v] = 2
  BY Entered, WaitsAt, RWAssumption DEF InsideAt, RWThreads, RWAssumption
<1> QED
  BY <1>1 DEF RWIInv, Inv1219, Guards, Exclusive

(* The three locks are safe: their semaphores stay within their bounds and *)
(* their code is never left, at most N readers of p1220.c are inside, and  *)
(* in p1219.c it is a reader that sleeps for w while a writer is inside.   *)
THEOREM LocksAreSafe == RWSpec => []RWSafe
<1>1. RWIInv => RWSafe
  BY TypeFollows, PlacesFollow, ReadersNextFollows DEF RWSafe
<1> QED
  BY <1>1, RWIInvHolds, PTL

(* p1221.c: while a writer waits for w no reader gets past P(r).           *)
LEMMA NoReaderPasses ==
  ASSUME RWIInv, RWNext, program = "p1221", NEW u \in Writers, WaitsFor(u, "w"),
         NEW t \in Readers, WaitsFor(t, "r")
  PROVE  pc'[t] = pc[t]
<1>1. RWType /\ Inv1221 /\ pc[u] = 5 /\ pc[t] = 1
  BY WaitsAt DEF RWIInv
<1>2. sem["r"] = 0
  BY <1>1 DEF Inv1221, Free
<1>3. PICK v \in RWThreads : RWStep(v)
  BY DEF RWNext
<1>4. v # t
  <2> SUFFICES ASSUME v = t PROVE FALSE
    OBVIOUS
  <2>1. Down("r")
    BY <1>1, <1>3, Reader1221Steps
  <2> QED
    BY <1>2, <2>1 DEF Down
<1>5. \E to : pc' = [pc EXCEPT ![v] = to]
  BY <1>3, Executes
<1> QED
  BY <1>1, <1>4, <1>5 DEF RWType, RWThreads

(* p1221.c: a writer that waits for w is not overtaken by a reader that    *)
(* has not got r yet.                                                      *)
THEOREM WritersComeFirst == RWSpec => WritersFirst
<1>1. RWIInv /\ [RWNext]_rwvars =>
        [program = "p1221" /\ (\E u \in Writers : WaitsFor(u, "w")) =>
           \A t \in Readers : WaitsFor(t, "r") => pc'[t] = pc[t]]_rwvars
  BY NoReaderPasses
<1> QED
  BY <1>1, RWIInvHolds, PTL DEF RWSpec, WritersFirst

-----------------------------------------------------------------------------
Reading == {t \in Readers : Inside(t)}
Writing == {t \in Writers : Inside(t)}

(* A writer inside is alone, whichever of the three programs runs.         *)
Alone == /\ Reading = {} \/ Writing = {}
         /\ \A t, u \in Writing : t = u

(* A writer is alone inside.                                               *)
LEMMA WritesAlone ==
  ASSUME RWIInv
  PROVE  Alone
<1> USE DEF Alone
<1>1. N \in Nat /\ N > 0 /\ program \in {"p1219", "p1220", "p1221"}
  BY RWAssumption DEF RWAssumption, RWIInv, RWType
<1>2. Readers \cap Writers = {} /\ IsFiniteSet(Readers)
  BY RWAssumption DEF RWAssumption
<1>3. \A t \in RWThreads : Inside(t) <=> pc[t] = InsideAt(t)
  BY Entered
<1>4. CASE program = "p1219"
  <2>1. /\ \A t \in Reading : t \in Readers /\ pc[t] = 5
        /\ \A t \in Writing : t \in Writers /\ pc[t] = 3
    BY <1>2, <1>3, <1>4 DEF Reading, Writing, InsideAt, RWThreads
  <2> QED
    BY <1>4, <2>1 DEF RWIInv, Inv1219, Guards, Exclusive, Free
<1>5. CASE program = "p1220"
  <2>1. /\ \A t \in Reading : t \in Readers /\ pc[t] = 2
        /\ \A t \in Writing : t \in Writers /\ pc[t] = N + 2
    BY <1>2, <1>3, <1>5 DEF Reading, Writing, InsideAt, RWThreads
  <2>2. Inv1220 /\ RWType
    BY <1>5 DEF RWIInv
  <2>3. ASSUME NEW t \in Writing PROVE Reading = {}
    <3>1. sem["counter"] + Num(Readers, pc, 2..3) + Held(N + 2) = N
      BY <1>1, <2>1, <2>2 DEF Inv1220
    <3>2. Held(N + 2) = N
      BY <1>1 DEF Held
    <3>3. Num(Readers, pc, 2..3) \in Nat /\ sem["counter"] \in Nat
      BY <1>2, <2>2, PlacedFinite DEF RWType, Sems
    <3>4. Num(Readers, pc, 2..3) = 0
      BY <1>1, <3>1, <3>2, <3>3
    <3>5. \A u \in Readers : pc[u] \notin 2..3
      BY <1>2, <3>4, NumPositive
    <3> QED
      BY <2>1, <3>5
  <2>4. \A t, u \in Writing : t = u
    BY <1>1, <2>1, <2>2 DEF Inv1220, Guards, Exclusive
  <2> QED
    BY <2>3, <2>4
<1>6. CASE program = "p1221"
  <2>1. /\ \A t \in Reading : t \in Readers /\ pc[t] = 7
        /\ \A t \in Writing : t \in Writers /\ pc[t] = 6
    BY <1>2, <1>3, <1>6 DEF Reading, Writing, InsideAt, RWThreads
  <2> QED
    BY <1>6, <2>1 DEF RWIInv, Inv1221, Exclusive, Free
<1> QED
  BY <1>1, <1>4, <1>5, <1>6

(* Nobody but the thread that runs gets in or out.                         *)
LEMMA OthersStay ==
  ASSUME RWIInv, NEW t \in RWThreads, RWStep(t)
  PROVE  \A u \in RWThreads \ {t} : Inside(u)' <=> Inside(u)
<1>1. RWType /\ program' = program
  BY Executes DEF RWIInv
<1>2. \E to : pc' = [pc EXCEPT ![t] = to]
  BY Executes
<1>3. \A u \in RWThreads \ {t} : pc'[u] = pc[u]
  BY <1>1, <1>2 DEF RWType
<1> QED
  BY <1>1, <1>3 DEF Inside, Instr, Code

(* Every step of a lock is a step of the abstract lock, or none.           *)
LEMMA StepsOfTheLock ==
  ASSUME RWIInv, Alone', RWNext
  PROVE  Lock!Next \/ (Reading' = Reading /\ Writing' = Writing)
<1>1. PICK t \in RWThreads : RWStep(t)
  BY DEF RWNext
<1>2. \A u \in RWThreads \ {t} : Inside(u)' <=> Inside(u)
  BY <1>1, OthersStay
<1>4. /\ Reading' = {} \/ Writing' = {}
      /\ \A u, v \in Writing' : u = v
  BY DEF Alone
<1>5. CASE t \in Readers
  <2>1. t \notin Writers
    BY <1>5, RWAssumption DEF RWAssumption
  <2>2. Writing' = Writing
    BY <1>2, <2>1 DEF Writing, RWThreads
  <2>3. CASE ~Inside(t) /\ Inside(t)'
    <3>1. t \notin Reading /\ Reading' = Reading \cup {t}
      BY <1>2, <1>5, <2>3 DEF Reading, RWThreads
    <3>2. Writing = {}
      BY <1>4, <2>2, <3>1
    <3>3. Lock!StartRead(t)
      BY <2>2, <3>1, <3>2 DEF Lock!StartRead, Reading, Writing
    <3> QED
      BY <1>5, <3>3 DEF Lock!Next
  <2>4. CASE Inside(t) /\ ~Inside(t)'
    <3>1. t \in Reading /\ Reading' = Reading \ {t}
      BY <1>2, <1>5, <2>4 DEF Reading, RWThreads
    <3>2. Lock!EndRead(t)
      BY <2>2, <3>1 DEF Lock!EndRead, Reading, Writing
    <3> QED
      BY <1>5, <3>2 DEF Lock!Next
  <2>5. CASE Inside(t) <=> Inside(t)'
    BY <1>2, <2>2, <2>5 DEF Reading, RWThreads
  <2> QED
    BY <2>3, <2>4, <2>5
<1>6. CASE t \in Writers
  <2>1. t \notin Readers
    BY <1>6, RWAssumption DEF RWAssumption
  <2>2. Reading' = Reading
    BY <1>2, <2>1 DEF Reading, RWThreads
  <2>3. CASE ~Inside(t) /\ Inside(t)'
    <3>1. t \notin Writing /\ Writing' = Writing \cup {t}
      BY <1>2, <1>6, <2>3 DEF Writing, RWThreads
    <3>2. Reading = {} /\ Writing = {} /\ Writing' = {t}
      BY <1>4, <2>2, <3>1
    <3>3. Lock!StartWrite(t)
      BY <2>2, <3>2 DEF Lock!StartWrite, Reading, Writing
    <3> QED
      BY <1>6, <3>3 DEF Lock!Next
  <2>4. CASE Inside(t) /\ ~Inside(t)'
    <3>1. t \in Writing /\ Writing' = Writing \ {t}
      BY <1>2, <1>6, <2>4 DEF Writing, RWThreads
    <3>2. Lock!EndWrite(t)
      BY <2>2, <3>1 DEF Lock!EndWrite, Reading, Writing
    <3> QED
      BY <1>6, <3>2 DEF Lock!Next
  <2>5. CASE Inside(t) <=> Inside(t)'
    BY <1>2, <2>2, <2>5 DEF Writing, RWThreads
  <2> QED
    BY <2>3, <2>4, <2>5
<1> QED
  BY <1>5, <1>6 DEF RWThreads

(* Each of the three implements the abstract readers-writers lock: a       *)
(* writer gets in alone and readers only without a writer.                 *)
THEOREM LocksImplementLock == RWSpec => ImplementsLock
<1>1. RWInit => Lock!Init
  <2> SUFFICES ASSUME RWInit PROVE Reading = {} /\ Writing = {}
    BY DEF Lock!Init, Reading, Writing
  <2>1. RWIInv /\ \A t \in RWThreads : pc[t] = 1
    BY RWStarts DEF RWInit
  <2>2. \A t \in RWThreads : InsideAt(t) # 1
    BY <2>1, RWAssumption DEF InsideAt, RWAssumption, RWIInv, RWType
  <2> QED
    BY <2>1, <2>2, Entered DEF Reading, Writing, RWThreads
<1>2. RWIInv /\ Alone' /\ [RWNext]_rwvars => [Lock!Next]_<<Reading, Writing>>
  <2> SUFFICES ASSUME RWIInv, Alone', [RWNext]_rwvars
               PROVE  [Lock!Next]_<<Reading, Writing>>
    OBVIOUS
  <2>1. CASE RWNext
    BY <2>1, StepsOfTheLock
  <2>2. CASE UNCHANGED rwvars
    BY <2>2 DEF rwvars, Reading, Writing, Inside, Instr, Code
  <2> QED
    BY <2>1, <2>2
<1>3. RWIInv /\ Alone' /\ [RWNext]_rwvars
        => [Lock!Next]_<<{t \in Readers : Inside(t)}, {t \in Writers : Inside(t)}>>
  BY <1>2 DEF Reading, Writing
<1>4. RWIInv => Alone
  BY WritesAlone
<1> QED
  BY <1>1, <1>3, <1>4, RWIInvHolds, PTL DEF RWSpec, ImplementsLock, Lock!Spec

-----------------------------------------------------------------------------
(***************************************************************************)
(* SelectPool.                                                             *)
(***************************************************************************)
Fds == (listenfd + 1)..(SetSize - 1)

Connection == [state : {"out", "open", "aborted", "closed", "answered"},
               fd : Fds \cup {None}, unread : Nat, flood : BOOLEAN, lost : BOOLEAN,
               answer : Nat, fin : BOOLEAN, gone : BOOLEAN]

Pool == [clientfd : [Slots -> Fds \cup {None}], maxi : Slots \cup {-1}, maxfd : Nat,
         nready : Int, read_set : SUBSET Nat, ready_set : SUBSET Nat]

Place == [at : {"select", "accept", "check", "write", "exited", "undefined"},
          i : Nat, left : Nat]

SelectType ==
  /\ server \in {"p1223", "p1236"}
  /\ pool \in Pool
  /\ pcs \in Place
  /\ conn \in [Clients -> Connection]
  /\ backlog \subseteq Clients

(* Every connection has a descriptor of its own, and none before accept.   *)
Distinct ==
  /\ \A c \in Clients : conn[c].fd # None => conn[c].state = "open" /\ c \notin backlog
  /\ \A c, d \in Clients : conn[c].fd # None /\ conn[c].fd = conn[d].fd => c = d

(* A client of p1223.c with more than MAXLINE bytes unread is known for it. *)
Bursts == \A c \in Clients : server = "p1223" /\ conn[c].unread > MaxLine => conn[c].flood
LostOfBursts == \A c \in Clients : conn[c].lost => server = "p1223" /\ conn[c].flood

(* The server writes to the client of a slot.                              *)
WritesToSlot == At("write") => pcs.i \in Slots /\ pool.clientfd[pcs.i] > 0

(* Before accept nready counts the listening descriptor too, and the       *)
(* descriptor that accept will take is not among the ready ones.           *)
AcceptAccounted ==
  At("accept") => /\ pool.nready = 1 + Cardinality(ReadySlots(0))
                  /\ pool.ready_set \subseteq {listenfd} \cup OpenFds

SelectIInv == /\ SelectType /\ Distinct /\ Bursts /\ WritesToSlot /\ AcceptAccounted
              /\ PoolConsistent /\ ReadyAccounted /\ SmallBurstsEchoed

(* A pool made of its fields.                                              *)
LEMMA PoolOf ==
  ASSUME NEW cf \in [Slots -> Fds \cup {None}], NEW mi \in Slots \cup {-1}, NEW mf \in Nat,
         NEW n \in Int, NEW rs \in SUBSET Nat, NEW rd \in SUBSET Nat
  PROVE  [clientfd |-> cf, maxi |-> mi, maxfd |-> mf, nready |-> n,
          read_set |-> rs, ready_set |-> rd] \in Pool
  BY DEF Pool

(* The fields of a pool.                                                   *)
LEMMA PoolIs ==
  ASSUME pool \in Pool
  PROVE  /\ pool = [clientfd |-> pool.clientfd, maxi |-> pool.maxi, maxfd |-> pool.maxfd,
                    nready |-> pool.nready, read_set |-> pool.read_set,
                    ready_set |-> pool.ready_set]
         /\ pool.clientfd \in [Slots -> Fds \cup {None}] /\ pool.maxi \in Slots \cup {-1}
         /\ pool.maxfd \in Nat /\ pool.nready \in Int
         /\ pool.read_set \in SUBSET Nat /\ pool.ready_set \in SUBSET Nat
  BY DEF Pool

(* The constants.                                                          *)
LEMMA Numbers == /\ IsFiniteSet(Clients) /\ SetSize \in Nat /\ SetSize > 4
                 /\ Clients \subseteq Nat
                 /\ MaxLine \in Nat /\ MaxLine > 0
                 /\ RioBufSize \in Nat /\ RioBufSize > MaxLine
                 /\ Room \in Nat /\ Answer \in Nat
  BY SelectAssumption DEF SelectAssumption

(* A set of numbers has a least one: of descriptors the one accept takes.  *)
LEMMA MinIs ==
  ASSUME NEW T, T \subseteq Nat, T # {}
  PROVE  Min(T) \in T /\ \A y \in T : Min(T) <= y
  BY LeastChosen DEF Min

(* The greater of two numbers.                                             *)
LEMMA MaxOfTwo ==
  ASSUME NEW a \in Int, NEW b \in Int
  PROVE  Max({a, b}) = IF a >= b THEN a ELSE b
<1>1. \A x \in {a, b} : (\A y \in {a, b} : x >= y) <=> x = IF a >= b THEN a ELSE b
  OBVIOUS
<1>2. (IF a >= b THEN a ELSE b) \in {a, b}
  OBVIOUS
<1> QED
  BY <1>1, <1>2 DEF Max

(* The lesser of two numbers.                                              *)
LEMMA MinOfTwo ==
  ASSUME NEW a \in Int, NEW b \in Int
  PROVE  Min({a, b}) = IF a <= b THEN a ELSE b
<1>1. \A x \in {a, b} : (\A y \in {a, b} : x <= y) <=> x = IF a <= b THEN a ELSE b
  OBVIOUS
<1>2. (IF a <= b THEN a ELSE b) \in {a, b}
  OBVIOUS
<1> QED
  BY <1>1, <1>2 DEF Min

(* There are more slots than descriptors: add_client always finds one.     *)
LEMMA SlotLeft ==
  ASSUME SelectType, PoolConsistent
  PROVE  \E j \in Slots : pool.clientfd[j] < 0
<1> SUFFICES ASSUME \A j \in Slots : ~(pool.clientfd[j] < 0) PROVE FALSE
  OBVIOUS
<1>1. \A j \in Slots : pool.clientfd[j] \in Fds \cup {None}
  BY DEF SelectType, Pool
<1>2. pool.clientfd \in [Slots -> Fds]
  <2>1. pool.clientfd = [j \in Slots |-> pool.clientfd[j]]
    BY DEF SelectType, Pool
  <2>2. \A j \in Slots : pool.clientfd[j] \in Fds
    BY <1>1 DEF None
  <2> QED
    BY <2>1, <2>2
<1>3. /\ IsFiniteSet(Slots) /\ Cardinality(Slots) = SetSize
      /\ IsFiniteSet(Fds) /\ Cardinality(Fds) = SetSize - 4
  BY Numbers, FS_Interval DEF Slots, Fds, listenfd
<1>4. Cardinality(Fds) < Cardinality(Slots)
  BY <1>3, Numbers
<1>5. \E i, j \in Slots : i # j /\ pool.clientfd[i] = pool.clientfd[j]
  BY <1>2, <1>3, <1>4, FS_PigeonHole
<1>6. \A i \in Slots : pool.clientfd[i] > 0
  BY <1>2, Numbers DEF Fds, listenfd
<1> QED
  BY <1>5, <1>6 DEF PoolConsistent

(* A descriptor that is open belongs to one client.                        *)
LEMMA ClientIs ==
  ASSUME SelectType, Distinct, NEW fd \in OpenFds
  PROVE  /\ ClientOf(fd) \in Clients /\ conn[ClientOf(fd)].fd = fd
         /\ fd \in Fds /\ fd # None /\ fd # listenfd /\ fd > 0
         /\ \A c \in Clients : conn[c].fd = fd => c = ClientOf(fd)
<1>1. \E c \in Accepted : conn[c].fd = fd
  BY DEF OpenFds
<1>2. ClientOf(fd) \in Accepted /\ conn[ClientOf(fd)].fd = fd
  BY <1>1 DEF ClientOf
<1>3. ClientOf(fd) \in Clients /\ conn[ClientOf(fd)].fd # None
  BY <1>2 DEF Accepted
<1>4. fd \in Fds /\ fd # None
  BY <1>2, <1>3 DEF SelectType, Connection
<1>5. fd # listenfd /\ fd > 0
  BY <1>4, Numbers DEF Fds, listenfd
<1> QED
  BY <1>2, <1>3, <1>4, <1>5 DEF Distinct

(* The descriptor of a ready slot is open.                                 *)
LEMMA ReadyIsOpen ==
  ASSUME SelectType, PoolConsistent, NEW i \in Slots, pool.clientfd[i] > 0
  PROVE  pool.clientfd[i] \in OpenFds
<1>1. pool.clientfd[i] # None
  BY DEF None
<1> QED
  BY <1>1 DEF PoolConsistent, PoolFds

(* The ready slots can be counted.                                         *)
LEMMA ReadyFinite ==
  ASSUME NEW n \in Nat
  PROVE  IsFiniteSet(ReadySlots(n)) /\ Cardinality(ReadySlots(n)) \in Nat
<1>1. IsFiniteSet(n..(SetSize - 1)) /\ ReadySlots(n) \subseteq n..(SetSize - 1)
  BY Numbers, FS_Interval DEF ReadySlots
<1> QED
  BY <1>1, FS_Subset, FS_CardinalityType

-----------------------------------------------------------------------------
(* What is left of the connections when one of them changes, but not its   *)
(* descriptor.                                                             *)
LEMMA OneChanges ==
  ASSUME SelectIInv, NEW c \in Clients, NEW k \in Connection,
         conn' = [conn EXCEPT ![c] = k], server' = server, k.fd = conn[c].fd,
         backlog' \in {backlog, backlog \cup {c}},
         k.fd # None => k.state = "open" /\ backlog' = backlog,
         server = "p1223" /\ k.unread > MaxLine => k.flood,
         k.lost => server = "p1223" /\ k.flood
  PROVE  /\ conn' \in [Clients -> Connection] /\ backlog' \subseteq Clients
         /\ conn'[c] = k
         /\ Distinct' /\ Bursts' /\ LostOfBursts' /\ OpenFds' = OpenFds
<1>1. SelectType /\ Distinct /\ Bursts /\ LostOfBursts
  BY DEF SelectIInv, SmallBurstsEchoed, LostOfBursts
<1>2. /\ \A d \in Clients : conn'[d] = IF d = c THEN k ELSE conn[d]
      /\ \A d \in Clients : conn'[d].fd = conn[d].fd
      /\ conn' \in [Clients -> Connection] /\ backlog' \subseteq Clients
  BY <1>1 DEF SelectType
<1>3. Distinct'
  BY <1>1, <1>2 DEF Distinct
<1>4. Bursts' /\ LostOfBursts'
  BY <1>1, <1>2 DEF Bursts, LostOfBursts
<1>5. OpenFds' = OpenFds
  BY <1>2 DEF OpenFds, Accepted
<1> QED
  BY <1>2, <1>3, <1>4, <1>5

(* What a client does leaves the pool and the descriptors alone.           *)
LEMMA ClientKeeps ==
  ASSUME SelectIInv, NEW c \in Clients, NEW k \in Connection, ~Ended,
         conn' = [conn EXCEPT ![c] = k], server' = server, k.fd = conn[c].fd,
         backlog' \in {backlog, backlog \cup {c}},
         k.fd # None => k.state = "open" /\ backlog' = backlog,
         server = "p1223" /\ k.unread > MaxLine => k.flood,
         k.lost => server = "p1223" /\ k.flood,
         pool' = pool, pcs' = pcs
  PROVE  SelectIInv'
<1>1. /\ conn' \in [Clients -> Connection] /\ backlog' \subseteq Clients
      /\ Distinct' /\ Bursts' /\ LostOfBursts' /\ OpenFds' = OpenFds
  BY OneChanges
<1>2. SelectType'
  BY <1>1 DEF SelectIInv, SelectType
<1>3. SmallBurstsEchoed'
  BY <1>1 DEF SmallBurstsEchoed, LostOfBursts, Ended, At
<1>4. WritesToSlot' /\ AcceptAccounted' /\ PoolConsistent' /\ ReadyAccounted'
  BY <1>1 DEF SelectIInv, WritesToSlot, AcceptAccounted, PoolConsistent, ReadyAccounted,
              ReadySlots, IsReady, PoolFds, At
<1> QED
  BY <1>1, <1>2, <1>3, <1>4 DEF SelectIInv

(* The connection of a client in the invariant.                            *)
LEMMA ConnIs ==
  ASSUME SelectIInv, NEW c \in Clients
  PROVE  /\ conn[c] \in Connection /\ conn[c].unread \in Nat /\ conn[c].answer \in Nat
         /\ conn[c].fd # None => conn[c].state = "open" /\ c \notin backlog
         /\ server = "p1223" /\ conn[c].unread > MaxLine => conn[c].flood
         /\ conn[c].lost => server = "p1223" /\ conn[c].flood
  BY DEF SelectIInv, SelectType, Connection, Distinct, Bursts, SmallBurstsEchoed

(* A client connects, shuts down its side, reads or leaves.                *)
LEMMA ConnectKeeps ==
  ASSUME SelectIInv, NEW c \in Clients, Connect(c)
  PROVE  SelectIInv'
<1> DEFINE k == [conn[c] EXCEPT !.state = "open"]
<1>1. conn' = [conn EXCEPT ![c] = k] /\ conn[c].state = "out"
  BY DEF Connect
<1>2. /\ k \in Connection /\ k.fd = conn[c].fd /\ k.unread = conn[c].unread
      /\ k.flood = conn[c].flood /\ k.lost = conn[c].lost
  BY ConnIs DEF Connection
<1>3. /\ ~Ended /\ server' = server /\ pool' = pool /\ pcs' = pcs
      /\ backlog' = backlog \cup {c}
  BY DEF Connect
<1>4. k.fd = None
  BY <1>1, <1>2, ConnIs
<1> HIDE DEF k
<1> QED
  BY <1>1, <1>2, <1>3, <1>4, ConnIs, ClientKeeps

(* A client sends: more than MAXLINE bytes unread is a flood.              *)
LEMMA SendKeeps ==
  ASSUME SelectIInv, NEW c \in Clients, Send(c)
  PROVE  SelectIInv'
<1> DEFINE full == conn[c].flood \/ (server = "p1223" /\ conn[c].unread >= MaxLine)
           k == [conn[c] EXCEPT !.unread = conn[c].unread + 1, !.flood = full]
<1>1. conn' = [conn EXCEPT ![c] = k]
  BY DEF Send
<1>2. full \in BOOLEAN
  BY ConnIs DEF Connection
<1>3. full <=> conn[c].flood \/ (server = "p1223" /\ conn[c].unread >= MaxLine)
  OBVIOUS
<1> HIDE DEF full
<1>4. /\ k \in Connection /\ k.fd = conn[c].fd /\ k.unread = conn[c].unread + 1
      /\ k.flood = full /\ k.lost = conn[c].lost /\ k.state = conn[c].state
  <2>1. conn[c] \in Connection /\ conn[c].unread + 1 \in Nat
    BY ConnIs
  <2> QED
    BY <1>2, <2>1 DEF Connection
<1> HIDE DEF k
<1>5. /\ ~Ended /\ server' = server /\ pool' = pool /\ pcs' = pcs /\ backlog' = backlog
  BY DEF Send
<1>6. server = "p1223" /\ k.unread > MaxLine => k.flood
  BY <1>3, <1>4, ConnIs, Numbers
<1>7. k.lost => server = "p1223" /\ k.flood
  BY <1>3, <1>4, ConnIs
<1> QED
  BY <1>1, <1>4, <1>5, <1>6, <1>7, ConnIs, ClientKeeps

(* A client shuts down its side of the connection.                         *)
LEMMA ShutKeeps ==
  ASSUME SelectIInv, NEW c \in Clients, Shut(c)
  PROVE  SelectIInv'
<1> DEFINE k == [conn[c] EXCEPT !.fin = TRUE]
<1>1. conn' = [conn EXCEPT ![c] = k]
  BY DEF Shut
<1>2. /\ k \in Connection /\ k.fd = conn[c].fd /\ k.unread = conn[c].unread
      /\ k.flood = conn[c].flood /\ k.lost = conn[c].lost /\ k.state = conn[c].state
  BY ConnIs DEF Connection
<1>3. /\ ~Ended /\ server' = server /\ pool' = pool /\ pcs' = pcs /\ backlog' = backlog
  BY DEF Shut
<1> HIDE DEF k
<1> QED
  BY <1>1, <1>2, <1>3, ConnIs, ClientKeeps

(* A client reads what has been written to it.                             *)
LEMMA ReadKeeps ==
  ASSUME SelectIInv, NEW c \in Clients, ClientReads(c)
  PROVE  SelectIInv'
<1> DEFINE k == [conn[c] EXCEPT !.answer = 0]
<1>1. conn' = [conn EXCEPT ![c] = k]
  BY DEF ClientReads
<1>2. /\ k \in Connection /\ k.fd = conn[c].fd /\ k.unread = conn[c].unread
      /\ k.flood = conn[c].flood /\ k.lost = conn[c].lost /\ k.state = conn[c].state
  BY ConnIs DEF Connection
<1>3. /\ ~Ended /\ server' = server /\ pool' = pool /\ pcs' = pcs /\ backlog' = backlog
  BY DEF ClientReads
<1> HIDE DEF k
<1> QED
  BY <1>1, <1>2, <1>3, ConnIs, ClientKeeps

(* A client leaves; what it has sent is still there, or not.               *)
LEMMA LeaveKeeps ==
  ASSUME SelectIInv, NEW c \in Clients, Leave(c)
  PROVE  SelectIInv'
<1>0. PICK n \in {0, conn[c].unread} :
        conn' = [conn EXCEPT ![c].gone = TRUE, ![c].fin = TRUE,
                             ![c].unread = n, ![c].answer = 0]
  BY DEF Leave
<1> DEFINE k == [conn[c] EXCEPT !.gone = TRUE, !.fin = TRUE, !.unread = n, !.answer = 0]
<1>1. conn' = [conn EXCEPT ![c] = k]
  BY <1>0 DEF SelectIInv, SelectType
<1>2. n \in Nat /\ n <= conn[c].unread
  BY ConnIs
<1>3. /\ k \in Connection /\ k.fd = conn[c].fd /\ k.unread = n
      /\ k.flood = conn[c].flood /\ k.lost = conn[c].lost /\ k.state = conn[c].state
  BY <1>2, ConnIs DEF Connection
<1>4. /\ ~Ended /\ server' = server /\ pool' = pool /\ pcs' = pcs /\ backlog' = backlog
  BY DEF Leave
<1> HIDE DEF k
<1>5. server = "p1223" /\ k.unread > MaxLine => k.flood
  BY <1>2, <1>3, ConnIs, Numbers
<1> QED
  BY <1>1, <1>3, <1>4, <1>5, ConnIs, ClientKeeps

(* A client goes away before it is accepted.                               *)
LEMMA AbortKeeps ==
  ASSUME SelectIInv, NEW c \in Clients, Abort(c)
  PROVE  SelectIInv'
<1> DEFINE k == [NoConn EXCEPT !.state = "aborted"]
<1>1. conn' = [conn EXCEPT ![c] = k] /\ c \in backlog
  BY DEF Abort
<1>2. k \in Connection /\ k.fd = None /\ k.unread = 0 /\ ~k.lost
  BY DEF NoConn, Connection
<1>3. /\ ~Ended /\ server' = server /\ pool' = pool /\ pcs' = pcs /\ backlog' = backlog
  BY DEF Abort
<1>4. conn[c].fd = None
  BY <1>1, ConnIs
<1> HIDE DEF k
<1>5. ~(k.unread > MaxLine)
  BY <1>2, Numbers
<1> QED
  BY <1>1, <1>2, <1>3, <1>4, <1>5, ClientKeeps

-----------------------------------------------------------------------------
(* select finds as many ready slots as ready clients.                      *)
LEMMA DoSelectKeeps ==
  ASSUME SelectIInv, DoSelect
  PROVE  SelectIInv'
<1> DEFINE ready == {fd \in pool.read_set : fd <= pool.maxfd /\ Readable(fd)}
           slots == ReadySlots(0)'
<1>1. /\ SelectType /\ Distinct /\ Bursts /\ SmallBurstsEchoed
      /\ PoolConsistent
  BY DEF SelectIInv
<1>2. /\ pool' = [pool EXCEPT !.ready_set = ready, !.nready = Cardinality(ready)]
      /\ pcs' = [at |-> IF listenfd \in ready THEN "accept" ELSE "check", i |-> 0, left |-> 0]
      /\ server' = server /\ conn' = conn /\ backlog' = backlog
  BY DEF DoSelect, Goto
<1>3. ready \subseteq {listenfd} \cup OpenFds /\ ready \subseteq Nat
  BY <1>1, PoolIs DEF PoolConsistent, SelectType
<1>4. IsFiniteSet(ready) /\ Cardinality(ready) \in Nat
  <2>1. IsFiniteSet(3..(SetSize - 1))
    BY Numbers, FS_Interval
  <2>2. ready \subseteq 3..(SetSize - 1)
    BY <1>1, <1>3, ClientIs, Numbers DEF Fds, listenfd
  <2> QED
    BY <2>1, <2>2, FS_Subset, FS_CardinalityType
<1> HIDE DEF ready
<1>5. /\ pool'.clientfd = pool.clientfd /\ pool'.maxi = pool.maxi /\ pool'.maxfd = pool.maxfd
      /\ pool'.read_set = pool.read_set
      /\ pool'.ready_set = ready /\ pool'.nready = Cardinality(ready)
  BY <1>1, <1>2 DEF SelectType, Pool
<1>6. SelectType'
  <2>1. pool' \in Pool
    <3>1. pool' = [clientfd |-> pool.clientfd, maxi |-> pool.maxi, maxfd |-> pool.maxfd,
                   nready |-> Cardinality(ready), read_set |-> pool.read_set,
                   ready_set |-> ready]
      BY <1>1, <1>2, PoolIs DEF SelectType
    <3> QED
      BY <1>1, <1>3, <1>4, <3>1, PoolIs, PoolOf DEF SelectType
  <2>2. pcs' \in Place
    BY <1>2 DEF Place
  <2> QED
    BY <1>1, <1>2, <2>1, <2>2 DEF SelectType
<1>7. Distinct' /\ Bursts' /\ SmallBurstsEchoed' /\ WritesToSlot'
  BY <1>1, <1>2 DEF Distinct, Bursts, SmallBurstsEchoed, WritesToSlot, At
<1>8. OpenFds' = OpenFds /\ PoolConsistent'
  BY <1>1, <1>2, <1>5 DEF OpenFds, Accepted, PoolConsistent, PoolFds
<1>9. slots = {i \in 0..(SetSize - 1) : pool.clientfd[i] > 0 /\ pool.clientfd[i] \in ready}
  BY <1>5 DEF ReadySlots, IsReady
<1> HIDE DEF slots
<1>10. Cardinality(ready \ {listenfd}) = Cardinality(slots)
  <2>1. IsFiniteSet(slots)
    <3>1. IsFiniteSet(0..(SetSize - 1)) /\ slots \subseteq 0..(SetSize - 1)
      BY <1>9, Numbers, FS_Interval
    <3> QED
      BY <3>1, FS_Subset
  <2>2. \A i \in slots : i \in Slots /\ pool.clientfd[i] > 0 /\ pool.clientfd[i] \in ready
    BY <1>9 DEF Slots
  <2>3. \A i \in slots : pool.clientfd[i] \in ready \ {listenfd}
    BY <1>1, <2>2, ReadyIsOpen, ClientIs
  <2>4. \A i, j \in slots : pool.clientfd[i] = pool.clientfd[j] => i = j
    BY <1>1, <2>2 DEF PoolConsistent
  <2>5. \A fd \in ready \ {listenfd} : \E i \in slots : pool.clientfd[i] = fd
    <3> SUFFICES ASSUME NEW fd \in ready \ {listenfd}
                 PROVE  \E i \in slots : pool.clientfd[i] = fd
      OBVIOUS
    <3>1. fd \in OpenFds /\ fd > 0
      BY <1>1, <1>3, ClientIs
    <3>2. PICK i \in Slots : pool.clientfd[i] = fd
      BY <1>1, <3>1 DEF PoolConsistent, PoolFds
    <3> QED
      BY <1>9, <3>1, <3>2 DEF Slots
  <2> HIDE <1>9
  <2> QED
    BY <2>1, <2>3, <2>4, <2>5, OneToOne
<1>11. Cardinality(ready)
         = IF listenfd \in ready THEN 1 + Cardinality(slots) ELSE Cardinality(slots)
  BY <1>4, <1>10, FS_RemoveElement
<1>12. AcceptAccounted'
  BY <1>2, <1>3, <1>5, <1>8, <1>11 DEF AcceptAccounted, At, slots
<1>13. ReadyAccounted'
  <2>1. At("check")' => listenfd \notin ready /\ pcs'.i = 0
    BY <1>2 DEF At
  <2>2. slots = {i \in (pcs'.i)..(SetSize - 1) : IsReady(i)'} \/ ~At("check")'
    BY <2>1 DEF slots, ReadySlots
  <2>3. ~At("write")'
    BY <1>2 DEF At
  <2> QED
    BY <1>5, <1>11, <2>1, <2>2, <2>3 DEF ReadyAccounted, ReadySlots
<1> QED
  BY <1>6, <1>7, <1>8, <1>12, <1>13 DEF SelectIInv

(* Back to select, or out: the pool is as it was.                          *)
LEMMA RoundEnds ==
  ASSUME SelectIInv, pool' = ForgetReady, conn' = conn, server' = server,
         backlog' \subseteq backlog,
         pcs' \in [at : {"select", "exited"}, i : {0}, left : {0}]
  PROVE  SelectIInv'
<1>1. /\ SelectType /\ Distinct /\ Bursts /\ SmallBurstsEchoed
      /\ PoolConsistent
  BY DEF SelectIInv
<1>2. /\ pool'.clientfd = pool.clientfd /\ pool'.maxi = pool.maxi /\ pool'.maxfd = pool.maxfd
      /\ pool'.read_set = pool.read_set
  BY <1>1 DEF SelectType, Pool, ForgetReady
<1>3. SelectType'
  <2>1. pool' \in Pool
    <3>1. pool' = [clientfd |-> pool.clientfd, maxi |-> pool.maxi, maxfd |-> pool.maxfd,
                   nready |-> 0, read_set |-> pool.read_set, ready_set |-> {}]
      BY <1>1, PoolIs DEF SelectType, ForgetReady
    <3> QED
      <4>1. 0 \in Int /\ {} \in SUBSET Nat
        OBVIOUS
      <4>2. [clientfd |-> pool.clientfd, maxi |-> pool.maxi, maxfd |-> pool.maxfd,
             nready |-> 0, read_set |-> pool.read_set, ready_set |-> {}] \in Pool
        BY <1>1, <4>1, PoolIs, PoolOf, Zenon DEF SelectType
      <4> QED
        BY <3>1, <4>2
  <2>2. pcs' \in Place
    BY DEF Place
  <2> QED
    BY <1>1, <2>1, <2>2 DEF SelectType
<1>4. Distinct' /\ Bursts' /\ SmallBurstsEchoed' /\ WritesToSlot'
  BY <1>1 DEF Distinct, Bursts, SmallBurstsEchoed, WritesToSlot, At
<1>5. PoolConsistent'
  BY <1>1, <1>2 DEF OpenFds, Accepted, PoolConsistent, PoolFds
<1>6. AcceptAccounted' /\ ReadyAccounted'
  BY DEF AcceptAccounted, ReadyAccounted, At
<1> QED
  BY <1>3, <1>4, <1>5, <1>6 DEF SelectIInv

(* The loop over the slots is done, or accept fails.                       *)
LEMMA EndKeeps ==
  ASSUME SelectIInv, CheckDone \/ \E c \in Clients : AcceptFails(c)
  PROVE  SelectIInv'
<1>1. /\ pool' = ForgetReady /\ conn' = conn /\ server' = server /\ backlog' \subseteq backlog
      /\ pcs' \in [at : {"select", "exited"}, i : {0}, left : {0}]
  BY DEF CheckDone, AcceptFails, Goto
<1> QED
  BY <1>1, RoundEnds

(* A new client is put into an empty slot and the sets, and is not counted *)
(* among the ready ones.                                                   *)
LEMMA AcceptStep ==
  ASSUME SelectIInv, NEW c \in Clients, DoAccept(c)
  PROVE  \E i \in Slots, fd \in Fds :
           /\ pool.clientfd[i] = None /\ fd \notin OpenFds
           /\ conn[c].state = "open" /\ c \in backlog
           /\ conn' = [conn EXCEPT ![c].fd = fd]
           /\ pool' = [pool EXCEPT !.nready = @ - 1, !.clientfd[i] = fd,
                 !.read_set = @ \cup {fd},
                 !.maxfd = IF @ >= fd THEN @ ELSE fd, !.maxi = IF @ >= i THEN @ ELSE i]
<1>1. SelectType /\ PoolConsistent
  BY DEF SelectIInv
<1> DEFINE empty == {j \in Slots : pool.clientfd[j] < 0}
           i == Min(empty)
           fd == Min(FreeFds)
<1>2. /\ c \in backlog /\ conn[c].state = "open" /\ FreeFds # {}
      /\ conn' = [conn EXCEPT ![c].fd = fd]
      /\ pool' = [pool EXCEPT !.nready = @ - 1, !.clientfd[i] = fd,
                 !.read_set = @ \cup {fd},
                 !.maxfd = Max({@, fd}), !.maxi = Max({@, i})]
  BY DEF DoAccept, add_client
<1>3. FreeFds \subseteq Nat /\ FreeFds \subseteq Fds /\ FreeFds \cap OpenFds = {}
  BY Numbers DEF FreeFds, Fds, listenfd
<1>4. fd \in FreeFds
  BY <1>2, <1>3, MinIs
<1>5. empty \subseteq Nat /\ empty # {}
  BY <1>1, SlotLeft, Numbers DEF Slots
<1>6. i \in empty
  BY <1>5, MinIs
<1>7. i \in Slots /\ pool.clientfd[i] = None
  <2>1. i \in Slots /\ pool.clientfd[i] < 0
    BY <1>6
  <2> HIDE DEF i
  <2> QED
    BY <1>1, <2>1, Numbers DEF SelectType, Pool, Fds, listenfd, None
<1> HIDE DEF i, fd
<1>8. fd \in Fds /\ fd \in Nat /\ fd \notin OpenFds /\ i \in Int
  BY <1>3, <1>4, <1>7, Numbers DEF Slots
<1>9. pool.maxfd \in Int /\ pool.maxi \in Int
  BY <1>1, Numbers DEF SelectType, Pool, Slots
<1>10. /\ Max({pool.maxfd, fd}) = IF pool.maxfd >= fd THEN pool.maxfd ELSE fd
       /\ Max({pool.maxi, i}) = IF pool.maxi >= i THEN pool.maxi ELSE i
  BY <1>8, <1>9, MaxOfTwo
<1> QED
  BY <1>2, <1>7, <1>8, <1>10

(* accept and add_client: the connection gets the first free slot.         *)
LEMMA AcceptKeeps ==
  ASSUME SelectIInv, NEW c \in Clients, DoAccept(c)
  PROVE  SelectIInv'
<1>1. /\ SelectType /\ Distinct /\ Bursts /\ SmallBurstsEchoed
      /\ PoolConsistent /\ AcceptAccounted /\ ReadyAccounted
  BY DEF SelectIInv
<1>2. PICK i \in Slots, fd \in Fds :
           /\ pool.clientfd[i] = None /\ fd \notin OpenFds
           /\ conn[c].state = "open" /\ c \in backlog
           /\ conn' = [conn EXCEPT ![c].fd = fd]
           /\ pool' = [pool EXCEPT !.nready = @ - 1, !.clientfd[i] = fd,
                 !.read_set = @ \cup {fd},
                 !.maxfd = IF @ >= fd THEN @ ELSE fd, !.maxi = IF @ >= i THEN @ ELSE i]
  BY AcceptStep
<1>3. /\ At("accept") /\ pcs' = [at |-> "check", i |-> 0, left |-> 0]
      /\ backlog' = backlog \ {c} /\ server' = server
  BY DEF DoAccept, Goto
<1>4. fd \in Nat /\ fd > 0 /\ fd # None /\ fd # listenfd /\ i \in Int
  BY <1>2, Numbers DEF Fds, Slots, None, listenfd
<1> DEFINE cf == [pool.clientfd EXCEPT ![i] = fd]
           mf == IF pool.maxfd >= fd THEN pool.maxfd ELSE fd
           mi == IF pool.maxi >= i THEN pool.maxi ELSE i
           rs == pool.read_set \cup {fd}
<1>5. pool' = [clientfd |-> cf, maxi |-> mi, maxfd |-> mf, nready |-> pool.nready - 1,
               read_set |-> rs, ready_set |-> pool.ready_set]
  BY <1>1, <1>2, PoolIs DEF SelectType
<1>6. /\ cf \in [Slots -> Fds \cup {None}] /\ mi \in Slots \cup {-1} /\ mf \in Nat
      /\ pool.nready - 1 \in Int /\ rs \in SUBSET Nat
  BY <1>1, <1>2, <1>4, PoolIs DEF SelectType
<1>7. \A j \in Slots : cf[j] = IF j = i THEN fd ELSE pool.clientfd[j]
  BY <1>1, PoolIs DEF SelectType
<1>8. pool.maxfd \in Int /\ pool.maxi \in Int
  BY <1>1, PoolIs, Numbers DEF SelectType, Slots
<1>9. mf >= pool.maxfd /\ mf >= fd /\ mi >= pool.maxi /\ mi >= i
  BY <1>4, <1>8
<1> HIDE DEF cf, mf, mi, rs
<1>10. /\ pool'.clientfd = cf /\ pool'.maxi = mi /\ pool'.maxfd = mf
       /\ pool'.nready = pool.nready - 1
       /\ pool'.read_set = rs /\ pool'.ready_set = pool.ready_set
  BY <1>5
<1>11. /\ \A d \in Clients : d # c => conn'[d] = conn[d]
       /\ conn'[c].fd = fd /\ conn'[c].state = "open"
       /\ conn'[c].unread = conn[c].unread /\ conn'[c].lost = conn[c].lost
       /\ conn'[c].flood = conn[c].flood
       /\ conn' \in [Clients -> Connection]
  BY <1>1, <1>2 DEF SelectType, Connection
<1>12. conn[c].fd = None
  BY <1>1, <1>2 DEF Distinct
<1>13. OpenFds' = OpenFds \cup {fd}
  <2>1. Accepted' = Accepted \cup {c} /\ c \notin Accepted
    BY <1>4, <1>11, <1>12 DEF Accepted
  <2>2. \A d \in Accepted : d # c /\ conn'[d].fd = conn[d].fd
    BY <1>11, <2>1 DEF Accepted
  <2> QED
    BY <1>11, <2>1, <2>2 DEF OpenFds
<1>14. SelectType'
  <2>1. pool' \in Pool
    BY <1>1, <1>5, <1>6, PoolIs, PoolOf DEF SelectType
  <2>2. pcs' \in Place
    BY <1>3 DEF Place
  <2> QED
    BY <1>1, <1>3, <1>11, <2>1, <2>2 DEF SelectType
<1>15. Distinct'
  <2>1. \A d \in Clients : conn[d].fd # fd
    BY <1>2, <1>4 DEF OpenFds, Accepted
  <2> QED
    BY <1>1, <1>3, <1>11, <2>1 DEF Distinct
<1>16. Bursts' /\ SmallBurstsEchoed' /\ WritesToSlot'
  BY <1>1, <1>3, <1>11 DEF Bursts, SmallBurstsEchoed, WritesToSlot, At
<1>17. PoolConsistent'
  <2>1. PoolFds' = PoolFds \cup {fd}
    <3>1. PoolFds' = {cf[j] : j \in Slots} \ {None}
      BY <1>10 DEF PoolFds
    <3>2. \A x : x \in {cf[j] : j \in Slots} \ {None}
                   <=> x \in ({pool.clientfd[j] : j \in Slots} \ {None}) \cup {fd}
      BY <1>2, <1>4, <1>7
    <3> QED
      BY <3>1, <3>2 DEF PoolFds
  <2>2. PoolFds' = OpenFds'
    BY <1>1, <1>13, <2>1 DEF PoolConsistent
  <2>3. ASSUME NEW j \in Slots, NEW k \in Slots, j # k, cf[j] > 0
        PROVE  cf[j] # cf[k]
    <3>1. \A l \in Slots : pool.clientfd[l] > 0 => pool.clientfd[l] # fd
      BY <1>1, <1>2, ReadyIsOpen
    <3>2. ~(None > 0)
      BY DEF None
    <3>3. j # i /\ k # i => cf[j] # cf[k]
      BY <1>1, <1>7, <2>3 DEF PoolConsistent
    <3>4. j # i /\ k = i => cf[j] # cf[k]
      BY <1>7, <2>3, <3>1
    <3>5. j = i /\ k # i => cf[j] # cf[k]
      BY <1>4, <1>7, <2>3, <3>1
    <3> QED
      BY <2>3, <3>3, <3>4, <3>5
  <2>4. pool'.read_set = {listenfd} \cup OpenFds'
    BY <1>1, <1>10, <1>13 DEF PoolConsistent, rs
  <2>5. \A x \in OpenFds' : x <= pool'.maxfd
    <3>1. \A x \in OpenFds : x \in Int /\ x <= pool.maxfd
      BY <1>1, ClientIs DEF PoolConsistent, Fds
    <3>2. mf \in Int
      BY <1>6
    <3> QED
      BY <1>4, <1>8, <1>9, <1>10, <1>13, <3>1, <3>2
  <2>6. \A j \in Slots : j > pool'.maxi => pool'.clientfd[j] = None
    <3>1. \A j \in Slots : j > mi => j # i /\ j > pool.maxi
      BY <1>4, <1>6, <1>8, <1>9, Numbers DEF Slots
    <3> QED
      BY <1>1, <1>7, <1>10, <3>1 DEF PoolConsistent
  <2> QED
    BY <1>10, <2>2, <2>3, <2>4, <2>5, <2>6 DEF PoolConsistent
<1>18. AcceptAccounted'
  BY <1>3 DEF AcceptAccounted, At
<1>19. ReadyAccounted'
  <2>1. pool.nready = 1 + Cardinality(ReadySlots(0)) /\ pool.ready_set \subseteq {listenfd} \cup OpenFds
    BY <1>1, <1>3 DEF AcceptAccounted
  <2>2. fd \notin pool.ready_set
    BY <1>2, <1>4, <2>1
  <2>3. \A j \in Slots : IsReady(j)' <=> IsReady(j)
    BY <1>2, <1>7, <1>10, <2>2 DEF IsReady, None
  <2>4. {j \in (pcs'.i)..(SetSize - 1) : IsReady(j)'} = ReadySlots(0)
    BY <1>3, <2>3 DEF ReadySlots, Slots
  <2>5. Cardinality(ReadySlots(0)) \in Nat
    BY ReadyFinite
  <2>6. pool'.nready = Cardinality(ReadySlots(0))
    BY <1>10, <2>1, <2>5
  <2>7. ~At("write")'
    BY <1>3 DEF At
  <2> QED
    BY <2>4, <2>6, <2>7 DEF ReadyAccounted, ReadySlots
<1> QED
  BY <1>14, <1>15, <1>16, <1>17, <1>18, <1>19 DEF SelectIInv

-----------------------------------------------------------------------------
(* The slot whose turn it is: its client, and the ready ones after it.     *)
LEMMA TurnOf ==
  ASSUME SelectIInv, NEW i \in Slots, Turn(i)
  PROVE  /\ At("check") /\ i \in Nat /\ pool.clientfd[i] \in OpenFds
         /\ Cardinality(ReadySlots(i + 1)) = pool.nready - 1
<1>1. SelectType /\ PoolConsistent /\ ReadyAccounted
  BY DEF SelectIInv
<1>2. /\ At("check") /\ i \in (pcs.i)..pool.maxi /\ IsReady(i)
      /\ \A j \in (pcs.i)..(i - 1) : ~IsReady(j)
  BY DEF Turn
<1>3. pool.clientfd[i] \in OpenFds
  BY <1>1, <1>2, ReadyIsOpen DEF IsReady
<1>4. pcs.i \in Nat /\ i \in Nat /\ i <= SetSize - 1 /\ pcs.i <= i
  BY <1>1, <1>2, Numbers DEF SelectType, Place, Slots
<1>5. pool.nready = Cardinality(ReadySlots(pcs.i))
  BY <1>1, <1>2 DEF ReadyAccounted, ReadySlots
<1>6. ReadySlots(i + 1) = ReadySlots(pcs.i) \ {i} /\ i \in ReadySlots(pcs.i)
  <2>1. \A j \in (pcs.i)..(SetSize - 1) : IsReady(j) => j >= i
    BY <1>2, <1>4, Numbers
  <2> QED
    BY <1>2, <1>4, <2>1, Numbers DEF ReadySlots
<1> QED
  BY <1>2, <1>3, <1>4, <1>5, <1>6, ReadyFinite, FS_RemoveElement

(* check_clients has read from the client of slot i, or failed to.         *)
LEMMA ServedKeeps ==
  ASSUME SelectIInv, NEW i \in Slots, Turn(i), NEW k \in Connection,
         conn' = [conn EXCEPT ![ClientOf(pool.clientfd[i])] = k],
         server' = server, backlog' = backlog, pool' = Counted,
         pcs' \in Place, pcs'.at \in {"write", "undefined", "exited"}, pcs'.i = i,
         LET c == ClientOf(pool.clientfd[i]) IN
           /\ k.fd = conn[c].fd /\ k.state = conn[c].state
           /\ server = "p1223" /\ k.unread > MaxLine => k.flood
           /\ k.lost => server = "p1223" /\ k.flood
           /\ pcs'.at = "undefined" => server = "p1223" /\ k.flood
  PROVE  SelectIInv'
<1> DEFINE c == ClientOf(pool.clientfd[i])
<1>1. SelectType /\ Distinct /\ PoolConsistent
  BY DEF SelectIInv
<1>2. /\ pool.clientfd[i] \in OpenFds
      /\ Cardinality(ReadySlots(i + 1)) = pool.nready - 1
  BY TurnOf
<1>3. c \in Clients
  BY <1>1, <1>2, ClientIs
<1>4. /\ conn' = [conn EXCEPT ![c] = k] /\ k.fd = conn[c].fd /\ k.state = conn[c].state
      /\ server = "p1223" /\ k.unread > MaxLine => k.flood
      /\ k.lost => server = "p1223" /\ k.flood
      /\ pcs'.at = "undefined" => server = "p1223" /\ k.flood
  OBVIOUS
<1> HIDE DEF c
<1>5. /\ conn' \in [Clients -> Connection] /\ conn'[c] = k
      /\ Distinct' /\ Bursts' /\ LostOfBursts' /\ OpenFds' = OpenFds
  <2>1. k.fd # None => k.state = "open" /\ backlog' = backlog
    BY <1>3, <1>4, ConnIs
  <2>2. backlog' \in {backlog, backlog \cup {c}}
    OBVIOUS
  <2> QED
    BY <1>3, <1>4, <2>1, <2>2, OneChanges
<1>6. pool' = [clientfd |-> pool.clientfd, maxi |-> pool.maxi, maxfd |-> pool.maxfd,
               nready |-> pool.nready - 1, read_set |-> pool.read_set,
               ready_set |-> pool.ready_set]
  BY <1>1, PoolIs DEF SelectType, Counted
<1>7. SelectType'
  <2>1. pool.nready - 1 \in Int
    BY <1>1, PoolIs DEF SelectType
  <2>2. pool' \in Pool
    BY <1>1, <1>6, <2>1, PoolIs, PoolOf DEF SelectType
  <2> QED
    BY <1>1, <1>5, <2>2 DEF SelectType
<1>8. SmallBurstsEchoed'
  BY <1>3, <1>4, <1>5 DEF SmallBurstsEchoed, LostOfBursts, At
<1>9. PoolConsistent'
  BY <1>1, <1>5, <1>6 DEF PoolConsistent, PoolFds
<1>10. AcceptAccounted'
  BY DEF AcceptAccounted, At
<1>11. WritesToSlot'
  <2>1. pool.clientfd[i] > 0
    BY DEF Turn, IsReady
  <2> QED
    BY <1>6, <2>1 DEF WritesToSlot
<1>12. ReadyAccounted'
  <2>1. ~At("check")'
    BY DEF At
  <2> QED
    BY <1>2, <1>6, <2>1 DEF ReadyAccounted, ReadySlots, IsReady
<1> QED
  BY <1>5, <1>7, <1>8, <1>9, <1>10, <1>11, <1>12 DEF SelectIInv

(* p1223.c reads: it drops something, and runs over its buffer, only when  *)
(* more than MAXLINE bytes were waiting.                                   *)
LEMMA EchoReadKeeps ==
  ASSUME SelectIInv, NEW i \in Slots, EchoRead(i)
  PROVE  SelectIInv'
<1> DEFINE c == ClientOf(pool.clientfd[i])
           taken == Min({conn[c].unread, RioBufSize})
           lost == conn[c].lost \/ taken > MaxLine + 1
           k == [conn[c] EXCEPT !.unread = conn[c].unread - taken, !.lost = lost]
<1>1. server = "p1223" /\ Turn(i) /\ taken > 0
      /\ pool' = Counted /\ server' = server /\ backlog' = backlog
  BY DEF EchoRead
<1>2. \/ pcs' = [at |-> "write", i |-> i, left |-> Min({taken, MaxLine + 1})]
      \/ taken > MaxLine /\ pcs' = [at |-> "undefined", i |-> i, left |-> 0]
  BY DEF EchoRead, Goto
<1>3. c \in Clients
  BY <1>1, TurnOf, ClientIs DEF SelectIInv
<1>4. conn' = [conn EXCEPT ![c] = k]
  BY <1>3 DEF EchoRead, SelectIInv, SelectType
<1> HIDE DEF c
<1>5. /\ conn[c] \in Connection /\ conn[c].unread \in Nat
      /\ conn[c].unread > MaxLine => conn[c].flood
      /\ conn[c].lost => conn[c].flood
  BY <1>1, <1>3, ConnIs
<1>6. taken \in Nat /\ taken <= conn[c].unread
  BY <1>5, Numbers, MinOfTwo
<1> HIDE DEF taken
<1>7. lost \in BOOLEAN /\ (lost <=> conn[c].lost \/ taken > MaxLine + 1)
  BY <1>5 DEF Connection
<1> HIDE DEF lost
<1>8. /\ k \in Connection /\ k.fd = conn[c].fd /\ k.state = conn[c].state
      /\ k.flood = conn[c].flood /\ k.lost = lost /\ k.unread = conn[c].unread - taken
  <2>1. conn[c].unread - taken \in Nat
    BY <1>5, <1>6
  <2> QED
    BY <1>5, <1>7, <2>1 DEF Connection
<1> HIDE DEF k
<1>9. /\ k.unread > MaxLine => k.flood
      /\ k.lost => k.flood
      /\ taken > MaxLine => k.flood
  BY <1>5, <1>6, <1>7, <1>8, Numbers
<1>10. /\ pcs' \in Place /\ pcs'.at \in {"write", "undefined", "exited"} /\ pcs'.i = i
       /\ pcs'.at = "undefined" => taken > MaxLine
  <2>1. Min({taken, MaxLine + 1}) \in Nat /\ i \in Nat
    BY <1>6, Numbers, MinOfTwo DEF Slots
  <2> QED
    BY <1>2, <2>1 DEF Place
<1> QED
  BY <1>1, <1>4, <1>8, <1>9, <1>10, ServedKeeps DEF c

(* The read of p1223.c fails, and the program ends.                        *)
LEMMA EchoReadFailsKeeps ==
  ASSUME SelectIInv, NEW i \in Slots, EchoReadFails(i)
  PROVE  SelectIInv'
<1> DEFINE c == ClientOf(pool.clientfd[i])
<1>1. /\ Turn(i) /\ pool' = Counted /\ server' = server /\ backlog' = backlog
      /\ pcs' = [at |-> "exited", i |-> i, left |-> 0] /\ conn' = conn
  BY DEF EchoReadFails, Goto
<1>2. c \in Clients
  BY <1>1, TurnOf, ClientIs DEF SelectIInv
<1> HIDE DEF c
<1>3. conn' = [conn EXCEPT ![c] = conn[c]] /\ conn[c] \in Connection
  BY <1>1, <1>2 DEF SelectIInv, SelectType
<1>4. pcs' \in Place /\ pcs'.at = "exited" /\ pcs'.i = i
  BY <1>1, Numbers DEF Place, Slots
<1> QED
  BY <1>1, <1>2, <1>3, <1>4, ConnIs, ServedKeeps DEF c

(* doit of p1236.c has read the whole request.                             *)
LEMMA RequestKeeps ==
  ASSUME SelectIInv, NEW i \in Slots, Request(i)
  PROVE  SelectIInv'
<1> DEFINE c == ClientOf(pool.clientfd[i])
           k == [conn[c] EXCEPT !.unread = 0]
<1>1. /\ Turn(i) /\ pool' = Counted /\ server' = server /\ backlog' = backlog
      /\ pcs' = [at |-> "write", i |-> i, left |-> Answer]
      /\ conn' = [conn EXCEPT ![c] = k] /\ server = "p1236"
  BY DEF Request, Goto
<1>2. c \in Clients
  BY <1>1, TurnOf, ClientIs DEF SelectIInv
<1> HIDE DEF c
<1>3. /\ k \in Connection /\ k.fd = conn[c].fd /\ k.state = conn[c].state
      /\ k.lost = conn[c].lost
  BY <1>2, ConnIs DEF Connection
<1> HIDE DEF k
<1>4. pcs' \in Place /\ pcs'.at = "write" /\ pcs'.i = i
  BY <1>1, Numbers DEF Place, Slots
<1>5. ~k.lost /\ server # "p1223"
  BY <1>1, <1>2, <1>3, ConnIs
<1> QED
  BY <1>1, <1>3, <1>4, <1>5, ServedKeeps DEF c

(* A pool with slot i emptied is a pool.                                   *)
LEMMA EmptiedPool ==
  ASSUME pool \in Pool, NEW i \in Slots, NEW n \in Int,
         pool' = [clientfd |-> [pool.clientfd EXCEPT ![i] = None], maxi |-> pool.maxi,
                  maxfd |-> pool.maxfd, nready |-> n,
                  read_set |-> pool.read_set \ {pool.clientfd[i]},
                  ready_set |-> pool.ready_set]
  PROVE  /\ pool' \in Pool
         /\ \A j \in Slots : pool'.clientfd[j] = IF j = i THEN None ELSE pool.clientfd[j]
<1> DEFINE cf == [pool.clientfd EXCEPT ![i] = None]
           rs == pool.read_set \ {pool.clientfd[i]}
<1>1. /\ cf \in [Slots -> Fds \cup {None}]
      /\ \A j \in Slots : cf[j] = IF j = i THEN None ELSE pool.clientfd[j]
  BY PoolIs
<1>2. rs \in SUBSET Nat
  BY PoolIs
<1>3. pool' = [clientfd |-> cf, maxi |-> pool.maxi, maxfd |-> pool.maxfd, nready |-> n,
               read_set |-> rs, ready_set |-> pool.ready_set]
  OBVIOUS
<1> HIDE DEF cf, rs
<1>4. [clientfd |-> cf, maxi |-> pool.maxi, maxfd |-> pool.maxfd, nready |-> n,
       read_set |-> rs, ready_set |-> pool.ready_set] \in Pool
  BY <1>1, <1>2, PoolIs, PoolOf
<1> QED
  BY <1>1, <1>3, <1>4

(* The connection of slot i is closed, with n ready ones after it.         *)
LEMMA CloseKeeps ==
  ASSUME SelectIInv, NEW i \in Slots, NEW gone \in Connection,
         pool.clientfd[i] \in OpenFds,
         gone.fd = None, gone.unread = 0, ~gone.lost,
         conn' = [conn EXCEPT ![ClientOf(pool.clientfd[i])] = gone],
         pool' \in Pool,
         \A j \in Slots : pool'.clientfd[j] = IF j = i THEN None ELSE pool.clientfd[j],
         pool'.maxi = pool.maxi, pool'.maxfd = pool.maxfd,
         pool'.nready = Cardinality(ReadySlots(i + 1)),
         pool'.read_set = pool.read_set \ {pool.clientfd[i]},
         pool'.ready_set = pool.ready_set,
         pcs' = [at |-> "check", i |-> i + 1, left |-> 0],
         server' = server, backlog' = backlog
  PROVE  SelectIInv'
<1> DEFINE c == ClientOf(pool.clientfd[i])
           fd == pool.clientfd[i]
           cf == pool'.clientfd
<1>1. /\ SelectType /\ Distinct /\ Bursts /\ SmallBurstsEchoed
      /\ PoolConsistent /\ ReadyAccounted
  BY DEF SelectIInv
<1>2. i \in Nat /\ fd \in OpenFds
  BY Numbers DEF Slots
<1>3. /\ c \in Clients /\ conn[c].fd = fd /\ fd # listenfd /\ fd # None /\ fd > 0
      /\ \A d \in Clients : conn[d].fd = fd => d = c
  BY <1>1, <1>2, ClientIs
<1>4. /\ conn' = [conn EXCEPT ![c] = gone]
      /\ \A j \in Slots : cf[j] = IF j = i THEN None ELSE pool.clientfd[j]
      /\ pool.clientfd[i] = fd
  OBVIOUS
<1>5. /\ pool'.clientfd = cf /\ pool'.maxi = pool.maxi /\ pool'.maxfd = pool.maxfd
      /\ pool'.read_set = pool.read_set \ {fd}
      /\ pool'.ready_set = pool.ready_set
      /\ pool'.nready = Cardinality(ReadySlots(i + 1))
  OBVIOUS
<1> HIDE DEF c, fd, cf
<1>6. /\ conn' \in [Clients -> Connection]
      /\ \A d \in Clients : d # c => conn'[d] = conn[d]
      /\ conn'[c].fd = None /\ conn'[c].unread = 0 /\ ~conn'[c].lost
  BY <1>1, <1>3, <1>4 DEF SelectType
<1>7. SelectType'
  <2>1. pcs' \in Place
    BY <1>2 DEF Place
  <2> QED
    BY <1>1, <1>6, <2>1 DEF SelectType
<1>8. Distinct'
  BY <1>1, <1>6 DEF Distinct
<1>9. Bursts'
  <2>1. ~(0 > MaxLine)
    BY Numbers
  <2> QED
    BY <1>1, <1>6, <2>1 DEF Bursts
<1>10. SmallBurstsEchoed' /\ WritesToSlot'
  BY <1>1, <1>6 DEF SmallBurstsEchoed, WritesToSlot, At
<1>11. OpenFds' = OpenFds \ {fd}
  <2>1. Accepted' = Accepted \ {c}
    BY <1>6 DEF Accepted
  <2>2. \A d \in Accepted : d # c => conn'[d].fd = conn[d].fd /\ conn[d].fd # fd
    BY <1>3, <1>6 DEF Accepted
  <2> QED
    BY <1>3, <2>1, <2>2 DEF OpenFds
<1>12. \A j \in Slots : j # i => pool.clientfd[j] # fd
  BY <1>1, <1>3, <1>4 DEF PoolConsistent
<1>13. PoolConsistent'
  <2>1. PoolFds' = PoolFds \ {fd}
    <3>1. PoolFds' = {cf[j] : j \in Slots} \ {None}
      BY <1>5 DEF PoolFds
    <3>2. pool.clientfd[i] = fd
      BY <1>4
    <3>3. \A x : x \in {cf[j] : j \in Slots} \ {None}
                   <=> x \in ({pool.clientfd[j] : j \in Slots} \ {None}) \ {fd}
      BY <1>4, <1>12, <3>2
    <3> QED
      BY <3>1, <3>3 DEF PoolFds
  <2>2. PoolFds' = OpenFds'
    BY <1>1, <1>11, <2>1 DEF PoolConsistent
  <2>3. \A j, k \in Slots : j # k /\ cf[j] > 0 => cf[j] # cf[k]
    <3>1. ~(None > 0)
      BY DEF None
    <3> QED
      BY <1>1, <1>4, <3>1 DEF PoolConsistent
  <2>4. pool'.read_set = {listenfd} \cup OpenFds'
    BY <1>1, <1>3, <1>5, <1>11 DEF PoolConsistent
  <2>5. \A x \in OpenFds' : x <= pool'.maxfd
    BY <1>1, <1>5, <1>11 DEF PoolConsistent
  <2>6. \A j \in Slots : j > pool'.maxi => pool'.clientfd[j] = None
    BY <1>1, <1>4, <1>5 DEF PoolConsistent
  <2> QED
    BY <1>5, <2>2, <2>3, <2>4, <2>5, <2>6 DEF PoolConsistent
<1>14. AcceptAccounted'
  BY DEF AcceptAccounted, At
<1>15. ReadyAccounted'
  <2>1. \A j \in (i + 1)..(SetSize - 1) : j \in Slots /\ j # i
    BY <1>2, Numbers DEF Slots
  <2>2. \A j \in (i + 1)..(SetSize - 1) : IsReady(j)' <=> IsReady(j)
    BY <1>4, <1>5, <2>1 DEF IsReady
  <2>3. {j \in (i + 1)..(SetSize - 1) : IsReady(j)'} = ReadySlots(i + 1)
    BY <2>2 DEF ReadySlots
  <2>4. ~At("write")'
    BY DEF At
  <2> QED
    BY <1>2, <1>5, <2>3, <2>4 DEF ReadyAccounted, ReadySlots
<1> QED
  BY <1>7, <1>8, <1>9, <1>10, <1>13, <1>14, <1>15 DEF SelectIInv

(* check_clients finds end of file, or doit nothing to answer.             *)
LEMMA HangupKeeps ==
  ASSUME SelectIInv, NEW i \in Slots, Hangup(i)
  PROVE  SelectIInv'
<1> DEFINE k == [NoConn EXCEPT !.state = "closed"]
<1>1. /\ Turn(i) /\ conn' = [conn EXCEPT ![ClientOf(pool.clientfd[i])] = k]
      /\ pool' = Without(Counted, i)
      /\ pcs' = [at |-> "check", i |-> i + 1, left |-> 0]
      /\ server' = server /\ backlog' = backlog
  BY DEF Hangup, Goto
<1>2. k \in Connection /\ k.fd = None /\ k.unread = 0 /\ ~k.lost
  BY DEF NoConn, Connection
<1> HIDE DEF k
<1>3. pool' = [clientfd |-> [pool.clientfd EXCEPT ![i] = None], maxi |-> pool.maxi,
               maxfd |-> pool.maxfd, nready |-> pool.nready - 1,
               read_set |-> pool.read_set \ {pool.clientfd[i]},
               ready_set |-> pool.ready_set]
  <2>1. Counted = [clientfd |-> pool.clientfd, maxi |-> pool.maxi, maxfd |-> pool.maxfd,
                   nready |-> pool.nready - 1, read_set |-> pool.read_set,
                   ready_set |-> pool.ready_set]
    BY PoolIs DEF SelectIInv, SelectType, Counted
  <2> QED
    BY <1>1, <2>1 DEF Without
<1>4. /\ pool.clientfd[i] \in OpenFds /\ pool.nready - 1 \in Int
      /\ Cardinality(ReadySlots(i + 1)) = pool.nready - 1
  BY <1>1, TurnOf, PoolIs DEF SelectIInv, SelectType
<1>5. pool' \in Pool
      /\ \A j \in Slots : pool'.clientfd[j] = IF j = i THEN None ELSE pool.clientfd[j]
  BY <1>3, <1>4, EmptiedPool DEF SelectIInv, SelectType
<1>6. /\ pool'.maxi = pool.maxi /\ pool'.maxfd = pool.maxfd
      /\ pool'.nready = pool.nready - 1
      /\ pool'.read_set = pool.read_set \ {pool.clientfd[i]}
      /\ pool'.ready_set = pool.ready_set
  BY <1>3
<1> QED
  BY <1>1, <1>2, <1>4, <1>5, <1>6, CloseKeeps

-----------------------------------------------------------------------------
(* The client that is written to.                                          *)
LEMMA WritesTo ==
  ASSUME SelectIInv, At("write")
  PROVE  /\ pcs.i \in Slots /\ pool.clientfd[pcs.i] \in OpenFds
         /\ ClientOf(pool.clientfd[pcs.i]) \in Clients
         /\ pool.nready = Cardinality(ReadySlots(pcs.i + 1))
         /\ pcs.i \in Nat /\ pcs.left \in Nat
<1>1. pcs.i \in Slots /\ pool.clientfd[pcs.i] > 0
  BY DEF SelectIInv, WritesToSlot
<1>2. pool.clientfd[pcs.i] \in OpenFds
  BY <1>1, ReadyIsOpen DEF SelectIInv
<1>3. ClientOf(pool.clientfd[pcs.i]) \in Clients
  BY <1>2, ClientIs DEF SelectIInv
<1> QED
  BY <1>1, <1>2, <1>3 DEF SelectIInv, ReadyAccounted, SelectType, Place

(* Bytes are put into the connection.                                      *)
LEMMA PutKeeps ==
  ASSUME SelectIInv, Put
  PROVE  SelectIInv'
<1> DEFINE c == ClientOf(pool.clientfd[pcs.i])
           n == Min({pcs.left, Room - conn[c].answer})
           k == [conn[c] EXCEPT !.answer = conn[c].answer + n]
<1>1. /\ At("write") /\ n > 0 /\ conn' = [conn EXCEPT ![c] = k]
      /\ pcs' = [at |-> "write", i |-> pcs.i, left |-> pcs.left - n]
      /\ server' = server /\ pool' = pool /\ backlog' = backlog
  BY DEF Put, Goto
<1>2. c \in Clients /\ pcs.i \in Slots /\ pcs.i \in Nat /\ pcs.left \in Nat
  BY <1>1, WritesTo
<1> HIDE DEF c
<1>3. conn[c] \in Connection /\ conn[c].answer \in Nat
  BY <1>2, ConnIs
<1>4. n \in Nat /\ n <= pcs.left
  <2>1. Room - conn[c].answer \in Int /\ pcs.left \in Int
    BY <1>2, <1>3, Numbers
  <2>2. n = IF pcs.left <= Room - conn[c].answer THEN pcs.left ELSE Room - conn[c].answer
    BY <2>1, MinOfTwo
  <2> HIDE DEF n
  <2> QED
    BY <1>1, <1>2, <2>1, <2>2
<1> HIDE DEF n
<1>5. /\ k \in Connection /\ k.fd = conn[c].fd /\ k.state = conn[c].state
      /\ k.unread = conn[c].unread /\ k.flood = conn[c].flood /\ k.lost = conn[c].lost
  BY <1>3, <1>4 DEF Connection
<1> HIDE DEF k
<1>6. /\ conn' \in [Clients -> Connection]
      /\ Distinct' /\ Bursts' /\ LostOfBursts' /\ OpenFds' = OpenFds
  BY <1>1, <1>2, <1>5, ConnIs, OneChanges
<1>7. pcs' \in Place
  BY <1>1, <1>2, <1>4 DEF Place
<1>8. SelectType'
  BY <1>1, <1>6, <1>7 DEF SelectIInv, SelectType
<1>9. SmallBurstsEchoed' /\ AcceptAccounted'
  BY <1>1, <1>6 DEF SmallBurstsEchoed, LostOfBursts, AcceptAccounted, At
<1>10. WritesToSlot' /\ PoolConsistent' /\ ReadyAccounted'
  BY <1>1, <1>6 DEF SelectIInv, WritesToSlot, PoolConsistent, ReadyAccounted,
              ReadySlots, IsReady, PoolFds, At
<1> QED
  BY <1>6, <1>8, <1>9, <1>10 DEF SelectIInv

(* The write is over: it failed, or all is written and p1223.c goes on.    *)
LEMMA WriteEnds ==
  ASSUME SelectIInv, PutFails \/ EchoDone
  PROVE  SelectIInv'
<1>1. /\ At("write") /\ conn' = conn
      /\ server' = server /\ pool' = pool /\ backlog' = backlog
      /\ \/ pcs' = [at |-> "write", i |-> pcs.i, left |-> 0]
         \/ pcs' = [at |-> "exited", i |-> pcs.i, left |-> 0]
         \/ pcs' = [at |-> "check", i |-> pcs.i + 1, left |-> 0]
  BY DEF PutFails, EchoDone, Goto
<1>2. pcs.i \in Nat /\ pcs' \in Place
  BY <1>1, WritesTo DEF Place
<1>3. SelectType' /\ Distinct' /\ Bursts'
  BY <1>1, <1>2 DEF SelectIInv, SelectType, Distinct, Bursts
<1>4. SmallBurstsEchoed' /\ AcceptAccounted'
  BY <1>1 DEF SelectIInv, SmallBurstsEchoed, AcceptAccounted, At
<1>5. PoolConsistent' /\ WritesToSlot'
  BY <1>1 DEF SelectIInv, OpenFds, Accepted, PoolConsistent, PoolFds, WritesToSlot, At
<1>6. ReadyAccounted'
  <2>1. pool.nready = Cardinality(ReadySlots(pcs.i + 1))
    BY <1>1, WritesTo
  <2>2. \/ At("write")' /\ ~At("check")' /\ pcs'.i = pcs.i
        \/ At("check")' /\ ~At("write")' /\ pcs'.i = pcs.i + 1
        \/ ~At("check")' /\ ~At("write")'
    BY <1>1 DEF At
  <2> QED
    BY <1>1, <2>1, <2>2 DEF ReadyAccounted, ReadySlots, IsReady
<1> QED
  BY <1>3, <1>4, <1>5, <1>6 DEF SelectIInv

(* p1236.c has answered and closes the connection.                         *)
LEMMA AnswerKeeps ==
  ASSUME SelectIInv, AnswerDone
  PROVE  SelectIInv'
<1> DEFINE k == [NoConn EXCEPT !.state = "answered"]
<1>1. /\ At("write") /\ conn' = [conn EXCEPT ![ClientOf(pool.clientfd[pcs.i])] = k]
      /\ pool' = Without(pool, pcs.i)
      /\ pcs' = [at |-> "check", i |-> pcs.i + 1, left |-> 0]
      /\ server' = server /\ backlog' = backlog
  BY DEF AnswerDone, Goto
<1>2. k \in Connection /\ k.fd = None /\ k.unread = 0 /\ ~k.lost
  BY DEF NoConn, Connection
<1> HIDE DEF k
<1>3. pool' = [clientfd |-> [pool.clientfd EXCEPT ![pcs.i] = None], maxi |-> pool.maxi,
               maxfd |-> pool.maxfd, nready |-> pool.nready,
               read_set |-> pool.read_set \ {pool.clientfd[pcs.i]},
               ready_set |-> pool.ready_set]
  BY <1>1, PoolIs DEF SelectIInv, SelectType, Without
<1>4. /\ pcs.i \in Slots /\ pool.clientfd[pcs.i] \in OpenFds /\ pool.nready \in Int
      /\ pool.nready = Cardinality(ReadySlots(pcs.i + 1))
  BY <1>1, WritesTo, PoolIs DEF SelectIInv, SelectType
<1>5. pool' \in Pool
      /\ \A j \in Slots : pool'.clientfd[j] = IF j = pcs.i THEN None ELSE pool.clientfd[j]
  BY <1>3, <1>4, EmptiedPool DEF SelectIInv, SelectType
<1>6. /\ pool'.maxi = pool.maxi /\ pool'.maxfd = pool.maxfd /\ pool'.nready = pool.nready
      /\ pool'.read_set = pool.read_set \ {pool.clientfd[pcs.i]}
      /\ pool'.ready_set = pool.ready_set
  BY <1>3
<1> QED
  BY <1>1, <1>2, <1>4, <1>5, <1>6, CloseKeeps

-----------------------------------------------------------------------------
(* The server starts in the invariant.                                     *)
LEMMA SelectStarts ==
  ASSUME SelectInit
  PROVE  SelectIInv
<1>1. SelectType
  <2>1. init_pool \in Pool
    BY Numbers DEF init_pool, Pool, listenfd
  <2>2. [at |-> "select", i |-> 0, left |-> 0] \in Place /\ NoConn \in Connection
    BY DEF Place, NoConn, Connection
  <2> QED
    BY <2>1, <2>2 DEF SelectInit, SelectType
<1>2. \A c \in Clients : conn[c].fd = None /\ conn[c].unread = 0 /\ ~conn[c].lost
  BY DEF SelectInit, NoConn
<1>3. Distinct /\ SmallBurstsEchoed /\ WritesToSlot
  BY <1>2 DEF Distinct, SmallBurstsEchoed, WritesToSlot, At, SelectInit
<1>4. Bursts
  BY <1>2, Numbers DEF Bursts
<1>5. OpenFds = {}
  BY <1>2 DEF OpenFds, Accepted
<1>6. PoolConsistent
  BY <1>5, Numbers DEF PoolConsistent, PoolFds, SelectInit, init_pool, None, Slots
<1>7. AcceptAccounted /\ ReadyAccounted
  BY DEF AcceptAccounted, ReadyAccounted, At, SelectInit
<1> QED
  BY <1>1, <1>3, <1>4, <1>6, <1>7 DEF SelectIInv

(* Whatever the clients do and in whatever order the server finds them     *)
(* ready, the pool and its counters agree with the connections.            *)
THEOREM SelectIInvHolds == SelectSpec => []SelectIInv
<1>1. SelectInit => SelectIInv
  BY SelectStarts
<1>2. SelectIInv /\ [SelectNext]_svars => SelectIInv'
  <2> SUFFICES ASSUME SelectIInv, [SelectNext]_svars PROVE SelectIInv'
    OBVIOUS
  <2>1. CASE ServerStep
    <3>1. CASE \/ DoSelect \/ CheckDone
               \/ \E c \in Clients : DoAccept(c) \/ AcceptFails(c)
      BY <3>1, DoSelectKeeps, EndKeeps, AcceptKeeps
    <3>2. CASE \E i \in Slots : EchoRead(i) \/ EchoReadFails(i) \/ Request(i) \/ Hangup(i)
      BY <3>2, EchoReadKeeps, EchoReadFailsKeeps, RequestKeeps, HangupKeeps
    <3>3. CASE Put \/ PutFails \/ EchoDone \/ AnswerDone
      BY <3>3, PutKeeps, WriteEnds, AnswerKeeps
    <3> QED
      BY <2>1, <3>1, <3>2, <3>3 DEF ServerStep
  <2>2. CASE ClientStep
    BY <2>2, ConnectKeeps, SendKeeps, ShutKeeps, ReadKeeps, LeaveKeeps, AbortKeeps
       DEF ClientStep
  <2>3. CASE UNCHANGED svars
    <3>1. /\ server' = server /\ pool' = pool /\ pcs' = pcs /\ conn' = conn
          /\ backlog' = backlog
      BY <2>3 DEF svars
    <3>2. SelectType' /\ Distinct' /\ Bursts' /\ WritesToSlot'
      BY <3>1 DEF SelectIInv, SelectType, Distinct, Bursts, WritesToSlot, At
    <3>3. SmallBurstsEchoed' /\ AcceptAccounted' /\ PoolConsistent' /\ ReadyAccounted'
      BY <3>1 DEF SelectIInv, SmallBurstsEchoed, AcceptAccounted, PoolConsistent,
         ReadyAccounted, ReadySlots, IsReady, PoolFds, OpenFds, Accepted, At
    <3> QED
      BY <3>2, <3>3 DEF SelectIInv
  <2> QED
    BY <2>1, <2>2, <2>3 DEF SelectNext
<1> QED
  BY <1>1, <1>2, PTL DEF SelectSpec

(* The event loop loses none of its clients, whether they read, leave or   *)
(* break the connection: the pool agrees with the open descriptors, nready *)
(* with the ready clients still to come, and p1223.c drops bytes or runs   *)
(* over its buffer only on a client that had more than MAXLINE bytes       *)
(* unread, for any number of clients and any FD_SETSIZE and MAXLINE.       *)
THEOREM SelectIsSafe == SelectSpec => []SelectSafe
<1>1. SelectIInv => SelectSafe
  BY DEF SelectIInv, SelectSafe
<1> QED
  BY <1>1, SelectIInvHolds, PTL

-----------------------------------------------------------------------------
(***************************************************************************)
(* TimedRead.                                                              *)
(***************************************************************************)
(* The three threads of p1233.c.                                           *)
TimedThreads == Others \cup {"main"}

TimedLabels == {"none", "call", "select", "fgets", "return", "print", "returned", "undefined",
                "P", "create", "V", "join", "sleep", "test", "done"}

TimedType ==
  /\ version \in {"p1231", "p1232", "p1233"}
  /\ at \in [TimedThreads -> TimedLabels]
  /\ input \in {"nothing", "part", "line", "eof"}
  /\ mutex \in {0, 1} /\ finished \in BOOLEAN /\ cancelled \subseteq Others

(* Where a thread of p1233.c has the mutex.                                *)
HasMutex(label) == label \in {"create", "test", "V"}

MutexHeld == /\ mutex = 1 <=> \A t \in TimedThreads : ~HasMutex(at[t])
             /\ \A t, u \in TimedThreads : HasMutex(at[t]) /\ HasMutex(at[u]) => t = u

(* p1233.c never leaves pthread_join before both threads have ended, and   *)
(* has no fgets in its main thread.                                        *)
BothEnded ==
  version = "p1233" =>
    /\ at["main"] \notin {"fgets", "select"} /\ ~sigabrt
    /\ at["main"] \in {"return", "print", "returned"} => \A t \in Others : at[t] = "done"

(* What is only there because the five seconds have passed.                *)
LateIsWhy == /\ sigabrt \/ "reader" \in cancelled => late
             /\ at["sleeper"] \in {"P", "test", "V"} => late
             /\ res = "null" => input = "eof" \/ late

(* Who cancels has set finished, and not both are cancelled.               *)
FirstCancels == /\ ~finished => cancelled = {}
                /\ cancelled # Others

(* Nobody runs before main has created it.                                 *)
Created == /\ at["main"] = "call" => \A t \in Others : at[t] = "none"
           /\ at["main"] \in {"P", "create"} => at["reader"] = "none"

(* The inductive invariant of the timed reads.                             *)
TimedIInv == TimedType /\ MutexHeld /\ Created /\ BothEnded /\ LateIsWhy /\ FirstCancels

(* It holds before tfgets is called.                                       *)
LEMMA TimedStart == TimedInit => TimedIInv
<1> SUFFICES ASSUME TimedInit PROVE TimedIInv
  OBVIOUS
<1>1. /\ at \in [TimedThreads -> TimedLabels]
      /\ at["main"] = "call" /\ at["reader"] = "none" /\ at["sleeper"] = "none"
  BY DEF TimedInit, TimedThreads, TimedLabels, Others
<1>2. \A t \in TimedThreads : ~HasMutex(at[t])
  BY <1>1 DEF TimedThreads, Others, HasMutex
<1> QED
  BY <1>1, <1>2 DEF TimedInit, TimedIInv, TimedType, MutexHeld, Created, BothEnded, LateIsWhy,
     FirstCancels, Others

(* One thread goes on, and the mutex with it where it takes or returns it. *)
LEMMA OneGoes ==
  ASSUME TimedType, MutexHeld, NEW t \in TimedThreads, NEW l \in TimedLabels, Go(t, l),
         \/ mutex' = mutex /\ (HasMutex(l) <=> HasMutex(at[t]))
         \/ mutex = 1 /\ mutex' = 0 /\ HasMutex(l)
         \/ HasMutex(at[t]) /\ mutex' = 1 /\ ~HasMutex(l)
  PROVE  /\ at' \in [TimedThreads -> TimedLabels] /\ at'[t] = l
         /\ \A u \in TimedThreads \ {t} : at'[u] = at[u]
         /\ mutex' \in {0, 1} /\ MutexHeld'
<1>1. /\ at' \in [TimedThreads -> TimedLabels] /\ at'[t] = l
      /\ \A u \in TimedThreads \ {t} : at'[u] = at[u]
  BY DEF TimedType, Go
<1>2. mutex \in {0, 1} /\ mutex' \in {0, 1}
  BY DEF TimedType
<1>3. MutexHeld'
  BY <1>1, <1>2 DEF MutexHeld
<1> QED
  BY <1>1, <1>2, <1>3

(* Two threads go on that do not have it, and neither will.                *)
LEMMA TwoGo ==
  ASSUME TimedType, MutexHeld, NEW t \in TimedThreads, NEW u \in TimedThreads, t # u,
         NEW l \in TimedLabels, NEW k \in TimedLabels, GoTwo(t, l, u, k), mutex' = mutex,
         HasMutex(l) <=> HasMutex(at[t]), HasMutex(k) <=> HasMutex(at[u])
  PROVE  /\ at' \in [TimedThreads -> TimedLabels] /\ at'[t] = l /\ at'[u] = k
         /\ \A v \in TimedThreads \ {t, u} : at'[v] = at[v]
         /\ MutexHeld'
<1>1. /\ at' \in [TimedThreads -> TimedLabels] /\ at'[t] = l /\ at'[u] = k
      /\ \A v \in TimedThreads \ {t, u} : at'[v] = at[v]
  BY DEF TimedType, GoTwo
<1>2. \A v \in TimedThreads : HasMutex(at'[v]) <=> HasMutex(at[v])
  BY <1>1
<1> QED
  BY <1>1, <1>2 DEF MutexHeld

(* Which threads there are, and which places hold the mutex.               *)
LEMMA TimedPlaces ==
  /\ "main" \in TimedThreads /\ "reader" \in TimedThreads /\ "sleeper" \in TimedThreads
  /\ TimedThreads = {"main", "reader", "sleeper"} /\ Others = {"reader", "sleeper"}
  /\ "main" # "reader" /\ "main" # "sleeper" /\ "reader" # "sleeper"
  BY DEF TimedThreads, Others

(* No step of the three programs breaks any of it.                         *)
LEMMA TimedKeeps == TimedIInv /\ [TimedNext]_tvars => TimedIInv'
<1> SUFFICES ASSUME TimedIInv, [TimedNext]_tvars PROVE TimedIInv'
  OBVIOUS
<1> USE TimedPlaces
<1>0. TimedType /\ MutexHeld /\ Created /\ BothEnded /\ LateIsWhy /\ FirstCancels
  BY DEF TimedIInv
<1>1. CASE UNCHANGED tvars
  BY <1>0, <1>1 DEF tvars, MutexHeld, TimedIInv, TimedType, Created, BothEnded, LateIsWhy, FirstCancels
<1>2. CASE Type
  BY <1>0, <1>2 DEF Type, MutexHeld, TimedIInv, TimedType, Created, BothEnded, LateIsWhy, FirstCancels
<1>3. CASE Clock
  BY <1>0, <1>3 DEF Clock, MutexHeld, TimedIInv, TimedType, Created, BothEnded, LateIsWhy, FirstCancels
<1>4. CASE Fork
  <2>1. /\ GoTwo("main", "fgets", "sleeper", "sleep") /\ UNCHANGED mutex
        /\ at["main"] = "call" /\ at["sleeper"] = "none"
    BY <1>0, <1>4 DEF Fork, Is, Created
  <2>2. /\ at' \in [TimedThreads -> TimedLabels] /\ at'["main"] = "fgets" /\ at'["sleeper"] = "sleep"
        /\ \A v \in TimedThreads \ {"main", "sleeper"} : at'[v] = at[v]
        /\ MutexHeld'
    BY <1>0, <2>1, TwoGo DEF HasMutex, TimedLabels
  <2> QED
    BY <1>0, <1>4, <2>1, <2>2 DEF Fork, Is, Stopped,
       TimedIInv, TimedType, Created, BothEnded, LateIsWhy, FirstCancels
<1>5. CASE ChildKills
  <2>1. PICK l \in TimedLabels : /\ Go("sleeper", l) /\ UNCHANGED mutex
                               /\ l = "done" /\ (HasMutex(l) <=> HasMutex(at["sleeper"]))
    BY <1>0, <1>5 DEF ChildKills, Is, HasMutex, TimedLabels, Points, Created
  <2>2. /\ at' \in [TimedThreads -> TimedLabels] /\ at'["sleeper"] = l
        /\ \A u \in TimedThreads \ {"sleeper"} : at'[u] = at[u]
        /\ mutex' \in {0, 1} /\ MutexHeld'
    BY <1>0, <2>1, OneGoes
  <2> QED
    BY <1>0, <1>5, <2>1, <2>2 DEF ChildKills, Is, Stopped,
       TimedIInv, TimedType, Created, BothEnded, LateIsWhy, FirstCancels
<1>6. CASE ~Stopped /\ Handler
  <2>1. PICK l \in TimedLabels : /\ Go("main", l) /\ UNCHANGED mutex
                               /\ l \in {"return", "undefined"} /\ (HasMutex(l) <=> HasMutex(at["main"]))
    BY <1>0, <1>6 DEF Handler, Is, HasMutex, TimedLabels, Points, Created
  <2>2. /\ at' \in [TimedThreads -> TimedLabels] /\ at'["main"] = l
        /\ \A u \in TimedThreads \ {"main"} : at'[u] = at[u]
        /\ mutex' \in {0, 1} /\ MutexHeld'
    BY <1>0, <2>1, OneGoes
  <2> QED
    BY <1>0, <1>6, <2>1, <2>2 DEF Handler, Is, Stopped,
       TimedIInv, TimedType, Created, BothEnded, LateIsWhy, FirstCancels
<1>7. CASE CallSelect
  <2>1. PICK l \in TimedLabels : /\ Go("main", l) /\ UNCHANGED mutex
                               /\ l = "select" /\ (HasMutex(l) <=> HasMutex(at["main"]))
    BY <1>0, <1>7 DEF CallSelect, Is, HasMutex, TimedLabels, Points, Created
  <2>2. /\ at' \in [TimedThreads -> TimedLabels] /\ at'["main"] = l
        /\ \A u \in TimedThreads \ {"main"} : at'[u] = at[u]
        /\ mutex' \in {0, 1} /\ MutexHeld'
    BY <1>0, <2>1, OneGoes
  <2> QED
    BY <1>0, <1>7, <2>1, <2>2 DEF CallSelect, Is, Stopped,
       TimedIInv, TimedType, Created, BothEnded, LateIsWhy, FirstCancels
<1>8. CASE Select
  <2>1. PICK l \in TimedLabels : /\ Go("main", l) /\ UNCHANGED mutex
                               /\ l \in {"fgets", "return"} /\ (HasMutex(l) <=> HasMutex(at["main"]))
    BY <1>0, <1>8 DEF Select, Is, HasMutex, TimedLabels, Points, Created
  <2>2. /\ at' \in [TimedThreads -> TimedLabels] /\ at'["main"] = l
        /\ \A u \in TimedThreads \ {"main"} : at'[u] = at[u]
        /\ mutex' \in {0, 1} /\ MutexHeld'
    BY <1>0, <2>1, OneGoes
  <2> QED
    BY <1>0, <1>8, <2>1, <2>2 DEF Select, Is, Stopped,
       TimedIInv, TimedType, Created, BothEnded, LateIsWhy, FirstCancels
<1>9. CASE MainFgets
  <2>1. PICK l \in TimedLabels : /\ Go("main", l) /\ UNCHANGED mutex
                               /\ l = "return" /\ (HasMutex(l) <=> HasMutex(at["main"]))
    BY <1>0, <1>9 DEF MainFgets, Is, HasMutex, TimedLabels, Points, Created
  <2>2. /\ at' \in [TimedThreads -> TimedLabels] /\ at'["main"] = l
        /\ \A u \in TimedThreads \ {"main"} : at'[u] = at[u]
        /\ mutex' \in {0, 1} /\ MutexHeld'
    BY <1>0, <2>1, OneGoes
  <2> QED
    BY <1>0, <1>9, <2>1, <2>2 DEF MainFgets, Fgets, CanFgets, Is, Stopped,
       TimedIInv, TimedType, Created, BothEnded, LateIsWhy, FirstCancels
<1>10. CASE MainReturn
  <2>1. PICK l \in TimedLabels : /\ Go("main", l) /\ UNCHANGED mutex
                               /\ l = (IF at["main"] = "return" THEN "print" ELSE "returned") /\ (HasMutex(l) <=> HasMutex(at["main"]))
    BY <1>0, <1>10 DEF MainReturn, Is, HasMutex, TimedLabels, Points, Created
  <2>2. /\ at' \in [TimedThreads -> TimedLabels] /\ at'["main"] = l
        /\ \A u \in TimedThreads \ {"main"} : at'[u] = at[u]
        /\ mutex' \in {0, 1} /\ MutexHeld'
    BY <1>0, <2>1, OneGoes
  <2> QED
    BY <1>0, <1>10, <2>1, <2>2 DEF MainReturn, Is, Stopped,
       TimedIInv, TimedType, Created, BothEnded, LateIsWhy, FirstCancels
<1>11. CASE CreateSleeper
  <2>1. /\ GoTwo("main", "P", "sleeper", "sleep") /\ UNCHANGED mutex
        /\ at["main"] = "call" /\ at["sleeper"] = "none"
    BY <1>0, <1>11 DEF CreateSleeper, Is, Created
  <2>2. /\ at' \in [TimedThreads -> TimedLabels] /\ at'["main"] = "P" /\ at'["sleeper"] = "sleep"
        /\ \A v \in TimedThreads \ {"main", "sleeper"} : at'[v] = at[v]
        /\ MutexHeld'
    BY <1>0, <2>1, TwoGo DEF HasMutex, TimedLabels
  <2> QED
    BY <1>0, <1>11, <2>1, <2>2 DEF CreateSleeper, Is, Stopped,
       TimedIInv, TimedType, Created, BothEnded, LateIsWhy, FirstCancels
<1>12. CASE CreateReader
  <2>1. /\ GoTwo("main", "V", "reader", "fgets") /\ UNCHANGED mutex
        /\ at["main"] = "create" /\ at["reader"] = "none"
    BY <1>0, <1>12 DEF CreateReader, Is, Created
  <2>2. /\ at' \in [TimedThreads -> TimedLabels] /\ at'["main"] = "V" /\ at'["reader"] = "fgets"
        /\ \A v \in TimedThreads \ {"main", "reader"} : at'[v] = at[v]
        /\ MutexHeld'
    BY <1>0, <2>1, TwoGo DEF HasMutex, TimedLabels
  <2> QED
    BY <1>0, <1>12, <2>1, <2>2 DEF CreateReader, Is, Stopped,
       TimedIInv, TimedType, Created, BothEnded, LateIsWhy, FirstCancels
<1>13. CASE LockMutex("main")
  <2>1. PICK l \in TimedLabels : /\ Go("main", l) /\ mutex = 1 /\ mutex' = 0 /\ HasMutex(l)
                               /\ l = "create"
    BY <1>0, <1>13 DEF LockMutex, Is, HasMutex, TimedLabels, Points, Created
  <2>2. /\ at' \in [TimedThreads -> TimedLabels] /\ at'["main"] = l
        /\ \A u \in TimedThreads \ {"main"} : at'[u] = at[u]
        /\ mutex' \in {0, 1} /\ MutexHeld'
    BY <1>0, <2>1, OneGoes
  <2> QED
    BY <1>0, <1>13, <2>1, <2>2 DEF LockMutex, Is, Stopped,
       TimedIInv, TimedType, Created, BothEnded, LateIsWhy, FirstCancels
<1>14. CASE UnlockMutex("main")
  <2>1. PICK l \in TimedLabels : /\ Go("main", l) /\ HasMutex(at["main"]) /\ mutex' = 1 /\ ~HasMutex(l)
                               /\ l = "join"
    BY <1>0, <1>14 DEF UnlockMutex, Is, HasMutex, TimedLabels, Points, Created
  <2>2. /\ at' \in [TimedThreads -> TimedLabels] /\ at'["main"] = l
        /\ \A u \in TimedThreads \ {"main"} : at'[u] = at[u]
        /\ mutex' \in {0, 1} /\ MutexHeld'
    BY <1>0, <2>1, OneGoes
  <2> QED
    BY <1>0, <1>14, <2>1, <2>2 DEF UnlockMutex, Is, Stopped,
       TimedIInv, TimedType, Created, BothEnded, LateIsWhy, FirstCancels
<1>15. CASE Join
  <2>1. PICK l \in TimedLabels : /\ Go("main", l) /\ UNCHANGED mutex
                               /\ l = "return" /\ (HasMutex(l) <=> HasMutex(at["main"]))
    BY <1>0, <1>15 DEF Join, Is, HasMutex, TimedLabels, Points, Created
  <2>2. /\ at' \in [TimedThreads -> TimedLabels] /\ at'["main"] = l
        /\ \A u \in TimedThreads \ {"main"} : at'[u] = at[u]
        /\ mutex' \in {0, 1} /\ MutexHeld'
    BY <1>0, <2>1, OneGoes
  <2> QED
    BY <1>0, <1>15, <2>1, <2>2 DEF Join, Is, Stopped,
       TimedIInv, TimedType, Created, BothEnded, LateIsWhy, FirstCancels
<1>16. CASE Wake
  <2>1. PICK l \in TimedLabels : /\ Go("sleeper", l) /\ UNCHANGED mutex
                               /\ l = "P" /\ (HasMutex(l) <=> HasMutex(at["sleeper"]))
    BY <1>0, <1>16 DEF Wake, Is, HasMutex, TimedLabels, Points, Created
  <2>2. /\ at' \in [TimedThreads -> TimedLabels] /\ at'["sleeper"] = l
        /\ \A u \in TimedThreads \ {"sleeper"} : at'[u] = at[u]
        /\ mutex' \in {0, 1} /\ MutexHeld'
    BY <1>0, <2>1, OneGoes
  <2> QED
    BY <1>0, <1>16, <2>1, <2>2 DEF Wake, Is, Stopped,
       TimedIInv, TimedType, Created, BothEnded, LateIsWhy, FirstCancels
<1>17. CASE ReaderFgets
  <2>1. PICK l \in TimedLabels : /\ Go("reader", l) /\ UNCHANGED mutex
                               /\ l = "P" /\ (HasMutex(l) <=> HasMutex(at["reader"]))
    BY <1>0, <1>17 DEF ReaderFgets, Is, HasMutex, TimedLabels, Points, Created
  <2>2. /\ at' \in [TimedThreads -> TimedLabels] /\ at'["reader"] = l
        /\ \A u \in TimedThreads \ {"reader"} : at'[u] = at[u]
        /\ mutex' \in {0, 1} /\ MutexHeld'
    BY <1>0, <2>1, OneGoes
  <2> QED
    BY <1>0, <1>17, <2>1, <2>2 DEF ReaderFgets, Fgets, CanFgets, Is, Stopped,
       TimedIInv, TimedType, Created, BothEnded, LateIsWhy, FirstCancels
<1>18. ASSUME NEW t \in Others, LockMutex(t)
      PROVE  TimedIInv'
  <2>1. PICK l \in TimedLabels : /\ Go(t, l) /\ mutex = 1 /\ mutex' = 0 /\ HasMutex(l)
                               /\ l = "test"
    BY <1>0, <1>18 DEF LockMutex, Is, HasMutex, TimedLabels, Points, Created
  <2>2. /\ at' \in [TimedThreads -> TimedLabels] /\ at'[t] = l
        /\ \A u \in TimedThreads \ {t} : at'[u] = at[u]
        /\ mutex' \in {0, 1} /\ MutexHeld'
    BY <1>0, <2>1, OneGoes
  <2> QED
    BY <1>0, <1>18, <2>1, <2>2 DEF LockMutex, Is, Stopped,
       TimedIInv, TimedType, Created, BothEnded, LateIsWhy, FirstCancels
<1>19. ASSUME NEW t \in Others, UnlockMutex(t)
      PROVE  TimedIInv'
  <2>1. PICK l \in TimedLabels : /\ Go(t, l) /\ HasMutex(at[t]) /\ mutex' = 1 /\ ~HasMutex(l)
                               /\ l = "done"
    BY <1>0, <1>19 DEF UnlockMutex, Is, HasMutex, TimedLabels, Points, Created
  <2>2. /\ at' \in [TimedThreads -> TimedLabels] /\ at'[t] = l
        /\ \A u \in TimedThreads \ {t} : at'[u] = at[u]
        /\ mutex' \in {0, 1} /\ MutexHeld'
    BY <1>0, <2>1, OneGoes
  <2> QED
    BY <1>0, <1>19, <2>1, <2>2 DEF UnlockMutex, Is, Stopped,
       TimedIInv, TimedType, Created, BothEnded, LateIsWhy, FirstCancels
<1>20. ASSUME NEW t \in Others, EndCancelled(t)
      PROVE  TimedIInv'
  <2>1. PICK l \in TimedLabels : /\ Go(t, l) /\ UNCHANGED mutex
                               /\ l = "done" /\ (HasMutex(l) <=> HasMutex(at[t]))
    BY <1>0, <1>20 DEF EndCancelled, Is, HasMutex, TimedLabels, Points, Created
  <2>2. /\ at' \in [TimedThreads -> TimedLabels] /\ at'[t] = l
        /\ \A u \in TimedThreads \ {t} : at'[u] = at[u]
        /\ mutex' \in {0, 1} /\ MutexHeld'
    BY <1>0, <2>1, OneGoes
  <2>3. /\ UNCHANGED <<version, input, late, sigabrt, finished, cancelled>>
        /\ t \in cancelled /\ at[t] \notin {"none", "done"}
        /\ res' = IF t = "reader" THEN "null" ELSE res
    BY <1>20 DEF EndCancelled, Points
  <2>4. at'[t] = "done"
    BY <2>1, <2>2
  <2>5. LateIsWhy'
    BY <1>0, <2>2, <2>3, <2>4 DEF LateIsWhy
  <2>6. Created' /\ BothEnded'
    BY <1>0, <2>2, <2>3, <2>4 DEF Created, BothEnded
  <2>7. TimedType' /\ FirstCancels'
    BY <1>0, <2>2, <2>3 DEF TimedType, FirstCancels
  <2> QED
    BY <2>2, <2>5, <2>6, <2>7 DEF TimedIInv
<1>21. ASSUME NEW t \in Others, ~Stopped, Test(t) PROVE TimedIInv'
  <2>1. UNCHANGED mutex /\ at[t] = "test" /\ HasMutex(at[t])
    BY <1>21 DEF Test, HasMutex
  <2>2. CASE Go(t, "V")
    <3>1. /\ at' \in [TimedThreads -> TimedLabels] /\ at'[t] = "V"
          /\ \A u \in TimedThreads \ {t} : at'[u] = at[u]
          /\ mutex' \in {0, 1} /\ MutexHeld'
      BY <1>0, <2>1, <2>2, OneGoes DEF HasMutex, TimedLabels
    <3> QED
      BY <1>0, <1>21, <2>1, <3>1 DEF Test, OtherOf, Stopped,
         TimedIInv, TimedType, Created, BothEnded, LateIsWhy, FirstCancels
  <2>3. CASE Go("main", "undefined")
    <3>1. ~HasMutex(at["main"])
      BY <1>0, <2>1 DEF MutexHeld
    <3>2. /\ at' \in [TimedThreads -> TimedLabels] /\ at'["main"] = "undefined"
          /\ \A u \in TimedThreads \ {"main"} : at'[u] = at[u]
          /\ mutex' \in {0, 1} /\ MutexHeld'
      BY <1>0, <2>1, <2>3, <3>1, OneGoes DEF HasMutex, TimedLabels
    <3>3. UNCHANGED <<version, input, late, sigabrt, res>>
      BY <1>21 DEF Test
    <3>4. /\ finished' \in BOOLEAN /\ cancelled' \subseteq Others
          /\ FirstCancels' /\ (t = "reader" => "reader" \notin cancelled' \ cancelled)
      BY <1>0, <1>21 DEF Test, OtherOf, TimedType, FirstCancels
    <3>5. LateIsWhy'
      BY <1>0, <2>1, <3>2, <3>3, <3>4 DEF LateIsWhy
    <3>6. TimedType' /\ Created' /\ BothEnded'
      BY <1>0, <3>2, <3>3, <3>4 DEF TimedType, Created, BothEnded
    <3> QED
      BY <3>2, <3>4, <3>5, <3>6 DEF TimedIInv
  <2> QED
    BY <1>21, <2>2, <2>3 DEF Test
<1> QED
  BY <1>1, <1>2, <1>3, <1>4, <1>5, <1>6, <1>7, <1>8, <1>9, <1>10, <1>11, <1>12, <1>13, <1>14, <1>15, <1>16, <1>17, <1>18, <1>19, <1>20, <1>21
  DEF TimedNext, MainStep, OtherStep

(* It holds in every state of the three programs.                          *)
LEMMA TimedIInvHolds == TimedSpec => []TimedIInv
  BY TimedStart, TimedKeeps, PTL DEF TimedSpec

(* Whoever comes first, only one of the two threads cancels the other, the *)
(* mutex is free when tfgets returns, and NULL has a reason.               *)
THEOREM TimedReadSafe == TimedSpec => []TimedSafe
<1>1. TimedIInv => TimedSafe
  <2> SUFFICES ASSUME TimedIInv PROVE TimedSafe
    OBVIOUS
  <2>1. NullForAReason /\ OneCancels
    BY DEF TimedIInv, LateIsWhy, FirstCancels, NullForAReason, OneCancels
  <2>2. MutexFree
    <3> SUFFICES ASSUME version = "p1233", at["main"] = "returned"
                 PROVE  mutex = 1 /\ \A t \in Others : at[t] = "done"
      BY DEF MutexFree
    <3>1. \A t \in Others : at[t] = "done"
      BY DEF TimedIInv, BothEnded
    <3>2. \A t \in TimedThreads : ~HasMutex(at[t])
      BY <3>1, TimedPlaces DEF HasMutex
    <3> QED
      BY <3>1, <3>2 DEF TimedIInv, MutexHeld
  <2> QED
    BY <2>1, <2>2 DEF TimedSafe
<1> QED
  BY <1>1, TimedIInvHolds, PTL
=============================================================================
