--------------------------- MODULE ReadersWriters ----------------------------
(***************************************************************************)
(* The three readers-writers locks of src/ch12: p1219.c prefers readers,   *)
(* p1220.c admits at most N of them and needs no counter, p1221.c prefers  *)
(* writers.  Their threads loop for ever.  Each function is a table of     *)
(* instructions, pc[t] the one thread t is about to execute; `program'     *)
(* says which of the three files is running.                               *)
(***************************************************************************)
EXTENDS Integers, Sequences, FiniteSets

CONSTANTS Readers, Writers,   \* threads in reader() and in writer()
          N                   \* N of p1220.c

ASSUME RWAssumption ==
  /\ IsFiniteSet(Readers) /\ IsFiniteSet(Writers)
  /\ Readers \cap Writers = {}
  /\ N \in Nat \ {0}

VARIABLES program, sem, count, pc

rwvars == <<program, sem, count, pc>>
RWThreads == Readers \cup Writers

-----------------------------------------------------------------------------
(* P and V; the counters readcnt and writecnt; P by the first one in and V *)
(* by the last one out; the critical section.                              *)
P(s) == [op |-> "P", sem |-> s, cnt |-> ""]
V(s) == [op |-> "V", sem |-> s, cnt |-> ""]
Inc(c) == [op |-> "inc", sem |-> "", cnt |-> c]
Dec(c) == [op |-> "dec", sem |-> "", cnt |-> c]
PIfFirst(c, s) == [op |-> "Pfirst", sem |-> s, cnt |-> c]
VIfLast(c, s) == [op |-> "Vlast", sem |-> s, cnt |-> c]
Use == [op |-> "use", sem |-> "", cnt |-> ""]

Reader1219 == <<P("mutex"), Inc("read"), PIfFirst("read", "w"), V("mutex"),
                Use,
                P("mutex"), Dec("read"), VIfLast("read", "w"), V("mutex")>>

(* Seeded bug: writers do not queue behind one another before w.           *)
BugWriter1219 == <<P("w"), Use, V("w")>>

Writer1219 == <<P("priority_mtx"), P("w"), Use, V("w"), V("priority_mtx")>>

Times(instr) == [i \in 1..N |-> instr]

Reader1220 == <<P("counter"), Use, V("counter")>>

(* Seeded bug: two writers collect places at the same time.                *)
BugWriter1220 == Times(P("counter")) \o <<Use>> \o Times(V("counter"))

Writer1220 == <<P("mutex")>> \o Times(P("counter")) \o <<Use>>
                \o Times(V("counter")) \o <<V("mutex")>>

(* Seeded bug: the first reader in does not wait for w.                    *)
BugReader1221 == <<P("r"), P("mutex1"), Inc("read"), V("mutex1"), V("r"),
                   Use,
                   P("mutex1"), Dec("read"), V("mutex1")>>

Reader1221 == <<P("r"), P("mutex1"), Inc("read"), PIfFirst("read", "w"),
                V("mutex1"), V("r"),
                Use,
                P("mutex1"), Dec("read"), VIfLast("read", "w"), V("mutex1")>>

(* Seeded bug: writers do not keep new readers out while they wait.        *)
BugWriter1221 == <<P("mutex2"), Inc("write"), V("mutex2"),
                   P("w"), Use, V("w"),
                   P("mutex2"), Dec("write"), V("mutex2")>>

Writer1221 == <<P("mutex2"), Inc("write"), PIfFirst("write", "r"), V("mutex2"),
                P("w"), Use, V("w"),
                P("mutex2"), Dec("write"), VIfLast("write", "r"), V("mutex2")>>

ReaderCode == [p1219 |-> Reader1219, p1220 |-> Reader1220, p1221 |-> Reader1221]
WriterCode == [p1219 |-> Writer1219, p1220 |-> Writer1220, p1221 |-> Writer1221]

Code(t) == (IF t \in Readers THEN ReaderCode ELSE WriterCode)[program]
Instr(t) == Code(t)[pc[t]]

(* The semaphores are 1 at first, except for the places of p1220.c.        *)
Sems == {"mutex", "w", "priority_mtx", "counter", "mutex1", "mutex2", "r"}

Initially(s) == IF s = "counter" THEN N ELSE 1

RWInit == /\ program \in {"p1219", "p1220", "p1221"}
          /\ sem = [s \in Sems |-> Initially(s)]
          /\ count = [c \in {"read", "write"} |-> 0]
          /\ pc = [t \in RWThreads |-> 1]

-----------------------------------------------------------------------------
Advance(t) == /\ pc' = [pc EXCEPT ![t] = 1 + (@ % Len(Code(t)))]
              /\ UNCHANGED program

(* Whether the instruction of t takes or gives its semaphore at all.       *)
Takes(t) == \/ Instr(t).op = "P"
            \/ Instr(t).op = "Pfirst" /\ count[Instr(t).cnt] = 1
Gives(t) == \/ Instr(t).op = "V"
            \/ Instr(t).op = "Vlast" /\ count[Instr(t).cnt] = 0

Take(t) == /\ Takes(t)
           /\ sem[Instr(t).sem] > 0
           /\ sem' = [sem EXCEPT ![Instr(t).sem] = @ - 1]
           /\ Advance(t)
           /\ UNCHANGED count

Give(t) == /\ Gives(t)
           /\ sem' = [sem EXCEPT ![Instr(t).sem] = @ + 1]
           /\ Advance(t)
           /\ UNCHANGED count

Count(t) == /\ Instr(t).op \in {"inc", "dec"}
            /\ count' = [count EXCEPT ![Instr(t).cnt] =
                           IF Instr(t).op = "inc" THEN @ + 1 ELSE @ - 1]
            /\ Advance(t)
            /\ UNCHANGED sem

(* The critical section is left; or there is nothing to take or to give.   *)
Pass(t) == /\ Instr(t).op \in {"use", "Pfirst", "Vlast"}
           /\ ~Takes(t) /\ ~Gives(t)
           /\ Advance(t)
           /\ UNCHANGED <<sem, count>>

RWStep(t) == Take(t) \/ Give(t) \/ Count(t) \/ Pass(t)
RWNext == \E t \in RWThreads : RWStep(t)

(* Every thread runs on while it can; a semaphore may let a thread wait as *)
(* long as others keep taking it.                                          *)
RWSpec == RWInit /\ [][RWNext]_rwvars /\ \A t \in RWThreads : WF_rwvars(RWStep(t))
-----------------------------------------------------------------------------
Inside(t) == Instr(t).op = "use"
WaitsFor(t, s) == Takes(t) /\ Instr(t).sem = s

RWTypeOK ==
  /\ program \in {"p1219", "p1220", "p1221"}
  /\ sem \in [Sems -> 0..N]
  /\ count \in [{"read", "write"} -> 0..Cardinality(RWThreads)]
  /\ \A t \in RWThreads : pc[t] \in DOMAIN Code(t)

Lock == INSTANCE RWLock WITH reading <- {t \in Readers : Inside(t)},
                             writing <- {t \in Writers : Inside(t)}

(* Whatever the order of the P's and V's of the threads, each of the three *)
(* lets a writer in alone and readers only without a writer.               *)
ImplementsLock == Lock!Spec

(* p1220.c: at most N readers are inside at a time, and a writer needs the *)
(* places of all of them.                                                  *)
ReadersBounded == program = "p1220" => Cardinality({t \in Readers : Inside(t)}) <= N

(* p1219.c: when a writer leaves, whoever sleeps for w is a reader, so the *)
(* V(w) of the writer goes to the readers first: other writers still wait  *)
(* for priority_mtx.                                                       *)
ReadersNext ==
  program = "p1219" =>
    \A u, v \in Writers : Inside(u) /\ u # v => ~WaitsFor(v, "w")

(* What each of the three promises about who is inside and who waits.      *)
RWSafe == RWTypeOK /\ ReadersBounded /\ ReadersNext

(* p1221.c: from the moment a writer waits for w to the moment it is       *)
(* inside, no reader gets past P(r).                                       *)
WritersFirst ==
  [][program = "p1221" /\ (\E u \in Writers : WaitsFor(u, "w")) =>
       \A t \in Readers : WaitsFor(t, "r") => pc'[t] = pc[t]]_rwvars

(* However the threads run, somebody gets inside again and again: no state *)
(* has everybody waiting for everybody, as two writers of p1220.c would    *)
(* that had each taken some of the N places.                               *)
SomeoneEnters == []<>(\E t \in RWThreads : Inside(t))

(* p1221.c: a writer that waits for w has r, or another writer has it for  *)
(* all of them: from then on a writer gets inside, however many readers    *)
(* come.  Of a writer that still waits for r nothing is said: a semaphore  *)
(* keeps no order, and readers may overtake it there for ever.             *)
WritersGetIn ==
  program = "p1221" /\ (\E u \in Writers : WaitsFor(u, "w"))
    ~> \E u \in Writers : Inside(u)
=============================================================================
