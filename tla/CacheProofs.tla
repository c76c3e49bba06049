---------------------------- MODULE CacheProofs -----------------------------
(***************************************************************************)
(* Theorems about two caches.  That of the proxy, Cache: its lock and its  *)
(* entries, for any finite set of workers, any keys, sizes and limits.     *)
(* And the simulated one, Csim: it replaces what has not been used for the *)
(* longest time, for every trace and every geometry CsimAssumption admits. *)
(* The stamps of the valid lines of a set order them by age; a line that   *)
(* is used, held or filled, becomes the first in that order.               *)
(***************************************************************************)
EXTENDS Cache, Csim, Counting, SequencesExt, TLAPS

Labels == {"idle"} \cup ReadLabels \cup WriteLabels

(* There are finitely many workers to count.                               *)
LEMMA WorkersFinite == IsFiniteSet(Workers)
  BY CacheAssumption DEF CacheAssumption

(* The part of the type invariant that the lock depends on.                *)
LockType == /\ pc \in [Workers -> Labels]
            /\ toucher \in [Workers -> BOOLEAN]
            /\ readcnt \in Nat

(* increase_touch is 0 but in a reader that is inside or leaving.          *)
NoTouchYet == \A t \in Workers : pc[t] \notin Reading \cup {"r_out"} => ~toucher[t]

(* LockInv with the empty sets spelled out.                                *)
LockFacts ==
  /\ \A t, u \in Workers : pc[t] \in Locking /\ pc[u] \in Locking => t = u
  /\ mutex = IF \A t \in Workers : pc[t] \notin Locking THEN 1 ELSE 0
  /\ readcnt = Num(Workers, pc, Counted)
  /\ w = IF \A t \in Workers : pc[t] \notin Reading \cup Writing THEN 1 ELSE 0
  /\ \A t, u \in Workers : pc[t] = "r_first" => pc[u] \notin Reading

(* What the proofs call LockFacts is the invariant the runs check.         *)
LEMMA LockFactsMean == LockInv <=> LockFacts
<1>1. \A L : At(L) = {} <=> \A t \in Workers : pc[t] \notin L
  BY DEF At
<1>2. Cardinality(At(Counted)) = Num(Workers, pc, Counted)
  BY DEF At, Num, Placed
<1>3. At({"r_first"}) # {} => At(Reading) = {}
        <=> \A t, u \in Workers : pc[t] = "r_first" => pc[u] \notin Reading
  BY <1>1
<1> QED
  BY <1>1, <1>2, <1>3 DEF LockInv, LockFacts

(* How many readers are counted after a worker has moved.                  *)
LEMMA CountedMove ==
  ASSUME LockType, NEW t \in Workers, NEW from, NEW to, Goto(t, from, to)
  PROVE  /\ pc[t] = from
         /\ \A u \in Workers : pc'[u] = IF u = t THEN to ELSE pc[u]
         /\ Num(Workers, pc, Counted) \in Nat
         /\ Num(Workers, pc', Counted)
              = Num(Workers, pc, Counted) + (IF to \in Counted THEN 1 ELSE 0)
                                          - (IF from \in Counted THEN 1 ELSE 0)
<1>1. /\ pc \in [Workers -> Labels] /\ pc[t] = from
      /\ \A u \in Workers : pc'[u] = IF u = t THEN to ELSE pc[u]
  BY DEF LockType, Goto
<1>2. ASSUME NEW L
      PROVE  Num(Workers, pc', L)
               = Num(Workers, pc, L) + (IF to \in L THEN 1 ELSE 0)
                                     - (IF pc[t] \in L THEN 1 ELSE 0)
  BY <1>1, WorkersFinite, NumMove
<1>3. Num(Workers, pc, Counted) \in Nat
  BY WorkersFinite, PlacedFinite
<1> QED
  BY <1>1, <1>2, <1>3

(* A step that changes nobody's part in the lock keeps its invariant.      *)
LEMMA LockStay ==
  ASSUME LockType, LockFacts, NEW t \in Workers, NEW from, NEW to,
         Goto(t, from, to), UNCHANGED lock,
         \A L \in {Locking, Counted, Reading, Writing, {"r_first"}} :
            from \in L <=> to \in L
  PROVE  LockFacts'
<1>1. /\ pc[t] = from
      /\ \A u \in Workers : pc'[u] = IF u = t THEN to ELSE pc[u]
      /\ Num(Workers, pc', Counted) = Num(Workers, pc, Counted)
  BY CountedMove
<1>2. \A u \in Workers : /\ pc'[u] \in Locking <=> pc[u] \in Locking
                         /\ pc'[u] \in Reading <=> pc[u] \in Reading
                         /\ pc'[u] \in Writing <=> pc[u] \in Writing
                         /\ pc'[u] = "r_first" <=> pc[u] = "r_first"
  BY <1>1
<1> QED
  BY <1>1, <1>2 DEF LockFacts, lock

(* The invariant the proofs carry from step to step.                       *)
LockIInv == LockType /\ LockFacts /\ RWExclusion /\ NoTouchYet /\ OneToucher

(* The types of the lock's variables are kept.                             *)
LEMMA LockTypeKept ==
  ASSUME LockIInv, [Next]_vars
  PROVE  LockType'
<1> USE DEF LockType, Goto, Labels, ReadLabels, WriteLabels, local, lock, store
<1>0. LockType
  BY DEF LockIInv
<1>1. ASSUME NEW t \in Workers, ReadCall(t) PROVE LockType'
  BY <1>0, <1>1 DEF ReadCall
<1>2. ASSUME NEW t \in Workers, Read(t) PROVE LockType'
  <2>1. CASE ReadP(t, "r_enter", "r_count")
    BY <1>0, <2>1 DEF ReadP
  <2>2. CASE ReadCount(t)
    BY <1>0, <2>2 DEF ReadCount
  <2>3. CASE ReadFirst(t)
    BY <1>0, <2>3 DEF ReadFirst
  <2>4. CASE ReadV(t)
    BY <1>0, <2>4 DEF ReadV
  <2>5. CASE ReadSearch(t)
    BY <1>0, <2>5 DEF ReadSearch
  <2>6. CASE ReadCopy(t)
    BY <1>0, <2>6 DEF ReadCopy
  <2>7. CASE ReadP(t, "r_leave", "r_uncount")
    BY <1>0, <2>7 DEF ReadP
  <2>8. CASE ReadUncount(t)
    <3>1. readcnt = Num(Workers, pc, Counted) /\ pc[t] = "r_uncount"
      BY <2>8 DEF LockIInv, LockFacts, ReadUncount
    <3>2. Num(Workers, pc, Counted) # 0
      BY <3>1, WorkersFinite, NumPositive DEF Counted
    <3> QED
      BY <1>0, <2>8, <3>1, <3>2 DEF ReadUncount
  <2>9. CASE ReadReturn(t)
    BY <1>0, <2>9 DEF ReadReturn
  <2> QED
    BY <1>2, <2>1, <2>2, <2>3, <2>4, <2>5, <2>6, <2>7, <2>8, <2>9 DEF Read
<1>3. ASSUME NEW t \in Workers, WriteCall(t) PROVE LockType'
  BY <1>0, <1>3 DEF WriteCall
<1>4. ASSUME NEW t \in Workers, Write(t) PROVE LockType'
  <2>1. CASE WriteP(t)
    BY <1>0, <2>1 DEF WriteP
  <2>2. CASE Evict(t)
    BY <1>0, <2>2 DEF Evict
  <2>3. CASE Place(t)
    BY <1>0, <2>3 DEF Place
  <2>4. CASE AddSize(t)
    BY <1>0, <2>4 DEF AddSize
  <2>5. CASE WriteV(t)
    BY <1>0, <2>5 DEF WriteV
  <2> QED
    BY <1>4, <2>1, <2>2, <2>3, <2>4, <2>5 DEF Write
<1>5. CASE UNCHANGED vars
  BY <1>0, <1>5 DEF vars
<1> QED
  BY <1>1, <1>2, <1>3, <1>4, <1>5 DEF Next

(* Every step keeps the lock's own invariant.                              *)
LEMMA LockFactsKept ==
  ASSUME LockIInv, [Next]_vars
  PROVE  LockFacts'
<1> USE DEF Locking, Counted, Reading, Writing
<1>0. LockType /\ LockFacts
  BY DEF LockIInv
<1>1. ASSUME NEW t \in Workers, ReadCall(t) PROVE LockFacts'
  <2>1. Goto(t, "idle", "r_enter") /\ UNCHANGED lock
    BY <1>1 DEF ReadCall
  <2> QED
    BY <1>0, <2>1, LockStay
<1>2. ASSUME NEW t \in Workers, Read(t) PROVE LockFacts'
  <2>1. ASSUME NEW from, NEW to, from \in {"r_enter", "r_leave"},
               to = (IF from = "r_enter" THEN "r_count" ELSE "r_uncount"),
               ReadP(t, from, to)
        PROVE  LockFacts'
    BY <1>0, <2>1, CountedMove DEF ReadP, LockFacts
  <2>2. CASE ReadCount(t)
    <3> DEFINE to == IF readcnt + 1 = 1 THEN "r_first" ELSE "r_in"
    <3>1. /\ pc[t] = "r_count" /\ \A u \in Workers : pc'[u] = IF u = t THEN to ELSE pc[u]
          /\ Num(Workers, pc', Counted) = Num(Workers, pc, Counted) + 1
          /\ mutex' = mutex /\ w' = w /\ readcnt' = readcnt + 1 /\ readcnt \in Nat
      BY <1>0, <2>2, CountedMove DEF ReadCount, LockType
    <3>2. \A u \in Workers : u # t => pc[u] \notin Locking
      BY <1>0, <3>1 DEF LockFacts
    <3>3. CASE readcnt = 0
      <4>1. \A u \in Workers : pc[u] \notin Counted
        BY <1>0, <3>3, WorkersFinite, NumPositive DEF LockFacts
      <4> QED
        BY <1>0, <3>1, <3>2, <3>3, <4>1 DEF LockFacts
    <3>4. CASE readcnt # 0
      <4>1. PICK u \in Workers : pc[u] \in Counted
        BY <1>0, <3>4, WorkersFinite, NumPositive DEF LockFacts
      <4>2. u # t /\ pc[u] \in Reading
        BY <3>1, <3>2, <4>1
      <4>3. to = "r_in"
        BY <3>1, <3>4
      <4> HIDE DEF to
      <4> QED
        BY <1>0, <3>1, <3>2, <4>2, <4>3 DEF LockFacts
    <3> QED
      BY <3>3, <3>4
  <2>3. CASE ReadFirst(t)
    BY <1>0, <2>3, CountedMove DEF ReadFirst, LockFacts
  <2>4. CASE ReadV(t)
    BY <1>0, <2>4, CountedMove DEF ReadV, LockFacts
  <2>8. CASE ReadReturn(t)
    BY <1>0, <2>8, CountedMove DEF ReadReturn, LockFacts
  <2>5. CASE ReadSearch(t)
    BY <1>0, <2>5, LockStay DEF ReadSearch
  <2>6. CASE ReadCopy(t)
    BY <1>0, <2>6, LockStay DEF ReadCopy
  <2>7. CASE ReadUncount(t)
    <3>1. /\ pc[t] = "r_uncount"
          /\ \A u \in Workers : pc'[u] = IF u = t THEN "r_out" ELSE pc[u]
          /\ Num(Workers, pc, Counted) \in Nat
          /\ Num(Workers, pc', Counted) = Num(Workers, pc, Counted) - 1
          /\ mutex' = mutex /\ readcnt' = readcnt - 1 /\ readcnt \in Nat
          /\ w' = IF readcnt' = 0 THEN w + 1 ELSE w
      BY <1>0, <2>7, CountedMove DEF ReadUncount, LockType
    <3>2. \A u \in Workers : u # t => pc[u] \notin Locking /\ pc[u] \notin Writing
      BY <1>0, <3>1 DEF LockFacts, LockIInv, RWExclusion
    <3>3. w = 0 /\ readcnt = Num(Workers, pc, Counted)
      BY <1>0, <3>1 DEF LockFacts
    <3>4. CASE readcnt' = 0
      <4>1. \A u \in Workers : pc'[u] \notin Counted
        BY <3>1, <3>3, <3>4, WorkersFinite, NumPositive
      <4> QED
        BY <1>0, <3>1, <3>2, <3>3, <3>4, <4>1 DEF LockFacts
    <3>5. CASE readcnt' # 0
      <4>1. PICK u \in Workers : pc'[u] \in Counted
        BY <3>1, <3>3, <3>5, WorkersFinite, NumPositive
      <4>2. u # t /\ pc[u] \in Reading
        BY <3>1, <3>2, <4>1
      <4> QED
        BY <1>0, <3>1, <3>2, <3>3, <3>5, <4>2 DEF LockFacts
    <3> QED
      BY <3>4, <3>5
  <2> QED
    BY <1>2, <2>1, <2>2, <2>3, <2>4, <2>5, <2>6, <2>7, <2>8 DEF Read
<1>3. ASSUME NEW t \in Workers, WriteCall(t) PROVE LockFacts'
  <2>1. CASE pc' = pc
    BY <1>0, <1>3, <2>1 DEF WriteCall, LockFacts, lock
  <2>2. CASE pc' # pc
    BY <1>0, <1>3, <2>2, LockStay DEF WriteCall
  <2> QED
    BY <2>1, <2>2
<1>4. ASSUME NEW t \in Workers, Write(t) PROVE LockFacts'
  <2>1. CASE WriteP(t)
    BY <1>0, <2>1, CountedMove DEF WriteP, LockFacts
  <2>2. CASE Evict(t)
    BY <1>0, <2>2 DEF Evict, LockFacts, lock
  <2>3. CASE Place(t)
    BY <1>0, <2>3, LockStay DEF Place
  <2>4. CASE AddSize(t)
    BY <1>0, <2>4, LockStay DEF AddSize
  <2>5. CASE WriteV(t)
    BY <1>0, <2>5, CountedMove DEF WriteV, LockFacts, LockIInv, RWExclusion
  <2> QED
    BY <1>4, <2>1, <2>2, <2>3, <2>4, <2>5 DEF Write
<1>5. CASE UNCHANGED vars
  BY <1>0, <1>5 DEF vars, LockFacts
<1> QED
  BY <1>1, <1>2, <1>3, <1>4, <1>5 DEF Next

(* One worker moves; the others stay where they are.                       *)
LEMMA OneMoves ==
  ASSUME LockType, [Next]_vars
  PROVE  \/ UNCHANGED <<pc, toucher, w>>
         \/ \E t \in Workers :
              /\ \A u \in Workers \ {t} : pc'[u] = pc[u] /\ toucher'[u] = toucher[u]
              /\ \/ pc[t] = "r_first" /\ pc'[t] = "r_in" /\ w > 0
                 \/ pc[t] = "w_enter" /\ pc'[t] = "w_fit" /\ w > 0 /\ toucher'[t] = toucher[t]
                 \/ pc[t] = "r_count" /\ pc'[t] = "r_in" /\ toucher'[t] = toucher[t]
                      /\ readcnt # 0
                 \/ pc[t] = "r_out" /\ pc'[t] = "idle" /\ ~toucher'[t]
                 \/ /\ toucher'[t] = toucher[t]
                    /\ pc[t] \in Reading \cup {"r_out"} => pc'[t] \in Reading \cup {"r_out"}
                    /\ pc'[t] \in Reading => pc[t] \in Reading
                    /\ pc'[t] \in Writing => pc[t] \in Writing
<1> USE DEF LockType, Goto, local, lock, store, Reading, Counted, Writing
<1>1. ASSUME NEW t \in Workers, ReadCall(t) \/ WriteCall(t)
      PROVE  pc[t] = "idle" /\ pc' = [pc EXCEPT ![t] = pc'[t]]
             /\ pc'[t] \in {"idle", "r_enter", "w_enter"} /\ toucher' = toucher
  BY <1>1 DEF ReadCall, WriteCall
<1>2. ASSUME NEW t \in Workers, Read(t)
      PROVE  pc' = [pc EXCEPT ![t] = pc'[t]]
             /\ \/ pc[t] = "r_first" /\ pc'[t] = "r_in" /\ w > 0
                     /\ toucher' = [toucher EXCEPT ![t] = TRUE]
                \/ pc[t] = "r_out" /\ pc'[t] = "idle"
                     /\ toucher' = [toucher EXCEPT ![t] = FALSE]
                \/ /\ toucher' = toucher
                   /\ \/ pc[t] = "r_enter" /\ pc'[t] = "r_count"
                      \/ pc[t] = "r_count" /\ pc'[t] = "r_first"
                      \/ pc[t] = "r_count" /\ pc'[t] = "r_in" /\ readcnt # 0
                      \/ pc[t] \in Reading /\ pc'[t] \in Reading \cup {"r_out"}
  BY <1>2 DEF Read, ReadP, ReadCount, ReadFirst, ReadV, ReadSearch, ReadCopy, ReadUncount,
             ReadReturn
<1>3. ASSUME NEW t \in Workers, Write(t)
      PROVE  pc' = [pc EXCEPT ![t] = pc'[t]] /\ toucher' = toucher
             /\ \/ pc[t] = "w_enter" /\ pc'[t] = "w_fit" /\ w > 0
                \/ pc[t] \in Writing /\ pc'[t] \in Writing \cup {"idle"}
  BY <1>3 DEF Write, WriteP, Evict, Place, AddSize, WriteV
<1>4. CASE UNCHANGED vars
  BY <1>4 DEF vars
<1>5. ASSUME NEW t \in Workers, ReadCall(t) \/ WriteCall(t) \/ Read(t) \/ Write(t)
      PROVE  \A u \in Workers \ {t} : pc'[u] = pc[u] /\ toucher'[u] = toucher[u]
  BY <1>1, <1>2, <1>3, <1>5
<1> QED
  BY <1>1, <1>2, <1>3, <1>4, <1>5 DEF Next

(* A writer is alone: nobody passes P(w) while another reads or writes.    *)
LEMMA ExclusionKept ==
  ASSUME LockIInv, [Next]_vars
  PROVE  RWExclusion' /\ NoTouchYet' /\ OneToucher'
<1> USE DEF Reading, Counted, Writing
<1>1. LockType /\ LockFacts /\ RWExclusion /\ NoTouchYet /\ OneToucher
  BY DEF LockIInv
<1>2. w > 0 => \A u \in Workers : pc[u] \notin Reading \cup Writing
  BY <1>1 DEF LockFacts
<1>3. readcnt # 0 => \E u \in Workers : pc[u] \in Counted
  BY <1>1, WorkersFinite, NumPositive DEF LockFacts
<1>4. ASSUME NEW t \in Workers, pc[t] = "r_count", readcnt # 0
      PROVE  \A u \in Workers : pc[u] \notin Writing
  <2>1. PICK v \in Workers : pc[v] \in Counted
    BY <1>3, <1>4
  <2>2. pc[v] \in Reading
    BY <1>1, <1>4, <2>1 DEF LockFacts, Locking
  <2> QED
    BY <1>1, <2>2 DEF RWExclusion
<1>5. CASE UNCHANGED <<pc, toucher, w>>
  BY <1>1, <1>5 DEF RWExclusion, NoTouchYet, OneToucher
<1>6. CASE ~UNCHANGED <<pc, toucher, w>>
  <2>1. PICK t \in Workers :
          /\ \A u \in Workers \ {t} : pc'[u] = pc[u] /\ toucher'[u] = toucher[u]
          /\ \/ pc[t] = "r_first" /\ pc'[t] = "r_in" /\ w > 0
             \/ pc[t] = "w_enter" /\ pc'[t] = "w_fit" /\ w > 0 /\ toucher'[t] = toucher[t]
             \/ pc[t] = "r_count" /\ pc'[t] = "r_in" /\ toucher'[t] = toucher[t]
                  /\ readcnt # 0
             \/ pc[t] = "r_out" /\ pc'[t] = "idle" /\ ~toucher'[t]
             \/ /\ toucher'[t] = toucher[t]
                /\ pc[t] \in Reading \cup {"r_out"} => pc'[t] \in Reading \cup {"r_out"}
                /\ pc'[t] \in Reading => pc[t] \in Reading
                /\ pc'[t] \in Writing => pc[t] \in Writing
    BY <1>1, <1>6, OneMoves
  <2>2. RWExclusion'
    BY <1>1, <1>2, <1>4, <2>1 DEF RWExclusion
  <2>3. NoTouchYet'
    BY <1>1, <2>1 DEF NoTouchYet
  <2>4. OneToucher'
    BY <1>1, <1>2, <2>1 DEF OneToucher, NoTouchYet
  <2> QED
    BY <2>2, <2>3, <2>4
<1> QED
  BY <1>5, <1>6

(* The inductive invariant holds in every reachable state.                 *)
THEOREM LockIInvHolds == Spec => []LockIInv
<1>1. Init => LockIInv
  <2> SUFFICES ASSUME Init PROVE LockIInv
    OBVIOUS
  <2>1. Num(Workers, pc, Counted) = 0
    BY WorkersFinite, NumPositive DEF Init, Counted
  <2>2. LockFacts
    BY <2>1 DEF Init, LockFacts, Counted, Reading, Writing, Locking
  <2> QED
    BY <2>2 DEF Init, LockIInv, LockType, Labels, RWExclusion, NoTouchYet,
                OneToucher, Reading, Counted, Writing
<1>2. LockIInv /\ [Next]_vars => LockIInv'
  BY LockTypeKept, LockFactsKept, ExclusionKept DEF LockIInv
<1> QED
  BY <1>1, <1>2, PTL DEF Spec

(* A thread that changes the entries is alone with them.                   *)
THEOREM WriterExcludesAll == Spec => []RWExclusion
<1>1. LockIInv => RWExclusion
  BY DEF LockIInv
<1> QED
  BY <1>1, LockIInvHolds, PTL

(* readcnt, mutex and w say exactly who is where.                          *)
THEOREM LockCounts == Spec => []LockInv
<1>1. LockIInv => LockInv
  BY LockFactsMean DEF LockIInv
<1> QED
  BY <1>1, LockIInvHolds, PTL

(* At most one reader inside increments touch counts.                      *)
THEOREM SingleToucher == Spec => []OneToucher
<1>1. LockIInv => OneToucher
  BY DEF LockIInv
<1> QED
  BY <1>1, LockIInvHolds, PTL

(* The invariant of the runs: the three theorems in one.                   *)
THEOREM LockIsSafe == Spec => []LockSafe
<1>1. RWExclusion /\ LockInv /\ OneToucher => LockSafe
  BY DEF LockSafe
<1> QED
  BY <1>1, WriterExcludesAll, LockCounts, SingleToucher, PTL
-----------------------------------------------------------------------------
(* Who is at the labels L after a worker has moved.                        *)
LEMMA AtMove ==
  ASSUME LockType, NEW t \in Workers, NEW from, NEW to, Goto(t, from, to), NEW L
  PROVE  /\ pc[t] = from
         /\ At(L)' = (At(L) \ {t}) \cup (IF to \in L THEN {t} ELSE {})
<1>1. /\ pc[t] = from
      /\ \A u \in Workers : pc'[u] = IF u = t THEN to ELSE pc[u]
  BY DEF LockType, Goto
<1> QED
  BY <1>1 DEF At

Inside == {"r_search", "r_copy"}
Changing == {"w_fit", "w_total"}

(* A step from a label to one that is in the same of the two sets, or in   *)
(* neither, is no step of the lock.                                        *)
LEMMA StayStutters ==
  ASSUME LockType, NEW t \in Workers, NEW from, NEW to, Goto(t, from, to),
         from \in Inside <=> to \in Inside,
         from \in Changing <=> to \in Changing
  PROVE  UNCHANGED <<At(Inside), At(Changing)>>
<1>1. At(Inside)' = At(Inside)
  BY AtMove DEF At
<1>2. At(Changing)' = At(Changing)
  BY AtMove DEF At
<1> QED
  BY <1>1, <1>2

(* Each step of the cache is a step of the lock, or none.                  *)
LEMMA StepsOfLock ==
  ASSUME LockIInv, LockIInv', [Next]_vars
  PROVE  [Lock!Next]_<<At(Inside), At(Changing)>>
<1> DEFINE Mapped == [Lock!Next]_<<At(Inside), At(Changing)>>
<1> SUFFICES Mapped
  OBVIOUS
<1>0. /\ LockType
      /\ \A t, u \in Workers :
           pc[t] \in Writing /\ pc[u] \in Reading \cup Writing => t = u
      /\ \A t, u \in Workers :
           pc'[t] \in Writing /\ pc'[u] \in Reading \cup Writing => t = u
  BY DEF LockIInv, RWExclusion
<1>1. ASSUME NEW t \in Workers, ReadCall(t) \/ WriteCall(t) PROVE Mapped
  <2>1. CASE Goto(t, "idle", "r_enter") \/ Goto(t, "idle", "w_enter")
    BY <1>0, <2>1, StayStutters DEF Inside, Changing
  <2>2. CASE UNCHANGED pc
    BY <2>2 DEF At
  <2> QED
    BY <1>1, <2>1, <2>2 DEF ReadCall, WriteCall
<1>2. ASSUME NEW t \in Workers, Read(t) PROVE Mapped
  <2>1. CASE ReadV(t)
    <3>1. /\ pc[t] = "r_in"
          /\ At(Inside)' = At(Inside) \cup {t}
          /\ At(Changing)' = At(Changing) \ {t}
          /\ pc'[t] = "r_search"
      BY <1>0, <2>1, AtMove DEF ReadV, Inside, Changing, Goto, At, LockType
    <3>2. At(Changing) = {} /\ t \notin At(Inside) /\ At(Changing)' = At(Changing)
      BY <1>0, <3>1 DEF At, Inside, Changing, Writing, Reading, Counted
    <3>3. Lock!StartRead(t)
      BY <3>1, <3>2 DEF Lock!StartRead, Inside, Changing
    <3> QED
      BY <3>3 DEF Lock!Next
  <2>2. CASE ReadSearch(t) \/ ReadCopy(t)
    <3>1. \/ Goto(t, "r_search", "r_copy")
          \/ Goto(t, "r_search", "r_leave") \/ Goto(t, "r_copy", "r_leave")
      BY <2>2 DEF ReadSearch, ReadCopy
    <3>2. CASE Goto(t, "r_search", "r_copy")
      BY <1>0, <3>2, StayStutters DEF Inside, Changing
    <3>3. CASE Goto(t, "r_search", "r_leave") \/ Goto(t, "r_copy", "r_leave")
      <4> PICK from \in Inside : Goto(t, from, "r_leave")
        BY <3>3 DEF Inside
      <4>1. /\ pc[t] \in Inside
            /\ At(Inside)' = At(Inside) \ {t}
            /\ At(Changing)' = At(Changing) \ {t}
        BY <1>0, AtMove DEF Inside, Changing
      <4>2. t \in At(Inside) /\ At(Changing)' = At(Changing)
        BY <4>1 DEF At, Inside, Changing
      <4>3. Lock!EndRead(t)
        BY <4>1, <4>2 DEF Lock!EndRead, Inside, Changing
      <4> QED
        BY <4>3 DEF Lock!Next
    <3> QED
      BY <3>1, <3>2, <3>3
  <2>3. CASE ReadP(t, "r_enter", "r_count") \/ ReadP(t, "r_leave", "r_uncount")
    BY <1>0, <2>3, StayStutters DEF ReadP, Inside, Changing
  <2>4. CASE ReadCount(t)
    <3>1. Goto(t, "r_count", "r_first") \/ Goto(t, "r_count", "r_in")
      BY <2>4 DEF ReadCount
    <3> QED
      BY <1>0, <3>1, StayStutters DEF Inside, Changing
  <2>5. CASE ReadFirst(t) \/ ReadUncount(t) \/ ReadReturn(t)
    BY <1>0, <2>5, StayStutters DEF ReadFirst, ReadUncount, ReadReturn, Inside, Changing
  <2> QED
    BY <1>2, <2>1, <2>2, <2>3, <2>4, <2>5 DEF Read
<1>3. ASSUME NEW t \in Workers, Write(t) PROVE Mapped
  <2>1. CASE WriteP(t)
    <3>1. /\ pc[t] = "w_enter" /\ pc'[t] = "w_fit"
          /\ At(Inside)' = At(Inside) \ {t}
          /\ At(Changing)' = At(Changing) \cup {t}
      BY <1>0, <2>1, AtMove DEF WriteP, Inside, Changing, Goto, At, LockType
    <3>2. At(Inside)' = {} /\ At(Changing)' = {t}
      BY <1>0, <3>1 DEF At, Inside, Changing, Writing, Reading, Counted
    <3>3. At(Inside) = {} /\ At(Changing) = {}
      BY <3>1, <3>2 DEF At, Inside, Changing
    <3>4. Lock!StartWrite(t)
      BY <3>2, <3>3 DEF Lock!StartWrite, Inside, Changing
    <3> QED
      BY <3>4 DEF Lock!Next
  <2>2. CASE Evict(t)
    BY <2>2 DEF Evict, At
  <2>3. CASE Place(t) \/ WriteV(t)
    BY <1>0, <2>3, StayStutters DEF Place, WriteV, Inside, Changing
  <2>4. CASE AddSize(t)
    <3>1. /\ pc[t] = "w_total"
          /\ At(Inside)' = At(Inside) \ {t}
          /\ At(Changing)' = At(Changing) \ {t}
      BY <1>0, <2>4, AtMove DEF AddSize, Inside, Changing
    <3>2. t \in At(Changing) /\ At(Inside)' = At(Inside)
      BY <3>1 DEF At, Inside, Changing
    <3>3. Lock!EndWrite(t)
      BY <3>1, <3>2 DEF Lock!EndWrite, Inside, Changing
    <3> QED
      BY <3>3 DEF Lock!Next
  <2> QED
    BY <1>3, <2>1, <2>2, <2>3, <2>4 DEF Write
<1>4. CASE UNCHANGED vars
  BY <1>4 DEF vars, At
<1> QED
  BY <1>1, <1>2, <1>3, <1>4 DEF Next

(* The lock of cache.c implements the readers-writers lock, for any number *)
(* of workers, keys and sizes.                                             *)
THEOREM CacheImplementsLock == Spec => ImplementsLock
<1>1. Init => Lock!Init
  BY DEF Init, Lock!Init, At
<1>2. LockIInv /\ LockIInv' /\ [Next]_vars
        => [Lock!Next]_<<At({"r_search", "r_copy"}), At({"w_fit", "w_total"})>>
  BY StepsOfLock DEF Inside, Changing
<1> QED
  BY <1>1, <1>2, LockIInvHolds, PTL DEF Spec, ImplementsLock, Lock!Spec
-----------------------------------------------------------------------------
(* The entries.  Writers account for what they place and evict, and the    *)
(* exclusion just proved is what makes their accounts exact.               *)

(* The types of what the lock does not look at.                            *)
StoreType ==
  /\ entries \in Seq(EntryType \cup {Null})
  /\ total \in Nat /\ calls \in Nat
  /\ key \in [Workers -> Keys \cup {Null}]
  /\ size \in [Workers -> Sizes \cup {0}]
  /\ found \in [Workers -> Nat]

(* A writer has something to write that is not too large.                  *)
Sized == \A t \in Workers : pc[t] \in WriteLabels =>
           key[t] \in Keys /\ size[t] <= MaxObject

(* total_size is exact, or lacks the entry that has just been placed.      *)
Exact ==
  /\ total <= MaxCache
  /\ (\A t \in Workers : pc[t] # "w_total") => total = Stored
  /\ \A t \in Workers : pc[t] = "w_total" => /\ Stored = total + size[t]
                                             /\ Stored <= MaxCache

StoreIInv == StoreType /\ Sized /\ Exact /\ CopySafe

(* Min of a set of indices.                                                *)
LEMMA MinOf ==
  ASSUME NEW T, T \subseteq Nat, T # {}
  PROVE  Min(T) \in T /\ \A y \in T : Min(T) <= y
  BY LeastChosen DEF Min

(* The entries seen as a sequence, and the sizes to be added up.           *)
LEMMA EntryTypes ==
  ASSUME StoreType
  PROVE  /\ Len(entries) \in Nat /\ Slots = 1..Len(entries)
         /\ \A i \in Slots : entries[i] \in EntryType \cup {Null}
         /\ Used \subseteq Slots /\ \A i \in Used : entries[i] \in EntryType
         /\ SizeAt \in [1..Len(entries) -> Nat]
         /\ Stored \in Nat
<1>1. /\ Len(entries) \in Nat /\ Slots = 1..Len(entries)
      /\ \A i \in Slots : entries[i] \in EntryType \cup {Null}
  BY DEF StoreType, Slots
<1>2. Used \subseteq Slots /\ \A i \in Used : entries[i] \in EntryType
  BY <1>1 DEF Used
<1>3. SizeAt \in [1..Len(entries) -> Nat]
  BY <1>1, <1>2 DEF SizeAt, EntryType
<1>4. Stored \in Nat
  BY <1>1, <1>3, SumType DEF Stored
<1> QED
  BY <1>1, <1>2, <1>3, <1>4

(* An empty cache stores nothing.                                          *)
LEMMA EmptyStoresNothing ==
  ASSUME StoreType, Used = {}
  PROVE  Stored = 0
<1>1. \A i \in 1..Len(entries) : SizeAt[i] = 0
  BY EntryTypes DEF SizeAt
<1> QED
  BY <1>1, EntryTypes, SumZero DEF Stored

(* increase_touch changes neither keys nor sizes.                          *)
LEMMA TouchKeeps ==
  ASSUME StoreType, NEW h \in Used,
         entries' = [entries EXCEPT ![h].touched = @ + 1]
  PROVE  /\ entries' \in Seq(EntryType \cup {Null})
         /\ Used' = Used /\ Stored' = Stored
         /\ \A i \in Used : entries'[i].key = entries[i].key
<1>1. /\ Len(entries') = Len(entries) /\ Slots' = Slots
      /\ \A i \in Slots : i # h => entries'[i] = entries[i]
      /\ entries'[h] = [entries[h] EXCEPT !.touched = @ + 1]
  BY EntryTypes DEF StoreType, Slots
<1>2. /\ entries[h] \in EntryType /\ entries'[h] \in EntryType
      /\ entries'[h].size = entries[h].size
      /\ entries'[h].key = entries[h].key
  BY <1>1, EntryTypes DEF EntryType
<1>3. entries' \in Seq(EntryType \cup {Null})
  BY <1>1, <1>2, EntryTypes DEF StoreType
<1>4. Used' = Used
  BY <1>1, <1>2, EntryTypes, CacheAssumption DEF Used, CacheAssumption
<1>5. \A i \in Slots : SizeAt'[i] = SizeAt[i]
  BY <1>1, <1>2, <1>4 DEF SizeAt
<1>6. SizeAt' = SizeAt
  BY <1>1, <1>5 DEF SizeAt
<1>7. Stored' = Stored
  BY <1>1, <1>6 DEF Stored
<1> QED
  BY <1>1, <1>2, <1>3, <1>4, <1>7

(* There is a victim while there is anything, and no entry is colder.      *)
LEMMA VictimIsColdest ==
  ASSUME StoreType, Used # {}
  PROVE  Victim \in Used /\ \A i \in Used : entries[Victim].touched <= entries[i].touched
<1> DEFINE Counts == {entries[i].touched : i \in Used}
<1>1. Counts \subseteq Nat /\ Counts # {}
  BY EntryTypes DEF EntryType
<1>2. PICK n \in Counts : \A m \in Counts : n <= m
  <2> HIDE DEF Counts
  <2> QED
    BY <1>1, LeastNumber
<1>3. LeastTouched # {}
  <2>1. PICK v \in Used : entries[v].touched = n
    BY <1>2, Zenon
  <2>2. v \in LeastTouched
    BY <1>2, <2>1, Zenon DEF LeastTouched
  <2> QED
    BY <2>2, Zenon
<1>4. LeastTouched \subseteq Nat
  <2>1. LeastTouched \subseteq Used
    BY Zenon DEF LeastTouched
  <2> QED
    BY <2>1, EntryTypes
<1>5. Victim \in LeastTouched
  BY <1>3, <1>4, MinOf DEF Victim
<1> QED
  BY <1>5, Zenon DEF LeastTouched

(* A sequence without its last element, with another element at i, and     *)
(* with one more.                                                          *)
LEMMA SeqFront ==
  ASSUME NEW T, NEW q \in Seq(T), NEW n, n = Len(q), n # 0
  PROVE  /\ SubSeq(q, 1, n - 1) \in Seq(T)
         /\ Len(SubSeq(q, 1, n - 1)) = n - 1 /\ DOMAIN SubSeq(q, 1, n - 1) = 1..(n - 1)
         /\ \A i \in 1..(n - 1) : SubSeq(q, 1, n - 1)[i] = q[i]
  OBVIOUS

(* A sequence with one element replaced.                                   *)
LEMMA SeqPut ==
  ASSUME NEW T, NEW q \in Seq(T), NEW n, n = Len(q), NEW k \in 1..n, NEW x \in T
  PROVE  /\ [q EXCEPT ![k] = x] \in Seq(T)
         /\ Len([q EXCEPT ![k] = x]) = n /\ DOMAIN [q EXCEPT ![k] = x] = 1..n
         /\ \A i \in 1..n : [q EXCEPT ![k] = x][i] = IF i = k THEN x ELSE q[i]
  OBVIOUS

(* A sequence with one element more.                                       *)
LEMMA SeqAdd ==
  ASSUME NEW T, NEW q \in Seq(T), NEW n, n = Len(q), NEW x \in T
  PROVE  /\ Append(q, x) \in Seq(T)
         /\ Len(Append(q, x)) = n + 1 /\ DOMAIN Append(q, x) = 1..(n + 1)
         /\ \A i \in 1..n : Append(q, x)[i] = q[i]
         /\ Append(q, x)[n + 1] = x
  OBVIOUS

(* What Evict and Place do to the entries.                                 *)
VictimGoes == entries' = IF Victim = Len(entries) THEN SubSeq(entries, 1, Victim - 1)
                         ELSE [entries EXCEPT ![Victim] = Null]
Comes(new) == LET free == Slots \ Used
              IN  entries' = IF free # {} THEN [entries EXCEPT ![Min(free)] = new]
                             ELSE Append(entries, new)

(* An eviction takes the victim and its size, and nothing else.            *)
LEMMA EvictTakes ==
  ASSUME StoreType, Used # {}, VictimGoes
  PROVE  /\ entries' \in Seq(EntryType \cup {Null})
         /\ Used' = Used \ {Victim}
         /\ \A i \in Used' : entries'[i] = entries[i]
         /\ entries[Victim].size \in Nat /\ Stored' \in Nat
         /\ Stored' + entries[Victim].size = Stored
<1> DEFINE v == Victim
           n == Len(entries)
<1>1. v \in Used /\ v \in 1..n /\ n \in Nat
  BY VictimIsColdest, EntryTypes
<1> HIDE DEF v
<1>2. /\ entries[v].size \in Nat
      /\ SizeAt \in [1..n -> Nat] /\ SizeAt[v] = entries[v].size
  BY <1>1, EntryTypes DEF EntryType, SizeAt
<1>3. CASE v = n
  <2>1. entries' = SubSeq(entries, 1, n - 1)
    BY <1>3 DEF v, VictimGoes
  <2>2. /\ entries' \in Seq(EntryType \cup {Null})
        /\ Len(entries') = n - 1 /\ Slots' = 1..(n - 1)
        /\ \A i \in 1..(n - 1) : entries'[i] = entries[i]
    <3>1. entries \in Seq(EntryType \cup {Null}) /\ n # 0
      BY <1>1 DEF StoreType
    <3> QED
      BY <2>1, <3>1, SeqFront, Zenon DEF Slots
  <2>3. Used' = Used \ {v}
    <3>1. Used' = {i \in 1..(n - 1) : entries'[i] # Null} /\ Used = {i \in 1..n : entries[i] # Null}
      <4>1. Used' = {i \in Slots' : entries'[i] # Null} /\ Used = {i \in Slots : entries[i] # Null}
        BY DEF Used
      <4>2. Slots' = 1..(n - 1) /\ Slots = 1..n
        BY <1>1, <2>2, EntryTypes
      <4> QED
        BY <4>1, <4>2
    <3>2. 1..(n - 1) = (1..n) \ {v}
      BY <1>1, <1>3
    <3>3. \A i \in 1..(n - 1) : entries'[i] # Null <=> entries[i] # Null
      BY <2>2
    <3> QED
      BY <3>1, <3>2, <3>3, Zenon
  <2>4. SizeAt' \in [1..(n - 1) -> Nat] /\ \A i \in 1..(n - 1) : SizeAt'[i] = SizeAt[i]
    <3>1. \A i \in 1..(n - 1) : i \in 1..n /\ (i \in Used' <=> i \in Used)
      BY <1>1, <1>3, <2>3
    <3>2. ASSUME NEW i \in 1..(n - 1) PROVE SizeAt'[i] = SizeAt[i]
      BY <2>2, <3>1, EntryTypes DEF SizeAt
    <3>3. SizeAt' = [i \in 1..(n - 1) |-> SizeAt'[i]]
      BY <2>2 DEF SizeAt
    <3>4. \A i \in 1..(n - 1) : SizeAt'[i] \in Nat
      BY <1>2, <3>1, <3>2
    <3> QED
      BY <3>2, <3>3, <3>4
  <2>5. SumTo(SizeAt, (n - 1) + 1) = SumTo(SizeAt', n - 1) + SizeAt[(n - 1) + 1]
    <3>1. n - 1 \in Nat /\ (n - 1) + 1 = n
      BY <1>1
    <3> QED
      BY <1>2, <2>4, <3>1, SumLast
  <2>6. (n - 1) + 1 = n
    BY <1>1
  <2>7. \A i \in Used' : entries'[i] = entries[i]
    <3>1. \A i \in Used' : i \in 1..n /\ i # n
      BY <1>3, <2>3, EntryTypes
    <3> HIDE DEF n
    <3>2. \A i \in 1..n : i # n => i \in 1..(n - 1)
      BY <1>1
    <3> QED
      BY <2>2, <3>1, <3>2
  <2>8. Stored' \in Nat /\ Stored' + entries[v].size = Stored
    <3>1. n - 1 \in Nat
      BY <1>1
    <3>2. Stored' \in Nat
      BY <2>2, <2>4, <3>1, SumType DEF Stored
    <3> QED
      BY <1>2, <1>3, <2>2, <2>5, <2>6, <3>2 DEF Stored
  <2> QED
    BY <1>2, <2>2, <2>3, <2>7, <2>8, Zenon DEF v
<1>4. CASE v # n
  <2>1. entries' = [entries EXCEPT ![v] = Null]
    BY <1>4 DEF v, VictimGoes
  <2>2. /\ entries' \in Seq(EntryType \cup {Null})
        /\ Len(entries') = n /\ Slots' = 1..n
        /\ \A i \in 1..n : entries'[i] = IF i = v THEN Null ELSE entries[i]
    BY <1>1, <2>1, SeqPut DEF StoreType, Slots
  <2>3. Used' = Used \ {v}
    BY <1>1, <2>2, EntryTypes DEF Used
  <2>4. /\ SizeAt' \in [1..n -> Nat] /\ SizeAt'[v] = 0
        /\ \A i \in 1..n : i # v => SizeAt'[i] = SizeAt[i]
    BY <1>1, <1>2, <2>2, <2>3, EntryTypes DEF SizeAt
  <2>5. SumTo(SizeAt', n) + SizeAt[v] = SumTo(SizeAt, n) + SizeAt'[v]
    BY <1>1, <1>2, <2>4, SumChange
  <2>6. Stored = SumTo(SizeAt, n) /\ Stored' = SumTo(SizeAt', n) /\ Stored \in Nat
    BY <2>2, EntryTypes DEF Stored
  <2>7. \A i \in Used' : entries'[i] = entries[i]
    BY <1>1, <2>2, <2>3, EntryTypes
  <2>8. Stored' \in Nat /\ Stored' + entries[v].size = Stored
    <3>1. Stored' \in Nat
      BY <1>1, <2>4, <2>6, SumType
    <3> QED
      BY <1>2, <2>4, <2>5, <2>6, <3>1
  <2> QED
    BY <1>2, <2>2, <2>3, <2>7, <2>8, Zenon DEF v
<1> QED
  BY <1>3, <1>4

(* A placement adds one entry and its size, and moves nothing.             *)
LEMMA PlaceAdds ==
  ASSUME StoreType, NEW new \in EntryType, Comes(new)
  PROVE  /\ entries' \in Seq(EntryType \cup {Null})
         /\ \A i \in Used : i \in Used' /\ entries'[i] = entries[i]
         /\ new.size \in Nat
         /\ Stored' = Stored + new.size
<1> DEFINE n == Len(entries)
<1>1. n \in Nat /\ Slots = 1..n /\ Used \subseteq 1..n /\ SizeAt \in [1..n -> Nat]
  BY EntryTypes
<1>2. new.size \in Nat /\ new # Null
  BY CacheAssumption DEF CacheAssumption, EntryType
<1>3. CASE Slots \ Used # {}
  <2> DEFINE f == Min(Slots \ Used)
  <2>1. f \in Slots \ Used
    <3>1. Slots \ Used \subseteq Nat
      BY <1>1
    <3> QED
      BY <1>3, <3>1, MinOf
  <2> HIDE DEF f
  <2>2. entries' = [entries EXCEPT ![f] = new]
    BY <1>3 DEF f, Comes
  <2>3. /\ entries' \in Seq(EntryType \cup {Null})
        /\ Len(entries') = n /\ Slots' = 1..n
        /\ \A i \in 1..n : entries'[i] = IF i = f THEN new ELSE entries[i]
    BY <1>1, <2>1, <2>2, SeqPut DEF StoreType, Slots
  <2>4. Used' = Used \cup {f}
    BY <1>1, <1>2, <2>1, <2>3 DEF Used
  <2>5. /\ SizeAt' \in [1..n -> Nat] /\ SizeAt'[f] = new.size /\ SizeAt[f] = 0
        /\ \A i \in 1..n : i # f => SizeAt'[i] = SizeAt[i]
    <3>1. SizeAt' = [i \in 1..n |-> IF i \in Used' THEN entries'[i].size ELSE 0]
          /\ SizeAt = [i \in 1..n |-> IF i \in Used THEN entries[i].size ELSE 0]
      BY <1>1, <2>3 DEF SizeAt
    <3>2. f \in 1..n /\ f \notin Used /\ f \in Used' /\ entries'[f] = new
      BY <1>1, <2>1, <2>3, <2>4
    <3>3. SizeAt'[f] = new.size /\ SizeAt[f] = 0 /\ new.size \in Nat
      BY <1>2, <3>1, <3>2
    <3>4. ASSUME NEW i \in 1..n, i # f PROVE SizeAt'[i] = SizeAt[i]
      BY <2>3, <2>4, <3>1, <3>4
    <3>5. \A i \in 1..n : SizeAt'[i] \in Nat
      BY <1>1, <3>3, <3>4
    <3>6. SizeAt' \in [1..n -> Nat]
      BY <3>1, <3>5
    <3> QED
      BY <3>3, <3>4, <3>6
  <2>6. SumTo(SizeAt', n) + SizeAt[f] = SumTo(SizeAt, n) + SizeAt'[f]
    <3>1. n \in Nat /\ f \in 1..n /\ SizeAt \in [1..n -> Nat] /\ SizeAt' \in [1..n -> Nat]
      BY <1>1, <2>1, <2>5
    <3> HIDE DEF n
    <3> QED
      BY <3>1, <2>5, SumChange, Zenon
  <2>7. Stored = SumTo(SizeAt, n) /\ Stored' = SumTo(SizeAt', n) /\ Stored \in Nat
    BY <2>3, EntryTypes DEF Stored
  <2>8. Stored' \in Nat
    BY <1>1, <2>5, <2>7, SumType
  <2> QED
    BY <1>1, <1>2, <2>1, <2>3, <2>4, <2>5, <2>6, <2>7, <2>8
<1>4. CASE Slots \ Used = {}
  <2>1. entries' = Append(entries, new)
    BY <1>4 DEF Comes
  <2>2. /\ entries' \in Seq(EntryType \cup {Null})
        /\ Len(entries') = n + 1 /\ Slots' = 1..(n + 1)
        /\ \A i \in 1..n : entries'[i] = entries[i]
        /\ entries'[n + 1] = new
    BY <1>1, <2>1, SeqAdd DEF StoreType, Slots
  <2>3. Used' = Used \cup {n + 1}
    BY <1>1, <1>2, <2>2 DEF Used
  <2>4. /\ SizeAt' \in [1..(n + 1) -> Nat] /\ SizeAt'[n + 1] = new.size
        /\ \A i \in 1..n : SizeAt'[i] = SizeAt[i]
    BY <1>1, <1>2, <2>2, <2>3, EntryTypes DEF SizeAt, EntryType
  <2>5. SumTo(SizeAt', n + 1) = SumTo(SizeAt, n) + SizeAt'[n + 1]
    BY <1>1, <2>4, SumLast
  <2> QED
    BY <1>1, <1>2, <2>2, <2>3, <2>4, <2>5 DEF Stored
<1> QED
  BY <1>3, <1>4

(* A step that leaves the store alone, and neither places nor finds.       *)
LEMMA QuietStep ==
  ASSUME LockType, StoreIInv, NEW t \in Workers, NEW from, NEW to, Goto(t, from, to),
         StoreType', UNCHANGED store, from # "w_total", to \notin {"w_total", "r_copy"},
         \A u \in Workers \ {t} :
            key'[u] = key[u] /\ size'[u] = size[u] /\ found'[u] = found[u],
         to \in WriteLabels => key'[t] \in Keys /\ size'[t] <= MaxObject
  PROVE  StoreIInv'
<1>1. pc[t] = from /\ \A u \in Workers : pc'[u] = IF u = t THEN to ELSE pc[u]
  BY DEF LockType, Goto
<1>2. entries' = entries /\ total' = total /\ Used' = Used /\ Stored' = Stored
  BY DEF store, Used, Slots, Stored, SizeAt
<1>3. Sized'
  BY <1>1 DEF StoreIInv, Sized
<1>4. Exact'
  BY <1>1, <1>2 DEF StoreIInv, Exact
<1>5. CopySafe'
  BY <1>1, <1>2 DEF StoreIInv, CopySafe
<1> QED
  BY <1>3, <1>4, <1>5 DEF StoreIInv

(* The search leaves a reader with an entry for its key, or with none; the *)
(* entries of the other readers keep their keys.                           *)
LEMMA SearchStep ==
  ASSUME LockIInv, StoreIInv, NEW t \in Workers, ReadSearch(t)
  PROVE  StoreIInv'
<1> DEFINE hit == IF Hits(key[t]) = {} THEN 0 ELSE Min(Hits(key[t]))
<1>0. LockType /\ StoreType
  BY DEF LockIInv, StoreIInv
<1>1. /\ Goto(t, "r_search", IF hit = 0 THEN "r_leave" ELSE "r_copy")
      /\ found' = [found EXCEPT ![t] = hit]
      /\ entries' = IF hit # 0 /\ toucher[t]
                    THEN [entries EXCEPT ![hit].touched = @ + 1] ELSE entries
      /\ UNCHANGED <<total, key, size, calls>>
  BY DEF ReadSearch
<1>2. hit \in Nat /\ (hit # 0 => hit \in Used /\ entries[hit].key = key[t])
  <2>1. Hits(key[t]) \subseteq Nat
    BY <1>0, EntryTypes DEF Hits
  <2>2. Hits(key[t]) # {} => hit \in Hits(key[t])
    BY <2>1, MinOf
  <2> QED
    BY <2>1, <2>2 DEF Hits
<1> HIDE DEF hit
<1>3. CASE hit = 0
  <2>1. StoreType'
    BY <1>0, <1>1, <1>2, <1>3 DEF StoreType
  <2> QED
    BY <1>0, <1>1, <1>2, <1>3, <2>1, QuietStep DEF store, StoreType, WriteLabels
<1>4. CASE hit # 0
  <2>1. /\ entries' \in Seq(EntryType \cup {Null}) /\ Used' = Used /\ Stored' = Stored
        /\ \A i \in Used : entries'[i].key = entries[i].key
    <3>1. CASE toucher[t]
      <4>1. entries' = [entries EXCEPT ![hit].touched = @ + 1]
        BY <1>1, <1>4, <3>1
      <4> QED
        BY <1>0, <1>2, <1>4, <4>1, TouchKeeps
    <3>2. CASE ~toucher[t]
      BY <1>0, <1>1, <3>2 DEF Used, Slots, Stored, SizeAt, StoreType
    <3> QED
      BY <3>1, <3>2
  <2>2. /\ pc[t] = "r_search"
        /\ \A u \in Workers : pc'[u] = IF u = t THEN "r_copy" ELSE pc[u]
        /\ \A u \in Workers : found'[u] = IF u = t THEN hit ELSE found[u]
    BY <1>0, <1>1, <1>4 DEF Goto, LockType, StoreType
  <2>3. StoreType'
    BY <1>0, <1>1, <1>2, <2>1 DEF StoreType
  <2>4. Sized' /\ Exact'
    BY <1>1, <2>1, <2>2 DEF StoreIInv, Sized, Exact, WriteLabels
  <2>5. CopySafe'
    BY <1>1, <1>2, <1>4, <2>1, <2>2 DEF StoreIInv, CopySafe
  <2> QED
    BY <2>3, <2>4, <2>5 DEF StoreIInv
<1> QED
  BY <1>3, <1>4

(* While a writer changes the entries there is no other, and nobody reads. *)
LEMMA WriterAlone ==
  ASSUME LockIInv, NEW t \in Workers, pc[t] \in Writing
  PROVE  \A u \in Workers : /\ pc[u] # "r_copy"
                            /\ pc[u] \in {"w_fit", "w_total"} => u = t
  BY DEF LockIInv, RWExclusion, Writing, Reading, Counted

(* What is to be written has a size.                                       *)
LEMMA SizeIsNat ==
  ASSUME StoreType, NEW t \in Workers
  PROVE  size[t] \in Nat
<1>1. size[t] \in Sizes \cup {0}
  BY DEF StoreType
<1>2. Sizes \subseteq Nat /\ 0 \in Nat
  BY CacheAssumption DEF CacheAssumption
<1> QED
  BY <1>1, <1>2, Zenon

(* An eviction gives back the size of what it takes.                       *)
LEMMA EvictStep ==
  ASSUME LockIInv, StoreIInv, NEW t \in Workers, Evict(t)
  PROVE  StoreIInv'
<1>0. StoreType /\ pc[t] = "w_fit" /\ UNCHANGED <<pc, key, size, found, calls>>
  BY DEF StoreIInv, Evict, local
<1>1. \A u \in Workers : pc[u] # "r_copy" /\ pc[u] # "w_total"
  BY <1>0, WriterAlone DEF Writing
<1>2. total = Stored
  BY <1>1 DEF StoreIInv, Exact
<1>3. CASE Used = {}
  <2>1. UNCHANGED store
    BY <1>3 DEF Evict, store
  <2> QED
    BY <1>0, <1>1, <2>1 DEF StoreIInv, StoreType, Sized, Exact, CopySafe, Stored, SizeAt,
                           Used, Slots, store
<1>4. CASE Used # {}
  <2>1. VictimGoes /\ total' = total - entries[Victim].size
    BY <1>4 DEF Evict, VictimGoes
  <2>2. /\ entries' \in Seq(EntryType \cup {Null})
        /\ entries[Victim].size \in Nat /\ Stored' \in Nat
        /\ Stored' + entries[Victim].size = Stored
    BY <1>0, <1>4, <2>1, EvictTakes
  <2>3. total' \in Nat /\ total' = Stored' /\ total' <= total
    BY <1>2, <2>1, <2>2
  <2>4. total' <= MaxCache
    BY <1>0, <2>3, CacheAssumption DEF StoreIInv, Exact, StoreType, CacheAssumption
  <2>5. StoreType'
    BY <1>0, <2>2, <2>3 DEF StoreType
  <2>6. Sized' /\ Exact' /\ CopySafe'
    BY <1>0, <1>1, <2>3, <2>4 DEF StoreIInv, Sized, Exact, CopySafe
  <2> QED
    BY <2>5, <2>6 DEF StoreIInv
<1> QED
  BY <1>3, <1>4

(* A placement leaves total_size behind by the size of what was placed,    *)
(* which fits.                                                             *)
LEMMA PlaceStep ==
  ASSUME LockIInv, StoreIInv, NEW t \in Workers, Place(t)
  PROVE  StoreIInv'
<1> DEFINE new == Entry(key[t], size[t], 1)
<1>0. /\ StoreType /\ LockType /\ Sized
      /\ Goto(t, "w_fit", "w_total") /\ Fits(t)
      /\ UNCHANGED <<total, key, size, found, calls>>
  BY DEF StoreIInv, LockIInv, Place, local
<1>1. pc[t] = "w_fit" /\ \A u \in Workers : pc'[u] = IF u = t THEN "w_total" ELSE pc[u]
  BY <1>0 DEF Goto, LockType
<1>2. \A u \in Workers : pc'[u] # "r_copy" /\ pc[u] # "w_total"
  BY <1>1, WriterAlone DEF Writing
<1>3. total = Stored
  BY <1>2 DEF StoreIInv, Exact
<1>4. size[t] \in Nat /\ key[t] \in Keys
  BY <1>0, <1>1, SizeIsNat DEF Sized, WriteLabels
<1>5. new \in EntryType /\ new.size = size[t]
  BY <1>4 DEF Entry, EntryType
<1>6. /\ entries' \in Seq(EntryType \cup {Null})
      /\ Stored' = Stored + size[t]
  <2>1. Comes(new)
    BY DEF Place, Comes
  <2> HIDE DEF new
  <2> QED
    BY <1>0, <1>5, <2>1, PlaceAdds
<1>7. StoreType'
  BY <1>0, <1>6 DEF StoreType
<1>8. Exact'
  BY <1>0, <1>1, <1>2, <1>3, <1>6 DEF StoreIInv, Exact, Fits
<1>9. Sized' /\ CopySafe'
  BY <1>0, <1>1, <1>2 DEF Sized, CopySafe, WriteLabels
<1> QED
  BY <1>7, <1>8, <1>9 DEF StoreIInv

(* Then total_size catches up.                                             *)
LEMMA AddSizeStep ==
  ASSUME LockIInv, StoreIInv, NEW t \in Workers, AddSize(t)
  PROVE  StoreIInv'
<1>0. /\ StoreType /\ LockType /\ Sized
      /\ Goto(t, "w_total", "w_leave") /\ total' = total + size[t]
      /\ UNCHANGED <<entries, key, size, found, calls>>
  BY DEF StoreIInv, LockIInv, AddSize, local
<1>1. pc[t] = "w_total" /\ \A u \in Workers : pc'[u] = IF u = t THEN "w_leave" ELSE pc[u]
  BY <1>0 DEF Goto, LockType
<1>2. \A u \in Workers : pc'[u] # "r_copy" /\ pc'[u] # "w_total"
  BY <1>1, WriterAlone DEF Writing
<1>3. Stored = total + size[t] /\ Stored <= MaxCache /\ size[t] \in Nat
  BY <1>0, <1>1, SizeIsNat DEF StoreIInv, Exact
<1>4. Stored' = Stored
  BY <1>0 DEF Stored, SizeAt, Used, Slots
<1>5. StoreType'
  BY <1>0, <1>3 DEF StoreType
<1>6. Exact'
  BY <1>0, <1>2, <1>3, <1>4 DEF Exact
<1>7. Sized' /\ CopySafe'
  BY <1>0, <1>1, <1>2 DEF Sized, CopySafe, WriteLabels
<1> QED
  BY <1>5, <1>6, <1>7 DEF StoreIInv

(* Every step keeps the invariant of the store.                            *)
LEMMA StoreKept ==
  ASSUME LockIInv, StoreIInv, [Next]_vars
  PROVE  StoreIInv'
<1> USE DEF store, lock, local, WriteLabels
<1>0. LockType /\ StoreType /\ Sized
  BY DEF LockIInv, StoreIInv
<1>1. ASSUME NEW t \in Workers, ReadCall(t) PROVE StoreIInv'
  <2>1. Goto(t, "idle", "r_enter") /\ UNCHANGED <<entries, total, size, found>>
    BY <1>1 DEF ReadCall
  <2>2. StoreType' /\ \A u \in Workers \ {t} : key'[u] = key[u]
    BY <1>0, <1>1 DEF ReadCall, StoreType
  <2> QED
    BY <1>0, <2>1, <2>2, QuietStep
<1>2. ASSUME NEW t \in Workers, Read(t) PROVE StoreIInv'
  <2>1. CASE ReadSearch(t)
    BY <2>1, SearchStep
  <2>2. CASE ReadReturn(t)
    <3>1. Goto(t, "r_out", "idle") /\ UNCHANGED <<entries, total, size>>
      BY <2>2 DEF ReadReturn
    <3>2. StoreType' /\ \A u \in Workers \ {t} : key'[u] = key[u] /\ found'[u] = found[u]
      BY <1>0, <2>2 DEF ReadReturn, StoreType
    <3> QED
      BY <1>0, <3>1, <3>2, QuietStep
  <2>3. CASE ~ReadSearch(t) /\ ~ReadReturn(t)
    <3>1. /\ UNCHANGED <<entries, total, key, size, found, calls>>
          /\ \E from \in ReadLabels, to \in ReadLabels \ {"r_copy"} : Goto(t, from, to)
      BY <1>2, <2>3 DEF Read, ReadP, ReadCount, ReadFirst, ReadV, ReadCopy, ReadUncount,
                        ReadLabels
    <3>2. StoreType'
      BY <1>0, <3>1 DEF StoreType
    <3> QED
      BY <1>0, <3>1, <3>2, QuietStep DEF ReadLabels
  <2> QED
    BY <2>1, <2>2, <2>3
<1>3. ASSUME NEW t \in Workers, WriteCall(t) PROVE StoreIInv'
  <2>1. StoreType' /\ UNCHANGED <<entries, total, found>>
    <3>1. /\ UNCHANGED <<entries, total, found>> /\ calls' = calls + 1
          /\ key' = key \/ \E k \in Keys : key' = [key EXCEPT ![t] = k]
          /\ size' = size \/ \E n \in Sizes : size' = [size EXCEPT ![t] = n]
      BY <1>3 DEF WriteCall, store
    <3>2. key' \in [Workers -> Keys \cup {Null}]
      BY <1>0, <3>1 DEF StoreType
    <3>3. size' \in [Workers -> Sizes \cup {0}]
      BY <1>0, <3>1 DEF StoreType
    <3> QED
      BY <1>0, <3>1, <3>2, <3>3 DEF StoreType
  <2>2. CASE UNCHANGED <<pc, key, size>>
    <3>1. UNCHANGED <<entries, total, found, pc, key, size>>
      BY <2>1, <2>2
    <3>2. Stored' = Stored /\ Used' = Used
      <4>1. Slots' = Slots /\ Used' = Used
        BY <3>1 DEF Used, Slots
      <4>2. SizeAt' = SizeAt
        BY <3>1, <4>1 DEF SizeAt
      <4> QED
        BY <3>1, <4>1, <4>2 DEF Stored
    <3>3. Sized' /\ Exact'
      BY <3>1, <3>2 DEF StoreIInv, Sized, Exact
    <3>4. CopySafe'
      BY <3>1, <3>2 DEF StoreIInv, CopySafe
    <3> QED
      BY <2>1, <3>3, <3>4 DEF StoreIInv
  <2>3. CASE ~UNCHANGED <<pc, key, size>>
    <3>1. PICK k \in Keys, n \in Sizes :
            /\ n <= MaxObject /\ Goto(t, "idle", "w_enter")
            /\ key' = [key EXCEPT ![t] = k]
            /\ size' = [size EXCEPT ![t] = n]
      BY <1>3, <2>3 DEF WriteCall
    <3>2. /\ key'[t] \in Keys /\ size'[t] <= MaxObject
          /\ \A u \in Workers \ {t} : key'[u] = key[u] /\ size'[u] = size[u]
      BY <1>0, <3>1 DEF StoreType
    <3> QED
      BY <1>0, <2>1, <3>1, <3>2, QuietStep
  <2> QED
    BY <2>2, <2>3
<1>4. ASSUME NEW t \in Workers, Write(t) PROVE StoreIInv'
  <2>1. CASE WriteP(t)
    <3>1. Goto(t, "w_enter", "w_fit") /\ UNCHANGED <<entries, total, key, size, found, calls>>
      BY <2>1 DEF WriteP
    <3>2. StoreType' /\ pc[t] = "w_enter"
      BY <1>0, <3>1 DEF StoreType, Goto
    <3> QED
      BY <1>0, <3>1, <3>2, QuietStep DEF Sized
  <2>2. CASE Evict(t)
    BY <2>2, EvictStep
  <2>3. CASE Place(t)
    BY <2>3, PlaceStep
  <2>4. CASE AddSize(t)
    BY <2>4, AddSizeStep
  <2>5. CASE WriteV(t)
    <3>1. Goto(t, "w_leave", "idle") /\ UNCHANGED <<entries, total, found>>
      BY <2>5 DEF WriteV
    <3>2. StoreType' /\ \A u \in Workers \ {t} : key'[u] = key[u] /\ size'[u] = size[u]
      BY <1>0, <2>5 DEF WriteV, StoreType
    <3> QED
      BY <1>0, <3>1, <3>2, QuietStep
  <2> QED
    BY <1>4, <2>1, <2>2, <2>3, <2>4, <2>5 DEF Write
<1>5. CASE UNCHANGED vars
  BY <1>5 DEF vars, StoreIInv, StoreType, Sized, Exact, CopySafe, Stored, SizeAt, Used, Slots
<1> QED
  BY <1>1, <1>2, <1>3, <1>4, <1>5 DEF Next

(* The invariant of the entries holds in every reachable state.            *)
THEOREM StoreIInvHolds == Spec => []StoreIInv
<1>1. Init => StoreIInv
  <2> SUFFICES ASSUME Init PROVE StoreIInv
    OBVIOUS
  <2>1. StoreType /\ Used = {}
    BY DEF Init, StoreType, Used, Slots
  <2>2. Stored = 0
    BY <2>1, EmptyStoresNothing
  <2>3. Exact
    BY <2>2, CacheAssumption DEF Init, Exact, CacheAssumption
  <2> QED
    BY <2>1, <2>3 DEF Init, StoreIInv, Sized, CopySafe, WriteLabels
<1>2. LockIInv /\ StoreIInv /\ [Next]_vars => StoreIInv'
  BY StoreKept
<1> QED
  BY <1>1, <1>2, LockIInvHolds, PTL DEF Spec

(* total_size is exactly the size of what is cached, and within            *)
(* MAX_CACHE_SIZE, whenever no writer is between its two updates.          *)
THEOREM SizeIsExact == Spec => []SizeExact
<1>1. LockIInv /\ StoreIInv => SizeExact
  <2> SUFFICES ASSUME LockIInv, StoreIInv PROVE SizeExact
    OBVIOUS
  <2>1. mutex \in Nat /\ w \in Nat
    BY DEF LockIInv, LockFacts
  <2>2. TypeOK
    BY <2>1 DEF TypeOK, StoreIInv, StoreType, LockIInv, LockType, Labels
  <2> QED
    BY <2>2 DEF SizeExact, StoreIInv, Exact, At
<1> QED
  BY <1>1, LockIInvHolds, StoreIInvHolds, PTL

(* The entry a reader found is still there when it copies the data.        *)
THEOREM CopiesAreSafe == Spec => []CopySafe
<1>1. StoreIInv => CopySafe
  BY DEF StoreIInv
<1> QED
  BY <1>1, StoreIInvHolds, PTL

(* A writer whose object does not fit finds something to evict.            *)
THEOREM EvictionFinds == Spec => []EvictFinds
<1>1. LockIInv /\ StoreIInv => EvictFinds
  <2> SUFFICES ASSUME LockIInv, StoreIInv, NEW t \in Workers,
                      pc[t] = "w_fit", ~Fits(t), Used = {}
               PROVE  FALSE
    BY DEF EvictFinds
  <2>1. total = Stored
    BY WriterAlone DEF Writing, StoreIInv, Exact
  <2>2. total = 0
    BY <2>1, EmptyStoresNothing DEF StoreIInv
  <2>3. size[t] \in Nat /\ size[t] <= MaxObject
    BY SizeIsNat DEF StoreIInv, Sized, WriteLabels
  <2>4. MaxObject \in Nat /\ MaxCache \in Nat /\ MaxObject <= MaxCache
    BY CacheAssumption DEF CacheAssumption
  <2> QED
    BY <2>2, <2>3, <2>4 DEF Fits
<1> QED
  BY <1>1, LockIInvHolds, StoreIInvHolds, PTL

-----------------------------------------------------------------------------
(* The cache simulator.                                                    *)

(* Powers of two.                                                          *)
LEMMA PowerOfTwo ==
  ASSUME NEW n \in Nat
  PROVE  2^n \in Nat \ {0}
<1> DEFINE N == 1..n
<1>1. IsFiniteSet(N) /\ Cardinality(N) = n
  BY FS_Interval
<1>2. IsFiniteSet(SUBSET N) /\ Cardinality(SUBSET N) = 2^n
  BY <1>1, FS_SUBSET
<1>3. SUBSET N # {}
  OBVIOUS
<1> QED
  BY <1>2, <1>3, FS_EmptySet, FS_CardinalityType

(* A remainder, and the quotient.                                          *)
LEMMA Modulo ==
  ASSUME NEW m \in Nat \ {0}, NEW k \in Nat
  PROVE  k % m \in 0..(m - 1) /\ (k < m => k % m = k) /\ k \div m \in Nat
  OBVIOUS

(* The number of sets, the largest unsigned int, and the set and the tag   *)
(* of an address.                                                          *)
LEMMA Geometry ==
  /\ 2^IntBits \in Nat \ {0} /\ S \in Nat \ {0} /\ UINT_MAX \in Nat
  /\ \A a \in Nat : parseAddr(a) \in [set_idx : 0..(S - 1), tag : 0..UINT_MAX]
<1>1. \A n \in Nat : 2^n \in Nat \ {0}
  BY PowerOfTwo
<1>2. b \in Nat /\ b + s \in Nat /\ s \in Nat /\ IntBits \in Nat
  BY CsimAssumption DEF CsimAssumption
<1>3. 2^IntBits \in Nat \ {0} /\ 2^b \in Nat \ {0} /\ 2^(b + s) \in Nat \ {0}
      /\ 2^s \in Nat \ {0}
  BY <1>1, <1>2
<1>4. ASSUME NEW a \in Nat PROVE parseAddr(a) \in [set_idx : 0..(S - 1), tag : 0..UINT_MAX]
  <2>1. a \div 2^(b + s) \in Nat /\ a \div 2^b \in Nat
    BY <1>3, Modulo
  <2>2. (a \div 2^(b + s)) % 2^IntBits \in 0..(2^IntBits - 1)
    BY <1>3, <2>1, Modulo
  <2>3. (a \div 2^b) % 2^s \in 0..(2^s - 1)
    BY <1>3, <2>1, Modulo
  <2> QED
    BY <2>2, <2>3 DEF parseAddr, S, UINT_MAX
<1> QED
  BY <1>3, <1>4 DEF S, UINT_MAX

-----------------------------------------------------------------------------
(* The valid lines of a set, those of them touched later than j, the place *)
(* of j by age (1 is the last used), and the line in the n-th place, as    *)
(* ByAge has it.                                                           *)
Valid(set) == Lines \ FreeLines(set)
Later(set, j) == {k \in Valid(set) : set[k].last_touch > set[j].last_touch}
Rank(set, j) == Cardinality(Later(set, j)) + 1
Nth(set, n) == CHOOSE j \in Valid(set) : Cardinality(Later(set, j)) = n - 1
Size(set) == Cardinality(Valid(set))

(* The stamps of the valid lines of a set are different numbers.           *)
Stamped(set) ==
  /\ \A j \in Valid(set) : set[j].last_touch \in Nat
  /\ \A j, k \in Valid(set) : set[j].last_touch = set[k].last_touch => j = k

(* A set has at most E valid lines, and E when all its lines are valid.    *)
LEMMA ValidFinite ==
  ASSUME NEW set
  PROVE  /\ IsFiniteSet(Valid(set)) /\ Size(set) \in 0..E
         /\ Size(set) = E => Valid(set) = Lines
<1>1. IsFiniteSet(Lines) /\ Cardinality(Lines) = E /\ E \in Nat
  BY FS_Interval, CsimAssumption DEF Lines, CsimAssumption
<1>2. Valid(set) \in SUBSET Lines
  BY DEF Valid
<1>3. /\ IsFiniteSet(Valid(set)) /\ Cardinality(Valid(set)) <= E
      /\ E = Cardinality(Valid(set)) => Lines = Valid(set)
  BY <1>1, <1>2, FS_Subset
<1> QED
  BY <1>1, <1>3, FS_CardinalityType DEF Size

(* The place of a valid line is one of as many as there are valid lines.   *)
LEMMA LaterFinite ==
  ASSUME NEW set, Stamped(set), NEW j \in Valid(set)
  PROVE  /\ IsFiniteSet(Later(set, j)) /\ Cardinality(Later(set, j)) \in Nat
         /\ Rank(set, j) \in 1..Size(set)
<1>1. Later(set, j) \in SUBSET Valid(set) /\ j \notin Later(set, j)
  BY DEF Later, Stamped
<1>2. IsFiniteSet(Later(set, j)) /\ Cardinality(Later(set, j)) <= Cardinality(Valid(set))
      /\ (Cardinality(Valid(set)) = Cardinality(Later(set, j)) => Valid(set) = Later(set, j))
  BY <1>1, ValidFinite, FS_Subset
<1>3. Cardinality(Later(set, j)) \in Nat /\ Cardinality(Valid(set)) \in Nat
  BY <1>2, ValidFinite, FS_CardinalityType
<1>4. Cardinality(Later(set, j)) # Cardinality(Valid(set))
  BY <1>1, <1>2
<1> QED
  BY <1>2, <1>3, <1>4 DEF Rank, Size

(* A line touched later comes earlier by age.                              *)
LEMMA RanksDiffer ==
  ASSUME NEW set, Stamped(set), NEW j \in Valid(set), NEW k \in Valid(set),
         set[k].last_touch > set[j].last_touch
  PROVE  Rank(set, k) < Rank(set, j)
<1>1. Later(set, k) \in SUBSET Later(set, j) /\ k \in Later(set, j) /\ k \notin Later(set, k)
  BY DEF Later, Stamped
<1>2. IsFiniteSet(Later(set, j)) /\ Cardinality(Later(set, j)) \in Nat
      /\ Cardinality(Later(set, k)) \in Nat
  BY LaterFinite
<1>3. Cardinality(Later(set, k)) <= Cardinality(Later(set, j))
      /\ (Cardinality(Later(set, j)) = Cardinality(Later(set, k)) => Later(set, j) = Later(set, k))
  BY <1>1, <1>2, FS_Subset
<1> QED
  BY <1>1, <1>2, <1>3 DEF Rank

(* Each place is that of exactly one valid line.                           *)
LEMMA RankIsOneToOne ==
  ASSUME NEW set, Stamped(set)
  PROVE  /\ \A j, k \in Valid(set) : Rank(set, j) = Rank(set, k) => j = k
         /\ \A n \in 1..Size(set) : \E j \in Valid(set) : Rank(set, j) = n
<1>1. ASSUME NEW j \in Valid(set), NEW k \in Valid(set), Rank(set, j) = Rank(set, k)
      PROVE  j = k
  <2>1. Rank(set, j) \in Nat /\ Rank(set, k) \in Nat
    BY LaterFinite
  <2>2. set[j].last_touch \in Nat /\ set[k].last_touch \in Nat
    BY DEF Stamped
  <2>3. ~(set[k].last_touch > set[j].last_touch) /\ ~(set[j].last_touch > set[k].last_touch)
    BY <1>1, <2>1, RanksDiffer
  <2>4. set[j].last_touch = set[k].last_touch
    BY <2>2, <2>3
  <2> QED
    BY <2>4 DEF Stamped
<1> DEFINE T == 1..Size(set)
           f == [j \in Valid(set) |-> Rank(set, j)]
<1>2. IsFiniteSet(T) /\ Cardinality(T) = Size(set)
  BY ValidFinite, FS_Interval
<1>3. f \in [Valid(set) -> T]
  BY LaterFinite
<1>4. \A j \in Valid(set) : f[j] = Rank(set, j)
  OBVIOUS
<1> HIDE DEF f, T
<1>5. f \in Injection(Valid(set), T)
  BY <1>1, <1>3, <1>4 DEF Injection, IsInjective
<1>6. f \in Surjection(Valid(set), T)
  BY <1>2, <1>5, FS_Injection DEF Size
<1>7. \A n \in T : \E j \in Valid(set) : f[j] = n
  BY <1>6 DEF Surjection
<1> QED
  BY <1>1, <1>4, <1>7 DEF T

(* The line in the n-th place, and the place of a line.                    *)
LEMMA NthIs ==
  ASSUME NEW set, Stamped(set)
  PROVE  /\ \A n \in 1..Size(set) : Nth(set, n) \in Valid(set) /\ Rank(set, Nth(set, n)) = n
         /\ \A j \in Valid(set) : Nth(set, Rank(set, j)) = j
<1>1. ASSUME NEW n \in 1..Size(set)
      PROVE  Nth(set, n) \in Valid(set) /\ Rank(set, Nth(set, n)) = n
  <2>1. PICK j \in Valid(set) : Rank(set, j) = n
    BY RankIsOneToOne
  <2>2. Cardinality(Later(set, j)) = n - 1
    BY <2>1, LaterFinite DEF Rank
  <2>3. Nth(set, n) \in Valid(set) /\ Cardinality(Later(set, Nth(set, n))) = n - 1
    BY <2>2 DEF Nth
  <2>4. n \in Nat
    BY ValidFinite
  <2> QED
    BY <2>3, <2>4 DEF Rank
<1>2. ASSUME NEW j \in Valid(set) PROVE Nth(set, Rank(set, j)) = j
  <2>1. Rank(set, j) \in 1..Size(set)
    BY LaterFinite
  <2> QED
    BY <2>1, <1>1, RankIsOneToOne
<1> QED
  BY <1>1, <1>2

(* ByAge in terms of the places.                                           *)
LEMMA ByAgeIs ==
  ASSUME NEW set
  PROVE  ByAge(set) = [n \in 1..Size(set) |-> set[Nth(set, n)].tag]
  BY DEF ByAge, Size, Nth, Later, Valid

(* A line gets a stamp above all the others: it comes first, those that    *)
(* were before it move down by one place, the others stay.                 *)
LEMMA Refreshed ==
  ASSUME NEW set, Stamped(set), NEW new, NEW i \in Lines,
         new[i].valid, new[i].last_touch \in Nat,
         \A j \in Valid(set) : new[i].last_touch > set[j].last_touch,
         \A j \in Lines \ {i} : new[j] = set[j]
  PROVE  /\ Stamped(new) /\ Valid(new) = Valid(set) \cup {i}
         /\ Rank(new, i) = 1
         /\ \A j \in Valid(set) \ {i} :
              Rank(new, j) = IF i \in Valid(set) /\ Rank(set, j) > Rank(set, i)
                             THEN Rank(set, j) ELSE Rank(set, j) + 1
<1>1. Valid(new) = Valid(set) \cup {i}
  BY DEF Valid, FreeLines
<1>2. \A j \in Valid(set) \ {i} : new[j] = set[j] /\ set[j].last_touch \in Nat
                                  /\ new[i].last_touch > new[j].last_touch
  BY DEF Valid, Stamped
<1>3. Stamped(new)
  BY <1>1, <1>2 DEF Stamped
<1>4. Rank(new, i) = 1
  <2>1. Later(new, i) = {}
    BY <1>1, <1>2 DEF Later
  <2> QED
    BY <2>1, FS_EmptySet DEF Rank
<1>5. ASSUME NEW j \in Valid(set) \ {i}
      PROVE  Rank(new, j) = IF i \in Valid(set) /\ Rank(set, j) > Rank(set, i)
                            THEN Rank(set, j) ELSE Rank(set, j) + 1
  <2>1. Later(new, j) = Later(set, j) \cup {i}
    <3>1. i \in Later(new, j)
      BY <1>1, <1>2 DEF Later
    <3>2. \A k \in Valid(set) \ {i} : k \in Later(new, j) <=> k \in Later(set, j)
      BY <1>1, <1>2 DEF Later
    <3>3. Later(new, j) \subseteq Valid(set) \cup {i} /\ Later(set, j) \subseteq Valid(set)
      BY <1>1 DEF Later
    <3> QED
      BY <3>1, <3>2, <3>3
  <2>2. IsFiniteSet(Later(set, j)) /\ Cardinality(Later(set, j)) \in Nat
    BY LaterFinite
  <2>3. Cardinality(Later(new, j))
          = IF i \in Later(set, j) THEN Cardinality(Later(set, j))
                                   ELSE Cardinality(Later(set, j)) + 1
    BY <2>1, <2>2, FS_AddElement
  <2>4. i \in Later(set, j) <=> i \in Valid(set) /\ Rank(set, j) > Rank(set, i)
    <3>1. CASE i \in Later(set, j)
      <4>1. i \in Valid(set) /\ set[i].last_touch > set[j].last_touch
        BY <3>1 DEF Later
      <4>2. Rank(set, i) < Rank(set, j)
        BY <4>1, RanksDiffer
      <4> QED
        BY <3>1, <4>1, <4>2, LaterFinite
    <3>2. CASE i \in Valid(set) /\ i \notin Later(set, j)
      <4>1. set[j].last_touch > set[i].last_touch
        <5>1. set[i].last_touch \in Nat /\ set[j].last_touch \in Nat
              /\ set[i].last_touch # set[j].last_touch
          BY <3>2 DEF Stamped
        <5>2. ~(set[i].last_touch > set[j].last_touch)
          BY <3>2 DEF Later
        <5> QED
          BY <5>1, <5>2
      <4>2. Rank(set, j) < Rank(set, i) /\ Rank(set, j) \in Nat /\ Rank(set, i) \in Nat
        BY <3>2, <4>1, RanksDiffer, LaterFinite
      <4> QED
        BY <3>2, <4>2
    <3>3. CASE i \notin Valid(set)
      BY <3>3 DEF Later
    <3> QED
      BY <3>1, <3>2, <3>3
  <2> QED
    BY <2>2, <2>3, <2>4 DEF Rank
<1> QED
  BY <1>1, <1>3, <1>4, <1>5

(* The tags by age after that, when the line was free and when it was not. *)
LEMMA AgesAfterUse ==
  ASSUME NEW set, Stamped(set), NEW new, NEW i \in Lines,
         new[i].valid, new[i].last_touch \in Nat,
         \A j \in Valid(set) : new[i].last_touch > set[j].last_touch,
         \A j \in Lines \ {i} : new[j] = set[j]
  PROVE  /\ i \notin Valid(set) =>
              ByAge(new) = [n \in 1..(Size(set) + 1) |->
                              IF n = 1 THEN new[i].tag ELSE ByAge(set)[n - 1]]
         /\ i \in Valid(set) =>
              ByAge(new) = [n \in 1..Size(set) |->
                              IF n = 1 THEN new[i].tag
                              ELSE IF n <= Rank(set, i) THEN ByAge(set)[n - 1] ELSE ByAge(set)[n]]
<1>1. /\ Stamped(new) /\ Valid(new) = Valid(set) \cup {i}
      /\ Rank(new, i) = 1
      /\ \A j \in Valid(set) \ {i} :
           Rank(new, j) = IF i \in Valid(set) /\ Rank(set, j) > Rank(set, i)
                          THEN Rank(set, j) ELSE Rank(set, j) + 1
  BY Refreshed
<1>2. Size(set) \in Nat /\ IsFiniteSet(Valid(set))
  BY ValidFinite, CsimAssumption DEF CsimAssumption
<1>3. Size(new) = IF i \in Valid(set) THEN Size(set) ELSE Size(set) + 1
  <2>1. Cardinality(Valid(set) \cup {i})
          = IF i \in Valid(set) THEN Cardinality(Valid(set)) ELSE Cardinality(Valid(set)) + 1
    BY <1>2, FS_AddElement
  <2> QED
    BY <1>1, <2>1 DEF Size
<1>4. ASSUME NEW n \in 1..Size(new)
      PROVE  ByAge(new)[n] = new[Nth(new, n)].tag
  BY ByAgeIs
<1>5. Nth(new, 1) = i
  BY <1>1, NthIs
<1>6. ASSUME NEW n \in 1..Size(new), n # 1
      PROVE  \E j \in Valid(set) \ {i} :
               /\ Nth(new, n) = j /\ new[j].tag = set[j].tag
               /\ n = IF i \in Valid(set) /\ Rank(set, j) > Rank(set, i)
                      THEN Rank(set, j) ELSE Rank(set, j) + 1
  <2> DEFINE j == Nth(new, n)
  <2>1. j \in Valid(new) /\ Rank(new, j) = n
    BY <1>1, NthIs
  <2>2. j # i
    BY <1>1, <1>6, <2>1
  <2>3. j \in Valid(set) \ {i}
    BY <1>1, <2>1, <2>2
  <2>4. new[j] = set[j]
    BY <2>3 DEF Valid
  <2> QED
    BY <1>1, <2>1, <2>3, <2>4
<1>7. \A j \in Valid(set) : /\ Rank(set, j) \in 1..Size(set)
                            /\ ByAge(set)[Rank(set, j)] = set[j].tag
  <2> TAKE j \in Valid(set)
  <2>1. Rank(set, j) \in 1..Size(set)
    BY LaterFinite
  <2>2. Nth(set, Rank(set, j)) = j
    BY NthIs
  <2> QED
    BY <2>1, <2>2, ByAgeIs
<1>8. ByAge(new) = [n \in 1..Size(new) |-> ByAge(new)[n]]
  BY ByAgeIs
<1>9. CASE i \notin Valid(set)
  <2>1. ASSUME NEW n \in 1..Size(new)
        PROVE  ByAge(new)[n] = IF n = 1 THEN new[i].tag ELSE ByAge(set)[n - 1]
    <3>1. CASE n = 1
      BY <3>1, <1>4, <1>5
    <3>2. CASE n # 1
      <4>1. PICK j \in Valid(set) : Nth(new, n) = j /\ new[j].tag = set[j].tag
                                    /\ n = Rank(set, j) + 1
        BY <1>6, <1>9, <3>2
      <4>2. Rank(set, j) = n - 1
        BY <4>1, <1>2, <1>7
      <4> QED
        BY <3>2, <4>1, <4>2, <1>4, <1>7
    <3> QED
      BY <3>1, <3>2
  <2> QED
    BY <1>3, <1>8, <1>9, <2>1
<1>10. CASE i \in Valid(set)
  <2>1. ASSUME NEW n \in 1..Size(new)
        PROVE  ByAge(new)[n] = IF n = 1 THEN new[i].tag
                               ELSE IF n <= Rank(set, i) THEN ByAge(set)[n - 1]
                               ELSE ByAge(set)[n]
    <3>1. CASE n = 1
      BY <3>1, <1>4, <1>5
    <3>2. CASE n # 1
      <4>1. PICK j \in Valid(set) \ {i} :
               Nth(new, n) = j /\ new[j].tag = set[j].tag
               /\ n = IF Rank(set, j) > Rank(set, i) THEN Rank(set, j) ELSE Rank(set, j) + 1
        BY <1>6, <1>10, <3>2
      <4>2. Rank(set, j) # Rank(set, i)
        BY <1>10, <4>1, RankIsOneToOne
      <4>3. Rank(set, j) \in Nat /\ Rank(set, i) \in Nat
        BY <1>2, <1>7, <1>10
      <4>4. CASE Rank(set, j) > Rank(set, i)
        <5>1. n = Rank(set, j) /\ ~(n <= Rank(set, i))
          BY <4>1, <4>3, <4>4
        <5> QED
          BY <3>2, <4>1, <5>1, <1>4, <1>7
      <4>5. CASE ~(Rank(set, j) > Rank(set, i))
        <5>1. Rank(set, j) = n - 1 /\ n <= Rank(set, i)
          BY <4>1, <4>2, <4>3, <4>5
        <5> QED
          BY <3>2, <4>1, <5>1, <1>4, <1>7
      <4> QED
        BY <4>4, <4>5
    <3> QED
      BY <3>1, <3>2
  <2> QED
    BY <1>3, <1>8, <1>10, <2>1
<1> QED
  BY <1>9, <1>10

(* A sequence with an element put in front.                                *)
LEMMA InFront ==
  ASSUME NEW T, NEW q \in Seq(T), NEW t \in T, NEW p,
         p = [n \in 1..(Len(q) + 1) |-> IF n = 1 THEN t ELSE q[n - 1]]
  PROVE  p = <<t>> \o q
  OBVIOUS

(* q with t in front and nothing at r.                                     *)
Shifted(t, q, r) ==
  [n \in 1..Len(q) |-> IF n = 1 THEN t ELSE IF n <= r THEN q[n - 1] ELSE q[n]]

(* That is t followed by q without its element at r.                       *)
LEMMA ToTheFront ==
  ASSUME NEW T, NEW q \in Seq(T), NEW t \in T, NEW r \in 1..Len(q)
  PROVE  /\ Shifted(t, q, r) = <<t>> \o RemoveAt(q, r)
         /\ r = Len(q) => RemoveAt(q, r) = SubSeq(q, 1, r - 1)
<1> DEFINE m == Len(q)
           p == Shifted(t, q, r)
<1>1. m \in Nat /\ q \in [1..m -> T]
  OBVIOUS
<1>2. p = [n \in 1..m |-> IF n = 1 THEN t ELSE IF n <= r THEN q[n - 1] ELSE q[n]]
  BY DEF Shifted
<1> HIDE DEF p
<1>3. /\ p = <<t>> \o RemoveAt(q, r)
      /\ r = m => RemoveAt(q, r) = SubSeq(q, 1, r - 1)
  <2> DEFINE front == SubSeq(q, 1, r - 1)
             back == SubSeq(q, r + 1, m)
  <2>1. front \in Seq(T) /\ Len(front) = r - 1 /\ \A n \in 1..(r - 1) : front[n] = q[n]
    OBVIOUS
  <2>2. back \in Seq(T) /\ Len(back) = m - r /\ \A n \in 1..(m - r) : back[n] = q[n + r]
    OBVIOUS
  <2> HIDE DEF front, back
  <2> DEFINE rest == front \o back
  <2>3. rest \in Seq(T) /\ Len(rest) = m - 1
        /\ \A n \in 1..(m - 1) : rest[n] = IF n < r THEN q[n] ELSE q[n + 1]
    <3>1. rest \in Seq(T) /\ Len(rest) = Len(front) + Len(back)
      <4>1. front \in Seq(T) /\ back \in Seq(T)
        BY <2>1, <2>2
      <4> QED
        BY <4>1
    <3>2. \A n \in 1..(Len(front) + Len(back)) :
            rest[n] = IF n <= Len(front) THEN front[n] ELSE back[n - Len(front)]
      BY <2>1, <2>2
    <3>3. Len(rest) = m - 1
      BY <1>1, <2>1, <2>2, <3>1
    <3>4. ASSUME NEW n \in 1..(m - 1)
          PROVE  rest[n] = IF n < r THEN q[n] ELSE q[n + 1]
      <4>1. rest[n] = IF n <= r - 1 THEN front[n] ELSE back[n - (r - 1)]
        BY <1>1, <2>1, <2>2, <3>2
      <4>2. CASE n < r
        BY <1>1, <2>1, <4>1, <4>2
      <4>3. CASE ~(n < r)
        <5>1. n - (r - 1) \in 1..(m - r) /\ n - (r - 1) + r = n + 1 /\ ~(n <= r - 1)
          BY <1>1, <4>3
        <5>2. back[n - (r - 1)] = q[n + 1]
          BY <2>2, <5>1
        <5> QED
          BY <4>1, <4>3, <5>1, <5>2
      <4> QED
        BY <4>2, <4>3
    <3> QED
      BY <3>1, <3>3, <3>4
  <2> HIDE DEF rest
  <2>4. p = <<t>> \o rest
    <3> DEFINE moved == <<t>> \o rest
    <3>1. /\ moved = [n \in 1..(Len(rest) + 1) |-> moved[n]]
          /\ \A n \in 1..(Len(rest) + 1) : moved[n] = IF n = 1 THEN t ELSE rest[n - 1]
      BY <2>3
    <3> HIDE DEF moved
    <3>2. Len(rest) + 1 = m
      BY <1>1, <2>3
    <3>3. ASSUME NEW n \in 1..m
          PROVE  moved[n] = IF n = 1 THEN t ELSE IF n <= r THEN q[n - 1] ELSE q[n]
      <4>1. CASE n = 1
        BY <3>1, <3>2, <4>1
      <4>2. CASE n # 1
        <5>1. n - 1 \in 1..(m - 1) /\ (n - 1 < r <=> n <= r) /\ n - 1 + 1 = n
          BY <1>1, <4>2
        <5>2. moved[n] = rest[n - 1]
          BY <3>1, <3>2, <4>2
        <5> QED
          BY <2>3, <4>2, <5>1, <5>2
      <4> QED
        BY <4>1, <4>2
    <3>4. moved = [n \in 1..m |-> moved[n]]
      BY <3>1, <3>2
    <3>5. moved = p
      BY <1>2, <3>3, <3>4
    <3> QED
      BY <3>5 DEF moved
  <2>5. RemoveAt(q, r) = rest
    BY DEF RemoveAt, front, back, rest
  <2>6. ASSUME r = m PROVE rest = front
    <3>1. back = <<>>
      BY <2>2, <2>6, <1>1
    <3> QED
      BY <2>1, <3>1 DEF rest
  <2> QED
    BY <2>4, <2>5, <2>6 DEF front
<1> QED
  BY <1>3 DEF p

-----------------------------------------------------------------------------
(* The sets, a line, and the invariant: the types, and for each set        *)
(* different stamps, none above COUNTER.                                   *)
Indices == 0..(S - 1)
Line == [valid : BOOLEAN, tag : 0..UINT_MAX, last_touch : 0..UINT_MAX]

CsimTypeOK ==
  /\ sets \in [Indices -> [Lines -> Line]]
  /\ COUNTER \in 0..MaxLines
  /\ addr \in Nat

StampsOrder ==
  \A i \in Indices :
    /\ Stamped(sets[i])
    /\ \A j \in Valid(sets[i]) : sets[i][j].last_touch <= COUNTER

CsimIInv == CsimTypeOK /\ StampsOrder

(* Line j of set i is used for t.                                          *)
Use(i, j, t) ==
  /\ COUNTER' = COUNTER + 1
  /\ sets' = [sets EXCEPT ![i][j] = [valid |-> TRUE, tag |-> t, last_touch |-> COUNTER']]

(* What using a line changes, and that its stamp is the highest.           *)
LEMMA UseIs ==
  ASSUME CsimIInv, COUNTER < MaxLines,
         NEW i \in Indices, NEW j \in Lines, NEW t \in 0..UINT_MAX, Use(i, j, t)
  PROVE  /\ sets' \in [Indices -> [Lines -> Line]] /\ COUNTER' \in 0..MaxLines
         /\ \A k \in Indices \ {i} : sets'[k] = sets[k]
         /\ sets'[i][j].valid /\ sets'[i][j].tag = t
         /\ sets'[i][j].last_touch \in Nat
         /\ sets'[i][j].last_touch = COUNTER + 1
         /\ \A k \in Valid(sets[i]) : sets'[i][j].last_touch > sets[i][k].last_touch
         /\ \A k \in Lines \ {j} : sets'[i][k] = sets[i][k]
<1> DEFINE new == [valid |-> TRUE, tag |-> t, last_touch |-> COUNTER + 1]
<1>1. MaxLines \in 0..UINT_MAX /\ UINT_MAX \in Nat
  BY CsimAssumption, Geometry DEF CsimAssumption
<1>2. COUNTER \in Nat /\ COUNTER + 1 \in 0..MaxLines /\ COUNTER + 1 \in 0..UINT_MAX
  BY <1>1 DEF CsimIInv, CsimTypeOK
<1>3. new \in Line /\ new.valid /\ new.tag = t /\ new.last_touch = COUNTER + 1
  BY <1>2 DEF Line
<1>4. sets' = [sets EXCEPT ![i][j] = new] /\ COUNTER' = COUNTER + 1
  BY DEF Use
<1> HIDE DEF new
<1>5. sets \in [Indices -> [Lines -> Line]]
  BY DEF CsimIInv, CsimTypeOK
<1>6. sets' \in [Indices -> [Lines -> Line]]
  BY <1>3, <1>4, <1>5
<1>7. sets'[i][j] = new /\ (\A k \in Lines \ {j} : sets'[i][k] = sets[i][k])
      /\ \A k \in Indices \ {i} : sets'[k] = sets[k]
  BY <1>4, <1>5
<1>8. ASSUME NEW k \in Valid(sets[i]) PROVE COUNTER + 1 > sets[i][k].last_touch
  BY <1>2 DEF CsimIInv, StampsOrder, Stamped
<1> QED
  BY <1>2, <1>3, <1>4, <1>6, <1>7, <1>8

(* Using a line keeps the order of the stamps.                             *)
LEMMA UseKeeps ==
  ASSUME CsimIInv, COUNTER < MaxLines,
         NEW i \in Indices, NEW j \in Lines, NEW t \in 0..UINT_MAX, Use(i, j, t)
  PROVE  StampsOrder'
<1>1. ASSUME NEW k \in Indices
      PROVE  /\ Stamped(sets'[k])
             /\ \A l \in Valid(sets'[k]) : sets'[k][l].last_touch <= COUNTER'
  <2>1. CASE k = i
    <3>1. Stamped(sets[i])
      BY DEF CsimIInv, StampsOrder
    <3>2. Stamped(sets'[i]) /\ Valid(sets'[i]) = Valid(sets[i]) \cup {j}
      BY <3>1, UseIs, Refreshed
    <3>3. \A l \in Valid(sets[i]) \ {j} : /\ sets'[i][l].last_touch \in Nat
                                          /\ sets'[i][l].last_touch <= COUNTER
      BY <3>1, UseIs DEF Valid, Stamped, CsimIInv, StampsOrder
    <3>4. COUNTER \in Nat /\ COUNTER' = COUNTER + 1
      BY CsimAssumption DEF CsimIInv, CsimTypeOK, Use
    <3>5. ASSUME NEW l \in Valid(sets'[i]) PROVE sets'[i][l].last_touch <= COUNTER'
      <4>1. CASE l = j
        BY <3>4, <4>1, UseIs
      <4>2. CASE l # j
        BY <3>2, <3>3, <3>4, <4>2
      <4> QED
        BY <4>1, <4>2
    <3> QED
      BY <2>1, <3>2, <3>5
  <2>2. CASE k # i
    <3>1. sets'[k] = sets[k] /\ Stamped(sets[k])
      BY <2>2, UseIs DEF CsimIInv, StampsOrder
    <3>2. COUNTER \in Nat /\ COUNTER' = COUNTER + 1
      BY CsimAssumption DEF CsimIInv, CsimTypeOK, Use
    <3>3. \A l \in Valid(sets[k]) : sets[k][l].last_touch \in Nat /\ sets[k][l].last_touch <= COUNTER
      BY <3>1 DEF Stamped, CsimIInv, StampsOrder
    <3> QED
      BY <3>1, <3>2, <3>3
  <2> QED
    BY <2>1, <2>2
<1> QED
  BY <1>1 DEF StampsOrder

(* A line with another stamp, and a line from its fields.                  *)
Restamp(l, c) == [l EXCEPT !.last_touch = c]
LineOf(v, t, c) == [valid |-> v, tag |-> t, last_touch |-> c]

(* A line with another stamp keeps its other fields.                       *)
LEMMA StampChanges ==
  ASSUME NEW B, NEW T, NEW L, NEW c \in L, NEW l \in [valid : B, tag : T, last_touch : L]
  PROVE  Restamp(l, c) = LineOf(l.valid, l.tag, c)
<1>1. PICK v \in B, t \in T : v = l.valid /\ t = l.tag
  OBVIOUS
<1>2. [l EXCEPT !.last_touch = c] = [valid |-> v, tag |-> t, last_touch |-> c]
  BY <1>1
<1> QED
  BY <1>1, <1>2 DEF Restamp, LineOf

(* The same for the lines of the simulator.                                *)
LEMMA LineRestamped ==
  ASSUME NEW l \in Line, NEW c \in 0..UINT_MAX
  PROVE  Restamp(l, c) = LineOf(l.valid, l.tag, c)
<1> DEFINE B == BOOLEAN
           T == 0..UINT_MAX
<1>1. l \in [valid : B, tag : T, last_touch : T] /\ c \in T
  BY DEF Line
<1> HIDE DEF B, T
<1> QED
  BY <1>1, StampChanges

(* A valid line with another stamp is a valid line with the same tag.      *)
LEMMA Restamped ==
  ASSUME NEW l \in Line, NEW c \in 0..UINT_MAX, l.valid
  PROVE  [l EXCEPT !.last_touch = c] = [valid |-> TRUE, tag |-> l.tag, last_touch |-> c]
<1>1. Restamp(l, c) = LineOf(l.valid, l.tag, c)
  BY LineRestamped, Zenon
<1>2. l.valid = TRUE
  <2>1. l.valid \in BOOLEAN
    BY DEF Line
  <2> QED
    BY <2>1, Zenon
<1> QED
  BY <1>1, <1>2, Zenon DEF Restamp, LineOf

(* What a line of the trace does to the lines.                             *)
LEMMA TraceLineUses ==
  ASSUME CsimIInv, NEW op, NEW a \in Addresses, TraceLine(op, a)
  PROVE  LET i == parseAddr(a).set_idx
             t == parseAddr(a).tag
         IN  /\ COUNTER < MaxLines /\ i \in Indices /\ t \in 0..UINT_MAX /\ addr' = a /\ a \in Nat
             /\ \/ \E j \in Valid(sets[i]) :
                     /\ sets[i][j].tag = t /\ Use(i, j, t)
                     /\ hits' = hits + 1 + IF op = "M" THEN 1 ELSE 0
                     /\ misses' = misses /\ evictions' = evictions
                \/ /\ \A j \in Valid(sets[i]) : sets[i][j].tag # t
                   /\ Use(i, Filled(sets[i]), t)
                   /\ hits' = hits + IF op = "M" THEN 1 ELSE 0
                   /\ misses' = misses + 1
                   /\ evictions' = evictions + IF sets[i][Filled(sets[i])].valid THEN 1 ELSE 0
<1> DEFINE i == parseAddr(a).set_idx
           t == parseAddr(a).tag
           holding == {j \in Lines : Holds(sets[i][j], t)}
<1>1. a \in Nat
  <2>1. 2^(IntBits + s + b) \in Nat
    BY CsimAssumption, PowerOfTwo DEF CsimAssumption
  <2> QED
    BY <2>1, CsimAssumption DEF CsimAssumption
<1>2. i \in Indices /\ t \in 0..UINT_MAX
  BY <1>1, Geometry DEF Indices
<1>3. COUNTER < MaxLines /\ addr' = a
  BY DEF TraceLine
<1>4. sets[i] \in [Lines -> Line]
  BY <1>2 DEF CsimIInv, CsimTypeOK
<1>5. Touch => COUNTER' = COUNTER + 1
  <2>1. COUNTER \in Nat /\ MaxLines \in 0..UINT_MAX /\ 2^IntBits \in Nat \ {0}
    BY CsimAssumption, Geometry DEF CsimAssumption, CsimIInv, CsimTypeOK
  <2>2. COUNTER + 1 < 2^IntBits /\ COUNTER + 1 \in Nat
    BY <1>3, <2>1 DEF UINT_MAX
  <2> QED
    BY <2>1, <2>2, Modulo DEF Touch
<1>6. \A j \in Lines : j \in holding <=> j \in Valid(sets[i]) /\ sets[i][j].tag = t
  BY <1>4 DEF Holds, Valid, FreeLines
<1>7. CASE /\ holding # {} /\ Hit(i, Min(holding))
           /\ hits' = hits + 1 + IF op = "M" THEN 1 ELSE 0
  <2> DEFINE j == Min(holding)
  <2>1. j \in holding
    <3>1. holding \subseteq Nat
      BY DEF Lines
    <3> QED
      BY <1>7, <3>1, LeastNumber DEF Min
  <2> HIDE DEF holding
  <2>2. j \in Lines /\ j \in Valid(sets[i]) /\ sets[i][j].tag = t
    BY <1>6, <2>1 DEF holding
  <2> HIDE DEF j
  <2>3. Hit(i, j)
    BY <1>7 DEF j
  <2>4. COUNTER' = COUNTER + 1 /\ sets' = [sets EXCEPT ![i][j].last_touch = COUNTER']
        /\ misses' = misses /\ evictions' = evictions
    BY <1>5, <2>3 DEF Hit
  <2>5. sets[i][j] \in Line /\ sets[i][j].valid
    BY <1>4, <2>2 DEF Valid, FreeLines
  <2>6. [sets[i][j] EXCEPT !.last_touch = COUNTER']
          = [valid |-> TRUE, tag |-> t, last_touch |-> COUNTER']
    <3>1. COUNTER' \in 0..UINT_MAX
      BY <1>3, <2>4, CsimAssumption, Geometry DEF CsimAssumption, CsimIInv, CsimTypeOK
    <3> QED
      BY <2>2, <2>5, <3>1, Restamped
  <2>7. Use(i, j, t)
    BY <2>4, <2>6 DEF Use
  <2> QED
    BY <1>1, <1>2, <1>3, <1>7, <2>2, <2>4, <2>7
<1>8. CASE /\ holding = {} /\ Miss(i, t)
           /\ hits' = hits + IF op = "M" THEN 1 ELSE 0
  <2>1. \A j \in Valid(sets[i]) : sets[i][j].tag # t
    BY <1>6, <1>8 DEF Valid
  <2> HIDE DEF holding
  <2>2. Use(i, Filled(sets[i]), t) /\ misses' = misses + 1
        /\ evictions' = evictions + IF sets[i][Filled(sets[i])].valid THEN 1 ELSE 0
    BY <1>5, <1>8 DEF Miss, Use
  <2> QED
    BY <1>1, <1>2, <1>3, <1>8, <2>1, <2>2
<1> QED
  BY <1>7, <1>8 DEF TraceLine

(* The line to be filled is a free one, or else the one used least         *)
(* recently: touchCache always finds one.                                  *)
LEMMA FilledIs ==
  ASSUME CsimIInv, COUNTER < MaxLines, NEW i \in Indices
  PROVE  /\ Filled(sets[i]) \in Lines
         /\ Size(sets[i]) # E => Filled(sets[i]) \notin Valid(sets[i])
         /\ Size(sets[i]) = E => /\ Filled(sets[i]) \in Valid(sets[i])
                                 /\ Rank(sets[i], Filled(sets[i])) = E
<1> DEFINE set == sets[i]
<1>1. /\ Stamped(set) /\ E \in Nat \ {0} /\ COUNTER < UINT_MAX
      /\ \A j \in Valid(set) : set[j].last_touch \in Nat /\ set[j].last_touch < UINT_MAX
  <2>1. Stamped(set) /\ \A j \in Valid(set) : set[j].last_touch <= COUNTER
    BY DEF CsimIInv, StampsOrder
  <2>2. COUNTER \in Nat /\ COUNTER < UINT_MAX /\ UINT_MAX \in Nat
    BY CsimAssumption, Geometry DEF CsimAssumption, CsimIInv, CsimTypeOK
  <2> QED
    BY <2>1, <2>2, CsimAssumption DEF Stamped, CsimAssumption
<1> HIDE DEF set
<1>2. CASE FreeLines(set) # {}
  <2>1. Filled(set) = Min(FreeLines(set))
    BY <1>2 DEF Filled
  <2>2. FreeLines(set) \subseteq Nat
    BY DEF FreeLines, Lines
  <2>3. Filled(set) \in FreeLines(set)
    BY <1>2, <2>1, <2>2, LeastNumber DEF Min
  <2>4. Filled(set) \in Lines /\ Filled(set) \notin Valid(set)
    BY <2>3 DEF FreeLines, Valid
  <2>5. Size(set) # E
    BY <2>4, ValidFinite
  <2> QED
    BY <2>4, <2>5 DEF set
<1>3. CASE FreeLines(set) = {}
  <2>1. Valid(set) = Lines /\ Filled(set) = lru_line(set)
    BY <1>3 DEF Valid, Filled
  <2>2. Size(set) = E
    <3>1. E \in Int /\ 1 \in Int
      BY <1>1
    <3>2. Cardinality(1..E) = E
      BY <1>1, <3>1, FS_Interval
    <3> QED
      BY <2>1, <3>2 DEF Size, Lines
  <2> DEFINE T == {set[k].last_touch : k \in Lines}
             Least(j) == /\ \A k \in Lines : set[j].last_touch <= set[k].last_touch
                         /\ \A k \in 1..(j - 1) : set[j].last_touch < set[k].last_touch
                         /\ set[j].last_touch < UINT_MAX
  <2>3. \E j \in Lines : Least(j)
    <3>1. T \subseteq Nat /\ 1 \in Lines
      BY <1>1, <2>1 DEF Lines
    <3>2. PICK x \in T : \A y \in T : x <= y
      BY <3>1, LeastNumber
    <3>3. PICK j \in Lines : x = set[j].last_touch
      BY <3>2
    <3>4. \A k \in Lines : set[j].last_touch <= set[k].last_touch
      BY <3>2, <3>3
    <3>5. ASSUME NEW k \in 1..(j - 1) PROVE set[j].last_touch < set[k].last_touch
      <4>1. k \in Lines /\ k # j
        BY <1>1 DEF Lines
      <4>2. set[j].last_touch # set[k].last_touch
        BY <1>1, <2>1, <4>1 DEF Stamped
      <4> QED
        BY <1>1, <2>1, <3>4, <4>1, <4>2
    <3> QED
      BY <1>1, <2>1, <3>3, <3>4, <3>5
  <2>4. lru_line(set) = CHOOSE j \in Lines : Least(j)
    BY DEF lru_line
  <2>5. lru_line(set) \in Lines /\ Least(lru_line(set))
    <3> HIDE DEF Least
    <3> QED
      BY <2>3, <2>4
  <2> DEFINE v == lru_line(set)
  <2>6. Later(set, v) = Valid(set) \ {v}
    <3>1. ASSUME NEW k \in Valid(set), k # v PROVE set[k].last_touch > set[v].last_touch
      <4>1. set[k].last_touch # set[v].last_touch
        BY <1>1, <2>1, <2>5, <3>1 DEF Stamped
      <4> QED
        BY <1>1, <2>1, <2>5, <4>1
    <3>2. ~(set[v].last_touch > set[v].last_touch)
      BY <1>1, <2>1, <2>5
    <3> QED
      BY <3>1, <3>2 DEF Later
  <2>7. Rank(set, v) = E
    <3>1. IsFiniteSet(Valid(set)) /\ v \in Valid(set) /\ Cardinality(Valid(set)) = E
      BY <2>1, <2>2, <2>5, ValidFinite DEF Size
    <3>2. Cardinality(Valid(set) \ {v}) = E - 1
      BY <3>1, FS_RemoveElement
    <3> QED
      BY <1>1, <2>6, <3>2 DEF Rank
  <2> QED
    BY <2>1, <2>2, <2>5, <2>7 DEF set
<1> QED
  BY <1>2, <1>3

-----------------------------------------------------------------------------
(* A step keeps the invariant.                                             *)
LEMMA CsimStep ==
  ASSUME CsimIInv, CsimNext
  PROVE  CsimIInv'
<1>1. ASSUME NEW op, NEW a \in Addresses, TraceLine(op, a) PROVE CsimIInv'
  <2> DEFINE i == parseAddr(a).set_idx
             t == parseAddr(a).tag
  <2>1. /\ COUNTER < MaxLines /\ i \in Indices /\ t \in 0..UINT_MAX
        /\ addr' = a /\ a \in Nat
        /\ \/ \E j \in Valid(sets[i]) : Use(i, j, t)
           \/ Use(i, Filled(sets[i]), t)
    BY <1>1, TraceLineUses
  <2>2. PICK j \in Lines : Use(i, j, t)
    <3>1. Filled(sets[i]) \in Lines /\ Valid(sets[i]) \subseteq Lines
      BY <2>1, FilledIs DEF Valid
    <3> QED
      BY <2>1, <3>1
  <2> HIDE DEF i, t
  <2>3. StampsOrder'
    BY <2>1, <2>2, UseKeeps
  <2>4. sets' \in [Indices -> [Lines -> Line]] /\ COUNTER' \in 0..MaxLines
    BY <2>1, <2>2, UseIs
  <2> QED
    BY <2>1, <2>3, <2>4 DEF CsimIInv, CsimTypeOK
<1>2. ASSUME UNCHANGED <<sets, COUNTER, addr>> PROVE CsimIInv'
  BY <1>2 DEF CsimIInv, CsimTypeOK, StampsOrder, Stamped, Valid, FreeLines
<1> QED
  BY <1>1, <1>2 DEF CsimNext, InvalidSize

(* It starts with no valid line.                                           *)
LEMMA CsimStart ==
  ASSUME CsimInit
  PROVE  CsimIInv /\ \A i \in Indices : Valid(sets[i]) = {}
<1>1. UINT_MAX \in Nat /\ MaxLines \in Nat
  BY CsimAssumption, Geometry DEF CsimAssumption
<1>2. [valid |-> FALSE, tag |-> 0, last_touch |-> 0] \in Line
  BY <1>1 DEF Line
<1>3. CsimTypeOK
  BY <1>1, <1>2 DEF CsimInit, CsimTypeOK, Indices
<1>4. \A i \in Indices, j \in Lines : ~sets[i][j].valid
  BY DEF CsimInit, Indices
<1>5. \A i \in Indices : Valid(sets[i]) = {}
  BY <1>4 DEF Valid, FreeLines
<1> QED
  BY <1>3, <1>5 DEF CsimIInv, StampsOrder, Stamped

(* The types, and the order of the stamps: COUNTER is never below a stamp, *)
(* so what is touched now has the highest, and no two lines of a set have  *)
(* the same.                                                               *)
THEOREM CsimIInvHolds == CsimSpec => []CsimIInv
<1>1. CsimIInv /\ UNCHANGED csimvars => CsimIInv'
  BY DEF csimvars, CsimIInv, CsimTypeOK, StampsOrder, Stamped, Valid, FreeLines
<1> QED
  BY <1>1, CsimStart, CsimStep, PTL DEF CsimSpec

-----------------------------------------------------------------------------
(* The sets as the abstract cache has them.                                *)
Recent == [i \in 0..(S - 1) |-> ByAge(sets[i])]

(* A function on the first numbers is a sequence.                          *)
LEMMA IsSeq ==
  ASSUME NEW T, NEW n \in Nat, NEW q \in [1..n -> T]
  PROVE  q \in Seq(T) /\ Len(q) = n
  OBVIOUS

(* A set by age is a sequence of tags, as long as it has valid lines.      *)
LEMMA AgesAreTags ==
  ASSUME CsimTypeOK, NEW i \in Indices, Stamped(sets[i])
  PROVE  /\ ByAge(sets[i]) \in Seq(0..UINT_MAX)
         /\ Len(ByAge(sets[i])) = Size(sets[i])
         /\ \A j \in Valid(sets[i]) : ByAge(sets[i])[Rank(sets[i], j)] = sets[i][j].tag
         /\ \A n \in 1..Size(sets[i]) :
              \E j \in Valid(sets[i]) : ByAge(sets[i])[n] = sets[i][j].tag
<1> DEFINE set == sets[i]
           n == Size(set)
<1>1. n \in Nat
  BY ValidFinite, CsimAssumption DEF CsimAssumption
<1>2. \A j \in Valid(set) : set[j].tag \in 0..UINT_MAX
  BY DEF CsimTypeOK, Valid, Line
<1>3. ByAge(set) = [k \in 1..n |-> set[Nth(set, k)].tag]
  BY ByAgeIs
<1>4. \A k \in 1..n : Nth(set, k) \in Valid(set)
  BY NthIs
<1>5. ASSUME NEW j \in Valid(set) PROVE ByAge(set)[Rank(set, j)] = set[j].tag
  <2>1. Rank(set, j) \in 1..n /\ Nth(set, Rank(set, j)) = j
    BY LaterFinite, NthIs
  <2> QED
    BY <1>3, <2>1
<1> HIDE DEF n, set
<1>6. ByAge(set) \in [1..n -> 0..UINT_MAX]
  BY <1>2, <1>3, <1>4
<1>7. ByAge(set) \in Seq(0..UINT_MAX) /\ Len(ByAge(set)) = n
  BY <1>1, <1>6, IsSeq
<1>8. \A k \in 1..n : \E j \in Valid(set) : ByAge(set)[k] = set[j].tag
  BY <1>3, <1>4
<1> QED
  BY <1>5, <1>7, <1>8 DEF n, set

(* The set of a line that is used, before and after: the tag moves to the  *)
(* front, from its place, from that of the oldest, or from outside.        *)
LEMMA UsedFirst ==
  ASSUME CsimIInv, COUNTER < MaxLines,
         NEW i \in Indices, NEW j \in Lines, NEW t \in 0..UINT_MAX, Use(i, j, t)
  PROVE  /\ j \notin Valid(sets[i]) =>
              ByAge(sets'[i]) = <<t>> \o ByAge(sets[i])
         /\ j \in Valid(sets[i]) =>
              LET r == Rank(sets[i], j)
              IN  /\ r \in DOMAIN ByAge(sets[i])
                  /\ ByAge(sets'[i]) = <<t>> \o RemoveAt(ByAge(sets[i]), r)
                  /\ r = Len(ByAge(sets[i])) =>
                       ByAge(sets'[i]) = <<t>> \o SubSeq(ByAge(sets[i]), 1, r - 1)
         /\ Recent' = [Recent EXCEPT ![i] = ByAge(sets'[i])]
<1> DEFINE q == ByAge(sets[i])
           p == ByAge(sets'[i])
           r == Rank(sets[i], j)
           n == Size(sets[i])
<1>1. Stamped(sets[i]) /\ CsimTypeOK
  BY DEF CsimIInv, StampsOrder
<1>2. q \in Seq(0..UINT_MAX) /\ Len(q) = n
  BY <1>1, AgesAreTags
<1>3. /\ j \notin Valid(sets[i]) =>
           p = [k \in 1..(n + 1) |-> IF k = 1 THEN t ELSE q[k - 1]]
      /\ j \in Valid(sets[i]) =>
           p = [k \in 1..n |-> IF k = 1 THEN t ELSE IF k <= r THEN q[k - 1] ELSE q[k]]
  <2> DEFINE old == sets[i]
             new == sets'[i]
  <2>1. /\ Stamped(old) /\ new[j].valid /\ new[j].last_touch \in Nat /\ new[j].tag = t
        /\ \A k \in Valid(old) : new[j].last_touch > old[k].last_touch
        /\ \A k \in Lines \ {j} : new[k] = old[k]
    BY <1>1, UseIs
  <2> HIDE DEF old, new
  <2>2. /\ j \notin Valid(old) =>
             ByAge(new) = [k \in 1..(Size(old) + 1) |->
                             IF k = 1 THEN new[j].tag ELSE ByAge(old)[k - 1]]
        /\ j \in Valid(old) =>
             ByAge(new) = [k \in 1..Size(old) |->
                             IF k = 1 THEN new[j].tag
                             ELSE IF k <= Rank(old, j) THEN ByAge(old)[k - 1] ELSE ByAge(old)[k]]
    BY <2>1, AgesAfterUse
  <2> QED
    BY <2>1, <2>2 DEF old, new
<1>4. j \in Valid(sets[i]) => r \in 1..n
  BY <1>1, LaterFinite
<1>5. Recent' = [Recent EXCEPT ![i] = p]
  <2>1. \A k \in Indices \ {i} : sets'[k] = sets[k]
    BY UseIs
  <2>2. Recent' = [k \in Indices |-> ByAge(sets'[k])]
    BY DEF Recent, Indices
  <2>3. Recent = [k \in Indices |-> ByAge(sets[k])]
    BY DEF Recent, Indices
  <2> QED
    BY <2>1, <2>2, <2>3
<1> HIDE DEF q, p, r, n
<1>6. j \notin Valid(sets[i]) => p = <<t>> \o q
  BY <1>2, <1>3, InFront
<1>7. j \in Valid(sets[i]) => /\ r \in DOMAIN q
                              /\ p = <<t>> \o RemoveAt(q, r)
                              /\ r = Len(q) => p = <<t>> \o SubSeq(q, 1, r - 1)
  <2> DEFINE T == 0..UINT_MAX
  <2>1. q \in Seq(T) /\ t \in T
    BY <1>2
  <2> HIDE DEF T
  <2>2. ASSUME j \in Valid(sets[i]) PROVE r \in 1..Len(q) /\ DOMAIN q = 1..Len(q)
    BY <1>2, <1>4, <2>1, <2>2
  <2>3. ASSUME j \in Valid(sets[i])
        PROVE  p = Shifted(t, q, r)
    BY <1>2, <1>3, <2>3 DEF Shifted
  <2>4. ASSUME j \in Valid(sets[i])
        PROVE  /\ p = <<t>> \o RemoveAt(q, r)
               /\ r = Len(q) => p = <<t>> \o SubSeq(q, 1, r - 1)
    <3>1. r \in 1..Len(q) /\ p = Shifted(t, q, r)
      BY <2>2, <2>3, <2>4
    <3>2. Shifted(t, q, r) = <<t>> \o RemoveAt(q, r)
      BY <2>1, <3>1, ToTheFront
    <3>3. r = Len(q) => RemoveAt(q, r) = SubSeq(q, 1, r - 1)
      BY <2>1, <3>1, ToTheFront
    <3> QED
      BY <3>1, <3>2, <3>3
  <2> QED
    BY <2>2, <2>4
<1> QED
  BY <1>5, <1>6, <1>7 DEF q, p, r

(* The summary.                                                            *)
Counts(h, m, e) == [hits |-> h, misses |-> m, evictions |-> e]
Summary == Counts(hits, misses, evictions)

(* An update of its three counts.                                          *)
LEMMA MissCounted ==
  ASSUME NEW x, NEW y, NEW z
  PROVE  [Summary EXCEPT !.misses = y, !.hits = x, !.evictions = z] = Counts(x, y, z)
<1>1. [Summary EXCEPT !.misses = y] = Counts(hits, y, evictions)
  BY DEF Summary, Counts
<1>2. [Counts(hits, y, evictions) EXCEPT !.hits = x] = Counts(x, y, evictions)
  BY DEF Counts
<1>3. [Counts(x, y, evictions) EXCEPT !.evictions = z] = Counts(x, y, z)
  BY DEF Counts
<1> QED
  BY <1>1, <1>2, <1>3

(* A line of the trace is one access of the abstract cache, with the same  *)
(* hits, misses and evictions.                                             *)
LEMMA LineIsAccess ==
  ASSUME CsimIInv, NEW op \in {"L", "S", "M"}, NEW a \in Addresses, TraceLine(op, a)
  PROVE  Cached!Next
<1> DEFINE i == parseAddr(a).set_idx
           t == parseAddr(a).tag
           stores == IF op = "M" THEN 1 ELSE 0
<1>1. /\ COUNTER < MaxLines /\ i \in Indices /\ t \in 0..UINT_MAX /\ addr' = a /\ a \in Nat
      /\ \/ \E j \in Valid(sets[i]) :
              /\ sets[i][j].tag = t /\ Use(i, j, t)
              /\ hits' = hits + 1 + stores
              /\ misses' = misses /\ evictions' = evictions
         \/ /\ \A j \in Valid(sets[i]) : sets[i][j].tag # t
            /\ Use(i, Filled(sets[i]), t)
            /\ hits' = hits + stores
            /\ misses' = misses + 1
            /\ evictions' = evictions + IF sets[i][Filled(sets[i])].valid THEN 1 ELSE 0
  BY TraceLineUses
<1>2. parseAddr(addr') = [set_idx |-> i, tag |-> t]
  <2>1. parseAddr(a) \in [set_idx : Indices, tag : 0..UINT_MAX]
    BY <1>1, Geometry DEF Indices
  <2> QED
    BY <1>1, <2>1
<1> HIDE DEF i, t, stores
<1>3. CsimTypeOK /\ Stamped(sets[i])
  BY <1>1 DEF CsimIInv, StampsOrder
<1>4. /\ Recent[i] = ByAge(sets[i]) /\ Len(ByAge(sets[i])) = Size(sets[i])
      /\ DOMAIN ByAge(sets[i]) = 1..Size(sets[i])
      /\ \A j \in Valid(sets[i]) : ByAge(sets[i])[Rank(sets[i], j)] = sets[i][j].tag
      /\ \A n \in 1..Size(sets[i]) :
           \E j \in Valid(sets[i]) : ByAge(sets[i])[n] = sets[i][j].tag
  BY <1>1, <1>3, AgesAreTags, ByAgeIs DEF Recent, Indices
<1>5. CASE \E j \in Valid(sets[i]) :
             /\ sets[i][j].tag = t /\ Use(i, j, t)
             /\ hits' = hits + 1 + stores
             /\ misses' = misses /\ evictions' = evictions
  <2>1. PICK j \in Valid(sets[i]) :
             /\ sets[i][j].tag = t /\ Use(i, j, t)
             /\ hits' = hits + 1 + stores
             /\ misses' = misses /\ evictions' = evictions
    BY <1>5
  <2>2. j \in Lines
    BY DEF Valid
  <2> DEFINE r == Rank(sets[i], j)
  <2>3. /\ r \in DOMAIN Recent[i] /\ Recent[i][r] = t
        /\ Recent' = [Recent EXCEPT ![i] = <<t>> \o RemoveAt(Recent[i], r)]
    BY <1>1, <1>4, <2>1, <2>2, UsedFirst
  <2> HIDE DEF r
  <2>4. Cached!Hit(i, t)
    BY <2>3, Zenon DEF Cached!Hit, Cached!RemoveAt, RemoveAt, Recent
  <2>5. Summary' = [Summary EXCEPT !.hits = @ + 1 + stores]
    BY <2>1 DEF Summary, Counts
  <2> QED
    BY <1>1, <1>2, <2>4, <2>5 DEF Cached!Next, Cached!Access, Summary, Counts, Indices, stores
<1>6. CASE /\ \A j \in Valid(sets[i]) : sets[i][j].tag # t
           /\ Use(i, Filled(sets[i]), t)
           /\ hits' = hits + stores
           /\ misses' = misses + 1
           /\ evictions' = evictions + IF sets[i][Filled(sets[i])].valid THEN 1 ELSE 0
  <2> DEFINE j == Filled(sets[i])
  <2>1. /\ j \in Lines /\ Use(i, j, t)
        /\ Size(sets[i]) # E => j \notin Valid(sets[i])
        /\ Size(sets[i]) = E => j \in Valid(sets[i]) /\ Rank(sets[i], j) = E
    BY <1>1, <1>6, FilledIs
  <2>2. sets[i][j].valid <=> Size(sets[i]) = E
    BY <2>1 DEF Valid, FreeLines
  <2>3. ~Cached!Present(i, t)
    BY <1>4, <1>6 DEF Cached!Present, Recent
  <2>4. Recent' = [Recent EXCEPT ![i] =
                     <<t>> \o IF Len(Recent[i]) = E THEN SubSeq(Recent[i], 1, E - 1) ELSE Recent[i]]
    BY <1>1, <1>4, <2>1, UsedFirst
  <2>5. Cached!Miss(i, t)
    BY <2>3, <2>4 DEF Cached!Miss, Recent
  <2>6. Summary' = [Summary EXCEPT !.misses = @ + 1, !.hits = @ + stores,
                      !.evictions = @ + IF Len(Recent[i]) = E THEN 1 ELSE 0]
    <3> DEFINE evicted == IF Len(Recent[i]) = E THEN 1 ELSE 0
    <3>1. (IF sets[i][j].valid THEN 1 ELSE 0) = evicted
      BY <1>4, <2>2, Zenon
    <3>2. hits' = hits + stores /\ misses' = misses + 1 /\ evictions' = evictions + evicted
      BY <1>6, <3>1, Zenon
    <3> HIDE DEF evicted
    <3>3. Summary' = [Summary EXCEPT !.misses = @ + 1, !.hits = @ + stores, !.evictions = @ + evicted]
      <4>1. Summary' = Counts(hits + stores, misses + 1, evictions + evicted)
        BY <3>2 DEF Summary
      <4>2. [Summary EXCEPT !.misses = misses + 1, !.hits = hits + stores,
                            !.evictions = evictions + evicted]
              = Counts(hits + stores, misses + 1, evictions + evicted)
        BY MissCounted
      <4>3. Summary.misses = misses /\ Summary.hits = hits /\ Summary.evictions = evictions
        BY DEF Summary, Counts
      <4> QED
        BY <4>1, <4>2, <4>3
    <3> QED
      BY <3>3 DEF evicted
  <2> QED
    BY <1>1, <1>2, <2>5, <2>6 DEF Cached!Next, Cached!Access, Summary, Counts, Recent, Indices, stores
<1> QED
  BY <1>1, <1>5, <1>6

(* touchCache implements the least recently used cache of Lru: every line  *)
(* of the trace hits or misses as that cache does, evicts what that cache  *)
(* evicts, and adds to the summary what that cache counts.                 *)
THEOREM SimulatorIsLru == CsimSpec => ImplementsLru
<1>1. CsimInit => Cached!Init
  <2> SUFFICES ASSUME CsimInit PROVE Cached!Init
    OBVIOUS
  <2>1. \A i \in Indices : Valid(sets[i]) = {}
    BY CsimStart
  <2>2. ASSUME NEW i \in Indices PROVE ByAge(sets[i]) = <<>>
    <3>1. Size(sets[i]) = 0
      BY <2>1, FS_EmptySet DEF Size
    <3> QED
      BY <3>1, ByAgeIs
  <2>3. Recent = [i \in Indices |-> <<>>]
    BY <2>2 DEF Recent, Indices
  <2>4. parseAddr(addr) \in [set_idx : 0..(S - 1), tag : 0..UINT_MAX]
    BY Geometry DEF CsimInit
  <2> QED
    BY <2>3, <2>4 DEF CsimInit, Cached!Init, Recent, Indices
<1>2. CsimIInv /\ [CsimNext]_csimvars
        => [Cached!Next]_<<Recent, Summary, parseAddr(addr)>>
  <2>1. ASSUME UNCHANGED <<sets, hits, misses, evictions, addr>>
        PROVE  UNCHANGED <<Recent, Summary, parseAddr(addr)>>
    BY <2>1 DEF Recent, Summary, Counts
  <2> QED
    BY <2>1, LineIsAccess DEF CsimNext, InvalidSize, csimvars
<1> QED
  BY <1>1, <1>2, CsimIInvHolds, PTL DEF CsimSpec, ImplementsLru, Cached!Spec, Recent, Summary, Counts
=============================================================================
