----------------------------- MODULE SbufProofs -----------------------------
(***************************************************************************)
(* Theorems about Sbuf, for any finite sets of threads and any capacity N. *)
(***************************************************************************)
EXTENDS Sbuf, Counting, SequenceTheorems, TLAPS

Labels == {"idle"} \cup InsertLabels \cup RemoveLabels \cup QueryLabels

(* There are finitely many threads to count.                               *)
LEMMA ThreadsFinite == IsFiniteSet(Threads)
  BY SbufAssumption DEF SbufAssumption


(* The variables of Sbuf have their types in every reachable state.        *)
THEOREM TypeCorrect == SbufSpec => []SbufTypeOK
<1> USE SbufAssumption DEF SbufAssumption, Threads
<1>1. SbufInit => SbufTypeOK
  BY DEF SbufInit, SbufTypeOK
<1>2. SbufTypeOK /\ [SbufNext]_sbufvars => SbufTypeOK'
  <2> SUFFICES ASSUME SbufTypeOK, [SbufNext]_sbufvars PROVE SbufTypeOK'
    OBVIOUS
  <2> USE DEF SbufTypeOK, Moves, ring, sems, InsertLabels, RemoveLabels, QueryLabels
  <2>1. ASSUME NEW p \in Producers, InsertCall(p) PROVE SbufTypeOK'
    BY <2>1 DEF InsertCall
  <2>2. ASSUME NEW p \in Producers, Insert(p) PROVE SbufTypeOK'
    <3>1. CASE InsertPSlots(p)
      BY <3>1 DEF InsertPSlots
    <3>2. CASE InsertLock(p)
      BY <3>2 DEF InsertLock, LockRing
    <3>3. CASE InsertBump(p)
      BY <3>3 DEF InsertBump
    <3>4. CASE InsertStore(p)
      BY <3>4 DEF InsertStore
    <3>5. CASE InsertUnlock(p)
      BY <3>5 DEF InsertUnlock, UnlockRing
    <3>6. CASE InsertVItems(p)
      BY <3>6 DEF InsertVItems
    <3> QED
      BY <2>2, <3>1, <3>2, <3>3, <3>4, <3>5, <3>6 DEF Insert
  <2>3. ASSUME NEW c \in Consumers, Remove(c) PROVE SbufTypeOK'
    <3>1. CASE RemoveLoad(c)
      <4>1. front % N \in 0..N-1
        OBVIOUS
      <4> QED
        BY <3>1, <4>1 DEF RemoveLoad
    <3>2. CASE RemoveCall(c)
      BY <3>2 DEF RemoveCall
    <3>3. CASE RemovePItems(c)
      BY <3>3 DEF RemovePItems
    <3>4. CASE RemoveLock(c)
      BY <3>4 DEF RemoveLock, LockRing
    <3>5. CASE RemoveBump(c)
      BY <3>5 DEF RemoveBump
    <3>6. CASE RemoveUnlock(c)
      BY <3>6 DEF RemoveUnlock, UnlockRing
    <3>7. CASE RemoveVSlots(c)
      BY <3>7 DEF RemoveVSlots
    <3> QED
      BY <2>3, <3>1, <3>2, <3>3, <3>4, <3>5, <3>6, <3>7 DEF Remove
  <2>4. ASSUME NEW t \in Pollers, QueryCall(t) \/ Query(t) PROVE SbufTypeOK'
    <3>1. CASE QueryLock(t)
      <4>1. CASE LockRing(t, "q_lock", "q_empty")
        BY <4>1 DEF LockRing
      <4>2. CASE LockRing(t, "q_lock", "q_full")
        BY <4>2 DEF LockRing
      <4> QED
        BY <3>1, <4>1, <4>2 DEF QueryLock
    <3>2. CASE QueryRead(t)
      <4>1. IsEmpty \in BOOLEAN /\ IsFull \in BOOLEAN
        BY DEF IsEmpty, IsFull
      <4> QED
        BY <3>2, <4>1 DEF QueryRead
    <3>3. CASE QueryUnlock(t)
      BY <3>3 DEF QueryUnlock, UnlockRing
    <3>4. CASE QueryCall(t)
      BY <3>4 DEF QueryCall
    <3> QED
      BY <2>4, <3>1, <3>2, <3>3, <3>4 DEF Query
  <2>5. CASE UNCHANGED sbufvars
    BY <2>5 DEF sbufvars
  <2> QED
    BY <2>1, <2>2, <2>3, <2>4, <2>5 DEF SbufNext
<1> QED
  BY <1>1, <1>2, PTL DEF SbufSpec
-----------------------------------------------------------------------------
(* What a step does to the mutex, by how it changes the critical section.  *)

(* A step that neither enters nor leaves the section keeps the exclusion.  *)
LEMMA MutexStay ==
  ASSUME SbufTypeOK, MutexInv, NEW t \in Threads, NEW from, NEW to,
         Moves(t, from, to), from \in Critical <=> to \in Critical, ring_mutex' = ring_mutex
  PROVE  MutexInv'
<1>1. at[t] = from /\ \A u \in Threads : at'[u] = IF u = t THEN to ELSE at[u]
  BY DEF SbufTypeOK, Moves
<1>2. \A u \in Threads : at'[u] \in Critical <=> at[u] \in Critical
  BY <1>1
<1> QED
  BY <1>2 DEF MutexInv

(* P(mutex) admits one thread to an empty section.                         *)
LEMMA MutexLock ==
  ASSUME SbufTypeOK, MutexInv, NEW t \in Threads, NEW from, NEW to,
         LockRing(t, from, to), to \in Critical
  PROVE  MutexInv'
<1>1. \A u \in Threads : at'[u] = IF u = t THEN to ELSE at[u]
  BY DEF SbufTypeOK, LockRing, Moves
<1>2. ring_mutex = 1 /\ ring_mutex' = 0 /\ \A u \in Threads : at[u] \notin Critical
  BY DEF MutexInv, LockRing
<1> QED
  BY <1>1, <1>2 DEF MutexInv

(* V(mutex) by the thread in the section leaves the section empty.         *)
LEMMA MutexUnlock ==
  ASSUME SbufTypeOK, MutexInv, NEW t \in Threads, NEW from, NEW to,
         Moves(t, from, to), ring_mutex' = ring_mutex + 1,
         from \in Critical, to \notin Critical
  PROVE  MutexInv'
<1>1. at[t] = from /\ \A u \in Threads : at'[u] = IF u = t THEN to ELSE at[u]
  BY DEF SbufTypeOK, Moves
<1>2. ring_mutex = 0 /\ ring_mutex' = 1
  BY <1>1 DEF MutexInv
<1>3. \A u \in Threads : at'[u] \notin Critical
  BY <1>1 DEF MutexInv
<1> QED
  BY <1>2, <1>3 DEF MutexInv

(* The accesses to the ring of two threads never overlap.                  *)
THEOREM MutualExclusion == SbufSpec => []MutexInv
<1>1. SbufInit => MutexInv
  BY DEF SbufInit, MutexInv, Critical
<1>2. SbufTypeOK /\ MutexInv /\ [SbufNext]_sbufvars => MutexInv'
  <2> SUFFICES ASSUME SbufTypeOK, MutexInv, [SbufNext]_sbufvars PROVE MutexInv'
    OBVIOUS
  <2>1. ASSUME NEW p \in Producers, InsertCall(p) \/ Insert(p) PROVE MutexInv'
    <3> p \in Threads
      BY DEF Threads
    <3>1. CASE InsertLock(p)
      BY <3>1, MutexLock DEF InsertLock, Critical
    <3>2. CASE InsertUnlock(p)
      BY <3>2, MutexUnlock DEF InsertUnlock, UnlockRing, Critical
    <3>3. CASE InsertCall(p) \/ InsertPSlots(p)
      BY <3>3, MutexStay DEF InsertCall, InsertPSlots, sems, Critical
    <3>4. CASE InsertBump(p) \/ InsertStore(p)
      BY <3>4, MutexStay DEF InsertBump, InsertStore, sems, Critical
    <3>5. CASE InsertVItems(p)
      BY <3>5, MutexStay DEF InsertVItems, Critical
    <3> QED
      BY <2>1, <3>1, <3>2, <3>3, <3>4, <3>5 DEF Insert
  <2>2. ASSUME NEW c \in Consumers, Remove(c) PROVE MutexInv'
    <3> c \in Threads
      BY DEF Threads
    <3>1. CASE RemoveLock(c)
      BY <3>1, MutexLock DEF RemoveLock, Critical
    <3>2. CASE RemoveUnlock(c)
      BY <3>2, MutexUnlock DEF RemoveUnlock, UnlockRing, Critical
    <3>3. CASE RemoveCall(c) \/ RemovePItems(c)
      BY <3>3, MutexStay DEF RemoveCall, RemovePItems, sems, Critical
    <3>4. CASE RemoveBump(c) \/ RemoveLoad(c)
      BY <3>4, MutexStay DEF RemoveBump, RemoveLoad, sems, Critical
    <3>5. CASE RemoveVSlots(c)
      BY <3>5, MutexStay DEF RemoveVSlots, Critical
    <3> QED
      BY <2>2, <3>1, <3>2, <3>3, <3>4, <3>5 DEF Remove
  <2>3. ASSUME NEW t \in Pollers, QueryCall(t) \/ Query(t) PROVE MutexInv'
    <3> t \in Threads
      BY DEF Threads
    <3>1. CASE QueryLock(t)
      BY <3>1, MutexLock DEF QueryLock, Critical
    <3>2. CASE QueryRead(t)
      BY <3>2, MutexStay DEF QueryRead, sems, Critical
    <3>3. CASE QueryUnlock(t)
      BY <3>3, MutexUnlock DEF QueryUnlock, Critical
    <3>4. CASE QueryCall(t)
      BY <3>4, MutexStay DEF QueryCall, sems, Critical
    <3> QED
      BY <2>3, <3>1, <3>2, <3>3, <3>4 DEF Query
  <2>4. CASE UNCHANGED sbufvars
    BY <2>4 DEF sbufvars, MutexInv
  <2> QED
    BY <2>1, <2>2, <2>3, <2>4 DEF SbufNext
<1> QED
  BY <1>1, <1>2, TypeCorrect, PTL DEF SbufSpec
-----------------------------------------------------------------------------
(* The change of the number of threads at a label of L when one moves.     *)
Delta(from, to, L) == (IF to \in L THEN 1 ELSE 0) - (IF from \in L THEN 1 ELSE 0)

(* A step keeps the credits when its changes to the semaphores and indices *)
(* make up for the thread's change of place.                               *)
LEMMA CreditMove ==
  ASSUME SbufTypeOK, CreditInv, front' \in Nat, rear' \in Nat,
         NEW t \in Threads, NEW from, NEW to \in Labels, Moves(t, from, to),
         slots' = slots - Delta(from, to, SlotTaken) - Delta(from, to, SlotEmptied)
                        - ((rear' - front') - (rear - front)),
         items' = items - Delta(from, to, ItemTaken) - Delta(from, to, ItemStored)
                        + ((rear' - front') - (rear - front))
  PROVE  CreditInv'
<1>1. /\ slots + Num(Threads, at, SlotTaken) + (rear - front) + Num(Threads, at, SlotEmptied) = N
      /\ items + Num(Threads, at, ItemTaken) + Num(Threads, at, ItemStored) = rear - front
  BY DEF CreditInv, ThreadsAt, Num, Placed
<1>2. /\ at \in [Threads -> Labels] /\ at[t] = from
      /\ \A u \in Threads : at'[u] = IF u = t THEN to ELSE at[u]
  BY DEF SbufTypeOK, Labels, Moves
<1>3. \A L : Num(Threads, at', L) = Num(Threads, at, L) + Delta(from, to, L)
  <2> SUFFICES ASSUME NEW L PROVE Num(Threads, at', L) = Num(Threads, at, L) + Delta(from, to, L)
    OBVIOUS
  <2>1. Num(Threads, at', L)
          = Num(Threads, at, L) + (IF to \in L THEN 1 ELSE 0) - (IF at[t] \in L THEN 1 ELSE 0)
    BY <1>2, ThreadsFinite, NumMove
  <2>2. Num(Threads, at, L) \in Nat
    BY ThreadsFinite, PlacedFinite
  <2> QED
    BY <1>2, <2>1, <2>2 DEF Delta
<1>4. \A L : Num(Threads, at, L) \in Nat /\ Delta(from, to, L) \in Int
  BY ThreadsFinite, PlacedFinite DEF Delta
<1>5. /\ slots' + Num(Threads, at', SlotTaken) + (rear' - front') + Num(Threads, at', SlotEmptied) = N
      /\ items' + Num(Threads, at', ItemTaken) + Num(Threads, at', ItemStored) = rear' - front'
  <2>1. /\ slots \in Nat /\ items \in Nat /\ rear \in Nat /\ front \in Nat /\ N \in Nat
    BY SbufAssumption DEF SbufTypeOK, SbufAssumption
  <2>2. /\ Num(Threads, at', SlotTaken) = Num(Threads, at, SlotTaken) + Delta(from, to, SlotTaken)
        /\ Num(Threads, at', SlotEmptied) = Num(Threads, at, SlotEmptied) + Delta(from, to, SlotEmptied)
        /\ Num(Threads, at', ItemTaken) = Num(Threads, at, ItemTaken) + Delta(from, to, ItemTaken)
        /\ Num(Threads, at', ItemStored) = Num(Threads, at, ItemStored) + Delta(from, to, ItemStored)
    BY <1>3
  <2> QED
    BY <1>1, <1>4, <2>1, <2>2
<1> QED
  BY <1>5 DEF CreditInv, ThreadsAt, Num, Placed

(* The slots and the items are conserved by every step of every thread.    *)
THEOREM CreditsConserved == SbufSpec => []CreditInv
<1> USE DEF SlotTaken, SlotEmptied, ItemTaken, ItemStored
<1>1. SbufInit => CreditInv
  <2> SUFFICES ASSUME SbufInit PROVE CreditInv
    OBVIOUS
  <2>1. ASSUME NEW L, "idle" \notin L PROVE Num(Threads, at, L) = 0
    BY <2>1, ThreadsFinite, NumPositive DEF SbufInit
  <2>2. /\ Num(Threads, at, SlotTaken) = 0 /\ Num(Threads, at, SlotEmptied) = 0
        /\ Num(Threads, at, ItemTaken) = 0 /\ Num(Threads, at, ItemStored) = 0
    BY <2>1
  <2>3. Num(Threads, at, SlotTaken) = Cardinality(ThreadsAt(SlotTaken))
        /\ Num(Threads, at, SlotEmptied) = Cardinality(ThreadsAt(SlotEmptied))
        /\ Num(Threads, at, ItemTaken) = Cardinality(ThreadsAt(ItemTaken))
        /\ Num(Threads, at, ItemStored) = Cardinality(ThreadsAt(ItemStored))
    BY DEF Num, Placed, ThreadsAt
  <2> QED
    BY <2>2, <2>3, SbufAssumption DEF SbufInit, CreditInv, SbufAssumption
<1>2. SbufTypeOK /\ SbufTypeOK' /\ CreditInv /\ [SbufNext]_sbufvars => CreditInv'
  <2> SUFFICES ASSUME SbufTypeOK, SbufTypeOK', CreditInv, [SbufNext]_sbufvars PROVE CreditInv'
    OBVIOUS
  <2> USE DEF Delta, Labels, InsertLabels, RemoveLabels, QueryLabels, ring, sems
  <2>0. front' \in Nat /\ rear' \in Nat
        /\ front \in Nat /\ rear \in Nat /\ slots \in Nat /\ items \in Nat
    BY DEF SbufTypeOK
  <2>1. ASSUME NEW p \in Producers, InsertCall(p) \/ Insert(p) PROVE CreditInv'
    <3> p \in Threads
      BY DEF Threads
    <3>1. CASE InsertCall(p)
      BY <2>0, <3>1, CreditMove DEF InsertCall
    <3>2. CASE InsertPSlots(p)
      BY <2>0, <3>2, CreditMove DEF InsertPSlots
    <3>3. CASE InsertLock(p)
      BY <2>0, <3>3, CreditMove DEF InsertLock, LockRing
    <3>4. CASE InsertBump(p)
      BY <2>0, <3>4, CreditMove DEF InsertBump
    <3>5. CASE InsertStore(p)
      BY <2>0, <3>5, CreditMove DEF InsertStore
    <3>6. CASE InsertUnlock(p)
      BY <2>0, <3>6, CreditMove DEF InsertUnlock, UnlockRing
    <3>7. CASE InsertVItems(p)
      BY <2>0, <3>7, CreditMove DEF InsertVItems
    <3> QED
      BY <2>1, <3>1, <3>2, <3>3, <3>4, <3>5, <3>6, <3>7 DEF Insert
  <2>2. ASSUME NEW c \in Consumers, Remove(c) PROVE CreditInv'
    <3> c \in Threads
      BY DEF Threads
    <3>1. CASE RemoveCall(c)
      BY <2>0, <3>1, CreditMove DEF RemoveCall
    <3>2. CASE RemovePItems(c)
      BY <2>0, <3>2, CreditMove DEF RemovePItems
    <3>3. CASE RemoveLock(c)
      BY <2>0, <3>3, CreditMove DEF RemoveLock, LockRing
    <3>4. CASE RemoveBump(c)
      BY <2>0, <3>4, CreditMove DEF RemoveBump
    <3>5. CASE RemoveLoad(c)
      BY <2>0, <3>5, CreditMove DEF RemoveLoad
    <3>6. CASE RemoveUnlock(c)
      BY <2>0, <3>6, CreditMove DEF RemoveUnlock, UnlockRing
    <3>7. CASE RemoveVSlots(c)
      BY <2>0, <3>7, CreditMove DEF RemoveVSlots
    <3> QED
      BY <2>2, <3>1, <3>2, <3>3, <3>4, <3>5, <3>6, <3>7 DEF Remove
  <2>3. ASSUME NEW t \in Pollers, QueryCall(t) \/ Query(t) PROVE CreditInv'
    <3> t \in Threads
      BY DEF Threads
    <3>1. CASE QueryLock(t)
      BY <2>0, <3>1, CreditMove DEF QueryLock, LockRing
    <3>2. CASE QueryRead(t)
      BY <2>0, <3>2, CreditMove DEF QueryRead
    <3>3. CASE QueryUnlock(t)
      BY <2>0, <3>3, CreditMove DEF QueryUnlock, UnlockRing
    <3>4. CASE QueryCall(t)
      BY <2>0, <3>4, CreditMove DEF QueryCall
    <3> QED
      BY <2>3, <3>1, <3>2, <3>3, <3>4 DEF Query
  <2>4. CASE UNCHANGED sbufvars
    BY <2>4 DEF sbufvars, CreditInv, ThreadsAt
  <2> QED
    BY <2>1, <2>2, <2>3, <2>4 DEF SbufNext
<1> QED
  BY <1>1, <1>2, TypeCorrect, PTL DEF SbufSpec

(* The conserved credits in terms of Num.                                  *)
LEMMA CreditAsNum ==
  ASSUME SbufTypeOK, CreditInv
  PROVE  /\ slots + Num(Threads, at, SlotTaken) + (rear - front) + Num(Threads, at, SlotEmptied) = N
         /\ items + Num(Threads, at, ItemTaken) + Num(Threads, at, ItemStored) = rear - front
         /\ slots \in Nat /\ items \in Nat /\ rear \in Nat /\ front \in Nat
         /\ N \in Nat \ {0}
         /\ Num(Threads, at, SlotTaken) \in Nat /\ Num(Threads, at, SlotEmptied) \in Nat
         /\ Num(Threads, at, ItemTaken) \in Nat /\ Num(Threads, at, ItemStored) \in Nat
<1>1. \A L : Cardinality(ThreadsAt(L)) = Num(Threads, at, L)
  BY DEF ThreadsAt, Num, Placed
<1>2. \A L : Num(Threads, at, L) \in Nat
  BY ThreadsFinite, PlacedFinite
<1> QED
  BY <1>1, <1>2, SbufAssumption DEF CreditInv, SbufTypeOK, SbufAssumption

(* The ring never holds more than N items, nor a negative number of them.  *)
THEOREM RingBounded == SbufSpec => []NoOverrun
<1>1. SbufTypeOK /\ CreditInv => NoOverrun
  BY CreditAsNum DEF NoOverrun
<1> QED
  BY <1>1, TypeCorrect, CreditsConserved, PTL

(* The invariant of the runs: the four theorems in one.                    *)
THEOREM RingIsSafe == SbufSpec => []RingSafe
<1>1. SbufTypeOK /\ MutexInv /\ CreditInv /\ NoOverrun => RingSafe
  BY DEF RingSafe
<1> QED
  BY <1>1, TypeCorrect, MutualExclusion, CreditsConserved, RingBounded, PTL

(* A thread sleeps on a semaphore in spite of an item or a free slot only  *)
(* while another thread is on its way to take or to announce it.           *)
THEOREM WakeupsKept == SbufSpec => []NoLostWakeup
<1>1. ASSUME SbufTypeOK, CreditInv PROVE NoLostWakeup
  <2>1. items = 0 /\ rear # front =>
          \E t \in Threads : at[t] \in ItemTaken \cup ItemStored
    <3> SUFFICES ASSUME items = 0, Num(Threads, at, ItemTaken) = 0, Num(Threads, at, ItemStored) = 0
                 PROVE  rear = front
      BY ThreadsFinite, NumPositive
    <3> QED
      BY <1>1, CreditAsNum
  <2>2. slots = 0 /\ rear - front < N =>
          \E t \in Threads : at[t] \in SlotTaken \cup SlotEmptied
    <3> SUFFICES ASSUME slots = 0, Num(Threads, at, SlotTaken) = 0, Num(Threads, at, SlotEmptied) = 0
                 PROVE  rear - front = N
      BY ThreadsFinite, NumPositive, <1>1 DEF SbufTypeOK
    <3> QED
      BY <1>1, CreditAsNum
  <2> QED
    BY <2>1, <2>2 DEF NoLostWakeup
<1> QED
  BY <1>1, TypeCorrect, CreditsConserved, PTL

-----------------------------------------------------------------------------
(* The ring implements the queue.                                          *)

(* Fewer than N apart, two indices name different slots.                   *)
LEMMA ModDistinct ==
  ASSUME NEW a \in Nat, NEW b \in Nat, a < b, b - a < N
  PROVE  a % N # b % N
<1>1. N \in Nat \ {0}
  BY SbufAssumption DEF SbufAssumption
<1>2. a = N * (a \div N) + (a % N) /\ b = N * (b \div N) + (b % N)
  BY <1>1
<1>3. \A k \in Int : k >= 1 => N * k >= N
  BY <1>1
<1>4. \A k \in Int : k <= 0 => N * k <= 0
  BY <1>1
<1>5. ASSUME a % N = b % N PROVE FALSE
  <2> DEFINE k == (b \div N) - (a \div N)
  <2>1. a \div N \in Int /\ b \div N \in Int /\ a % N \in Int
    BY <1>1
  <2>2. N * k = N * (b \div N) - N * (a \div N)
    BY <1>1, <2>1
  <2>3. N * (b \div N) \in Int /\ N * (a \div N) \in Int
    BY <1>1, <2>1
  <2>4. b - a = N * k
    BY <1>2, <1>5, <2>1, <2>2, <2>3
  <2>5. k \in Int /\ (k >= 1 \/ k <= 0)
    BY <2>1
  <2> HIDE DEF k
  <2>6. N * k \in Int
    BY <1>1, <2>5
  <2> QED
    BY <1>1, <1>3, <1>4, <2>4, <2>5, <2>6
<1> QED
  BY <1>5

(* A thread that moves between labels other than r_load and i_store, and   *)
(* leaves the ring alone, leaves the queue alone.                          *)
LEMMA QueueStays ==
  ASSUME SbufTypeOK, NEW t \in Threads, NEW from, NEW to, Moves(t, from, to),
         from \notin {"r_load", "i_store"}, to \notin {"r_load", "i_store"},
         UNCHANGED ring, \A c \in Consumers : item'[c] = item[c]
  PROVE  UNCHANGED <<contents, returned>>
<1>1. \A u \in Threads : /\ at'[u] = "r_load" <=> at[u] = "r_load"
                         /\ at'[u] = "i_store" <=> at[u] = "i_store"
  BY DEF SbufTypeOK, Moves
<1>2. (Loading' <=> Loading) /\ (Storing' <=> Storing)
  BY <1>1 DEF Loading, Storing, Threads
<1>3. first' = first /\ last' = last /\ buf' = buf
  BY <1>2 DEF first, last, ring
<1> QED
  BY <1>3 DEF contents, returned

(* Under the mutex at most one thread is in the middle of an access.       *)
LEMMA OneAccess ==
  ASSUME MutexInv, NEW t \in Threads, at[t] \in Critical
  PROVE  /\ Loading => at[t] = "r_load"
         /\ Storing => at[t] = "i_store"
  BY DEF MutexInv, Loading, Storing, Threads, Critical

(* Every implementation step is a step of the queue or leaves it alone.    *)
LEMMA StepRefines ==
  ASSUME SbufTypeOK, SbufTypeOK', MutexInv, CreditInv, NoOverrun, [SbufNext]_sbufvars
  PROVE  [Fifo!Next]_(Fifo!vars)
<1> USE DEF Fifo!vars
<1>1. ASSUME NEW p \in Producers, InsertCall(p) \/ Insert(p)
      PROVE  [Fifo!Next]_(Fifo!vars)
  <2> p \in Threads /\ p \notin Consumers
    BY SbufAssumption DEF SbufAssumption, Threads
  <2>1. CASE InsertCall(p)
    BY <2>1, QueueStays DEF InsertCall, ring, SbufTypeOK
  <2>2. CASE InsertPSlots(p)
    BY <2>2, QueueStays DEF InsertPSlots, ring
  <2>3. CASE InsertLock(p) \/ InsertUnlock(p)
    BY <2>3, QueueStays DEF InsertLock, InsertUnlock, LockRing, UnlockRing
  <2>4. CASE InsertVItems(p)
    BY <2>4, QueueStays DEF InsertVItems
  <2>5. CASE InsertBump(p)
    <3>1. ~Storing /\ ~Loading
      BY <2>5, OneAccess DEF InsertBump, Moves, Critical
    <3>2. Storing' /\ ~Loading'
      BY <2>5, <3>1 DEF InsertBump, Moves, SbufTypeOK, Storing, Loading, Threads
    <3>3. first' = first /\ last' = last /\ buf' = buf /\ item' = item
      BY <2>5, <3>1, <3>2 DEF InsertBump, first, last, SbufTypeOK
    <3> QED
      BY <3>3 DEF contents, returned
  <2>6. CASE InsertStore(p)
    <3> DEFINE n == rear - 1 - front
    <3>1. Storing /\ ~Loading
      BY <2>6, OneAccess DEF InsertStore, Moves, Critical, Storing
    <3>2. ~Storing' /\ ~Loading'
      <4>1. \A u \in Threads : u # p => at[u] # "i_store"
        BY <2>6 DEF MutexInv, Critical, InsertStore, Moves
      <4> QED
        BY <2>6, <3>1, <4>1 DEF InsertStore, Moves, SbufTypeOK, Storing, Loading, Threads
    <3>3. /\ first = front + 1 /\ last = rear - 1
          /\ first' = front + 1 /\ last' = rear
      BY <2>6, <3>1, <3>2 DEF InsertStore, first, last, SbufTypeOK
    <3>4. n \in 0..N-1 /\ front \in Nat /\ rear = front + n + 1 /\ N \in Nat \ {0}
      <4>1. Num(Threads, at, ItemStored) # 0
        BY <2>6, ThreadsFinite, NumPositive DEF InsertStore, Moves, ItemStored
      <4> QED
        BY <4>1, CreditAsNum DEF NoOverrun
    <3>5. contents = [i \in 1..n |-> buf[(front + i) % N]]
      BY <3>3 DEF contents, SbufTypeOK
    <3>6. contents' = [i \in 1..n+1 |-> buf'[(front + i) % N]]
      BY <2>6, <3>3 DEF contents, SbufTypeOK, InsertStore
    <3>7. \A i \in 1..n : buf'[(front + i) % N] = buf[(front + i) % N]
      <4> SUFFICES ASSUME NEW i \in 1..n
                   PROVE  buf'[(front + i) % N] = buf[(front + i) % N]
        OBVIOUS
      <4>0. /\ front + i \in Nat /\ rear \in Nat
            /\ front + i < rear /\ rear - (front + i) < N
        BY <3>4
      <4>1. (front + i) % N # rear % N
        BY <4>0, ModDistinct
      <4>2. (front + i) % N \in 0..N-1
        BY <3>4
      <4> QED
        BY <2>6, <4>1, <4>2 DEF InsertStore, SbufTypeOK
    <3>8. buf'[(front + n + 1) % N] = item[p]
      BY <2>6, <3>4 DEF InsertStore, SbufTypeOK
    <3>9. contents \in Seq(Items \cup {NoItem}) /\ Len(contents) = n
      <4>1. \A i \in 1..n : buf[(front + i) % N] \in Items \cup {NoItem}
        BY <3>4 DEF SbufTypeOK
      <4> HIDE DEF n
      <4> QED
        BY <3>4, <3>5, <4>1
    <3>10. contents' = Append(contents, item[p])
      <4>1. Append(contents, item[p])
              = [i \in 1..n+1 |-> IF i = n + 1 THEN item[p] ELSE contents[i]]
        BY <3>4, <3>9
      <4>2. \A i \in 1..n+1 : buf'[(front + i) % N]
                              = IF i = n + 1 THEN item[p] ELSE contents[i]
        <5> SUFFICES ASSUME NEW i \in 1..n+1
                     PROVE  buf'[(front + i) % N]
                              = IF i = n + 1 THEN item[p] ELSE contents[i]
          OBVIOUS
        <5>1. CASE i = n + 1
          <6>1. front + i = front + n + 1
            BY <3>4, <5>1
          <6> QED
            BY <3>8, <5>1, <6>1
        <5>2. CASE i # n + 1
          <6>1. i \in 1..n
            BY <3>4, <5>2
          <6> QED
            BY <3>5, <3>7, <5>2, <6>1
        <5> QED
          BY <5>1, <5>2
      <4> QED
        BY <3>6, <4>1, <4>2
    <3>11. returned' = returned
      BY <2>6 DEF InsertStore, returned
    <3>12. item[p] \in Items
      BY <2>6 DEF SbufTypeOK, InsertStore, Moves
    <3>13. Fifo!Put(item[p])
      BY <3>4, <3>9, <3>10, <3>11 DEF Fifo!Put
    <3> QED
      BY <3>12, <3>13 DEF Fifo!Next
  <2> QED
    BY <1>1, <2>1, <2>2, <2>3, <2>4, <2>5, <2>6 DEF Insert
<1>2. ASSUME NEW c \in Consumers, Remove(c)
      PROVE  [Fifo!Next]_(Fifo!vars)
  <2> c \in Threads /\ c \notin Producers
    BY SbufAssumption DEF SbufAssumption, Threads
  <2>1. CASE RemoveCall(c)
    BY <2>1, QueueStays DEF RemoveCall
  <2>2. CASE RemovePItems(c)
    BY <2>2, QueueStays DEF RemovePItems, ring
  <2>3. CASE RemoveLock(c) \/ RemoveUnlock(c)
    BY <2>3, QueueStays DEF RemoveLock, RemoveUnlock, LockRing, UnlockRing
  <2>4. CASE RemoveVSlots(c)
    BY <2>4, QueueStays DEF RemoveVSlots
  <2>5. CASE RemoveBump(c)
    <3>1. ~Storing /\ ~Loading
      BY <2>5, OneAccess DEF RemoveBump, Moves, Critical
    <3>2. ~Storing' /\ Loading'
      BY <2>5, <3>1 DEF RemoveBump, Moves, SbufTypeOK, Storing, Loading, Threads
    <3>3. first' = first /\ last' = last /\ buf' = buf /\ item' = item
      BY <2>5, <3>1, <3>2 DEF RemoveBump, first, last, SbufTypeOK
    <3> QED
      BY <3>3 DEF contents, returned
  <2>6. CASE RemoveLoad(c)
    <3> DEFINE n == rear - front + 1
    <3>1. ~Storing /\ Loading
      BY <2>6, OneAccess DEF RemoveLoad, Moves, Critical, Loading
    <3>2. ~Storing' /\ ~Loading'
      <4>1. \A u \in Threads : u # c => at[u] # "r_load"
        BY <2>6 DEF MutexInv, Critical, RemoveLoad, Moves
      <4> QED
        BY <2>6, <3>1, <4>1 DEF RemoveLoad, Moves, SbufTypeOK, Storing, Loading, Threads
    <3>3. /\ first = front /\ last = rear
          /\ first' = front + 1 /\ last' = rear
      BY <2>6, <3>1, <3>2 DEF RemoveLoad, ring, first, last, SbufTypeOK
    <3>4. n \in 1..N /\ front \in Nat /\ rear = front + n - 1 /\ N \in Nat \ {0}
      <4>1. Num(Threads, at, SlotEmptied) # 0
        BY <2>6, ThreadsFinite, NumPositive DEF RemoveLoad, Moves, SlotEmptied
      <4>2. rear - front < N /\ rear - front >= 0
        BY <4>1, CreditAsNum DEF NoOverrun
      <4> QED
        BY <4>2, CreditAsNum
    <3>5. contents = [i \in 1..n |-> buf[(front + i - 1) % N]]
      BY <3>3 DEF contents
    <3>6. contents' = [i \in 1..n-1 |-> buf[(front + i) % N]]
      <4>1. last' - first' + 1 = n - 1 /\ buf' = buf
        BY <2>6, <3>3, <3>4 DEF RemoveLoad, ring
      <4>2. \A i \in 1..n-1 : first' + i - 1 = front + i
        BY <3>3, <3>4
      <4> HIDE DEF n
      <4> QED
        BY <4>1, <4>2 DEF contents
    <3>7. contents \in Seq(Items \cup {NoItem}) /\ Len(contents) = n
      <4>1. \A i \in 1..n : buf[(front + i - 1) % N] \in Items \cup {NoItem}
        BY <3>4 DEF SbufTypeOK
      <4> HIDE DEF n
      <4> QED
        BY <3>4, <3>5, <4>1
    <3>8. contents' = Tail(contents)
      <4>1. Tail(contents) = [i \in 1..n-1 |-> contents[i+1]]
        <5> DEFINE tl == Tail(contents)
        <5>1. contents # <<>>
          BY <3>4, <3>7
        <5>2. /\ tl \in Seq(Items \cup {NoItem}) /\ Len(tl) = n - 1
              /\ \A i \in 1..n-1 : tl[i] = contents[i+1]
          <6> HIDE DEF n
          <6> QED
            BY <3>7, <5>1, HeadTailProperties
        <5> HIDE DEF n, tl
        <5>3. tl = [i \in 1..n-1 |-> tl[i]]
          BY <5>2
        <5>4. tl = [i \in 1..n-1 |-> contents[i+1]]
          BY <5>2, <5>3
        <5> QED
          BY <5>4 DEF tl
      <4>2. \A i \in 1..n-1 : contents[i+1] = buf[(front + i) % N]
        <5> SUFFICES ASSUME NEW i \in 1..n-1
                     PROVE  contents[i+1] = buf[(front + i) % N]
          OBVIOUS
        <5>1. i + 1 \in 1..n /\ front + (i + 1) - 1 = front + i
          BY <3>4
        <5> QED
          BY <3>5, <5>1
      <4> QED
        BY <3>6, <4>1, <4>2
    <3>9. Head(contents) = buf[front % N]
      <4>1. Head(contents) = contents[1] /\ front + 1 - 1 = front /\ 1 \in 1..n
        BY <3>4, <3>7
      <4> QED
        BY <3>5, <4>1
    <3>10. returned' = [returned EXCEPT ![c] = Head(contents)]
      <4>1. \A d \in Consumers : item'[d] = IF d = c THEN Head(contents) ELSE item[d]
        BY <2>6, <3>9 DEF RemoveLoad, SbufTypeOK, Threads
      <4> QED
        BY <4>1 DEF returned
    <3>11. Fifo!Take(c)
      BY <3>4, <3>7, <3>8, <3>10 DEF Fifo!Take
    <3> QED
      BY <3>11 DEF Fifo!Next
  <2> QED
    BY <1>2, <2>1, <2>2, <2>3, <2>4, <2>5, <2>6 DEF Remove
<1>3. ASSUME NEW t \in Pollers, QueryCall(t) \/ Query(t)
      PROVE  [Fifo!Next]_(Fifo!vars)
  <2> t \in Threads
    BY DEF Threads
  <2>1. CASE QueryLock(t) \/ QueryUnlock(t)
    BY <2>1, QueueStays DEF QueryLock, QueryUnlock, LockRing, UnlockRing
  <2>2. CASE QueryRead(t)
    BY <2>2, QueueStays DEF QueryRead
  <2>3. CASE QueryCall(t)
    BY <2>3, QueueStays DEF QueryCall
  <2> QED
    BY <1>3, <2>1, <2>2, <2>3 DEF Query
<1>4. CASE UNCHANGED sbufvars
  BY <1>4 DEF sbufvars, contents, returned, first, last, Loading, Storing
<1> QED
  BY <1>1, <1>2, <1>3, <1>4 DEF SbufNext

(* sbuf.c implements the bounded first-in first-out queue: what sbuf_insert *)
(* stored is returned by exactly one sbuf_remove, in order, unharmed.       *)
THEOREM FifoImplemented == SbufSpec => ImplementsFifo
<1>1. SbufInit => Fifo!Init
  <2> SUFFICES ASSUME SbufInit PROVE Fifo!Init
    OBVIOUS
  <2>1. ~Loading /\ ~Storing
    BY DEF SbufInit, Loading, Storing, Threads
  <2>2. contents = <<>>
    BY <2>1 DEF SbufInit, contents, first, last
  <2>3. returned = [c \in Consumers |-> NoItem]
    BY DEF SbufInit, returned, Threads
  <2> QED
    BY <2>2, <2>3 DEF Fifo!Init
<1> QED
  BY <1>1, StepRefines, TypeCorrect, MutualExclusion, CreditsConserved, RingBounded,
     PTL DEF SbufSpec, ImplementsFifo, Fifo!Spec
=============================================================================
