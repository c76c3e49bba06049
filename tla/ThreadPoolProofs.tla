-------------------------- MODULE ThreadPoolProofs --------------------------
(***************************************************************************)
(* Theorems about ThreadPool, for any pool sizes, any size of the buffer   *)
(* and any number of connections.                                          *)
(***************************************************************************)
EXTENDS ThreadPool, Counting, SequenceTheorems, TLAPS

(* The sizes that doubling and halving lead to.                            *)
Sizes == CHOOSE S \in SUBSET (1..MAX_THREADS) :
           /\ N_THREADS \in S
           /\ \A n \in S : (n # MAX_THREADS => 2 * n \in S) /\ (n # 1 => n \div 2 \in S)

(* The pool keeps to these sizes, whichever way it goes.                   *)
LEMMA SizesClosed ==
  /\ Sizes \subseteq 1..MAX_THREADS /\ N_THREADS \in Sizes
  /\ \A n \in Sizes : (n # MAX_THREADS => 2 * n \in Sizes) /\ (n # 1 => n \div 2 \in Sizes)
  BY PoolAssumption DEF PoolAssumption, Sizes

(* There are finitely many workers to count.                               *)
LEMMA WorkersFinite == IsFiniteSet(Worker)
  BY PoolAssumption, FS_Interval DEF PoolAssumption, Worker

(* Workers that hold the buffer's mutex, hold busy_mtx, are busy, have an  *)
(* item's permission, keep a slot back.                                    *)
nTake == Num(Worker, pc, {"r_take"})
nNotify == Num(Worker, pc, {"b_in", "f_in"})
nBusy == Num(Worker, pc, {"doit", "close", "f_wait", "f_in"})
nTaking == Num(Worker, pc, {"r_mutex", "r_take"})
nKept == Num(Worker, pc, {"r_mutex", "r_take", "r_slots"})

One(L) == IF main.at \in L THEN 1 ELSE 0

-----------------------------------------------------------------------------
(* The parts of the inductive invariant.                                   *)

Types ==
  /\ queue \in Seq(1..MaxConns)
  /\ mutex \in Nat /\ busy_mtx \in Nat /\ slots \in Nat /\ items \in Nat
  /\ n_threads \in Sizes /\ n_busy \in Int
  /\ pc \in [Worker -> WorkerLabels]
  /\ conn \in [Worker -> 0..MaxConns]
  /\ cancel \in [Worker -> {"no", "asked", "due"}]
  /\ main \in [at : MainLabels, i : Nat]
  /\ accepted \in 0..MaxConns /\ up \in BOOLEAN

(* Both locks have one owner at most, and exactly one, counting the lock   *)
(* itself, until the handler takes main away from what it was doing.  Of   *)
(* slots and items some may be lost, but none is made up.                  *)
Counts ==
  /\ mutex + nTake + One({"i_put", "s_cancel", "s_unlock", "k_cancel", "k_unlock"}) <= 1
  /\ ~Handling => mutex + nTake + One({"i_put", "s_cancel", "s_unlock"}) = 1
  /\ busy_mtx + nNotify + One({"x_in", "h_in"}) <= 1
  /\ ~Handling => busy_mtx + nNotify + One({"x_in", "h_in"}) = 1
  /\ nBusy <= n_busy
  /\ items + nTaking + One({"i_items"}) <= Len(queue)
  /\ slots + items + nKept + One({"i_mutex", "i_put", "i_items"}) <= SBUFSIZE

(* main.i is a thread of the pool while it means one.                      *)
Shrinking == main.at \in {"s_lock", "s_cancel", "s_unlock", "s_join"}
InRange == /\ main.i <= MAX_THREADS + 1
           /\ up /\ (Resizing \/ Handling) => main.i \in 1..n_threads
           /\ Shrinking => n_threads # 1 /\ main.i > n_threads \div 2

(* Which threads there are, also in the middle of a resize.                *)
Threads == CASE main.at = "create" -> 1..main.i - 1
             [] Shrinking -> 1..n_threads \div 2 \cup main.i..n_threads
             [] OTHER -> 1..n_threads
PoolInv ==
  ~Handling => /\ \A i \in Worker : pc[i] # "none" <=> i \in Threads
               /\ \A i \in Worker : \/ pc[i] = "none"
                                    \/ main.at \in {"s_unlock", "s_join"} /\ i = main.i
                                    \/ cancel[i] = "no" /\ pc[i] # "dead"

(* The connection main has in its hands is new to everybody else.          *)
Serving == main.at \in {"x_wait", "x_in", "h_wait", "h_in", "expand", "create", "shrink",
                        "s_lock", "s_cancel", "s_unlock", "s_join", "i_slots", "i_mutex",
                        "i_put"}
Newest == IF Serving THEN accepted - 1 ELSE accepted
Owners == /\ Serving => accepted > 0
          /\ \A j \in DOMAIN queue : queue[j] <= Newest
          /\ \A i \in Worker : pc[i] # "none" => conn[i] <= Newest
          /\ OneOwner

IInv == Types /\ Counts /\ InRange /\ PoolInv /\ Owners

-----------------------------------------------------------------------------
(* One worker goes somewhere else: how the groups change.                  *)
Goes(i, to) == pc' = [pc EXCEPT ![i] = to]

Naturals5 == /\ nTake \in Nat /\ nNotify \in Nat /\ nBusy \in Nat /\ nTaking \in Nat
             /\ nKept \in Nat
Changed(i, to) ==
  /\ nTake' = nTake + (IF to \in {"r_take"} THEN 1 ELSE 0)
      - (IF pc[i] \in {"r_take"} THEN 1 ELSE 0)
  /\ nNotify' = nNotify + (IF to \in {"b_in", "f_in"} THEN 1 ELSE 0)
      - (IF pc[i] \in {"b_in", "f_in"} THEN 1 ELSE 0)
  /\ nBusy' = nBusy + (IF to \in {"doit", "close", "f_wait", "f_in"} THEN 1 ELSE 0)
      - (IF pc[i] \in {"doit", "close", "f_wait", "f_in"} THEN 1 ELSE 0)
  /\ nTaking' = nTaking + (IF to \in {"r_mutex", "r_take"} THEN 1 ELSE 0)
      - (IF pc[i] \in {"r_mutex", "r_take"} THEN 1 ELSE 0)
  /\ nKept' = nKept + (IF to \in {"r_mutex", "r_take", "r_slots"} THEN 1 ELSE 0)
      - (IF pc[i] \in {"r_mutex", "r_take", "r_slots"} THEN 1 ELSE 0)

(* A move changes each count by the worker that moves.                     *)
LEMMA Moved ==
  ASSUME Types, NEW i \in Worker, NEW to, Goes(i, to)
  PROVE  Naturals5 /\ Naturals5' /\ Changed(i, to)
<1>1. /\ pc \in [Worker -> WorkerLabels]
      /\ \A u \in Worker : pc'[u] = IF u = i THEN to ELSE pc[u]
  BY DEF Types, Goes
<1>2. ASSUME NEW L
      PROVE  /\ Num(Worker, pc, L) \in Nat /\ Num(Worker, pc', L) \in Nat
             /\ Num(Worker, pc', L) = Num(Worker, pc, L)
                  + (IF to \in L THEN 1 ELSE 0) - (IF pc[i] \in L THEN 1 ELSE 0)
  <2>1. Num(Worker, pc, L) \in Nat /\ Num(Worker, pc', L) \in Nat
    BY WorkersFinite, PlacedFinite
  <2>2. Num(Worker, pc', L) = Num(Worker, pc, L)
                  + (IF to \in L THEN 1 ELSE 0) - (IF pc[i] \in L THEN 1 ELSE 0)
    BY <1>1, WorkersFinite, NumMove
  <2> QED
    BY <2>1, <2>2
<1> QED
  BY <1>1, <1>2 DEF Naturals5, Changed, nTake, nNotify, nBusy, nTaking, nKept

(* Their sizes are numbers.                                                *)
LEMMA GroupSizes == Naturals5
<1>1. \A L : Num(Worker, pc, L) \in Nat
  BY WorkersFinite, PlacedFinite
<1> QED
  BY <1>1 DEF Naturals5, nTake, nNotify, nBusy, nTaking, nKept

(* Nobody moves: the groups stay.                                          *)
Stays == /\ nTake' = nTake /\ nNotify' = nNotify /\ nBusy' = nBusy
         /\ nTaking' = nTaking /\ nKept' = nKept

(* When nobody moves no count changes.                                     *)
LEMMA Stayed ==
  ASSUME UNCHANGED pc
  PROVE  Naturals5 /\ Stays
  BY GroupSizes DEF Stays, nTake, nNotify, nBusy, nTaking, nKept

(* A worker's steps keep the counts.                                       *)
LEMMA WorkCounts ==
  ASSUME IInv, NEW i \in Worker, Work(i)
  PROVE  Counts'
<1>0. /\ Types /\ Counts
      /\ main' = main
      /\ mutex \in Nat /\ busy_mtx \in Nat /\ slots \in Nat /\ items \in Nat
      /\ n_busy \in Int /\ Len(queue) \in Nat /\ SBUFSIZE \in Nat
  BY PoolAssumption
  DEF PoolAssumption, IInv, Types, Work, Runs, RemovePItems, RemoveLock, RemoveTake,
      RemoveVSlots,
         NotifyLock, NotifyBusy, NotifyFree, CloseConn, Dies, Doit, DoitExits
<1>1. CASE RemovePItems(i)
  <2>1. Goes(i, "r_mutex") /\ pc[i] = "r_items"
    BY <1>1 DEF RemovePItems, Goes, Moves, Calls
  <2>2. Naturals5 /\ Naturals5' /\ Changed(i, "r_mutex")
    BY <1>0, <2>1, Moved
  <2> QED
    BY <1>0, <1>1, <2>1, <2>2
    DEF RemovePItems, Changed, Naturals5, Counts, One, Handling, sbuf, pool
<1>2. CASE RemoveLock(i)
  <2>1. Goes(i, "r_take") /\ pc[i] = "r_mutex"
    BY <1>2 DEF RemoveLock, Goes, Moves, Calls
  <2>2. Naturals5 /\ Naturals5' /\ Changed(i, "r_take")
    BY <1>0, <2>1, Moved
  <2> QED
    BY <1>0, <1>2, <2>1, <2>2
    DEF RemoveLock, Changed, Naturals5, Counts, One, Handling, sbuf, pool
<1>3. CASE RemoveTake(i)
  <2>1. Goes(i, "r_slots") /\ pc[i] = "r_take"
    BY <1>3 DEF RemoveTake, Goes, Moves, Calls
  <2>2. Naturals5 /\ Naturals5' /\ Changed(i, "r_slots")
    BY <1>0, <2>1, Moved
  <2>3. Len(queue) # 0
    BY <1>0, <2>1, <2>2 DEF Counts, One, Changed, Naturals5
  <2>4. Len(queue') = Len(queue) - 1
    BY <1>0, <1>3, <2>3 DEF Types, RemoveTake
  <2> QED
    BY <1>0, <1>3, <2>1, <2>2, <2>4
    DEF RemoveTake, Changed, Naturals5, Counts, One, Handling, sbuf, pool
<1>4. CASE RemoveVSlots(i)
  <2>1. Goes(i, "b_wait") /\ pc[i] = "r_slots"
    BY <1>4 DEF RemoveVSlots, Goes, Moves, Calls
  <2>2. Naturals5 /\ Naturals5' /\ Changed(i, "b_wait")
    BY <1>0, <2>1, Moved
  <2> QED
    BY <1>0, <1>4, <2>1, <2>2
    DEF RemoveVSlots, Changed, Naturals5, Counts, One, Handling, sbuf, pool
<1>5. CASE NotifyBusy(i)
  <2>1. Goes(i, "doit") /\ pc[i] = "b_in"
    BY <1>5 DEF NotifyBusy, Goes, Moves, Calls
  <2>2. Naturals5 /\ Naturals5' /\ Changed(i, "doit")
    BY <1>0, <2>1, Moved
  <2> QED
    BY <1>0, <1>5, <2>1, <2>2
    DEF NotifyBusy, Changed, Naturals5, Counts, One, Handling, sbuf, pool
<1>6. CASE NotifyFree(i)
  <2>1. Goes(i, "r_items") /\ pc[i] = "f_in"
    BY <1>6 DEF NotifyFree, Goes, Moves, Calls
  <2>2. Naturals5 /\ Naturals5' /\ Changed(i, "r_items")
    BY <1>0, <2>1, Moved
  <2> QED
    BY <1>0, <1>6, <2>1, <2>2
    DEF NotifyFree, Changed, Naturals5, Counts, One, Handling, sbuf, pool
<1>7. CASE CloseConn(i)
  <2>1. Goes(i, "f_wait") /\ pc[i] = "close"
    BY <1>7 DEF CloseConn, Goes, Moves, Calls
  <2>2. Naturals5 /\ Naturals5' /\ Changed(i, "f_wait")
    BY <1>0, <2>1, Moved
  <2> QED
    BY <1>0, <1>7, <2>1, <2>2
    DEF CloseConn, Changed, Naturals5, Counts, One, Handling, sbuf, pool
<1>8. CASE Dies(i)
  <2>1. Goes(i, "dead") /\ pc[i] \in CancelPoints
    BY <1>8 DEF Dies, Goes, Moves, Calls
  <2>2. Naturals5 /\ Naturals5' /\ Changed(i, "dead")
    BY <1>0, <2>1, Moved
  <2> QED
    BY <1>0, <1>8, <2>1, <2>2
    DEF Dies, Changed, Naturals5, Counts, One, Handling, sbuf, pool, CancelPoints
<1>9. CASE Doit(i)
  <2>1. Goes(i, "close") /\ pc[i] = "doit"
    BY <1>9 DEF Doit, Goes, Moves, Calls
  <2>2. Naturals5 /\ Naturals5' /\ Changed(i, "close")
    BY <1>0, <2>1, Moved
  <2> QED
    BY <1>0, <1>9, <2>1, <2>2
    DEF Doit, Changed, Naturals5, Counts, One, Handling, sbuf, pool
<1>10. CASE DoitExits(i)
  <2>1. Goes(i, "doit") /\ pc[i] = "doit"
    BY <1>10 DEF DoitExits, Goes, Moves, Calls
  <2>2. Naturals5 /\ Naturals5' /\ Changed(i, "doit")
    BY <1>0, <2>1, Moved
  <2> QED
    BY <1>0, <1>10, <2>1, <2>2
    DEF DoitExits, Changed, Naturals5, Counts, One, Handling, sbuf, pool
<1>11. CASE NotifyLock(i) /\ pc[i] = "b_wait"
  <2>1. Goes(i, "b_in") /\ pc[i] = "b_wait"
    BY <1>11 DEF NotifyLock, Goes, Moves, Calls
  <2>2. Naturals5 /\ Naturals5' /\ Changed(i, "b_in")
    BY <1>0, <2>1, Moved
  <2> QED
    BY <1>0, <1>11, <2>1, <2>2
    DEF NotifyLock, Changed, Naturals5, Counts, One, Handling, sbuf, pool
<1>12. CASE NotifyLock(i) /\ pc[i] = "f_wait"
  <2>1. Goes(i, "f_in") /\ pc[i] = "f_wait"
    BY <1>12 DEF NotifyLock, Goes, Moves, Calls
  <2>2. Naturals5 /\ Naturals5' /\ Changed(i, "f_in")
    BY <1>0, <2>1, Moved
  <2> QED
    BY <1>0, <1>12, <2>1, <2>2
    DEF NotifyLock, Changed, Naturals5, Counts, One, Handling, sbuf, pool
<1> QED
  BY <1>1, <1>2, <1>3, <1>4, <1>5, <1>6, <1>7, <1>8, <1>9, <1>10, <1>11, <1>12
  DEF Work, Runs, NotifyLock, Calls, Moves

(* Where main goes.                                                        *)
Steps(from, to) == At(from) /\ main'.at = to

(* To changes the place and nothing else of main.                          *)
LEMMA ToSteps ==
  ASSUME Types, NEW l, To(l)
  PROVE  main'.at = l /\ main'.i = main.i
  BY DEF Types, To

(* The steps of main and of the handler.                                   *)
MainSteps == Accept \/ Main \/ Interrupt

(* They keep the counts too.                                               *)
LEMMA MainCounts ==
  ASSUME IInv, MainSteps
  PROVE  Counts'
<1>0. /\ Types /\ Counts
      /\ mutex \in Nat /\ busy_mtx \in Nat /\ slots \in Nat /\ items \in Nat
      /\ n_busy \in Int /\ Len(queue) \in Nat /\ SBUFSIZE \in Nat
  BY PoolAssumption DEF PoolAssumption, IInv, Types
<1>1. up /\ (Resizing \/ Handling) => main.i \in Worker
  BY PoolAssumption, SizesClosed, <1>0 DEF PoolAssumption, IInv, InRange, Types, Worker
<1>2. CASE Accept
  <2>1. Naturals5 /\ Stays
    BY <1>2, Stayed DEF Accept, workers
  <2>2. Steps("accept", "x_wait")
    BY <1>0, <1>2, ToSteps DEF Accept, Steps, At
  <2> QED
    BY <1>0, <1>2, <2>1, <2>2
    DEF Accept, Steps, At, Stays, Naturals5, Counts, One, Handling, sbuf, pool
<1>3. CASE AskLock
  <2>1. Naturals5 /\ Stays
    BY <1>3, Stayed DEF AskLock, workers
  <2>2. Steps("x_wait", "x_in") \/ Steps("h_wait", "h_in")
    BY <1>0, <1>3, ToSteps DEF AskLock, Steps, At
  <2> QED
    BY <1>0, <1>3, <2>1, <2>2
    DEF AskLock, Steps, At, Stays, Naturals5, Counts, One, Handling, sbuf, pool
<1>4. CASE Exhausted
  <2>1. Naturals5 /\ Stays
    BY <1>4, Stayed DEF Exhausted, workers
  <2>2. Steps("x_in", "expand") \/ Steps("x_in", "h_wait")
    BY <1>0, <1>4, ToSteps DEF Exhausted, Steps, At
  <2> QED
    BY <1>0, <1>4, <2>1, <2>2
    DEF Exhausted, Steps, At, Stays, Naturals5, Counts, One, Handling, sbuf, pool
<1>5. CASE Chilling
  <2>1. Naturals5 /\ Stays
    BY <1>5, Stayed DEF Chilling, workers
  <2>2. Steps("h_in", "shrink") \/ Steps("h_in", "i_slots")
    BY <1>0, <1>5, ToSteps DEF Chilling, Steps, At
  <2> QED
    BY <1>0, <1>5, <2>1, <2>2
    DEF Chilling, Steps, At, Stays, Naturals5, Counts, One, Handling, sbuf, pool
<1>6. CASE Expand
  <2>1. Naturals5 /\ Stays
    BY <1>6, Stayed DEF Expand, workers
  <2>2. Steps("expand", "i_slots") \/ Steps("expand", "create")
    BY <1>0, <1>6, ToSteps DEF Expand, Steps, At
  <2> QED
    BY <1>0, <1>6, <2>1, <2>2
    DEF Expand, Steps, At, Stays, Naturals5, Counts, One, Handling, sbuf, pool
<1>7. CASE Shrink
  <2>1. Naturals5 /\ Stays
    BY <1>7, Stayed DEF Shrink, workers
  <2>2. Steps("shrink", "i_slots") \/ Steps("shrink", "s_lock")
    BY <1>0, <1>7, ToSteps DEF Shrink, Steps, At
  <2> QED
    BY <1>0, <1>7, <2>1, <2>2
    DEF Shrink, Steps, At, Stays, Naturals5, Counts, One, Handling, sbuf, pool
<1>8. CASE CancelLock
  <2>1. Naturals5 /\ Stays
    BY <1>8, Stayed DEF CancelLock, workers
  <2>2. Steps("s_lock", "s_cancel") \/ Steps("k_lock", "k_cancel")
    BY <1>0, <1>8, ToSteps DEF CancelLock, Steps, At
  <2> QED
    BY <1>0, <1>8, <2>1, <2>2
    DEF CancelLock, Steps, At, Stays, Naturals5, Counts, One, Handling, sbuf, pool
<1>9. CASE Cancel
  <2>1. Naturals5 /\ Stays
    BY <1>9, Stayed DEF Cancel, workers
  <2>2. Steps("s_cancel", "s_unlock") \/ Steps("k_cancel", "k_unlock")
    BY <1>0, <1>9, ToSteps DEF Cancel, Steps, At
  <2> QED
    BY <1>0, <1>9, <2>1, <2>2
    DEF Cancel, Steps, At, Stays, Naturals5, Counts, One, Handling, sbuf, pool
<1>10. CASE CancelUnlock
  <2>1. Naturals5 /\ Stays
    BY <1>10, Stayed DEF CancelUnlock, workers
  <2>2. Steps("s_unlock", "s_join") \/ Steps("k_unlock", "k_join")
    BY <1>0, <1>10, ToSteps DEF CancelUnlock, Steps, At
  <2> QED
    BY <1>0, <1>10, <2>1, <2>2
    DEF CancelUnlock, Steps, At, Stays, Naturals5, Counts, One, Handling, sbuf, pool
<1>11. CASE InsertPSlots
  <2>1. Naturals5 /\ Stays
    BY <1>11, Stayed DEF InsertPSlots, workers
  <2>2. Steps("i_slots", "i_mutex")
    BY <1>0, <1>11, ToSteps DEF InsertPSlots, Steps, At
  <2> QED
    BY <1>0, <1>11, <2>1, <2>2
    DEF InsertPSlots, Steps, At, Stays, Naturals5, Counts, One, Handling, sbuf, pool
<1>12. CASE InsertLock
  <2>1. Naturals5 /\ Stays
    BY <1>12, Stayed DEF InsertLock, workers
  <2>2. Steps("i_mutex", "i_put")
    BY <1>0, <1>12, ToSteps DEF InsertLock, Steps, At
  <2> QED
    BY <1>0, <1>12, <2>1, <2>2
    DEF InsertLock, Steps, At, Stays, Naturals5, Counts, One, Handling, sbuf, pool
<1>13. CASE InsertPut
  <2>1. Naturals5 /\ Stays
    BY <1>13, Stayed DEF InsertPut, workers
  <2>2. Steps("i_put", "i_items")
    BY <1>0, <1>13, ToSteps DEF InsertPut, Steps, At
  <2>3. Len(queue') = Len(queue) + 1
    BY <1>0, <1>13 DEF Types, InsertPut
  <2> QED
    BY <1>0, <1>13, <2>1, <2>2, <2>3
    DEF InsertPut, Steps, At, Stays, Naturals5, Counts, One, Handling, sbuf, pool
<1>14. CASE InsertVItems
  <2>1. Naturals5 /\ Stays
    BY <1>14, Stayed DEF InsertVItems, workers
  <2>2. Steps("i_items", "accept")
    BY <1>0, <1>14, ToSteps DEF InsertVItems, Steps, At
  <2> QED
    BY <1>0, <1>14, <2>1, <2>2
    DEF InsertVItems, Steps, At, Stays, Naturals5, Counts, One, Handling, sbuf, pool
<1>15. CASE Interrupt
  <2>1. Naturals5 /\ Stays
    BY <1>15, Stayed DEF Interrupt, workers
  <2>2. ~Handling /\ main'.at = "k_lock"
    BY <1>0, <1>15, ToSteps DEF Interrupt
  <2> QED
    BY <1>0, <1>15, <2>1, <2>2
    DEF Interrupt, Steps, At, Stays, Naturals5, Counts, One, Handling, sbuf, pool
<1>16. CASE Create
  <2>1. main.i \in Worker /\ Goes(main.i, "r_items")
    BY <1>1, <1>16 DEF Create, At, Goes, Resizing, Handling
  <2>2. pc[main.i] = "none"
    BY <1>0, <1>16, <2>1
    DEF Create, At, IInv, InRange, PoolInv, Threads, Handling, Shrinking, Types
  <2>3. Naturals5 /\ Naturals5' /\ Changed(main.i, "r_items")
    BY <1>0, <2>1, Moved
  <2>4. Steps("create", "i_slots") \/ Steps("create", "create")
    BY <1>0, <1>16 DEF Create, Steps, At, Types
  <2>5. UNCHANGED <<mutex, slots, items, queue, busy_mtx, n_busy>>
    BY <1>16 DEF Create, sbuf, pool
  <2> QED
    BY <1>0, <2>2, <2>3, <2>4, <2>5, SMTT(60)
    DEF Steps, At, Changed, Naturals5, Counts, One, Handling
<1>17. CASE ShrinkJoin
  <2>1. main.i \in Worker /\ Goes(main.i, "none")
    BY <1>1, <1>17 DEF ShrinkJoin, At, Goes, Resizing, Handling
  <2>2. pc[main.i] \in {"dead", "none"}
    BY <1>0, <1>17, <2>1 DEF ShrinkJoin
  <2>3. Naturals5 /\ Naturals5' /\ Changed(main.i, "none")
    BY <1>0, <2>1, Moved
  <2>4. Steps("s_join", "s_lock") \/ Steps("s_join", "i_slots")
    BY <1>0, <1>17 DEF ShrinkJoin, Steps, At, Types
  <2>5. UNCHANGED <<mutex, slots, items, queue, busy_mtx, n_busy>>
    BY <1>17 DEF ShrinkJoin, sbuf, pool
  <2> QED
    BY <1>0, <2>2, <2>3, <2>4, <2>5, SMTT(60)
    DEF Steps, At, Changed, Naturals5, Counts, One, Handling
<1>18. CASE CloseJoin
  <2>1. main.i \in Worker /\ Goes(main.i, "none")
    BY <1>1, <1>18 DEF CloseJoin, At, Goes, Resizing, Handling
  <2>2. pc[main.i] \in {"dead", "none"}
    BY <1>0, <1>18, <2>1 DEF CloseJoin
  <2>3. Naturals5 /\ Naturals5' /\ Changed(main.i, "none")
    BY <1>0, <2>1, Moved
  <2>4. main.at = "k_join" /\ main'.at = "k_lock" /\ Handling /\ Handling'
    BY <1>0, <1>18 DEF CloseJoin, At, Types, Handling
  <2>5. UNCHANGED <<mutex, slots, items, queue, busy_mtx, n_busy>>
    BY <1>18 DEF CloseJoin, sbuf, pool
  <2> QED
    BY <1>0, <2>2, <2>3, <2>4, <2>5, SMTT(60)
    DEF Changed, Naturals5, Counts, One
<1> QED
  BY <1>2, <1>3, <1>4, <1>5, <1>6, <1>7, <1>8, <1>9, <1>10, <1>11, <1>12, <1>13, <1>14,
      <1>15, <1>16, <1>17, <1>18
  DEF MainSteps, Main

(* Taking the first element of a queue.                                    *)
LEMMA QueueTail ==
  ASSUME NEW S, NEW q \in Seq(S), q # <<>>
  PROVE  /\ Head(q) \in S /\ Tail(q) \in Seq(S)
         /\ \A j \in DOMAIN Tail(q) : j + 1 \in DOMAIN q /\ Tail(q)[j] = q[j + 1]
         /\ 1 \in DOMAIN q /\ Head(q) = q[1]
         /\ \A j \in DOMAIN Tail(q) : j \in Nat /\ j # 0
  BY HeadTailProperties

(* A worker that takes a connection finds one.                             *)
LEMMA TakeFinds ==
  ASSUME IInv, NEW i \in Worker, RemoveTake(i)
  PROVE  queue # <<>>
<1>1. Goes(i, "r_slots") /\ pc[i] = "r_take" /\ Types /\ Counts
  BY DEF RemoveTake, Goes, Moves, IInv
<1>2. Naturals5 /\ Naturals5' /\ Changed(i, "r_slots")
  BY <1>1, Moved
<1>3. items \in Nat /\ Len(queue) \in Nat /\ (queue = <<>> => Len(queue) = 0)
  BY <1>1 DEF Types
<1> QED
  BY <1>1, <1>2, <1>3 DEF Counts, One, Changed, Naturals5

(* The types that need no counting are kept by the workers...              *)
LEMMA WorkTypes ==
  ASSUME IInv, NEW i \in Worker, Work(i)
  PROVE  Types'
<1>0. Types
  BY DEF IInv
<1> USE DEF Moves, Calls, sbuf, pool, Types, WorkerLabels, CancelPoints
<1>1. CASE RemovePItems(i)
  BY <1>0, <1>1 DEF RemovePItems
<1>2. CASE RemoveLock(i)
  BY <1>0, <1>2 DEF RemoveLock
<1>3. CASE RemoveTake(i)
  <2>1. Head(queue) \in 1..MaxConns /\ Tail(queue) \in Seq(1..MaxConns)
    BY <1>0, <1>3, TakeFinds, QueueTail
  <2> QED
    BY <1>0, <1>3, <2>1 DEF RemoveTake
<1>4. CASE RemoveVSlots(i)
  BY <1>0, <1>4 DEF RemoveVSlots
<1>5. CASE NotifyLock(i)
  <2>1. /\ pc' \in [Worker -> WorkerLabels] /\ cancel' \in [Worker -> {"no", "asked", "due"}]
    BY <1>0, <1>5 DEF NotifyLock
  <2>2. busy_mtx' \in Nat
    BY <1>0, <1>5 DEF NotifyLock
  <2> QED
    BY <1>0, <1>5, <2>1, <2>2 DEF NotifyLock
<1>6. CASE NotifyBusy(i)
  BY <1>0, <1>6 DEF NotifyBusy
<1>7. CASE NotifyFree(i)
  BY <1>0, <1>7 DEF NotifyFree
<1>8. CASE CloseConn(i)
  <2>1. conn' \in [Worker -> 0..MaxConns]
    BY <1>0, <1>8, PoolAssumption DEF PoolAssumption, CloseConn
  <2>2. pc' \in [Worker -> WorkerLabels] /\ cancel' \in [Worker -> {"no", "asked", "due"}]
    BY <1>0, <1>8 DEF CloseConn
  <2> QED
    BY <1>0, <1>8, <2>1, <2>2 DEF CloseConn
<1>9. CASE Dies(i)
  BY <1>0, <1>9 DEF Dies
<1>10. CASE Doit(i)
  BY <1>0, <1>10 DEF Doit
<1>11. CASE DoitExits(i)
  BY <1>0, <1>11 DEF DoitExits
<1> QED
  BY <1>1, <1>2, <1>3, <1>4, <1>5, <1>6, <1>7, <1>8, <1>9, <1>10, <1>11 DEF Work, Runs

(* ... and by main, whose own place and pool size stay in range...         *)
LEMMA MainPlace ==
  ASSUME IInv, MainSteps
  PROVE  main' \in [at : MainLabels, i : Nat] /\ n_threads' \in Sizes
<1>0. /\ main \in [at : MainLabels, i : Nat] /\ n_threads \in Sizes /\ n_threads \in Nat
      /\ n_threads \div 2 \in Nat
  BY SizesClosed DEF IInv, Types
<1>1. ASSUME NEW l \in MainLabels, To(l)
      PROVE  main' \in [at : MainLabels, i : Nat]
  BY <1>0, <1>1 DEF To
<1>2. \A l \in {"x_wait", "x_in", "h_wait", "h_in", "expand", "shrink", "i_slots", "i_mutex",
              "i_put", "i_items", "accept", "s_cancel", "k_cancel", "s_unlock", "k_unlock",
              "s_join", "k_join", "create", "s_lock", "k_lock"} : l \in MainLabels
  BY DEF MainLabels
<1>3. CASE Accept
  BY <1>0, <1>3, <1>1, <1>2 DEF Accept, pool
<1>4. CASE AskLock
  BY <1>0, <1>4, <1>1, <1>2 DEF AskLock, pool
<1>5. CASE Exhausted
  BY <1>0, <1>5, <1>1, <1>2 DEF Exhausted, pool
<1>6. CASE Chilling
  BY <1>0, <1>6, <1>1, <1>2 DEF Chilling, pool
<1>7. CASE Expand
  BY <1>0, <1>7, <1>2, SizesClosed DEF Expand, pool, To
<1>8. CASE Shrink
  BY <1>0, <1>8, <1>2 DEF Shrink, pool
<1>9. CASE CancelLock
  BY <1>0, <1>9, <1>1, <1>2 DEF CancelLock, pool
<1>10. CASE Cancel
  BY <1>0, <1>10, <1>1, <1>2 DEF Cancel, pool
<1>11. CASE CancelUnlock
  BY <1>0, <1>11, <1>1, <1>2 DEF CancelUnlock, pool
<1>12. CASE InsertPSlots
  BY <1>0, <1>12, <1>1, <1>2 DEF InsertPSlots, pool
<1>13. CASE InsertLock
  BY <1>0, <1>13, <1>1, <1>2 DEF InsertLock, pool
<1>14. CASE InsertPut
  BY <1>0, <1>14, <1>1, <1>2 DEF InsertPut, pool
<1>15. CASE InsertVItems
  BY <1>0, <1>15, <1>1, <1>2 DEF InsertVItems, pool
<1>16. CASE Create
  BY <1>0, <1>16, <1>2 DEF Create, pool
<1>17. CASE ShrinkJoin
  <2>1. CASE main.i < n_threads
    BY <1>0, <1>17, <1>2, <2>1 DEF ShrinkJoin
  <2>2. CASE ~(main.i < n_threads)
    <3>1. n_threads # 1
      BY <1>0, <1>17, <2>2 DEF IInv, InRange, ShrinkJoin, At, Shrinking, Resizing
    <3> QED
      BY <1>0, <1>17, <1>2, <2>2, <3>1, SizesClosed DEF ShrinkJoin
  <2> QED
    BY <2>1, <2>2
<1>18. CASE CloseJoin
  BY <1>0, <1>18, <1>2 DEF CloseJoin, pool
<1>19. CASE Interrupt
  BY <1>0, <1>19, <1>2 DEF Interrupt, pool
<1> QED
  BY <1>3, <1>4, <1>5, <1>6, <1>7, <1>8, <1>9, <1>10, <1>11, <1>12, <1>13, <1>14, <1>15,
      <1>16, <1>17, <1>18, <1>19
  DEF MainSteps, Main

(* The other variables keep their types.                                   *)
LEMMA MainTypes ==
  ASSUME IInv, MainSteps
  PROVE  Types'
<1>0. Types /\ main' \in [at : MainLabels, i : Nat] /\ n_threads' \in Sizes
  BY MainPlace DEF IInv
<1>1. up /\ (Resizing \/ Handling) => main.i \in Worker
  BY PoolAssumption, SizesClosed, <1>0 DEF PoolAssumption, IInv, InRange, Types, Worker
<1>2. Serving => accepted \in 1..MaxConns
  BY PoolAssumption, <1>0 DEF PoolAssumption, IInv, Owners, Types
<1> USE DEF sbuf, pool, workers, Types
<1>3. CASE Accept
  BY <1>0, <1>3, PoolAssumption DEF Accept, At, PoolAssumption
<1>4. CASE AskLock
  BY <1>0, <1>4 DEF AskLock
<1>5. CASE Exhausted
  BY <1>0, <1>5 DEF Exhausted
<1>6. CASE Chilling
  BY <1>0, <1>6 DEF Chilling
<1>7. CASE Expand
  BY <1>0, <1>7 DEF Expand
<1>8. CASE Shrink
  BY <1>0, <1>8 DEF Shrink
<1>9. CASE CancelLock
  BY <1>0, <1>9 DEF CancelLock
<1>10. CASE Cancel
  BY <1>0, <1>10, <1>1 DEF Cancel, At, Resizing, Handling
<1>11. CASE CancelUnlock
  BY <1>0, <1>11 DEF CancelUnlock
<1>12. CASE InsertPSlots
  BY <1>0, <1>12 DEF InsertPSlots
<1>13. CASE InsertLock
  BY <1>0, <1>13 DEF InsertLock
<1>14. CASE InsertPut
  BY <1>0, <1>14, <1>2 DEF InsertPut, At, Serving
<1>15. CASE InsertVItems
  BY <1>0, <1>15 DEF InsertVItems
<1>16. CASE Create
  <2>1. main.i \in Worker
    BY <1>1, <1>16 DEF Create, At, Resizing
  <2>2. /\ pc' \in [Worker -> WorkerLabels]
        /\ cancel' \in [Worker -> {"no", "asked", "due"}]
    BY <1>0, <1>16, <2>1 DEF Create, WorkerLabels, CancelPoints
  <2>3. conn' \in [Worker -> 0..MaxConns]
    BY <1>0, <1>16, <2>1, PoolAssumption DEF PoolAssumption, Create
  <2> QED
    BY <1>0, <1>16, <2>2, <2>3 DEF Create
<1>17. CASE ShrinkJoin
  BY <1>0, <1>17, <1>1 DEF ShrinkJoin, At, Resizing, Handling, WorkerLabels, CancelPoints
<1>18. CASE CloseJoin
  BY <1>0, <1>18, <1>1 DEF CloseJoin, At, Resizing, Handling, WorkerLabels, CancelPoints
<1>19. CASE Interrupt
  BY <1>0, <1>19 DEF Interrupt
<1> QED
  BY <1>3, <1>4, <1>5, <1>6, <1>7, <1>8, <1>9, <1>10, <1>11, <1>12, <1>13, <1>14, <1>15,
      <1>16, <1>17, <1>18, <1>19
  DEF MainSteps, Main

(* main.i stays a thread of the pool.                                      *)
LEMMA RangeKept ==
  ASSUME IInv, Next
  PROVE  InRange'
<1>0. /\ main \in [at : MainLabels, i : Nat] /\ n_threads \in Sizes /\ InRange
      /\ n_threads \in 1..MAX_THREADS /\ MAX_THREADS \in Nat
      /\ up \in BOOLEAN
  BY SizesClosed, PoolAssumption DEF PoolAssumption, IInv, Types
<1>1. (n_threads # 1 => n_threads \div 2 \in 1..MAX_THREADS /\ n_threads \div 2 < n_threads)
      /\ (n_threads # MAX_THREADS => 2 * n_threads \in 1..MAX_THREADS)
      /\ (2 * n_threads) \div 2 = n_threads
  BY <1>0, SizesClosed
<1>2. ASSUME NEW i \in Worker, Work(i) PROVE InRange'
  <2>1. UNCHANGED <<main, n_threads>> /\ up /\ up' \in BOOLEAN
    BY <1>0, <1>2
    DEF Work, Runs, RemovePItems, RemoveLock, RemoveTake, RemoveVSlots, NotifyLock,
         NotifyBusy, NotifyFree, CloseConn, Dies, Doit, DoitExits, pool, Moves, Calls
  <2> QED
    BY <1>0, <2>1 DEF InRange, Resizing, Handling, Shrinking
<1> USE DEF InRange, Resizing, Handling, Shrinking, At, To, pool
<1>3. CASE Accept
  BY <1>0, <1>1, <1>3 DEF Accept
<1>4. CASE AskLock
  BY <1>0, <1>1, <1>4 DEF AskLock
<1>5. CASE Exhausted
  BY <1>0, <1>1, <1>5 DEF Exhausted
<1>6. CASE Chilling
  BY <1>0, <1>1, <1>6 DEF Chilling
<1>7. CASE Expand
  <2>1. CASE n_threads = MAX_THREADS
    BY <1>0, <1>7, <2>1 DEF Expand
  <2>2. CASE n_threads # MAX_THREADS
    <3>1. /\ main'.at = "create" /\ main'.i = n_threads + 1 /\ n_threads' = 2 * n_threads
      BY <1>7, <2>2 DEF Expand
    <3> QED
      BY <1>0, <1>1, <2>2, <3>1
  <2> QED
    BY <2>1, <2>2
<1>8. CASE Shrink
  BY <1>0, <1>1, <1>8 DEF Shrink
<1>9. CASE CancelLock
  BY <1>0, <1>1, <1>9 DEF CancelLock
<1>10. CASE Cancel
  BY <1>0, <1>1, <1>10 DEF Cancel
<1>11. CASE CancelUnlock
  BY <1>0, <1>1, <1>11 DEF CancelUnlock
<1>12. CASE InsertPSlots
  BY <1>0, <1>1, <1>12 DEF InsertPSlots
<1>13. CASE InsertLock
  BY <1>0, <1>1, <1>13 DEF InsertLock
<1>14. CASE InsertPut
  BY <1>0, <1>1, <1>14 DEF InsertPut
<1>15. CASE InsertVItems
  BY <1>0, <1>1, <1>15 DEF InsertVItems
<1>16. CASE Create
  BY <1>0, <1>1, <1>16 DEF Create
<1>17. CASE ShrinkJoin
  BY <1>0, <1>1, <1>17 DEF ShrinkJoin
<1>18. CASE CloseJoin
  <2>1. /\ main.at = "k_join" /\ up /\ main'.at = "k_lock" /\ main'.i = main.i + 1
        /\ n_threads' = n_threads /\ (up' <=> main.i < n_threads)
    BY <1>18 DEF CloseJoin
  <2> QED
    BY <1>0, <2>1
<1>19. CASE Interrupt
  BY <1>0, <1>1, <1>19 DEF Interrupt
<1> QED
  BY <1>2, <1>3, <1>4, <1>5, <1>6, <1>7, <1>8, <1>9, <1>10, <1>11, <1>12, <1>13, <1>14,
      <1>15, <1>16, <1>17, <1>18, <1>19
  DEF Next, Main

(* The pool is made of the threads it should be made of.                   *)
LEMMA WorkPool ==
  ASSUME IInv, NEW i \in Worker, Work(i)
  PROVE  PoolInv'
<1>1. UNCHANGED <<main, n_threads>>
  BY DEF Work, Runs, RemovePItems, RemoveLock, RemoveTake, RemoveVSlots, NotifyLock,
         NotifyBusy, NotifyFree, CloseConn, Dies, Doit, DoitExits, pool
<1>2. /\ pc \in [Worker -> WorkerLabels] /\ cancel \in [Worker -> {"no", "asked", "due"}]
      /\ PoolInv
  BY DEF IInv, Types
<1>3. /\ pc[i] # "none" /\ pc'[i] # "none"
      /\ \A u \in Worker \ {i} : pc'[u] = pc[u] /\ cancel'[u] = cancel[u]
      /\ cancel[i] = "no" => cancel'[i] = "no" /\ (pc[i] # "dead" => pc'[i] # "dead")
  <2> USE <1>2 DEF Moves, Calls
  <2>1. CASE RemovePItems(i)
    BY <2>1 DEF RemovePItems
  <2>2. CASE RemoveLock(i)
    BY <2>2 DEF RemoveLock
  <2>3. CASE RemoveTake(i)
    BY <2>3 DEF RemoveTake
  <2>4. CASE RemoveVSlots(i)
    BY <2>4 DEF RemoveVSlots
  <2>5. CASE NotifyLock(i)
    BY <2>5 DEF NotifyLock
  <2>6. CASE NotifyBusy(i)
    BY <2>6 DEF NotifyBusy
  <2>7. CASE NotifyFree(i)
    BY <2>7 DEF NotifyFree
  <2>8. CASE CloseConn(i)
    BY <2>8 DEF CloseConn
  <2>9. CASE Dies(i)
    BY <2>9 DEF Dies, CancelPoints
  <2>10. CASE Doit(i)
    BY <2>10 DEF Doit
  <2>11. CASE DoitExits(i)
    BY <2>11 DEF DoitExits
  <2> QED
    BY <2>1, <2>2, <2>3, <2>4, <2>5, <2>6, <2>7, <2>8, <2>9, <2>10, <2>11 DEF Work, Runs
<1>4. Handling' = Handling /\ Threads' = Threads
  BY <1>1 DEF Handling, Threads, Shrinking
<1> QED
  BY <1>1, <1>2, <1>3, <1>4 DEF PoolInv

(* Main and the handler keep the pool what it should be.                   *)
LEMMA MainPool ==
  ASSUME IInv, MainSteps
  PROVE  PoolInv'
<1>0. /\ main \in [at : MainLabels, i : Nat] /\ n_threads \in 1..MAX_THREADS
      /\ MAX_THREADS \in Nat /\ InRange /\ PoolInv
      /\ pc \in [Worker -> WorkerLabels] /\ cancel \in [Worker -> {"no", "asked", "due"}]
      /\ \A u \in Worker : u \in Nat /\ u # 0
  BY SizesClosed, PoolAssumption DEF PoolAssumption, IInv, Types, Worker
<1>1. /\ n_threads \div 2 \in Nat /\ n_threads \div 2 < n_threads
      /\ \A k \in Nat : 2 * k = n_threads => n_threads \div 2 = k
  BY <1>0
<1>2. ASSUME UNCHANGED <<pc, cancel, n_threads>>, ~Handling, ~Resizing, ~Resizing'
      PROVE  PoolInv'
  <2>1. Threads = 1..n_threads /\ Threads' = 1..n_threads
    BY <1>2 DEF Threads, Shrinking, Resizing
  <2> QED
    BY <1>0, <1>2, <2>1 DEF PoolInv, Resizing
<1>3. CASE Accept
  <2>1. Steps("accept", "x_wait")
    BY <1>3, ToSteps DEF Accept, Steps, At, IInv
  <2> QED
    BY <1>2, <1>3, <2>1 DEF Accept, Steps, At, Resizing, Handling, pool, workers
<1>4. CASE AskLock
  <2>1. Steps("x_wait", "x_in") \/ Steps("h_wait", "h_in")
    BY <1>4, ToSteps DEF AskLock, Steps, At, IInv
  <2> QED
    BY <1>2, <1>4, <2>1 DEF AskLock, Steps, At, Resizing, Handling, pool, workers
<1>5. CASE Exhausted
  <2>1. Steps("x_in", "expand") \/ Steps("x_in", "h_wait")
    BY <1>5, ToSteps DEF Exhausted, Steps, At, IInv
  <2> QED
    BY <1>2, <1>5, <2>1 DEF Exhausted, Steps, At, Resizing, Handling, pool, workers
<1>6. CASE Chilling
  <2>1. Steps("h_in", "shrink") \/ Steps("h_in", "i_slots")
    BY <1>6, ToSteps DEF Chilling, Steps, At, IInv
  <2> QED
    BY <1>2, <1>6, <2>1 DEF Chilling, Steps, At, Resizing, Handling, pool, workers
<1>7. CASE InsertPSlots
  <2>1. Steps("i_slots", "i_mutex")
    BY <1>7, ToSteps DEF InsertPSlots, Steps, At, IInv
  <2> QED
    BY <1>2, <1>7, <2>1 DEF InsertPSlots, Steps, At, Resizing, Handling, pool, workers
<1>8. CASE InsertLock
  <2>1. Steps("i_mutex", "i_put")
    BY <1>8, ToSteps DEF InsertLock, Steps, At, IInv
  <2> QED
    BY <1>2, <1>8, <2>1 DEF InsertLock, Steps, At, Resizing, Handling, pool, workers
<1>9. CASE InsertPut
  <2>1. Steps("i_put", "i_items")
    BY <1>9, ToSteps DEF InsertPut, Steps, At, IInv
  <2> QED
    BY <1>2, <1>9, <2>1 DEF InsertPut, Steps, At, Resizing, Handling, pool, workers
<1>10. CASE InsertVItems
  <2>1. Steps("i_items", "accept")
    BY <1>10, ToSteps DEF InsertVItems, Steps, At, IInv
  <2> QED
    BY <1>2, <1>10, <2>1 DEF InsertVItems, Steps, At, Resizing, Handling, pool, workers
<1>11. CASE Interrupt \/ (CloseJoin /\ Handling)
  <2>1. Handling'
    BY <1>0, <1>11 DEF Interrupt, CloseJoin, Handling
  <2> QED
    BY <2>1 DEF PoolInv
<1>12. CASE Expand
  <2>1. UNCHANGED <<pc, cancel>> /\ ~Handling /\ Threads = 1..n_threads
        /\ \A u \in Worker : pc[u] # "none" => cancel[u] = "no" /\ pc[u] # "dead"
    BY <1>0, <1>12 DEF Expand, At, Handling, Threads, Shrinking, workers, PoolInv
  <2>2. Threads' = 1..n_threads
    BY <1>0, <1>12 DEF Expand, At, To, Threads, Shrinking
  <2> QED
    BY <1>0, <2>1, <2>2 DEF PoolInv
<1>13. CASE Create
  <2>1. /\ main.i \in 1..n_threads /\ main.i \in Worker /\ ~Handling
        /\ \A u \in Nat : u \in Threads <=> u # 0 /\ u < main.i
        /\ \A u \in Worker : pc[u] # "none" => cancel[u] = "no" /\ pc[u] # "dead"
    BY <1>0, <1>13
    DEF Create, At, Handling, Threads, Shrinking, PoolInv, InRange, Resizing, Worker
  <2>2. \A u \in Nat : u \in Threads' <=> u # 0 /\ u <= main.i
    BY <1>0, <1>13, <2>1 DEF Create, At, Threads, Shrinking, pool
  <2>3. \A u \in Worker : /\ pc'[u] = IF u = main.i THEN "r_items" ELSE pc[u]
                          /\ cancel'[u] = IF u = main.i THEN "no" ELSE cancel[u]
    BY <1>0, <1>13 DEF Create
  <2> QED
    BY <1>0, <2>1, <2>2, <2>3 DEF PoolInv
<1>14. CASE Shrink
  <2>1. UNCHANGED <<pc, cancel, n_threads>> /\ ~Handling
        /\ (\A u \in Nat : u \in Threads <=> u # 0 /\ u <= n_threads)
        /\ \A u \in Worker : pc[u] # "none" => cancel[u] = "no" /\ pc[u] # "dead"
    BY <1>0, <1>14 DEF Shrink, At, Handling, Threads, Shrinking, workers, pool, PoolInv
  <2>2. \A u \in Nat : u \in Threads' <=> u # 0 /\ u <= n_threads
    <3>1. CASE n_threads = 1
      BY <1>0, <1>14, <3>1 DEF Shrink, At, Threads, Shrinking, pool
    <3>2. CASE n_threads # 1
      <4>1. main' = [at |-> "s_lock", i |-> n_threads \div 2 + 1] /\ n_threads' = n_threads
        BY <1>14, <3>2 DEF Shrink, pool
      <4>2. Threads' = 1..n_threads \div 2 \cup n_threads \div 2 + 1..n_threads
        BY <4>1 DEF Threads, Shrinking
      <4> QED
        BY <1>0, <1>1, <4>2
    <3> QED
      BY <3>1, <3>2
  <2> QED
    BY <1>0, <2>1, <2>2 DEF PoolInv
<1>15. CASE CancelLock \/ Cancel \/ CancelUnlock
  <2>1. CASE Handling
    <3>1. Handling'
      BY <1>0, <1>15, <2>1 DEF CancelLock, Cancel, CancelUnlock, Handling, At, To
    <3> QED
      BY <3>1 DEF PoolInv
  <2>2. CASE ~Handling
    <3>1. \/ Steps("s_lock", "s_cancel") /\ cancel' = cancel
          \/ Steps("s_cancel", "s_unlock") /\ cancel' = [cancel EXCEPT ![main.i] = "asked"]
          \/ Steps("s_unlock", "s_join") /\ cancel' = cancel
      BY <1>15, <2>2, ToSteps
      DEF CancelLock, Cancel, CancelUnlock, Steps, At, IInv, workers, Handling
    <3>2. main'.i = main.i /\ UNCHANGED <<pc, n_threads>>
      BY <1>15, ToSteps DEF CancelLock, Cancel, CancelUnlock, IInv, workers, pool
    <3>3. Threads' = Threads
      BY <3>1, <3>2 DEF Steps, At, Threads, Shrinking
    <3> QED
      BY <1>0, <2>2, <3>1, <3>2, <3>3 DEF PoolInv, Steps, At
  <2> QED
    BY <2>1, <2>2
<1>16. CASE ShrinkJoin
  <2>1. /\ main.i \in 1..n_threads /\ main.i \in Worker /\ main.i > n_threads \div 2
        /\ ~Handling
        /\ \A u \in Nat : u \in Threads <=> \/ u # 0 /\ u <= n_threads \div 2
                                            \/ u >= main.i /\ u <= n_threads
        /\ \A u \in Worker : pc[u] # "none" /\ u # main.i => cancel[u] = "no" /\ pc[u] # "dead"
    BY <1>0, <1>1, <1>16
    DEF ShrinkJoin, At, Handling, Threads, Shrinking, PoolInv, InRange, Resizing, Worker
  <2>2. /\ cancel' = cancel
        /\ \A u \in Worker : pc'[u] = IF u = main.i THEN "none" ELSE pc[u]
    BY <1>0, <1>16 DEF ShrinkJoin
  <2>3. \A u \in Nat : u \in Threads' <=> u \in Threads /\ u # main.i
    <3>1. CASE main.i < n_threads
      <4>1. Threads' = 1..n_threads \div 2 \cup main.i + 1..n_threads
        BY <1>16, <3>1 DEF ShrinkJoin, Threads, Shrinking
      <4> QED
        BY <1>0, <1>1, <2>1, <4>1
    <3>2. CASE ~(main.i < n_threads)
      <4>1. Threads' = 1..n_threads \div 2
        BY <1>16, <3>2 DEF ShrinkJoin, Threads, Shrinking
      <4> QED
        BY <1>0, <1>1, <2>1, <3>2, <4>1
    <3> QED
      BY <3>1, <3>2
  <2> QED
    BY <1>0, <2>1, <2>2, <2>3 DEF PoolInv
<1> QED
  BY <1>3, <1>4, <1>5, <1>6, <1>7, <1>8, <1>9, <1>10, <1>11, <1>12, <1>13, <1>14, <1>15, <1>16
  DEF MainSteps, Main, CloseJoin, At, Handling

(* A connection keeps one place.                                           *)
OwnersOf(q, c) ==
  /\ \A j, k \in DOMAIN q : q[j] = q[k] => j = k
  /\ \A i, k \in Worker : pc[i] # "none" /\ pc[k] # "none" /\ c[i] # 0 /\ c[i] = c[k] => i = k
  /\ \A i \in Worker, j \in DOMAIN q : pc[i] # "none" => c[i] # q[j]

(* OneOwner with the set of created workers spelled out.                   *)
LEMMA OneOwnerMeans ==
  (OneOwner <=> OwnersOf(queue, conn)) /\ (OneOwner' <=> OwnersOf(queue, conn)')
  BY DEF OneOwner, OwnersOf, Created

(* Workers keep the places of the connections.                             *)
LEMMA WorkOwners ==
  ASSUME IInv, NEW i \in Worker, Work(i)
  PROVE  Owners'
<1>0. /\ pc \in [Worker -> WorkerLabels] /\ conn \in [Worker -> 0..MaxConns]
      /\ queue \in Seq(1..MaxConns) /\ accepted \in 0..MaxConns
      /\ MaxConns \in Nat
      /\ \A j \in DOMAIN queue : queue[j] \in 1..MaxConns
      /\ Owners
  BY PoolAssumption DEF PoolAssumption, IInv, Types
<1>1. /\ UNCHANGED <<main, accepted>>
      /\ pc[i] # "none" /\ pc'[i] # "none"
      /\ \A u \in Worker \ {i} : pc'[u] = pc[u]
  BY <1>0 DEF Work, Runs, RemovePItems, RemoveLock, RemoveTake, RemoveVSlots, NotifyLock,
         NotifyBusy, NotifyFree, CloseConn, Dies, Doit, DoitExits, Moves, Calls, CancelPoints
<1>2. Serving' = Serving /\ Newest' = Newest
  BY <1>1 DEF Serving, Newest
<1>3. CASE UNCHANGED <<queue, conn>>
  <2>1. \A u \in Worker : conn'[u] = conn[u] /\ (pc'[u] # "none" <=> pc[u] # "none")
    BY <1>1, <1>3
  <2>2. OwnersOf(queue, conn)'
    BY <1>0, <1>3, <2>1, OneOwnerMeans DEF Owners, OwnersOf
  <2> QED
    BY <1>0, <1>1, <1>2, <1>3, <2>1, <2>2, OneOwnerMeans DEF Owners
<1>4. CASE RemoveTake(i)
  <2>1. /\ \A j \in DOMAIN Tail(queue) : j + 1 \in DOMAIN queue /\ Tail(queue)[j] = queue[j + 1]
        /\ 1 \in DOMAIN queue /\ Head(queue) = queue[1]
        /\ \A j \in DOMAIN Tail(queue) : j \in Nat /\ j # 0
    BY <1>0, <1>4, TakeFinds, QueueTail
  <2>2. /\ \A u \in Worker : conn'[u] = IF u = i THEN queue[1] ELSE conn[u]
        /\ queue' = Tail(queue)
    BY <1>0, <1>4, <2>1 DEF RemoveTake
  <2>3. OwnersOf(queue, conn)
    BY <1>0, OneOwnerMeans DEF Owners
  <2>4. OwnersOf(queue, conn)'
    <3>1. \A j, k \in DOMAIN queue' : queue'[j] = queue'[k] => j = k
      BY <2>1, <2>2, <2>3 DEF OwnersOf
    <3>2. \A u, k \in Worker : pc'[u] # "none" /\ pc'[k] # "none" /\ conn'[u] # 0
                              /\ conn'[u] = conn'[k] => u = k
      BY <1>1, <2>1, <2>2, <2>3 DEF OwnersOf
    <3>3. \A u \in Worker, j \in DOMAIN queue' : pc'[u] # "none" => conn'[u] # queue'[j]
      BY <1>1, <2>1, <2>2, <2>3 DEF OwnersOf
    <3> QED
      BY <3>1, <3>2, <3>3 DEF OwnersOf
  <2>5. \A j \in DOMAIN queue' : queue'[j] <= Newest'
    BY <1>0, <1>2, <2>1, <2>2 DEF Owners
  <2>6. \A u \in Worker : pc'[u] # "none" => conn'[u] <= Newest'
    BY <1>0, <1>1, <1>2, <2>1, <2>2 DEF Owners
  <2> QED
    BY <1>0, <1>1, <1>2, <2>4, <2>5, <2>6, OneOwnerMeans DEF Owners
<1>5. CASE CloseConn(i)
  <2>1. /\ \A u \in Worker : conn'[u] = IF u = i THEN 0 ELSE conn[u]
        /\ queue' = queue
    BY <1>0, <1>5 DEF CloseConn, sbuf
  <2>2. OwnersOf(queue, conn)
    BY <1>0, OneOwnerMeans DEF Owners
  <2>3. OwnersOf(queue, conn)'
    BY <1>0, <1>1, <2>1, <2>2 DEF OwnersOf
  <2>4. 0 <= Newest
    BY <1>0 DEF Owners, Newest
  <2>5. \A u \in Worker : pc'[u] # "none" => conn'[u] <= Newest'
    BY <1>0, <1>1, <1>2, <2>1, <2>4 DEF Owners
  <2> QED
    BY <1>0, <1>1, <1>2, <2>1, <2>3, <2>5, OneOwnerMeans DEF Owners
<1> QED
  BY <1>3, <1>4, <1>5
  DEF Work, Runs, RemovePItems, RemoveLock, RemoveVSlots, NotifyLock,
      NotifyBusy, NotifyFree, Dies, Doit, DoitExits, sbuf

(* Main keeps the places of the connections, and brings new ones.          *)
LEMMA MainOwners ==
  ASSUME IInv, MainSteps
  PROVE  Owners'
<1>0. /\ pc \in [Worker -> WorkerLabels] /\ conn \in [Worker -> 0..MaxConns]
      /\ queue \in Seq(1..MaxConns) /\ accepted \in 0..MaxConns
      /\ MaxConns \in Nat
      /\ \A j \in DOMAIN queue : queue[j] \in 1..MaxConns
      /\ Owners /\ Types /\ Newest \in Nat
  BY PoolAssumption DEF PoolAssumption, IInv, Types, Owners, Newest
<1>1. ASSUME queue' = queue, Newest' \in Nat, Newest <= Newest', Serving' => accepted' > 0,
             \A u \in Worker : pc'[u] # "none" =>
               \/ pc[u] # "none" /\ conn'[u] = conn[u]
               \/ conn'[u] = 0
      PROVE  Owners'
  <2>1. OwnersOf(queue, conn)'
    BY <1>0, <1>1, OneOwnerMeans DEF Owners, OwnersOf
  <2>2. \A j \in DOMAIN queue' : queue'[j] <= Newest'
    BY <1>0, <1>1 DEF Owners
  <2>3. \A u \in Worker : pc'[u] # "none" => conn'[u] <= Newest'
    BY <1>0, <1>1 DEF Owners
  <2> QED
    BY <1>1, <2>1, <2>2, <2>3, OneOwnerMeans DEF Owners
<1>2. ASSUME UNCHANGED <<queue, pc, conn, accepted>>, Serving' => Serving
      PROVE  Owners'
  BY <1>0, <1>1, <1>2 DEF Owners, Newest
<1>3. CASE AskLock
  <2>1. Steps("x_wait", "x_in") \/ Steps("h_wait", "h_in")
    BY <1>0, <1>3, ToSteps DEF AskLock, Steps, At
  <2> QED
    BY <1>2, <1>3, <2>1 DEF AskLock, Steps, At, Serving, sbuf, workers
<1>4. CASE Exhausted
  <2>1. Steps("x_in", "expand") \/ Steps("x_in", "h_wait")
    BY <1>0, <1>4, ToSteps DEF Exhausted, Steps, At
  <2> QED
    BY <1>2, <1>4, <2>1 DEF Exhausted, Steps, At, Serving, sbuf, workers
<1>5. CASE Chilling
  <2>1. Steps("h_in", "shrink") \/ Steps("h_in", "i_slots")
    BY <1>0, <1>5, ToSteps DEF Chilling, Steps, At
  <2> QED
    BY <1>2, <1>5, <2>1 DEF Chilling, Steps, At, Serving, sbuf, workers
<1>6. CASE Expand
  <2>1. Steps("expand", "i_slots") \/ Steps("expand", "create")
    BY <1>0, <1>6, ToSteps DEF Expand, Steps, At
  <2> QED
    BY <1>2, <1>6, <2>1 DEF Expand, Steps, At, Serving, sbuf, workers
<1>7. CASE Shrink
  <2>1. Steps("shrink", "i_slots") \/ Steps("shrink", "s_lock")
    BY <1>0, <1>7, ToSteps DEF Shrink, Steps, At
  <2> QED
    BY <1>2, <1>7, <2>1 DEF Shrink, Steps, At, Serving, sbuf, workers
<1>8. CASE CancelLock
  <2>1. Steps("s_lock", "s_cancel") \/ Steps("k_lock", "k_cancel")
    BY <1>0, <1>8, ToSteps DEF CancelLock, Steps, At
  <2> QED
    BY <1>2, <1>8, <2>1 DEF CancelLock, Steps, At, Serving, sbuf, workers
<1>9. CASE Cancel
  <2>1. Steps("s_cancel", "s_unlock") \/ Steps("k_cancel", "k_unlock")
    BY <1>0, <1>9, ToSteps DEF Cancel, Steps, At
  <2> QED
    BY <1>2, <1>9, <2>1 DEF Cancel, Steps, At, Serving, sbuf, workers
<1>10. CASE CancelUnlock
  <2>1. Steps("s_unlock", "s_join") \/ Steps("k_unlock", "k_join")
    BY <1>0, <1>10, ToSteps DEF CancelUnlock, Steps, At
  <2> QED
    BY <1>2, <1>10, <2>1 DEF CancelUnlock, Steps, At, Serving, sbuf, workers
<1>11. CASE InsertPSlots
  <2>1. Steps("i_slots", "i_mutex")
    BY <1>0, <1>11, ToSteps DEF InsertPSlots, Steps, At
  <2> QED
    BY <1>2, <1>11, <2>1 DEF InsertPSlots, Steps, At, Serving, sbuf, workers
<1>12. CASE InsertLock
  <2>1. Steps("i_mutex", "i_put")
    BY <1>0, <1>12, ToSteps DEF InsertLock, Steps, At
  <2> QED
    BY <1>2, <1>12, <2>1 DEF InsertLock, Steps, At, Serving, sbuf, workers
<1>13. CASE InsertVItems
  <2>1. Steps("i_items", "accept")
    BY <1>0, <1>13, ToSteps DEF InsertVItems, Steps, At
  <2> QED
    BY <1>2, <1>13, <2>1 DEF InsertVItems, Steps, At, Serving, sbuf, workers
<1>14. CASE Interrupt
  <2>1. main'.at = "k_lock" /\ UNCHANGED <<queue, pc, conn, accepted>>
    BY <1>14 DEF Interrupt, sbuf, workers
  <2> QED
    BY <1>2, <2>1 DEF Serving
<1>15. CASE ShrinkJoin \/ CloseJoin
  <2>1. /\ UNCHANGED <<queue, conn, accepted>>
        /\ \A u \in Worker : pc'[u] # "none" => pc[u] # "none"
    BY <1>0, <1>15 DEF ShrinkJoin, CloseJoin, sbuf
  <2>2. \/ Steps("s_join", "s_lock") \/ Steps("s_join", "i_slots") \/ Steps("k_join", "k_lock")
    BY <1>0, <1>15 DEF ShrinkJoin, CloseJoin, Steps, At, Types
  <2>3. Serving' = Serving
    BY <2>2 DEF Steps, At, Serving
  <2> QED
    BY <1>0, <1>1, <2>1, <2>3 DEF Owners, Newest
<1>16. CASE Create
  <2>1. /\ UNCHANGED <<queue, accepted>>
        /\ \A u \in Worker : u # main.i => conn'[u] = conn[u] /\ pc'[u] = pc[u]
        /\ \A u \in Worker : u = main.i => conn'[u] = 0
    BY <1>0, <1>16 DEF Create, sbuf
  <2>2. \/ Steps("create", "i_slots") \/ Steps("create", "create")
    BY <1>0, <1>16 DEF Create, Steps, At, Types
  <2>3. Serving' = Serving
    BY <2>2 DEF Steps, At, Serving
  <2> QED
    BY <1>0, <1>1, <2>1, <2>3 DEF Owners, Newest
<1>17. CASE Accept
  <2>1. /\ UNCHANGED <<queue, pc, conn>> /\ accepted' = accepted + 1
    BY <1>17 DEF Accept, sbuf, workers
  <2>2. Steps("accept", "x_wait")
    BY <1>0, <1>17, ToSteps DEF Accept, Steps
  <2>3. Newest' = Newest
    BY <1>0, <2>1, <2>2 DEF Steps, At, Newest, Serving
  <2> QED
    BY <1>0, <1>1, <2>1, <2>3
<1>18. CASE InsertPut
  <2>1. /\ UNCHANGED <<pc, conn, accepted>> /\ queue' = Append(queue, accepted)
    BY <1>18 DEF InsertPut, workers
  <2>2. Steps("i_put", "i_items")
    BY <1>0, <1>18, ToSteps DEF InsertPut, Steps
  <2>3. Serving /\ ~Serving' /\ accepted > 0 /\ Newest = accepted - 1 /\ Newest' = accepted
    BY <1>0, <2>1, <2>2 DEF Steps, At, Newest, Serving, Owners
  <2>4. /\ \A j \in DOMAIN queue' : \/ j \in DOMAIN queue /\ queue'[j] = queue[j]
                                    \/ j = Len(queue) + 1 /\ queue'[j] = accepted
        /\ \A j \in DOMAIN queue : j # Len(queue) + 1
    <3>1. accepted \in 1..MaxConns
      BY <1>0, <2>3
    <3>2. DOMAIN queue = 1..Len(queue) /\ Len(queue) \in Nat
      BY <1>0
    <3>3. /\ DOMAIN queue' = 1..Len(queue) + 1 /\ queue'[Len(queue) + 1] = accepted
          /\ \A j \in 1..Len(queue) : queue'[j] = queue[j]
      BY <1>0, <2>1, <3>1, <3>2, AppendProperties
    <3> QED
      BY <3>2, <3>3
  <2>5. \A j \in DOMAIN queue : queue[j] # accepted
    BY <1>0, <2>3 DEF Owners
  <2>6. \A u \in Worker : pc[u] # "none" => conn[u] # accepted
    BY <1>0, <2>3 DEF Owners
  <2>7. OwnersOf(queue, conn)'
    <3>1. OwnersOf(queue, conn)
      BY <1>0, OneOwnerMeans DEF Owners
    <3>2. pc' = pc /\ conn' = conn
      BY <2>1
    <3>3. \A j, k \in DOMAIN queue' : queue'[j] = queue'[k] => j = k
      BY <2>4, <2>5, <3>1 DEF OwnersOf
    <3>4. \A u \in Worker, j \in DOMAIN queue' : pc[u] # "none" => conn[u] # queue'[j]
      BY <2>4, <2>6, <3>1 DEF OwnersOf
    <3> QED
      BY <3>1, <3>2, <3>3, <3>4 DEF OwnersOf
  <2>8. \A j \in DOMAIN queue' : queue'[j] <= Newest'
    BY <1>0, <2>3, <2>4 DEF Owners
  <2>9. \A u \in Worker : pc'[u] # "none" => conn'[u] <= Newest'
    BY <1>0, <2>1, <2>3 DEF Owners
  <2> QED
    BY <2>3, <2>7, <2>8, <2>9, OneOwnerMeans DEF Owners
<1> QED
  BY <1>3, <1>4, <1>5, <1>6, <1>7, <1>8, <1>9, <1>10, <1>11, <1>12, <1>13, <1>14, <1>15,
      <1>16, <1>17, <1>18
  DEF MainSteps, Main


-----------------------------------------------------------------------------
(* The invariant holds at the start...                                     *)
LEMMA Starts == Init => IInv
<1> SUFFICES ASSUME Init PROVE IInv
  OBVIOUS
<1>0. /\ N_THREADS \in Sizes /\ N_THREADS \in 1..MAX_THREADS /\ MAX_THREADS \in Nat
      /\ SBUFSIZE \in Nat /\ MaxConns \in Nat
  BY SizesClosed, PoolAssumption DEF PoolAssumption
<1>1. Types
  BY <1>0 DEF Init, Types, WorkerLabels, CancelPoints, MainLabels
<1>2. /\ nTake = 0 /\ nNotify = 0 /\ nBusy = 0 /\ nTaking = 0 /\ nKept = 0
  <2>1. \A u \in Worker : pc[u] = "r_items" \/ pc[u] = "none"
    BY DEF Init
  <2>2. ASSUME NEW L, "r_items" \notin L, "none" \notin L
        PROVE  Num(Worker, pc, L) = 0
    BY <2>1, <2>2, WorkersFinite, NumPositive
  <2> QED
    BY <2>2 DEF nTake, nNotify, nBusy, nTaking, nKept
<1>3. Len(queue) = 0
  BY DEF Init
<1>4. Counts
  BY <1>0, <1>2, <1>3 DEF Init, Counts, One, Handling
<1>5. InRange
  BY <1>0 DEF Init, InRange, Resizing, Handling, Shrinking
<1>6. PoolInv
  BY <1>0 DEF Init, PoolInv, Threads, Shrinking, Handling, Worker
<1>7. Owners
  BY <1>0, OneOwnerMeans DEF Init, Owners, OwnersOf, Serving, Newest
<1> QED
  BY <1>1, <1>4, <1>5, <1>6, <1>7 DEF IInv

(* ... and every step keeps it.                                            *)
LEMMA Keeps == IInv /\ [Next]_vars => IInv'
<1> SUFFICES ASSUME IInv, [Next]_vars PROVE IInv'
  OBVIOUS
<1>1. CASE Next
  <2>1. Types'
    BY <1>1, WorkTypes, MainTypes DEF Next, MainSteps
  <2>2. Counts'
    BY <1>1, WorkCounts, MainCounts DEF Next, MainSteps
  <2>3. InRange'
    BY <1>1, RangeKept
  <2>4. PoolInv'
    BY <1>1, WorkPool, MainPool DEF Next, MainSteps
  <2>5. Owners'
    BY <1>1, WorkOwners, MainOwners DEF Next, MainSteps
  <2> QED
    BY <2>1, <2>2, <2>3, <2>4, <2>5 DEF IInv
<1>2. CASE UNCHANGED vars
  <2>1. UNCHANGED <<queue, mutex, slots, items, n_threads, n_busy, busy_mtx, pc, conn,
                    cancel, main, accepted, up>>
    BY <1>2 DEF vars, sbuf, pool, workers
  <2>2. Types'
    BY <2>1 DEF IInv, Types
  <2>3. Counts'
    BY <2>1 DEF IInv, Counts, One, Handling, nTake, nNotify, nBusy, nTaking, nKept
  <2>4. InRange'
    BY <2>1 DEF IInv, InRange, Resizing, Handling, Shrinking
  <2>5. PoolInv'
    BY <2>1 DEF IInv, PoolInv, Threads, Handling, Shrinking
  <2>6. Owners'
    BY <2>1 DEF IInv, Owners, OneOwner, Created, Serving, Newest
  <2> QED
    BY <2>2, <2>3, <2>4, <2>5, <2>6 DEF IInv
<1> QED
  BY <1>1, <1>2

(* The invariant holds in every state.                                     *)
THEOREM PoolIInvHolds == Spec => []IInv
  BY Starts, Keeps, PTL DEF Spec

-----------------------------------------------------------------------------
(* What the invariant says in the words of the runs.                       *)
LEMMA CountsMean ==
  /\ nTake = Cardinality({i \in Worker : pc[i] = "r_take"})
  /\ nNotify = Cardinality({i \in Worker : pc[i] \in {"b_in", "f_in"}})
  /\ nBusy = Cardinality(Busy)
<1>1. {i \in Worker : pc[i] = "r_take"} = Placed(Worker, pc, {"r_take"})
  BY DEF Placed
<1>2. {i \in Worker : pc[i] \in {"b_in", "f_in"}} = Placed(Worker, pc, {"b_in", "f_in"})
  BY DEF Placed
<1>3. Busy = Placed(Worker, pc, {"doit", "close", "f_wait", "f_in"})
  BY DEF Placed, Busy, Alive, Created
<1> QED
  BY <1>1, <1>2, <1>3 DEF nTake, nNotify, nBusy, Num

(* Every state is well typed: the semaphores stay within their bounds, and *)
(* the pool within MAX_THREADS, whatever is cancelled when.                *)
THEOREM PoolTyped == Spec => []TypeOK
<1>1. IInv => TypeOK
  <2> SUFFICES ASSUME IInv PROVE TypeOK
    OBVIOUS
  <2>1. Naturals5 /\ Types /\ Counts /\ InRange
    BY GroupSizes DEF IInv
  <2>2. mutex \in 0..1 /\ busy_mtx \in 0..1
    BY <2>1 DEF Naturals5, Types, Counts, One
  <2>3. slots \in 0..SBUFSIZE /\ items \in 0..SBUFSIZE
    BY <2>1, PoolAssumption DEF PoolAssumption, Naturals5, Types, Counts, One
  <2>4. n_threads \in 1..MAX_THREADS /\ main \in [at : MainLabels, i : 0..MAX_THREADS + 1]
    BY <2>1, SizesClosed, PoolAssumption DEF PoolAssumption, Types, InRange
  <2> QED
    BY <2>1, <2>2, <2>3, <2>4 DEF Types, TypeOK
<1> QED
  BY <1>1, PoolIInvHolds, PTL

(* However workers are cancelled, a lock that is taken has an owner.       *)
THEOREM LocksOwned == Spec => []LocksHaveOwners
<1>1. IInv => LocksHaveOwners
  BY CountsMean DEF IInv, Counts, One, LocksHaveOwners
<1> QED
  BY <1>1, PoolIInvHolds, PTL

(* tids[0..n_threads-1] are the threads there are.                         *)
THEOREM PoolKnown == Spec => []PoolExact
<1>1. IInv => PoolExact
  <2> SUFFICES ASSUME IInv, ~Handling, ~Resizing
               PROVE  /\ Created = 1..n_threads
                      /\ \A i \in Created : cancel[i] = "no" /\ pc[i] # "dead"
    BY DEF PoolExact
  <2>1. Threads = 1..n_threads /\ main.at \notin {"s_unlock", "s_join"}
    BY DEF Threads, Shrinking, Resizing
  <2>2. n_threads \in 1..MAX_THREADS /\ MAX_THREADS \in Nat
    BY SizesClosed, PoolAssumption DEF PoolAssumption, IInv, Types
  <2>3. /\ \A i \in Worker : pc[i] # "none" <=> i \in 1..n_threads
        /\ \A i \in Worker : pc[i] = "none" \/ (cancel[i] = "no" /\ pc[i] # "dead")
    BY <2>1 DEF IInv, PoolInv
  <2> QED
    BY <2>2, <2>3 DEF Created, Worker
<1> QED
  BY <1>1, PoolIInvHolds, PTL

(* The invariant of the runs: both in one.                                 *)
THEOREM PoolIsSafe == Spec => []PoolSafe
<1>1. TypeOK /\ PoolExact => PoolSafe
  BY DEF PoolSafe
<1> QED
  BY <1>1, PoolTyped, PoolKnown, PTL

(* n_busy is at least the number of busy workers.                          *)
THEOREM BusyCounted == Spec => []NeverUndercounts
<1>1. IInv => NeverUndercounts
  BY CountsMean DEF IInv, Counts, NeverUndercounts
<1> QED
  BY <1>1, PoolIInvHolds, PTL

(* No connection is with two workers, or with one and in the buffer.       *)
THEOREM ConnectionsOwned == Spec => []OneOwner
<1>1. IInv => OneOwner
  BY DEF IInv, Owners
<1> QED
  BY <1>1, PoolIInvHolds, PTL
=============================================================================
