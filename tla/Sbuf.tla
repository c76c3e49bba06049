-------------------------------- MODULE Sbuf --------------------------------
(***************************************************************************)
(* The bounded buffer of proxylab-handout/sbuf.c (src/ch12/sbuf.c is the   *)
(* same code): a ring of N ints guarded by three POSIX semaphores.  Every  *)
(* P, every V and every access to the ring is a step of its own, so that   *)
(* the calls of different threads interleave wherever the code lets them.  *)
(*                                                                         *)
(* Labels of at: i_* inside sbuf_insert, r_* inside sbuf_remove, q_* inside *)
(* sbuf_empty / sbuf_full.  `bump' is the pre-increment of rear or front,  *)
(* `store' / `load' the access to the ring that follows it.                *)
(***************************************************************************)
EXTENDS Integers, FiniteSets, Sequences

CONSTANTS Producers,   \* threads that call sbuf_insert (main of proxy.c)
          Consumers,   \* threads that call sbuf_remove (conn_thread)
          Pollers,     \* threads that call sbuf_empty or sbuf_full
          N,           \* sp->n, SBUFSIZE in proxy.c
          Items,       \* the ints put into the buffer
          NoItem,      \* the zero calloc leaves in an unused slot
          MaxRequests  \* bound: calls of sbuf_insert, sbuf_empty and sbuf_full

Threads == Producers \cup Consumers \cup Pollers

ASSUME SbufAssumption ==
  /\ IsFiniteSet(Threads)
  /\ Producers \cap Consumers = {}
  /\ Pollers \cap (Producers \cup Consumers) = {}
  /\ N \in Nat \ {0}
  /\ MaxRequests \in Nat
  /\ NoItem \notin Items

VARIABLES buf, front, rear,       \* the ring of sbuf_t
          ring_mutex,             \* its semaphores
          slots, items,
          at,                     \* where each thread is
          item,                   \* the argument of insert, the result of remove
          res,                    \* the result of sbuf_empty / sbuf_full
          requests                \* calls of the three so far

ring == <<buf, front, rear>>
sems == <<ring_mutex, slots, items>>
sbufvars == <<buf, front, rear, ring_mutex, slots, items, at, item, res, requests>>

Moves(t, from, to) == at[t] = from /\ at' = [at EXCEPT ![t] = to]

SbufInit == /\ buf = [i \in 0..N-1 |-> NoItem]
            /\ front = 0 /\ rear = 0
            /\ ring_mutex = 1 /\ slots = N /\ items = 0
            /\ at = [t \in Threads |-> "idle"]
            /\ item = [t \in Threads |-> NoItem]
            /\ res = [t \in Pollers |-> FALSE]
            /\ requests = 0

-----------------------------------------------------------------------------
(* The mutex, taken and given back by all four functions.                  *)

(* Seeded bug: the section is entered without waiting for the mutex.       *)
BugLock(t, from, to) == /\ Moves(t, from, to)
                        /\ ring_mutex' = 0
                        /\ UNCHANGED <<ring, slots, items, item, res, requests>>

LockRing(t, from, to) == /\ Moves(t, from, to)
                         /\ ring_mutex > 0
                         /\ ring_mutex' = ring_mutex - 1
                         /\ UNCHANGED <<ring, slots, items, item, res, requests>>

UnlockRing(t, from, to) == /\ Moves(t, from, to)
                           /\ ring_mutex' = ring_mutex + 1
                           /\ UNCHANGED <<ring, slots, items, item, res, requests>>

-----------------------------------------------------------------------------
(* sbuf_insert.  The argument of a call is forgotten when it returns.      *)

InsertCall(p) == /\ requests < MaxRequests
                 /\ Moves(p, "idle", "i_wait")
                 /\ \E x \in Items : item' = [item EXCEPT ![p] = x]
                 /\ requests' = requests + 1
                 /\ UNCHANGED <<ring, sems, res>>

InsertPSlots(p) == /\ Moves(p, "i_wait", "i_lock")
                   /\ slots > 0
                   /\ slots' = slots - 1
                   /\ UNCHANGED <<ring, ring_mutex, items, item, res, requests>>

InsertLock(p) == LockRing(p, "i_lock", "i_bump")

InsertBump(p) == /\ Moves(p, "i_bump", "i_store")
                 /\ rear' = rear + 1
                 /\ UNCHANGED <<buf, front, sems, item, res, requests>>

InsertStore(p) == /\ Moves(p, "i_store", "i_unlock")
                  /\ buf' = [buf EXCEPT ![rear % N] = item[p]]
                  /\ UNCHANGED <<front, rear, sems, item, res, requests>>

InsertUnlock(p) == UnlockRing(p, "i_unlock", "i_post")

(* Seeded bug: the inserted item is never announced.                       *)
BugNoVItems(p) == /\ Moves(p, "i_post", "idle")
                  /\ item' = [item EXCEPT ![p] = NoItem]
                  /\ UNCHANGED <<ring, sems, res, requests>>

InsertVItems(p) == /\ Moves(p, "i_post", "idle")
                   /\ items' = items + 1
                   /\ item' = [item EXCEPT ![p] = NoItem]
                   /\ UNCHANGED <<ring, ring_mutex, slots, res, requests>>

Insert(p) == \/ InsertPSlots(p) \/ InsertLock(p) \/ InsertBump(p)
             \/ InsertStore(p) \/ InsertUnlock(p) \/ InsertVItems(p)

-----------------------------------------------------------------------------
(* sbuf_remove                                                             *)

RemoveCall(c) == /\ Moves(c, "idle", "r_wait")
                 /\ UNCHANGED <<ring, sems, item, res, requests>>

RemovePItems(c) == /\ Moves(c, "r_wait", "r_lock")
                   /\ items > 0
                   /\ items' = items - 1
                   /\ UNCHANGED <<ring, ring_mutex, slots, item, res, requests>>

RemoveLock(c) == LockRing(c, "r_lock", "r_bump")

RemoveBump(c) == /\ Moves(c, "r_bump", "r_load")
                 /\ front' = front + 1
                 /\ UNCHANGED <<buf, rear, sems, item, res, requests>>

RemoveLoad(c) == /\ Moves(c, "r_load", "r_unlock")
                 /\ item' = [item EXCEPT ![c] = buf[front % N]]
                 /\ UNCHANGED <<ring, sems, res, requests>>

RemoveUnlock(c) == UnlockRing(c, "r_unlock", "r_post")

(* Seeded bug: the emptied slot is never announced.                        *)
BugNoVSlots(c) == /\ Moves(c, "r_post", "idle")
                  /\ UNCHANGED <<ring, sems, item, res, requests>>

RemoveVSlots(c) == /\ Moves(c, "r_post", "idle")
                   /\ slots' = slots + 1
                   /\ UNCHANGED <<ring, ring_mutex, items, item, res, requests>>

Remove(c) == \/ RemoveCall(c) \/ RemovePItems(c) \/ RemoveLock(c)
             \/ RemoveBump(c) \/ RemoveLoad(c) \/ RemoveUnlock(c)
             \/ RemoveVSlots(c)

-----------------------------------------------------------------------------
(* sbuf_empty and sbuf_full: a look at the indices under the mutex.  The   *)
(* result of a call is forgotten when it has returned.                     *)

IsEmpty == front = rear
IsFull == rear - front >= N

QueryCall(t) == /\ requests < MaxRequests
                /\ Moves(t, "idle", "q_lock")
                /\ requests' = requests + 1
                /\ UNCHANGED <<ring, sems, item, res>>

QueryLock(t) == LockRing(t, "q_lock", "q_empty") \/ LockRing(t, "q_lock", "q_full")

QueryRead(t) == /\ \/ Moves(t, "q_empty", "q_unlock")
                      /\ res' = [res EXCEPT ![t] = IsEmpty]
                   \/ Moves(t, "q_full", "q_unlock")
                      /\ res' = [res EXCEPT ![t] = IsFull]
                /\ UNCHANGED <<ring, sems, item, requests>>

QueryUnlock(t) == /\ Moves(t, "q_unlock", "idle")
                  /\ ring_mutex' = ring_mutex + 1
                  /\ res' = [res EXCEPT ![t] = FALSE]
                  /\ UNCHANGED <<ring, slots, items, item, requests>>

Query(t) == QueryLock(t) \/ QueryRead(t) \/ QueryUnlock(t)

-----------------------------------------------------------------------------
SbufNext == \/ \E p \in Producers : InsertCall(p) \/ Insert(p)
            \/ \E c \in Consumers : Remove(c)
            \/ \E t \in Pollers : QueryCall(t) \/ Query(t)

SbufSpec == SbufInit /\ [][SbufNext]_sbufvars

(* Each thread keeps running while it can.  A semaphore promises no order  *)
(* among its waiters, so only weak fairness is assumed.  An idle producer  *)
(* or poller may stop calling; conn_thread calls sbuf_remove for ever.     *)
SbufFairness == /\ \A p \in Producers : WF_sbufvars(Insert(p))
                /\ \A c \in Consumers : WF_sbufvars(Remove(c))
                /\ \A t \in Pollers : WF_sbufvars(Query(t))

FairSbuf == SbufSpec /\ SbufFairness
-----------------------------------------------------------------------------
ThreadsAt(L) == {t \in Threads : at[t] \in L}

InsertLabels == {"i_wait", "i_lock", "i_bump", "i_store", "i_unlock", "i_post"}
RemoveLabels == {"r_wait", "r_lock", "r_bump", "r_load", "r_unlock", "r_post"}
QueryLabels == {"q_lock", "q_empty", "q_full", "q_unlock"}
Critical == {"i_bump", "i_store", "i_unlock", "r_bump", "r_load", "r_unlock",
             "q_empty", "q_full", "q_unlock"}

(* Who holds a slot or an item that no semaphore counts at the moment.     *)
SlotTaken == {"i_lock", "i_bump"}                  \* P(slots) done, rear not yet moved
SlotEmptied == {"r_load", "r_unlock", "r_post"}    \* front moved, V(slots) to come
ItemTaken == {"r_lock", "r_bump"}                  \* P(items) done, front not yet moved
ItemStored == {"i_store", "i_unlock", "i_post"}    \* rear moved, V(items) to come

SbufTypeOK ==
  /\ buf \in [0..N-1 -> Items \cup {NoItem}]
  /\ front \in Nat /\ rear \in Nat
  /\ ring_mutex \in Nat /\ slots \in Nat /\ items \in Nat
  /\ at \in [Threads -> {"idle"} \cup InsertLabels \cup RemoveLabels \cup QueryLabels]
  /\ \A p \in Producers : at[p] \in {"idle"} \cup InsertLabels
  /\ \A c \in Consumers : at[c] \in {"idle"} \cup RemoveLabels
  /\ \A t \in Pollers : at[t] \in {"idle"} \cup QueryLabels
  /\ item \in [Threads -> Items \cup {NoItem}]
  /\ \A p \in Producers : at[p] # "idle" => item[p] \in Items
  /\ res \in [Pollers -> BOOLEAN]
  /\ requests \in Nat

(* sbuf.c:7 "Binary semaphore for locking": the accesses to the ring of    *)
(* two threads never overlap, and the mutex is free exactly when no thread *)
(* is between its P and its V.                                             *)
MutexInv ==
  /\ \A t, u \in Threads : at[t] \in Critical /\ at[u] \in Critical => t = u
  /\ ring_mutex = IF \E t \in Threads : at[t] \in Critical THEN 0 ELSE 1

(* sbuf.h:11-12 "Counts available slots", "Counts available items": every  *)
(* one of the N slots is at any time free, promised to a producer, filled, *)
(* or emptied but not yet announced; likewise for the items between front  *)
(* and rear.                                                               *)
CreditInv ==
  /\ slots + Cardinality(ThreadsAt(SlotTaken)) + (rear - front)
           + Cardinality(ThreadsAt(SlotEmptied)) = N
  /\ items + Cardinality(ThreadsAt(ItemTaken)) + Cardinality(ThreadsAt(ItemStored))
       = rear - front

(* The ring never holds more than N items nor fewer than none, which is    *)
(* what keeps ++rear from reaching a slot that is still unread.            *)
NoOverrun == 0 <= rear - front /\ rear - front <= N

(* The four together: whatever the threads are doing, the ring is theirs   *)
(* one at a time, and what the semaphores count is what is in it.          *)
RingSafe == SbufTypeOK /\ MutexInv /\ CreditInv /\ NoOverrun

(* No lost wakeup: a consumer that sleeps in P(items) while the ring holds *)
(* something sleeps only because another thread is about to take that item *)
(* or to announce it; symmetrically for producers and free slots.          *)
NoLostWakeup ==
  /\ items = 0 /\ rear # front =>
       \E t \in Threads : at[t] \in ItemTaken \cup ItemStored
  /\ slots = 0 /\ rear - front < N =>
       \E t \in Threads : at[t] \in SlotTaken \cup SlotEmptied

(* The queue the ring stands for: an item is in it from the store of its   *)
(* producer to the load of its consumer.                                   *)
Loading == \E c \in Consumers : at[c] = "r_load"
Storing == \E p \in Producers : at[p] = "i_store"
first == IF Loading THEN front ELSE front + 1
last == IF Storing THEN rear - 1 ELSE rear
contents == [i \in 1..(last - first + 1) |-> buf[(first + i - 1) % N]]
returned == [c \in Consumers |-> item[c]]

Fifo == INSTANCE BoundedFifo WITH queue <- contents, got <- returned

(* The semaphore code implements the first-in first-out queue of sbuf.h:   *)
(* a stored item stays in its slot until exactly one consumer loads it.    *)
ImplementsFifo == Fifo!Spec

(* A call that finds the buffer full or busy still returns, once the calls *)
(* counted by MaxRequests have been made: the semaphores alone let one of  *)
(* several callers wait as long as others keep coming.                     *)
InsertReturns == \A p \in Producers : at[p] = "i_wait" ~> at[p] = "idle"

(* Every connection put into the ring is taken out of it: once the calls   *)
(* counted by MaxRequests have been made the consumers empty the ring.     *)
EveryItemTaken == <>[](front = rear)
=============================================================================
