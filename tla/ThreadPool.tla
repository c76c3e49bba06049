----------------------------- MODULE ThreadPool -----------------------------
(***************************************************************************)
(* The proxy as a whole (proxylab-handout/proxy.c and tpool.c): main       *)
(* accepts connections, resizes the pool and fills the connection buffer;  *)
(* the workers empty it and count themselves busy and free; the SIGINT     *)
(* handler closes the pool on top of whatever main was doing.  The buffer  *)
(* is the queue that Sbuf implements, with its three semaphores.  doit is  *)
(* one step that may never come: its client, its server or the cache may   *)
(* keep it for ever, whatever Cache promises for workers that live.        *)
(*                                                                         *)
(* Threads are cancelled with pthread_cancel: a worker acts on the request *)
(* when it calls, or is blocked in, a function that is a cancellation      *)
(* point (sem_wait, read, write, close, printf's write).                   *)
(***************************************************************************)
EXTENDS Integers, Sequences, FiniteSets

CONSTANTS N_THREADS, MAX_THREADS, SBUFSIZE,
          MaxConns     \* bound: connections accepted

(* Doubling and halving N_THREADS meets 1 and MAX_THREADS exactly, as it   *)
(* does for the 4 and 16 of the code: S are the sizes the pool can have.   *)
ASSUME PoolAssumption ==
  /\ MAX_THREADS \in Nat /\ SBUFSIZE \in Nat \ {0} /\ MaxConns \in Nat
  /\ \E S \in SUBSET (1..MAX_THREADS) :
        /\ N_THREADS \in S
        /\ \A n \in S : /\ n # MAX_THREADS => 2 * n \in S
                        /\ n # 1 => n \div 2 \in S

VARIABLES queue, mutex, slots, items,      \* the connection buffer
          n_threads, n_busy, busy_mtx,     \* thread_pool_t
          pc, conn, cancel,                \* the workers; tids[i-1] is worker i
          main,                            \* where main is, or the handler on top of it
          accepted, up

sbuf == <<queue, mutex, slots, items>>
pool == <<n_threads, n_busy, busy_mtx>>
workers == <<pc, conn, cancel>>
vars == <<sbuf, pool, workers, main, accepted, up>>

Worker == 1..MAX_THREADS
Created == {i \in Worker : pc[i] # "none"}     \* created and not yet joined
Alive == {i \in Created : pc[i] # "dead"}

Init == /\ queue = <<>> /\ mutex = 1 /\ slots = SBUFSIZE /\ items = 0
        /\ n_threads = N_THREADS /\ n_busy = 0 /\ busy_mtx = 1
        /\ pc = [i \in Worker |-> IF i <= N_THREADS THEN "r_items" ELSE "none"]
        /\ conn = [i \in Worker |-> 0]
        /\ cancel = [i \in Worker |-> "no"]
        /\ main = [at |-> "accept", i |-> 0]
        /\ accepted = 0 /\ up = TRUE

-----------------------------------------------------------------------------
(* Workers: conn_thread.                                                   *)

(* A request that comes during a call may be too late for that call; it is *)
(* due at the next cancellation point.                                     *)
Moves(i, from, to) ==
  /\ up /\ pc[i] = from /\ pc' = [pc EXCEPT ![i] = to]
  /\ cancel' = [cancel EXCEPT ![i] = IF @ = "asked" THEN "due" ELSE @]

(* Seeded bug: the worker logs, a cancellation point, with the mutex held. *)
BugCancelPoints == {"r_items", "r_mutex", "r_take", "b_wait", "doit", "close", "f_wait"}

CancelPoints == {"r_items", "r_mutex", "b_wait", "doit", "close", "f_wait"}

(* A call that is a cancellation point is not made when a request is due.  *)
Calls(i, from, to) == cancel[i] # "due" /\ Moves(i, from, to)

(* Seeded bug: a cancelled worker counts itself free wherever it was.      *)
BugDies(i) == /\ up /\ pc[i] \in CancelPoints /\ cancel[i] # "no"
              /\ pc' = [pc EXCEPT ![i] = "dead"]
              /\ n_busy' = n_busy - 1
              /\ UNCHANGED <<sbuf, n_threads, busy_mtx, conn, cancel, main, accepted, up>>

(* Seeded bug: a worker asleep for want of connections is not woken.       *)
BugDiesAwake(i) == /\ up /\ pc[i] \in CancelPoints \ {"r_items"} /\ cancel[i] # "no"
                   /\ pc' = [pc EXCEPT ![i] = "dead"]
                   /\ UNCHANGED <<sbuf, pool, conn, cancel, main, accepted, up>>

Dies(i) == /\ up /\ pc[i] \in CancelPoints /\ cancel[i] # "no"
           /\ pc' = [pc EXCEPT ![i] = "dead"]
           /\ UNCHANGED <<sbuf, pool, conn, cancel, main, accepted, up>>

(* sbuf_remove *)
RemovePItems(i) == /\ Calls(i, "r_items", "r_mutex")
                   /\ items > 0 /\ items' = items - 1
                   /\ UNCHANGED <<queue, mutex, slots, pool, conn, main, accepted, up>>

RemoveLock(i) == /\ Calls(i, "r_mutex", "r_take")
                 /\ mutex > 0 /\ mutex' = mutex - 1
                 /\ UNCHANGED <<queue, slots, items, pool, conn, main, accepted, up>>

(* Seeded bug: the front of the ring is read but not moved.                *)
BugRemoveTake(i) == /\ Moves(i, "r_take", "r_slots")
                    /\ conn' = [conn EXCEPT ![i] = Head(queue)]
                    /\ mutex' = mutex + 1
                    /\ UNCHANGED <<queue, slots, items, pool, main, accepted, up>>

RemoveTake(i) == /\ Moves(i, "r_take", "r_slots")
                 /\ conn' = [conn EXCEPT ![i] = Head(queue)]
                 /\ queue' = Tail(queue)
                 /\ mutex' = mutex + 1
                 /\ UNCHANGED <<slots, items, pool, main, accepted, up>>

RemoveVSlots(i) == /\ Moves(i, "r_slots", "b_wait")
                   /\ slots' = slots + 1
                   /\ UNCHANGED <<queue, mutex, items, pool, conn, main, accepted, up>>

(* notify_busy and notify_free                                             *)
NotifyLock(i) == /\ Calls(i, "b_wait", "b_in") \/ Calls(i, "f_wait", "f_in")
                 /\ busy_mtx > 0 /\ busy_mtx' = busy_mtx - 1
                 /\ UNCHANGED <<sbuf, n_threads, n_busy, conn, main, accepted, up>>

NotifyBusy(i) == /\ Moves(i, "b_in", "doit")
                 /\ n_busy' = n_busy + 1 /\ busy_mtx' = busy_mtx + 1
                 /\ UNCHANGED <<sbuf, n_threads, conn, main, accepted, up>>

NotifyFree(i) == /\ Moves(i, "f_in", "r_items")
                 /\ n_busy' = n_busy - 1 /\ busy_mtx' = busy_mtx + 1
                 /\ UNCHANGED <<sbuf, n_threads, conn, main, accepted, up>>

Doit(i) == /\ Calls(i, "doit", "close")
           /\ UNCHANGED <<sbuf, pool, conn, main, accepted, up>>

(* The robust I/O wrappers end the process when a call fails.              *)
DoitExits(i) == /\ Calls(i, "doit", "doit")
                /\ up' = FALSE
                /\ UNCHANGED <<sbuf, pool, conn, main, accepted>>

CloseConn(i) == /\ Calls(i, "close", "f_wait")
                /\ conn' = [conn EXCEPT ![i] = 0]
                /\ UNCHANGED <<sbuf, pool, main, accepted, up>>

(* What a worker does without its client's help.                           *)
Runs(i) == \/ RemovePItems(i) \/ RemoveLock(i) \/ RemoveTake(i) \/ RemoveVSlots(i)
           \/ NotifyLock(i) \/ NotifyBusy(i) \/ NotifyFree(i) \/ CloseConn(i) \/ Dies(i)

Work(i) == Runs(i) \/ Doit(i) \/ DoitExits(i)

-----------------------------------------------------------------------------
(* main: the accept loop                                                   *)

At(l) == up /\ main.at = l
To(l) == main' = [main EXCEPT !.at = l]

Accept == /\ At("accept") /\ accepted < MaxConns
          /\ accepted' = accepted + 1
          /\ To("x_wait")
          /\ UNCHANGED <<sbuf, pool, workers, up>>

(* examine_thread_pool: exhausted and, if it is not, chilling, each of     *)
(* which looks under busy_mtx and gives it back before main acts.          *)
AskLock == /\ \/ At("x_wait") /\ To("x_in")
              \/ At("h_wait") /\ To("h_in")
           /\ busy_mtx > 0 /\ busy_mtx' = busy_mtx - 1
           /\ UNCHANGED <<sbuf, n_threads, n_busy, workers, accepted, up>>

Exhausted == /\ At("x_in")
             /\ To(IF n_busy = n_threads THEN "expand" ELSE "h_wait")
             /\ busy_mtx' = busy_mtx + 1
             /\ UNCHANGED <<sbuf, n_threads, n_busy, workers, accepted, up>>

Chilling == /\ At("h_in")
            /\ To(IF n_busy = 0 THEN "shrink" ELSE "i_slots")
            /\ busy_mtx' = busy_mtx + 1
            /\ UNCHANGED <<sbuf, n_threads, n_busy, workers, accepted, up>>

(* expand_thread_pool; main.i counts the threads created.                  *)
Expand == /\ At("expand")
          /\ IF n_threads = MAX_THREADS
             THEN To("i_slots") /\ UNCHANGED n_threads
             ELSE /\ n_threads' = 2 * n_threads
                  /\ main' = [at |-> "create", i |-> n_threads + 1]
          /\ UNCHANGED <<sbuf, n_busy, busy_mtx, workers, accepted, up>>

Create == /\ At("create")
          /\ pc' = [pc EXCEPT ![main.i] = "r_items"]
          /\ cancel' = [cancel EXCEPT ![main.i] = "no"]
          /\ conn' = [conn EXCEPT ![main.i] = 0]
          /\ main' = IF main.i = n_threads THEN [at |-> "i_slots", i |-> 0]
                     ELSE [main EXCEPT !.i = @ + 1]
          /\ UNCHANGED <<sbuf, pool, accepted, up>>

(* shrink_thread_pool: the upper half of the workers, one by one.          *)
Shrink == /\ At("shrink")
          /\ main' = IF n_threads = 1 THEN [main EXCEPT !.at = "i_slots"]
                     ELSE [at |-> "s_lock", i |-> n_threads \div 2 + 1]
          /\ UNCHANGED <<sbuf, pool, workers, accepted, up>>

(* "make sure cancel occurs when no thread is working with sbuf"           *)
CancelLock == /\ \/ At("s_lock") /\ To("s_cancel")
                 \/ At("k_lock") /\ To("k_cancel")
              /\ mutex > 0 /\ mutex' = mutex - 1
              /\ UNCHANGED <<queue, slots, items, pool, workers, accepted, up>>

(* When it interrupts a resize, the handler meets threads that were never  *)
(* created or are joined already.  What pthread_cancel does for those is   *)
(* undefined: the process may end there, or go on.                         *)
Cancel == /\ \/ At("s_cancel") /\ To("s_unlock")
             \/ At("k_cancel") /\ To("k_unlock")
          /\ cancel' = [cancel EXCEPT ![main.i] = "asked"]
          /\ up' \in IF pc[main.i] = "none" THEN BOOLEAN ELSE {TRUE}
          /\ UNCHANGED <<sbuf, pool, pc, conn, accepted>>

CancelUnlock == /\ \/ At("s_unlock") /\ To("s_join")
                   \/ At("k_unlock") /\ To("k_join")
                /\ mutex' = mutex + 1
                /\ UNCHANGED <<queue, slots, items, pool, workers, accepted, up>>

(* Seeded bug: the pool is made smaller by one thread too few.             *)
BugShrinkJoin == /\ At("s_join") /\ pc[main.i] = "dead"
                 /\ pc' = [pc EXCEPT ![main.i] = "none"]
                 /\ IF main.i < n_threads
                    THEN main' = [at |-> "s_lock", i |-> main.i + 1] /\ UNCHANGED n_threads
                    ELSE main' = [at |-> "i_slots", i |-> 0] /\ n_threads' = n_threads \div 2 + 1
                 /\ UNCHANGED <<sbuf, n_busy, busy_mtx, conn, cancel, accepted, up>>

ShrinkJoin == /\ At("s_join") /\ pc[main.i] = "dead"
              /\ pc' = [pc EXCEPT ![main.i] = "none"]
              /\ IF main.i < n_threads
                 THEN main' = [at |-> "s_lock", i |-> main.i + 1] /\ UNCHANGED n_threads
                 ELSE main' = [at |-> "i_slots", i |-> 0] /\ n_threads' = n_threads \div 2
              /\ UNCHANGED <<sbuf, n_busy, busy_mtx, conn, cancel, accepted, up>>

(* sbuf_insert *)
InsertPSlots == /\ At("i_slots") /\ To("i_mutex")
                /\ slots > 0 /\ slots' = slots - 1
                /\ UNCHANGED <<queue, mutex, items, pool, workers, accepted, up>>

InsertLock == /\ At("i_mutex") /\ To("i_put")
              /\ mutex > 0 /\ mutex' = mutex - 1
              /\ UNCHANGED <<queue, slots, items, pool, workers, accepted, up>>

InsertPut == /\ At("i_put") /\ To("i_items")
             /\ queue' = Append(queue, accepted)
             /\ mutex' = mutex + 1
             /\ UNCHANGED <<slots, items, pool, workers, accepted, up>>

InsertVItems == /\ At("i_items") /\ To("accept")
                /\ items' = items + 1
                /\ UNCHANGED <<queue, mutex, slots, pool, workers, accepted, up>>

-----------------------------------------------------------------------------
(* sigint_handler interrupts main anywhere and never gives back control;   *)
(* SIGINT stays blocked in main while it runs (a second one would go to a  *)
(* worker, and is left out).  close_thread_pool cancels and joins every    *)
(* worker; free_cache and exit end the process.                            *)
Handling == main.at \in {"k_lock", "k_cancel", "k_unlock", "k_join"}

Interrupt == /\ up /\ ~Handling
             /\ main' = [at |-> "k_lock", i |-> 1]
             /\ UNCHANGED <<sbuf, pool, workers, accepted, up>>

CloseJoin == /\ At("k_join") /\ pc[main.i] \in {"dead", "none"}
             /\ pc' = [pc EXCEPT ![main.i] = "none"]
             /\ main' = [at |-> "k_lock", i |-> main.i + 1]
             /\ up' = (main.i < n_threads)
             /\ UNCHANGED <<sbuf, pool, conn, cancel, accepted>>

Main == \/ AskLock \/ Exhausted \/ Chilling \/ Expand \/ Create \/ Shrink
        \/ CancelLock \/ Cancel \/ CancelUnlock \/ ShrinkJoin
        \/ InsertPSlots \/ InsertLock \/ InsertPut \/ InsertVItems \/ CloseJoin

Next == Accept \/ Main \/ Interrupt \/ \E i \in Worker : Work(i)

Spec == Init /\ [][Next]_vars

(* main and each worker run on while they can; connections and SIGINT may  *)
(* never come, and a doit may never return.                                *)
FairSpec == Spec /\ WF_vars(Main) /\ \A i \in Worker : WF_vars(Runs(i))
-----------------------------------------------------------------------------
WorkerLabels == CancelPoints \cup {"none", "dead", "r_take", "r_slots", "b_in", "f_in"}
MainLabels == {"accept", "x_wait", "x_in", "h_wait", "h_in", "expand", "create", "shrink",
               "s_lock", "s_cancel", "s_unlock", "s_join", "i_slots", "i_mutex", "i_put",
               "i_items", "k_lock", "k_cancel", "k_unlock", "k_join"}
Resizing == main.at \in {"create", "s_lock", "s_cancel", "s_unlock", "s_join"}

(* The pool never outgrows tids, although expand compares with == only.    *)
TypeOK ==
  /\ queue \in Seq(1..MaxConns)
  /\ mutex \in 0..1 /\ busy_mtx \in 0..1
  /\ slots \in 0..SBUFSIZE /\ items \in 0..SBUFSIZE
  /\ n_threads \in 1..MAX_THREADS /\ n_busy \in Int
  /\ pc \in [Worker -> WorkerLabels]
  /\ conn \in [Worker -> 0..MaxConns]
  /\ cancel \in [Worker -> {"no", "asked", "due"}]
  /\ main \in [at : MainLabels, i : 0..MAX_THREADS + 1]
  /\ accepted \in 0..MaxConns /\ up \in BOOLEAN

(* Cancelling a worker never leaves the buffer's mutex or busy_mtx locked: *)
(* a semaphore that is taken has a living owner.  (SIGINT can make main an *)
(* owner that waits for itself; only the owner's place is looked at here.) *)
LocksHaveOwners ==
  ~Handling =>
    /\ mutex + Cardinality({i \in Worker : pc[i] = "r_take"})
             + (IF main.at \in {"i_put", "s_cancel", "s_unlock"} THEN 1 ELSE 0) = 1
    /\ busy_mtx + Cardinality({i \in Worker : pc[i] \in {"b_in", "f_in"}})
                + (IF main.at \in {"x_in", "h_in"} THEN 1 ELSE 0) = 1

(* tids[0..n_threads-1] are exactly the threads there are, whenever main   *)
(* is not in the middle of expand_thread_pool or shrink_thread_pool, and   *)
(* none of them has been told to end.                                      *)
PoolExact ==
  ~Handling /\ ~Resizing => /\ Created = 1..n_threads
                            /\ \A i \in Created : cancel[i] = "no" /\ pc[i] # "dead"

(* The pool main works with is the pool there is, within its bounds.       *)
PoolSafe == TypeOK /\ PoolExact

(* n_busy never counts fewer workers than are busy, so chilling never      *)
(* answers yes while one is.  (It can count more: see ItemsCounted.)       *)
Busy == {i \in Alive : pc[i] \in {"doit", "close", "f_wait", "f_in"}}
NeverUndercounts == Cardinality(Busy) <= n_busy

(* A connection has one place: it is once in the buffer, or with one       *)
(* worker; cancelling may lose it but hands it to nobody else.             *)
OneOwner ==
  /\ \A j, k \in DOMAIN queue : queue[j] = queue[k] => j = k
  /\ \A i, k \in Created : conn[i] # 0 /\ conn[i] = conn[k] => i = k
  /\ \A i \in Created, j \in DOMAIN queue : conn[i] # queue[j]

(* A pthread_join of a cancelled worker returns: main is not stopped by    *)
(* one that sleeps for a connection, a lock, or its client.                *)
JoinReturns ==
  \A i \in Worker : main = [at |-> "s_join", i |-> i] \/ main = [at |-> "k_join", i |-> i]
                      ~> pc[i] = "none" \/ ~up \/ main.at = "k_lock"

(* sbuf.h:12 "Counts available items", and tpool.c:24: the cancel occurs   *)
(* "when no thread is working with sbuf": every connection in the buffer   *)
(* is announced by items, about to be announced, or about to be taken.     *)
ItemsCounted ==
  ~Handling => items + Cardinality({i \in Alive : pc[i] \in {"r_mutex", "r_take"}})
                     + (IF main.at = "i_items" THEN 1 ELSE 0) = Len(queue)
=============================================================================
