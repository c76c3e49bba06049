------------------------------- MODULE Cache --------------------------------
(***************************************************************************)
(* The object cache of proxylab-handout/cache.c, shared by the threads of  *)
(* the proxy: a readers-writers lock with preference for readers (readcnt, *)
(* mutex, w) around an array of entries evicted by their touch count.      *)
(*                                                                         *)
(* pc labels: r_* inside read_cache_entry, w_* inside write_cache_entry.   *)
(* The array is a sequence of length n_entries; index 0 of the code is 1.  *)
(***************************************************************************)
EXTENDS Integers, Sequences, FiniteSets, FiniteSetsExt, Sums

CONSTANTS Workers,     \* the threads of the pool
          Keys,        \* request lines
          Sizes,       \* sizes of responses
          MaxCache,    \* MAX_CACHE_SIZE
          MaxObject,   \* MAX_OBJECT_SIZE
          Null,        \* the NULL pointer
          MaxCalls     \* bound: calls of the two functions, which bounds touched

(* An entry of the array; Null is no entry.                               *)
EntryType == [key : Keys, size : Nat, touched : Nat]

ASSUME CacheAssumption ==
  /\ IsFiniteSet(Workers)
  /\ Sizes \subseteq Nat
  /\ Null \notin Keys \cup EntryType
  /\ MaxObject \in Nat /\ MaxCache \in Nat
  /\ MaxObject <= MaxCache
  /\ MaxCalls \in Nat

VARIABLES entries,     \* cache->entries[0..n_entries-1], Null for a freed slot
          total,       \* cache->total_size
          readcnt, mutex, w,
          pc,
          key, size,   \* the arguments of each worker's call
          toucher,     \* increase_touch of each worker
          found,       \* the index whose entry a reader copies, 0 for a miss
          calls

store == <<entries, total>>
lock == <<readcnt, mutex, w>>
local == <<key, size, toucher, found>>
vars == <<entries, total, readcnt, mutex, w, pc, key, size, toucher, found, calls>>

Goto(t, from, to) == pc[t] = from /\ pc' = [pc EXCEPT ![t] = to]

Slots == DOMAIN entries
Used == {i \in Slots : entries[i] # Null}
Entry(k, s, n) == [key |-> k, size |-> s, touched |-> n]

Init == /\ entries = <<>> /\ total = 0
        /\ readcnt = 0 /\ mutex = 1 /\ w = 1
        /\ pc = [t \in Workers |-> "idle"]
        /\ key = [t \in Workers |-> Null]
        /\ size = [t \in Workers |-> 0]
        /\ toucher = [t \in Workers |-> FALSE]
        /\ found = [t \in Workers |-> 0]
        /\ calls = 0

-----------------------------------------------------------------------------
(* read_cache_entry.  The arguments and locals of a call are forgotten when *)
(* it returns.                                                             *)

ReadCall(t) == /\ calls < MaxCalls
               /\ Goto(t, "idle", "r_enter")
               /\ calls' = calls + 1
               /\ \E k \in Keys : key' = [key EXCEPT ![t] = k]
               /\ UNCHANGED <<store, lock, size, toucher, found>>

(* Seeded bug: the mutex is forgotten while readcnt changes.               *)
BugReadP(t, from, to) == /\ Goto(t, from, to)
                         /\ mutex' = 0
                         /\ UNCHANGED <<store, readcnt, w, local, calls>>

(* P(mutex), on the way in and on the way out.                             *)
ReadP(t, from, to) == /\ Goto(t, from, to)
                      /\ mutex > 0
                      /\ mutex' = mutex - 1
                      /\ UNCHANGED <<store, readcnt, w, local, calls>>

ReadCount(t) == /\ Goto(t, "r_count", IF readcnt + 1 = 1 THEN "r_first" ELSE "r_in")
                /\ readcnt' = readcnt + 1
                /\ UNCHANGED <<store, mutex, w, local, calls>>

(* The first reader in takes w for all of them, with the mutex held.       *)
ReadFirst(t) == /\ Goto(t, "r_first", "r_in")
                /\ w > 0
                /\ w' = w - 1
                /\ toucher' = [toucher EXCEPT ![t] = TRUE]
                /\ UNCHANGED <<store, readcnt, mutex, key, size, found, calls>>

ReadV(t) == /\ Goto(t, "r_in", "r_search")
            /\ mutex' = mutex + 1
            /\ UNCHANGED <<store, readcnt, w, local, calls>>

(* Seeded bug: the last reader keeps w.                                    *)
BugKeepW(t) == /\ Goto(t, "r_uncount", "r_out")
               /\ readcnt' = readcnt - 1
               /\ UNCHANGED <<store, mutex, w, local, calls>>

(* The search, and the touch of the entry by the reader that took w.       *)
Hits(k) == {i \in Used : entries[i].key = k}

ReadSearch(t) ==
  LET hit == IF Hits(key[t]) = {} THEN 0 ELSE Min(Hits(key[t]))
  IN  /\ Goto(t, "r_search", IF hit = 0 THEN "r_leave" ELSE "r_copy")
      /\ found' = [found EXCEPT ![t] = hit]
      /\ entries' = IF hit # 0 /\ toucher[t]
                    THEN [entries EXCEPT ![hit].touched = @ + 1] ELSE entries
      /\ UNCHANGED <<total, lock, key, size, toucher, calls>>

(* The data and the size of the entry found are copied for the caller.     *)
ReadCopy(t) == /\ Goto(t, "r_copy", "r_leave")
               /\ UNCHANGED <<store, lock, local, calls>>

(* The last reader out gives w back.                                       *)
ReadUncount(t) == /\ Goto(t, "r_uncount", "r_out")
                  /\ readcnt' = readcnt - 1
                  /\ w' = IF readcnt - 1 = 0 THEN w + 1 ELSE w
                  /\ UNCHANGED <<store, mutex, local, calls>>

ReadReturn(t) == /\ Goto(t, "r_out", "idle")
                 /\ mutex' = mutex + 1
                 /\ key' = [key EXCEPT ![t] = Null]
                 /\ found' = [found EXCEPT ![t] = 0]
                 /\ toucher' = [toucher EXCEPT ![t] = FALSE]
                 /\ UNCHANGED <<store, readcnt, w, size, calls>>

Read(t) == \/ ReadP(t, "r_enter", "r_count") \/ ReadCount(t) \/ ReadFirst(t)
           \/ ReadV(t) \/ ReadSearch(t) \/ ReadCopy(t)
           \/ ReadP(t, "r_leave", "r_uncount") \/ ReadUncount(t)
           \/ ReadReturn(t)

-----------------------------------------------------------------------------
(* write_cache_entry *)

(* Seeded bug: the size is not compared with MAX_OBJECT_SIZE.              *)
BugWriteCall(t) == /\ calls < MaxCalls
                   /\ calls' = calls + 1
                   /\ \E k \in Keys, s \in Sizes :
                        /\ Goto(t, "idle", "w_enter")
                        /\ key' = [key EXCEPT ![t] = k]
                        /\ size' = [size EXCEPT ![t] = s]
                   /\ UNCHANGED <<store, lock, toucher, found>>

(* A response larger than MAX_OBJECT_SIZE is not kept.                     *)
WriteCall(t) ==
  /\ calls < MaxCalls
  /\ calls' = calls + 1
  /\ \/ \E s \in Sizes : s > MaxObject /\ pc[t] = "idle" /\ UNCHANGED <<pc, key, size>>
     \/ \E k \in Keys, s \in Sizes :
          /\ s <= MaxObject
          /\ Goto(t, "idle", "w_enter")
          /\ key' = [key EXCEPT ![t] = k]
          /\ size' = [size EXCEPT ![t] = s]
  /\ UNCHANGED <<store, lock, toucher, found>>

(* Seeded bug: the writer does not wait for w.                             *)
BugWriteP(t) == /\ Goto(t, "w_enter", "w_fit")
                /\ w' = 0
                /\ UNCHANGED <<store, readcnt, mutex, local, calls>>

WriteP(t) == /\ Goto(t, "w_enter", "w_fit")
             /\ w > 0
             /\ w' = w - 1
             /\ UNCHANGED <<store, readcnt, mutex, local, calls>>

Fits(t) == total + size[t] <= MaxCache

(* evict_cache_entry_: the first of the least touched entries goes.  Only  *)
(* a freed last slot shortens the array.                                   *)
LeastTouched == {i \in Used : \A j \in Used : entries[i].touched <= entries[j].touched}
Victim == Min(LeastTouched)

(* With nothing to evict the call returns and the loop calls it again.     *)
Evict(t) == /\ pc[t] = "w_fit" /\ ~Fits(t)
            /\ entries' = IF Used = {} THEN entries
                          ELSE IF Victim = Len(entries)
                          THEN SubSeq(entries, 1, Victim - 1)
                          ELSE [entries EXCEPT ![Victim] = Null]
            /\ total' = IF Used = {} THEN total ELSE total - entries[Victim].size
            /\ UNCHANGED <<lock, pc, local, calls>>

(* The new entry takes the first freed slot, or a new one at the end.      *)
Place(t) == /\ Goto(t, "w_fit", "w_total") /\ Fits(t)
            /\ LET new == Entry(key[t], size[t], 1)
                   free == Slots \ Used
               IN  entries' = IF free # {} THEN [entries EXCEPT ![Min(free)] = new]
                              ELSE Append(entries, new)
            /\ UNCHANGED <<total, lock, local, calls>>

(* Seeded bug: total_size forgets what it held.                            *)
BugAddSize(t) == /\ Goto(t, "w_total", "w_leave")
                 /\ total' = size[t]
                 /\ UNCHANGED <<entries, lock, local, calls>>

AddSize(t) == /\ Goto(t, "w_total", "w_leave")
              /\ total' = total + size[t]
              /\ UNCHANGED <<entries, lock, local, calls>>

WriteV(t) == /\ Goto(t, "w_leave", "idle")
             /\ w' = w + 1
             /\ key' = [key EXCEPT ![t] = Null]
             /\ size' = [size EXCEPT ![t] = 0]
             /\ UNCHANGED <<store, readcnt, mutex, toucher, found, calls>>

Write(t) == \/ WriteP(t) \/ Evict(t) \/ Place(t) \/ AddSize(t) \/ WriteV(t)

-----------------------------------------------------------------------------
Next == \E t \in Workers : ReadCall(t) \/ Read(t) \/ WriteCall(t) \/ Write(t)

Spec == Init /\ [][Next]_vars

(* A worker inside a call runs on while it can; semaphores promise no order.*)
FairSpec == Spec /\ \A t \in Workers : WF_vars(Read(t)) /\ WF_vars(Write(t))
-----------------------------------------------------------------------------
ReadLabels == {"r_enter", "r_count", "r_first", "r_in", "r_search", "r_copy",
               "r_leave", "r_uncount", "r_out"}
WriteLabels == {"w_enter", "w_fit", "w_total", "w_leave"}

At(L) == {t \in Workers : pc[t] \in L}

(* Who holds the mutex, who is counted by readcnt, who reads, who writes.  *)
Locking == {"r_count", "r_first", "r_in", "r_uncount", "r_out"}
Counted == {"r_first", "r_in", "r_search", "r_copy", "r_leave", "r_uncount"}
Reading == Counted \ {"r_first"}
Writing == {"w_fit", "w_total", "w_leave"}

TypeOK ==
  /\ entries \in Seq(EntryType \cup {Null})
  /\ total \in Nat
  /\ readcnt \in Nat /\ mutex \in Nat /\ w \in Nat
  /\ pc \in [Workers -> {"idle"} \cup ReadLabels \cup WriteLabels]
  /\ key \in [Workers -> Keys \cup {Null}]
  /\ size \in [Workers -> Sizes \cup {0}]
  /\ toucher \in [Workers -> BOOLEAN]
  /\ found \in [Workers -> Nat]
  /\ calls \in Nat

(* The lock of cache.c:21-27, 48-52, 64 and 99 does what it is there for:  *)
(* a thread that changes the entries is alone with them.                   *)
RWExclusion ==
  \A t, u \in Workers :
    pc[t] \in Writing /\ pc[u] \in Reading \cup Writing => t = u

(* Why it does: the mutex and w are taken exactly while somebody holds     *)
(* them, and readcnt is the number of readers between its two updates.     *)
LockInv ==
  /\ \A t, u \in Workers : pc[t] \in Locking /\ pc[u] \in Locking => t = u
  /\ mutex = IF At(Locking) = {} THEN 1 ELSE 0
  /\ readcnt = Cardinality(At(Counted))
  /\ w = IF At(Reading \cup Writing) = {} THEN 1 ELSE 0
  /\ At({"r_first"}) # {} => At(Reading) = {}

(* touched++ at cache.c:39 runs outside the mutex; it is no lost update    *)
(* because of all readers inside only the one that took w does it.         *)
OneToucher ==
  \A t, u \in Workers :
    /\ pc[t] \in Reading /\ toucher[t]
    /\ pc[u] \in Reading /\ toucher[u]
    => t = u

(* The three together: however calls overlap, readers and writers keep out *)
(* of one another's way.                                                   *)
LockSafe == RWExclusion /\ LockInv /\ OneToucher

(* Seen from outside it is a readers-writers lock: readers are inside from *)
(* V(mutex) to the end of their copying, the writer from P(w) to the last  *)
(* update of total_size.                                                   *)
Lock == INSTANCE RWLock WITH Readers <- Workers, Writers <- Workers,
                             reading <- At({"r_search", "r_copy"}),
                             writing <- At({"w_fit", "w_total"})
ImplementsLock == Lock!Spec

(* total_size is the size of what is cached, and within MAX_CACHE_SIZE,    *)
(* whenever no writer is between its two updates.                          *)
SizeAt == [i \in Slots |-> IF i \in Used THEN entries[i].size ELSE 0]
Stored == SumTo(SizeAt, Len(entries))
SizeExact ==
  /\ TypeOK
  /\ At({"w_total"}) = {} => total = Stored /\ total <= MaxCache

(* The entry a reader found is still there, for the same request, when the *)
(* reader copies its data: it has not been evicted and freed meanwhile.    *)
CopySafe ==
  \A t \in Workers : pc[t] = "r_copy" =>
    found[t] \in Used /\ entries[found[t]].key = key[t]

(* The loop of cache.c:68 always finds something to evict while the new    *)
(* object does not fit, so it ends.                                        *)
EvictFinds ==
  \A t \in Workers : pc[t] = "w_fit" /\ ~Fits(t) => Used # {}

(* When no new requests come, every call of the cache returns.             *)
CallsReturn == \A t \in Workers : pc[t] # "idle" ~> pc[t] = "idle"
=============================================================================
