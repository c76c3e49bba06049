---------------------------------- MODULE Mm ----------------------------------
(***************************************************************************)
(* The allocator of malloclab-handout/mm.c: blocks with boundary tags,     *)
(* segregated free lists by powers of two in order of address, best fit    *)
(* within a class, immediate coalescing, realloc in place where it can.    *)
(*                                                                         *)
(* The heap is an array of words of four bytes from mem_heap_lo, so WSIZE  *)
(* is 1 and DSIZE 2; a pointer is the offset of a word, 0 the null         *)
(* pointer.  Word 0 is padding, words 1 to N_LISTS are the list heads.     *)
(***************************************************************************)
EXTENDS Integers, Sequences, FiniteSets, FiniteSetsExt

CONSTANTS Indices,    \* the blocks of the driver's trace
          Requests,   \* sizes asked for
          N_LISTS,
          CHUNKSIZE,
          MAX_HEAP    \* of config.h

ASSUME MmAssumption ==
  /\ Indices \subseteq Nat /\ Requests \subseteq Nat
  /\ N_LISTS \in Nat /\ N_LISTS % 2 = 0 /\ N_LISTS > 0
  /\ CHUNKSIZE \in Nat /\ CHUNKSIZE >= 4 /\ CHUNKSIZE % 2 = 0
  /\ MAX_HEAP \in Nat /\ MAX_HEAP > N_LISTS + 4

VARIABLES mem,        \* the heap, 0..mem_brk-1, and whether exit(1) was called
          trace       \* the driver: block_sizes and blocks of each index

mmvars == <<mem, trace>>

Fresh == -1           \* a word of mem_sbrk nobody has written
Exited == -1          \* where mem says that the process has called exit(1)
Hi(m) == Cardinality(DOMAIN m) - 2   \* mem_heap_hi

MaxBlocks == MAX_HEAP \div 4

(* Words with a size, always even, and the allocated bit.                  *)
PACK(size, alloc) == size + alloc
GET_SIZE(m, p) == m[p] - (m[p] % 2)
GET_ALLOC(m, p) == m[p] % 2

HDRP(bp) == bp - 1
BlockSize(m, bp) == GET_SIZE(m, HDRP(bp))
FTRP(m, bp) == bp + BlockSize(m, bp) - 2
NEXT_BLKP(m, bp) == bp + BlockSize(m, bp)
PREV_BLKP(m, bp) == bp - GET_SIZE(m, bp - 2)
IsFree(m, bp) == GET_ALLOC(m, HDRP(bp)) = 0

(* PUT of the header and the footer.                                       *)
PutTags(m, bp, size, alloc) ==
  [m EXCEPT ![HDRP(bp)] = PACK(size, alloc), ![bp + size - 2] = PACK(size, alloc)]

(* pred and succ are the first two words of a free block.                  *)
GET_PRED(m, bp) == m[bp]
GET_SUCC(m, bp) == m[bp + 1]

(* msb_index of the size in bytes, an unsigned int; the highest list takes *)
(* all that is larger.                                                     *)
msb_index(x) == CHOOSE i \in 0..31 : 2^i <= x /\ (i < 31 => x < 2^(i + 1))
ClassOf(size) == Min({msb_index(4 * size), N_LISTS - 1})

(* A list from its head, as the loops over it walk it.                     *)
ListFrom(m, head) ==
  LET walk[k \in 1..MaxBlocks] ==
        IF k = 1 THEN head
        ELSE LET bp == walk[k - 1] IN IF bp = 0 THEN 0 ELSE GET_SUCC(m, bp)
      n == CHOOSE k \in 0..MaxBlocks :
             /\ \A j \in 1..k : walk[j] # 0
             /\ k < MaxBlocks => walk[k + 1] = 0
  IN  [k \in 1..n |-> walk[k]]

FreeList(m, class) == ListFrom(m, m[class])

-----------------------------------------------------------------------------
(* delete_from_free_list calls exit(1) when it is given a block in use or  *)
(* one whose list is empty.                                                *)
delete_from_free_list(m, bp) ==
  LET class == ClassOf(BlockSize(m, bp))
      pred == GET_PRED(m, bp)
      succ == GET_SUCC(m, bp)
  IN  IF ~IsFree(m, bp) \/ m[class] = 0 THEN [m EXCEPT ![Exited] = 1]
      ELSE IF pred = 0 THEN [m EXCEPT ![succ] = 0, ![class] = succ]
      ELSE IF succ = 0 THEN [m EXCEPT ![pred + 1] = 0]
      ELSE [m EXCEPT ![succ] = pred, ![pred + 1] = succ]

(* The block bp goes behind lesser, or to the head of the list if that is 0. *)
insert_after(m, class, lesser, bp) ==
  LET head == m[class]
      succ == GET_SUCC(m, lesser)
  IN  IF lesser = 0
      THEN [m EXCEPT ![head] = bp, ![bp] = 0, ![bp + 1] = head, ![class] = bp]
      ELSE IF succ = 0
      THEN [m EXCEPT ![lesser + 1] = bp, ![bp] = lesser, ![bp + 1] = 0]
      ELSE [m EXCEPT ![succ] = bp, ![lesser + 1] = bp, ![bp + 1] = succ, ![bp] = lesser]

(* It goes before the first block with a higher address.                   *)
insert_into_free_list(m, bp) ==
  LET class == ClassOf(BlockSize(m, bp))
      list == FreeList(m, class)
      higher == {k \in DOMAIN list : list[k] > bp}
  IN  IF m[class] = 0
      THEN [m EXCEPT ![bp] = 0, ![bp + 1] = 0, ![class] = bp]
      ELSE insert_after(m, class, IF higher = {} THEN list[Len(list)]
                                  ELSE GET_PRED(m, list[Min(higher)]), bp)

(* Seeded bug: a block before it that is free is not looked at.            *)
Bugcoalesce(m, bp) ==
  LET size == BlockSize(m, bp)
      next == NEXT_BLKP(m, bp)
  IN  IF ~IsFree(m, next) THEN [mem |-> m, ptr |-> bp]
      ELSE [mem |-> insert_into_free_list(
                      PutTags(delete_from_free_list(delete_from_free_list(m, bp), next),
                              bp, size + BlockSize(m, next), 0), bp),
            ptr |-> bp]

(* The free block bp, already on its list, is merged with its neighbours.  *)
coalesce(m, bp) ==
  LET prev == PREV_BLKP(m, bp)
      next == NEXT_BLKP(m, bp)
      before == GET_ALLOC(m, FTRP(m, prev)) = 0
      after == IsFree(m, next)
      size == BlockSize(m, bp) + (IF before THEN BlockSize(m, prev) ELSE 0)
                               + (IF after THEN BlockSize(m, next) ELSE 0)
      first == IF before THEN prev ELSE bp
      m1 == delete_from_free_list(m, bp)
      m2 == IF after THEN delete_from_free_list(m1, next) ELSE m1
      m3 == IF before THEN delete_from_free_list(m2, prev) ELSE m2
  IN  IF ~before /\ ~after THEN [mem |-> m, ptr |-> bp]
      ELSE [mem |-> insert_into_free_list(PutTags(m3, first, size, 0), first),
            ptr |-> first]

-----------------------------------------------------------------------------
EvenWords(words) == words + (words % 2)

(* mem_sbrk of an even number of words, at least a smallest block; the old *)
(* epilogue becomes the header.  ptr is 0 when there is no more memory.    *)
extend_heap(m, words) ==
  LET size == Max({EvenWords(words), 4})
      bp == Hi(m) + 1
      more == [a \in Exited..(bp + size - 1) |-> IF a < bp THEN m[a] ELSE Fresh]
      blk == [PutTags(more, bp, size, 0) EXCEPT ![HDRP(bp + size)] = PACK(0, 1)]
  IN  IF bp + size > MAX_HEAP THEN [mem |-> m, ptr |-> 0]
      ELSE coalesce(insert_into_free_list(blk, bp), bp)

Prologue == N_LISTS + 2   \* heap_listp

mm_init ==
  LET start == [a \in Exited..(N_LISTS + 3) |->
                  IF a \in {N_LISTS + 1, N_LISTS + 2} THEN PACK(2, 1)
                  ELSE IF a = N_LISTS + 3 THEN PACK(0, 1) ELSE 0]
  IN  extend_heap(start, CHUNKSIZE).mem

mm_free(m, bp) ==
  coalesce(insert_into_free_list(PutTags(m, bp, BlockSize(m, bp), 0), bp), bp).mem

(* The first of the smallest blocks that are large enough, in the lowest   *)
(* class that has one.                                                     *)
find_fit(m, asize) ==
  LET fits(class) == {k \in DOMAIN FreeList(m, class) :
                        BlockSize(m, FreeList(m, class)[k]) >= asize}
      classes == {c \in ClassOf(asize)..N_LISTS : m[c] # 0 /\ fits(c) # {}}
      list == FreeList(m, Min(classes))
      best == {k \in fits(Min(classes)) :
                 \A j \in fits(Min(classes)) : BlockSize(m, list[k]) <= BlockSize(m, list[j])}
  IN  IF classes = {} THEN 0 ELSE list[Min(best)]

(* Seeded bug: a rest of exactly a smallest block is not split off.        *)
BugSplit(m, bp, csize, asize) ==
  IF csize - asize > 4
  THEN LET rest == bp + asize IN
       insert_into_free_list(PutTags(PutTags(m, bp, asize, 1), rest, csize - asize, 0), rest)
  ELSE PutTags(m, bp, csize, 1)

(* The block at bp, off every list, of csize words is given asize of them; *)
(* what is left is a free block if it is large enough to be one.           *)
Split(m, bp, csize, asize) ==
  IF csize - asize >= 4
  THEN LET rest == bp + asize IN
       insert_into_free_list(PutTags(PutTags(m, bp, asize, 1), rest, csize - asize, 0), rest)
  ELSE PutTags(m, bp, csize, 1)

place(m, bp, asize) == Split(delete_from_free_list(m, bp), bp, BlockSize(m, bp), asize)

(* Header, footer and the alignment to two words.                          *)
Adjusted(size) == IF size <= 2 THEN 4 ELSE 2 * ((size + 2 + 1) \div 2)

(* What a heap r.mem with a free block at r.ptr, if any, gives the program. *)
placed(r, asize) == IF r.ptr = 0 THEN r
                    ELSE [mem |-> place(r.mem, r.ptr, asize), ptr |-> r.ptr]

(* size > 0                                                                *)
mm_malloc(m, size) ==
  LET asize == Adjusted(size)
      fit == find_fit(m, asize)
  IN  placed(IF fit # 0 THEN [mem |-> m, ptr |-> fit]
             ELSE extend_heap(m, Max({asize, CHUNKSIZE})), asize)

(* memcpy of n words.                                                      *)
Copy(m, to, from, n) ==
  [a \in DOMAIN m |-> IF a \in to..(to + n - 1) THEN m[from + (a - to)] ELSE m[a]]

(* Seeded bug: the old block is freed before it is copied.                 *)
BugMoved(m, new, ptr, size) ==
  LET copySize == Min({size, BlockSize(m, ptr) - 2})
  IN  IF new.ptr = 0 THEN new
      ELSE [mem |-> Copy(mm_free(new.mem, ptr), new.ptr, ptr, copySize), ptr |-> new.ptr]

(* A block of the heap m moves to a new one: malloc, copy, free.           *)
Moved(m, new, ptr, size) ==
  LET copySize == Min({size, BlockSize(m, ptr) - 2})
  IN  IF new.ptr = 0 THEN new
      ELSE [mem |-> mm_free(Copy(new.mem, new.ptr, ptr, copySize), ptr), ptr |-> new.ptr]

(* A block that shrinks stays where it is, and what it gives up is not     *)
(* merged with a free block behind it.                                     *)
Shrunk(m, ptr, size) ==
  IF BlockSize(m, ptr) - Adjusted(size) >= 4
  THEN Split(m, ptr, BlockSize(m, ptr), Adjusted(size)) ELSE m

(* Seeded bug: the free block behind it stays on its list.                 *)
BugGrown(m, ptr, size) ==
  LET next == NEXT_BLKP(m, ptr) IN
    Split(m, ptr, BlockSize(m, ptr) + BlockSize(m, next), Adjusted(size))

(* A block that grows takes the free block behind it.                      *)
Grown(m, ptr, size) ==
  LET next == NEXT_BLKP(m, ptr) IN
    Split(delete_from_free_list(m, next), ptr,
          BlockSize(m, ptr) + BlockSize(m, next), Adjusted(size))

(* Seeded bug: the header and the footer are not counted.                  *)
BugCanGrow(m, ptr, size) ==
  LET next == NEXT_BLKP(m, ptr) IN
    IsFree(m, next) /\ size - BlockSize(m, ptr) <= BlockSize(m, next)

(* The test of mm.c:601, unsigned: size + 8 is more than the old size.     *)
CanGrow(m, ptr, size) ==
  LET next == NEXT_BLKP(m, ptr) IN
    IsFree(m, next) /\ size - BlockSize(m, ptr) + 2 <= BlockSize(m, next)

(* ptr is a block in use.                                                  *)
mm_realloc(m, ptr, size) ==
  IF size = 0 THEN [mem |-> mm_free(m, ptr), ptr |-> 0]
  ELSE IF size <= BlockSize(m, ptr) - 2 THEN [mem |-> Shrunk(m, ptr, size), ptr |-> ptr]
  ELSE IF CanGrow(m, ptr, size) THEN [mem |-> Grown(m, ptr, size), ptr |-> ptr]
  ELSE Moved(m, mm_malloc(m, size), ptr, size)

-----------------------------------------------------------------------------
(* The driver (eval_mm_valid of mdriver.c) fills each block with the low   *)
(* byte of its index, words 1 to n.  In a block that was moved or resized  *)
(* the words it checks first are left as they are found.                   *)
Word(i, k) == -(100 * i + k + 1)
memset(m, i, p, from, to) ==
  [a \in DOMAIN m |-> IF a \in (p + from - 1)..(p + to - 1) THEN Word(i, a - p + 1)
                      ELSE m[a]]

(* The blocks one meets walking from the first one by their sizes.         *)
FirstBlock == N_LISTS + 4
Blocks(m) ==
  LET walk[k \in 1..MaxBlocks] ==
        IF k = 1 THEN FirstBlock
        ELSE LET bp == walk[k - 1] IN
             IF bp = 0 \/ bp > Hi(m) \/ BlockSize(m, bp) <= 0 THEN 0 ELSE NEXT_BLKP(m, bp)
  IN  {walk[k] : k \in 1..MaxBlocks} \cap FirstBlock..Hi(m)

FreeBlocks(m) == {bp \in Blocks(m) : IsFree(m, bp)}

(* What no line of mm.c or of the driver reads is forgotten: the words of a *)
(* free block besides its tags and pointers, and those of a block in use   *)
(* beyond what was asked for.                                              *)
Scrubbed(m, t) ==
  LET unread(bp) == IF IsFree(m, bp) THEN (bp + 2)..(FTRP(m, bp) - 1)
                    ELSE LET n == Min({t[i].size : i \in {j \in Indices : t[j].ptr = bp}})
                         IN  (bp + n)..(FTRP(m, bp) - 1)
      forgotten == UNION {unread(bp) : bp \in Blocks(m)}
  IN  [a \in DOMAIN m |-> IF a \in forgotten THEN Fresh ELSE m[a]]

NoTrace == [ptr |-> 0, size |-> 0]

MmInit == /\ mem = Scrubbed(mm_init, [i \in Indices |-> NoTrace])
          /\ trace = [i \in Indices |-> NoTrace]

Running == mem[Exited] = 0

(* The heap is m after the call, and the driver has n words at ptr.        *)
Called(i, m, ptr, n) ==
  /\ trace' = [trace EXCEPT ![i] = IF ptr = 0 THEN NoTrace ELSE [ptr |-> ptr, size |-> n]]
  /\ mem' = Scrubbed(m, trace')

Alloc(i, n) ==
  /\ Running /\ trace[i].ptr = 0 /\ n > 0
  /\ \E r \in {mm_malloc(mem, n)} :
       Called(i, IF r.ptr = 0 THEN mem ELSE memset(r.mem, i, r.ptr, 1, n), r.ptr, n)

Realloc(i, n) ==
  /\ Running /\ trace[i].ptr # 0
  /\ \E r \in {mm_realloc(mem, trace[i].ptr, n)} :
       IF n > 0 /\ r.ptr = 0 THEN UNCHANGED mmvars
       ELSE Called(i, memset(r.mem, i, r.ptr, trace[i].size + 1, n), r.ptr, n)

Free(i) == /\ Running /\ trace[i].ptr # 0
           /\ Called(i, mm_free(mem, trace[i].ptr), 0, 0)

MmNext == \E i \in Indices : \/ \E n \in Requests : Alloc(i, n) \/ Realloc(i, n)
                             \/ Free(i)

MmSpec == MmInit /\ [][MmNext]_mmvars
-----------------------------------------------------------------------------
(* The blocks cover the heap from the prologue to the epilogue, each with  *)
(* the same header and footer and room for the two pointers of a list; the *)
(* blocks in use are those the program holds.                              *)
HeapTiled ==
  /\ Running
  /\ mem[N_LISTS + 1] = PACK(2, 1) /\ mem[Prologue] = PACK(2, 1)
  /\ mem[Hi(mem)] = PACK(0, 1)
  /\ \A bp \in Blocks(mem) :
       /\ BlockSize(mem, bp) >= 4
       /\ NEXT_BLKP(mem, bp) \in Blocks(mem) \cup {Hi(mem) + 1}
       /\ mem[FTRP(mem, bp)] = mem[HDRP(bp)]
  /\ {trace[i].ptr : i \in Indices} \ {0} = Blocks(mem) \ FreeBlocks(mem)

(* Each free list holds exactly the free blocks of its class, in order of  *)
(* address, its predecessors the reverse of its successors.                *)
ListsExact ==
  \A class \in 1..N_LISTS :
    LET list == FreeList(mem, class) IN
      /\ {list[k] : k \in DOMAIN list}
           = {bp \in FreeBlocks(mem) : ClassOf(BlockSize(mem, bp)) = class}
      /\ \A k \in DOMAIN list :
           /\ GET_PRED(mem, list[k]) = IF k = 1 THEN 0 ELSE list[k - 1]
           /\ k > 1 => list[k - 1] < list[k]

(* No sequence of calls breaks the heap or the lists through it.           *)
HeapSafe == HeapTiled /\ ListsExact

(* Whatever calls a block has come through, it is large enough for the     *)
(* last request and less than a smallest block larger than it need be.     *)
NoWaste ==
  \A i \in Indices : trace[i].ptr # 0 =>
    BlockSize(mem, trace[i].ptr) - Adjusted(trace[i].size) \in {0, 2}

(* Two free blocks that touch come from a realloc that shrinks a block in  *)
(* place, and from nothing else: no other call adds such a pair.           *)
FreePairs(m) == Cardinality({bp \in FreeBlocks(m) : NEXT_BLKP(m, bp) \in FreeBlocks(m)})
OnlyShrinkLeavesPairs ==
  [][FreePairs(mem') > FreePairs(mem) =>
       /\ FreePairs(mem') = FreePairs(mem) + 1
       /\ \E i \in Indices : /\ trace'[i].ptr = trace[i].ptr
                            /\ trace'[i].size < trace[i].size]_mmvars

(* The allocator keeps its promise to the program.                         *)
Held(i) == [ptr |-> trace[i].ptr,
            data |-> [k \in 1..trace[i].size |-> mem[trace[i].ptr + k - 1]]]
Promise == INSTANCE Allocator WITH Fill <- Word, blocks <- [i \in Indices |-> Held(i)]
ImplementsAllocator == Promise!Spec
=============================================================================
