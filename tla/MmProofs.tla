------------------------------- MODULE MmProofs -------------------------------
(***************************************************************************)
(* Theorems about the allocator of mm.c, Mm: its heap and its free lists   *)
(* are in order whatever the program calls, free blocks touch only where   *)
(* realloc has shrunk one in place, and it does what Allocator promises,   *)
(* for any number of lists and any CHUNKSIZE and MAX_HEAP.                 *)
(***************************************************************************)
EXTENDS Mm, Counting, TLAPS

(* Sizes and addresses of blocks are even numbers of words.                *)
Even(x) == x \in Nat /\ x % 2 = 0

(* Sums and differences of even numbers are even, and two of them that     *)
(* differ, differ by two at least.                                         *)
LEMMA EvenNumbers ==
  ASSUME NEW x, NEW y, Even(x), Even(y)
  PROVE  /\ Even(x + y)
         /\ x <= y => Even(y - x)
         /\ x < y => x + 2 <= y
<1>1. x \in Nat /\ y \in Nat /\ x % 2 = 0 /\ y % 2 = 0
  BY DEF Even
<1>2. (x + y) % 2 = 0
  BY <1>1
<1>3. x <= y => (y - x) % 2 = 0
  BY <1>1
<1>4. x < y => x + 2 <= y
  BY <1>1
<1> QED
  BY <1>1, <1>2, <1>3, <1>4 DEF Even

(* A tag word holds an even size and the allocated bit.                    *)
LEMMA TagWord ==
  ASSUME NEW m, NEW p, NEW size, Even(size), NEW alloc \in {0, 1},
         m[p] = PACK(size, alloc)
  PROVE  GET_SIZE(m, p) = size /\ GET_ALLOC(m, p) = alloc
<1>1. m[p] = size + alloc /\ size \in Nat /\ size % 2 = 0
  BY DEF PACK, Even
<1>2. (size + alloc) % 2 = alloc
  BY <1>1
<1> QED
  BY <1>1, <1>2 DEF GET_SIZE, GET_ALLOC

(* The smallest numbers of sets, as FiniteSetsExt finds them.              *)
LEMMA MinIs ==
  ASSUME NEW T, T \subseteq Nat, T # {}
  PROVE  Min(T) \in T /\ \A y \in T : Min(T) <= y
BY LeastChosen DEF Min

(* Min of the code is the smaller of its two arguments.                    *)
LEMMA MinOfTwo ==
  ASSUME NEW x \in Nat, NEW y \in Nat
  PROVE  Min({x, y}) = IF x <= y THEN x ELSE y
<1> DEFINE T == {x, y}
<1>1. T \subseteq Nat /\ T # {} /\ x \in T /\ y \in T
  OBVIOUS
<1>2. Min(T) = x \/ Min(T) = y
  <2> HIDE DEF T
  <2>1. Min(T) \in T
    BY <1>1, MinIs
  <2> QED
    BY <2>1 DEF T
<1>3. Min(T) <= x /\ Min(T) <= y
  <2> HIDE DEF T
  <2> QED
    BY <1>1, MinIs
<1> QED
  BY <1>2, <1>3

(* Max of the code is the larger of its two arguments.                     *)
LEMMA MaxOfTwo ==
  ASSUME NEW x \in Nat, NEW y \in Nat
  PROVE  Max({x, y}) = IF x >= y THEN x ELSE y
<1> DEFINE T == {x, y}
           top(z) == z \in T /\ \A w \in T : z >= w
<1>1. \E z \in T : \A w \in T : z >= w
  BY DEF T
<1>2. Max(T) = CHOOSE z \in T : \A w \in T : z >= w
  BY DEF Max
<1>3. Max(T) \in T /\ \A w \in T : Max(T) >= w
  <2> HIDE DEF T
  <2> QED
    BY <1>1, <1>2, Zenon
<1> QED
  BY <1>3

(* Bounded sets have a greatest element.                                   *)
LEMMA Greatest ==
  ASSUME NEW n \in Nat, NEW T, T \subseteq 0..n, T # {}
  PROVE  \E x \in T : \A y \in T : y <= x
<1>1. IsFiniteSet(T)
  <2>1. IsFiniteSet(0..n)
    BY FS_Interval
  <2> QED
    BY <2>1, FS_Subset
<1>2. T \subseteq Nat
  OBVIOUS
<1> QED
  BY <1>1, <1>2, HasMax

(* Every block of four words or more has a list of its own to go to.       *)
LEMMA Classes ==
  ASSUME NEW size \in Nat, size >= 4
  PROVE  ClassOf(size) \in 1..(N_LISTS - 1)
<1> DEFINE x == 4 * size
           msb(i) == 2^i <= x /\ (i < 31 => x < 2^(i + 1))
<1>0. x \in Nat /\ x >= 16
  OBVIOUS
<1>1. 2^0 = 1 /\ 2^1 = 2
  <2>1. Cardinality(SUBSET {}) = 2^Cardinality({}) /\ Cardinality(SUBSET {1}) = 2^Cardinality({1})
    BY FS_EmptySet, FS_Singleton, FS_SUBSET
  <2>2. SUBSET {} = {{}} /\ SUBSET {1} = {{}, {1}}
    OBVIOUS
  <2>3. Cardinality({}) = 0 /\ Cardinality({1}) = 1 /\ Cardinality({{}}) = 1
    BY FS_EmptySet, FS_Singleton
  <2>4. Cardinality({{}, {1}}) = 2
    <3>1. {{}, {1}} = {{}} \cup {{1}} /\ {1} \notin {{}}
      OBVIOUS
    <3>2. IsFiniteSet({{}})
      BY FS_Singleton
    <3>3. Cardinality({{}} \cup {{1}}) = Cardinality({{}}) + 1
      BY <3>1, <3>2, FS_AddElement
    <3> QED
      BY <3>1, <3>3, <2>3
  <2> QED
    BY <2>1, <2>2, <2>3, <2>4
<1>2. \A i \in 0..31 : 2^i \in Nat
  <2> TAKE i \in 0..31
  <2>1. i \in Nat /\ IsFiniteSet(1..i) /\ Cardinality(1..i) = i
    BY FS_Interval
  <2>2. Cardinality(SUBSET (1..i)) = 2^i /\ Cardinality(SUBSET (1..i)) \in Nat
    BY <2>1, FS_SUBSET, FS_CardinalityType
  <2> QED
    BY <2>2
<1> HIDE DEF x
<1>3. \E i \in 0..31 : msb(i)
  <2> DEFINE T == {i \in 0..31 : 2^i <= x}
  <2>1. T # {} /\ T \subseteq 0..31
    <3>1. 2^0 <= x /\ 0 \in 0..31
      BY <1>0, <1>1
    <3>2. 0 \in T
      BY <3>1, Zenon
    <3>3. T \subseteq 0..31
      BY Zenon
    <3> QED
      BY <3>2, <3>3, Zenon
  <2>2. PICK i \in T : \A j \in T : j <= i
    <3> HIDE DEF T
    <3> QED
      BY <2>1, Greatest
  <2>3. i < 31 => i + 1 \in 0..31 /\ i + 1 \notin T
    BY <2>2
  <2> QED
    BY <2>2, <2>3, <1>2, <1>0
<1>4. PICK i \in 0..31 : i = msb_index(x) /\ msb(i)
  <2>1. msb_index(x) = CHOOSE i \in 0..31 : msb(i)
    BY DEF msb_index
  <2> HIDE DEF msb
  <2> QED
    BY <2>1, <1>3, Zenon
<1>5. i >= 1
  <2>1. i = 0 => x < 2^1
    BY <1>4
  <2> QED
    BY <2>1, <1>0, <1>1
<1>6. ClassOf(size) = IF i <= N_LISTS - 1 THEN i ELSE N_LISTS - 1
  <2>1. N_LISTS - 1 \in Nat
    BY MmAssumption
  <2> QED
    BY <2>1, <1>4, MinOfTwo DEF ClassOf, x
<1>7. N_LISTS \in Nat /\ N_LISTS >= 2
  BY MmAssumption
<1> QED
  BY <1>5, <1>6, <1>7

-----------------------------------------------------------------------------
(* Walks.  y is the element of S next to x, or there is none.              *)
NextIn(S, x, y) == \/ /\ y \in S /\ x < y
                      /\ \A z \in S : z > x => z >= y
                   \/ /\ y \notin S
                      /\ \A z \in S : z <= x

(* The addresses of S are four words apart, in a heap of MAX_HEAP words.   *)
Apart(S) == /\ S \subseteq Nat
            /\ \A x \in S : 4 < x /\ x + 4 <= MAX_HEAP
            /\ \A x, y \in S : x < y => x + 4 <= y

(* w visits S in ascending order.                                          *)
Visits(w, S) == /\ NextIn(S, 0, w[1])
                /\ \A k \in 1..(MaxBlocks - 1) :
                     /\ w[k] \in S => NextIn(S, w[k], w[k + 1])
                     /\ w[k] \notin S => w[k + 1] \notin S

(* MaxBlocks bounds how many blocks of four words fit into the heap.       *)
LEMMA MaxBlocksType ==
  /\ MaxBlocks \in Nat /\ MaxBlocks >= 1
  /\ \A k \in Nat : 4 * k <= MAX_HEAP => k <= MaxBlocks
<1>1. MAX_HEAP \in Nat /\ MAX_HEAP > 6
  BY MmAssumption
<1>2. MAX_HEAP \div 4 \in Nat /\ MAX_HEAP \div 4 >= 1
  BY <1>1
<1>3. \A k \in Nat : 4 * k <= MAX_HEAP => k <= MAX_HEAP \div 4
  BY <1>1
<1> QED
  BY <1>2, <1>3 DEF MaxBlocks

(* A visit has met every element of S before its last step, in order.      *)
LEMMA VisitsInOrder ==
  ASSUME NEW S, Apart(S), NEW w, Visits(w, S), NEW k \in 1..MaxBlocks, w[k] \in S
  PROVE  /\ w[k] >= 4 * k
         /\ k < MaxBlocks
         /\ k > 1 => w[k - 1] \in S /\ w[k - 1] < w[k] /\ NextIn(S, w[k - 1], w[k])
<1> DEFINE Fails == {j \in 1..MaxBlocks : w[j] \in S /\ ~(w[j] >= 4 * j)}
<1>0. MaxBlocks \in Nat /\ S \subseteq Nat
  BY MaxBlocksType DEF Apart
<1>1. ASSUME NEW j \in 1..MaxBlocks, j > 1, w[j] \in S
      PROVE  /\ j - 1 \in 1..(MaxBlocks - 1) /\ w[j - 1] \in S /\ w[j - 1] < w[j]
             /\ NextIn(S, w[j - 1], w[j])
  <2>1. j - 1 \in 1..(MaxBlocks - 1) /\ (j - 1) + 1 = j
    BY <1>0, <1>1
  <2>2. w[j - 1] \in S /\ NextIn(S, w[j - 1], w[j])
    BY <2>1, <1>1 DEF Visits
  <2> QED
    BY <2>1, <2>2, <1>1 DEF NextIn
<1>2. Fails = {}
  <2> SUFFICES ASSUME Fails # {} PROVE FALSE
    OBVIOUS
  <2>1. Fails \subseteq Nat
    <3>1. Fails \subseteq 1..MaxBlocks
      BY Zenon
    <3> HIDE DEF Fails
    <3> QED
      BY <3>1, <1>0
  <2>2. PICK j \in Fails : \A i \in Fails : j <= i
    <3> HIDE DEF Fails
    <3> QED
      BY <2>1, LeastNumber
  <2>3. j \in 1..MaxBlocks /\ w[j] \in S /\ w[j] \in Nat /\ w[j] > 4 /\ ~(w[j] >= 4 * j)
    BY <1>0 DEF Apart
  <2>4. j > 1
    BY <2>3
  <2>5. w[j - 1] \in S /\ w[j - 1] < w[j] /\ j - 1 \in 1..MaxBlocks /\ w[j - 1] \in Nat
    <3>1. w[j - 1] \in S /\ w[j - 1] < w[j]
      BY <2>3, <2>4, <1>1, Zenon
    <3>2. j - 1 \in 1..MaxBlocks
      BY <2>3, <2>4, <1>0
    <3> QED
      BY <3>1, <3>2, <1>0
  <2>6. w[j - 1] >= 4 * (j - 1)
    <3>1. j - 1 \notin Fails
      <4> HIDE DEF Fails
      <4> QED
        BY <2>2, <2>3
    <3> QED
      BY <3>1, <2>5
  <2>7. w[j - 1] + 4 <= w[j]
    BY <2>5, <2>3 DEF Apart
  <2> QED
    BY <2>3, <2>5, <2>6, <2>7
<1>3. w[k] >= 4 * k
  BY <1>2
<1>4. w[k] + 4 <= MAX_HEAP /\ w[k] \in Nat /\ k + 1 \in Nat
  <2>1. w[k] + 4 <= MAX_HEAP /\ w[k] \in Nat
    BY DEF Apart
  <2> QED
    BY <2>1, <1>0
<1>5. k + 1 <= MaxBlocks
  <2>1. 4 * (k + 1) <= MAX_HEAP
    BY <1>3, <1>4, MmAssumption
  <2> QED
    BY <2>1, <1>4, MaxBlocksType
<1> QED
  BY <1>0, <1>1, <1>3, <1>5

(* Nothing is left out.                                                    *)
LEMMA VisitsAll ==
  ASSUME NEW S, Apart(S), NEW w, Visits(w, S), NEW x \in S
  PROVE  \E k \in 1..MaxBlocks : w[k] = x
<1> DEFINE Missed == {y \in S : \A k \in 1..MaxBlocks : w[k] # y}
<1> SUFFICES ASSUME Missed # {} PROVE FALSE
  OBVIOUS
<1>0. S \subseteq Nat /\ MaxBlocks \in Nat /\ MaxBlocks >= 1
  BY MaxBlocksType DEF Apart
<1>1. PICK y \in Missed : \A z \in Missed : y <= z
  <2>1. Missed \subseteq Nat
    BY <1>0
  <2> HIDE DEF Missed
  <2> QED
    BY <2>1, LeastNumber
<1>2. y \in S /\ y \in Nat /\ y > 4 /\ \A k \in 1..MaxBlocks : w[k] # y
  BY <1>0 DEF Apart
<1>3. \A z \in S : z < y => \E k \in 1..MaxBlocks : w[k] = z
  BY <1>0, <1>1, <1>2
<1>4. w[1] \in S /\ w[1] <= y
  BY <1>0, <1>2 DEF Visits, NextIn
<1>5. w[1] # y
  BY <1>0, <1>2
<1> DEFINE Low == {z \in S : z < y}
<1>6. Low # {} /\ Low \subseteq 0..y
  <2>1. w[1] \in Nat /\ w[1] < y
    <3>1. w[1] \in Nat
      BY <1>0, <1>4, Zenon
    <3> QED
      BY <3>1, <1>2, <1>4, <1>5
  <2>2. w[1] \in Low
    BY <2>1, <1>4
  <2>3. \A z \in Low : z \in 0..y
    BY <1>0, <1>2
  <2> HIDE DEF Low
  <2> QED
    BY <2>2, <2>3
<1>7. PICK z \in Low : \A u \in Low : u <= z
  <2> HIDE DEF Low
  <2> QED
    BY <1>2, <1>6, Greatest
<1>8. z \in S /\ z < y /\ \A u \in S : u < y => u <= z
  BY <1>7
<1>9. PICK k \in 1..MaxBlocks : w[k] = z
  BY <1>3, <1>8
<1>10. k < MaxBlocks
  BY <1>8, <1>9, VisitsInOrder
<1>11. NextIn(S, z, w[k + 1])
  BY <1>0, <1>8, <1>9, <1>10 DEF Visits
<1>12. w[k + 1] \in S /\ w[k + 1] > z /\ w[k + 1] <= y
  BY <1>0, <1>2, <1>8, <1>11 DEF NextIn
<1>13. w[k + 1] # y
  BY <1>0, <1>2, <1>10
<1>14. w[k + 1] \in Nat /\ z \in Nat
  BY <1>0, <1>8, <1>12
<1>15. w[k + 1] < y
  BY <1>2, <1>12, <1>13, <1>14
<1>16. w[k + 1] <= z
  BY <1>8, <1>12, <1>15
<1> QED
  BY <1>12, <1>14, <1>16

(* The walks of Mm: next takes from one word to another.                   *)
Walking(w, n, first, next) ==
  w = [k \in 1..n |-> IF k = 1 THEN first ELSE next[w[k - 1]]]

(* The functions that walk a list or the heap, ListFrom and Blocks, have a *)
(* value at every step.                                                    *)
LEMMA WalkExists ==
  ASSUME NEW n \in Nat, NEW first, NEW next
  PROVE  \E w : Walking(w, n, first, next)
<1> DEFINE Fails == {m \in 0..n : ~\E w : Walking(w, m, first, next)}
<1> SUFFICES ASSUME n \in Fails PROVE FALSE
  OBVIOUS
<1>0. Fails \subseteq Nat /\ Fails # {}
  <2>1. Fails \subseteq 0..n
    BY Zenon
  <2> HIDE DEF Fails
  <2> QED
    BY <2>1
<1>1. PICK m \in Fails : \A k \in Fails : m <= k
  <2> HIDE DEF Fails
  <2> QED
    BY <1>0, LeastNumber
<1>2. m \in 0..n /\ ~\E w : Walking(w, m, first, next)
  OBVIOUS
<1>3. CASE m = 0
  <2>1. Walking([k \in 1..0 |-> 0], m, first, next)
    <3>1. 1..m = {} /\ 1..0 = {}
      BY <1>3
    <3> QED
      BY <3>1 DEF Walking
  <2> QED
    BY <1>2, <2>1
<1>4. CASE m # 0
  <2>1. m - 1 \in 0..n /\ ~(m <= m - 1) /\ m \in Nat
    BY <1>2, <1>4
  <2>2. PICK w : Walking(w, m - 1, first, next)
    BY <1>1, <2>1
  <2> DEFINE g == IF m = 1 THEN first ELSE next[w[m - 1]]
             w2 == [k \in 1..m |-> IF k = m THEN g ELSE w[k]]
  <2>3. ASSUME NEW k \in 1..m PROVE w2[k] = IF k = 1 THEN first ELSE next[w2[k - 1]]
    <3>1. CASE k = m
      <4>1. w2[k] = g
        BY <3>1
      <4>2. k # 1 => k - 1 \in 1..m /\ k - 1 # m
        BY <2>3, <2>1
      <4>3. k # 1 => w2[k - 1] = w[k - 1]
        BY <4>2
      <4> QED
        BY <3>1, <4>1, <4>3
    <3>2. CASE k # m
      <4>1. k \in 1..(m - 1) /\ (k # 1 => k - 1 \in 1..m /\ k - 1 # m)
        BY <3>2, <2>3, <2>1
      <4>2. w[k] = IF k = 1 THEN first ELSE next[w[k - 1]]
        BY <4>1, <2>2 DEF Walking
      <4>3. w2[k] = w[k] /\ (k # 1 => w2[k - 1] = w[k - 1])
        BY <3>2, <4>1
      <4> QED
        BY <4>2, <4>3
    <3> QED
      BY <3>1, <3>2
  <2>4. w2 = [k \in 1..m |-> w2[k]]
    OBVIOUS
  <2>5. Walking(w2, m, first, next)
    <3> HIDE DEF w2
    <3> QED
      BY <2>3, <2>4 DEF Walking
  <2> QED
    BY <1>2, <2>5
<1> QED
  BY <1>3, <1>4

(* What is true of the first step of a walk and passed on by every step is *)
(* true of them all.                                                       *)
LEMMA StaysIn ==
  ASSUME NEW n \in Nat, NEW w, NEW V, n > 0 => w[1] \in V,
         \A k \in 1..(n - 1) : w[k] \in V => w[k + 1] \in V
  PROVE  \A k \in 1..n : w[k] \in V
<1> DEFINE Fails == {k \in 1..n : w[k] \notin V}
<1> SUFFICES ASSUME Fails # {} PROVE FALSE
  OBVIOUS
<1>1. Fails \subseteq Nat
  <2>1. Fails \subseteq 1..n
    BY Zenon
  <2> HIDE DEF Fails
  <2> QED
    BY <2>1
<1>2. PICK k \in Fails : \A j \in Fails : k <= j
  <2> HIDE DEF Fails
  <2> QED
    BY <1>1, LeastNumber
<1>3. k \in 1..n /\ w[k] \notin V
  OBVIOUS
<1>4. k # 1
  BY <1>3
<1>5. k - 1 \in 1..(n - 1) /\ k - 1 \in 1..n /\ (k - 1) + 1 = k /\ ~(k <= k - 1)
  BY <1>3, <1>4
<1>6. w[k - 1] \in V
  BY <1>2, <1>5
<1> QED
  BY <1>3, <1>5, <1>6

-----------------------------------------------------------------------------
(* The heap as blocks: sz gives the size of each, E is where it ends, U    *)
(* are the blocks in use and L those on the lists.                         *)
Tiles(E, sz) ==
  /\ Even(E) /\ FirstBlock <= E /\ E <= MAX_HEAP
  /\ FirstBlock \in DOMAIN sz \cup {E}
  /\ \A b \in DOMAIN sz : /\ Even(b) /\ FirstBlock <= b
                          /\ Even(sz[b]) /\ sz[b] >= 4
                          /\ b + sz[b] \in DOMAIN sz \cup {E}
                          /\ b + sz[b] <= E
  /\ \A b, c \in DOMAIN sz : b < c => b + sz[b] <= c

(* The header and footer of a block are its size and whether it is in use. *)
TagOf(sz, U, b) == PACK(sz[b], IF b \in U THEN 1 ELSE 0)

(* The words of the heap that are there whatever the lists are: the tags,  *)
(* the prologue and the epilogue.                                          *)
Tagged(m, E, sz, U) ==
  /\ m \in [Exited..(E - 1) -> Int]
  /\ m[Exited] = 0
  /\ m[N_LISTS + 1] = PACK(2, 1) /\ m[Prologue] = PACK(2, 1)
  /\ m[E - 1] = PACK(0, 1)
  /\ U \subseteq DOMAIN sz
  /\ \A b \in DOMAIN sz : /\ m[b - 1] = TagOf(sz, U, b)
                          /\ m[b + sz[b] - 2] = TagOf(sz, U, b)

(* The list of S in order of address.                                      *)
IsNext(S, b, x) == \/ x \in S /\ b < x /\ \A y \in S : b < y => x <= y
                   \/ x = 0 /\ \A y \in S : y <= b
(* The block before b in S, or the null pointer.                           *)
IsPrev(S, b, x) == \/ x \in S /\ x < b /\ \A y \in S : y < b => y <= x
                   \/ x = 0 /\ \A y \in S : b <= y

(* The words of list class link the blocks S in ascending order, both ways.*)
Linked(m, class, S) ==
  /\ IsNext(S, 0, m[class])
  /\ \A b \in S : IsNext(S, b, m[b + 1]) /\ IsPrev(S, b, m[b])

(* The free blocks of a class.                                             *)
OfClass(sz, L, class) == {b \in L : ClassOf(sz[b]) = class}

(* Every list links the free blocks of its class.                          *)
Listed(m, sz, L) == \A class \in 1..N_LISTS : Linked(m, class, OfClass(sz, L, class))

(* The heap m ends at E, has the blocks sz, of them U in use, and L on its *)
(* lists: a free block may be on its way to a list.                        *)
Heap(m, E, sz, U, L) == /\ Tiles(E, sz) /\ Tagged(m, E, sz, U) /\ Listed(m, sz, L)
                        /\ L \subseteq DOMAIN sz \ U

(* What the assumptions say about where the first block is.                *)
LEMMA Constants ==
  /\ N_LISTS \in Nat /\ N_LISTS >= 2 /\ FirstBlock \in Nat /\ FirstBlock = N_LISTS + 4
  /\ Even(FirstBlock) /\ FirstBlock <= MAX_HEAP /\ MAX_HEAP \in Nat
  /\ CHUNKSIZE \in Nat /\ CHUNKSIZE >= 4 /\ Even(CHUNKSIZE)
<1>1. N_LISTS \in Nat /\ N_LISTS % 2 = 0 /\ N_LISTS >= 2
  BY MmAssumption
<1>2. FirstBlock = N_LISTS + 4
  BY DEF FirstBlock
<1>3. (N_LISTS + 4) % 2 = 0
  BY <1>1
<1> QED
  BY <1>1, <1>2, <1>3, MmAssumption DEF Even

(* Where the blocks are.                                                   *)
LEMMA BlockAt ==
  ASSUME NEW E, NEW sz, Tiles(E, sz), NEW b \in DOMAIN sz
  PROVE  /\ b \in Nat /\ sz[b] \in Nat /\ E \in Nat /\ sz[b] >= 4 /\ b >= 6
         /\ N_LISTS + 4 <= b /\ b + sz[b] <= E /\ E <= MAX_HEAP
         /\ b + sz[b] \in DOMAIN sz \cup {E}
         /\ Even(b) /\ Even(sz[b]) /\ Even(b + sz[b])
<1>1. b \in Nat /\ sz[b] \in Nat /\ E \in Nat
  BY DEF Tiles, Even
<1>2. FirstBlock <= b /\ FirstBlock = N_LISTS + 4 /\ N_LISTS \in Nat /\ N_LISTS >= 2
  BY Constants DEF Tiles
<1>3. Even(b + sz[b])
  BY EvenNumbers DEF Tiles
<1> QED
  BY <1>1, <1>2, <1>3 DEF Tiles

(* Two blocks have no word in common.                                      *)
LEMMA BlocksDisjoint ==
  ASSUME NEW E, NEW sz, Tiles(E, sz), NEW b \in DOMAIN sz, NEW c \in DOMAIN sz, b # c
  PROVE  b + sz[b] <= c \/ c + sz[c] <= b
<1>1. b \in Nat /\ c \in Nat
  BY BlockAt
<1>2. b < c \/ c < b
  BY <1>1
<1> QED
  BY <1>2 DEF Tiles

(* The blocks, and those of a list, are apart.                             *)
LEMMA BlocksApart ==
  ASSUME NEW E, NEW sz, Tiles(E, sz), NEW S, S \subseteq DOMAIN sz
  PROVE  Apart(S)
<1>1. ASSUME NEW b \in S PROVE b \in Nat /\ 4 < b /\ b + 4 <= MAX_HEAP
  <2>1. b \in DOMAIN sz
    OBVIOUS
  <2>2. /\ b \in Nat /\ sz[b] \in Nat /\ E \in Nat /\ sz[b] >= 4 /\ b >= 6
        /\ b + sz[b] <= E /\ E <= MAX_HEAP
    BY <2>1, BlockAt
  <2> QED
    BY <2>2, Constants
<1>2. ASSUME NEW b \in S, NEW c \in S, b < c PROVE b + 4 <= c
  <2>1. b \in DOMAIN sz /\ c \in DOMAIN sz
    OBVIOUS
  <2>2. b + sz[b] <= c
    BY <2>1, <1>2 DEF Tiles
  <2>3. b \in Nat /\ sz[b] \in Nat /\ sz[b] >= 4 /\ c \in Nat
    BY <2>1, BlockAt
  <2> QED
    BY <2>2, <2>3
<1> QED
  BY <1>1, <1>2 DEF Apart

(* What the macros of mm.c read from the tags of a block.                  *)
LEMMA BlockTags ==
  ASSUME NEW m, NEW E, NEW sz, NEW U, Tiles(E, sz), Tagged(m, E, sz, U),
         NEW b \in DOMAIN sz
  PROVE  /\ BlockSize(m, b) = sz[b] /\ NEXT_BLKP(m, b) = b + sz[b]
         /\ FTRP(m, b) = b + sz[b] - 2
         /\ IsFree(m, b) <=> b \notin U
         /\ GET_SIZE(m, b + sz[b] - 2) = sz[b]
         /\ GET_ALLOC(m, b + sz[b] - 2) = 0 <=> b \notin U
<1> DEFINE a == IF b \in U THEN 1 ELSE 0
<1>1. a \in {0, 1} /\ Even(sz[b]) /\ (a = 0 <=> b \notin U)
  BY BlockAt
<1>2. m[b - 1] = PACK(sz[b], a) /\ m[b + sz[b] - 2] = PACK(sz[b], a)
  BY DEF Tagged, TagOf
<1> HIDE DEF a
<1>3. GET_SIZE(m, b - 1) = sz[b] /\ GET_ALLOC(m, b - 1) = a
  BY <1>1, <1>2, TagWord
<1>4. GET_SIZE(m, b + sz[b] - 2) = sz[b] /\ GET_ALLOC(m, b + sz[b] - 2) = a
  BY <1>1, <1>2, TagWord
<1>5. BlockSize(m, b) = sz[b] /\ (IsFree(m, b) <=> b \notin U)
  BY <1>1, <1>3 DEF BlockSize, HDRP, IsFree
<1> QED
  BY <1>1, <1>4, <1>5 DEF NEXT_BLKP, FTRP

(* The end of the heap and the epilogue, which is never free.              *)
LEMMA HeapEnd ==
  ASSUME NEW m, NEW E, NEW sz, NEW U, Tiles(E, sz), Tagged(m, E, sz, U)
  PROVE  /\ Hi(m) = E - 1 /\ E \in Nat /\ DOMAIN m = Exited..(E - 1)
         /\ ~IsFree(m, E)
<1>1. E \in Nat /\ DOMAIN m = (-1)..(E - 1)
  BY DEF Tiles, Even, Tagged, Exited
<1>2. Cardinality((-1)..(E - 1)) = IF -1 > E - 1 THEN 0 ELSE (E - 1) - (-1) + 1
  BY <1>1, FS_Interval
<1>3. Cardinality((-1)..(E - 1)) = E + 1
  BY <1>1, <1>2
<1>4. Hi(m) = E - 1
  BY <1>1, <1>3 DEF Hi
<1>5. Even(0)
  BY DEF Even
<1>6. GET_ALLOC(m, E - 1) = 1
  BY <1>5, TagWord DEF Tagged
<1> QED
  BY <1>1, <1>4, <1>6 DEF IsFree, HDRP, Exited

(* Every block but the first has one before it, whose footer says so.      *)
LEMMA BlockBefore ==
  ASSUME NEW E, NEW sz, Tiles(E, sz), NEW b \in DOMAIN sz \cup {E}, b # FirstBlock
  PROVE  \E p \in DOMAIN sz : p + sz[p] = b
<1> DEFINE Low == {c \in DOMAIN sz : c < b}
<1>0. E \in Nat /\ FirstBlock <= E /\ b \in Nat /\ FirstBlock <= b /\ FirstBlock \in Nat
      /\ b <= E
  <2>1. E \in Nat /\ FirstBlock <= E /\ FirstBlock \in Nat
    BY Constants DEF Tiles, Even
  <2>2. CASE b = E
    BY <2>1, <2>2
  <2>3. CASE b \in DOMAIN sz
    <3>1. b \in Nat /\ sz[b] \in Nat /\ N_LISTS + 4 <= b /\ b + sz[b] <= E
      BY <2>3, BlockAt
    <3> QED
      BY <2>1, <3>1, Constants
  <2> QED
    BY <2>2, <2>3
<1>1. FirstBlock \in DOMAIN sz
  <2>1. FirstBlock # E \/ b \in DOMAIN sz
    OBVIOUS
  <2>2. ASSUME b \in DOMAIN sz, FirstBlock = E PROVE FALSE
    <3>1. b + sz[b] <= E /\ sz[b] \in Nat /\ sz[b] >= 4
      BY <2>2, BlockAt
    <3> QED
      BY <1>0, <2>2, <3>1
  <2> QED
    BY <2>1, <2>2 DEF Tiles
<1>2. Low # {} /\ Low \subseteq 0..b
  <2>1. FirstBlock \in Low
    BY <1>0, <1>1
  <2>2. \A c \in Low : c \in Nat /\ c < b
    BY BlockAt
  <2> HIDE DEF Low
  <2> QED
    BY <1>0, <2>1, <2>2
<1>3. PICK p \in Low : \A c \in Low : c <= p
  <2> HIDE DEF Low
  <2> QED
    BY <1>0, <1>2, Greatest
<1>4. p \in DOMAIN sz /\ p < b
  OBVIOUS
<1>5. p \in Nat /\ sz[p] \in Nat /\ sz[p] >= 4 /\ p + sz[p] \in DOMAIN sz \cup {E} /\ p + sz[p] <= E
  BY <1>4, BlockAt
<1>6. p + sz[p] <= b
  BY <1>4, <1>5 DEF Tiles
<1>7. p + sz[p] = b
  <2> SUFFICES ASSUME p + sz[p] < b PROVE FALSE
    BY <1>0, <1>5, <1>6
  <2>1. p + sz[p] # E
    BY <1>0, <1>5
  <2>2. p + sz[p] \in Low
    BY <1>5, <2>1
  <2>3. p + sz[p] <= p
    BY <1>3, <2>2
  <2> QED
    BY <1>5, <2>3
<1> QED
  BY <1>4, <1>7

(* Walking over the heap by the sizes meets every block.                   *)
LEMMA BlocksAre ==
  ASSUME NEW m, NEW E, NEW sz, NEW U, Tiles(E, sz), Tagged(m, E, sz, U)
  PROVE  Blocks(m) = DOMAIN sz
<1> DEFINE B == DOMAIN sz
           V == B \cup {0, E}
           body(bp) == IF bp = 0 \/ bp > Hi(m) \/ BlockSize(m, bp) <= 0 THEN 0
                       ELSE NEXT_BLKP(m, bp)
           Raw(w) == w = [k \in 1..MaxBlocks |->
                            IF k = 1 THEN FirstBlock ELSE body(w[k - 1])]
           next == [bp \in V |-> body(bp)]
           walk == CHOOSE w : Raw(w)
<1>0. /\ Hi(m) = E - 1 /\ E \in Nat /\ MaxBlocks \in Nat /\ MaxBlocks >= 1
      /\ FirstBlock \in V /\ FirstBlock # 0 /\ FirstBlock \in Nat /\ FirstBlock <= E
      /\ E # 0 /\ 0 \notin B /\ E \notin B
  <2>1. \A b \in B : b # 0 /\ b # E
    <3> TAKE b \in B
    <3>1. b \in Nat /\ sz[b] \in Nat /\ sz[b] >= 4 /\ b >= 6 /\ b + sz[b] <= E /\ E \in Nat
      BY BlockAt
    <3> QED
      BY <3>1
  <2>2. FirstBlock \in V /\ FirstBlock <= E
    BY DEF Tiles
  <2>3. E \in Nat /\ Hi(m) = E - 1
    BY HeapEnd
  <2>4. FirstBlock \in Nat /\ FirstBlock >= 6
    BY Constants
  <2> QED
    BY <2>1, <2>2, <2>3, <2>4, MaxBlocksType
<1>1. \A bp \in B : body(bp) = bp + sz[bp] /\ bp + sz[bp] \in B \cup {E} /\ bp < bp + sz[bp]
  <2> TAKE bp \in B
  <2>1. bp \in Nat /\ sz[bp] \in Nat /\ sz[bp] >= 4 /\ bp >= 6 /\ bp + sz[bp] <= E
        /\ bp + sz[bp] \in B \cup {E}
    BY BlockAt
  <2>2. BlockSize(m, bp) = sz[bp] /\ NEXT_BLKP(m, bp) = bp + sz[bp]
    BY BlockTags
  <2>3. ~(bp = 0 \/ bp > Hi(m) \/ BlockSize(m, bp) <= 0)
    BY <1>0, <2>1, <2>2
  <2>4. body(bp) = bp + sz[bp]
    BY <2>2, <2>3, Zenon
  <2> QED
    BY <2>1, <2>4
<1>2. body(0) = 0 /\ body(E) = 0
  BY <1>0
<1> HIDE DEF body
<1>3. \A bp \in V : body(bp) \in V
  BY <1>1, <1>2
<1>4. \A w : Raw(w) => /\ w[1] = FirstBlock
                       /\ \A k \in 1..(MaxBlocks - 1) : w[k + 1] = body(w[k])
  <2> SUFFICES ASSUME NEW w, Raw(w)
               PROVE  /\ w[1] = FirstBlock
                      /\ \A k \in 1..(MaxBlocks - 1) : w[k + 1] = body(w[k])
    OBVIOUS
  <2>1. \A k \in 1..MaxBlocks : w[k] = IF k = 1 THEN FirstBlock ELSE body(w[k - 1])
    OBVIOUS
  <2> HIDE DEF Raw
  <2>2. w[1] = FirstBlock
    BY <2>1, <1>0
  <2>3. ASSUME NEW k \in 1..(MaxBlocks - 1) PROVE w[k + 1] = body(w[k])
    <3>1. k + 1 \in 1..MaxBlocks /\ k + 1 # 1 /\ (k + 1) - 1 = k
      BY <1>0
    <3>2. w[k + 1] = body(w[(k + 1) - 1])
      BY <3>1, <2>1, Zenon
    <3> QED
      BY <3>1, <3>2
  <2> QED
    BY <2>2, <2>3
<1>5. \E w : Raw(w)
  <2>1. PICK w : Walking(w, MaxBlocks, FirstBlock, next)
    BY WalkExists, <1>0
  <2>2. \A k \in 1..MaxBlocks : w[k] = IF k = 1 THEN FirstBlock ELSE next[w[k - 1]]
    BY <2>1 DEF Walking
  <2> HIDE DEF next
  <2>3. w[1] = FirstBlock
    BY <2>2, <1>0
  <2>4. \A bp \in V : next[bp] = body(bp)
    BY DEF next
  <2>5. ASSUME NEW k \in 1..(MaxBlocks - 1) PROVE w[k + 1] = next[w[k]]
    <3>1. k + 1 \in 1..MaxBlocks /\ k + 1 # 1 /\ (k + 1) - 1 = k
      BY <1>0
    <3>2. w[k + 1] = next[w[(k + 1) - 1]]
      BY <3>1, <2>2, Zenon
    <3> QED
      BY <3>1, <3>2
  <2>6. \A k \in 1..MaxBlocks : w[k] \in V
    <3>1. \A k \in 1..(MaxBlocks - 1) : w[k] \in V => w[k + 1] \in V
      BY <2>4, <2>5, <1>3
    <3> HIDE DEF V
    <3> QED
      BY <3>1, <2>3, <1>0, StaysIn
  <2>7. ASSUME NEW k \in 1..MaxBlocks
        PROVE  w[k] = IF k = 1 THEN FirstBlock ELSE body(w[k - 1])
    <3>1. CASE k = 1
      BY <3>1, <2>3
    <3>2. CASE k # 1
      <4>1. k - 1 \in 1..MaxBlocks
        BY <3>2, <1>0
      <4>2. w[k - 1] \in V /\ w[k] = next[w[k - 1]]
        BY <3>2, <4>1, <2>2, <2>6, Zenon
      <4> QED
        BY <3>2, <4>2, <2>4, Zenon
    <3> QED
      BY <3>1, <3>2
  <2>8. w = [k \in 1..MaxBlocks |-> w[k]]
    BY <2>1 DEF Walking
  <2>9. [k \in 1..MaxBlocks |-> w[k]]
          = [k \in 1..MaxBlocks |-> IF k = 1 THEN FirstBlock ELSE body(w[k - 1])]
    BY <2>7
  <2>10. Raw(w)
    BY <2>8, <2>9
  <2> QED
    BY <2>10, Zenon
<1>6. Raw(walk)
  <2> HIDE DEF Raw
  <2> QED
    BY <1>5, Zenon
<1>7. Blocks(m) = {walk[k] : k \in 1..MaxBlocks} \cap FirstBlock..Hi(m)
  BY Zenon DEF Blocks, body
<1> HIDE DEF walk, Raw
<1>8. walk[1] = FirstBlock /\ \A k \in 1..(MaxBlocks - 1) : walk[k + 1] = body(walk[k])
  BY <1>6, <1>4
<1>9. \A k \in 1..MaxBlocks : walk[k] \in V
  <2>1. \A k \in 1..(MaxBlocks - 1) : walk[k] \in V => walk[k + 1] \in V
    BY <1>8, <1>3
  <2> HIDE DEF V
  <2> QED
    BY <2>1, <1>8, <1>0, StaysIn
<1>10. Visits(walk, B)
  <2>1. NextIn(B, 0, walk[1])
    <3>1. \A z \in B : z > 0 /\ z >= FirstBlock /\ z <= E
      <4> TAKE z \in B
      <4>1. z \in Nat /\ z >= 6 /\ N_LISTS + 4 <= z /\ sz[z] \in Nat /\ z + sz[z] <= E
        BY BlockAt
      <4> QED
        BY <4>1, <1>0, Constants
    <3>2. CASE FirstBlock \in B
      BY <3>1, <3>2, <1>8 DEF NextIn
    <3>3. CASE FirstBlock \notin B
      <4>1. FirstBlock = E
        BY <3>3 DEF Tiles
      <4>2. B = {}
        <5> SUFFICES ASSUME NEW z \in B PROVE FALSE
          OBVIOUS
        <5>1. z \in Nat /\ N_LISTS + 4 <= z /\ sz[z] \in Nat /\ sz[z] >= 4 /\ z + sz[z] <= E
          BY BlockAt
        <5> QED
          BY <5>1, <4>1, <1>0, Constants
      <4> QED
        BY <3>3, <4>2, <1>8 DEF NextIn
    <3> QED
      BY <3>2, <3>3
  <2>2. ASSUME NEW k \in 1..(MaxBlocks - 1), walk[k] \in B
        PROVE  NextIn(B, walk[k], walk[k + 1])
    <3> DEFINE b == walk[k]
    <3>1. walk[k + 1] = b + sz[b] /\ b + sz[b] \in B \cup {E} /\ b < b + sz[b]
      BY <2>2, <1>8, <1>1
    <3>2. \A z \in B : z > b => z >= b + sz[b]
      BY <2>2 DEF Tiles
    <3>3. \A z \in B : z \in Nat /\ z < E
      <4> TAKE z \in B
      <4>1. z \in Nat /\ sz[z] \in Nat /\ sz[z] >= 4 /\ z + sz[z] <= E
        BY BlockAt
      <4> QED
        BY <4>1, <1>0
    <3>4. CASE b + sz[b] \in B
      BY <3>1, <3>2, <3>4 DEF NextIn
    <3>5. CASE b + sz[b] = E
      <4>1. \A z \in B : z <= b
        BY <3>2, <3>3, <3>5, <2>2, <1>0
      <4> QED
        BY <4>1, <3>1, <3>5, <1>0 DEF NextIn
    <3> QED
      BY <3>1, <3>4, <3>5
  <2>3. ASSUME NEW k \in 1..(MaxBlocks - 1), walk[k] \notin B
        PROVE  walk[k + 1] \notin B
    <3>1. k \in 1..MaxBlocks
      BY <1>0
    <3>2. walk[k] = 0 \/ walk[k] = E
      BY <3>1, <1>9, <2>3
    <3> QED
      BY <3>2, <1>8, <1>2, <1>0
  <2> QED
    BY <2>1, <2>2, <2>3 DEF Visits
<1>11. Apart(B)
  BY BlocksApart
<1>12. \A b \in B : \E k \in 1..MaxBlocks : walk[k] = b
  BY <1>10, <1>11, VisitsAll
<1>13. \A b \in B : b \in FirstBlock..Hi(m)
  <2> TAKE b \in B
  <2>1. b \in Nat /\ N_LISTS + 4 <= b /\ sz[b] \in Nat /\ sz[b] >= 4 /\ b + sz[b] <= E
    BY BlockAt
  <2> QED
    BY <2>1, <1>0, Constants
<1>14. \A k \in 1..MaxBlocks : walk[k] \in FirstBlock..Hi(m) => walk[k] \in B
  <2> TAKE k \in 1..MaxBlocks
  <2>1. 0 \notin FirstBlock..Hi(m) /\ E \notin FirstBlock..Hi(m)
    BY <1>0
  <2> QED
    BY <2>1, <1>9
<1> QED
  BY <1>7, <1>12, <1>13, <1>14

(* A list is S in ascending order, with the right predecessors.            *)
Lists(m, list, n, S) ==
  /\ n \in Nat /\ DOMAIN list = 1..n /\ Len(list) = n
  /\ \A k \in 1..n : /\ list[k] \in S
                     /\ k > 1 => list[k - 1] < list[k] /\ m[list[k]] = list[k - 1]
                     /\ k = 1 => m[list[k]] = 0 /\ \A x \in S : list[k] <= x
                     /\ k = n => \A x \in S : x <= list[k]
  /\ \A x \in S : \E k \in 1..n : list[k] = x

(* Walking along the successors meets the whole list.                      *)
LEMMA FreeListIs ==
  ASSUME NEW m, NEW class, NEW S, Linked(m, class, S), Apart(S)
  PROVE  \E n \in Nat : Lists(m, FreeList(m, class), n, S)
<1> DEFINE V == S \cup {0}
           head == m[class]
           body(bp) == IF bp = 0 THEN 0 ELSE GET_SUCC(m, bp)
           Raw(w) == w = [k \in 1..MaxBlocks |-> IF k = 1 THEN head ELSE body(w[k - 1])]
           next == [bp \in V |-> body(bp)]
           walk == CHOOSE w : Raw(w)
           End(k) == /\ \A j \in 1..k : walk[j] # 0
                     /\ k < MaxBlocks => walk[k + 1] = 0
           n == CHOOSE k \in 0..MaxBlocks : End(k)
           list == FreeList(m, class)
<1>0. /\ MaxBlocks \in Nat /\ MaxBlocks >= 1 /\ head \in V /\ 0 \notin S /\ S \subseteq Nat
      /\ \A x \in S : x > 0 /\ x \in Nat
  <2>1. MaxBlocks \in Nat /\ MaxBlocks >= 1
    BY MaxBlocksType
  <2>2. head \in V
    BY DEF Linked, IsNext
  <2>3. S \subseteq Nat /\ \A x \in S : x > 0 /\ x \in Nat
    BY DEF Apart
  <2> QED
    BY <2>1, <2>2, <2>3
<1>1. \A bp \in S : body(bp) = m[bp + 1] /\ body(bp) \in V /\ IsNext(S, bp, body(bp))
  <2> TAKE bp \in S
  <2>1. body(bp) = m[bp + 1]
    BY <1>0 DEF GET_SUCC
  <2>2. IsNext(S, bp, m[bp + 1])
    BY DEF Linked
  <2>3. m[bp + 1] \in V
    BY <2>2 DEF IsNext
  <2> HIDE DEF body
  <2> QED
    BY <2>1, <2>2, <2>3
<1>2. body(0) = 0
  OBVIOUS
<1>3. FreeList(m, class) = [k \in 1..n |-> walk[k]]
  BY Zenon DEF FreeList, ListFrom
<1> HIDE DEF body
<1>4. \A bp \in V : body(bp) \in V
  BY <1>1, <1>2
<1>5. \A w : Raw(w) => /\ w[1] = head
                       /\ \A k \in 1..(MaxBlocks - 1) : w[k + 1] = body(w[k])
  <2> SUFFICES ASSUME NEW w, Raw(w)
               PROVE  /\ w[1] = head
                      /\ \A k \in 1..(MaxBlocks - 1) : w[k + 1] = body(w[k])
    OBVIOUS
  <2>1. \A k \in 1..MaxBlocks : w[k] = IF k = 1 THEN head ELSE body(w[k - 1])
    OBVIOUS
  <2> HIDE DEF Raw, head
  <2>2. w[1] = head
    BY <2>1, <1>0
  <2>3. ASSUME NEW k \in 1..(MaxBlocks - 1) PROVE w[k + 1] = body(w[k])
    <3>1. k + 1 \in 1..MaxBlocks /\ k + 1 # 1 /\ (k + 1) - 1 = k
      BY <1>0
    <3>2. w[k + 1] = body(w[(k + 1) - 1])
      BY <3>1, <2>1, Zenon
    <3> QED
      BY <3>1, <3>2
  <2> QED
    BY <2>2, <2>3
<1>6. \E w : Raw(w)
  <2> HIDE DEF head
  <2>1. PICK w : Walking(w, MaxBlocks, head, next)
    BY WalkExists, <1>0
  <2>2. \A k \in 1..MaxBlocks : w[k] = IF k = 1 THEN head ELSE next[w[k - 1]]
    BY <2>1 DEF Walking
  <2> HIDE DEF next
  <2>3. w[1] = head
    BY <2>2, <1>0
  <2>4. \A bp \in V : next[bp] = body(bp)
    BY DEF next
  <2>5. ASSUME NEW k \in 1..(MaxBlocks - 1) PROVE w[k + 1] = next[w[k]]
    <3>1. k + 1 \in 1..MaxBlocks /\ k + 1 # 1 /\ (k + 1) - 1 = k
      BY <1>0
    <3>2. w[k + 1] = next[w[(k + 1) - 1]]
      BY <3>1, <2>2, Zenon
    <3> QED
      BY <3>1, <3>2
  <2>6. \A k \in 1..MaxBlocks : w[k] \in V
    <3>1. \A k \in 1..(MaxBlocks - 1) : w[k] \in V => w[k + 1] \in V
      BY <2>4, <2>5, <1>4
    <3> HIDE DEF V
    <3> QED
      BY <3>1, <2>3, <1>0, StaysIn
  <2>7. ASSUME NEW k \in 1..MaxBlocks
        PROVE  w[k] = IF k = 1 THEN head ELSE body(w[k - 1])
    <3>1. CASE k = 1
      BY <3>1, <2>3
    <3>2. CASE k # 1
      <4>1. k - 1 \in 1..MaxBlocks
        BY <3>2, <1>0
      <4>2. w[k - 1] \in V /\ w[k] = next[w[k - 1]]
        BY <3>2, <4>1, <2>2, <2>6, Zenon
      <4> QED
        BY <3>2, <4>2, <2>4, Zenon
    <3> QED
      BY <3>1, <3>2
  <2>8. w = [k \in 1..MaxBlocks |-> w[k]]
    BY <2>1 DEF Walking
  <2>9. [k \in 1..MaxBlocks |-> w[k]]
          = [k \in 1..MaxBlocks |-> IF k = 1 THEN head ELSE body(w[k - 1])]
    BY <2>7
  <2>10. Raw(w)
    BY <2>8, <2>9
  <2> QED
    BY <2>10, Zenon
<1>7. Raw(walk)
  <2> HIDE DEF Raw
  <2> QED
    BY <1>6, Zenon
<1> HIDE DEF walk, Raw
<1>8. walk[1] = head /\ \A k \in 1..(MaxBlocks - 1) : walk[k + 1] = body(walk[k])
  BY <1>7, <1>5
<1>9. \A k \in 1..MaxBlocks : walk[k] \in V
  <2>1. \A k \in 1..(MaxBlocks - 1) : walk[k] \in V => walk[k + 1] \in V
    BY <1>8, <1>4
  <2> HIDE DEF V, head
  <2> QED
    BY <2>1, <1>8, <1>0, StaysIn
<1>10. \A x, y : IsNext(S, x, y) => NextIn(S, x, y)
  BY <1>0 DEF IsNext, NextIn
<1>11. Visits(walk, S)
  <2>1. NextIn(S, 0, walk[1])
    BY <1>8, <1>10 DEF Linked
  <2>2. ASSUME NEW k \in 1..(MaxBlocks - 1), walk[k] \in S
        PROVE  NextIn(S, walk[k], walk[k + 1])
    BY <2>2, <1>1, <1>8, <1>10
  <2>3. ASSUME NEW k \in 1..(MaxBlocks - 1), walk[k] \notin S
        PROVE  walk[k + 1] \notin S
    <3>1. k \in 1..MaxBlocks
      BY <1>0
    <3>2. walk[k] = 0
      BY <3>1, <1>9, <2>3
    <3> QED
      BY <3>2, <1>8, <1>2, <1>0
  <2> QED
    BY <2>1, <2>2, <2>3 DEF Visits
<1>12. \A k \in 1..MaxBlocks : walk[k] \in S =>
         /\ k < MaxBlocks
         /\ k > 1 => walk[k - 1] \in S /\ walk[k - 1] < walk[k] /\ NextIn(S, walk[k - 1], walk[k])
  BY <1>11, VisitsInOrder
<1>13. n \in 0..MaxBlocks /\ End(n)
  <2> DEFINE Ends == {k \in 1..MaxBlocks : walk[k] = 0}
  <2>1. MaxBlocks \in Ends
    <3>1. MaxBlocks \in 1..MaxBlocks
      BY <1>0
    <3>2. walk[MaxBlocks] \notin S
      BY <3>1, <1>12, <1>0
    <3> QED
      BY <3>1, <3>2, <1>9
  <2>2. PICK k \in Ends : \A j \in Ends : k <= j
    <3>1. Ends \subseteq Nat
      BY <1>0
    <3> HIDE DEF Ends
    <3> QED
      BY <2>1, <3>1, LeastNumber
  <2>3. k \in 1..MaxBlocks /\ walk[k] = 0
    OBVIOUS
  <2>4. k - 1 \in 0..MaxBlocks /\ (k - 1) + 1 = k
    BY <2>3, <1>0
  <2>5. \A j \in 1..(k - 1) : walk[j] # 0
    <3> SUFFICES ASSUME NEW j \in 1..(k - 1), walk[j] = 0 PROVE FALSE
      OBVIOUS
    <3>1. j \in 1..MaxBlocks /\ ~(k <= j)
      BY <2>3, <1>0
    <3> QED
      BY <3>1, <2>2
  <2>6. End(k - 1)
    BY <2>3, <2>4, <2>5
  <2> HIDE DEF End
  <2> QED
    BY <2>4, <2>6, Zenon
<1> HIDE DEF n
<1>14. list = [k \in 1..n |-> walk[k]] /\ n \in Nat
  BY <1>3, <1>13, <1>0
<1>15. DOMAIN list = 1..n /\ Len(list) = n /\ \A k \in 1..n : list[k] = walk[k]
  <2> HIDE DEF list
  <2>1. DOMAIN list = 1..n /\ \A k \in 1..n : list[k] = walk[k]
    BY <1>14
  <2>2. Len([k \in 1..n |-> walk[k]]) = n
    <3>1. [k \in 1..n |-> walk[k]] \in Seq({walk[k] : k \in 1..n})
      BY <1>14
    <3> QED
      BY <1>14, <3>1
  <2> QED
    BY <1>14, <2>1, <2>2
<1> HIDE DEF list
<1>16. \A k \in 1..n : k \in 1..MaxBlocks /\ walk[k] \in S
  <2> TAKE k \in 1..n
  <2>1. k \in 1..MaxBlocks
    BY <1>13, <1>0
  <2>2. walk[k] # 0
    BY <1>13
  <2> QED
    BY <2>1, <2>2, <1>9
<1>17. n < MaxBlocks
  <2>1. CASE n = 0
    BY <2>1, <1>0
  <2>2. CASE n # 0
    <3>1. n \in 1..n
      BY <2>2, <1>14
    <3> QED
      BY <3>1, <1>12, <1>16
  <2> QED
    BY <2>1, <2>2
<1>18. walk[n + 1] = 0
  BY <1>13, <1>17
<1>19. \A x \in S : \E k \in 1..n : list[k] = x
  <2> TAKE x \in S
  <2>1. PICK k \in 1..MaxBlocks : walk[k] = x
    BY <1>11, VisitsAll
  <2> DEFINE Zeroes == {j \in 1..MaxBlocks : j > n => walk[j] = 0}
  <2>2. k <= n
    <3>1. \A j \in 1..MaxBlocks : j \in Zeroes
      <4>1. MaxBlocks > 0 => 1 \in Zeroes
        BY <1>0, <1>14, <1>18
      <4>2. ASSUME NEW j \in 1..(MaxBlocks - 1), j \in Zeroes PROVE j + 1 \in Zeroes
        <5>1. j + 1 \in 1..MaxBlocks
          BY <1>0
        <5>2. CASE j > n
          BY <4>2, <5>1, <5>2, <1>8, <1>2
        <5>3. CASE j = n
          BY <5>1, <5>3, <1>18
        <5>4. CASE j < n
          BY <5>1, <5>4, <1>14
        <5> QED
          BY <5>2, <5>3, <5>4, <1>14
      <4> DEFINE id == [j \in 1..MaxBlocks |-> j]
      <4> HIDE DEF Zeroes
      <4>3. \A j \in 1..(MaxBlocks - 1) : id[j] \in Zeroes => id[j + 1] \in Zeroes
        <5> TAKE j \in 1..(MaxBlocks - 1)
        <5>1. j \in 1..MaxBlocks /\ j + 1 \in 1..MaxBlocks
          BY <1>0
        <5> QED
          BY <5>1, <4>2
      <4>4. MaxBlocks > 0 => id[1] \in Zeroes
        BY <4>1, <1>0
      <4>5. \A j \in 1..MaxBlocks : id[j] \in Zeroes
        <5> HIDE DEF id
        <5> QED
          BY <4>3, <4>4, <1>0, StaysIn
      <4> QED
        BY <4>5
    <3>2. k \in Zeroes
      BY <3>1
    <3> QED
      BY <3>2, <2>1, <1>0, <1>14
  <2>3. k \in 1..n
    BY <2>1, <2>2, <1>14
  <2> QED
    BY <2>1, <2>3, <1>15
<1>20. ASSUME NEW k \in 1..n
       PROVE  /\ list[k] \in S
              /\ k > 1 => list[k - 1] < list[k] /\ m[list[k]] = list[k - 1]
              /\ k = 1 => m[list[k]] = 0 /\ \A x \in S : list[k] <= x
              /\ k = n => \A x \in S : x <= list[k]
  <2>1. list[k] \in S /\ list[k] = walk[k] /\ k \in 1..MaxBlocks /\ k \in Nat
    BY <1>14, <1>15, <1>16
  <2>2. IsPrev(S, list[k], m[list[k]])
    BY <2>1 DEF Linked
  <2>3. ASSUME k > 1 PROVE list[k - 1] < list[k] /\ m[list[k]] = list[k - 1]
    <3>1. k - 1 \in 1..n
      BY <2>3, <1>14
    <3>2. list[k - 1] = walk[k - 1] /\ walk[k - 1] \in S /\ walk[k - 1] < walk[k]
          /\ NextIn(S, walk[k - 1], walk[k])
      BY <2>1, <2>3, <3>1, <1>12, <1>15
    <3>3. \A z \in S : z > list[k - 1] => z >= list[k]
      BY <3>2, <2>1 DEF NextIn
    <3> DEFINE p == m[list[k]]
               q == list[k - 1]
    <3>4. q \in S /\ q < list[k] /\ q \in Nat /\ list[k] \in Nat
      BY <3>2, <2>1, <1>0
    <3>5. p \in S /\ p < list[k] /\ q <= p
      BY <2>2, <3>4 DEF IsPrev
    <3>6. p \in Nat /\ ~(p > q)
      <4>1. p \in Nat
        BY <3>5, <1>0, Zenon
      <4>2. p > q => p >= list[k]
        BY <3>3, <3>5, Zenon
      <4> HIDE DEF p, q
      <4> QED
        BY <4>1, <4>2, <3>4, <3>5
    <3>7. p = q
      BY <3>4, <3>5, <3>6
    <3> QED
      BY <3>4, <3>7
  <2>4. ASSUME k = 1 PROVE m[list[k]] = 0 /\ \A x \in S : list[k] <= x
    <3>1. NextIn(S, 0, list[k])
      BY <2>1, <2>4, <1>11 DEF Visits
    <3>2. \A x \in S : list[k] <= x
      BY <3>1, <2>1, <1>0 DEF NextIn
    <3>3. ~(m[list[k]] \in S /\ m[list[k]] < list[k])
      <4> SUFFICES ASSUME m[list[k]] \in S, m[list[k]] < list[k] PROVE FALSE
        OBVIOUS
      <4>1. list[k] <= m[list[k]] /\ m[list[k]] \in Nat /\ list[k] \in Nat
        BY <3>2, <2>1, <1>0, Zenon
      <4> QED
        BY <4>1
    <3> QED
      BY <2>2, <3>2, <3>3 DEF IsPrev
  <2>5. ASSUME k = n PROVE \A x \in S : x <= list[k]
    <3>1. k \in 1..(MaxBlocks - 1)
      BY <2>1, <2>5, <1>17, <1>0
    <3>2. NextIn(S, walk[k], 0)
      BY <3>1, <2>1, <2>5, <1>11, <1>18 DEF Visits
    <3> QED
      BY <3>2, <2>1, <1>0 DEF NextIn
  <2> QED
    BY <2>1, <2>3, <2>4, <2>5
<1>21. Lists(m, list, n, S)
  BY <1>14, <1>15, <1>19, <1>20 DEF Lists
<1> QED
  BY <1>14, <1>21 DEF list

(* Taking b out of a list: its neighbours are now next to each other, the  *)
(* others keep theirs.                                                     *)
LEMMA WithoutMember ==
  ASSUME NEW S, S \subseteq Nat \ {0}, NEW b \in S, NEW p, NEW s,
         IsPrev(S, b, p), IsNext(S, b, s)
  PROVE  /\ IsNext(S \ {b}, p, s)
         /\ s # 0 => IsPrev(S \ {b}, s, p)
         /\ \A x \in S \cup {0}, y \in S \cup {0} :
              x # p /\ x # b /\ IsNext(S, x, y) => IsNext(S \ {b}, x, y)
         /\ \A x \in S, y \in S \cup {0} :
              x # s /\ x # b /\ IsPrev(S, x, y) => IsPrev(S \ {b}, x, y)
<1>0. \A x \in S : x \in Nat /\ x > 0
  OBVIOUS
<1>1. p \in S \cup {0} /\ s \in S \cup {0} /\ p \in Nat /\ s \in Nat
  <2>1. p \in S \cup {0}
    BY DEF IsPrev
  <2>2. s \in S \cup {0}
    BY DEF IsNext
  <2> QED
    BY <2>1, <2>2
<1>2. p < b /\ \A y \in S : y < b => y <= p
  BY <1>0 DEF IsPrev
<1>3. (s # 0 => b < s) /\ \A y \in S : b < y => s # 0 /\ s <= y
  BY <1>0 DEF IsNext
<1>4. \A y \in S \ {b} : y <= p \/ (s # 0 /\ s <= y)
  BY <1>0, <1>2, <1>3
<1>5. \A y \in S \ {b} : y \in Nat /\ (p < y => s # 0 /\ s <= y) /\ (y < s => y <= p)
  BY <1>0, <1>1, <1>4
<1>6. IsNext(S \ {b}, p, s)
  <2>1. CASE s = 0
    <3>1. \A y \in S \ {b} : y <= p
      BY <1>4, <2>1
    <3> QED
      BY <2>1, <3>1 DEF IsNext
  <2>2. CASE s # 0
    <3>1. s \in S \ {b} /\ p < s
      BY <2>2, <1>0, <1>1, <1>2, <1>3
    <3>2. \A y \in S \ {b} : p < y => s <= y
      BY <1>5
    <3> QED
      BY <3>1, <3>2 DEF IsNext
  <2> QED
    BY <2>1, <2>2
<1>7. ASSUME s # 0 PROVE IsPrev(S \ {b}, s, p)
  <2>1. CASE p = 0
    <3>1. \A y \in S \ {b} : s <= y
      BY <1>0, <1>4, <1>7, <2>1
    <3> QED
      BY <2>1, <3>1 DEF IsPrev
  <2>2. CASE p # 0
    <3>1. p \in S \ {b} /\ p < s
      BY <2>2, <1>0, <1>1, <1>2, <1>3, <1>7
    <3>2. \A y \in S \ {b} : y < s => y <= p
      BY <1>5
    <3> QED
      BY <3>1, <3>2 DEF IsPrev
  <2> QED
    BY <2>1, <2>2
<1>8. ASSUME NEW x \in S \cup {0}, NEW y \in S \cup {0}, x # p, x # b, IsNext(S, x, y)
      PROVE  IsNext(S \ {b}, x, y)
  <2>1. CASE y = b
    <3>1. x < b /\ \A z \in S : x < z => b <= z
      BY <2>1, <1>8, <1>0 DEF IsNext
    <3>2. x \in Nat /\ (x \in S => x <= p)
      BY <3>1, <1>0, <1>2, <1>8
    <3>3. x < p
      BY <3>2, <1>1, <1>8
    <3>4. p \in S
      BY <3>3, <3>2, <1>1
    <3>5. b <= p
      BY <3>1, <3>3, <3>4
    <3> QED
      BY <3>5, <1>0, <1>1, <1>2
  <2>2. CASE y # b
    BY <2>2, <1>8 DEF IsNext
  <2> QED
    BY <2>1, <2>2
<1>9. ASSUME NEW x \in S, NEW y \in S \cup {0}, x # s, x # b, IsPrev(S, x, y)
      PROVE  IsPrev(S \ {b}, x, y)
  <2>1. CASE y = b
    <3>1. b < x /\ \A z \in S : z < x => z <= b
      BY <2>1, <1>9, <1>0 DEF IsPrev
    <3>2. s # 0 /\ s <= x /\ s \in S
      BY <3>1, <1>1, <1>3
    <3>3. s < x /\ b < s
      BY <3>2, <1>0, <1>1, <1>3, <1>9
    <3>4. s <= b
      BY <3>1, <3>2, <3>3
    <3> QED
      BY <3>3, <3>4, <1>0, <1>1
  <2>2. CASE y # b
    BY <2>2, <1>9 DEF IsPrev
  <2> QED
    BY <2>1, <2>2
<1> QED
  BY <1>6, <1>7, <1>8, <1>9

(* Putting b into a list between p and s.                                  *)
LEMMA WithMember ==
  ASSUME NEW S, S \subseteq Nat \ {0}, NEW b \in Nat \ {0}, b \notin S, NEW p, NEW s,
         IsPrev(S, b, p), IsNext(S, p, s)
  PROVE  /\ IsNext(S \cup {b}, p, b) /\ IsNext(S \cup {b}, b, s)
         /\ IsPrev(S \cup {b}, b, p)
         /\ s # 0 => IsPrev(S \cup {b}, s, b)
         /\ \A x \in S \cup {0}, y \in S \cup {0} :
              x # p /\ IsNext(S, x, y) => IsNext(S \cup {b}, x, y)
         /\ \A x \in S, y \in S \cup {0} :
              x # s /\ IsPrev(S, x, y) => IsPrev(S \cup {b}, x, y)
<1> DEFINE T == S \cup {b}
<1>0. \A x \in S : x \in Nat /\ x > 0 /\ x # b
  OBVIOUS
<1>1. p \in S \cup {0} /\ s \in S \cup {0} /\ p \in Nat /\ s \in Nat
  <2>1. p \in S \cup {0}
    BY DEF IsPrev
  <2>2. s \in S \cup {0}
    BY DEF IsNext
  <2> QED
    BY <2>1, <2>2
<1>2. p < b /\ \A y \in S : y < b => y <= p
  BY <1>0 DEF IsPrev
<1>3. (s # 0 => p < s) /\ \A y \in S : p < y => s # 0 /\ s <= y
  BY <1>0, <1>1 DEF IsNext
<1>4. s # 0 => b < s
  <2> SUFFICES ASSUME s # 0 PROVE b < s
    OBVIOUS
  <2>1. s \in S /\ s # b /\ p < s
    BY <1>0, <1>1, <1>3
  <2>2. ~(s < b)
    BY <2>1, <1>1, <1>2
  <2> QED
    BY <2>1, <2>2, <1>1
<1>5. \A y \in S : (b < y => s # 0 /\ s <= y) /\ (y < b => y <= p) /\ (p < y => b < y)
  <2> TAKE y \in S
  <2>1. b < y => p < y
    BY <1>0, <1>1, <1>2
  <2>2. p < y => ~(y < b)
    BY <1>0, <1>1, <1>2
  <2> QED
    BY <2>1, <2>2, <1>0, <1>2, <1>3
<1>6. IsNext(T, p, b)
  <2>1. b \in T /\ p < b /\ \A y \in T : p < y => b <= y
    BY <1>0, <1>2, <1>5
  <2> QED
    BY <2>1 DEF IsNext
<1>7. IsNext(T, b, s)
  <2>1. CASE s = 0
    <3>1. \A y \in T : y <= b
      BY <1>0, <1>5, <2>1
    <3> QED
      BY <2>1, <3>1 DEF IsNext
  <2>2. CASE s # 0
    <3>1. s \in T /\ b < s /\ \A y \in T : b < y => s <= y
      BY <2>2, <1>1, <1>4, <1>5
    <3> QED
      BY <3>1 DEF IsNext
  <2> QED
    BY <2>1, <2>2
<1>8. IsPrev(T, b, p)
  <2>1. CASE p = 0
    <3>1. \A y \in T : b <= y
      BY <1>0, <1>5, <2>1
    <3> QED
      BY <2>1, <3>1 DEF IsPrev
  <2>2. CASE p # 0
    <3>1. p \in T /\ p < b /\ \A y \in T : y < b => y <= p
      BY <2>2, <1>1, <1>2
    <3> QED
      BY <3>1 DEF IsPrev
  <2> QED
    BY <2>1, <2>2
<1>9. ASSUME s # 0 PROVE IsPrev(T, s, b)
  <2>1. \A y \in S : y < s => y <= b
    <3> SUFFICES ASSUME NEW y \in S, y < s, b < y PROVE FALSE
      BY <1>0
    <3>1. s <= y /\ y \in Nat
      BY <1>0, <1>5
    <3> QED
      BY <3>1, <1>1
  <2>2. b \in T /\ b < s /\ \A y \in T : y < s => y <= b
    BY <2>1, <1>4, <1>9
  <2> QED
    BY <2>2 DEF IsPrev
<1>10. ASSUME NEW x \in S \cup {0}, NEW y \in S \cup {0}, x # p, IsNext(S, x, y)
       PROVE  IsNext(T, x, y)
  <2>1. x \in Nat
    BY <1>0
  <2>2. CASE x < b
    <3>1. x < p
      BY <2>1, <2>2, <1>0, <1>1, <1>2, <1>10
    <3>2. p \in S
      BY <2>1, <3>1, <1>1
    <3>3. y \in S /\ x < y /\ y <= p /\ \A z \in S : x < z => y <= z
      BY <2>1, <3>1, <3>2, <1>0, <1>1, <1>10 DEF IsNext
    <3>4. y <= b
      BY <3>3, <1>0, <1>1, <1>2
    <3> QED
      BY <3>3, <3>4 DEF IsNext
  <2>3. CASE b < x
    <3>1. ~(x < b) /\ b <= x
      BY <2>1, <2>3
    <3>2. ~(x < b) => (IsNext(S, x, y) => IsNext(T, x, y))
      BY <3>1, <2>1, <2>3 DEF IsNext
    <3> QED
      BY <3>1, <3>2, <1>10
  <2> QED
    BY <2>1, <2>2, <2>3, <1>0
<1>11. ASSUME NEW x \in S, NEW y \in S \cup {0}, x # s, IsPrev(S, x, y)
       PROVE  IsPrev(T, x, y)
  <2>1. x \in Nat /\ x # b
    BY <1>0
  <2>2. CASE b < x
    <3>1. s # 0 /\ s <= x /\ s \in S
      BY <2>2, <1>1, <1>5
    <3>2. s < x
      BY <2>1, <3>1, <1>1, <1>11
    <3>3. y \in S /\ y < x /\ s <= y /\ \A z \in S : z < x => z <= y
      BY <3>1, <3>2, <1>0, <1>1, <1>11 DEF IsPrev
    <3>4. b <= y
      BY <3>1, <3>3, <1>0, <1>1, <1>4
    <3> QED
      BY <3>3, <3>4 DEF IsPrev
  <2>3. CASE x < b
    <3>1. ~(b < x) /\ x <= b
      BY <2>1, <2>3
    <3>2. ~(b < x) => (IsPrev(S, x, y) => IsPrev(T, x, y))
      BY <3>1, <2>1, <2>3 DEF IsPrev
    <3> QED
      BY <3>1, <3>2, <1>11
  <2> QED
    BY <2>1, <2>2, <2>3
<1> QED
  BY <1>6, <1>7, <1>8, <1>9, <1>10, <1>11

(* Writing one word, two, three or four.                                   *)
LEMMA OneWord ==
  ASSUME NEW D, NEW m \in [D -> Int], NEW a, NEW v \in Int
  PROVE  [m EXCEPT ![a] = v] \in [D -> Int]
OBVIOUS

(* Writing two words leaves the others alone.                              *)
LEMMA TwoWords ==
  ASSUME NEW D, NEW m \in [D -> Int], NEW a \in D, NEW v \in Int, NEW b \in D, NEW w \in Int
  PROVE  /\ [m EXCEPT ![a] = v, ![b] = w] \in [D -> Int]
         /\ [m EXCEPT ![a] = v, ![b] = w][b] = w
         /\ a # b => [m EXCEPT ![a] = v, ![b] = w][a] = v
         /\ \A x \in D : x # a /\ x # b => [m EXCEPT ![a] = v, ![b] = w][x] = m[x]
<1>1. [m EXCEPT ![a] = v] \in [D -> Int]
  OBVIOUS
<1>2. [m EXCEPT ![a] = v, ![b] = w] = [[m EXCEPT ![a] = v] EXCEPT ![b] = w]
  OBVIOUS
<1>3. [m EXCEPT ![a] = v, ![b] = w] \in [D -> Int]
  BY <1>1, <1>2, OneWord
<1> QED
  BY <1>3

(* Writing three words leaves the others alone.                            *)
LEMMA ThreeWords ==
  ASSUME NEW D, NEW m \in [D -> Int], NEW a \in D, NEW v \in Int, NEW b \in D, NEW w \in Int,
         NEW c \in D, NEW x \in Int
  PROVE  LET m2 == [m EXCEPT ![a] = v, ![b] = w, ![c] = x] IN
         /\ m2 \in [D -> Int]
         /\ m2[c] = x
         /\ b # c => m2[b] = w
         /\ a # b /\ a # c => m2[a] = v
         /\ \A z \in D : z # a /\ z # b /\ z # c => m2[z] = m[z]
<1> DEFINE m1 == [m EXCEPT ![a] = v, ![b] = w]
           m2 == [m1 EXCEPT ![c] = x]
<1>1. [m EXCEPT ![a] = v, ![b] = w, ![c] = x] = m2
  OBVIOUS
<1>2. m1 \in [D -> Int]
  BY TwoWords
<1>3. m2 \in [D -> Int]
  BY <1>2, OneWord
<1> QED
  BY <1>1, <1>2, <1>3

(* Four words are written, in this order.                                  *)
Four(m, a, v, b, w, c, x, d, y) == [m EXCEPT ![a] = v, ![b] = w, ![c] = x, ![d] = y]

(* Writing four words leaves the others alone.                             *)
LEMMA FourWords ==
  ASSUME NEW D, NEW m \in [D -> Int], NEW a \in D, NEW v \in Int, NEW b \in D, NEW w \in Int,
         NEW c \in D, NEW x \in Int, NEW d \in D, NEW y \in Int
  PROVE  Four(m, a, v, b, w, c, x, d, y) \in [D -> Int]
<1> DEFINE m1 == [m EXCEPT ![a] = v, ![b] = w]
           m2 == [m1 EXCEPT ![c] = x, ![d] = y]
<1>1. Four(m, a, v, b, w, c, x, d, y) = m2
  BY DEF Four
<1>2. m1 \in [D -> Int]
  BY TwoWords
<1>3. m2 \in [D -> Int]
  BY <1>2, TwoWords
<1> QED
  BY <1>1, <1>3

(* The words of a list: its head, the two pointers of its blocks, and the  *)
(* padding, which stands for the block that is not there.                  *)
LinkWords(class, S) == {0, class} \cup S \cup {x + 1 : x \in S}

(* The list of class can be where it is, among the words D.                *)
Fits(D, class, S) ==
  /\ class \in 1..N_LISTS /\ 0 \in D /\ class \in D
  /\ Apart(S)
  /\ \A x \in S : x > N_LISTS /\ x \in D /\ x + 1 \in D

(* The addresses of a list are different words.                            *)
LEMMA FitsFacts ==
  ASSUME NEW D, NEW class, NEW S, Fits(D, class, S)
  PROVE  /\ class \in Nat /\ class # 0 /\ S \subseteq Nat \ {0} /\ 0 \in D /\ class \in D
         /\ \A x \in S : /\ x \in Nat /\ x # 0 /\ x # class /\ x + 1 # class /\ x + 1 # 0
                         /\ x \in D /\ x + 1 \in D /\ x # x + 1
         /\ \A x, y \in S : x # y => x + 1 # y /\ x + 1 # y + 1 /\ y + 1 # x
<1>1. class \in Nat /\ class # 0 /\ class <= N_LISTS /\ N_LISTS \in Nat
  BY Constants DEF Fits
<1>2. ASSUME NEW x \in S
      PROVE  x \in Nat /\ x > N_LISTS /\ x \in D /\ x + 1 \in D /\ x # 0
  <2>1. x \in Nat /\ x > 4
    BY DEF Fits, Apart
  <2> QED
    BY <2>1 DEF Fits
<1>3. ASSUME NEW x \in S
      PROVE  /\ x \in Nat /\ x # 0 /\ x # class /\ x + 1 # class /\ x + 1 # 0
             /\ x \in D /\ x + 1 \in D /\ x # x + 1
  BY <1>1, <1>2
<1>4. ASSUME NEW x \in S, NEW y \in S, x # y
      PROVE  x + 1 # y /\ x + 1 # y + 1 /\ y + 1 # x
  <2>1. x < y => x + 4 <= y
    BY DEF Fits, Apart
  <2>2. y < x => y + 4 <= x
    BY DEF Fits, Apart
  <2>3. x \in Nat /\ y \in Nat
    BY <1>2
  <2> QED
    BY <2>1, <2>2, <2>3, <1>4
<1>5. 0 \in D /\ class \in D
  BY DEF Fits
<1> QED
  BY <1>1, <1>3, <1>4, <1>5

(* A block is taken off its list.                                          *)
LEMMA Unlink ==
  ASSUME NEW D, NEW m \in [D -> Int], NEW class, NEW S, Fits(D, class, S),
         Linked(m, class, S), NEW b \in S,
         IsFree(m, b), ClassOf(BlockSize(m, b)) = class
  PROVE  /\ delete_from_free_list(m, b) \in [D -> Int]
         /\ Linked(delete_from_free_list(m, b), class, S \ {b})
         /\ \A a \in D \ LinkWords(class, S) : delete_from_free_list(m, b)[a] = m[a]
<1> DEFINE p == m[b]
           s == m[b + 1]
           m2 == delete_from_free_list(m, b)
           mA == [m EXCEPT ![s] = 0, ![class] = s]
           mB == [m EXCEPT ![p + 1] = 0]
           mC == [m EXCEPT ![s] = p, ![p + 1] = s]
<1>0. /\ class \in Nat /\ class # 0 /\ S \subseteq Nat \ {0} /\ 0 \in D /\ class \in D
      /\ \A x \in S : /\ x \in Nat /\ x # 0 /\ x # class /\ x + 1 # class /\ x + 1 # 0
                      /\ x \in D /\ x + 1 \in D /\ x # x + 1
      /\ \A x, y \in S : x # y => x + 1 # y /\ x + 1 # y + 1 /\ y + 1 # x
  BY FitsFacts
<1>1. IsPrev(S, b, p) /\ IsNext(S, b, s)
  BY DEF Linked
<1>2. p \in S \cup {0} /\ s \in S \cup {0} /\ p # b /\ s # b
  <2>1. p \in S \cup {0} /\ p # b
    BY <1>0, <1>1 DEF IsPrev
  <2>2. s \in S \cup {0} /\ s # b
    BY <1>0, <1>1 DEF IsNext
  <2> QED
    BY <2>1, <2>2
<1>3. p # 0 /\ s # 0 => p # s
  <2> SUFFICES ASSUME p # 0, s # 0 PROVE p # s
    OBVIOUS
  <2>1. p < b /\ b < s /\ p \in Nat /\ s \in Nat /\ b \in Nat
    BY <1>0, <1>1, <1>2 DEF IsPrev, IsNext
  <2> QED
    BY <2>1
<1>4. m[class] # 0
  <2>1. IsNext(S, 0, m[class]) /\ ~(b <= 0)
    BY <1>0 DEF Linked
  <2> QED
    BY <2>1, <1>0 DEF IsNext
<1>5. m2 = IF p = 0 THEN mA ELSE IF s = 0 THEN mB ELSE mC
  BY <1>4, Zenon DEF delete_from_free_list, GET_PRED, GET_SUCC
<1> HIDE DEF m2
<1>6. /\ m2 \in [D -> Int]
      /\ p = 0 => m2[class] = s
      /\ p # 0 => m2[class] = m[class] /\ m2[p + 1] = s
      /\ s # 0 => m2[s] = p
      /\ \A x \in S \ {b} : (x # p => m2[x + 1] = m[x + 1]) /\ (x # s => m2[x] = m[x])
      /\ \A a \in D \ LinkWords(class, S) : m2[a] = m[a]
  <2>0. p \in Int /\ s \in Int
    BY <1>0
  <2>1. CASE p = 0
    <3>1. m2 = mA
      BY <1>5, <2>1
    <3>2. m2 \in [D -> Int]
      BY <3>1, <2>0, <1>0, <1>2, TwoWords
    <3>3. m2[class] = s /\ (s # 0 => m2[s] = 0)
      BY <3>1, <1>0, <1>2
    <3>4. \A a \in D : a # s /\ a # class => m2[a] = m[a]
      BY <3>1
    <3>5. ASSUME NEW x \in S \ {b}
          PROVE  m2[x + 1] = m[x + 1] /\ (x # s => m2[x] = m[x])
      <4>1. x + 1 \in D /\ x + 1 # class /\ x \in D /\ x # class /\ x + 1 # s
        BY <1>0, <1>2
      <4> QED
        BY <4>1, <3>4
    <3>6. \A a \in D \ LinkWords(class, S) : a # s /\ a # class
      BY <1>2 DEF LinkWords
    <3> QED
      BY <2>1, <3>2, <3>3, <3>4, <3>5, <3>6, Zenon
  <2>2. CASE p # 0 /\ s = 0
    <3>1. m2 = mB
      BY <1>5, <2>2
    <3>2. m2 \in [D -> Int]
      BY <3>1, OneWord
    <3>3. m2[class] = m[class] /\ m2[p + 1] = s
      BY <3>1, <1>0, <1>2, <2>2
    <3>4. \A a \in D : a # p + 1 => m2[a] = m[a]
      BY <3>1
    <3>5. ASSUME NEW x \in S \ {b}
          PROVE  (x # p => m2[x + 1] = m[x + 1]) /\ m2[x] = m[x]
      <4>1. x + 1 \in D /\ x \in D /\ x # p + 1 /\ (x # p => x + 1 # p + 1)
        BY <1>0, <1>2, <2>2
      <4> QED
        BY <4>1, <3>4
    <3>6. \A a \in D \ LinkWords(class, S) : a # p + 1
      BY <1>2, <2>2 DEF LinkWords
    <3> QED
      BY <2>2, <3>2, <3>3, <3>4, <3>5, <3>6, Zenon
  <2>3. CASE p # 0 /\ s # 0
    <3>1. m2 = mC
      BY <1>5, <2>3
    <3>2. p \in S /\ s \in S /\ s # p + 1 /\ s # class /\ class # p + 1 /\ p + 1 \in D /\ s \in D
      BY <1>0, <1>2, <1>3, <2>3
    <3>3. m2 \in [D -> Int]
      BY <3>1, <3>2, <2>0, TwoWords
    <3>4. m2[class] = m[class] /\ m2[p + 1] = s /\ m2[s] = p
      BY <3>1, <3>2, <1>0
    <3>5. \A a \in D : a # p + 1 /\ a # s => m2[a] = m[a]
      BY <3>1
    <3>6. ASSUME NEW x \in S \ {b}
          PROVE  (x # p => m2[x + 1] = m[x + 1]) /\ (x # s => m2[x] = m[x])
      <4>1. x + 1 \in D /\ x \in D /\ x # p + 1 /\ (x # p => x + 1 # p + 1) /\ x + 1 # s
        BY <1>0, <3>2
      <4> QED
        BY <4>1, <3>5
    <3>7. \A a \in D \ LinkWords(class, S) : a # p + 1 /\ a # s
      BY <3>2 DEF LinkWords
    <3> QED
      BY <2>3, <3>3, <3>4, <3>5, <3>6, <3>7, Zenon
  <2> QED
    BY <2>1, <2>2, <2>3
<1> DEFINE T == S \ {b}
<1>7. /\ IsNext(T, p, s)
      /\ s # 0 => IsPrev(T, s, p)
      /\ \A x \in S \cup {0}, y \in S \cup {0} :
           x # p /\ x # b /\ IsNext(S, x, y) => IsNext(T, x, y)
      /\ \A x \in S, y \in S \cup {0} :
           x # s /\ x # b /\ IsPrev(S, x, y) => IsPrev(T, x, y)
  BY <1>0, <1>1, WithoutMember
<1>8. \A x \in S : /\ IsNext(S, x, m[x + 1]) /\ m[x + 1] \in S \cup {0}
                   /\ IsPrev(S, x, m[x]) /\ m[x] \in S \cup {0}
  <2> TAKE x \in S
  <2>1. IsNext(S, x, m[x + 1]) /\ IsPrev(S, x, m[x])
    BY DEF Linked
  <2>2. m[x + 1] \in S \cup {0}
    BY <2>1 DEF IsNext
  <2>3. m[x] \in S \cup {0}
    BY <2>1 DEF IsPrev
  <2> QED
    BY <2>1, <2>2, <2>3
<1>9. IsNext(T, 0, m2[class])
  <2>1. CASE p = 0
    BY <2>1, <1>6, <1>7
  <2>2. CASE p # 0
    <3>1. IsNext(S, 0, m[class])
      BY DEF Linked
    <3>2. m[class] \in S \cup {0}
      BY <3>1 DEF IsNext
    <3>3. 0 \in S \cup {0} /\ 0 # b
      BY <1>0
    <3> QED
      BY <2>2, <3>1, <3>2, <3>3, <1>6, <1>7
  <2> QED
    BY <2>1, <2>2
<1>10. ASSUME NEW x \in T PROVE IsNext(T, x, m2[x + 1])
  <2>1. CASE x = p
    BY <2>1, <1>0, <1>6, <1>7
  <2>2. CASE x # p
    <3>1. m2[x + 1] = m[x + 1] /\ x \in S \cup {0} /\ x # b
      BY <2>2, <1>6
    <3> QED
      BY <2>2, <3>1, <1>7, <1>8
  <2> QED
    BY <2>1, <2>2
<1>11. ASSUME NEW x \in T PROVE IsPrev(T, x, m2[x])
  <2>1. CASE x = s
    BY <2>1, <1>0, <1>6, <1>7
  <2>2. CASE x # s
    <3>1. m2[x] = m[x] /\ x \in S /\ x # b
      BY <2>2, <1>6
    <3> QED
      BY <2>2, <3>1, <1>7, <1>8
  <2> QED
    BY <2>1, <2>2
<1>12. Linked(m2, class, T)
  <2> HIDE DEF T
  <2> QED
    BY <1>9, <1>10, <1>11 DEF Linked
<1> QED
  BY <1>6, <1>12 DEF m2

(* The block with a lesser address that insert_into_free_list looks for.   *)
Lesser(m, bp, list) ==
  LET higher == {k \in DOMAIN list : list[k] > bp}
  IN  IF higher = {} THEN list[Len(list)] ELSE GET_PRED(m, list[Min(higher)])

(* The block that insert_into_free_list goes behind is the one before it in*)
(* order of address.                                                       *)
LEMMA FindsLesser ==
  ASSUME NEW m, NEW class, NEW S, S \subseteq Nat \ {0}, S # {}, Linked(m, class, S),
         NEW n \in Nat, NEW list, Lists(m, list, n, S), NEW b \in Nat \ {0}, b \notin S
  PROVE  IsPrev(S, b, Lesser(m, b, list))
<1> DEFINE higher == {k \in DOMAIN list : list[k] > b}
<1>0. /\ DOMAIN list = 1..n /\ Len(list) = n
      /\ \A x \in S : \E k \in 1..n : list[k] = x
      /\ \A k \in 1..n : /\ k > 1 => list[k - 1] < list[k] /\ m[list[k]] = list[k - 1]
                         /\ k = 1 => m[list[k]] = 0 /\ \A x \in S : list[k] <= x
                         /\ k = n => \A x \in S : x <= list[k]
  BY Zenon DEF Lists
<1>1. \A k \in 1..n : list[k] \in S /\ list[k] \in Nat /\ list[k] # b
  <2>1. \A k \in 1..n : list[k] \in S
    BY Zenon DEF Lists
  <2> QED
    BY <2>1
<1>2. n \in 1..n
  <2>1. PICK x \in S : TRUE
    OBVIOUS
  <2>2. PICK k \in 1..n : list[k] = x
    BY <1>0
  <2> QED
    BY <2>2
<1>3. CASE higher = {}
  <2>1. Lesser(m, b, list) = list[n]
    BY <1>0, <1>3 DEF Lesser
  <2>2. ~(list[n] > b)
    BY <1>0, <1>2, <1>3
  <2>3. list[n] < b /\ list[n] \in S
    BY <2>2, <1>1, <1>2
  <2>4. \A y \in S : y <= list[n]
    BY <1>0, <1>2
  <2> QED
    BY <2>1, <2>3, <2>4 DEF IsPrev
<1>4. CASE higher # {}
  <2>1. higher \subseteq Nat
    BY <1>0
  <2> DEFINE k == Min(higher)
  <2>2. k \in higher /\ \A j \in higher : k <= j
    <3> HIDE DEF higher
    <3> QED
      BY <1>4, <2>1, MinIs
  <2>3. Lesser(m, b, list) = m[list[k]]
    BY <1>4 DEF Lesser, GET_PRED
  <2> HIDE DEF k
  <2>4. k \in 1..n /\ list[k] > b /\ list[k] \in Nat /\ list[k] \in S
    BY <2>2, <1>0, <1>1
  <2>5. CASE k = 1
    <3>1. m[list[k]] = 0 /\ \A x \in S : list[k] <= x
      BY <2>4, <2>5, <1>0
    <3>2. \A y \in S : b <= y
      BY <3>1, <2>4
    <3> QED
      BY <3>1, <3>2, <2>3 DEF IsPrev
  <2>6. CASE k # 1
    <3>1. k - 1 \in 1..n /\ k > 1 /\ ~(k <= k - 1)
      BY <2>4, <2>6
    <3>2. m[list[k]] = list[k - 1]
      BY <2>4, <3>1, <1>0
    <3>3. list[k - 1] \in S /\ list[k - 1] \in Nat /\ list[k - 1] # b
      BY <3>1, <1>1
    <3>4. ~(list[k - 1] > b)
      BY <2>2, <3>1, <1>0
    <3>5. list[k - 1] < b
      BY <3>3, <3>4
    <3>6. IsPrev(S, list[k], list[k - 1])
      BY <2>4, <3>2 DEF Linked
    <3>7. \A y \in S : y < list[k] => y <= list[k - 1]
      BY <3>3, <3>6 DEF IsPrev
    <3>8. \A y \in S : y < b => y <= list[k - 1]
      BY <3>7, <2>4
    <3> QED
      BY <3>2, <3>3, <3>5, <3>8, <2>3 DEF IsPrev
  <2> QED
    BY <2>5, <2>6
<1> QED
  BY <1>3, <1>4

(* A block is put on its list.                                             *)
LEMMA Relink ==
  ASSUME NEW D, NEW m \in [D -> Int], NEW class, NEW S, NEW b, b \notin S,
         Fits(D, class, S \cup {b}), Linked(m, class, S), ClassOf(BlockSize(m, b)) = class
  PROVE  /\ insert_into_free_list(m, b) \in [D -> Int]
         /\ Linked(insert_into_free_list(m, b), class, S \cup {b})
         /\ \A a \in D \ LinkWords(class, S \cup {b}) : insert_into_free_list(m, b)[a] = m[a]
<1> DEFINE T == S \cup {b}
           head == m[class]
           list == FreeList(m, class)
           p == IF head = 0 THEN 0 ELSE Lesser(m, b, list)
           s == IF p = 0 THEN head ELSE m[p + 1]
           m2 == insert_into_free_list(m, b)
           mA == [m EXCEPT ![b] = 0, ![b + 1] = 0, ![class] = b]
           mB == Four(m, head, b, b, 0, b + 1, head, class, b)
           mC == [m EXCEPT ![p + 1] = b, ![b] = p, ![b + 1] = 0]
           mD == Four(m, s, b, p + 1, b, b + 1, s, b, p)
<1>0. /\ class \in Nat /\ class # 0 /\ T \subseteq Nat \ {0} /\ 0 \in D /\ class \in D
      /\ \A x \in T : /\ x \in Nat /\ x # 0 /\ x # class /\ x + 1 # class /\ x + 1 # 0
                      /\ x \in D /\ x + 1 \in D /\ x # x + 1
      /\ \A x, y \in T : x # y => x + 1 # y /\ x + 1 # y + 1 /\ y + 1 # x
  BY FitsFacts
<1>1. S \subseteq Nat \ {0} /\ b \in Nat \ {0} /\ b \in T /\ \A x \in S : x \in T /\ x # b
  BY <1>0
<1>2. Apart(S)
  BY DEF Fits, Apart
<1>3. IsNext(S, 0, head)
  BY DEF Linked
<1>4. head = 0 <=> S = {}
  <2>1. ASSUME NEW y \in S PROVE ~(y <= 0)
    BY <1>1
  <2>2. head = 0 => S = {}
    BY <1>3, <1>1, <2>1 DEF IsNext
  <2>3. S = {} => head = 0
    BY <1>3 DEF IsNext
  <2> QED
    BY <2>2, <2>3
<1>5. IsPrev(S, b, p)
  <2>1. CASE head = 0
    BY <2>1, <1>4 DEF IsPrev
  <2>2. CASE head # 0
    <3>1. PICK n \in Nat : Lists(m, list, n, S)
      BY <1>2, FreeListIs
    <3> HIDE DEF list
    <3>2. IsPrev(S, b, Lesser(m, b, list))
      BY <2>2, <3>1, <1>1, <1>4, FindsLesser
    <3> QED
      BY <2>2, <3>2
  <2> QED
    BY <2>1, <2>2
<1>6. m2 = IF head = 0 THEN mA ELSE insert_after(m, class, Lesser(m, b, list), b)
  BY Zenon DEF insert_into_free_list, Lesser
<1>7. insert_after(m, class, p, b) = IF p = 0 THEN mB ELSE IF m[p + 1] = 0 THEN mC ELSE mD
  BY Zenon DEF insert_after, GET_SUCC, Four
<1>8. m2 = IF head = 0 THEN mA ELSE IF p = 0 THEN mB ELSE IF s = 0 THEN mC ELSE mD
  <2> HIDE DEF m2, mA, mB, mC, mD
  <2> QED
    BY <1>6, <1>7
<1>9. p \in S \cup {0}
  <2> HIDE DEF p
  <2> QED
    BY <1>5 DEF IsPrev
<1>10. IsNext(S, p, s) /\ s \in S \cup {0}
  <2>1. CASE p = 0
    BY <2>1, <1>3 DEF IsNext
  <2>2. CASE p # 0
    <3>1. p \in S /\ s = m[p + 1]
      BY <2>2, <1>9
    <3>2. IsNext(S, p, s)
      BY <3>1 DEF Linked
    <3> HIDE DEF p, s
    <3> QED
      BY <3>2 DEF IsNext
  <2> QED
    BY <2>1, <2>2
<1>11. head \in S \cup {0} /\ (p = 0 => s = head)
  BY <1>3 DEF IsNext
<1>12. p # 0 => head # 0
  BY <1>4, <1>9
<1>13. p # 0 /\ s # 0 => p # s
  <2> SUFFICES ASSUME p # 0, s # 0 PROVE p # s
    OBVIOUS
  <2> HIDE DEF p, s
  <2>1. p < s /\ p \in Nat /\ s \in Nat
    BY <1>9, <1>10, <1>1 DEF IsNext
  <2> QED
    BY <2>1
<1> HIDE DEF m2, p, s, head
<1>14. /\ m2 \in [D -> Int]
       /\ m2[b] = p /\ m2[b + 1] = s
       /\ p = 0 => m2[class] = b
       /\ p # 0 => m2[class] = m[class] /\ m2[p + 1] = b
       /\ s # 0 => m2[s] = b
       /\ \A x \in S : (x # p => m2[x + 1] = m[x + 1]) /\ (x # s => m2[x] = m[x])
       /\ \A a \in D \ LinkWords(class, T) : m2[a] = m[a]
  <2>0. /\ b \in D /\ b + 1 \in D /\ b # b + 1 /\ b # class /\ b + 1 # class /\ b \in Int
        /\ \A x \in S : x \in D /\ x + 1 \in D /\ x # b /\ x # b + 1 /\ x + 1 # b + 1 /\ x + 1 # b
                        /\ x # class /\ x + 1 # class /\ x \in Int
    BY <1>0, <1>1
  <2>1. \A a \in D \ LinkWords(class, T) :
           /\ a # 0 /\ a # class /\ a # b /\ a # b + 1
           /\ \A x \in S : a # x /\ a # x + 1
    BY <1>1 DEF LinkWords
  <2>2. p \in Int /\ s \in Int /\ head \in Int
    BY <1>1, <1>9, <1>10, <1>11
  <2>3. CASE head = 0
    <3>1. m2 = mA /\ p = 0 /\ s = 0 /\ S = {}
      BY <2>3, <1>4, <1>8, <1>9, <1>11
    <3>2. /\ mA \in [D -> Int] /\ mA[class] = b /\ mA[b + 1] = 0 /\ mA[b] = 0
          /\ \A z \in D : z # b /\ z # b + 1 /\ z # class => mA[z] = m[z]
      BY <2>0, <1>0, ThreeWords
    <3> HIDE DEF mA
    <3> QED
      BY <3>1, <3>2, <2>1
  <2>4. CASE head # 0 /\ p = 0
    <3>1. m2 = mB /\ s = head /\ head \in S
      BY <2>4, <1>8, <1>11
    <3>2. /\ mB \in [D -> Int] /\ mB[class] = b /\ mB[b + 1] = head /\ mB[b] = 0
          /\ mB[head] = b
          /\ \A z \in D : z # head /\ z # b /\ z # b + 1 /\ z # class => mB[z] = m[z]
      <4>1. /\ head \in D /\ head # b /\ head # b + 1 /\ head # class
            /\ b \in D /\ b + 1 \in D /\ class \in D /\ b # b + 1 /\ b # class
            /\ b + 1 # class /\ b \in Int /\ head \in Int /\ 0 \in Int
        BY <3>1, <2>0, <2>2, <1>0
      <4>2. mB \in [D -> Int]
        BY <4>1, FourWords
      <4>3. /\ mB[class] = b /\ mB[b + 1] = head /\ mB[b] = 0 /\ mB[head] = b
            /\ \A z \in D : z # head /\ z # b /\ z # b + 1 /\ z # class => mB[z] = m[z]
        BY <4>1 DEF Four
      <4> QED
        BY <4>2, <4>3
    <3> HIDE DEF mB
    <3>3. ASSUME NEW x \in S
          PROVE  m2[x + 1] = m[x + 1] /\ (x # s => m2[x] = m[x])
      <4>1. /\ x + 1 \in D /\ x + 1 # head /\ x + 1 # b /\ x + 1 # b + 1 /\ x + 1 # class
            /\ x \in D /\ x # b /\ x # b + 1 /\ x # class
        BY <2>0, <1>0, <1>1, <3>1
      <4> QED
        BY <4>1, <3>1, <3>2
    <3>4. \A a \in D \ LinkWords(class, T) : m2[a] = m[a]
      BY <2>1, <3>1, <3>2
    <3> QED
      BY <2>4, <3>1, <3>2, <3>3, <3>4
  <2>5. CASE p # 0 /\ s = 0
    <3>1. m2 = mC /\ p \in S
      BY <2>5, <1>8, <1>9, <1>12
    <3>2. /\ mC \in [D -> Int] /\ mC[b + 1] = 0 /\ mC[b] = p /\ mC[p + 1] = b
          /\ \A z \in D : z # p + 1 /\ z # b /\ z # b + 1 => mC[z] = m[z]
      <4>1. p + 1 \in D /\ p + 1 # b /\ p + 1 # b + 1
        BY <3>1, <2>0
      <4> QED
        BY <4>1, <2>0, <2>2, <1>0, ThreeWords
    <3> HIDE DEF mC
    <3>3. ASSUME NEW x \in S
          PROVE  (x # p => m2[x + 1] = m[x + 1]) /\ m2[x] = m[x]
      <4>1. /\ x + 1 \in D /\ (x # p => x + 1 # p + 1) /\ x + 1 # b /\ x + 1 # b + 1
            /\ x \in D /\ x # b /\ x # b + 1 /\ x # p + 1
        BY <2>0, <1>0, <1>1, <3>1
      <4> QED
        BY <4>1, <3>1, <3>2
    <3>4. \A a \in D \ LinkWords(class, T) : m2[a] = m[a]
      BY <2>1, <3>1, <3>2
    <3>5. m2[class] = m[class]
      <4>1. class # p + 1 /\ class # b /\ class # b + 1
        BY <2>0, <3>1
      <4> QED
        BY <4>1, <3>1, <3>2, <1>0
    <3> QED
      BY <2>5, <3>1, <3>2, <3>3, <3>4, <3>5
  <2>6. CASE p # 0 /\ s # 0
    <3>1. m2 = mD /\ p \in S /\ s \in S
      BY <2>6, <1>8, <1>9, <1>10, <1>12
    <3>2. /\ p + 1 \in D /\ p + 1 # b /\ p + 1 # b + 1 /\ s \in D /\ s # b /\ s # b + 1
          /\ s # p + 1
      BY <3>1, <2>0, <2>6, <1>13, <1>0, <1>1
    <3>3. /\ mD \in [D -> Int] /\ mD[b] = p /\ mD[b + 1] = s /\ mD[p + 1] = b /\ mD[s] = b
          /\ \A z \in D : z # s /\ z # p + 1 /\ z # b + 1 /\ z # b => mD[z] = m[z]
      <4>1. b \in D /\ b + 1 \in D /\ b # b + 1 /\ b \in Int /\ p \in Int /\ s \in Int
        BY <2>0, <2>2
      <4>2. mD \in [D -> Int]
        BY <3>2, <4>1, FourWords
      <4>3. /\ mD[b] = p /\ mD[b + 1] = s /\ mD[p + 1] = b /\ mD[s] = b
            /\ \A z \in D : z # s /\ z # p + 1 /\ z # b + 1 /\ z # b => mD[z] = m[z]
        BY <3>2, <4>1 DEF Four
      <4> QED
        BY <4>2, <4>3
    <3> HIDE DEF mD
    <3>4. ASSUME NEW x \in S
          PROVE  (x # p => m2[x + 1] = m[x + 1]) /\ (x # s => m2[x] = m[x])
      <4>1. /\ x + 1 \in D /\ (x # p => x + 1 # p + 1) /\ x + 1 # b /\ x + 1 # b + 1 /\ x + 1 # s
            /\ x \in D /\ x # b /\ x # b + 1 /\ x # p + 1
        BY <2>0, <1>0, <1>1, <3>1
      <4> QED
        BY <4>1, <3>1, <3>3
    <3>5. \A a \in D \ LinkWords(class, T) : m2[a] = m[a]
      BY <2>1, <3>1, <3>3
    <3>6. m2[class] = m[class]
      <4>1. class # p + 1 /\ class # b /\ class # b + 1 /\ class # s
        BY <2>0, <3>1
      <4> QED
        BY <4>1, <3>1, <3>3, <1>0
    <3> QED
      BY <2>6, <3>1, <3>3, <3>4, <3>5, <3>6
  <2> QED
    BY <2>3, <2>4, <2>5, <2>6
<1>15. /\ IsNext(T, p, b) /\ IsNext(T, b, s) /\ IsPrev(T, b, p)
       /\ s # 0 => IsPrev(T, s, b)
       /\ \A x \in S \cup {0}, y \in S \cup {0} :
            x # p /\ IsNext(S, x, y) => IsNext(T, x, y)
       /\ \A x \in S, y \in S \cup {0} :
            x # s /\ IsPrev(S, x, y) => IsPrev(T, x, y)
  BY <1>1, <1>5, <1>10, WithMember
<1>16. \A x \in S : /\ IsNext(S, x, m[x + 1]) /\ m[x + 1] \in S \cup {0}
                    /\ IsPrev(S, x, m[x]) /\ m[x] \in S \cup {0}
  <2> TAKE x \in S
  <2>1. IsNext(S, x, m[x + 1]) /\ IsPrev(S, x, m[x])
    BY DEF Linked
  <2>2. m[x + 1] \in S \cup {0}
    BY <2>1 DEF IsNext
  <2>3. m[x] \in S \cup {0}
    BY <2>1 DEF IsPrev
  <2> QED
    BY <2>1, <2>2, <2>3
<1>17. IsNext(T, 0, m2[class])
  <2>1. CASE p = 0
    BY <2>1, <1>14, <1>15
  <2>2. CASE p # 0
    <3>1. 0 \in S \cup {0} /\ 0 # p
      BY <2>2
    <3> QED
      BY <2>2, <3>1, <1>3, <1>11, <1>14, <1>15 DEF head
  <2> QED
    BY <2>1, <2>2
<1>18. ASSUME NEW x \in T PROVE IsNext(T, x, m2[x + 1])
  <2>1. CASE x = b
    BY <2>1, <1>14, <1>15
  <2>2. CASE x = p
    <3>1. p # 0
      BY <2>2, <1>0
    <3> QED
      BY <2>2, <3>1, <1>14, <1>15
  <2>3. CASE x # p /\ x # b
    <3>1. m2[x + 1] = m[x + 1] /\ x \in S
      BY <2>3, <1>14
    <3> QED
      BY <2>3, <3>1, <1>15, <1>16
  <2> QED
    BY <2>1, <2>2, <2>3
<1>19. ASSUME NEW x \in T PROVE IsPrev(T, x, m2[x])
  <2>1. CASE x = b
    BY <2>1, <1>14, <1>15
  <2>2. CASE x = s
    <3>1. s # 0
      BY <2>2, <1>0
    <3> QED
      BY <2>2, <3>1, <1>14, <1>15
  <2>3. CASE x # s /\ x # b
    <3>1. m2[x] = m[x] /\ x \in S
      BY <2>3, <1>14
    <3> QED
      BY <2>3, <3>1, <1>15, <1>16
  <2> QED
    BY <2>1, <2>2, <2>3
<1>20. Linked(m2, class, T)
  <2> HIDE DEF T
  <2> QED
    BY <1>17, <1>18, <1>19 DEF Linked
<1> QED
  BY <1>14, <1>20 DEF m2

-----------------------------------------------------------------------------
(* The words of one block are not those of another, nor of the prologue,   *)
(* the list heads or the epilogue.                                         *)
LEMMA OwnWords ==
  ASSUME NEW E, NEW sz, Tiles(E, sz), NEW b \in DOMAIN sz,
         NEW a \in (b - 1)..(b + sz[b] - 2)
  PROVE  /\ a \in Exited..(E - 1) /\ a > N_LISTS + 2 /\ a < E - 1 /\ a # 0
         /\ \A x \in DOMAIN sz \ {b} : a # x /\ a # x + 1 /\ a # x - 1 /\ a # x + sz[x] - 2
<1>1. /\ b \in Nat /\ sz[b] \in Nat /\ E \in Nat /\ sz[b] >= 4 /\ b >= 6
      /\ N_LISTS + 4 <= b /\ b + sz[b] <= E
  BY BlockAt
<1>2. N_LISTS \in Nat
  BY Constants
<1>3. a \in Int /\ a >= b - 1 /\ a <= b + sz[b] - 2
  BY <1>1
<1>4. ASSUME NEW x \in DOMAIN sz \ {b}
      PROVE  a # x /\ a # x + 1 /\ a # x - 1 /\ a # x + sz[x] - 2
  <2>1. x \in Nat /\ sz[x] \in Nat /\ sz[x] >= 4
    BY BlockAt
  <2>2. b + sz[b] <= x \/ x + sz[x] <= b
    BY BlocksDisjoint
  <2> QED
    BY <2>1, <2>2, <1>1, <1>3
<1> QED
  BY <1>1, <1>2, <1>3, <1>4 DEF Exited

(* The words of the heap outside W are what they were.                     *)
Elsewhere(m, m2, E, W) == \A a \in (Exited..(E - 1)) \ W : m2[a] = m[a]

(* Every word of the payload of the blocks W is what it was.               *)
Same(m, m2, sz, W) == \A u \in W : \A a \in u..(u + sz[u] - 3) : m2[a] = m[a]

(* Pointers of a list are not tags, nor the payload of other blocks.       *)
LEMMA LinksKeepTags ==
  ASSUME NEW m, NEW m2, NEW E, NEW sz, NEW U, Tiles(E, sz), Tagged(m, E, sz, U),
         NEW class \in 1..N_LISTS, NEW S, S \subseteq DOMAIN sz,
         m2 \in [Exited..(E - 1) -> Int],
         Elsewhere(m, m2, E, LinkWords(class, S))
  PROVE  /\ Tagged(m2, E, sz, U)
         /\ Same(m, m2, sz, DOMAIN sz \ S)
<1>0. E \in Nat /\ N_LISTS \in Nat /\ N_LISTS + 4 <= E /\ class \in Nat /\ class >= 1
      /\ class <= N_LISTS
  BY Constants DEF Tiles, Even
<1>1. ASSUME NEW b \in DOMAIN sz, NEW a \in (b - 1)..(b + sz[b] - 2),
             b \in S => a # b /\ a # b + 1
      PROVE  m2[a] = m[a]
  <2>1. /\ a \in Exited..(E - 1) /\ a > N_LISTS + 2 /\ a # 0
        /\ \A x \in DOMAIN sz \ {b} : a # x /\ a # x + 1
    BY OwnWords
  <2>2. \A x \in S : a # x /\ a # x + 1
    BY <1>1, <2>1
  <2>3. a # class
    BY <1>0, <2>1
  <2>4. a \notin LinkWords(class, S)
    BY <2>1, <2>2, <2>3 DEF LinkWords
  <2> QED
    BY <2>1, <2>4 DEF Elsewhere
<1>2. ASSUME NEW b \in DOMAIN sz
      PROVE  m2[b - 1] = m[b - 1] /\ m2[b + sz[b] - 2] = m[b + sz[b] - 2]
  <2>1. b \in Nat /\ sz[b] \in Nat /\ sz[b] >= 4
    BY BlockAt
  <2>2. /\ b - 1 \in (b - 1)..(b + sz[b] - 2) /\ b - 1 # b /\ b - 1 # b + 1
        /\ b + sz[b] - 2 \in (b - 1)..(b + sz[b] - 2) /\ b + sz[b] - 2 # b
        /\ b + sz[b] - 2 # b + 1
    BY <2>1
  <2> QED
    BY <2>2, <1>1
<1>3. ASSUME NEW a \in {Exited, N_LISTS + 1, N_LISTS + 2, E - 1}
      PROVE  m2[a] = m[a]
  <2>1. \A x \in S : x \in Nat /\ x >= N_LISTS + 4 /\ x + 4 <= E
    <3> TAKE x \in S
    <3>1. /\ x \in Nat /\ sz[x] \in Nat /\ sz[x] >= 4
          /\ N_LISTS + 4 <= x /\ x + sz[x] <= E
      BY BlockAt
    <3> QED
      BY <3>1, <1>0
  <2>2. ASSUME NEW x \in S PROVE a # x /\ a # x + 1
    <3>1. x \in Nat /\ x >= N_LISTS + 4 /\ x + 4 <= E
      BY <2>1
    <3> QED
      BY <3>1, <1>0 DEF Exited
  <2>3. a \in Exited..(E - 1) /\ a # 0 /\ a # class
    BY <1>0 DEF Exited
  <2>4. a \notin LinkWords(class, S)
    BY <2>2, <2>3 DEF LinkWords
  <2> QED
    BY <2>3, <2>4 DEF Elsewhere
<1>4. Tagged(m2, E, sz, U)
  <2>1. m2[Exited] = m[Exited] /\ m2[N_LISTS + 1] = m[N_LISTS + 1]
        /\ m2[Prologue] = m[Prologue] /\ m2[E - 1] = m[E - 1]
    BY <1>3 DEF Prologue
  <2> QED
    BY <1>2, <2>1 DEF Tagged
<1>5. Same(m, m2, sz, DOMAIN sz \ S)
  <2> SUFFICES ASSUME NEW u \in DOMAIN sz \ S, NEW a \in u..(u + sz[u] - 3)
               PROVE  m2[a] = m[a]
    BY DEF Same
  <2>1. u \in Nat /\ sz[u] \in Nat
    BY BlockAt
  <2>2. a \in (u - 1)..(u + sz[u] - 2)
    BY <2>1
  <2> QED
    BY <2>2, <1>1
<1> QED
  BY <1>4, <1>5

(* A list is where it was if its words are what they were.                 *)
LEMMA ListKept ==
  ASSUME NEW m, NEW m2, NEW class, NEW S, Linked(m, class, S),
         m2[class] = m[class], \A x \in S : m2[x] = m[x] /\ m2[x + 1] = m[x + 1]
  PROVE  Linked(m2, class, S)
BY DEF Linked

(* A list none of whose words is written is as it was.                     *)
LEMMA OtherListsKept ==
  ASSUME NEW m, NEW m2, NEW E, NEW sz, Tiles(E, sz), NEW class \in 1..N_LISTS, NEW S,
         S \subseteq DOMAIN sz,
         Elsewhere(m, m2, E, LinkWords(class, S)),
         NEW c \in 1..N_LISTS, c # class, NEW T, T \subseteq DOMAIN sz \ S, Linked(m, c, T)
  PROVE  Linked(m2, c, T)
<1>0. E \in Nat /\ N_LISTS \in Nat /\ N_LISTS + 4 <= E /\ class \in Nat /\ class >= 1
      /\ class <= N_LISTS /\ c \in Nat /\ c >= 1 /\ c <= N_LISTS
  BY Constants DEF Tiles, Even
<1>1. \A x \in S : x \in Nat /\ x >= N_LISTS + 4
  <2> TAKE x \in S
  <2>1. x \in Nat /\ N_LISTS + 4 <= x
    BY BlockAt
  <2> QED
    BY <2>1, <1>0
<1>2. m2[c] = m[c]
  <2>1. \A x \in S : c # x /\ c # x + 1
    BY <1>0, <1>1
  <2>2. c \notin LinkWords(class, S)
    BY <2>1, <1>0 DEF LinkWords
  <2>3. c \in Exited..(E - 1)
    BY <1>0 DEF Exited
  <2> QED
    BY <2>2, <2>3 DEF Elsewhere
<1>3. ASSUME NEW x \in T PROVE m2[x] = m[x] /\ m2[x + 1] = m[x + 1]
  <2>1. x \in DOMAIN sz /\ x \in Nat /\ sz[x] \in Nat /\ sz[x] >= 4 /\ x \notin S
    BY BlockAt
  <2>2. ASSUME NEW a \in {x, x + 1} PROVE m2[a] = m[a]
    <3>1. a \in (x - 1)..(x + sz[x] - 2)
      BY <2>1
    <3>2. /\ a \in Exited..(E - 1) /\ a > N_LISTS + 2 /\ a # 0
          /\ \A y \in DOMAIN sz \ {x} : a # y /\ a # y + 1
      BY <2>1, <3>1, OwnWords
    <3>3. \A y \in S : a # y /\ a # y + 1
      BY <2>1, <3>2
    <3>4. a # class
      BY <1>0, <3>2
    <3>5. a \notin LinkWords(class, S)
      BY <3>2, <3>3, <3>4 DEF LinkWords
    <3> QED
      BY <3>2, <3>5 DEF Elsewhere
  <2> QED
    BY <2>2
<1> QED
  BY <1>2, <1>3, ListKept

(* The lists of blocks lie inside the heap.                                *)
LEMMA ListsFit ==
  ASSUME NEW E, NEW sz, Tiles(E, sz), NEW S, S \subseteq DOMAIN sz, NEW class \in 1..N_LISTS
  PROVE  Fits(Exited..(E - 1), class, S)
<1>0. E \in Nat /\ N_LISTS \in Nat /\ N_LISTS + 4 <= E /\ class \in Nat /\ class >= 1
      /\ class <= N_LISTS
  BY Constants DEF Tiles, Even
<1>1. Apart(S)
  BY BlocksApart
<1>2. ASSUME NEW x \in S
      PROVE  x > N_LISTS /\ x \in Exited..(E - 1) /\ x + 1 \in Exited..(E - 1)
  <2>1. /\ x \in Nat /\ sz[x] \in Nat /\ sz[x] >= 4
        /\ N_LISTS + 4 <= x /\ x + sz[x] <= E
    BY BlockAt
  <2> QED
    BY <1>0, <2>1 DEF Exited
<1>3. 0 \in Exited..(E - 1) /\ class \in Exited..(E - 1)
  BY <1>0 DEF Exited
<1> QED
  BY <1>1, <1>2, <1>3 DEF Fits

(* delete_from_free_list takes a block off the lists, and nothing else.    *)
LEMMA Deleted ==
  ASSUME NEW m, NEW E, NEW sz, NEW U, NEW L, Heap(m, E, sz, U, L), NEW b \in L
  PROVE  /\ Heap(delete_from_free_list(m, b), E, sz, U, L \ {b})
         /\ Same(m, delete_from_free_list(m, b), sz, U)
<1> DEFINE D == Exited..(E - 1)
           class == ClassOf(sz[b])
           S == OfClass(sz, L, class)
           m2 == delete_from_free_list(m, b)
<1>0. Tiles(E, sz) /\ Tagged(m, E, sz, U) /\ Listed(m, sz, L) /\ L \subseteq DOMAIN sz \ U
  BY DEF Heap
<1>1. b \in DOMAIN sz /\ b \notin U /\ b \in S
  BY <1>0 DEF OfClass
<1>2. BlockSize(m, b) = sz[b] /\ IsFree(m, b) /\ sz[b] \in Nat /\ sz[b] >= 4
  BY <1>0, <1>1, BlockTags, BlockAt
<1>3. class \in 1..N_LISTS
  <2>1. class \in 1..(N_LISTS - 1)
    BY <1>2, Classes
  <2> QED
    BY <2>1, Constants
<1>4. S \subseteq L /\ S \subseteq DOMAIN sz
  BY <1>0 DEF OfClass
<1>5. Fits(D, class, S) /\ Linked(m, class, S) /\ m \in [D -> Int]
  BY <1>0, <1>3, <1>4, ListsFit DEF Listed, Tagged
<1> HIDE DEF S, class, D
<1>6. /\ m2 \in [D -> Int] /\ Linked(m2, class, S \ {b})
      /\ Elsewhere(m, m2, E, LinkWords(class, S))
  <2>1. ClassOf(BlockSize(m, b)) = class
    BY <1>2 DEF class
  <2>2. /\ delete_from_free_list(m, b) \in [D -> Int]
        /\ Linked(delete_from_free_list(m, b), class, S \ {b})
        /\ \A a \in D \ LinkWords(class, S) : delete_from_free_list(m, b)[a] = m[a]
    BY <2>1, <1>1, <1>2, <1>5, Unlink
  <2> QED
    BY <2>2 DEF D, Elsewhere
<1> HIDE DEF m2
<1>7. Tagged(m2, E, sz, U) /\ Same(m, m2, sz, DOMAIN sz \ S)
  BY <1>0, <1>3, <1>4, <1>6, LinksKeepTags DEF D
<1>8. ASSUME NEW c \in 1..N_LISTS PROVE Linked(m2, c, OfClass(sz, L \ {b}, c))
  <2>1. CASE c = class
    <3>1. OfClass(sz, L \ {b}, c) = S \ {b}
      BY <2>1 DEF OfClass, S
    <3> QED
      BY <2>1, <3>1, <1>6
  <2>2. CASE c # class
    <3>1. OfClass(sz, L \ {b}, c) = OfClass(sz, L, c)
      BY <2>2 DEF OfClass, class
    <3>2. OfClass(sz, L, c) \subseteq DOMAIN sz \ S
      BY <2>2, <1>0 DEF OfClass, S
    <3>3. Linked(m, c, OfClass(sz, L, c))
      BY <1>0 DEF Listed
    <3>5. Linked(m2, c, OfClass(sz, L, c))
      <4>1. Tiles(E, sz) /\ class \in 1..N_LISTS
        BY <1>0, <1>3
      <4> QED
        BY <2>2, <3>2, <3>3, <4>1, <1>4, <1>6, OtherListsKept
    <3> QED
      BY <3>1, <3>5
  <2> QED
    BY <2>1, <2>2
<1>9. Same(m, m2, sz, U)
  <2>1. U \subseteq DOMAIN sz \ S
    BY <1>0, <1>4 DEF Tagged
  <2> QED
    BY <2>1, <1>7 DEF Same
<1>10. L \ {b} \subseteq DOMAIN sz \ U
  BY <1>0
<1>11. Heap(m2, E, sz, U, L \ {b})
  BY <1>0, <1>7, <1>8, <1>10 DEF Heap, Listed
<1> QED
  BY <1>9, <1>11 DEF m2

(* insert_into_free_list puts a block on its list, and nothing else.       *)
LEMMA Inserted ==
  ASSUME NEW m, NEW E, NEW sz, NEW U, NEW L, Heap(m, E, sz, U, L),
         NEW b \in DOMAIN sz, b \notin U, b \notin L
  PROVE  /\ Heap(insert_into_free_list(m, b), E, sz, U, L \cup {b})
         /\ Same(m, insert_into_free_list(m, b), sz, U)
<1> DEFINE D == Exited..(E - 1)
           class == ClassOf(sz[b])
           S == OfClass(sz, L, class)
           T == S \cup {b}
           m2 == insert_into_free_list(m, b)
<1>0. Tiles(E, sz) /\ Tagged(m, E, sz, U) /\ Listed(m, sz, L) /\ L \subseteq DOMAIN sz \ U
  BY DEF Heap
<1>1. b \notin S
  BY DEF OfClass
<1>2. BlockSize(m, b) = sz[b] /\ sz[b] \in Nat /\ sz[b] >= 4
  BY <1>0, BlockTags, BlockAt
<1>3. class \in 1..N_LISTS
  <2>1. class \in 1..(N_LISTS - 1)
    BY <1>2, Classes
  <2> QED
    BY <2>1, Constants
<1>4. S \subseteq L /\ T \subseteq DOMAIN sz
  BY <1>0 DEF OfClass
<1>5. Fits(D, class, T) /\ Linked(m, class, S) /\ m \in [D -> Int]
  BY <1>0, <1>3, <1>4, ListsFit DEF Listed, Tagged
<1> HIDE DEF S, class, D
<1>6. /\ m2 \in [D -> Int] /\ Linked(m2, class, T)
      /\ Elsewhere(m, m2, E, LinkWords(class, T))
  <2>1. ClassOf(BlockSize(m, b)) = class
    BY <1>2 DEF class
  <2>2. Fits(D, class, S \cup {b})
    BY <1>5
  <2>3. /\ insert_into_free_list(m, b) \in [D -> Int]
        /\ Linked(insert_into_free_list(m, b), class, S \cup {b})
        /\ \A a \in D \ LinkWords(class, S \cup {b}) : insert_into_free_list(m, b)[a] = m[a]
    BY <2>1, <2>2, <1>1, <1>5, Relink
  <2> QED
    BY <2>3 DEF D, Elsewhere
<1> HIDE DEF m2, T
<1>7. Tagged(m2, E, sz, U) /\ Same(m, m2, sz, DOMAIN sz \ T)
  BY <1>0, <1>3, <1>4, <1>6, LinksKeepTags DEF D
<1>8. ASSUME NEW c \in 1..N_LISTS PROVE Linked(m2, c, OfClass(sz, L \cup {b}, c))
  <2>1. CASE c = class
    <3>1. OfClass(sz, L \cup {b}, c) = T
      BY <2>1 DEF OfClass, S, T, class
    <3> QED
      BY <2>1, <3>1, <1>6
  <2>2. CASE c # class
    <3>1. OfClass(sz, L \cup {b}, c) = OfClass(sz, L, c)
      BY <2>2 DEF OfClass, class
    <3>2. OfClass(sz, L, c) \subseteq DOMAIN sz \ T
      BY <2>2, <1>0 DEF OfClass, S, T, class
    <3>3. Linked(m, c, OfClass(sz, L, c))
      BY <1>0 DEF Listed
    <3>5. Linked(m2, c, OfClass(sz, L, c))
      <4>1. Tiles(E, sz) /\ class \in 1..N_LISTS
        BY <1>0, <1>3
      <4> QED
        BY <2>2, <3>2, <3>3, <4>1, <1>4, <1>6, OtherListsKept
    <3> QED
      BY <3>1, <3>5
  <2> QED
    BY <2>1, <2>2
<1>9. Same(m, m2, sz, U)
  <2>1. U \subseteq DOMAIN sz \ T
    BY <1>0, <1>4 DEF Tagged, T
  <2> QED
    BY <2>1, <1>7 DEF Same
<1>10. L \cup {b} \subseteq DOMAIN sz \ U
  BY <1>0
<1>11. Heap(m2, E, sz, U, L \cup {b})
  BY <1>0, <1>7, <1>8, <1>10 DEF Heap, Listed
<1> QED
  BY <1>9, <1>11 DEF m2

(* The blocks outside the n words from the block p on.                     *)
Outside(sz, p, n) == {b \in DOMAIN sz : b < p \/ p + n <= b}

(* The words of those blocks and of everything else outside.               *)
LEMMA OutsideWords ==
  ASSUME NEW E, NEW sz, Tiles(E, sz), NEW p \in DOMAIN sz, NEW n \in Nat, n >= 4,
         p + n \in DOMAIN sz \cup {E}
  PROVE  /\ p + n <= E
         /\ \A b \in Outside(sz, p, n) :
              /\ b + sz[b] <= p \/ p + n <= b
              /\ b + sz[b] \in Outside(sz, p, n) \cup {p, E}
              /\ \A a \in (b - 1)..(b + sz[b] - 2) : a \notin (p - 1)..(p + n - 2)
<1>0. /\ p \in Nat /\ sz[p] \in Nat /\ E \in Nat /\ sz[p] >= 4 /\ p + sz[p] <= E
      /\ N_LISTS + 4 <= p
  BY BlockAt
<1>1. p + n <= E
  <2>1. CASE p + n = E
    BY <2>1, <1>0
  <2>2. CASE p + n \in DOMAIN sz
    <3>1. (p + n) + sz[p + n] <= E /\ sz[p + n] \in Nat
      BY <2>2, BlockAt
    <3> QED
      BY <3>1, <1>0
  <2> QED
    BY <2>1, <2>2
<1>2. ASSUME NEW b \in Outside(sz, p, n)
      PROVE  /\ b + sz[b] <= p \/ p + n <= b
             /\ b + sz[b] \in Outside(sz, p, n) \cup {p, E}
             /\ \A a \in (b - 1)..(b + sz[b] - 2) : a \notin (p - 1)..(p + n - 2)
  <2>1. /\ b \in DOMAIN sz /\ b \in Nat /\ sz[b] \in Nat /\ sz[b] >= 4 /\ b + sz[b] <= E
        /\ b + sz[b] \in DOMAIN sz \cup {E}
    BY BlockAt DEF Outside
  <2>2. b + sz[b] <= p \/ p + n <= b
    <3>1. b < p => b + sz[b] <= p
      BY <2>1 DEF Tiles
    <3> QED
      BY <3>1 DEF Outside
  <2>3. b + sz[b] = p \/ b + sz[b] < p \/ p + n <= b + sz[b]
    BY <2>1, <2>2, <1>0
  <2>4. b + sz[b] \in Outside(sz, p, n) \cup {p, E}
    BY <2>1, <2>3 DEF Outside
  <2>5. \A a \in (b - 1)..(b + sz[b] - 2) : a \notin (p - 1)..(p + n - 2)
    BY <2>1, <2>2, <1>0
  <2> QED
    BY <2>2, <2>4, <2>5
<1> QED
  BY <1>1, <1>2

(* sz2 is what sz was outside the n words from p on, and inside the blocks *)
(* of N, which cover them.                                                 *)
Recut(E, sz, sz2, p, n, N) ==
  /\ DOMAIN sz2 = Outside(sz, p, n) \cup N
  /\ p \in N
  /\ \A b \in Outside(sz, p, n) : sz2[b] = sz[b]
  /\ \A b \in N : /\ Even(b) /\ Even(sz2[b]) /\ sz2[b] >= 4
                  /\ p <= b /\ b + sz2[b] <= p + n
                  /\ b + sz2[b] \in N \cup {p + n}
  /\ \A b, c \in N : b < c => b + sz2[b] <= c

(* The tags of the blocks of N.                                            *)
TaggedIn(m, sz, U, N) == \A b \in N : /\ m[b - 1] = TagOf(sz, U, b)
                                      /\ m[b + sz[b] - 2] = TagOf(sz, U, b)

(* Blocks that are cut anew within the same words still tile the heap.     *)
LEMMA RecutTiles ==
  ASSUME NEW E, NEW sz, Tiles(E, sz), NEW p \in DOMAIN sz, NEW n \in Nat, n >= 4,
         p + n \in DOMAIN sz \cup {E}, NEW sz2, NEW N, Recut(E, sz, sz2, p, n, N)
  PROVE  Tiles(E, sz2)
<1>0. /\ p \in Nat /\ sz[p] \in Nat /\ E \in Nat /\ sz[p] >= 4 /\ p + sz[p] <= E
      /\ N_LISTS + 4 <= p /\ p + n <= E /\ FirstBlock = N_LISTS + 4 /\ N_LISTS \in Nat
  BY BlockAt, OutsideWords, Constants
<1>1. p + n \in Outside(sz, p, n) \cup {E}
  BY <1>0 DEF Outside
<1>2. \A b \in N : b \in Nat /\ sz2[b] \in Nat
  BY DEF Recut, Even
<1>3. ASSUME NEW b \in DOMAIN sz2
      PROVE  /\ Even(b) /\ FirstBlock <= b /\ Even(sz2[b]) /\ sz2[b] >= 4
             /\ b + sz2[b] \in DOMAIN sz2 \cup {E} /\ b + sz2[b] <= E
  <2>1. CASE b \in Outside(sz, p, n)
    <3>1. b \in DOMAIN sz /\ sz2[b] = sz[b]
      BY <2>1 DEF Outside, Recut
    <3>2. Even(b) /\ FirstBlock <= b /\ Even(sz[b]) /\ sz[b] >= 4 /\ b + sz[b] <= E
      BY <3>1 DEF Tiles
    <3>3. b + sz[b] \in DOMAIN sz2 \cup {E}
      <4>1. b + sz[b] \in Outside(sz, p, n) \cup {p, E}
        BY <2>1, OutsideWords
      <4> QED
        BY <4>1 DEF Recut
    <3> QED
      BY <3>1, <3>2, <3>3
  <2>2. CASE b \in N
    <3>1. /\ Even(b) /\ Even(sz2[b]) /\ sz2[b] >= 4 /\ p <= b /\ b + sz2[b] <= p + n
          /\ b + sz2[b] \in N \cup {p + n}
      BY <2>2 DEF Recut
    <3>2. b + sz2[b] \in DOMAIN sz2 \cup {E}
      BY <3>1, <1>1 DEF Recut
    <3>3. FirstBlock <= b /\ b + sz2[b] <= E
      BY <3>1, <2>2, <1>0, <1>2
    <3> QED
      BY <3>1, <3>2, <3>3
  <2> QED
    BY <2>1, <2>2 DEF Recut
<1>4. ASSUME NEW b \in DOMAIN sz2, NEW c \in DOMAIN sz2, b < c
      PROVE  b + sz2[b] <= c
  <2>1. CASE b \in Outside(sz, p, n) /\ c \in Outside(sz, p, n)
    <3>1. b \in DOMAIN sz /\ c \in DOMAIN sz /\ sz2[b] = sz[b]
      BY <2>1 DEF Outside, Recut
    <3> QED
      BY <3>1, <1>4 DEF Tiles
  <2>2. CASE b \in Outside(sz, p, n) /\ c \in N
    <3>1. b \in DOMAIN sz /\ sz2[b] = sz[b] /\ b \in Nat /\ sz[b] \in Nat
      BY <2>2, BlockAt DEF Outside, Recut
    <3>2. b + sz[b] <= p \/ p + n <= b
      BY <2>2, OutsideWords
    <3>3. p <= c /\ c + sz2[c] <= p + n /\ sz2[c] >= 4 /\ c \in Nat /\ sz2[c] \in Nat
      BY <2>2, <1>2 DEF Recut
    <3> QED
      BY <3>1, <3>2, <3>3, <1>0, <1>4
  <2>3. CASE b \in N /\ c \in Outside(sz, p, n)
    <3>1. c \in DOMAIN sz /\ c \in Nat /\ sz[c] \in Nat /\ sz[c] >= 4
      BY <2>3, BlockAt DEF Outside, Recut
    <3>2. c + sz[c] <= p \/ p + n <= c
      BY <2>3, OutsideWords
    <3>3. p <= b /\ b + sz2[b] <= p + n /\ b \in Nat /\ sz2[b] \in Nat
      BY <2>3, <1>2 DEF Recut
    <3> QED
      BY <3>1, <3>2, <3>3, <1>0, <1>4
  <2>4. CASE b \in N /\ c \in N
    BY <2>4, <1>4 DEF Recut
  <2> QED
    BY <2>1, <2>2, <2>3, <2>4 DEF Recut
<1>5. FirstBlock \in DOMAIN sz2 \cup {E}
  <2>1. FirstBlock \in DOMAIN sz \cup {E}
    BY DEF Tiles
  <2>2. FirstBlock < p \/ FirstBlock = p
    BY <1>0
  <2>3. FirstBlock \in Outside(sz, p, n) \cup {p, E}
    BY <2>1, <2>2 DEF Outside
  <2> QED
    BY <2>3 DEF Recut
<1>6. Even(E) /\ FirstBlock <= E /\ E <= MAX_HEAP
  BY DEF Tiles
<1> QED
  BY <1>3, <1>4, <1>5, <1>6 DEF Tiles

(* The words from p on are cut into other blocks, none of them on a list.  *)
LEMMA RecutHeap ==
  ASSUME NEW m, NEW E, NEW sz, NEW U, NEW L, Heap(m, E, sz, U, L),
         NEW p \in DOMAIN sz, NEW n \in Nat, n >= 4, p + n \in DOMAIN sz \cup {E},
         L \subseteq Outside(sz, p, n),
         NEW sz2, NEW N, Recut(E, sz, sz2, p, n, N), NEW U2, U2 \subseteq N,
         NEW m2 \in [Exited..(E - 1) -> Int], Elsewhere(m, m2, E, (p - 1)..(p + n - 2)),
         TaggedIn(m2, sz2, U2, N)
  PROVE  /\ Heap(m2, E, sz2, (U \cap Outside(sz, p, n)) \cup U2, L)
         /\ Same(m, m2, sz, U \cap Outside(sz, p, n))
<1> DEFINE O == Outside(sz, p, n)
           V == (U \cap O) \cup U2
<1>0. Tiles(E, sz) /\ Tagged(m, E, sz, U) /\ Listed(m, sz, L) /\ L \subseteq DOMAIN sz \ U
  BY DEF Heap
<1>1. Tiles(E, sz2)
  BY <1>0, RecutTiles
<1>2. /\ p \in Nat /\ sz[p] \in Nat /\ E \in Nat /\ N_LISTS + 4 <= p /\ p + n <= E
      /\ N_LISTS \in Nat /\ N_LISTS >= 2
  BY <1>0, BlockAt, OutsideWords, Constants
<1>3. ASSUME NEW b \in O, NEW a \in (b - 1)..(b + sz[b] - 2)
      PROVE  m2[a] = m[a]
  <2>1. b \in DOMAIN sz
    BY DEF Outside
  <2>2. a \in Exited..(E - 1)
    BY <2>1, <1>0, OwnWords
  <2>3. a \notin (p - 1)..(p + n - 2)
    BY <1>0, OutsideWords
  <2> QED
    BY <2>2, <2>3 DEF Elsewhere
<1>4. \A b \in O : b \in DOMAIN sz /\ b \in Nat /\ sz[b] \in Nat /\ sz[b] >= 4
  BY <1>0, BlockAt DEF Outside
<1>5. \A b \in N : b \notin O
  <2> SUFFICES ASSUME NEW b \in N, b \in O PROVE FALSE
    OBVIOUS
  <2>1. p <= b /\ b + sz2[b] <= p + n /\ sz2[b] >= 4 /\ b \in Nat /\ sz2[b] \in Nat
    BY DEF Recut, Even
  <2>2. b < p \/ p + n <= b
    BY DEF Outside
  <2> QED
    BY <2>1, <2>2, <1>2
<1>6. ASSUME NEW b \in DOMAIN sz2
      PROVE  m2[b - 1] = TagOf(sz2, V, b) /\ m2[b + sz2[b] - 2] = TagOf(sz2, V, b)
  <2>1. CASE b \in O
    <3>1. /\ b - 1 \in (b - 1)..(b + sz[b] - 2)
          /\ b + sz[b] - 2 \in (b - 1)..(b + sz[b] - 2)
      BY <2>1, <1>4
    <3>2. m2[b - 1] = m[b - 1] /\ m2[b + sz[b] - 2] = m[b + sz[b] - 2]
      BY <2>1, <3>1, <1>3
    <3>3. m[b - 1] = TagOf(sz, U, b) /\ m[b + sz[b] - 2] = TagOf(sz, U, b)
      BY <2>1, <1>0, <1>4 DEF Tagged
    <3>4. sz2[b] = sz[b] /\ (b \in V <=> b \in U)
      BY <2>1, <1>5 DEF Recut
    <3> HIDE DEF V
    <3> QED
      BY <3>2, <3>3, <3>4 DEF TagOf
  <2>2. CASE b \in N
    <3>1. b \in V <=> b \in U2
      BY <2>2, <1>5
    <3>2. m2[b - 1] = TagOf(sz2, U2, b) /\ m2[b + sz2[b] - 2] = TagOf(sz2, U2, b)
      BY <2>2 DEF TaggedIn
    <3> HIDE DEF V
    <3> QED
      BY <3>1, <3>2 DEF TagOf
  <2> QED
    BY <2>1, <2>2 DEF Recut
<1>7. Tagged(m2, E, sz2, V)
  <2>1. ASSUME NEW a \in {Exited, N_LISTS + 1, N_LISTS + 2, E - 1} PROVE m2[a] = m[a]
    <3>1. a \in Exited..(E - 1) /\ a \notin (p - 1)..(p + n - 2)
      <4>1. a = -1 \/ a = N_LISTS + 1 \/ a = N_LISTS + 2 \/ a = E - 1
        BY DEF Exited
      <4>2. a \in Int /\ a >= -1 /\ a <= E - 1 /\ (a < p - 1 \/ a > p + n - 2)
        BY <4>1, <1>2
      <4>3. a \in Exited..(E - 1)
        BY <4>2, <1>2 DEF Exited
      <4>4. a \notin (p - 1)..(p + n - 2)
        BY <4>2, <1>2
      <4> QED
        BY <4>3, <4>4
    <3> QED
      BY <3>1 DEF Elsewhere
  <2>2. m2[Exited] = m[Exited] /\ m2[N_LISTS + 1] = m[N_LISTS + 1]
        /\ m2[Prologue] = m[Prologue] /\ m2[E - 1] = m[E - 1]
    BY <2>1 DEF Prologue
  <2>3. V \subseteq DOMAIN sz2
    BY DEF Recut
  <2> HIDE DEF V
  <2> QED
    BY <1>0, <1>6, <2>2, <2>3 DEF Tagged
<1>8. ASSUME NEW c \in 1..N_LISTS PROVE Linked(m2, c, OfClass(sz2, L, c))
  <2>1. OfClass(sz2, L, c) = OfClass(sz, L, c)
    <3>1. \A b \in L : sz2[b] = sz[b]
      BY DEF Recut
    <3> QED
      BY <3>1 DEF OfClass
  <2>2. Linked(m, c, OfClass(sz, L, c))
    BY <1>0 DEF Listed
  <2>3. m2[c] = m[c]
    <3>1. c \in Exited..(E - 1) /\ c \notin (p - 1)..(p + n - 2)
      <4>1. c \in Int /\ c >= -1 /\ c <= E - 1 /\ c < p - 1
        BY <1>2
      <4> QED
        BY <4>1, <1>2 DEF Exited
    <3> QED
      BY <3>1 DEF Elsewhere
  <2>4. \A x \in OfClass(sz, L, c) : m2[x] = m[x] /\ m2[x + 1] = m[x + 1]
    <3> TAKE x \in OfClass(sz, L, c)
    <3>1. x \in O
      BY DEF OfClass
    <3>2. x \in (x - 1)..(x + sz[x] - 2) /\ x + 1 \in (x - 1)..(x + sz[x] - 2)
      BY <3>1, <1>4
    <3> QED
      BY <3>1, <3>2, <1>3
  <2> QED
    BY <2>1, <2>2, <2>3, <2>4, ListKept
<1>9. L \subseteq DOMAIN sz2 \ V
  BY <1>0, <1>5 DEF Recut
<1>10. Same(m, m2, sz, U \cap O)
  <2> SUFFICES ASSUME NEW u \in U \cap O, NEW a \in u..(u + sz[u] - 3) PROVE m2[a] = m[a]
    BY DEF Same
  <2>1. a \in (u - 1)..(u + sz[u] - 2)
    BY <1>4
  <2> QED
    BY <2>1, <1>3
<1> HIDE DEF V
<1>11. Heap(m2, E, sz2, V, L)
  BY <1>1, <1>7, <1>8, <1>9 DEF Heap, Listed
<1> QED
  BY <1>10, <1>11 DEF V

(* The n words from p on become one block.                                 *)
One(sz, p, n) == [b \in Outside(sz, p, n) \cup {p} |-> IF b = p THEN n ELSE sz[b]]
(* The words of a block and of what follows up to n are cut into k and the *)
(* rest.                                                                   *)
Two(sz, p, k, n) ==
  [b \in Outside(sz, p, n) \cup {p, p + k} |->
     IF b = p THEN k ELSE IF b = p + k THEN n - k ELSE sz[b]]

(* The tags of a block of n words at p are written, and nothing else.      *)
Tagging(m, m2, E, p, n, alloc) ==
  /\ m2 \in [Exited..(E - 1) -> Int]
  /\ m2[p - 1] = PACK(n, alloc) /\ m2[p + n - 2] = PACK(n, alloc)
  /\ \A a \in Exited..(E - 1) : a # p - 1 /\ a # p + n - 2 => m2[a] = m[a]

(* PutTags writes the header and the footer and nothing else.              *)
LEMMA PutsTags ==
  ASSUME NEW E \in Nat, NEW m \in [Exited..(E - 1) -> Int], NEW p \in Nat, p > 0,
         NEW n \in Nat, n >= 4, p + n <= E, NEW alloc \in {0, 1}
  PROVE  Tagging(m, PutTags(m, p, n, alloc), E, p, n, alloc)
<1> DEFINE D == Exited..(E - 1)
           v == PACK(n, alloc)
           i == p - 1
           j == p + n - 2
<1>1. i \in D /\ j \in D /\ i # j /\ v \in Int
  BY DEF PACK, Exited
<1>2. PutTags(m, p, n, alloc) = [m EXCEPT ![i] = v, ![j] = v]
  BY Zenon DEF PutTags, HDRP
<1> HIDE DEF v, i, j, D
<1>3. m \in [D -> Int]
  BY DEF D
<1>4. /\ [m EXCEPT ![i] = v, ![j] = v] \in [D -> Int]
      /\ [m EXCEPT ![i] = v, ![j] = v][i] = v
      /\ [m EXCEPT ![i] = v, ![j] = v][j] = v
      /\ \A a \in D : a # i /\ a # j => [m EXCEPT ![i] = v, ![j] = v][a] = m[a]
  BY <1>1, <1>3, TwoWords
<1> QED
  BY <1>2, <1>4 DEF v, i, j, D, Tagging

(* Where a region of the heap lies.                                        *)
LEMMA RegionAt ==
  ASSUME NEW E, NEW sz, Tiles(E, sz), NEW p \in DOMAIN sz, NEW n \in Nat, n >= 4,
         p + n \in DOMAIN sz \cup {E}
  PROVE  p \in Nat /\ p >= 6 /\ E \in Nat /\ p + n <= E /\ Even(p) /\ p \notin Outside(sz, p, n)
<1>1. p \in Nat /\ p >= 6 /\ E \in Nat /\ Even(p)
  BY BlockAt
<1>2. p \notin Outside(sz, p, n)
  BY <1>1 DEF Outside
<1> QED
  BY <1>1, <1>2, OutsideWords

(* Merging a block with what follows it cuts them anew, as one block.      *)
LEMMA RecutOne ==
  ASSUME NEW E, NEW sz, Tiles(E, sz), NEW p \in DOMAIN sz, NEW n, Even(n), n >= 4,
         p + n \in DOMAIN sz \cup {E}
  PROVE  Recut(E, sz, One(sz, p, n), p, n, {p})
<1>0. n \in Nat
  BY DEF Even
<1>1. p \in Nat /\ p + n <= E /\ Even(p) /\ p \notin Outside(sz, p, n)
  BY <1>0, RegionAt
<1>2. DOMAIN One(sz, p, n) = Outside(sz, p, n) \cup {p}
  BY DEF One
<1>3. \A b \in Outside(sz, p, n) : One(sz, p, n)[b] = sz[b]
  BY <1>1 DEF One
<1>4. One(sz, p, n)[p] = n
  BY DEF One
<1>5. /\ Even(p) /\ Even(One(sz, p, n)[p]) /\ One(sz, p, n)[p] >= 4
      /\ p <= p /\ p + One(sz, p, n)[p] <= p + n
      /\ p + One(sz, p, n)[p] \in {p} \cup {p + n}
  BY <1>0, <1>1, <1>4
<1>6. \A b, c \in {p} : ~(b < c)
  BY <1>1
<1> QED
  BY <1>2, <1>3, <1>5, <1>6 DEF Recut

(* The payload of the block of n words at p is what it was.                *)
Alike(m, m2, p, n) == \A a \in p..(p + n - 3) : m2[a] = m[a]

(* A block is tagged, with the blocks behind it that are not on a list.    *)
LEMMA Joined ==
  ASSUME NEW m, NEW E, NEW sz, NEW U, NEW L, Heap(m, E, sz, U, L),
         NEW p \in DOMAIN sz, NEW n, Even(n), n >= 4, p + n \in DOMAIN sz \cup {E},
         L \subseteq Outside(sz, p, n), NEW alloc \in {0, 1},
         NEW U2, U2 = IF alloc = 1 THEN {p} ELSE {}
  PROVE  /\ Heap(PutTags(m, p, n, alloc), E, One(sz, p, n),
                 (U \cap Outside(sz, p, n)) \cup U2, L)
         /\ Same(m, PutTags(m, p, n, alloc), sz, U \cap Outside(sz, p, n))
         /\ Alike(m, PutTags(m, p, n, alloc), p, n)
<1> DEFINE m2 == PutTags(m, p, n, alloc)
           sz2 == One(sz, p, n)
<1>0. Tiles(E, sz) /\ Tagged(m, E, sz, U) /\ m \in [Exited..(E - 1) -> Int]
  BY DEF Heap, Tagged
<1>1. /\ n \in Nat /\ p \in Nat /\ p >= 6 /\ E \in Nat /\ p + n <= E
  BY <1>0, RegionAt DEF Even
<1>2. Recut(E, sz, sz2, p, n, {p})
  BY <1>0, RecutOne
<1>3. /\ m2 \in [Exited..(E - 1) -> Int]
      /\ m2[p - 1] = PACK(n, alloc) /\ m2[p + n - 2] = PACK(n, alloc)
      /\ \A a \in Exited..(E - 1) : a # p - 1 /\ a # p + n - 2 => m2[a] = m[a]
  <2>1. p > 0
    BY <1>1
  <2>2. Tagging(m, m2, E, p, n, alloc)
    BY <2>1, <1>0, <1>1, PutsTags
  <2> QED
    BY <2>2 DEF Tagging
<1>4. sz2[p] = n
  BY DEF One
<1> HIDE DEF m2, sz2
<1>5. Elsewhere(m, m2, E, (p - 1)..(p + n - 2))
  <2> SUFFICES ASSUME NEW a \in (Exited..(E - 1)) \ ((p - 1)..(p + n - 2))
               PROVE  m2[a] = m[a]
    BY DEF Elsewhere
  <2>1. a # p - 1 /\ a # p + n - 2
    BY <1>1
  <2> QED
    BY <2>1, <1>3
<1>6. TaggedIn(m2, sz2, U2, {p})
  <2>1. alloc = IF p \in U2 THEN 1 ELSE 0
    OBVIOUS
  <2>2. TagOf(sz2, U2, p) = PACK(n, alloc)
    BY <2>1, <1>4 DEF TagOf
  <2> QED
    BY <2>2, <1>3, <1>4 DEF TaggedIn
<1>7. U2 \subseteq {p}
  OBVIOUS
<1>8. /\ Heap(m2, E, sz2, (U \cap Outside(sz, p, n)) \cup U2, L)
      /\ Same(m, m2, sz, U \cap Outside(sz, p, n))
  BY <1>1, <1>2, <1>3, <1>5, <1>6, <1>7, RecutHeap, Zenon
<1>9. \A a \in p..(p + n - 3) : m2[a] = m[a]
  <2> TAKE a \in p..(p + n - 3)
  <2>1. a \in Exited..(E - 1) /\ a # p - 1 /\ a # p + n - 2
    BY <1>1 DEF Exited
  <2> QED
    BY <2>1, <1>3
<1> QED
  BY <1>8, <1>9 DEF m2, sz2, Alike

(* Splitting a block cuts it anew, as two.                                 *)
LEMMA RecutTwo ==
  ASSUME NEW E, NEW sz, Tiles(E, sz), NEW p \in DOMAIN sz, NEW n, Even(n), NEW k, Even(k),
         k >= 4, n - k >= 4, p + n \in DOMAIN sz \cup {E}
  PROVE  Recut(E, sz, Two(sz, p, k, n), p, n, {p, p + k})
<1> DEFINE s2 == Two(sz, p, k, n)
           O == Outside(sz, p, n)
<1>0. n \in Nat /\ k \in Nat /\ n >= 8
  BY DEF Even
<1>1. p \in Nat /\ p + n <= E /\ Even(p) /\ p \notin O
  BY <1>0, RegionAt
<1>2. p + k \notin O
  BY <1>0, <1>1 DEF Outside
<1>3. Even(n - k) /\ Even(p + k)
  <2>1. k <= n
    BY <1>0
  <2> QED
    BY <2>1, <1>1, EvenNumbers
<1>4. DOMAIN s2 = O \cup {p, p + k}
  BY DEF Two
<1>5. \A b \in O : s2[b] = sz[b]
  BY <1>1, <1>2 DEF Two
<1>6. s2[p] = k /\ s2[p + k] = n - k
  <2>1. p # p + k
    BY <1>0, <1>1
  <2> QED
    BY <2>1 DEF Two
<1> HIDE DEF s2, O
<1>7. ASSUME NEW b \in {p, p + k}
      PROVE  /\ Even(b) /\ Even(s2[b]) /\ s2[b] >= 4 /\ p <= b /\ b + s2[b] <= p + n
             /\ b + s2[b] \in {p, p + k} \cup {p + n}
  <2>1. CASE b = p
    BY <2>1, <1>0, <1>1, <1>6
  <2>2. CASE b = p + k
    <3>1. s2[b] = n - k /\ b + s2[b] = p + n /\ p <= b
      BY <2>2, <1>0, <1>1, <1>6
    <3> QED
      BY <2>2, <3>1, <1>0, <1>1, <1>3
  <2> QED
    BY <2>1, <2>2
<1>8. ASSUME NEW b \in {p, p + k}, NEW c \in {p, p + k}, b < c
      PROVE  b + s2[b] <= c
  BY <1>0, <1>1, <1>6, <1>8
<1> QED
  BY <1>4, <1>5, <1>7, <1>8 DEF Recut, s2, O

(* A block is cut in two, the first in use and the rest free.              *)
LEMMA CutInTwo ==
  ASSUME NEW m, NEW E, NEW sz, NEW U, NEW L, Heap(m, E, sz, U, L),
         NEW p \in DOMAIN sz, NEW n, Even(n), NEW k, Even(k), k >= 4, n - k >= 4,
         p + n \in DOMAIN sz \cup {E}, L \subseteq Outside(sz, p, n),
         NEW m2, m2 = PutTags(PutTags(m, p, k, 1), p + k, n - k, 0)
  PROVE  /\ Heap(m2, E, Two(sz, p, k, n), (U \cap Outside(sz, p, n)) \cup {p}, L)
         /\ Same(m, m2, sz, U \cap Outside(sz, p, n))
         /\ Alike(m, m2, p, k)
<1> DEFINE m1 == PutTags(m, p, k, 1)
           D == Exited..(E - 1)
           sz2 == Two(sz, p, k, n)
           U2 == {p}
<1>0. Tiles(E, sz) /\ Tagged(m, E, sz, U) /\ m \in [Exited..(E - 1) -> Int]
  BY DEF Heap, Tagged
<1>1. /\ n \in Nat /\ k \in Nat /\ n >= 8 /\ p \in Nat /\ p >= 6 /\ E \in Nat /\ p + n <= E
  <2>1. n \in Nat /\ k \in Nat /\ n >= 8
    BY DEF Even
  <2> QED
    BY <2>1, <1>0, RegionAt
<1>2. Recut(E, sz, sz2, p, n, {p, p + k})
  BY <1>0, RecutTwo
<1>3. sz2[p] = k /\ sz2[p + k] = n - k
  <2>1. p # p + k
    BY <1>1
  <2> QED
    BY <2>1 DEF Two
<1>4. /\ m1 \in [Exited..(E - 1) -> Int]
      /\ m1[p - 1] = PACK(k, 1) /\ m1[p + k - 2] = PACK(k, 1)
      /\ \A a \in Exited..(E - 1) : a # p - 1 /\ a # p + k - 2 => m1[a] = m[a]
  <2>1. p + k <= E /\ p > 0
    BY <1>1
  <2>2. 1 \in {0, 1}
    OBVIOUS
  <2>3. Tagging(m, m1, E, p, k, 1)
    BY <2>1, <1>0, <1>1, <2>2, PutsTags
  <2> QED
    BY <2>3 DEF Tagging
<1>5. m2 = PutTags(m1, p + k, n - k, 0)
  OBVIOUS
<1> HIDE DEF m1
<1>6. /\ m2 \in [Exited..(E - 1) -> Int]
      /\ m2[(p + k) - 1] = PACK(n - k, 0) /\ m2[(p + k) + (n - k) - 2] = PACK(n - k, 0)
      /\ \A a \in Exited..(E - 1) : a # (p + k) - 1 /\ a # (p + k) + (n - k) - 2 =>
           m2[a] = m1[a]
  <2>1. p + k \in Nat /\ p + k > 0 /\ n - k \in Nat /\ (p + k) + (n - k) <= E
    BY <1>1
  <2>2. 0 \in {0, 1} /\ n - k >= 4
    BY <1>1
  <2> HIDE DEF m1
  <2>3. Tagging(m1, m2, E, p + k, n - k, 0)
    BY <2>1, <2>2, <1>1, <1>4, <1>5, PutsTags
  <2> QED
    BY <2>3 DEF Tagging
<1>7. (p + k) + (n - k) - 2 = p + n - 2
  BY <1>1
<1>8. m2[p - 1] = PACK(k, 1) /\ m2[p + k - 2] = PACK(k, 1)
  <2>1. p - 1 \in D /\ p + k - 2 \in D /\ p - 1 # (p + k) - 1 /\ p - 1 # p + n - 2
        /\ p + k - 2 # (p + k) - 1 /\ p + k - 2 # p + n - 2
    BY <1>1 DEF Exited
  <2> QED
    BY <2>1, <1>4, <1>6, <1>7
<1>9. \A a \in D : a # p - 1 /\ a # p + k - 2 /\ a # (p + k) - 1 /\ a # p + n - 2 => m2[a] = m[a]
  BY <1>4, <1>6, <1>7
<1> HIDE DEF sz2
<1>10. Elsewhere(m, m2, E, (p - 1)..(p + n - 2))
  <2> SUFFICES ASSUME NEW a \in (Exited..(E - 1)) \ ((p - 1)..(p + n - 2))
               PROVE  m2[a] = m[a]
    BY DEF Elsewhere
  <2>1. a # p - 1 /\ a # p + n - 2 /\ a # p + k - 2 /\ a # (p + k) - 1
    <3>1. p - 1 \in (p - 1)..(p + n - 2) /\ p + n - 2 \in (p - 1)..(p + n - 2)
          /\ p + k - 2 \in (p - 1)..(p + n - 2) /\ (p + k) - 1 \in (p - 1)..(p + n - 2)
      BY <1>1
    <3> QED
      BY <3>1
  <2> QED
    BY <2>1, <1>9
<1>11. TaggedIn(m2, sz2, U2, {p, p + k})
  <2>1. p \in U2 /\ p + k \notin U2
    BY <1>1
  <2> HIDE DEF U2
  <2>2. TagOf(sz2, U2, p) = PACK(k, 1) /\ TagOf(sz2, U2, p + k) = PACK(n - k, 0)
    BY <2>1, <1>3 DEF TagOf
  <2> QED
    BY <2>2, <1>3, <1>6, <1>8 DEF TaggedIn
<1>12. U2 \subseteq {p, p + k}
  OBVIOUS
<1> HIDE DEF U2
<1>13. /\ Heap(m2, E, sz2, (U \cap Outside(sz, p, n)) \cup U2, L)
       /\ Same(m, m2, sz, U \cap Outside(sz, p, n))
  <2>1. n >= 4
    BY <1>1
  <2> QED
    BY <2>1, <1>1, <1>2, <1>6, <1>10, <1>11, <1>12, RecutHeap, Zenon
<1>14. \A a \in p..(p + k - 3) : m2[a] = m[a]
  <2> TAKE a \in p..(p + k - 3)
  <2>1. a \in Int /\ a >= p /\ a <= p + k - 3
    BY <1>1
  <2>2. a # p - 1 /\ a # p + k - 2 /\ a # (p + k) - 1 /\ a # p + n - 2
    BY <2>1, <1>1
  <2>3. a \in D
    BY <2>1, <1>1 DEF Exited
  <2> QED
    BY <2>2, <2>3, <1>9
<1> QED
  BY <1>13, <1>14 DEF sz2, U2, Alike

(* The blocks B are those of the n words from p on.                        *)
Region(E, sz, p, n, B) ==
  /\ p \in DOMAIN sz /\ Even(n) /\ n >= 4 /\ p + n \in DOMAIN sz \cup {E}
  /\ B \subseteq DOMAIN sz /\ Outside(sz, p, n) = DOMAIN sz \ B

(* One block is a region.                                                  *)
LEMMA RegionOfOne ==
  ASSUME NEW E, NEW sz, Tiles(E, sz), NEW b \in DOMAIN sz
  PROVE  Region(E, sz, b, sz[b], {b})
<1>1. /\ b \in Nat /\ sz[b] \in Nat /\ sz[b] >= 4 /\ Even(sz[b])
      /\ b + sz[b] \in DOMAIN sz \cup {E}
  BY BlockAt
<1>2. ASSUME NEW c \in DOMAIN sz PROVE c \in Outside(sz, b, sz[b]) <=> c # b
  <2>1. c \in Nat /\ sz[c] \in Nat /\ sz[c] >= 4
    BY BlockAt
  <2>2. c # b => b + sz[b] <= c \/ c + sz[c] <= b
    BY BlocksDisjoint
  <2>3. c # b => c < b \/ b + sz[b] <= c
    BY <1>1, <2>1, <2>2
  <2>4. c = b => ~(c < b \/ b + sz[b] <= c)
    BY <1>1
  <2> QED
    BY <2>3, <2>4 DEF Outside
<1>3. Outside(sz, b, sz[b]) = DOMAIN sz \ {b}
  BY <1>2 DEF Outside
<1> QED
  BY <1>1, <1>3 DEF Region

(* A region and the block behind it are one.                               *)
LEMMA RegionAndNext ==
  ASSUME NEW E, NEW sz, Tiles(E, sz), NEW p, NEW n, NEW B, Region(E, sz, p, n, B),
         p + n \in DOMAIN sz
  PROVE  /\ Region(E, sz, p, n + sz[p + n], B \cup {p + n})
         /\ p + n \notin B
<1> DEFINE c == p + n
           k == n + sz[c]
<1>1. /\ p \in DOMAIN sz /\ n \in Nat /\ n >= 4 /\ Even(n) /\ p \in Nat
      /\ c \in DOMAIN sz /\ sz[c] \in Nat /\ sz[c] >= 4 /\ Even(sz[c])
      /\ c + sz[c] \in DOMAIN sz \cup {E}
      /\ B \subseteq DOMAIN sz /\ Outside(sz, p, n) = DOMAIN sz \ B
  BY BlockAt DEF Region, Even
<1>2. p + k = c + sz[c] /\ k >= 4 /\ k \in Nat /\ c \in Nat /\ p < c
  BY <1>1
<1>3. Even(k)
  BY <1>1, EvenNumbers
<1>4. c \in Outside(sz, p, n)
  BY <1>1, <1>2 DEF Outside
<1>5. ASSUME NEW b \in DOMAIN sz
      PROVE  b \in Outside(sz, p, k) <=> b \in Outside(sz, p, n) /\ b # c
  <2>1. b \in Nat /\ sz[b] \in Nat /\ sz[b] >= 4
    BY BlockAt
  <2>2. b # c => c + sz[c] <= b \/ b + sz[b] <= c
    BY <1>1, BlocksDisjoint
  <2>3. b < p \/ p + k <= b <=> (b < p \/ p + n <= b) /\ b # c
    BY <1>1, <1>2, <2>1, <2>2
  <2> QED
    BY <2>3 DEF Outside
<1>6. Outside(sz, p, k) = DOMAIN sz \ (B \cup {c})
  <2>1. Outside(sz, p, k) \subseteq DOMAIN sz
    BY DEF Outside
  <2> HIDE DEF c, k
  <2> QED
    BY <2>1, <1>1, <1>5
<1>7. p + k \in DOMAIN sz \cup {E} /\ B \cup {c} \subseteq DOMAIN sz /\ c \notin B
  <2>1. c \notin B
    BY <1>1, <1>4
  <2> QED
    BY <2>1, <1>1, <1>2
<1> QED
  BY <1>1, <1>2, <1>3, <1>6, <1>7 DEF Region

(* And so are a region and the block before it.                            *)
LEMMA RegionAndPrev ==
  ASSUME NEW E, NEW sz, Tiles(E, sz), NEW p, NEW n, NEW B, Region(E, sz, p, n, B),
         NEW c \in DOMAIN sz, c + sz[c] = p
  PROVE  /\ Region(E, sz, c, n + sz[c], B \cup {c})
         /\ c \notin B
<1> DEFINE k == n + sz[c]
<1>1. /\ p \in DOMAIN sz /\ n \in Nat /\ n >= 4 /\ Even(n) /\ p \in Nat
      /\ c \in Nat /\ sz[c] \in Nat /\ sz[c] >= 4 /\ Even(sz[c])
      /\ B \subseteq DOMAIN sz /\ Outside(sz, p, n) = DOMAIN sz \ B
      /\ p + n \in DOMAIN sz \cup {E}
  BY BlockAt DEF Region, Even
<1>2. c + k = p + n /\ k >= 4 /\ k \in Nat /\ c < p
  BY <1>1
<1>3. Even(k)
  BY <1>1, EvenNumbers
<1>4. c \in Outside(sz, p, n)
  BY <1>1, <1>2 DEF Outside
<1>5. ASSUME NEW b \in DOMAIN sz
      PROVE  b \in Outside(sz, c, k) <=> b \in Outside(sz, p, n) /\ b # c
  <2>1. b \in Nat /\ sz[b] \in Nat /\ sz[b] >= 4
    BY BlockAt
  <2>2. b # c => c + sz[c] <= b \/ b + sz[b] <= c
    BY <1>1, BlocksDisjoint
  <2>3. b < c \/ c + k <= b <=> (b < p \/ p + n <= b) /\ b # c
    BY <1>1, <1>2, <2>1, <2>2
  <2> QED
    BY <2>3 DEF Outside
<1>6. Outside(sz, c, k) = DOMAIN sz \ (B \cup {c})
  <2>1. Outside(sz, c, k) \subseteq DOMAIN sz
    BY DEF Outside
  <2> HIDE DEF k
  <2> QED
    BY <2>1, <1>1, <1>5
<1>7. c + k \in DOMAIN sz \cup {E} /\ B \cup {c} \subseteq DOMAIN sz /\ c \notin B
  <2>1. c \notin B
    BY <1>1, <1>4
  <2> QED
    BY <2>1, <1>1, <1>2
<1> QED
  BY <1>1, <1>2, <1>3, <1>6, <1>7 DEF Region

-----------------------------------------------------------------------------
(* Every free block is on a list.                                          *)
Full(m, E, sz, U) == Heap(m, E, sz, U, DOMAIN sz \ U)

(* The blocks W have kept their sizes and what is in them.                 *)
Keeps(m, sz, m2, sz2, W) ==
  \A u \in W : sz2[u] = sz[u] /\ \A a \in u..(u + sz[u] - 3) : m2[a] = m[a]

(* What two operations in a row keep is kept.                              *)
LEMMA KeepsOn ==
  ASSUME NEW m, NEW sz, NEW m2, NEW sz2, NEW m3, NEW sz3, NEW W, NEW V, W \subseteq V,
         Keeps(m, sz, m2, sz2, V), Keeps(m2, sz2, m3, sz3, W)
  PROVE  Keeps(m, sz, m3, sz3, W)
<1> SUFFICES ASSUME NEW u \in W
             PROVE  sz3[u] = sz[u] /\ \A a \in u..(u + sz[u] - 3) : m3[a] = m[a]
  BY DEF Keeps
<1>1. sz2[u] = sz[u] /\ \A a \in u..(u + sz[u] - 3) : m2[a] = m[a]
  BY DEF Keeps
<1>2. sz3[u] = sz2[u] /\ \A a \in u..(u + sz2[u] - 3) : m3[a] = m2[a]
  BY DEF Keeps
<1> QED
  BY <1>1, <1>2

(* Nothing is written into the blocks W, whose sizes stay.                 *)
LEMMA SameKeeps ==
  ASSUME NEW m, NEW m2, NEW sz, NEW W, Same(m, m2, sz, W)
  PROVE  Keeps(m, sz, m2, sz, W)
BY DEF Keeps, Same

(* The blocks of a region, none of them on a list, become one free block.  *)
LEMMA Merged ==
  ASSUME NEW m, NEW E, NEW sz, NEW U, NEW p, NEW n, NEW B, Region(E, sz, p, n, B),
         Heap(m, E, sz, U, (DOMAIN sz \ U) \ B)
  PROVE  LET m2 == insert_into_free_list(PutTags(m, p, n, 0), p)
             sz2 == One(sz, p, n)
         IN  /\ Full(m2, E, sz2, U \ B) /\ Keeps(m, sz, m2, sz2, U \ B)
             /\ p \in DOMAIN sz2 \ (U \ B) /\ sz2[p] = n
<1> DEFINE m1 == PutTags(m, p, n, 0)
           m2 == insert_into_free_list(m1, p)
           sz2 == One(sz, p, n)
           O == Outside(sz, p, n)
           V == U \ B
           L == (DOMAIN sz \ U) \ B
<1>0. Tiles(E, sz) /\ Tagged(m, E, sz, U) /\ U \subseteq DOMAIN sz
  BY DEF Heap, Tagged
<1>1. /\ p \in DOMAIN sz /\ Even(n) /\ n >= 4 /\ p + n \in DOMAIN sz \cup {E}
      /\ O = DOMAIN sz \ B /\ B \subseteq DOMAIN sz
  BY DEF Region
<1>2. n \in Nat
  BY <1>1 DEF Even
<1>3. p \notin O
  BY <1>0, <1>1, <1>2, RegionAt
<1>4. U \cap O = V /\ L \subseteq O /\ p \in B
  BY <1>0, <1>1, <1>3
<1>5. DOMAIN sz2 = O \cup {p} /\ sz2[p] = n /\ \A b \in O : sz2[b] = sz[b]
  <2>1. \A b \in O : b # p
    BY <1>3
  <2> QED
    BY <2>1 DEF One
<1>6. Heap(m1, E, sz2, (U \cap O) \cup {}, L) /\ Same(m, m1, sz, U \cap O)
  <2>1. L \subseteq O /\ 0 \in {0, 1} /\ {} = IF 0 = 1 THEN {p} ELSE {}
    BY <1>4
  <2>2. Heap(m, E, sz, U, L)
    OBVIOUS
  <2> HIDE DEF L
  <2> QED
    BY <2>1, <2>2, <1>1, Joined
<1>7. Heap(m1, E, sz2, V, L) /\ Same(m, m1, sz, V)
  <2>1. V \cup {} = V
    OBVIOUS
  <2> HIDE DEF m1, sz2, V, L
  <2> QED
    BY <2>1, <1>4, <1>6
<1>8. p \in DOMAIN sz2 /\ p \notin V /\ p \notin L
  BY <1>4, <1>5
<1>9. L \cup {p} = DOMAIN sz2 \ V
  <2>1. DOMAIN sz2 = (DOMAIN sz \ B) \cup {p}
    BY <1>1, <1>5
  <2>2. p \in B
    BY <1>4
  <2> HIDE DEF sz2
  <2> QED
    BY <2>1, <2>2
<1>10. Heap(m2, E, sz2, V, L \cup {p}) /\ Same(m1, m2, sz2, V)
  <2> HIDE DEF m1, sz2, V, L
  <2> QED
    BY <1>7, <1>8, Inserted
<1>11. Full(m2, E, sz2, V)
  BY <1>9, <1>10 DEF Full
<1>12. Keeps(m, sz, m2, sz2, V)
  <2>1. \A u \in V : u \in O /\ sz2[u] = sz[u]
    BY <1>4, <1>5
  <2> HIDE DEF m1, m2, sz2, V, L, O
  <2> QED
    BY <2>1, <1>7, <1>10 DEF Same, Keeps
<1> QED
  BY <1>5, <1>8, <1>11, <1>12

(* Where a free block ends and another one begins.                         *)
Seams(sz, U) == {c \in DOMAIN sz \ U : \E b \in DOMAIN sz \ U : b + sz[b] = c}

(* Seams(sz, U) tells only which blocks are free and how large.            *)
LEMMA SameSeams ==
  ASSUME NEW sz, NEW sz2, DOMAIN sz2 = DOMAIN sz, NEW U,
         \A b \in DOMAIN sz : sz2[b] = sz[b]
  PROVE  Seams(sz2, U) = Seams(sz, U)
BY DEF Seams

(* With more blocks in use there are no more seams.                        *)
LEMMA FewerSeams ==
  ASSUME NEW sz, NEW U, NEW V, U \subseteq V
  PROVE  Seams(sz, V) \subseteq Seams(sz, U)
BY DEF Seams

(* The blocks around a region are not merged with it: before it there is   *)
(* no free block, or the region begins with one; behind it there is none,  *)
(* or the region ends with one.                                            *)
Closed(sz, U, p, n) ==
  /\ p \in U => \A b \in DOMAIN sz \ U : b + sz[b] # p
  /\ p + n \in DOMAIN sz \ U => p + n \in Seams(sz, U)

(* A region that becomes one free block makes no seam.                     *)
LEMMA OneSeams ==
  ASSUME NEW E, NEW sz, Tiles(E, sz), NEW U, NEW p, NEW n, NEW B, Region(E, sz, p, n, B),
         Closed(sz, U, p, n)
  PROVE  Seams(One(sz, p, n), U \ B) \subseteq Seams(sz, U)
<1> DEFINE s2 == One(sz, p, n)
           O == Outside(sz, p, n)
<1>1. /\ p \in DOMAIN sz /\ n \in Nat /\ n >= 4 /\ p \in Nat
      /\ B \subseteq DOMAIN sz /\ O = DOMAIN sz \ B
      /\ p + n \in DOMAIN sz \cup {E}
  BY BlockAt DEF Region, Even
<1>2. p \notin O
  BY <1>1, RegionAt
<1>3. DOMAIN s2 = O \cup {p} /\ s2[p] = n /\ \A b \in O : s2[b] = sz[b]
  <2>1. \A b \in O : b # p
    BY <1>2
  <2> QED
    BY <2>1 DEF One
<1> HIDE DEF s2, O
<1>4. SUFFICES ASSUME NEW c \in DOMAIN s2 \ (U \ B), NEW b \in DOMAIN s2 \ (U \ B),
                      b + s2[b] = c
               PROVE  c \in Seams(sz, U)
  BY DEF Seams, s2
<1>5. p \in B
  BY <1>1, <1>2
<1>6. CASE b # p /\ c # p
  <2>1. b \in DOMAIN sz \ U /\ c \in DOMAIN sz \ U /\ b + sz[b] = c
    BY <1>1, <1>3, <1>4, <1>6
  <2> QED
    BY <2>1 DEF Seams
<1>7. CASE b # p /\ c = p
  <2>1. b \in DOMAIN sz \ U /\ b + sz[b] = p
    BY <1>1, <1>3, <1>4, <1>7
  <2>2. p \in DOMAIN sz \ U
    BY <2>1, <1>1 DEF Closed
  <2> QED
    BY <2>1, <2>2, <1>7 DEF Seams
<1>8. CASE b = p
  <2>1. c = p + n
    BY <1>3, <1>4, <1>8
  <2>2. c # p
    BY <2>1, <1>1
  <2>3. c \in DOMAIN sz \ U
    BY <2>2, <1>1, <1>3, <1>4
  <2> QED
    BY <2>1, <2>3 DEF Closed
<1> QED
  BY <1>6, <1>7, <1>8

(* A region that becomes a block in use makes none either, and one that    *)
(* becomes a block in use and a free rest makes one at most, behind it.    *)
SeamsBut(sz, U, x) == Seams(sz, U) \cup ({x} \cap (DOMAIN sz \ U))

(* A block in use in place of a region.                                    *)
LEMMA UsedSeams ==
  ASSUME NEW E, NEW sz, Tiles(E, sz), NEW U, NEW p, NEW n, NEW B, Region(E, sz, p, n, B)
  PROVE  Seams(One(sz, p, n), (U \ B) \cup {p}) \subseteq Seams(sz, U)
<1> DEFINE s2 == One(sz, p, n)
           O == Outside(sz, p, n)
<1>1. /\ p \in DOMAIN sz /\ n \in Nat /\ n >= 4
      /\ B \subseteq DOMAIN sz /\ O = DOMAIN sz \ B
      /\ p + n \in DOMAIN sz \cup {E}
  BY DEF Region, Even
<1>2. p \notin O
  BY <1>1, RegionAt
<1>3. DOMAIN s2 = O \cup {p} /\ \A b \in O : s2[b] = sz[b]
  <2>1. \A b \in O : b # p
    BY <1>2
  <2> QED
    BY <2>1 DEF One
<1> HIDE DEF s2, O
<1>4. SUFFICES ASSUME NEW c \in DOMAIN s2 \ ((U \ B) \cup {p}),
                      NEW b \in DOMAIN s2 \ ((U \ B) \cup {p}), b + s2[b] = c
               PROVE  c \in Seams(sz, U)
  BY DEF Seams, s2
<1>5. b \in DOMAIN sz \ U /\ c \in DOMAIN sz \ U /\ b + sz[b] = c
  BY <1>1, <1>3, <1>4
<1> QED
  BY <1>5 DEF Seams

(* A block in use and a free rest in place of a region.                    *)
LEMMA RestSeams ==
  ASSUME NEW E, NEW sz, Tiles(E, sz), NEW U, NEW p, NEW n, NEW B, Region(E, sz, p, n, B),
         NEW k, Even(k), k >= 4, n - k >= 4
  PROVE  Seams(Two(sz, p, k, n), (U \ B) \cup {p}) \subseteq SeamsBut(sz, U, p + n)
<1> DEFINE s2 == Two(sz, p, k, n)
           O == Outside(sz, p, n)
           q == p + k
<1>1. /\ p \in DOMAIN sz /\ n \in Nat /\ n >= 4 /\ k \in Nat /\ p \in Nat
      /\ B \subseteq DOMAIN sz /\ O = DOMAIN sz \ B
      /\ p + n \in DOMAIN sz \cup {E} /\ E \in Nat
  BY BlockAt DEF Region, Even
<1>2. p \notin O /\ q \notin O /\ q # p
  <2>1. p \notin O
    BY <1>1, RegionAt
  <2>2. q # p /\ ~(q < p) /\ ~(p + n <= q)
    BY <1>1
  <2> QED
    BY <2>1, <2>2 DEF Outside
<1>3. DOMAIN s2 = O \cup {p, q} /\ s2[q] = n - k /\ \A b \in O : s2[b] = sz[b]
  <2>1. \A b \in O : b # p /\ b # p + k
    BY <1>2
  <2>2. p + k # p
    BY <1>1
  <2> QED
    BY <2>1, <2>2 DEF Two
<1>4. \A b \in O : b + sz[b] # q
  <2> SUFFICES ASSUME NEW b \in O PROVE b + sz[b] # q
    OBVIOUS
  <2>1. b \in DOMAIN sz
    BY DEF Outside
  <2>2. b \in Nat /\ sz[b] \in Nat
    BY <2>1, BlockAt
  <2>3. b + sz[b] <= p \/ p + n <= b
    BY <1>1, OutsideWords
  <2> QED
    BY <2>2, <2>3, <1>1
<1> HIDE DEF s2, O, q
<1>5. SUFFICES ASSUME NEW c \in DOMAIN s2 \ ((U \ B) \cup {p}),
                      NEW b \in DOMAIN s2 \ ((U \ B) \cup {p}), b + s2[b] = c
               PROVE  c \in SeamsBut(sz, U, p + n)
  BY DEF Seams, s2
<1>6. CASE b # q
  <2>1. b \in O /\ c # q
    BY <1>3, <1>4, <1>5, <1>6
  <2>2. b \in DOMAIN sz \ U /\ c \in DOMAIN sz \ U /\ b + sz[b] = c
    BY <2>1, <1>1, <1>3, <1>5
  <2> QED
    BY <2>2 DEF Seams, SeamsBut
<1>7. CASE b = q
  <2>1. c = p + n
    BY <1>1, <1>3, <1>5, <1>7 DEF q
  <2>2. c # q
    BY <2>1, <1>1 DEF q
  <2>3. c \in DOMAIN sz \ U
    BY <2>2, <1>1, <1>3, <1>5
  <2> QED
    BY <2>1, <2>3 DEF SeamsBut
<1> QED
  BY <1>6, <1>7

(* coalesce sees a free block that ends at bp.                              *)
LEMMA SeesBefore ==
  ASSUME NEW m, NEW E, NEW sz, NEW U, Tiles(E, sz), Tagged(m, E, sz, U),
         NEW bp \in DOMAIN sz, NEW c \in DOMAIN sz \ U, c + sz[c] = bp
  PROVE  GET_ALLOC(m, FTRP(m, PREV_BLKP(m, bp))) = 0
<1>1. bp \in Nat /\ c \in Nat /\ sz[c] \in Nat
  BY BlockAt
<1>2. /\ FTRP(m, c) = c + sz[c] - 2 /\ GET_SIZE(m, c + sz[c] - 2) = sz[c]
      /\ GET_ALLOC(m, c + sz[c] - 2) = 0
  BY BlockTags
<1>3. PREV_BLKP(m, bp) = bp - sz[c]
  <2>1. bp - 2 = c + sz[c] - 2
    BY <1>1
  <2>2. GET_SIZE(m, bp - 2) = sz[c]
    BY <2>1, <1>2
  <2> QED
    BY <2>2 DEF PREV_BLKP
<1>4. PREV_BLKP(m, bp) = c
  BY <1>1, <1>3
<1> QED
  BY <1>2, <1>4

(* What coalesce reads of the block before bp is that block's, or the      *)
(* prologue's; what it reads of the block behind is that block's or the    *)
(* epilogue's.                                                             *)
LEMMA Before ==
  ASSUME NEW m, NEW E, NEW sz, NEW U, Tiles(E, sz), Tagged(m, E, sz, U),
         NEW bp \in DOMAIN sz, NEW p, p = PREV_BLKP(m, bp), GET_ALLOC(m, FTRP(m, p)) = 0
  PROVE  p \in DOMAIN sz \ U /\ p + sz[p] = bp
<1>1. bp \in Nat /\ N_LISTS \in Nat
  BY BlockAt, Constants
<1>2. CASE bp = FirstBlock
  <2>1. bp - 2 = N_LISTS + 2
    BY <1>1, <1>2 DEF FirstBlock
  <2>2. m[N_LISTS + 1] = PACK(2, 1) /\ m[N_LISTS + 2] = PACK(2, 1) /\ Even(2) /\ 1 \in {0, 1}
    BY DEF Tagged, Prologue, Even
  <2>3. /\ GET_SIZE(m, N_LISTS + 2) = 2 /\ GET_ALLOC(m, N_LISTS + 2) = 1
        /\ GET_SIZE(m, N_LISTS + 1) = 2
    BY <2>2, TagWord
  <2>4. p = bp - 2
    BY <2>1, <2>3 DEF PREV_BLKP
  <2>5. FTRP(m, p) = p + GET_SIZE(m, p - 1) - 2
    BY DEF FTRP, BlockSize, HDRP
  <2>6. p = N_LISTS + 2 /\ p - 1 = N_LISTS + 1
    BY <2>1, <2>4, <1>1
  <2>7. FTRP(m, p) = N_LISTS + 2
    BY <2>3, <2>5, <2>6, <1>1
  <2> QED
    BY <2>3, <2>7
<1>3. CASE bp # FirstBlock
  <2>1. PICK c \in DOMAIN sz : c + sz[c] = bp
    BY <1>3, BlockBefore
  <2>2. c \in Nat /\ sz[c] \in Nat
    BY BlockAt
  <2>3. /\ FTRP(m, c) = c + sz[c] - 2 /\ GET_SIZE(m, c + sz[c] - 2) = sz[c]
        /\ (GET_ALLOC(m, c + sz[c] - 2) = 0 <=> c \notin U)
    BY BlockTags
  <2>4. p = bp - sz[c]
    <3>1. bp - 2 = c + sz[c] - 2
      BY <2>1, <2>2, <1>1
    <3>2. GET_SIZE(m, bp - 2) = sz[c]
      BY <3>1, <2>3
    <3> QED
      BY <3>2 DEF PREV_BLKP
  <2>5. p = c
    BY <2>1, <2>2, <2>4, <1>1
  <2> QED
    BY <2>1, <2>3, <2>5
<1> QED
  BY <1>2, <1>3

(* The block behind bp, when it is free, is a block and not the epilogue.  *)
LEMMA Behind ==
  ASSUME NEW m, NEW E, NEW sz, NEW U, Tiles(E, sz), Tagged(m, E, sz, U),
         NEW bp \in DOMAIN sz
  PROVE  /\ NEXT_BLKP(m, bp) = bp + sz[bp]
         /\ IsFree(m, bp + sz[bp]) <=> bp + sz[bp] \in DOMAIN sz \ U
<1>1. bp + sz[bp] \in DOMAIN sz \cup {E}
  BY BlockAt
<1>2. ~IsFree(m, E)
  BY HeapEnd
<1> QED
  BY <1>1, <1>2, BlockTags

(* A call that gives a free block of at least n words, and leaves no seam  *)
(* outside S.                                                              *)
FreeAt(r, m, E, sz, U, n, S) ==
  \E sz2 : /\ Full(r.mem, E, sz2, U) /\ Keeps(m, sz, r.mem, sz2, U)
           /\ r.ptr \in DOMAIN sz2 \ U /\ sz2[r.ptr] >= n
           /\ Seams(sz2, U) \subseteq S

(* A free block is merged with its neighbours, and then makes no seam with *)
(* them.                                                                   *)
LEMMA Coalesced ==
  ASSUME NEW m, NEW E, NEW sz, NEW U, Full(m, E, sz, U), NEW bp \in DOMAIN sz \ U
  PROVE  FreeAt(coalesce(m, bp), m, E, sz, U, sz[bp], Seams(sz, U \cup {bp}))
<1> DEFINE prev == PREV_BLKP(m, bp)
           next == bp + sz[bp]
           before == GET_ALLOC(m, FTRP(m, prev)) = 0
           after == IsFree(m, next)
           L == DOMAIN sz \ U
           B1 == {bp}
           n1 == sz[bp]
           B2 == IF after THEN B1 \cup {next} ELSE B1
           n2 == n1 + (IF after THEN sz[next] ELSE 0)
           B3 == IF before THEN B2 \cup {prev} ELSE B2
           n3 == n2 + (IF before THEN sz[prev] ELSE 0)
           first == IF before THEN prev ELSE bp
           m1 == delete_from_free_list(m, bp)
           m2 == IF after THEN delete_from_free_list(m1, next) ELSE m1
           m3 == IF before THEN delete_from_free_list(m2, prev) ELSE m2
           r == coalesce(m, bp)
           S == Seams(sz, U \cup {bp})
<1>0. /\ Tiles(E, sz) /\ Tagged(m, E, sz, U) /\ Heap(m, E, sz, U, L) /\ bp \in DOMAIN sz
      /\ U \subseteq DOMAIN sz
  BY DEF Full, Heap, Tagged
<1>1. before => prev \in DOMAIN sz \ U /\ prev + sz[prev] = bp
  BY <1>0, Before
<1>2. NEXT_BLKP(m, bp) = next /\ (after <=> next \in DOMAIN sz \ U)
  BY <1>0, Behind
<1>3. \A b \in DOMAIN sz : BlockSize(m, b) = sz[b] /\ sz[b] \in Nat
  BY <1>0, BlockTags, BlockAt
<1>4. ~before => \A c \in DOMAIN sz \ U : c + sz[c] # bp
  BY <1>0, SeesBefore
<1>5. ASSUME ~before, ~after
      PROVE  FreeAt(r, m, E, sz, U, sz[bp], S)
  <2>1. r = [mem |-> m, ptr |-> bp]
    BY <1>2, <1>5 DEF coalesce
  <2>2. Keeps(m, sz, m, sz, U) /\ sz[bp] >= sz[bp]
    BY <1>0, <1>3 DEF Keeps
  <2>3. r.mem = m /\ r.ptr = bp
    BY <2>1
  <2>4. Seams(sz, U) \subseteq S
    BY <1>2, <1>5, <1>4 DEF Seams
  <2> HIDE DEF r, S
  <2> QED
    BY <2>2, <2>3, <2>4 DEF FreeAt
<1>6. ASSUME before \/ after
      PROVE  r = [mem |-> insert_into_free_list(PutTags(m3, first, n3, 0), first),
                  ptr |-> first]
  <2>1. /\ BlockSize(m, bp) = sz[bp]
        /\ (IF before THEN BlockSize(m, prev) ELSE 0) = (IF before THEN sz[prev] ELSE 0)
        /\ (IF after THEN BlockSize(m, next) ELSE 0) = (IF after THEN sz[next] ELSE 0)
    BY <1>0, <1>1, <1>2, <1>3
  <2>2. sz[bp] + (IF before THEN sz[prev] ELSE 0) + (IF after THEN sz[next] ELSE 0) = n3
    <3>1. /\ sz[bp] \in Nat /\ (IF before THEN sz[prev] ELSE 0) \in Nat
          /\ (IF after THEN sz[next] ELSE 0) \in Nat
      BY <1>0, <1>1, <1>2, <1>3
    <3> HIDE DEF before, after, prev, next
    <3> QED
      BY <3>1
  <2>3. BlockSize(m, bp) + (IF before THEN BlockSize(m, prev) ELSE 0)
          + (IF after THEN BlockSize(m, next) ELSE 0) = n3
    <3> HIDE DEF n3, before, after, prev, next
    <3> QED
      BY <2>1, <2>2
  <2>4. r = [mem |-> insert_into_free_list(PutTags(m3, first, BlockSize(m, bp)
               + (IF before THEN BlockSize(m, prev) ELSE 0)
               + (IF after THEN BlockSize(m, next) ELSE 0), 0), first),
             ptr |-> first]
    BY <1>2, <1>6, Zenon DEF coalesce
  <2> HIDE DEF n3, first, m3, r, before, after, prev, next
  <2> QED
    BY <2>3, <2>4
<1>7. Region(E, sz, bp, n1, B1)
  BY <1>0, RegionOfOne
<1>8. Region(E, sz, bp, n2, B2) /\ (after => next \notin B1) /\ n2 \in Nat /\ n2 >= n1
  <2>1. CASE after
    <3>1. bp + n1 \in DOMAIN sz
      BY <2>1, <1>2
    <3>2. Region(E, sz, bp, n1 + sz[bp + n1], B1 \cup {bp + n1}) /\ bp + n1 \notin B1
      <4> HIDE DEF n1, B1
      <4> QED
        BY <3>1, <1>0, <1>7, RegionAndNext
    <3> QED
      BY <2>1, <3>1, <3>2, <1>0, <1>3
  <2>2. CASE ~after
    BY <2>2, <1>0, <1>3, <1>7
  <2> QED
    BY <2>1, <2>2
<1>9. Region(E, sz, first, n3, B3) /\ (before => prev \notin B2) /\ n3 >= n1
  <2>1. CASE before
    <3> HIDE DEF n1, n2, B2, prev
    <3>1. Region(E, sz, prev, n2 + sz[prev], B2 \cup {prev}) /\ prev \notin B2
      BY <2>1, <1>0, <1>1, <1>8, RegionAndPrev
    <3>2. n2 + sz[prev] >= n1
      <4>1. sz[prev] \in Nat /\ n1 \in Nat
        BY <2>1, <1>0, <1>1, <1>3 DEF n1
      <4> QED
        BY <4>1, <1>8
    <3> QED
      BY <2>1, <3>1, <3>2
  <2>2. CASE ~before
    <3>1. n3 = n2 /\ B3 = B2 /\ first = bp
      BY <2>2, <1>8
    <3> HIDE DEF n1, n2, n3, B2, B3, first
    <3> QED
      BY <2>2, <3>1, <1>8
  <2> QED
    BY <2>1, <2>2
<1>10. Heap(m1, E, sz, U, L \ B1) /\ Same(m, m1, sz, U)
  BY <1>0, Deleted
<1>11. Heap(m2, E, sz, U, L \ B2) /\ Same(m, m2, sz, U)
  <2>1. CASE after
    <3>1. next \in L \ B1
      BY <2>1, <1>2, <1>8
    <3>2. /\ Heap(delete_from_free_list(m1, next), E, sz, U, (L \ B1) \ {next})
          /\ Same(m1, delete_from_free_list(m1, next), sz, U)
      <4> HIDE DEF m1, L, B1, next
      <4> QED
        BY <3>1, <1>10, Deleted
    <3>3. (L \ B1) \ {next} = L \ B2
      BY <2>1
    <3>4. m2 = delete_from_free_list(m1, next)
      BY <2>1
    <3> HIDE DEF m1, m2, L, B1, B2, next
    <3> QED
      BY <3>2, <3>3, <3>4, <1>10 DEF Same
  <2>2. CASE ~after
    BY <2>2, <1>10
  <2> QED
    BY <2>1, <2>2
<1>12. Heap(m3, E, sz, U, L \ B3) /\ Same(m, m3, sz, U)
  <2>1. CASE before
    <3>1. prev \in L \ B2
      BY <2>1, <1>1, <1>9
    <3>2. /\ Heap(delete_from_free_list(m2, prev), E, sz, U, (L \ B2) \ {prev})
          /\ Same(m2, delete_from_free_list(m2, prev), sz, U)
      <4> HIDE DEF m2, L, B2, prev
      <4> QED
        BY <3>1, <1>11, Deleted
    <3>3. (L \ B2) \ {prev} = L \ B3
      <4> HIDE DEF B2, L, prev
      <4> QED
        BY <2>1
    <3>4. m3 = delete_from_free_list(m2, prev)
      BY <2>1
    <3> HIDE DEF m2, m3, L, B2, B3, prev
    <3> QED
      BY <3>2, <3>3, <3>4, <1>11 DEF Same
  <2>2. CASE ~before
    <3>1. m3 = m2 /\ B3 = B2
      BY <2>2
    <3> HIDE DEF m2, m3, B2, B3
    <3> QED
      BY <3>1, <1>11
  <2> QED
    BY <2>1, <2>2
<1>13. U \ B3 = U
  <2>1. \A b \in B3 : b \notin U
    BY <1>0, <1>1, <1>2
  <2> HIDE DEF B3
  <2> QED
    BY <2>1
<1>14. bp \notin U /\ bp \in B3 /\ first \in B3
  BY <1>0
<1>15. Closed(sz, U \cup {bp}, first, n3)
  <2>1. first \in U \cup {bp} => \A b \in DOMAIN sz \ (U \cup {bp}) : b + sz[b] # first
    <3>1. CASE before
      <4>1. first = prev /\ prev \notin U /\ prev + sz[prev] = bp /\ prev \in DOMAIN sz
        BY <3>1, <1>1
      <4>2. prev \in Nat /\ sz[prev] \in Nat /\ sz[prev] >= 4
        BY <4>1, <1>0, BlockAt
      <4>3. prev # bp
        <5> HIDE DEF prev
        <5> QED
          BY <4>1, <4>2
      <4> HIDE DEF first, prev
      <4> QED
        BY <4>1, <4>3
    <3>2. CASE ~before
      BY <3>2, <1>4
    <3> QED
      BY <3>1, <3>2
  <2>2. ASSUME first + n3 \in DOMAIN sz \ (U \cup {bp})
        PROVE  first + n3 \in Seams(sz, U \cup {bp})
    <3>1. first + n3 = bp + n2
      <4>1. CASE before
        <5>1. /\ first = prev /\ n3 = n2 + sz[prev] /\ prev + sz[prev] = bp
              /\ prev \in DOMAIN sz
          BY <4>1, <1>1
        <5>2. prev \in Nat /\ sz[prev] \in Nat /\ n2 \in Nat
          BY <5>1, <1>0, <1>8, BlockAt
        <5> HIDE DEF prev, first, n3, n2
        <5> QED
          BY <5>1, <5>2
      <4>2. CASE ~before
        <5>1. first = bp /\ n3 = n2 + 0
          BY <4>2
        <5> HIDE DEF first, n3, n2
        <5> QED
          BY <5>1, <1>8
      <4> QED
        BY <4>1, <4>2
    <3>2. CASE after
      <4>1. next \in DOMAIN sz \ U /\ n2 = sz[bp] + sz[next] /\ next = bp + sz[bp]
        BY <3>2, <1>2
      <4>2. bp \in Nat /\ sz[bp] \in Nat /\ sz[bp] >= 4 /\ next \in Nat /\ sz[next] \in Nat
        BY <4>1, <1>0, BlockAt
      <4> HIDE DEF next, n2, n3, first
      <4>3. bp + n2 = next + sz[next] /\ next # bp
        BY <4>1, <4>2
      <4>4. next \in DOMAIN sz \ (U \cup {bp})
        BY <4>1, <4>3
      <4> QED
        BY <2>2, <3>1, <4>3, <4>4 DEF Seams
    <3>3. CASE ~after
      <4>1. n2 = sz[bp] + 0 /\ sz[bp] \in Nat /\ next = bp + sz[bp]
        BY <3>3, <1>0, <1>3
      <4>2. next \notin DOMAIN sz \ U
        BY <3>3, <1>2
      <4> HIDE DEF next, n2, n3, first
      <4>3. bp + n2 = next
        BY <4>1
      <4> QED
        BY <2>2, <3>1, <4>2, <4>3
    <3> QED
      BY <3>2, <3>3
  <2> HIDE DEF first, n3
  <2> QED
    BY <2>1, <2>2 DEF Closed
<1>16. Seams(One(sz, first, n3), U) \subseteq S
  <2>1. (U \cup {bp}) \ B3 = U
    <3> HIDE DEF B3
    <3> QED
      BY <1>13, <1>14
  <2>2. Seams(One(sz, first, n3), (U \cup {bp}) \ B3) \subseteq S
    <3> HIDE DEF B3, first, n3
    <3> QED
      BY <1>0, <1>9, <1>15, OneSeams DEF S
  <2> QED
    BY <2>1, <2>2
<1>17. ASSUME before \/ after
       PROVE  FreeAt(r, m, E, sz, U, sz[bp], S)
  <2> DEFINE m4 == insert_into_free_list(PutTags(m3, first, n3, 0), first)
             s4 == One(sz, first, n3)
  <2>1. /\ Full(m4, E, s4, U \ B3) /\ Keeps(m3, sz, m4, s4, U \ B3)
        /\ first \in DOMAIN s4 \ (U \ B3) /\ s4[first] = n3
    <3>1. Heap(m3, E, sz, U, (DOMAIN sz \ U) \ B3) /\ Region(E, sz, first, n3, B3)
      BY <1>9, <1>12
    <3> HIDE DEF m3, L, B3, n3, first
    <3> QED
      BY <3>1, Merged
  <2>2. r.mem = m4 /\ r.ptr = first
    <3>1. r = [mem |-> m4, ptr |-> first]
      BY <1>6, <1>17
    <3> HIDE DEF r, m4, first
    <3> QED
      BY <3>1
  <2>3. Seams(s4, U) \subseteq S
    BY <1>16
  <2> HIDE DEF m4, s4, m3, B3, n3, first, r, S
  <2>4. Keeps(m, sz, m3, sz, U)
    BY <1>12, SameKeeps
  <2>5. Full(m4, E, s4, U) /\ Keeps(m3, sz, m4, s4, U) /\ first \in DOMAIN s4 \ U
    BY <2>1, <1>13
  <2>6. Keeps(m, sz, m4, s4, U)
    BY <2>4, <2>5, KeepsOn
  <2>7. s4[first] >= sz[bp]
    BY <2>1, <1>9
  <2> QED
    BY <2>2, <2>5, <2>6, <2>7, <2>3 DEF FreeAt
<1>18. FreeAt(r, m, E, sz, U, sz[bp], S)
  <2> HIDE DEF r, before, after, S
  <2> QED
    BY <1>5, <1>17
<1> QED
  BY <1>18

(* A block in use is given back, and no seam comes of it.                  *)
LEMMA Freed ==
  ASSUME NEW m, NEW E, NEW sz, NEW U, Full(m, E, sz, U), NEW bp \in U
  PROVE  \E sz2 : /\ Full(mm_free(m, bp), E, sz2, U \ {bp})
                  /\ Keeps(m, sz, mm_free(m, bp), sz2, U \ {bp})
                  /\ Seams(sz2, U \ {bp}) \subseteq Seams(sz, U)
<1> DEFINE n == sz[bp]
           m2 == insert_into_free_list(PutTags(m, bp, n, 0), bp)
           s2 == One(sz, bp, n)
           V == U \ {bp}
           r == coalesce(m2, bp)
<1>0. /\ Tiles(E, sz) /\ Tagged(m, E, sz, U) /\ Heap(m, E, sz, U, DOMAIN sz \ U)
      /\ bp \in DOMAIN sz
  BY DEF Full, Heap, Tagged
<1>1. Region(E, sz, bp, n, {bp})
  BY <1>0, RegionOfOne
<1>2. Heap(m, E, sz, U, (DOMAIN sz \ U) \ {bp})
  <2>1. (DOMAIN sz \ U) \ {bp} = DOMAIN sz \ U
    OBVIOUS
  <2> QED
    BY <2>1, <1>0
<1>3. /\ Full(m2, E, s2, V) /\ Keeps(m, sz, m2, s2, V) /\ bp \in DOMAIN s2 \ V
  <2> HIDE DEF n
  <2> QED
    BY <1>1, <1>2, Merged
<1>4. FreeAt(r, m2, E, s2, V, s2[bp], Seams(s2, V \cup {bp}))
  <2> HIDE DEF m2, s2, V
  <2> QED
    BY <1>3, Coalesced
<1>5. mm_free(m, bp) = r.mem
  <2>1. BlockSize(m, bp) = n
    BY <1>0, BlockTags
  <2> QED
    BY <2>1 DEF mm_free
<1>6. Seams(s2, V \cup {bp}) = Seams(sz, U)
  <2>1. bp \notin Outside(sz, bp, n) /\ Outside(sz, bp, n) = DOMAIN sz \ {bp}
    BY <1>0, <1>1, RegionAt DEF Region
  <2>2. DOMAIN s2 = DOMAIN sz /\ \A b \in DOMAIN sz : s2[b] = sz[b]
    BY <1>0, <2>1 DEF One
  <2>3. V \cup {bp} = U
    OBVIOUS
  <2> HIDE DEF s2
  <2> QED
    BY <2>2, <2>3, SameSeams
<1> HIDE DEF r, m2, s2, V
<1>7. PICK sz2 : /\ Full(r.mem, E, sz2, V) /\ Keeps(m2, s2, r.mem, sz2, V)
                 /\ Seams(sz2, V) \subseteq Seams(s2, V \cup {bp})
  BY <1>4 DEF FreeAt
<1>8. Keeps(m, sz, r.mem, sz2, V)
  BY <1>3, <1>7, KeepsOn
<1> QED
  BY <1>5, <1>7, <1>8, <1>6 DEF V

-----------------------------------------------------------------------------
(* The heap grows by a block of n words, free and not yet on a list.       *)
Longer(sz, E, n) == [b \in DOMAIN sz \cup {E} |-> IF b = E THEN n ELSE sz[b]]

(* The blocks sz and behind them one more, of n words.                     *)
IsLonger(sz, E, n, s2) ==
  /\ E \notin DOMAIN sz /\ DOMAIN s2 = DOMAIN sz \cup {E} /\ s2[E] = n
  /\ \A b \in DOMAIN sz : s2[b] = sz[b]

(* A heap that grows by a block is tiled.                                  *)
LEMMA LongerTiles ==
  ASSUME NEW E, NEW sz, Tiles(E, sz), NEW n, Even(n), n >= 4, E + n <= MAX_HEAP
  PROVE  Tiles(E + n, Longer(sz, E, n)) /\ IsLonger(sz, E, n, Longer(sz, E, n))
<1> DEFINE s2 == Longer(sz, E, n)
<1>1. E \in Nat /\ n \in Nat /\ MAX_HEAP \in Nat /\ FirstBlock \in Nat /\ FirstBlock <= E
  BY Constants DEF Tiles, Even
<1>2. \A b \in DOMAIN sz : b \in Nat /\ sz[b] \in Nat /\ sz[b] >= 4 /\ b + sz[b] <= E
  BY BlockAt
<1>3. E \notin DOMAIN sz
  BY <1>1, <1>2
<1>4. DOMAIN s2 = DOMAIN sz \cup {E} /\ s2[E] = n /\ \A b \in DOMAIN sz : s2[b] = sz[b]
  BY <1>3 DEF Longer
<1> HIDE DEF s2
<1>5. ASSUME NEW b \in DOMAIN s2
      PROVE  /\ Even(b) /\ FirstBlock <= b /\ Even(s2[b]) /\ s2[b] >= 4
             /\ b + s2[b] \in DOMAIN s2 \cup {E + n} /\ b + s2[b] <= E + n
  <2>1. CASE b = E
    BY <2>1, <1>1, <1>4 DEF Tiles
  <2>2. CASE b \in DOMAIN sz
    <3>1. /\ Even(b) /\ FirstBlock <= b /\ Even(sz[b]) /\ sz[b] >= 4
          /\ b + sz[b] \in DOMAIN sz \cup {E} /\ b + sz[b] <= E
      BY <2>2 DEF Tiles
    <3>2. b + sz[b] <= E + n
      BY <2>2, <3>1, <1>1, <1>2
    <3> QED
      BY <2>2, <3>1, <3>2, <1>4
  <2> QED
    BY <2>1, <2>2, <1>4
<1>6. ASSUME NEW b \in DOMAIN s2, NEW c \in DOMAIN s2, b < c
      PROVE  b + s2[b] <= c
  <2>1. CASE b = E
    <3>1. c = E \/ c < E
      <4>1. c \in DOMAIN sz => c < E
        BY <1>1, <1>2
      <4> QED
        BY <4>1, <1>4
    <3>2. c \in Nat
      BY <1>1, <1>2, <1>4
    <3> QED
      BY <2>1, <3>1, <3>2, <1>1, <1>6
  <2>2. CASE b \in DOMAIN sz /\ c = E
    BY <2>2, <1>2, <1>4
  <2>3. CASE b \in DOMAIN sz /\ c \in DOMAIN sz
    BY <2>3, <1>4, <1>6 DEF Tiles
  <2> QED
    BY <2>1, <2>2, <2>3, <1>4
<1>7. Even(E + n) /\ FirstBlock <= E + n
  <2>1. Even(E)
    BY DEF Tiles
  <2>2. Even(E + n)
    BY <2>1, EvenNumbers
  <2> QED
    BY <2>2, <1>1
<1>8. FirstBlock \in DOMAIN s2 \cup {E + n}
  BY <1>4 DEF Tiles
<1>9. Tiles(E + n, s2)
  BY <1>5, <1>6, <1>7, <1>8 DEF Tiles
<1> QED
  BY <1>3, <1>4, <1>9 DEF s2, IsLonger

(* A heap that mem_sbrk has made longer is in order when its new words hold*)
(* a block and the epilogue.                                               *)
LEMMA LongerHeap ==
  ASSUME NEW m, NEW E, NEW sz, NEW U, NEW L, Heap(m, E, sz, U, L), NEW n, Even(n), n >= 4,
         E + n <= MAX_HEAP, NEW m2 \in [Exited..(E + n - 1) -> Int],
         \A a \in Exited..(E - 2) : m2[a] = m[a],
         m2[E - 1] = PACK(n, 0), m2[E + n - 2] = PACK(n, 0), m2[E + n - 1] = PACK(0, 1)
  PROVE  /\ Heap(m2, E + n, Longer(sz, E, n), U, L)
         /\ Keeps(m, sz, m2, Longer(sz, E, n), U)
<1> DEFINE s2 == Longer(sz, E, n)
<1>0. Tiles(E, sz) /\ Tagged(m, E, sz, U) /\ Listed(m, sz, L) /\ L \subseteq DOMAIN sz \ U
  BY DEF Heap
<1>1. /\ Tiles(E + n, s2) /\ E \notin DOMAIN sz /\ DOMAIN s2 = DOMAIN sz \cup {E}
      /\ s2[E] = n /\ \A b \in DOMAIN sz : s2[b] = sz[b]
  <2>1. Tiles(E + n, s2) /\ IsLonger(sz, E, n, s2)
    BY <1>0, LongerTiles
  <2> HIDE DEF s2
  <2> QED
    BY <2>1 DEF IsLonger
<1>2. /\ E \in Nat /\ n \in Nat /\ N_LISTS \in Nat /\ N_LISTS >= 2 /\ N_LISTS + 4 <= E
      /\ U \subseteq DOMAIN sz
  BY <1>0, Constants DEF Tiles, Even, Tagged
<1>3. ASSUME NEW b \in DOMAIN sz, NEW a \in (b - 1)..(b + sz[b] - 2)
      PROVE  m2[a] = m[a]
  <2>1. a \in Exited..(E - 1) /\ a < E - 1
    BY <1>0, OwnWords
  <2>2. a \in Exited..(E - 2)
    BY <2>1, <1>2 DEF Exited
  <2> QED
    BY <2>2
<1>4. \A b \in DOMAIN sz : b \in Nat /\ sz[b] \in Nat /\ sz[b] >= 4
  BY <1>0, BlockAt
<1> HIDE DEF s2
<1>5. ASSUME NEW b \in DOMAIN s2
      PROVE  m2[b - 1] = TagOf(s2, U, b) /\ m2[b + s2[b] - 2] = TagOf(s2, U, b)
  <2>1. CASE b \in DOMAIN sz
    <3>1. /\ b - 1 \in (b - 1)..(b + sz[b] - 2)
          /\ b + sz[b] - 2 \in (b - 1)..(b + sz[b] - 2)
      BY <2>1, <1>4
    <3>2. m2[b - 1] = m[b - 1] /\ m2[b + sz[b] - 2] = m[b + sz[b] - 2]
      BY <2>1, <3>1, <1>3
    <3>3. m[b - 1] = TagOf(sz, U, b) /\ m[b + sz[b] - 2] = TagOf(sz, U, b)
      BY <2>1, <1>0 DEF Tagged
    <3>4. s2[b] = sz[b]
      BY <2>1, <1>1
    <3> QED
      BY <3>2, <3>3, <3>4 DEF TagOf
  <2>2. CASE b = E
    <3>1. E \notin U
      BY <1>1, <1>2
    <3>2. TagOf(s2, U, b) = PACK(n, 0)
      BY <2>2, <3>1, <1>1 DEF TagOf
    <3> QED
      BY <2>2, <3>2, <1>1
  <2> QED
    BY <2>1, <2>2, <1>1
<1>6. Tagged(m2, E + n, s2, U)
  <2>1. ASSUME NEW a \in {Exited, N_LISTS + 1, N_LISTS + 2} PROVE m2[a] = m[a]
    <3>1. a = -1 \/ a = N_LISTS + 1 \/ a = N_LISTS + 2
      BY DEF Exited
    <3>2. a \in Exited..(E - 2)
      BY <3>1, <1>2 DEF Exited
    <3> QED
      BY <3>2
  <2>2. /\ m2[Exited] = m[Exited] /\ m2[N_LISTS + 1] = m[N_LISTS + 1]
        /\ m2[Prologue] = m[Prologue]
    BY <2>1 DEF Prologue
  <2>3. U \subseteq DOMAIN s2
    BY <1>1, <1>2
  <2>4. m2[(E + n) - 1] = PACK(0, 1) /\ m2 \in [Exited..((E + n) - 1) -> Int]
    <3>1. (E + n) - 1 = E + n - 1
      BY <1>2
    <3> QED
      BY <3>1
  <2> QED
    BY <1>0, <1>5, <2>2, <2>3, <2>4, Zenon DEF Tagged
<1>7. ASSUME NEW c \in 1..N_LISTS PROVE Linked(m2, c, OfClass(s2, L, c))
  <2>1. OfClass(s2, L, c) = OfClass(sz, L, c)
    <3>1. \A b \in L : s2[b] = sz[b]
      BY <1>0, <1>1
    <3> QED
      BY <3>1 DEF OfClass
  <2>2. Linked(m, c, OfClass(sz, L, c))
    BY <1>0 DEF Listed
  <2>3. m2[c] = m[c]
    <3>1. c \in Exited..(E - 2)
      BY <1>2 DEF Exited
    <3> QED
      BY <3>1
  <2>4. \A x \in OfClass(sz, L, c) : m2[x] = m[x] /\ m2[x + 1] = m[x + 1]
    <3> TAKE x \in OfClass(sz, L, c)
    <3>1. x \in DOMAIN sz
      BY <1>0 DEF OfClass
    <3>2. x \in (x - 1)..(x + sz[x] - 2) /\ x + 1 \in (x - 1)..(x + sz[x] - 2)
      BY <3>1, <1>4
    <3> QED
      BY <3>1, <3>2, <1>3
  <2> QED
    BY <2>1, <2>2, <2>3, <2>4, ListKept
<1>8. L \subseteq DOMAIN s2 \ U
  BY <1>0, <1>1
<1>9. Keeps(m, sz, m2, s2, U)
  <2> SUFFICES ASSUME NEW u \in U
               PROVE  s2[u] = sz[u] /\ \A a \in u..(u + sz[u] - 3) : m2[a] = m[a]
    BY DEF Keeps
  <2>1. u \in DOMAIN sz
    BY <1>2
  <2>2. ASSUME NEW a \in u..(u + sz[u] - 3) PROVE m2[a] = m[a]
    <3>1. a \in (u - 1)..(u + sz[u] - 2)
      BY <2>1, <1>4
    <3> QED
      BY <2>1, <3>1, <1>3
  <2> QED
    BY <2>1, <2>2, <1>1
<1>10. Heap(m2, E + n, s2, U, L)
  BY <1>1, <1>6, <1>7, <1>8 DEF Heap, Listed
<1> QED
  BY <1>9, <1>10 DEF s2

(* What extend_heap asks of mem_sbrk is even and enough.                   *)
LEMMA SbrkSize ==
  ASSUME NEW words \in Nat
  PROVE  LET size == Max({EvenWords(words), 4})
         IN  Even(size) /\ size \in Nat /\ size >= 4 /\ size >= words
<1> DEFINE even == EvenWords(words)
<1>1. even \in Nat /\ even >= words /\ even % 2 = 0
  <2>1. words % 2 = 0 \/ words % 2 = 1
    OBVIOUS
  <2>2. CASE words % 2 = 0
    <3>1. even = words
      BY <2>2 DEF EvenWords
    <3> HIDE DEF even
    <3> QED
      BY <2>2, <3>1
  <2>3. CASE words % 2 = 1
    <3>1. even = words + 1
      BY <2>3 DEF EvenWords
    <3>2. (words + 1) % 2 = 0
      BY <2>3
    <3> HIDE DEF even
    <3> QED
      BY <3>1, <3>2
  <2> QED
    BY <2>1, <2>2, <2>3
<1>2. 4 \in Nat /\ Even(4)
  BY DEF Even
<1> HIDE DEF even
<1>3. Max({even, 4}) = IF even >= 4 THEN even ELSE 4
  BY <1>1, <1>2, MaxOfTwo
<1>4. Even(even)
  BY <1>1 DEF Even
<1> QED
  BY <1>1, <1>2, <1>3, <1>4 DEF even

(* What mem_sbrk adds is written as a free block and a new epilogue.       *)
Sbrk(m, E, n) == [a \in Exited..(E + n - 1) |-> IF a < E THEN m[a] ELSE Fresh]

(* What extend_heap writes into the words mem_sbrk returns.                *)
WithBlock(m, E, n) == [PutTags(Sbrk(m, E, n), E, n, 0) EXCEPT ![HDRP(E + n)] = PACK(0, 1)]

(* Its header has replaced the epilogue, which is behind it now, and the   *)
(* words before it are kept.                                               *)
HasBlock(m, m2, E, n) ==
  /\ m2 \in [Exited..(E + n - 1) -> Int]
  /\ \A a \in Exited..(E - 2) : m2[a] = m[a]
  /\ m2[E - 1] = PACK(n, 0) /\ m2[E + n - 2] = PACK(n, 0)
  /\ m2[E + n - 1] = PACK(0, 1)

(* The writes of extend_heap do that.                                      *)
LEMMA Added ==
  ASSUME NEW E \in Nat, E >= 2, NEW m \in [Exited..(E - 1) -> Int], NEW n \in Nat, n >= 4
  PROVE  HasBlock(m, WithBlock(m, E, n), E, n)
<1> DEFINE D == Exited..(E + n - 1)
           m1 == Sbrk(m, E, n)
           m2 == WithBlock(m, E, n)
           pt == PutTags(m1, E, n, 0)
<1>1. m1 \in [D -> Int]
  <2>1. ASSUME NEW a \in D PROVE (IF a < E THEN m[a] ELSE Fresh) \in Int
    <3>1. a < E => a \in Exited..(E - 1)
      BY DEF Exited
    <3> QED
      BY <3>1 DEF Fresh
  <2> QED
    BY <2>1 DEF Sbrk
<1>2. \A a \in Exited..(E - 2) : m1[a] = m[a] /\ a \in D /\ a # E - 1 /\ a # E + n - 2
                                 /\ a # E + n - 1
  <2> TAKE a \in Exited..(E - 2)
  <2>1. a \in D /\ a < E /\ a # E - 1 /\ a # E + n - 2 /\ a # E + n - 1
    BY DEF Exited
  <2> QED
    BY <2>1 DEF Sbrk
<1> HIDE DEF m1
<1>3. Tagging(m1, pt, E + n, E, n, 0)
  <2>1. E + n \in Nat /\ E > 0 /\ E + n <= E + n /\ 0 \in {0, 1}
    OBVIOUS
  <2>2. m1 \in [Exited..((E + n) - 1) -> Int]
    BY <1>1
  <2> HIDE DEF D
  <2> QED
    BY <2>1, <2>2, PutsTags
<1> HIDE DEF pt
<1>4. /\ pt \in [D -> Int]
      /\ pt[E - 1] = PACK(n, 0) /\ pt[E + n - 2] = PACK(n, 0)
      /\ \A a \in D : a # E - 1 /\ a # E + n - 2 => pt[a] = m1[a]
  BY <1>3 DEF Tagging
<1>5. m2 = [pt EXCEPT ![E + n - 1] = PACK(0, 1)]
  BY DEF HDRP, pt, WithBlock, m1
<1> HIDE DEF m2
<1>6. PACK(0, 1) \in Int /\ E + n - 1 \in D /\ E - 1 # E + n - 1 /\ E + n - 2 # E + n - 1
      /\ E - 1 \in D /\ E + n - 2 \in D
  BY DEF PACK, Exited
<1> HIDE DEF D
<1>7. /\ m2 \in [D -> Int] /\ m2[E + n - 1] = PACK(0, 1)
      /\ \A a \in D : a # E + n - 1 => m2[a] = pt[a]
  BY <1>4, <1>5, <1>6
<1>8. m2[E - 1] = PACK(n, 0) /\ m2[E + n - 2] = PACK(n, 0)
  BY <1>4, <1>6, <1>7
<1>9. \A a \in Exited..(E - 2) : m2[a] = m[a]
  BY <1>2, <1>4, <1>7
<1> QED
  BY <1>7, <1>8, <1>9 DEF D, m2, HasBlock

(* The heap grows, or there is no more memory.                             *)
LEMMA Extended ==
  ASSUME NEW m, NEW E, NEW sz, NEW U, Full(m, E, sz, U), NEW words \in Nat
  PROVE  \/ extend_heap(m, words) = [mem |-> m, ptr |-> 0]
         \/ \E E2 : FreeAt(extend_heap(m, words), m, E2, sz, U, words, Seams(sz, U))
<1> DEFINE size == Max({EvenWords(words), 4})
           blk == WithBlock(m, E, size)
           m3 == insert_into_free_list(blk, E)
           s2 == Longer(sz, E, size)
           r == coalesce(m3, E)
<1>0. /\ Tiles(E, sz) /\ Tagged(m, E, sz, U) /\ Heap(m, E, sz, U, DOMAIN sz \ U)
      /\ U \subseteq DOMAIN sz
  BY DEF Full, Heap, Tagged
<1>1. E \in Nat /\ E >= 2 /\ m \in [Exited..(E - 1) -> Int]
  BY <1>0, Constants DEF Tiles, Even, Tagged
<1>2. Hi(m) + 1 = E
  BY <1>0, <1>1, HeapEnd
<1>3. Even(size) /\ size \in Nat /\ size >= 4 /\ size >= words
  BY SbrkSize
<1>4. extend_heap(m, words) = IF E + size > MAX_HEAP THEN [mem |-> m, ptr |-> 0] ELSE r
  BY <1>2, Zenon DEF extend_heap, WithBlock, Sbrk
<1>5. CASE E + size > MAX_HEAP
  BY <1>4, <1>5
<1>6. CASE ~(E + size > MAX_HEAP)
  <2> HIDE DEF size
  <2>1. E + size <= MAX_HEAP
    BY <1>6, <1>1, <1>3, Constants
  <2>2. /\ blk \in [Exited..(E + size - 1) -> Int]
        /\ \A a \in Exited..(E - 2) : blk[a] = m[a]
        /\ blk[E - 1] = PACK(size, 0) /\ blk[E + size - 2] = PACK(size, 0)
        /\ blk[E + size - 1] = PACK(0, 1)
    <3>1. HasBlock(m, blk, E, size)
      BY <1>1, <1>3, Added
    <3> HIDE DEF blk
    <3> QED
      BY <3>1 DEF HasBlock
  <2> HIDE DEF blk
  <2>3. /\ Heap(blk, E + size, s2, U, DOMAIN sz \ U) /\ Keeps(m, sz, blk, s2, U)
    BY <2>1, <2>2, <1>0, <1>3, LongerHeap
  <2>4. IsLonger(sz, E, size, s2)
    BY <2>1, <1>0, <1>3, LongerTiles
  <2> HIDE DEF s2
  <2>5. E \in DOMAIN s2 /\ E \notin U /\ E \notin DOMAIN sz \ U /\ s2[E] = size
        /\ (DOMAIN sz \ U) \cup {E} = DOMAIN s2 \ U
    BY <2>4, <1>0 DEF IsLonger
  <2>6. Heap(m3, E + size, s2, U, (DOMAIN sz \ U) \cup {E}) /\ Same(blk, m3, s2, U)
    BY <2>3, <2>5, Inserted
  <2> HIDE DEF m3
  <2>7. Full(m3, E + size, s2, U)
    BY <2>5, <2>6 DEF Full
  <2>8. Keeps(m, sz, m3, s2, U)
    BY <2>3, <2>6, SameKeeps, KeepsOn
  <2>9. FreeAt(r, m3, E + size, s2, U, size, Seams(s2, U \cup {E}))
    <3>1. E \in DOMAIN s2 \ U
      BY <2>5
    <3>2. FreeAt(r, m3, E + size, s2, U, s2[E], Seams(s2, U \cup {E}))
      BY <2>7, <3>1, Coalesced
    <3> QED
      BY <3>2, <2>5
  <2>10. Seams(s2, U \cup {E}) \subseteq Seams(sz, U)
    BY <2>4 DEF Seams, IsLonger
  <2> HIDE DEF r
  <2>11. FreeAt(r, m, E + size, sz, U, words, Seams(sz, U))
    <3>1. PICK s3 : /\ Full(r.mem, E + size, s3, U) /\ Keeps(m3, s2, r.mem, s3, U)
                    /\ r.ptr \in DOMAIN s3 \ U /\ s3[r.ptr] >= size
                    /\ Seams(s3, U) \subseteq Seams(s2, U \cup {E})
      BY <2>9 DEF FreeAt
    <3>2. Keeps(m, sz, r.mem, s3, U)
      BY <2>8, <3>1, KeepsOn
    <3>3. s3[r.ptr] >= words
      <4>1. s3[r.ptr] \in Nat
        BY <3>1, BlockAt DEF Full, Heap
      <4> QED
        BY <3>1, <4>1, <1>3
    <3> QED
      BY <2>10, <3>1, <3>2, <3>3 DEF FreeAt
  <2> QED
    BY <2>11, <1>4, <1>6
<1> QED
  BY <1>5, <1>6

(* The block p holds k words besides its blocks' neighbours in V, which    *)
(* are kept, and what was in its first words; there is no seam outside S.  *)
InPlace(r, m, E, sz, V, p, k, S) ==
  \E sz2 : /\ Full(r, E, sz2, V \cup {p}) /\ Keeps(m, sz, r, sz2, V)
           /\ sz2[p] - k \in {0, 2}
           /\ Alike(m, r, p, k)
           /\ Seams(sz2, V \cup {p}) \subseteq S

(* What is left of a region of n words when k are in use is a free block   *)
(* if it is large enough for one, and may make a seam behind it.           *)
SeamsRest(sz, U, p, n, k) ==
  IF n - k >= 4 THEN SeamsBut(sz, U, p + n) ELSE Seams(sz, U)

(* A region, none of it on a list, is a block in use and perhaps a rest.   *)
LEMMA SplitPlaces ==
  ASSUME NEW m, NEW E, NEW sz, NEW U, NEW p, NEW n, NEW B, Region(E, sz, p, n, B),
         Heap(m, E, sz, U, (DOMAIN sz \ U) \ B), NEW k, Even(k), k >= 4, k <= n
  PROVE  InPlace(Split(m, p, n, k), m, E, sz, U \ B, p, k, SeamsRest(sz, U, p, n, k))
<1> DEFINE O == Outside(sz, p, n)
           V == U \ B
           L == (DOMAIN sz \ U) \ B
           r == Split(m, p, n, k)
           S == SeamsRest(sz, U, p, n, k)
<1>0. Tiles(E, sz) /\ Tagged(m, E, sz, U) /\ U \subseteq DOMAIN sz
  BY DEF Heap, Tagged
<1>1. /\ p \in DOMAIN sz /\ Even(n) /\ n >= 4 /\ p + n \in DOMAIN sz \cup {E}
      /\ O = DOMAIN sz \ B /\ B \subseteq DOMAIN sz
  BY DEF Region
<1>2. n \in Nat /\ k \in Nat
  BY <1>1 DEF Even
<1>3. p \notin O /\ p \in Nat
  BY <1>0, <1>1, <1>2, RegionAt
<1>4. U \cap O = V /\ L \subseteq O /\ p \in B /\ p \notin V
  BY <1>0, <1>1, <1>3
<1>5. Heap(m, E, sz, U, L)
  OBVIOUS
<1> HIDE DEF V, L
<1>6. ASSUME n - k >= 4 PROVE InPlace(r, m, E, sz, V, p, k, S)
  <2> DEFINE m1 == PutTags(PutTags(m, p, k, 1), p + k, n - k, 0)
             q == p + k
             m2 == insert_into_free_list(m1, q)
             s2 == Two(sz, p, k, n)
             W == V \cup {p}
  <2>1. r = m2
    BY <1>6 DEF Split
  <2>2. /\ Heap(m1, E, s2, (U \cap O) \cup {p}, L) /\ Same(m, m1, sz, U \cap O)
        /\ Alike(m, m1, p, k)
    BY <1>1, <1>4, <1>5, <1>6, CutInTwo
  <2> HIDE DEF m1
  <2>3. q # p /\ q \notin O
    BY <1>2, <1>3, <1>6 DEF Outside
  <2>4. /\ DOMAIN s2 = O \cup {p, q} /\ s2[p] = k /\ \A b \in O : s2[b] = sz[b]
    <3>1. \A b \in O : b # p /\ b # p + k
      BY <1>3, <2>3
    <3> QED
      BY <3>1 DEF Two
  <2>5. Seams(s2, V \cup {p}) \subseteq S
    BY <1>0, <1>6, RestSeams DEF V, SeamsRest
  <2> HIDE DEF s2, S
  <2>6. Heap(m1, E, s2, W, L) /\ Same(m, m1, sz, V)
    BY <2>2, <1>4
  <2>7. q \in DOMAIN s2 /\ q \notin W /\ q \notin L
    <3>1. q \notin V
      BY <2>3, <1>4
    <3> QED
      BY <2>3, <2>4, <3>1, <1>4
  <2>8. Heap(m2, E, s2, W, L \cup {q}) /\ Same(m1, m2, s2, W)
    <3> HIDE DEF q, W
    <3> QED
      BY <2>6, <2>7, Inserted
  <2>9. L \cup {q} = DOMAIN s2 \ W
    <3> HIDE DEF q
    <3> QED
      BY <2>3, <2>4, <1>1, <1>4 DEF V, L
  <2> HIDE DEF m2
  <2>10. Full(m2, E, s2, V \cup {p})
    BY <2>8, <2>9 DEF Full
  <2>11. Keeps(m, sz, m2, s2, V)
    <3>1. \A u \in V : u \in O /\ s2[u] = sz[u]
      BY <2>4, <1>4
    <3> HIDE DEF O
    <3> QED
      BY <3>1, <2>6, <2>8 DEF Same, Keeps
  <2>12. s2[p] - k \in {0, 2}
    BY <2>4, <1>2
  <2>13. \A a \in p..(p + k - 3) : m2[a] = m[a]
    <3> TAKE a \in p..(p + k - 3)
    <3>1. m2[a] = m1[a]
      <4>1. p \in W /\ a \in p..(p + s2[p] - 3)
        BY <2>4
      <4> HIDE DEF W
      <4> QED
        BY <4>1, <2>8 DEF Same
    <3> QED
      BY <3>1, <2>2 DEF Alike
  <2> HIDE DEF r
  <2> QED
    BY <2>1, <2>10, <2>11, <2>12, <2>13, <2>5 DEF InPlace, Alike
<1>7. ASSUME ~(n - k >= 4) PROVE InPlace(r, m, E, sz, V, p, k, S)
  <2> DEFINE m2 == PutTags(m, p, n, 1)
             s2 == One(sz, p, n)
  <2>1. r = m2
    BY <1>7 DEF Split
  <2>2. /\ Heap(m2, E, s2, (U \cap O) \cup {p}, L) /\ Same(m, m2, sz, U \cap O)
        /\ Alike(m, m2, p, n)
    <3> DEFINE one == 1
               P == {p}
               m3 == PutTags(m, p, n, one)
    <3>1. one \in {0, 1} /\ P = IF one = 1 THEN {p} ELSE {}
      OBVIOUS
    <3>2. m3 = m2
      OBVIOUS
    <3> HIDE DEF one, P
    <3>3. Heap(m3, E, s2, (U \cap O) \cup P, L) /\ Same(m, m3, sz, U \cap O)
          /\ Alike(m, m3, p, n)
      BY <3>1, <1>1, <1>4, <1>5, Joined
    <3> HIDE DEF m2, m3, s2
    <3> QED
      BY <3>2, <3>3 DEF P
  <2>3. /\ DOMAIN s2 = O \cup {p} /\ s2[p] = n /\ \A b \in O : s2[b] = sz[b]
    <3>1. \A b \in O : b # p
      BY <1>3
    <3> QED
      BY <3>1 DEF One
  <2>4. Seams(s2, V \cup {p}) \subseteq S
    BY <1>0, <1>7, UsedSeams DEF V, SeamsRest
  <2> HIDE DEF m2, s2, S
  <2>5. Heap(m2, E, s2, V \cup {p}, L) /\ Same(m, m2, sz, V)
    BY <2>2, <1>4
  <2>6. L = DOMAIN s2 \ (V \cup {p})
    BY <2>3, <1>1, <1>4 DEF V, L
  <2>7. Full(m2, E, s2, V \cup {p})
    BY <2>5, <2>6 DEF Full
  <2>8. Keeps(m, sz, m2, s2, V)
    <3>1. \A u \in V : u \in O /\ s2[u] = sz[u]
      BY <2>3, <1>4
    <3> HIDE DEF O
    <3> QED
      BY <3>1, <2>5 DEF Same, Keeps
  <2>9. s2[p] - k \in {0, 2}
    <3>1. Even(n - k)
      BY <1>1, EvenNumbers
    <3>2. n - k \in Nat /\ n - k < 4 /\ (n - k) % 2 = 0
      BY <3>1, <1>2, <1>7 DEF Even
    <3>3. n - k \in {0, 2}
      BY <3>2
    <3> QED
      BY <3>3, <2>3
  <2>10. \A a \in p..(p + k - 3) : m2[a] = m[a]
    <3> TAKE a \in p..(p + k - 3)
    <3>1. a \in p..(p + n - 3)
      BY <1>2, <1>3
    <3> QED
      BY <3>1, <2>2 DEF Alike
  <2> HIDE DEF r
  <2> QED
    BY <2>1, <2>7, <2>8, <2>9, <2>10, <2>4 DEF InPlace, Alike
<1>8. InPlace(r, m, E, sz, V, p, k, S)
  BY <1>6, <1>7
<1> QED
  BY <1>8 DEF V

-----------------------------------------------------------------------------
(* In m2 the block p, free in m, has k words and is in use; the other      *)
(* blocks in use are as they were, and no seam is new.                     *)
PlacedAt(m, m2, E, sz, U, p, k) ==
  \E sz2 : /\ Full(m2, E, sz2, U \cup {p}) /\ Keeps(m, sz, m2, sz2, U)
           /\ sz2[p] - k \in {0, 2}
           /\ Seams(sz2, U \cup {p}) \subseteq Seams(sz, U)

(* A free block is given to the program, and makes no seam.                *)
LEMMA PlaceIn ==
  ASSUME NEW m, NEW E, NEW sz, NEW U, Full(m, E, sz, U), NEW p \in DOMAIN sz \ U,
         NEW k, Even(k), k >= 4, k <= sz[p]
  PROVE  PlacedAt(m, place(m, p, k), E, sz, U, p, k)
<1> DEFINE m1 == delete_from_free_list(m, p)
           n == sz[p]
           r == Split(m1, p, n, k)
<1>0. /\ Tiles(E, sz) /\ Tagged(m, E, sz, U) /\ Heap(m, E, sz, U, DOMAIN sz \ U)
      /\ U \subseteq DOMAIN sz
  BY DEF Full, Heap, Tagged
<1>1. Heap(m1, E, sz, U, (DOMAIN sz \ U) \ {p}) /\ Same(m, m1, sz, U)
  BY <1>0, Deleted
<1>2. Region(E, sz, p, n, {p})
  BY <1>0, RegionOfOne
<1>3. InPlace(r, m1, E, sz, U \ {p}, p, k, SeamsRest(sz, U, p, n, k))
  <2>1. k <= n
    OBVIOUS
  <2> HIDE DEF m1, n
  <2> QED
    BY <2>1, <1>1, <1>2, SplitPlaces
<1>4. U \ {p} = U
  OBVIOUS
<1>5. place(m, p, k) = r
  <2>1. BlockSize(m, p) = n
    BY <1>0, BlockTags
  <2> QED
    BY <2>1 DEF place
<1>6. SeamsRest(sz, U, p, n, k) \subseteq Seams(sz, U)
  BY DEF SeamsRest, SeamsBut, Seams
<1> HIDE DEF r, m1, n
<1>7. PICK s2 : /\ Full(r, E, s2, U \cup {p}) /\ Keeps(m1, sz, r, s2, U)
                /\ s2[p] - k \in {0, 2}
                /\ Seams(s2, U \cup {p}) \subseteq Seams(sz, U)
  BY <1>3, <1>4, <1>6 DEF InPlace
<1>8. Keeps(m, sz, r, s2, U)
  BY <1>1, <1>7, SameKeeps, KeepsOn
<1> QED
  BY <1>5, <1>7, <1>8 DEF PlacedAt

(* find_fit finds a free block that is large enough, or none.              *)
LEMMA FitFound ==
  ASSUME NEW m, NEW E, NEW sz, NEW U, Full(m, E, sz, U), NEW asize \in Nat, asize >= 4
  PROVE  \/ find_fit(m, asize) = 0
         \/ find_fit(m, asize) \in DOMAIN sz \ U /\ sz[find_fit(m, asize)] >= asize
<1> DEFINE L == DOMAIN sz \ U
           fits(class) == {k \in DOMAIN FreeList(m, class) :
                             BlockSize(m, FreeList(m, class)[k]) >= asize}
           classes == {c \in ClassOf(asize)..N_LISTS : m[c] # 0 /\ fits(c) # {}}
           c == Min(classes)
           list == FreeList(m, c)
           F == fits(c)
           best == {k \in F : \A j \in F : BlockSize(m, list[k]) <= BlockSize(m, list[j])}
           p == list[Min(best)]
<1>0. /\ Tiles(E, sz) /\ Tagged(m, E, sz, U) /\ Listed(m, sz, L)
      /\ N_LISTS \in Nat
  BY Constants DEF Full, Heap
<1>1. find_fit(m, asize) = IF classes = {} THEN 0 ELSE p
  BY Zenon DEF find_fit
<1>2. CASE classes = {}
  BY <1>1, <1>2
<1>3. ASSUME classes # {} PROVE p \in DOMAIN sz \ U /\ sz[p] >= asize
  <2>1. ClassOf(asize) \in Nat /\ ClassOf(asize) >= 1
    BY Classes, <1>0
  <2>2. classes \subseteq 1..N_LISTS
    <3> HIDE DEF fits
    <3> QED
      BY <2>1, <1>0
  <2>3. c \in classes
    <3> HIDE DEF classes
    <3>1. classes \subseteq Nat
      BY <2>2, <1>0
    <3> QED
      BY <3>1, <1>3, MinIs
  <2>4. c \in 1..N_LISTS /\ F # {}
    <3>1. c \in 1..N_LISTS
      <4> HIDE DEF classes
      <4> QED
        BY <2>2, <2>3
    <3>2. fits(c) # {}
      BY <2>3, Zenon
    <3> QED
      BY <3>1, <3>2
  <2> HIDE DEF c, classes
  <2>5. Linked(m, c, OfClass(sz, L, c))
    BY <2>4, <1>0 DEF Listed
  <2>6. Apart(OfClass(sz, L, c))
    <3>1. OfClass(sz, L, c) \subseteq DOMAIN sz
      BY DEF OfClass
    <3> QED
      BY <3>1, <1>0, BlocksApart
  <2>7. PICK n \in Nat : Lists(m, list, n, OfClass(sz, L, c))
    <3> HIDE DEF L
    <3> QED
      BY <2>5, <2>6, FreeListIs
  <2>8. DOMAIN list = 1..n /\ \A k \in 1..n : list[k] \in DOMAIN sz \ U
    <3>1. \A x \in OfClass(sz, L, c) : x \in DOMAIN sz \ U
      BY DEF OfClass
    <3> HIDE DEF list
    <3> QED
      BY <3>1, <2>7 DEF Lists
  <2>9. F = {k \in DOMAIN list : BlockSize(m, list[k]) >= asize}
    OBVIOUS
  <2> HIDE DEF F, list, fits
  <2>10. \A k \in F : /\ k \in 1..n /\ list[k] \in DOMAIN sz \ U
                      /\ BlockSize(m, list[k]) = sz[list[k]] /\ sz[list[k]] \in Nat
                      /\ sz[list[k]] >= asize
    <3> TAKE k \in F
    <3>1. k \in 1..n /\ list[k] \in DOMAIN sz \ U /\ BlockSize(m, list[k]) >= asize
      BY <2>8, <2>9
    <3>2. BlockSize(m, list[k]) = sz[list[k]] /\ sz[list[k]] \in Nat
      BY <3>1, <1>0, BlockTags, BlockAt
    <3> QED
      BY <3>1, <3>2
  <2>11. best # {} /\ best \subseteq Nat
    <3> DEFINE Sizes == {sz[list[k]] : k \in F}
    <3>1. Sizes \subseteq Nat /\ Sizes # {}
      BY <2>4, <2>10
    <3>2. PICK s \in Sizes : \A t \in Sizes : s <= t
      <4> HIDE DEF Sizes
      <4> QED
        BY <3>1, LeastNumber
    <3>3. PICK k \in F : s = sz[list[k]]
      OBVIOUS
    <3>4. \A j \in F : sz[list[k]] <= sz[list[j]]
      BY <3>2, <3>3
    <3>5. k \in best
      BY <3>4, <2>10
    <3>6. best \subseteq F
      OBVIOUS
    <3> HIDE DEF best
    <3> QED
      BY <3>5, <3>6, <2>10
  <2>12. Min(best) \in best
    <3> HIDE DEF best
    <3> QED
      BY <2>11, MinIs
  <2>13. Min(best) \in F
    BY <2>12
  <2> HIDE DEF best
  <2> QED
    BY <2>10, <2>13
<1> HIDE DEF p, classes
<1> QED
  BY <1>1, <1>3

(* The size of a block is even, and what is asked for fits in it.          *)
LEMMA AdjustedSize ==
  ASSUME NEW size \in Nat
  PROVE  /\ Adjusted(size) \in Nat /\ Even(Adjusted(size)) /\ Adjusted(size) >= 4
         /\ size + 2 <= Adjusted(size)
         /\ \A n : Even(n) /\ n >= 4 /\ size <= n - 2 => Adjusted(size) <= n
<1>1. CASE size <= 2
  <2>1. Adjusted(size) = 4
    BY <1>1 DEF Adjusted
  <2>2. Even(4)
    BY DEF Even
  <2>3. \A n : Even(n) => n \in Nat
    BY DEF Even
  <2> QED
    BY <1>1, <2>1, <2>2, <2>3
<1>2. CASE ~(size <= 2)
  <2> DEFINE h == (size + 2 + 1) \div 2
  <2>1. Adjusted(size) = 2 * h
    BY <1>2 DEF Adjusted
  <2>2. h \in Nat /\ size + 2 <= 2 * h /\ 2 * h <= size + 3
    OBVIOUS
  <2> HIDE DEF h
  <2>3. (2 * h) % 2 = 0
    BY <2>2
  <2>4. ASSUME NEW n, Even(n), n >= 4, size <= n - 2 PROVE 2 * h <= n
    <3>1. n \in Nat /\ n % 2 = 0
      BY <2>4 DEF Even
    <3>2. Even(2 * h)
      BY <2>2, <2>3 DEF Even
    <3>3. n < 2 * h => n + 2 <= 2 * h
      BY <2>4, <3>2, EvenNumbers
    <3> QED
      BY <2>2, <2>4, <3>1, <3>3
  <2>5. Even(2 * h) /\ 2 * h >= 4 /\ 2 * h \in Nat
    BY <1>2, <2>2, <2>3 DEF Even
  <2> QED
    BY <2>1, <2>2, <2>4, <2>5
<1> QED
  BY <1>1, <1>2

(* A block for size words is new and its own, the others are kept, and no  *)
(* seam is made; or there is no more memory, and the heap is as it was.    *)
Given(r, m, sz, U, size) ==
  \/ r.ptr = 0 /\ r.mem = m
  \/ r.ptr \notin U /\ \E E2, sz2 : /\ Full(r.mem, E2, sz2, U \cup {r.ptr})
                                    /\ Keeps(m, sz, r.mem, sz2, U)
                                    /\ sz2[r.ptr] - Adjusted(size) \in {0, 2}
                                    /\ Seams(sz2, U \cup {r.ptr}) \subseteq Seams(sz, U)

(* mm_malloc returns a block in use that is large enough, and not much too *)
(* large, or the null pointer; the others keep what is in them.            *)
LEMMA Malloced ==
  ASSUME NEW m, NEW E, NEW sz, NEW U, Full(m, E, sz, U), NEW size \in Nat
  PROVE  Given(mm_malloc(m, size), m, sz, U, size)
<1> DEFINE k == Adjusted(size)
           fit == find_fit(m, k)
           w == Max({k, CHUNKSIZE})
           x == extend_heap(m, w)
           s == IF fit # 0 THEN [mem |-> m, ptr |-> fit] ELSE x
           r == mm_malloc(m, size)
<1>1. k \in Nat /\ Even(k) /\ k >= 4
  BY AdjustedSize
<1>2. w \in Nat /\ w >= k
  <2>1. CHUNKSIZE \in Nat
    BY Constants
  <2> HIDE DEF k
  <2>2. w = IF k >= CHUNKSIZE THEN k ELSE CHUNKSIZE
    BY <1>1, <2>1, MaxOfTwo
  <2> HIDE DEF w
  <2> QED
    BY <1>1, <2>1, <2>2
<1>3. r = placed(s, k)
  BY Zenon DEF mm_malloc
<1> HIDE DEF k, r
<1>4. \/ s.ptr = 0 /\ s.mem = m
      \/ \E E2 : FreeAt(s, m, E2, sz, U, k, Seams(sz, U))
  <2>1. CASE fit # 0
    <3>1. fit \in DOMAIN sz \ U /\ sz[fit] >= k
      BY <2>1, <1>1, FitFound
    <3>2. s.mem = m /\ s.ptr = fit
      BY <2>1
    <3>3. Keeps(m, sz, m, sz, U)
      BY DEF Keeps
    <3> HIDE DEF s
    <3> QED
      BY <3>1, <3>2, <3>3 DEF FreeAt
  <2>2. CASE fit = 0
    <3>1. s = x
      BY <2>2
    <3>2. \/ x = [mem |-> m, ptr |-> 0]
          \/ \E E2 : FreeAt(x, m, E2, sz, U, w, Seams(sz, U))
      <4> HIDE DEF w
      <4> QED
        BY <1>2, Extended
    <3> HIDE DEF s, w
    <3>3. ASSUME NEW E2, FreeAt(x, m, E2, sz, U, w, Seams(sz, U))
          PROVE  FreeAt(x, m, E2, sz, U, k, Seams(sz, U))
      <4> HIDE DEF x
      <4>1. PICK s2 : /\ Full(x.mem, E2, s2, U) /\ Keeps(m, sz, x.mem, s2, U)
                      /\ x.ptr \in DOMAIN s2 \ U /\ s2[x.ptr] >= w
                      /\ Seams(s2, U) \subseteq Seams(sz, U)
        BY <3>3 DEF FreeAt
      <4>2. s2[x.ptr] \in Nat
        BY <4>1, BlockAt DEF Full, Heap
      <4>3. s2[x.ptr] >= k
        BY <4>1, <4>2, <1>1, <1>2
      <4> QED
        BY <4>1, <4>3 DEF FreeAt
    <3>4. x = [mem |-> m, ptr |-> 0] => x.ptr = 0 /\ x.mem = m
      <4> HIDE DEF x
      <4> QED
        OBVIOUS
    <3> HIDE DEF x
    <3> QED
      BY <3>1, <3>2, <3>3, <3>4
  <2> QED
    BY <2>1, <2>2
<1> HIDE DEF s
<1>5. CASE s.ptr = 0
  <2>1. r = s
    BY <1>3, <1>5 DEF placed
  <2>2. s.mem = m
    <3>1. ASSUME NEW E2, FreeAt(s, m, E2, sz, U, k, Seams(sz, U)) PROVE FALSE
      <4>1. PICK s2 : Full(s.mem, E2, s2, U) /\ s.ptr \in DOMAIN s2
        BY <3>1 DEF FreeAt
      <4>2. s.ptr >= 6
        BY <4>1, BlockAt DEF Full, Heap
      <4> QED
        BY <4>2, <1>5
    <3> QED
      BY <3>1, <1>4
  <2> QED
    BY <2>1, <2>2, <1>5 DEF Given, r
<1>6. CASE s.ptr # 0
  <2> DEFINE p == s.ptr
             m2 == place(s.mem, p, k)
  <2>1. r.mem = m2 /\ r.ptr = p
    <3>1. r = [mem |-> m2, ptr |-> p]
      BY <1>3, <1>6 DEF placed
    <3> HIDE DEF m2, p
    <3> QED
      BY <3>1
  <2>2. PICK E2 : FreeAt(s, m, E2, sz, U, k, Seams(sz, U))
    BY <1>4, <1>6
  <2>3. PICK s2 : /\ Full(s.mem, E2, s2, U) /\ Keeps(m, sz, s.mem, s2, U)
                  /\ s.ptr \in DOMAIN s2 \ U /\ s2[s.ptr] >= k
                  /\ Seams(s2, U) \subseteq Seams(sz, U)
    BY <2>2 DEF FreeAt
  <2>4. k <= s2[s.ptr]
    <3>1. s2[s.ptr] \in Nat
      BY <2>3, BlockAt DEF Full, Heap
    <3> QED
      BY <3>1, <2>3, <1>1
  <2>5. PlacedAt(s.mem, m2, E2, s2, U, p, k) /\ p \notin U
    <3> DEFINE m0 == s.mem
    <3>1. Full(m0, E2, s2, U) /\ p \in DOMAIN s2 \ U /\ k <= s2[p] /\ m2 = place(m0, p, k)
      BY <2>3, <2>4
    <3> HIDE DEF m0, m2, p
    <3>2. PlacedAt(m0, place(m0, p, k), E2, s2, U, p, k)
      BY <3>1, <1>1, PlaceIn
    <3> QED
      BY <3>1, <3>2 DEF m0
  <2> HIDE DEF m2, p
  <2>6. PICK s3 : /\ Full(m2, E2, s3, U \cup {p}) /\ Keeps(s.mem, s2, m2, s3, U)
                  /\ s3[p] - k \in {0, 2}
                  /\ Seams(s3, U \cup {p}) \subseteq Seams(s2, U)
    BY <2>5 DEF PlacedAt
  <2>7. Keeps(m, sz, m2, s3, U)
    BY <2>3, <2>6, KeepsOn
  <2>8. Given(r, m, sz, U, size)
    BY <2>1, <2>3, <2>5, <2>6, <2>7 DEF Given, k
  <2> QED
    BY <2>8 DEF r
<1> QED
  BY <1>5, <1>6

(* The words of a block that hold neither its tags nor, when it is free,   *)
(* its pointers.                                                           *)
Inside(sz, U, b) == (IF b \in U THEN b ELSE b + 2)..(b + sz[b] - 3)

(* m2 differs from m inside of blocks only.                                *)
Untouched(m, m2, E, sz, U) ==
  /\ m2 \in [Exited..(E - 1) -> Int]
  /\ \A a \in Exited..(E - 1) : m2[a] = m[a] \/ \E b \in DOMAIN sz : a \in Inside(sz, U, b)

(* The words inside a block hold neither tags nor, if it is free, pointers.*)
LEMMA InsideWords ==
  ASSUME NEW E, NEW sz, Tiles(E, sz), NEW U, NEW b \in DOMAIN sz, NEW a \in Inside(sz, U, b)
  PROVE  /\ a > N_LISTS + 2 /\ a < E - 1 /\ a \in Nat
         /\ \A x \in DOMAIN sz : /\ a # x - 1 /\ a # x + sz[x] - 2
                                 /\ x \notin U => a # x /\ a # x + 1
         /\ b \in U => a \in b..(b + sz[b] - 3)
<1>1. b \in Nat /\ sz[b] \in Nat /\ sz[b] >= 4 /\ N_LISTS \in Nat
  BY BlockAt, Constants
<1>2. /\ a \in Int /\ a >= b /\ a <= b + sz[b] - 3
      /\ b \notin U => a >= b + 2
  <2>1. CASE b \in U
    <3>1. a \in b..(b + sz[b] - 3)
      BY <2>1 DEF Inside
    <3> QED
      BY <2>1, <3>1, <1>1
  <2>2. CASE b \notin U
    <3>1. a \in (b + 2)..(b + sz[b] - 3)
      BY <2>2 DEF Inside
    <3> QED
      BY <2>2, <3>1, <1>1
  <2> QED
    BY <2>1, <2>2
<1>3. a \in (b - 1)..(b + sz[b] - 2)
  BY <1>1, <1>2
<1>4. /\ a > N_LISTS + 2 /\ a < E - 1
      /\ \A x \in DOMAIN sz \ {b} : a # x /\ a # x + 1 /\ a # x - 1 /\ a # x + sz[x] - 2
  BY <1>3, OwnWords
<1>5. /\ a # b - 1 /\ a # b + sz[b] - 2
      /\ b \notin U => a # b /\ a # b + 1
  BY <1>1, <1>2
<1>6. a \in Nat
  BY <1>1, <1>2
<1>7. a \in b..(b + sz[b] - 3)
  BY <1>1, <1>2
<1> QED
  BY <1>4, <1>5, <1>6, <1>7

(* What is written there does not disturb the heap.                        *)
LEMMA InsideOnly ==
  ASSUME NEW m, NEW E, NEW sz, NEW U, Full(m, E, sz, U), NEW m2, Untouched(m, m2, E, sz, U)
  PROVE  Full(m2, E, sz, U)
<1> DEFINE L == DOMAIN sz \ U
<1>0. /\ Tiles(E, sz) /\ Tagged(m, E, sz, U) /\ Listed(m, sz, L) /\ U \subseteq DOMAIN sz
      /\ m2 \in [Exited..(E - 1) -> Int]
  BY DEF Full, Heap, Tagged, Untouched
<1>1. ASSUME NEW a \in Exited..(E - 1),
             \A b \in DOMAIN sz : a \notin Inside(sz, U, b)
      PROVE  m2[a] = m[a]
  BY <1>1 DEF Untouched
<1>2. /\ E \in Nat /\ N_LISTS \in Nat /\ N_LISTS >= 2 /\ N_LISTS + 4 <= E
  BY <1>0, Constants DEF Tiles, Even
<1>3. ASSUME NEW a \in Exited..(E - 1), a <= N_LISTS + 2 \/ a = E - 1
      PROVE  m2[a] = m[a]
  <2>1. ASSUME NEW b \in DOMAIN sz PROVE a \notin Inside(sz, U, b)
    <3> SUFFICES ASSUME a \in Inside(sz, U, b) PROVE FALSE
      OBVIOUS
    <3>1. a > N_LISTS + 2 /\ a < E - 1 /\ a \in Nat
      BY <1>0, InsideWords
    <3> QED
      BY <3>1, <1>2, <1>3
  <2> QED
    BY <2>1, <1>1
<1>4. ASSUME NEW b \in DOMAIN sz
      PROVE  /\ m2[b - 1] = m[b - 1] /\ m2[b + sz[b] - 2] = m[b + sz[b] - 2]
             /\ b \notin U => m2[b] = m[b] /\ m2[b + 1] = m[b + 1]
  <2>1. b \in Nat /\ sz[b] \in Nat /\ sz[b] >= 4
    BY <1>0, BlockAt
  <2>2. ASSUME NEW a \in (b - 1)..(b + sz[b] - 2),
               a \in {b - 1, b + sz[b] - 2} \/ (b \notin U /\ a \in {b, b + 1})
        PROVE  m2[a] = m[a]
    <3>1. a \in Exited..(E - 1)
      BY <1>0, OwnWords
    <3>2. ASSUME NEW c \in DOMAIN sz PROVE a \notin Inside(sz, U, c)
      <4> SUFFICES ASSUME a \in Inside(sz, U, c) PROVE FALSE
        OBVIOUS
      <4>1. a # b - 1 /\ a # b + sz[b] - 2 /\ (b \notin U => a # b /\ a # b + 1)
        BY <1>0, InsideWords
      <4> QED
        BY <4>1, <2>2
    <3> QED
      BY <3>1, <3>2, <1>1
  <2>3. /\ b - 1 \in (b - 1)..(b + sz[b] - 2) /\ b \in (b - 1)..(b + sz[b] - 2)
        /\ b + 1 \in (b - 1)..(b + sz[b] - 2)
        /\ b + sz[b] - 2 \in (b - 1)..(b + sz[b] - 2)
    BY <2>1
  <2>4. \A a \in {b - 1, b + sz[b] - 2} : m2[a] = m[a]
    BY <2>2, <2>3
  <2>5. ASSUME b \notin U PROVE \A a \in {b, b + 1} : m2[a] = m[a]
    BY <2>2, <2>3, <2>5
  <2> QED
    BY <2>4, <2>5
<1>5. Tagged(m2, E, sz, U)
  <2>1. m2[Exited] = m[Exited] /\ m2[N_LISTS + 1] = m[N_LISTS + 1]
        /\ m2[Prologue] = m[Prologue] /\ m2[E - 1] = m[E - 1]
    <3>1. /\ Exited \in Exited..(E - 1) /\ Exited <= N_LISTS + 2
          /\ N_LISTS + 1 \in Exited..(E - 1) /\ N_LISTS + 1 <= N_LISTS + 2
          /\ N_LISTS + 2 \in Exited..(E - 1) /\ N_LISTS + 2 <= N_LISTS + 2
          /\ E - 1 \in Exited..(E - 1)
      BY <1>2 DEF Exited
    <3> QED
      BY <3>1, <1>3 DEF Prologue
  <2> QED
    BY <2>1, <1>0, <1>4 DEF Tagged
<1>6. ASSUME NEW c \in 1..N_LISTS PROVE Linked(m2, c, OfClass(sz, L, c))
  <2>1. Linked(m, c, OfClass(sz, L, c))
    BY <1>0 DEF Listed
  <2>2. m2[c] = m[c]
    <3>1. c \in Exited..(E - 1) /\ c <= N_LISTS + 2
      BY <1>2 DEF Exited
    <3> QED
      BY <3>1, <1>3
  <2>3. \A x \in OfClass(sz, L, c) : m2[x] = m[x] /\ m2[x + 1] = m[x + 1]
    <3> TAKE x \in OfClass(sz, L, c)
    <3>1. x \in DOMAIN sz /\ x \notin U
      BY DEF OfClass
    <3> QED
      BY <3>1, <1>4
  <2> QED
    BY <2>1, <2>2, <2>3, ListKept
<1> QED
  BY <1>0, <1>5, <1>6 DEF Full, Heap, Listed

(* Two blocks in use do not share a word.                                  *)
LEMMA PayloadsApart ==
  ASSUME NEW E, NEW sz, Tiles(E, sz), NEW b \in DOMAIN sz, NEW c \in DOMAIN sz, b # c,
         NEW a \in b..(b + sz[b] - 3)
  PROVE  a \notin c..(c + sz[c] - 3)
<1>1. b \in Nat /\ sz[b] \in Nat /\ c \in Nat /\ sz[c] \in Nat
  BY BlockAt
<1>2. b + sz[b] <= c \/ c + sz[c] <= b
  BY BlocksDisjoint
<1> QED
  BY <1>1, <1>2

(* The program writes words of a block of its own.                         *)
LEMMA WritesOwn ==
  ASSUME NEW m, NEW E, NEW sz, NEW U, Full(m, E, sz, U), NEW p \in U, NEW X,
         X \subseteq p..(p + sz[p] - 3), NEW m2 \in [Exited..(E - 1) -> Int],
         Elsewhere(m, m2, E, X)
  PROVE  Full(m2, E, sz, U) /\ Keeps(m, sz, m2, sz, U \ {p})
<1>0. Tiles(E, sz) /\ U \subseteq DOMAIN sz
  BY DEF Full, Heap, Tagged
<1>1. Untouched(m, m2, E, sz, U)
  <2>1. ASSUME NEW a \in Exited..(E - 1), m2[a] # m[a]
        PROVE  \E b \in DOMAIN sz : a \in Inside(sz, U, b)
    <3>1. a \in X
      BY <2>1 DEF Elsewhere
    <3>2. a \in Inside(sz, U, p)
      BY <3>1 DEF Inside
    <3> QED
      BY <3>2, <1>0
  <2> QED
    BY <2>1 DEF Untouched
<1>2. Keeps(m, sz, m2, sz, U \ {p})
  <2> SUFFICES ASSUME NEW u \in U \ {p}, NEW a \in u..(u + sz[u] - 3) PROVE m2[a] = m[a]
    BY DEF Keeps
  <2>1. a \notin X
    BY <1>0, PayloadsApart
  <2>2. a \in Exited..(E - 1)
    <3>1. u \in Nat /\ sz[u] \in Nat /\ u \in DOMAIN sz
      BY <1>0, BlockAt
    <3>2. a \in (u - 1)..(u + sz[u] - 2)
      BY <3>1
    <3> QED
      BY <3>1, <3>2, <1>0, OwnWords
  <2> QED
    BY <2>1, <2>2 DEF Elsewhere
<1> QED
  BY <1>1, <1>2, InsideOnly

(* What a realloc that leaves the block ptr at q makes of the seams: when  *)
(* it shrinks in place, what it gives back may have a free block behind it.*)
SeamsAfter(sz, U, ptr, q, size) ==
  IF q = ptr THEN SeamsRest(sz, U, ptr, sz[ptr], Adjusted(size)) ELSE Seams(sz, U)

(* What a call of realloc gives for the block ptr: it has its own words,   *)
(* enough of them, and what fits of what was in it; the others are kept.   *)
Resized(r, m, sz, U, ptr, size) ==
  \/ r.ptr = 0 /\ r.mem = m
  \/ /\ r.ptr \notin U \ {ptr} /\ r.ptr # 0
     /\ \E E2, sz2 : /\ Full(r.mem, E2, sz2, (U \ {ptr}) \cup {r.ptr})
                     /\ Keeps(m, sz, r.mem, sz2, U \ {ptr})
                     /\ sz2[r.ptr] - Adjusted(size) \in {0, 2}
                     /\ \A k \in Nat : k < size /\ k < sz[ptr] - 2 =>
                          r.mem[r.ptr + k] = m[ptr + k]
                     /\ Seams(sz2, (U \ {ptr}) \cup {r.ptr})
                          \subseteq SeamsAfter(sz, U, ptr, r.ptr, size)

(* A block that shrinks in place keeps its first words.                    *)
LEMMA ShrinkKeeps ==
  ASSUME NEW m, NEW E, NEW sz, NEW U, Full(m, E, sz, U), NEW ptr \in U, NEW size \in Nat,
         size <= sz[ptr] - 2
  PROVE  Resized([mem |-> Shrunk(m, ptr, size), ptr |-> ptr], m, sz, U, ptr, size)
<1> DEFINE n == sz[ptr]
           k == Adjusted(size)
           s == Split(m, ptr, n, k)
           V == U \ {ptr}
           r == [mem |-> Shrunk(m, ptr, size), ptr |-> ptr]
<1>0. /\ Tiles(E, sz) /\ Tagged(m, E, sz, U) /\ Heap(m, E, sz, U, DOMAIN sz \ U)
      /\ ptr \in DOMAIN sz /\ U \subseteq DOMAIN sz
  BY DEF Full, Heap, Tagged
<1>1. n \in Nat /\ Even(n) /\ n >= 4 /\ ptr \in Nat /\ ptr >= 6
  BY <1>0, BlockAt
<1>2. k \in Nat /\ Even(k) /\ k >= 4 /\ size + 2 <= k /\ k <= n
  BY <1>1, AdjustedSize
<1>3. BlockSize(m, ptr) = n
  BY <1>0, BlockTags
<1>4. r.ptr = ptr /\ r.mem = (IF n - k >= 4 THEN s ELSE m) /\ V \cup {ptr} = U
  BY <1>3 DEF Shrunk
<1> HIDE DEF r, n, k, s
<1>5. CASE n - k >= 4
  <2>1. Region(E, sz, ptr, n, {ptr})
    BY <1>0, RegionOfOne DEF n
  <2>2. Heap(m, E, sz, U, (DOMAIN sz \ U) \ {ptr})
    <3>1. (DOMAIN sz \ U) \ {ptr} = DOMAIN sz \ U
      OBVIOUS
    <3> QED
      BY <3>1, <1>0
  <2>3. InPlace(s, m, E, sz, V, ptr, k, SeamsRest(sz, U, ptr, n, k))
    BY <2>1, <2>2, <1>2, SplitPlaces DEF s
  <2> HIDE DEF V
  <2>4. PICK s2 : /\ Full(s, E, s2, V \cup {ptr}) /\ Keeps(m, sz, s, s2, V)
                  /\ s2[ptr] - k \in {0, 2} /\ Alike(m, s, ptr, k)
                  /\ Seams(s2, V \cup {ptr}) \subseteq SeamsRest(sz, U, ptr, n, k)
    BY <2>3 DEF InPlace
  <2>5. \A j \in Nat : j < size /\ j < n - 2 => s[ptr + j] = m[ptr + j]
    <3> SUFFICES ASSUME NEW j \in Nat, j < size PROVE s[ptr + j] = m[ptr + j]
      OBVIOUS
    <3>1. ptr + j \in ptr..(ptr + k - 3)
      BY <1>1, <1>2
    <3> QED
      BY <3>1, <2>4 DEF Alike
  <2>6. r.mem = s /\ ptr \notin V /\ ptr # 0
    BY <1>1, <1>4, <1>5 DEF V
  <2> QED
    BY <2>4, <2>5, <2>6, <1>4 DEF Resized, SeamsAfter, V, n, k, r
<1>6. CASE ~(n - k >= 4)
  <2>1. r.mem = m /\ ptr \notin V /\ ptr # 0
    BY <1>1, <1>4, <1>6
  <2>2. n - k \in {0, 2}
    <3>1. Even(n - k)
      BY <1>1, <1>2, EvenNumbers
    <3>2. n - k \in Nat /\ n - k < 4 /\ (n - k) % 2 = 0
      BY <3>1, <1>1, <1>2, <1>6 DEF Even
    <3> QED
      BY <3>2
  <2>3. Keeps(m, sz, m, sz, V)
    BY DEF Keeps
  <2>4. /\ Full(m, E, sz, V \cup {ptr})
        /\ Seams(sz, V \cup {ptr}) \subseteq SeamsRest(sz, U, ptr, n, k)
    BY <1>4, <1>6 DEF SeamsRest
  <2> HIDE DEF V
  <2> QED
    BY <2>1, <2>2, <2>3, <2>4, <1>4 DEF Resized, SeamsAfter, V, n, k, r
<1> QED
  BY <1>5, <1>6 DEF r

(* A block that grows into the free block behind it keeps its words.       *)
LEMMA GrowKeeps ==
  ASSUME NEW m, NEW E, NEW sz, NEW U, Full(m, E, sz, U), NEW ptr \in U, NEW size \in Nat,
         ~(size <= sz[ptr] - 2), CanGrow(m, ptr, size)
  PROVE  Resized([mem |-> Grown(m, ptr, size), ptr |-> ptr], m, sz, U, ptr, size)
<1> DEFINE next == ptr + sz[ptr]
           n == sz[ptr] + sz[next]
           k == Adjusted(size)
           m1 == delete_from_free_list(m, next)
           s == Split(m1, ptr, n, k)
           V == U \ {ptr}
           B == {ptr} \cup {next}
           r == [mem |-> Grown(m, ptr, size), ptr |-> ptr]
<1>0. /\ Tiles(E, sz) /\ Tagged(m, E, sz, U) /\ Heap(m, E, sz, U, DOMAIN sz \ U)
      /\ ptr \in DOMAIN sz /\ U \subseteq DOMAIN sz
  BY DEF Full, Heap, Tagged
<1>1. /\ sz[ptr] \in Nat /\ Even(sz[ptr]) /\ sz[ptr] >= 4 /\ ptr \in Nat /\ ptr >= 6
      /\ BlockSize(m, ptr) = sz[ptr] /\ NEXT_BLKP(m, ptr) = next
  BY <1>0, BlockAt, BlockTags
<1>2. IsFree(m, next) /\ size - sz[ptr] + 2 <= BlockSize(m, next)
  BY <1>1 DEF CanGrow
<1>3. next \in DOMAIN sz \ U
  BY <1>0, <1>2, Behind
<1>4. sz[next] \in Nat /\ Even(sz[next]) /\ sz[next] >= 4 /\ BlockSize(m, next) = sz[next]
  BY <1>0, <1>3, BlockAt, BlockTags
<1>5. n \in Nat /\ Even(n) /\ n >= 4 /\ size <= n - 2
  <2>1. Even(n)
    BY <1>1, <1>4, EvenNumbers
  <2> QED
    BY <2>1, <1>1, <1>2, <1>4
<1>6. r.ptr = ptr /\ r.mem = s
  BY <1>1, <1>4 DEF Grown
<1>7. Region(E, sz, ptr, n, B)
  <2>1. Region(E, sz, ptr, sz[ptr], {ptr})
    BY <1>0, RegionOfOne
  <2> QED
    BY <2>1, <1>0, <1>3, RegionAndNext
<1> HIDE DEF r, n, k, s, next
<1>8. k \in Nat /\ Even(k) /\ k >= 4 /\ size + 2 <= k /\ k <= n
  BY <1>5, AdjustedSize DEF k
<1>9. Heap(m1, E, sz, U, (DOMAIN sz \ U) \ {next}) /\ Same(m, m1, sz, U)
  BY <1>0, <1>3, Deleted
<1>10. (DOMAIN sz \ U) \ {next} = (DOMAIN sz \ U) \ B /\ U \ B = V /\ V \cup {ptr} = U
  BY <1>3
<1> HIDE DEF B, V, m1
<1>11. InPlace(s, m1, E, sz, V, ptr, k, SeamsRest(sz, U, ptr, n, k))
  <2>1. InPlace(s, m1, E, sz, U \ B, ptr, k, SeamsRest(sz, U, ptr, n, k))
    BY <1>7, <1>8, <1>9, <1>10, SplitPlaces DEF s
  <2> QED
    BY <2>1, <1>10
<1>12. PICK s2 : /\ Full(s, E, s2, V \cup {ptr}) /\ Keeps(m1, sz, s, s2, V)
                 /\ s2[ptr] - k \in {0, 2} /\ Alike(m1, s, ptr, k)
                 /\ Seams(s2, V \cup {ptr}) \subseteq SeamsRest(sz, U, ptr, n, k)
  BY <1>11 DEF InPlace
<1>13. SeamsRest(sz, U, ptr, n, k) \subseteq SeamsAfter(sz, U, ptr, ptr, size)
  <2>1. ptr + n = next + sz[next]
    BY <1>1, <1>4 DEF n, next
  <2>2. SeamsRest(sz, U, ptr, n, k) \subseteq Seams(sz, U)
    BY <2>1, <1>3 DEF SeamsRest, SeamsBut, Seams
  <2>3. Seams(sz, U) \subseteq SeamsAfter(sz, U, ptr, ptr, size)
    BY DEF SeamsAfter, SeamsRest, SeamsBut
  <2> QED
    BY <2>2, <2>3
<1>14. Keeps(m, sz, s, s2, V)
  <2>1. Keeps(m, sz, m1, sz, U)
    BY <1>9, SameKeeps
  <2>2. V \subseteq U
    BY DEF V
  <2> QED
    BY <2>1, <2>2, <1>12, KeepsOn
<1>15. \A j \in Nat : j < size /\ j < sz[ptr] - 2 => s[ptr + j] = m[ptr + j]
  <2> SUFFICES ASSUME NEW j \in Nat, j < size, j < sz[ptr] - 2
               PROVE  s[ptr + j] = m[ptr + j]
    OBVIOUS
  <2>1. ptr + j \in ptr..(ptr + k - 3) /\ ptr + j \in ptr..(ptr + sz[ptr] - 3)
    BY <1>1, <1>8
  <2> QED
    BY <2>1, <1>9, <1>12 DEF Alike, Same
<1>16. r.mem = s /\ ptr \notin V /\ ptr # 0
  BY <1>1, <1>6 DEF V
<1>17. Resized(r, m, sz, U, ptr, size)
  BY <1>6, <1>12, <1>14, <1>15, <1>16, <1>13 DEF Resized, V, k
<1> QED
  BY <1>17 DEF r

(* What was copied is what was read, and nothing else is written.          *)
IsCopy(m, m2, E, to, from, n) ==
  /\ m2 \in [Exited..(E - 1) -> Int]
  /\ Elsewhere(m, m2, E, to..(to + n - 1))
  /\ to + n <= E => \A k \in 0..(n - 1) : m2[to + k] = m[from + k]

(* memcpy copies when the two ranges are in the heap.                      *)
LEMMA Copied ==
  ASSUME NEW E \in Nat, NEW m \in [Exited..(E - 1) -> Int], NEW to \in Nat, NEW from \in Nat,
         NEW n \in Nat, from + n <= E
  PROVE  IsCopy(m, Copy(m, to, from, n), E, to, from, n)
<1> DEFINE D == Exited..(E - 1)
           m2 == Copy(m, to, from, n)
<1>1. m2 = [a \in D |-> IF a \in to..(to + n - 1) THEN m[from + (a - to)] ELSE m[a]]
  BY DEF Copy
<1>2. ASSUME NEW a \in D
      PROVE  (IF a \in to..(to + n - 1) THEN m[from + (a - to)] ELSE m[a]) \in Int
  <2>1. CASE a \in to..(to + n - 1)
    <3>1. from + (a - to) \in D
      BY <2>1 DEF Exited
    <3> QED
      BY <2>1, <3>1
  <2>2. CASE a \notin to..(to + n - 1)
    BY <2>2
  <2> QED
    BY <2>1, <2>2
<1>3. m2 \in [D -> Int]
  <2> HIDE DEF D, m2
  <2> QED
    BY <1>1, <1>2
<1>4. Elsewhere(m, m2, E, to..(to + n - 1))
  BY <1>1 DEF Elsewhere
<1>5. ASSUME to + n <= E, NEW k \in 0..(n - 1) PROVE m2[to + k] = m[from + k]
  <2>1. to + k \in D /\ to + k \in to..(to + n - 1) /\ from + ((to + k) - to) = from + k
    BY <1>5 DEF Exited
  <2> HIDE DEF D, m2
  <2> QED
    BY <2>1, <1>1
<1> HIDE DEF m2
<1>6. IsCopy(m, m2, E, to, from, n)
  BY <1>3, <1>4, <1>5 DEF D, IsCopy
<1> QED
  BY <1>6 DEF m2

(* A block moves: malloc, memcpy, free.                                    *)
LEMMA MoveKeeps ==
  ASSUME NEW m, NEW E, NEW sz, NEW U, Full(m, E, sz, U), NEW ptr \in U, NEW size \in Nat,
         ~(size <= sz[ptr] - 2), NEW new, Given(new, m, sz, U, size)
  PROVE  Resized(Moved(m, new, ptr, size), m, sz, U, ptr, size)
<1> DEFINE r == Moved(m, new, ptr, size)
           c == sz[ptr] - 2
           q == new.ptr
           m1 == new.mem
           m2 == Copy(m1, q, ptr, c)
           m3 == mm_free(m2, ptr)
           V == U \ {ptr}
<1>0. Tiles(E, sz) /\ Tagged(m, E, sz, U) /\ ptr \in DOMAIN sz /\ U \subseteq DOMAIN sz
  BY DEF Full, Heap, Tagged
<1>1. /\ sz[ptr] \in Nat /\ sz[ptr] >= 4 /\ ptr \in Nat /\ ptr >= 6 /\ ptr + sz[ptr] <= E
      /\ BlockSize(m, ptr) = sz[ptr] /\ c \in Nat /\ c < size
  BY <1>0, BlockAt, BlockTags
<1>2. Min({size, BlockSize(m, ptr) - 2}) = c
  <2>1. Min({size, c}) = IF size <= c THEN size ELSE c
    BY <1>1, MinOfTwo
  <2> HIDE DEF c
  <2>2. Min({size, c}) = c
    BY <2>1, <1>1
  <2> QED
    BY <2>2, <1>1 DEF c
<1>3. r = IF q = 0 THEN new ELSE [mem |-> m3, ptr |-> q]
  BY <1>2 DEF Moved
<1> HIDE DEF c, m3
<1>4. ASSUME q = 0 PROVE Resized(r, m, sz, U, ptr, size)
  <2>1. r = new
    BY <1>3, <1>4
  <2>2. m1 = m
    <3>1. ASSUME NEW E2, NEW s2, Full(m1, E2, s2, U \cup {q}) PROVE FALSE
      <4>1. Tiles(E2, s2) /\ q \in DOMAIN s2
        BY <3>1 DEF Full, Heap, Tagged
      <4>2. q >= 6
        BY <4>1, BlockAt
      <4> QED
        BY <4>2, <1>4
    <3> QED
      BY <3>1, <1>4 DEF Given
  <2> HIDE DEF r
  <2> QED
    BY <2>1, <2>2, <1>4 DEF Resized
<1>5. ASSUME q # 0 PROVE Resized(r, m, sz, U, ptr, size)
  <2>1. q \notin U /\ \E E2, s2 : /\ Full(m1, E2, s2, U \cup {q}) /\ Keeps(m, sz, m1, s2, U)
                                  /\ s2[q] - Adjusted(size) \in {0, 2}
                                  /\ Seams(s2, U \cup {q}) \subseteq Seams(sz, U)
    BY <1>5 DEF Given
  <2>2. PICK E2, s2 : /\ Full(m1, E2, s2, U \cup {q}) /\ Keeps(m, sz, m1, s2, U)
                      /\ s2[q] - Adjusted(size) \in {0, 2}
                      /\ Seams(s2, U \cup {q}) \subseteq Seams(sz, U)
    BY <2>1
  <2>3. /\ Tiles(E2, s2) /\ U \cup {q} \subseteq DOMAIN s2
        /\ m1 \in [Exited..(E2 - 1) -> Int]
    BY <2>2 DEF Full, Heap, Tagged
  <2> HIDE DEF q, m1
  <2>4. q \in DOMAIN s2 /\ ptr \in DOMAIN s2 /\ s2[ptr] = sz[ptr] /\ q # ptr
    BY <2>1, <2>2, <2>3 DEF Keeps
  <2>5. /\ q \in Nat /\ s2[q] \in Nat /\ q + s2[q] <= E2 /\ E2 \in Nat /\ ptr + s2[ptr] <= E2
    BY <2>3, <2>4, BlockAt
  <2>6. c <= s2[q] - 2
    <3>1. Adjusted(size) \in Nat /\ size + 2 <= Adjusted(size)
      BY AdjustedSize
    <3> QED
      BY <3>1, <2>2, <2>5, <1>1
  <2>7. ptr + c <= E2 /\ q + c <= E2
    BY <2>4, <2>5, <2>6, <1>1 DEF c
  <2>8. /\ m2 \in [Exited..(E2 - 1) -> Int]
        /\ Elsewhere(m1, m2, E2, q..(q + c - 1))
        /\ q + c <= E2 => \A k \in 0..(c - 1) : m2[q + k] = m1[ptr + k]
    <3>1. IsCopy(m1, m2, E2, q, ptr, c)
      BY <2>3, <2>5, <2>7, <1>1, Copied
    <3> HIDE DEF m2
    <3> QED
      BY <3>1 DEF IsCopy
  <2> HIDE DEF m2
  <2>9. Full(m2, E2, s2, U \cup {q}) /\ Keeps(m1, s2, m2, s2, (U \cup {q}) \ {q})
    <3>1. q..(q + c - 1) \subseteq q..(q + s2[q] - 3)
      BY <2>5, <2>6, <1>1
    <3> QED
      BY <3>1, <2>2, <2>8, WritesOwn
  <2>10. (U \cup {q}) \ {q} = U /\ (U \cup {q}) \ {ptr} = V \cup {q}
    BY <2>1, <2>4
  <2>11. \E s3 : /\ Full(m3, E2, s3, V \cup {q}) /\ Keeps(m2, s2, m3, s3, V \cup {q})
                 /\ Seams(s3, V \cup {q}) \subseteq Seams(s2, U \cup {q})
    <3>1. \E s3 : /\ Full(m3, E2, s3, (U \cup {q}) \ {ptr})
                  /\ Keeps(m2, s2, m3, s3, (U \cup {q}) \ {ptr})
                  /\ Seams(s3, (U \cup {q}) \ {ptr}) \subseteq Seams(s2, U \cup {q})
      BY <2>9, Freed DEF m3
    <3> QED
      BY <3>1, <2>10
  <2>12. PICK s3 : /\ Full(m3, E2, s3, V \cup {q}) /\ Keeps(m2, s2, m3, s3, V \cup {q})
                   /\ Seams(s3, V \cup {q}) \subseteq Seams(s2, U \cup {q})
    BY <2>11
  <2>13. Keeps(m, sz, m3, s3, V)
    <3>1. Keeps(m, sz, m2, s2, U)
      BY <2>2, <2>9, <2>10, KeepsOn
    <3>2. Keeps(m2, s2, m3, s3, V)
      BY <2>12 DEF Keeps
    <3> QED
      BY <3>1, <3>2, KeepsOn
  <2>14. s3[q] = s2[q] /\ \A a \in q..(q + s2[q] - 3) : m3[a] = m2[a]
    BY <2>12 DEF Keeps
  <2>15. \A k \in Nat : k < size /\ k < sz[ptr] - 2 => m3[q + k] = m[ptr + k]
    <3> SUFFICES ASSUME NEW k \in Nat, k < sz[ptr] - 2 PROVE m3[q + k] = m[ptr + k]
      OBVIOUS
    <3>1. /\ k \in 0..(c - 1) /\ q + k \in q..(q + s2[q] - 3)
          /\ ptr + k \in ptr..(ptr + sz[ptr] - 3)
      <4>1. k < c
        BY DEF c
      <4>2. k \in 0..(c - 1) /\ q + k \in q..(q + s2[q] - 3)
        BY <4>1, <2>5, <2>6, <1>1
      <4>3. ptr + k \in ptr..(ptr + sz[ptr] - 3)
        BY <1>1
      <4> QED
        BY <4>2, <4>3
    <3>2. m3[q + k] = m2[q + k]
      BY <3>1, <2>14
    <3>3. m2[q + k] = m1[ptr + k]
      BY <3>1, <2>7, <2>8
    <3>4. m1[ptr + k] = m[ptr + k]
      BY <3>1, <2>2 DEF Keeps
    <3> QED
      BY <3>2, <3>3, <3>4
  <2>16. r.mem = m3 /\ r.ptr = q
    BY <1>3, <1>5
  <2>17. q \notin V
    BY <2>1
  <2>18. Seams(s3, V \cup {q}) \subseteq SeamsAfter(sz, U, ptr, q, size)
    BY <2>2, <2>4, <2>12 DEF SeamsAfter
  <2> HIDE DEF r, V
  <2> QED
    BY <2>18, <2>2, <2>12, <2>13, <2>14, <2>15, <2>16, <2>17, <1>5 DEF Resized, V
<1> QED
  BY <1>4, <1>5

(* realloc of more than nothing.                                           *)
LEMMA Realloced ==
  ASSUME NEW m, NEW E, NEW sz, NEW U, Full(m, E, sz, U), NEW ptr \in U, NEW size \in Nat,
         size > 0
  PROVE  Resized(mm_realloc(m, ptr, size), m, sz, U, ptr, size)
<1> DEFINE r == mm_realloc(m, ptr, size)
           r1 == [mem |-> Shrunk(m, ptr, size), ptr |-> ptr]
           r2 == [mem |-> Grown(m, ptr, size), ptr |-> ptr]
           new == mm_malloc(m, size)
           r3 == Moved(m, new, ptr, size)
<1>0. Tiles(E, sz) /\ Tagged(m, E, sz, U) /\ ptr \in DOMAIN sz
  BY DEF Full, Heap, Tagged
<1>1. BlockSize(m, ptr) = sz[ptr] /\ size # 0
  BY <1>0, BlockTags
<1>2. r = IF size <= sz[ptr] - 2 THEN r1 ELSE IF CanGrow(m, ptr, size) THEN r2 ELSE r3
  BY <1>1 DEF mm_realloc
<1> HIDE DEF r, r1, r2, r3
<1>3. CASE size <= sz[ptr] - 2
  <2>1. Resized(r1, m, sz, U, ptr, size)
    BY <1>3, ShrinkKeeps DEF r1
  <2>2. r = r1
    BY <1>2, <1>3
  <2> QED
    BY <2>1, <2>2 DEF r
<1>4. CASE ~(size <= sz[ptr] - 2) /\ CanGrow(m, ptr, size)
  <2>1. Resized(r2, m, sz, U, ptr, size)
    BY <1>4, GrowKeeps DEF r2
  <2>2. r = r2
    BY <1>2, <1>4
  <2> QED
    BY <2>1, <2>2 DEF r
<1>5. CASE ~(size <= sz[ptr] - 2) /\ ~CanGrow(m, ptr, size)
  <2>1. Given(new, m, sz, U, size)
    BY Malloced
  <2> HIDE DEF new
  <2>2. Resized(r3, m, sz, U, ptr, size)
    BY <2>1, <1>5, MoveKeeps DEF r3
  <2>3. r = r3
    BY <1>2, <1>5
  <2> QED
    BY <2>2, <2>3 DEF r
<1> QED
  BY <1>3, <1>4, <1>5

(* The driver writes words of a block.                                     *)
IsFilled(m, m2, E, i, p, from, to) ==
  /\ m2 \in [Exited..(E - 1) -> Int]
  /\ Elsewhere(m, m2, E, (p + from - 1)..(p + to - 1))
  /\ \A k \in from..to : m2[p + k - 1] = Word(i, k)

(* The driver writes its words and no others.                              *)
LEMMA Filled ==
  ASSUME NEW E \in Nat, NEW m \in [Exited..(E - 1) -> Int], NEW i \in Nat, NEW p \in Nat,
         NEW from \in Nat, from > 0, NEW to \in Nat, p + to <= E
  PROVE  IsFilled(m, memset(m, i, p, from, to), E, i, p, from, to)
<1> DEFINE D == Exited..(E - 1)
           X == (p + from - 1)..(p + to - 1)
           m2 == memset(m, i, p, from, to)
<1>1. m2 = [a \in D |-> IF a \in X THEN Word(i, a - p + 1) ELSE m[a]]
  BY DEF memset
<1>2. ASSUME NEW a \in D PROVE (IF a \in X THEN Word(i, a - p + 1) ELSE m[a]) \in Int
  <2>1. a \in Int /\ m[a] \in Int
    BY DEF Exited
  <2>2. Word(i, a - p + 1) \in Int
    BY <2>1 DEF Word
  <2> QED
    BY <2>1, <2>2
<1> HIDE DEF m2
<1>3. m2 \in [D -> Int]
  <2> HIDE DEF D, X
  <2> QED
    BY <1>1, <1>2
<1>4. Elsewhere(m, m2, E, X)
  <2> HIDE DEF X
  <2> QED
    BY <1>1 DEF Elsewhere
<1>5. ASSUME NEW k \in from..to PROVE m2[p + k - 1] = Word(i, k)
  <2>1. p + k - 1 \in D /\ p + k - 1 \in X /\ (p + k - 1) - p + 1 = k
    BY DEF Exited
  <2> HIDE DEF D, X
  <2>2. m2[p + k - 1] = Word(i, (p + k - 1) - p + 1)
    BY <1>1, <2>1
  <2> QED
    BY <2>1, <2>2
<1>6. IsFilled(m, m2, E, i, p, from, to)
  BY <1>3, <1>4, <1>5 DEF IsFilled
<1> QED
  BY <1>6 DEF m2

-----------------------------------------------------------------------------
(* The program's pointers, and what is true of them.                       *)
InUse(t) == {t[i].ptr : i \in Indices} \ {0}

(* The driver remembers where its blocks are and what it has asked for; no *)
(* two indices share a block, and each has hardly more than it needs.      *)
Traced(t, sz) ==
  /\ t \in [Indices -> [ptr : Nat, size : Nat]]
  /\ \A i \in Indices : t[i].ptr = 0 => t[i] = NoTrace
  /\ \A i \in Indices : t[i].ptr # 0 =>
       t[i].size > 0 /\ sz[t[i].ptr] - Adjusted(t[i].size) \in {0, 2}
  /\ \A i, j \in Indices : i # j /\ t[i].ptr # 0 => t[i].ptr # t[j].ptr

(* What the program may hold at x.ptr.                                     *)
Holdable(x, sz, V) ==
  /\ x \in [ptr : Nat, size : Nat]
  /\ x.ptr = 0 => x = NoTrace
  /\ x.ptr # 0 => x.size > 0 /\ sz[x.ptr] - Adjusted(x.size) \in {0, 2}
  /\ x.ptr \notin V

(* The blocks W have kept their sizes.                                     *)
SameSizes(sz, sz2, W) == \A u \in W : sz2[u] = sz[u]

(* One of the program's pointers changes.                                  *)
Setting(t, i, x) == [t EXCEPT ![i] = x]
(* The blocks of the other indices.                                        *)
Others(t, i) == InUse(t) \ {t[i].ptr}

(* Setting the pointer of one index leaves those of the others.            *)
LEMMA PointerSet ==
  ASSUME NEW t, NEW sz, Traced(t, sz), NEW i \in Indices, NEW sz2, NEW x,
         Holdable(x, sz2, Others(t, i)), SameSizes(sz, sz2, Others(t, i))
  PROVE  /\ Traced(Setting(t, i, x), sz2)
         /\ InUse(Setting(t, i, x)) = Others(t, i) \cup ({x.ptr} \ {0})
<1> DEFINE t2 == Setting(t, i, x)
           V == Others(t, i)
<1>1. /\ t2 \in [Indices -> [ptr : Nat, size : Nat]]
      /\ t2[i] = x /\ \A j \in Indices \ {i} : t2[j] = t[j]
  BY DEF Traced, Holdable, Setting
<1> HIDE DEF t2
<1>2. ASSUME NEW j \in Indices \ {i}, t[j].ptr # 0
      PROVE  t[j].ptr \in V
  <2>1. t[j].ptr \in InUse(t)
    BY <1>2 DEF InUse
  <2>2. t[j].ptr # t[i].ptr
    BY <1>2 DEF Traced
  <2> QED
    BY <2>1, <2>2 DEF Others
<1>3. ASSUME NEW u \in V PROVE \E j \in Indices \ {i} : t[j].ptr = u /\ u # 0
  BY DEF InUse, Others
<1>4. ASSUME NEW j \in Indices
      PROVE  /\ t2[j].ptr = 0 => t2[j] = NoTrace
             /\ t2[j].ptr # 0 =>
                  t2[j].size > 0 /\ sz2[t2[j].ptr] - Adjusted(t2[j].size) \in {0, 2}
  <2>1. CASE j = i
    BY <2>1, <1>1 DEF Holdable
  <2>2. CASE j # i
    <3>1. t2[j] = t[j] /\ j \in Indices \ {i}
      BY <2>2, <1>1
    <3>2. t[j].ptr # 0 => sz2[t[j].ptr] = sz[t[j].ptr]
      BY <3>1, <1>2 DEF SameSizes
    <3> QED
      BY <3>1, <3>2 DEF Traced
  <2> QED
    BY <2>1, <2>2
<1>5. ASSUME NEW j \in Indices, NEW k \in Indices, j # k, t2[j].ptr # 0
      PROVE  t2[j].ptr # t2[k].ptr
  <2>1. CASE j = i
    <3>1. t2[j].ptr = x.ptr /\ t2[k] = t[k] /\ x.ptr \notin V /\ k \in Indices \ {i}
      BY <2>1, <1>1, <1>5 DEF Holdable
    <3>2. t[k].ptr # 0 => t[k].ptr \in V
      BY <3>1, <1>2
    <3> QED
      BY <3>1, <3>2, <1>5
  <2>2. CASE k = i
    <3>1. t2[k].ptr = x.ptr /\ t2[j] = t[j] /\ x.ptr \notin V /\ j \in Indices \ {i}
      BY <2>2, <1>1, <1>5 DEF Holdable
    <3>2. t[j].ptr \in V
      BY <3>1, <1>2, <1>5
    <3> QED
      BY <3>1, <3>2
  <2>3. CASE j # i /\ k # i
    <3>1. t2[j] = t[j] /\ t2[k] = t[k]
      BY <2>3, <1>1
    <3> QED
      BY <3>1, <1>5 DEF Traced
  <2> QED
    BY <2>1, <2>2, <2>3
<1>6. Traced(t2, sz2)
  BY <1>1, <1>4, <1>5 DEF Traced
<1>7. InUse(t2) = V \cup ({x.ptr} \ {0})
  <2>1. ASSUME NEW j \in Indices, t2[j].ptr # 0 PROVE t2[j].ptr \in V \cup ({x.ptr} \ {0})
    <3>1. CASE j = i
      BY <2>1, <3>1, <1>1
    <3>2. CASE j # i
      BY <2>1, <3>2, <1>1, <1>2
    <3> QED
      BY <3>1, <3>2
  <2>2. ASSUME NEW u \in V PROVE u \in InUse(t2)
    <3>1. PICK j \in Indices \ {i} : t[j].ptr = u /\ u # 0
      BY <1>3
    <3>2. t2[j].ptr = u
      BY <3>1, <1>1
    <3> QED
      BY <3>1, <3>2 DEF InUse
  <2>3. x.ptr # 0 => x.ptr \in InUse(t2)
    BY <1>1 DEF InUse
  <2>4. InUse(t2) \subseteq V \cup ({x.ptr} \ {0})
    <3> HIDE DEF V
    <3> QED
      BY <2>1 DEF InUse
  <2> HIDE DEF V
  <2> QED
    BY <2>2, <2>3, <2>4
<1> QED
  BY <1>6, <1>7 DEF t2

(* The heap, with the blocks the program holds.                            *)
State(m, E, sz, t) == Full(m, E, sz, InUse(t)) /\ Traced(t, sz)

(* A block the driver holds is one of the heap, aligned, and has room for  *)
(* what was asked for.                                                     *)
LEMMA Holding ==
  ASSUME NEW m, NEW E, NEW sz, NEW t, State(m, E, sz, t), NEW i \in Indices, t[i].ptr # 0
  PROVE  /\ t[i].ptr \in InUse(t) /\ t[i].ptr \in DOMAIN sz
         /\ t[i].ptr \in Nat /\ t[i].ptr > 0 /\ t[i].size \in Nat /\ t[i].size > 0
         /\ sz[t[i].ptr] \in Nat /\ t[i].size <= sz[t[i].ptr] - 2
         /\ t[i].ptr % 2 = 0 /\ t[i].ptr + sz[t[i].ptr] <= E
<1> DEFINE p == t[i].ptr
           n == t[i].size
<1>1. p \in InUse(t) /\ n \in Nat /\ n > 0 /\ sz[p] - Adjusted(n) \in {0, 2}
  BY DEF State, Traced, InUse
<1>2. Tiles(E, sz) /\ InUse(t) \subseteq DOMAIN sz
  BY DEF State, Full, Heap, Tagged
<1> HIDE DEF p, n
<1>3. /\ p \in DOMAIN sz /\ p \in Nat /\ p >= 6 /\ sz[p] \in Nat /\ p + sz[p] <= E
      /\ p % 2 = 0
  BY <1>1, <1>2, BlockAt DEF Even
<1>4. n + 2 <= Adjusted(n) /\ Adjusted(n) \in Nat
  BY <1>1, AdjustedSize
<1>5. n <= sz[p] - 2
  BY <1>1, <1>3, <1>4
<1> QED
  BY <1>1, <1>3, <1>5 DEF p, n

(* What is forgotten of a block.                                           *)
Unread(m, t, bp) ==
  IF IsFree(m, bp) THEN (bp + 2)..(FTRP(m, bp) - 1)
  ELSE LET n == Min({t[i].size : i \in {j \in Indices : t[j].ptr = bp}})
       IN  (bp + n)..(FTRP(m, bp) - 1)

(* What is forgotten lies inside the blocks, and behind what was asked for.*)
LEMMA UnreadWords ==
  ASSUME NEW m, NEW E, NEW sz, NEW t, State(m, E, sz, t), NEW b \in DOMAIN sz
  PROVE  /\ Unread(m, t, b) \subseteq Inside(sz, InUse(t), b)
         /\ \A i \in Indices : t[i].ptr = b => Unread(m, t, b) = (b + t[i].size)..(b + sz[b] - 3)
<1> DEFINE U == InUse(t)
<1>0. Tiles(E, sz) /\ Tagged(m, E, sz, U) /\ U \subseteq DOMAIN sz /\ Traced(t, sz)
  BY DEF State, Full, Heap, Tagged
<1>1. b \in Nat /\ sz[b] \in Nat /\ b >= 6
  BY <1>0, BlockAt
<1>2. FTRP(m, b) = b + sz[b] - 2 /\ (IsFree(m, b) <=> b \notin U)
  BY <1>0, BlockTags
<1>3. FTRP(m, b) - 1 = b + sz[b] - 3
  BY <1>1, <1>2
<1>4. ASSUME NEW i \in Indices, t[i].ptr = b
      PROVE  Unread(m, t, b) = (b + t[i].size)..(b + sz[b] - 3)
  <2>1. b \in U /\ t[i].size \in Nat
    BY <1>1, <1>4, <1>0 DEF InUse, Traced
  <2>2. {t[k].size : k \in {j \in Indices : t[j].ptr = b}} = {t[i].size}
    <3>1. {j \in Indices : t[j].ptr = b} = {i}
      <4>1. \A j \in Indices : t[j].ptr = b => j = i
        BY <1>0, <1>1, <1>4 DEF Traced
      <4> QED
        BY <4>1, <1>4
    <3> QED
      BY <3>1
  <2>3. Min({t[i].size}) = t[i].size
    <3>1. {t[i].size} \subseteq Nat /\ {t[i].size} # {}
      BY <2>1
    <3>2. Min({t[i].size}) \in {t[i].size}
      BY <3>1, MinIs
    <3> QED
      BY <3>2
  <2> QED
    BY <2>1, <2>2, <2>3, <1>2, <1>3 DEF Unread
<1>5. CASE b \in U
  <2>1. PICK i \in Indices : t[i].ptr = b
    BY <1>5 DEF InUse
  <2>2. Unread(m, t, b) = (b + t[i].size)..(b + sz[b] - 3) /\ t[i].size \in Nat
    BY <2>1, <1>0, <1>4 DEF Traced
  <2>3. Inside(sz, U, b) = b..(b + sz[b] - 3)
    BY <1>5 DEF Inside
  <2>4. (b + t[i].size)..(b + sz[b] - 3) \subseteq b..(b + sz[b] - 3)
    BY <2>2, <1>1
  <2> QED
    BY <2>2, <2>3, <2>4, <1>4
<1>6. CASE b \notin U
  <2>1. Unread(m, t, b) = (b + 2)..(b + sz[b] - 3)
    BY <1>2, <1>3, <1>6 DEF Unread
  <2>2. Inside(sz, U, b) = (b + 2)..(b + sz[b] - 3)
    BY <1>6 DEF Inside
  <2> QED
    BY <2>1, <2>2, <1>4
<1> QED
  BY <1>5, <1>6

(* The words of x in m2 are those in m.                                    *)
SameWords(m, m2, x) == x.ptr # 0 =>
  \A k \in 0..(x.size - 1) : m2[x.ptr + k] = m[x.ptr + k]

(* Forgetting them disturbs neither the heap nor what the program holds.   *)
LEMMA Forgotten ==
  ASSUME NEW m, NEW E, NEW sz, NEW t, State(m, E, sz, t)
  PROVE  /\ State(Scrubbed(m, t), E, sz, t)
         /\ \A i \in Indices : SameWords(m, Scrubbed(m, t), t[i])
<1> DEFINE U == InUse(t)
           D == Exited..(E - 1)
           forgotten == UNION {Unread(m, t, bp) : bp \in DOMAIN sz}
           m2 == Scrubbed(m, t)
<1>0. /\ Tiles(E, sz) /\ Tagged(m, E, sz, U) /\ U \subseteq DOMAIN sz /\ Traced(t, sz)
      /\ m \in [D -> Int] /\ Full(m, E, sz, U)
  BY DEF State, Full, Heap, Tagged
<1>1. Blocks(m) = DOMAIN sz
  BY <1>0, BlocksAre
<1>2. m2 = [a \in D |-> IF a \in forgotten THEN Fresh ELSE m[a]]
  <2>1. m2 = [a \in DOMAIN m |-> IF a \in forgotten THEN Fresh ELSE m[a]]
    <3>1. forgotten = UNION {Unread(m, t, bp) : bp \in Blocks(m)}
      BY <1>1
    <3> HIDE DEF forgotten
    <3> QED
      BY <3>1, Zenon DEF Scrubbed, Unread
  <2>2. DOMAIN m = D
    BY <1>0
  <2> HIDE DEF m2, forgotten, D
  <2> QED
    BY <2>1, <2>2
<1>3. \A a \in forgotten : \E b \in DOMAIN sz : a \in Unread(m, t, b)
  OBVIOUS
<1> HIDE DEF m2, forgotten
<1>4. Untouched(m, m2, E, sz, U)
  <2>1. m2 \in [D -> Int]
    <3>1. Fresh \in Int
      BY DEF Fresh
    <3> HIDE DEF D
    <3> QED
      BY <3>1, <1>0, <1>2
  <2>2. ASSUME NEW a \in D, m2[a] # m[a]
        PROVE  \E b \in DOMAIN sz : a \in Inside(sz, U, b)
    <3>1. a \in forgotten
      BY <1>2, <2>2
    <3>2. PICK b \in DOMAIN sz : a \in Unread(m, t, b)
      BY <3>1, <1>3
    <3>3. Unread(m, t, b) \subseteq Inside(sz, U, b)
      BY UnreadWords
    <3> QED
      BY <3>2, <3>3
  <2> QED
    BY <2>1, <2>2 DEF Untouched
<1>5. Full(m2, E, sz, U)
  BY <1>0, <1>4, InsideOnly
<1>6. ASSUME NEW i \in Indices, t[i].ptr # 0, NEW k \in 0..(t[i].size - 1)
      PROVE  m2[t[i].ptr + k] = m[t[i].ptr + k]
  <2> DEFINE p == t[i].ptr
             a == p + k
             n == t[i].size
  <2>1. /\ p \in U /\ p \in DOMAIN sz /\ p \in Nat /\ n \in Nat /\ sz[p] \in Nat
        /\ n <= sz[p] - 2 /\ p + sz[p] <= E
    BY <1>6, Holding
  <2>2. Unread(m, t, p) = (p + n)..(p + sz[p] - 3)
    BY <2>1, UnreadWords
  <2>3. k \in 0..(n - 1)
    BY <1>6
  <2> HIDE DEF p, n
  <2>4. a \in p..(p + sz[p] - 3) /\ a \notin (p + n)..(p + sz[p] - 3)
    BY <2>1, <2>3
  <2>5. E \in Nat
    BY <1>0, HeapEnd
  <2>6. a \in D
    BY <2>1, <2>3, <2>5 DEF Exited
  <2>7. ASSUME NEW b \in DOMAIN sz PROVE a \notin Unread(m, t, b)
    <3>1. CASE b = p
      BY <3>1, <2>2, <2>4
    <3>2. CASE b # p
      <4>1. Unread(m, t, b) \subseteq Inside(sz, U, b)
        BY UnreadWords
      <4>2. a \notin b..(b + sz[b] - 3)
        BY <3>2, <2>1, <2>4, <1>0, PayloadsApart
      <4>3. Inside(sz, U, b) \subseteq b..(b + sz[b] - 3)
        <5>1. b \in Nat /\ sz[b] \in Nat
          BY <1>0, BlockAt
        <5>2. b..(b + sz[b] - 3) \subseteq b..(b + sz[b] - 3)
              /\ (b + 2)..(b + sz[b] - 3) \subseteq b..(b + sz[b] - 3)
          BY <5>1
        <5> QED
          BY <5>2 DEF Inside
      <4> QED
        BY <4>1, <4>2, <4>3
    <3> QED
      BY <3>1, <3>2
  <2>8. a \notin forgotten
    BY <2>7, <1>3
  <2>9. m2[a] = m[a]
    <3> HIDE DEF a, D
    <3> QED
      BY <2>6, <2>8, <1>2
  <2> QED
    BY <2>9 DEF p
<1>7. State(m2, E, sz, t)
  BY <1>0, <1>5 DEF State
<1>8. \A i \in Indices : SameWords(m, m2, t[i])
  BY <1>6 DEF SameWords
<1> QED
  BY <1>7, <1>8 DEF m2

(* The program's other blocks are where they were, with what they held.    *)
Kept(m, t, m2, t2, i) == \A j \in Indices \ {i} : t2[j] = t[j] /\ SameWords(m, m2, t[j])

(* A call leaves the heap and the driver in order, index i with x, and the *)
(* other indices as they were; the blocks in use are theirs and x's.       *)
After(m, t, i, m1, E2, sz2, x, m2, t2) ==
  /\ State(m2, E2, sz2, t2) /\ Kept(m, t, m2, t2, i)
  /\ t2[i] = x /\ SameWords(m1, m2, x)
  /\ InUse(t2) = Others(t, i) \cup ({x.ptr} \ {0})

(* After a call that leaves index i with x and the heap m1.                *)
LEMMA AfterCall ==
  ASSUME NEW m, NEW E, NEW sz, NEW t, State(m, E, sz, t), NEW i \in Indices,
         NEW m1, NEW E2, NEW sz2, NEW x, Holdable(x, sz2, Others(t, i)),
         Full(m1, E2, sz2, Others(t, i) \cup ({x.ptr} \ {0})),
         Keeps(m, sz, m1, sz2, Others(t, i))
  PROVE  After(m, t, i, m1, E2, sz2, x, Scrubbed(m1, Setting(t, i, x)), Setting(t, i, x))
<1> DEFINE V == Others(t, i)
           t2 == Setting(t, i, x)
           m2 == Scrubbed(m1, t2)
<1>0. Traced(t, sz)
  BY DEF State
<1>1. t2[i] = x /\ \A j \in Indices \ {i} : t2[j] = t[j]
  BY <1>0 DEF Traced, Setting
<1>2. Traced(t2, sz2) /\ InUse(t2) = V \cup ({x.ptr} \ {0})
  <2>1. SameSizes(sz, sz2, V)
    BY DEF Keeps, SameSizes
  <2> QED
    BY <2>1, <1>0, PointerSet
<1> HIDE DEF t2
<1>3. State(m1, E2, sz2, t2)
  BY <1>2 DEF State
<1>4. State(m2, E2, sz2, t2) /\ \A j \in Indices : SameWords(m1, m2, t2[j])
  BY <1>3, Forgotten
<1> HIDE DEF m2
<1>5. SameWords(m1, m2, x)
  BY <1>4, <1>1
<1>6. ASSUME NEW j \in Indices \ {i} PROVE SameWords(m, m2, t[j])
  <2> SUFFICES ASSUME t[j].ptr # 0, NEW k \in 0..(t[j].size - 1)
               PROVE  m2[t[j].ptr + k] = m[t[j].ptr + k]
    BY DEF SameWords
  <2> DEFINE p == t[j].ptr
             n == t[j].size
  <2>1. /\ p \in InUse(t) /\ p \in Nat /\ n \in Nat /\ sz[p] \in Nat
        /\ n <= sz[p] - 2
    BY Holding
  <2>2. p \in V
    <3>1. p # t[i].ptr
      BY <1>0 DEF Traced
    <3> QED
      BY <3>1, <2>1 DEF Others
  <2>3. k \in 0..(n - 1)
    OBVIOUS
  <2>4. m2[p + k] = m1[p + k]
    <3>1. SameWords(m1, m2, t[j])
      BY <1>4, <1>1
    <3> QED
      BY <3>1 DEF SameWords
  <2> HIDE DEF p, n
  <2>5. p + k \in p..(p + sz[p] - 3)
    BY <2>1, <2>3
  <2>6. m1[p + k] = m[p + k]
    BY <2>2, <2>5 DEF Keeps
  <2> QED
    BY <2>4, <2>6 DEF p
<1> QED
  BY <1>2, <1>4, <1>1, <1>5, <1>6 DEF t2, m2, V, Kept, After

(* The heap is in order, whatever its blocks are.                          *)
Good(m, t) == \E E, sz : State(m, E, sz, t)

(* It is, and has no seam outside S.                                       *)
Seamed(m, t, S) == \E E, sz : State(m, E, sz, t) /\ Seams(sz, InUse(t)) \subseteq S

(* The heap before its first block.                                        *)
EmptyHeap == [a \in Exited..(N_LISTS + 3) |->
                IF a \in {N_LISTS + 1, N_LISTS + 2} THEN PACK(2, 1)
                ELSE IF a = N_LISTS + 3 THEN PACK(0, 1) ELSE 0]

(* mm_init starts from a heap without blocks, which is in order.           *)
LEMMA EmptyFull == Full(EmptyHeap, FirstBlock, [b \in {} |-> 0], {})
<1> DEFINE sz == [b \in {} |-> 0]
           E == FirstBlock
           m == EmptyHeap
<1>1. N_LISTS \in Nat /\ N_LISTS >= 2 /\ E = N_LISTS + 4 /\ Even(E) /\ E <= MAX_HEAP
      /\ E - 1 = N_LISTS + 3
  BY Constants
<1>2. DOMAIN sz = {}
  OBVIOUS
<1>3. PACK(2, 1) = 3 /\ PACK(0, 1) = 1
  BY DEF PACK
<1>4. /\ m \in [Exited..(E - 1) -> Int]
      /\ m[Exited] = 0 /\ m[N_LISTS + 1] = PACK(2, 1) /\ m[N_LISTS + 2] = PACK(2, 1)
      /\ m[E - 1] = PACK(0, 1) /\ \A c \in 1..N_LISTS : m[c] = 0
  <2>1. /\ Exited \in Exited..(N_LISTS + 3) /\ N_LISTS + 1 \in Exited..(N_LISTS + 3)
        /\ N_LISTS + 2 \in Exited..(N_LISTS + 3) /\ N_LISTS + 3 \in Exited..(N_LISTS + 3)
        /\ Exited # N_LISTS + 1 /\ Exited # N_LISTS + 2 /\ Exited # N_LISTS + 3
        /\ N_LISTS + 3 # N_LISTS + 1 /\ N_LISTS + 3 # N_LISTS + 2
    BY <1>1 DEF Exited
  <2>2. \A c \in 1..N_LISTS : /\ c \in Exited..(N_LISTS + 3) /\ c # N_LISTS + 1
                              /\ c # N_LISTS + 2 /\ c # N_LISTS + 3
    BY <1>1 DEF Exited
  <2>3. m \in [Exited..(N_LISTS + 3) -> Int]
    BY <1>3 DEF EmptyHeap
  <2>4. /\ m[Exited] = 0 /\ m[N_LISTS + 1] = PACK(2, 1) /\ m[N_LISTS + 2] = PACK(2, 1)
        /\ m[N_LISTS + 3] = PACK(0, 1)
    BY <2>1 DEF EmptyHeap
  <2>5. \A c \in 1..N_LISTS : m[c] = 0
    BY <2>2 DEF EmptyHeap
  <2> HIDE DEF m
  <2> QED
    BY <2>3, <2>4, <2>5, <1>1
<1> HIDE DEF m, sz
<1>5. Tiles(E, sz)
  BY <1>1, <1>2 DEF Tiles
<1>6. Tagged(m, E, sz, {})
  BY <1>2, <1>4 DEF Tagged, Prologue
<1>7. ASSUME NEW c \in 1..N_LISTS PROVE Linked(m, c, OfClass(sz, {}, c))
  <2>1. OfClass(sz, {}, c) = {}
    BY DEF OfClass
  <2>2. m[c] = 0
    BY <1>4
  <2> QED
    BY <2>1, <2>2 DEF Linked, IsNext
<1>8. DOMAIN sz \ {} = {}
  BY <1>2
<1> QED
  BY <1>5, <1>6, <1>7, <1>8 DEF Full, Heap, Listed, m, sz

(* mm_init leaves a heap in order.                                         *)
LEMMA Initialised == \E E, sz : Full(mm_init, E, sz, {})
<1> DEFINE r == extend_heap(EmptyHeap, CHUNKSIZE)
           s0 == [b \in {} |-> 0]
<1>1. mm_init = r.mem
  BY DEF mm_init, EmptyHeap
<1>2. Full(EmptyHeap, FirstBlock, s0, {}) /\ CHUNKSIZE \in Nat
  BY EmptyFull, Constants
<1> HIDE DEF s0
<1>3. \/ r = [mem |-> EmptyHeap, ptr |-> 0]
      \/ \E E2 : FreeAt(r, EmptyHeap, E2, s0, {}, CHUNKSIZE, Seams(s0, {}))
  BY <1>2, Extended
<1> HIDE DEF r
<1>4. r = [mem |-> EmptyHeap, ptr |-> 0] => r.mem = EmptyHeap
  OBVIOUS
<1> QED
  BY <1>1, <1>2, <1>3, <1>4 DEF FreeAt

(* The heap is in order after mm_init.                                     *)
LEMMA MmStarts == MmInit => Good(mem, trace)
<1> SUFFICES ASSUME MmInit PROVE Good(mem, trace)
  OBVIOUS
<1> DEFINE t == [i \in Indices |-> NoTrace]
<1>1. trace = t /\ mem = Scrubbed(mm_init, t)
  BY DEF MmInit
<1>2. InUse(t) = {}
  BY DEF InUse, NoTrace
<1>3. ASSUME NEW sz PROVE Traced(t, sz)
  BY DEF Traced, NoTrace
<1> HIDE DEF t
<1>4. PICK E, sz : Full(mm_init, E, sz, {})
  BY Initialised
<1>5. State(mm_init, E, sz, t)
  BY <1>2, <1>3, <1>4 DEF State
<1>6. State(Scrubbed(mm_init, t), E, sz, t)
  BY <1>5, Forgotten
<1> QED
  BY <1>1, <1>6 DEF Good

-----------------------------------------------------------------------------
(* What a step does to index i: nothing to the others.                     *)
LEMMA AllocStep ==
  ASSUME NEW E, NEW sz, State(mem, E, sz, trace), NEW i \in Indices, NEW n \in Requests,
         Alloc(i, n)
  PROVE  /\ Good(mem', trace') /\ Kept(mem, trace, mem', trace', i) /\ trace[i] = NoTrace
         /\ Seamed(mem', trace', Seams(sz, InUse(trace)))
         /\ \/ trace'[i] = NoTrace
            \/ /\ trace'[i].ptr # 0 /\ trace'[i].size = n
               /\ \A k \in 1..n : mem'[trace'[i].ptr + k - 1] = Word(i, k)
<1> DEFINE U == InUse(trace)
           r == mm_malloc(mem, n)
           p == r.ptr
           x == IF p = 0 THEN NoTrace ELSE [ptr |-> p, size |-> n]
           m1 == IF p = 0 THEN mem ELSE memset(r.mem, i, p, 1, n)
           V == Others(trace, i)
<1>0. /\ Full(mem, E, sz, U) /\ Traced(trace, sz) /\ n \in Nat /\ i \in Nat /\ n > 0
      /\ trace[i].ptr = 0 /\ trace[i] = NoTrace
  BY MmAssumption DEF State, Traced, Alloc
<1>1. trace' = Setting(trace, i, x) /\ mem' = Scrubbed(m1, trace')
  BY DEF Alloc, Called, Setting
<1>2. V = U
  BY <1>0 DEF Others, InUse
<1>3. Given(r, mem, sz, U, n)
  BY <1>0, Malloced
<1> HIDE DEF r, V
<1>4. ASSUME p = 0
      PROVE  /\ Good(mem', trace') /\ Kept(mem, trace, mem', trace', i)
             /\ trace'[i] = NoTrace /\ Seamed(mem', trace', Seams(sz, U))
  <2>1. x = NoTrace /\ m1 = mem
    BY <1>4
  <2>2. Holdable(x, sz, V) /\ x.ptr = 0
    BY <2>1, <1>2 DEF Holdable, NoTrace, InUse
  <2>3. Full(mem, E, sz, V \cup ({x.ptr} \ {0}))
    <3>1. V \cup ({x.ptr} \ {0}) = U
      BY <2>2, <1>2
    <3> QED
      BY <3>1, <1>0
  <2>4. Keeps(mem, sz, m1, sz, V)
    BY <2>1 DEF Keeps
  <2> HIDE DEF x, m1
  <2>5. After(mem, trace, i, m1, E, sz, x, Scrubbed(m1, Setting(trace, i, x)),
              Setting(trace, i, x))
    BY <2>1, <2>2, <2>3, <2>4, AfterCall DEF V
  <2>6. After(mem, trace, i, m1, E, sz, x, mem', trace')
    BY <2>5, <1>1 DEF x, m1
  <2>7. InUse(trace') = U
    BY <2>2, <2>6, <1>2 DEF After, V
  <2> HIDE DEF U
  <2> QED
    BY <2>1, <2>6, <2>7 DEF Good, Seamed, After
<1>5. ASSUME p # 0
      PROVE  /\ Good(mem', trace') /\ Kept(mem, trace, mem', trace', i)
             /\ trace'[i].ptr # 0 /\ trace'[i].size = n
             /\ Seamed(mem', trace', Seams(sz, U))
             /\ \A k \in 1..n : mem'[trace'[i].ptr + k - 1] = Word(i, k)
  <2>1. p \notin U /\ \E E2, sz2 : /\ Full(r.mem, E2, sz2, U \cup {p})
                                   /\ Keeps(mem, sz, r.mem, sz2, U)
                                   /\ sz2[p] - Adjusted(n) \in {0, 2}
                                   /\ Seams(sz2, U \cup {p}) \subseteq Seams(sz, U)
    BY <1>3, <1>5 DEF Given
  <2>2. PICK E2, s2 : /\ Full(r.mem, E2, s2, U \cup {p})
                      /\ Keeps(mem, sz, r.mem, s2, U)
                      /\ s2[p] - Adjusted(n) \in {0, 2}
                      /\ Seams(s2, U \cup {p}) \subseteq Seams(sz, U)
    BY <2>1
  <2> DEFINE m0 == r.mem
  <2>3. x = [ptr |-> p, size |-> n] /\ m1 = memset(m0, i, p, 1, n)
    BY <1>5
  <2>4. Tiles(E2, s2) /\ p \in DOMAIN s2 /\ m0 \in [Exited..(E2 - 1) -> Int]
    BY <2>2 DEF Full, Heap, Tagged
  <2> HIDE DEF m0, p, x, m1
  <2>5. p \in Nat /\ s2[p] \in Nat /\ p + s2[p] <= E2 /\ E2 \in Nat
    BY <2>4, BlockAt
  <2>6. n + 2 <= s2[p]
    <3>1. Adjusted(n) \in Nat /\ n + 2 <= Adjusted(n)
      BY <1>0, AdjustedSize
    <3> QED
      BY <3>1, <2>2, <2>5, <1>0
  <2>7. IsFilled(m0, m1, E2, i, p, 1, n)
    <3>1. 1 \in Nat /\ 1 > 0 /\ p + n <= E2
      BY <2>5, <2>6, <1>0
    <3> QED
      BY <3>1, <2>3, <2>4, <2>5, <1>0, Filled
  <2>8. Full(m1, E2, s2, U \cup {p}) /\ Keeps(m0, s2, m1, s2, (U \cup {p}) \ {p})
    <3>1. (p + 1 - 1)..(p + n - 1) \subseteq p..(p + s2[p] - 3)
      BY <2>5, <2>6, <1>0
    <3>2. p \in U \cup {p} /\ Full(m0, E2, s2, U \cup {p})
      BY <2>2 DEF m0
    <3> QED
      BY <3>1, <3>2, <2>7, WritesOwn DEF IsFilled
  <2>9. (U \cup {p}) \ {p} = U /\ {x.ptr} \ {0} = {p} /\ x.ptr = p /\ x.size = n
    BY <2>1, <2>3, <1>5
  <2>10. Keeps(mem, sz, m1, s2, V)
    BY <2>2, <2>8, <2>9, <1>2, KeepsOn DEF m0
  <2>11. Holdable(x, s2, V)
    BY <2>1, <2>2, <2>3, <2>5, <2>9, <1>0, <1>2, <1>5 DEF Holdable
  <2>12. Full(m1, E2, s2, V \cup ({x.ptr} \ {0}))
    BY <2>8, <2>9, <1>2
  <2>13. After(mem, trace, i, m1, E2, s2, x, Scrubbed(m1, Setting(trace, i, x)),
               Setting(trace, i, x))
    BY <2>10, <2>11, <2>12, AfterCall DEF V
  <2>14. After(mem, trace, i, m1, E2, s2, x, mem', trace')
    BY <2>13, <1>1 DEF x, m1, p
  <2>15. /\ Good(mem', trace') /\ Kept(mem, trace, mem', trace', i)
         /\ trace'[i] = x /\ SameWords(m1, mem', x)
    BY <2>14 DEF Good, After
  <2>16. ASSUME NEW k \in 1..n PROVE mem'[p + k - 1] = Word(i, k)
    <3>1. k - 1 \in 0..(n - 1) /\ p + (k - 1) = p + k - 1
      BY <1>0, <2>5
    <3>2. mem'[p + (k - 1)] = m1[p + (k - 1)]
      BY <3>1, <2>9, <2>15, <1>5 DEF SameWords, p
    <3>3. m1[p + k - 1] = Word(i, k)
      BY <2>7 DEF IsFilled
    <3> QED
      BY <3>1, <3>2, <3>3
  <2>17. InUse(trace') = U \cup {p}
    BY <2>9, <2>14, <1>2 DEF After, V
  <2>18. Seamed(mem', trace', Seams(sz, U))
    BY <2>2, <2>14, <2>17 DEF Seamed, After
  <2> QED
    BY <2>9, <2>15, <2>16, <2>18, <1>5 DEF p
<1> QED
  BY <1>0, <1>4, <1>5

(* mm_free takes the block of one index away and does nothing to the       *)
(* others.                                                                 *)
LEMMA FreeStep ==
  ASSUME NEW E, NEW sz, State(mem, E, sz, trace), NEW i \in Indices, trace[i].ptr # 0,
         trace' = Setting(trace, i, NoTrace),
         mem' = Scrubbed(mm_free(mem, trace[i].ptr), trace')
  PROVE  /\ Good(mem', trace') /\ Kept(mem, trace, mem', trace', i)
         /\ trace'[i] = NoTrace /\ Seamed(mem', trace', Seams(sz, InUse(trace)))
<1> DEFINE U == InUse(trace)
           p == trace[i].ptr
           m1 == mm_free(mem, p)
           V == Others(trace, i)
           x == NoTrace
<1>0. Full(mem, E, sz, U) /\ p \in U
  BY Holding DEF State
<1>1. V = U \ {p}
  BY DEF Others
<1>2. \E s2 : /\ Full(m1, E, s2, U \ {p}) /\ Keeps(mem, sz, m1, s2, U \ {p})
              /\ Seams(s2, U \ {p}) \subseteq Seams(sz, U)
  BY <1>0, Freed
<1> HIDE DEF V
<1>3. PICK s2 : /\ Full(m1, E, s2, V) /\ Keeps(mem, sz, m1, s2, V)
                /\ Seams(s2, V) \subseteq Seams(sz, U)
  BY <1>1, <1>2
<1> HIDE DEF m1
<1>4. x.ptr = 0
  BY DEF NoTrace
<1>5. Holdable(x, s2, V)
  <2>1. 0 \notin V
    BY <1>1 DEF InUse
  <2> QED
    BY <2>1, <1>4 DEF Holdable, NoTrace
<1>6. Full(m1, E, s2, V \cup ({x.ptr} \ {0}))
  <2>1. V \cup ({x.ptr} \ {0}) = V
    BY <1>4
  <2> QED
    BY <2>1, <1>3
<1> HIDE DEF x
<1>7. After(mem, trace, i, m1, E, s2, x, Scrubbed(m1, Setting(trace, i, x)),
            Setting(trace, i, x))
  BY <1>3, <1>5, <1>6, AfterCall DEF V
<1>8. After(mem, trace, i, m1, E, s2, x, mem', trace')
  BY <1>7 DEF x, m1
<1>9. InUse(trace') = V
  BY <1>4, <1>8 DEF After, V
<1>10. Seamed(mem', trace', Seams(sz, U))
  BY <1>3, <1>8, <1>9 DEF Seamed, After
<1> QED
  BY <1>8, <1>10 DEF Good, After, x

(* What a realloc leaves at index i: nothing when it asks for nothing,     *)
(* else the words that fit and behind them those the driver writes.        *)
ReallocLeaves(m, x, m2, x2, i, n) ==
  \/ n = 0 /\ x2 = NoTrace
  \/ /\ x2.ptr # 0 /\ x2.size = n
     /\ \A k \in 1..n : m2[x2.ptr + k - 1] = IF k <= x.size THEN m[x.ptr + k - 1]
                                            ELSE Word(i, k)

(* A realloc from x to x2 makes no seam outside S, or has shrunk the block *)
(* where it is and makes one more.                                         *)
ReallocSeams(m2, t2, x, x2, S) ==
  \/ Seamed(m2, t2, S)
  \/ x2.ptr = x.ptr /\ x2.size < x.size /\ \E a : Seamed(m2, t2, S \cup {a})

(* mm_realloc changes what one index has, as ReallocLeaves says, and does  *)
(* nothing to the others.                                                  *)
LEMMA ReallocStep ==
  ASSUME NEW E, NEW sz, State(mem, E, sz, trace), NEW i \in Indices, NEW n \in Requests,
         Realloc(i, n)
  PROVE  /\ trace[i].ptr # 0
         /\ \/ UNCHANGED mmvars
            \/ /\ Good(mem', trace') /\ Kept(mem, trace, mem', trace', i)
               /\ ReallocLeaves(mem, trace[i], mem', trace'[i], i, n)
               /\ ReallocSeams(mem', trace', trace[i], trace'[i], Seams(sz, InUse(trace)))
<1> DEFINE U == InUse(trace)
           V == Others(trace, i)
           ptr == trace[i].ptr
           old == trace[i].size
           r == mm_realloc(mem, ptr, n)
           q == r.ptr
           x == IF q = 0 THEN NoTrace ELSE [ptr |-> q, size |-> n]
           m1 == memset(r.mem, i, q, old + 1, n)
<1>0. ptr # 0
  BY DEF Realloc
<1>1. /\ Full(mem, E, sz, U) /\ Traced(trace, sz) /\ n \in Nat /\ i \in Nat
      /\ ptr \in U /\ ptr \in Nat /\ ptr > 0 /\ old \in Nat /\ old > 0 /\ sz[ptr] \in Nat
      /\ old <= sz[ptr] - 2
  <2>1. /\ ptr \in U /\ ptr \in Nat /\ ptr > 0 /\ old \in Nat /\ old > 0 /\ sz[ptr] \in Nat
        /\ old <= sz[ptr] - 2
    BY <1>0, Holding
  <2> QED
    BY <2>1, MmAssumption DEF State
<1>2. \/ n > 0 /\ q = 0 /\ UNCHANGED mmvars
      \/ /\ ~(n > 0 /\ q = 0)
         /\ trace' = Setting(trace, i, x) /\ mem' = Scrubbed(m1, trace')
  BY DEF Realloc, Called, Setting
<1>3. V = U \ {ptr}
  BY DEF Others
<1>4. ASSUME n = 0
      PROVE  \/ UNCHANGED mmvars
             \/ /\ Good(mem', trace') /\ Kept(mem, trace, mem', trace', i)
                /\ ReallocLeaves(mem, trace[i], mem', trace'[i], i, n)
                /\ ReallocSeams(mem', trace', trace[i], trace'[i], Seams(sz, U))
  <2> DEFINE f == mm_free(mem, ptr)
  <2>1. r = [mem |-> f, ptr |-> 0]
    BY <1>4 DEF mm_realloc
  <2>2. q = 0 /\ r.mem = f
    <3> HIDE DEF f, r
    <3> QED
      BY <2>1
  <2>3. \E s2 : Full(f, E, s2, U \ {ptr})
    BY <1>1, Freed
  <2>4. PICK s2 : f \in [Exited..(E - 1) -> Int]
    BY <2>3 DEF Full, Heap, Tagged
  <2> HIDE DEF f, r
  <2>5. m1 = f
    <3>1. m1 = [a \in DOMAIN f |-> IF a \in (0 + (old + 1) - 1)..(0 + n - 1)
                                   THEN Word(i, a - 0 + 1) ELSE f[a]]
      BY <2>2 DEF memset
    <3>2. \A a : a \notin (0 + (old + 1) - 1)..(0 + n - 1)
      BY <1>1, <1>4
    <3>3. m1 = [a \in DOMAIN f |-> f[a]]
      <4> HIDE DEF m1
      <4> QED
        BY <3>1, <3>2
    <3> HIDE DEF m1
    <3> QED
      BY <3>3, <2>4
  <2>6. x = NoTrace
    BY <2>2
  <2>7. trace' = Setting(trace, i, NoTrace) /\ mem' = Scrubbed(mm_free(mem, trace[i].ptr), trace')
    <3> HIDE DEF m1, x, q
    <3>1. trace' = Setting(trace, i, x) /\ mem' = Scrubbed(m1, trace')
      BY <1>2, <1>4
    <3> QED
      BY <3>1, <2>5, <2>6 DEF f
  <2>8. /\ Good(mem', trace') /\ Kept(mem, trace, mem', trace', i) /\ trace'[i] = NoTrace
        /\ Seamed(mem', trace', Seams(sz, U))
    BY <2>7, <1>0, FreeStep
  <2> QED
    BY <2>8, <1>4 DEF ReallocLeaves, ReallocSeams
<1>5. ASSUME n > 0, q # 0
      PROVE  /\ Good(mem', trace') /\ Kept(mem, trace, mem', trace', i)
             /\ ReallocLeaves(mem, trace[i], mem', trace'[i], i, n)
             /\ ReallocSeams(mem', trace', trace[i], trace'[i], Seams(sz, U))
  <2>0. Resized(r, mem, sz, U, ptr, n)
    BY <1>1, <1>5, Realloced
  <2> DEFINE m0 == r.mem
  <2>1. trace' = Setting(trace, i, x) /\ mem' = Scrubbed(m1, trace')
        /\ x = [ptr |-> q, size |-> n] /\ m1 = memset(m0, i, q, old + 1, n)
    BY <1>2, <1>5
  <2> HIDE DEF r, V
  <2>2. /\ q \notin U \ {ptr}
        /\ \E E2, s2 : /\ Full(r.mem, E2, s2, (U \ {ptr}) \cup {r.ptr})
                       /\ Keeps(mem, sz, r.mem, s2, U \ {ptr})
                       /\ s2[r.ptr] - Adjusted(n) \in {0, 2}
                       /\ \A k \in Nat : k < n /\ k < sz[ptr] - 2 =>
                            r.mem[r.ptr + k] = mem[ptr + k]
                       /\ Seams(s2, (U \ {ptr}) \cup {r.ptr})
                            \subseteq SeamsAfter(sz, U, ptr, r.ptr, n)
    BY <2>0, <1>5 DEF Resized
  <2>3. PICK E2, s2 : /\ Full(r.mem, E2, s2, (U \ {ptr}) \cup {r.ptr})
                      /\ Keeps(mem, sz, r.mem, s2, U \ {ptr})
                      /\ s2[r.ptr] - Adjusted(n) \in {0, 2}
                      /\ \A k \in Nat : k < n /\ k < sz[ptr] - 2 =>
                           r.mem[r.ptr + k] = mem[ptr + k]
                      /\ Seams(s2, (U \ {ptr}) \cup {r.ptr})
                           \subseteq SeamsAfter(sz, U, ptr, r.ptr, n)
    BY <2>2
  <2> HIDE DEF m0, q, x, m1, ptr, old
  <2>4. /\ Full(m0, E2, s2, V \cup {q}) /\ Keeps(mem, sz, m0, s2, V)
        /\ s2[q] - Adjusted(n) \in {0, 2} /\ q \notin V
        /\ \A k \in Nat : k < n /\ k < sz[ptr] - 2 => m0[q + k] = mem[ptr + k]
        /\ Seams(s2, V \cup {q}) \subseteq SeamsAfter(sz, U, ptr, q, n)
    BY <2>2, <2>3, <1>3 DEF m0, q
  <2>5. Tiles(E2, s2) /\ q \in DOMAIN s2 /\ m0 \in [Exited..(E2 - 1) -> Int]
    BY <2>4 DEF Full, Heap, Tagged
  <2>6. q \in Nat /\ s2[q] \in Nat /\ q + s2[q] <= E2 /\ E2 \in Nat
    BY <2>5, BlockAt
  <2>7. n + 2 <= s2[q]
    <3>1. Adjusted(n) \in Nat /\ n + 2 <= Adjusted(n)
      BY <1>1, AdjustedSize
    <3> QED
      BY <3>1, <2>4, <2>6, <1>1
  <2>8. IsFilled(m0, m1, E2, i, q, old + 1, n)
    <3>1. old + 1 \in Nat /\ old + 1 > 0 /\ q + n <= E2
      BY <2>6, <2>7, <1>1
    <3> QED
      BY <3>1, <2>1, <2>5, <2>6, <1>1, Filled
  <2>9. Full(m1, E2, s2, V \cup {q}) /\ Keeps(m0, s2, m1, s2, (V \cup {q}) \ {q})
    <3>1. (q + (old + 1) - 1)..(q + n - 1) \subseteq q..(q + s2[q] - 3)
      BY <2>6, <2>7, <1>1
    <3>2. q \in V \cup {q}
      OBVIOUS
    <3> QED
      BY <3>1, <3>2, <2>4, <2>8, WritesOwn DEF IsFilled
  <2>10. (V \cup {q}) \ {q} = V /\ {x.ptr} \ {0} = {q} /\ x.ptr = q /\ x.size = n
    BY <2>1, <2>4, <1>5 DEF q
  <2>11. Keeps(mem, sz, m1, s2, V)
    BY <2>4, <2>9, <2>10, KeepsOn
  <2>12. Holdable(x, s2, V)
    BY <2>1, <2>4, <2>6, <2>10, <1>1, <1>5 DEF Holdable, q
  <2>13. Full(m1, E2, s2, V \cup ({x.ptr} \ {0}))
    BY <2>9, <2>10
  <2>14. After(mem, trace, i, m1, E2, s2, x, Scrubbed(m1, Setting(trace, i, x)),
               Setting(trace, i, x))
    BY <2>11, <2>12, <2>13, AfterCall DEF V
  <2>15. After(mem, trace, i, m1, E2, s2, x, mem', trace')
    <3>1. Scrubbed(m1, Setting(trace, i, x)) = mem' /\ Setting(trace, i, x) = trace'
      BY <2>1
    <3> QED
      BY <3>1, <2>14
  <2>16. /\ Good(mem', trace') /\ Kept(mem, trace, mem', trace', i)
         /\ trace'[i] = x /\ SameWords(m1, mem', x)
    BY <2>15 DEF Good, After
  <2>17. ASSUME NEW k \in 1..n
         PROVE  mem'[q + k - 1] = IF k <= old THEN mem[ptr + k - 1] ELSE Word(i, k)
    <3>1. k - 1 \in 0..(n - 1) /\ q + (k - 1) = q + k - 1 /\ ptr + (k - 1) = ptr + k - 1
      BY <1>1, <2>6
    <3>2. mem'[q + (k - 1)] = m1[q + (k - 1)]
      BY <3>1, <2>10, <2>16, <1>5 DEF SameWords, q
    <3>3. CASE k <= old
      <4>1. k - 1 \in Nat /\ k - 1 < n /\ k - 1 < sz[ptr] - 2
        BY <3>3, <1>1
      <4>2. m0[q + (k - 1)] = mem[ptr + (k - 1)]
        BY <4>1, <2>4
      <4>3. q + (k - 1) \notin (q + (old + 1) - 1)..(q + n - 1)
        BY <3>3, <2>6, <1>1
      <4>4. q + (k - 1) \in Exited..(E2 - 1)
        BY <2>6, <2>7, <1>1 DEF Exited
      <4>5. m1[q + (k - 1)] = m0[q + (k - 1)]
        BY <4>3, <4>4, <2>8 DEF IsFilled, Elsewhere
      <4> QED
        BY <3>1, <3>2, <3>3, <4>2, <4>5
    <3>4. CASE ~(k <= old)
      <4>1. k \in (old + 1)..n
        BY <3>4, <1>1
      <4>2. m1[q + k - 1] = Word(i, k)
        BY <4>1, <2>8 DEF IsFilled
      <4> QED
        BY <3>1, <3>2, <3>4, <4>2
    <3> QED
      BY <3>3, <3>4
  <2>18. ReallocLeaves(mem, trace[i], mem', trace'[i], i, n)
    BY <2>10, <2>16, <2>17, <1>5 DEF ReallocLeaves, q, ptr, old
  <2>19. State(mem', E2, s2, trace') /\ InUse(trace') = V \cup {q}
    BY <2>10, <2>15 DEF After, V
  <2>20. ASSUME q = ptr /\ sz[ptr] - Adjusted(n) >= 4
         PROVE  ReallocSeams(mem', trace', trace[i], trace'[i], Seams(sz, U))
    <3>1. /\ sz[ptr] - Adjusted(old) \in {0, 2} /\ Adjusted(old) \in Nat
          /\ Adjusted(n) \in Nat /\ Even(Adjusted(n)) /\ Adjusted(n) >= 4
          /\ n + 2 <= Adjusted(n)
          /\ old <= Adjusted(n) - 2 => Adjusted(old) <= Adjusted(n)
      BY <1>0, <1>1, AdjustedSize DEF Traced, ptr, old
    <3>2. n < old
      BY <2>20, <3>1, <1>1
    <3>3. SeamsAfter(sz, U, ptr, q, n) \subseteq Seams(sz, U) \cup {ptr + sz[ptr]}
      BY <2>20 DEF SeamsAfter, SeamsRest, SeamsBut
    <3>4. Seamed(mem', trace', Seams(sz, U) \cup {ptr + sz[ptr]})
      BY <2>4, <2>19, <3>3 DEF Seamed
    <3> QED
      BY <2>10, <2>16, <2>20, <3>2, <3>4 DEF ReallocSeams, ptr, old
  <2>21. ASSUME ~(q = ptr /\ sz[ptr] - Adjusted(n) >= 4)
         PROVE  ReallocSeams(mem', trace', trace[i], trace'[i], Seams(sz, U))
    <3>1. SeamsAfter(sz, U, ptr, q, n) = Seams(sz, U)
      BY <2>21 DEF SeamsAfter, SeamsRest
    <3>2. Seamed(mem', trace', Seams(sz, U))
      BY <2>4, <2>19, <3>1 DEF Seamed
    <3> QED
      BY <3>2 DEF ReallocSeams
  <2> QED
    BY <2>16, <2>18, <2>20, <2>21
<1> HIDE DEF q
<1> QED
  BY <1>0, <1>1, <1>2, <1>4, <1>5

(* Every call leaves the heap in order.                                    *)
MmIInv == Good(mem, trace)

(* No call of the program breaks the order of the heap.                    *)
LEMMA MmKeeps == MmIInv /\ [MmNext]_mmvars => MmIInv'
<1> SUFFICES ASSUME MmIInv, [MmNext]_mmvars PROVE Good(mem', trace')
  BY DEF MmIInv
<1>1. PICK E, sz : State(mem, E, sz, trace)
  BY DEF MmIInv, Good
<1>2. CASE UNCHANGED mmvars
  <2>1. mem' = mem /\ trace' = trace
    BY <1>2 DEF mmvars
  <2> QED
    BY <1>1, <2>1 DEF Good
<1>3. ASSUME NEW i \in Indices, NEW n \in Requests, Alloc(i, n) PROVE Good(mem', trace')
  BY <1>1, <1>3, AllocStep
<1>4. ASSUME NEW i \in Indices, NEW n \in Requests, Realloc(i, n) PROVE Good(mem', trace')
  <2>1. UNCHANGED mmvars \/ Good(mem', trace')
    BY <1>1, <1>4, ReallocStep
  <2> QED
    BY <2>1, <1>2
<1>5. ASSUME NEW i \in Indices, Free(i) PROVE Good(mem', trace')
  <2>1. /\ trace[i].ptr # 0 /\ trace' = Setting(trace, i, NoTrace)
        /\ mem' = Scrubbed(mm_free(mem, trace[i].ptr), trace')
    BY <1>5 DEF Free, Called, Setting
  <2> QED
    BY <1>1, <2>1, FreeStep
<1> QED
  BY <1>2, <1>3, <1>4, <1>5 DEF MmNext

(* So the heap is in order all the time.                                   *)
LEMMA MmIInvHolds == MmSpec => []MmIInv
<1>1. MmInit => MmIInv
  BY MmStarts DEF MmIInv
<1> QED
  BY <1>1, MmKeeps, PTL DEF MmSpec

-----------------------------------------------------------------------------
(* Order implies that the blocks one meets cover the heap.                 *)
LEMMA TiledFrom == MmIInv => HeapTiled
<1> SUFFICES ASSUME MmIInv PROVE HeapTiled
  OBVIOUS
<1> DEFINE U == InUse(trace)
<1>1. PICK E, sz : State(mem, E, sz, trace)
  BY DEF MmIInv, Good
<1>2. Tiles(E, sz) /\ Tagged(mem, E, sz, U) /\ U \subseteq DOMAIN sz
  BY <1>1 DEF State, Full, Heap, Tagged
<1>3. Blocks(mem) = DOMAIN sz /\ Hi(mem) = E - 1 /\ Hi(mem) + 1 = E
  BY <1>2, BlocksAre, HeapEnd
<1>4. ASSUME NEW b \in DOMAIN sz
      PROVE  /\ BlockSize(mem, b) = sz[b] /\ sz[b] >= 4
             /\ NEXT_BLKP(mem, b) \in DOMAIN sz \cup {E}
             /\ mem[FTRP(mem, b)] = mem[HDRP(b)]
             /\ IsFree(mem, b) <=> b \notin U
  <2>1. /\ BlockSize(mem, b) = sz[b] /\ NEXT_BLKP(mem, b) = b + sz[b]
        /\ FTRP(mem, b) = b + sz[b] - 2 /\ (IsFree(mem, b) <=> b \notin U)
        /\ sz[b] >= 4 /\ b + sz[b] \in DOMAIN sz \cup {E}
    BY <1>2, BlockTags, BlockAt
  <2>2. mem[b + sz[b] - 2] = mem[b - 1]
    BY <1>2 DEF Tagged
  <2> QED
    BY <2>1, <2>2 DEF HDRP
<1>5. Running /\ mem[N_LISTS + 1] = PACK(2, 1) /\ mem[Prologue] = PACK(2, 1)
      /\ mem[Hi(mem)] = PACK(0, 1)
  BY <1>2, <1>3 DEF Tagged, Running
<1>6. {trace[i].ptr : i \in Indices} \ {0} = Blocks(mem) \ FreeBlocks(mem)
  <2>1. U = DOMAIN sz \ {b \in DOMAIN sz : IsFree(mem, b)}
    <3> HIDE DEF U
    <3> QED
      BY <1>2, <1>4
  <2> QED
    BY <2>1, <1>3 DEF FreeBlocks, InUse
<1>7. ASSUME NEW b \in Blocks(mem)
      PROVE  /\ BlockSize(mem, b) >= 4
             /\ NEXT_BLKP(mem, b) \in Blocks(mem) \cup {Hi(mem) + 1}
             /\ mem[FTRP(mem, b)] = mem[HDRP(b)]
  BY <1>3, <1>4
<1> QED
  BY <1>5, <1>6, <1>7 DEF HeapTiled

(* Order implies that the lists one walks are those of the free blocks.    *)
LEMMA ListsFrom == MmIInv => ListsExact
<1> SUFFICES ASSUME MmIInv PROVE ListsExact
  OBVIOUS
<1> DEFINE U == InUse(trace)
<1>1. PICK E, sz : State(mem, E, sz, trace)
  BY DEF MmIInv, Good
<1> DEFINE L == DOMAIN sz \ U
<1>2. Tiles(E, sz) /\ Tagged(mem, E, sz, U) /\ Listed(mem, sz, L)
  BY <1>1 DEF State, Full, Heap
<1>3. Blocks(mem) = DOMAIN sz
  BY <1>2, BlocksAre
<1>4. \A b \in DOMAIN sz : BlockSize(mem, b) = sz[b] /\ (IsFree(mem, b) <=> b \notin U)
  BY <1>2, BlockTags
<1> HIDE DEF L
<1>5. ASSUME NEW class \in 1..N_LISTS, NEW list, list = FreeList(mem, class)
      PROVE  /\ {list[k] : k \in DOMAIN list}
                  = {bp \in FreeBlocks(mem) : ClassOf(BlockSize(mem, bp)) = class}
             /\ \A k \in DOMAIN list :
                  /\ GET_PRED(mem, list[k]) = IF k = 1 THEN 0 ELSE list[k - 1]
                  /\ k > 1 => list[k - 1] < list[k]
  <2> DEFINE S == OfClass(sz, L, class)
  <2>1. S = {bp \in FreeBlocks(mem) : ClassOf(BlockSize(mem, bp)) = class}
    <3>1. L = FreeBlocks(mem)
      BY <1>3, <1>4 DEF FreeBlocks, L
    <3>2. \A b \in L : BlockSize(mem, b) = sz[b]
      BY <1>4 DEF L
    <3> QED
      BY <3>1, <3>2 DEF OfClass
  <2>2. Linked(mem, class, S) /\ Apart(S)
    <3>1. S \subseteq DOMAIN sz
      BY DEF OfClass, L
    <3> QED
      BY <3>1, <1>2, BlocksApart DEF Listed
  <2> HIDE DEF S
  <2>3. PICK n \in Nat : Lists(mem, list, n, S)
    BY <2>2, <1>5, FreeListIs
  <2>4. {list[k] : k \in DOMAIN list} = S
    <3>1. DOMAIN list = 1..n /\ \A k \in 1..n : list[k] \in S
      BY <2>3 DEF Lists
    <3>2. \A x \in S : \E k \in 1..n : list[k] = x
      BY <2>3 DEF Lists
    <3> QED
      BY ONLY <3>1, <3>2
  <2>5. ASSUME NEW k \in DOMAIN list
        PROVE  /\ GET_PRED(mem, list[k]) = IF k = 1 THEN 0 ELSE list[k - 1]
               /\ k > 1 => list[k - 1] < list[k]
    <3>1. k \in 1..n
      BY <2>3 DEF Lists
    <3>2. k = 1 \/ k > 1
      BY <3>1
    <3> QED
      BY <2>3, <3>1, <3>2 DEF Lists, GET_PRED
  <2> QED
    BY <2>1, <2>4, <2>5
<1> QED
  BY <1>5 DEF ListsExact

(* No sequence of calls breaks the heap or the lists through it.           *)
THEOREM MmHeapSafe == MmSpec => []HeapSafe
<1>1. MmIInv => HeapSafe
  BY TiledFrom, ListsFrom DEF HeapSafe
<1> QED
  BY <1>1, MmIInvHolds, PTL

(* A block in use has room for what was asked for, and hardly more.        *)
THEOREM MmNoWaste == MmSpec => []NoWaste
<1>1. MmIInv => NoWaste
  <2> SUFFICES ASSUME MmIInv, NEW i \in Indices, trace[i].ptr # 0
               PROVE  BlockSize(mem, trace[i].ptr) - Adjusted(trace[i].size) \in {0, 2}
    BY DEF NoWaste
  <2>1. PICK E, sz : State(mem, E, sz, trace)
    BY DEF MmIInv, Good
  <2>2. sz[trace[i].ptr] - Adjusted(trace[i].size) \in {0, 2}
    BY <2>1 DEF State, Traced
  <2>3. trace[i].ptr \in DOMAIN sz
    BY <2>1, Holding
  <2>4. BlockSize(mem, trace[i].ptr) = sz[trace[i].ptr]
    BY <2>1, <2>3, BlockTags DEF State, Full, Heap
  <2> QED
    BY <2>2, <2>4
<1> QED
  BY <1>1, MmIInvHolds, PTL

(* What the program has at x in the heap m.                                *)
HeldAt(m, x) == [ptr |-> x.ptr, data |-> [k \in 1..x.size |-> m[x.ptr + k - 1]]]

(* The null pointer has no block.                                          *)
LEMMA HeldNone == ASSUME NEW m PROVE HeldAt(m, NoTrace) = Promise!NoBlock
<1>1. 1..0 = {}
  OBVIOUS
<1>2. [k \in 1..0 |-> m[0 + k - 1]] = <<>>
  BY <1>1
<1> QED
  BY <1>2 DEF HeldAt, NoTrace, Promise!NoBlock

(* A sequence that is a function of 1..n has length n.                      *)
LEMMA LengthOf ==
  ASSUME NEW n \in Nat, NEW w PROVE Len([k \in 1..n |-> w[k]]) = n
<1>1. [k \in 1..n |-> w[k]] \in Seq({w[k] : k \in 1..n})
  OBVIOUS
<1> QED
  BY <1>1

(* The words of a block are those of the heap.                             *)
LEMMA HeldWords ==
  ASSUME NEW m, NEW x, x.size \in Nat
  PROVE  /\ HeldAt(m, x).ptr = x.ptr /\ DOMAIN HeldAt(m, x).data = 1..x.size
         /\ Len(HeldAt(m, x).data) = x.size
         /\ \A k \in 1..x.size : HeldAt(m, x).data[k] = m[x.ptr + k - 1]
<1> DEFINE n == x.size
           p == x.ptr
           d == [k \in 1..n |-> m[p + k - 1]]
<1>0. n \in Nat
  OBVIOUS
<1>1. HeldAt(m, x).ptr = x.ptr /\ HeldAt(m, x).data = d
  BY DEF HeldAt
<1> HIDE DEF n, p
<1>2. DOMAIN d = 1..n /\ \A k \in 1..n : d[k] = m[p + k - 1]
  OBVIOUS
<1>3. Len(d) = n
  <2>1. Len([k \in 1..n |-> d[k]]) = n
    BY <1>0, LengthOf
  <2> QED
    BY <2>1
<1> QED
  BY <1>1, <1>2, <1>3 DEF n, p

(* A block whose words are kept is kept.                                   *)
LEMMA HeldKept ==
  ASSUME NEW m, NEW m2, NEW x, x.ptr \in Nat, x.size \in Nat, x.ptr = 0 => x = NoTrace,
         SameWords(m, m2, x)
  PROVE  HeldAt(m2, x) = HeldAt(m, x)
<1>1. CASE x.ptr = 0
  BY <1>1, HeldNone
<1>2. CASE x.ptr # 0
  <2>1. ASSUME NEW k \in 1..x.size PROVE m2[x.ptr + k - 1] = m[x.ptr + k - 1]
    <3>1. k - 1 \in 0..(x.size - 1) /\ x.ptr + (k - 1) = x.ptr + k - 1
      OBVIOUS
    <3> QED
      BY <3>1, <1>2 DEF SameWords
  <2> QED
    BY <2>1 DEF HeldAt
<1> QED
  BY <1>1, <1>2

(* Blocks in use have no word in common.                                   *)
LEMMA HeldApart ==
  ASSUME NEW m, NEW E, NEW sz, NEW t, State(m, E, sz, t), NEW i \in Indices,
         NEW j \in Indices, i # j, t[i].ptr # 0, t[j].ptr # 0
  PROVE  t[i].ptr..(t[i].ptr + t[i].size - 1) \cap t[j].ptr..(t[j].ptr + t[j].size - 1) = {}
<1> DEFINE p == t[i].ptr
           q == t[j].ptr
<1>1. /\ p \in DOMAIN sz /\ p \in Nat /\ t[i].size \in Nat /\ sz[p] \in Nat
      /\ t[i].size <= sz[p] - 2
  BY Holding
<1>2. /\ q \in DOMAIN sz /\ q \in Nat /\ t[j].size \in Nat /\ sz[q] \in Nat
      /\ t[j].size <= sz[q] - 2
  BY Holding
<1>3. Tiles(E, sz)
  BY DEF State, Full, Heap
<1>4. p # q
  BY DEF State, Traced
<1>5. p + sz[p] <= q \/ q + sz[q] <= p
  BY <1>1, <1>2, <1>3, <1>4, BlocksDisjoint
<1> HIDE DEF p, q
<1>6. \A a \in Int : ~(p <= a /\ a <= p + t[i].size - 1 /\ q <= a /\ a <= q + t[j].size - 1)
  BY <1>1, <1>2, <1>5
<1>7. p..(p + t[i].size - 1) \cap q..(q + t[j].size - 1) = {}
  BY <1>1, <1>2, <1>6
<1> QED
  BY <1>7 DEF p, q

(* Index i now has a block, and the others have theirs as before.          *)
LEMMA GrantedBlock ==
  ASSUME Good(mem, trace), Good(mem', trace'), NEW i \in Indices, trace'[i].ptr # 0,
         Kept(mem, trace, mem', trace', i)
  PROVE  Promise!Granted(i)
<1>1. PICK E, sz : State(mem, E, sz, trace)
  BY DEF Good
<1>2. PICK E2, s2 : State(mem', E2, s2, trace')
  BY DEF Good
<1>3. /\ \A j \in Indices : Held(j) = HeldAt(mem, trace[j])
      /\ \A j \in Indices : Held(j)' = HeldAt(mem', trace'[j])
  BY DEF Held, HeldAt
<1>4. /\ trace'[i].ptr \in Nat /\ trace'[i].ptr > 0 /\ trace'[i].ptr % 2 = 0
      /\ trace'[i].size \in Nat
  BY <1>2, Holding
<1>5. HeldAt(mem', trace'[i]).ptr = trace'[i].ptr
  BY <1>4, HeldWords
<1>6. HeldAt(mem', trace'[i]) # Promise!NoBlock
  BY <1>4, <1>5 DEF Promise!NoBlock
<1>7. ASSUME NEW j \in Indices \ {i}
      PROVE  HeldAt(mem', trace'[j]) = HeldAt(mem, trace[j])
  <2>1. trace'[j] = trace[j] /\ SameWords(mem, mem', trace[j])
    BY DEF Kept
  <2>2. trace[j].ptr \in Nat /\ trace[j].size \in Nat /\ (trace[j].ptr = 0 => trace[j] = NoTrace)
    BY <1>1 DEF State, Traced
  <2> QED
    BY <2>1, <2>2, HeldKept
<1>8. ASSUME NEW j \in Indices \ {i}, HeldAt(mem, trace[j]) # Promise!NoBlock
      PROVE  Promise!Words(HeldAt(mem, trace[j])) \cap Promise!Words(HeldAt(mem', trace'[i])) = {}
  <2>1. trace'[j] = trace[j]
    BY DEF Kept
  <2>2. trace[j].ptr # 0
    <3>1. trace[j].ptr = 0 => trace[j] = NoTrace
      BY <1>1 DEF State, Traced
    <3> QED
      BY <1>8, <3>1, HeldNone
  <2>3. trace'[j].ptr..(trace'[j].ptr + trace'[j].size - 1)
          \cap trace'[i].ptr..(trace'[i].ptr + trace'[i].size - 1) = {}
    BY <1>2, <2>1, <2>2, HeldApart
  <2>4. trace[j].size \in Nat
    BY <1>1 DEF State, Traced
  <2>5. /\ Promise!Words(HeldAt(mem, trace[j]))
             = trace[j].ptr..(trace[j].ptr + trace[j].size - 1)
        /\ Promise!Words(HeldAt(mem', trace'[i]))
             = trace'[i].ptr..(trace'[i].ptr + trace'[i].size - 1)
    BY <1>4, <2>4, HeldWords DEF Promise!Words
  <2> QED
    BY <2>1, <2>3, <2>5
<1> QED
  BY <1>3, <1>4, <1>5, <1>6, <1>7, <1>8 DEF Promise!Granted, Promise!Used

(* Index i now has no block, and the others have theirs as before.         *)
LEMMA FreedBlock ==
  ASSUME Good(mem, trace), NEW i \in Indices, trace[i].ptr # 0, trace'[i] = NoTrace,
         Kept(mem, trace, mem', trace', i)
  PROVE  Promise!Free(i)
<1>1. PICK E, sz : State(mem, E, sz, trace)
  BY DEF Good
<1>2. /\ \A j \in Indices : Held(j) = HeldAt(mem, trace[j])
      /\ \A j \in Indices : Held(j)' = HeldAt(mem', trace'[j])
  BY DEF Held, HeldAt
<1>3. Held(i) # Promise!NoBlock
  <2>1. trace[i].size \in Nat
    BY <1>1, Holding
  <2>2. Held(i).ptr = trace[i].ptr
    BY <1>2, <2>1, HeldWords
  <2> QED
    BY <2>2 DEF Promise!NoBlock
<1>4. Held(i)' = Promise!NoBlock
  BY <1>2, HeldNone
<1>5. ASSUME NEW j \in Indices \ {i} PROVE Held(j)' = Held(j)
  <2>1. trace'[j] = trace[j] /\ SameWords(mem, mem', trace[j])
    BY DEF Kept
  <2>2. trace[j].ptr \in Nat /\ trace[j].size \in Nat /\ (trace[j].ptr = 0 => trace[j] = NoTrace)
    BY <1>1 DEF State, Traced
  <2>3. HeldAt(mem', trace'[j]) = HeldAt(mem, trace[j])
    BY <2>1, <2>2, HeldKept
  <2> QED
    BY <1>2, <2>3
<1>6. [k \in Indices |-> Held(k)'] = [[k \in Indices |-> Held(k)] EXCEPT ![i] = Promise!NoBlock]
  BY <1>4, <1>5
<1> QED
  BY <1>3, <1>6 DEF Promise!Free, Promise!Used

(* Nobody's block is touched.                                              *)
LEMMA BlocksKept ==
  ASSUME Good(mem, trace), NEW i \in Indices, trace[i] = NoTrace, trace'[i] = NoTrace,
         Kept(mem, trace, mem', trace', i)
  PROVE  [j \in Indices |-> Held(j)]' = [j \in Indices |-> Held(j)]
<1>1. PICK E, sz : State(mem, E, sz, trace)
  BY DEF Good
<1>2. /\ \A j \in Indices : Held(j) = HeldAt(mem, trace[j])
      /\ \A j \in Indices : Held(j)' = HeldAt(mem', trace'[j])
  BY DEF Held, HeldAt
<1>3. Held(i)' = Held(i)
  BY <1>2, HeldNone
<1>4. ASSUME NEW j \in Indices \ {i} PROVE Held(j)' = Held(j)
  <2>1. trace'[j] = trace[j] /\ SameWords(mem, mem', trace[j])
    BY DEF Kept
  <2>2. trace[j].ptr \in Nat /\ trace[j].size \in Nat /\ (trace[j].ptr = 0 => trace[j] = NoTrace)
    BY <1>1 DEF State, Traced
  <2>3. HeldAt(mem', trace'[j]) = HeldAt(mem, trace[j])
    BY <2>1, <2>2, HeldKept
  <2> QED
    BY <1>2, <2>3
<1> QED
  BY <1>3, <1>4

(* A call of mm_malloc is the promised one, or there is no more memory.    *)
LEMMA MallocPromised ==
  ASSUME Good(mem, trace), NEW i \in Indices, NEW n \in Requests, Alloc(i, n)
  PROVE  Promise!Malloc(i) \/ [j \in Indices |-> Held(j)]' = [j \in Indices |-> Held(j)]
<1>1. PICK E, sz : State(mem, E, sz, trace)
  BY DEF Good
<1>2. /\ Good(mem', trace') /\ Kept(mem, trace, mem', trace', i) /\ trace[i] = NoTrace
      /\ \/ trace'[i] = NoTrace
         \/ /\ trace'[i].ptr # 0 /\ trace'[i].size = n
            /\ \A k \in 1..n : mem'[trace'[i].ptr + k - 1] = Word(i, k)
  BY <1>1, AllocStep
<1>3. CASE trace'[i] = NoTrace
  BY <1>2, <1>3, BlocksKept
<1>4. ASSUME trace'[i].ptr # 0, trace'[i].size = n,
             \A k \in 1..n : mem'[trace'[i].ptr + k - 1] = Word(i, k)
      PROVE  Promise!Malloc(i)
  <2>1. Promise!Granted(i)
    BY <1>2, <1>4, GrantedBlock
  <2>2. Held(i) = HeldAt(mem, trace[i]) /\ Held(i)' = HeldAt(mem', trace'[i])
    BY DEF Held, HeldAt
  <2>3. Held(i) = Promise!NoBlock
    BY <1>2, <2>2, HeldNone
  <2>4. n \in Nat
    BY MmAssumption
  <2> DEFINE new == HeldAt(mem', trace'[i]).data
  <2>5. /\ Len(new) = n /\ \A k \in 1..n : new[k] = Word(i, k)
    <3>1. trace'[i].size \in Nat
      BY <1>4, <2>4
    <3>2. /\ Len(new) = trace'[i].size
          /\ \A k \in 1..trace'[i].size : new[k] = mem'[trace'[i].ptr + k - 1]
      BY <3>1, HeldWords
    <3> HIDE DEF new
    <3> QED
      BY <1>4, <3>2
  <2>6. (Held(i)').data = new
    BY <2>2
  <2> HIDE DEF new
  <2> QED
    BY <2>1, <2>3, <2>5, <2>6 DEF Promise!Malloc, Promise!Used, Promise!Written
<1> QED
  BY <1>2, <1>3, <1>4

(* A call of mm_realloc is the promised one, a free, or cannot be met.     *)
LEMMA ReallocPromised ==
  ASSUME Good(mem, trace), NEW i \in Indices, NEW n \in Requests, Realloc(i, n)
  PROVE  \/ Promise!Realloc(i) \/ Promise!Free(i)
         \/ [j \in Indices |-> Held(j)]' = [j \in Indices |-> Held(j)]
<1>1. PICK E, sz : State(mem, E, sz, trace)
  BY DEF Good
<1>2. /\ trace[i].ptr # 0
      /\ \/ UNCHANGED mmvars
         \/ /\ Good(mem', trace') /\ Kept(mem, trace, mem', trace', i)
            /\ ReallocLeaves(mem, trace[i], mem', trace'[i], i, n)
  BY <1>1, ReallocStep
<1>3. CASE UNCHANGED mmvars
  BY <1>3 DEF mmvars, Held
<1>4. ASSUME Good(mem', trace'), Kept(mem, trace, mem', trace', i), trace'[i] = NoTrace
      PROVE  Promise!Free(i)
  BY <1>2, <1>4, FreedBlock
<1>5. ASSUME Good(mem', trace'), Kept(mem, trace, mem', trace', i),
             trace'[i].ptr # 0, trace'[i].size = n,
             \A k \in 1..n : mem'[trace'[i].ptr + k - 1]
                               = IF k <= trace[i].size THEN mem[trace[i].ptr + k - 1]
                                 ELSE Word(i, k)
      PROVE  Promise!Realloc(i)
  <2>1. Promise!Granted(i)
    BY <1>5, GrantedBlock
  <2>2. Held(i) = HeldAt(mem, trace[i]) /\ Held(i)' = HeldAt(mem', trace'[i])
    BY DEF Held, HeldAt
  <2> DEFINE s == trace[i].size
             old == HeldAt(mem, trace[i]).data
             new == HeldAt(mem', trace'[i]).data
  <2>3. n \in Nat /\ s \in Nat
    BY <1>1, <1>2, MmAssumption, Holding
  <2>4. /\ Held(i).ptr = trace[i].ptr /\ DOMAIN old = 1..s /\ Len(old) = s
        /\ \A k \in 1..s : old[k] = mem[trace[i].ptr + k - 1]
    BY <2>2, <2>3, HeldWords
  <2>5. Held(i).data = old /\ (Held(i)').data = new
    BY <2>2
  <2>6. /\ DOMAIN new = 1..n /\ Len(new) = n
        /\ \A k \in 1..n : new[k] = mem'[trace'[i].ptr + k - 1]
    BY <1>5, <2>3, HeldWords
  <2>7. Held(i) # Promise!NoBlock
    BY <1>2, <2>4 DEF Promise!NoBlock
  <2> HIDE DEF s, old, new
  <2>8. ASSUME NEW k \in DOMAIN old \cap DOMAIN new PROVE new[k] = old[k]
    <3>1. k \in 1..s /\ k \in 1..n /\ k <= s
      BY <2>3, <2>4, <2>6
    <3> QED
      BY <3>1, <1>5, <2>4, <2>6 DEF s
  <2>9. ASSUME NEW k \in (Len(old) + 1)..Len(new) PROVE new[k] = Word(i, k)
    <3>1. k \in 1..n /\ ~(k <= s)
      BY <2>3, <2>4, <2>6
    <3> QED
      BY <3>1, <1>5, <2>6 DEF s
  <2> QED
    BY <2>1, <2>7, <2>8, <2>9, <2>5 DEF Promise!Realloc, Promise!Used, Promise!Written
<1> QED
  BY <1>2, <1>3, <1>4, <1>5 DEF ReallocLeaves

(* The allocator implements what it promises the program.                  *)
THEOREM MmImplements == MmSpec => ImplementsAllocator
<1>1. MmInit => Promise!Init
  BY HeldNone DEF MmInit, Promise!Init, Held, HeldAt
<1>2. MmIInv /\ [MmNext]_mmvars => [Promise!Next]_[i \in Indices |-> Held(i)]
  <2> DEFINE H == [i \in Indices |-> Held(i)]
  <2> SUFFICES ASSUME MmIInv, [MmNext]_mmvars PROVE Promise!Next \/ H' = H
    OBVIOUS
  <2>0. Good(mem, trace)
    BY DEF MmIInv
  <2>1. CASE UNCHANGED mmvars
    BY <2>1 DEF mmvars, Held
  <2>2. ASSUME NEW i \in Indices, NEW n \in Requests, Alloc(i, n)
        PROVE  Promise!Malloc(i) \/ H' = H
    BY <2>0, <2>2, MallocPromised
  <2>3. ASSUME NEW i \in Indices, NEW n \in Requests, Realloc(i, n)
        PROVE  Promise!Realloc(i) \/ Promise!Free(i) \/ H' = H
    BY <2>0, <2>3, ReallocPromised
  <2>4. ASSUME NEW i \in Indices, Free(i) PROVE Promise!Free(i)
    <3>1. /\ trace[i].ptr # 0 /\ trace' = Setting(trace, i, NoTrace)
          /\ mem' = Scrubbed(mm_free(mem, trace[i].ptr), trace')
      BY <2>4 DEF Free, Called, Setting
    <3>2. PICK E, sz : State(mem, E, sz, trace)
      BY <2>0 DEF Good
    <3>3. Kept(mem, trace, mem', trace', i) /\ trace'[i] = NoTrace
      BY <3>1, <3>2, FreeStep
    <3> QED
      BY <2>0, <3>1, <3>3, FreedBlock
  <2> QED
    BY <2>1, <2>2, <2>3, <2>4 DEF MmNext, Promise!Next
<1> QED
  BY <1>1, <1>2, MmIInvHolds, PTL DEF MmSpec, ImplementsAllocator, Promise!Spec

(* A seam is where the first block of a pair of free ones ends, so there   *)
(* are as many of one as of the other.                                     *)
LEMMA PairsAreSeams ==
  ASSUME NEW m, NEW E, NEW sz, NEW t, State(m, E, sz, t)
  PROVE  /\ IsFiniteSet(Seams(sz, InUse(t)))
         /\ FreePairs(m) = Cardinality(Seams(sz, InUse(t)))
<1> DEFINE U == InUse(t)
           F == DOMAIN sz \ U
           P == {b \in F : b + sz[b] \in F}
           T == Seams(sz, U)
           f == [b \in P |-> b + sz[b]]
<1>0. Tiles(E, sz) /\ Tagged(m, E, sz, U)
  BY DEF State, Full, Heap
<1>1. FreeBlocks(m) = F /\ \A b \in F : NEXT_BLKP(m, b) = b + sz[b]
  <2>1. Blocks(m) = DOMAIN sz
    BY <1>0, BlocksAre
  <2>2. \A b \in DOMAIN sz : (IsFree(m, b) <=> b \notin U) /\ NEXT_BLKP(m, b) = b + sz[b]
    BY <1>0, BlockTags
  <2> HIDE DEF U
  <2> QED
    BY <2>1, <2>2 DEF FreeBlocks
<1>2. {b \in FreeBlocks(m) : NEXT_BLKP(m, b) \in FreeBlocks(m)} = P
  <2> HIDE DEF F
  <2> QED
    BY <1>1
<1>3. IsFiniteSet(P) /\ IsFiniteSet(T)
  <2>1. \A b \in DOMAIN sz : b \in Nat /\ b <= E /\ E \in Nat
    <3> TAKE b \in DOMAIN sz
    <3>1. b \in Nat /\ sz[b] \in Nat /\ b + sz[b] <= E /\ E \in Nat
      BY <1>0, BlockAt
    <3> QED
      BY <3>1
  <2>2. DOMAIN sz \subseteq 0..E
    BY <2>1
  <2>3. E \in Nat
    BY <1>0, HeapEnd
  <2>4. IsFiniteSet(0..E)
    BY <2>3, FS_Interval
  <2>5. P \in SUBSET (0..E) /\ T \in SUBSET (0..E)
    BY <2>2 DEF Seams
  <2> HIDE DEF P, T
  <2> QED
    BY <2>4, <2>5, FS_Subset
<1>4. \A b \in P : f[b] \in T
  BY DEF Seams
<1>5. ASSUME NEW b \in P, NEW c \in P, f[b] = f[c] PROVE b = c
  <2> SUFFICES ASSUME b # c PROVE FALSE
    OBVIOUS
  <2>1. b \in DOMAIN sz /\ c \in DOMAIN sz /\ b + sz[b] = c + sz[c]
    BY <1>5
  <2>2. /\ b \in Nat /\ sz[b] \in Nat /\ sz[b] >= 4
        /\ c \in Nat /\ sz[c] \in Nat /\ sz[c] >= 4
    BY <2>1, <1>0, BlockAt
  <2>3. b + sz[b] <= c \/ c + sz[c] <= b
    BY <2>1, <1>0, BlocksDisjoint
  <2> QED
    BY <2>1, <2>2, <2>3
<1>6. \A c \in T : \E b \in P : f[b] = c
  <2> SUFFICES ASSUME NEW c \in T PROVE \E b \in P : f[b] = c
    OBVIOUS
  <2>1. PICK b \in F : b + sz[b] = c /\ c \in F
    BY DEF Seams
  <2>2. b \in P
    BY <2>1
  <2> QED
    BY <2>1, <2>2
<1>7. Cardinality(T) = Cardinality(P)
  <2> HIDE DEF P, T, f
  <2> QED
    BY <1>3, <1>4, <1>5, <1>6, OneToOne
<1> QED
  BY <1>2, <1>3, <1>7 DEF FreePairs

(* So a heap with no seam outside S has at most as many pairs.             *)
LEMMA PairsWithin ==
  ASSUME NEW m, NEW t, NEW S, IsFiniteSet(S), Seamed(m, t, S)
  PROVE  FreePairs(m) \in Nat /\ FreePairs(m) <= Cardinality(S)
<1>1. PICK E, sz : State(m, E, sz, t) /\ Seams(sz, InUse(t)) \subseteq S
  BY DEF Seamed
<1> DEFINE T == Seams(sz, InUse(t))
<1>2. IsFiniteSet(T) /\ FreePairs(m) = Cardinality(T)
  BY <1>1, PairsAreSeams
<1> HIDE DEF T
<1>3. T \in SUBSET S
  BY <1>1 DEF T
<1>4. Cardinality(T) \in Nat /\ Cardinality(T) <= Cardinality(S)
  BY <1>2, <1>3, FS_CardinalityType, FS_Subset
<1> QED
  BY <1>2, <1>4

(* What a step may do to the pairs of free blocks: leave no more of them,  *)
(* or one more where index i has shrunk in place.                          *)
PairsStep ==
  \/ FreePairs(mem') <= FreePairs(mem)
  \/ /\ FreePairs(mem') <= FreePairs(mem) + 1
     /\ \E i \in Indices : /\ trace'[i].ptr = trace[i].ptr
                          /\ trace'[i].size < trace[i].size

(* Every step of the program does that.                                    *)
LEMMA PairsKept ==
  ASSUME MmIInv, [MmNext]_mmvars
  PROVE  PairsStep /\ FreePairs(mem) \in Nat /\ FreePairs(mem') \in Nat
<1>1. PICK E, sz : State(mem, E, sz, trace)
  BY DEF MmIInv, Good
<1> DEFINE S == Seams(sz, InUse(trace))
<1>2. IsFiniteSet(S) /\ FreePairs(mem) = Cardinality(S)
  BY <1>1, PairsAreSeams
<1> HIDE DEF S
<1>3. FreePairs(mem) \in Nat
  BY <1>2, FS_CardinalityType
<1>4. Seamed(mem', trace', S) =>
        PairsStep /\ FreePairs(mem) \in Nat /\ FreePairs(mem') \in Nat
  BY <1>2, <1>3, PairsWithin DEF PairsStep
<1>5. CASE UNCHANGED mmvars
  <2>1. mem' = mem
    BY <1>5 DEF mmvars
  <2>2. FreePairs(mem') = FreePairs(mem)
    BY <2>1
  <2> QED
    BY <2>2, <1>3 DEF PairsStep
<1>6. ASSUME NEW i \in Indices, NEW n \in Requests, Alloc(i, n)
      PROVE  Seamed(mem', trace', S)
  BY <1>1, <1>6, AllocStep DEF S
<1>7. ASSUME NEW i \in Indices, Free(i)
      PROVE  Seamed(mem', trace', S)
  <2>1. /\ trace[i].ptr # 0 /\ trace' = Setting(trace, i, NoTrace)
        /\ mem' = Scrubbed(mm_free(mem, trace[i].ptr), trace')
    BY <1>7 DEF Free, Called, Setting
  <2> QED
    BY <1>1, <2>1, FreeStep DEF S
<1>8. ASSUME NEW i \in Indices, NEW n \in Requests, Realloc(i, n), ~UNCHANGED mmvars
      PROVE  PairsStep /\ FreePairs(mem) \in Nat /\ FreePairs(mem') \in Nat
  <2>1. ReallocSeams(mem', trace', trace[i], trace'[i], S)
    BY <1>1, <1>8, ReallocStep DEF S
  <2>2. CASE Seamed(mem', trace', S)
    BY <2>2, <1>4
  <2>3. ASSUME NEW a, Seamed(mem', trace', S \cup {a}),
               trace'[i].ptr = trace[i].ptr, trace'[i].size < trace[i].size
        PROVE  PairsStep /\ FreePairs(mem) \in Nat /\ FreePairs(mem') \in Nat
    <3>1. /\ IsFiniteSet(S \cup {a}) /\ Cardinality(S) \in Nat
          /\ Cardinality(S \cup {a}) = IF a \in S THEN Cardinality(S) ELSE Cardinality(S) + 1
      BY <1>2, FS_AddElement, FS_CardinalityType
    <3>2. FreePairs(mem') \in Nat /\ FreePairs(mem') <= Cardinality(S \cup {a})
      BY <3>1, <2>3, PairsWithin
    <3>3. FreePairs(mem') <= FreePairs(mem) + 1
      BY <3>1, <3>2, <1>2
    <3> QED
      BY <3>2, <3>3, <2>3, <1>3 DEF PairsStep
  <2> QED
    BY <2>1, <2>2, <2>3 DEF ReallocSeams
<1> QED
  BY <1>4, <1>5, <1>6, <1>7, <1>8 DEF MmNext

(* Two free blocks that touch come from a realloc that shrinks a block in  *)
(* place, one pair at a time, and from no other call.                      *)
THEOREM MmOnlyShrink == MmSpec => OnlyShrinkLeavesPairs
<1>1. MmIInv /\ [MmNext]_mmvars =>
        [FreePairs(mem') > FreePairs(mem) =>
           /\ FreePairs(mem') = FreePairs(mem) + 1
           /\ \E i \in Indices : /\ trace'[i].ptr = trace[i].ptr
                                /\ trace'[i].size < trace[i].size]_mmvars
  BY PairsKept DEF PairsStep
<1> QED
  BY <1>1, MmIInvHolds, PTL DEF MmSpec, OnlyShrinkLeavesPairs
=============================================================================
