------------------------------ MODULE Counting ------------------------------
(***************************************************************************)
(* Counting the threads of a finite set S by where they are (f[t] is the   *)
(* place of thread t, L a set of places), and sums of sequences of numbers.*)
(***************************************************************************)
EXTENDS Integers, FiniteSetTheorems, FunctionTheorems, WellFoundedInduction, Sums, TLAPS

(* The threads that f places at a label of L, and how many they are.       *)
Placed(S, f, L) == {u \in S : f[u] \in L}
Num(S, f, L) == Cardinality(Placed(S, f, L))

(* Every group of threads has a size.                                      *)
LEMMA PlacedFinite ==
  ASSUME NEW S, IsFiniteSet(S), NEW f, NEW L
  PROVE  IsFiniteSet(Placed(S, f, L)) /\ Num(S, f, L) \in Nat
<1>1. IsFiniteSet(Placed(S, f, L))
  BY FS_Subset DEF Placed
<1> QED
  BY <1>1, FS_CardinalityType DEF Num

(* A count is positive exactly when there is a thread to count.            *)
LEMMA NumPositive ==
  ASSUME NEW S, IsFiniteSet(S), NEW f, NEW L
  PROVE  Num(S, f, L) # 0 <=> \E t \in S : f[t] \in L
<1>1. Cardinality(Placed(S, f, L)) = 0 <=> Placed(S, f, L) = {}
  BY PlacedFinite, FS_EmptySet
<1>2. Placed(S, f, L) # {} <=> \E t \in S : f[t] \in L
  BY DEF Placed
<1> QED
  BY <1>1, <1>2 DEF Num

(* A thread is alone among those counted exactly when they are one.         *)
LEMMA NumAlone ==
  ASSUME NEW S, IsFiniteSet(S), NEW f, NEW L, NEW t \in S, f[t] \in L
  PROVE  /\ Num(S, f, L) \in Nat \ {0}
         /\ Num(S, f, L) = 1 <=> \A u \in S : f[u] \in L => u = t
<1> DEFINE others == Placed(S, f, L) \ {t}
<1>1. IsFiniteSet(Placed(S, f, L)) /\ Num(S, f, L) \in Nat /\ t \in Placed(S, f, L)
  BY PlacedFinite DEF Placed
<1>2. IsFiniteSet(others) /\ Cardinality(others) = Num(S, f, L) - 1
  BY <1>1, FS_RemoveElement DEF Num
<1>3. Cardinality(others) \in Nat /\ (Cardinality(others) = 0 <=> others = {})
  BY <1>2, FS_EmptySet, FS_CardinalityType
<1>4. others = {} <=> \A u \in S : f[u] \in L => u = t
  BY <1>1 DEF Placed
<1> HIDE DEF others
<1> QED
  BY <1>1, <1>2, <1>3, <1>4

(* One thread moves to another label: every count changes by that thread.  *)
LEMMA NumMove ==
  ASSUME NEW S, IsFiniteSet(S), NEW f, NEW g, NEW L, NEW t \in S, NEW to,
         \A u \in S : g[u] = IF u = t THEN to ELSE f[u]
  PROVE  Num(S, g, L)
           = Num(S, f, L) + (IF to \in L THEN 1 ELSE 0) - (IF f[t] \in L THEN 1 ELSE 0)
<1>1. IsFiniteSet(Placed(S, f, L)) /\ Num(S, f, L) \in Nat
  BY PlacedFinite
<1>2. t \in Placed(S, f, L) <=> f[t] \in L
  BY DEF Placed
<1>3. CASE to \in L
  <2>1. Placed(S, g, L) = Placed(S, f, L) \cup {t}
    BY <1>3 DEF Placed
  <2>2. Num(S, g, L)
          = IF t \in Placed(S, f, L) THEN Num(S, f, L) ELSE Num(S, f, L) + 1
    BY <1>1, <2>1, FS_AddElement DEF Num
  <2> QED
    BY <1>1, <1>2, <1>3, <2>2
<1>4. CASE to \notin L
  <2>1. Placed(S, g, L) = Placed(S, f, L) \ {t}
    BY <1>4 DEF Placed
  <2>2. Num(S, g, L)
          = IF t \in Placed(S, f, L) THEN Num(S, f, L) - 1 ELSE Num(S, f, L)
    BY <1>1, <2>1, FS_RemoveElement DEF Num
  <2> QED
    BY <1>1, <1>2, <1>4, <2>2
<1> QED
  BY <1>3, <1>4

(* A function that is one to one gives as many values as it has arguments. *)
LEMMA OneToOne ==
  ASSUME NEW S, IsFiniteSet(S), NEW T, NEW f,
         \A x \in S : f[x] \in T,
         \A x, y \in S : f[x] = f[y] => x = y,
         \A z \in T : \E x \in S : f[x] = z
  PROVE  Cardinality(T) = Cardinality(S)
<1> DEFINE g == [x \in S |-> f[x]]
<1>1. g \in [S -> T]
  OBVIOUS
<1>2. \A x, y \in S : g[x] = g[y] => x = y
  OBVIOUS
<1>3. \A z \in T : \E x \in S : g[x] = z
  OBVIOUS
<1>4. g \in Bijection(S, T)
  BY <1>1, <1>2, <1>3, Fun_IsBij, Zenon
<1>5. ExistsBijection(S, T)
  BY <1>4, Fun_ExistsBij
<1> QED
  BY <1>5, FS_Bijection
-----------------------------------------------------------------------------
(* Sums over 1..n.  What would be shown by induction is shown by looking at *)
(* the least number for which it fails.                                    *)

(* A set of numbers that is not empty has a least element.                 *)
LEMMA LeastNumber ==
  ASSUME NEW T, T \subseteq Nat, T # {}
  PROVE  \E x \in T : \A y \in T : x <= y
<1>1. PICK x \in T : \A y \in T : <<y, x>> \notin OpToRel(<, Nat)
  BY WFMin, NatLessThanWellFounded, Zenon
<1>2. x \in Nat /\ \A y \in T : y \in Nat /\ ~(y < x)
  BY <1>1, Zenon DEF OpToRel
<1>3. \A y \in T : x <= y
  BY <1>2
<1> QED
  BY <1>3

(* Choosing a least element finds one.                                     *)
LEMMA LeastChosen ==
  ASSUME NEW T, T \subseteq Nat, T # {}
  PROVE  LET m == CHOOSE x \in T : \A y \in T : x <= y
         IN  m \in T /\ \A y \in T : m <= y
<1>1. \E x \in T : \A y \in T : x <= y
  BY LeastNumber
<1> QED
  BY <1>1, Zenon

(* A finite set of numbers that is not empty has a greatest element: the   *)
(* one with the fewest above it.                                           *)
LEMMA HasMax ==
  ASSUME NEW T, T \subseteq Nat, T # {}, IsFiniteSet(T)
  PROVE  \E m \in T : \A y \in T : m >= y
<1> DEFINE above(x) == {y \in T : y > x}
           counts == {Cardinality(above(x)) : x \in T}
<1>1. \A x \in T : IsFiniteSet(above(x)) /\ Cardinality(above(x)) \in Nat
  <2> TAKE x \in T
  <2>1. IsFiniteSet(above(x))
    BY FS_Subset
  <2> QED
    BY <2>1, FS_CardinalityType
<1>2. counts \subseteq Nat /\ counts # {}
  BY <1>1
<1>3. PICK c \in counts : \A d \in counts : c <= d
  <2> HIDE DEF counts
  <2> QED
    BY <1>2, LeastNumber
<1>4. PICK m \in T : c = Cardinality(above(m))
  BY DEF counts
<1>5. ASSUME NEW y \in T, y > m PROVE FALSE
  <2>0. y \in Nat /\ m \in Nat /\ \A z \in T : z \in Nat
    OBVIOUS
  <2> HIDE DEF counts
  <2>1. above(y) \subseteq above(m) /\ y \in above(m) /\ y \notin above(y)
    <3>1. \A z \in above(y) : z \in T /\ z > m
      BY <1>5, <2>0
    <3>2. y \in above(m) /\ y \notin above(y)
      BY <1>5, <2>0
    <3> QED
      BY <3>1, <3>2
  <2>2. Cardinality(above(m)) <= Cardinality(above(y))
    <3>1. Cardinality(above(y)) \in counts
      BY DEF counts
    <3> QED
      BY <3>1, <1>3, <1>4
  <2>3. IsFiniteSet(above(m)) /\ Cardinality(above(y)) \in Nat /\ Cardinality(above(m)) \in Nat
    BY <1>1
  <2> HIDE DEF above
  <2>4. /\ Cardinality(above(y)) <= Cardinality(above(m))
        /\ Cardinality(above(y)) = Cardinality(above(m)) => above(y) = above(m)
    BY <2>1, <2>3, FS_Subset
  <2> QED
    BY <2>1, <2>2, <2>3, <2>4
<1>6. \A y \in T : m >= y
  BY <1>5
<1> QED
  BY <1>6

(* p holds the sums of a at 1, ..., i for every i up to n.                 *)
AreSums(p, a, n) == /\ p \in [0..n -> Nat] /\ p[0] = 0
                    /\ \A i \in 1..n : p[i] = p[i - 1] + a[i]

(* There are such sums.                                                    *)
LEMMA SumsExist ==
  ASSUME NEW n \in Nat, NEW a \in [1..n -> Nat]
  PROVE  \E p : AreSums(p, a, n)
<1> DEFINE Fails == {m \in 0..n : ~\E p : AreSums(p, a, m)}
<1> SUFFICES ASSUME n \in Fails PROVE FALSE
  OBVIOUS
<1>0. Fails \subseteq Nat /\ Fails # {}
  <2>1. Fails \subseteq 0..n
    BY Zenon
  <2> HIDE DEF Fails
  <2> QED
    BY <2>1
<1>1. PICK m \in Fails : \A k \in Fails : m <= k
  <2> HIDE DEF Fails
  <2> QED
    BY <1>0, LeastNumber
<1>2. m \in 0..n /\ ~\E p : AreSums(p, a, m)
  OBVIOUS
<1>3. CASE m = 0
  <2>1. AreSums([i \in 0..0 |-> 0], a, m)
    BY <1>3 DEF AreSums
  <2> QED
    BY <1>2, <2>1
<1>4. CASE m # 0
  <2>1. m - 1 \in 0..n /\ ~(m <= m - 1)
    BY <1>2, <1>4
  <2>2. PICK p : AreSums(p, a, m - 1)
    BY <1>1, <2>1
  <2>3. AreSums([i \in 0..m |-> IF i = m THEN p[m - 1] + a[m] ELSE p[i]], a, m)
    BY <1>2, <1>4, <2>2 DEF AreSums
  <2> QED
    BY <1>2, <2>3
<1> QED
  BY <1>3, <1>4

(* SumTo computes them.                                                    *)
LEMMA SumIs ==
  ASSUME NEW n \in Nat, NEW a, NEW p, AreSums(p, a, n)
  PROVE  SumTo(a, n) = p[n]
<1> DEFINE Sum(s) == s = [i \in 0..n |-> IF i = 0 THEN 0 ELSE s[i - 1] + a[i]]
           sum == CHOOSE s : Sum(s)
<1>1. Sum(p)
  <2>1. \A i \in 0..n : p[i] = IF i = 0 THEN 0 ELSE p[i - 1] + a[i]
    BY DEF AreSums
  <2> QED
    BY <2>1 DEF AreSums
<1>2. Sum(sum)
  <2> HIDE DEF Sum
  <2> QED
    BY <1>1
<1>3. SumTo(a, n) = sum[n]
  BY DEF SumTo
<1> DEFINE Fails == {i \in 0..n : sum[i] # p[i]}
<1>4. SUFFICES ASSUME Fails # {} PROVE FALSE
  <2>1. Fails = {} => sum[n] = p[n]
    OBVIOUS
  <2> QED
    BY <1>3, <2>1, Zenon
<1>0. Fails \subseteq Nat
  <2>1. Fails \subseteq 0..n
    BY Zenon
  <2> HIDE DEF Fails
  <2> QED
    BY <2>1
<1>5. PICK m \in Fails : \A k \in Fails : m <= k
  <2> HIDE DEF Fails
  <2> QED
    BY <1>0, <1>4, LeastNumber
<1> HIDE DEF sum
<1>6. m # 0 /\ sum[m] = sum[m - 1] + a[m] /\ m \in 1..n
  BY <1>2, <1>5 DEF AreSums
<1>7. sum[m - 1] = p[m - 1]
  BY <1>5, <1>6
<1> QED
  BY <1>5, <1>6, <1>7 DEF AreSums

(* A sum of numbers is a number, and that of no number is 0.               *)
LEMMA SumType ==
  ASSUME NEW n \in Nat, NEW a \in [1..n -> Nat]
  PROVE  SumTo(a, n) \in Nat /\ (n = 0 => SumTo(a, n) = 0)
<1>1. PICK p : AreSums(p, a, n)
  BY SumsExist
<1>2. SumTo(a, n) = p[n]
  BY <1>1, SumIs
<1> QED
  BY <1>1, <1>2 DEF AreSums

(* A sum in which every number is 0 is 0.                                  *)
LEMMA SumZero ==
  ASSUME NEW n \in Nat, NEW a \in [1..n -> Nat], \A i \in 1..n : a[i] = 0
  PROVE  SumTo(a, n) = 0
<1>1. AreSums([i \in 0..n |-> 0], a, n)
  BY DEF AreSums
<1> QED
  BY <1>1, SumIs

(* The last number added to the sum of those before it.                    *)
LEMMA SumLast ==
  ASSUME NEW n \in Nat, NEW a \in [1..n -> Nat], NEW b \in [1..(n + 1) -> Nat],
         \A i \in 1..n : b[i] = a[i]
  PROVE  SumTo(b, n + 1) = SumTo(a, n) + b[n + 1]
<1>1. PICK p : AreSums(p, a, n)
  BY SumsExist
<1> DEFINE q == [i \in 0..(n + 1) |-> IF i = n + 1 THEN p[n] + b[n + 1] ELSE p[i]]
<1>2. AreSums(q, b, n + 1)
  BY <1>1 DEF AreSums
<1>3. SumTo(b, n + 1) = q[n + 1] /\ SumTo(a, n) = p[n]
  BY <1>1, <1>2, SumIs
<1> QED
  BY <1>3

(* Sums of two functions that differ at v only agree before v, and differ  *)
(* from there on by as much as the functions do at v.                      *)
LEMMA SumsDiffer ==
  ASSUME NEW n \in Nat, NEW a, NEW b, NEW v \in 1..n, NEW p, NEW q,
         AreSums(p, a, n), AreSums(q, b, n),
         \A i \in 1..n : a[i] \in Nat /\ b[i] \in Nat,
         \A i \in 1..n : i # v => b[i] = a[i]
  PROVE  q[n] + a[v] = p[n] + b[v]
<1> DEFINE Agree(i) == IF i < v THEN q[i] = p[i] ELSE q[i] + a[v] = p[i] + b[v]
           Fails == {i \in 0..n : ~Agree(i)}
<1>1. SUFFICES ASSUME Fails # {} PROVE FALSE
  <2>1. n \in 0..n /\ ~(n < v)
    OBVIOUS
  <2>2. Fails = {} => Agree(n)
    BY <2>1, Zenon
  <2> QED
    BY <2>1, <2>2, Zenon
<1>2. Fails \subseteq Nat
  OBVIOUS
<1>3. PICK m \in Fails : \A k \in Fails : m <= k
  <2> HIDE DEF Fails
  <2> QED
    BY <1>1, <1>2, LeastNumber
<1>4. m \in 0..n /\ m # 0
  BY <1>3 DEF AreSums
<1>5. m \in 1..n /\ Agree(m - 1)
  BY <1>3, <1>4
<1>6. p[m] = p[m - 1] + a[m] /\ q[m] = q[m - 1] + b[m]
  BY <1>5 DEF AreSums
<1>7. /\ p[m - 1] \in Nat /\ q[m - 1] \in Nat
      /\ a[m] \in Nat /\ b[m] \in Nat /\ a[v] \in Nat /\ b[v] \in Nat
      /\ m # v => b[m] = a[m]
  <2>1. m \in 1..n /\ v \in 1..n /\ m - 1 \in 0..n
    BY <1>5
  <2>2. p[m - 1] \in Nat /\ q[m - 1] \in Nat
    BY <2>1 DEF AreSums
  <2>3. a[m] \in Nat /\ b[m] \in Nat /\ a[v] \in Nat /\ b[v] \in Nat
    BY <2>1
  <2> QED
    BY <2>1, <2>2, <2>3
<1>8. Agree(m)
  <2>1. CASE m < v
    <3>1. m - 1 < v /\ m # v
      BY <1>5, <2>1
    <3>2. q[m - 1] = p[m - 1]
      BY <1>5, <3>1
    <3> QED
      BY <1>6, <1>7, <2>1, <3>1, <3>2
  <2>2. CASE m = v
    <3>1. q[m - 1] = p[m - 1]
      BY <1>5, <2>2
    <3> QED
      BY <1>6, <1>7, <2>2, <3>1
  <2>3. CASE m > v
    <3>1. ~(m - 1 < v) /\ ~(m < v) /\ m # v
      BY <1>5, <2>3
    <3>2. q[m - 1] + a[v] = p[m - 1] + b[v]
      BY <1>5, <3>1
    <3> QED
      BY <1>6, <1>7, <3>1, <3>2
  <2> QED
    BY <1>4, <2>1, <2>2, <2>3
<1> QED
  BY <1>3, <1>8

(* One number changes: so does the sum, by as much.                        *)
LEMMA SumChange ==
  ASSUME NEW n \in Nat, NEW a \in [1..n -> Nat], NEW b \in [1..n -> Nat],
         NEW v \in 1..n, \A i \in 1..n : i # v => b[i] = a[i]
  PROVE  SumTo(b, n) + a[v] = SumTo(a, n) + b[v]
<1>1. PICK p : AreSums(p, a, n)
  BY SumsExist
<1>2. PICK q : AreSums(q, b, n)
  BY SumsExist
<1>3. q[n] + a[v] = p[n] + b[v]
  <2>1. \A i \in 1..n : a[i] \in Nat /\ b[i] \in Nat
    OBVIOUS
  <2> QED
    BY <1>1, <1>2, <2>1, SumsDiffer, SMTT(30)
<1> QED
  BY <1>1, <1>2, <1>3, SumIs
=============================================================================
