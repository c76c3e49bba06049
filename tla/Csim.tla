--------------------------------- MODULE Csim ----------------------------------
(***************************************************************************)
(* The cache simulator cachelab-handout/csim.c.  Each line of a set keeps  *)
(* the value COUNTER had when it was last touched; of a full set the line  *)
(* with the lowest one is replaced.  COUNTER and last_touch are unsigned   *)
(* int, and a tag is what an int keeps of the address.                     *)
(***************************************************************************)
EXTENDS Naturals, FiniteSets, FiniteSetsExt

CONSTANTS s, E, b,        \* set index bits, lines of a set, block offset bits
          Addresses,      \* the addresses of the trace
          IntBits,        \* width of int
          MaxLines        \* bounds the trace

UINT_MAX == 2^IntBits - 1

(* The addresses of a set differ in the bits an int keeps, and a trace is  *)
(* over before COUNTER comes round.                                        *)
ASSUME CsimAssumption ==
  /\ s \in Nat /\ E \in Nat \ {0} /\ b \in Nat /\ IntBits \in Nat
  /\ Addresses \subseteq 0..(2^(IntBits + s + b) - 1)
  /\ MaxLines \in 0..UINT_MAX

VARIABLES sets,       \* cache->sets: the lines of each
          COUNTER,
          hits, misses, evictions,
          addr,       \* the address of the trace line read last
          running     \* parseTrace has not called error

csimvars == <<sets, COUNTER, hits, misses, evictions, addr, running>>

S == 2^s
Lines == 1..E

CsimInit ==
  /\ sets = [i \in 0..(S - 1) |->
               [j \in Lines |-> [valid |-> FALSE, tag |-> 0, last_touch |-> 0]]]
  /\ COUNTER = 0 /\ hits = 0 /\ misses = 0 /\ evictions = 0
  /\ addr = 0 /\ running = TRUE

-----------------------------------------------------------------------------
parseAddr(a) == [tag |-> (a \div 2^(b + s)) % 2^IntBits,
                 set_idx |-> (a \div 2^b) % 2^s]

Holds(line, tag) == line.valid /\ line.tag = tag

(* The line to be filled: the first that is free, or else the first with   *)
(* the lowest last_touch.  One touched at UINT_MAX is never chosen.        *)
FreeLines(set) == {j \in Lines : ~set[j].valid}
lru_line(set) == CHOOSE j \in Lines :
                   /\ \A k \in Lines : set[j].last_touch <= set[k].last_touch
                   /\ \A k \in 1..(j - 1) : set[j].last_touch < set[k].last_touch
                   /\ set[j].last_touch < UINT_MAX
Filled(set) == IF FreeLines(set) # {} THEN Min(FreeLines(set)) ELSE lru_line(set)

Touch == COUNTER' = (COUNTER + 1) % 2^IntBits

(* Seeded bug: a hit does not count as a use.                              *)
BugHit(i, j) == /\ Touch
                /\ UNCHANGED <<sets, misses, evictions>>

Hit(i, j) == /\ Touch
             /\ sets' = [sets EXCEPT ![i][j].last_touch = COUNTER']
             /\ UNCHANGED <<misses, evictions>>

Miss(i, tag) ==
  LET j == Filled(sets[i]) IN
    /\ Touch
    /\ sets' = [sets EXCEPT ![i][j] = [valid |-> TRUE, tag |-> tag, last_touch |-> COUNTER']]
    /\ misses' = misses + 1
    /\ evictions' = evictions + IF sets[i][j].valid THEN 1 ELSE 0

(* A line of the trace: touchCache once, and for M one hit more.           *)
TraceLine(op, a) ==
  LET tag == parseAddr(a).tag
      i == parseAddr(a).set_idx
      holding == {j \in Lines : Holds(sets[i][j], tag)}
      stores == IF op = "M" THEN 1 ELSE 0
  IN
    /\ running /\ COUNTER < MaxLines
    /\ addr' = a
    /\ \/ /\ holding # {}
          /\ Hit(i, Min(holding))
          /\ hits' = hits + 1 + stores
       \/ /\ holding = {}
          /\ Miss(i, tag)
          /\ hits' = hits + stores
    /\ UNCHANGED running

(* A line with size 0.                                                     *)
InvalidSize == /\ running
               /\ running' = FALSE
               /\ UNCHANGED <<sets, COUNTER, hits, misses, evictions, addr>>

CsimNext == \/ \E op \in {"L", "S", "M"}, a \in Addresses : TraceLine(op, a)
            \/ InvalidSize

CsimSpec == CsimInit /\ [][CsimNext]_csimvars
-----------------------------------------------------------------------------
(* The tags of a set, the last used first.                                 *)
ByAge(set) ==
  LET valid == Lines \ FreeLines(set)
      later(j) == {k \in valid : set[k].last_touch > set[j].last_touch}
      nth(n) == CHOOSE j \in valid : Cardinality(later(j)) = n - 1
  IN  [n \in 1..Cardinality(valid) |-> set[nth(n)].tag]

Cached == INSTANCE Lru WITH
            Sets <- 0..(S - 1), Tags <- 0..UINT_MAX,
            used <- parseAddr(addr),
            recent <- [i \in 0..(S - 1) |-> ByAge(sets[i])],
            summary <- [hits |-> hits, misses |-> misses, evictions |-> evictions]

(* With stamps of a counter and free lines anywhere in a set the simulator *)
(* does for each address what a least recently used cache does, and counts *)
(* what it does.                                                           *)
ImplementsLru == Cached!Spec
=============================================================================
