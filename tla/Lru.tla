---------------------------------- MODULE Lru ----------------------------------
(***************************************************************************)
(* A cache of sets of E lines each, in which the block that has not been   *)
(* used for the longest time makes room for a new one, and the summary of  *)
(* its hits, misses and evictions.                                         *)
(***************************************************************************)
EXTENDS Naturals, SequencesExt

CONSTANTS Sets, Tags, E

VARIABLES recent,    \* the tags in each set, the last used first
          summary,
          used       \* the set and the tag of the last access

Init == /\ recent = [s \in Sets |-> <<>>]
        /\ summary = [hits |-> 0, misses |-> 0, evictions |-> 0]
        /\ used \in [set_idx : Sets, tag : Tags]

Present(s, t) == \E k \in DOMAIN recent[s] : recent[s][k] = t

Hit(s, t) == \E k \in DOMAIN recent[s] :
               /\ recent[s][k] = t
               /\ recent' = [recent EXCEPT ![s] = <<t>> \o RemoveAt(@, k)]

Miss(s, t) == /\ ~Present(s, t)
              /\ recent' = [recent EXCEPT ![s] =
                              <<t>> \o IF Len(@) = E THEN SubSeq(@, 1, E - 1) ELSE @]

(* A load, a store, or a modification, which is a load and then a store    *)
(* that cannot miss.                                                       *)
Access(s, t, stores) ==
  /\ used' = [set_idx |-> s, tag |-> t]
  /\ \/ /\ Hit(s, t)
        /\ summary' = [summary EXCEPT !.hits = @ + 1 + stores]
     \/ /\ Miss(s, t)
        /\ summary' = [summary EXCEPT !.misses = @ + 1, !.hits = @ + stores,
                          !.evictions = @ + IF Len(recent[s]) = E THEN 1 ELSE 0]

Next == \E s \in Sets, t \in Tags, stores \in {0, 1} : Access(s, t, stores)

Spec == Init /\ [][Next]_<<recent, summary, used>>
=============================================================================
