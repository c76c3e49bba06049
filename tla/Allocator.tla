------------------------------ MODULE Allocator -------------------------------
(***************************************************************************)
(* What malloc, free and realloc promise a program: blocks in use are      *)
(* aligned, do not overlap and keep what was written into them; realloc    *)
(* moves what fits of the contents along.  Addresses are words.            *)
(***************************************************************************)
EXTENDS Integers, Sequences

CONSTANTS Indices,        \* the program's pointers
          Fill(_, _)      \* what it writes into a block: Fill(index, word)

VARIABLE blocks           \* where each pointer's block is, and its contents

NoBlock == [ptr |-> 0, data |-> <<>>]
Used(b) == b # NoBlock
Words(b) == b.ptr..(b.ptr + Len(b.data) - 1)

Init == blocks = [i \in Indices |-> NoBlock]

(* The block of i is new, or is one that has been moved or resized.        *)
Granted(i) == /\ Used(blocks'[i])
              /\ blocks'[i].ptr > 0 /\ blocks'[i].ptr % 2 = 0
              /\ \A j \in Indices \ {i} :
                   /\ blocks'[j] = blocks[j]
                   /\ Used(blocks[j]) => Words(blocks[j]) \cap Words(blocks'[i]) = {}

Written(i, from, d) == \A k \in from..Len(d) : d[k] = Fill(i, k)

Malloc(i) == /\ ~Used(blocks[i])
             /\ Granted(i)
             /\ Written(i, 1, blocks'[i].data)

Realloc(i) ==
  /\ Used(blocks[i])
  /\ Granted(i)
  /\ LET old == blocks[i].data
         new == blocks'[i].data
     IN  /\ \A k \in DOMAIN old \cap DOMAIN new : new[k] = old[k]
         /\ Written(i, Len(old) + 1, new)

Free(i) == /\ Used(blocks[i])
           /\ blocks' = [blocks EXCEPT ![i] = NoBlock]

Next == \E i \in Indices : Malloc(i) \/ Realloc(i) \/ Free(i)

Spec == Init /\ [][Next]_blocks
=============================================================================
