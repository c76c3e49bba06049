---------------------------- MODULE BoundedFifo ----------------------------
(***************************************************************************)
(* What the connection buffer of the proxy (sbuf.h) promises its callers:  *)
(* a first-in first-out queue of at most N items.  Putting an item and     *)
(* taking the oldest one are single steps; nothing is lost, duplicated,    *)
(* reordered or overwritten.  `got[c]' is the item the last sbuf_remove of *)
(* consumer c returned.                                                    *)
(***************************************************************************)
EXTENDS Naturals, Sequences

CONSTANTS N,           \* the capacity given to sbuf_init
          Items,       \* what callers put in: open connection descriptors
          Consumers,   \* the callers of sbuf_remove
          NoItem       \* the zero that calloc leaves in an unused slot

VARIABLES queue, got

vars == <<queue, got>>

Init == /\ queue = <<>>
        /\ got = [c \in Consumers |-> NoItem]

Put(x) == /\ Len(queue) < N
          /\ queue' = Append(queue, x)
          /\ UNCHANGED got

Take(c) == /\ queue # <<>>
           /\ got' = [got EXCEPT ![c] = Head(queue)]
           /\ queue' = Tail(queue)

Next == \/ \E x \in Items : Put(x)
        \/ \E c \in Consumers : Take(c)

Spec == Init /\ [][Next]_vars
=============================================================================
