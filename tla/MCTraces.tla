------------------------------- MODULE MCTraces -------------------------------
(* The two programs that are driven by traces, the allocator and the cache *)
(* simulator: a behaviour runs one of them.                                *)
EXTENDS Mm, Csim

VARIABLE program

vars == <<program, mmvars, csimvars>>

Init == MmInit /\ CsimInit /\ program \in {"mm", "csim"}

Malloc == program = "mm" /\ MmNext /\ UNCHANGED <<program, csimvars>>
Simulator == program = "csim" /\ CsimNext /\ UNCHANGED <<program, mmvars>>

Next == Malloc \/ Simulator
Spec == Init /\ [][Next]_vars
=============================================================================
