---------------------------------- MODULE Isa ---------------------------------
(* A program as the instruction set defines it: one instruction per step,  *)
(* until one returns another status than AOK.                              *)
EXTENDS Y86

VARIABLE state

Init == state.pc = 0 /\ state.cc = DEFAULT_CC /\ state.stat = "AOK"
Next == state.stat = "AOK" /\ state' = step_state(state)
Spec == Init /\ [][Next]_state
=============================================================================
