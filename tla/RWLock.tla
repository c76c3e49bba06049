------------------------------- MODULE RWLock --------------------------------
(***************************************************************************)
(* What a readers-writers lock promises: any number of threads may read at *)
(* the same time, a thread that writes is alone.  The lock of the proxy's  *)
(* cache and the three of chapter 12 (p1219.c, p1220.c, p1221.c) implement *)
(* it; they differ in whom they let wait.                                  *)
(***************************************************************************)
CONSTANTS Readers, Writers

VARIABLES reading, writing   \* the threads inside

Init == reading = {} /\ writing = {}

StartRead(t) == /\ t \notin reading
                /\ writing = {}
                /\ reading' = reading \cup {t}
                /\ UNCHANGED writing

EndRead(t) == /\ t \in reading
              /\ reading' = reading \ {t}
              /\ UNCHANGED writing

StartWrite(t) == /\ reading = {} /\ writing = {}
                 /\ writing' = {t}
                 /\ UNCHANGED reading

EndWrite(t) == /\ t \in writing
               /\ writing' = writing \ {t}
               /\ UNCHANGED reading

Next == \/ \E t \in Readers : StartRead(t) \/ EndRead(t)
        \/ \E t \in Writers : StartWrite(t) \/ EndWrite(t)

Spec == Init /\ [][Next]_<<reading, writing>>
=============================================================================
