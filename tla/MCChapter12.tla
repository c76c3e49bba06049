----------------------------- MODULE MCChapter12 ------------------------------
(* The exercises of src/ch12, one behaviour each: a behaviour runs one of  *)
(* the three systems and leaves the others as they are at first.           *)
EXTENDS ReadersWriters, SelectPool, TimedRead

VARIABLE exercise

vars == <<exercise, rwvars, svars, tvars>>

Init == /\ RWInit /\ SelectInit /\ TimedInit
        /\ exercise \in {"locks", "select", "tfgets"}
        /\ exercise # "locks" => program = "p1219"
        /\ exercise # "select" => server = "p1223"
        /\ exercise # "tfgets" => version = "p1231"

Locks(step) == /\ exercise = "locks" /\ step
               /\ UNCHANGED <<exercise, svars, tvars>>
Server(step) == /\ exercise = "select" /\ step
                /\ UNCHANGED <<exercise, rwvars, tvars>>
Timed(step) == /\ exercise = "tfgets" /\ step
               /\ UNCHANGED <<exercise, rwvars, svars>>

Next == Locks(RWNext) \/ Server(SelectNext) \/ Timed(TimedNext)

(* The fairness of RWSpec, SelectSpec and TimedSpec.                       *)
Spec == /\ Init /\ [][Next]_vars
        /\ \A t \in RWThreads : WF_vars(Locks(RWStep(t)))
        /\ WF_vars(Server(ServerStep))
        /\ WF_vars(Timed(Clock)) /\ WF_vars(Timed(MainStep))
        /\ \A t \in Others : WF_vars(Timed(OtherStep(t)))

(* The liveness properties of a system, when it is the one that runs:      *)
(* somebody always gets inside the locks, and tfgets comes back.           *)
LocksLive == exercise = "locks" => SomeoneEnters
TimedLive == exercise = "tfgets" => TfgetsReturns
=============================================================================
