------------------------------- MODULE JobList ------------------------------
(***************************************************************************)
(* The job list of the shell (shlab-handout/tsh.c, "Helper routines that   *)
(* manipulate the job list"): an array of MAXJOBS slots and the next job   *)
(* ID.  A slot is free when its pid is 0.                                  *)
(***************************************************************************)
EXTENDS Integers, FiniteSets, FiniteSetsExt

CONSTANTS MAXJOBS,   \* slots of the list, 16 in the code
          MaxPids    \* bound: processes started

ASSUME JobListAssumption == MAXJOBS \in Nat \ {0} /\ MaxPids \in Nat

VARIABLES jobs, nextjid, nextpid

Slot == 1..MAXJOBS
Pids == 1..MaxPids
States == {"UNDEF", "FG", "BG", "ST"}
EmptyJob == [pid |-> 0, jid |-> 0, state |-> "UNDEF"]

-----------------------------------------------------------------------------
(* The helper routines, as operators on a job list `js'.  0 stands for a   *)
(* NULL job, and for "no slot".                                            *)

FirstOr0(S) == IF S = {} THEN 0 ELSE Min(S)

getjobpid(js, pid) == IF pid < 1 THEN 0 ELSE FirstOr0({i \in Slot : js[i].pid = pid})
getjobjid(js, jid) == IF jid < 1 THEN 0 ELSE FirstOr0({i \in Slot : js[i].jid = jid})
maxjid(js) == Max({js[i].jid : i \in Slot})

(* addjob takes the first slot whose pid is 0, and gives out nextjid.      *)
FreeSlot(js) == FirstOr0({i \in Slot : js[i].pid = 0})
filled(js, i, n, pid, st) == [js EXCEPT ![i] = [pid |-> pid, jid |-> n, state |-> st]]

jidAfterAdd(n) == IF n + 1 > MAXJOBS THEN 1 ELSE n + 1

(* Seeded bug: the state of a deleted job is left behind.                  *)
BugCleared(js, i) == [js EXCEPT ![i].pid = 0, ![i].jid = 0]

(* clearjob, and with it deletejob, which then restarts the job IDs.       *)
cleared(js, i) == [js EXCEPT ![i] = EmptyJob]

initjobs == [i \in Slot |-> EmptyJob]

-----------------------------------------------------------------------------
JobsInit == jobs = initjobs /\ nextjid = 1 /\ nextpid = 1

JobType == [pid : 0..MaxPids, jid : Nat, state : States]
=============================================================================
