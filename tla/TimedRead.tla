------------------------------ MODULE TimedRead ------------------------------
(***************************************************************************)
(* tfgets of src/ch12, fgets that gives up after five seconds, three ways: *)
(* p1231.c jumps out of a signal handler when a forked child sends         *)
(* SIGABRT, p1232.c asks select first, p1233.c has one thread read and one *)
(* sleep, and the first to finish cancels the other.                       *)
(***************************************************************************)
EXTENDS Naturals

VARIABLES
  version,    \* the program
  at,         \* where main, the reader (p1233.c) and the sleeper are
  input,      \* what the user has typed: nothing, part of a line, a line, EOF
  late,       \* five seconds have passed since the sleeper or select started
  sigabrt,    \* SIGABRT is pending
  mutex, finished, cancelled,   \* p1233.c
  res         \* what fgets, or the reader when it is joined, has returned

tvars == <<version, at, input, late, sigabrt, mutex, finished, cancelled, res>>

Others == {"reader", "sleeper"}

TimedInit ==
  /\ version \in {"p1231", "p1232", "p1233"}
  /\ at = [t \in Others \cup {"main"} |-> IF t = "main" THEN "call" ELSE "none"]
  /\ input = "nothing" /\ late = FALSE /\ sigabrt = FALSE
  /\ mutex = 1 /\ finished = FALSE /\ cancelled = {}
  /\ res = "none"

Is(v, t, label) == version = v /\ at[t] = label
Go(t, label) == at' = [at EXCEPT ![t] = label]
GoTwo(t, label, u, ulabel) == at' = [at EXCEPT ![t] = label, ![u] = ulabel]

(* The user types; a pipe shows part of a line before the rest of it.      *)
Type == /\ \/ input = "nothing" /\ input' \in {"part", "line", "eof"}
           \/ input = "part" /\ input' \in {"line", "eof"}
        /\ at["main"] \notin {"returned", "undefined"}
        /\ UNCHANGED <<version, at, late, sigabrt, mutex, finished, cancelled, res>>

Timing == \/ version = "p1232" /\ at["main"] = "select"
          \/ at["sleeper"] = "sleep"

Clock == /\ Timing /\ ~late
         /\ late' = TRUE
         /\ UNCHANGED <<version, at, input, sigabrt, mutex, finished, cancelled, res>>

(* What fgets returns once it can: the line, or NULL at end of file.       *)
Fgets == CASE input = "line" -> "line" [] input = "eof" -> "null"
CanFgets == input \in {"line", "eof"}

-----------------------------------------------------------------------------
(* p1231.c: fork, fgets; the handler jumps back into tfgets, which must    *)
(* not have returned.                                                      *)
Fork == /\ Is("p1231", "main", "call")
        /\ GoTwo("main", "fgets", "sleeper", "sleep")
        /\ UNCHANGED <<version, input, late, sigabrt, mutex, finished, cancelled, res>>

ChildKills == /\ Is("p1231", "sleeper", "sleep") /\ late
              /\ sigabrt' = TRUE
              /\ Go("sleeper", "done")
              /\ UNCHANGED <<version, input, late, mutex, finished, cancelled, res>>

Handler == /\ sigabrt /\ at["main"] \in {"fgets", "return", "print"}
           /\ sigabrt' = FALSE
           /\ IF at["main"] = "print"
              THEN Go("main", "undefined") /\ UNCHANGED res
              ELSE Go("main", "return") /\ res' = "null"
           /\ UNCHANGED <<version, input, late, mutex, finished, cancelled>>

-----------------------------------------------------------------------------
(* p1232.c: select sees any input at all, fgets waits for a line.          *)
CallSelect == /\ Is("p1232", "main", "call")
              /\ Go("main", "select")
              /\ UNCHANGED <<version, input, late, sigabrt, mutex, finished, cancelled, res>>

(* Seeded bug: the two answers of select are taken for one another.        *)
BugSelect == /\ Is("p1232", "main", "select")
             /\ \/ /\ late /\ Go("main", "fgets") /\ UNCHANGED res
                \/ /\ input # "nothing" /\ Go("main", "return") /\ res' = "null"
             /\ UNCHANGED <<version, input, late, sigabrt, mutex, finished, cancelled>>

Select == /\ Is("p1232", "main", "select")
          /\ \/ /\ input # "nothing"
                /\ Go("main", "fgets")
                /\ UNCHANGED res
             \/ /\ late /\ input = "nothing"
                /\ Go("main", "return")
                /\ res' = "null"
          /\ UNCHANGED <<version, input, late, sigabrt, mutex, finished, cancelled>>

(* fgets in the main thread of p1231.c and p1232.c; then tfgets returns,   *)
(* main prints and exits.                                                  *)
MainFgets == /\ at["main"] = "fgets" /\ CanFgets
             /\ res' = Fgets
             /\ Go("main", "return")
             /\ UNCHANGED <<version, input, late, sigabrt, mutex, finished, cancelled>>

MainReturn == /\ at["main"] \in {"return", "print"}
              /\ Go("main", IF at["main"] = "return" THEN "print" ELSE "returned")
              /\ UNCHANGED <<version, input, late, sigabrt, mutex, finished, cancelled, res>>

-----------------------------------------------------------------------------
(* p1233.c.  The mutex is held while the reader is created.                *)
CreateSleeper == /\ Is("p1233", "main", "call")
                 /\ GoTwo("main", "P", "sleeper", "sleep")
                 /\ UNCHANGED <<version, input, late, sigabrt, mutex, finished, cancelled, res>>

Wake == /\ Is("p1233", "sleeper", "sleep") /\ late
        /\ Go("sleeper", "P")
        /\ UNCHANGED <<version, input, late, sigabrt, mutex, finished, cancelled, res>>

ReaderFgets == /\ at["reader"] = "fgets" /\ CanFgets
               /\ res' = Fgets
               /\ Go("reader", "P")
               /\ UNCHANGED <<version, input, late, sigabrt, mutex, finished, cancelled>>

LockMutex(t) == /\ Is("p1233", t, "P") /\ mutex = 1
           /\ mutex' = 0
           /\ Go(t, IF t = "main" THEN "create" ELSE "test")
           /\ UNCHANGED <<version, input, late, sigabrt, finished, cancelled, res>>

UnlockMutex(t) == /\ Is("p1233", t, "V")
             /\ mutex' = 1
             /\ Go(t, IF t = "main" THEN "join" ELSE "done")
             /\ UNCHANGED <<version, input, late, sigabrt, finished, cancelled, res>>

CreateReader == /\ Is("p1233", "main", "create")
                /\ GoTwo("main", "V", "reader", "fgets")
                /\ UNCHANGED <<version, input, late, sigabrt, mutex, finished, cancelled, res>>

OtherOf(t) == IF t = "reader" THEN "sleeper" ELSE "reader"

(* Seeded bug: finished is not set.                                        *)
BugTest(t) ==
  /\ at[t] = "test"
  /\ IF ~finished
     THEN /\ cancelled' = cancelled \cup {OtherOf(t)}
          /\ IF at[OtherOf(t)] = "none" THEN Go("main", "undefined") ELSE Go(t, "V")
     ELSE /\ Go(t, "V")
          /\ UNCHANGED cancelled
  /\ UNCHANGED <<version, input, late, sigabrt, mutex, finished, res>>

(* The first to come cancels the other.  A sleeper that wakes up before    *)
(* main has created the reader calls pthread_cancel with no thread at all. *)
Test(t) ==
  /\ at[t] = "test"
  /\ IF ~finished
     THEN /\ finished' = TRUE
          /\ cancelled' = cancelled \cup {OtherOf(t)}
          /\ IF at[OtherOf(t)] = "none" THEN Go("main", "undefined") ELSE Go(t, "V")
     ELSE /\ Go(t, "V")
          /\ UNCHANGED <<finished, cancelled>>
  /\ UNCHANGED <<version, input, late, sigabrt, mutex, res>>

(* A cancelled thread ends where it waits: fgets, sleep and sem_wait.      *)
Points == {"fgets", "sleep", "P"}

EndCancelled(t) == /\ t \in cancelled /\ at[t] \in Points
                   /\ Go(t, "done")
                   /\ res' = IF t = "reader" THEN "null" ELSE res
                   /\ UNCHANGED <<version, input, late, sigabrt, mutex, finished, cancelled>>

Join == /\ Is("p1233", "main", "join")
        /\ \A t \in Others : at[t] = "done"
        /\ Go("main", "return")
        /\ UNCHANGED <<version, input, late, sigabrt, mutex, finished, cancelled, res>>

-----------------------------------------------------------------------------
Stopped == at["main"] \in {"returned", "undefined"}

MainStep == /\ ~Stopped
            /\ \/ Fork \/ Handler \/ CallSelect \/ Select \/ MainFgets \/ MainReturn
               \/ CreateSleeper \/ CreateReader \/ LockMutex("main") \/ UnlockMutex("main") \/ Join

OtherStep(t) == /\ ~Stopped
                /\ \/ t = "sleeper" /\ (ChildKills \/ Wake)
                   \/ t = "reader" /\ ReaderFgets
                   \/ LockMutex(t) \/ UnlockMutex(t) \/ Test(t) \/ EndCancelled(t)

TimedNext == Type \/ Clock \/ MainStep \/ \E t \in Others : OtherStep(t)

(* Time passes and everybody runs; the user need not type.                 *)
TimedSpec == /\ TimedInit /\ [][TimedNext]_tvars
             /\ WF_tvars(Clock) /\ WF_tvars(MainStep)
             /\ \A t \in Others : WF_tvars(OtherStep(t))
-----------------------------------------------------------------------------
(* tfgets returns NULL only for a reason: end of file, or the five seconds *)
(* have passed (then p1231.c and p1233.c may have taken a line already).   *)
NullForAReason == at["main"] = "returned" /\ res = "null" => input = "eof" \/ late

(* p1233.c: whoever comes first, only one of the two threads cancels the   *)
(* other.                                                                  *)
OneCancels == cancelled # Others

(* p1233.c: a thread that is cancelled never takes the mutex with it: both *)
(* have ended and the mutex is free when tfgets returns.                   *)
MutexFree == version = "p1233" /\ at["main"] = "returned" =>
               mutex = 1 /\ \A t \in Others : at[t] = "done"

(* Whoever wins the race, tfgets ends with one winner and a true answer.   *)
TimedSafe == NullForAReason /\ OneCancels /\ MutexFree

(* tfgets comes back whether or not the user types; p1232.c does not when  *)
(* part of a line is typed and no more, and two programs may crash: p1231.c *)
(* when SIGABRT arrives after tfgets has returned, p1233.c when the        *)
(* sleeper wakes up before there is a reader.                              *)
TfgetsReturns ==
  <>(Stopped \/ (version = "p1232" /\ input = "part"))
=============================================================================
