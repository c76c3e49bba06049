-------------------------------- MODULE Tsh ---------------------------------
(***************************************************************************)
(* The shell of shlab-handout/tsh.c: the read/eval loop of main and its    *)
(* three signal handlers, which interrupt it, and one another, between any *)
(* two steps that the signal mask allows; and, as far as the shell can see *)
(* them, the kernel and the shell's children.                              *)
(*                                                                         *)
(* main      where the read/eval loop is, with eval's and do_bgfg's locals *)
(* stack     the handlers that are running, the innermost one last         *)
(* mask      the signals that are blocked; pend the ones that are pending: *)
(*           signals do not queue, two of a kind are one                   *)
(* kern, led, stopped   the children: alive or not; in a process group of  *)
(* their own (setpgid done) or not; a stop not yet reported to the shell   *)
(***************************************************************************)
EXTENDS JobList, Sequences, SequencesExt

(* What a user may type: kinds of commands, and the bounds on programs run *)
(* and on ctrl-c and ctrl-z.                                               *)
CONSTANT Users

Commands == {"run", "bypid", "byjid", "quit"}
User == [commands : SUBSET Commands, programs : 0..MaxPids, keys : Nat]

ASSUME TshAssumption == Users \subseteq User

VARIABLES kern, led, stopped, pend, mask, stack, main,
          up,          \* FALSE when the shell has exited, whatever the reason
          hits,        \* the process IDs a handler has just sent its signal to
          user         \* what the user may still type, an element of Users at first

list == <<jobs, nextjid>>
kernel == <<kern, led, stopped, nextpid>>
signals == <<pend, mask>>
vars == <<jobs, nextjid, nextpid, kern, led, stopped, pend, mask, stack, main,
          up, hits, user>>

Sigs == {"CHLD", "INT", "TSTP"}
NoCmd == [cmd |-> "none", at |-> "prompt", slot |-> 0, pid |-> 0, prev |-> {}]

Init == /\ JobsInit
        /\ kern = [p \in Pids |-> "free"]
        /\ led = [p \in Pids |-> FALSE]
        /\ stopped = [p \in Pids |-> FALSE]
        /\ pend = {} /\ mask = {} /\ stack = <<>>
        /\ main = NoCmd
        /\ up = TRUE /\ hits = {}
        /\ user \in Users

-----------------------------------------------------------------------------
(* The kernel and the children.  A child's state changes raise SIGCHLD.    *)

Alive(p) == kern[p] \in {"run", "stopped"}

(* The child's setpgid(0, 0) between fork and execve.                      *)
ChildSetpgid(p) == /\ kern[p] = "run" /\ ~led[p]
                   /\ led' = [led EXCEPT ![p] = TRUE]
                   /\ UNCHANGED <<list, signals, kern, stopped, nextpid,
                                  stack, main, up, hits, user>>

(* A child exits, or is killed by a signal.                                *)
ChildEnds(p) == /\ kern[p] = "run" /\ led[p]
                /\ kern' = [kern EXCEPT ![p] = "zombie"]
                /\ pend' = pend \cup {"CHLD"}
                /\ UNCHANGED <<list, led, stopped, nextpid, mask, stack, main,
                               up, hits, user>>

(* A child stops itself, or is stopped by another process (mystop.c).      *)
ChildStops(p) == /\ kern[p] = "run" /\ led[p]
                 /\ kern' = [kern EXCEPT ![p] = "stopped"]
                 /\ stopped' = [stopped EXCEPT ![p] = TRUE]
                 /\ pend' = pend \cup {"CHLD"}
                 /\ UNCHANGED <<list, led, nextpid, mask, stack, main,
                                up, hits, user>>

(* The user types ctrl-c or ctrl-z; the terminal sends it to the shell.    *)
TypeKey(s) == /\ up /\ user.keys > 0
              /\ user' = [user EXCEPT !.keys = @ - 1]
              /\ pend' = pend \cup {s}
              /\ UNCHANGED <<list, kernel, mask, stack, main, up, hits>>

Kernel == \/ \E p \in Pids : ChildSetpgid(p) \/ ChildEnds(p) \/ ChildStops(p)
          \/ \E s \in {"INT", "TSTP"} : TypeKey(s)

(* kill(pid, SIGCONT) reaches the process of that ID alone.  A stop that   *)
(* was not reported yet is not reported any more.  For pid = 0 it reaches  *)
(* the shell's own group, where nothing is stopped.                        *)
KillCont(pid) ==
  LET resumes == pid # 0 /\ kern[pid] = "stopped"
  IN  /\ kern' = IF resumes THEN [kern EXCEPT ![pid] = "run"] ELSE kern
      /\ stopped' = IF resumes THEN [stopped EXCEPT ![pid] = FALSE] ELSE stopped
      /\ pend' = IF resumes THEN pend \cup {"CHLD"} ELSE pend
      /\ UNCHANGED <<led, nextpid>>

(* kill(-pid, s) for every pid of S reaches the processes in those groups. *)
(* SIGTSTP stops them.  SIGINT ends them, but a stopped process only when  *)
(* it is resumed; a child may also catch either signal.                    *)
KillGroups(S, s) ==
  \E C \in SUBSET {p \in S \ {0} : kern[p] = "run" /\ led[p]} :
    LET chld == IF C = {} THEN {} ELSE {"CHLD"}
        self == IF 0 \in S THEN {s} ELSE {}
    IN  /\ kern' = [p \in Pids |-> IF p \in C
                                   THEN IF s = "INT" THEN "zombie" ELSE "stopped"
                                   ELSE kern[p]]
        /\ stopped' = [p \in Pids |-> stopped[p] \/ (p \in C /\ s = "TSTP")]
        /\ pend' = pend \cup chld \cup self
        /\ UNCHANGED <<led, nextpid>>

-----------------------------------------------------------------------------
(* Signal delivery: the handler starts on top of whatever was running, with *)
(* its own signal blocked (Signal sets an empty sa_mask), and the mask of   *)
(* before comes back when it returns.                                       *)

Deliver(s) == /\ up /\ s \in pend \ mask
              /\ pend' = pend \ {s}
              /\ stack' = Append(stack, [sig |-> s, at |-> "start", saved |-> mask,
                                         prev |-> {}, slot |-> 0, pid |-> 0])
              /\ mask' = mask \cup {s}
              /\ UNCHANGED <<list, kernel, main, up, hits, user>>

top == stack[Len(stack)]
Running(s, at) == up /\ stack # <<>> /\ top.sig \in s /\ top.at = at
SetTop(f) == stack' = [stack EXCEPT ![Len(stack)] = f]

Return == /\ Running(Sigs, "return")
          /\ mask' = top.saved
          /\ stack' = Front(stack)
          /\ UNCHANGED <<list, kernel, pend, main, up, hits, user>>

-----------------------------------------------------------------------------
(* sigchld_handler *)

(* waitpid(-1, WNOHANG | WUNTRACED), called once: a child that has ended   *)
(* or stopped, whichever the kernel finds, or none.                        *)
Waitable == {p \in Pids : kern[p] = "zombie" \/ (kern[p] = "stopped" /\ stopped[p])}

ChldWait ==
  /\ Running({"CHLD"}, "start")
  /\ IF Waitable = {} THEN SetTop([top EXCEPT !.at = "return"]) /\ UNCHANGED kernel
     ELSE \E p \in Waitable :
            /\ SetTop([top EXCEPT !.at = IF kern[p] = "zombie" THEN "ended" ELSE "stopped",
                                  !.pid = p])
            /\ kern' = [kern EXCEPT ![p] = IF @ = "zombie" THEN "gone" ELSE @]
            /\ stopped' = [stopped EXCEPT ![p] = FALSE]
            /\ UNCHANGED <<led, nextpid>>
  /\ UNCHANGED <<list, signals, main, up, hits, user>>

(* Seeded bug: the job of a stopped child is deleted too.                  *)
BugChldUpdate ==
  LET i == getjobpid(jobs, top.pid)
  IN  /\ Running({"CHLD"}, "ended") \/ Running({"CHLD"}, "stopped")
      /\ IF i = 0 THEN up' = FALSE /\ UNCHANGED <<jobs, stack>>
         ELSE /\ jobs' = [jobs EXCEPT ![i].pid = 0]
              /\ SetTop([top EXCEPT !.at = "clear", !.slot = i])
              /\ UNCHANGED up
      /\ UNCHANGED <<nextjid, kernel, signals, main, hits, user>>

(* The shell exits when it has no job for the child.  A stopped job is     *)
(* marked so.  The job of a child that has ended is deleted, in two steps  *)
(* because handlers can interrupt it: clearjob sets pid first, state after *)
ChldUpdate ==
  LET i == getjobpid(jobs, top.pid)
  IN  /\ Running({"CHLD"}, "ended") \/ Running({"CHLD"}, "stopped")
      /\ IF i = 0 THEN up' = FALSE /\ UNCHANGED <<jobs, stack>>
         ELSE /\ IF top.at = "stopped"
                 THEN /\ jobs' = [jobs EXCEPT ![i].state = "ST"]
                      /\ SetTop([top EXCEPT !.at = "return"])
                 ELSE /\ jobs' = [jobs EXCEPT ![i].pid = 0]
                      /\ SetTop([top EXCEPT !.at = "clear", !.slot = i])
              /\ UNCHANGED up
      /\ UNCHANGED <<nextjid, kernel, signals, main, hits, user>>

ChldClearRest == /\ Running({"CHLD"}, "clear")
                 /\ jobs' = cleared(jobs, top.slot)
                 /\ nextjid' = maxjid(jobs') + 1
                 /\ SetTop([top EXCEPT !.at = "return"])
                 /\ UNCHANGED <<kernel, signals, main, up, hits, user>>

-----------------------------------------------------------------------------
(* sigint_handler and sigtstp_handler *)

Fwd == {"INT", "TSTP"}

FwdBlock == /\ Running(Fwd, "start")
            /\ SetTop([top EXCEPT !.at = "kill", !.prev = mask])
            /\ mask' = mask \cup {"CHLD"}
            /\ UNCHANGED <<list, kernel, pend, main, up, hits, user>>

FwdKill == /\ Running(Fwd, "kill")
           /\ hits' = {jobs[i].pid : i \in {k \in Slot : jobs[k].state = "FG"}}
           /\ KillGroups(hits', top.sig)
           /\ SetTop([top EXCEPT !.at = "release"])
           /\ UNCHANGED <<list, mask, main, up, user>>

FwdRelease == /\ Running(Fwd, "release")
              /\ SetTop([top EXCEPT !.at = "return"])
              /\ mask' = top.prev
              /\ hits' = {}
              /\ UNCHANGED <<list, kernel, pend, main, up, user>>

Handlers == \/ \E s \in Sigs : Deliver(s)
            \/ Return
            \/ ChldWait \/ ChldUpdate \/ ChldClearRest
            \/ FwdBlock \/ FwdKill \/ FwdRelease

-----------------------------------------------------------------------------
(* main: reading a command line, eval and do_bgfg.  It runs only while no  *)
(* handler does.                                                           *)

At(l) == up /\ stack = <<>> /\ main.at = l
MainTo(l) == main' = [main EXCEPT !.at = l]

(* Seeded bug: eval and do_bgfg do not wait for a foreground job.          *)
BugWaitOrPrompt == main' = NoCmd

WaitOrPrompt == main' = IF main.cmd = "FG" THEN [main EXCEPT !.at = "waitfg"] ELSE NoCmd

(* Seeded bug: SIGCHLD is not blocked around fork and addjob.              *)
BugRunBlock(cmd) == /\ At("prompt") /\ "run" \in user.commands /\ user.programs > 0
                    /\ main' = [NoCmd EXCEPT !.cmd = cmd, !.at = "fork", !.prev = mask]
                    /\ user' = [user EXCEPT !.programs = @ - 1]
                    /\ UNCHANGED <<list, kernel, signals, stack, up, hits>>

(* eval of a program name: SIGCHLD stays blocked from before the fork      *)
(* until the job is on the list.                                           *)
RunBlock(cmd) == /\ At("prompt") /\ "run" \in user.commands /\ user.programs > 0
                 /\ main' = [NoCmd EXCEPT !.cmd = cmd, !.at = "fork", !.prev = mask]
                 /\ mask' = mask \cup {"CHLD"}
                 /\ user' = [user EXCEPT !.programs = @ - 1]
                 /\ UNCHANGED <<list, kernel, pend, stack, up, hits>>

RunFork == /\ At("fork")
           /\ kern' = [kern EXCEPT ![nextpid] = "run"]
           /\ nextpid' = nextpid + 1
           /\ main' = [main EXCEPT !.at = "add", !.pid = nextpid]
           /\ UNCHANGED <<list, led, stopped, signals, stack, up, hits, user>>

(* addjob, in two steps because handlers can interrupt it: pid is set      *)
(* first, state after it.  The shell exits when the list is full.          *)
RunAdd == /\ At("add")
          /\ IF FreeSlot(jobs) = 0
             THEN up' = FALSE /\ UNCHANGED <<jobs, main>>
             ELSE /\ jobs' = [jobs EXCEPT ![FreeSlot(jobs)].pid = main.pid]
                  /\ main' = [main EXCEPT !.at = "fill", !.slot = FreeSlot(jobs)]
                  /\ UNCHANGED up
          /\ UNCHANGED <<nextjid, kernel, signals, stack, hits, user>>

RunFill == /\ At("fill")
           /\ jobs' = filled(jobs, main.slot, nextjid, main.pid, main.cmd)
           /\ nextjid' = jidAfterAdd(nextjid)
           /\ MainTo("runrelease")
           /\ UNCHANGED <<kernel, signals, stack, up, hits, user>>

(* Seeded bug: the previous mask is not restored after addjob.             *)
BugRunRelease == /\ At("runrelease")
                 /\ WaitOrPrompt
                 /\ UNCHANGED <<list, kernel, signals, stack, up, hits, user>>

RunRelease == /\ At("runrelease")
              /\ mask' = main.prev
              /\ WaitOrPrompt
              /\ UNCHANGED <<list, kernel, pend, stack, up, hits, user>>

(* do_bgfg finds its job by process ID or by %job ID; in the second case   *)
(* the variable pid keeps the 0 that strtol returned for "%...".           *)
FindJob(cmd, i, pid) == /\ At("prompt")
                        /\ main' = [NoCmd EXCEPT !.cmd = cmd, !.at = "jobblock",
                                                 !.slot = i, !.pid = pid]
                        /\ UNCHANGED <<list, kernel, signals, stack, up, hits, user>>

JobByPid(cmd) == \E p \in Pids : /\ getjobpid(jobs, p) # 0
                                 /\ FindJob(cmd, getjobpid(jobs, p), p)

JobByJid(cmd) == \E j \in {jobs[i].jid : i \in Slot} :
                   /\ getjobjid(jobs, j) # 0
                   /\ FindJob(cmd, getjobjid(jobs, j), 0)

JobBlock == /\ At("jobblock")
            /\ main' = [main EXCEPT !.at = "cont", !.prev = mask]
            /\ mask' = mask \cup {"CHLD"}
            /\ UNCHANGED <<list, kernel, pend, stack, up, hits, user>>

JobCont == /\ At("cont")
           /\ KillCont(jobs[main.slot].pid)
           /\ MainTo("jobrelease")
           /\ UNCHANGED <<list, mask, stack, up, hits, user>>

JobRelease == /\ At("jobrelease")
              /\ mask' = main.prev
              /\ MainTo("setstate")
              /\ UNCHANGED <<list, kernel, pend, stack, up, hits, user>>

(* The slot may have been cleared meanwhile: the pointer is used anyway.   *)
JobSetState == /\ At("setstate")
               /\ jobs' = [jobs EXCEPT ![main.slot].state = main.cmd]
               /\ WaitOrPrompt
               /\ UNCHANGED <<nextjid, kernel, signals, stack, up, hits, user>>

(* waitfg: look the job up once, then sleep and poll its state.            *)
WaitStart == /\ At("waitfg")
             /\ main' = IF getjobpid(jobs, main.pid) = 0 THEN NoCmd
                        ELSE [main EXCEPT !.at = "poll", !.slot = getjobpid(jobs, main.pid)]
             /\ UNCHANGED <<list, kernel, signals, stack, up, hits, user>>

WaitDone == /\ At("poll")
            /\ jobs[main.slot].state # "FG"
            /\ main' = NoCmd
            /\ UNCHANGED <<list, kernel, signals, stack, up, hits, user>>

Quit == /\ At("prompt") /\ "quit" \in user.commands
        /\ up' = FALSE
        /\ UNCHANGED <<list, kernel, signals, stack, main, hits, user>>

Types == \/ \E cmd \in {"FG", "BG"} :
              \/ RunBlock(cmd)
              \/ "bypid" \in user.commands /\ JobByPid(cmd)
              \/ "byjid" \in user.commands /\ JobByJid(cmd)
         \/ Quit

Main == \/ RunFork \/ RunAdd \/ RunFill \/ RunRelease
        \/ JobBlock \/ JobCont \/ JobRelease \/ JobSetState
        \/ WaitStart \/ WaitDone

Next == Kernel \/ Handlers \/ Types \/ Main

Spec == Init /\ [][Next]_vars

(* The kernel runs the shell whenever it can run.  SIGCHLD is delivered    *)
(* with strong fairness: a pending signal is delivered before the          *)
(* sigprocmask that unblocks it returns, however often it is blocked again.*)
(* Nothing else has to happen: children may run for ever, and the user may *)
(* type nothing.                                                           *)
FairSpec == Spec /\ WF_vars(Handlers) /\ WF_vars(Main) /\ SF_vars(Deliver("CHLD"))
-----------------------------------------------------------------------------
MainLabels == {"prompt", "fork", "add", "fill", "runrelease", "jobblock", "cont", "jobrelease",
               "setstate", "waitfg", "poll"}
FrameLabels == {"start", "return", "ended", "stopped", "clear", "kill", "release"}

Frame == [sig : Sigs, at : FrameLabels, saved : SUBSET Sigs, prev : SUBSET Sigs,
          slot : 0..MAXJOBS, pid : 0..MaxPids]
Locals == [cmd : {"none", "FG", "BG"}, at : MainLabels, slot : 0..MAXJOBS,
           pid : 0..MaxPids, prev : SUBSET Sigs]

TypeOK ==
  /\ jobs \in [Slot -> JobType]
  /\ nextjid \in Nat \ {0} /\ nextpid \in 1..MaxPids + 1
  /\ kern \in [Pids -> {"free", "run", "stopped", "zombie", "gone"}]
  /\ led \in [Pids -> BOOLEAN] /\ stopped \in [Pids -> BOOLEAN]
  /\ pend \subseteq Sigs /\ mask \subseteq Sigs
  /\ stack \in Seq(Frame) /\ main \in Locals
  /\ up \in BOOLEAN /\ hits \subseteq 0..MaxPids
  /\ user \in User

Frames == {stack[i] : i \in DOMAIN stack}
Unreaped(p) == kern[p] \in {"run", "stopped", "zombie"}

(* The job list is the list of the shell's children: every child that has  *)
(* not been reaped has exactly one slot, from addjob on, and every slot is *)
(* a child's, until the handler that reaped it clears the slot.            *)
JobsMatchChildren ==
  /\ TypeOK
  /\ up =>
    /\ \A p \in Pids : Unreaped(p) /\ ~(main.at = "add" /\ main.pid = p) =>
         Cardinality({i \in Slot : jobs[i].pid = p}) = 1
    /\ \A i \in Slot : jobs[i].pid # 0 =>
         \/ Unreaped(jobs[i].pid)
         \/ \E f \in Frames : f.sig = "CHLD" /\ f.at = "ended" /\ f.pid = jobs[i].pid

(* eval blocks SIGCHLD from before fork until after addjob so that the     *)
(* handler never has to give up on "Reap non-existend job" (tsh.c:489).    *)
ReapsKnownJob ==
  up => \A f \in Frames : f.sig = "CHLD" /\ f.at \in {"ended", "stopped"} =>
          getjobpid(jobs, f.pid) # 0

(* Whoever blocked SIGCHLD, and in whatever order handlers interrupted it, *)
(* the shell waits for input and for its foreground job with no signal     *)
(* blocked: "Restore previous blocked set" (tsh.c:235).                    *)
WaitsUnmasked == At("prompt") \/ At("waitfg") \/ At("poll") => mask = {}

(* tsh.c:36 "At most 1 job can be in the FG state."                        *)
OneForeground ==
  \A i, k \in Slot : jobs[i].pid # 0 /\ jobs[i].state = "FG"
                     /\ jobs[k].pid # 0 /\ jobs[k].state = "FG" => i = k

(* tsh.c:517-518, 531-533: ctrl-c is sent "along to the foreground job",   *)
(* ctrl-z suspends "the foreground job": neither is sent to process group  *)
(* 0, which is the shell's own, unless the key interrupts clearjob between *)
(* its assignments to pid and to state.                                    *)
InClearjob == \E f \in Frames : f.sig = "CHLD" /\ f.at = "clear"
KeysGoToJobs == 0 \in hits => InClearjob

(* tsh.c:476 "The handler reaps all available zombie children": a child    *)
(* that has ended is reaped, as long as the shell runs.                    *)
ZombiesReaped == \A p \in Pids : kern[p] = "zombie" ~> (kern[p] = "gone" \/ ~up)

(* With one child there is no second SIGCHLD to lose: it is reaped, unless *)
(* another child is started meanwhile, whatever the handlers interrupt.    *)
Lone == nextpid = 2
LoneReaped == kern[1] = "zombie" /\ Lone ~> kern[1] = "gone" \/ ~up \/ ~Lone

(* tsh.c:385 "Block until process pid is no longer the foreground process": *)
(* the shell does not wait for ever for an only child that has ended.      *)
WaitsFor(p) == At("poll") /\ main.pid = p
EndNoticed == WaitsFor(1) /\ kern[1] \in {"zombie", "gone"} /\ Lone ~> ~WaitsFor(1)
=============================================================================
