------------------------------ MODULE TshProofs -------------------------------
(***************************************************************************)
(* Theorems about the shell, Tsh, for any number of job slots, of children *)
(* and of keys: whatever the handlers interrupt, main or one another.      *)
(***************************************************************************)
EXTENDS Tsh, Counting, SequenceTheorems, TLAPS

-----------------------------------------------------------------------------
(* The signal mask: what main blocks, and what a handler adds to the mask  *)
(* it found.                                                               *)
Blocking == {"fork", "add", "fill", "runrelease", "cont", "jobrelease"}
MainMask == IF main.at \in Blocking THEN {"CHLD"} ELSE {}

Forwards(f) == f.sig \in Fwd /\ f.at \in {"kill", "release"}
MaskOf(f) == f.saved \cup {f.sig} \cup IF Forwards(f) THEN {"CHLD"} ELSE {}

Depth == 1..Len(stack)

(* Every handler saved the mask of what it interrupts, main or the handler *)
(* below it, and restores what it found.                                   *)
Masks ==
  /\ mask = IF stack = <<>> THEN MainMask ELSE MaskOf(top)
  /\ \A k \in Depth : stack[k].saved = IF k = 1 THEN MainMask ELSE MaskOf(stack[k - 1])
  /\ \A k \in Depth : Forwards(stack[k]) =>
                        stack[k].prev = stack[k].saved \cup {stack[k].sig}
  /\ main.at \in Blocking => main.prev = {}

(* A handler runs with the signals of all the handlers below it blocked,   *)
(* and main's, but started with its own unblocked.                         *)
Nested ==
  /\ \A j, k \in Depth : j < k => stack[j].sig \in stack[k].saved
  /\ \A k \in Depth : MainMask \subseteq stack[k].saved /\ stack[k].sig \notin stack[k].saved

-----------------------------------------------------------------------------
(* The stack of handlers: one starts, one goes on, one returns.            *)

(* The frame on top.                                                       *)
LEMMA StackTop ==
  ASSUME NEW S, NEW s \in Seq(S), s # <<>>
  PROVE  Len(s) \in Nat \ {0} /\ Len(s) \in 1..Len(s) /\ s[Len(s)] \in S
         /\ \A k \in 1..Len(s) : s[k] \in S
<1>1. Len(s) \in Nat /\ Len(s) # 0
  BY EmptySeq
<1>2. \A k \in 1..Len(s) : s[k] \in S
  BY ElementOfSeq
<1> QED
  BY <1>1, <1>2

(* A frame is put on top.                                                  *)
LEMMA StackPush ==
  ASSUME NEW S, NEW s \in Seq(S), NEW f \in S, NEW t, t = Append(s, f)
  PROVE  /\ t \in Seq(S) /\ t # <<>> /\ Len(s) \in Nat /\ Len(t) = Len(s) + 1
         /\ t[Len(t)] = f /\ \A k \in 1..Len(s) : t[k] = s[k]
BY AppendProperties, LenProperties

(* The frame on top goes.                                                  *)
LEMMA StackPop ==
  ASSUME NEW S, NEW s \in Seq(S), s # <<>>, NEW t, t = Front(s)
  PROVE  /\ t \in Seq(S) /\ Len(t) \in Nat /\ Len(t) = Len(s) - 1
         /\ \A k \in 1..Len(t) : t[k] = s[k]
         /\ (t = <<>> <=> Len(t) = 0)
<1> DEFINE n == Len(s)
<1>1. n \in Nat /\ n > 0 /\ \A i \in 1..n : s[i] \in S
  BY StackTop
<1>2. t = SubSeq(s, 1, n - 1)
  BY DEF Front
<1> HIDE DEF n
<1>3. n - 1 \in Nat /\ \A i \in 1..n - 1 : s[i] \in S
  BY <1>1
<1>4. /\ t \in Seq(S) /\ Len(t) = n - 1
      /\ \A i \in 1..n - 1 : t[i] = s[i]
  BY <1>1, <1>2, <1>3, SubSeqProperties
<1>5. t = <<>> <=> Len(t) = 0
  BY <1>4, EmptySeq
<1> QED
  BY <1>1, <1>3, <1>4, <1>5 DEF n

(* The frame on top is replaced.                                           *)
LEMMA StackSet ==
  ASSUME NEW S, NEW s \in Seq(S), s # <<>>, NEW f \in S, NEW t,
         t = [s EXCEPT ![Len(s)] = f]
  PROVE  /\ t \in Seq(S) /\ t # <<>> /\ Len(t) = Len(s) /\ Len(s) \in Nat \ {0}
         /\ \A k \in 1..Len(s) : t[k] = IF k = Len(s) THEN f ELSE s[k]
<1>1. Len(s) \in Nat \ {0} /\ Len(s) \in 1..Len(s)
  BY StackTop
<1>2. t \in Seq(S) /\ Len(t) = Len(s)
  BY <1>1, ExceptSeq
<1>3. \A k \in 1..Len(s) : t[k] = IF k = Len(s) THEN f ELSE s[k]
  BY <1>1, ExceptSeq
<1> QED
  BY <1>1, <1>2, <1>3, EmptySeq

-----------------------------------------------------------------------------
(* How a step keeps the masks: it does not touch them, or main blocks and  *)
(* restores SIGCHLD, or a handler starts, goes on or returns.              *)

MaskInv == Masks /\ Nested

(* Nothing happens to mask, handlers or main.                              *)
LEMMA MaskStays ==
  ASSUME MaskInv, UNCHANGED <<mask, stack, main>>
  PROVE  MaskInv'
BY DEF MaskInv, Masks, Nested, MainMask, MaskOf, Forwards, Depth, top

(* main blocks or restores, with no handler running.                       *)
LEMMA MaskOfMain ==
  ASSUME stack = <<>>, stack' = stack, mask' = MainMask',
         main'.at \in Blocking => main'.prev = {}
  PROVE  MaskInv'
<1>1. stack' = <<>> /\ Depth' = {}
  BY EmptySeq DEF Depth
<1> QED
  BY <1>1 DEF MaskInv, Masks, Nested

(* A handler starts, with the mask it found saved.                         *)
LEMMA MaskPush ==
  ASSUME MaskInv, stack \in Seq(Frame), mask \subseteq Sigs, NEW s \in Sigs \ mask,
         NEW f \in Frame, f.sig = s, f.at = "start", f.saved = mask,
         stack' = Append(stack, f), mask' = mask \cup {s}, main' = main
  PROVE  MaskInv'
<1> DEFINE n == Len(stack)
<1>1. /\ stack' # <<>> /\ n \in Nat /\ Len(stack') = n + 1
      /\ stack'[n + 1] = f /\ \A k \in 1..n : stack'[k] = stack[k]
  BY StackPush
<1>2. /\ MainMask' = MainMask /\ top' = f /\ ~Forwards(f)
      /\ stack # <<>> => top = stack[n] /\ n \in 1..n
      /\ Depth = 1..n /\ Depth' = 1..n + 1
      /\ stack = <<>> => n = 0
  BY <1>1, StackTop, EmptySeq DEF top, MainMask, Forwards, Fwd, Depth
<1> HIDE DEF n
<1>3. \A k \in Depth' : k = n + 1 \/ k \in Depth
  BY <1>1, <1>2
<1>4. Depth \subseteq Depth'
  BY <1>1, <1>2
<1>5. mask' = MaskOf(f)
  BY <1>2 DEF MaskOf
<1>6. mask = IF n + 1 = 1 THEN MainMask ELSE MaskOf(stack'[n])
  <2>1. CASE stack = <<>>
    BY <2>1, <1>2, <1>1 DEF MaskInv, Masks
  <2>2. CASE stack # <<>>
    <3>1. n \in 1..n /\ mask = MaskOf(stack[n]) /\ stack'[n] = stack[n]
      BY <2>2, <1>1, <1>2 DEF MaskInv, Masks
    <3>2. n + 1 # 1
      BY <3>1, <1>1
    <3> QED
      BY <3>1, <3>2
  <2> QED
    BY <2>1, <2>2
<1>7. \A k \in Depth' : stack'[k].saved = IF k = 1 THEN MainMask ELSE MaskOf(stack'[k - 1])
  <2> TAKE k \in Depth'
  <2>1. CASE k = n + 1
    <3>1. k - 1 = n
      BY <2>1, <1>1
    <3> QED
      BY <2>1, <3>1, <1>1, <1>6
  <2>2. CASE k \in Depth
    <3>1. stack'[k] = stack[k] /\ (k # 1 => stack'[k - 1] = stack[k - 1])
      BY <2>2, <1>1, <1>2
    <3> QED
      BY <2>2, <3>1 DEF MaskInv, Masks
  <2> QED
    BY <2>1, <2>2, <1>3
<1>8. Masks'
  <2>1. \A k \in Depth' : Forwards(stack'[k]) =>
                            stack'[k].prev = stack'[k].saved \cup {stack'[k].sig}
    BY <1>1, <1>2, <1>3 DEF MaskInv, Masks
  <2> QED
    BY <2>1, <1>1, <1>2, <1>5, <1>7 DEF MaskInv, Masks, MaskOf, Forwards
<1>9. \A k \in Depth : stack[k].sig \in mask
  <2> TAKE k \in Depth
  <2>1. stack # <<>> /\ n \in Nat /\ k \in 1..n
    BY <1>1, <1>2
  <2>2. mask = top.saved \cup {top.sig} \cup IF Forwards(top) THEN {"CHLD"} ELSE {}
    BY <2>1 DEF MaskInv, Masks, MaskOf
  <2>3. k = n \/ k < n
    BY <2>1
  <2>4. top = stack[n] /\ n \in Depth
    BY <2>1, <1>2
  <2> QED
    BY <2>2, <2>3, <2>4 DEF MaskInv, Nested
<1>10. MainMask \subseteq mask
  <2>1. CASE stack = <<>>
    BY <2>1 DEF MaskInv, Masks
  <2>2. CASE stack # <<>>
    <3>1. n \in Depth /\ top = stack[n]
      BY <2>2, <1>2
    <3>2. MainMask \subseteq top.saved /\ top.saved \subseteq mask
      BY <2>2, <3>1 DEF MaskInv, Nested, Masks, MaskOf
    <3> QED
      BY <3>2
  <2> QED
    BY <2>1, <2>2
<1>11. \A j, k \in Depth' : j < k => stack'[j].sig \in stack'[k].saved
  <2> TAKE j, k \in Depth'
  <2> HAVE j < k
  <2>1. j \in Depth
    BY <1>1, <1>2, <1>3
  <2>2. CASE k = n + 1
    BY <2>1, <2>2, <1>1, <1>2, <1>9
  <2>3. CASE k \in Depth
    BY <2>1, <2>3, <1>1, <1>2 DEF MaskInv, Nested
  <2> QED
    BY <2>2, <2>3, <1>3
<1>12. \A k \in Depth' : MainMask' \subseteq stack'[k].saved /\ stack'[k].sig \notin stack'[k].saved
  BY <1>1, <1>2, <1>3, <1>10 DEF MaskInv, Nested
<1> QED
  BY <1>8, <1>11, <1>12 DEF MaskInv, Nested

(* A handler returns and restores what it saved.                           *)
LEMMA MaskPop ==
  ASSUME MaskInv, stack \in Seq(Frame), stack # <<>>,
         stack' = Front(stack), mask' = top.saved, main' = main
  PROVE  MaskInv'
<1> DEFINE n == Len(stack)
<1>1. /\ n \in Nat \ {0} /\ Len(stack') = n - 1 /\ \A k \in 1..n - 1 : stack'[k] = stack[k]
      /\ stack' = <<>> <=> n = 1
  <2>1. n \in Nat \ {0}
    BY StackTop
  <2>2. /\ Len(stack') = n - 1 /\ \A k \in 1..Len(stack') : stack'[k] = stack[k]
        /\ stack' = <<>> <=> Len(stack') = 0
    BY StackPop
  <2> HIDE DEF n
  <2> QED
    BY <2>1, <2>2
<1>2. /\ MainMask' = MainMask /\ top = stack[n] /\ top' = stack'[n - 1]
      /\ Depth = 1..n /\ Depth' = 1..n - 1
  BY <1>1 DEF top, MainMask, Depth
<1> HIDE DEF n
<1>3. n \in Depth /\ \A k \in Depth' : k \in Depth /\ k \in 1..n - 1 /\ (k # 1 => k - 1 \in 1..n - 1)
  BY <1>1, <1>2
<1>4. mask' = IF n = 1 THEN MainMask ELSE MaskOf(stack[n - 1])
  BY <1>2, <1>3 DEF MaskInv, Masks
<1>5. n # 1 => n - 1 \in 1..n - 1
  BY <1>1
<1>6. mask' = IF stack' = <<>> THEN MainMask' ELSE MaskOf(top')
  BY <1>1, <1>2, <1>4, <1>5
<1>7. \A k \in Depth' : stack'[k].saved = IF k = 1 THEN MainMask ELSE MaskOf(stack'[k - 1])
  BY <1>1, <1>3 DEF MaskInv, Masks
<1>8. \A k \in Depth' : Forwards(stack'[k]) =>
                          stack'[k].prev = stack'[k].saved \cup {stack'[k].sig}
  BY <1>1, <1>3 DEF MaskInv, Masks
<1>9. Masks'
  BY <1>2, <1>6, <1>7, <1>8 DEF MaskInv, Masks, MaskOf, Forwards
<1> QED
  BY <1>1, <1>2, <1>3, <1>9 DEF MaskInv, Nested

(* A handler goes on, and may block SIGCHLD or restore.                    *)
LEMMA MaskTop ==
  ASSUME MaskInv, stack \in Seq(Frame), stack # <<>>, NEW f \in Frame, SetTop(f),
         f.sig = top.sig, f.saved = top.saved, mask' = MaskOf(f), main' = main,
         Forwards(f) => f.prev = f.saved \cup {f.sig}
  PROVE  MaskInv'
<1> DEFINE n == Len(stack)
<1>1. /\ stack' # <<>> /\ n \in Nat \ {0} /\ Len(stack') = n
      /\ \A k \in 1..n : stack'[k] = IF k = n THEN f ELSE stack[k]
  BY StackSet DEF SetTop
<1>2. MainMask' = MainMask /\ top = stack[n] /\ top' = stack'[n] /\ Depth = 1..n /\ Depth' = 1..n
  BY <1>1 DEF top, MainMask, Depth
<1> HIDE DEF n
<1>3. n \in 1..n /\ top' = f
  BY <1>1, <1>2
<1>4. \A k \in 1..n : /\ stack'[k].sig = stack[k].sig /\ stack'[k].saved = stack[k].saved
                      /\ k # 1 => k - 1 \in 1..n /\ stack'[k - 1] = stack[k - 1]
  BY <1>1, <1>2
<1>5. \A k \in Depth' : stack'[k].saved = IF k = 1 THEN MainMask ELSE MaskOf(stack'[k - 1])
  BY <1>2, <1>4 DEF MaskInv, Masks
<1>6. \A k \in Depth' : Forwards(stack'[k]) =>
                          stack'[k].prev = stack'[k].saved \cup {stack'[k].sig}
  BY <1>1, <1>2 DEF MaskInv, Masks
<1>7. Masks'
  BY <1>1, <1>2, <1>3, <1>5, <1>6 DEF MaskInv, Masks, MaskOf, Forwards
<1> QED
  BY <1>2, <1>4, <1>7 DEF MaskInv, Nested

-----------------------------------------------------------------------------
(* Looking jobs up: the slot found is a slot that has what was looked for, *)
(* and one is found when there is one.                                     *)

(* The first slot of a set of slots, 0 if there is none.                   *)
LEMMA FirstIs ==
  ASSUME NEW S \in SUBSET Slot
  PROVE  /\ FirstOr0(S) \in 0..MAXJOBS
         /\ FirstOr0(S) = 0 <=> S = {}
         /\ S # {} => FirstOr0(S) \in S
<1>1. S \subseteq Nat /\ \A i \in S : i # 0 /\ i \in 0..MAXJOBS
  BY JobListAssumption DEF Slot, JobListAssumption
<1>2. CASE S = {}
  BY <1>2, JobListAssumption DEF FirstOr0, JobListAssumption
<1>3. CASE S # {}
  <2>1. FirstOr0(S) \in S
    BY <1>1, <1>3, LeastChosen DEF FirstOr0, Min
  <2> QED
    BY <2>1, <1>1, <1>3
<1> QED
  BY <1>2, <1>3

(* getjobpid finds the slot of a process ID, if there is one.              *)
LEMMA FoundSlot ==
  ASSUME NEW p
  PROVE  /\ getjobpid(jobs, p) \in 0..MAXJOBS
         /\ getjobpid(jobs, p) # 0 =>
              getjobpid(jobs, p) \in Slot /\ jobs[getjobpid(jobs, p)].pid = p /\ ~(p < 1)
         /\ ~(p < 1) => \A i \in Slot : jobs[i].pid = p => getjobpid(jobs, p) # 0
<1> DEFINE S == {i \in Slot : jobs[i].pid = p}
<1>1. S \in SUBSET Slot
  OBVIOUS
<1>2. getjobpid(jobs, p) = IF p < 1 THEN 0 ELSE FirstOr0(S)
  BY DEF getjobpid
<1> HIDE DEF S
<1>3. CASE p < 1
  BY <1>2, <1>3, JobListAssumption DEF JobListAssumption
<1>4. CASE ~(p < 1)
  <2>1. getjobpid(jobs, p) = FirstOr0(S)
    BY <1>2, <1>4
  <2>2. /\ FirstOr0(S) \in 0..MAXJOBS /\ (FirstOr0(S) = 0 <=> S = {})
        /\ (S # {} => FirstOr0(S) \in S)
    BY <1>1, FirstIs
  <2> QED
    BY <2>1, <2>2, <1>4 DEF S
<1> QED
  BY <1>3, <1>4

(* What getjobjid finds is a slot.                                         *)
LEMMA FoundJid ==
  ASSUME NEW j, getjobjid(jobs, j) # 0
  PROVE  getjobjid(jobs, j) \in Slot
<1> DEFINE S == {i \in Slot : jobs[i].jid = j}
<1>1. S \in SUBSET Slot
  OBVIOUS
<1>2. getjobjid(jobs, j) = FirstOr0(S)
  BY DEF getjobjid
<1> HIDE DEF S
<1>3. FirstOr0(S) \in S
  BY <1>1, <1>2, FirstIs
<1> QED
  BY <1>1, <1>2, <1>3

(* addjob takes a slot that is free.                                       *)
LEMMA FreeSlotIs ==
  ASSUME FreeSlot(jobs) # 0
  PROVE  FreeSlot(jobs) \in Slot /\ jobs[FreeSlot(jobs)].pid = 0
<1> DEFINE S == {i \in Slot : jobs[i].pid = 0}
<1>1. S \in SUBSET Slot
  OBVIOUS
<1>2. FreeSlot(jobs) = FirstOr0(S)
  BY DEF FreeSlot
<1> HIDE DEF S
<1>3. FirstOr0(S) \in S
  BY <1>1, <1>2, FirstIs
<1> QED
  BY <1>2, <1>3 DEF S

(* deletejob restarts the job IDs above the highest one: there is one.     *)
LEMMA JidsHaveMax ==
  ASSUME NEW js, \A i \in Slot : js[i].jid \in Nat
  PROVE  maxjid(js) \in Nat
<1> DEFINE T == {js[i].jid : i \in Slot}
<1>1. T \subseteq Nat /\ T # {}
  BY JobListAssumption DEF Slot, JobListAssumption
<1>2. IsFiniteSet(T)
  <2>1. IsFiniteSet(Slot)
    BY FS_Interval, JobListAssumption DEF Slot, JobListAssumption
  <2> DEFINE F == [i \in Slot |-> js[i].jid]
  <2>2. F \in Surjection(Slot, T)
    BY Fun_IsSurj
  <2> QED
    BY <2>1, <2>2, FS_Surjection
<1> HIDE DEF T
<1>3. \E m \in T : \A y \in T : m >= y
  BY <1>1, <1>2, HasMax
<1>4. Max(T) \in T
  BY <1>3 DEF Max
<1> QED
  BY <1>1, <1>4 DEF maxjid, T

(* The handler on top of the stack goes on: its frame is one again.        *)
LEMMA FrameSet ==
  ASSUME NEW f \in Frame, NEW a \in FrameLabels, NEW p \in 0..MaxPids,
         NEW i \in 0..MAXJOBS, NEW m \in SUBSET Sigs
  PROVE  /\ [f EXCEPT !.at = a] \in Frame
         /\ [f EXCEPT !.at = a, !.pid = p] \in Frame
         /\ [f EXCEPT !.at = a, !.slot = i] \in Frame
         /\ [f EXCEPT !.at = a, !.prev = m] \in Frame
         /\ [f EXCEPT !.at = a].at = a /\ [f EXCEPT !.at = a, !.pid = p].at = a
         /\ [f EXCEPT !.at = a, !.slot = i].at = a /\ [f EXCEPT !.at = a, !.prev = m].at = a
BY DEF Frame

(* The types of the frame on top.                                          *)
LEMMA TopIs ==
  ASSUME TypeOK, stack # <<>>
  PROVE  /\ top \in Frame /\ Len(stack) \in Depth /\ Len(stack) \in Nat \ {0}
         /\ top = stack[Len(stack)]
         /\ top.sig \in Sigs /\ top.at \in FrameLabels /\ top.saved \subseteq Sigs
         /\ top.prev \subseteq Sigs /\ top.slot \in 0..MAXJOBS /\ top.pid \in 0..MaxPids
<1>1. stack \in Seq(Frame)
  BY DEF TypeOK
<1>2. top \in Frame /\ Len(stack) \in Depth /\ Len(stack) \in Nat \ {0}
  BY <1>1, StackTop DEF top, Depth
<1> QED
  BY <1>2 DEF Frame, top

(* Every step keeps the masks: one case for each action of the shell.      *)
LEMMA MasksKept ==
  ASSUME TypeOK, MaskInv, [Next]_vars
  PROVE  MaskInv'
<1> USE DEF list, kernel, signals
<1>t. stack \in Seq(Frame) /\ main \in Locals /\ mask \subseteq Sigs /\ pend \subseteq Sigs
  BY DEF TypeOK
<1>m. stack = <<>> => mask = MainMask /\ (main.at \in Blocking => main.prev = {})
  BY DEF MaskInv, Masks
<1>1. CASE Kernel
  BY <1>1, MaskStays DEF Kernel, ChildSetpgid, ChildEnds, ChildStops, TypeKey
<1>2. ASSUME NEW s \in Sigs, Deliver(s) PROVE MaskInv'
  <2> DEFINE f == [sig |-> s, at |-> "start", saved |-> mask,
                   prev |-> {}, slot |-> 0, pid |-> 0]
  <2>1. f \in Frame /\ f.sig = s /\ f.at = "start" /\ f.saved = mask
    BY <1>t, JobListAssumption DEF Frame, FrameLabels, JobListAssumption
  <2>2. /\ s \in Sigs \ mask /\ mask' = mask \cup {s} /\ main' = main
        /\ stack' = Append(stack, f)
    BY <1>2 DEF Deliver
  <2> HIDE DEF f
  <2> QED
    BY <2>1, <2>2, <1>t, MaskPush
<1>3. CASE Return
  BY <1>3, <1>t, MaskPop DEF Return, Running
<1>g. ASSUME NEW f \in Frame, stack # <<>>, SetTop(f), f.sig = top.sig, f.saved = top.saved,
             mask' = MaskOf(f), main' = main,
             Forwards(f) => f.prev = f.saved \cup {f.sig}
      PROVE  MaskInv'
  BY <1>g, <1>t, MaskTop
<1>q. ASSUME stack # <<>>
      PROVE  /\ mask = MaskOf(top)
             /\ Forwards(top) => top.prev = top.saved \cup {top.sig}
  <2>1. mask = MaskOf(top)
    BY <1>q DEF MaskInv, Masks
  <2>2. Forwards(top) => top.prev = top.saved \cup {top.sig}
    BY <1>q, TopIs DEF MaskInv, Masks
  <2> QED
    BY <2>1, <2>2
<1>h. ASSUME NEW f \in Frame, stack # <<>>, SetTop(f), f.sig = top.sig, f.saved = top.saved,
             top.sig = "CHLD", mask' = mask, main' = main
      PROVE  MaskInv'
  BY <1>g, <1>q, <1>h DEF MaskOf, Forwards, Fwd
<1>4. CASE ChldWait
  <2>0. stack # <<>> /\ top.sig = "CHLD" /\ mask' = mask /\ main' = main
    BY <1>4 DEF ChldWait, Running
  <2>1. CASE Waitable = {}
    <3> DEFINE f == [top EXCEPT !.at = "return"]
    <3>1. f \in Frame /\ f.sig = top.sig /\ f.saved = top.saved /\ SetTop(f)
      BY <1>4, <2>0, <2>1, TopIs DEF ChldWait, Frame, FrameLabels
    <3> HIDE DEF f
    <3> QED
      BY <3>1, <2>0, <1>h
  <2>2. CASE Waitable # {}
    <3>1. PICK p \in Waitable :
            SetTop([top EXCEPT !.at = IF kern[p] = "zombie" THEN "ended" ELSE "stopped",
                               !.pid = p])
      BY <1>4, <2>2 DEF ChldWait
    <3> DEFINE f == [top EXCEPT !.at = IF kern[p] = "zombie" THEN "ended" ELSE "stopped",
                                !.pid = p]
    <3> DEFINE a == IF kern[p] = "zombie" THEN "ended" ELSE "stopped"
    <3>3. p \in 0..MaxPids /\ a \in FrameLabels
      BY JobListAssumption DEF Waitable, Pids, FrameLabels, JobListAssumption
    <3> HIDE DEF a
    <3>2. f \in Frame /\ f.sig = top.sig /\ f.saved = top.saved
      BY <2>0, <3>3, TopIs DEF Frame, a
    <3> HIDE DEF f
    <3> QED
      BY <3>1, <3>2, <2>0, <1>h DEF f
  <2> QED
    BY <2>1, <2>2
<1>5. CASE ChldUpdate
  <2> DEFINE i == getjobpid(jobs, top.pid)
             f == [top EXCEPT !.at = "return"]
             g == [top EXCEPT !.at = "clear", !.slot = i]
  <2>0. stack # <<>> /\ top.sig = "CHLD" /\ mask' = mask /\ main' = main
    BY <1>5 DEF ChldUpdate, Running
  <2>1. stack' = stack \/ SetTop(f) \/ SetTop(g)
    BY <1>5 DEF ChldUpdate
  <2>2. f \in Frame /\ f.sig = top.sig /\ f.saved = top.saved
    BY <2>0, TopIs DEF Frame, FrameLabels
  <2>3. i \in 0..MAXJOBS
    BY FoundSlot
  <2> HIDE DEF i
  <2>4. g \in Frame /\ g.sig = top.sig /\ g.saved = top.saved
    BY <2>0, <2>3, TopIs DEF Frame, FrameLabels
  <2> HIDE DEF f, g
  <2> QED
    BY <2>0, <2>1, <2>2, <2>4, <1>h, MaskStays
<1>6. CASE ChldClearRest
  <2> DEFINE f == [top EXCEPT !.at = "return"]
  <2>1. /\ stack # <<>> /\ top.sig = "CHLD" /\ mask' = mask /\ main' = main
        /\ SetTop(f)
    BY <1>6 DEF ChldClearRest, Running
  <2>2. f \in Frame /\ f.sig = top.sig /\ f.saved = top.saved
    BY <2>1, TopIs DEF Frame, FrameLabels
  <2> HIDE DEF f
  <2> QED
    BY <2>1, <2>2, <1>h
<1>7. CASE FwdBlock
  <2> DEFINE f == [top EXCEPT !.at = "kill", !.prev = mask]
  <2>1. /\ stack # <<>> /\ top.sig \in Fwd /\ top.at = "start" /\ main' = main
        /\ mask' = mask \cup {"CHLD"} /\ SetTop(f)
    BY <1>7 DEF FwdBlock, Running
  <2>2. /\ f \in Frame /\ f.sig = top.sig /\ f.saved = top.saved
        /\ f.at = "kill" /\ f.prev = mask
    BY <1>t, <2>1, TopIs DEF Frame, FrameLabels
  <2>3. mask = top.saved \cup {top.sig}
    BY <2>1, <1>q DEF MaskOf, Forwards
  <2> HIDE DEF f
  <2>4. mask' = MaskOf(f) /\ f.prev = f.saved \cup {f.sig}
    BY <2>1, <2>2, <2>3 DEF MaskOf, Forwards
  <2> QED
    BY <2>1, <2>2, <2>4, <1>g
<1>8. CASE FwdKill
  <2> DEFINE f == [top EXCEPT !.at = "release"]
  <2>1. /\ stack # <<>> /\ top.sig \in Fwd /\ top.at = "kill" /\ main' = main
        /\ mask' = mask /\ SetTop(f)
    BY <1>8 DEF FwdKill, Running
  <2>2. /\ f \in Frame /\ f.sig = top.sig /\ f.saved = top.saved
        /\ f.at = "release" /\ f.prev = top.prev
    BY <2>1, TopIs DEF Frame, FrameLabels
  <2> HIDE DEF f
  <2>3. mask' = MaskOf(f) /\ f.prev = f.saved \cup {f.sig}
    BY <2>1, <2>2, <1>q DEF MaskOf, Forwards
  <2> QED
    BY <2>1, <2>2, <2>3, <1>g
<1>9. CASE FwdRelease
  <2> DEFINE f == [top EXCEPT !.at = "return"]
  <2>1. /\ stack # <<>> /\ top.sig \in Fwd /\ top.at = "release" /\ main' = main
        /\ mask' = top.prev /\ SetTop(f)
    BY <1>9 DEF FwdRelease, Running
  <2>2. f \in Frame /\ f.sig = top.sig /\ f.saved = top.saved /\ f.at = "return"
    BY <2>1, TopIs DEF Frame, FrameLabels
  <2> HIDE DEF f
  <2>3. mask' = MaskOf(f) /\ ~Forwards(f)
    BY <2>1, <2>2, <1>q DEF MaskOf, Forwards
  <2> QED
    BY <2>1, <2>2, <2>3, <1>g
<1>n. ASSUME stack = <<>>, stack' = stack, mask' = mask,
             main'.at \in Blocking <=> main.at \in Blocking,
             main'.at \in Blocking => main'.prev = main.prev
      PROVE  MaskInv'
  BY <1>n, <1>m, MaskOfMain DEF MainMask
<1>10. CASE \E cmd \in {"FG", "BG"} : RunBlock(cmd)
  BY <1>10, <1>m, MaskOfMain DEF RunBlock, At, MainMask, Blocking, NoCmd
<1>11. CASE RunFork
  BY <1>11, <1>n, <1>t DEF RunFork, At, Blocking, Locals
<1>12. CASE RunAdd
  BY <1>12, <1>n, <1>t DEF RunAdd, At, Blocking, Locals
<1>13. CASE RunFill
  BY <1>13, <1>n, <1>t DEF RunFill, At, MainTo, Blocking, Locals
<1>14. CASE RunRelease
  BY <1>14, <1>m, <1>t, MaskOfMain DEF RunRelease, At, WaitOrPrompt, MainMask, Blocking, NoCmd, Locals
<1>f. ASSUME NEW cmd, NEW i, NEW p, FindJob(cmd, i, p) PROVE MaskInv'
  BY <1>f, <1>n DEF FindJob, At, Blocking, NoCmd
<1>15. CASE \E cmd \in {"FG", "BG"} : JobByPid(cmd) \/ JobByJid(cmd)
  BY <1>15, <1>f DEF JobByPid, JobByJid
<1>16. CASE JobBlock
  BY <1>16, <1>m, <1>t, MaskOfMain DEF JobBlock, At, MainMask, Blocking, Locals
<1>17. CASE JobCont
  BY <1>17, <1>n, <1>t DEF JobCont, At, MainTo, Blocking, Locals
<1>18. CASE JobRelease
  BY <1>18, <1>m, <1>t, MaskOfMain DEF JobRelease, At, MainTo, MainMask, Blocking, Locals
<1>19. CASE JobSetState
  BY <1>19, <1>n, <1>t DEF JobSetState, At, WaitOrPrompt, Blocking, NoCmd, Locals
<1>20. CASE WaitStart
  BY <1>20, <1>n, <1>t DEF WaitStart, At, Blocking, NoCmd, Locals
<1>21. CASE WaitDone
  BY <1>21, <1>n DEF WaitDone, At, Blocking, NoCmd
<1>22. CASE Quit
  BY <1>22, MaskStays DEF Quit
<1>23. CASE UNCHANGED vars
  BY <1>23, MaskStays DEF vars
<1> QED
  BY <1>1, <1>2, <1>3, <1>4, <1>5, <1>6, <1>7, <1>8, <1>9, <1>10, <1>11, <1>12, <1>13, <1>14,
     <1>15, <1>16, <1>17, <1>18, <1>19, <1>20, <1>21, <1>22, <1>23
     DEF Next, Handlers, Types, Main

-----------------------------------------------------------------------------
(* The job list: a child is on it from addjob on until the handler that    *)
(* has reaped it deletes its job, and no other process is.                 *)
Ending(p) == \E k \in Depth : /\ stack[k].sig = "CHLD" /\ stack[k].at = "ended"
                              /\ stack[k].pid = p

Adding(p) == main.at = "add" /\ main.pid = p

Listed ==
  /\ \A p \in Pids : kern[p] = "free" <=> p >= nextpid
  /\ \A i, k \in Slot : jobs[i].pid # 0 /\ jobs[i].pid = jobs[k].pid => i = k
  /\ \A p \in Pids : (Unreaped(p) \/ Ending(p)) /\ ~Adding(p) =>
       \E i \in Slot : jobs[i].pid = p
  /\ \A i \in Slot, p \in Pids : jobs[i].pid = p => Unreaped(p) \/ Ending(p)

(* What sigchld_handler knows about its child, and eval about its own.     *)
HandlerKnows(k) ==
  /\ stack[k].at = "ended" => stack[k].pid \in Pids /\ kern[stack[k].pid] = "gone"
  /\ stack[k].at = "stopped" => stack[k].pid \in Pids /\ Unreaped(stack[k].pid)
  /\ stack[k].at = "clear" => stack[k].slot \in Slot /\ jobs[stack[k].slot].pid = 0

HandlersKnow == \A k \in Depth : stack[k].sig = "CHLD" => HandlerKnows(k)

Forking == IF main.at = "fork" THEN 1 ELSE 0

MainKnows ==
  /\ main.at # "prompt" => main.cmd \in {"FG", "BG"}
  /\ main.at = "add" => /\ main.pid \in Pids /\ Unreaped(main.pid)
                        /\ \A i \in Slot : jobs[i].pid # main.pid
  /\ main.at = "fill" => main.slot \in Slot /\ jobs[main.slot].pid = main.pid
  /\ main.at \in {"jobblock", "cont", "jobrelease", "setstate", "poll"} => main.slot \in Slot
  /\ nextpid + user.programs + Forking <= MaxPids + 1

TshIInv == TypeOK /\ MaskInv /\ Listed /\ HandlersKnow /\ MainKnows

-----------------------------------------------------------------------------
(* Types.                                                                  *)

JobsOK == jobs \in [Slot -> JobType] /\ nextjid \in Nat \ {0}
KernOK == /\ nextpid \in 1..MaxPids + 1
          /\ kern \in [Pids -> {"free", "run", "stopped", "zombie", "gone"}]
          /\ led \in [Pids -> BOOLEAN] /\ stopped \in [Pids -> BOOLEAN]
SigsOK == pend \subseteq Sigs /\ mask \subseteq Sigs
RestOK == up \in BOOLEAN /\ hits \subseteq 0..MaxPids /\ user \in User

(* The types in five parts, since a step changes few of them.              *)
LEMMA TypeParts ==
  TypeOK <=> JobsOK /\ KernOK /\ SigsOK /\ stack \in Seq(Frame) /\ main \in Locals /\ RestOK
BY DEF TypeOK, JobsOK, KernOK, SigsOK, RestOK

(* What main does to its own locals.                                       *)
LEMMA LocalsSet ==
  ASSUME NEW m \in Locals, NEW a \in MainLabels, NEW p \in 0..MaxPids, NEW i \in 0..MAXJOBS,
         NEW s \in SUBSET Sigs, NEW c \in {"FG", "BG"}
  PROVE  /\ NoCmd \in Locals
         /\ [m EXCEPT !.at = a] \in Locals
         /\ [m EXCEPT !.at = a, !.pid = p] \in Locals
         /\ [m EXCEPT !.at = a, !.slot = i] \in Locals
         /\ [m EXCEPT !.at = a, !.prev = s] \in Locals
         /\ [NoCmd EXCEPT !.cmd = c, !.at = a, !.prev = s] \in Locals
         /\ [NoCmd EXCEPT !.cmd = c, !.at = a, !.slot = i, !.pid = p] \in Locals
<1>1. 0 \in 0..MaxPids /\ 0 \in 0..MAXJOBS
  BY JobListAssumption DEF JobListAssumption
<1>2. NoCmd \in Locals
  BY <1>1 DEF Locals, NoCmd, MainLabels
<1>3. [NoCmd EXCEPT !.cmd = c, !.at = a, !.prev = s] \in Locals
  BY <1>2 DEF Locals
<1>4. [NoCmd EXCEPT !.cmd = c, !.at = a, !.slot = i, !.pid = p] \in Locals
  BY <1>2 DEF Locals
<1>5. /\ [m EXCEPT !.at = a] \in Locals
      /\ [m EXCEPT !.at = a, !.pid = p] \in Locals
  BY DEF Locals
<1>6. /\ [m EXCEPT !.at = a, !.slot = i] \in Locals
      /\ [m EXCEPT !.at = a, !.prev = s] \in Locals
  BY DEF Locals
<1> QED
  BY <1>2, <1>3, <1>4, <1>5, <1>6

(* 0, for no process and no slot, is of the types of both.                 *)
LEMMA Zero == 0 \in 0..MaxPids /\ 0 \in 0..MAXJOBS /\ 0 \in Nat /\ "ST" \in States
BY JobListAssumption DEF States, JobListAssumption

(* The types of a slot.                                                    *)
LEMMA JobTyped ==
  ASSUME TypeOK
  PROVE  \A i \in Slot : /\ jobs[i] \in JobType /\ jobs[i].pid \in 0..MaxPids
                         /\ jobs[i].jid \in Nat /\ jobs[i].state \in States
                         /\ jobs[i].pid # 0 => jobs[i].pid \in Pids
BY JobListAssumption DEF TypeOK, JobType, Pids, JobListAssumption

(* Writing a slot leaves a job list.                                       *)
LEMMA JobsSet ==
  ASSUME jobs \in [Slot -> JobType], NEW i, NEW p \in 0..MaxPids, NEW n \in Nat, NEW s \in States
  PROVE  /\ [jobs EXCEPT ![i].pid = p] \in [Slot -> JobType]
         /\ [jobs EXCEPT ![i].state = s] \in [Slot -> JobType]
         /\ filled(jobs, i, n, p, s) \in [Slot -> JobType]
         /\ cleared(jobs, i) \in [Slot -> JobType]
<1>1. /\ [pid |-> p, jid |-> n, state |-> s] \in JobType /\ EmptyJob \in JobType
  BY JobListAssumption DEF JobType, EmptyJob, States, JobListAssumption
<1>2. i \in Slot => /\ [jobs[i] EXCEPT !.pid = p] \in JobType
                    /\ [jobs[i] EXCEPT !.state = s] \in JobType
  BY DEF JobType
<1> QED
  BY <1>1, <1>2 DEF filled, cleared

(* A handler leaves a frame on the stack.                                  *)
LEMMA GoesOn ==
  ASSUME TypeOK, stack # <<>>, NEW f \in Frame, SetTop(f)
  PROVE  /\ stack' \in Seq(Frame) /\ stack' # <<>> /\ Depth' = Depth /\ top' = f
         /\ \A k \in Depth : stack'[k] = IF k = Len(stack) THEN f ELSE stack[k]
<1>1. stack \in Seq(Frame)
  BY DEF TypeOK
<1>2. /\ stack' \in Seq(Frame) /\ stack' # <<>> /\ Len(stack') = Len(stack)
      /\ \A k \in 1..Len(stack) : stack'[k] = IF k = Len(stack) THEN f ELSE stack[k]
  BY <1>1, StackSet DEF SetTop
<1>3. Len(stack) \in 1..Len(stack)
  BY <1>1, StackTop
<1> QED
  BY <1>2, <1>3 DEF Depth, top

(* The SIGCHLD handler calls waitpid.                                      *)
LEMMA ChldWaitTyped ==
  ASSUME TypeOK, ChldWait
  PROVE  TypeOK'
<1>1. stack # <<>> /\ UNCHANGED <<list, signals, main, up, hits, user, led, nextpid>>
  BY DEF ChldWait, Running, kernel
<1>2. CASE Waitable = {}
  <2>1. SetTop([top EXCEPT !.at = "return"]) /\ UNCHANGED kernel
    BY <1>2 DEF ChldWait
  <2>2. [top EXCEPT !.at = "return"] \in Frame
    BY <1>1, TopIs DEF Frame, FrameLabels
  <2>3. stack' \in Seq(Frame)
    BY <1>1, <2>1, <2>2, GoesOn
  <2> QED
    BY <1>1, <2>1, <2>3 DEF TypeOK, list, signals, kernel
<1>3. CASE Waitable # {}
  <2>1. PICK p \in Waitable :
          /\ SetTop([top EXCEPT !.at = IF kern[p] = "zombie" THEN "ended" ELSE "stopped",
                                !.pid = p])
          /\ kern' = [kern EXCEPT ![p] = IF @ = "zombie" THEN "gone" ELSE @]
          /\ stopped' = [stopped EXCEPT ![p] = FALSE]
    BY <1>3 DEF ChldWait
  <2> DEFINE a == IF kern[p] = "zombie" THEN "ended" ELSE "stopped"
  <2>2. p \in 0..MaxPids /\ a \in FrameLabels
    BY JobListAssumption DEF Waitable, Pids, FrameLabels, JobListAssumption
  <2> HIDE DEF a
  <2>3. [top EXCEPT !.at = a, !.pid = p] \in Frame
    BY <1>1, <2>2, TopIs, FrameSet
  <2>4. stack' \in Seq(Frame)
    BY <1>1, <2>1, <2>3, GoesOn DEF a
  <2>5. KernOK'
    BY <1>1, <2>1 DEF TypeOK, KernOK
  <2> QED
    BY <1>1, <2>4, <2>5 DEF TypeOK, KernOK, list, signals
<1> QED
  BY <1>2, <1>3

(* The SIGCHLD handler updates or begins to clear the job.                 *)
LEMMA ChldUpdateTyped ==
  ASSUME TypeOK, ChldUpdate
  PROVE  TypeOK'
<1> DEFINE i == getjobpid(jobs, top.pid)
<1>1. stack # <<>> /\ UNCHANGED <<nextjid, kernel, signals, main, hits, user>> /\ up \in BOOLEAN
  BY DEF ChldUpdate, Running, TypeOK
<1>2. i \in 0..MAXJOBS
  BY FoundSlot
<1>3. CASE i = 0
  BY <1>1, <1>3 DEF ChldUpdate, TypeOK, kernel, signals
<1>4. CASE i # 0 /\ top.at = "stopped"
  <2>1. /\ jobs' = [jobs EXCEPT ![i].state = "ST"] /\ SetTop([top EXCEPT !.at = "return"])
        /\ up' = up
    BY <1>4 DEF ChldUpdate
  <2>2. [top EXCEPT !.at = "return"] \in Frame
    BY <1>1, TopIs DEF Frame, FrameLabels
  <2>4. stack' \in Seq(Frame)
    BY <1>1, <2>1, <2>2, GoesOn
  <2> HIDE DEF i
  <2>3. jobs' \in [Slot -> JobType]
    BY <2>1, JobsSet, Zero DEF TypeOK
  <2> QED
    BY <1>1, <2>1, <2>4, <2>3 DEF TypeOK, kernel, signals
<1>5. CASE i # 0 /\ top.at # "stopped"
  <2>1. /\ jobs' = [jobs EXCEPT ![i].pid = 0] /\ SetTop([top EXCEPT !.at = "clear", !.slot = i])
        /\ up' = up
    BY <1>5 DEF ChldUpdate
  <2> HIDE DEF i
  <2>2. [top EXCEPT !.at = "clear", !.slot = i] \in Frame
    BY <1>1, <1>2, TopIs DEF Frame, FrameLabels
  <2>3. stack' \in Seq(Frame)
    BY <1>1, <2>1, <2>2, GoesOn
  <2>4. jobs' \in [Slot -> JobType]
    BY <2>1, JobsSet, Zero DEF TypeOK
  <2> QED
    BY <1>1, <2>1, <2>3, <2>4 DEF TypeOK, kernel, signals
<1> QED
  BY <1>3, <1>4, <1>5

(* The SIGCHLD handler clears the rest of the slot.                        *)
LEMMA ChldClearRestTyped ==
  ASSUME TypeOK, ChldClearRest
  PROVE  TypeOK'
<1>1. /\ stack # <<>> /\ UNCHANGED <<kernel, signals, main, up, hits, user>>
      /\ jobs' = cleared(jobs, top.slot) /\ nextjid' = maxjid(jobs') + 1
      /\ SetTop([top EXCEPT !.at = "return"])
  BY DEF ChldClearRest, Running
<1>2. jobs' \in [Slot -> JobType]
  BY <1>1, JobsSet, Zero DEF TypeOK
<1>3. maxjid(jobs') \in Nat
  <2>1. \A i \in Slot : jobs'[i].jid \in Nat
    BY <1>2 DEF JobType
  <2> QED
    BY <2>1, JidsHaveMax
<1>4. nextjid' \in Nat \ {0}
  BY <1>1, <1>3
<1>5. [top EXCEPT !.at = "return"] \in Frame
  BY <1>1, TopIs DEF Frame, FrameLabels
<1>6. stack' \in Seq(Frame)
  BY <1>1, <1>5, GoesOn
<1> QED
  BY <1>1, <1>2, <1>4, <1>6 DEF TypeOK, kernel, signals

(* The forwarding handlers.                                                *)
LEMMA FwdTyped ==
  ASSUME TypeOK, FwdBlock \/ FwdKill \/ FwdRelease
  PROVE  TypeOK'
<1>1. CASE FwdBlock
  <2>1. /\ stack # <<>> /\ UNCHANGED <<list, kernel, pend, main, up, hits, user>>
        /\ SetTop([top EXCEPT !.at = "kill", !.prev = mask]) /\ mask' = mask \cup {"CHLD"}
    BY <1>1 DEF FwdBlock, Running
  <2>2. [top EXCEPT !.at = "kill", !.prev = mask] \in Frame
    BY <2>1, TopIs DEF TypeOK, Frame, FrameLabels
  <2>3. stack' \in Seq(Frame)
    BY <2>1, <2>2, GoesOn
  <2> QED
    BY <2>1, <2>3 DEF TypeOK, list, kernel, Sigs
<1>2. CASE FwdKill
  <2>1. /\ stack # <<>> /\ UNCHANGED <<list, mask, main, up, user, led, nextpid>>
        /\ hits' = {jobs[i].pid : i \in {k \in Slot : jobs[k].state = "FG"}}
        /\ SetTop([top EXCEPT !.at = "release"]) /\ KillGroups(hits', top.sig)
    BY <1>2 DEF FwdKill, Running, KillGroups
  <2>2. [top EXCEPT !.at = "release"] \in Frame /\ top.sig \in Sigs
    BY <2>1, TopIs DEF Frame, FrameLabels
  <2>3. stack' \in Seq(Frame)
    BY <2>1, <2>2, GoesOn
  <2>4. hits' \subseteq 0..MaxPids
    BY <2>1, JobTyped
  <2>5. pend' \subseteq Sigs /\ KernOK'
    <3> HIDE DEF top
    <3>1. PICK C \in SUBSET {p \in hits' \ {0} : kern[p] = "run" /\ led[p]} :
            /\ kern' = [p \in Pids |-> IF p \in C
                                       THEN IF top.sig = "INT" THEN "zombie" ELSE "stopped"
                                       ELSE kern[p]]
            /\ stopped' = [p \in Pids |-> stopped[p] \/ (p \in C /\ top.sig = "TSTP")]
            /\ pend' = pend \cup (IF C = {} THEN {} ELSE {"CHLD"})
                            \cup (IF 0 \in hits' THEN {top.sig} ELSE {})
      BY <2>1 DEF KillGroups
    <3>2. kern' \in [Pids -> {"free", "run", "stopped", "zombie", "gone"}]
      BY <3>1 DEF TypeOK
    <3>3. stopped' \in [Pids -> BOOLEAN]
      <4>1. \A p \in Pids : (stopped[p] \/ (p \in C /\ top.sig = "TSTP")) \in BOOLEAN
        BY Zenon
      <4> QED
        BY <3>1, <4>1, Zenon
    <3>4. pend' \subseteq Sigs
      BY <3>1, <2>2 DEF TypeOK, Sigs
    <3> QED
      BY <2>1, <3>2, <3>3, <3>4 DEF TypeOK, KernOK
  <2> QED
    BY <2>1, <2>3, <2>4, <2>5 DEF TypeOK, KernOK, list
<1>3. CASE FwdRelease
  <2>1. /\ stack # <<>> /\ UNCHANGED <<list, kernel, pend, main, up, user>>
        /\ SetTop([top EXCEPT !.at = "return"]) /\ mask' = top.prev /\ hits' = {}
    BY <1>3 DEF FwdRelease, Running
  <2>2. [top EXCEPT !.at = "return"] \in Frame /\ top.prev \subseteq Sigs
    BY <2>1, TopIs DEF Frame, FrameLabels
  <2>3. stack' \in Seq(Frame)
    BY <2>1, <2>2, GoesOn
  <2> QED
    BY <2>1, <2>2, <2>3 DEF TypeOK, list, kernel
<1> QED
  BY <1>1, <1>2, <1>3

(* The kernel and the user.                                                *)
LEMMA KernelTyped ==
  ASSUME TypeOK, Kernel \/ \E s \in Sigs : Deliver(s)
  PROVE  TypeOK'
<1>1. ASSUME NEW p \in Pids, ChildSetpgid(p) PROVE TypeOK'
  <2>1. led' \in [Pids -> BOOLEAN]
    BY <1>1 DEF ChildSetpgid, TypeOK
  <2> QED
    BY <1>1, <2>1 DEF ChildSetpgid, TypeOK, list, signals
<1>2. ASSUME NEW p \in Pids, ChildEnds(p) PROVE TypeOK'
  <2>1. kern' \in [Pids -> {"free", "run", "stopped", "zombie", "gone"}]
    BY <1>2 DEF ChildEnds, TypeOK
  <2> QED
    BY <1>2, <2>1 DEF ChildEnds, TypeOK, list, Sigs
<1>3. ASSUME NEW p \in Pids, ChildStops(p) PROVE TypeOK'
  <2>1. /\ kern' \in [Pids -> {"free", "run", "stopped", "zombie", "gone"}]
        /\ stopped' \in [Pids -> BOOLEAN]
    BY <1>3 DEF ChildStops, TypeOK
  <2> QED
    BY <1>3, <2>1 DEF ChildStops, TypeOK, list, Sigs
<1>4. ASSUME NEW s \in {"INT", "TSTP"}, TypeKey(s) PROVE TypeOK'
  <2>1. user' \in User
    BY <1>4 DEF TypeKey, TypeOK, User
  <2> QED
    BY <1>4, <2>1 DEF TypeKey, TypeOK, list, kernel, Sigs
<1>5. ASSUME NEW s \in Sigs, Deliver(s) PROVE TypeOK'
  <2> DEFINE f == [sig |-> s, at |-> "start", saved |-> mask,
                   prev |-> {}, slot |-> 0, pid |-> 0]
  <2>1. f \in Frame /\ stack \in Seq(Frame)
    BY Zero DEF TypeOK, Frame, FrameLabels
  <2>2. /\ stack' = Append(stack, f) /\ pend' = pend \ {s} /\ mask' = mask \cup {s}
        /\ UNCHANGED <<list, kernel, main, up, hits, user>>
    BY <1>5 DEF Deliver
  <2> HIDE DEF f
  <2>3. stack' \in Seq(Frame)
    BY <2>1, <2>2, StackPush
  <2> QED
    BY <2>2, <2>3 DEF TypeOK, list, kernel
<1> QED
  BY <1>1, <1>2, <1>3, <1>4, <1>5 DEF Kernel

(* A handler returns.                                                      *)
LEMMA ReturnTyped ==
  ASSUME TypeOK, Return
  PROVE  TypeOK'
<1>1. /\ stack # <<>> /\ stack' = Front(stack) /\ mask' = top.saved
      /\ UNCHANGED <<list, kernel, pend, main, up, hits, user>>
  BY DEF Return, Running
<1>2. stack' \in Seq(Frame)
  BY <1>1, StackPop DEF TypeOK
<1> QED
  BY <1>1, <1>2, TopIs DEF TypeOK, list, kernel

(* The steps by which eval starts a program.                               *)
LEMMA RunTyped ==
  ASSUME TypeOK, MainKnows,
         (\E cmd \in {"FG", "BG"} : RunBlock(cmd)) \/ RunFork \/ RunAdd \/ RunFill \/ RunRelease
  PROVE  TypeOK'
<1> USE DEF list, kernel, signals
<1>t. /\ TypeOK /\ main \in Locals /\ stack \in Seq(Frame) /\ mask \in SUBSET Sigs
      /\ main.slot \in 0..MAXJOBS /\ main.pid \in 0..MaxPids /\ main.prev \subseteq Sigs
      /\ {"fork", "add", "fill", "runrelease", "waitfg"} \subseteq MainLabels
  BY DEF TypeOK, Locals, MainLabels
<1>1. ASSUME NEW cmd \in {"FG", "BG"}, RunBlock(cmd) PROVE TypeOK'
  <2>1. user' \in User
    <3>1. user \in User /\ user' = [user EXCEPT !.programs = @ - 1] /\ user.programs > 0
      BY <1>1 DEF RunBlock, TypeOK
    <3>2. user.programs - 1 \in 0..MaxPids
      BY <3>1, JobListAssumption DEF User, JobListAssumption
    <3> QED
      BY <3>1, <3>2 DEF User
  <2>2. main' \in Locals
    BY <1>1, <1>t, LocalsSet, Zero DEF RunBlock
  <2> QED
    BY <1>1, <2>1, <2>2 DEF RunBlock, TypeOK, Sigs
<1>2. CASE RunFork
  <2>1. /\ kern' = [kern EXCEPT ![nextpid] = "run"] /\ nextpid' = nextpid + 1
        /\ main' = [main EXCEPT !.at = "add", !.pid = nextpid] /\ main.at = "fork"
        /\ UNCHANGED <<list, led, stopped, signals, stack, up, hits, user>>
    BY <1>2 DEF RunFork, At
  <2>2. nextpid \in 0..MaxPids /\ nextpid + 1 \in 1..MaxPids + 1
    BY <2>1, JobListAssumption DEF MainKnows, Forking, TypeOK, User, JobListAssumption
  <2>3. kern' \in [Pids -> {"free", "run", "stopped", "zombie", "gone"}]
    BY <2>1 DEF TypeOK
  <2>4. main' \in Locals
    BY <2>1, <2>2, <1>t, LocalsSet, Zero
  <2> QED
    BY <2>1, <2>2, <2>3, <2>4 DEF TypeOK
<1>3. CASE RunAdd
  <2> DEFINE i == FreeSlot(jobs)
  <2>1. /\ UNCHANGED <<nextjid, kernel, signals, stack, hits, user>>
        /\ IF i = 0 THEN up' = FALSE /\ UNCHANGED <<jobs, main>>
           ELSE /\ jobs' = [jobs EXCEPT ![i].pid = main.pid]
                /\ main' = [main EXCEPT !.at = "fill", !.slot = i]
                /\ up' = up
    BY <1>3 DEF RunAdd
  <2>2. i # 0 => i \in 0..MAXJOBS
    BY FreeSlotIs, JobListAssumption DEF Slot, JobListAssumption
  <2> HIDE DEF i
  <2>3. CASE i = 0
    BY <2>1, <2>3 DEF TypeOK
  <2>4. CASE i # 0
    <3>0. /\ jobs' = [jobs EXCEPT ![i].pid = main.pid]
          /\ main' = [main EXCEPT !.at = "fill", !.slot = i]
          /\ UNCHANGED <<up, nextjid, kernel, signals, stack, hits, user>>
      BY <2>1, <2>4
    <3>1. main' \in Locals
      BY <3>0, <2>2, <2>4, <1>t DEF Locals
    <3>2. jobs' \in [Slot -> JobType]
      BY <3>0, <1>t, JobsSet, Zero DEF TypeOK
    <3> QED
      BY <3>0, <3>1, <3>2 DEF TypeOK
  <2> QED
    BY <2>3, <2>4
<1>4. CASE RunFill
  <2>1. /\ jobs' = filled(jobs, main.slot, nextjid, main.pid, main.cmd)
        /\ nextjid' = jidAfterAdd(nextjid) /\ main' = [main EXCEPT !.at = "runrelease"]
        /\ UNCHANGED <<kernel, signals, stack, up, hits, user>> /\ main.at = "fill"
    BY <1>4 DEF RunFill, At, MainTo
  <2>2. main.cmd \in States /\ nextjid \in Nat
    BY <2>1 DEF MainKnows, States, TypeOK
  <2>3. jobs' \in [Slot -> JobType]
    BY <2>1, <2>2, <1>t, JobsSet DEF TypeOK
  <2>4. main' \in Locals
    BY <2>1, <1>t, LocalsSet, Zero
  <2>5. nextjid' \in Nat \ {0}
    BY <2>1 DEF jidAfterAdd, TypeOK
  <2> QED
    BY <2>1, <2>3, <2>4, <2>5 DEF TypeOK
<1>w. WaitOrPrompt => main' \in Locals
  BY <1>t, LocalsSet, Zero DEF WaitOrPrompt
<1>5. CASE RunRelease
  BY <1>5, <1>t, <1>w DEF RunRelease, TypeOK
<1> QED
  BY <1>1, <1>2, <1>3, <1>4, <1>5

(* The steps of do_bgfg, waitfg and quit.                                  *)
LEMMA JobCommandTyped ==
  ASSUME TypeOK, MainKnows,
         \/ \E cmd \in {"FG", "BG"} : JobByPid(cmd) \/ JobByJid(cmd)
         \/ JobBlock \/ JobCont \/ JobRelease \/ JobSetState \/ WaitStart \/ WaitDone \/ Quit
  PROVE  TypeOK'
<1> USE DEF list, kernel, signals
<1>t. /\ TypeOK /\ main \in Locals /\ stack \in Seq(Frame) /\ mask \in SUBSET Sigs
      /\ main.slot \in 0..MAXJOBS /\ main.pid \in 0..MaxPids /\ main.prev \subseteq Sigs
      /\ {"jobblock", "cont", "jobrelease", "setstate", "poll", "waitfg"} \subseteq MainLabels
  BY DEF TypeOK, Locals, MainLabels
<1>1. ASSUME NEW cmd \in {"FG", "BG"}, NEW i \in 0..MAXJOBS, NEW p \in 0..MaxPids,
             FindJob(cmd, i, p)
      PROVE  TypeOK'
  <2>1. main' \in Locals
    BY <1>1, <1>t, LocalsSet, Zero DEF FindJob
  <2> QED
    BY <1>1, <2>1 DEF FindJob, TypeOK
<1>2. ASSUME NEW cmd \in {"FG", "BG"}, JobByPid(cmd) PROVE TypeOK'
  <2>1. PICK p \in Pids : FindJob(cmd, getjobpid(jobs, p), p)
    BY <1>2 DEF JobByPid
  <2>2. getjobpid(jobs, p) \in 0..MAXJOBS /\ p \in 0..MaxPids
    BY FoundSlot, JobListAssumption DEF Pids, JobListAssumption
  <2> QED
    BY <2>1, <2>2, <1>1
<1>3. ASSUME NEW cmd \in {"FG", "BG"}, JobByJid(cmd) PROVE TypeOK'
  <2>1. PICK j : getjobjid(jobs, j) # 0 /\ FindJob(cmd, getjobjid(jobs, j), 0)
    BY <1>3 DEF JobByJid
  <2>2. getjobjid(jobs, j) \in 0..MAXJOBS
    BY <2>1, FoundJid, JobListAssumption DEF Slot, JobListAssumption
  <2> QED
    BY <2>1, <2>2, <1>1, Zero
<1>4. CASE JobBlock
  <2>1. main' \in Locals
    BY <1>4, <1>t, LocalsSet, Zero DEF JobBlock
  <2> QED
    BY <1>4, <2>1 DEF JobBlock, TypeOK, Sigs
<1>5. CASE JobCont
  <2>1. main' \in Locals
    BY <1>5, <1>t, LocalsSet, Zero DEF JobCont, MainTo
  <2> DEFINE p == jobs[main.slot].pid
  <2>2. KillCont(p) /\ UNCHANGED <<list, mask, stack, up, hits, user>>
    BY <1>5 DEF JobCont
  <2> HIDE DEF p
  <2>3. /\ kern' \in [Pids -> {"free", "run", "stopped", "zombie", "gone"}]
        /\ stopped' \in [Pids -> BOOLEAN] /\ pend' \subseteq Sigs
    BY <2>2 DEF KillCont, TypeOK, Sigs
  <2> QED
    BY <2>1, <2>2, <2>3 DEF KillCont, TypeOK
<1>6. CASE JobRelease
  <2>1. main' \in Locals
    BY <1>6, <1>t, LocalsSet, Zero DEF JobRelease, MainTo
  <2> QED
    BY <1>6, <1>t, <2>1 DEF JobRelease, TypeOK
<1>w. WaitOrPrompt => main' \in Locals
  BY <1>t, LocalsSet, Zero DEF WaitOrPrompt
<1>7. CASE JobSetState
  <2>1. main.cmd \in States
    BY <1>7 DEF JobSetState, At, MainKnows, States
  <2>2. jobs' \in [Slot -> JobType]
    BY <1>7, <2>1, JobsSet, Zero DEF JobSetState, TypeOK
  <2> QED
    BY <1>7, <2>2, <1>w DEF JobSetState, TypeOK
<1>8. CASE WaitStart
  <2>1. getjobpid(jobs, main.pid) \in 0..MAXJOBS
    BY FoundSlot
  <2>2. main' \in Locals
    BY <1>8, <2>1, <1>t, LocalsSet, Zero DEF WaitStart
  <2> QED
    BY <1>8, <2>2 DEF WaitStart, TypeOK
<1>9. CASE WaitDone
  <2>1. main' \in Locals
    BY <1>9, <1>t, LocalsSet, Zero DEF WaitDone
  <2> QED
    BY <1>9, <2>1 DEF WaitDone, TypeOK
<1>10. CASE Quit
  BY <1>10 DEF Quit, TypeOK
<1> QED
  BY <1>2, <1>3, <1>4, <1>5, <1>6, <1>7, <1>8, <1>9, <1>10

(* Every step keeps the types.                                             *)
LEMMA TypesKept ==
  ASSUME TypeOK, MainKnows, [Next]_vars
  PROVE  TypeOK'
<1>1. CASE UNCHANGED vars
  BY <1>1 DEF vars, TypeOK
<1> QED
  BY <1>1, KernelTyped, ReturnTyped, ChldWaitTyped, ChldUpdateTyped, ChldClearRestTyped,
     FwdTyped, RunTyped, JobCommandTyped
     DEF Next, Handlers, Types, Main

-----------------------------------------------------------------------------
(* Steps of the job list.                                                  *)

ListInv == Listed /\ HandlersKnow /\ MainKnows

SameChildren == /\ nextpid' = nextpid
                /\ \A p \in Pids : /\ kern'[p] = "free" <=> kern[p] = "free"
                                   /\ kern'[p] = "gone" <=> kern[p] = "gone"

SamePids == \A i \in Slot : jobs'[i].pid = jobs[i].pid

(* No two sigchld_handlers run at once, and none while main blocks SIGCHLD. *)
LEMMA OneReaper ==
  ASSUME TypeOK, MaskInv, stack # <<>>, top.sig = "CHLD"
  PROVE  /\ main.at \notin Blocking
         /\ \A k \in Depth : stack[k].sig = "CHLD" => k = Len(stack)
<1>1. Len(stack) \in Depth /\ top = stack[Len(stack)] /\ Len(stack) \in Nat
  BY TopIs
<1>2. "CHLD" \notin top.saved /\ MainMask \subseteq top.saved
  BY <1>1 DEF MaskInv, Nested
<1>3. main.at \notin Blocking
  BY <1>2 DEF MainMask
<1>4. ASSUME NEW k \in Depth, stack[k].sig = "CHLD", k # Len(stack) PROVE FALSE
  <2>1. k < Len(stack)
    BY <1>1, <1>4 DEF Depth
  <2> QED
    BY <2>1, <1>1, <1>2, <1>4 DEF MaskInv, Nested
<1> QED
  BY <1>3, <1>4

(* The children not reaped yet are the same when the kernel has not        *)
(* changed them.                                                           *)
LEMMA UnreapedSame ==
  ASSUME TypeOK, TypeOK', SameChildren
  PROVE  \A p \in Pids : Unreaped(p)' <=> Unreaped(p)
<1>1. \A p \in Pids : Unreaped(p) <=> kern[p] \notin {"free", "gone"}
  BY DEF TypeOK, Unreaped
<1>2. \A p \in Pids : Unreaped(p)' <=> kern'[p] \notin {"free", "gone"}
  BY DEF TypeOK, Unreaped
<1> QED
  BY <1>1, <1>2 DEF SameChildren

(* The list stays right when children, process IDs, and the jobs on their  *)
(* way in and out stay.                                                    *)
LEMMA ListedStays ==
  ASSUME TypeOK, TypeOK', Listed, SameChildren, SamePids,
         \A p : Ending(p)' <=> Ending(p),
         \A p : Adding(p)' <=> Adding(p)
  PROVE  Listed'
<1>1. \A p \in Pids : Unreaped(p)' <=> Unreaped(p)
  BY UnreapedSame
<1>2. \A i \in Slot : jobs[i].pid # 0 => jobs[i].pid \in Pids
  BY JobTyped
<1>3. \A p \in Pids : kern'[p] = "free" <=> p >= nextpid'
  BY DEF Listed, SameChildren
<1>4. \A i, k \in Slot : jobs'[i].pid # 0 /\ jobs'[i].pid = jobs'[k].pid => i = k
  BY DEF Listed, SamePids
<1>5. \A p \in Pids : (Unreaped(p)' \/ Ending(p)') /\ ~Adding(p)' =>
        \E i \in Slot : jobs'[i].pid = p
  BY <1>1 DEF Listed, SamePids
<1>6. \A i \in Slot, p \in Pids : jobs'[i].pid = p => Unreaped(p)' \/ Ending(p)'
  BY <1>1 DEF Listed, SamePids
<1> QED
  BY <1>3, <1>4, <1>5, <1>6 DEF Listed

(* A step that reaps no child and changes no job's process ID, while main  *)
(* does not run: a handler of another signal, the kernel, the user.        *)
LEMMA QuietStep ==
  ASSUME TypeOK, TypeOK', ListInv, SameChildren, SamePids, main' = main,
         user'.programs <= user.programs,
         \A k \in Depth' : stack'[k].sig = "CHLD" /\ stack'[k].at \in {"ended", "stopped", "clear"}
                             => k \in Depth /\ stack'[k] = stack[k],
         \A k \in Depth : stack[k].sig = "CHLD" /\ stack[k].at = "ended"
                             => k \in Depth' /\ stack'[k] = stack[k]
  PROVE  ListInv'
<1>1. \A p : Ending(p)' <=> Ending(p)
  BY DEF Ending
<1>2. \A p : Adding(p)' <=> Adding(p)
  BY DEF Adding
<1>3. Listed'
  BY <1>1, <1>2, ListedStays DEF ListInv
<1>4. \A p \in Pids : Unreaped(p)' <=> Unreaped(p)
  BY UnreapedSame
<1>5. HandlersKnow'
  <2>1. ASSUME NEW k \in Depth', stack'[k].sig = "CHLD" PROVE HandlerKnows(k)'
    <3>1. CASE stack'[k].at \notin {"ended", "stopped", "clear"}
      BY <3>1 DEF HandlerKnows
    <3>2. CASE stack'[k].at \in {"ended", "stopped", "clear"}
      <4>1. k \in Depth /\ stack'[k] = stack[k]
        BY <2>1, <3>2
      <4>2. HandlerKnows(k)
        BY <4>1, <2>1 DEF ListInv, HandlersKnow
      <4> QED
        BY <4>1, <4>2, <1>4 DEF HandlerKnows, SameChildren, SamePids, Unreaped
    <3> QED
      BY <3>1, <3>2
  <2> QED
    BY <2>1 DEF HandlersKnow
<1>6. MainKnows'
  <2>1. main.at = "add" => /\ main.pid \in Pids /\ kern'[main.pid] \in {"run", "stopped", "zombie"}
                           /\ \A i \in Slot : jobs'[i].pid # main.pid
    BY <1>4 DEF ListInv, MainKnows, SamePids, Unreaped
  <2>2. main.at = "fill" => main.slot \in Slot /\ jobs'[main.slot].pid = main.pid
    BY DEF ListInv, MainKnows, SamePids
  <2>3. nextpid' + user'.programs + Forking' <= MaxPids + 1
    <3>1. /\ nextpid \in Nat /\ user.programs \in Nat /\ user'.programs \in Nat /\ MaxPids \in Nat
          /\ Forking \in Nat /\ Forking' = Forking /\ nextpid' = nextpid
      BY JobListAssumption DEF TypeOK, User, Forking, SameChildren, JobListAssumption
    <3>2. nextpid + user.programs + Forking <= MaxPids + 1
      BY DEF ListInv, MainKnows
    <3> QED
      BY <3>1, <3>2
  <2> QED
    BY <2>1, <2>2, <2>3 DEF ListInv, MainKnows, Unreaped
<1> QED
  BY <1>3, <1>5, <1>6 DEF ListInv

(* A step of main other than fork, addjob's first half and what follows it. *)
LEMMA MainStep ==
  ASSUME TypeOK, TypeOK', ListInv, SameChildren, SamePids, stack = <<>>, stack' = stack,
         main.at # "add", main'.at # "add"
  PROVE  Listed' /\ HandlersKnow'
<1>1. Depth = {} /\ Depth' = {}
  BY EmptySeq DEF Depth
<1>2. \A p : (Ending(p)' <=> Ending(p)) /\ (Adding(p)' <=> Adding(p))
  BY <1>1 DEF Ending, Adding
<1>3. Listed'
  BY <1>2, ListedStays DEF ListInv
<1> QED
  BY <1>1, <1>3 DEF HandlersKnow

-----------------------------------------------------------------------------
(* The handlers' steps.                                                    *)

(* Children join their groups, stop and end, and the user presses keys.    *)
LEMMA KernelListed ==
  ASSUME TypeOK, TypeOK', ListInv, Kernel
  PROVE  ListInv'
<1>1. stack' = stack /\ Depth' = Depth /\ jobs' = jobs /\ main' = main
  BY DEF Kernel, ChildSetpgid, ChildEnds, ChildStops, TypeKey, list, Depth
<1>2. SameChildren
  BY DEF Kernel, ChildSetpgid, ChildEnds, ChildStops, TypeKey, kernel, SameChildren, TypeOK
<1>3. user'.programs <= user.programs
  <2>1. user \in User
    BY DEF TypeOK
  <2>2. user'.programs = user.programs /\ user.programs \in Int
    BY <2>1 DEF Kernel, ChildSetpgid, ChildEnds, ChildStops, TypeKey, User
  <2> QED
    BY <2>2
<1>4. SamePids
  BY <1>1 DEF SamePids
<1> QED
  BY <1>1, <1>2, <1>3, <1>4, QuietStep

(* The children and the list of a handler that leaves them alone.          *)
LEMMA HandlerStep ==
  ASSUME TypeOK, TypeOK', ListInv, SameChildren, SamePids, main' = main, user' = user,
         stack # <<>>, NEW f \in Frame, SetTop(f),
         top.sig = "CHLD" => top.at # "ended",
         f.sig = "CHLD" => f.at \notin {"ended", "stopped", "clear"}
  PROVE  ListInv'
<1>1. /\ Depth' = Depth
      /\ \A k \in Depth : stack'[k] = IF k = Len(stack) THEN f ELSE stack[k]
  BY GoesOn
<1>2. top = stack[Len(stack)]
  BY TopIs
<1>3. user'.programs <= user.programs
  BY DEF TypeOK, User
<1> QED
  BY <1>1, <1>2, <1>3, QuietStep

(* A handler starts, or returns.                                           *)
LEMMA DeliverReturnListed ==
  ASSUME TypeOK, TypeOK', ListInv, (\E s \in Sigs : Deliver(s)) \/ Return
  PROVE  ListInv'
<1>1. /\ SameChildren /\ SamePids /\ main' = main /\ stack \in Seq(Frame)
      /\ user'.programs <= user.programs
  <2>1. SameChildren /\ SamePids /\ main' = main /\ user' = user /\ stack \in Seq(Frame)
    BY DEF Deliver, Return, SameChildren, SamePids, kernel, list, TypeOK
  <2>2. user.programs \in Int
    BY DEF TypeOK, User
  <2> QED
    BY <2>1, <2>2
<1>2. ASSUME NEW s \in Sigs, Deliver(s) PROVE ListInv'
  <2> DEFINE f == [sig |-> s, at |-> "start", saved |-> mask,
                   prev |-> {}, slot |-> 0, pid |-> 0]
             n == Len(stack)
  <2>1. f \in Frame /\ stack' = Append(stack, f) /\ f.at = "start"
    BY <1>2, Zero DEF Deliver, Frame, FrameLabels, TypeOK
  <2> HIDE DEF f
  <2>2. /\ n \in Nat /\ Len(stack') = n + 1 /\ stack'[Len(stack')] = f
        /\ \A k \in 1..n : stack'[k] = stack[k]
    BY <2>1, <1>1, StackPush
  <2>3. Depth = 1..n /\ Depth' = 1..n + 1 /\ stack'[n + 1] = f
    BY <2>2 DEF Depth
  <2> HIDE DEF n
  <2>4. \A k \in Depth' : k \in Depth \/ k = n + 1
    BY <2>2, <2>3
  <2>5. \A k \in Depth : k \in Depth' /\ stack'[k] = stack[k]
    BY <2>2, <2>3
  <2> QED
    BY <1>1, <2>1, <2>3, <2>4, <2>5, QuietStep
<1>3. CASE Return
  <2> DEFINE n == Len(stack)
  <2>1. stack # <<>> /\ stack' = Front(stack) /\ top.at = "return"
    BY <1>3 DEF Return, Running
  <2>2. /\ n \in Nat \ {0} /\ Len(stack') = n - 1
        /\ \A k \in 1..Len(stack') : stack'[k] = stack[k]
    BY <2>1, <1>1, StackTop, StackPop
  <2>3. Depth = 1..n /\ Depth' = 1..n - 1 /\ top = stack[n]
    BY <2>2 DEF Depth, top
  <2> HIDE DEF n
  <2>4. /\ \A k \in Depth' : k \in Depth /\ stack'[k] = stack[k]
        /\ \A k \in Depth : k # n => k \in Depth'
    BY <2>2, <2>3
  <2> QED
    BY <1>1, <2>1, <2>3, <2>4, QuietStep
<1> QED
  BY <1>2, <1>3

(* The handlers of SIGINT and SIGTSTP forward the signal.                  *)
LEMMA FwdListed ==
  ASSUME TypeOK, TypeOK', ListInv, FwdBlock \/ FwdKill \/ FwdRelease
  PROVE  ListInv'
<1>1. /\ stack # <<>> /\ top.sig \in Fwd /\ main' = main /\ user' = user /\ jobs' = jobs
  BY DEF FwdBlock, FwdKill, FwdRelease, Running, list
<1>2. PICK f \in Frame : SetTop(f) /\ f.sig = top.sig
  <2>1. \/ SetTop([top EXCEPT !.at = "kill", !.prev = mask])
        \/ SetTop([top EXCEPT !.at = "release"])
        \/ SetTop([top EXCEPT !.at = "return"])
    BY DEF FwdBlock, FwdKill, FwdRelease
  <2>2. mask \in SUBSET Sigs /\ {"kill", "release", "return"} \subseteq FrameLabels
    BY DEF TypeOK, FrameLabels
  <2>3. /\ [top EXCEPT !.at = "kill", !.prev = mask] \in Frame
        /\ [top EXCEPT !.at = "release"] \in Frame /\ [top EXCEPT !.at = "return"] \in Frame
    BY <1>1, <2>2, TopIs, FrameSet, Zero
  <2>4. /\ [top EXCEPT !.at = "kill", !.prev = mask].sig = top.sig
        /\ [top EXCEPT !.at = "release"].sig = top.sig
        /\ [top EXCEPT !.at = "return"].sig = top.sig
    BY <1>1, TopIs DEF Frame
  <2> QED
    BY <2>1, <2>3, <2>4
<1>3. SameChildren
  <2>1. CASE FwdBlock \/ FwdRelease
    BY <2>1 DEF FwdBlock, FwdRelease, kernel, SameChildren
  <2>2. CASE FwdKill
    <3>1. KillGroups(hits', top.sig)
      BY <2>2 DEF FwdKill
    <3> HIDE DEF top
    <3>2. PICK C \in SUBSET {p \in hits' \ {0} : kern[p] = "run" /\ led[p]} :
            kern' = [p \in Pids |-> IF p \in C
                                    THEN IF top.sig = "INT" THEN "zombie" ELSE "stopped"
                                    ELSE kern[p]]
      BY <3>1 DEF KillGroups
    <3>3. nextpid' = nextpid
      BY <3>1 DEF KillGroups
    <3>4. \A p \in Pids : IF p \in C THEN kern[p] = "run" /\ kern'[p] \in {"zombie", "stopped"}
                          ELSE kern'[p] = kern[p]
      BY <3>2
    <3> QED
      BY <3>3, <3>4 DEF SameChildren
  <2> QED
    BY <2>1, <2>2
<1>4. SamePids
  BY <1>1 DEF SamePids
<1> QED
  BY <1>1, <1>2, <1>3, <1>4, HandlerStep DEF Fwd

(* waitpid reaps a child: its slot is now the one the handler is to clear. *)
LEMMA ChldWaitListed ==
  ASSUME TypeOK, TypeOK', MaskInv, ListInv, ChldWait
  PROVE  ListInv'
<1>0. /\ stack # <<>> /\ top.sig = "CHLD" /\ top.at = "start"
      /\ main' = main /\ user' = user /\ jobs' = jobs /\ SamePids
  BY DEF ChldWait, Running, list, SamePids
<1>1. CASE Waitable = {}
  <2>1. SetTop([top EXCEPT !.at = "return"]) /\ SameChildren
    BY <1>1 DEF ChldWait, kernel, SameChildren
  <2>2. [top EXCEPT !.at = "return"] \in Frame /\ [top EXCEPT !.at = "return"].at = "return"
    BY <1>0, TopIs DEF Frame, FrameLabels
  <2> QED
    BY <1>0, <2>1, <2>2, HandlerStep
<1>2. CASE Waitable # {}
  <2>1. PICK p \in Waitable :
          /\ SetTop([top EXCEPT !.at = IF kern[p] = "zombie" THEN "ended" ELSE "stopped",
                                !.pid = p])
          /\ kern' = [kern EXCEPT ![p] = IF @ = "zombie" THEN "gone" ELSE @]
          /\ UNCHANGED <<led, nextpid>>
    BY <1>2 DEF ChldWait
  <2> DEFINE a == IF kern[p] = "zombie" THEN "ended" ELSE "stopped"
             f == [top EXCEPT !.at = a, !.pid = p]
             n == Len(stack)
  <2>2. p \in Pids /\ kern[p] \in {"zombie", "stopped"} /\ p \in 0..MaxPids
    BY JobListAssumption DEF Waitable, Pids, JobListAssumption
  <2>3. a \in FrameLabels /\ a \in {"ended", "stopped"} /\ (a = "ended" <=> kern[p] = "zombie")
    BY DEF FrameLabels
  <2>4. SetTop(f)
    BY <2>1
  <2> HIDE DEF a
  <2>5. f \in Frame /\ f.sig = "CHLD" /\ f.at = a /\ f.pid = p
    BY <1>0, <2>2, <2>3, TopIs DEF Frame
  <2> HIDE DEF f
  <2>6. /\ Depth' = Depth /\ n \in Depth /\ top = stack[n]
        /\ \A k \in Depth : stack'[k] = IF k = n THEN f ELSE stack[k]
    BY <1>0, <2>4, <2>5, GoesOn, TopIs
  <2> HIDE DEF n
  <2>7. main.at \notin Blocking /\ \A k \in Depth : stack[k].sig = "CHLD" => k = n
    BY <1>0, OneReaper DEF n
  <2>8. \A q : ~Ending(q) /\ ~Adding(q) /\ ~Adding(q)' /\ (Ending(q)' <=> a = "ended" /\ q = p)
    BY <1>0, <2>5, <2>6, <2>7 DEF Ending, Adding, Blocking
  <2>9. \A q \in Pids : /\ q # p => kern'[q] = kern[q]
                        /\ kern'[p] = IF a = "ended" THEN "gone" ELSE "stopped"
    BY <2>1, <2>2, <2>3 DEF TypeOK
  <2>10. \A q \in Pids : Unreaped(q)' <=> Unreaped(q) /\ ~(a = "ended" /\ q = p)
    BY <2>2, <2>3, <2>9 DEF Unreaped
  <2>11. Listed'
    <3>1. \A q \in Pids : kern'[q] = "free" <=> q >= nextpid'
      BY <2>1, <2>2, <2>3, <2>9 DEF ListInv, Listed
    <3>2. \A q \in Pids : (Unreaped(q)' \/ Ending(q)') /\ ~Adding(q)' =>
            \E i \in Slot : jobs'[i].pid = q
      <4> SUFFICES ASSUME NEW q \in Pids, Unreaped(q)' \/ Ending(q)'
                   PROVE  \E i \in Slot : jobs'[i].pid = q
        OBVIOUS
      <4>1. Unreaped(q)
        BY <2>2, <2>8, <2>10 DEF Unreaped
      <4> QED
        BY <4>1, <2>8, <1>0 DEF ListInv, Listed
    <3>3. \A i \in Slot, q \in Pids : jobs'[i].pid = q => Unreaped(q)' \/ Ending(q)'
      BY <1>0, <2>8, <2>10 DEF ListInv, Listed
    <3> QED
      BY <1>0, <3>1, <3>2, <3>3 DEF ListInv, Listed
  <2>12. HandlersKnow'
    <3> SUFFICES ASSUME NEW k \in Depth', stack'[k].sig = "CHLD" PROVE HandlerKnows(k)'
      BY DEF HandlersKnow
    <3>1. k = n /\ stack'[k] = f
      BY <2>6, <2>7
    <3>2. a = "stopped" => kern'[p] = "stopped"
      BY <2>2, <2>9
    <3> QED
      BY <3>1, <3>2, <2>2, <2>3, <2>5, <2>9 DEF HandlerKnows, Unreaped
  <2>13. MainKnows'
    <3>1. main.at \notin {"add", "fill", "fork"}
      BY <2>7 DEF Blocking
    <3> QED
      BY <1>0, <2>1, <3>1 DEF ListInv, MainKnows, Forking
  <2> QED
    BY <2>11, <2>12, <2>13 DEF ListInv
<1> QED
  BY <1>1, <1>2

(* The handler writes the state of a stopped job, or clears the process ID *)
(* of one that ended.                                                      *)
LEMMA ChldUpdateListed ==
  ASSUME TypeOK, TypeOK', MaskInv, ListInv, ChldUpdate
  PROVE  ListInv'
<1> DEFINE i == getjobpid(jobs, top.pid)
           n == Len(stack)
<1>0. /\ stack # <<>> /\ top.sig = "CHLD" /\ top.at \in {"ended", "stopped"}
      /\ main' = main /\ user' = user /\ SameChildren
  BY DEF ChldUpdate, Running, kernel, SameChildren
<1>1. /\ i = 0 => UNCHANGED <<jobs, stack>>
      /\ i # 0 => i \in Slot /\ jobs[i].pid = top.pid
      /\ ~(top.pid < 1) => \A k \in Slot : jobs[k].pid = top.pid => i # 0
  BY FoundSlot DEF ChldUpdate
<1>2. CASE i = 0
  <2>1. Depth' = Depth /\ stack' = stack /\ SamePids /\ user'.programs <= user.programs
    BY <1>0, <1>1, <1>2 DEF Depth, SamePids, TypeOK, User
  <2> QED
    BY <1>0, <2>1, QuietStep
<1>3. CASE i # 0 /\ top.at = "stopped"
  <2>1. jobs' = [jobs EXCEPT ![i].state = "ST"] /\ SetTop([top EXCEPT !.at = "return"])
    BY <1>3 DEF ChldUpdate
  <2>2. [top EXCEPT !.at = "return"] \in Frame /\ [top EXCEPT !.at = "return"].at = "return"
    BY <1>0, TopIs DEF Frame, FrameLabels
  <2> HIDE DEF i
  <2>3. SamePids
    BY <2>1, JobTyped DEF SamePids, TypeOK, JobType
  <2> QED
    BY <1>0, <1>3, <2>1, <2>2, <2>3, HandlerStep
<1>4. CASE i # 0 /\ top.at = "ended"
  <2> DEFINE f == [top EXCEPT !.at = "clear", !.slot = i]
  <2>1. jobs' = [jobs EXCEPT ![i].pid = 0] /\ SetTop(f)
    BY <1>4 DEF ChldUpdate
  <2>2. i \in Slot /\ jobs[i].pid = top.pid /\ i \in 0..MAXJOBS
    BY <1>1, <1>4, JobListAssumption DEF Slot, JobListAssumption
  <2> HIDE DEF i
  <2>3. f \in Frame /\ f.sig = "CHLD" /\ f.at = "clear" /\ f.slot = i
    BY <1>0, <2>2, TopIs DEF Frame, FrameLabels
  <2> HIDE DEF f
  <2>4. /\ Depth' = Depth /\ n \in Depth /\ top = stack[n]
        /\ \A k \in Depth : stack'[k] = IF k = n THEN f ELSE stack[k]
    BY <1>0, <2>1, <2>3, GoesOn, TopIs
  <2> HIDE DEF n
  <2>5. main.at \notin Blocking /\ \A k \in Depth : stack[k].sig = "CHLD" => k = n
    BY <1>0, OneReaper DEF n
  <2>6. \A k \in Slot : jobs'[k].pid = IF k = i THEN 0 ELSE jobs[k].pid
    BY <2>1, <2>2 DEF TypeOK, JobType
  <2>7. top.pid \in Pids /\ kern[top.pid] = "gone"
    BY <1>0, <1>4, <2>4 DEF ListInv, HandlersKnow, HandlerKnows
  <2>8. \A q : /\ Ending(q) <=> q = top.pid
               /\ ~Ending(q)' /\ ~Adding(q) /\ ~Adding(q)'
    BY <1>0, <1>4, <2>3, <2>4, <2>5 DEF Ending, Adding, Blocking
  <2>9. \A q \in Pids : Unreaped(q)' <=> Unreaped(q)
    BY <1>0, UnreapedSame
  <2>10. Listed'
    <3>1. \A q \in Pids : kern'[q] = "free" <=> q >= nextpid'
      BY <1>0 DEF SameChildren, ListInv, Listed
    <3>2. \A j, k \in Slot : jobs'[j].pid # 0 /\ jobs'[j].pid = jobs'[k].pid => j = k
      BY <2>6 DEF ListInv, Listed
    <3>3. \A q \in Pids : (Unreaped(q)' \/ Ending(q)') /\ ~Adding(q)' =>
            \E k \in Slot : jobs'[k].pid = q
      <4> SUFFICES ASSUME NEW q \in Pids, Unreaped(q)
                   PROVE  \E k \in Slot : jobs'[k].pid = q
        BY <2>8, <2>9
      <4>1. q # top.pid
        BY <2>7 DEF Unreaped
      <4>2. PICK k \in Slot : jobs[k].pid = q
        BY <2>8 DEF ListInv, Listed
      <4> QED
        BY <4>1, <4>2, <2>2, <2>6
    <3>4. \A k \in Slot, q \in Pids : jobs'[k].pid = q => Unreaped(q)' \/ Ending(q)'
      <4> SUFFICES ASSUME NEW k \in Slot, NEW q \in Pids, jobs'[k].pid = q PROVE Unreaped(q)
        BY <2>9
      <4>1. q # 0
        BY JobListAssumption DEF Pids, JobListAssumption
      <4>2. k # i /\ jobs[k].pid = q
        BY <4>1, <2>6
      <4>3. q # top.pid
        BY <4>1, <4>2, <2>2 DEF ListInv, Listed
      <4> QED
        BY <4>2, <4>3, <2>8 DEF ListInv, Listed
    <3> QED
      BY <3>1, <3>2, <3>3, <3>4 DEF Listed
  <2>11. HandlersKnow'
    <3> SUFFICES ASSUME NEW k \in Depth', stack'[k].sig = "CHLD" PROVE HandlerKnows(k)'
      BY DEF HandlersKnow
    <3>1. k = n /\ stack'[k] = f
      BY <2>4, <2>5
    <3> QED
      BY <3>1, <2>2, <2>3, <2>6 DEF HandlerKnows
  <2>12. MainKnows'
    <3>1. main.at \notin {"add", "fill", "fork"}
      BY <2>5 DEF Blocking
    <3> QED
      BY <1>0, <3>1 DEF ListInv, MainKnows, Forking, SameChildren
  <2> QED
    BY <2>10, <2>11, <2>12 DEF ListInv
<1> QED
  BY <1>0, <1>2, <1>3, <1>4

(* The handler clears the rest of the slot.                                *)
LEMMA ChldClearRestListed ==
  ASSUME TypeOK, TypeOK', ListInv, ChldClearRest
  PROVE  ListInv'
<1>1. /\ stack # <<>> /\ top.sig = "CHLD" /\ top.at = "clear"
      /\ main' = main /\ user' = user /\ SameChildren
      /\ jobs' = cleared(jobs, top.slot) /\ SetTop([top EXCEPT !.at = "return"])
  BY DEF ChldClearRest, Running, kernel, SameChildren
<1>2. [top EXCEPT !.at = "return"] \in Frame /\ [top EXCEPT !.at = "return"].at = "return"
  BY <1>1, TopIs DEF Frame, FrameLabels
<1>3. top.slot \in Slot /\ jobs[top.slot].pid = 0
  BY <1>1, TopIs DEF ListInv, HandlersKnow, HandlerKnows
<1>4. SamePids
  BY <1>1, <1>3 DEF SamePids, cleared, EmptyJob, TypeOK
<1> QED
  BY <1>1, <1>2, <1>4, HandlerStep

-----------------------------------------------------------------------------
(* The steps of main.                                                      *)

(* The types of the numbers that bound the children.                       *)
LEMMA BudgetIs ==
  ASSUME TypeOK
  PROVE  /\ nextpid \in Nat /\ user.programs \in Nat /\ MaxPids \in Nat
         /\ user.programs \in Int
BY JobListAssumption DEF TypeOK, User, JobListAssumption

(* main moves on with no program starting: what it has to know at the      *)
(* label it reaches, when that is not where a child has just been forked   *)
(* or added.                                                               *)
LEMMA MainMoves ==
  ASSUME TypeOK, TypeOK', ListInv, SameChildren, SamePids, stack = <<>>, stack' = stack,
         main.at \notin {"fork", "add"}, main'.at \notin {"fork", "add", "fill"},
         user' = user,
         main'.at # "prompt" => main'.cmd \in {"FG", "BG"},
         main'.at \in {"jobblock", "cont", "jobrelease", "setstate", "poll"} => main'.slot \in Slot
  PROVE  ListInv'
<1>1. Listed' /\ HandlersKnow'
  BY MainStep
<1>2. Forking = 0 /\ Forking' = 0 /\ nextpid' = nextpid
  BY DEF Forking, SameChildren
<1>3. MainKnows'
  BY <1>2 DEF ListInv, MainKnows
<1> QED
  BY <1>1, <1>3 DEF ListInv

(* eval blocks SIGCHLD.                                                    *)
LEMMA RunBlockListed ==
  ASSUME TypeOK, TypeOK', ListInv, NEW cmd \in {"FG", "BG"}, RunBlock(cmd)
  PROVE  ListInv'
<1>1. /\ stack = <<>> /\ stack' = stack /\ main.at = "prompt" /\ SameChildren /\ SamePids
      /\ user' = [user EXCEPT !.programs = @ - 1]
      /\ main' = [NoCmd EXCEPT !.cmd = cmd, !.at = "fork", !.prev = mask]
  BY DEF RunBlock, At, SameChildren, SamePids, kernel, list
<1>2. main'.at = "fork" /\ main'.cmd = cmd
  BY <1>1 DEF NoCmd
<1>3. Listed' /\ HandlersKnow'
  BY <1>1, <1>2, MainStep
<1>4. user'.programs = user.programs - 1 /\ nextpid' = nextpid
  BY <1>1 DEF TypeOK, User, SameChildren
<1>5. Forking = 0 /\ Forking' = 1
  BY <1>1, <1>2 DEF Forking
<1>6. nextpid' + user'.programs + Forking' <= MaxPids + 1
  <2>1. nextpid + user.programs + 0 <= MaxPids + 1
    BY <1>5 DEF ListInv, MainKnows
  <2> QED
    BY <2>1, <1>4, <1>5, BudgetIs
<1>7. MainKnows'
  BY <1>2, <1>6 DEF MainKnows
<1> QED
  BY <1>3, <1>7 DEF ListInv

(* eval forks: the child has no slot until addjob.                         *)
LEMMA RunForkListed ==
  ASSUME TypeOK, TypeOK', ListInv, RunFork
  PROVE  ListInv'
<1>1. /\ stack = <<>> /\ stack' = stack /\ main.at = "fork" /\ jobs' = jobs /\ user' = user
      /\ kern' = [kern EXCEPT ![nextpid] = "run"] /\ nextpid' = nextpid + 1
      /\ main' = [main EXCEPT !.at = "add", !.pid = nextpid]
  BY DEF RunFork, At, list
<1>2. Depth = {} /\ Depth' = {}
  BY <1>1, EmptySeq DEF Depth
<1>3. main'.at = "add" /\ main'.pid = nextpid /\ main'.cmd = main.cmd
  BY <1>1 DEF TypeOK, Locals
<1>4. Forking = 1 /\ Forking' = 0
  BY <1>1, <1>3 DEF Forking
<1>5. nextpid \in Pids /\ nextpid' + user'.programs + Forking' <= MaxPids + 1
  <2>1. nextpid + user.programs + 1 <= MaxPids + 1
    BY <1>4 DEF ListInv, MainKnows
  <2>2. nextpid >= 1
    BY DEF TypeOK
  <2> QED
    BY <2>1, <2>2, <1>1, <1>4, BudgetIs DEF Pids
<1>6. \A q \in Pids : kern'[q] = IF q = nextpid THEN "run" ELSE kern[q]
  BY <1>1 DEF TypeOK
<1>7. kern[nextpid] = "free"
  BY <1>5 DEF ListInv, Listed, Pids
<1>8. \A i \in Slot : jobs[i].pid # nextpid
  BY <1>2, <1>5, <1>7 DEF ListInv, Listed, Unreaped, Ending
<1>9. Listed'
  <2>1. \A q \in Pids : kern'[q] = "free" <=> q >= nextpid'
    <3> TAKE q \in Pids
    <3>1. q >= nextpid + 1 <=> q >= nextpid /\ q # nextpid
      BY BudgetIs DEF Pids
    <3> QED
      BY <3>1, <1>1, <1>6 DEF ListInv, Listed
  <2>2. \A q \in Pids : (Unreaped(q)' \/ Ending(q)') /\ ~Adding(q)' =>
          \E i \in Slot : jobs'[i].pid = q
    <3> SUFFICES ASSUME NEW q \in Pids, Unreaped(q)', q # nextpid
                 PROVE  \E i \in Slot : jobs'[i].pid = q
      BY <1>2, <1>3 DEF Ending, Adding
    <3>1. Unreaped(q) /\ ~Adding(q)
      BY <1>1, <1>6 DEF Unreaped, Adding
    <3> QED
      BY <3>1, <1>1 DEF ListInv, Listed
  <2>3. \A i \in Slot, q \in Pids : jobs'[i].pid = q => Unreaped(q)' \/ Ending(q)'
    <3> SUFFICES ASSUME NEW i \in Slot, NEW q \in Pids, jobs[i].pid = q
                 PROVE  Unreaped(q)'
      BY <1>1
    <3>1. Unreaped(q) /\ q # nextpid
      BY <1>2, <1>8 DEF ListInv, Listed, Ending
    <3> QED
      BY <3>1, <1>6 DEF Unreaped
  <2> QED
    BY <1>1, <2>1, <2>2, <2>3 DEF ListInv, Listed
<1>10. HandlersKnow'
  BY <1>2 DEF HandlersKnow
<1>11. MainKnows'
  <2>1. main'.cmd \in {"FG", "BG"}
    BY <1>1, <1>3 DEF ListInv, MainKnows
  <2>2. kern'[nextpid] = "run"
    BY <1>5, <1>6
  <2> QED
    BY <1>1, <1>3, <1>5, <1>8, <2>1, <2>2 DEF MainKnows, Unreaped
<1> QED
  BY <1>9, <1>10, <1>11 DEF ListInv

(* addjob puts the child into a free slot, or the list is full.            *)
LEMMA RunAddListed ==
  ASSUME TypeOK, TypeOK', ListInv, RunAdd
  PROVE  ListInv'
<1> DEFINE s == FreeSlot(jobs)
<1>1. /\ stack = <<>> /\ stack' = stack /\ main.at = "add" /\ user' = user
      /\ SameChildren /\ kern' = kern
      /\ IF s = 0 THEN UNCHANGED <<jobs, main>>
         ELSE /\ jobs' = [jobs EXCEPT ![s].pid = main.pid]
              /\ main' = [main EXCEPT !.at = "fill", !.slot = s]
  BY DEF RunAdd, At, kernel, SameChildren
<1>2. s # 0 => s \in Slot /\ jobs[s].pid = 0
  BY FreeSlotIs
<1> HIDE DEF s
<1>3. Depth = {} /\ Depth' = {}
  BY <1>1, EmptySeq DEF Depth
<1>4. CASE s = 0
  <2>1. SamePids /\ main' = main /\ user'.programs <= user.programs
    BY <1>1, <1>4, BudgetIs DEF SamePids
  <2> QED
    BY <1>1, <1>3, <2>1, QuietStep
<1>5. CASE s # 0
  <2>1. main'.at = "fill" /\ main'.slot = s /\ main'.pid = main.pid /\ main'.cmd = main.cmd
    BY <1>1, <1>5 DEF TypeOK, Locals
  <2>2. \A k \in Slot : jobs'[k].pid = IF k = s THEN main.pid ELSE jobs[k].pid
    BY <1>1, <1>2, <1>5 DEF TypeOK, JobType
  <2>3. main.pid \in Pids /\ Unreaped(main.pid) /\ \A i \in Slot : jobs[i].pid # main.pid
    BY <1>1 DEF ListInv, MainKnows
  <2>4. \A q \in Pids : Unreaped(q)' <=> Unreaped(q)
    BY <1>1 DEF Unreaped
  <2>5. \A q : /\ ~Ending(q) /\ ~Ending(q)' /\ (Adding(q) <=> q = main.pid) /\ ~Adding(q)'
    BY <1>1, <1>3, <2>1 DEF Ending, Adding
  <2>6. Listed'
    <3>1. \A q \in Pids : kern'[q] = "free" <=> q >= nextpid'
      BY <1>1 DEF SameChildren, ListInv, Listed
    <3>2. \A j, k \in Slot : jobs'[j].pid # 0 /\ jobs'[j].pid = jobs'[k].pid => j = k
      BY <2>2, <2>3 DEF ListInv, Listed
    <3>3. \A q \in Pids : (Unreaped(q)' \/ Ending(q)') /\ ~Adding(q)' =>
            \E k \in Slot : jobs'[k].pid = q
      <4> SUFFICES ASSUME NEW q \in Pids, Unreaped(q)
                   PROVE  \E k \in Slot : jobs'[k].pid = q
        BY <2>4, <2>5
      <4>1. CASE q = main.pid
        BY <4>1, <1>2, <1>5, <2>2
      <4>2. CASE q # main.pid
        <5>1. PICK k \in Slot : jobs[k].pid = q
          BY <4>2, <2>5 DEF ListInv, Listed
        <5>2. q # 0
          BY JobListAssumption DEF Pids, JobListAssumption
        <5>3. k # s
          BY <1>2, <1>5, <5>1, <5>2
        <5> QED
          BY <5>1, <5>3, <2>2
      <4> QED
        BY <4>1, <4>2
    <3>4. \A k \in Slot, q \in Pids : jobs'[k].pid = q => Unreaped(q)' \/ Ending(q)'
      BY <2>2, <2>3, <2>4, <2>5 DEF ListInv, Listed
    <3> QED
      BY <3>1, <3>2, <3>3, <3>4 DEF Listed
  <2>7. HandlersKnow'
    BY <1>3 DEF HandlersKnow
  <2>8. MainKnows'
    <3>1. Forking = 0 /\ Forking' = 0 /\ nextpid' = nextpid
      BY <1>1, <2>1 DEF Forking, SameChildren
    <3>2. main'.cmd \in {"FG", "BG"}
      BY <1>1, <2>1 DEF ListInv, MainKnows
    <3> QED
      BY <1>1, <1>2, <1>5, <2>1, <2>2, <3>1, <3>2 DEF ListInv, MainKnows
  <2> QED
    BY <2>6, <2>7, <2>8 DEF ListInv
<1> QED
  BY <1>4, <1>5

(* addjob fills the slot, and eval unblocks SIGCHLD.                       *)
LEMMA RunRestListed ==
  ASSUME TypeOK, TypeOK', ListInv, RunFill \/ RunRelease
  PROVE  ListInv'
<1>1. stack = <<>> /\ stack' = stack /\ user' = user /\ SameChildren
      /\ main.at \in {"fill", "runrelease"} /\ main \in Locals
  BY DEF RunFill, RunRelease, At, kernel, SameChildren, TypeOK
<1>2. main.cmd \in {"FG", "BG"}
  BY <1>1 DEF ListInv, MainKnows
<1>3. CASE RunFill
  <2>1. /\ main.slot \in Slot /\ jobs[main.slot].pid = main.pid
        /\ jobs' = filled(jobs, main.slot, nextjid, main.pid, main.cmd)
        /\ main' = [main EXCEPT !.at = "runrelease"]
    BY <1>3 DEF RunFill, MainTo, At, ListInv, MainKnows
  <2>2. SamePids
    BY <2>1 DEF SamePids, filled, TypeOK
  <2>3. main'.at = "runrelease" /\ main'.cmd = main.cmd
    BY <1>1, <2>1 DEF Locals
  <2> QED
    BY <1>1, <1>2, <2>2, <2>3, MainMoves
<1>4. CASE RunRelease
  <2>1. SamePids /\ ((main'.at = "waitfg" /\ main'.cmd = main.cmd) \/ main'.at = "prompt")
    BY <1>1, <1>4 DEF RunRelease, WaitOrPrompt, NoCmd, SamePids, list, Locals
  <2> QED
    BY <1>1, <1>2, <2>1, MainMoves
<1> QED
  BY <1>3, <1>4

(* do_bgfg, waitfg and quit change no process ID of the list.              *)
LEMMA JobCommandListed ==
  ASSUME TypeOK, TypeOK', ListInv,
         \/ \E cmd \in {"FG", "BG"} : JobByPid(cmd) \/ JobByJid(cmd)
         \/ JobBlock \/ JobCont \/ JobRelease \/ JobSetState \/ WaitStart \/ WaitDone \/ Quit
  PROVE  ListInv'
<1> USE DEF list, kernel
<1>t. main \in Locals
  BY DEF TypeOK
<1>g. ASSUME SameChildren, SamePids, stack = <<>>, stack' = stack, user' = user,
             main.at \notin {"fork", "add"}, main'.at \notin {"fork", "add", "fill"},
             main'.at # "prompt" => main'.cmd \in {"FG", "BG"},
             main'.at \in {"jobblock", "cont", "jobrelease", "setstate", "poll"} => main'.slot \in Slot
      PROVE  ListInv'
  BY <1>g, MainMoves
<1>1. ASSUME NEW cmd \in {"FG", "BG"}, NEW i \in Slot, NEW p, FindJob(cmd, i, p)
      PROVE  ListInv'
  BY <1>1, <1>g DEF FindJob, At, NoCmd, SameChildren, SamePids
<1>2. ASSUME NEW cmd \in {"FG", "BG"}, JobByPid(cmd) \/ JobByJid(cmd) PROVE ListInv'
  <2>1. CASE JobByPid(cmd)
    <3>1. PICK p \in Pids : /\ getjobpid(jobs, p) # 0
                            /\ FindJob(cmd, getjobpid(jobs, p), p)
      BY <2>1 DEF JobByPid
    <3>2. getjobpid(jobs, p) \in Slot
      BY <3>1, FoundSlot
    <3> QED
      BY <3>1, <3>2, <1>1
  <2>2. CASE JobByJid(cmd)
    <3>1. PICK j : getjobjid(jobs, j) # 0 /\ FindJob(cmd, getjobjid(jobs, j), 0)
      BY <2>2 DEF JobByJid
    <3>2. getjobjid(jobs, j) \in Slot
      BY <3>1, FoundJid
    <3> QED
      BY <3>1, <3>2, <1>1
  <2> QED
    BY <1>2, <2>1, <2>2
<1>3. CASE JobBlock
  BY <1>3, <1>t, <1>g DEF JobBlock, At, Locals, SameChildren, SamePids, ListInv, MainKnows
<1>4. CASE JobCont
  <2>1. /\ stack = <<>> /\ stack' = stack /\ user' = user /\ jobs' = jobs /\ main.at = "cont"
        /\ main' = [main EXCEPT !.at = "jobrelease"]
        /\ KillCont(jobs[main.slot].pid)
    BY <1>4 DEF JobCont, At, MainTo
  <2>2. SameChildren /\ SamePids
    BY <2>1 DEF KillCont, SameChildren, SamePids, TypeOK
  <2> QED
    BY <2>1, <2>2, <1>t, <1>g DEF Locals, ListInv, MainKnows
<1>5. CASE JobRelease
  BY <1>5, <1>t, <1>g DEF JobRelease, At, MainTo, Locals, SameChildren, SamePids, ListInv, MainKnows
<1>w. WaitOrPrompt => (main'.at = "waitfg" /\ main'.cmd = main.cmd) \/ main'.at = "prompt"
  BY <1>t DEF WaitOrPrompt, NoCmd, Locals
<1>6. CASE JobSetState
  <2>1. SamePids
    BY <1>6, JobTyped DEF JobSetState, SamePids, TypeOK, JobType
  <2> QED
    BY <1>6, <1>w, <2>1, <1>g DEF JobSetState, At, SameChildren, ListInv, MainKnows
<1>7. CASE WaitStart
  <2> DEFINE i == getjobpid(jobs, main.pid)
  <2>1. i # 0 => i \in Slot
    BY FoundSlot
  <2>2. main' = IF i = 0 THEN NoCmd ELSE [main EXCEPT !.at = "poll", !.slot = i]
    BY <1>7 DEF WaitStart
  <2> HIDE DEF i
  <2>3. \/ main'.at = "prompt"
        \/ main'.at = "poll" /\ main'.cmd = main.cmd /\ main'.slot \in Slot
    BY <2>1, <2>2, <1>t DEF NoCmd, Locals
  <2> QED
    BY <1>7, <2>3, <1>g DEF WaitStart, At, SameChildren, SamePids, ListInv, MainKnows
<1>8. CASE WaitDone
  BY <1>8, <1>g DEF WaitDone, At, NoCmd, SameChildren, SamePids, ListInv, MainKnows
<1>9. CASE Quit
  BY <1>9, <1>g DEF Quit, At, SameChildren, SamePids, ListInv, MainKnows
<1> QED
  BY <1>2, <1>3, <1>4, <1>5, <1>6, <1>7, <1>8, <1>9

-----------------------------------------------------------------------------
(* Every step keeps the list and what handlers and main know of it.        *)
LEMMA ListKept ==
  ASSUME TypeOK, TypeOK', MaskInv, ListInv, [Next]_vars
  PROVE  ListInv'
<1>1. CASE UNCHANGED vars
  <2>1. /\ SameChildren /\ SamePids /\ main' = main /\ stack' = stack /\ Depth' = Depth
        /\ user'.programs <= user.programs
    BY <1>1, BudgetIs DEF vars, SameChildren, SamePids, Depth
  <2> QED
    BY <2>1, QuietStep
<1> QED
  BY <1>1, KernelListed, DeliverReturnListed, ChldWaitListed, ChldUpdateListed,
     ChldClearRestListed, FwdListed, RunBlockListed, RunForkListed, RunAddListed,
     RunRestListed, JobCommandListed
     DEF Next, Handlers, Types, Main

(* The shell starts in the invariant.                                      *)
LEMMA TshStarts == Init => TshIInv
<1> SUFFICES ASSUME Init PROVE TshIInv
  OBVIOUS
<1> USE DEF Init, JobsInit
<1>1. stack = <<>> /\ Depth = {} /\ main = NoCmd
  BY EmptySeq DEF Depth
<1>2. user \in User
  BY TshAssumption DEF TshAssumption
<1>3. jobs \in [Slot -> JobType] /\ \A i \in Slot : jobs[i].pid = 0
  <2>1. EmptyJob \in JobType
    BY Zero DEF EmptyJob, JobType, States
  <2> QED
    BY <2>1 DEF initjobs, EmptyJob
<1>4. TypeOK
  <2>1. nextpid \in 1..MaxPids + 1
    BY JobListAssumption DEF JobListAssumption
  <2>2. main \in Locals
    <3>1. NoCmd \in Locals
      BY Zero DEF Locals, NoCmd, MainLabels
    <3> QED
      BY <3>1, <1>1
  <2>3. stack \in Seq(Frame)
    BY <1>1, EmptySeq
  <2> QED
    BY <1>2, <1>3, <2>1, <2>2, <2>3 DEF TypeOK
<1>5. MaskInv
  BY <1>1 DEF MaskInv, Masks, Nested, MainMask, NoCmd, Blocking
<1>6. Listed
  BY <1>1, <1>3, JobListAssumption DEF Listed, Unreaped, Ending, Pids, JobListAssumption
<1>7. HandlersKnow
  BY <1>1 DEF HandlersKnow
<1>8. MainKnows
  <2>1. Forking = 0 /\ user.programs \in 0..MaxPids
    BY <1>1, <1>2 DEF Forking, NoCmd, User
  <2>2. nextpid + user.programs + Forking <= MaxPids + 1
    BY <2>1, JobListAssumption DEF JobListAssumption
  <2> QED
    BY <1>1, <2>2 DEF MainKnows, NoCmd
<1> QED
  BY <1>4, <1>5, <1>6, <1>7, <1>8 DEF TshIInv

(* The invariant of the shell, whatever users type and children do.        *)
THEOREM TshIInvHolds == Spec => []TshIInv
<1>1. TshIInv /\ [Next]_vars => TshIInv'
  <2> SUFFICES ASSUME TshIInv, [Next]_vars PROVE TshIInv'
    OBVIOUS
  <2>1. TypeOK /\ MaskInv /\ ListInv
    BY DEF TshIInv, ListInv
  <2>2. TypeOK'
    BY <2>1, TypesKept DEF ListInv
  <2>3. MaskInv'
    BY <2>1, MasksKept
  <2>4. ListInv'
    BY <2>1, <2>2, ListKept
  <2> QED
    BY <2>2, <2>3, <2>4 DEF TshIInv, ListInv
<1> QED
  BY TshStarts, <1>1, PTL DEF Spec

-----------------------------------------------------------------------------
(* What the invariant says about the job list and the handlers.            *)

(* main blocks SIGCHLD nowhere while its handler runs.                     *)
LEMMA ReaperMeansOpen ==
  ASSUME TshIInv, NEW k \in Depth, stack[k].sig = "CHLD"
  PROVE  main.at \notin Blocking
BY DEF TshIInv, MaskInv, Nested, MainMask

(* The frames, by their place on the stack.                                *)
LEMMA FramesAre ==
  ASSUME TypeOK
  PROVE  Frames = {stack[k] : k \in Depth}
<1>1. stack \in Seq(Frame)
  BY DEF TypeOK
<1>2. DOMAIN stack = Depth
  BY <1>1, LenProperties DEF Depth
<1> QED
  BY <1>2 DEF Frames

(* The children that are not reaped have exactly one slot each, and the    *)
(* others none, whatever interrupts eval and the handlers: no job is lost, *)
(* none is left behind, as JobsMatchChildren states.                       *)
THEOREM ListMatches == Spec => []JobsMatchChildren
<1>1. TshIInv => JobsMatchChildren
  <2> SUFFICES ASSUME TshIInv PROVE JobsMatchChildren
    OBVIOUS
  <2>1. TypeOK /\ Listed
    BY DEF TshIInv
  <2>2. ASSUME NEW p \in Pids, Unreaped(p), ~(main.at = "add" /\ main.pid = p)
        PROVE  Cardinality({i \in Slot : jobs[i].pid = p}) = 1
    <3>1. PICK i \in Slot : jobs[i].pid = p
      BY <2>1, <2>2 DEF Listed, Adding
    <3>2. p # 0
      BY JobListAssumption DEF Pids, JobListAssumption
    <3>3. {k \in Slot : jobs[k].pid = p} = {i}
      BY <2>1, <3>1, <3>2 DEF Listed
    <3> QED
      BY <3>3, FS_Singleton
  <2>3. ASSUME NEW i \in Slot, jobs[i].pid # 0
        PROVE  \/ Unreaped(jobs[i].pid)
               \/ \E f \in Frames : f.sig = "CHLD" /\ f.at = "ended" /\ f.pid = jobs[i].pid
    <3>1. jobs[i].pid \in Pids
      BY <2>1, <2>3, JobTyped
    <3>2. Unreaped(jobs[i].pid) \/ Ending(jobs[i].pid)
      BY <2>1, <3>1 DEF Listed
    <3> QED
      BY <2>1, <3>2, FramesAre DEF Ending
  <2> QED
    BY <2>1, <2>2, <2>3 DEF JobsMatchChildren
<1> QED
  BY TshIInvHolds, <1>1, PTL

(* sigchld_handler finds the job of every child that waitpid reports to    *)
(* it: the shell never gives up on "Reap non-existend job".                *)
THEOREM ReapedIsKnown == Spec => []ReapsKnownJob
<1>1. TshIInv => ReapsKnownJob
  <2> SUFFICES ASSUME TshIInv, NEW f \in Frames, f.sig = "CHLD", f.at \in {"ended", "stopped"}
               PROVE  getjobpid(jobs, f.pid) # 0
    BY DEF ReapsKnownJob
  <2>1. TypeOK /\ Listed /\ HandlersKnow
    BY DEF TshIInv
  <2>2. PICK k \in Depth : stack[k] = f
    BY <2>1, FramesAre
  <2>3. ~Adding(f.pid)
    BY <2>2, ReaperMeansOpen DEF Adding, Blocking
  <2>4. f.pid \in Pids /\ (Unreaped(f.pid) \/ Ending(f.pid))
    BY <2>1, <2>2 DEF HandlersKnow, HandlerKnows, Ending
  <2>5. PICK i \in Slot : jobs[i].pid = f.pid
    BY <2>1, <2>3, <2>4 DEF Listed
  <2>6. ~(f.pid < 1)
    BY <2>4, JobListAssumption DEF Pids, JobListAssumption
  <2> QED
    BY <2>5, <2>6, FoundSlot
<1> QED
  BY TshIInvHolds, <1>1, PTL

(* Whatever was interrupted and in whatever order it returned, the shell   *)
(* reads its next command line, and waits for its foreground job, with no  *)
(* signal blocked.                                                         *)
THEOREM MaskIsRestored == Spec => []WaitsUnmasked
<1>1. TshIInv => WaitsUnmasked
  BY DEF TshIInv, MaskInv, Masks, MainMask, Blocking, WaitsUnmasked, At
<1> QED
  BY TshIInvHolds, <1>1, PTL

-----------------------------------------------------------------------------
(* The foreground job.  When jobs are named by process ID there is none    *)
(* while main reads or evaluates a command line, and otherwise it is the   *)
(* job that main has started or waits for.                                 *)
InForeground(i) == jobs[i].pid # 0 /\ jobs[i].state = "FG"

Foremost(i) == \/ main.at \in {"fill", "poll"} /\ i = main.slot
               \/ main.at = "runrelease" /\ i = main.slot /\ main.cmd = "FG"
               \/ main.at = "waitfg" /\ jobs[i].pid = main.pid

FgKnown ==
  /\ \A i \in Slot : InForeground(i) => Foremost(i)
  /\ main.at \in {"runrelease", "jobblock", "cont", "jobrelease", "setstate"} =>
       main.slot \in Slot /\ jobs[main.slot].pid \in {0, main.pid}

(* Or there is one program to run at most.                                 *)
Lonely == nextpid + user.programs + Forking <= 2

FgIInv == ("byjid" \notin user.commands /\ FgKnown) \/ Lonely

(* Where there is one program at most, no step brings a second.            *)
LEMMA LonelyKept ==
  ASSUME TypeOK, TypeOK', Lonely, [Next]_vars
  PROVE  Lonely'
<1> USE DEF kernel
<1>0. /\ nextpid \in Nat /\ user.programs \in Nat /\ Forking \in Nat
      /\ nextpid' \in Nat /\ user'.programs \in Nat /\ Forking' \in Nat
  BY BudgetIs, JobListAssumption DEF TypeOK, User, Forking, JobListAssumption
<1>s. ASSUME nextpid' = nextpid, user'.programs = user.programs,
             main'.at = "fork" => main.at = "fork"
      PROVE  Lonely'
  <2>1. Forking' <= Forking
    BY <1>s DEF Forking
  <2>2. nextpid + user.programs + Forking <= 2
    BY DEF Lonely
  <2>3. nextpid' + user'.programs + Forking' <= 2
    BY <1>0, <1>s, <2>1, <2>2
  <2> QED
    BY <2>3 DEF Lonely
<1>1. CASE Kernel
  <2>1. user'.programs = user.programs
    BY <1>1 DEF Kernel, ChildSetpgid, ChildEnds, ChildStops, TypeKey, TypeOK, User
  <2> QED
    BY <1>1, <2>1, <1>s DEF Kernel, ChildSetpgid, ChildEnds, ChildStops, TypeKey
<1>2. CASE (\E s \in Sigs : Deliver(s)) \/ Return \/ ChldUpdate \/ ChldClearRest
  BY <1>2, <1>s DEF Deliver, Return, ChldUpdate, ChldClearRest
<1>3. CASE ChldWait \/ FwdBlock \/ FwdKill \/ FwdRelease
  BY <1>3, <1>s DEF ChldWait, FwdBlock, FwdKill, FwdRelease, KillGroups
<1>4. CASE \E cmd \in {"FG", "BG"} : RunBlock(cmd)
  <2>1. /\ user' = [user EXCEPT !.programs = @ - 1] /\ nextpid' = nextpid
        /\ main.at = "prompt" /\ main'.at = "fork"
    BY <1>4 DEF RunBlock, At, NoCmd
  <2>2. user'.programs = user.programs - 1 /\ Forking = 0 /\ Forking' = 1
    BY <2>1 DEF TypeOK, User, Forking
  <2>3. nextpid + user.programs + 0 <= 2
    BY <2>2 DEF Lonely
  <2>4. nextpid' + user'.programs + Forking' <= 2
    BY <1>0, <2>1, <2>2, <2>3
  <2> QED
    BY <2>4 DEF Lonely
<1>5. CASE RunFork
  <2>1. /\ user' = user /\ nextpid' = nextpid + 1 /\ main.at = "fork" /\ main'.at = "add"
    BY <1>5 DEF RunFork, At, TypeOK, Locals
  <2>2. Forking = 1 /\ Forking' = 0
    BY <2>1 DEF Forking
  <2>3. nextpid + user.programs + 1 <= 2
    BY <2>2 DEF Lonely
  <2>4. nextpid' + user'.programs + Forking' <= 2
    BY <1>0, <2>1, <2>2, <2>3
  <2> QED
    BY <2>4 DEF Lonely
<1>t. main \in Locals
  BY DEF TypeOK
<1>m. ASSUME NEW l, MainTo(l), l # "fork" PROVE main'.at # "fork"
  BY <1>m, <1>t DEF MainTo, Locals
<1>w. WaitOrPrompt => main'.at # "fork"
  BY <1>t DEF WaitOrPrompt, NoCmd, Locals
<1>6. CASE RunAdd \/ RunFill \/ RunRelease
  <2>1. main'.at = "fork" => main.at = "fork"
    BY <1>6, <1>t, <1>m, <1>w DEF RunAdd, RunFill, RunRelease, Locals
  <2> QED
    BY <1>6, <2>1, <1>s DEF RunAdd, RunFill, RunRelease
<1>7. CASE \E cmd \in {"FG", "BG"} : JobByPid(cmd) \/ JobByJid(cmd)
  <2>1. PICK cmd, i, p : FindJob(cmd, i, p)
    BY <1>7 DEF JobByPid, JobByJid
  <2> QED
    BY <2>1, <1>s DEF FindJob, NoCmd
<1>8. CASE JobBlock \/ JobCont \/ JobRelease \/ JobSetState
  <2>1. main'.at = "fork" => main.at = "fork"
    BY <1>8, <1>t, <1>m, <1>w DEF JobBlock, JobCont, JobRelease, JobSetState, Locals
  <2> QED
    BY <1>8, <2>1, <1>s DEF JobBlock, JobCont, KillCont, JobRelease, JobSetState
<1>9. CASE WaitStart \/ WaitDone \/ Quit
  <2>1. main'.at = "fork" => main.at = "fork"
    <3>1. WaitStart => main'.at \in {"prompt", "poll"}
      BY <1>t DEF WaitStart, NoCmd, Locals
    <3>2. WaitDone => main'.at = "prompt"
      BY DEF WaitDone, NoCmd
    <3>3. Quit => main' = main
      BY DEF Quit
    <3> QED
      BY <1>9, <3>1, <3>2, <3>3
  <2> QED
    BY <1>9, <2>1, <1>s DEF WaitStart, WaitDone, Quit
<1>10. CASE UNCHANGED vars
  BY <1>10, <1>s DEF vars
<1> QED
  BY <1>1, <1>2, <1>3, <1>4, <1>5, <1>6, <1>7, <1>8, <1>9, <1>10
     DEF Next, Handlers, Types, Main

(* Handlers take jobs out of the foreground or off the list, no more.      *)
LEMMA FgQuiet ==
  ASSUME FgKnown, main' = main,
         \A i \in Slot : /\ jobs'[i].pid \in {0, jobs[i].pid}
                         /\ jobs'[i].state = "FG" => jobs[i].state = "FG"
  PROVE  FgKnown'
<1>1. \A i \in Slot : InForeground(i)' => InForeground(i) /\ jobs'[i].pid = jobs[i].pid
  BY DEF InForeground
<1>2. \A i \in Slot : InForeground(i)' => Foremost(i)'
  BY <1>1 DEF FgKnown, Foremost
<1> QED
  BY <1>2 DEF FgKnown

(* Without commands by job ID, main knows the foreground job after every   *)
(* step.                                                                   *)
LEMMA FgKept ==
  ASSUME TshIInv, TshIInv', FgKnown, "byjid" \notin user.commands, [Next]_vars
  PROVE  FgKnown'
<1> USE DEF list
<1>t. TypeOK /\ TypeOK' /\ main \in Locals /\ main' \in Locals /\ jobs \in [Slot -> JobType]
  BY DEF TshIInv, TypeOK
<1>m. MainKnows /\ MainKnows' /\ Listed /\ Listed'
  BY DEF TshIInv
<1>s. ASSUME main' = main, jobs' = jobs PROVE FgKnown'
  BY <1>s, FgQuiet
<1>1. CASE Kernel \/ (\E s \in Sigs : Deliver(s)) \/ Return \/ ChldWait
  BY <1>1, <1>s DEF Kernel, ChildSetpgid, ChildEnds, ChildStops, TypeKey, Deliver, Return, ChldWait
<1>2. CASE FwdBlock \/ FwdKill \/ FwdRelease \/ Quit \/ UNCHANGED vars
  BY <1>2, <1>s DEF FwdBlock, FwdKill, FwdRelease, Quit, vars
<1>3. CASE ChldUpdate
  <2> DEFINE i == getjobpid(jobs, top.pid)
  <2>1. /\ main' = main
        /\ \/ jobs' = jobs
           \/ jobs' = [jobs EXCEPT ![i].state = "ST"]
           \/ jobs' = [jobs EXCEPT ![i].pid = 0]
    BY <1>3 DEF ChldUpdate
  <2> HIDE DEF i
  <2>2. \A k \in Slot : /\ jobs'[k].pid \in {0, jobs[k].pid}
                        /\ jobs'[k].state = "FG" => jobs[k].state = "FG"
    <3> TAKE k \in Slot
    <3>1. jobs[k] \in JobType
      BY <1>t
    <3>2. CASE jobs' = jobs
      BY <3>2
    <3>3. CASE jobs' = [jobs EXCEPT ![i].state = "ST"]
      BY <3>1, <3>3, <1>t DEF JobType
    <3>4. CASE jobs' = [jobs EXCEPT ![i].pid = 0]
      BY <3>1, <3>4, <1>t DEF JobType
    <3> QED
      BY <2>1, <3>2, <3>3, <3>4
  <2> QED
    BY <2>1, <2>2, FgQuiet
<1>4. CASE ChldClearRest
  <2>1. main' = main /\ jobs' = [jobs EXCEPT ![top.slot] = EmptyJob]
    BY <1>4 DEF ChldClearRest, cleared
  <2>2. \A k \in Slot : /\ jobs'[k].pid \in {0, jobs[k].pid}
                        /\ jobs'[k].state = "FG" => jobs[k].state = "FG"
    BY <2>1, <1>t DEF EmptyJob
  <2> QED
    BY <2>1, <2>2, FgQuiet
<1>n. ASSUME main.at \in {"prompt", "fork", "add", "jobblock", "cont", "jobrelease", "setstate"}
      PROVE  \A i \in Slot : ~InForeground(i)
  BY <1>n DEF FgKnown, Foremost
<1>q. ASSUME main.at \in {"prompt", "fork", "add", "jobblock", "cont", "jobrelease", "setstate"},
             jobs' = jobs,
             main'.at \in {"runrelease", "jobblock", "cont", "jobrelease", "setstate"} =>
               main'.slot \in Slot /\ jobs[main'.slot].pid \in {0, main'.pid}
      PROVE  FgKnown'
  BY <1>q, <1>n DEF FgKnown, InForeground
<1>5. CASE \E cmd \in {"FG", "BG"} : RunBlock(cmd)
  BY <1>5, <1>q DEF RunBlock, At, NoCmd
<1>6. CASE RunFork
  BY <1>6, <1>q, <1>t DEF RunFork, At, Locals
<1>7. CASE RunAdd
  <2> DEFINE s == FreeSlot(jobs)
  <2>1. /\ main.at = "add"
        /\ \/ jobs' = jobs /\ main' = main
           \/ /\ jobs' = [jobs EXCEPT ![s].pid = main.pid]
              /\ main' = [main EXCEPT !.at = "fill", !.slot = s]
    BY <1>7 DEF RunAdd, At
  <2> HIDE DEF s
  <2>2. CASE jobs' = jobs /\ main' = main
    BY <2>2, <1>s
  <2>3. CASE /\ jobs' = [jobs EXCEPT ![s].pid = main.pid]
             /\ main' = [main EXCEPT !.at = "fill", !.slot = s]
    <3>1. main'.at = "fill" /\ main'.slot = s
      BY <2>3, <1>t DEF Locals
    <3>2. \A i \in Slot : i # s => ~InForeground(i)'
      BY <2>1, <2>3, <1>n, <1>t DEF InForeground
    <3> QED
      BY <3>1, <3>2 DEF FgKnown, Foremost
  <2> QED
    BY <2>1, <2>2, <2>3
<1>8. CASE RunFill
  <2>1. /\ main.at = "fill" /\ main' = [main EXCEPT !.at = "runrelease"]
        /\ main.slot \in Slot /\ jobs[main.slot].pid = main.pid
        /\ jobs' = filled(jobs, main.slot, nextjid, main.pid, main.cmd)
    BY <1>8, <1>m DEF RunFill, At, MainTo, MainKnows
  <2>2. /\ main'.at = "runrelease" /\ main'.slot = main.slot /\ main'.cmd = main.cmd
        /\ main'.pid = main.pid
    BY <2>1, <1>t DEF Locals
  <2>3. /\ jobs'[main.slot].pid = main.pid /\ jobs'[main.slot].state = main.cmd
        /\ \A i \in Slot : i # main.slot => jobs'[i] = jobs[i] /\ ~InForeground(i)
    BY <2>1, <1>t DEF filled, FgKnown, Foremost
  <2>4. \A i \in Slot : InForeground(i)' => i = main.slot /\ main.cmd = "FG"
    BY <2>3 DEF InForeground
  <2> QED
    BY <2>1, <2>2, <2>3, <2>4 DEF FgKnown, Foremost
<1>w. ASSUME WaitOrPrompt
      PROVE  \/ main.cmd = "FG" /\ main'.at = "waitfg" /\ main'.pid = main.pid
             \/ main.cmd # "FG" /\ main'.at = "prompt"
  BY <1>w, <1>t DEF WaitOrPrompt, NoCmd, Locals
<1>9. CASE RunRelease
  <2>1. main.at = "runrelease" /\ jobs' = jobs /\ WaitOrPrompt
    BY <1>9 DEF RunRelease, At
  <2>2. \A i \in Slot : InForeground(i) => main.cmd = "FG" /\ jobs[i].pid = main.pid
    BY <2>1 DEF FgKnown, Foremost, InForeground
  <2>3. \A i \in Slot : InForeground(i)' => InForeground(i)
    BY <2>1 DEF InForeground
  <2> QED
    BY <2>1, <2>2, <2>3, <1>w DEF FgKnown, Foremost
<1>10. CASE \E cmd \in {"FG", "BG"} : JobByPid(cmd)
  <2>1. PICK cmd \in {"FG", "BG"}, p \in Pids :
          getjobpid(jobs, p) # 0 /\ FindJob(cmd, getjobpid(jobs, p), p)
    BY <1>10 DEF JobByPid
  <2> DEFINE i == getjobpid(jobs, p)
  <2>2. i \in Slot /\ jobs[i].pid = p
    BY <2>1, FoundSlot
  <2>3. /\ main.at = "prompt" /\ jobs' = jobs
        /\ main' = [NoCmd EXCEPT !.cmd = cmd, !.at = "jobblock", !.slot = i, !.pid = p]
    BY <2>1 DEF FindJob, At
  <2> HIDE DEF i
  <2>4. main'.at = "jobblock" /\ main'.slot = i /\ main'.pid = p
    BY <2>3 DEF NoCmd
  <2> QED
    BY <2>2, <2>3, <2>4, <1>q
<1>11. CASE JobBlock \/ JobCont \/ JobRelease
  <2>1. /\ main.at \in {"jobblock", "cont", "jobrelease"} /\ jobs' = jobs
        /\ main'.slot = main.slot /\ main'.pid = main.pid
    BY <1>11, <1>t DEF JobBlock, JobCont, JobRelease, At, MainTo, Locals
  <2> QED
    BY <2>1, <1>q DEF FgKnown
<1>12. CASE JobSetState
  <2>1. /\ main.at = "setstate" /\ jobs' = [jobs EXCEPT ![main.slot].state = main.cmd]
        /\ WaitOrPrompt
    BY <1>12 DEF JobSetState, At
  <2>2. main.slot \in Slot /\ jobs[main.slot].pid \in {0, main.pid}
    BY <2>1 DEF FgKnown
  <2>3. /\ jobs'[main.slot].pid = jobs[main.slot].pid
        /\ jobs'[main.slot].state = main.cmd
        /\ \A i \in Slot : i # main.slot => jobs'[i] = jobs[i]
    BY <2>1, <2>2, <1>t DEF JobType
  <2>4. \A i \in Slot : InForeground(i)' =>
          i = main.slot /\ main.cmd = "FG" /\ jobs'[i].pid = main.pid
    BY <2>1, <2>2, <2>3, <1>n DEF InForeground
  <2> QED
    BY <2>1, <2>4, <1>w DEF FgKnown, Foremost
<1>13. CASE WaitStart
  <2> DEFINE i == getjobpid(jobs, main.pid)
  <2>1. /\ main.at = "waitfg" /\ jobs' = jobs
        /\ main' = IF i = 0 THEN NoCmd ELSE [main EXCEPT !.at = "poll", !.slot = i]
    BY <1>13 DEF WaitStart, At
  <2>2. \A k \in Slot : InForeground(k)' => jobs[k].pid = main.pid /\ jobs[k].pid \in Pids
    BY <2>1, <1>t, JobTyped DEF FgKnown, Foremost, InForeground
  <2>3. \A p \in Pids : ~(p < 1) /\ p # 0
    BY JobListAssumption DEF Pids, JobListAssumption
  <2>4. /\ i # 0 => i \in Slot /\ jobs[i].pid = main.pid
        /\ ~(main.pid < 1) => \A k \in Slot : jobs[k].pid = main.pid => i # 0
    BY FoundSlot
  <2> HIDE DEF i
  <2>5. \A k \in Slot : InForeground(k)' => i # 0 /\ k = i
    BY <2>2, <2>3, <2>4, <1>m DEF Listed
  <2>6. IF i = 0 THEN main'.at = "prompt" ELSE main'.at = "poll" /\ main'.slot = i
    BY <2>1, <1>t DEF NoCmd, Locals
  <2> QED
    BY <2>5, <2>6 DEF FgKnown, Foremost
<1>14. CASE WaitDone
  <2>1. main.at = "poll" /\ jobs' = jobs /\ jobs[main.slot].state # "FG" /\ main' = NoCmd
    BY <1>14 DEF WaitDone, At
  <2>2. \A k \in Slot : ~InForeground(k)'
    BY <2>1 DEF FgKnown, Foremost, InForeground
  <2> QED
    BY <2>1, <2>2 DEF FgKnown, NoCmd
<1> QED
  BY <1>1, <1>2, <1>3, <1>4, <1>5, <1>6, <1>7, <1>8, <1>9, <1>10, <1>11, <1>12, <1>13, <1>14
     DEF Next, Handlers, Types, Main

(* What a user types is never another kind of command.                     *)
LEMMA CommandsKept ==
  ASSUME TypeOK, [Next]_vars
  PROVE  user'.commands = user.commands
<1>1. user \in User
  BY DEF TypeOK
<1>2. CASE user' = user
  BY <1>2
<1>3. CASE (\E s \in {"INT", "TSTP"} : TypeKey(s)) \/ \E cmd \in {"FG", "BG"} : RunBlock(cmd)
  BY <1>1, <1>3 DEF TypeKey, RunBlock, User
<1>4. Kernel => user' = user \/ \E s \in {"INT", "TSTP"} : TypeKey(s)
  BY DEF Kernel, ChildSetpgid, ChildEnds, ChildStops
<1>5. Handlers => user' = user
  BY DEF Handlers, Deliver, Return, ChldWait, ChldUpdate, ChldClearRest, FwdBlock, FwdKill, FwdRelease
<1>6. Types => user' = user \/ \E cmd \in {"FG", "BG"} : RunBlock(cmd)
  BY DEF Types, JobByPid, JobByJid, FindJob, Quit
<1>7. Main => user' = user
  BY DEF Main, RunFork, RunAdd, RunFill, RunRelease, JobBlock, JobCont, JobRelease,
     JobSetState, WaitStart, WaitDone
<1> QED
  BY <1>2, <1>3, <1>4, <1>5, <1>6, <1>7 DEF Next, vars

(* One job at most is in the foreground, whatever is interrupted, when no  *)
(* user who runs more than one program names a job by its %jid.  (When one *)
(* does, it is not so: fg waits for process 0.)                            *)
THEOREM OneIsForemost ==
  ASSUME \A u \in Users : "byjid" \notin u.commands \/ u.programs <= 1
  PROVE  Spec => []OneForeground
<1>1. Init => FgIInv
  <2> SUFFICES ASSUME Init PROVE FgIInv
    OBVIOUS
  <2>1. user \in Users /\ user \in User /\ nextpid = 1 /\ Forking = 0 /\ main.at = "prompt"
    BY TshAssumption DEF Init, JobsInit, NoCmd, Forking, TshAssumption
  <2>2. \A i \in Slot : jobs[i].pid = 0
    BY DEF Init, JobsInit, initjobs, EmptyJob
  <2>3. FgKnown
    BY <2>1, <2>2 DEF FgKnown, InForeground
  <2>4. user.programs <= 1 => Lonely
    BY <2>1, JobListAssumption DEF Lonely, User, JobListAssumption
  <2> QED
    BY <2>1, <2>3, <2>4 DEF FgIInv
<1>2. TshIInv /\ TshIInv' /\ FgIInv /\ [Next]_vars => FgIInv'
  <2> SUFFICES ASSUME TshIInv, TshIInv', FgIInv, [Next]_vars PROVE FgIInv'
    OBVIOUS
  <2>1. TypeOK /\ TypeOK'
    BY DEF TshIInv
  <2>2. CASE Lonely
    BY <2>1, <2>2, LonelyKept DEF FgIInv
  <2>3. CASE "byjid" \notin user.commands /\ FgKnown
    BY <2>1, <2>3, FgKept, CommandsKept DEF FgIInv
  <2> QED
    BY <2>2, <2>3 DEF FgIInv
<1>3. TshIInv /\ FgIInv => OneForeground
  <2> SUFFICES ASSUME TshIInv, FgIInv, NEW i \in Slot, NEW k \in Slot,
                      InForeground(i), InForeground(k)
               PROVE  i = k
    BY DEF OneForeground, InForeground
  <2>1. TypeOK /\ Listed /\ HandlersKnow
    BY DEF TshIInv
  <2>2. CASE FgKnown
    BY <2>1, <2>2 DEF FgKnown, Foremost, InForeground, Listed
  <2>3. CASE Lonely
    <3>1. nextpid <= 2
      <4>1. user \in User /\ Forking \in Nat
        BY <2>1 DEF TypeOK, Forking
      <4>2. nextpid + user.programs + Forking <= 2
        BY <2>3 DEF Lonely
      <4>3. user.programs \in Nat /\ nextpid \in Nat
        BY <2>1, BudgetIs
      <4> QED
        BY <4>1, <4>2, <4>3
    <3>2. ASSUME NEW p \in Pids, Unreaped(p) \/ Ending(p) PROVE p = 1
      <4>1. kern[p] # "free"
        BY <2>1, <3>2 DEF Unreaped, Ending, HandlersKnow, HandlerKnows
      <4>2. ~(p >= nextpid)
        BY <2>1, <4>1 DEF Listed
      <4> QED
        BY <3>1, <4>2, <2>1, BudgetIs DEF Pids
    <3>3. jobs[i].pid \in Pids /\ jobs[k].pid \in Pids
      BY <2>1, JobTyped DEF InForeground
    <3>4. jobs[i].pid = 1 /\ jobs[k].pid = 1
      BY <2>1, <3>2, <3>3 DEF Listed
    <3> QED
      BY <2>1, <3>4 DEF Listed
  <2> QED
    BY <2>2, <2>3 DEF FgIInv
<1> QED
  BY TshIInvHolds, <1>1, <1>2, <1>3, PTL DEF Spec
=============================================================================
