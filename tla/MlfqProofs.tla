----------------------------- MODULE MlfqProofs -----------------------------
(***************************************************************************)
(* Proofs about module Mlfq, for any number of CPUs, processes and levels. *)
(* IInv is inductive.  The pointers of the run queues are only typed in    *)
(* it: whatever the races do to the lists, a process enters a CPU only     *)
(* through Pick, which holds p->lock and has seen RUNNABLE, and only its   *)
(* own CPU takes it out of RUNNING again.                                  *)
(*                                                                         *)
(* Each conjunct has its own step lemma, with one case per action; those of*)
(* TypeOK and Control are in module MlfqControl.                           *)
(*                                                                         *)
(* WithinQuantum is inductive relative to IInv and together with           *)
(* TickDecided, which carries what clockintr() has already compared        *)
(* from one of its loads or stores to the next. Whatever a step does to    *)
(* the account of a process is one of four fates: nothing, its ticks       *)
(* reset, a boost that is half way, or the tick of its own CPU settled or  *)
(* in progress.                                                            *)
(***************************************************************************)
EXTENDS MlfqControl

\* A step of one CPU takes no lock away from another.
LEMMA LocksKept ==
  ASSUME IInv, NEW c \in CPUs, KernelStep(c) \/ Request(c),
         NEW d \in CPUs, d # c, NEW p \in Procs, lock[p] = d
  PROVE  lock'[p] = d
<1>1. CASE EnqueueLink(c)
  BY <1>1, Zenon
     DEF IInv, TypeOK, EnqueueLink
<1>2. CASE EnqueueTail(c)
  BY <1>2, Zenon
     DEF IInv, TypeOK, EnqueueTail
<1>3. CASE EnqueueClear(c)
  <2>1. lock[loc[c].p] = c
    BY <1>3, Zenon DEF IInv, EnqueueLocked, LockPCs, EnqPCs, EnqueueClear
  <2> QED BY <1>3, <2>1, Zenon DEF IInv, TypeOK, EnqueueClear, release
<1>4. CASE BoostClear(c)
  BY <1>4, Zenon
     DEF IInv, TypeOK, BoostClear
<1>5. CASE BoostProc(c)
  BY <1>5, CPUsAssumption
     DEF IInv, TypeOK, BoostProc, acquire
<1>6. CASE BoostDone(c)
  BY <1>6, Zenon
     DEF IInv, TypeOK, BoostDone
<1>7. CASE SchedTop(c)
  BY <1>7, Zenon
     DEF IInv, TypeOK, SchedTop
<1>8. CASE Dequeue(c)
  BY <1>8, Zenon
     DEF IInv, TypeOK, Dequeue
<1>9. CASE DequeueNext(c)
  BY <1>9, Zenon
     DEF IInv, TypeOK, DequeueNext
<1>10. CASE DequeueHead(c)
  BY <1>10, Zenon
     DEF IInv, TypeOK, DequeueHead
<1>11. CASE DequeueTail(c)
  BY <1>11, Zenon
     DEF IInv, TypeOK, DequeueTail
<1>12. CASE DequeueClear(c)
  BY <1>12, Zenon
     DEF IInv, TypeOK, DequeueClear
<1>13. CASE Pick(c)
  BY <1>13, Zenon
     DEF IInv, TypeOK, Pick
<1>14. CASE Wfi(c)
  BY <1>14, Zenon
     DEF IInv, TypeOK, Wfi
<1>15. CASE Swtch(c)
  <2>1. lock[cproc[c]] = c
    BY <1>15, SMTT(30) DEF IInv, RunningIsCurrent, Control, ControlAt, ProcPCs, Swtch
  <2> QED BY <1>15, <2>1 DEF IInv, TypeOK, Swtch, release
<1>16. CASE Wakeup(c)
  BY <1>16, CPUsAssumption, ZenonT(30)
     DEF IInv, TypeOK, Wakeup, acquire
<1>17. CASE ClockIntr(c)
  BY <1>17, Zenon
     DEF IInv, TypeOK, ClockIntr
<1>18. CASE ClockTick(c)
  BY <1>18, Zenon
     DEF IInv, TypeOK, ClockTick
<1>19. CASE Clock(c)
  BY <1>19, Zenon
     DEF IInv, TypeOK, Clock
<1>20. CASE ClockStore(c)
  BY <1>20, Zenon
     DEF IInv, TypeOK, ClockStore
<1>21. CASE ClockLevel(c)
  BY <1>21, Zenon
     DEF IInv, TypeOK, ClockLevel
<1>22. CASE ClockCompare(c)
  BY <1>22, Zenon
     DEF IInv, TypeOK, ClockCompare
<1>23. CASE DemoteReset(c)
  BY <1>23, Zenon
     DEF IInv, TypeOK, DemoteReset
<1>24. CASE DemoteLevel(c)
  BY <1>24, Zenon
     DEF IInv, TypeOK, DemoteLevel
<1>25. CASE DemoteStore(c)
  BY <1>25, Zenon
     DEF IInv, TypeOK, DemoteStore
<1>26. CASE ClockRet(c)
  BY <1>26, Zenon
     DEF IInv, TypeOK, ClockRet
<1>27. CASE yield(c)
  BY <1>27, CPUsAssumption, Zenon
     DEF IInv, TypeOK, yield, Leave, acquire
<1>28. CASE ForkRun(c)
  BY <1>28, CPUsAssumption, Zenon
     DEF IInv, TypeOK, ForkRun, acquire
<1>29. CASE ExitZombie(c)
  BY <1>29, CPUsAssumption, Zenon
     DEF IInv, TypeOK, ExitZombie, Leave, acquire
<1>30. CASE BoostTime(c)
  <2>1. lock[loc[c].p] = c
    BY <1>30, Zenon DEF IInv, EnqueueLocked, LockPCs, BoostTime
  <2> QED BY <1>30, <2>1, Zenon DEF IInv, TypeOK, BoostTime, release
<1>31. ASSUME NEW ch \in Chans, sleep(c, ch) PROVE lock'[p] = d
  BY <1>31, CPUsAssumption, Zenon
     DEF IInv, TypeOK, sleep, Leave, acquire
<1>32. ASSUME NEW ch \in Chans, CallWakeup(c, ch) PROVE lock'[p] = d
  BY <1>32, Zenon
     DEF IInv, TypeOK, CallWakeup
<1>33. ASSUME NEW ch \in Chans, DevIntr(c, ch) PROVE lock'[p] = d
  BY <1>33, Zenon
     DEF IInv, TypeOK, DevIntr
<1>34. ASSUME NEW q \in Procs, kkill(c, q) PROVE lock'[p] = d
  BY <1>34, Zenon
     DEF IInv, TypeOK, kkill
<1>35. ASSUME NEW q \in Procs, ForkAlloc(c, q) PROVE lock'[p] = d
  BY <1>35, Zenon
     DEF IInv, TypeOK, ForkAlloc
<1>36. ASSUME NEW q \in Procs, freeproc(c, q) PROVE lock'[p] = d
  BY <1>36, Zenon
     DEF IInv, TypeOK, freeproc
<1>37. ASSUME NEW q \in Procs, BoostOne(c, q) PROVE lock'[p] = d
  BY <1>37, CPUsAssumption, Zenon
     DEF IInv, TypeOK, BoostOne, acquire
<1>38. CASE kexit(c)
  BY <1>38, Zenon
     DEF IInv, TypeOK, kexit
<1>39. CASE BoostAll(c)
  BY <1>39, Zenon
     DEF IInv, TypeOK, BoostAll
<1> QED BY <1>1, <1>2, <1>3, <1>4, <1>5, <1>6, <1>7, <1>8, <1>9, <1>10, <1>11, <1>12, <1>13, <1>14,
           <1>15, <1>16, <1>17, <1>18, <1>19, <1>20, <1>21, <1>22, <1>23, <1>24, <1>25,
           <1>26, <1>27, <1>28, <1>29, <1>30, <1>31, <1>32, <1>33, <1>34, <1>35, <1>36,
           <1>37, <1>38, <1>39, ZenonT(30) DEF KernelStep, SchedulerStep, ProcessStep, Request

\* A CPU that is inside enqueue(p) after a step of its own, or between the stores of
\* sys_boostproc(pid), holds p->lock.
LEMMA EnqueueLockedHere ==
  ASSUME IInv, NEW c \in CPUs, KernelStep(c) \/ Request(c)
  PROVE  pc'[c] \in LockPCs => lock'[loc'[c].p] = c
<1>1. CASE EnqueueLink(c)
  <2>1. pc[c] \in LockPCs /\ lock' = lock /\ loc'[c].p = loc[c].p
    BY <1>1, ClearKeepsFields, Zenon DEF IInv, EnqueueLink, LockPCs, EnqPCs
  <2> QED BY <2>1, Zenon DEF IInv, EnqueueLocked
<1>2. CASE EnqueueTail(c)
  <2>1. pc[c] \in LockPCs /\ lock' = lock /\ loc'[c].p = loc[c].p
    BY <1>2, ClearKeepsFields, Zenon DEF IInv, EnqueueTail, LockPCs, EnqPCs
  <2> QED BY <2>1, Zenon DEF IInv, EnqueueLocked
<1>3. CASE EnqueueClear(c)
  BY <1>3
     DEF IInv, TypeOK, EnqueueClear, EnqueueLocked, LockPCs, EnqPCs, Goto, Control, ControlAt
<1>4. CASE BoostClear(c)
  BY <1>4, Zenon
     DEF IInv, TypeOK, BoostClear, Boosting, EnqueueLocked, LockPCs, EnqPCs
<1>5. CASE BoostProc(c)
  <2> DEFINE p == boost[Thread(c)] - LastClear
  <2>1. pc[c] \notin LockPCs
    BY <1>5, Zenon DEF BoostProc, Boosting, LockPCs, EnqPCs
  <2>2. CASE EnqueueLoad(c, p, 0, pc[c]) /\ acquire(p, c)
    <3>1. p \in Procs
      BY <1>5, BoostSlot, Zenon DEF IInv, BoostProc
    <3>2. loc'[c].p = p
      BY <2>2, EnqueueLocalsFields DEF IInv, TypeOK, EnqueueLoad
    <3> HIDE DEF p
    <3> QED BY <2>2, <3>1, <3>2, Zenon DEF IInv, TypeOK, acquire
  <2> QED BY <1>5, <2>1, <2>2, Zenon DEF BoostProc
<1>6. CASE BoostDone(c)
  BY <1>6, Zenon
     DEF IInv, TypeOK, BoostDone, Boosting, EnqueueLocked, LockPCs, EnqPCs, Goto
<1>7. CASE SchedTop(c)
  BY <1>7
     DEF IInv, TypeOK, SchedTop, EnqueueLocked, LockPCs, EnqPCs, Goto
<1>8. CASE Dequeue(c)
  BY <1>8
     DEF IInv, TypeOK, Dequeue, NextLevel, EnqueueLocked, LockPCs, EnqPCs, Goto
<1>9. CASE DequeueNext(c)
  BY <1>9, Zenon
     DEF IInv, TypeOK, DequeueNext, EnqueueLocked, LockPCs, EnqPCs, Goto
<1>10. CASE DequeueHead(c)
  BY <1>10, Zenon
     DEF IInv, TypeOK, DequeueHead, EnqueueLocked, LockPCs, EnqPCs, Goto
<1>11. CASE DequeueTail(c)
  BY <1>11, Zenon
     DEF IInv, TypeOK, DequeueTail, EnqueueLocked, LockPCs, EnqPCs, Goto
<1>12. CASE DequeueClear(c)
  BY <1>12, Zenon
     DEF IInv, TypeOK, DequeueClear, EnqueueLocked, LockPCs, EnqPCs, Goto
<1>13. CASE Pick(c)
  BY <1>13
     DEF IInv, TypeOK, Pick, NextLevel, EnqueueLocked, LockPCs, EnqPCs, Goto
<1>14. CASE Wfi(c)
  BY <1>14, Zenon
     DEF IInv, TypeOK, Wfi, EnqueueLocked, LockPCs, EnqPCs, Goto
<1>15. CASE Swtch(c)
  <2>1. lock[cproc[c]] = c
    BY <1>15, HereProc, Zenon DEF IInv, ProcPCs, RunningIsCurrent, Swtch
  <2>2. CASE EnqueueLoad(c, cproc[c], queue_level[cproc[c]], "top") /\ UNCHANGED lock
    <3>1. loc'[c].p = cproc[c]
      BY <2>2, EnqueueLoadFields, Zenon DEF IInv
    <3> QED BY <2>1, <2>2, <3>1, Zenon
  <2>3. CASE Goto(c, "top")
    BY <2>3, Zenon DEF IInv, TypeOK, Goto, LockPCs, EnqPCs
  <2> QED BY <1>15, <2>2, <2>3, Zenon DEF Swtch
<1>16. CASE Wakeup(c)
  <2>1. CASE Sleepers(c) = {}
    BY <1>16, <2>1 DEF IInv, TypeOK, Control, ControlAt, Wakeup, Goto, LockPCs, EnqPCs
  <2>2. CASE Sleepers(c) # {}
    <3>1. PICK p \in Procs : lock' = [lock EXCEPT ![p] = c] /\ loc'[c].p = p
      BY <1>16, <2>2, WakeupFinds
    <3> QED BY <3>1, Zenon DEF IInv, TypeOK
  <2> QED BY <2>1, <2>2, Zenon
<1>17. CASE ClockIntr(c)
  BY <1>17
     DEF IInv, TypeOK, ClockIntr, EnqueueLocked, LockPCs, EnqPCs, Goto
<1>18. CASE ClockTick(c)
  BY <1>18, Zenon
     DEF IInv, TypeOK, ClockTick, EnqueueLocked, LockPCs, EnqPCs, Goto, WakeupStart
<1>19. CASE Clock(c)
  BY <1>19
     DEF IInv, TypeOK, Clock, EnqueueLocked, LockPCs, EnqPCs, Goto
<1>20. CASE ClockStore(c)
  BY <1>20
     DEF IInv, TypeOK, ClockStore, EnqueueLocked, LockPCs, EnqPCs, Goto
<1>21. CASE ClockLevel(c)
  BY <1>21, Zenon
     DEF IInv, TypeOK, ClockLevel, EnqueueLocked, LockPCs, EnqPCs, Goto
<1>22. CASE ClockCompare(c)
  BY <1>22
     DEF IInv, TypeOK, ClockCompare, EnqueueLocked, LockPCs, EnqPCs, Goto
<1>23. CASE DemoteReset(c)
  BY <1>23, Zenon
     DEF IInv, TypeOK, DemoteReset, EnqueueLocked, LockPCs, EnqPCs, Goto
<1>24. CASE DemoteLevel(c)
  BY <1>24, Zenon
     DEF IInv, TypeOK, DemoteLevel, EnqueueLocked, LockPCs, EnqPCs, Goto
<1>25. CASE DemoteStore(c)
  BY <1>25, Zenon
     DEF IInv, TypeOK, DemoteStore, EnqueueLocked, LockPCs, EnqPCs, Goto
<1>26. CASE ClockRet(c)
  BY <1>26, Zenon
     DEF IInv, TypeOK, ClockRet, EnqueueLocked, LockPCs, EnqPCs, Goto
<1>27. CASE yield(c)
  BY <1>27, Zenon
     DEF IInv, TypeOK, yield, Leave, EnqueueLocked, LockPCs, EnqPCs, Goto
<1>28. CASE ForkRun(c)
  <2> DEFINE np == child[cproc[c]]
  <2>1. EnqueueLoad(c, np, queue_level[np], "user") /\ acquire(np, c) /\ cproc[c] \in Procs /\ np # NULL
    BY <1>28, HereProc, Zenon DEF ForkRun, ProcPCs
  <2>2. np \in Procs
    BY <2>1, Zenon DEF IInv, TypeOK
  <2>3. loc'[c].p = np
    BY <2>1, EnqueueLoadFields DEF IInv
  <2> HIDE DEF np
  <2> QED BY <2>1, <2>2, <2>3, Zenon DEF IInv, TypeOK, acquire
<1>29. CASE ExitZombie(c)
  BY <1>29, Zenon
     DEF IInv, TypeOK, ExitZombie, Leave, EnqueueLocked, LockPCs, EnqPCs, Goto
<1>30. CASE BoostTime(c)
  BY <1>30, Zenon
     DEF IInv, TypeOK, BoostTime, EnqueueLocked, LockPCs, EnqPCs, Goto
<1>31. ASSUME NEW ch \in Chans, sleep(c, ch) PROVE pc'[c] \in LockPCs => lock'[loc'[c].p] = c
  BY <1>31, Zenon
     DEF IInv, TypeOK, sleep, Leave, EnqueueLocked, LockPCs, EnqPCs, Goto
<1>32. ASSUME NEW ch \in Chans, CallWakeup(c, ch) PROVE pc'[c] \in LockPCs => lock'[loc'[c].p] = c
  BY <1>32, Zenon
     DEF IInv, TypeOK, CallWakeup, EnqueueLocked, LockPCs, EnqPCs, Goto, WakeupStart
<1>33. ASSUME NEW ch \in Chans, DevIntr(c, ch) PROVE pc'[c] \in LockPCs => lock'[loc'[c].p] = c
  BY <1>33, Zenon
     DEF IInv, TypeOK, DevIntr, EnqueueLocked, LockPCs, EnqPCs, Goto, WakeupStart
<1>34. ASSUME NEW q \in Procs, kkill(c, q) PROVE pc'[c] \in LockPCs => lock'[loc'[c].p] = c
  BY <1>34, Zenon
     DEF IInv, TypeOK, kkill, EnqueueLocked, LockPCs, EnqPCs
<1>35. ASSUME NEW q \in Procs, ForkAlloc(c, q) PROVE pc'[c] \in LockPCs => lock'[loc'[c].p] = c
  BY <1>35, Zenon
     DEF IInv, TypeOK, ForkAlloc, EnqueueLocked, LockPCs, EnqPCs
<1>36. ASSUME NEW q \in Procs, freeproc(c, q) PROVE pc'[c] \in LockPCs => lock'[loc'[c].p] = c
  BY <1>36, Zenon
     DEF IInv, TypeOK, freeproc, EnqueueLocked, LockPCs, EnqPCs
<1>37. ASSUME NEW q \in Procs, BoostOne(c, q) PROVE pc'[c] \in LockPCs => lock'[loc'[c].p] = c
  <2>1. loc'[c].p = q
    BY <1>37, AssignPointerValue, Zenon DEF IInv, BoostOne
  <2> QED BY <1>37, <2>1, Zenon DEF IInv, TypeOK, BoostOne, acquire
<1>38. CASE kexit(c)
  BY <1>38, Zenon
     DEF IInv, TypeOK, kexit, EnqueueLocked, LockPCs, EnqPCs, Goto, WakeupStart
<1>39. CASE BoostAll(c)
  BY <1>39, Zenon
     DEF IInv, TypeOK, BoostAll, EnqueueLocked, LockPCs, EnqPCs
<1> QED BY <1>1, <1>2, <1>3, <1>4, <1>5, <1>6, <1>7, <1>8, <1>9, <1>10, <1>11, <1>12, <1>13, <1>14,
           <1>15, <1>16, <1>17, <1>18, <1>19, <1>20, <1>21, <1>22, <1>23, <1>24, <1>25,
           <1>26, <1>27, <1>28, <1>29, <1>30, <1>31, <1>32, <1>33, <1>34, <1>35, <1>36,
           <1>37, <1>38, <1>39, ZenonT(30) DEF KernelStep, SchedulerStep, ProcessStep, Request

\* Every step leaves p->lock with the CPU that is inside enqueue(p).
LEMMA EnqueueLockedStep ==
  ASSUME IInv, NEW c \in CPUs, KernelStep(c) \/ Request(c)
  PROVE  EnqueueLocked'
<1> SUFFICES ASSUME NEW d \in CPUs, pc'[d] \in LockPCs PROVE lock'[loc'[d].p] = d
  BY Zenon DEF EnqueueLocked
<1>1. CASE d = c
  BY <1>1, EnqueueLockedHere, Zenon
<1>2. CASE d # c
  <2>1. pc[d] \in LockPCs /\ loc'[d] = loc[d]
    BY <1>2, OthersUnchanged, Zenon
  <2>2. loc[d].p \in Procs /\ lock[loc[d].p] = d
    BY <2>1, LocalTypes, Zenon DEF IInv, Control, ControlAt, PtrPCs, LockPCs, EnqueueLocked
  <2> QED BY <1>2, <2>1, <2>2, LocksKept, Zenon
<1> QED BY <1>1, <1>2, Zenon

\* Every step keeps CPUs and process states in agreement: four kinds of step.  A step
\* that leaves every p->state and c->proc alone, outside sched().
LEMMA RunKept ==
  ASSUME IInv, NEW c \in CPUs, KernelStep(c) \/ Request(c),
         state' = state, cproc' = cproc, pc[c] # "sched", pc'[c] # "sched"
  PROVE  OneCpuPerProc' /\ RunningIsCurrent'
<1>1. OneCpuPerProc /\ RunningIsCurrent
  BY Zenon DEF IInv
<1>2. ASSUME NEW d \in CPUs, cproc[d] # NULL, pc'[d] = "sched"
      PROVE  lock'[cproc[d]] = d /\ state[cproc[d]] # "RUNNING"
  <2>1. d # c /\ pc[d] = "sched"
    BY <1>2, OthersUnchanged, Zenon
  <2>2. lock[cproc[d]] = d /\ state[cproc[d]] # "RUNNING"
    BY <1>1, <1>2, <2>1, Zenon DEF RunningIsCurrent
  <2>3. cproc[d] \in Procs
    BY <1>2, ThreadTypes, Zenon DEF IInv
  <2> QED BY <2>1, <2>2, <2>3, LocksKept, Zenon
<1>3. ASSUME NEW d \in CPUs, cproc[d] # NULL, pc'[d] # "sched"
      PROVE  state[cproc[d]] = "RUNNING"
  <2>1. pc[d] # "sched"
    BY <1>3, OthersUnchanged, Zenon
  <2> QED BY <1>1, <1>3, <2>1, Zenon DEF RunningIsCurrent
<1>4. OneCpuPerProc'
  BY <1>1, Zenon DEF OneCpuPerProc
<1> QED BY <1>1, <1>2, <1>3, <1>4, Zenon DEF RunningIsCurrent

\* A step that moves a process which runs nowhere to a state other than RUNNING.
LEMMA RunMoved ==
  ASSUME IInv, NEW c \in CPUs, KernelStep(c) \/ Request(c),
         NEW q \in Procs, NEW s, state[q] # "RUNNING", s # "RUNNING",
         state' = [state EXCEPT ![q] = s], cproc' = cproc, pc[c] # "sched", pc'[c] # "sched"
  PROVE  OneCpuPerProc' /\ RunningIsCurrent'
<1>1. OneCpuPerProc /\ RunningIsCurrent
  BY Zenon DEF IInv
<1>s. \A p \in Procs : state'[p] = IF p = q THEN s ELSE state[p]
  BY Zenon DEF IInv, TypeOK
<1>2. ASSUME NEW d \in CPUs, cproc[d] # NULL, pc'[d] = "sched"
      PROVE  lock'[cproc[d]] = d /\ state'[cproc[d]] # "RUNNING"
  <2>1. d # c /\ pc[d] = "sched"
    BY <1>2, OthersUnchanged, Zenon
  <2>2. lock[cproc[d]] = d /\ state[cproc[d]] # "RUNNING"
    BY <1>1, <1>2, <2>1, Zenon DEF RunningIsCurrent
  <2>3. cproc[d] \in Procs
    BY <1>2, ThreadTypes, Zenon DEF IInv
  <2> QED BY <1>s, <2>1, <2>2, <2>3, LocksKept
<1>3. ASSUME NEW d \in CPUs, cproc[d] # NULL, pc'[d] # "sched"
      PROVE  state'[cproc[d]] = "RUNNING"
  <2>1. pc[d] # "sched"
    BY <1>3, OthersUnchanged, Zenon
  <2>2. state[cproc[d]] = "RUNNING" /\ cproc[d] \in Procs
    BY <1>1, <1>3, <2>1, ThreadTypes, Zenon DEF RunningIsCurrent, IInv
  <2> QED BY <1>s, <2>2, Zenon
<1>4. \A p \in Procs : state'[p] = "RUNNING" => state[p] = "RUNNING"
  BY <1>s, Zenon
<1>5. OneCpuPerProc'
  BY <1>1, Zenon DEF OneCpuPerProc
<1> QED BY <1>1, <1>2, <1>3, <1>4, <1>5 DEF RunningIsCurrent

\* A step by which a process leaves its CPU: yield(), sleep() and the end of kexit().
LEMMA RunLeft ==
  ASSUME IInv, NEW c \in CPUs, KernelStep(c) \/ Request(c), pc[c] \in ProcPCs, pc[c] # "sched",
         NEW s, s # "RUNNING", Leave(c, s), cproc' = cproc
  PROVE  OneCpuPerProc' /\ RunningIsCurrent'
<1>1. OneCpuPerProc /\ RunningIsCurrent
  BY Zenon DEF IInv
<1>p. cproc[c] # NULL /\ cproc[c] \in Procs
  BY HereProc, Zenon
<1>s. \A p \in Procs : state'[p] = IF p = cproc[c] THEN s ELSE state[p]
  BY <1>p, Zenon DEF IInv, TypeOK, Leave
<1>l. lock'[cproc[c]] = c
  BY <1>p, Zenon DEF IInv, TypeOK, Leave, acquire
<1>c. pc'[c] = "sched"
  BY GotoType, Zenon DEF IInv, Leave
<1>2. ASSUME NEW d \in CPUs, d # c, cproc[d] # NULL
      PROVE  IF pc'[d] = "sched" THEN lock'[cproc[d]] = d /\ state'[cproc[d]] # "RUNNING"
                                 ELSE state'[cproc[d]] = "RUNNING"
  <2>1. pc'[d] = pc[d]
    BY <1>2, OthersUnchanged, Zenon
  <2>2. cproc[d] # cproc[c] /\ cproc[d] \in Procs
    BY <1>1, <1>2, ThreadTypes, Zenon DEF OneCpuPerProc, IInv
  <2>3. IF pc[d] = "sched" THEN lock[cproc[d]] = d /\ state[cproc[d]] # "RUNNING"
                           ELSE state[cproc[d]] = "RUNNING"
    BY <1>1, <1>2, Zenon DEF RunningIsCurrent
  <2> QED BY <1>2, <1>s, <2>1, <2>2, <2>3, LocksKept
<1>3. state'[cproc[c]] # "RUNNING"
  BY <1>p, <1>s, Zenon
<1>4. \A p \in Procs : state'[p] = "RUNNING" => state[p] = "RUNNING"
  BY <1>s, Zenon
<1>5. OneCpuPerProc'
  BY <1>1, Zenon DEF OneCpuPerProc
<1>6. \A d \in CPUs : cproc[d] # NULL =>
        IF pc'[d] = "sched" THEN lock'[cproc[d]] = d /\ state'[cproc[d]] # "RUNNING"
                            ELSE state'[cproc[d]] = "RUNNING"
  BY <1>2, <1>3, <1>c, <1>l, Zenon
<1> QED BY <1>1, <1>4, <1>5, <1>6, Zenon DEF RunningIsCurrent

\* The step by which scheduler() resumes after swtch().
LEMMA RunSwitched ==
  ASSUME IInv, NEW c \in CPUs, KernelStep(c) \/ Request(c), Swtch(c)
  PROVE  OneCpuPerProc' /\ RunningIsCurrent'
<1>1. OneCpuPerProc /\ RunningIsCurrent
  BY Zenon DEF IInv
<1>2. pc[c] = "sched" /\ cproc[c] # NULL /\ state' = state /\ cproc' = [cproc EXCEPT ![c] = NULL]
  BY HereProc, Zenon DEF ProcPCs, Swtch
<1>3. cproc'[c] = NULL
  BY <1>2, Zenon DEF IInv, TypeOK
<1>4. state[cproc[c]] # "RUNNING"
  BY <1>1, <1>2, Zenon DEF RunningIsCurrent
<1>5. ASSUME NEW d \in CPUs, d # c
      PROVE  cproc'[d] = cproc[d] /\ pc'[d] = pc[d]
  BY <1>5, OthersUnchanged, Zenon
<1>6. ASSUME NEW d \in CPUs, d # c, cproc[d] # NULL
      PROVE  IF pc'[d] = "sched" THEN lock'[cproc[d]] = d /\ state[cproc[d]] # "RUNNING"
                                 ELSE state[cproc[d]] = "RUNNING"
  <2>1. cproc[d] \in Procs
    BY <1>6, ThreadTypes, Zenon DEF IInv
  <2>2. IF pc[d] = "sched" THEN lock[cproc[d]] = d /\ state[cproc[d]] # "RUNNING"
                           ELSE state[cproc[d]] = "RUNNING"
    BY <1>1, <1>6, Zenon DEF RunningIsCurrent
  <2> QED BY <1>5, <1>6, <2>1, <2>2, LocksKept
<1>7. OneCpuPerProc'
  BY <1>1, <1>3, <1>5 DEF OneCpuPerProc
<1>8. ASSUME NEW p \in Procs, state[p] = "RUNNING" PROVE \E d \in CPUs : cproc'[d] = p
  <2>1. PICK d \in CPUs : cproc[d] = p
    BY <1>1, <1>8, Zenon DEF RunningIsCurrent
  <2>2. d # c
    BY <1>4, <1>8, <2>1, Zenon
  <2> QED BY <1>5, <2>1, <2>2, Zenon
<1>9. \A d \in CPUs : cproc'[d] # NULL =>
        IF pc'[d] = "sched" THEN lock'[cproc'[d]] = d /\ state[cproc'[d]] # "RUNNING"
                            ELSE state[cproc'[d]] = "RUNNING"
  BY <1>3, <1>5, <1>6
<1> QED BY <1>2, <1>7, <1>8, <1>9, Zenon DEF RunningIsCurrent

\* Every step keeps CPUs and process states in agreement.
LEMMA RunStep ==
  ASSUME IInv, NEW c \in CPUs, KernelStep(c) \/ Request(c)
  PROVE  OneCpuPerProc' /\ RunningIsCurrent'
<1>t. TypeOK
  BY Zenon DEF IInv
<1>1. CASE EnqueueLink(c)
  <2>1. state' = state /\ cproc' = cproc /\ pc[c] # "sched" /\ pc'[c] # "sched"
    BY <1>1, <1>t, GotoType DEF EnqueueLink
  <2> QED BY <2>1, RunKept, Zenon
<1>2. CASE EnqueueTail(c)
  <2>1. state' = state /\ cproc' = cproc /\ pc[c] # "sched" /\ pc'[c] # "sched"
    BY <1>2, <1>t, GotoType DEF EnqueueTail
  <2> QED BY <2>1, RunKept
<1>3. CASE EnqueueClear(c)
  <2>1. pc[c] = "enq_clear" /\ state' = state /\ cproc' = cproc /\ Goto(c, loc[c].ret)
    BY <1>3, Zenon DEF EnqueueClear
  <2>2. loc[c].ret # "sched"
    BY <2>1, Zenon DEF IInv, Control, ControlAt, EnqPCs
  <2> QED BY <1>t, <2>1, <2>2, GotoType, RunKept, Zenon
<1>4. CASE BoostClear(c)
  <2>1. state' = state /\ cproc' = cproc /\ pc[c] # "sched" /\ pc'[c] # "sched"
    BY <1>4, <1>t, GotoType, Zenon DEF BoostClear, Boosting
  <2> QED BY <2>1, RunKept
<1>5. CASE BoostProc(c)
  <2>1. /\ pc[c] # "sched" /\ state' = state /\ cproc' = cproc
        /\ pc' = pc \/ Goto(c, "enq_link")
    BY <1>5, Zenon DEF BoostProc, Boosting, EnqueueLoad
  <2>2. pc'[c] # "sched"
    BY <1>t, <2>1, GotoType
  <2> QED BY <2>1, <2>2, RunKept, Zenon
<1>6. CASE BoostDone(c)
  <2>1. state' = state /\ cproc' = cproc /\ pc[c] # "sched" /\ pc'[c] # "sched"
    BY <1>6, <1>t, GotoType DEF BoostDone, Boosting
  <2> QED BY <2>1, RunKept
<1>7. CASE SchedTop(c)
  <2>1. state' = state /\ cproc' = cproc /\ pc[c] # "sched" /\ pc'[c] # "sched"
    BY <1>7, <1>t, GotoType DEF SchedTop
  <2> QED BY <2>1, RunKept
<1>8. CASE Dequeue(c)
  <2>1. state' = state /\ cproc' = cproc /\ pc[c] # "sched" /\ pc'[c] # "sched"
    BY <1>8, <1>t, GotoType DEF Dequeue, NextLevel
  <2> QED BY <2>1, RunKept
<1>9. CASE DequeueNext(c)
  <2>1. state' = state /\ cproc' = cproc /\ pc[c] # "sched" /\ pc'[c] # "sched"
    BY <1>9, <1>t, GotoType DEF DequeueNext
  <2> QED BY <2>1, RunKept
<1>10. CASE DequeueHead(c)
  <2>1. state' = state /\ cproc' = cproc /\ pc[c] # "sched" /\ pc'[c] # "sched"
    BY <1>10, <1>t, GotoType DEF DequeueHead
  <2> QED BY <2>1, RunKept
<1>11. CASE DequeueTail(c)
  <2>1. state' = state /\ cproc' = cproc /\ pc[c] # "sched" /\ pc'[c] # "sched"
    BY <1>11, <1>t, GotoType DEF DequeueTail
  <2> QED BY <2>1, RunKept
<1>12. CASE DequeueClear(c)
  <2>1. state' = state /\ cproc' = cproc /\ pc[c] # "sched" /\ pc'[c] # "sched"
    BY <1>12, <1>t, GotoType DEF DequeueClear
  <2> QED BY <2>1, RunKept
<1>13. CASE Pick(c)
  <2> DEFINE p == loc[c].p
  <2>1. pc[c] = "pick" /\ cproc[c] = NULL /\ p \in Procs /\ p # NULL /\ UNCHANGED lock
    BY <1>13, LocalTypes, Zenon DEF IInv, Control, ControlAt, SchedPCs, PtrPCs, Pick
  <2>2. CASE state[p] # "RUNNABLE"
    <3>1. UNCHANGED <<state, cproc>> /\ (Goto(c, "deq") \/ Goto(c, "wfi"))
      BY <1>13, <2>2, Zenon DEF Pick, NextLevel
    <3>2. pc[c] # "sched" /\ pc'[c] # "sched"
      BY <2>1, <3>1, GotoType DEF IInv
    <3> QED BY <3>1, <3>2, RunKept, Zenon
  <2>3. CASE state[p] = "RUNNABLE"
    <3>1. /\ state' = [state EXCEPT ![p] = "RUNNING"]
          /\ cproc' = [cproc EXCEPT ![c] = p]
          /\ pc' = [pc EXCEPT ![c] = IF inclk[p] THEN "clock_ret" ELSE "user"]
      BY <1>13, <2>3, SMTT(30) DEF Pick, Goto
    <3>2. \A d \in CPUs : cproc[d] # p
      BY <1>13, <2>1, <2>3, CPUsAssumption DEF IInv, RunningIsCurrent, Pick
    <3> HIDE DEF p
    <3>3. OneCpuPerProc'
      BY <2>1, <3>1, <3>2, SMTT(30) DEF IInv, TypeOK, OneCpuPerProc
    <3>4. RunningIsCurrent'
      <4>1. cproc'[c] = p /\ pc'[c] # "sched" /\ state'[p] = "RUNNING"
        BY <2>1, <3>1, Zenon DEF IInv, TypeOK
      <4>2. ASSUME NEW d \in CPUs, d # c
            PROVE  /\ cproc'[d] = cproc[d] /\ pc'[d] = pc[d]
                   /\ cproc[d] # NULL => state'[cproc[d]] = state[cproc[d]]
        BY <3>1, <3>2, <4>2 DEF IInv, TypeOK
      <4>3. ASSUME NEW q \in Procs, q # p PROVE state'[q] = state[q]
        BY <3>1, <4>3, Zenon DEF IInv, TypeOK
      <4>6. RunningIsCurrent
        BY Zenon DEF IInv
      <4>7. ASSUME NEW d \in CPUs, d # c, cproc[d] # NULL
            PROVE  IF pc'[d] = "sched" THEN lock'[cproc'[d]] = d /\ state'[cproc'[d]] # "RUNNING"
                                       ELSE state'[cproc'[d]] = "RUNNING"
        BY <2>1, <4>2, <4>6, <4>7, SMTT(30) DEF RunningIsCurrent
      <4>4. \A d \in CPUs : cproc'[d] # NULL =>
              IF pc'[d] = "sched" THEN lock'[cproc'[d]] = d /\ state'[cproc'[d]] # "RUNNING"
                                  ELSE state'[cproc'[d]] = "RUNNING"
        BY <4>1, <4>2, <4>7, Zenon
      <4>5. ASSUME NEW q \in Procs, state'[q] = "RUNNING"
            PROVE  \E d \in CPUs : cproc'[d] = q
        <5>1. CASE q = p
          BY <4>1, <5>1, Zenon
        <5>2. CASE q # p
          <6>1. PICK d \in CPUs : cproc[d] = q
            BY <4>3, <4>5, <5>2, Zenon DEF IInv, RunningIsCurrent
          <6>2. d # c
            BY <2>1, <6>1, SizesAssumption DEF Procs, NULL
          <6> QED BY <4>2, <6>1, <6>2, Zenon
        <5> QED BY <5>1, <5>2, Zenon
      <4> QED BY <4>4, <4>5, Zenon DEF RunningIsCurrent
    <3> QED BY <3>3, <3>4, Zenon
  <2> QED BY <2>2, <2>3, SMTT(30)
<1>14. CASE Wfi(c)
  <2>1. state' = state /\ cproc' = cproc /\ pc[c] # "sched" /\ pc'[c] # "sched"
    BY <1>14, <1>t, GotoType DEF Wfi
  <2> QED BY <2>1, RunKept
<1>15. CASE Swtch(c)
  BY <1>15, RunSwitched, Zenon
<1>16. CASE Wakeup(c)
  <2>1. pc[c] = "wakeup" /\ cproc' = cproc
    BY <1>16, ZenonT(30) DEF Wakeup
  <2>2. CASE Sleepers(c) = {}
    <3>1. state' = state /\ pc'[c] = loc[c].wret
      BY <1>16, <1>t, <2>2, GotoType, Zenon DEF Wakeup
    <3>2. loc[c].wret # "sched"
      BY <2>1, HereWakeup, Zenon
    <3> QED BY <2>1, <3>1, <3>2, RunKept, Zenon
  <2>3. CASE Sleepers(c) # {}
    <3>1. PICK p \in Procs : state[p] = "SLEEPING" /\ state' = [state EXCEPT ![p] = "RUNNABLE"]
                            /\ pc'[c] = "enq_link"
      BY <1>16, <2>3, WakeupFinds
    <3> QED BY <2>1, <3>1, RunMoved, ZenonT(30)
  <2> QED BY <2>2, <2>3, SMTT(30)
<1>17. CASE ClockIntr(c)
  <2>1. state' = state /\ cproc' = cproc /\ pc[c] # "sched" /\ pc'[c] # "sched"
    BY <1>17, <1>t, GotoType DEF ClockIntr
  <2> QED BY <2>1, RunKept
<1>18. CASE ClockTick(c)
  <2>1. state' = state /\ cproc' = cproc /\ pc[c] # "sched" /\ pc'[c] # "sched"
    BY <1>18, <1>t, GotoType DEF ClockTick, WakeupStart
  <2> QED BY <2>1, RunKept
<1>19. CASE Clock(c)
  <2>1. state' = state /\ cproc' = cproc /\ pc[c] # "sched" /\ pc'[c] # "sched"
    BY <1>19, <1>t, GotoType DEF Clock
  <2> QED BY <2>1, RunKept
<1>20. CASE ClockStore(c)
  <2>1. state' = state /\ cproc' = cproc /\ pc[c] # "sched" /\ pc'[c] # "sched"
    BY <1>20, <1>t, GotoType DEF ClockStore
  <2> QED BY <2>1, RunKept
<1>21. CASE ClockLevel(c)
  <2>1. state' = state /\ cproc' = cproc /\ pc[c] # "sched" /\ pc'[c] # "sched"
    BY <1>21, <1>t, GotoType DEF ClockLevel
  <2> QED BY <2>1, RunKept, Zenon
<1>22. CASE ClockCompare(c)
  <2>1. state' = state /\ cproc' = cproc /\ pc[c] # "sched" /\ pc'[c] # "sched"
    BY <1>22, <1>t, GotoType DEF ClockCompare
  <2> QED BY <2>1, RunKept, Zenon
<1>23. CASE DemoteReset(c)
  <2>1. state' = state /\ cproc' = cproc /\ pc[c] # "sched" /\ pc'[c] # "sched"
    BY <1>23, <1>t, GotoType DEF DemoteReset
  <2> QED BY <2>1, RunKept, Zenon
<1>24. CASE DemoteLevel(c)
  <2>1. state' = state /\ cproc' = cproc /\ pc[c] # "sched" /\ pc'[c] # "sched"
    BY <1>24, <1>t, GotoType DEF DemoteLevel
  <2> QED BY <2>1, RunKept, Zenon
<1>25. CASE DemoteStore(c)
  <2>1. state' = state /\ cproc' = cproc /\ pc[c] # "sched" /\ pc'[c] # "sched"
    BY <1>25, <1>t, GotoType DEF DemoteStore
  <2> QED BY <2>1, RunKept, Zenon
<1>26. CASE ClockRet(c)
  <2>1. state' = state /\ cproc' = cproc /\ pc[c] # "sched" /\ pc'[c] # "sched"
    BY <1>26, <1>t, GotoType DEF ClockRet
  <2> QED BY <2>1, RunKept
<1>27. CASE yield(c)
  <2>1. pc[c] \in ProcPCs /\ pc[c] # "sched" /\ Leave(c, "RUNNABLE") /\ cproc' = cproc
    BY <1>27, Zenon DEF yield, InUser, ProcPCs
  <2> QED BY <2>1, RunLeft, Zenon
<1>28. CASE ForkRun(c)
  <2> DEFINE np == child[cproc[c]]
  <2>1. pc[c] = "user" /\ np # NULL /\ cproc' = cproc /\ state' = [state EXCEPT ![np] = "RUNNABLE"]
    BY <1>28, ZenonT(30) DEF ForkRun
  <2>2. cproc[c] \in Procs
    BY <2>1, HereProc, Zenon DEF ProcPCs
  <2>3. np \in Procs /\ state[np] = "USED"
    BY <2>1, <2>2, SMTT(30) DEF IInv, TypeOK, Children
  <2>4. pc'[c] # "sched"
    BY <1>28, <1>t, GotoType DEF ForkRun, EnqueueLoad
  <2> HIDE DEF np
  <2> QED BY <2>1, <2>3, <2>4, RunMoved, ZenonT(30)
<1>29. CASE ExitZombie(c)
  <2>1. pc[c] \in ProcPCs /\ pc[c] # "sched" /\ Leave(c, "ZOMBIE") /\ cproc' = cproc
    BY <1>29, Zenon DEF ExitZombie, InUser, ProcPCs
  <2> QED BY <2>1, RunLeft, Zenon
<1>30. CASE BoostTime(c)
  <2>1. state' = state /\ cproc' = cproc /\ pc[c] # "sched" /\ pc'[c] # "sched"
    BY <1>30, <1>t, GotoType DEF BoostTime
  <2> QED BY <2>1, RunKept, Zenon
<1>31. ASSUME NEW ch \in Chans, sleep(c, ch) PROVE OneCpuPerProc' /\ RunningIsCurrent'
  <2>1. pc[c] \in ProcPCs /\ pc[c] # "sched" /\ Leave(c, "SLEEPING") /\ cproc' = cproc
    BY <1>31, Zenon DEF sleep, InUser, ProcPCs
  <2> QED BY <2>1, RunLeft, Zenon
<1>32. ASSUME NEW ch \in Chans, CallWakeup(c, ch) PROVE OneCpuPerProc' /\ RunningIsCurrent'
  <2>1. state' = state /\ cproc' = cproc /\ pc[c] # "sched" /\ pc'[c] # "sched"
    BY <1>32, <1>t, GotoType DEF CallWakeup, WakeupStart, InUser
  <2> QED BY <2>1, RunKept, Zenon
<1>33. ASSUME NEW ch \in Chans, DevIntr(c, ch) PROVE OneCpuPerProc' /\ RunningIsCurrent'
  <2>1. state' = state /\ cproc' = cproc /\ pc[c] # "sched" /\ pc'[c] # "sched"
    BY <1>33, <1>t, GotoType DEF DevIntr, WakeupStart
  <2> QED BY <2>1, RunKept
<1>34. ASSUME NEW q \in Procs, kkill(c, q) PROVE OneCpuPerProc' /\ RunningIsCurrent'
  <2>1. /\ state[q] = "SLEEPING" /\ cproc' = cproc /\ pc' = pc /\ pc[c] # "sched"
        /\ state' = [state EXCEPT ![q] = "RUNNABLE"]
    BY <1>34, Zenon DEF kkill, InUser
  <2> QED BY <2>1, RunMoved, ZenonT(30)
<1>35. ASSUME NEW q \in Procs, ForkAlloc(c, q) PROVE OneCpuPerProc' /\ RunningIsCurrent'
  <2>1. /\ state[q] = "UNUSED" /\ cproc' = cproc /\ pc' = pc /\ pc[c] # "sched"
        /\ state' = [state EXCEPT ![q] = "USED"] \/ state' = state
    BY <1>35, Zenon DEF ForkAlloc, InUser
  <2> QED BY <2>1, RunKept, RunMoved, Zenon
<1>36. ASSUME NEW q \in Procs, freeproc(c, q) PROVE OneCpuPerProc' /\ RunningIsCurrent'
  <2>1. /\ state[q] = "ZOMBIE" /\ cproc' = cproc /\ pc' = pc /\ pc[c] # "sched"
        /\ state' = [state EXCEPT ![q] = "UNUSED"]
    BY <1>36, Zenon DEF freeproc, InUser
  <2> QED BY <2>1, RunMoved, ZenonT(30)
<1>37. ASSUME NEW q \in Procs, BoostOne(c, q) PROVE OneCpuPerProc' /\ RunningIsCurrent'
  <2>1. state' = state /\ cproc' = cproc /\ pc[c] # "sched" /\ pc'[c] # "sched"
    BY <1>37, <1>t, GotoType DEF BoostOne, InUser
  <2> QED BY <2>1, RunKept, Zenon
<1>38. CASE kexit(c)
  <2>1. state' = state /\ cproc' = cproc /\ pc[c] # "sched" /\ pc'[c] # "sched"
    BY <1>38, <1>t, GotoType DEF kexit, WakeupStart, InUser
  <2> QED BY <2>1, RunKept
<1>39. CASE BoostAll(c)
  <2>1. state' = state /\ cproc' = cproc /\ pc[c] # "sched" /\ pc'[c] # "sched"
    BY <1>39, <1>t, GotoType, Zenon DEF BoostAll, InUser
  <2> QED BY <2>1, RunKept
<1> QED BY <1>1, <1>2, <1>3, <1>4, <1>5, <1>6, <1>7, <1>8, <1>9, <1>10, <1>11, <1>12, <1>13, <1>14,
           <1>15, <1>16, <1>17, <1>18, <1>19, <1>20, <1>21, <1>22, <1>23, <1>24, <1>25,
           <1>26, <1>27, <1>28, <1>29, <1>30, <1>31, <1>32, <1>33, <1>34, <1>35, <1>36,
           <1>37, <1>38, <1>39, ZenonT(30) DEF KernelStep, SchedulerStep, ProcessStep, Request

\* A step that fills no slot keeps the slots that kfork() fills apart, if it moves none
\* of them and starts no boost on behalf of the process that fills one.
LEMMA ChildrenKept ==
  ASSUME IInv, child' = child,
         \A p \in Procs : state[p] = "USED" => state'[p] = "USED",
         \A p \in Procs : child[p] # NULL /\ boost[p] = 0 => boost'[p] = 0
  PROVE  Children'
<1>1. Children /\ \A p \in Procs : child[p] # NULL => child[p] \in Procs
  BY Zenon DEF IInv, TypeOK
<1> QED BY <1>1, Zenon DEF Children

\* Every step keeps the slots that kfork() fills apart.
LEMMA ChildrenStep ==
  ASSUME IInv, NEW c \in CPUs, KernelStep(c) \/ Request(c)
  PROVE  Children'
<1>t. TypeOK
  BY DEF IInv
<1>u. Thread(c) \in CPUs \cup Procs
  BY <1>t, ThreadTypes, Zenon
<1>b. boost \in [CPUs \cup Procs -> 0 .. BoostEnd]
  BY <1>t, Zenon DEF TypeOK
<1>l. LastClear \in Nat
  BY SizesAssumption DEF LastClear
<1>1. CASE EnqueueLink(c)
  <2>1. child' = child /\ state' = state /\ boost' = boost
    BY <1>1, Zenon DEF EnqueueLink
  <2> QED BY <2>1, ChildrenKept, Zenon
<1>2. CASE EnqueueTail(c)
  <2>1. child' = child /\ state' = state /\ boost' = boost
    BY <1>2, Zenon DEF EnqueueTail
  <2> QED BY <2>1, ChildrenKept
<1>3. CASE EnqueueClear(c)
  <2>1. child' = child /\ state' = state
    BY <1>3, Zenon DEF EnqueueClear
  <2>2. ASSUME NEW p \in Procs, boost[p] = 0 PROVE boost'[p] = 0
    BY <1>3, <1>u, <1>b, <1>l, <2>2, CPUsAssumption DEF EnqueueClear
  <2> QED BY <2>1, <2>2, ChildrenKept, Zenon
<1>4. CASE BoostClear(c)
  <2>1. child' = child /\ state' = state
    BY <1>4, Zenon DEF BoostClear
  <2>2. ASSUME NEW p \in Procs, boost[p] = 0 PROVE boost'[p] = 0
    BY <1>4, <1>u, <1>b, <1>l, <2>2, CPUsAssumption DEF BoostClear, Boosting
  <2> QED BY <2>1, <2>2, ChildrenKept
<1>5. CASE BoostProc(c)
  <2>1. child' = child /\ state' = state
    BY <1>5, SMTT(30) DEF BoostProc
  <2>2. ASSUME NEW p \in Procs, boost[p] = 0 PROVE boost'[p] = 0
    BY <1>5, <1>u, <1>b, <1>l, <2>2, CPUsAssumption DEF BoostProc
  <2> QED BY <2>1, <2>2, ChildrenKept
<1>6. CASE BoostDone(c)
  <2>1. child' = child /\ state' = state
    BY <1>6, Zenon DEF BoostDone
  <2>2. ASSUME NEW p \in Procs, boost[p] = 0 PROVE boost'[p] = 0
    BY <1>6, <1>u, <1>b, <1>l, <2>2, CPUsAssumption, Zenon DEF BoostDone
  <2> QED BY <2>1, <2>2, ChildrenKept
<1>7. CASE SchedTop(c)
  <2>1. child' = child /\ state' = state
    BY <1>7, Zenon DEF SchedTop
  <2>2. ASSUME NEW p \in Procs, boost[p] = 0 PROVE boost'[p] = 0
    BY <1>7, <1>u, <1>b, <1>l, <2>2, CPUsAssumption, Zenon DEF SchedTop
  <2> QED BY <2>1, <2>2, ChildrenKept
<1>8. CASE Dequeue(c)
  <2>1. child' = child /\ state' = state /\ boost' = boost
    BY <1>8, Zenon DEF Dequeue
  <2> QED BY <2>1, ChildrenKept
<1>9. CASE DequeueNext(c)
  <2>1. child' = child /\ state' = state /\ boost' = boost
    BY <1>9, Zenon DEF DequeueNext
  <2> QED BY <2>1, ChildrenKept
<1>10. CASE DequeueHead(c)
  <2>1. child' = child /\ state' = state /\ boost' = boost
    BY <1>10, Zenon DEF DequeueHead
  <2> QED BY <2>1, ChildrenKept
<1>11. CASE DequeueTail(c)
  <2>1. child' = child /\ state' = state /\ boost' = boost
    BY <1>11, Zenon DEF DequeueTail
  <2> QED BY <2>1, ChildrenKept
<1>12. CASE DequeueClear(c)
  <2>1. child' = child /\ state' = state /\ boost' = boost
    BY <1>12, Zenon DEF DequeueClear
  <2> QED BY <2>1, ChildrenKept
<1>13. CASE Pick(c)
  <2>1. child' = child /\ boost' = boost
    BY <1>13, Zenon DEF Pick
  <2>2. \A p \in Procs : state[p] = "USED" => state'[p] = "USED"
    BY <1>13, <1>t DEF TypeOK, Pick
  <2> QED BY <2>1, <2>2, ChildrenKept, Zenon
<1>14. CASE Wfi(c)
  <2>1. child' = child /\ state' = state /\ boost' = boost
    BY <1>14, SMTT(30) DEF Wfi
  <2> QED BY <2>1, ChildrenKept
<1>15. CASE Swtch(c)
  <2>1. child' = child /\ state' = state /\ boost' = boost
    BY <1>15, ZenonT(30) DEF Swtch
  <2> QED BY <2>1, ChildrenKept
<1>16. CASE Wakeup(c)
  <2>1. child' = child /\ boost' = boost
    BY <1>16, ZenonT(30) DEF Wakeup
  <2>2. CASE Sleepers(c) = {}
    <3>1. state' = state
      BY <1>16, <2>2, Zenon DEF Wakeup
    <3> QED BY <2>1, <3>1, ChildrenKept, Zenon
  <2>3. CASE Sleepers(c) # {}
    <3>1. PICK q \in Procs : state[q] = "SLEEPING" /\ state' = [state EXCEPT ![q] = "RUNNABLE"]
      BY <1>16, <2>3, WakeupFinds, Zenon
    <3>2. \A p \in Procs : state[p] = "USED" => state'[p] = "USED"
      BY <1>t, <3>1, Zenon DEF TypeOK
    <3> QED BY <2>1, <3>2, ChildrenKept, Zenon
  <2> QED BY <2>2, <2>3, SMTT(30)
<1>17. CASE ClockIntr(c)
  <2>1. child' = child /\ state' = state /\ boost' = boost
    BY <1>17, Zenon DEF ClockIntr
  <2> QED BY <2>1, ChildrenKept
<1>18. CASE ClockTick(c)
  <2>1. child' = child /\ state' = state /\ boost' = boost
    BY <1>18, Zenon DEF ClockTick
  <2> QED BY <2>1, ChildrenKept
<1>19. CASE Clock(c)
  <2>1. child' = child /\ state' = state /\ boost' = boost
    BY <1>19, Zenon DEF Clock
  <2> QED BY <2>1, ChildrenKept
<1>20. CASE ClockStore(c)
  <2>1. child' = child /\ state' = state /\ boost' = boost
    BY <1>20, Zenon DEF ClockStore
  <2> QED BY <2>1, ChildrenKept
<1>21. CASE ClockLevel(c)
  <2>1. child' = child /\ state' = state /\ boost' = boost
    BY <1>21, Zenon DEF ClockLevel
  <2> QED BY <2>1, ChildrenKept, Zenon
<1>22. CASE ClockCompare(c)
  <2>1. child' = child /\ state' = state /\ boost' = boost
    BY <1>22, Zenon DEF ClockCompare
  <2> QED BY <2>1, ChildrenKept, Zenon
<1>23. CASE DemoteReset(c)
  <2>1. child' = child /\ state' = state /\ boost' = boost
    BY <1>23, Zenon DEF DemoteReset
  <2> QED BY <2>1, ChildrenKept, Zenon
<1>24. CASE DemoteLevel(c)
  <2>1. child' = child /\ state' = state /\ boost' = boost
    BY <1>24, Zenon DEF DemoteLevel
  <2> QED BY <2>1, ChildrenKept, Zenon
<1>25. CASE DemoteStore(c)
  <2>1. child' = child /\ state' = state /\ boost' = boost
    BY <1>25, Zenon DEF DemoteStore
  <2> QED BY <2>1, ChildrenKept, Zenon
<1>26. CASE ClockRet(c)
  <2>1. child' = child /\ state' = state /\ boost' = boost
    BY <1>26, Zenon DEF ClockRet
  <2> QED BY <2>1, ChildrenKept
<1>27. CASE yield(c)
  <2>1. /\ child' = child /\ boost' = boost /\ state' = [state EXCEPT ![cproc[c]] = "RUNNABLE"]
        /\ pc[c] # "sched" /\ pc[c] \in ProcPCs
    BY <1>27, ZenonT(20), SMTT(30), SMTT(31) DEF yield, Leave, InUser, ProcPCs
  <2>2. cproc[c] \in Procs /\ state[cproc[c]] = "RUNNING"
    BY <2>1, HereProc, Zenon DEF IInv, RunningIsCurrent
  <2>3. \A p \in Procs : state[p] = "USED" => state'[p] = "USED"
    BY <1>t, <2>1, <2>2, SMTT(30) DEF TypeOK
  <2> QED BY <2>1, <2>3, ChildrenKept, SMTT(30), ZenonT(20), SMTT(31)
<1>28. CASE ForkRun(c)
  <2> DEFINE np == child[cproc[c]]
  <2>1. /\ child' = [child EXCEPT ![cproc[c]] = NULL] /\ boost' = boost /\ pc[c] = "user"
        /\ state' = [state EXCEPT ![np] = "RUNNABLE"] /\ np # NULL
    BY <1>28, ZenonT(30) DEF ForkRun
  <2>2. cproc[c] \in Procs /\ Children
    BY <2>1, HereProc, Zenon DEF IInv, ProcPCs
  <2>3. ASSUME NEW p \in Procs, child'[p] # NULL
        PROVE  p # cproc[c] /\ child'[p] = child[p] /\ child[p] # np /\ child[p] \in Procs
    BY <1>t, <2>1, <2>2, <2>3 DEF TypeOK, Children
  <2>4. ASSUME NEW p \in Procs, child'[p] # NULL PROVE state'[child'[p]] = "USED" /\ boost'[p] = 0
    <3>1. state[child[p]] = "USED" /\ boost[p] = 0
      BY <2>2, <2>3, <2>4, Zenon DEF Children
    <3> HIDE DEF np
    <3> QED BY <1>t, <2>1, <2>3, <2>4, <3>1 DEF TypeOK
  <2>5. ASSUME NEW p \in Procs, child'[p] # NULL, NEW q \in Procs, child'[q] = child'[p] PROVE q = p
    BY <2>2, <2>3, <2>5 DEF Children
  <2> QED BY <2>4, <2>5, ZenonT(30) DEF Children
<1>29. CASE ExitZombie(c)
  <2>1. /\ child' = child /\ boost' = boost /\ state' = [state EXCEPT ![cproc[c]] = "ZOMBIE"]
        /\ pc[c] # "sched" /\ pc[c] \in ProcPCs
    BY <1>29, Zenon DEF ExitZombie, Leave, InUser, ProcPCs
  <2>2. cproc[c] \in Procs /\ state[cproc[c]] = "RUNNING"
    BY <2>1, HereProc, Zenon DEF IInv, RunningIsCurrent
  <2>3. \A p \in Procs : state[p] = "USED" => state'[p] = "USED"
    BY <1>t, <2>1, <2>2, Zenon DEF TypeOK
  <2> QED BY <2>1, <2>3, ChildrenKept, Zenon
<1>30. CASE BoostTime(c)
  <2>1. child' = child /\ state' = state /\ boost' = boost
    BY <1>30, Zenon DEF BoostTime
  <2> QED BY <2>1, ChildrenKept, Zenon
<1>31. ASSUME NEW ch \in Chans, sleep(c, ch) PROVE Children'
  <2>1. /\ child' = child /\ boost' = boost /\ state' = [state EXCEPT ![cproc[c]] = "SLEEPING"]
        /\ pc[c] # "sched" /\ pc[c] \in ProcPCs
    BY <1>31, SMTT(30) DEF sleep, Leave, InUser, ProcPCs
  <2>2. cproc[c] \in Procs /\ state[cproc[c]] = "RUNNING"
    BY <2>1, HereProc, Zenon DEF IInv, RunningIsCurrent
  <2>3. \A p \in Procs : state[p] = "USED" => state'[p] = "USED"
    BY <1>t, <2>1, <2>2, Zenon DEF TypeOK
  <2> QED BY <2>1, <2>3, ChildrenKept, Zenon
<1>32. ASSUME NEW ch \in Chans, CallWakeup(c, ch) PROVE Children'
  <2>1. child' = child /\ state' = state /\ boost' = boost
    BY <1>32, Zenon DEF CallWakeup
  <2> QED BY <2>1, ChildrenKept, Zenon
<1>33. ASSUME NEW ch \in Chans, DevIntr(c, ch) PROVE Children'
  <2>1. child' = child /\ state' = state /\ boost' = boost
    BY <1>33, Zenon DEF DevIntr
  <2> QED BY <2>1, ChildrenKept
<1>34. ASSUME NEW q \in Procs, kkill(c, q) PROVE Children'
  <2>1. child' = child /\ boost' = boost /\ state' = [state EXCEPT ![q] = "RUNNABLE"] /\ state[q] = "SLEEPING"
    BY <1>34, <1>t, Zenon DEF kkill
  <2>3. \A p \in Procs : state[p] = "USED" => state'[p] = "USED"
    BY <1>t, <2>1, SMTT(30) DEF TypeOK
  <2> QED BY <2>1, <2>3, ChildrenKept, Zenon
<1>35. ASSUME NEW q \in Procs, ForkAlloc(c, q) PROVE Children'
  <2>1. boost' = boost /\ pc[c] = "user" /\ boost[cproc[c]] = 0 /\ state[q] = "UNUSED"
    BY <1>35, Zenon DEF ForkAlloc, InUser
  <2>2. CASE UNCHANGED <<state, child>>
    BY <2>1, <2>2, ChildrenKept, Zenon
  <2>3. CASE state' = [state EXCEPT ![q] = "USED"] /\ child' = [child EXCEPT ![cproc[c]] = q]
    <3>1. cproc[c] \in Procs /\ Children
      BY <2>1, HereProc, Zenon DEF IInv, ProcPCs
    <3>2. ASSUME NEW p \in Procs PROVE child'[p] = IF p = cproc[c] THEN q ELSE child[p]
      BY <1>t, <2>3, Zenon DEF TypeOK
    <3>3. ASSUME NEW p \in Procs, child[p] # NULL PROVE child[p] \in Procs /\ child[p] # q
      BY <1>t, <2>1, <3>1, <3>3 DEF TypeOK, Children
    <3>4. ASSUME NEW p \in Procs PROVE state'[p] = IF p = q THEN "USED" ELSE state[p]
      BY <1>t, <2>3, Zenon DEF TypeOK
    <3>5. q # NULL
      BY SizesAssumption, SMTT(30) DEF Procs, NULL
    <3>6. ASSUME NEW p \in Procs, child'[p] # NULL PROVE state'[child'[p]] = "USED" /\ boost[p] = 0
      <4>1. CASE p = cproc[c]
        BY <2>1, <3>2, <3>4, <4>1, ZenonT(30)
      <4>2. CASE p # cproc[c]
        <5>1. child'[p] = child[p] /\ child[p] # NULL
          BY <3>2, <3>6, <4>2, Zenon
        <5>2. state[child[p]] = "USED" /\ boost[p] = 0 /\ child[p] \in Procs /\ child[p] # q
          BY <3>1, <3>3, <5>1, Zenon DEF Children
        <5> QED BY <3>4, <5>1, <5>2, ZenonT(30)
      <4> QED BY <4>1, <4>2, SMTT(30)
    <3>7. ASSUME NEW p \in Procs, child'[p] # NULL, NEW r \in Procs, child'[r] = child'[p] PROVE r = p
      BY <3>1, <3>2, <3>3, <3>5, <3>7 DEF Children
    <3> QED BY <2>1, <3>6, <3>7, Zenon DEF Children
  <2> QED BY <1>35, <2>2, <2>3, ZenonT(30) DEF ForkAlloc
<1>36. ASSUME NEW q \in Procs, freeproc(c, q) PROVE Children'
  <2>1. child' = child /\ boost' = boost /\ state' = [state EXCEPT ![q] = "UNUSED"] /\ state[q] = "ZOMBIE"
    BY <1>36, <1>t, Zenon DEF freeproc
  <2>3. \A p \in Procs : state[p] = "USED" => state'[p] = "USED"
    BY <1>t, <2>1, SMTT(30) DEF TypeOK
  <2> QED BY <2>1, <2>3, ChildrenKept, Zenon
<1>37. ASSUME NEW q \in Procs, BoostOne(c, q) PROVE Children'
  <2>1. child' = child /\ state' = state /\ boost' = boost
    BY <1>37, ZenonT(30) DEF BoostOne
  <2> QED BY <2>1, ChildrenKept, SMTT(30), ZenonT(20), SMTT(31)
<1>38. CASE kexit(c)
  <2>1. child' = child /\ state' = state /\ boost' = boost
    BY <1>38, Zenon DEF kexit
  <2> QED BY <2>1, ChildrenKept
<1>39. CASE BoostAll(c)
  <2>1. /\ child' = child /\ state' = state /\ pc[c] = "user" /\ child[cproc[c]] = NULL
        /\ boost' = [boost EXCEPT ![cproc[c]] = 1]
    BY <1>39, Zenon DEF BoostAll, InUser
  <2>2. ASSUME NEW p \in Procs, child[p] # NULL, boost[p] = 0 PROVE boost'[p] = 0
    BY <1>b, <2>1, <2>2, Zenon
  <2> QED BY <2>1, <2>2, ChildrenKept, Zenon
<1> QED BY <1>1, <1>2, <1>3, <1>4, <1>5, <1>6, <1>7, <1>8, <1>9, <1>10, <1>11, <1>12, <1>13, <1>14,
           <1>15, <1>16, <1>17, <1>18, <1>19, <1>20, <1>21, <1>22, <1>23, <1>24, <1>25,
           <1>26, <1>27, <1>28, <1>29, <1>30, <1>31, <1>32, <1>33, <1>34, <1>35, <1>36,
           <1>37, <1>38, <1>39, ZenonT(30) DEF KernelStep, SchedulerStep, ProcessStep, Request

\* The invariant is inductive.
LEMMA NextInv == IInv /\ [Next]_vars => IInv'
<1>1. ASSUME IInv, UNCHANGED vars PROVE IInv'
  <2>1. TypeOK'
    BY <1>1, SMTT(30) DEF vars, IInv, TypeOK
  <2>2. Control'
    BY <1>1, ZenonT(30) DEF vars, IInv, Control, ControlAt, Thread
  <2>3. EnqueueLocked' /\ Children'
    BY <1>1, ZenonT(30) DEF vars, IInv, EnqueueLocked, Children
  <2>4. OneCpuPerProc' /\ RunningIsCurrent'
    BY <1>1, Zenon DEF vars, IInv, OneCpuPerProc, RunningIsCurrent
  <2> QED BY <2>1, <2>2, <2>3, <2>4 DEF IInv
<1>2. ASSUME IInv, NEW c \in CPUs, KernelStep(c) \/ Request(c) PROVE IInv'
  BY <1>2, TypeStep, ControlStep, EnqueueLockedStep, ChildrenStep, RunStep, Zenon DEF IInv
<1> QED BY <1>1, <1>2, Zenon DEF Next

\* The invariant holds in every state that the kernel can reach.
THEOREM Invariance == Spec => []IInv
<1> QED BY InitInv, NextInv, PTL DEF Spec

\* The kernel's variables keep their types whatever the CPUs do, for any numbers of
\* CPUs, processes, levels and ticks.
THEOREM TypeCorrect == Spec => []TypeOK
<1>1. IInv => TypeOK
  BY Zenon DEF IInv
<1> QED BY <1>1, Invariance, PTL

\* scheduler() never runs one process on two CPUs, however the unlocked run queues
\* are corrupted by enqueue(), dequeue() and priority_boost() racing on them.
THEOREM NoDoubleRun == Spec => []OneCpuPerProc
<1>1. IInv => OneCpuPerProc
  BY Zenon DEF IInv
<1> QED BY <1>1, Invariance, PTL

\* p->state and c->proc agree at every step of every CPU.
THEOREM StatesAgree == Spec => []RunningIsCurrent
<1>1. IInv => RunningIsCurrent
  BY Zenon DEF IInv
<1> QED BY <1>1, Invariance, PTL

-----------------------------------------------------------------------------
(* The quantum. *)

\* The code that loads or stores the ticks or the level of a process.
Accounting(c) ==
  \/ BoostProc(c) \/ BoostTime(c)
  \/ ClockStore(c) \/ ClockLevel(c) \/ ClockCompare(c)
  \/ DemoteReset(c) \/ DemoteLevel(c) \/ DemoteStore(c)
  \/ \E p \in Procs : ForkAlloc(c, p) \/ freeproc(c, p) \/ BoostOne(c, p)

\* Where clockintr() has a tick in hand, or sys_boostproc(pid) half of a boost.
TickPCs == {"clock_level", "clock_cmp", "demote"}
BusyPCs == TickPCs \cup {"boost_time"}
DecidedPCs == {"clock_cmp", "demote_level", "demote_store"}

\* Outside that code ticks and levels stay as they are, and the CPU neither comes from such
\* a place nor goes to one where TickDecided says something of it.
LEMMA TicksKept ==
  ASSUME IInv, NEW c \in CPUs, KernelStep(c) \/ Request(c), ~ Accounting(c)
  PROVE  /\ queue_level' = queue_level /\ time_in_queue' = time_in_queue
         /\ pc[c] \notin BusyPCs /\ pc'[c] \notin DecidedPCs
<1> DEFINE Kept == /\ queue_level' = queue_level /\ time_in_queue' = time_in_queue
                   /\ pc[c] \notin BusyPCs /\ pc'[c] \notin DecidedPCs
<1>t. TypeOK
  BY Zenon DEF IInv
<1>1. CASE EnqueueLink(c)
  <2>1. pc[c] = "enq_link" /\ pc'[c] = "enq_tail"
    BY <1>1, <1>t, GotoType, Zenon DEF EnqueueLink
  <2>2. queue_level' = queue_level /\ time_in_queue' = time_in_queue
    BY <1>1, Zenon DEF EnqueueLink
  <2> QED BY <2>1, <2>2 DEF BusyPCs, TickPCs, DecidedPCs
<1>2. CASE EnqueueTail(c)
  <2>1. pc[c] = "enq_tail" /\ pc'[c] = "enq_clear"
    BY <1>2, <1>t, GotoType, Zenon DEF EnqueueTail
  <2>2. queue_level' = queue_level /\ time_in_queue' = time_in_queue
    BY <1>2, Zenon DEF EnqueueTail
  <2> QED BY <2>1, <2>2 DEF BusyPCs, TickPCs, DecidedPCs
<1>3. CASE EnqueueClear(c)
  <2>1. loc[c].ret \in {"top", "boost", "user", "wakeup"} /\ pc[c] = "enq_clear"
    BY <1>3, Zenon DEF IInv, Control, ControlAt, EnqPCs, EnqueueClear
  <2>2. pc'[c] = loc[c].ret
    BY <1>3, <1>t, GotoType, Zenon DEF EnqueueClear
  <2>3. queue_level' = queue_level /\ time_in_queue' = time_in_queue
    BY <1>3, Zenon DEF EnqueueClear
  <2> QED BY <2>1, <2>2, <2>3 DEF BusyPCs, TickPCs, DecidedPCs
<1>4. CASE BoostClear(c)
  BY <1>4, <1>t, GotoType DEF BoostClear, Boosting, BusyPCs, TickPCs, DecidedPCs
<1>5. CASE BoostDone(c)
  BY <1>5, <1>t, GotoType DEF BoostDone, Boosting, BusyPCs, TickPCs, DecidedPCs
<1>6. CASE SchedTop(c)
  BY <1>6, <1>t, GotoType DEF SchedTop, BusyPCs, TickPCs, DecidedPCs
<1>7. CASE Dequeue(c)
  BY <1>7, <1>t, GotoType DEF Dequeue, NextLevel, BusyPCs, TickPCs, DecidedPCs
<1>8. CASE DequeueNext(c)
  BY <1>8, <1>t, GotoType DEF DequeueNext, BusyPCs, TickPCs, DecidedPCs
<1>9. CASE DequeueHead(c)
  BY <1>9, <1>t, GotoType DEF DequeueHead, BusyPCs, TickPCs, DecidedPCs
<1>10. CASE DequeueTail(c)
  BY <1>10, <1>t, GotoType DEF DequeueTail, BusyPCs, TickPCs, DecidedPCs
<1>11. CASE DequeueClear(c)
  BY <1>11, <1>t, GotoType DEF DequeueClear, BusyPCs, TickPCs, DecidedPCs
<1>12. CASE Pick(c)
  BY <1>12, <1>t, GotoType DEF Pick, NextLevel, BusyPCs, TickPCs, DecidedPCs
<1>13. CASE Wfi(c)
  BY <1>13, <1>t, GotoType DEF Wfi, BusyPCs, TickPCs, DecidedPCs
<1>14. CASE Swtch(c)
  BY <1>14, <1>t, GotoType DEF Swtch, EnqueueLoad, BusyPCs, TickPCs, DecidedPCs
<1>15. CASE Wakeup(c)
  <2>1. loc[c].wret \in {"top", "user", "exit", "clock"} /\ pc[c] = "wakeup"
    BY <1>15, Zenon DEF IInv, Control, ControlAt, Wakeup
  <2>2. pc'[c] = loc[c].wret \/ pc'[c] = "enq_link"
    BY <1>15, <1>t, GotoType, Zenon DEF Wakeup
  <2>3. queue_level' = queue_level /\ time_in_queue' = time_in_queue
    BY <1>15, Zenon DEF Wakeup
  <2> QED BY <2>1, <2>2, <2>3 DEF BusyPCs, TickPCs, DecidedPCs
<1>16. CASE ClockIntr(c)
  BY <1>16, <1>t, GotoType DEF ClockIntr, BusyPCs, TickPCs, DecidedPCs
<1>17. CASE ClockTick(c)
  BY <1>17, <1>t, GotoType DEF ClockTick, WakeupStart, BusyPCs, TickPCs, DecidedPCs
<1>18. CASE Clock(c)
  BY <1>18, <1>t, GotoType DEF Clock, BusyPCs, TickPCs, DecidedPCs
<1>19. CASE ClockRet(c)
  BY <1>19, <1>t, GotoType DEF ClockRet, BusyPCs, TickPCs, DecidedPCs
<1>20. CASE yield(c)
  BY <1>20, <1>t, GotoType DEF yield, Leave, BusyPCs, TickPCs, DecidedPCs
<1>21. CASE ForkRun(c)
  BY <1>21, <1>t, GotoType DEF ForkRun, EnqueueLoad, BusyPCs, TickPCs, DecidedPCs
<1>22. CASE ExitZombie(c)
  BY <1>22, <1>t, GotoType DEF ExitZombie, Leave, BusyPCs, TickPCs, DecidedPCs
<1>23. CASE kexit(c)
  BY <1>23, <1>t, GotoType DEF kexit, InUser, WakeupStart, BusyPCs, TickPCs, DecidedPCs
<1>24. CASE BoostAll(c)
  BY <1>24, <1>t, GotoType DEF BoostAll, InUser, BusyPCs, TickPCs, DecidedPCs
<1>25. ASSUME NEW ch \in Chans, sleep(c, ch) PROVE Kept
  BY <1>25, <1>t, GotoType DEF sleep, InUser, Leave, BusyPCs, TickPCs, DecidedPCs
<1>26. ASSUME NEW ch \in Chans, CallWakeup(c, ch) PROVE Kept
  BY <1>26, <1>t, GotoType DEF CallWakeup, InUser, WakeupStart, BusyPCs, TickPCs, DecidedPCs
<1>27. ASSUME NEW ch \in Chans, DevIntr(c, ch) PROVE Kept
  BY <1>27, <1>t, GotoType DEF DevIntr, WakeupStart, BusyPCs, TickPCs, DecidedPCs
<1>28. ASSUME NEW p \in Procs, kkill(c, p) PROVE Kept
  BY <1>28, <1>t, GotoType DEF kkill, InUser, BusyPCs, TickPCs, DecidedPCs
<1> QED
  BY <1>1, <1>2, <1>3, <1>4, <1>5, <1>6, <1>7, <1>8, <1>9, <1>10, <1>11, <1>12, <1>13,
     <1>14, <1>15, <1>16, <1>17, <1>18, <1>19, <1>20, <1>21, <1>22, <1>23, <1>24, <1>25,
     <1>26, <1>27, <1>28, ZenonT(30)
     DEF KernelStep, SchedulerStep, ProcessStep, Request, Accounting

\* A tick or a boost that another CPU has in hand stays there.
LEMMA BusyKept ==
  ASSUME IInv, NEW c \in CPUs, KernelStep(c) \/ Request(c), NEW q \in Procs
  PROVE  /\ Ticking(q) => Ticking(q)' \/ (cproc[c] = q /\ pc[c] \in TickPCs)
         /\ HalfBoosted(q) => HalfBoosted(q)' \/ (pc[c] = "boost_time" /\ loc[c].p = q)
<1>1. ASSUME NEW d \in CPUs, cproc[d] = q, pc[d] \in {"clock_level", "clock_cmp", "demote"}
      PROVE  Ticking(q)' \/ (cproc[c] = q /\ pc[c] \in TickPCs)
  <2>1. CASE d = c
    BY <1>1, <2>1, Zenon DEF TickPCs
  <2>2. CASE d # c
    BY <1>1, <2>2, OthersUnchanged, Zenon DEF Ticking
  <2> QED BY <2>1, <2>2
<1>2. ASSUME NEW d \in CPUs, pc[d] = "boost_time", loc[d].p = q
      PROVE  HalfBoosted(q)' \/ (pc[c] = "boost_time" /\ loc[c].p = q)
  <2>1. CASE d # c
    BY <1>2, <2>1, OthersUnchanged, Zenon DEF HalfBoosted
  <2> QED BY <1>2, <2>1, Zenon
<1> QED BY <1>1, <1>2, Zenon DEF Ticking, HalfBoosted

\* What a step of CPU c may do to process q: leave its account alone, reset its ticks,
\* begin to boost it, or, if q is its own process, settle its tick or take it in hand.
Left(c, q) ==
  /\ time_in_queue'[q] = time_in_queue[q] /\ queue_level'[q] = queue_level[q]
  /\ ~ (cproc[c] = q /\ pc[c] \in TickPCs) /\ ~ (pc[c] = "boost_time" /\ loc[c].p = q)
Reset(q) == time_in_queue'[q] = 0 /\ queue_level'[q] \in Levels
HalfWay(q) == time_in_queue'[q] = time_in_queue[q] /\ HalfBoosted(q)'
Own(c, q) == cproc[c] = q /\ (InQuantum(q)' \/ Ticking(q)' \/ HalfBoosted(q)')

Fate(c, q) == Left(c, q) \/ Reset(q) \/ HalfWay(q) \/ Own(c, q)

\* A process without ticks is in the quantum of any level.
LEMMA ResetInQuantum ==
  ASSUME NEW q \in Procs, Reset(q)
  PROVE  InQuantum(q)'
<1>1. QUANTUM[queue_level'[q]] > 0
  BY SizesAssumption DEF Reset
<1> QED BY <1>1 DEF Reset, InQuantum

\* Whatever its fate, a process keeps the property.
LEMMA QuantumFate ==
  ASSUME IInv, WithinQuantum, NEW c \in CPUs, KernelStep(c) \/ Request(c), NEW q \in Procs, Fate(c, q)
  PROVE  InQuantum(q)' \/ Ticking(q)' \/ HalfBoosted(q)'
<1>1. CASE Left(c, q)
  <2>1. InQuantum(q) => InQuantum(q)'
    BY <1>1, Zenon DEF Left, InQuantum
  <2> QED BY <1>1, <2>1, BusyKept, Zenon DEF Left, WithinQuantum
<1>2. CASE Reset(q)
  BY <1>2, ResetInQuantum, Zenon
<1>3. CASE HalfWay(q)
  BY <1>3, Zenon DEF HalfWay
<1>4. CASE Own(c, q)
  BY <1>4, Zenon DEF Own
<1> QED BY <1>1, <1>2, <1>3, <1>4, Zenon DEF Fate

\* And what another CPU has decided about it stays decided.
LEMMA DecidedFate ==
  ASSUME IInv, NEW c \in CPUs, KernelStep(c) \/ Request(c),
         NEW d \in CPUs, d # c, DecidedAt(d), \A q \in Procs : Fate(c, q)
  PROVE  DecidedAt(d)'
<1>1. pc'[d] = pc[d] /\ loc'[d] = loc[d] /\ cproc'[d] = cproc[d]
  BY OthersUnchanged, Zenon
<1> SUFFICES ASSUME pc[d] \in DecidedPCs PROVE DecidedAt(d)'
  BY <1>1, Zenon DEF DecidedAt, DecidedPCs
<1>2. PICK q \in Procs : q = cproc[d] /\ q # cproc[c]
  BY HereProc, Zenon DEF IInv, OneCpuPerProc, ProcPCs, DecidedPCs
<1>3. CASE Left(c, q)
  <2>1. HalfBoosted(q) => HalfBoosted(q)'
    BY <1>2, <1>3, BusyKept, Zenon DEF Left
  <2>2. InQuantum(q) => InQuantum(q)'
    BY <1>3, Zenon DEF Left, InQuantum
  <2>3. /\ pc[d] = "clock_cmp" => \/ time_in_queue[q] >= QUANTUM[loc[d].level]
                                  \/ InQuantum(q) \/ HalfBoosted(q)
        /\ pc[d] \in {"demote_level", "demote_store"} => time_in_queue[q] = 0
    BY <1>2, Zenon DEF DecidedAt
  <2>4. time_in_queue'[q] = time_in_queue[q]
    BY <1>3, Zenon DEF Left
  <2> QED BY <1>1, <1>2, <2>1, <2>2, <2>3, <2>4, Zenon DEF DecidedAt
<1>4. CASE Reset(q)
  <2>1. InQuantum(q)' /\ time_in_queue'[q] = 0
    BY <1>2, <1>4, ResetInQuantum, Zenon DEF Reset
  <2> QED BY <1>1, <1>2, <2>1, Zenon DEF DecidedAt
<1>5. CASE HalfWay(q)
  <2>1. pc[d] \in {"demote_level", "demote_store"} => time_in_queue[q] = 0
    BY <1>2, Zenon DEF DecidedAt
  <2> QED BY <1>1, <1>2, <1>5, <2>1, Zenon DEF DecidedAt, HalfWay
<1> QED BY <1>2, <1>3, <1>4, <1>5, Zenon DEF Fate, Own

\* So a step keeps the invariant if every process has such a fate and CPU c itself has
\* decided rightly.
LEMMA QuantumKept ==
  ASSUME IInv, WithinQuantum, TickDecided, NEW c \in CPUs, KernelStep(c) \/ Request(c),
         \A q \in Procs : Fate(c, q), DecidedAt(c)'
  PROVE  WithinQuantum' /\ TickDecided'
<1>1. WithinQuantum'
  BY QuantumFate, Zenon DEF WithinQuantum
<1>2. ASSUME NEW d \in CPUs PROVE DecidedAt(d)'
  BY DecidedFate, Zenon DEF TickDecided
<1> QED BY <1>1, <1>2, Zenon DEF TickDecided

\* The same for a step that only resets ticks and goes to no place where something is decided.
LEMMA QuantumReset ==
  ASSUME IInv, WithinQuantum, TickDecided, NEW c \in CPUs, KernelStep(c) \/ Request(c), NEW p \in Procs,
         pc[c] \notin BusyPCs, pc'[c] \notin DecidedPCs,
         queue_level' = [queue_level EXCEPT ![p] = 0],
         time_in_queue' = [time_in_queue EXCEPT ![p] = 0]
  PROVE  WithinQuantum' /\ TickDecided'
<1>1. Reset(p)
  <2>1. 0 \in Levels
    BY SizesAssumption DEF Levels
  <2> QED BY <2>1, Zenon DEF IInv, TypeOK, Reset
<1>2. ASSUME NEW q \in Procs, q # p PROVE Left(c, q)
  BY <1>2, Zenon DEF IInv, TypeOK, Left, BusyPCs, TickPCs
<1>3. DecidedAt(c)'
  BY Zenon DEF DecidedAt, DecidedPCs
<1> QED BY <1>1, <1>2, <1>3, QuantumKept, Zenon DEF Fate

\* The same for a step that leaves every account alone.
LEMMA QuantumSame ==
  ASSUME IInv, WithinQuantum, TickDecided, NEW c \in CPUs, KernelStep(c) \/ Request(c),
         pc[c] \notin BusyPCs, pc'[c] \notin DecidedPCs,
         queue_level' = queue_level, time_in_queue' = time_in_queue
  PROVE  WithinQuantum' /\ TickDecided'
<1>1. ASSUME NEW q \in Procs PROVE Left(c, q)
  BY Zenon DEF Left, BusyPCs, TickPCs
<1>2. DecidedAt(c)'
  BY Zenon DEF DecidedAt, DecidedPCs
<1> QED BY <1>1, <1>2, QuantumKept, Zenon DEF Fate

\* The same for a step of clockintr(): the other processes are left alone.
LEMMA QuantumClock ==
  ASSUME IInv, WithinQuantum, TickDecided, NEW c \in CPUs, KernelStep(c) \/ Request(c),
         pc[c] # "boost_time", Reset(cproc[c]) \/ Own(c, cproc[c]), DecidedAt(c)',
         \A q \in Procs : q # cproc[c] => /\ time_in_queue'[q] = time_in_queue[q]
                                          /\ queue_level'[q] = queue_level[q]
  PROVE  WithinQuantum' /\ TickDecided'
<1>1. ASSUME NEW q \in Procs PROVE Fate(c, q)
  BY Zenon DEF Left, Fate
<1> QED BY <1>1, QuantumKept, Zenon

\* Every step keeps the property and what makes it inductive.
LEMMA QuantumStep ==
  ASSUME IInv, WithinQuantum, TickDecided, NEW c \in CPUs, KernelStep(c) \/ Request(c)
  PROVE  WithinQuantum' /\ TickDecided'
<1> DEFINE p == cproc[c]
           Others == \A q \in Procs : q # p => /\ time_in_queue'[q] = time_in_queue[q]
                                               /\ queue_level'[q] = queue_level[q]
<1>t. TypeOK
  BY Zenon DEF IInv
<1>1. CASE ~ Accounting(c)
  BY <1>1, TicksKept, QuantumSame, Zenon
<1>2. CASE BoostProc(c)
  <2>1. pc[c] \notin BusyPCs
    BY <1>2, ZenonT(30) DEF BoostProc, Boosting, BusyPCs, TickPCs
  <2>2. pc'[c] \notin DecidedPCs
    <3>1. pc'[c] = "enq_link" \/ pc' = pc
      BY <1>2, <1>t, GotoType, ZenonT(30) DEF BoostProc, EnqueueLoad
    <3>2. pc[c] \in {"boost", "user"}
      BY <1>2, ZenonT(30) DEF BoostProc, Boosting
    <3> QED BY <3>1, <3>2 DEF DecidedPCs
  <2>3. CASE queue_level' = queue_level /\ time_in_queue' = time_in_queue
    BY <2>1, <2>2, <2>3, QuantumSame, Zenon
  <2>4. CASE \E q \in Procs : /\ queue_level' = [queue_level EXCEPT ![q] = 0]
                              /\ time_in_queue' = [time_in_queue EXCEPT ![q] = 0]
    BY <2>1, <2>2, <2>4, QuantumReset, Zenon
  <2>5. boost[Thread(c)] \in 0 .. BoostEnd
    BY ThreadTypes, Zenon DEF IInv, TypeOK
  <2>6. boost[Thread(c)] > LastClear /\ boost[Thread(c)] < BoostEnd
    BY <1>2, ZenonT(30) DEF BoostProc
  <2>7. boost[Thread(c)] - LastClear \in Procs
    BY <2>5, <2>6, SizesAssumption DEF BoostEnd, LastClear, Procs
  <2> QED
    BY <1>2, <2>3, <2>4, <2>7, ZenonT(30) DEF BoostProc
<1>3. CASE BoostTime(c)
  <2>1. pc[c] = "boost_time" /\ loc[c].p \in Procs
    BY <1>3, HereBoostTime, Zenon DEF BoostTime
  <2>2. time_in_queue' = [time_in_queue EXCEPT ![loc[c].p] = 0] /\ queue_level' = queue_level
    BY <1>3, Zenon DEF BoostTime
  <2>3. Reset(loc[c].p)
    BY <2>1, <2>2, Zenon DEF IInv, TypeOK, Reset
  <2>4. ASSUME NEW q \in Procs, q # loc[c].p PROVE Left(c, q)
    BY <2>1, <2>2, <2>4, Zenon DEF IInv, TypeOK, Left, TickPCs
  <2>5. pc'[c] = "user"
    BY <1>3, <1>t, GotoType, Zenon DEF BoostTime
  <2>6. DecidedAt(c)'
    BY <2>5, Zenon DEF DecidedAt
  <2> QED BY <2>3, <2>4, <2>6, QuantumKept, Zenon DEF Fate
<1>4. CASE ClockStore(c)
  <2>1. pc[c] = "clock_store" /\ cproc' = cproc /\ queue_level' = queue_level
    BY <1>4, Zenon DEF ClockStore
  <2>2. p \in Procs
    BY <2>1, HereProc, Zenon DEF ProcPCs
  <2>3. pc'[c] = "clock_level"
    BY <1>4, <1>t, GotoType, Zenon DEF ClockStore
  <2>4. Own(c, p)
    BY <2>1, <2>3, Zenon DEF Own, Ticking
  <2>5. Others
    BY <1>4, <2>1, <2>2, Zenon DEF IInv, TypeOK, ClockStore
  <2>6. DecidedAt(c)'
    BY <2>3, Zenon DEF DecidedAt
  <2> QED BY <2>1, <2>4, <2>5, <2>6, QuantumClock, Zenon
<1>5. CASE ClockLevel(c)
  <2>1. pc[c] = "clock_level" /\ cproc' = cproc /\ UNCHANGED <<queue_level, time_in_queue>>
    BY <1>5, Zenon DEF ClockLevel
  <2>2. p \in Procs
    BY <2>1, HereProc, Zenon DEF ProcPCs
  <2>3. pc'[c] = "clock_cmp"
    BY <1>5, <1>t, GotoType, Zenon DEF ClockLevel
  <2>4. Own(c, p)
    BY <2>1, <2>3, Zenon DEF Own, Ticking
  <2>5. loc'[c].level = queue_level[p]
    BY <1>5, <1>t, AssignLevelValue, Zenon DEF ClockLevel
  <2>6. time_in_queue[p] >= QUANTUM[queue_level[p]] \/ time_in_queue[p] < QUANTUM[queue_level[p]]
    <3>1. time_in_queue[p] \in Nat /\ QUANTUM[queue_level[p]] \in Nat
      BY <2>2, SizesAssumption DEF IInv, TypeOK
    <3> QED BY <3>1
  <2>7. DecidedAt(c)'
    BY <2>1, <2>3, <2>5, <2>6, Zenon DEF DecidedAt, InQuantum
  <2> QED BY <2>1, <2>4, <2>7, QuantumClock, Zenon
<1>6. CASE ClockCompare(c)
  <2>1. pc[c] = "clock_cmp" /\ cproc' = cproc /\ UNCHANGED <<queue_level, time_in_queue>>
    BY <1>6, Zenon DEF ClockCompare
  <2>2. p \in Procs
    BY <2>1, HereProc, Zenon DEF ProcPCs
  <2>3. \/ pc'[c] = "demote"
        \/ pc'[c] = "yield" /\ ~ (time_in_queue[p] >= QUANTUM[loc[c].level])
    BY <1>6, <1>t, GotoType, Zenon DEF ClockCompare
  <2>4. ASSUME pc'[c] = "demote" PROVE Own(c, p)
    BY <2>1, <2>4, Zenon DEF Own, Ticking
  <2>5. ASSUME pc'[c] = "yield", ~ (time_in_queue[p] >= QUANTUM[loc[c].level]) PROVE Own(c, p)
    <3>1. InQuantum(p) \/ HalfBoosted(p)
      BY <2>1, <2>5, Zenon DEF TickDecided, DecidedAt
    <3>2. InQuantum(p) => InQuantum(p)'
      BY <2>1, Zenon DEF InQuantum
    <3>3. HalfBoosted(p) => HalfBoosted(p)'
      BY <2>1, <2>2, BusyKept, Zenon
    <3> QED BY <3>1, <3>2, <3>3, Zenon DEF Own
  <2>6. DecidedAt(c)'
    BY <2>3, Zenon DEF DecidedAt
  <2> QED BY <2>1, <2>3, <2>4, <2>5, <2>6, QuantumClock, Zenon
<1>7. CASE DemoteReset(c)
  <2>1. pc[c] = "demote" /\ cproc' = cproc /\ queue_level' = queue_level
    BY <1>7, Zenon DEF DemoteReset
  <2>2. p \in Procs /\ time_in_queue' = [time_in_queue EXCEPT ![p] = 0]
    BY <1>7, <2>1, HereProc, Zenon DEF ProcPCs, DemoteReset
  <2>3. Reset(p) /\ Others
    BY <2>1, <2>2, Zenon DEF IInv, TypeOK, Reset
  <2>4. pc'[c] = "demote_level"
    BY <1>7, <1>t, GotoType, Zenon DEF DemoteReset
  <2>5. DecidedAt(c)'
    BY <2>1, <2>3, <2>4, Zenon DEF DecidedAt, Reset
  <2> QED BY <2>1, <2>3, <2>5, QuantumClock, Zenon
<1>8. CASE DemoteLevel(c)
  <2>1. pc[c] = "demote_level" /\ cproc' = cproc /\ UNCHANGED <<queue_level, time_in_queue>>
    BY <1>8, Zenon DEF DemoteLevel
  <2>2. p \in Procs /\ time_in_queue[p] = 0
    BY <2>1, HereProc, Zenon DEF ProcPCs, TickDecided, DecidedAt
  <2>3. Reset(p)
    BY <2>1, <2>2, Zenon DEF IInv, TypeOK, Reset
  <2>4. pc'[c] = "demote_store"
    BY <1>8, <1>t, GotoType, Zenon DEF DemoteLevel
  <2>5. DecidedAt(c)'
    BY <2>1, <2>2, <2>4, Zenon DEF DecidedAt
  <2> QED BY <2>1, <2>3, <2>5, QuantumClock, Zenon
<1>9. CASE DemoteStore(c)
  <2>1. pc[c] = "demote_store" /\ time_in_queue' = time_in_queue
    BY <1>9, Zenon DEF DemoteStore
  <2>2. p \in Procs /\ time_in_queue[p] = 0
    BY <2>1, HereProc, Zenon DEF ProcPCs, TickDecided, DecidedAt
  <2>3. loc[c].level < MLFQ_LEVELS - 1 => loc[c].level + 1 \in Levels
    BY LocalTypes, SizesAssumption DEF IInv, Levels
  <2>4. \/ queue_level' = queue_level
        \/ /\ queue_level' = [queue_level EXCEPT ![p] = loc[c].level + 1]
           /\ loc[c].level + 1 \in Levels
    BY <1>9, <2>3, Zenon DEF DemoteStore
  <2>5. Reset(p) /\ Others
    BY <2>1, <2>2, <2>4, Zenon DEF IInv, TypeOK, Reset
  <2>6. pc'[c] = "yield"
    BY <1>9, <1>t, GotoType, Zenon DEF DemoteStore
  <2>7. DecidedAt(c)'
    BY <2>6, Zenon DEF DecidedAt
  <2> QED BY <2>1, <2>5, <2>7, QuantumClock, Zenon
<1>10. ASSUME NEW q \in Procs, ForkAlloc(c, q) \/ freeproc(c, q)
       PROVE  WithinQuantum' /\ TickDecided'
  <2>1. /\ queue_level' = [queue_level EXCEPT ![q] = 0]
        /\ time_in_queue' = [time_in_queue EXCEPT ![q] = 0]
        /\ pc[c] = "user" /\ pc' = pc
    BY <1>10, ZenonT(30) DEF ForkAlloc, freeproc, InUser
  <2> QED
    BY <2>1, QuantumReset, Zenon DEF BusyPCs, TickPCs, DecidedPCs
<1>11. ASSUME NEW r \in Procs, BoostOne(c, r)
       PROVE  WithinQuantum' /\ TickDecided'
  <2>1. /\ queue_level' = [queue_level EXCEPT ![r] = 0] /\ time_in_queue' = time_in_queue
        /\ pc[c] = "user"
    BY <1>11, ZenonT(30) DEF BoostOne, InUser
  <2>2. pc'[c] = "boost_time" /\ loc'[c].p = r
    BY <1>11, <1>t, GotoType, AssignPointerValue, Zenon DEF BoostOne
  <2>3. HalfWay(r)
    BY <2>1, <2>2, Zenon DEF HalfWay, HalfBoosted
  <2>4. ASSUME NEW q \in Procs, q # r PROVE Left(c, q)
    BY <2>1, <2>4, Zenon DEF IInv, TypeOK, Left, BusyPCs, TickPCs
  <2>5. DecidedAt(c)'
    BY <2>2, Zenon DEF DecidedAt
  <2> QED BY <2>3, <2>4, <2>5, QuantumKept, Zenon DEF Fate
<1> QED
  BY <1>1, <1>2, <1>3, <1>4, <1>5, <1>6, <1>7, <1>8, <1>9, <1>10, <1>11, Zenon DEF Accounting

\* However the loads and stores that clockintr() makes without p->lock interleave with
\* those of sys_boostproc(pid), priority_boost(), kfork() and kwait() on other CPUs, a
\* process that is neither being ticked nor half boosted has fewer ticks than the quantum
\* of its level, for any numbers of CPUs, processes and levels and any quanta.
THEOREM QuantumKeeps == Spec => []WithinQuantum
<1>1. Init => WithinQuantum /\ TickDecided
  <2>1. 0 \in Levels
    BY SizesAssumption DEF Levels
  <2>2. \A l \in Levels : 0 < QUANTUM[l]
    BY SizesAssumption
  <2>3. Init => Quiet
    BY Zenon DEF Init, Boot, Busy
  <2>4. Quiet => \A p \in Procs : queue_level[p] = 0 /\ time_in_queue[p] = 0
    BY DEF Quiet
  <2>5. Quiet => \A c \in CPUs : pc[c] = "top"
    BY DEF Quiet
  <2>6. Quiet => TickDecided
    BY <2>5, Zenon DEF TickDecided, DecidedAt
  <2> QED
    BY <2>1, <2>2, <2>3, <2>4, <2>6, Zenon DEF WithinQuantum, InQuantum
<1>2. IInv /\ WithinQuantum /\ TickDecided /\ [Next]_vars => WithinQuantum' /\ TickDecided'
  <2>1. ASSUME WithinQuantum, TickDecided, UNCHANGED vars PROVE WithinQuantum' /\ TickDecided'
    BY <2>1, Zenon
       DEF vars, WithinQuantum, TickDecided, DecidedAt, InQuantum, Ticking, HalfBoosted
  <2> QED
    BY <2>1, QuantumStep, Zenon DEF Next
<1> QED
  BY <1>1, <1>2, Invariance, PTL DEF Spec
=============================================================================
