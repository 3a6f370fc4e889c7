---------------------------- MODULE MlfqControl -----------------------------
(***************************************************************************)
(* The types of the variables of module Mlfq, and where its CPUs can be:   *)
(* the part of the proof that IInv is inductive which is about TypeOK and  *)
(* Control.  A step of a CPU leaves the control state of all others alone  *)
(* (OthersUnchanged), so Control is proved for the CPU that steps: the Here*)
(* lemmas say what its place before the step tells, the At lemmas what its *)
(* place after the step has to satisfy.                                    *)
(***************************************************************************)
EXTENDS Mlfq, TLAPS

-----------------------------------------------------------------------------
(* Types, and the initial states. *)

\* The initial locals have the right types.
LEMMA NoLocalsType == NoLocals \in Locals
  BY SizesAssumption, WorkloadAssumption DEF Locals, NoLocals, Procs, Levels, PC, NULL

\* The state after booting, and the one with a full process table, satisfy the invariant.
LEMMA InitInv == Init => IInv
<1> SUFFICES ASSUME Init PROVE IInv
  OBVIOUS
<1> USE CPUsAssumption, SizesAssumption, WorkloadAssumption
<1>1. TypeOK
  <2>1. NoLocals \in Locals
    BY NoLocalsType, Zenon
  <2>2. 0 \in 0 .. BoostEnd /\ 0 \in Levels /\ 0 \in 0 .. BOOST_INTERVAL
    BY DEF BoostEnd, LastClear, Levels
  <2>3. CASE Boot
    BY <2>1, <2>2, <2>3 DEF Quiet, Boot, TypeOK, Procs, NULL, PC, ProcState, initproc
  <2>4. CASE Busy
    BY <2>1, <2>2, <2>4 DEF Quiet, Busy, TypeOK, Procs, NULL, PC, ProcState
  <2> QED BY <2>3, <2>4, Zenon DEF Init
<1>2. Control
  BY DEF Init, Quiet, Boot, Busy, Control, ControlAt, NULL, SchedPCs, ProcPCs, EnqPCs, PtrPCs
<1>3. EnqueueLocked
  BY DEF Init, Quiet, Boot, Busy, EnqueueLocked, LockPCs, EnqPCs
<1>4. Children /\ OneCpuPerProc
  BY DEF Init, Quiet, Boot, Busy, Children, OneCpuPerProc
<1>5. RunningIsCurrent
  BY DEF Init, Quiet, Boot, Busy, RunningIsCurrent
<1> QED BY <1>1, <1>2, <1>3, <1>4, <1>5, Zenon DEF IInv

\* Assigning to the local variables of a CPU keeps the types.
LEMMA AssignType ==
  ASSUME TypeOK, NEW c \in CPUs, NEW r \in Locals
  PROVE  [loc EXCEPT ![c] = r] \in [CPUs -> Locals]
  BY Zenon DEF TypeOK

\* So does a load of dequeue() into p or x.
LEMMA AssignPointerType ==
  ASSUME TypeOK, NEW c \in CPUs, NEW p \in Procs \cup {NULL}
  PROVE  /\ [loc EXCEPT ![c].p = p] \in [CPUs -> Locals]
         /\ [loc EXCEPT ![c].x = p] \in [CPUs -> Locals]
<1>1. loc[c] \in Locals
  BY Zenon DEF TypeOK
<1>2. [loc[c] EXCEPT !.p = p] \in Locals /\ [loc[c] EXCEPT !.x = p] \in Locals
  BY <1>1, Zenon DEF Locals
<1> QED BY <1>2, Zenon DEF TypeOK

\* So does the load of a counter in clockintr().
LEMMA AssignCounterType ==
  ASSUME TypeOK, NEW c \in CPUs, NEW n \in Nat
  PROVE  [loc EXCEPT ![c].n = n] \in [CPUs -> Locals]
<1>1. loc[c] \in Locals
  BY Zenon DEF TypeOK
<1>2. [loc[c] EXCEPT !.n = n] \in Locals
  BY <1>1, Zenon DEF Locals
<1> QED BY <1>2, Zenon DEF TypeOK

\* So does the load of a level.
LEMMA AssignLevelType ==
  ASSUME TypeOK, NEW c \in CPUs, NEW l \in Levels
  PROVE  [loc EXCEPT ![c].level = l] \in [CPUs -> Locals]
<1>1. loc[c] \in Locals
  BY Zenon DEF TypeOK
<1>2. [loc[c] EXCEPT !.level = l] \in Locals
  BY <1>1, Zenon DEF Locals
<1> QED BY <1>2, Zenon DEF TypeOK

\* So does starting dequeue(), wakeup() or enqueue() afresh.
LEMMA LevelLocalsType ==
  ASSUME NEW l \in Levels PROVE [NoLocals EXCEPT !.level = l] \in Locals
  BY NoLocalsType, Zenon DEF Locals

\* The locals with which wakeup() starts have the right types.
LEMMA WakeupLocalsType ==
  ASSUME NEW ch \in Chans, NEW i \in 0 .. NPROC, NEW w \in PC
  PROVE  [NoLocals EXCEPT !.i = i, !.chan = ch, !.wret = w] \in Locals
  BY NoLocalsType, ZenonT(30) DEF Locals

\* The locals with which enqueue() starts have the right types.
LEMMA EnqueueLocalsType ==
  ASSUME TypeOK, NEW p \in Procs, NEW l \in Levels, NEW w \in PC
  PROVE  EnqueueLocals(p, l, w) \in Locals
  BY NoLocalsType, ZenonT(30) DEF Locals, TypeOK, EnqueueLocals

\* The local variables of a CPU, one by one.
LEMMA LocalTypes ==
  ASSUME TypeOK, NEW c \in CPUs
  PROVE  /\ loc[c].p \in Procs \cup {NULL} /\ loc[c].x \in Procs \cup {NULL}
         /\ loc[c].level \in Levels /\ loc[c].i \in 0 .. NPROC /\ loc[c].chan \in Chans
         /\ loc[c].n \in Nat /\ loc[c].ret \in PC /\ loc[c].wret \in PC
  BY Zenon DEF TypeOK, Locals

\* A CPU's process is a slot of the table, or there is none.
LEMMA ThreadTypes ==
  ASSUME TypeOK, NEW c \in CPUs
  PROVE  /\ cproc[c] # NULL => cproc[c] \in Procs /\ Thread(c) = cproc[c]
         /\ cproc[c] = NULL => Thread(c) = c
         /\ Thread(c) \in CPUs \cup Procs
  BY Zenon DEF TypeOK, Thread

\* A CPU that is in the code of a process has a process.
LEMMA HereProc ==
  ASSUME IInv, NEW c \in CPUs, pc[c] \in ProcPCs
  PROVE  cproc[c] # NULL /\ cproc[c] \in Procs /\ Thread(c) = cproc[c] /\ c # cproc[c]
<1>1. cproc[c] # NULL
  BY Zenon DEF IInv, Control, ControlAt
<1> QED BY <1>1, ThreadTypes, CPUsAssumption, Zenon DEF IInv

\* Between the stores of sys_boostproc(pid) a CPU has a process, and a target.
LEMMA HereBoostTime ==
  ASSUME IInv, NEW c \in CPUs, pc[c] = "boost_time"
  PROVE  cproc[c] # NULL /\ loc[c].p \in Procs
  BY LocalTypes, Zenon DEF IInv, Control, ControlAt

\* The slot that the loop of priority_boost() has come to.
LEMMA BoostSlot ==
  ASSUME TypeOK, NEW c \in CPUs, boost[Thread(c)] > LastClear, boost[Thread(c)] < BoostEnd
  PROVE  boost[Thread(c)] - LastClear \in Procs
<1>1. boost[Thread(c)] \in 0 .. BoostEnd
  BY ThreadTypes, Zenon DEF TypeOK
<1> QED BY <1>1, SizesAssumption DEF LastClear, BoostEnd, Procs

\* The sleepers wakeup() looks for are slots of the table.
LEMMA SleepersType ==
  ASSUME TypeOK, Control, NEW c \in CPUs, pc[c] = "wakeup", NEW p \in Sleepers(c)
  PROVE  p \in Procs
<1>1. loc[c].i \in Nat /\ loc[c].i >= 1
  BY LocalTypes, SizesAssumption DEF Control, ControlAt
<1> QED BY <1>1, SizesAssumption DEF Sleepers, Procs

\* Every step keeps the types of the local variables.
LEMMA LocalsStep ==
  ASSUME IInv, NEW c \in CPUs, KernelStep(c) \/ Request(c)
  PROVE  loc' \in [CPUs -> Locals]
<1>1. CASE EnqueueLink(c)
  BY <1>1, AssignPointerType, Zenon
     DEF IInv, EnqueueLink
<1>2. CASE EnqueueTail(c)
  <2>1. 0 \in Levels
    BY SizesAssumption DEF Levels
  <2> QED BY <1>2, <2>1, AssignLevelType, Zenon DEF IInv, EnqueueTail
<1>3. CASE EnqueueClear(c)
  BY <1>3, NoLocalsType, LocalTypes, AssignType, WakeupLocalsType, ZenonT(30)
     DEF IInv, EnqueueClear
<1>4. CASE BoostClear(c)
  BY <1>4, Zenon
     DEF IInv, TypeOK, BoostClear
<1>5. CASE BoostProc(c)
  <2> DEFINE p == boost[Thread(c)] - LastClear
  <2>1. CASE UNCHANGED loc
    BY <2>1, Zenon DEF IInv, TypeOK
  <2>2. CASE loc' = [loc EXCEPT ![c] = EnqueueLocals(p, 0, pc[c])]
    <3>1. p \in Procs
      BY <1>5, BoostSlot, Zenon DEF IInv, BoostProc
    <3>2. pc[c] \in PC /\ 0 \in Levels
      BY SizesAssumption DEF IInv, TypeOK, Levels
    <3> HIDE DEF p
    <3>3. EnqueueLocals(p, 0, pc[c]) \in Locals
      BY <3>1, <3>2, EnqueueLocalsType, Zenon DEF IInv
    <3> QED BY <2>2, <3>3, AssignType, Zenon DEF IInv
  <2> QED BY <1>5, <2>1, <2>2, Zenon DEF BoostProc, EnqueueLoad
<1>6. CASE BoostDone(c)
  BY <1>6, Zenon
     DEF IInv, TypeOK, BoostDone
<1>7. CASE SchedTop(c)
  BY <1>7, Zenon
     DEF IInv, TypeOK, SchedTop
<1>8. CASE Dequeue(c)
  <2>1. CASE loc' = [loc EXCEPT ![c].p = head[loc[c].level]]
    <3>1. head[loc[c].level] \in Procs \cup {NULL}
      BY LocalTypes, Zenon DEF IInv, TypeOK
    <3> QED BY <2>1, <3>1, AssignPointerType, ZenonT(30) DEF IInv
  <2>2. CASE NextLevel(c)
    <3>1. loc[c].level < MLFQ_LEVELS - 1 => loc[c].level + 1 \in Levels
      BY SizesAssumption, LocalTypes DEF IInv, Levels
    <3> QED BY <2>2, <3>1, NoLocalsType, LevelLocalsType, AssignType DEF IInv, NextLevel
  <2> QED BY <1>8, <2>1, <2>2, Zenon DEF Dequeue
<1>9. CASE DequeueNext(c)
  <2>1. queue_next[loc[c].p] \in Procs \cup {NULL}
    BY <1>9, LocalTypes DEF IInv, TypeOK, DequeueNext, Control, ControlAt, PtrPCs
  <2> QED BY <1>9, <2>1, AssignPointerType, ZenonT(30) DEF IInv, DequeueNext
<1>10. CASE DequeueHead(c)
  BY <1>10, AssignPointerType, Zenon
     DEF IInv, DequeueHead
<1>11. CASE DequeueTail(c)
  BY <1>11, Zenon
     DEF IInv, TypeOK, DequeueTail
<1>12. CASE DequeueClear(c)
  BY <1>12, Zenon
     DEF IInv, TypeOK, DequeueClear
<1>13. CASE Pick(c)
  <2>1. CASE loc' = [loc EXCEPT ![c] = NoLocals]
    BY <2>1, NoLocalsType, AssignType, Zenon DEF IInv
  <2>2. CASE NextLevel(c)
    <3>1. loc[c].level < MLFQ_LEVELS - 1 => loc[c].level + 1 \in Levels
      BY SizesAssumption, LocalTypes DEF IInv, Levels
    <3> QED BY <2>2, <3>1, NoLocalsType, LevelLocalsType, AssignType DEF IInv, NextLevel
  <2> QED BY <1>13, <2>1, <2>2, Zenon DEF Pick
<1>14. CASE Wfi(c)
  BY <1>14, Zenon
     DEF IInv, TypeOK, Wfi
<1>15. CASE Swtch(c)
  <2>1. CASE UNCHANGED loc
    BY <2>1 DEF IInv, TypeOK
  <2>2. CASE EnqueueLoad(c, cproc[c], queue_level[cproc[c]], "top")
    <3>1. cproc[c] \in Procs /\ queue_level[cproc[c]] \in Levels
      BY <1>15 DEF IInv, TypeOK, Control, ControlAt, ProcPCs, Swtch
    <3>2. "top" \in PC
      BY Zenon DEF PC
    <3> QED BY <2>2, <3>1, <3>2, EnqueueLocalsType, AssignType, Zenon DEF IInv, EnqueueLoad
  <2> QED BY <1>15, <2>1, <2>2, Zenon DEF Swtch
<1>16. CASE Wakeup(c)
  <2>1. CASE Sleepers(c) = {}
    BY <1>16, <2>1, NoLocalsType, AssignType, Zenon DEF IInv, Wakeup
  <2>2. CASE Sleepers(c) # {}
    <3>1. PICK p \in Sleepers(c) :
            loc' = [loc EXCEPT ![c] = [EnqueueLocals(p, queue_level[p], "wakeup") EXCEPT
                      !.i = p, !.chan = loc[c].chan, !.wret = loc[c].wret]]
      BY <1>16, <2>2, ZenonT(30) DEF Wakeup
    <3>a. p \in Procs
      BY <1>16, SleepersType, ZenonT(30) DEF IInv, Wakeup
    <3>2. p \in Procs /\ p \in 0 .. NPROC /\ queue_level[p] \in Levels
      BY <3>a, SizesAssumption DEF IInv, TypeOK, Procs
    <3>3. EnqueueLocals(p, queue_level[p], "wakeup") \in Locals
      BY <3>2, EnqueueLocalsType, Zenon DEF IInv, PC
    <3>4. [EnqueueLocals(p, queue_level[p], "wakeup") EXCEPT
             !.i = p, !.chan = loc[c].chan, !.wret = loc[c].wret] \in Locals
      BY <3>2, <3>3, LocalTypes, ZenonT(30) DEF IInv, Locals
    <3> QED BY <3>1, <3>4, AssignType, SMTT(30) DEF IInv
  <2> QED BY <2>1, <2>2, Zenon
<1>17. CASE ClockIntr(c)
  <2>1. ticks_since_boost \in Nat
    BY SizesAssumption DEF IInv, TypeOK
  <2> QED BY <1>17, <2>1, AssignCounterType DEF IInv, TypeOK, ClockIntr
<1>18. CASE ClockTick(c)
  <2>1. "ticks" \in Chans /\ 1 \in 0 .. NPROC /\ "clock" \in PC
    BY SizesAssumption, WorkloadAssumption DEF PC
  <2> QED BY <1>18, <2>1, WakeupLocalsType, AssignType, ZenonT(30) DEF IInv, ClockTick, WakeupStart
<1>19. CASE Clock(c)
  <2>1. CASE UNCHANGED loc
    BY <2>1 DEF IInv, TypeOK
  <2>2. CASE cproc[c] # NULL
    <3>1. time_in_queue[cproc[c]] \in Nat
      BY <2>2, Zenon DEF IInv, TypeOK
    <3>2. [loc EXCEPT ![c].n = time_in_queue[cproc[c]]] \in [CPUs -> Locals]
      BY <3>1, AssignCounterType, Zenon DEF IInv
    <3> QED BY <1>19, <2>2, <3>2, Zenon DEF Clock
  <2> QED BY <1>19, <2>1, <2>2, Zenon DEF Clock
<1>20. CASE ClockStore(c)
  BY <1>20, NoLocalsType, AssignType, Zenon
     DEF IInv, ClockStore
<1>21. CASE ClockLevel(c)
  <2>1. queue_level[cproc[c]] \in Levels
    BY <1>21, HereProc, Zenon DEF IInv, TypeOK, ProcPCs, ClockLevel
  <2> QED BY <1>21, <2>1, AssignLevelType, Zenon DEF IInv, ClockLevel
<1>22. CASE ClockCompare(c)
  BY <1>22, NoLocalsType, AssignType, Zenon
     DEF IInv, ClockCompare
<1>23. CASE DemoteReset(c)
  BY <1>23, Zenon
     DEF IInv, TypeOK, DemoteReset
<1>24. CASE DemoteLevel(c)
  <2>1. queue_level[cproc[c]] \in Levels
    BY <1>24, HereProc, Zenon DEF IInv, TypeOK, ProcPCs, DemoteLevel
  <2> QED BY <1>24, <2>1, AssignLevelType, Zenon DEF IInv, DemoteLevel
<1>25. CASE DemoteStore(c)
  BY <1>25, NoLocalsType, AssignType, Zenon
     DEF IInv, DemoteStore
<1>26. CASE ClockRet(c)
  BY <1>26, Zenon
     DEF IInv, TypeOK, ClockRet
<1>27. CASE yield(c)
  BY <1>27, Zenon
     DEF IInv, TypeOK, yield, Leave
<1>28. CASE ForkRun(c)
  <2>1. child[cproc[c]] \in Procs /\ queue_level[child[cproc[c]]] \in Levels
    BY <1>28 DEF IInv, TypeOK, Control, ControlAt, ProcPCs, ForkRun
  <2>2. "user" \in PC
    BY Zenon DEF PC
  <2> QED BY <1>28, <2>1, <2>2, EnqueueLocalsType, AssignType, Zenon DEF IInv, ForkRun, EnqueueLoad
<1>29. CASE ExitZombie(c)
  BY <1>29, Zenon
     DEF IInv, TypeOK, ExitZombie, Leave
<1>30. CASE BoostTime(c)
  BY <1>30, NoLocalsType, AssignType, Zenon
     DEF IInv, BoostTime
<1>31. ASSUME NEW ch \in Chans, sleep(c, ch) PROVE loc' \in [CPUs -> Locals]
  BY <1>31, SMTT(30)
     DEF IInv, TypeOK, sleep, Leave
<1>32. ASSUME NEW ch \in Chans, CallWakeup(c, ch) PROVE loc' \in [CPUs -> Locals]
  <2>1. ch \in Chans /\ 1 \in 0 .. NPROC /\ "user" \in PC
    BY SizesAssumption, WorkloadAssumption, SMTT(30) DEF PC
  <2> QED BY <1>32, <2>1, WakeupLocalsType, AssignType, ZenonT(30) DEF IInv, CallWakeup, WakeupStart
<1>33. ASSUME NEW ch \in Chans, DevIntr(c, ch) PROVE loc' \in [CPUs -> Locals]
  <2>1. ch \in Chans /\ 1 \in 0 .. NPROC /\ (IF pc[c] = "user" THEN "user" ELSE "top") \in PC
    BY SizesAssumption, WorkloadAssumption DEF PC
  <2> QED BY <1>33, <2>1, WakeupLocalsType, AssignType, ZenonT(30) DEF IInv, DevIntr, WakeupStart
<1>34. ASSUME NEW q \in Procs, kkill(c, q) PROVE loc' \in [CPUs -> Locals]
  BY <1>34, Zenon
     DEF IInv, TypeOK, kkill
<1>35. ASSUME NEW q \in Procs, ForkAlloc(c, q) PROVE loc' \in [CPUs -> Locals]
  BY <1>35, Zenon
     DEF IInv, TypeOK, ForkAlloc
<1>36. ASSUME NEW q \in Procs, freeproc(c, q) PROVE loc' \in [CPUs -> Locals]
  BY <1>36, Zenon
     DEF IInv, TypeOK, freeproc
<1>37. ASSUME NEW q \in Procs, BoostOne(c, q) PROVE loc' \in [CPUs -> Locals]
  BY <1>37, AssignPointerType, Zenon
     DEF IInv, BoostOne
<1>38. CASE kexit(c)
  <2>1. "wait" \in Chans /\ 1 \in 0 .. NPROC /\ "exit" \in PC
    BY SizesAssumption, WorkloadAssumption DEF PC
  <2> QED BY <1>38, <2>1, WakeupLocalsType, AssignType, ZenonT(30) DEF IInv, kexit, WakeupStart
<1>39. CASE BoostAll(c)
  BY <1>39, Zenon
     DEF IInv, TypeOK, BoostAll
<1> QED BY <1>1, <1>2, <1>3, <1>4, <1>5, <1>6, <1>7, <1>8, <1>9, <1>10, <1>11, <1>12, <1>13, <1>14,
           <1>15, <1>16, <1>17, <1>18, <1>19, <1>20, <1>21, <1>22, <1>23, <1>24, <1>25,
           <1>26, <1>27, <1>28, <1>29, <1>30, <1>31, <1>32, <1>33, <1>34, <1>35, <1>36,
           <1>37, <1>38, <1>39, ZenonT(30) DEF KernelStep, SchedulerStep, ProcessStep, Request

\* Every step keeps the types of the kernel's variables.
LEMMA TypeStep ==
  ASSUME IInv, NEW c \in CPUs, KernelStep(c) \/ Request(c)
  PROVE  TypeOK'
<1>l. loc' \in [CPUs -> Locals]
  BY LocalsStep, Zenon
<1>1. CASE EnqueueLink(c)
  <2>1. loc[c].p \in Procs /\ loc[c].x \in Procs \cup {NULL} /\ loc[c].level \in Levels
    BY <1>1, LocalTypes, Zenon DEF IInv, Control, ControlAt, PtrPCs, EnqPCs, EnqueueLink
  <2>2. /\ head' \in [Levels -> Procs \cup {NULL}]
        /\ queue_next' \in [Procs -> Procs \cup {NULL}]
    BY <1>1, <2>1 DEF IInv, TypeOK, EnqueueLink
  <2>3. pc' \in [CPUs -> PC]
    BY <1>1, SMTT(30) DEF IInv, TypeOK, EnqueueLink, Goto, PC
  <2> QED BY <1>1, <1>l, <2>2, <2>3, Zenon DEF IInv, TypeOK, EnqueueLink
<1>2. CASE EnqueueTail(c)
  BY <1>2, <1>l, LocalTypes, Zenon
     DEF IInv, TypeOK, EnqueueTail, Control, ControlAt, PtrPCs, EnqPCs, Goto, PC
<1>3. CASE EnqueueClear(c)
  <2>1. boost' \in [CPUs \cup Procs -> 0 .. BoostEnd]
    <3>1. Thread(c) \in CPUs \cup Procs /\ boost[Thread(c)] \in 0 .. BoostEnd
      BY ThreadTypes, Zenon DEF IInv, TypeOK
    <3>2. loc[c].ret # "wakeup" => boost[Thread(c)] + 1 \in 0 .. BoostEnd
      BY <1>3, <3>1, SizesAssumption DEF IInv, Control, ControlAt, EnqPCs, EnqueueClear, BoostEnd, LastClear
    <3> QED BY <1>3, <3>1, <3>2, Zenon DEF IInv, TypeOK, EnqueueClear
  <2>2. loc[c].p \in Procs
    BY <1>3, LocalTypes, Zenon DEF IInv, Control, ControlAt, PtrPCs, EnqPCs, EnqueueClear
  <2> QED BY <1>3, <1>l, <2>1, <2>2, LocalTypes, Zenon DEF IInv, TypeOK, EnqueueClear, release, Goto
<1>4. CASE BoostClear(c)
  <2> DEFINE b == boost[Thread(c)]
  <2>1. Thread(c) \in CPUs \cup Procs /\ b \in 0 .. BoostEnd
    BY ThreadTypes, Zenon DEF IInv, TypeOK
  <2>2. b + 1 \in 0 .. BoostEnd
    BY <1>4, <2>1, SizesAssumption DEF BoostClear, BoostEnd, LastClear
  <2>3. boost' \in [CPUs \cup Procs -> 0 .. BoostEnd]
    BY <1>4, <2>1, <2>2, Zenon DEF IInv, TypeOK, BoostClear
  <2>4. head' \in [Levels -> Procs \cup {NULL}] /\ tail' \in [Levels -> Procs \cup {NULL}]
    BY <1>4 DEF IInv, TypeOK, BoostClear
  <2> QED BY <1>4, <1>l, <2>3, <2>4, Zenon DEF IInv, TypeOK, BoostClear
<1>5. CASE BoostProc(c)
  <2> DEFINE b == boost[Thread(c)]
               p == b - LastClear
  <2>1. Thread(c) \in CPUs \cup Procs /\ b \in 0 .. BoostEnd
    BY ThreadTypes DEF IInv, TypeOK
  <2>2. p \in Procs
    BY <1>5, BoostSlot, Zenon DEF IInv, BoostProc
  <2>3. b + 1 \in 0 .. BoostEnd
    BY <1>5, <2>1, SizesAssumption DEF BoostProc, BoostEnd, LastClear
  <2>4. boost' \in [CPUs \cup Procs -> 0 .. BoostEnd]
    BY <1>5, <2>1, <2>3, Zenon DEF IInv, TypeOK, BoostProc
  <2>5. lock' \in [Procs -> CPUs \cup {NoCPU}]
    BY <1>5, <2>2 DEF IInv, TypeOK, BoostProc, acquire
  <2>a. 0 \in Levels
    BY SizesAssumption DEF Levels
  <2>6. queue_level' \in [Procs -> Levels] /\ time_in_queue' \in [Procs -> Nat]
    BY <1>5, <2>2, <2>a DEF IInv, TypeOK, BoostProc
  <2>7. pc' \in [CPUs -> PC] /\ unqueued' \in SUBSET Procs
    BY <1>5 DEF IInv, TypeOK, BoostProc, EnqueueLoad, Goto, PC
  <2> QED BY <1>5, <1>l, <2>4, <2>5, <2>6, <2>7, Zenon DEF IInv, TypeOK, BoostProc
<1>6. CASE BoostDone(c)
  <2>1. Thread(c) \in CPUs \cup Procs
    BY ThreadTypes, Zenon DEF IInv
  <2>2. 0 \in 0 .. BoostEnd /\ 0 \in 0 .. BOOST_INTERVAL
    BY SizesAssumption DEF BoostEnd, LastClear
  <2>3. pc' \in [CPUs -> PC]
    BY <1>6, Zenon DEF IInv, TypeOK, BoostDone, Goto, PC
  <2> QED BY <1>6, <1>l, <2>1, <2>2, <2>3, Zenon DEF IInv, TypeOK, BoostDone
<1>7. CASE SchedTop(c)
  <2>1. 1 \in 0 .. BoostEnd
    BY SizesAssumption DEF BoostEnd, LastClear
  <2>2. pc' \in [CPUs -> PC] /\ timer' \in [CPUs -> {"armed", "pending", "spent"}]
    BY <1>7 DEF IInv, TypeOK, SchedTop, Goto, PC
  <2>3. boost' \in [CPUs \cup Procs -> 0 .. BoostEnd]
    BY <1>7, <2>1, Zenon DEF IInv, TypeOK, SchedTop
  <2> QED BY <1>7, <1>l, <2>2, <2>3, Zenon DEF IInv, TypeOK, SchedTop
<1>8. CASE Dequeue(c)
  BY <1>8, <1>l, SMTT(30)
     DEF IInv, TypeOK, Dequeue, NextLevel, Goto, PC
<1>9. CASE DequeueNext(c)
  BY <1>9, <1>l, LocalTypes, Zenon
     DEF IInv, TypeOK, DequeueNext, Control, ControlAt, PtrPCs, EnqPCs, Goto, PC
<1>10. CASE DequeueHead(c)
  <2>1. loc[c].x \in Procs \cup {NULL} /\ loc[c].level \in Levels
    BY LocalTypes, Zenon DEF IInv
  <2>2. head' \in [Levels -> Procs \cup {NULL}]
    BY <1>10, <2>1 DEF IInv, TypeOK, DequeueHead
  <2>3. pc' \in [CPUs -> PC]
    BY <1>10 DEF IInv, TypeOK, DequeueHead, Goto, PC
  <2> QED BY <1>10, <1>l, <2>2, <2>3, Zenon DEF IInv, TypeOK, DequeueHead
<1>11. CASE DequeueTail(c)
  <2>1. loc[c].level \in Levels
    BY LocalTypes, Zenon DEF IInv
  <2>2. tail' \in [Levels -> Procs \cup {NULL}]
    BY <1>11, <2>1 DEF IInv, TypeOK, DequeueTail
  <2>3. pc' \in [CPUs -> PC]
    BY <1>11 DEF IInv, TypeOK, DequeueTail, Goto, PC
  <2> QED BY <1>11, <1>l, <2>2, <2>3, Zenon DEF IInv, TypeOK, DequeueTail
<1>12. CASE DequeueClear(c)
  BY <1>12, <1>l, LocalTypes
     DEF IInv, TypeOK, DequeueClear, Control, ControlAt, PtrPCs, EnqPCs, Goto, PC
<1>13. CASE Pick(c)
  <2>1. loc[c].p \in Procs
    BY <1>13, LocalTypes, ZenonT(30) DEF IInv, Control, ControlAt, PtrPCs, EnqPCs, Pick
  <2>2. pc' \in [CPUs -> PC]
    BY <1>13 DEF IInv, TypeOK, Pick, NextLevel, Goto, PC
  <2>3. /\ state' \in [Procs -> ProcState] /\ chan' \in [Procs -> Chans \cup {"none"}]
        /\ cproc' \in [CPUs -> Procs \cup {NULL}] /\ unqueued' \in SUBSET Procs
    BY <1>13, <2>1 DEF IInv, TypeOK, Pick, ProcState
  <2> QED BY <1>13, <1>l, <2>2, <2>3, SMTT(30) DEF IInv, TypeOK, Pick
<1>14. CASE Wfi(c)
  BY <1>14, <1>l, Zenon
     DEF IInv, TypeOK, Wfi, Goto, PC
<1>15. CASE Swtch(c)
  <2>1. cproc[c] \in Procs
    BY <1>15 DEF IInv, TypeOK, Control, ControlAt, ProcPCs, Swtch
  <2>2. pc' \in [CPUs -> PC] /\ lock' \in [Procs -> CPUs \cup {NoCPU}]
    BY <1>15, <2>1 DEF IInv, TypeOK, Swtch, EnqueueLoad, release, Goto, PC
  <2> QED BY <1>15, <1>l, <2>2, ZenonT(30) DEF IInv, TypeOK, Swtch
<1>16. CASE Wakeup(c)
  <2>1. \A p \in Sleepers(c) : p \in Procs
    BY <1>16, SleepersType, ZenonT(30) DEF IInv, Wakeup
  <2>2. pc' \in [CPUs -> PC]
    BY <1>16, LocalTypes, ZenonT(30) DEF IInv, TypeOK, Wakeup, Goto, PC
  <2>3. lock' \in [Procs -> CPUs \cup {NoCPU}] /\ state' \in [Procs -> ProcState]
    <3>1. CASE UNCHANGED <<state, lock>>
      BY <3>1, Zenon DEF IInv, TypeOK
    <3>2. CASE \E p \in Sleepers(c) :
                 acquire(p, c) /\ state' = [state EXCEPT ![p] = "RUNNABLE"]
      BY <2>1, <3>2 DEF IInv, TypeOK, acquire, ProcState
    <3> QED BY <1>16, <3>1, <3>2, ZenonT(30) DEF Wakeup
  <2> QED BY <1>16, <1>l, <2>2, <2>3, ZenonT(30) DEF IInv, TypeOK, Wakeup
<1>17. CASE ClockIntr(c)
  BY <1>17, <1>l, ZenonT(30)
     DEF IInv, TypeOK, ClockIntr, Goto, PC
<1>18. CASE ClockTick(c)
  <2>1. ticks_since_boost' \in 0 .. BOOST_INTERVAL
    <3>1. loc[c].n \in Nat /\ loc[c].n <= BOOST_INTERVAL
      BY <1>18, LocalTypes, ZenonT(30) DEF IInv, Control, ControlAt, ClockTick
    <3> DEFINE n == loc[c].n
    <3>2. ticks_since_boost' = IF n < BOOST_INTERVAL THEN n + 1 ELSE n
      BY <1>18, Zenon DEF ClockTick
    <3> HIDE DEF n
    <3>3. n \in Nat /\ n <= BOOST_INTERVAL
      BY <3>1, Zenon DEF n
    <3> QED BY <3>2, <3>3, SizesAssumption
  <2> QED BY <1>18, <1>l, <2>1, Zenon DEF IInv, TypeOK, ClockTick, WakeupStart, Goto, PC
<1>19. CASE Clock(c)
  BY <1>19, <1>l
     DEF IInv, TypeOK, Clock, Rearm, Goto, PC
<1>20. CASE ClockStore(c)
  <2>1. cproc[c] \in Procs /\ loc[c].n + 1 \in Nat
    BY <1>20, LocalTypes DEF IInv, TypeOK, Control, ControlAt, ProcPCs, ClockStore
  <2>2. time_in_queue' \in [Procs -> Nat]
    BY <1>20, <2>1, Zenon DEF IInv, TypeOK, ClockStore
  <2>3. pc' \in [CPUs -> PC]
    BY <1>20, Zenon DEF IInv, TypeOK, ClockStore, Goto, PC
  <2> QED BY <1>20, <1>l, <2>2, <2>3, Zenon DEF IInv, TypeOK, ClockStore
<1>21. CASE ClockLevel(c)
  BY <1>21, <1>l, Zenon
     DEF IInv, TypeOK, ClockLevel, Goto, PC
<1>22. CASE ClockCompare(c)
  <2>1. pc' \in [CPUs -> PC] /\ timer' \in [CPUs -> {"armed", "pending", "spent"}]
    BY <1>22 DEF IInv, TypeOK, ClockCompare, Rearm, Goto, PC
  <2> QED BY <1>22, <1>l, <2>1, Zenon DEF IInv, TypeOK, ClockCompare
<1>23. CASE DemoteReset(c)
  <2>1. cproc[c] \in Procs /\ 0 \in Nat
    BY <1>23, HereProc DEF ProcPCs, DemoteReset
  <2>2. time_in_queue' \in [Procs -> Nat] /\ pc' \in [CPUs -> PC]
    BY <1>23, <2>1, Zenon DEF IInv, TypeOK, DemoteReset, Goto, PC
  <2> QED BY <1>23, <1>l, <2>2, Zenon DEF IInv, TypeOK, DemoteReset
<1>24. CASE DemoteLevel(c)
  BY <1>24, <1>l, Zenon
     DEF IInv, TypeOK, DemoteLevel, Goto, PC
<1>25. CASE DemoteStore(c)
  <2>1. cproc[c] \in Procs
    BY <1>25, HereProc, Zenon DEF ProcPCs, DemoteStore
  <2>2. queue_level' \in [Procs -> Levels]
    <3>1. loc[c].level < MLFQ_LEVELS - 1 => loc[c].level + 1 \in Levels
      BY LocalTypes, SizesAssumption DEF IInv, Levels
    <3> QED BY <1>25, <2>1, <3>1, Zenon DEF IInv, TypeOK, DemoteStore
  <2>3. pc' \in [CPUs -> PC] /\ inclk' \in [Procs -> BOOLEAN]
    BY <1>25, <2>1, Zenon DEF IInv, TypeOK, DemoteStore, Goto, PC
  <2> QED BY <1>25, <1>l, <2>2, <2>3, Zenon DEF IInv, TypeOK, DemoteStore
<1>26. CASE ClockRet(c)
  BY <1>26, <1>l, Zenon
     DEF IInv, TypeOK, ClockRet, Rearm, Goto, PC, Control, ControlAt, ProcPCs
<1>27. CASE yield(c)
  BY <1>27, <1>l, Zenon
     DEF IInv, TypeOK, yield, Leave, acquire, Goto, PC, ProcState, Control, ControlAt, ProcPCs
<1>28. CASE ForkRun(c)
  BY <1>28, <1>l, Zenon
     DEF IInv, TypeOK, ForkRun, acquire, EnqueueLoad, Goto, PC, ProcState, Control, ControlAt, ProcPCs
<1>29. CASE ExitZombie(c)
  BY <1>29, <1>l, Zenon
     DEF IInv, TypeOK, ExitZombie, Leave, acquire, Goto, PC, ProcState, Control, ControlAt, ProcPCs
<1>30. CASE BoostTime(c)
  <2>1. loc[c].p \in Procs /\ 0 \in Nat
    BY <1>30, HereBoostTime DEF BoostTime
  <2>2. time_in_queue' \in [Procs -> Nat] /\ lock' \in [Procs -> CPUs \cup {NoCPU}]
    BY <1>30, <2>1, Zenon DEF IInv, TypeOK, BoostTime, release
  <2>3. pc' \in [CPUs -> PC]
    BY <1>30, Zenon DEF IInv, TypeOK, BoostTime, Goto, PC
  <2> QED BY <1>30, <1>l, <2>2, <2>3, Zenon DEF IInv, TypeOK, BoostTime
<1>31. ASSUME NEW ch \in Chans, sleep(c, ch) PROVE TypeOK'
  BY <1>31, <1>l, Zenon
     DEF IInv, TypeOK, sleep, Leave, acquire, InUser, Goto, PC, ProcState, Control, ControlAt, ProcPCs
<1>32. ASSUME NEW ch \in Chans, CallWakeup(c, ch) PROVE TypeOK'
  BY <1>32, <1>l, Zenon
     DEF IInv, TypeOK, CallWakeup, WakeupStart, InUser, Goto, PC, Control, ControlAt, ProcPCs
<1>33. ASSUME NEW ch \in Chans, DevIntr(c, ch) PROVE TypeOK'
  BY <1>33, <1>l
     DEF IInv, TypeOK, DevIntr, WakeupStart, Goto, PC
<1>34. ASSUME NEW q \in Procs, kkill(c, q) PROVE TypeOK'
  BY <1>34, <1>l, SMTT(30)
     DEF IInv, TypeOK, kkill, InUser, ProcState
<1>35. ASSUME NEW q \in Procs, ForkAlloc(c, q) PROVE TypeOK'
  <2>1. 0 \in Levels
    BY SizesAssumption DEF Levels
  <2>2. queue_level' \in [Procs -> Levels] /\ time_in_queue' \in [Procs -> Nat]
    BY <1>35, <2>1, Zenon DEF IInv, TypeOK, ForkAlloc
  <2>3. cproc[c] \in Procs
    BY <1>35 DEF IInv, TypeOK, Control, ControlAt, ProcPCs, ForkAlloc, InUser
  <2>4. /\ state' \in [Procs -> ProcState] /\ child' \in [Procs -> Procs \cup {NULL}]
        /\ queue_next' \in [Procs -> Procs \cup {NULL}]
    BY <1>35, <2>3, SMTT(30) DEF IInv, TypeOK, ForkAlloc, ProcState
  <2> QED BY <1>35, <1>l, <2>2, <2>4, Zenon DEF IInv, TypeOK, ForkAlloc
<1>36. ASSUME NEW q \in Procs, freeproc(c, q) PROVE TypeOK'
  <2>1. 0 \in Levels
    BY SizesAssumption DEF Levels
  <2>2. queue_level' \in [Procs -> Levels] /\ time_in_queue' \in [Procs -> Nat]
    BY <1>36, <2>1 DEF IInv, TypeOK, freeproc
  <2>3. state' \in [Procs -> ProcState] /\ queue_next' \in [Procs -> Procs \cup {NULL}]
    BY <1>36, SMTT(30) DEF IInv, TypeOK, freeproc, ProcState
  <2> QED BY <1>36, <1>l, <2>2, <2>3, Zenon DEF IInv, TypeOK, freeproc
<1>37. ASSUME NEW q \in Procs, BoostOne(c, q) PROVE TypeOK'
  <2>1. 0 \in Levels
    BY SizesAssumption DEF Levels
  <2>2. queue_level' \in [Procs -> Levels] /\ lock' \in [Procs -> CPUs \cup {NoCPU}]
    BY <1>37, <2>1, Zenon DEF IInv, TypeOK, BoostOne, acquire
  <2>3. pc' \in [CPUs -> PC]
    BY <1>37, Zenon DEF IInv, TypeOK, BoostOne, Goto, PC
  <2> QED BY <1>37, <1>l, <2>2, <2>3, Zenon DEF IInv, TypeOK, BoostOne
<1>38. CASE kexit(c)
  BY <1>38, <1>l, Zenon
     DEF IInv, TypeOK, kexit, WakeupStart, InUser, Goto, PC, Control, ControlAt, ProcPCs
<1>39. CASE BoostAll(c)
  <2>1. 1 \in 0 .. BoostEnd
    BY SizesAssumption DEF BoostEnd, LastClear
  <2> QED BY <1>39, <1>l, <2>1, ZenonT(30) DEF IInv, TypeOK, BoostAll
<1> QED BY <1>1, <1>2, <1>3, <1>4, <1>5, <1>6, <1>7, <1>8, <1>9, <1>10, <1>11, <1>12, <1>13, <1>14,
           <1>15, <1>16, <1>17, <1>18, <1>19, <1>20, <1>21, <1>22, <1>23, <1>24, <1>25,
           <1>26, <1>27, <1>28, <1>29, <1>30, <1>31, <1>32, <1>33, <1>34, <1>35, <1>36,
           <1>37, <1>38, <1>39, ZenonT(30) DEF KernelStep, SchedulerStep, ProcessStep, Request

-----------------------------------------------------------------------------
(* Control. *)

\* A step of one CPU leaves the threads of control of the others alone.
LEMMA OthersUnchanged ==
  ASSUME IInv, NEW c \in CPUs, KernelStep(c) \/ Request(c), NEW d \in CPUs, d # c
  PROVE  /\ pc'[d] = pc[d] /\ loc'[d] = loc[d] /\ cproc'[d] = cproc[d]
         /\ boost'[d] = boost[d] /\ boost'[Thread(d)] = boost[Thread(d)]
<1> DEFINE Same == /\ pc'[d] = pc[d] /\ loc'[d] = loc[d] /\ cproc'[d] = cproc[d]
                   /\ boost'[d] = boost[d] /\ boost'[Thread(d)] = boost[Thread(d)]
<1>t. Thread(c) # Thread(d) /\ Thread(c) # d
  BY CPUsAssumption DEF IInv, TypeOK, OneCpuPerProc, Thread, Procs
<1>u. Thread(c) \in CPUs \cup Procs /\ Thread(d) \in CPUs \cup Procs
  BY ThreadTypes, Zenon DEF IInv
<1>1. CASE EnqueueLink(c)
  BY <1>1, Zenon
     DEF IInv, TypeOK, EnqueueLink, Goto
<1>2. CASE EnqueueTail(c)
  BY <1>2, Zenon
     DEF IInv, TypeOK, EnqueueTail, Goto
<1>3. CASE EnqueueClear(c)
  BY <1>3, <1>t, <1>u, Zenon
     DEF IInv, TypeOK, EnqueueClear, Goto
<1>4. CASE BoostClear(c)
  BY <1>4, <1>t, <1>u, Zenon
     DEF IInv, TypeOK, BoostClear, Boosting
<1>5. CASE BoostProc(c)
  BY <1>5, <1>t, <1>u
     DEF IInv, TypeOK, BoostProc, EnqueueLoad, Boosting, Goto
<1>6. CASE BoostDone(c)
  BY <1>6, <1>t, <1>u, Zenon
     DEF IInv, TypeOK, BoostDone, Boosting, Goto
<1>7. CASE SchedTop(c)
  <2>1. Thread(c) = c
    BY <1>7, ThreadTypes, Zenon DEF IInv, SchedTop, Control, ControlAt, SchedPCs
  <2>2. /\ pc'[d] = pc[d] /\ loc' = loc /\ cproc' = cproc
        /\ boost' = [boost EXCEPT ![c] = 1] \/ boost' = boost
    BY <1>7 DEF IInv, TypeOK, SchedTop, Goto
  <2>3. boost'[d] = boost[d] /\ boost'[Thread(d)] = boost[Thread(d)]
    BY <1>t, <1>u, <2>1, <2>2 DEF IInv, TypeOK
  <2> QED BY <2>2, <2>3, Zenon
<1>8. CASE Dequeue(c)
  BY <1>8
     DEF IInv, TypeOK, Dequeue, NextLevel, Goto
<1>9. CASE DequeueNext(c)
  BY <1>9, Zenon
     DEF IInv, TypeOK, DequeueNext, Goto
<1>10. CASE DequeueHead(c)
  BY <1>10, Zenon
     DEF IInv, TypeOK, DequeueHead, Goto
<1>11. CASE DequeueTail(c)
  BY <1>11, Zenon
     DEF IInv, TypeOK, DequeueTail, Goto
<1>12. CASE DequeueClear(c)
  BY <1>12, Zenon
     DEF IInv, TypeOK, DequeueClear, Goto
<1>13. CASE Pick(c)
  BY <1>13
     DEF IInv, TypeOK, Pick, NextLevel, Goto
<1>14. CASE Wfi(c)
  BY <1>14, Zenon
     DEF IInv, TypeOK, Wfi, Goto
<1>15. CASE Swtch(c)
  BY <1>15, SMTT(30)
     DEF IInv, TypeOK, Swtch, EnqueueLoad, Goto
<1>16. CASE Wakeup(c)
  BY <1>16, ZenonT(30)
     DEF IInv, TypeOK, Wakeup, Goto
<1>17. CASE ClockIntr(c)
  BY <1>17
     DEF IInv, TypeOK, ClockIntr, Goto
<1>18. CASE ClockTick(c)
  BY <1>18, Zenon
     DEF IInv, TypeOK, ClockTick, WakeupStart, Goto
<1>19. CASE Clock(c)
  BY <1>19, Zenon
     DEF IInv, TypeOK, Clock, Goto
<1>20. CASE ClockStore(c)
  BY <1>20, Zenon
     DEF IInv, TypeOK, ClockStore, Goto
<1>21. CASE ClockLevel(c)
  BY <1>21, Zenon
     DEF IInv, TypeOK, ClockLevel, Goto
<1>22. CASE ClockCompare(c)
  BY <1>22, Zenon
     DEF IInv, TypeOK, ClockCompare, Goto
<1>23. CASE DemoteReset(c)
  BY <1>23, Zenon
     DEF IInv, TypeOK, DemoteReset, Goto
<1>24. CASE DemoteLevel(c)
  BY <1>24, Zenon
     DEF IInv, TypeOK, DemoteLevel, Goto
<1>25. CASE DemoteStore(c)
  BY <1>25, Zenon
     DEF IInv, TypeOK, DemoteStore, Goto
<1>26. CASE ClockRet(c)
  BY <1>26, Zenon
     DEF IInv, TypeOK, ClockRet, Goto
<1>27. CASE yield(c)
  BY <1>27, Zenon
     DEF IInv, TypeOK, yield, Leave, Goto
<1>28. CASE ForkRun(c)
  BY <1>28, Zenon
     DEF IInv, TypeOK, ForkRun, EnqueueLoad, Goto
<1>29. CASE ExitZombie(c)
  BY <1>29, Zenon
     DEF IInv, TypeOK, ExitZombie, Leave, Goto
<1>30. CASE BoostTime(c)
  BY <1>30, Zenon
     DEF IInv, TypeOK, BoostTime, Goto
<1>31. ASSUME NEW ch \in Chans, sleep(c, ch) PROVE Same
  BY <1>31, Zenon
     DEF IInv, TypeOK, sleep, Leave, Goto
<1>32. ASSUME NEW ch \in Chans, CallWakeup(c, ch) PROVE Same
  BY <1>32, Zenon
     DEF IInv, TypeOK, CallWakeup, WakeupStart, Goto
<1>33. ASSUME NEW ch \in Chans, DevIntr(c, ch) PROVE Same
  BY <1>33, Zenon
     DEF IInv, TypeOK, DevIntr, WakeupStart, Goto
<1>34. ASSUME NEW q \in Procs, kkill(c, q) PROVE Same
  BY <1>34, Zenon
     DEF IInv, TypeOK, kkill
<1>35. ASSUME NEW q \in Procs, ForkAlloc(c, q) PROVE Same
  BY <1>35, Zenon
     DEF IInv, TypeOK, ForkAlloc
<1>36. ASSUME NEW q \in Procs, freeproc(c, q) PROVE Same
  BY <1>36, Zenon
     DEF IInv, TypeOK, freeproc
<1>37. ASSUME NEW q \in Procs, BoostOne(c, q) PROVE Same
  BY <1>37, Zenon
     DEF IInv, TypeOK, BoostOne, Goto
<1>38. CASE kexit(c)
  BY <1>38, Zenon
     DEF IInv, TypeOK, kexit, WakeupStart, Goto
<1>39. CASE BoostAll(c)
  <2>1. cproc[c] # NULL
    BY <1>39, Zenon DEF IInv, BoostAll, InUser, Control, ControlAt, ProcPCs
  <2>2. Thread(c) = cproc[c]
    BY <2>1, ThreadTypes, Zenon DEF IInv
  <2>3. boost' = [boost EXCEPT ![Thread(c)] = 1] /\ UNCHANGED <<pc, loc, cproc>>
    BY <1>39, <2>2, Zenon DEF BoostAll
  <2> QED BY <2>3, <1>t, <1>u, Zenon DEF IInv, TypeOK
<1> QED BY <1>1, <1>2, <1>3, <1>4, <1>5, <1>6, <1>7, <1>8, <1>9, <1>10, <1>11, <1>12, <1>13, <1>14,
           <1>15, <1>16, <1>17, <1>18, <1>19, <1>20, <1>21, <1>22, <1>23, <1>24, <1>25,
           <1>26, <1>27, <1>28, <1>29, <1>30, <1>31, <1>32, <1>33, <1>34, <1>35, <1>36,
           <1>37, <1>38, <1>39, ZenonT(30) DEF KernelStep, SchedulerStep, ProcessStep, Request

\* What the invariant says of a CPU in scheduler(), in a process and inside enqueue().
LEMMA HereSched ==
  ASSUME IInv, NEW c \in CPUs, pc[c] \in SchedPCs
  PROVE  cproc[c] = NULL /\ Thread(c) = c
  BY Zenon DEF IInv, Control, ControlAt, Thread

\* Outside priority_boost() the scheduler's progress in it is zero.
LEMMA HereNoBoost ==
  ASSUME IInv, NEW c \in CPUs, pc[c] # "boost", pc[c] \notin EnqPCs
  PROVE  ~(boost[c] > 0)
  BY Zenon DEF IInv, Control, ControlAt

\* goto changes the place of one CPU.
LEMMA GotoType ==
  ASSUME TypeOK, NEW c \in CPUs, NEW label, Goto(c, label)
  PROVE  pc'[c] = label /\ \A d \in CPUs : d # c => pc'[d] = pc[d]
  BY Zenon DEF TypeOK, Goto

\* The control invariant of a CPU that arrives in the scheduler.
LEMMA AtSched ==
  ASSUME NEW c \in CPUs, pc'[c] \in {"top", "deq", "wfi"}, cproc'[c] = NULL, ~(boost'[c] > 0)
  PROVE  ControlAt(c)'
  BY Zenon DEF ControlAt, SchedPCs, ProcPCs, EnqPCs, PtrPCs

\* The same inside dequeue() and after it.
LEMMA AtDequeue ==
  ASSUME NEW c \in CPUs, pc'[c] \in {"deq_next", "deq_head", "deq_tail", "deq_clear", "pick"},
         cproc'[c] = NULL, loc'[c].p # NULL, ~(boost'[c] > 0)
  PROVE  ControlAt(c)'
  BY Zenon DEF ControlAt, SchedPCs, ProcPCs, EnqPCs, PtrPCs

\* The same in the priority_boost() of the scheduler.
LEMMA AtBoost ==
  ASSUME NEW c \in CPUs, pc'[c] = "boost", cproc'[c] = NULL
  PROVE  ControlAt(c)'
  BY Zenon DEF ControlAt, SchedPCs, ProcPCs, EnqPCs, PtrPCs

\* The same in the code of a process.
LEMMA AtProc ==
  ASSUME NEW c \in CPUs, pc'[c] \in ProcPCs, cproc'[c] # NULL, ~(boost'[c] > 0)
  PROVE  ControlAt(c)'
  BY Zenon DEF ControlAt, SchedPCs, ProcPCs, EnqPCs, PtrPCs

\* The same between the stores of sys_boostproc(pid).
LEMMA AtBoostTime ==
  ASSUME NEW c \in CPUs, pc'[c] = "boost_time", cproc'[c] # NULL, loc'[c].p # NULL, ~(boost'[c] > 0)
  PROVE  ControlAt(c)'
  BY Zenon DEF ControlAt, SchedPCs, ProcPCs, EnqPCs, PtrPCs

\* The same in clockintr().
LEMMA AtClock ==
  ASSUME NEW c \in CPUs, ~(boost'[c] > 0),
         pc'[c] = "clock" \/ (pc'[c] = "tick" /\ loc'[c].n <= BOOST_INTERVAL)
  PROVE  ControlAt(c)'
  BY Zenon DEF ControlAt, SchedPCs, ProcPCs, EnqPCs, PtrPCs

\* The same in wakeup().
LEMMA AtWakeup ==
  ASSUME NEW c \in CPUs, pc'[c] = "wakeup", loc'[c].i >= 1, ~(boost'[c] > 0),
         \/ loc'[c].wret = "clock"
         \/ loc'[c].wret = "top" /\ cproc'[c] = NULL
         \/ loc'[c].wret \in {"user", "exit"} /\ cproc'[c] # NULL
  PROVE  ControlAt(c)'
  BY Zenon DEF ControlAt, SchedPCs, ProcPCs, EnqPCs, PtrPCs

\* The same in an enqueue() that does not return to wakeup().
LEMMA AtEnqueue ==
  ASSUME NEW c \in CPUs, pc'[c] \in EnqPCs, loc'[c].p # NULL, boost'[Thread(c)'] < BoostEnd,
         \/ loc'[c].ret = "top" /\ cproc'[c] = NULL /\ ~(boost'[c] > 0)
         \/ loc'[c].ret = "boost" /\ cproc'[c] = NULL
         \/ loc'[c].ret = "user" /\ cproc'[c] # NULL /\ ~(boost'[c] > 0)
  PROVE  ControlAt(c)'
  BY Zenon DEF ControlAt, SchedPCs, ProcPCs, EnqPCs, PtrPCs, Thread

\* The same in an enqueue() that wakeup() calls.
LEMMA AtWakeupEnqueue ==
  ASSUME NEW c \in CPUs, pc'[c] \in EnqPCs, loc'[c].p # NULL, loc'[c].ret = "wakeup",
         loc'[c].i >= 1, ~(boost'[c] > 0),
         \/ loc'[c].wret = "clock"
         \/ loc'[c].wret = "top" /\ cproc'[c] = NULL
         \/ loc'[c].wret \in {"user", "exit"} /\ cproc'[c] # NULL
  PROVE  ControlAt(c)'
  BY Zenon DEF ControlAt, SchedPCs, ProcPCs, EnqPCs, PtrPCs

\* A step inside enqueue() that changes neither locals nor process.
LEMMA AtEnqueueNext ==
  ASSUME IInv, NEW c \in CPUs, pc[c] \in EnqPCs, pc'[c] \in EnqPCs,
         loc'[c].p = loc[c].p, loc'[c].i = loc[c].i, loc'[c].ret = loc[c].ret,
         loc'[c].wret = loc[c].wret, cproc'[c] = cproc[c], boost' = boost
  PROVE  ControlAt(c)'
<1>1. Thread(c)' = Thread(c)
  BY Zenon DEF Thread
<1>2. ControlAt(c)
  BY Zenon DEF IInv, Control
<1>3. pc'[c] \notin SchedPCs /\ pc'[c] \notin ProcPCs /\ pc'[c] \in PtrPCs /\ pc[c] \in PtrPCs
  BY Zenon DEF SchedPCs, ProcPCs, EnqPCs, PtrPCs
<1>4. /\ pc[c] # "wakeup" /\ pc'[c] # "wakeup" /\ pc'[c] # "tick" /\ pc[c] # "boost"
      /\ pc'[c] # "boost_time"
  BY Zenon DEF EnqPCs
<1> QED BY <1>1, <1>2, <1>3, <1>4, Zenon DEF ControlAt

\* What enqueue() and wakeup() find in their local variables when they start.
LEMMA EnqueueLocalsFields ==
  ASSUME NEW p, NEW l, NEW r
  PROVE  EnqueueLocals(p, l, r).p = p /\ EnqueueLocals(p, l, r).ret = r
  BY Zenon DEF EnqueueLocals, NoLocals

\* What wakeup() starts from, field by field.
LEMMA WakeupLocalsFields ==
  ASSUME NEW i, NEW ch, NEW w
  PROVE  LET r == [NoLocals EXCEPT !.i = i, !.chan = ch, !.wret = w]
         IN r.i = i /\ r.wret = w
  BY Zenon DEF NoLocals

\* What an enqueue() called by wakeup() starts from, field by field.
LEMMA WakeupEnqueueLocalsFields ==
  ASSUME NEW p, NEW l, NEW ch, NEW w
  PROVE  LET r == [EnqueueLocals(p, l, "wakeup") EXCEPT !.i = p, !.chan = ch, !.wret = w]
         IN r.p = p /\ r.i = p /\ r.ret = "wakeup" /\ r.wret = w
  BY Zenon DEF EnqueueLocals, NoLocals

\* The loads and assignments of dequeue() and clockintr(), field by field.
LEMMA AssignPointerValue ==
  ASSUME TypeOK, NEW c \in CPUs, NEW p, loc' = [loc EXCEPT ![c].p = p]
  PROVE  loc'[c].p = p
<1>1. loc[c] \in Locals
  BY Zenon DEF TypeOK
<1> QED BY <1>1 DEF TypeOK, Locals

\* Loading or clearing x leaves p alone.
LEMMA LoadKeepsPointer ==
  ASSUME TypeOK, NEW c \in CPUs, NEW x, loc' = [loc EXCEPT ![c].x = x] \/ loc' = loc
  PROVE  loc'[c].p = loc[c].p
<1>1. loc[c] \in Locals
  BY Zenon DEF TypeOK
<1> QED BY <1>1 DEF TypeOK, Locals

\* Clearing x or level leaves the process and the places to return to alone.
LEMMA ClearKeepsFields ==
  ASSUME TypeOK, NEW c \in CPUs, NEW v,
         loc' = [loc EXCEPT ![c].x = v] \/ loc' = [loc EXCEPT ![c].level = v]
  PROVE  /\ loc'[c].p = loc[c].p /\ loc'[c].i = loc[c].i
         /\ loc'[c].ret = loc[c].ret /\ loc'[c].wret = loc[c].wret
<1>1. loc[c] \in Locals
  BY Zenon DEF TypeOK
<1> QED BY <1>1 DEF TypeOK, Locals

\* A load of a level sets level.
LEMMA AssignLevelValue ==
  ASSUME TypeOK, NEW c \in CPUs, NEW l, loc' = [loc EXCEPT ![c].level = l]
  PROVE  loc'[c].level = l
<1>1. loc[c] \in Locals
  BY Zenon DEF TypeOK
<1> QED BY <1>1 DEF TypeOK, Locals

\* A load of a counter sets n.
LEMMA AssignCounterValue ==
  ASSUME TypeOK, NEW c \in CPUs, NEW n, loc' = [loc EXCEPT ![c].n = n]
  PROVE  loc'[c].n = n
<1>1. loc[c] \in Locals
  BY Zenon DEF TypeOK
<1> QED BY <1>1 DEF TypeOK, Locals

\* The start of enqueue(p).
LEMMA EnqueueLoadFields ==
  ASSUME TypeOK, NEW c \in CPUs, NEW p, NEW l, NEW r, EnqueueLoad(c, p, l, r)
  PROVE  pc'[c] \in EnqPCs /\ loc'[c].p = p /\ loc'[c].ret = r
<1>1. pc'[c] \in EnqPCs
  BY GotoType, Zenon DEF EnqueueLoad, EnqPCs
<1>2. loc'[c] = EnqueueLocals(p, l, r)
  BY Zenon DEF EnqueueLoad, TypeOK
<1> QED BY <1>1, <1>2, EnqueueLocalsFields

\* The start of wakeup(ch).
LEMMA WakeupStartFields ==
  ASSUME TypeOK, NEW c \in CPUs, NEW ch, NEW w, WakeupStart(c, ch, w)
  PROVE  pc'[c] = "wakeup" /\ loc'[c].i = 1 /\ loc'[c].wret = w
<1>1. pc'[c] = "wakeup"
  BY GotoType, Zenon DEF WakeupStart
<1>2. loc'[c] = [NoLocals EXCEPT !.i = 1, !.chan = ch, !.wret = w]
  BY Zenon DEF WakeupStart, TypeOK
<1> QED BY <1>1, <1>2, WakeupLocalsFields

\* Where wakeup() returns to.
LEMMA HereWakeup ==
  ASSUME IInv, NEW c \in CPUs, pc[c] = "wakeup" \/ (pc[c] \in EnqPCs /\ loc[c].ret = "wakeup")
  PROVE  /\ loc[c].i >= 1
         /\ \/ loc[c].wret = "clock"
            \/ loc[c].wret = "top" /\ cproc[c] = NULL
            \/ loc[c].wret \in {"user", "exit"} /\ cproc[c] # NULL
<1>1. ControlAt(c)
  BY Zenon DEF IInv, Control
<1> QED BY <1>1, Zenon DEF ControlAt

\* What wakeup() does to the sleeper that it finds.
LEMMA WakeupFinds ==
  ASSUME IInv, NEW c \in CPUs, Wakeup(c), Sleepers(c) # {}
  PROVE  \E p \in Procs :
           /\ p # NULL /\ p >= 1 /\ state[p] = "SLEEPING"
           /\ lock[p] = NoCPU /\ lock' = [lock EXCEPT ![p] = c]
           /\ state' = [state EXCEPT ![p] = "RUNNABLE"]
           /\ pc'[c] = "enq_link"
           /\ loc'[c].p = p /\ loc'[c].i = p /\ loc'[c].ret = "wakeup" /\ loc'[c].wret = loc[c].wret
<1>t. TypeOK /\ Control /\ pc[c] = "wakeup"
  BY ZenonT(30) DEF IInv, Wakeup
<1>1. PICK p \in Sleepers(c) :
        /\ acquire(p, c) /\ state' = [state EXCEPT ![p] = "RUNNABLE"] /\ Goto(c, "enq_link")
        /\ loc' = [loc EXCEPT ![c] = [EnqueueLocals(p, queue_level[p], "wakeup") EXCEPT
                     !.i = p, !.chan = loc[c].chan, !.wret = loc[c].wret]]
  BY ZenonT(30) DEF Wakeup
<1>2. p \in Procs
  BY <1>t, SleepersType, Zenon
<1>3. state[p] = "SLEEPING"
  BY Zenon DEF Sleepers
<1>4. p # NULL /\ p >= 1
  BY <1>2, SizesAssumption DEF Procs, NULL
<1>5. loc \in [CPUs -> Locals]
  BY <1>t, Zenon DEF TypeOK
<1>6. loc'[c].p = p /\ loc'[c].i = p /\ loc'[c].ret = "wakeup" /\ loc'[c].wret = loc[c].wret
  BY <1>1, <1>5, WakeupEnqueueLocalsFields
<1>7. pc'[c] = "enq_link"
  BY <1>t, <1>1, GotoType, Zenon
<1>8. lock[p] = NoCPU /\ lock' = [lock EXCEPT ![p] = c]
  BY <1>1, Zenon DEF acquire
<1> QED BY <1>1, <1>2, <1>3, <1>4, <1>6, <1>7, <1>8, ZenonT(30)

\* A step of the kernel leaves its own CPU where its thread of control can be.
LEMMA ControlKernel ==
  ASSUME IInv, NEW c \in CPUs, KernelStep(c)
  PROVE  ControlAt(c)'
<1>t. TypeOK
  BY Zenon DEF IInv
<1>1. CASE EnqueueLink(c)
  <2>1. pc[c] \in EnqPCs /\ cproc' = cproc /\ boost' = boost
    BY <1>1, Zenon DEF EnqueueLink, EnqPCs
  <2>2. pc'[c] \in EnqPCs
    BY <1>1, <1>t, GotoType, Zenon DEF EnqueueLink, EnqPCs
  <2>3. /\ loc'[c].p = loc[c].p /\ loc'[c].i = loc[c].i
        /\ loc'[c].ret = loc[c].ret /\ loc'[c].wret = loc[c].wret
    BY <1>1, <1>t, ClearKeepsFields, Zenon DEF EnqueueLink
  <2> QED BY <2>1, <2>2, <2>3, AtEnqueueNext, Zenon
<1>2. CASE EnqueueTail(c)
  <2>1. pc[c] \in EnqPCs /\ cproc' = cproc /\ boost' = boost
    BY <1>2, Zenon DEF EnqueueTail, EnqPCs
  <2>2. pc'[c] \in EnqPCs
    BY <1>2, <1>t, GotoType, Zenon DEF EnqueueTail, EnqPCs
  <2>3. /\ loc'[c].p = loc[c].p /\ loc'[c].i = loc[c].i
        /\ loc'[c].ret = loc[c].ret /\ loc'[c].wret = loc[c].wret
    BY <1>2, <1>t, ClearKeepsFields, Zenon DEF EnqueueTail
  <2> QED BY <2>1, <2>2, <2>3, AtEnqueueNext, Zenon
<1>3. CASE EnqueueClear(c)
  <2>1. pc[c] = "enq_clear" /\ cproc' = cproc
    BY <1>3, Zenon DEF EnqueueClear
  <2>2. pc'[c] = loc[c].ret
    BY <1>3, <1>t, GotoType, Zenon DEF EnqueueClear
  <2>3. loc[c].ret = "wakeup" => loc'[c].i = loc[c].i /\ loc'[c].wret = loc[c].wret
    BY <1>3, <1>t, WakeupLocalsFields DEF TypeOK, EnqueueClear
  <2>4. boost'[c] > 0 => boost[c] > 0
    BY <1>3, <1>t, ThreadTypes, SizesAssumption DEF TypeOK, EnqueueClear, LastClear
  <2>5. /\ loc[c].ret \in {"top", "boost", "user", "wakeup"}
        /\ loc[c].ret \in {"top", "boost"} => cproc[c] = NULL
        /\ loc[c].ret = "user" => cproc[c] # NULL
        /\ boost[c] > 0 => loc[c].ret = "boost"
    BY <2>1, Zenon DEF IInv, Control, ControlAt, EnqPCs
  <2>6. CASE loc[c].ret = "wakeup"
    <3>1. /\ loc[c].i >= 1
          /\ \/ loc[c].wret = "clock"
             \/ loc[c].wret = "top" /\ cproc[c] = NULL
             \/ loc[c].wret \in {"user", "exit"} /\ cproc[c] # NULL
      BY <2>1, <2>6, Zenon DEF IInv, Control, ControlAt, EnqPCs
    <3> QED BY <2>1, <2>2, <2>3, <2>4, <2>5, <2>6, <3>1, AtWakeup, Zenon
  <2>7. CASE loc[c].ret = "top"
    BY <2>1, <2>2, <2>4, <2>5, <2>7, AtSched, Zenon
  <2>8. CASE loc[c].ret = "boost"
    BY <2>1, <2>2, <2>5, <2>8, AtBoost, Zenon
  <2>9. CASE loc[c].ret = "user"
    BY <2>1, <2>2, <2>4, <2>5, <2>9, AtProc, Zenon DEF ProcPCs
  <2> QED BY <2>5, <2>6, <2>7, <2>8, <2>9, Zenon
<1>4. CASE BoostClear(c)
  <2>1. UNCHANGED <<pc, loc, cproc>> /\ (pc[c] = "boost" \/ pc[c] = "user")
    BY <1>4, Zenon DEF BoostClear, Boosting
  <2>2. CASE pc[c] = "boost"
    BY <2>1, <2>2, HereSched, AtBoost, Zenon DEF SchedPCs
  <2>3. CASE pc[c] = "user"
    <3>1. boost'[c] = boost[c]
      BY <1>4, <1>t, <2>3, HereProc, Zenon DEF TypeOK, BoostClear, ProcPCs
    <3> QED BY <2>1, <2>3, <3>1, HereProc, HereNoBoost, AtProc, Zenon DEF ProcPCs, EnqPCs
  <2> QED BY <2>1, <2>2, <2>3, Zenon
<1>5. CASE BoostProc(c)
  <2> DEFINE p == boost[Thread(c)] - LastClear
  <2>1. p \in Procs /\ p # NULL
    BY <1>5, <1>t, BoostSlot DEF BoostProc, Procs, NULL
  <2>2. pc[c] = "boost" \/ pc[c] = "user"
    BY <1>5, Zenon DEF BoostProc, Boosting
  <2>3. cproc' = cproc /\ Thread(c)' = Thread(c)
    BY <1>5, Zenon DEF BoostProc, Thread
  <2>4. /\ pc[c] = "boost" => cproc[c] = NULL
        /\ pc[c] = "user" => cproc[c] # NULL /\ c # Thread(c) /\ ~(boost[c] > 0)
    BY HereSched, HereProc, HereNoBoost, Zenon DEF SchedPCs, ProcPCs, EnqPCs
  <2>5. CASE EnqueueLoad(c, p, 0, pc[c]) /\ UNCHANGED boost
    <3>1. pc'[c] \in EnqPCs /\ loc'[c].p = p /\ loc'[c].ret = pc[c]
      BY <1>t, <2>5, EnqueueLoadFields
    <3>2. boost'[Thread(c)] < BoostEnd
      BY <1>5, <2>5, Zenon DEF BoostProc
    <3> HIDE DEF p
    <3> QED BY <2>1, <2>2, <2>3, <2>4, <2>5, <3>1, <3>2, AtEnqueue, Zenon
  <2>6. CASE UNCHANGED <<pc, loc>> /\ boost' = [boost EXCEPT ![Thread(c)] = boost[Thread(c)] + 1]
    <3>1. pc[c] = "user" => boost'[c] = boost[c]
      BY <1>t, <2>4, <2>6, Zenon DEF TypeOK
    <3> QED BY <2>2, <2>3, <2>4, <2>6, <3>1, AtBoost, AtProc, Zenon DEF ProcPCs
  <2> QED BY <1>5, <2>5, <2>6, Zenon DEF BoostProc
<1>6. CASE BoostDone(c)
  <2>1. /\ cproc' = cproc /\ (pc[c] = "boost" \/ pc[c] = "user")
        /\ boost' = [boost EXCEPT ![Thread(c)] = 0]
    BY <1>6, Zenon DEF BoostDone, Boosting
  <2>2. pc'[c] = IF pc[c] = "boost" THEN "deq" ELSE "user"
    BY <1>6, <1>t, GotoType, Zenon DEF BoostDone
  <2>3. CASE pc[c] = "boost"
    <3>1. cproc[c] = NULL /\ boost'[c] = 0
      BY <1>t, <2>1, <2>3, HereSched, Zenon DEF TypeOK, SchedPCs
    <3> QED BY <2>1, <2>2, <2>3, <3>1, AtSched
  <2>4. CASE pc[c] = "user"
    <3>1. cproc[c] # NULL /\ boost'[c] = boost[c]
      BY <1>t, <2>1, <2>4, HereProc, Zenon DEF TypeOK, ProcPCs
    <3> QED BY <2>1, <2>2, <2>4, <3>1, HereNoBoost, AtProc, Zenon DEF ProcPCs, EnqPCs
  <2> QED BY <2>1, <2>3, <2>4, Zenon
<1>7. CASE SchedTop(c)
  <2>1. pc[c] = "top" /\ cproc' = cproc /\ cproc[c] = NULL /\ ~(boost[c] > 0)
    BY <1>7, HereSched, HereNoBoost, Zenon DEF SchedTop, SchedPCs, EnqPCs
  <2>2. CASE Goto(c, "boost")
    BY <1>t, <2>1, <2>2, GotoType, AtBoost, Zenon
  <2>3. CASE Goto(c, "deq") /\ UNCHANGED boost
    BY <1>t, <2>1, <2>3, GotoType, AtSched, Zenon
  <2> QED BY <1>7, <2>2, <2>3, Zenon DEF SchedTop
<1>8. CASE Dequeue(c)
  <2>1. pc[c] = "deq" /\ cproc' = cproc /\ boost' = boost /\ cproc[c] = NULL /\ ~(boost[c] > 0)
    BY <1>8, HereSched, HereNoBoost, Zenon DEF Dequeue, SchedPCs, EnqPCs
  <2>2. CASE NextLevel(c)
    <3>1. pc'[c] \in {"deq", "wfi"}
      BY <1>t, <2>2, GotoType, Zenon DEF NextLevel
    <3> QED BY <2>1, <3>1, AtSched, Zenon
  <2>3. CASE head[loc[c].level] # NULL
    <3>1. loc' = [loc EXCEPT ![c].p = head[loc[c].level]] /\ Goto(c, "deq_next")
      BY <1>8, <2>3, Zenon DEF Dequeue
    <3>2. loc'[c].p # NULL
      BY <1>t, <2>3, <3>1, AssignPointerValue, ZenonT(30)
    <3> QED BY <1>t, <2>1, <3>1, <3>2, GotoType, AtDequeue, Zenon
  <2> QED BY <1>8, <2>2, <2>3, Zenon DEF Dequeue
<1>9. CASE DequeueNext(c)
  <2>1. pc[c] \in SchedPCs /\ pc[c] # "boost" /\ pc[c] \notin EnqPCs /\ pc[c] \in PtrPCs
    BY <1>9, Zenon DEF DequeueNext, SchedPCs, EnqPCs, PtrPCs
  <2>2. cproc' = cproc /\ boost' = boost /\ loc'[c].p = loc[c].p
    BY <1>9, <1>t, LoadKeepsPointer, Zenon DEF DequeueNext
  <2>3. pc'[c] \in {"deq_head", "deq_tail", "deq_clear", "pick"}
    BY <1>9, <1>t, GotoType, Zenon DEF DequeueNext
  <2>4. loc[c].p # NULL
    BY <2>1, Zenon DEF IInv, Control, ControlAt
  <2> QED BY <2>1, <2>2, <2>3, <2>4, HereSched, HereNoBoost, AtDequeue, Zenon
<1>10. CASE DequeueHead(c)
  <2>1. pc[c] \in SchedPCs /\ pc[c] # "boost" /\ pc[c] \notin EnqPCs /\ pc[c] \in PtrPCs
    BY <1>10, Zenon DEF DequeueHead, SchedPCs, EnqPCs, PtrPCs
  <2>2. cproc' = cproc /\ boost' = boost /\ loc'[c].p = loc[c].p
    BY <1>10, <1>t, LoadKeepsPointer, Zenon DEF DequeueHead
  <2>3. pc'[c] \in {"deq_head", "deq_tail", "deq_clear", "pick"}
    BY <1>10, <1>t, GotoType, Zenon DEF DequeueHead
  <2>4. loc[c].p # NULL
    BY <2>1 DEF IInv, Control, ControlAt
  <2> QED BY <2>1, <2>2, <2>3, <2>4, HereSched, HereNoBoost, AtDequeue
<1>11. CASE DequeueTail(c)
  <2>1. pc[c] \in SchedPCs /\ pc[c] # "boost" /\ pc[c] \notin EnqPCs /\ pc[c] \in PtrPCs
    BY <1>11, Zenon DEF DequeueTail, SchedPCs, EnqPCs, PtrPCs
  <2>2. cproc' = cproc /\ boost' = boost /\ loc'[c].p = loc[c].p
    BY <1>11, <1>t, LoadKeepsPointer, Zenon DEF DequeueTail
  <2>3. pc'[c] \in {"deq_head", "deq_tail", "deq_clear", "pick"}
    BY <1>11, <1>t, GotoType DEF DequeueTail
  <2>4. loc[c].p # NULL
    BY <2>1 DEF IInv, Control, ControlAt
  <2> QED BY <2>1, <2>2, <2>3, <2>4, HereSched, HereNoBoost, AtDequeue
<1>12. CASE DequeueClear(c)
  <2>1. pc[c] \in SchedPCs /\ pc[c] # "boost" /\ pc[c] \notin EnqPCs /\ pc[c] \in PtrPCs
    BY <1>12, Zenon DEF DequeueClear, SchedPCs, EnqPCs, PtrPCs
  <2>2. cproc' = cproc /\ boost' = boost /\ loc'[c].p = loc[c].p
    BY <1>12, <1>t, LoadKeepsPointer, Zenon DEF DequeueClear
  <2>3. pc'[c] \in {"deq_head", "deq_tail", "deq_clear", "pick"}
    BY <1>12, <1>t, GotoType, Zenon DEF DequeueClear
  <2>4. loc[c].p # NULL
    BY <2>1 DEF IInv, Control, ControlAt
  <2> QED BY <2>1, <2>2, <2>3, <2>4, HereSched, HereNoBoost, AtDequeue
<1>13. CASE Pick(c)
  <2>1. pc[c] = "pick" /\ boost' = boost /\ cproc[c] = NULL /\ ~(boost[c] > 0)
    BY <1>13, HereSched, HereNoBoost, Zenon DEF Pick, SchedPCs, EnqPCs
  <2>2. CASE state[loc[c].p] # "RUNNABLE"
    <3>1. pc'[c] \in {"deq", "wfi"} /\ cproc' = cproc
      BY <1>13, <1>t, <2>2, GotoType, Zenon DEF Pick, NextLevel
    <3> QED BY <2>1, <3>1, AtSched, Zenon
  <2>3. CASE state[loc[c].p] = "RUNNABLE"
    <3>1. loc[c].p # NULL
      BY <2>1, Zenon DEF IInv, Control, ControlAt, PtrPCs
    <3>2. cproc' = [cproc EXCEPT ![c] = loc[c].p] /\ Goto(c, IF inclk[loc[c].p] THEN "clock_ret" ELSE "user")
      BY <1>13, <2>3, Zenon DEF Pick
    <3>3. cproc'[c] # NULL
      BY <1>t, <3>1, <3>2, Zenon DEF TypeOK
    <3>4. pc'[c] \in ProcPCs
      BY <1>t, <3>2, GotoType, Zenon DEF ProcPCs
    <3> QED BY <2>1, <3>3, <3>4, AtProc, Zenon
  <2> QED BY <2>2, <2>3, Zenon
<1>14. CASE Wfi(c)
  <2>1. pc[c] = "wfi" /\ cproc' = cproc /\ boost' = boost /\ Goto(c, "top")
    BY <1>14, Zenon DEF Wfi
  <2> QED BY <1>t, <2>1, GotoType, HereSched, HereNoBoost, AtSched, Zenon DEF SchedPCs, EnqPCs
<1>15. CASE Swtch(c)
  <2> DEFINE p == cproc[c]
  <2>1. pc[c] = "sched" /\ p \in Procs /\ p # NULL /\ ~(boost[c] > 0)
    BY <1>15, HereProc, HereNoBoost, Zenon DEF Swtch, ProcPCs, EnqPCs
  <2>2. cproc'[c] = NULL /\ boost' = boost /\ boost[c] \in 0 .. BoostEnd /\ Thread(c)' = c
    BY <1>15, <1>t, Zenon DEF TypeOK, Swtch, Thread
  <2>3. boost[c] < BoostEnd
    BY <2>1, <2>2, SizesAssumption DEF BoostEnd, LastClear
  <2>4. CASE EnqueueLoad(c, p, queue_level[p], "top")
    <3>1. pc'[c] \in EnqPCs /\ loc'[c].p = p /\ loc'[c].ret = "top"
      BY <1>t, <2>4, EnqueueLoadFields, Zenon
    <3> HIDE DEF p
    <3> QED BY <2>1, <2>2, <2>3, <3>1, AtEnqueue, Zenon
  <2>5. CASE Goto(c, "top")
    BY <1>t, <2>1, <2>2, <2>5, GotoType, AtSched, Zenon
  <2> QED BY <1>15, <2>4, <2>5, ZenonT(30) DEF Swtch
<1>16. CASE Wakeup(c)
  <2>1. pc[c] = "wakeup" /\ cproc' = cproc /\ boost' = boost
    BY <1>16, ZenonT(30) DEF Wakeup
  <2>2. ~(boost[c] > 0)
    BY <2>1, HereNoBoost, Zenon DEF EnqPCs
  <2>3. CASE Sleepers(c) = {}
    <3>1. pc'[c] = loc[c].wret
      BY <1>16, <1>t, <2>3, GotoType, Zenon DEF Wakeup
    <3>2. CASE loc[c].wret = "clock"
      BY <2>1, <2>2, <3>1, <3>2, AtClock, Zenon
    <3>3. CASE loc[c].wret = "top" /\ cproc[c] = NULL
      BY <2>1, <2>2, <3>1, <3>3, AtSched, Zenon
    <3>4. CASE loc[c].wret \in {"user", "exit"} /\ cproc[c] # NULL
      BY <2>1, <2>2, <3>1, <3>4, AtProc, Zenon DEF ProcPCs
    <3> QED BY <2>1, <3>2, <3>3, <3>4, HereWakeup, Zenon
  <2>4. CASE Sleepers(c) # {}
    <3>1. PICK p \in Procs :
            /\ p # NULL /\ p >= 1 /\ pc'[c] = "enq_link"
            /\ loc'[c].p = p /\ loc'[c].i = p /\ loc'[c].ret = "wakeup" /\ loc'[c].wret = loc[c].wret
      BY <1>16, <2>4, WakeupFinds
    <3>2. pc'[c] \in EnqPCs
      BY <3>1, Zenon DEF EnqPCs
    <3> QED BY <2>1, <2>2, <3>1, <3>2, HereWakeup, AtWakeupEnqueue, Zenon
  <2> QED BY <2>3, <2>4, SMTT(30)
<1>17. CASE ClockIntr(c)
  <2>1. pc[c] \in {"top", "user"} /\ boost' = boost /\ ~(boost[c] > 0)
    BY <1>17, HereNoBoost, Zenon DEF ClockIntr, EnqPCs
  <2>2. pc'[c] = "clock" \/ (pc'[c] = "tick" /\ loc'[c].n = ticks_since_boost)
    BY <1>17, <1>t, GotoType, AssignCounterValue, Zenon DEF ClockIntr
  <2>3. ticks_since_boost <= BOOST_INTERVAL
    BY <1>t, SizesAssumption DEF TypeOK
  <2> QED BY <2>1, <2>2, <2>3, AtClock, Zenon
<1>18. CASE ClockTick(c)
  <2>1. pc[c] \in {"tick"} /\ cproc' = cproc /\ boost' = boost
    BY <1>18, ZenonT(30) DEF ClockTick
  <2>2. pc'[c] = "wakeup" /\ loc'[c].i = 1 /\ loc'[c].wret = "clock"
    <3>1. WakeupStart(c, "ticks", "clock")
      BY <1>18, Zenon DEF ClockTick
    <3> QED BY <1>t, <3>1, WakeupStartFields, Zenon
  <2>3. ~(boost[c] > 0)
    BY <2>1, HereNoBoost, Zenon DEF EnqPCs
  <2>4. loc'[c].i >= 1 /\ ~(boost'[c] > 0)
    <3>1. 1 >= 1
      OBVIOUS
    <3> QED BY <2>1, <2>2, <2>3, <3>1, Zenon
  <2> QED BY <2>2, <2>4, AtWakeup, Zenon
<1>19. CASE Clock(c)
  <2>1. pc[c] = "clock" /\ cproc' = cproc /\ boost' = boost /\ ~(boost[c] > 0)
    BY <1>19, HereNoBoost, Zenon DEF Clock, EnqPCs
  <2>2. CASE cproc[c] = NULL
    BY <1>19, <1>t, <2>1, <2>2, GotoType, AtSched, Zenon DEF Clock
  <2>3. CASE cproc[c] # NULL
    BY <1>19, <1>t, <2>1, <2>3, GotoType, AtProc, Zenon DEF Clock, ProcPCs
  <2> QED BY <2>2, <2>3, Zenon
<1>20. CASE ClockStore(c)
  <2>1. pc[c] \in ProcPCs /\ pc[c] # "boost" /\ pc[c] \notin EnqPCs /\ cproc' = cproc /\ boost' = boost
    BY <1>20, Zenon DEF ClockStore, ProcPCs, EnqPCs
  <2>2. pc'[c] \in ProcPCs
    BY <1>20, <1>t, <2>1, GotoType DEF ClockStore, ProcPCs
  <2> QED BY <2>1, <2>2, HereProc, HereNoBoost, AtProc, Zenon
<1>21. CASE ClockLevel(c)
  <2>1. pc[c] \in ProcPCs /\ pc[c] # "boost" /\ pc[c] \notin EnqPCs /\ cproc' = cproc /\ boost' = boost
    BY <1>21, Zenon DEF ClockLevel, ProcPCs, EnqPCs
  <2>2. pc'[c] \in ProcPCs
    BY <1>21, <1>t, <2>1, GotoType, Zenon DEF ClockLevel, ProcPCs
  <2> QED BY <2>1, <2>2, HereProc, HereNoBoost, AtProc, Zenon
<1>22. CASE ClockCompare(c)
  <2>1. pc[c] \in ProcPCs /\ pc[c] # "boost" /\ pc[c] \notin EnqPCs /\ cproc' = cproc /\ boost' = boost
    BY <1>22, Zenon DEF ClockCompare, ProcPCs, EnqPCs
  <2>2. pc'[c] \in ProcPCs
    BY <1>22, <1>t, <2>1, GotoType DEF ClockCompare, ProcPCs
  <2> QED BY <2>1, <2>2, HereProc, HereNoBoost, AtProc, Zenon
<1>23. CASE DemoteReset(c)
  <2>1. pc[c] \in ProcPCs /\ pc[c] # "boost" /\ pc[c] \notin EnqPCs /\ cproc' = cproc /\ boost' = boost
    BY <1>23, Zenon DEF DemoteReset, ProcPCs, EnqPCs
  <2>2. pc'[c] \in ProcPCs
    BY <1>23, <1>t, <2>1, GotoType, Zenon DEF DemoteReset, ProcPCs
  <2> QED BY <2>1, <2>2, HereProc, HereNoBoost, AtProc, Zenon
<1>24. CASE DemoteLevel(c)
  <2>1. pc[c] \in ProcPCs /\ pc[c] # "boost" /\ pc[c] \notin EnqPCs /\ cproc' = cproc /\ boost' = boost
    BY <1>24, Zenon DEF DemoteLevel, ProcPCs, EnqPCs
  <2>2. pc'[c] \in ProcPCs
    BY <1>24, <1>t, <2>1, GotoType, Zenon DEF DemoteLevel, ProcPCs
  <2> QED BY <2>1, <2>2, HereProc, HereNoBoost, AtProc, Zenon
<1>25. CASE DemoteStore(c)
  <2>1. pc[c] \in ProcPCs /\ pc[c] # "boost" /\ pc[c] \notin EnqPCs /\ cproc' = cproc /\ boost' = boost
    BY <1>25, Zenon DEF DemoteStore, ProcPCs, EnqPCs
  <2>2. pc'[c] \in ProcPCs
    BY <1>25, <1>t, <2>1, GotoType, Zenon DEF DemoteStore, ProcPCs
  <2> QED BY <2>1, <2>2, HereProc, HereNoBoost, AtProc, Zenon
<1>26. CASE ClockRet(c)
  <2>1. pc[c] \in ProcPCs /\ pc[c] # "boost" /\ pc[c] \notin EnqPCs /\ cproc' = cproc /\ boost' = boost
    BY <1>26, Zenon DEF ClockRet, ProcPCs, EnqPCs
  <2>2. pc'[c] \in ProcPCs
    BY <1>26, <1>t, <2>1, GotoType, Zenon DEF ClockRet, ProcPCs
  <2> QED BY <2>1, <2>2, HereProc, HereNoBoost, AtProc
<1>27. CASE yield(c)
  <2>1. pc[c] \in ProcPCs /\ pc[c] # "boost" /\ pc[c] \notin EnqPCs /\ cproc' = cproc /\ boost' = boost
    BY <1>27, Zenon DEF yield, Leave, ProcPCs, EnqPCs
  <2>2. pc'[c] \in ProcPCs
    BY <1>27, <1>t, <2>1, GotoType, Zenon DEF yield, Leave, ProcPCs
  <2> QED BY <2>1, <2>2, HereProc, HereNoBoost, AtProc
<1>28. CASE ForkRun(c)
  <2> DEFINE np == child[cproc[c]]
  <2>1. pc[c] = "user" /\ np # NULL /\ EnqueueLoad(c, np, queue_level[np], "user")
    BY <1>28, ZenonT(30) DEF ForkRun
  <2>2. cproc' = cproc /\ boost' = boost /\ Thread(c)' = Thread(c)
    BY <1>28, Zenon DEF ForkRun, Thread
  <2>3. cproc[c] \in Procs /\ cproc[c] # NULL /\ Thread(c) = cproc[c] /\ ~(boost[c] > 0)
    BY <2>1, HereProc, HereNoBoost, Zenon DEF ProcPCs, EnqPCs
  <2>4. boost[cproc[c]] = 0
    BY <2>1, <2>3, Zenon DEF IInv, Children
  <2>5. boost'[Thread(c)'] < BoostEnd
    BY <2>2, <2>3, <2>4, SizesAssumption DEF BoostEnd, LastClear
  <2>6. pc'[c] \in EnqPCs /\ loc'[c].p = np /\ loc'[c].ret = "user"
    BY <1>t, <2>1, EnqueueLoadFields
  <2> HIDE DEF np
  <2>7. cproc'[c] # NULL /\ ~(boost'[c] > 0) /\ loc'[c].p # NULL
    BY <2>1, <2>2, <2>3, <2>6, Zenon
  <2> QED BY <2>5, <2>6, <2>7, AtEnqueue, Zenon
<1>29. CASE ExitZombie(c)
  <2>1. pc[c] \in ProcPCs /\ pc[c] # "boost" /\ pc[c] \notin EnqPCs /\ cproc' = cproc /\ boost' = boost
    BY <1>29, Zenon DEF ExitZombie, Leave, ProcPCs, EnqPCs
  <2>2. pc'[c] \in ProcPCs
    BY <1>29, <1>t, <2>1, GotoType, Zenon DEF ExitZombie, Leave, ProcPCs
  <2> QED BY <2>1, <2>2, HereProc, HereNoBoost, AtProc
<1>30. CASE BoostTime(c)
  <2>1. pc[c] = "boost_time" /\ cproc' = cproc /\ boost' = boost
    BY <1>30, Zenon DEF BoostTime
  <2>2. cproc[c] # NULL /\ ~(boost[c] > 0)
    BY <2>1, HereBoostTime, HereNoBoost, Zenon DEF EnqPCs
  <2>3. pc'[c] \in ProcPCs
    BY <1>30, <1>t, GotoType, Zenon DEF BoostTime, ProcPCs
  <2> QED BY <2>1, <2>2, <2>3, AtProc, Zenon
<1> QED BY <1>1, <1>2, <1>3, <1>4, <1>5, <1>6, <1>7, <1>8, <1>9, <1>10, <1>11, <1>12, <1>13, <1>14,
           <1>15, <1>16, <1>17, <1>18, <1>19, <1>20, <1>21, <1>22, <1>23, <1>24, <1>25,
           <1>26, <1>27, <1>28, <1>29, <1>30, ZenonT(30) DEF KernelStep, SchedulerStep, ProcessStep

\* So does a request of the workload or of a device.
LEMMA ControlRequest ==
  ASSUME IInv, NEW c \in CPUs, Request(c)
  PROVE  ControlAt(c)'
<1>t. TypeOK
  BY DEF IInv
<1>1. ASSUME NEW ch \in Chans, sleep(c, ch) PROVE ControlAt(c)'
  <2>1. pc[c] \in ProcPCs /\ pc[c] # "boost" /\ pc[c] \notin EnqPCs /\ cproc' = cproc /\ boost' = boost
    BY <1>1, Zenon DEF sleep, Leave, InUser, ProcPCs, EnqPCs
  <2>2. pc'[c] \in ProcPCs
    BY <1>1, <1>t, <2>1, GotoType, Zenon DEF sleep, Leave, InUser, ProcPCs
  <2> QED BY <2>1, <2>2, HereProc, HereNoBoost, AtProc, SMTT(30)
<1>2. ASSUME NEW ch \in Chans, CallWakeup(c, ch) PROVE ControlAt(c)'
  <2>1. pc[c] \in {"user"} /\ cproc' = cproc /\ boost' = boost
    BY <1>2, Zenon DEF CallWakeup, InUser
  <2>2. pc'[c] = "wakeup" /\ loc'[c].i = 1 /\ loc'[c].wret = "user"
    <3>1. WakeupStart(c, ch, "user")
      BY <1>2, Zenon DEF CallWakeup
    <3> QED BY <1>t, <3>1, WakeupStartFields, Zenon
  <2>3. ~(boost[c] > 0) /\ cproc[c] # NULL
    BY <2>1, HereNoBoost, HereProc, Zenon DEF EnqPCs, ProcPCs
  <2>4. loc'[c].i >= 1 /\ ~(boost'[c] > 0)
    <3>1. 1 >= 1
      OBVIOUS
    <3> QED BY <2>1, <2>2, <2>3, <3>1, Zenon
  <2> QED BY <2>1, <2>2, <2>3, <2>4, AtWakeup, Zenon
<1>3. ASSUME NEW ch \in Chans, DevIntr(c, ch) PROVE ControlAt(c)'
  <2>1. pc[c] \in {"top", "user", "wfi"} /\ cproc' = cproc /\ boost' = boost
    BY <1>3, SMTT(30) DEF DevIntr
  <2>2. pc'[c] = "wakeup" /\ loc'[c].i = 1 /\ loc'[c].wret = (IF pc[c] = "user" THEN "user" ELSE "top")
    <3>1. WakeupStart(c, ch, IF pc[c] = "user" THEN "user" ELSE "top")
      BY <1>3, Zenon DEF DevIntr
    <3> QED BY <1>t, <3>1, WakeupStartFields, Zenon
  <2>3. ~(boost[c] > 0) /\ (pc[c] = "user" => cproc[c] # NULL) /\ (pc[c] # "user" => cproc[c] = NULL)
    BY <2>1, HereNoBoost, HereProc, HereSched, Zenon DEF EnqPCs, ProcPCs, SchedPCs
  <2>4. loc'[c].i >= 1 /\ ~(boost'[c] > 0)
    <3>1. 1 >= 1
      OBVIOUS
    <3> QED BY <2>1, <2>2, <2>3, <3>1, Zenon
  <2> QED BY <2>1, <2>2, <2>3, <2>4, AtWakeup, Zenon
<1>4. ASSUME NEW q \in Procs, kkill(c, q) PROVE ControlAt(c)'
  <2>1. pc[c] \in ProcPCs /\ pc[c] # "boost" /\ pc[c] \notin EnqPCs /\ cproc' = cproc /\ boost' = boost
    BY <1>4, Zenon DEF kkill, InUser, ProcPCs, EnqPCs
  <2>2. pc'[c] \in ProcPCs
    BY <1>4, <1>t, <2>1, GotoType, Zenon DEF kkill, InUser, ProcPCs
  <2> QED BY <2>1, <2>2, HereProc, HereNoBoost, AtProc, Zenon
<1>5. ASSUME NEW q \in Procs, ForkAlloc(c, q) PROVE ControlAt(c)'
  <2>1. pc[c] \in ProcPCs /\ pc[c] # "boost" /\ pc[c] \notin EnqPCs /\ cproc' = cproc /\ boost' = boost
    BY <1>5, Zenon DEF ForkAlloc, InUser, ProcPCs, EnqPCs
  <2>2. pc'[c] \in ProcPCs
    BY <1>5, <1>t, <2>1, GotoType DEF ForkAlloc, InUser, ProcPCs
  <2> QED BY <2>1, <2>2, HereProc, HereNoBoost, AtProc
<1>6. ASSUME NEW q \in Procs, freeproc(c, q) PROVE ControlAt(c)'
  <2>1. pc[c] \in ProcPCs /\ pc[c] # "boost" /\ pc[c] \notin EnqPCs /\ cproc' = cproc /\ boost' = boost
    BY <1>6, Zenon DEF freeproc, InUser, ProcPCs, EnqPCs
  <2>2. pc'[c] \in ProcPCs
    BY <1>6, <1>t, <2>1, GotoType DEF freeproc, InUser, ProcPCs
  <2> QED BY <2>1, <2>2, HereProc, HereNoBoost, AtProc
<1>7. ASSUME NEW q \in Procs, BoostOne(c, q) PROVE ControlAt(c)'
  <2>1. pc[c] = "user" /\ loc' = [loc EXCEPT ![c].p = q] /\ cproc' = cproc /\ boost' = boost
    BY <1>7, Zenon DEF BoostOne, InUser
  <2>2. cproc[c] # NULL /\ ~(boost[c] > 0)
    BY <2>1, HereProc, HereNoBoost, Zenon DEF ProcPCs, EnqPCs
  <2>3. pc'[c] = "boost_time"
    BY <1>7, <1>t, GotoType, Zenon DEF BoostOne
  <2>4. loc'[c].p = q
    BY <1>t, <2>1, AssignPointerValue, Zenon
  <2>5. q # NULL
    BY SizesAssumption DEF Procs, NULL
  <2>6. cproc'[c] # NULL /\ ~(boost'[c] > 0) /\ loc'[c].p # NULL
    BY <2>1, <2>2, <2>4, <2>5, Zenon
  <2> QED BY <2>3, <2>6, AtBoostTime, Zenon
<1>8. CASE kexit(c)
  <2>1. pc[c] \in {"user"} /\ cproc' = cproc /\ boost' = boost
    BY <1>8, Zenon DEF kexit, InUser
  <2>2. pc'[c] = "wakeup" /\ loc'[c].i = 1 /\ loc'[c].wret = "exit"
    <3>1. WakeupStart(c, "wait", "exit")
      BY <1>8, Zenon DEF kexit
    <3> QED BY <1>t, <3>1, WakeupStartFields, Zenon
  <2>3. ~(boost[c] > 0) /\ cproc[c] # NULL
    BY <2>1, HereNoBoost, HereProc, Zenon DEF EnqPCs, ProcPCs
  <2>4. loc'[c].i >= 1 /\ ~(boost'[c] > 0)
    <3>1. 1 >= 1
      OBVIOUS
    <3> QED BY <2>1, <2>2, <2>3, <3>1, Zenon
  <2> QED BY <2>1, <2>2, <2>3, <2>4, AtWakeup, Zenon
<1>9. CASE BoostAll(c)
  <2>1. pc[c] = "user" /\ UNCHANGED <<pc, loc, cproc>> /\ pc[c] \in ProcPCs /\ pc[c] \notin EnqPCs
    BY <1>9, Zenon DEF BoostAll, InUser, ProcPCs, EnqPCs
  <2>2. boost'[c] = boost[c]
    BY <1>9, <2>1, HereProc, Zenon DEF IInv, TypeOK, BoostAll
  <2> QED BY <2>1, <2>2, HereProc, HereNoBoost, AtProc, Zenon
<1> QED BY <1>1, <1>2, <1>3, <1>4, <1>5, <1>6, <1>7, <1>8, <1>9, ZenonT(30) DEF Request

\* Every step keeps the CPUs where their threads of control can be.
LEMMA ControlStep ==
  ASSUME IInv, NEW c \in CPUs, KernelStep(c) \/ Request(c)
  PROVE  Control'
<1> SUFFICES ASSUME NEW d \in CPUs PROVE ControlAt(d)'
  BY Zenon DEF Control
<1>1. CASE d = c
  BY <1>1, ControlKernel, ControlRequest, Zenon
<1>2. CASE d # c
  <2>1. /\ pc'[d] = pc[d] /\ loc'[d] = loc[d] /\ cproc'[d] = cproc[d]
        /\ boost'[d] = boost[d] /\ boost'[Thread(d)] = boost[Thread(d)]
    BY <1>2, OthersUnchanged, Zenon
  <2>2. Thread(d)' = Thread(d)
    BY <2>1, Zenon DEF Thread
  <2>3. ControlAt(d)
    BY Zenon DEF IInv, Control
  <2> QED BY <2>1, <2>2, <2>3, ZenonT(30) DEF ControlAt
<1> QED BY <1>1, <1>2, Zenon
=============================================================================
