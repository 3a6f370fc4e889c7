----------------------------- MODULE SyncProofs -----------------------------
(***************************************************************************)
(* Proofs about modules ProcLife and Spin, for any numbers of processes    *)
(* and CPUs.  The promises that kexit() and kwait() make to each other:    *)
(* IInv is inductive, and each conjunct has a step lemma with one case per *)
(* action.  And that the depth and the interrupt flag of a CPU follow from *)
(* where its thread and its handler are (SpinInv), so that a process finds *)
(* interrupts as it left them on whatever CPU it is resumed.               *)
(***************************************************************************)
EXTENDS Spin, ProcLife, TLAPS

-----------------------------------------------------------------------------
(* Spin locks and interrupts: the inductive invariant. *)

SchedulerPCs == {"on", "pick", "spin", "held", "away", "back"}
ThreadPCs == {"new", "out", "in", "run", "sret", "devspin", "devcrit", "innerspin", "innercrit", "spin",
              "sleepspin", "sleepheld", "held", "restored"}

SpinTypeOK ==
  /\ sie \in [Cpus -> BOOLEAN] /\ noff \in [Cpus -> Nat] /\ intena \in [Cpus -> BOOLEAN]
  /\ owner \in [Locks -> Cpus \cup {None}]
  /\ cur \in [Cpus -> Cpus \cup Threads]
  /\ tpc \in [Cpus \cup Threads -> SchedulerPCs \cup ThreadPCs]
  /\ want \in [Cpus \cup Threads -> Threads \cup {None}]
  /\ saved \in [Threads -> BOOLEAN] /\ trapped \in [Threads -> BOOLEAN]
  /\ hpc \in [Cpus -> {"no", "spin", "crit"}]

\* A CPU runs its scheduler or a process that it was switched to, and no process runs on
\* two CPUs; a scheduler knows the process that it is after or has switched to, and a
\* process the one whose lock it takes in wakeup().
Running ==
  /\ \A c \in Cpus : /\ tpc[c] \in SchedulerPCs
                     /\ cur[c] = c \/ (cur[c] \in Threads /\ tpc[cur[c]] \notin {"new", "out"})
                     /\ tpc[c] = "away" <=> cur[c] # c
                     /\ tpc[c] \in {"spin", "held", "away", "back"} => want[c] \in Threads
                     /\ tpc[c] = "away" => want[c] = cur[c]
  /\ \A p \in Threads : /\ tpc[p] \in ThreadPCs
                        /\ tpc[p] \in {"innerspin", "innercrit"} => want[p] \in Threads \ {p}
  /\ \A c, d \in Cpus : cur[c] = cur[d] => c = d

\* Where the thread that runs on c is.
Place(c) == tpc[cur[c]]

\* How often push_off() was called there.
Depth(c) ==
  (IF hpc[c] = "no" THEN 0 ELSE 1)
    + (IF Place(c) \in {"on", "pick", "run", "sret"} THEN 0
       ELSE IF Place(c) \in {"innerspin", "innercrit", "sleepspin", "sleepheld"} THEN 2 ELSE 1)

\* Interrupts are on only outside sections, handlers and traps.
Flags ==
  \A c \in Cpus : /\ noff[c] = Depth(c)
                  /\ sie[c] <=> hpc[c] = "no" /\ Place(c) \in {"on", "run"}
                  /\ hpc[c] # "no" => Place(c) \in {"on", "run"}

\* intena is what the thread that runs found, and sched() has saved it for one that does
\* not run; a new process takes it over from a scheduler, which found interrupts off.
Remembered ==
  /\ \A c \in Cpus : cur[c] # c =>
       /\ Place(c) \in {"devspin", "devcrit", "innerspin", "innercrit"} => intena[c]
       /\ Place(c) \in {"sleepspin", "sleepheld"} => intena[c] /\ ~ trapped[cur[c]]
       /\ Place(c) \in {"spin", "held", "restored"} => (intena[c] <=> ~ trapped[cur[c]])
  /\ \A c \in Cpus : cur[c] = c /\ tpc[c] \in {"spin", "held"} => ~ intena[c]
  /\ \A p \in Threads : /\ tpc[p] \in {"out", "in"} => (saved[p] <=> ~ trapped[p])
                        /\ tpc[p] = "new" => trapped[p]

\* CPU c has lock lk, by its handler, its scheduler or its process.
Has(c, lk) ==
  \/ lk = Dev /\ hpc[c] = "crit"
  \/ cur[c] = c /\ tpc[c] \in {"held", "back"} /\ lk = want[c]
  \/ cur[c] # c /\ Place(c) \in {"sleepheld", "held", "in", "restored"} /\ lk = cur[c]
  \/ cur[c] # c /\ Place(c) \in {"devcrit", "innerspin", "innercrit", "sleepspin", "sleepheld"} /\ lk = Dev
  \/ cur[c] # c /\ Place(c) = "innercrit" /\ lk = want[cur[c]]

Owners == \A c \in Cpus, lk \in Locks : owner[lk] = c <=> Has(c, lk)

SpinInv == SpinTypeOK /\ Running /\ Flags /\ Remembered /\ Owners

-----------------------------------------------------------------------------
(* The steps. *)

\* The actions of CPU c, with the processes p and q.
SpinStep(c, p, q) ==
  \/ DevAcquire(c, p) \/ SleepAcquire(c, p) \/ TrapAcquire(c, p) \/ InnerAcquire(c, p, q)
  \/ ThreadTakes(c, p) \/ ThreadReleases(c, p) \/ sched(c, p) \/ SchedReturns(c, p)
  \/ TrapReturns(c, p) \/ SchedulerOff(c) \/ SchedulerAcquire(c, p) \/ SchedulerTakes(c)
  \/ SchedulerSwitch(c) \/ SchedulerReleases(c)
  \/ Interrupt(c) \/ HandlerTakes(c) \/ HandlerReturns(c)

\* Every step is one of these; a scheduler or a handler has a process to name, whether it
\* uses it or not.
LEMMA SpinNextIsStep ==
  ASSUME SpinNext
  PROVE  \E c \in Cpus, p, q \in Threads : SpinStep(c, p, q)
<1> QED
  BY SpinAssumption DEF SpinNext, ThreadStep, SchedulerStep, HandlerStep, SpinStep

\* The variables keep their types.
LEMMA SpinTypeStep ==
  ASSUME SpinTypeOK, Running, Flags,
         NEW c \in Cpus, NEW p \in Threads, NEW q \in Threads, SpinStep(c, p, q)
  PROVE  SpinTypeOK'
<1> USE SpinAssumption DEF SchedulerPCs, ThreadPCs, Here, Goes, Locks
<1>1. CASE DevAcquire(c, p)
  BY <1>1 DEF DevAcquire, push_off, SpinTypeOK, Running, Flags, Depth, Place
<1>2. CASE SleepAcquire(c, p)
  BY <1>2 DEF SleepAcquire, push_off, SpinTypeOK, Running, Flags, Depth, Place
<1>3. CASE TrapAcquire(c, p)
  <2>1. intena' \in [Cpus -> BOOLEAN]
    BY <1>3, Zenon DEF TrapAcquire, SpinTypeOK
  <2>2. noff' \in [Cpus -> Nat]
    BY <1>3 DEF TrapAcquire, SpinTypeOK
  <2>3. sie' \in [Cpus -> BOOLEAN] /\ trapped' \in [Threads -> BOOLEAN]
    BY <1>3, Zenon DEF TrapAcquire, SpinTypeOK
  <2> QED
    BY <1>3, <2>1, <2>2, <2>3, Zenon DEF TrapAcquire, SpinTypeOK
<1>4. CASE InnerAcquire(c, p, q)
  BY <1>4 DEF InnerAcquire, push_off, SpinTypeOK, Running, Flags, Depth, Place
<1>5. CASE ThreadTakes(c, p)
  <2>1. owner' \in [Locks -> Cpus \cup {None}]
    BY <1>5 DEF ThreadTakes, TakeLock, SpinTypeOK
  <2>2. tpc' \in [Cpus \cup Threads -> SchedulerPCs \cup ThreadPCs]
    BY <1>5 DEF ThreadTakes, SpinTypeOK
  <2> QED
    BY <1>5, <2>1, <2>2, Zenon DEF ThreadTakes, SpinTypeOK
<1>6. CASE ThreadReleases(c, p)
  <2>1. /\ noff' = [noff EXCEPT ![c] = @ - 1] /\ noff[c] > 0
        /\ sie' = [sie EXCEPT ![c] = noff[c] = 1 /\ intena[c]]
        /\ UNCHANGED intena
    BY <1>6 DEF ThreadReleases, release, pop_off, SpinTypeOK, Flags, Depth, Place
  <2>2. noff' \in [Cpus -> Nat]
    BY <2>1 DEF SpinTypeOK
  <2>3. sie' \in [Cpus -> BOOLEAN]
    BY <2>1, Zenon DEF SpinTypeOK
  <2>4. /\ owner' \in [Locks -> Cpus \cup {None}]
        /\ want' \in [Cpus \cup Threads -> Threads \cup {None}]
    BY <1>6 DEF ThreadReleases, release, SpinTypeOK
  <2>5. tpc' \in [Cpus \cup Threads -> SchedulerPCs \cup ThreadPCs]
    BY <1>6 DEF ThreadReleases, SpinTypeOK
  <2> QED
    BY <1>6, <2>1, <2>2, <2>3, <2>4, <2>5, Zenon DEF ThreadReleases, SpinTypeOK
<1>7. CASE sched(c, p)
  BY <1>7 DEF sched, SpinTypeOK, Running, Flags, Depth, Place
<1>8. CASE SchedReturns(c, p)
  BY <1>8 DEF SchedReturns, SpinTypeOK, Running, Flags, Depth, Place
<1>9. CASE TrapReturns(c, p)
  BY <1>9, Zenon DEF TrapReturns, SpinTypeOK, Running, Flags, Depth, Place
<1>10. CASE SchedulerOff(c)
  BY <1>10, Zenon DEF SchedulerOff, SpinTypeOK, Running, Flags, Depth, Place
<1>11. CASE SchedulerAcquire(c, p)
  BY <1>11 DEF SchedulerAcquire, push_off, SpinTypeOK, Running, Flags, Depth, Place
<1>12. CASE SchedulerTakes(c)
  BY <1>12, Zenon DEF SchedulerTakes, TakeLock, SpinTypeOK, Running, Flags, Depth, Place
<1>13. CASE SchedulerSwitch(c)
  BY <1>13, Zenon DEF SchedulerSwitch, SpinTypeOK, Running, Flags, Depth, Place
<1>14. CASE SchedulerReleases(c)
  BY <1>14 DEF SchedulerReleases, SpinTypeOK, Running, Flags, Depth, Place
<1>15. CASE Interrupt(c)
  <2>1. intena' \in [Cpus -> BOOLEAN]
    BY <1>15, Zenon DEF Interrupt, SpinTypeOK
  <2>2. noff' \in [Cpus -> Nat]
    BY <1>15 DEF Interrupt, SpinTypeOK
  <2>3. sie' \in [Cpus -> BOOLEAN] /\ trapped' \in [Threads -> BOOLEAN]
    BY <1>15, Zenon DEF Interrupt, SpinTypeOK
  <2> QED
    BY <1>15, <2>1, <2>2, <2>3, Zenon DEF Interrupt, SpinTypeOK
<1>16. CASE HandlerTakes(c)
  BY <1>16, Zenon DEF HandlerTakes, TakeLock, SpinTypeOK, Running, Flags, Depth, Place
<1>17. CASE HandlerReturns(c)
  BY <1>17 DEF HandlerReturns, SpinTypeOK, Running, Flags, Depth, Place
<1> QED
  BY <1>1, <1>2, <1>3, <1>4, <1>5, <1>6, <1>7, <1>8, <1>9, <1>10, <1>11, <1>12, <1>13,
     <1>14, <1>15, <1>16, <1>17 DEF SpinStep

\* The CPUs keep their threads apart.
LEMMA RunningStep ==
  ASSUME SpinTypeOK, Running,
         NEW c \in Cpus, NEW p \in Threads, NEW q \in Threads, SpinStep(c, p, q)
  PROVE  Running'
<1> USE SpinAssumption DEF SchedulerPCs, ThreadPCs, Here, Goes, Locks
<1>1. CASE DevAcquire(c, p)
  BY <1>1 DEF DevAcquire, push_off, SpinTypeOK, Running
<1>2. CASE SleepAcquire(c, p)
  BY <1>2 DEF SleepAcquire, push_off, SpinTypeOK, Running
<1>3. CASE TrapAcquire(c, p)
  BY <1>3 DEF TrapAcquire, SpinTypeOK, Running
<1>4. CASE InnerAcquire(c, p, q)
  BY <1>4 DEF InnerAcquire, push_off, SpinTypeOK, Running
<1>5. CASE ThreadTakes(c, p)
  BY <1>5 DEF ThreadTakes, TakeLock, SpinTypeOK, Running
<1>6. CASE ThreadReleases(c, p)
  BY <1>6 DEF ThreadReleases, release, pop_off, SpinTypeOK, Running
<1>7. CASE sched(c, p)
  BY <1>7 DEF sched, SpinTypeOK, Running
<1>8. CASE SchedReturns(c, p)
  BY <1>8 DEF SchedReturns, SpinTypeOK, Running
<1>9. CASE TrapReturns(c, p)
  BY <1>9 DEF TrapReturns, SpinTypeOK, Running
<1>10. CASE SchedulerOff(c)
  BY <1>10 DEF SchedulerOff, SpinTypeOK, Running
<1>11. CASE SchedulerAcquire(c, p)
  BY <1>11 DEF SchedulerAcquire, push_off, SpinTypeOK, Running
<1>12. CASE SchedulerTakes(c)
  BY <1>12 DEF SchedulerTakes, TakeLock, SpinTypeOK, Running
<1>13. CASE SchedulerSwitch(c)
  BY <1>13 DEF SchedulerSwitch, SpinTypeOK, Running
<1>14. CASE SchedulerReleases(c)
  BY <1>14 DEF SchedulerReleases, SpinTypeOK, Running
<1>15. CASE Interrupt(c)
  BY <1>15 DEF Interrupt, SpinTypeOK, Running
<1>16. CASE HandlerTakes(c)
  BY <1>16 DEF HandlerTakes, TakeLock, SpinTypeOK, Running
<1>17. CASE HandlerReturns(c)
  BY <1>17 DEF HandlerReturns, SpinTypeOK, Running
<1> QED
  BY <1>1, <1>2, <1>3, <1>4, <1>5, <1>6, <1>7, <1>8, <1>9, <1>10, <1>11, <1>12, <1>13,
     <1>14, <1>15, <1>16, <1>17 DEF SpinStep

\* The depth and the flag follow the thread and the handler.
LEMMA FlagsStep ==
  ASSUME SpinTypeOK, Running, Flags, Remembered,
         NEW c \in Cpus, NEW p \in Threads, NEW q \in Threads, SpinStep(c, p, q)
  PROVE  Flags'
<1> USE SpinAssumption DEF SchedulerPCs, ThreadPCs, Here, Goes, Locks
<1>1. CASE DevAcquire(c, p)
  BY <1>1 DEF DevAcquire, push_off, SpinTypeOK, Running, Flags, Remembered, Depth, Place
<1>2. CASE SleepAcquire(c, p)
  BY <1>2 DEF SleepAcquire, push_off, SpinTypeOK, Running, Flags, Remembered, Depth, Place
<1>3. CASE TrapAcquire(c, p)
  BY <1>3 DEF TrapAcquire, SpinTypeOK, Running, Flags, Remembered, Depth, Place
<1>4. CASE InnerAcquire(c, p, q)
  BY <1>4 DEF InnerAcquire, push_off, SpinTypeOK, Running, Flags, Remembered, Depth, Place
<1>5. CASE ThreadTakes(c, p)
  BY <1>5 DEF ThreadTakes, TakeLock, SpinTypeOK, Running, Flags, Remembered, Depth, Place
<1>6. CASE ThreadReleases(c, p)
  <2>1. CASE Here(c, p, "devcrit")
    BY <1>6, <2>1, SMTT(20) DEF ThreadReleases, release, pop_off, SpinTypeOK, Running, Flags,
       Remembered, Depth, Place
  <2>2. CASE Here(c, p, "innercrit")
    BY <1>6, <2>2, SMTT(20) DEF ThreadReleases, release, pop_off, SpinTypeOK, Running, Flags,
       Remembered, Depth, Place
  <2>3. CASE Here(c, p, "restored")
    BY <1>6, <2>3, SMTT(20) DEF ThreadReleases, release, pop_off, SpinTypeOK, Running, Flags,
       Remembered, Depth, Place
  <2>4. CASE Here(c, p, "sleepheld")
    BY <1>6, <2>4, SMTT(20) DEF ThreadReleases, release, pop_off, SpinTypeOK, Running, Flags,
       Remembered, Depth, Place
  <2> QED
    BY <1>6, <2>1, <2>2, <2>3, <2>4, Zenon DEF ThreadReleases
<1>7. CASE sched(c, p)
  BY <1>7 DEF sched, SpinTypeOK, Running, Flags, Remembered, Depth, Place
<1>8. CASE SchedReturns(c, p)
  BY <1>8 DEF SchedReturns, SpinTypeOK, Running, Flags, Remembered, Depth, Place
<1>9. CASE TrapReturns(c, p)
  BY <1>9 DEF TrapReturns, SpinTypeOK, Running, Flags, Remembered, Depth, Place
<1>10. CASE SchedulerOff(c)
  BY <1>10 DEF SchedulerOff, SpinTypeOK, Running, Flags, Remembered, Depth, Place
<1>11. CASE SchedulerAcquire(c, p)
  BY <1>11 DEF SchedulerAcquire, push_off, SpinTypeOK, Running, Flags, Remembered, Depth,
     Place
<1>12. CASE SchedulerTakes(c)
  BY <1>12 DEF SchedulerTakes, TakeLock, SpinTypeOK, Running, Flags, Remembered, Depth,
     Place
<1>13. CASE SchedulerSwitch(c)
  BY <1>13 DEF SchedulerSwitch, SpinTypeOK, Running, Flags, Remembered, Depth, Place
<1>14. CASE SchedulerReleases(c)
  BY <1>14 DEF SchedulerReleases, SpinTypeOK, Running, Flags, Remembered, Depth, Place
<1>15. CASE Interrupt(c)
  BY <1>15 DEF Interrupt, SpinTypeOK, Running, Flags, Remembered, Depth, Place
<1>16. CASE HandlerTakes(c)
  BY <1>16 DEF HandlerTakes, TakeLock, SpinTypeOK, Running, Flags, Remembered, Depth,
     Place
<1>17. CASE HandlerReturns(c)
  BY <1>17 DEF HandlerReturns, SpinTypeOK, Running, Flags, Remembered, Depth, Place
<1> QED
  BY <1>1, <1>2, <1>3, <1>4, <1>5, <1>6, <1>7, <1>8, <1>9, <1>10, <1>11, <1>12, <1>13,
     <1>14, <1>15, <1>16, <1>17 DEF SpinStep

\* intena follows its thread.
LEMMA RememberedStep ==
  ASSUME SpinTypeOK, Running, Flags, Remembered,
         NEW c \in Cpus, NEW p \in Threads, NEW q \in Threads, SpinStep(c, p, q)
  PROVE  Remembered'
<1> USE SpinAssumption DEF SchedulerPCs, ThreadPCs, Here, Goes, Locks
<1>1. CASE DevAcquire(c, p)
  BY <1>1 DEF DevAcquire, push_off, SpinTypeOK, Running, Flags, Remembered, Depth, Place
<1>2. CASE SleepAcquire(c, p)
  BY <1>2 DEF SleepAcquire, push_off, SpinTypeOK, Running, Flags, Remembered, Depth, Place
<1>3. CASE TrapAcquire(c, p)
  BY <1>3 DEF TrapAcquire, SpinTypeOK, Running, Flags, Remembered, Depth, Place
<1>4. CASE InnerAcquire(c, p, q)
  BY <1>4 DEF InnerAcquire, push_off, SpinTypeOK, Running, Flags, Remembered, Depth, Place
<1>5. CASE ThreadTakes(c, p)
  BY <1>5 DEF ThreadTakes, TakeLock, SpinTypeOK, Running, Flags, Remembered, Depth, Place
<1>6. CASE ThreadReleases(c, p)
  <2>1. CASE Here(c, p, "devcrit")
    BY <1>6, <2>1, SMTT(20) DEF ThreadReleases, release, pop_off, SpinTypeOK, Running, Flags,
       Remembered, Depth, Place
  <2>2. CASE Here(c, p, "innercrit")
    BY <1>6, <2>2, SMTT(20) DEF ThreadReleases, release, pop_off, SpinTypeOK, Running, Flags,
       Remembered, Depth, Place
  <2>3. CASE Here(c, p, "restored")
    BY <1>6, <2>3, SMTT(20) DEF ThreadReleases, release, pop_off, SpinTypeOK, Running, Flags,
       Remembered, Depth, Place
  <2>4. CASE Here(c, p, "sleepheld")
    BY <1>6, <2>4, SMTT(20) DEF ThreadReleases, release, pop_off, SpinTypeOK, Running, Flags,
       Remembered, Depth, Place
  <2> QED
    BY <1>6, <2>1, <2>2, <2>3, <2>4, Zenon DEF ThreadReleases
<1>7. CASE sched(c, p)
  BY <1>7 DEF sched, SpinTypeOK, Running, Flags, Remembered, Depth, Place
<1>8. CASE SchedReturns(c, p)
  BY <1>8 DEF SchedReturns, SpinTypeOK, Running, Flags, Remembered, Depth, Place
<1>9. CASE TrapReturns(c, p)
  BY <1>9 DEF TrapReturns, SpinTypeOK, Running, Flags, Remembered, Depth, Place
<1>10. CASE SchedulerOff(c)
  BY <1>10 DEF SchedulerOff, SpinTypeOK, Running, Flags, Remembered, Depth, Place
<1>11. CASE SchedulerAcquire(c, p)
  BY <1>11 DEF SchedulerAcquire, push_off, SpinTypeOK, Running, Flags, Remembered, Depth,
     Place
<1>12. CASE SchedulerTakes(c)
  BY <1>12 DEF SchedulerTakes, TakeLock, SpinTypeOK, Running, Flags, Remembered, Depth,
     Place
<1>13. CASE SchedulerSwitch(c)
  BY <1>13 DEF SchedulerSwitch, SpinTypeOK, Running, Flags, Remembered, Depth, Place
<1>14. CASE SchedulerReleases(c)
  BY <1>14 DEF SchedulerReleases, SpinTypeOK, Running, Flags, Remembered, Depth, Place
<1>15. CASE Interrupt(c)
  BY <1>15 DEF Interrupt, SpinTypeOK, Running, Flags, Remembered, Depth, Place
<1>16. CASE HandlerTakes(c)
  BY <1>16, Zenon DEF HandlerTakes, TakeLock, SpinTypeOK, Running, Flags, Remembered, Depth,
     Place
<1>17. CASE HandlerReturns(c)
  BY <1>17, Zenon DEF HandlerReturns, SpinTypeOK, Running, Flags, Remembered, Depth, Place
<1> QED
  BY <1>1, <1>2, <1>3, <1>4, <1>5, <1>6, <1>7, <1>8, <1>9, <1>10, <1>11, <1>12, <1>13,
     <1>14, <1>15, <1>16, <1>17 DEF SpinStep

\* The locks follow the threads.
LEMMA OwnersStep ==
  ASSUME SpinTypeOK, Running, Flags, Owners,
         NEW c \in Cpus, NEW p \in Threads, NEW q \in Threads, SpinStep(c, p, q)
  PROVE  Owners'
<1> USE SpinAssumption DEF SchedulerPCs, ThreadPCs, Here, Goes, Locks
<1>1. CASE DevAcquire(c, p)
  BY <1>1 DEF DevAcquire, push_off, SpinTypeOK, Running, Flags, Owners, Has, Place
<1>2. CASE SleepAcquire(c, p)
  BY <1>2 DEF SleepAcquire, push_off, SpinTypeOK, Running, Flags, Owners, Has, Place
<1>3. CASE TrapAcquire(c, p)
  BY <1>3 DEF TrapAcquire, SpinTypeOK, Running, Flags, Owners, Has, Place
<1>4. CASE InnerAcquire(c, p, q)
  BY <1>4 DEF InnerAcquire, push_off, SpinTypeOK, Running, Flags, Owners, Has, Place
<1>5. CASE ThreadTakes(c, p)
  BY <1>5 DEF ThreadTakes, TakeLock, SpinTypeOK, Running, Flags, Owners, Has, Place
<1>6. CASE ThreadReleases(c, p)
  <2>1. CASE Here(c, p, "devcrit")
    BY <1>6, <2>1, SMTT(20) DEF ThreadReleases, release, pop_off, SpinTypeOK, Running, Flags,
       Owners, Has, Place
  <2>2. CASE Here(c, p, "innercrit")
    BY <1>6, <2>2, SMTT(20), SMTT(21) DEF ThreadReleases, release, pop_off, SpinTypeOK, Running,
       Flags, Owners, Has, Place
  <2>3. CASE Here(c, p, "restored")
    BY <1>6, <2>3, SMTT(20), SMTT(21) DEF ThreadReleases, release, pop_off, SpinTypeOK, Running,
       Flags, Owners, Has, Place
  <2>4. CASE Here(c, p, "sleepheld")
    BY <1>6, <2>4, SMTT(20), SMTT(21) DEF ThreadReleases, release, pop_off, SpinTypeOK, Running,
       Flags, Owners, Has, Place
  <2> QED
    BY <1>6, <2>1, <2>2, <2>3, <2>4 DEF ThreadReleases
<1>7. CASE sched(c, p)
  BY <1>7 DEF sched, SpinTypeOK, Running, Flags, Owners, Has, Place
<1>8. CASE SchedReturns(c, p)
  BY <1>8 DEF SchedReturns, SpinTypeOK, Running, Flags, Owners, Has, Place
<1>9. CASE TrapReturns(c, p)
  BY <1>9 DEF TrapReturns, SpinTypeOK, Running, Flags, Owners, Has, Place
<1>10. CASE SchedulerOff(c)
  BY <1>10 DEF SchedulerOff, SpinTypeOK, Running, Flags, Owners, Has, Place
<1>11. CASE SchedulerAcquire(c, p)
  BY <1>11 DEF SchedulerAcquire, push_off, SpinTypeOK, Running, Flags, Owners, Has, Place
<1>12. CASE SchedulerTakes(c)
  BY <1>12 DEF SchedulerTakes, TakeLock, SpinTypeOK, Running, Flags, Owners, Has, Place
<1>13. CASE SchedulerSwitch(c)
  BY <1>13 DEF SchedulerSwitch, SpinTypeOK, Running, Flags, Owners, Has, Place
<1>14. CASE SchedulerReleases(c)
  BY <1>14 DEF SchedulerReleases, SpinTypeOK, Running, Flags, Owners, Has, Place
<1>15. CASE Interrupt(c)
  BY <1>15 DEF Interrupt, SpinTypeOK, Running, Flags, Owners, Has, Place
<1>16. CASE HandlerTakes(c)
  BY <1>16 DEF HandlerTakes, TakeLock, SpinTypeOK, Running, Flags, Owners, Has, Place
<1>17. CASE HandlerReturns(c)
  BY <1>17 DEF HandlerReturns, SpinTypeOK, Running, Flags, Owners, Has, Place
<1> QED
  BY <1>1, <1>2, <1>3, <1>4, <1>5, <1>6, <1>7, <1>8, <1>9, <1>10, <1>11, <1>12, <1>13,
     <1>14, <1>15, <1>16, <1>17 DEF SpinStep

-----------------------------------------------------------------------------
(* The theorem. *)

\* The invariant holds when the schedulers start.
LEMMA SpinInitInv == SpinInit => SpinInv
<1> SUFFICES ASSUME SpinInit PROVE SpinInv
  OBVIOUS
<1> USE SpinAssumption DEF SchedulerPCs, ThreadPCs, Locks, SpinInit
<1>1. SpinTypeOK
  <2>1. saved \in [Threads -> BOOLEAN] /\ trapped \in [Threads -> BOOLEAN]
    BY Zenon
  <2>2. PICK fresh \in SUBSET {p \in Threads : trapped[p]} :
          tpc = [t \in Cpus \cup Threads |-> IF t \in Cpus THEN "on"
                                           ELSE IF t \in fresh THEN "new" ELSE "out"]
    BY Zenon
  <2>3. tpc \in [Cpus \cup Threads -> SchedulerPCs \cup ThreadPCs]
    BY <2>2
  <2>4. /\ sie \in [Cpus -> BOOLEAN] /\ noff \in [Cpus -> Nat] /\ intena \in [Cpus -> BOOLEAN]
        /\ hpc \in [Cpus -> {"no", "spin", "crit"}]
    OBVIOUS
  <2>5. /\ owner \in [Locks -> Cpus \cup {None}] /\ cur \in [Cpus -> Cpus \cup Threads]
        /\ want \in [Cpus \cup Threads -> Threads \cup {None}]
    OBVIOUS
  <2> QED
    BY <2>1, <2>3, <2>4, <2>5, Zenon DEF SpinTypeOK
<1>2. Running
  <2>1. \A c \in Cpus : tpc[c] = "on" /\ cur[c] = c
    BY Zenon
  <2>2. \A p \in Threads : tpc[p] \in {"new", "out"}
    OBVIOUS
  <2> HIDE DEF SpinInit
  <2> QED
    BY <2>1, <2>2 DEF Running
<1>3. \A c \in Cpus : Place(c) = "on" /\ cur[c] = c /\ tpc[c] = "on" /\ hpc[c] = "no"
  BY Zenon DEF Place
<1>4. Flags
  <2>1. \A c \in Cpus : noff[c] = 0
    BY Zenon
  <2>3. ASSUME NEW c \in Cpus PROVE Depth(c) = 0
    <3> HIDE DEF SpinInit
    <3>1. hpc[c] = "no" /\ Place(c) \in {"on", "pick", "run", "sret"}
      BY <1>3, Zenon
    <3>2. Depth(c) = 0 + 0
      BY <3>1, Zenon DEF Depth
    <3> QED
      BY <3>2
  <2>2. \A c \in Cpus : sie[c]
    BY Zenon
  <2> QED
    BY <1>3, <2>1, <2>2, <2>3, Zenon DEF Flags
<1>5. Remembered
  <2>1. \A r \in Threads : saved[r] <=> ~ trapped[r]
    BY Zenon
  <2> QED
    BY <1>3, <2>1, Zenon DEF Remembered
<1>6. Owners
  BY <1>3 DEF Owners, Has
<1> QED
  BY <1>1, <1>2, <1>4, <1>5, <1>6, Zenon DEF SpinInv

\* Every step keeps it.
LEMMA SpinNextInv == SpinInv /\ [SpinNext]_spinVars => SpinInv'
<1> SUFFICES ASSUME SpinInv, [SpinNext]_spinVars PROVE SpinInv'
  OBVIOUS
<1>1. CASE UNCHANGED spinVars
  <2>1. SpinTypeOK' /\ Running'
    BY <1>1, Zenon DEF spinVars, SpinInv, SpinTypeOK, Running
  <2>2. Flags' /\ Remembered'
    BY <1>1, Zenon DEF spinVars, SpinInv, Flags, Depth, Place, Remembered
  <2>3. Owners'
    <3>1. \A c \in Cpus, lk \in Locks : Has(c, lk)' <=> Has(c, lk)
      BY <1>1 DEF spinVars, Has, Place
    <3>2. owner' = owner
      BY <1>1, Zenon DEF spinVars
    <3> QED
      BY <3>1, <3>2, Zenon DEF SpinInv, Owners
  <2> QED
    BY <2>1, <2>2, <2>3, Zenon DEF SpinInv
<1>2. CASE SpinNext
  <2>1. PICK c \in Cpus, p \in Threads, q \in Threads : SpinStep(c, p, q)
    BY <1>2, SpinNextIsStep, Zenon
  <2> QED
    BY <2>1, SpinTypeStep, RunningStep, FlagsStep, RememberedStep, OwnersStep, Zenon DEF SpinInv
<1> QED
  BY <1>1, <1>2, Zenon

\* It implies what acquire(), release() and sched() promise.
LEMMA InvRestored == SpinInv => InterruptsRestored
<1> SUFFICES ASSUME SpinInv PROVE InterruptsRestored
  OBVIOUS
<1> USE DEF SpinInv
<1>1. ASSUME NEW c \in Cpus, noff[c] > 0 PROVE ~ sie[c]
  <2>1. noff[c] = Depth(c)
    BY Zenon DEF Flags
  <2>2. ~ (hpc[c] = "no" /\ Place(c) \in {"on", "run"})
    BY <1>1, <2>1 DEF Depth
  <2> QED
    BY <2>2, Zenon DEF Flags
<1>2. \A c \in Cpus, lk \in Locks : owner[lk] = c => Has(c, lk) /\ noff[c] > 0
  BY SpinAssumption DEF SpinTypeOK, Running, Flags, Depth, Place, Owners, Has, SchedulerPCs,
     ThreadPCs, Locks
<1>3. \A c \in Cpus : hpc[c] = "spin" => ~ Has(c, Dev)
  BY SpinAssumption, Zenon DEF Running, Flags, Has, Place, SchedulerPCs, ThreadPCs, Locks
<1>4. ASSUME NEW c \in Cpus, NEW p \in Threads, cur[c] = p, hpc[c] = "no"
      PROVE  /\ tpc[p] = "run" => sie[c] /\ noff[c] = 0
             /\ tpc[p] = "sret" => ~ sie[c] /\ noff[c] = 0
             /\ tpc[p] = "held" => owner[p] = c /\ noff[c] = 1
             /\ tpc[p] \in {"spin", "sleepspin"} => ~ Has(c, p)
             /\ tpc[p] = "devspin" => ~ Has(c, Dev)
  <2>1. Place(c) = tpc[p] /\ cur[c] # c
    BY <1>4, SpinAssumption, Zenon DEF Place
  <2>5. noff[c] = Depth(c)
    BY Zenon DEF Flags
  <2>6. /\ tpc[p] \in {"run", "sret"} => noff[c] = 0
        /\ tpc[p] = "held" => noff[c] = 1
    <3>1. Depth(c) = 0 + (IF tpc[p] \in {"on", "pick", "run", "sret"} THEN 0
                          ELSE IF tpc[p] \in {"innerspin", "innercrit", "sleepspin", "sleepheld"} THEN 2
                          ELSE 1)
      BY <1>4, <2>1, Zenon DEF Depth
    <3> QED
      BY <2>5, <3>1
  <2>7. (tpc[p] = "run" => sie[c]) /\ (tpc[p] = "sret" => ~ sie[c])
    BY <1>4, <2>1, Zenon DEF Flags
  <2>2. /\ tpc[p] = "run" => sie[c] /\ noff[c] = 0
        /\ tpc[p] = "sret" => ~ sie[c] /\ noff[c] = 0
        /\ tpc[p] = "held" => noff[c] = 1
    BY <2>6, <2>7, Zenon
  <2>3. tpc[p] = "held" => owner[p] = c
    BY <1>4, <2>1, SpinAssumption DEF Owners, Has, Locks
  <2>4. /\ tpc[p] \in {"spin", "sleepspin"} => ~ Has(c, p)
        /\ tpc[p] = "devspin" => ~ Has(c, Dev)
    BY <1>4, <2>1, SpinAssumption DEF Has
  <2> QED
    BY <2>2, <2>3, <2>4, Zenon
<1>5. \A c \in Cpus, lk \in Locks : owner[lk] = c => Has(c, lk)
  BY Zenon DEF Owners
<1> HIDE DEF SpinInv
<1>6. Dev \in Locks /\ Threads \subseteq Locks
  BY Zenon DEF Locks
<1>7. ASSUME NEW c \in Cpus, NEW p \in Threads, cur[c] = p, hpc[c] = "no"
      PROVE  /\ tpc[p] \in {"spin", "sleepspin"} => owner[p] # c
             /\ tpc[p] = "devspin" => owner[Dev] # c
  BY <1>4, <1>5, <1>6, <1>7
<1>8. \A c \in Cpus : hpc[c] = "spin" => owner[Dev] # c
  BY <1>3, <1>5, <1>6, Zenon
<1>9. \A c \in Cpus, lk \in Locks : owner[lk] = c => noff[c] > 0
  BY <1>2, Zenon
<1> QED
  BY <1>1, <1>4, <1>7, <1>8, <1>9, ZenonT(30) DEF InterruptsRestored

\* Interrupts are on again whenever a process runs outside a section, on whatever CPU
\* sched() returns; they are off while a CPU has or wants a lock, so that no CPU waits for
\* itself.
THEOREM InterruptsSound == SpinSpec => []InterruptsRestored
<1> QED
  BY SpinInitInv, SpinNextInv, InvRestored, PTL DEF SpinSpec

-----------------------------------------------------------------------------
(* The life of a process: the inductive invariant. *)

\* A process is on a CPU exactly if it is RUNNING, and one that may be run, or whose
\* slot is free or being set up, has left its stack.
Placed ==
  \A p \in Procs : /\ state[p] = "RUNNING" <=> pc[p] \notin {"off", "swtch"}
                   /\ state[p] \in {"UNUSED", "USED", "RUNNABLE"} => pc[p] = "off"

\* kexit() and kwait() hold wait_lock where they must.
Holder == \A p \in Procs : pc[p] \in {"wait_sleep", "exit_wake", "exit_zombie"} => wait_lock = p

\* kfork() works on a USED slot that no other kfork() has.
InFork(p) == pc[p] \in {"fork_parent", "fork_run"}
Forking ==
  \A p \in Procs : InFork(p) =>
    /\ child[p] \in Procs /\ state[child[p]] = "USED"
    /\ pc[p] = "fork_run" => parent[child[p]] = p
    /\ \A q \in Procs : InFork(q) /\ child[q] = child[p] => q = p

\* init is there to inherit orphans.
Exiting(p) == pc[p] \in {"exit_wake", "exit_zombie"}
InitLives == state[initproc] \notin {"UNUSED", "USED", "ZOMBIE"} /\ ~ Exiting(initproc)

\* A process in kexit() has given its children away and gets no new ones.
ParentStays == \A p, q \in Procs : parent[q] = p => ~ Exiting(p)

\* Nobody sleeps in kwait(), or is about to, who has a zombie child; and the parent of a
\* process that is about to become a zombie has been woken.
SleepsInWait(p) == state[p] = "SLEEPING" /\ chan[p] = p
ZombiesSeen ==
  \A p, q \in Procs : parent[q] = p =>
    /\ SleepsInWait(p) \/ pc[p] = "wait_sleep" => state[q] # "ZOMBIE"
    /\ pc[q] = "exit_zombie" => ~ SleepsInWait(p)

IInv ==
  /\ TypeOK /\ Placed /\ Holder /\ Forking /\ InitLives /\ ParentAlive /\ ParentStays
  /\ ZombiesSeen

-----------------------------------------------------------------------------
(* The steps. *)

\* The actions of one process and, in kwait(), kfork() and kkill(), another.
Step(p, q) ==
  \/ Swtch(p) \/ Run(p) \/ ForkParent(p) \/ ForkRun(p)
  \/ ExitWake(p) \/ ExitZombie(p) \/ WaitSleep(p) \/ PauseSleep(p)
  \/ kexit(p) \/ WaitReap(p, q) \/ WaitFail(p) \/ WaitBlock(p)
  \/ PauseEnd(p) \/ PauseBlock(p) \/ Fault(p) \/ ForkAlloc(p, q) \/ kkill(p, q) \/ Tick

\* Every step is one of these.
LEMMA NextIsStep ==
  ASSUME [Next]_vars
  PROVE  (\E p, q \in Procs : Step(p, q)) \/ UNCHANGED vars
<1>1. 1 \in Procs
  BY NPROCAssumption DEF Procs
<1> QED
  BY <1>1 DEF Next, KernelStep, Request, kwait, Step

\* TypeOK is kept by every step.
LEMMA TypeStep ==
  ASSUME TypeOK, [Next]_vars
  PROVE  TypeOK'
<1> USE NPROCAssumption DEF Procs, NULL, ticks, initproc
<1>u. UNCHANGED vars => TypeOK'
  BY Zenon DEF vars, TypeOK
<1>0. SUFFICES ASSUME NEW p \in Procs, NEW q \in Procs, Step(p, q)
      PROVE  TypeOK'
  BY <1>u, NextIsStep, Zenon
<1>1. CASE Swtch(p)
  BY <1>1, Zenon DEF Swtch, Goto, TypeOK, PC
<1>2. CASE Run(p)
  BY <1>2, Zenon DEF Run, Goto, TypeOK, PC
<1>3. CASE ForkParent(p)
  BY <1>3, Zenon DEF ForkParent, Goto, TypeOK, PC
<1>4. CASE ForkRun(p)
  BY <1>4, Zenon DEF ForkRun, Goto, Locked, TypeOK, PC
<1>5. CASE ExitWake(p)
  BY <1>5, Zenon DEF ExitWake, wakeup, Goto, Locked, TypeOK, PC
<1>6. CASE ExitZombie(p)
  BY <1>6, Zenon DEF ExitZombie, Goto, TypeOK, PC
<1>7. CASE WaitSleep(p)
  BY <1>7, Zenon DEF WaitSleep, sleep, Goto, TypeOK, PC
<1>8. CASE PauseSleep(p)
  BY <1>8, Zenon DEF PauseSleep, sleep, Goto, TypeOK, PC
<1>9. CASE kexit(p)
  BY <1>9 DEF kexit, wakeup, Children, Goto, Locked, TypeOK, PC
<1>10. CASE WaitReap(p, q)
  BY <1>10, Zenon DEF WaitReap, FirstZombie, Children, Waiting, User, Goto, Locked, TypeOK, PC
<1>11. CASE WaitFail(p)
  BY <1>11, Zenon DEF WaitFail, Waiting, User, Goto, TypeOK, PC
<1>12. CASE WaitBlock(p)
  BY <1>12, Zenon DEF WaitBlock, Waiting, User, Children, Goto, TypeOK, PC
<1>13. CASE PauseEnd(p)
  BY <1>13, Zenon DEF PauseEnd, Program, User, Goto, TypeOK, PC
<1>14. CASE PauseBlock(p)
  BY <1>14, Zenon DEF PauseBlock, Program, User, Goto, TypeOK, PC
<1>15. CASE Fault(p)
  BY <1>15, Zenon DEF Fault, Program, User, TypeOK, PC
<1>16. CASE ForkAlloc(p, q)
  <2>1. CASE state' = [state EXCEPT ![q] = "USED"] /\ child' = [child EXCEPT ![p] = q]
               /\ Goto(p, "fork_parent") /\ UNCHANGED <<killed, named>>
    BY <1>16, <2>1, Zenon DEF ForkAlloc, User, Goto, Locked, TypeOK, PC
  <2>2. CASE killed' = [killed EXCEPT ![q] = FALSE] /\ named' = named \ {q}
               /\ UNCHANGED <<state, child, pc>>
    BY <1>16, <2>2, Zenon DEF ForkAlloc, User, Goto, Locked, TypeOK, PC
  <2> QED
    BY <1>16, <2>1, <2>2, Zenon DEF ForkAlloc
<1>17. CASE kkill(p, q)
  BY <1>17, Zenon DEF kkill, Program, User, Locked, TypeOK, PC
<1>18. CASE Tick
  BY <1>18, Zenon DEF Tick, wakeup, Locked, TypeOK, PC
<1> QED
  BY <1>0, <1>1, <1>2, <1>3, <1>4, <1>5, <1>6, <1>7, <1>8, <1>9, <1>10, <1>11, <1>12,
     <1>13, <1>14, <1>15, <1>16, <1>17, <1>18 DEF Step

\* A process is on a CPU exactly if its state says so.
LEMMA PlacedStep ==
  ASSUME TypeOK, Placed, Forking, [Next]_vars
  PROVE  Placed'
<1> USE NPROCAssumption DEF Procs, NULL, ticks, initproc
<1>u. UNCHANGED vars => Placed'
  BY Zenon DEF vars, Placed
<1>0. SUFFICES ASSUME NEW p \in Procs, NEW q \in Procs, Step(p, q)
      PROVE  Placed'
  BY <1>u, NextIsStep, Zenon
<1>1. CASE Swtch(p)
  BY <1>1 DEF Swtch, Goto, TypeOK, Placed, Forking, InFork
<1>2. CASE Run(p)
  BY <1>2 DEF Run, Goto, TypeOK, Placed, Forking, InFork
<1>3. CASE ForkParent(p)
  BY <1>3, Zenon DEF ForkParent, Goto, TypeOK, Placed, Forking, InFork
<1>4. CASE ForkRun(p)
  BY <1>4 DEF ForkRun, Goto, Locked, TypeOK, Placed, Forking, InFork
<1>5. CASE ExitWake(p)
  BY <1>5 DEF ExitWake, wakeup, Goto, Locked, TypeOK, Placed, Forking, InFork
<1>6. CASE ExitZombie(p)
  BY <1>6 DEF ExitZombie, Goto, TypeOK, Placed, Forking, InFork
<1>7. CASE WaitSleep(p)
  BY <1>7 DEF WaitSleep, sleep, Goto, TypeOK, Placed, Forking, InFork
<1>8. CASE PauseSleep(p)
  BY <1>8 DEF PauseSleep, sleep, Goto, TypeOK, Placed, Forking, InFork
<1>9. CASE kexit(p)
  BY <1>9 DEF kexit, wakeup, Children, Goto, Locked, TypeOK, Placed, Forking, InFork
<1>10. CASE WaitReap(p, q)
  BY <1>10 DEF WaitReap, FirstZombie, Children, Waiting, User, Goto, Locked, TypeOK,
     Placed, Forking, InFork
<1>11. CASE WaitFail(p)
  BY <1>11, ZenonT(30) DEF WaitFail, Waiting, User, Goto, TypeOK, Placed, Forking, InFork
<1>12. CASE WaitBlock(p)
  BY <1>12, Zenon DEF WaitBlock, Waiting, User, Children, Goto, TypeOK, Placed, Forking, InFork
<1>13. CASE PauseEnd(p)
  BY <1>13, Zenon DEF PauseEnd, Program, User, Goto, TypeOK, Placed, Forking, InFork
<1>14. CASE PauseBlock(p)
  BY <1>14, Zenon DEF PauseBlock, Program, User, Goto, TypeOK, Placed, Forking, InFork
<1>15. CASE Fault(p)
  BY <1>15, Zenon DEF Fault, Program, User, TypeOK, Placed, Forking, InFork
<1>16. CASE ForkAlloc(p, q)
  BY <1>16 DEF ForkAlloc, User, Goto, Locked, TypeOK, Placed, Forking, InFork
<1>17. CASE kkill(p, q)
  BY <1>17, Zenon DEF kkill, Program, User, Locked, TypeOK, Placed, Forking, InFork
<1>18. CASE Tick
  BY <1>18, Zenon DEF Tick, wakeup, Locked, TypeOK, Placed, Forking, InFork
<1> QED
  BY <1>0, <1>1, <1>2, <1>3, <1>4, <1>5, <1>6, <1>7, <1>8, <1>9, <1>10, <1>11, <1>12,
     <1>13, <1>14, <1>15, <1>16, <1>17, <1>18 DEF Step

\* wait_lock has one holder.
LEMMA HolderStep ==
  ASSUME TypeOK, Holder, [Next]_vars
  PROVE  Holder'
<1> USE NPROCAssumption DEF Procs, NULL, ticks, initproc
<1>u. UNCHANGED vars => Holder'
  BY Zenon DEF vars, Holder
<1>0. SUFFICES ASSUME NEW p \in Procs, NEW q \in Procs, Step(p, q)
      PROVE  Holder'
  BY <1>u, NextIsStep, Zenon
<1>1. CASE Swtch(p)
  BY <1>1, Zenon DEF Swtch, Goto, TypeOK, Holder
<1>2. CASE Run(p)
  BY <1>2, Zenon DEF Run, Goto, TypeOK, Holder
<1>3. CASE ForkParent(p)
  BY <1>3, Zenon DEF ForkParent, Goto, TypeOK, Holder
<1>4. CASE ForkRun(p)
  BY <1>4, Zenon DEF ForkRun, Goto, Locked, TypeOK, Holder
<1>5. CASE ExitWake(p)
  BY <1>5, Zenon DEF ExitWake, wakeup, Goto, Locked, TypeOK, Holder
<1>6. CASE ExitZombie(p)
  BY <1>6, Zenon DEF ExitZombie, Goto, TypeOK, Holder
<1>7. CASE WaitSleep(p)
  BY <1>7, Zenon DEF WaitSleep, sleep, Goto, TypeOK, Holder
<1>8. CASE PauseSleep(p)
  BY <1>8, Zenon DEF PauseSleep, sleep, Goto, TypeOK, Holder
<1>9. CASE kexit(p)
  BY <1>9 DEF kexit, wakeup, Children, Goto, Locked, TypeOK, Holder
<1>10. CASE WaitReap(p, q)
  BY <1>10, Zenon DEF WaitReap, FirstZombie, Children, Waiting, User, Goto, Locked, TypeOK,
     Holder
<1>11. CASE WaitFail(p)
  BY <1>11, Zenon DEF WaitFail, Waiting, User, Goto, TypeOK, Holder
<1>12. CASE WaitBlock(p)
  BY <1>12 DEF WaitBlock, Waiting, User, Children, Goto, TypeOK, Holder
<1>13. CASE PauseEnd(p)
  BY <1>13, Zenon DEF PauseEnd, Program, User, Goto, TypeOK, Holder
<1>14. CASE PauseBlock(p)
  BY <1>14, Zenon DEF PauseBlock, Program, User, Goto, TypeOK, Holder
<1>15. CASE Fault(p)
  BY <1>15, Zenon DEF Fault, Program, User, TypeOK, Holder
<1>16. CASE ForkAlloc(p, q)
  BY <1>16 DEF ForkAlloc, User, Goto, Locked, TypeOK, Holder
<1>17. CASE kkill(p, q)
  BY <1>17, Zenon DEF kkill, Program, User, Locked, TypeOK, Holder
<1>18. CASE Tick
  BY <1>18, Zenon DEF Tick, wakeup, Locked, TypeOK, Holder
<1> QED
  BY <1>0, <1>1, <1>2, <1>3, <1>4, <1>5, <1>6, <1>7, <1>8, <1>9, <1>10, <1>11, <1>12,
     <1>13, <1>14, <1>15, <1>16, <1>17, <1>18 DEF Step

\* kfork() works on a slot of its own.
LEMMA ForkingStep ==
  ASSUME TypeOK, Placed, Forking, [Next]_vars
  PROVE  Forking'
<1> USE NPROCAssumption DEF Procs, NULL, ticks, initproc
<1>u. UNCHANGED vars => Forking'
  BY DEF vars, Forking, InFork
<1>0. SUFFICES ASSUME NEW p \in Procs, NEW q \in Procs, Step(p, q)
      PROVE  Forking'
  BY <1>u, NextIsStep, Zenon
<1>1. CASE Swtch(p)
  BY <1>1 DEF Swtch, Goto, TypeOK, Placed, Forking, InFork
<1>2. CASE Run(p)
  BY <1>2 DEF Run, Goto, TypeOK, Placed, Forking, InFork
<1>3. CASE ForkParent(p)
  BY <1>3 DEF ForkParent, Goto, TypeOK, Placed, Forking, InFork
<1>4. CASE ForkRun(p)
  BY <1>4 DEF ForkRun, Goto, Locked, TypeOK, Placed, Forking, InFork
<1>5. CASE ExitWake(p)
  BY <1>5 DEF ExitWake, wakeup, Goto, Locked, TypeOK, Placed, Forking, InFork
<1>6. CASE ExitZombie(p)
  BY <1>6 DEF ExitZombie, Goto, TypeOK, Placed, Forking, InFork
<1>7. CASE WaitSleep(p)
  BY <1>7 DEF WaitSleep, sleep, Goto, TypeOK, Placed, Forking, InFork
<1>8. CASE PauseSleep(p)
  BY <1>8 DEF PauseSleep, sleep, Goto, TypeOK, Placed, Forking, InFork
<1>9. CASE kexit(p)
  BY <1>9 DEF kexit, wakeup, Children, Goto, Locked, TypeOK, Placed, Forking, InFork
<1>10. CASE WaitReap(p, q)
  BY <1>10 DEF WaitReap, FirstZombie, Children, Waiting, User, Goto, Locked, TypeOK,
     Placed, Forking, InFork
<1>11. CASE WaitFail(p)
  BY <1>11 DEF WaitFail, Waiting, User, Goto, TypeOK, Placed, Forking, InFork
<1>12. CASE WaitBlock(p)
  BY <1>12 DEF WaitBlock, Waiting, User, Children, Goto, TypeOK, Placed, Forking, InFork
<1>13. CASE PauseEnd(p)
  BY <1>13 DEF PauseEnd, Program, User, Goto, TypeOK, Placed, Forking, InFork
<1>14. CASE PauseBlock(p)
  BY <1>14 DEF PauseBlock, Program, User, Goto, TypeOK, Placed, Forking, InFork
<1>15. CASE Fault(p)
  BY <1>15 DEF Fault, Program, User, TypeOK, Placed, Forking, InFork
<1>16. CASE ForkAlloc(p, q)
  <2>1. CASE state' = [state EXCEPT ![q] = "USED"] /\ child' = [child EXCEPT ![p] = q]
               /\ Goto(p, "fork_parent") /\ UNCHANGED <<killed, named>>
    BY <1>16, <2>1 DEF ForkAlloc, User, Goto, Locked, TypeOK, Placed, Forking, InFork
  <2>2. CASE killed' = [killed EXCEPT ![q] = FALSE] /\ named' = named \ {q}
               /\ UNCHANGED <<state, child, pc>>
    BY <1>16, <2>2 DEF ForkAlloc, User, Goto, Locked, TypeOK, Placed, Forking, InFork
  <2> QED
    BY <1>16, <2>1, <2>2, Zenon DEF ForkAlloc
<1>17. CASE kkill(p, q)
  BY <1>17 DEF kkill, Program, User, Locked, TypeOK, Placed, Forking, InFork
<1>18. CASE Tick
  BY <1>18 DEF Tick, wakeup, Locked, TypeOK, Placed, Forking, InFork
<1> QED
  BY <1>0, <1>1, <1>2, <1>3, <1>4, <1>5, <1>6, <1>7, <1>8, <1>9, <1>10, <1>11, <1>12,
     <1>13, <1>14, <1>15, <1>16, <1>17, <1>18 DEF Step

\* init never dies.
LEMMA InitStep ==
  ASSUME TypeOK, InitLives, Forking, [Next]_vars
  PROVE  InitLives'
<1> USE NPROCAssumption DEF Procs, NULL, ticks, initproc
<1>u. UNCHANGED vars => InitLives'
  BY Zenon DEF vars, InitLives, Exiting
<1>0. SUFFICES ASSUME NEW p \in Procs, NEW q \in Procs, Step(p, q)
      PROVE  InitLives'
  BY <1>u, NextIsStep, Zenon
<1>1. CASE Swtch(p)
  BY <1>1 DEF Swtch, Goto, TypeOK, InitLives, Exiting, Forking, InFork
<1>2. CASE Run(p)
  BY <1>2 DEF Run, Goto, TypeOK, InitLives, Exiting, Forking, InFork
<1>3. CASE ForkParent(p)
  BY <1>3 DEF ForkParent, Goto, TypeOK, InitLives, Exiting, Forking, InFork
<1>4. CASE ForkRun(p)
  BY <1>4 DEF ForkRun, Goto, Locked, TypeOK, InitLives, Exiting, Forking, InFork
<1>5. CASE ExitWake(p)
  BY <1>5 DEF ExitWake, wakeup, Goto, Locked, TypeOK, InitLives, Exiting, Forking, InFork
<1>6. CASE ExitZombie(p)
  BY <1>6 DEF ExitZombie, Goto, TypeOK, InitLives, Exiting, Forking, InFork
<1>7. CASE WaitSleep(p)
  BY <1>7 DEF WaitSleep, sleep, Goto, TypeOK, InitLives, Exiting, Forking, InFork
<1>8. CASE PauseSleep(p)
  BY <1>8 DEF PauseSleep, sleep, Goto, TypeOK, InitLives, Exiting, Forking, InFork
<1>9. CASE kexit(p)
  BY <1>9 DEF kexit, wakeup, Children, Goto, Locked, TypeOK, InitLives, Exiting, Forking,
     InFork
<1>10. CASE WaitReap(p, q)
  BY <1>10 DEF WaitReap, FirstZombie, Children, Waiting, User, Goto, Locked, TypeOK,
     InitLives, Exiting, Forking, InFork
<1>11. CASE WaitFail(p)
  BY <1>11 DEF WaitFail, Waiting, User, Goto, TypeOK, InitLives, Exiting, Forking, InFork
<1>12. CASE WaitBlock(p)
  BY <1>12 DEF WaitBlock, Waiting, User, Children, Goto, TypeOK, InitLives, Exiting,
     Forking, InFork
<1>13. CASE PauseEnd(p)
  BY <1>13 DEF PauseEnd, Program, User, Goto, TypeOK, InitLives, Exiting, Forking, InFork
<1>14. CASE PauseBlock(p)
  BY <1>14 DEF PauseBlock, Program, User, Goto, TypeOK, InitLives, Exiting, Forking,
     InFork
<1>15. CASE Fault(p)
  BY <1>15, Zenon DEF Fault, Program, User, TypeOK, InitLives, Exiting, Forking, InFork
<1>16. CASE ForkAlloc(p, q)
  BY <1>16 DEF ForkAlloc, User, Goto, Locked, TypeOK, InitLives, Exiting, Forking, InFork
<1>17. CASE kkill(p, q)
  BY <1>17 DEF kkill, Program, User, Locked, TypeOK, InitLives, Exiting, Forking, InFork
<1>18. CASE Tick
  BY <1>18 DEF Tick, wakeup, Locked, TypeOK, InitLives, Exiting, Forking, InFork
<1> QED
  BY <1>0, <1>1, <1>2, <1>3, <1>4, <1>5, <1>6, <1>7, <1>8, <1>9, <1>10, <1>11, <1>12,
     <1>13, <1>14, <1>15, <1>16, <1>17, <1>18 DEF Step

\* Children have living parents.
LEMMA ParentsStep ==
  ASSUME TypeOK, Placed, Holder, Forking, InitLives, ParentAlive, ParentStays, [Next]_vars
  PROVE  ParentAlive' /\ ParentStays'
<1> USE NPROCAssumption DEF Procs, NULL, ticks, initproc
<1>u. UNCHANGED vars => ParentAlive' /\ ParentStays'
  BY DEF vars, ParentAlive, ParentStays, InFork, Exiting
<1>0. SUFFICES ASSUME NEW p \in Procs, NEW q \in Procs, Step(p, q)
      PROVE  ParentAlive' /\ ParentStays'
  BY <1>u, NextIsStep, Zenon
<1>1. CASE Swtch(p)
  BY <1>1 DEF Swtch, Goto, TypeOK, Placed, Holder, Forking, InitLives, ParentAlive,
     ParentStays, InFork, Exiting
<1>2. CASE Run(p)
  BY <1>2 DEF Run, Goto, TypeOK, Placed, Holder, Forking, InitLives, ParentAlive,
     ParentStays, InFork, Exiting
<1>3. CASE ForkParent(p)
  BY <1>3 DEF ForkParent, Goto, TypeOK, Placed, Holder, Forking, InitLives, ParentAlive,
     ParentStays, InFork, Exiting
<1>4. CASE ForkRun(p)
  BY <1>4 DEF ForkRun, Goto, Locked, TypeOK, Placed, Holder, Forking, InitLives,
     ParentAlive, ParentStays, InFork, Exiting
<1>5. CASE ExitWake(p)
  BY <1>5 DEF ExitWake, wakeup, Goto, Locked, TypeOK, Placed, Holder, Forking, InitLives,
     ParentAlive, ParentStays, InFork, Exiting
<1>6. CASE ExitZombie(p)
  BY <1>6 DEF ExitZombie, Goto, TypeOK, Placed, Holder, Forking, InitLives, ParentAlive,
     ParentStays, InFork, Exiting
<1>7. CASE WaitSleep(p)
  BY <1>7 DEF WaitSleep, sleep, Goto, TypeOK, Placed, Holder, Forking, InitLives,
     ParentAlive, ParentStays, InFork, Exiting
<1>8. CASE PauseSleep(p)
  BY <1>8 DEF PauseSleep, sleep, Goto, TypeOK, Placed, Holder, Forking, InitLives,
     ParentAlive, ParentStays, InFork, Exiting
<1>9. CASE kexit(p)
  <2>1. wait_lock = NULL /\ chan' = chan /\ child' = child /\ state[p] = "RUNNING" /\ pc[p] = "user"
    BY <1>9, Zenon DEF kexit, TypeOK, Placed
  <2>2. \A r \in Procs : pc'[r] = IF r = p THEN "exit_wake" ELSE pc[r]
    BY <1>9, Zenon DEF kexit, Goto, TypeOK
  <2>3. \A r \in Procs : parent'[r] = IF parent[r] = p THEN initproc ELSE parent[r]
    BY <1>9, Zenon DEF kexit, Children, TypeOK
  <2>4. \A r \in Procs : \/ state'[r] = state[r]
                         \/ state[r] = "SLEEPING" /\ state'[r] = "RUNNABLE"
    BY <1>9, Zenon DEF kexit, wakeup, TypeOK
  <2>5. ParentAlive'
    BY <1>9, <2>1, <2>3, <2>4 DEF kexit, TypeOK, ParentAlive, InitLives
  <2>6. ParentStays'
    BY <1>9, <2>1, <2>2, <2>3 DEF kexit, TypeOK, ParentStays, InitLives, Exiting
  <2> QED
    BY <2>5, <2>6, Zenon
<1>10. CASE WaitReap(p, q)
  BY <1>10 DEF WaitReap, FirstZombie, Children, Waiting, User, Goto, Locked, TypeOK,
     Placed, Holder, Forking, InitLives, ParentAlive, ParentStays, InFork, Exiting
<1>11. CASE WaitFail(p)
  BY <1>11 DEF WaitFail, Waiting, User, Goto, TypeOK, Placed, Holder, Forking, InitLives,
     ParentAlive, ParentStays, InFork, Exiting
<1>12. CASE WaitBlock(p)
  BY <1>12 DEF WaitBlock, Waiting, User, Children, Goto, TypeOK, Placed, Holder, Forking,
     InitLives, ParentAlive, ParentStays, InFork, Exiting
<1>13. CASE PauseEnd(p)
  BY <1>13 DEF PauseEnd, Program, User, Goto, TypeOK, Placed, Holder, Forking, InitLives,
     ParentAlive, ParentStays, InFork, Exiting
<1>14. CASE PauseBlock(p)
  BY <1>14 DEF PauseBlock, Program, User, Goto, TypeOK, Placed, Holder, Forking,
     InitLives, ParentAlive, ParentStays, InFork, Exiting
<1>15. CASE Fault(p)
  BY <1>15 DEF Fault, Program, User, TypeOK, Placed, Holder, Forking, InitLives,
     ParentAlive, ParentStays, InFork, Exiting
<1>16. CASE ForkAlloc(p, q)
  BY <1>16 DEF ForkAlloc, User, Goto, Locked, TypeOK, Placed, Holder, Forking, InitLives,
     ParentAlive, ParentStays, InFork, Exiting
<1>17. CASE kkill(p, q)
  BY <1>17 DEF kkill, Program, User, Locked, TypeOK, Placed, Holder, Forking, InitLives,
     ParentAlive, ParentStays, InFork, Exiting
<1>18. CASE Tick
  BY <1>18 DEF Tick, wakeup, Locked, TypeOK, Placed, Holder, Forking, InitLives,
     ParentAlive, ParentStays, InFork, Exiting
<1> QED
  BY <1>0, <1>1, <1>2, <1>3, <1>4, <1>5, <1>6, <1>7, <1>8, <1>9, <1>10, <1>11, <1>12,
     <1>13, <1>14, <1>15, <1>16, <1>17, <1>18 DEF Step

\* Zombies
LEMMA ZombiesStep ==
  ASSUME TypeOK, Holder, Placed, Forking, ZombiesSeen, [Next]_vars
  PROVE  ZombiesSeen'
<1> USE NPROCAssumption DEF Procs, NULL, ticks, initproc
<1>u. UNCHANGED vars => ZombiesSeen'
  BY DEF vars, ZombiesSeen, SleepsInWait
<1>0. SUFFICES ASSUME NEW p \in Procs, NEW q \in Procs, Step(p, q)
      PROVE  ZombiesSeen'
  BY <1>u, NextIsStep, Zenon
<1>1. CASE Swtch(p)
  BY <1>1 DEF Swtch, Goto, TypeOK, Holder, Placed, Forking, InFork, ZombiesSeen,
     SleepsInWait
<1>2. CASE Run(p)
  BY <1>2 DEF Run, Goto, TypeOK, Holder, Placed, Forking, InFork, ZombiesSeen,
     SleepsInWait
<1>3. CASE ForkParent(p)
  BY <1>3 DEF ForkParent, Goto, TypeOK, Holder, Placed, Forking, InFork, ZombiesSeen,
     SleepsInWait
<1>4. CASE ForkRun(p)
  BY <1>4 DEF ForkRun, Goto, Locked, TypeOK, Holder, Placed, Forking, InFork, ZombiesSeen,
     SleepsInWait
<1>5. CASE ExitWake(p)
  BY <1>5 DEF ExitWake, wakeup, Goto, Locked, TypeOK, Holder, Placed, Forking, InFork,
     ZombiesSeen, SleepsInWait
<1>6. CASE ExitZombie(p)
  BY <1>6 DEF ExitZombie, Goto, TypeOK, Holder, Placed, Forking, InFork, ZombiesSeen,
     SleepsInWait
<1>7. CASE WaitSleep(p)
  BY <1>7 DEF WaitSleep, sleep, Goto, TypeOK, Holder, Placed, Forking, InFork,
     ZombiesSeen, SleepsInWait
<1>8. CASE PauseSleep(p)
  BY <1>8 DEF PauseSleep, sleep, Goto, TypeOK, Holder, Placed, Forking, InFork,
     ZombiesSeen, SleepsInWait
<1>9. CASE kexit(p)
  <2>1. wait_lock = NULL /\ chan' = chan /\ child' = child /\ state[p] = "RUNNING" /\ pc[p] = "user"
    BY <1>9, Zenon DEF kexit, TypeOK, Placed
  <2>2. \A r \in Procs : pc'[r] = IF r = p THEN "exit_wake" ELSE pc[r]
    BY <1>9, Zenon DEF kexit, Goto, TypeOK
  <2>3. \A r \in Procs : parent'[r] = IF parent[r] = p THEN initproc ELSE parent[r]
    BY <1>9, Zenon DEF kexit, Children, TypeOK
  <2>4. \A r \in Procs : \/ state'[r] = state[r]
                         \/ state[r] = "SLEEPING" /\ state'[r] = "RUNNABLE"
    BY <1>9, Zenon DEF kexit, wakeup, TypeOK
  <2>5. ASSUME NEW r \in Procs, parent[r] = p
        PROVE  ~ SleepsInWait(initproc)'
    <3>1. Children(p) # {}
      BY <2>5, Zenon DEF Children
    <3> QED
      BY <1>9, <3>1, <2>1 DEF kexit, wakeup, SleepsInWait, TypeOK
  <2>6. \A r \in Procs : pc[r] \notin {"wait_sleep", "exit_zombie"}
    BY <2>1 DEF Holder
  <2>7. ASSUME NEW r \in Procs, NEW s \in Procs, parent'[s] = r
        PROVE  /\ pc'[r] # "wait_sleep" /\ pc'[s] # "exit_zombie"
               /\ SleepsInWait(r)' => state'[s] # "ZOMBIE"
    <3>1. pc'[r] # "wait_sleep" /\ pc'[s] # "exit_zombie"
      BY <2>2, <2>6, Zenon
    <3>2. CASE parent[s] = p
      BY <2>3, <2>5, <2>7, <3>1, <3>2, Zenon
    <3>3. CASE parent[s] # p
      BY <2>1, <2>3, <2>4, <2>7, <3>1, <3>3 DEF ZombiesSeen, SleepsInWait
    <3> QED
      BY <3>2, <3>3, Zenon
  <2> QED
    BY <2>7, Zenon DEF ZombiesSeen
<1>10. CASE WaitReap(p, q)
  BY <1>10 DEF WaitReap, FirstZombie, Children, Waiting, User, Goto, Locked, TypeOK,
     ZombiesSeen, SleepsInWait
<1>11. CASE WaitFail(p)
  BY <1>11 DEF WaitFail, Waiting, User, Goto, TypeOK, ZombiesSeen, SleepsInWait
<1>12. CASE WaitBlock(p)
  BY <1>12 DEF WaitBlock, Waiting, User, Children, Goto, TypeOK, ZombiesSeen, SleepsInWait
<1>13. CASE PauseEnd(p)
  BY <1>13 DEF PauseEnd, Program, User, Goto, TypeOK, Holder, Placed, Forking, InFork,
     ZombiesSeen, SleepsInWait
<1>14. CASE PauseBlock(p)
  BY <1>14 DEF PauseBlock, Program, User, Goto, TypeOK, ZombiesSeen, SleepsInWait
<1>15. CASE Fault(p)
  BY <1>15 DEF Fault, Program, User, TypeOK, Holder, Placed, Forking, InFork, ZombiesSeen,
     SleepsInWait
<1>16. CASE ForkAlloc(p, q)
  BY <1>16 DEF ForkAlloc, User, Goto, Locked, TypeOK, ZombiesSeen, SleepsInWait
<1>17. CASE kkill(p, q)
  BY <1>17 DEF kkill, Program, User, Locked, TypeOK, Holder, Placed, Forking, InFork,
     ZombiesSeen, SleepsInWait
<1>18. CASE Tick
  BY <1>18 DEF Tick, wakeup, Locked, TypeOK, Holder, Placed, Forking, InFork, ZombiesSeen,
     SleepsInWait
<1> QED
  BY <1>0, <1>1, <1>2, <1>3, <1>4, <1>5, <1>6, <1>7, <1>8, <1>9, <1>10, <1>11, <1>12,
     <1>13, <1>14, <1>15, <1>16, <1>17, <1>18 DEF Step

\* The invariant holds after userinit().
LEMMA InitInv == Init => IInv
<1> SUFFICES ASSUME Init PROVE IInv
  OBVIOUS
<1> USE NPROCAssumption DEF Procs, NULL, ticks, initproc, Init
<1>1. TypeOK
  BY Zenon DEF TypeOK, PC
<1>2. Placed /\ Holder /\ Forking /\ InitLives
  BY DEF Placed, Holder, Forking, InFork, InitLives, Exiting
<1>3. ParentAlive /\ ParentStays /\ ZombiesSeen
  BY Zenon DEF ParentAlive, ParentStays, Exiting, ZombiesSeen, SleepsInWait
<1> QED
  BY <1>1, <1>2, <1>3, Zenon DEF IInv

\* Every step keeps it.
LEMMA NextInv == IInv /\ [Next]_vars => IInv'
<1> SUFFICES ASSUME IInv, [Next]_vars PROVE IInv'
  OBVIOUS
<1> QED
  BY TypeStep, PlacedStep, HolderStep, ForkingStep, InitStep, ParentsStep, ZombiesStep, Zenon DEF
     IInv

\* It holds in every state that the kernel can reach.
LEMMA Invariance == Spec => []IInv
<1> QED
  BY InitInv, NextInv, PTL DEF Spec

\* The variables of the process table keep their types.
THEOREM TypeCorrect == Spec => []TypeOK
<1>1. IInv => TypeOK
  BY Zenon DEF IInv
<1> QED
  BY <1>1, Invariance, PTL

\* No exit is missed: kwait() never sleeps on a zombie child, whichever of kfork(),
\* kexit(), reparent() and kkill() of other processes come between its steps.
THEOREM ExitsSeen == Spec => []NoLostExit
<1>1. IInv => NoLostExit
  BY Zenon DEF IInv, ZombiesSeen, SleepsInWait, NoLostExit, Children
<1> QED
  BY <1>1, Invariance, PTL

\* Every started process but init has a parent that has not exited.
THEOREM ParentsLive == Spec => []ParentAlive
<1>1. IInv => ParentAlive
  BY Zenon DEF IInv
<1> QED
  BY <1>1, Invariance, PTL

\* kwait() frees no process that is still on its kernel stack.
THEOREM FreedOff == Spec => []FreedIsOffCpu
<1>1. IInv => FreedIsOffCpu
  BY Zenon DEF IInv, Placed, FreedIsOffCpu
<1> QED
  BY <1>1, Invariance, PTL

=============================================================================
