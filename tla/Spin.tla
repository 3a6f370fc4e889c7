-------------------------------- MODULE Spin --------------------------------
(***************************************************************************)
(* Spin locks and interrupts (kernel/spinlock.c) across the switch between *)
(* threads (sched() and scheduler() of kernel/proc.c): acquire() turns     *)
(* interrupts off and counts, release() turns them on again only at the    *)
(* end of the outermost section and only if they were on before it.  That  *)
(* memory, intena, belongs to the CPU, but must be the thread's.           *)
(*                                                                         *)
(* A process runs with interrupts on; it uses a device lock (and inside    *)
(* it, as wakeup() does, the lock of another process), it sleeps with that *)
(* lock, or a timer interrupt makes it yield.  The device's handler, which *)
(* interrupts processes and the scheduler, takes the device lock.          *)
(***************************************************************************)
EXTENDS Integers

CONSTANTS Cpus, Threads, Dev, None

ASSUME SpinAssumption ==
  /\ Threads # {} /\ Cpus \cap Threads = {}
  /\ Dev \notin Threads /\ None \notin Cpus

Locks == Threads \cup {Dev}    \* each process' p->lock, and a device's

VARIABLES
  sie,      \* of each CPU: interrupts are on
  noff,     \* of each CPU: depth of push_off()
  intena,   \* of each CPU: interrupts were on before the first push_off()
  owner,    \* of each lock: the CPU that has it, or None
  cur,      \* of each CPU: the thread that runs, or the CPU itself for its scheduler
  tpc,      \* of each thread and scheduler: where it is
  want,     \* the process that a scheduler is after, or whose lock a process takes
  saved,    \* the local intena of sched(), of each process
  trapped,  \* a process gave up the CPU in a trap: interrupts were off
  hpc       \* of each CPU: the device's interrupt handler: "no", "spin" or "crit"

spinVars == <<sie, noff, intena, owner, cur, tpc, want, saved, trapped, hpc>>

\* push_off() on CPU c, and pop_off() with the end of release(lk).
push_off(c) ==
  /\ sie' = [sie EXCEPT ![c] = FALSE]
  /\ intena' = [intena EXCEPT ![c] = IF noff[c] = 0 THEN sie[c] ELSE @]
  /\ noff' = [noff EXCEPT ![c] = @ + 1]

pop_off(c) ==
  /\ noff' = [noff EXCEPT ![c] = @ - 1]
  /\ sie' = [sie EXCEPT ![c] = noff[c] = 1 /\ intena[c]]
  /\ UNCHANGED intena

release(c, lk) == owner[lk] = c /\ owner' = [owner EXCEPT ![lk] = None] /\ pop_off(c)

\* The thread t runs on CPU c and is at pc; it goes to another.
Here(c, t, pc) == cur[c] = t /\ tpc[t] = pc /\ hpc[c] = "no"
Goes(t, pc) == tpc' = [tpc EXCEPT ![t] = pc]

-----------------------------------------------------------------------------
(* A process. *)

\* acquire() begins: for a device (as sleep() does again at its end), inside sleep(), which
\* is called with the device lock, or to yield in a trap.
DevAcquire(c, p) ==
  /\ Here(c, p, "run") /\ push_off(c) /\ Goes(p, "devspin")
  /\ UNCHANGED <<owner, cur, want, saved, trapped, hpc>>

SleepAcquire(c, p) ==
  /\ Here(c, p, "devcrit") /\ push_off(c) /\ Goes(p, "sleepspin")
  /\ trapped' = [trapped EXCEPT ![p] = FALSE]
  /\ UNCHANGED <<owner, cur, want, saved, hpc>>

\* The trap turns interrupts off before acquire() does.
TrapAcquire(c, p) ==
  /\ Here(c, p, "run") /\ sie[c] /\ Goes(p, "spin")
  /\ trapped' = [trapped EXCEPT ![p] = TRUE]
  /\ sie' = [sie EXCEPT ![c] = FALSE]
  /\ intena' = [intena EXCEPT ![c] = IF noff[c] = 0 THEN FALSE ELSE @]
  /\ noff' = [noff EXCEPT ![c] = @ + 1]
  /\ UNCHANGED <<owner, cur, want, saved, hpc>>

\* wakeup() with the device lock: acquire() of another process' lock.
InnerAcquire(c, p, q) ==
  /\ Here(c, p, "devcrit") /\ q # p /\ push_off(c) /\ Goes(p, "innerspin")
  /\ want' = [want EXCEPT ![p] = q]
  /\ UNCHANGED <<owner, cur, saved, trapped, hpc>>

\* The atomic swap at the end of acquire().
TakeLock(c, lk) == owner[lk] = None /\ owner' = [owner EXCEPT ![lk] = c]

ThreadTakes(c, p) ==
  /\ \/ Here(c, p, "devspin") /\ TakeLock(c, Dev) /\ Goes(p, "devcrit")
     \/ Here(c, p, "spin") /\ TakeLock(c, p) /\ Goes(p, "held")
     \/ Here(c, p, "sleepspin") /\ TakeLock(c, p) /\ Goes(p, "sleepheld")
     \/ Here(c, p, "innerspin") /\ TakeLock(c, want[p]) /\ Goes(p, "innercrit")
  /\ UNCHANGED <<sie, noff, intena, cur, want, saved, trapped, hpc>>

\* release(): of the device lock, by sleep() too, of the other process' lock, and of
\* p->lock after sched() or at the start of forkret().
ThreadReleases(c, p) ==
  /\ \/ Here(c, p, "devcrit") /\ release(c, Dev) /\ Goes(p, "run") /\ UNCHANGED want
     \/ Here(c, p, "sleepheld") /\ release(c, Dev) /\ Goes(p, "held") /\ UNCHANGED want
     \/ /\ Here(c, p, "innercrit") /\ release(c, want[p]) /\ Goes(p, "devcrit")
        /\ want' = [want EXCEPT ![p] = None]
     \/ /\ Here(c, p, "restored") /\ release(c, p)
        /\ Goes(p, IF trapped[p] THEN "sret" ELSE "run") /\ UNCHANGED want
  /\ UNCHANGED <<cur, saved, trapped, hpc>>

\* sched(): it must hold only p->lock and interrupts must be off, or it panics.
sched(c, p) ==
  /\ Here(c, p, "held") /\ owner[p] = c /\ noff[c] = 1 /\ ~ sie[c]
  /\ saved' = [saved EXCEPT ![p] = intena[c]]
  /\ cur' = [cur EXCEPT ![c] = c]
  /\ tpc' = [tpc EXCEPT ![p] = "out", ![c] = "back"]
  /\ UNCHANGED <<sie, noff, intena, owner, want, trapped, hpc>>

\* Variant: the CPU's intena is left as the scheduler has it.
SchedReturnsPlain(c, p) ==
  /\ Here(c, p, "in") /\ Goes(p, "restored")
  /\ UNCHANGED <<sie, noff, intena, owner, cur, want, saved, trapped, hpc>>

\* The end of sched(), on whatever CPU the process was resumed.
SchedReturns(c, p) ==
  /\ Here(c, p, "in") /\ Goes(p, "restored")
  /\ intena' = [intena EXCEPT ![c] = saved[p]]
  /\ UNCHANGED <<sie, noff, owner, cur, want, saved, trapped, hpc>>

\* The end of the trap, or of forkret(): sret turns interrupts on again.
TrapReturns(c, p) ==
  /\ Here(c, p, "sret") /\ Goes(p, "run")
  /\ sie' = [sie EXCEPT ![c] = TRUE]
  /\ UNCHANGED <<noff, intena, owner, cur, want, saved, trapped, hpc>>

-----------------------------------------------------------------------------
(* scheduler() of CPU c. *)

\* intr_off() after intr_on().
SchedulerOff(c) ==
  /\ Here(c, c, "on") /\ Goes(c, "pick")
  /\ sie' = [sie EXCEPT ![c] = FALSE]
  /\ UNCHANGED <<noff, intena, owner, cur, want, saved, trapped, hpc>>

SchedulerAcquire(c, p) ==
  /\ Here(c, c, "pick") /\ push_off(c) /\ Goes(c, "spin")
  /\ want' = [want EXCEPT ![c] = p]
  /\ UNCHANGED <<owner, cur, saved, trapped, hpc>>

SchedulerTakes(c) ==
  /\ Here(c, c, "spin") /\ TakeLock(c, want[c]) /\ Goes(c, "held")
  /\ UNCHANGED <<sie, noff, intena, cur, want, saved, trapped, hpc>>

\* swtch() to the process if it waits to be run: into sched(), or into forkret(), which
\* leaves the CPU's intena as the scheduler has it.
SchedulerSwitch(c) ==
  /\ Here(c, c, "held") /\ tpc[want[c]] \in {"out", "new"}
  /\ cur' = [cur EXCEPT ![c] = want[c]]
  /\ tpc' = [tpc EXCEPT ![c] = "away", ![want[c]] = IF @ = "new" THEN "restored" ELSE "in"]
  /\ UNCHANGED <<sie, noff, intena, owner, want, saved, trapped, hpc>>

\* release(&p->lock), after the process came back or was not to be run, and intr_on() of
\* the next round.
SchedulerReleases(c) ==
  /\ \/ Here(c, c, "back")
     \/ Here(c, c, "held") /\ tpc[want[c]] \notin {"out", "new"}
  /\ owner[want[c]] = c
  /\ owner' = [owner EXCEPT ![want[c]] = None]
  /\ noff' = [noff EXCEPT ![c] = @ - 1]
  /\ sie' = [sie EXCEPT ![c] = TRUE]
  /\ want' = [want EXCEPT ![c] = None]
  /\ Goes(c, "on")
  /\ UNCHANGED <<intena, cur, saved, trapped, hpc>>

-----------------------------------------------------------------------------
(* A device interrupt on CPU c, whatever thread runs. *)

Interrupt(c) ==
  /\ sie[c] /\ hpc[c] = "no"
  /\ hpc' = [hpc EXCEPT ![c] = "spin"]
  /\ sie' = [sie EXCEPT ![c] = FALSE]
  /\ intena' = [intena EXCEPT ![c] = IF noff[c] = 0 THEN FALSE ELSE @]
  /\ noff' = [noff EXCEPT ![c] = @ + 1]
  /\ UNCHANGED <<owner, cur, tpc, want, saved, trapped>>

HandlerTakes(c) ==
  /\ hpc[c] = "spin" /\ TakeLock(c, Dev)
  /\ hpc' = [hpc EXCEPT ![c] = "crit"]
  /\ UNCHANGED <<sie, noff, intena, cur, tpc, want, saved, trapped>>

\* release() and sret.
HandlerReturns(c) ==
  /\ hpc[c] = "crit" /\ owner[Dev] = c
  /\ hpc' = [hpc EXCEPT ![c] = "no"]
  /\ owner' = [owner EXCEPT ![Dev] = None]
  /\ noff' = [noff EXCEPT ![c] = @ - 1]
  /\ sie' = [sie EXCEPT ![c] = TRUE]
  /\ UNCHANGED <<intena, cur, tpc, want, saved, trapped>>

-----------------------------------------------------------------------------
\* The schedulers have started; each process has slept or yielded before, or is new, which
\* ends in sret as a trap does.
SpinInit ==
  /\ sie = [c \in Cpus |-> TRUE] /\ noff = [c \in Cpus |-> 0]
  /\ intena = [c \in Cpus |-> FALSE]
  /\ owner = [lk \in Locks |-> None]
  /\ cur = [c \in Cpus |-> c]
  /\ trapped \in [Threads -> BOOLEAN]
  /\ \E fresh \in SUBSET {p \in Threads : trapped[p]} :
       tpc = [t \in Cpus \cup Threads |-> IF t \in Cpus THEN "on" ELSE IF t \in fresh THEN "new" ELSE "out"]
  /\ want = [t \in Cpus \cup Threads |-> None]
  /\ saved = [p \in Threads |-> ~ trapped[p]]
  /\ hpc = [c \in Cpus |-> "no"]

ThreadStep(c, p) ==
  \/ DevAcquire(c, p) \/ SleepAcquire(c, p) \/ TrapAcquire(c, p)
  \/ (\E q \in Threads : InnerAcquire(c, p, q))
  \/ ThreadTakes(c, p) \/ ThreadReleases(c, p)
  \/ sched(c, p) \/ SchedReturns(c, p) \/ TrapReturns(c, p)
SchedulerStep(c) ==
  \/ SchedulerOff(c) \/ (\E p \in Threads : SchedulerAcquire(c, p))
  \/ SchedulerTakes(c) \/ SchedulerSwitch(c) \/ SchedulerReleases(c)
HandlerStep(c) == Interrupt(c) \/ HandlerTakes(c) \/ HandlerReturns(c)
SpinNext ==
  \E c \in Cpus : (\E p \in Threads : ThreadStep(c, p)) \/ SchedulerStep(c) \/ HandlerStep(c)
SpinSpec == SpinInit /\ [][SpinNext]_spinVars

-----------------------------------------------------------------------------
\* Interrupts are on whenever a process runs outside a section and outside a trap, on
\* whatever CPU it was resumed, and off in a trap and while the CPU has or wants a lock;
\* so no handler waits for a lock of the thread that it interrupted, no CPU waits for
\* itself, and sched() finds what it requires.
InterruptsRestored ==
  \A c \in Cpus :
    /\ noff[c] > 0 => ~ sie[c]
    /\ \A lk \in Locks : owner[lk] = c => noff[c] > 0
    /\ hpc[c] = "spin" => owner[Dev] # c
    /\ \A p \in Threads : cur[c] = p /\ hpc[c] = "no" =>
         /\ tpc[p] = "run" => sie[c] /\ noff[c] = 0
         /\ tpc[p] = "sret" => ~ sie[c] /\ noff[c] = 0
         /\ tpc[p] \in {"spin", "sleepspin"} => owner[p] # c
         /\ tpc[p] = "devspin" => owner[Dev] # c
         /\ tpc[p] = "held" => owner[p] = c /\ noff[c] = 1
=============================================================================
