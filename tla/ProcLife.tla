------------------------------ MODULE ProcLife ------------------------------
(***************************************************************************)
(* The life of a process in kernel/proc.c: kfork(), kexit(), reparent(),   *)
(* kwait(), kkill(), sleep() and wakeup(), under the two locks that order  *)
(* them, wait_lock and p->lock, and sys_pause() with tickslock.            *)
(*                                                                         *)
(* A process that the timer preempts stays where it is, so that RUNNING    *)
(* stands for RUNNABLE as well outside sleep().  Open files, memory and    *)
(* the exit status are left out.                                           *)
(*                                                                         *)
(* The scheduler appears as its promise that a RUNNABLE process runs.  A   *)
(* step takes and releases its p->locks inside itself; only the process    *)
(* that is switching away keeps its own p->lock between steps (Locked).    *)
(* A lock that a process still holds at its next step is a variable.       *)
(***************************************************************************)
EXTENDS Naturals

CONSTANT NPROC     \* size of the process table

ASSUME NPROCAssumption == NPROC \in Nat \ {0}

NULL == 0
Procs == 1 .. NPROC
initproc == 1

VARIABLES
  state, chan, killed, parent,   \* of struct proc
  wait_lock, tickslock,          \* the process that holds the lock, or NULL
  pc,                            \* where each process stands
  child,                         \* np of kfork()
  named                          \* history: a kill or a fault was meant for this process

vars == <<state, chan, killed, parent, wait_lock, tickslock, pc, child, named>>

ticks == NPROC + 1     \* the address of ticks, as a sleep channel

PC == {"off", "user", "wait", "wait_sleep", "pause", "pause_sleep", "fork_parent", "fork_run",
       "exit_wake", "exit_zombie", "swtch"}

TypeOK ==
  /\ state \in [Procs -> {"UNUSED", "USED", "SLEEPING", "RUNNABLE", "RUNNING", "ZOMBIE"}]
  /\ chan \in [Procs -> Procs \cup {NULL, ticks}]
  /\ killed \in [Procs -> BOOLEAN]
  /\ parent \in [Procs -> Procs \cup {NULL}]
  /\ wait_lock \in Procs \cup {NULL} /\ tickslock \in Procs \cup {NULL}
  /\ pc \in [Procs -> PC]
  /\ child \in [Procs -> Procs \cup {NULL}]
  /\ named \in SUBSET Procs

-----------------------------------------------------------------------------
Goto(p, label) == pc' = [pc EXCEPT ![p] = label]
Children(p) == {q \in Procs : parent[q] = p}

\* p has changed its state and not yet left its kernel stack: it holds p->lock.
Locked(p) == pc[p] = "swtch"

\* p is about to return to user space, or at the start of a system call: usertrap()
\* lets it go on only if it has not been killed.
User(p) == pc[p] = "user" /\ ~killed[p]

\* A program other than init, which only forks and waits (user/init.c).
Program(p) == User(p) /\ p # initproc

\* wakeup(ch): waits for the locks of the sleepers.
wakeup(ch) ==
  LET sleepers == {p \in Procs : state[p] = "SLEEPING" /\ chan[p] = ch}
  IN /\ \A p \in sleepers : ~Locked(p)
     /\ state' = [p \in Procs |-> IF p \in sleepers THEN "RUNNABLE" ELSE state[p]]

\* The second half of sleep(ch, lk): p->lock is taken, and lk released by the caller.
sleep(p, ch) ==
  /\ state' = [state EXCEPT ![p] = "SLEEPING"]
  /\ chan' = [chan EXCEPT ![p] = ch]
  /\ Goto(p, "swtch")

\* p is off its stack, and the scheduler releases p->lock.
Swtch(p) ==
  /\ pc[p] = "swtch"
  /\ Goto(p, "off")
  /\ UNCHANGED <<state, chan, killed, parent, wait_lock, tickslock, child, named>>

\* The scheduler switches to p, which starts in user space or goes on after sleep().
Run(p) ==
  /\ pc[p] = "off" /\ state[p] = "RUNNABLE"
  /\ state' = [state EXCEPT ![p] = "RUNNING"]
  /\ chan' = [chan EXCEPT ![p] = NULL]
  /\ Goto(p, IF chan[p] = NULL THEN "user" ELSE IF chan[p] = ticks THEN "pause" ELSE "wait")
  /\ UNCHANGED <<killed, parent, wait_lock, tickslock, child, named>>

-----------------------------------------------------------------------------
(* kfork() *)

\* allocproc() takes an UNUSED slot.  If memory runs out, freeproc() gives it back.
ForkAlloc(p, np) ==
  /\ User(p) /\ state[np] = "UNUSED" /\ ~Locked(np)
  /\ \/ /\ state' = [state EXCEPT ![np] = "USED"]
        /\ child' = [child EXCEPT ![p] = np]
        /\ Goto(p, "fork_parent")
        /\ UNCHANGED <<killed, named>>
     \/ /\ killed' = [killed EXCEPT ![np] = FALSE]
        /\ named' = named \ {np}
        /\ UNCHANGED <<state, child, pc>>
  /\ UNCHANGED <<chan, parent, wait_lock, tickslock>>

ForkParent(p) ==
  /\ pc[p] = "fork_parent" /\ wait_lock = NULL
  /\ parent' = [parent EXCEPT ![child[p]] = p]
  /\ Goto(p, "fork_run")
  /\ UNCHANGED <<state, chan, killed, wait_lock, tickslock, child, named>>

ForkRun(p) ==
  /\ pc[p] = "fork_run" /\ ~Locked(child[p])
  /\ state' = [state EXCEPT ![child[p]] = "RUNNABLE"]
  /\ child' = [child EXCEPT ![p] = NULL]
  /\ Goto(p, "user")
  /\ UNCHANGED <<chan, killed, parent, wait_lock, tickslock, named>>

-----------------------------------------------------------------------------
(* kexit() *)

\* Variant: reparent() leaves the children with the dead process.
kexitOrphans(p) ==
  /\ pc[p] = "user" /\ p # initproc /\ wait_lock = NULL
  /\ wait_lock' = p
  /\ Goto(p, "exit_wake")
  /\ UNCHANGED <<state, chan, killed, parent, tickslock, child, named>>

\* Variant: reparent() does not wake init for children that are zombies already.
kexitSilent(p) ==
  /\ pc[p] = "user" /\ p # initproc /\ wait_lock = NULL
  /\ wait_lock' = p
  /\ parent' = [q \in Procs |-> IF q \in Children(p) THEN initproc ELSE parent[q]]
  /\ Goto(p, "exit_wake")
  /\ UNCHANGED <<state, chan, killed, tickslock, child, named>>

\* kexit() of a process that asks for it or has been killed takes wait_lock, and
\* reparent() gives its children to init, which it wakes for them.
kexit(p) ==
  /\ pc[p] = "user" /\ p # initproc /\ wait_lock = NULL
  /\ wait_lock' = p
  /\ parent' = [q \in Procs |-> IF q \in Children(p) THEN initproc ELSE parent[q]]
  /\ IF Children(p) = {} THEN UNCHANGED state ELSE wakeup(initproc)
  /\ Goto(p, "exit_wake")
  /\ UNCHANGED <<chan, killed, tickslock, child, named>>

\* Variant: it wakes its own channel, where it would itself wait, not its parent's.
ExitWakeSelf(p) ==
  /\ pc[p] = "exit_wake"
  /\ wakeup(p)
  /\ Goto(p, "exit_zombie")
  /\ UNCHANGED <<chan, killed, parent, wait_lock, tickslock, child, named>>

ExitWake(p) ==
  /\ pc[p] = "exit_wake"
  /\ wakeup(parent[p])
  /\ Goto(p, "exit_zombie")
  /\ UNCHANGED <<chan, killed, parent, wait_lock, tickslock, child, named>>

ExitZombie(p) ==
  /\ pc[p] = "exit_zombie"
  /\ state' = [state EXCEPT ![p] = "ZOMBIE"]
  /\ wait_lock' = NULL
  /\ Goto(p, "swtch")
  /\ UNCHANGED <<chan, killed, parent, tickslock, child, named>>

-----------------------------------------------------------------------------
(* kwait(), from its start or after sleep(). *)

Waiting(p) == (User(p) \/ pc[p] = "wait") /\ wait_lock = NULL

\* Variant: the scan does not take the lock of the child.
FirstZombieUnlocked(p, q) ==
  /\ q \in Children(p) /\ state[q] = "ZOMBIE"
  /\ \A r \in Children(p) : r < q => state[r] # "ZOMBIE"

\* The scan finds the first zombie in the table.  It takes the lock of each child on
\* the way, so that a child is off its stack before it is freed.
FirstZombie(p, q) ==
  /\ q \in Children(p) /\ state[q] = "ZOMBIE"
  /\ \A r \in Children(p) : /\ r < q => state[r] # "ZOMBIE"
                            /\ r <= q => ~Locked(r)

\* freeproc().
WaitReap(p, q) ==
  /\ Waiting(p) /\ FirstZombie(p, q)
  /\ state' = [state EXCEPT ![q] = "UNUSED"]
  /\ chan' = [chan EXCEPT ![q] = NULL]
  /\ killed' = [killed EXCEPT ![q] = FALSE]
  /\ parent' = [parent EXCEPT ![q] = NULL]
  /\ named' = named \ {q}
  /\ Goto(p, "user")
  /\ UNCHANGED <<wait_lock, tickslock, child>>

\* copyout() of the exit status fails (init does not ask for it), there is no child,
\* or the caller has been killed: -1.
WaitFail(p) ==
  /\ Waiting(p)
  /\ \/ p # initproc /\ \E q \in Procs : FirstZombie(p, q)
     \/ /\ \A q \in Children(p) : state[q] # "ZOMBIE" /\ ~Locked(q)
        /\ Children(p) = {} \/ killed[p]
  /\ Goto(p, "user")
  /\ UNCHANGED <<state, chan, killed, parent, wait_lock, tickslock, child, named>>

\* Otherwise it sleeps, keeping wait_lock until it has its own p->lock.
WaitBlock(p) ==
  /\ Waiting(p)
  /\ \A q \in Children(p) : state[q] # "ZOMBIE" /\ ~Locked(q)
  /\ Children(p) # {} /\ ~killed[p]
  /\ wait_lock' = p
  /\ Goto(p, "wait_sleep")
  /\ UNCHANGED <<state, chan, killed, parent, tickslock, child, named>>

WaitSleep(p) ==
  /\ pc[p] = "wait_sleep"
  /\ wait_lock' = NULL
  /\ sleep(p, p)
  /\ UNCHANGED <<killed, parent, tickslock, child, named>>

-----------------------------------------------------------------------------
(* sys_pause() and the clock. *)

\* The time is over, or the process has been killed.
PauseEnd(p) ==
  /\ Program(p) \/ pc[p] = "pause"
  /\ tickslock = NULL
  /\ Goto(p, "user")
  /\ UNCHANGED <<state, chan, killed, parent, wait_lock, tickslock, child, named>>

\* Variant: the loop does not look at p->killed.
PauseBlockKilled(p) ==
  /\ Program(p) \/ pc[p] = "pause"
  /\ tickslock = NULL
  /\ tickslock' = p
  /\ Goto(p, "pause_sleep")
  /\ UNCHANGED <<state, chan, killed, parent, wait_lock, child, named>>

PauseBlock(p) ==
  /\ Program(p) \/ pc[p] = "pause"
  /\ tickslock = NULL /\ ~killed[p]
  /\ tickslock' = p
  /\ Goto(p, "pause_sleep")
  /\ UNCHANGED <<state, chan, killed, parent, wait_lock, child, named>>

\* Variant: it sleeps on an address next to ticks.
PauseSleepBeside(p) ==
  /\ pc[p] = "pause_sleep"
  /\ tickslock' = NULL
  /\ sleep(p, ticks + 1)
  /\ UNCHANGED <<killed, parent, wait_lock, child, named>>

PauseSleep(p) ==
  /\ pc[p] = "pause_sleep"
  /\ tickslock' = NULL
  /\ sleep(p, ticks)
  /\ UNCHANGED <<killed, parent, wait_lock, child, named>>

\* clockintr() on CPU 0.
Tick ==
  /\ tickslock = NULL
  /\ wakeup(ticks)
  /\ UNCHANGED <<chan, killed, parent, wait_lock, tickslock, pc, child, named>>

-----------------------------------------------------------------------------
(* kkill() *)

\* The scan ends at a slot v with the pid that the caller names; a free slot has pid 0.
\* Nobody kills init: it would panic.
kkill(p, v) ==
  /\ Program(p) /\ v # initproc /\ ~Locked(v)
  /\ killed' = [killed EXCEPT ![v] = TRUE]
  /\ state' = [state EXCEPT ![v] = IF @ = "SLEEPING" THEN "RUNNABLE" ELSE @]
  /\ named' = IF state[v] = "UNUSED" THEN named ELSE named \cup {v}
  /\ UNCHANGED <<chan, parent, wait_lock, tickslock, pc, child>>

\* usertrap() of an exception: setkilled().
Fault(p) ==
  /\ Program(p)
  /\ killed' = [killed EXCEPT ![p] = TRUE]
  /\ named' = named \cup {p}
  /\ UNCHANGED <<state, chan, parent, wait_lock, tickslock, pc, child>>

-----------------------------------------------------------------------------
\* After userinit().
Init ==
  /\ state = [p \in Procs |-> IF p = initproc THEN "RUNNABLE" ELSE "UNUSED"]
  /\ chan = [p \in Procs |-> NULL]
  /\ killed = [p \in Procs |-> FALSE]
  /\ parent = [p \in Procs |-> NULL]
  /\ wait_lock = NULL /\ tickslock = NULL
  /\ pc = [p \in Procs |-> "off"]
  /\ child = [p \in Procs |-> NULL]
  /\ named = {}

\* kwait() that has begun, and the same from the loop of init.
kwait(p) == (\E q \in Procs : WaitReap(p, q)) \/ WaitFail(p) \/ WaitBlock(p)

KernelStep(p) ==
  \/ Swtch(p) \/ Run(p) \/ ForkParent(p) \/ ForkRun(p)
  \/ ExitWake(p) \/ ExitZombie(p) \/ WaitSleep(p) \/ PauseSleep(p)

Request(p) ==
  \/ kexit(p) \/ kwait(p) \/ PauseEnd(p) \/ PauseBlock(p) \/ Fault(p)
  \/ \E q \in Procs : ForkAlloc(p, q) \/ kkill(p, q)

Next == Tick \/ \E p \in Procs : KernelStep(p) \/ Request(p)

Spec == Init /\ [][Next]_vars

\* What a process does without being asked: it goes on with the kernel code it is in,
\* and exits once it is killed.
GoesOn(p) ==
  \/ KernelStep(p)
  \/ killed[p] /\ kexit(p)
  \/ pc[p] = "wait" /\ kwait(p)
  \/ pc[p] = "pause" /\ (PauseEnd(p) \/ PauseBlock(p))

\* A RUNNABLE process runs and gets the locks that it spins for, init calls wait(), as
\* user/init.c does for ever, and the clock ticks.
Fairness ==
  /\ \A p \in Procs : SF_vars(GoesOn(p))
  /\ SF_vars(kwait(initproc))
  /\ SF_vars(Tick)

FairSpec == Spec /\ Fairness

-----------------------------------------------------------------------------
(* Properties. *)

\* No exit is missed: a process sleeps in kwait() only as long as it has no zombie
\* child.  kexit() makes the zombie under wait_lock, which kwait() holds from its scan
\* to its sleep, and kexit() wakes it although the zombie comes after the wakeup().
NoLostExit ==
  wait_lock = NULL =>
    \A p \in Procs : state[p] = "SLEEPING" /\ chan[p] = p =>
      \A q \in Children(p) : state[q] # "ZOMBIE"

\* Every process that has started has a parent that can still wait for it: kexit()
\* leaves no child behind, whatever kfork() is doing meanwhile.
ParentAlive ==
  \A p \in Procs : /\ state[p] \notin {"UNUSED", "USED"} /\ p # initproc => parent[p] # NULL
                   /\ parent[p] # NULL => state[parent[p]] \notin {"UNUSED", "USED", "ZOMBIE"}

\* A slot is freed, and its stack reused, only after the dead process has left it.
FreedIsOffCpu == \A p \in Procs : state[p] \in {"UNUSED", "USED"} => pc[p] = "off"

\* A killed process ends, unless it sleeps in kwait(): the kill may have come after
\* kwait() has looked at p->killed and before it sleeps.
KilledEnds ==
  \A p \in Procs :
    killed[p] ~> state[p] \in {"UNUSED", "ZOMBIE"} \/ (state[p] = "SLEEPING" /\ chan[p] = p)

\* init frees every zombie it has inherited, unless it goes on forking for ever and
\* its own children die in front of the others.
ZombieReaped ==
  \A p \in Procs :
    []<>(child[initproc] # NULL)
      \/ (state[p] = "ZOMBIE" /\ parent[p] = initproc ~> state[p] = "UNUSED")

\* "Kill the process with the given pid" (kkill()): only a process that a kill named,
\* or that faulted, is killed.  kill(0) marks a free slot, and whoever gets it next
\* is born killed.
OnlyVictimsDie == \A p \in Procs : state[p] # "UNUSED" /\ killed[p] => p \in named
=============================================================================
