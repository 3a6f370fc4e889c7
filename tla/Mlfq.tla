-------------------------------- MODULE Mlfq --------------------------------
(***************************************************************************)
(* The multi-level feedback queue scheduler of kernel/proc.c together with *)
(* the timer interrupt of kernel/trap.c that drives it.                    *)
(*                                                                         *)
(* The run queues are the linked lists the kernel really uses: a head and  *)
(* a tail pointer per level and a queue_next pointer per process.  No lock *)
(* protects them (mlfq_lock is initialised and never acquired), so every   *)
(* load and store that enqueue(), dequeue() and priority_boost() make on   *)
(* them is a step of its own and the steps of different CPUs interleave.   *)
(* What p->lock does protect (state, chan) changes in one step together    *)
(* with the acquire, or with the release, of that lock.                    *)
(*                                                                         *)
(* A CPU executes its scheduler (cproc[c] = NULL) or the process cproc[c]. *)
(* pc[c] is where it stands; "top" and "user" are the places where         *)
(* interrupts are on.  Everything a system call does outside this module   *)
(* happens at "user".                                                      *)
(***************************************************************************)
EXTENDS Naturals, FiniteSets

CONSTANTS
  CPUs,            \* the harts
  cpu0,            \* the hart whose timer counts ticks
  NPROC,           \* size of the process table
  MLFQ_LEVELS,     \* number of run queues
  QUANTUM,         \* QUANTUM[level], in ticks
  BOOST_INTERVAL,  \* ticks between two priority boosts
  Chans,           \* sleep channels; "ticks" and "wait" are two of them
  Calls            \* the kernel entries that the workload uses

NULL == 0
Procs == 1 .. NPROC
Levels == 0 .. MLFQ_LEVELS - 1
initproc == 1
NoCPU == "none"

\* The kernel entries a workload can be made of.
AllCalls == {"sleep", "wakeup", "devintr", "kill", "fork", "exit", "boostall", "boostone"}

ASSUME CPUsAssumption == cpu0 \in CPUs /\ CPUs \cap Procs = {} /\ NoCPU \notin CPUs
ASSUME SizesAssumption ==
  /\ NPROC \in Nat \ {0}
  /\ MLFQ_LEVELS \in Nat \ {0}
  /\ BOOST_INTERVAL \in Nat \ {0}
  /\ QUANTUM \in [Levels -> Nat \ {0}]
ASSUME WorkloadAssumption == {"ticks", "wait"} \subseteq Chans /\ Calls \subseteq AllCalls

VARIABLES
  state, lock, chan,            \* of struct proc; lock[p] is the CPU that holds p->lock
  queue_level, time_in_queue,   \* of struct proc
  queue_next, head, tail,       \* the run queues
  ticks_since_boost,            \* capped at BOOST_INTERVAL: only >= is ever asked of it
  cproc,                        \* c->proc
  timer,                        \* the stimecmp comparator of each CPU
  pc, loc,                      \* control point and local variables of each CPU
  boost,                        \* progress inside priority_boost(), by thread of control
  child,                        \* the slot a process is building inside kfork()
  inclk,                        \* the process was switched out by the yield() of clockintr()
  unqueued                      \* history: made RUNNABLE by code that does not call enqueue()

vars == <<state, lock, chan, queue_level, time_in_queue, queue_next, head, tail,
          ticks_since_boost, cproc, timer, pc, loc, boost, child, inclk, unqueued>>

ProcState == {"UNUSED", "USED", "SLEEPING", "RUNNABLE", "RUNNING", "ZOMBIE"}
PC == {"top", "boost", "deq", "deq_next", "deq_head", "deq_tail", "deq_clear", "pick", "wfi",
       "user", "wakeup", "exit", "tick", "clock", "clock_store", "clock_level", "clock_cmp",
       "demote", "demote_level", "demote_store", "yield", "clock_ret", "sched", "boost_time",
       "enq_link", "enq_tail", "enq_clear"}

\* Local variables: p, x (the pointer just loaded) and level of enqueue() and
\* dequeue(), the loop index i and channel of wakeup(), the counter n and the level
\* that clockintr() has loaded, and where enqueue() and wakeup() return to.  A step
\* that uses x or level for the last time clears it.
Locals == [p : Procs \cup {NULL}, x : Procs \cup {NULL}, level : Levels, i : 0 .. NPROC,
           chan : Chans, n : Nat, ret : PC, wret : PC]
NoLocals == [p |-> NULL, x |-> NULL, level |-> 0, i |-> 0, chan |-> "ticks", n |-> 0,
             ret |-> "top", wret |-> "top"]

LastClear == 2 * MLFQ_LEVELS             \* priority_boost() clears two pointers per level
BoostEnd == LastClear + NPROC + 1        \* and then walks the process table

TypeOK ==
  /\ state \in [Procs -> ProcState]
  /\ lock \in [Procs -> CPUs \cup {NoCPU}]
  /\ chan \in [Procs -> Chans \cup {"none"}]
  /\ queue_level \in [Procs -> Levels]
  /\ time_in_queue \in [Procs -> Nat]
  /\ queue_next \in [Procs -> Procs \cup {NULL}]
  /\ head \in [Levels -> Procs \cup {NULL}]
  /\ tail \in [Levels -> Procs \cup {NULL}]
  /\ ticks_since_boost \in 0 .. BOOST_INTERVAL
  /\ cproc \in [CPUs -> Procs \cup {NULL}]
  /\ timer \in [CPUs -> {"armed", "pending", "spent"}]
  /\ pc \in [CPUs -> PC]
  /\ loc \in [CPUs -> Locals]
  /\ boost \in [CPUs \cup Procs -> 0 .. BoostEnd]
  /\ child \in [Procs -> Procs \cup {NULL}]
  /\ inclk \in [Procs -> BOOLEAN]
  /\ unqueued \in SUBSET Procs

-----------------------------------------------------------------------------
(* Where a CPU is. *)

\* The thread of control a CPU executes: its scheduler or its current process.
Thread(c) == IF cproc[c] = NULL THEN c ELSE cproc[c]

\* The CPU runs a process that is in no system call of this module.
InUser(c) == pc[c] = "user" /\ boost[cproc[c]] = 0 /\ child[cproc[c]] = NULL

Goto(c, label) == pc' = [pc EXCEPT ![c] = label]

\* Variant: acquire() does not wait for the lock.
acquireBusy(p, c) == lock' = [lock EXCEPT ![p] = c]

acquire(p, c) == lock[p] = NoCPU /\ lock' = [lock EXCEPT ![p] = c]
release(p) == lock' = [lock EXCEPT ![p] = NoCPU]

-----------------------------------------------------------------------------
(* enqueue(p), called with p->lock held. *)

\* Variant: enqueue() ignores the level of p.
EnqueueLocalsLast(p, level, ret) ==
  [NoLocals EXCEPT !.p = p, !.level = MLFQ_LEVELS - 1, !.x = tail[MLFQ_LEVELS - 1], !.ret = ret]

\* The loads with which enqueue(p) starts: the level of p and the tail there.
\* Folded into the step of the caller, whose own changes p->lock protects.
EnqueueLocals(p, level, ret) ==
  [NoLocals EXCEPT !.p = p, !.level = level, !.x = tail[level], !.ret = ret]

EnqueueLoad(c, p, level, ret) ==
  /\ loc' = [loc EXCEPT ![c] = EnqueueLocals(p, level, ret)]
  /\ Goto(c, "enq_link")

EnqueueLink(c) ==
  /\ pc[c] = "enq_link"
  /\ IF loc[c].x = NULL
     THEN head' = [head EXCEPT ![loc[c].level] = loc[c].p] /\ UNCHANGED queue_next
     ELSE queue_next' = [queue_next EXCEPT ![loc[c].x] = loc[c].p] /\ UNCHANGED head
  /\ loc' = [loc EXCEPT ![c].x = NULL]
  /\ Goto(c, "enq_tail")
  /\ UNCHANGED <<state, lock, chan, queue_level, time_in_queue, tail, ticks_since_boost,
                 cproc, timer, boost, child, inclk, unqueued>>

\* Variant: enqueue() sets the tail only of an empty queue.
EnqueueTailFirstOnly(c) ==
  /\ pc[c] = "enq_tail"
  /\ tail' = IF tail[loc[c].level] = NULL THEN [tail EXCEPT ![loc[c].level] = loc[c].p] ELSE tail
  /\ Goto(c, "enq_clear")
  /\ UNCHANGED <<state, lock, chan, queue_level, time_in_queue, queue_next, head,
                 ticks_since_boost, cproc, timer, loc, boost, child, inclk, unqueued>>

EnqueueTail(c) ==
  /\ pc[c] = "enq_tail"
  /\ tail' = [tail EXCEPT ![loc[c].level] = loc[c].p]
  /\ loc' = [loc EXCEPT ![c].level = 0]
  /\ Goto(c, "enq_clear")
  /\ UNCHANGED <<state, lock, chan, queue_level, time_in_queue, queue_next, head,
                 ticks_since_boost, cproc, timer, boost, child, inclk, unqueued>>

\* Variant: enqueue() does not clear p->queue_next.
EnqueueClearKeepsNext(c) ==
  /\ pc[c] = "enq_clear"
  /\ UNCHANGED queue_next
  /\ release(loc[c].p)
  /\ Goto(c, loc[c].ret)
  /\ loc' = IF loc[c].ret = "wakeup"
            THEN [loc EXCEPT ![c] = [NoLocals EXCEPT !.i = loc[c].i, !.chan = loc[c].chan,
                                                     !.wret = loc[c].wret]]
            ELSE [loc EXCEPT ![c] = NoLocals]
  /\ boost' = IF loc[c].ret # "wakeup" /\ boost[Thread(c)] > LastClear
              THEN [boost EXCEPT ![Thread(c)] = @ + 1]
              ELSE boost
  /\ UNCHANGED <<state, chan, queue_level, time_in_queue, head, tail, ticks_since_boost,
                 cproc, timer, child, inclk, unqueued>>

\* The last store of enqueue(), the caller's release(&p->lock), and the step
\* of the caller's loop, if it is in one.
EnqueueClear(c) ==
  /\ pc[c] = "enq_clear"
  /\ queue_next' = [queue_next EXCEPT ![loc[c].p] = NULL]
  /\ release(loc[c].p)
  /\ Goto(c, loc[c].ret)
  /\ loc' = IF loc[c].ret = "wakeup"
            THEN [loc EXCEPT ![c] = [NoLocals EXCEPT !.i = loc[c].i, !.chan = loc[c].chan,
                                                     !.wret = loc[c].wret]]
            ELSE [loc EXCEPT ![c] = NoLocals]
  /\ boost' = IF loc[c].ret # "wakeup" /\ boost[Thread(c)] > LastClear
              THEN [boost EXCEPT ![Thread(c)] = @ + 1]
              ELSE boost
  /\ UNCHANGED <<state, chan, queue_level, time_in_queue, head, tail, ticks_since_boost,
                 cproc, timer, child, inclk, unqueued>>

-----------------------------------------------------------------------------
(* priority_boost(), called by scheduler() with interrupts off (pc = "boost") *)
(* or by sys_boostproc(0) with interrupts on (pc = "user").                   *)

Boosting(c) == (pc[c] = "boost" \/ pc[c] = "user") /\ boost[Thread(c)] > 0

\* Variant: priority_boost() clears only the heads.
BoostClearKeepsTail(c) ==
  LET b == boost[Thread(c)]
      level == (b - 1) \div 2
  IN /\ Boosting(c) /\ b <= LastClear
     /\ IF b % 2 = 1
        THEN head' = [head EXCEPT ![level] = NULL] /\ UNCHANGED tail
        ELSE UNCHANGED <<head, tail>>
     /\ boost' = [boost EXCEPT ![Thread(c)] = b + 1]
     /\ UNCHANGED <<state, lock, chan, queue_level, time_in_queue, queue_next,
                    ticks_since_boost, cproc, timer, pc, loc, child, inclk, unqueued>>

\* One of the stores that empty the queues.
BoostClear(c) ==
  LET b == boost[Thread(c)]
      level == (b - 1) \div 2
  IN /\ Boosting(c) /\ b <= LastClear
     /\ IF b % 2 = 1
        THEN head' = [head EXCEPT ![level] = NULL] /\ UNCHANGED tail
        ELSE tail' = [tail EXCEPT ![level] = NULL] /\ UNCHANGED head
     /\ boost' = [boost EXCEPT ![Thread(c)] = b + 1]
     /\ UNCHANGED <<state, lock, chan, queue_level, time_in_queue, queue_next,
                    ticks_since_boost, cproc, timer, pc, loc, child, inclk, unqueued>>

\* One turn of the loop over the process table.  Its stores to p are one step: p->lock
\* keeps p off every CPU meanwhile.
BoostProc(c) ==
  LET b == boost[Thread(c)]
      p == b - LastClear
  IN /\ Boosting(c) /\ b > LastClear /\ b < BoostEnd
     /\ \/ /\ state[p] = "RUNNABLE"
           /\ acquire(p, c)
           /\ queue_level' = [queue_level EXCEPT ![p] = 0]
           /\ time_in_queue' = [time_in_queue EXCEPT ![p] = 0]
           /\ EnqueueLoad(c, p, 0, pc[c])
           /\ unqueued' = unqueued \ {p}
           /\ UNCHANGED boost
        \/ /\ state[p] # "RUNNABLE"
           /\ lock[p] = NoCPU
           /\ boost' = [boost EXCEPT ![Thread(c)] = b + 1]
           /\ UNCHANGED <<lock, queue_level, time_in_queue, loc, pc, unqueued>>
     /\ UNCHANGED <<state, chan, queue_next, head, tail, ticks_since_boost, cproc, timer,
                    child, inclk>>

\* The final reset of ticks_since_boost, which takes no lock: cpu0 may be between
\* the load and the store of its own increment (ClockIntr and ClockTick below).
BoostDone(c) ==
  /\ Boosting(c) /\ boost[Thread(c)] = BoostEnd
  /\ ticks_since_boost' = 0
  /\ boost' = [boost EXCEPT ![Thread(c)] = 0]
  /\ Goto(c, IF pc[c] = "boost" THEN "deq" ELSE "user")
  /\ UNCHANGED <<state, lock, chan, queue_level, time_in_queue, queue_next, head, tail,
                 cproc, timer, loc, child, inclk, unqueued>>

-----------------------------------------------------------------------------
(* scheduler(): one pass over the queues. *)

\* intr_on(); intr_off(): a pending timer interrupt is taken here (ClockIntr), so
\* the scheduler goes on only without one.  Then the check whether a boost is due.
SchedTop(c) ==
  /\ pc[c] = "top" /\ timer[c] # "pending"
  /\ timer' = [timer EXCEPT ![c] = "armed"]
  /\ IF ticks_since_boost >= BOOST_INTERVAL
     THEN Goto(c, "boost") /\ boost' = [boost EXCEPT ![c] = 1]
     ELSE Goto(c, "deq") /\ UNCHANGED boost
  /\ UNCHANGED <<state, lock, chan, queue_level, time_in_queue, queue_next, head, tail,
                 ticks_since_boost, cproc, loc, child, inclk, unqueued>>

\* Variant: scheduler() tries one level too many.
NextLevelPast(c) ==
  IF loc[c].level < MLFQ_LEVELS
  THEN loc' = [loc EXCEPT ![c] = [NoLocals EXCEPT !.level = loc[c].level + 1]] /\ Goto(c, "deq")
  ELSE loc' = [loc EXCEPT ![c] = NoLocals] /\ Goto(c, "wfi")

\* Nothing came out of this level: try the next one, or stop until an interrupt.
NextLevel(c) ==
  IF loc[c].level < MLFQ_LEVELS - 1
  THEN loc' = [loc EXCEPT ![c] = [NoLocals EXCEPT !.level = loc[c].level + 1]] /\ Goto(c, "deq")
  ELSE loc' = [loc EXCEPT ![c] = NoLocals] /\ Goto(c, "wfi")

\* dequeue(level): load head.
Dequeue(c) ==
  /\ pc[c] = "deq"
  /\ LET p == head[loc[c].level]
     IN IF p = NULL THEN NextLevel(c)
                    ELSE loc' = [loc EXCEPT ![c].p = p] /\ Goto(c, "deq_next")
  /\ UNCHANGED <<state, lock, chan, queue_level, time_in_queue, queue_next, head, tail,
                 ticks_since_boost, cproc, timer, boost, child, inclk, unqueued>>

\* dequeue(level): load p->queue_next.
DequeueNext(c) ==
  /\ pc[c] = "deq_next"
  /\ loc' = [loc EXCEPT ![c].x = queue_next[loc[c].p]]
  /\ Goto(c, "deq_head")
  /\ UNCHANGED <<state, lock, chan, queue_level, time_in_queue, queue_next, head, tail,
                 ticks_since_boost, cproc, timer, boost, child, inclk, unqueued>>

\* Variant: dequeue() of the last entry leaves the tail pointing to it.
DequeueHeadKeepsTail(c) ==
  /\ pc[c] = "deq_head"
  /\ head' = [head EXCEPT ![loc[c].level] = loc[c].x]
  /\ Goto(c, "deq_clear")
  /\ UNCHANGED <<state, lock, chan, queue_level, time_in_queue, queue_next, tail,
                 ticks_since_boost, cproc, timer, loc, boost, child, inclk, unqueued>>

\* dequeue(level): store head.
DequeueHead(c) ==
  /\ pc[c] = "deq_head"
  /\ head' = [head EXCEPT ![loc[c].level] = loc[c].x]
  /\ Goto(c, IF loc[c].x = NULL THEN "deq_tail" ELSE "deq_clear")
  /\ loc' = [loc EXCEPT ![c].x = NULL]
  /\ UNCHANGED <<state, lock, chan, queue_level, time_in_queue, queue_next, tail,
                 ticks_since_boost, cproc, timer, boost, child, inclk, unqueued>>

\* dequeue(level): the queue became empty.
DequeueTail(c) ==
  /\ pc[c] = "deq_tail"
  /\ tail' = [tail EXCEPT ![loc[c].level] = NULL]
  /\ Goto(c, "deq_clear")
  /\ UNCHANGED <<state, lock, chan, queue_level, time_in_queue, queue_next, head,
                 ticks_since_boost, cproc, timer, loc, boost, child, inclk, unqueued>>

\* dequeue(level): unlink p.
DequeueClear(c) ==
  /\ pc[c] = "deq_clear"
  /\ queue_next' = [queue_next EXCEPT ![loc[c].p] = NULL]
  /\ Goto(c, "pick")
  /\ UNCHANGED <<state, lock, chan, queue_level, time_in_queue, head, tail,
                 ticks_since_boost, cproc, timer, loc, boost, child, inclk, unqueued>>

\* Variant: scheduler() does not check p->state after acquire(&p->lock).
PickRunning(c) ==
  LET p == loc[c].p
  IN /\ pc[c] = "pick"
     /\ lock[p] = NoCPU
     /\ \/ /\ state[p] \in {"RUNNABLE", "RUNNING"}
           /\ state' = [state EXCEPT ![p] = "RUNNING"]
           /\ chan' = [chan EXCEPT ![p] = "none"]
           /\ cproc' = [cproc EXCEPT ![c] = p]
           /\ loc' = [loc EXCEPT ![c] = NoLocals]
           /\ Goto(c, IF inclk[p] THEN "clock_ret" ELSE "user")
           /\ unqueued' = unqueued \ {p}
        \/ /\ state[p] # "RUNNABLE"
           /\ NextLevel(c)
           /\ UNCHANGED <<state, chan, cproc, unqueued>>
     /\ UNCHANGED <<lock, queue_level, time_in_queue, queue_next, head, tail,
                    ticks_since_boost, timer, boost, child, inclk>>

\* acquire(&p->lock) and switch to p if it is RUNNABLE; p releases its lock when
\* it returns from sched() or enters forkret(), and sleep() then clears p->chan.
\* Otherwise the break leaves the level after this one entry.
Pick(c) ==
  LET p == loc[c].p
  IN /\ pc[c] = "pick"
     /\ lock[p] = NoCPU
     /\ \/ /\ state[p] = "RUNNABLE"
           /\ state' = [state EXCEPT ![p] = "RUNNING"]
           /\ chan' = [chan EXCEPT ![p] = "none"]
           /\ cproc' = [cproc EXCEPT ![c] = p]
           /\ loc' = [loc EXCEPT ![c] = NoLocals]
           /\ Goto(c, IF inclk[p] THEN "clock_ret" ELSE "user")
           /\ unqueued' = unqueued \ {p}
        \/ /\ state[p] # "RUNNABLE"
           /\ NextLevel(c)
           /\ UNCHANGED <<state, chan, cproc, unqueued>>
     /\ UNCHANGED <<lock, queue_level, time_in_queue, queue_next, head, tail,
                    ticks_since_boost, timer, boost, child, inclk>>

\* wfi: wait for the timer (or for a device, see DevIntr).
Wfi(c) ==
  /\ pc[c] = "wfi"
  /\ timer' = [timer EXCEPT ![c] = "pending"]
  /\ Goto(c, "top")
  /\ UNCHANGED <<state, lock, chan, queue_level, time_in_queue, queue_next, head, tail,
                 ticks_since_boost, cproc, loc, boost, child, inclk, unqueued>>

\* sched(): the process, which holds p->lock and has changed its state, switches
\* to the scheduler, which enqueues it again if it is RUNNABLE.
Swtch(c) ==
  LET p == cproc[c]
  IN /\ pc[c] = "sched"
     /\ cproc' = [cproc EXCEPT ![c] = NULL]
     /\ \/ /\ state[p] = "RUNNABLE"
           /\ EnqueueLoad(c, p, queue_level[p], "top")
           /\ UNCHANGED lock
        \/ /\ state[p] # "RUNNABLE"
           /\ release(p)
           /\ Goto(c, "top")
           /\ UNCHANGED loc
     /\ UNCHANGED <<state, chan, queue_level, time_in_queue, queue_next, head, tail,
                    ticks_since_boost, timer, boost, child, inclk, unqueued>>

-----------------------------------------------------------------------------
(* wakeup(chan): always called with interrupts off, from an interrupt or under *)
(* the condition lock of the caller.                                           *)

WakeupStart(c, ch, wret) ==
  /\ loc' = [loc EXCEPT ![c] = [NoLocals EXCEPT !.i = 1, !.chan = ch, !.wret = wret]]
  /\ Goto(c, "wakeup")

\* The sleepers that the loop of wakeup() has still to find.  Their number does not
\* grow meanwhile: a process that goes to sleep holds the condition lock until it
\* has its own p->lock.
Sleepers(c) ==
  {p \in loc[c].i .. NPROC : p # cproc[c] /\ state[p] = "SLEEPING" /\ chan[p] = loc[c].chan}

\* The loop goes on to the next sleeper of the channel, or ends.
Wakeup(c) ==
  /\ pc[c] = "wakeup"
  /\ \/ \E p \in Sleepers(c) :
          /\ \A q \in Sleepers(c) : p <= q
          /\ acquire(p, c)
          /\ state' = [state EXCEPT ![p] = "RUNNABLE"]
          /\ loc' = [loc EXCEPT ![c] = [EnqueueLocals(p, queue_level[p], "wakeup") EXCEPT
                                          !.i = p, !.chan = loc[c].chan, !.wret = loc[c].wret]]
          /\ Goto(c, "enq_link")
     \/ /\ Sleepers(c) = {}
        /\ loc' = [loc EXCEPT ![c] = NoLocals]
        /\ Goto(c, loc[c].wret)
        /\ UNCHANGED <<state, lock>>
  /\ UNCHANGED <<chan, queue_level, time_in_queue, queue_next, head, tail,
                 ticks_since_boost, cproc, timer, boost, child, inclk, unqueued>>

-----------------------------------------------------------------------------
(* The timer and clockintr(). *)

\* timer[c] is "armed" while the timer may expire, "pending" while it has expired
\* and not been set again, and "spent" once it has been set in this pass of the
\* scheduler: a pass takes far less than the tenth of a second of a tick.  An expiry
\* matters only where interrupts are on, so it is one step with the interrupt.

\* w_stimecmp(): asks for the next interrupt and withdraws a pending one.
Rearm(c) == timer' = [timer EXCEPT ![c] = IF @ = "pending" THEN "spent" ELSE @]

\* The interrupt is taken.  cpu0 loads ticks_since_boost to count this tick.
ClockIntr(c) ==
  /\ pc[c] \in {"top", "user"} /\ timer[c] # "spent"
  /\ timer' = [timer EXCEPT ![c] = "pending"]
  /\ IF c = cpu0
     THEN Goto(c, "tick") /\ loc' = [loc EXCEPT ![c].n = ticks_since_boost]
     ELSE Goto(c, "clock") /\ UNCHANGED loc
  /\ UNCHANGED <<state, lock, chan, queue_level, time_in_queue, queue_next, head, tail,
                 ticks_since_boost, cproc, boost, child, inclk, unqueued>>

\* Variant: clockintr() does not count towards the next boost.
ClockTickUncounted(c) ==
  /\ pc[c] = "tick"
  /\ UNCHANGED ticks_since_boost
  /\ WakeupStart(c, "ticks", "clock")
  /\ UNCHANGED <<state, lock, chan, queue_level, time_in_queue, queue_next, head, tail,
                 cproc, timer, boost, child, inclk, unqueued>>

\* ticks_since_boost++ is stored, and wakeup(&ticks) called.
ClockTick(c) ==
  /\ pc[c] = "tick"
  /\ ticks_since_boost' = IF loc[c].n < BOOST_INTERVAL THEN loc[c].n + 1 ELSE loc[c].n
  /\ WakeupStart(c, "ticks", "clock")
  /\ UNCHANGED <<state, lock, chan, queue_level, time_in_queue, queue_next, head, tail,
                 cproc, timer, boost, child, inclk, unqueued>>

\* Without a process the handler just sets the timer; otherwise it loads
\* p->time_in_queue, without p->lock.
Clock(c) ==
  /\ pc[c] = "clock"
  /\ IF cproc[c] = NULL
     THEN Rearm(c) /\ Goto(c, "top") /\ UNCHANGED loc
     ELSE /\ loc' = [loc EXCEPT ![c].n = time_in_queue[cproc[c]]]
          /\ Goto(c, "clock_store")
          /\ UNCHANGED timer
  /\ UNCHANGED <<state, lock, chan, queue_level, time_in_queue, queue_next, head, tail,
                 ticks_since_boost, cproc, boost, child, inclk, unqueued>>

\* clockintr() uses p->time_in_queue and p->queue_level without p->lock, and loads them
\* again after every store and call: each load and each store is a step, between which
\* sys_boostproc(pid) on another CPU may make one of its own (BoostOne, BoostTime).

\* p->time_in_queue++ is stored.
ClockStore(c) ==
  /\ pc[c] = "clock_store"
  /\ time_in_queue' = [time_in_queue EXCEPT ![cproc[c]] = loc[c].n + 1]
  /\ loc' = [loc EXCEPT ![c] = NoLocals]
  /\ Goto(c, "clock_level")
  /\ UNCHANGED <<state, lock, chan, queue_level, queue_next, head, tail, ticks_since_boost,
                 cproc, timer, boost, child, inclk, unqueued>>

\* get_quantum(p->queue_level): the level is loaded.
ClockLevel(c) ==
  /\ pc[c] = "clock_level"
  /\ loc' = [loc EXCEPT ![c].level = queue_level[cproc[c]]]
  /\ Goto(c, "clock_cmp")
  /\ UNCHANGED <<state, lock, chan, queue_level, time_in_queue, queue_next, head, tail,
                 ticks_since_boost, cproc, timer, boost, child, inclk, unqueued>>

\* p->time_in_queue is loaded again and compared with the quantum.  If that is not used
\* up the handler sets the timer, and the trap handler that called it yields.
ClockCompare(c) ==
  /\ pc[c] = "clock_cmp"
  /\ IF time_in_queue[cproc[c]] >= QUANTUM[loc[c].level]
     THEN Goto(c, "demote") /\ UNCHANGED timer
     ELSE Goto(c, "yield") /\ Rearm(c)
  /\ loc' = [loc EXCEPT ![c] = NoLocals]
  /\ UNCHANGED <<state, lock, chan, queue_level, time_in_queue, queue_next, head, tail,
                 ticks_since_boost, cproc, boost, child, inclk, unqueued>>

\* The quantum is used up: the ticks are reset, ...
DemoteReset(c) ==
  /\ pc[c] = "demote"
  /\ time_in_queue' = [time_in_queue EXCEPT ![cproc[c]] = 0]
  /\ Goto(c, "demote_level")
  /\ UNCHANGED <<state, lock, chan, queue_level, queue_next, head, tail, ticks_since_boost,
                 cproc, timer, loc, boost, child, inclk, unqueued>>

\* ... the level is loaded again, ...
DemoteLevel(c) ==
  /\ pc[c] = "demote_level"
  /\ loc' = [loc EXCEPT ![c].level = queue_level[cproc[c]]]
  /\ Goto(c, "demote_store")
  /\ UNCHANGED <<state, lock, chan, queue_level, time_in_queue, queue_next, head, tail,
                 ticks_since_boost, cproc, timer, boost, child, inclk, unqueued>>

\* ... and the next one stored, unless it was the last.  Then clockintr() itself yields,
\* before it has set the timer.
DemoteStore(c) ==
  LET p == cproc[c]
  IN /\ pc[c] = "demote_store"
     /\ queue_level' = IF loc[c].level < MLFQ_LEVELS - 1
                       THEN [queue_level EXCEPT ![p] = loc[c].level + 1]
                       ELSE queue_level
     /\ inclk' = [inclk EXCEPT ![p] = TRUE]
     /\ loc' = [loc EXCEPT ![c] = NoLocals]
     /\ Goto(c, "yield")
     /\ UNCHANGED <<state, lock, chan, time_in_queue, queue_next, head, tail,
                    ticks_since_boost, cproc, timer, boost, child, unqueued>>

\* The process that clockintr() switched out runs again: clockintr() sets the
\* timer, and the trap handler that called it yields once more.
ClockRet(c) ==
  /\ pc[c] = "clock_ret"
  /\ Rearm(c)
  /\ inclk' = [inclk EXCEPT ![cproc[c]] = FALSE]
  /\ Goto(c, "yield")
  /\ UNCHANGED <<state, lock, chan, queue_level, time_in_queue, queue_next, head, tail,
                 ticks_since_boost, cproc, loc, boost, child, unqueued>>

\* p takes its own lock and leaves the CPU in state s.
Leave(c, s) ==
  /\ acquire(cproc[c], c)
  /\ state' = [state EXCEPT ![cproc[c]] = s]
  /\ Goto(c, "sched")

yield(c) ==
  /\ pc[c] = "yield"
  /\ Leave(c, "RUNNABLE")
  /\ UNCHANGED <<chan, queue_level, time_in_queue, queue_next, head, tail, ticks_since_boost,
                 cproc, timer, loc, boost, child, inclk, unqueued>>

\* A device interrupt wakes the sleepers of a channel.  It also ends a wfi.
DevIntr(c, ch) ==
  /\ "devintr" \in Calls /\ pc[c] \in {"top", "user", "wfi"}
  /\ WakeupStart(c, ch, IF pc[c] = "user" THEN "user" ELSE "top")
  /\ UNCHANGED <<state, lock, chan, queue_level, time_in_queue, queue_next, head, tail,
                 ticks_since_boost, cproc, timer, boost, child, inclk, unqueued>>

-----------------------------------------------------------------------------
(* What the current process asks of the kernel. *)

\* sleep(chan, lk).  The condition lock lk is the caller's.
sleep(c, ch) ==
  /\ "sleep" \in Calls /\ InUser(c)
  /\ Leave(c, "SLEEPING")
  /\ chan' = [chan EXCEPT ![cproc[c]] = ch]
  /\ UNCHANGED <<queue_level, time_in_queue, queue_next, head, tail, ticks_since_boost,
                 cproc, timer, loc, boost, child, inclk, unqueued>>

\* A system call that calls wakeup().
CallWakeup(c, ch) ==
  /\ "wakeup" \in Calls /\ InUser(c)
  /\ WakeupStart(c, ch, "user")
  /\ UNCHANGED <<state, lock, chan, queue_level, time_in_queue, queue_next, head, tail,
                 ticks_since_boost, cproc, timer, boost, child, inclk, unqueued>>

\* Variant: kkill() makes a victim that is not asleep RUNNABLE too.
kkillAwake(c, p) ==
  /\ "kill" \in Calls /\ InUser(c)
  /\ state[p] \in {"SLEEPING", "RUNNING"} /\ lock[p] = NoCPU
  /\ state' = [state EXCEPT ![p] = "RUNNABLE"]
  /\ unqueued' = unqueued \cup {p}
  /\ UNCHANGED <<lock, chan, queue_level, time_in_queue, queue_next, head, tail,
                 ticks_since_boost, cproc, timer, pc, loc, boost, child, inclk>>

\* kkill(): a sleeping victim becomes RUNNABLE; nothing is enqueued.
kkill(c, p) ==
  /\ "kill" \in Calls /\ InUser(c)
  /\ state[p] = "SLEEPING" /\ lock[p] = NoCPU
  /\ state' = [state EXCEPT ![p] = "RUNNABLE"]
  /\ unqueued' = unqueued \cup {p}
  /\ UNCHANGED <<lock, chan, queue_level, time_in_queue, queue_next, head, tail,
                 ticks_since_boost, cproc, timer, pc, loc, boost, child, inclk>>

\* allocproc() inside kfork() claims a free slot.  If memory for the child runs
\* out the slot is freed again.
ForkAlloc(c, np) ==
  /\ "fork" \in Calls /\ InUser(c)
  /\ state[np] = "UNUSED" /\ lock[np] = NoCPU
  /\ queue_level' = [queue_level EXCEPT ![np] = 0]
  /\ time_in_queue' = [time_in_queue EXCEPT ![np] = 0]
  /\ queue_next' = [queue_next EXCEPT ![np] = NULL]
  /\ \/ /\ state' = [state EXCEPT ![np] = "USED"]
        /\ child' = [child EXCEPT ![cproc[c]] = np]
     \/ UNCHANGED <<state, child>>
  /\ UNCHANGED <<lock, chan, head, tail, ticks_since_boost, cproc, timer, pc, loc, boost,
                 inclk, unqueued>>

\* The end of kfork(): the child becomes RUNNABLE and is enqueued.
ForkRun(c) ==
  LET np == child[cproc[c]]
  IN /\ pc[c] = "user" /\ np # NULL
     /\ acquire(np, c)
     /\ state' = [state EXCEPT ![np] = "RUNNABLE"]
     /\ child' = [child EXCEPT ![cproc[c]] = NULL]
     /\ EnqueueLoad(c, np, queue_level[np], "user")
     /\ UNCHANGED <<chan, queue_level, time_in_queue, queue_next, head, tail,
                    ticks_since_boost, cproc, timer, boost, inclk, unqueued>>

\* kexit(): wake the parent, then (with interrupts still off) become a zombie.
kexit(c) ==
  /\ "exit" \in Calls /\ InUser(c) /\ cproc[c] # initproc
  /\ WakeupStart(c, "wait", "exit")
  /\ UNCHANGED <<state, lock, chan, queue_level, time_in_queue, queue_next, head, tail,
                 ticks_since_boost, cproc, timer, boost, child, inclk, unqueued>>

ExitZombie(c) ==
  /\ pc[c] = "exit"
  /\ Leave(c, "ZOMBIE")
  /\ UNCHANGED <<chan, queue_level, time_in_queue, queue_next, head, tail, ticks_since_boost,
                 cproc, timer, loc, boost, child, inclk, unqueued>>

\* kwait() has found the zombie p and frees its slot.
freeproc(c, p) ==
  /\ "exit" \in Calls /\ InUser(c)
  /\ state[p] = "ZOMBIE" /\ lock[p] = NoCPU
  /\ state' = [state EXCEPT ![p] = "UNUSED"]
  /\ queue_level' = [queue_level EXCEPT ![p] = 0]
  /\ time_in_queue' = [time_in_queue EXCEPT ![p] = 0]
  /\ queue_next' = [queue_next EXCEPT ![p] = NULL]
  /\ UNCHANGED <<lock, chan, head, tail, ticks_since_boost, cproc, timer, pc, loc, boost,
                 child, inclk, unqueued>>

\* sys_boostproc(0): the rest is BoostClear, BoostProc and BoostDone.
BoostAll(c) ==
  /\ "boostall" \in Calls /\ InUser(c)
  /\ boost' = [boost EXCEPT ![cproc[c]] = 1]
  /\ UNCHANGED <<state, lock, chan, queue_level, time_in_queue, queue_next, head, tail,
                 ticks_since_boost, cproc, timer, pc, loc, child, inclk, unqueued>>

\* sys_boostproc(pid) has found p and has its lock: the level changes, the place in the
\* queues does not.
BoostOne(c, p) ==
  /\ "boostone" \in Calls /\ InUser(c)
  /\ state[p] # "UNUSED" /\ acquire(p, c)
  /\ queue_level' = [queue_level EXCEPT ![p] = 0]
  /\ loc' = [loc EXCEPT ![c].p = p]
  /\ Goto(c, "boost_time")
  /\ UNCHANGED <<state, chan, time_in_queue, queue_next, head, tail, ticks_since_boost, cproc,
                 timer, boost, child, inclk, unqueued>>

\* Variant: sys_boostproc(pid) does not reset time_in_queue.
BoostTimeKept(c) ==
  /\ pc[c] = "boost_time"
  /\ release(loc[c].p)
  /\ loc' = [loc EXCEPT ![c] = NoLocals]
  /\ Goto(c, "user")
  /\ UNCHANGED <<state, chan, queue_level, time_in_queue, queue_next, head, tail,
                 ticks_since_boost, cproc, timer, boost, child, inclk, unqueued>>

\* The second store of sys_boostproc(pid), and its release(&p->lock).
BoostTime(c) ==
  /\ pc[c] = "boost_time"
  /\ time_in_queue' = [time_in_queue EXCEPT ![loc[c].p] = 0]
  /\ release(loc[c].p)
  /\ loc' = [loc EXCEPT ![c] = NoLocals]
  /\ Goto(c, "user")
  /\ UNCHANGED <<state, chan, queue_level, queue_next, head, tail, ticks_since_boost, cproc,
                 timer, boost, child, inclk, unqueued>>

-----------------------------------------------------------------------------
(* The system. *)

\* No CPU is inside the kernel, and nothing has been ticked, locked or put to sleep.
Quiet ==
  /\ lock = [p \in Procs |-> NoCPU]
  /\ chan = [p \in Procs |-> "none"]
  /\ queue_level = [p \in Procs |-> 0]
  /\ time_in_queue = [p \in Procs |-> 0]
  /\ ticks_since_boost = 0
  /\ cproc = [c \in CPUs |-> NULL]
  /\ timer = [c \in CPUs |-> "armed"]
  /\ pc = [c \in CPUs |-> "top"]
  /\ loc = [c \in CPUs |-> NoLocals]
  /\ boost = [x \in CPUs \cup Procs |-> 0]
  /\ child = [p \in Procs |-> NULL]
  /\ inclk = [p \in Procs |-> FALSE]

\* After procinit() and userinit(): init is RUNNABLE and in no queue.
Boot ==
  /\ Quiet
  /\ state = [p \in Procs |-> IF p = initproc THEN "RUNNABLE" ELSE "UNUSED"]
  /\ queue_next = [p \in Procs |-> NULL]
  /\ head = [l \in Levels |-> NULL]
  /\ tail = [l \in Levels |-> NULL]
  /\ unqueued = {initproc}

\* Later: the process table is full and a boost has just queued every process.
Busy ==
  /\ Quiet
  /\ state = [p \in Procs |-> "RUNNABLE"]
  /\ queue_next = [p \in Procs |-> IF p < NPROC THEN p + 1 ELSE NULL]
  /\ head = [l \in Levels |-> IF l = 0 THEN 1 ELSE NULL]
  /\ tail = [l \in Levels |-> IF l = 0 THEN NPROC ELSE NULL]
  /\ unqueued = {}

Init == Boot \/ Busy

\* Kernel code that a CPU is in the middle of and goes on with: of its scheduler, of its
\* current process, or of either.
SchedulerStep(c) ==
  \/ SchedTop(c) \/ Dequeue(c) \/ DequeueNext(c) \/ DequeueHead(c) \/ DequeueTail(c)
  \/ DequeueClear(c) \/ Pick(c) \/ Wfi(c)
ProcessStep(c) ==
  \/ ClockStore(c) \/ ClockLevel(c) \/ ClockCompare(c)
  \/ DemoteReset(c) \/ DemoteLevel(c) \/ DemoteStore(c) \/ ClockRet(c)
  \/ yield(c) \/ Swtch(c) \/ ForkRun(c) \/ ExitZombie(c) \/ BoostTime(c)
KernelStep(c) ==
  \/ cproc[c] = NULL /\ SchedulerStep(c)
  \/ cproc[c] # NULL /\ ProcessStep(c)
  \/ EnqueueLink(c) \/ EnqueueTail(c) \/ EnqueueClear(c)
  \/ BoostClear(c) \/ BoostProc(c) \/ BoostDone(c)
  \/ Wakeup(c)
  \/ ClockIntr(c) \/ ClockTick(c) \/ Clock(c)

\* What the workload and the devices may do next.
Request(c) ==
  \/ \E ch \in Chans : DevIntr(c, ch)
  \/ /\ pc[c] = "user"
     /\ \/ \E ch \in Chans : sleep(c, ch) \/ CallWakeup(c, ch)
        \/ \E p \in Procs : kkill(c, p) \/ ForkAlloc(c, p) \/ freeproc(c, p) \/ BoostOne(c, p)
        \/ kexit(c) \/ BoostAll(c)

Next == \E c \in CPUs : KernelStep(c) \/ Request(c)

Spec == Init /\ [][Next]_vars

\* A CPU executes the kernel code it is in, and takes its timer interrupts.
\* The timer interrupt stays pending until it is taken, before the next instruction
\* that runs with interrupts on: a process cannot keep it off by system calls.
Fairness == \A c \in CPUs : WF_vars(KernelStep(c)) /\ SF_vars(ClockIntr(c))

FairSpec == Spec /\ Fairness

-----------------------------------------------------------------------------
(* Safety, on any number of CPUs. *)

\* No process is the current process of two CPUs, so no kernel stack is used by
\* two CPUs at once: the check of p->state under p->lock in scheduler() makes up
\* for run queue entries that are stale, doubled or taken by two CPUs.
OneCpuPerProc ==
  \A c, d \in CPUs : cproc[c] # NULL /\ cproc[c] = cproc[d] => c = d

\* The states of processes and the current processes of the CPUs agree: a process
\* is RUNNING on the CPU whose current process it is, until it has taken p->lock
\* to leave; and every RUNNING process is on a CPU.
RunningIsCurrent ==
  /\ \A c \in CPUs : cproc[c] # NULL =>
       IF pc[c] = "sched" THEN lock[cproc[c]] = c /\ state[cproc[c]] # "RUNNING"
                          ELSE state[cproc[c]] = "RUNNING"
  /\ \A p \in Procs : state[p] = "RUNNING" => \E c \in CPUs : cproc[c] = p

\* The pointers met from p on: p, then its queue_next, and so on.
Walk(p) ==
  LET ptr[n \in 0 .. NPROC] ==
        IF n = 0 THEN p
        ELSE LET q == ptr[n - 1] IN IF q = NULL THEN NULL ELSE queue_next[q]
  IN ptr

Follow(p) == {Walk(p)[n] : n \in 0 .. NPROC} \ {NULL}
Queued(level) == Follow(head[level])

\* However enqueue(), dequeue() and priority_boost() race, queue_next pointers
\* form a cycle only while some CPU is inside an enqueue() of a process on it: the
\* last store of enqueue() cuts every cycle its second one can close.
CyclesAreTransient ==
  \A p \in Procs : queue_next[p] # NULL /\ (\E n \in 1 .. NPROC : Walk(p)[n] = p) =>
    \E c \in CPUs : pc[c] \in {"enq_tail", "enq_clear"} /\ loc[c].p \in Follow(p)

\* The ticks of p leave it in the quantum of its level.
InQuantum(p) == time_in_queue[p] < QUANTUM[queue_level[p]]

\* clockintr() has counted a tick of p and not yet acted on it: it stands between its
\* first store to p->time_in_queue and the comparison, or before the reset.
Ticking(p) ==
  \E c \in CPUs : cproc[c] = p /\ pc[c] \in {"clock_level", "clock_cmp", "demote"}

\* sys_boostproc(pid) stands between its two stores to p.
HalfBoosted(p) == \E c \in CPUs : pc[c] = "boost_time" /\ loc[c].p = p

\* However the loads and stores of clockintr(), made without p->lock, interleave with
\* those of sys_boostproc(pid) on another CPU, a process comes out of both with fewer
\* ticks than the quantum of its level.
WithinQuantum ==
  \A p \in Procs : InQuantum(p) \/ Ticking(p) \/ HalfBoosted(p)

-----------------------------------------------------------------------------
(* The inductive invariant behind OneCpuPerProc and RunningIsCurrent. *)

SchedPCs == {"top", "boost", "deq", "deq_next", "deq_head", "deq_tail", "deq_clear", "pick", "wfi"}
ProcPCs == {"user", "exit", "clock_store", "clock_level", "clock_cmp", "demote", "demote_level",
            "demote_store", "yield", "clock_ret", "sched"}
EnqPCs == {"enq_link", "enq_tail", "enq_clear"}
LockPCs == EnqPCs \cup {"boost_time"}
PtrPCs == EnqPCs \cup {"deq_next", "deq_head", "deq_tail", "deq_clear", "pick"}

\* Which thread of control each place in the code belongs to, and where enqueue()
\* and wakeup() may return to.
ControlAt(c) ==
  /\ pc[c] \in SchedPCs => cproc[c] = NULL
  /\ pc[c] \in ProcPCs => cproc[c] # NULL
  /\ pc[c] \in PtrPCs => loc[c].p # NULL
  /\ pc[c] = "boost_time" => cproc[c] # NULL /\ loc[c].p # NULL
  /\ pc[c] \in EnqPCs =>
       /\ loc[c].ret \in {"top", "boost", "user", "wakeup"}
       /\ loc[c].ret \in {"top", "boost"} => cproc[c] = NULL
       /\ loc[c].ret = "user" => cproc[c] # NULL
       /\ loc[c].ret # "wakeup" => boost[Thread(c)] < BoostEnd
  /\ pc[c] = "wakeup" \/ (pc[c] \in EnqPCs /\ loc[c].ret = "wakeup") =>
       /\ loc[c].i >= 1
       /\ loc[c].wret \in {"top", "user", "exit", "clock"}
       /\ loc[c].wret = "top" => cproc[c] = NULL
       /\ loc[c].wret \in {"user", "exit"} => cproc[c] # NULL
  /\ pc[c] = "tick" => loc[c].n <= BOOST_INTERVAL
  /\ boost[c] > 0 => pc[c] = "boost" \/ (pc[c] \in EnqPCs /\ loc[c].ret = "boost")

Control == \A c \in CPUs : ControlAt(c)

\* enqueue(p), and sys_boostproc(pid) between its stores, run under p->lock.
EnqueueLocked == \A c \in CPUs : pc[c] \in LockPCs => lock[loc[c].p] = c

\* A slot that kfork() is filling is USED and belongs to one parent, which is in no
\* other system call.
Children ==
  \A p \in Procs : child[p] # NULL =>
    /\ state[child[p]] = "USED"
    /\ boost[p] = 0
    /\ \A q \in Procs : child[q] = child[p] => q = p

IInv ==
  /\ TypeOK /\ Control /\ EnqueueLocked /\ Children
  /\ OneCpuPerProc /\ RunningIsCurrent

\* What makes WithinQuantum inductive.  The level that clockintr() compares with is old
\* only if a boost has come in between, which then resets the ticks; and no tick is left
\* while the level changes.
DecidedAt(c) ==
  /\ pc[c] = "clock_cmp" =>
       \/ time_in_queue[cproc[c]] >= QUANTUM[loc[c].level]
       \/ InQuantum(cproc[c]) \/ HalfBoosted(cproc[c])
  /\ pc[c] \in {"demote_level", "demote_store"} => time_in_queue[cproc[c]] = 0

TickDecided == \A c \in CPUs : DecidedAt(c)
=============================================================================
