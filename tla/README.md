# A TLA+ model of xv6-riscv with an MLFQ scheduler

The repository is the xv6-riscv teaching kernel whose round-robin scheduler has
been replaced by a multi-level feedback queue (MLFQ). This directory models the
parts of the system that keep state and are hard to test: scheduling, processes, locks,
the log, the file system, memory, the drivers, and the user programs with an algorithm
worth checking. TLC checks them on small instances, and TLAPS proves the central facts
about the scheduler, the life cycle of processes, the log, the buffer cache, the open files,
the pipes, the console and the spin locks for every size of the system.

## The parts of the system

| Part | Source | State it owns | Model |
|---|---|---|---|
| MLFQ scheduler | `kernel/proc.c`, `proc.h` | `runqueues[]`, `queue_next`, `queue_level`, `time_in_queue`, `ticks_since_boost`, `c->proc` | `Mlfq`, `MlfqUni`, `FifoQueues`, `MlfqHistory`; proofs in `MlfqControl`, `MlfqProofs` |
| Timer interrupt, traps | `kernel/trap.c` | `ticks`, `stimecmp` | `Mlfq`; page faults in `Memory`, the interrupt flag in `Spin` |
| Process life cycle | `kernel/proc.c`, `sysproc.c` | `state`, `chan`, `killed`, `parent`, `pid` | `ProcLife`, proofs in `SyncProofs`; run queues in `Mlfq`, memory in `Memory`, descriptors in `Files` |
| Write-ahead log | `kernel/log.c` | `struct log`, the log on the disk | `Log`, `AtomicDisk`; proofs in `LogTypes`, `LogProofs` |
| Spin locks | `spinlock.c`, `proc.c` | `locked`, `noff`, `intena` | `Spin`, proofs in `SyncProofs` |
| Buffer cache, sleep locks | `bio.c`, `sleeplock.c` | LRU list, `refcnt`, `valid`, `locked` | `Bcache`, proofs in `BcacheProofs` |
| Disk driver | `virtio_disk.c` | descriptors, both rings | `Virtio` |
| Inodes, directories, paths, bitmap | `fs.c`, `sysfile.c`, `mkfs.c` | `itable`, inodes and blocks | `Fs` |
| File table, descriptors | `file.c`, `sysfile.c` | `ftable`, `ofile` | `Files`, proofs in `FilesProofs` |
| Pipes | `pipe.c` | `nread`, `nwrite`, open ends | `Pipe`, proofs in `StreamProofs`; pages and ends in `Files` |
| Console, UART | `console.c`, `uart.c` | `r`, `w`, `e` indices, `tx_busy` | `Console` (input), proofs in `StreamProofs`; `Uart` (output) |
| Memory | `kalloc.c`, `vm.c`, `exec.c`, `proc.c` | free list, page tables, `sz` | `Memory` |
| User allocator | `user/umalloc.c` | circular free list | `Heap` |
| Shell | `user/sh.c` | a line and its command tree | parser in `Shell`, descriptors of a pipeline in `Files` |
| grep | `user/grep.c` | buffer | `Grep` |
| System call dispatch, boot, PLIC, printf, strings, assembly | `syscall.c`, `main.c`, `start.c`, `plic.c`, `printf.c`, `string.c`, `*.S` | none that changes after boot, or registers only | not modelled |
| Other user programs and tests | `user/` | | not modelled; the tests were read for what they expect |

The scheduler sits under everything: a system call sleeps through `sleep()`, is
woken through `wakeup()` from a process or an interrupt, and both change the run
queues. The log sits under the file system: every file call is a
`begin_op()` ... `end_op()` pair and reads and writes blocks through the buffer
cache, which reads and writes them through the disk driver.

The modules meet at the promises that one part makes to the next. `Fs` takes from
`AtomicDisk` that an operation becomes durable as a whole, and `Log` is shown to implement
`AtomicDisk`. `Log` takes from the buffer cache that a pinned block stays and any other
may be read anew at any time (`Recycle`), and `Bcache` shows that whoever has a block has
the last change of it. `Bcache` takes a disk access as one step of the process that holds
the buffer, and `Virtio` shows that a process goes on only when the device has moved its
data. `ProcLife` takes from the scheduler that a `RUNNABLE` process runs, which is
`RunnableRuns`; `Mlfq` and `ProcLife` take a section under a spin lock as atomic on its
CPU, which is what `Spin` shows of the interrupt flag.

## The scheduler: `Mlfq`

State and code correspond one to one: `state`, `chan`, `queue_level`,
`time_in_queue` and `queue_next` are the fields of `struct proc`; `head` and
`tail` are `runqueues[]`; `lock[p]` is the CPU that holds `p->lock`; `cproc` is
`c->proc`. The process table is `1..NPROC` and 0 is the null pointer. `pc[c]` and
`loc[c]` are where CPU `c` stands and its local variables. What outlives a switch
is kept with the process: `boost[p]` (how far `p` is inside `priority_boost()`),
`child[p]` (the slot it fills inside `kfork()`), `inclk[p]` (it was switched out by
the `yield()` inside `clockintr()`). `unqueued` is a history variable: the
processes that became `RUNNABLE` through code that does not call `enqueue()`.

*Granularity.* `mlfq_lock` is never acquired, so nothing protects the run queues:
each load and store of `enqueue()`, `dequeue()` and `priority_boost()` on a shared
pointer is a step, and the steps of different CPUs interleave. What `p->lock`
protects changes in one step with the acquire, together with the first unprotected
load after it; the last unprotected store is one step with the release. A value
the compiler may keep in a register after its own store is not loaded again. Loads
and stores take effect in program order; the weaker orderings that RISC-V allows
are not modelled. `ticks_since_boost++` and `time_in_queue++` are a load and a store.
`clockintr()` uses `time_in_queue` and `queue_level` without `p->lock`, so each of its loads and
stores is a step, and so are the two stores of `sys_boostproc(pid)`, which may find the process
running. `priority_boost()`, `allocproc()` and `freeproc()` store both under `p->lock` for a process that no
CPU runs and that nobody else can reach, in one step.
`wakeup()` goes on directly to the next sleeper of its channel, since the slots
between are only locked and released.

*Interrupts* are taken where they are enabled: at "top" (`intr_on(); intr_off()`)
and at "user" (user code, and system call code outside any spin lock). The
`stimecmp` comparator is `armed`, `pending` (expired and not yet set again) or
`spent` (set in the current pass of the scheduler, which is far shorter than the
tenth of a second to the next tick). Only `w_stimecmp()` withdraws a pending
interrupt, and `clockintr()` may `yield()` before it. After `clockintr()`,
`usertrap()` and `kerneltrap()` yield once more; the model does so too.

*Actions.* `EnqueueLink`/`Tail`/`Clear`, `Dequeue`/`Next`/`Head`/`Tail`/`Clear`,
`BoostClear`/`Proc`/`Done` are the stores and loads of the three queue functions;
`SchedTop`, `NextLevel`, `Pick`, `Wfi`, `Swtch` the loop of `scheduler()`;
`ClockIntr`, `ClockTick`, `Clock`, `ClockStore`, `ClockLevel`, `ClockCompare`,
`DemoteReset`/`Level`/`Store`, `ClockRet` the timer interrupt; `yield`, `sleep`, `Wakeup`, `kkill`, `ForkAlloc`/`ForkRun` (`kfork()`),
`kexit`/`ExitZombie`, `freeproc` (`kwait()`), `BoostAll`, and `BoostOne` with
`BoostTime` (`sys_boostproc()`), what processes ask for. `Calls` selects the requests that a
run's workload makes.

*Bounds.* `ticks_since_boost` is capped at `BOOST_INTERVAL`, because the code only
asks whether it has reached it (the counter has 32 bits and is reset at each
boost). `ticks` itself and the counters of `scheduler_stats` are left out: nothing
in the kernel depends on the latter.

## Processes: `ProcLife`

`state`, `chan`, `killed` and `parent` are the fields of `struct proc`; `wait_lock`
and `tickslock` name the process that holds the lock between two steps; `pc[p]` is
where `p` stands in the kernel. The scheduler appears only as `Run` and `Swtch`.

`parent` and the change to `ZOMBIE` are protected by `wait_lock`, so a scan of
`kwait()` and the loop of `reparent()` are one step each. The steps are split where
a lock is held over a second one, or dropped: `kexit` (wait_lock taken, children
given to init), `ExitWake`, `ExitZombie`; `WaitBlock` (scan, `killed(p)` read) and
`WaitSleep` (`sleep()` has `p->lock`, wait_lock released); the same for `sys_pause()`;
`ForkAlloc`, `ForkParent`, `ForkRun`. A process that has changed its state and is
still on its kernel stack stands at "swtch" and holds its `p->lock`, which `wakeup()`,
`kkill()` and `kwait()` wait for. A channel is the address of a process or of `ticks`,
so that `wakeup()` of a process wakes at most that one.

init forks and waits (`user/init.c`); other programs also exit, pause, fault and kill
anything but init. Preemption, open files, memory and the exit status are left out.

## The log: `Log` and `AtomicDisk`

`disk`, `logblk` and `hdr` are on the disk and survive a crash; `cache` and
`pinned` are the buffer cache, `outstanding`, `committing` and `lh` are `struct
log`. `begin_op`, `log_write` and `end_op` are one step each, under `log.lock`. The
committing thread holds no lock, so each of its disk writes is a step
(`write_log`, `write_head`, `install_trans`, `EraseLog`, `EndCommit`). `Crash` may
happen between any two steps and loses everything but the disk; recovery
(`read_head`, `install_trans`, `EraseLog` by `boot`) may crash too. A write of one
block is atomic. `Recycle` is the buffer cache evicting a block that is not pinned
and reading it again.

`OpBlocks` is what an operation really writes, `MAXOPBLOCKS` what `begin_op()`
reserves for it. The model needs `OpBlocks < MAXOPBLOCKS`: `log_write()` tests
`log.lh.n >= LOGBLOCKS` before it looks for an absorbed block, and `NBUF =
LOGBLOCKS`, so a log that operations fill completely would panic on a second write
of the same block, and leave `commit()` no buffer. The callers keep below the
limit (`filewrite()` writes at most `((MAXOPBLOCKS-1-1-2)/2)` data blocks per
operation).

`AtomicDisk` is the promise: operations see each other's writes at once, a commit
makes everything durable in one step and only while no operation is under way, and
a crash falls back to the last commit. The refinement mapping reads the durable
contents of a block from the log while a header names it, and from its home
location otherwise.

## Spin locks and interrupts: `Spin`

`sie`, `noff` and `intena` are the state of each CPU, `owner` that of each lock, and
`saved` the local `intena` of `sched()`. `acquire()` is two steps: `push_off()`, and the
atomic swap once the lock is free; in between the CPU spins with interrupts off. A process
uses a device lock and, inside it, takes another process' lock as `wakeup()` does
(`DevAcquire`, `InnerAcquire`, `ThreadTakes`, `ThreadReleases`); it gives up the CPU in
`sleep()`, which it calls with the device lock, so that it takes `p->lock` at depth 2 and
then releases the device lock (`SleepAcquire`), or in a timer interrupt (`TrapAcquire`, where the hardware has
already turned interrupts off); `sched` and `SchedReturns` are the two halves of
`sched()`, on what may be two CPUs. At its end `sleep()` acquires the device lock again, or, more
generally than the code, the process does something else first. A process that has never run
is `new`: the scheduler switches to `forkret()`, which releases `p->lock` with the `intena` of the
scheduler and ends in `sret`. What the very first process does in `forkret()` before that
(`fsinit()`, with interrupts off) is left out. The `Scheduler...` actions are the loop of
`scheduler()`; `Interrupt`, `HandlerTakes` and `HandlerReturns` a device interrupt.

## The file system: `Fs`

`fs` is the disk as the calls see it (`ino`, `ents`, `used`), the inode table (`ref`,
`valid`, the in-memory copies) and the inodes' locks; `durable` is what a crash leaves.
The functions of `fs.c` (`balloc`, `bmap`, `itrunc`, `ialloc`, `iget`, `iput`, `dirlink`,
`writei`...) are operators on that state, and an action composes them in the order of the
calls. A call takes more than one step where it waits for an inode's lock or runs without
one: path lookup goes directory by directory. The end of `iput()` is two steps
(`IputEnd`, `IputDrop`), because it gives up the inode's lock before it counts down.
Operations overlap as `begin_op()` allows; what they did becomes durable when the last one ends. `FsCrash` drops everything else, and
`ireclaim` then frees the inodes that were open and without links. `mkfs` gives the initial
disk. A directory fits in one block, and `".."` is kept but not used in paths.

## Open files: `Files`

`ftable` is the table of open files, `ofile` the descriptors, `pipes` the ends and the page
of each pipe, `iref` the references to an inode. `fileclose()` gives up `ftable.lock` before
it calls `pipeclose()` or `iput()`; the copy `ff` that it goes on with is a variable, and
other processes run in between. A system call that has to close files leaves them in `closing`,
and `CloseNext` closes them one by one; `ExitClose` is one round of the loop of `kexit()`. The
descriptor it clears is the process's own, so that the order of the store and of `fileclose()`
cannot be seen. Processes make any calls (`AnyCall`), or run the script of
a pipeline as `runcmd()` of `sh.c` sets one up with `pipe`, `fork`, `close` and `dup`: there
the reader must see the end of the pipe, or the instance deadlocks.

## Memory: `Memory`

`kmem` has the free pages and the content of all, `space` the page table, the trapframe and
the size of each process, and `amem` what the process should find. Functions of `kalloc.c`
and `vm.c` are operators that return the new memory and whether they succeeded; `sys_sbrk`
(eager and lazy), `ForkMemory`, `sys_exec`, `FreeSpace`, `UserStore` (with `vmfault()`),
`KernelStore` (`copyout`) and `KernelLoad` (`copyin`) are the actions. `kalloc()` may run
out at every single call, because the runs start with different numbers of pages.

## Buffer cache and disk: `Bcache`, `Virtio`

In `Bcache` a use gets a buffer (`bget`, then `acquiresleep`, with others between), reads,
changes, writes or pins it, and releases it in the two steps of `brelse()`; a process that has
two buffers at once is two uses. `fresh` says whether a copy has the last change of the block. `bgetPanics` is
`panic("bget: no buffers")` (`bio.c:88`), which leaves `bcache.lock` held: nobody gets or releases a buffer
any more. Nothing in the code excludes it: `NBUF` is `LOGBLOCKS`, 30 (`param.h:10-11`), and each of
64 processes (`param.h:1`) may read a file, for which it reserves nothing. `Virtio` has the descriptors, the
rings with their indices modulo `IDX`, the sleepers for descriptors and for their request,
and the handler, whose loop runs while the device writes. The device itself is external:
it takes requests in order and completes them in any order.

## Byte streams: `Pipe`, `Console`, `Uart`

`Pipe` runs `pipewrite()` and `piperead()` a byte at a time under the pipe's lock, with
counters that wrap (`UINT`), with either end closing and a kill at any moment, also between
`killed()` and `sleep()`, since `kkill()` does not take the pipe's lock: such a kill wakes nobody, and
the process gets out when the other end reads, writes or closes. `Console` is
the editing of `consoleintr()` and the reading of `consoleread()`, with `^U`, `^H`, `^D`, a
full buffer, indices that wrap and a failing `copyout`. `Uart` is the output: writers that
sleep until the transmit interrupt, and `uartputc_sync()`, which takes no lock.

## Algorithms: `Heap`, `Shell`, `Grep`

`Heap` is `malloc()` and `free()` on the circular list, `Shell` the recursive-descent
parser of `sh.c`, `Grep` the matcher and the loop that cuts lines out of a buffer. The
parser and grep are checked against definitions that say what a line means and which lines
match, on all lines and inputs up to a length.

## Runs

| Run | Instance | Shows |
|---|---|---|
| `smp_lists` | 2 CPUs, 2 processes, 2 levels, quanta 1 and 2, boost every tick, `sys_boostproc(pid)` on the CPU that does not count the ticks | `OneCpuPerProc`, `CyclesAreTransient`, `WithinQuantum` under every interleaving of the unlocked queue code |
| `smp_life` | 2 CPUs, 2 processes, 1 level, from boot; sleep, kill, fork, exit, wait | `TypeOK`, `RunningIsCurrent`, and the inductive invariant `IInv` of the proofs |
| `uni_sched` | 1 CPU, 3 processes, 2 levels, from boot; sleep, kill, fork; fair | `QueuesExact`, `StrictPriority`, refinement of `FifoQueues` (`FifoSpec`), liveness `RunnableRuns` |
| `uni_boost` | 1 CPU, 3 processes, 2 levels; sleep, wakeups, device interrupts, `sys_boostproc(0)` | `BoostRestores`: however damaged the lists are, the scheduler's boost rebuilds them |
| `log` | 2 threads, 2 blocks, 2 crashes, operations of up to 2 blocks | `LogFits`, `CommitAlone`, `DirtyIsPinned`, refinement of `AtomicDisk` (`AtomicSpec`), liveness `SleepersWake` |
| `resources` | one part at a time, see below | the parts that keep count: `BlocksExact`, `NoDangling`, `CopyAgrees`, `OrphansReclaimed` (`Fs`), `FilesExact`, `PagesExact`, `MemoryAgrees`, `CacheCoherent`, `HeapSound`, `ParseAgrees`, `LinesIntact`, `InterruptsRestored` (`Spin`), `GrepAgrees` |
| `streams` | one part at a time, see below; fair | the parts that get work done: `RequestsServed` (`Virtio`), `StreamIntact` and `PipeEnds` (`Pipe`), `OutputDelivered` (`Uart`) |
| `proc_life` | init and 3 more slots; fork, exit, wait, pause, kill, faults | `NoLostExit`, `ParentAlive`, `FreedIsOffCpu` |
| `proc_live` | init and 2 more slots, the same calls; fair | liveness `KilledEnds` and `ZombieReaped` |
| `kill_zero` | init and 2 more slots, the same calls | violated: `OnlyVictimsDie` (see Findings) |
| `race_lost` | 2 CPUs, 2 processes | violated: `RunnableIsQueued` (see Findings) |
| `tick_twice` | 1 CPU, 2 processes, with a history variable | violated: `OneTickPerExpiry` (see Findings) |

*Why the bounds suffice.* Two CPUs are enough for every pair of racing functions;
two processes make lists of length 0, 1 and 2, where all the special cases of the
list code are, and three make a list with a middle. Two levels give a best, a
worst and a demotion between them. A boost interval of one tick makes the boost
race with everything; four ticks let a process sink and come back. In `smp_lists` only
one CPU makes the call `sys_boostproc(pid)`, while the clock interrupts and schedulers of both race with
it; calls on both CPUs at once are covered by the proofs of `OneCpuPerProc` and `WithinQuantum`,
and not checked for `CyclesAreTransient`. In the log
instance two operations fit into the reserved space and a third does not
(`LOGBLOCKS = 2 * MAXOPBLOCKS`), a transaction has several blocks to tear, and two
crashes cover a crash during recovery. `proc_life` needs four slots:
with three, a process that leaves a zombie to init is itself a child of init, so its
own exit wakes init and the wakeup in `reparent()` is never needed. With four, a
grandchild of init does so. `proc_live` has three slots, because checking liveness
with four takes too long; that init is woken for what it inherits from a grandchild is
therefore shown by `NoLostExit` alone.

`resources` and `streams` check several modules that share no state: the variable `part`
names the one that moves while the others stay in an initial state, and a property of the
form `MCx` is the property `x` while that part moves. Their bounds are the smallest at which the cases named in the properties occur:

- `Fs`: 2 processes make 3 calls on `a`, `b` and `a/b`, with 3 inodes and 3 blocks, so that
  both run out; a file has a direct and an indirect block; one crash, at any moment.
- `Files`: 3 processes, 4 descriptors, 4 files, one pipe page; 4 arbitrary calls, or a
  whole pipeline with 2 bytes.
- `Memory`: 2 processes, 4 calls, and from 7 to 16 pages, so that every allocation inside
  `fork()` and `exec()` is the one that fails in some instance. Addresses are in half pages, so
  that sizes are not always whole pages.
- `Bcache`: 3 buffers for 4 blocks, 2 processes and up to 2 pinned blocks, so that `bget()` may find a free
  buffer, recycle one, or panic.
- `Heap`: 12 units, so that blocks split, join on both sides and `sbrk()` fails; the
  program moves the break itself as well. `malloc(0)` and sizes at which the
  rounding of `nbytes` overflows are left out.
- `Shell`: all lines of up to 5 tokens; `Grep`: all patterns of up to 3 characters on all
  inputs of up to 4 bytes in a buffer of 4, in all pieces that `read()` may return.
- `Console`: a buffer of 3 with indices modulo 6; `Pipe`: a buffer of 2 with counters
  modulo 4, 2 writers of 3 bytes and a reader; both also start just before the wrap.
- `Virtio`: 8 descriptors, enough for two requests of three, 3 processes with 4 requests,
  indices that wrap; with three processes at most one waits for descriptors at a time. `Uart`: 2 writers of 3 bytes, a CPU in `uartputc_sync()`, a FIFO of 2: one
  writer that looks at `tx_busy` and one that does not.
- `Spin`: 2 CPUs and 3 processes, so that a process may come back on another CPU while a
  third takes its place.

*Deadlock* is checked in every run. In `resources` and `streams` a part may stop only where
its calls are used up or its work is done.

*Fairness.* `Mlfq` assumes that a CPU goes on with the kernel code it is in (weak
fairness of `KernelStep`), and that a timer interrupt is taken (strong fairness of
`ClockIntr`: the interrupt is pending until interrupts are on, and is then taken
before the next instruction). It assumes nothing of user code. `RunnableRuns` needs
`BOOST_INTERVAL` to exceed the number of ticks that one round of the queues takes:
with a boost at every tick the processes at the end of the table starve, because a
boost rebuilds the queue in table order. The real values (`BOOST_INTERVAL` 100,
`NPROC` 64) leave that room only while few processes are CPU-bound. `Log` assumes that
an operation that began ends, that the committer and recovery go on, and that a
woken process runs. `Virtio`, `Pipe` and `Uart` assume (weak fairness) that a process that can go on
does, that the device goes on and that its interrupt is taken. `ProcLife` assumes that a `RUNNABLE` process runs, which is what
`RunnableRuns` says, that a process goes on with the kernel code it is in and gets the
spin lock it waits for (strong fairness; the critical sections are short), that the
clock ticks and that init calls `wait()`. `KilledEnds` excepts a process asleep in
`kwait()`, because a kill between its test of `killed(p)` and its sleep is not seen before
a child exits. `ZombieReaped` excepts an init that goes on forking for ever: `kwait()`
takes the first zombie in the table, and new children may die in front of others.

## Proofs

*The scheduler.* `MlfqProofs`, with the lemmas on types and on places in the code in
`MlfqControl`, proves, for any set of CPUs, any number of processes, levels and
ticks and any quanta:

- `Invariance`: `Spec => []IInv`;
- `TypeCorrect`: `Spec => []TypeOK`;
- `NoDoubleRun`: `Spec => []OneCpuPerProc`;
- `StatesAgree`: `Spec => []RunningIsCurrent`;
- `QuantumKeeps`: `Spec => []WithinQuantum`.

The assumptions are those of `Mlfq`: the sizes are positive, `cpu0` is a CPU, CPU
names differ from process numbers, and the channels include `ticks` and `wait`.

*The argument.* Neither property is inductive. `OneCpuPerProc` needs to know that a
`RUNNABLE` process is on no CPU that might still run it, which is
`RunningIsCurrent`: a current process is `RUNNING`, or its CPU stands at "sched" and
holds its lock. That in turn needs `Control` (which places in the code belong to
the scheduler and which to a process, and where `enqueue()` and `wakeup()`
return to), `EnqueueLocked` (`enqueue(p)` runs under `p->lock`, so nobody can pick
`p` between the scheduler's test of its state and the end of the enqueue) and
`Children` (the slot that `kfork()` fills is `USED`, and only its parent makes it
`RUNNABLE`). `IInv` is their conjunction. The pointers of the run queues occur in it
only with their types: the proof shows that the safety of the processor does not
depend on the queues being right. This is why an unlocked queue loses processes but
never runs one twice.

The invariant `IInv` is also checked by TLC in `smp_life`. `WithinQuantum` excepts a process
whose tick `clockintr()` has counted and not yet acted on, and one that `sys_boostproc(pid)` has
boosted half way: its level is 0 and its ticks are still those of the old level. It is inductive relative to
`IInv` together with `TickDecided`, which says what `clockintr()` knows between its steps. The level
that it compares with may be old, but then a boost has come in between, and either the ticks are
in the quantum of the level already or the boost is still to reset them; and while it demotes the
process the ticks are 0, so the level may change under it in any way.

*The life cycle.* `SyncProofs` proves, for any number of slots, `TypeCorrect`, `ExitsSeen`
(`NoLostExit`), `ParentsLive` (`ParentAlive`) and `FreedOff` (`FreedIsOffCpu`). The inductive
invariant adds where a process of each state stands in the code (`Placed`), who holds
`wait_lock` (`Holder`), that a `kfork()` works on a `USED` slot of its own (`Forking`), that
init lives (`InitLives`), that a process in `kexit()` has no children any more
(`ParentStays`), and `ZombiesSeen`, which implies `NoLostExit`: nobody sleeps in `kwait()`, or is
about to, who has a zombie child, and the parent of a process that is about to become a
zombie has been woken. The last part is what makes it inductive, since `kexit()` wakes the
parent before it becomes a zombie.

*The log.* `LogProofs`, with the lemmas on types and counting in `LogTypes`, proves for any finite sets of threads
and blocks, any log size and any number of crashes `TypeCorrect`, `NeverTooBig` (`LogFits`),
`CommitsAlone` (`CommitAlone`), `DirtyStays` (`DirtyIsPinned`) and the refinement
`LogIsAtomic`: `Spec => AtomicSpec`. The assumptions are those of `Log`, `OpBlocks <
MAXOPBLOCKS` among them. The invariant says what the disk holds at each place of a commit:
no block is listed twice (`Absorbed`); the header on the disk is empty or the list being
committed (`Header`), how many blocks are copied or installed (`Progress`, `Copied`,
`Installed`), what operations have written is in the list (`Writes`), and listed blocks are
pinned (`Pins`). `LogFits` counts pairs of a thread and a write it has left rather than a sum,
so that the theorems on cardinalities apply. In the refinement the write of the
header is `Commit` of `AtomicDisk`; the other disk writes of a commit, and recovery, stutter,
because the durable content of a block is read from the log exactly while the header names it.

*Spin locks.* `SyncProofs` proves `InterruptsSound`, `SpinSpec => []InterruptsRestored`, for any
numbers of CPUs and processes. The invariant gives the depth and the interrupt flag of a
CPU as functions of the places where its thread and its handler are (`Flags`), says that
`intena` is what the running thread found and `saved` what a thread that waits found, and that a
scheduler about to switch has found interrupts off, which a new process takes over
(`Remembered`), and that the owner of a lock is the CPU whose thread is in its section
(`Owners`).

*The buffer cache.* `BcacheProofs` proves `CacheCorrect`, `BcacheSpec => []CacheCoherent`, for any
numbers of buffers, blocks and uses. The invariant says that every buffer is in the LRU list
(`Listed`), that a use has a buffer with its block (`Assigned`, `IdleNoBlock`), that `refcnt` counts
the uses and the pin (`Counted`, `PinsBounded`), that no block is in two buffers (`OneCopy`) and no
buffer locked by two uses (`Exclusive`), that a valid buffer has the last change
(`ValidFresh`), and that what the disk lacks is in a valid buffer that is pinned or about to be
written or pinned (`Kept`). `bget()` may then recycle a buffer with `refcnt` 0, because such a
buffer holds nothing that the disk does not have. `EnoughBuffers` proves, by counting, that `bget()`
does not panic if there are at least as many buffers as uses and pins. It is a conditional
statement: the sizes of `param.h` do not satisfy the condition.

*Open files.* `FilesProofs` proves `FilesCorrect`, `FilesSpec => []FilesExact`, for any numbers of
processes, descriptors (at least the four of a pipeline), files, pipes and calls. `FilesExact` is
nearly inductive: besides types it needs that a free slot of the table has no type (`Cleared`),
which is why `fileclose()` has to clear it, that a process that was not forked yet has no
descriptors (`NoneYet`), that `ff` is a pipe or an inode (`Releases`), and that the shell's script
calls with descriptors and processes that exist (`ScriptOK`). Each call changes the sets that
`FilesExact` counts by single elements (`FdGiven`, `FdTaken`, `ClosePut`, `CloseTaken`...), except
`kfork()`, which adds as many as the parent has (`FdShared`). `fileclose()` moves what a file stands
for from the table to `ff` in one step, so the count is exact also while the lock is free.

*Pipe and console.* `StreamProofs` proves `PipeCorrect`, `PipeSpec => []StreamIntact`, and
`ConsoleCorrect`, `ConsoleSpec => []LinesIntact`, for any numbers of processes and any size of the
buffers. Both buffers are rings: `Ring(b, i, n, size)` is the sequence of `n` elements from index
`i` on, and lemmas say what a store, a read and a wrap of the index do to it. They need that the
range of the counters (2^32 in the code) is a multiple of the size and larger, which are the
assumptions of `Pipe` and `Console`: with another size the bytes would move when a counter wraps.
For the pipe the property is inductive with types. For the console the invariant splits the
buffer into what was handed over and what is being edited, says that both fit, that the
second has no newline (so `^U` takes all of it) and that nobody sleeps while a line is there.

The invariants of these proofs were checked by TLC before they were proved.

*Only model-checked:* the properties about the shape of the lists (`CyclesAreTransient`,
`QueuesExact`, `BoostRestores`), `StrictPriority` and the refinement of `FifoQueues`, which follow
pointers to the end of a list; all liveness, `PipeEnds` and the modules `Virtio` and `Uart`, whose
properties say that something is done at last, among it; the free list of `Heap`; `Shell` and
`Grep`, which are recursive; and `Fs` and `Memory`, whose operations are compositions of many
operators on one record: their invariants are first-order and not proved yet. Liveness
under fairness and `ENABLED` are out of the prover's reach, as are induction over data (what
a recursive definition such as `Walk`, the parser or the matcher computes for every input)
and modules with `RECURSIVE` operators; those stay with TLC.

## Findings

1. `race_lost`: `enqueue()`, `dequeue()` and `priority_boost()` change the run queues
   without `mlfq_lock`, the "Lock for MLFQ operations" (`proc.c:27`). Two CPUs lose a
   `RUNNABLE` process, which then waits for the next boost. The Makefile's default is
   three CPUs.
2. `tick_twice`: `clockintr()` yields (`trap.c:202`) before it sets the timer. The
   scheduler enables interrupts, takes the same pending interrupt again and counts
   the tick twice, so that boosts come up to twice as often as `BOOST_INTERVAL` says.
3. `kill_zero`: `kkill()` ("Kill the process with the given pid.", `proc.c:800`) compares
   pids only, and a free slot has pid 0. `kill(0)` therefore marks a free slot as killed;
   `allocproc()` does not clear the mark, and the next process in the slot ends as soon
   as it enters the kernel.

Differences met while modelling that have no run of their own:

- `bget()` panics when every buffer is in use or pinned, and `NBUF = LOGBLOCKS` leaves no buffer
  beyond those a full log pins (see `Bcache` above). No comment promises otherwise.
- `kkill()` and `userinit()` make a process `RUNNABLE` without `enqueue()`. It runs
  only after the next boost (`RunnableRuns` still holds); `init` itself starts that way.
- `sys_boostproc(0)` runs `priority_boost()` with interrupts on. A preemption in the
  middle leaves `RUNNABLE` processes out of the queues until the next boost
  (`BoostRestores` shows that this boost repairs everything).
- `priority_boost()` is to "Move all processes back to the highest priority queue"
  (`proc.c:152`), but it moves the `RUNNABLE` ones (`proc.c:166`)
  and leaves a `SLEEPING` or `RUNNING` process at its level: a process that sleeps at each boost is never raised.
- `sys_boostproc(pid)` changes `queue_level` and leaves the process in the list it is
  in, so until it has run once more it waits at its old level. (`StrictPriority` is
  checked without that call for this reason.)
- `time_in_queue` survives sleeps, so an I/O-bound process also sinks, one tick at a
  time; `mlfq_test` expects it to stay.
- `scheduler()` looks at one entry per level and pass (the `break` at `proc.c:663`). If
  that entry is stale, worse levels are served before the rest of the queue.
- After the `yield()` inside `clockintr()` the process may be on another CPU, whose timer
  it then sets instead of that of the CPU that took the interrupt.
- `nameiparent()` returns the directory unlocked, so `create()` and `link()` may add an
  entry to a directory that was removed meanwhile. The entry's inode keeps a link that
  nobody can reach: a leak, never a dangling entry (`NoDangling` holds).
- `iput()` is to free the inode "If that was the last reference and the inode has no links
  to it" (`fs.c:333`). When it frees one, it writes the free inode, releases the sleep lock
  and only then takes `itable.lock` and counts its own reference down (`fs.c:356`). In
  between `ialloc()` may hand the same number out; if the new user also puts it without
  links in that window (a `create()` that fails, or a whole create, unlink, close), its
  `iput()` sees two references and does not free it, and the first one then drops the count
  to 0 without looking again. The inode and its blocks are lost until `ireclaim()` at the
  next boot. `OrphansReclaimed` excepts exactly these inodes (the history variable `missed`).
- The `..` of a removed directory that is still somebody's working directory may name an
  inode that has been freed since; the paths of `Fs` contain no `..`.
- `copyinstr()` does not fault in a page of lazily given memory, as `copyin()` does: a path
  or argument in such a page is refused.
- `sbrk()` down within a page and up again shows the old bytes of that page; `Memory` keeps
  content by page.
- `alloc3_desc()` that gets some descriptors and not three frees them again, and each
  `free_desc()` wakes the other sleepers, which do the same: two processes may wake each
  other until a request completes.
- `consoleread()` has taken the character from the buffer when `copyout()` fails; it is lost.
- `grep` drops a last line without newline, and stops without a word at a line that does
  not fit its buffer. `GrepAgrees` is about the lines before that.

## Not modelled

- `dequeue_specific()` and `demote_process()` have no caller; `scheduler_stats`,
  `sys_getprocinfo()` and the printing of `procdump()` only read or count.
- Weak memory: the loads and stores of a CPU take effect in program order.
- Boot (`start.c`, `main.c`, `virtio_disk_init()`, `kvmmake()`), the PLIC, `printf.c` and
  `string.c`: straight-line code without state that changes later.
- System call dispatch and argument fetching: a table and reads of the trapframe.
- Assembly: saving registers is below the level of the models; `swtch` is one step.
- The content of files, `readi()`, `stati()`, the encoding of inodes and ELF headers in
  blocks: the modules tell blocks and pages apart, not bytes.
- The other user programs and the tests are clients; they were read for what they expect.
