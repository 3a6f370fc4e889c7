------------------------------ MODULE MlfqUni -------------------------------
(***************************************************************************)
(* What the scheduler of module Mlfq promises on one CPU.  Interrupts are   *)
(* off inside enqueue() and dequeue() there, so no two of them overlap.     *)
(***************************************************************************)
EXTENDS Mlfq, Sequences

\* No thread is inside priority_boost(), and no CPU inside enqueue() or dequeue(), or
\* between dequeue() and the switch.
Settled ==
  /\ \A x \in CPUs \cup Procs : boost[x] = 0
  /\ \A c \in CPUs : pc[c] \in {"top", "deq", "wfi", "user", "wakeup"}

\* Once settled, the queues hold every RUNNABLE process that was enqueued, each
\* once, and nothing else; each list is closed and its tail is its last entry.
QueuesExact ==
  Settled =>
    /\ \A l \in Levels :
         /\ head[l] = NULL <=> tail[l] = NULL
         /\ tail[l] # NULL => tail[l] \in Queued(l) /\ queue_next[tail[l]] = NULL
    /\ \A l, m \in Levels : l # m => Queued(l) \cap Queued(m) = {}
    /\ UNION {Queued(l) : l \in Levels} = {p \in Procs : state[p] = "RUNNABLE"} \ unqueued

\* Strict priority: the process the scheduler switches to has no RUNNABLE process
\* of a better level waiting in the queues.
StrictPriority ==
  [][\A c \in CPUs : cproc[c] = NULL /\ cproc'[c] # NULL =>
       \A q \in Procs : state[q] = "RUNNABLE" /\ q \notin unqueued =>
         queue_level[cproc'[c]] <= queue_level[q]]_vars

\* A RUNNABLE process gets the CPU, also one that kkill() or userinit() made
\* RUNNABLE without enqueueing it: the next boost finds it in the process table.
RunnableRuns == \A p \in Procs : state[p] = "RUNNABLE" ~> state[p] = "RUNNING"

\* Whatever state the lists are in, after an interrupted sys_boostproc(0) for one, a
\* boost by scheduler() rebuilds them: every RUNNABLE process is in queue 0, nothing
\* else is queued, and no list is cyclic.
BoostRestores ==
  [][\A c \in CPUs : pc[c] = "boost" /\ pc'[c] = "deq" =>
       /\ \A p \in Procs : p \in Queued(0)' <=> state'[p] = "RUNNABLE"
       /\ \A l \in Levels \ {0} : head'[l] = NULL /\ tail'[l] = NULL
       /\ tail'[0] # NULL => queue_next'[tail'[0]] = NULL /\ tail'[0] \in Queued(0)']_vars

-----------------------------------------------------------------------------
(* The linked lists implement FIFO queues with strict priority. *)

\* The process whose enqueue() has linked it but not yet cleared its queue_next.
BeingLinked == {loc[c].p : c \in {d \in CPUs : pc[d] \in {"enq_tail", "enq_clear"}}}

\* The entries of a list, in order.
Contents(level) ==
  LET ptr[n \in 0 .. NPROC] ==
        IF n = 0 THEN head[level]
        ELSE IF ptr[n - 1] = NULL \/ ptr[n - 1] \in BeingLinked THEN NULL
        ELSE queue_next[ptr[n - 1]]
  IN [i \in 1 .. Cardinality({n \in 0 .. NPROC : ptr[n] # NULL}) |-> ptr[i - 1]]

Boost == \E c \in CPUs : boost[c] > 0

\* The run queues behave as FIFO queues from which the scheduler takes the first
\* entry of the first non-empty one, and a boost collects every entry in queue 0.
Fifo == INSTANCE FifoQueues WITH
  queue <- [l \in Levels |-> Contents(l)],
  boosting <- Boost,
  saved <- IF Boost THEN {p \in Procs : state[p] = "RUNNABLE"} \ unqueued ELSE {}

FifoSpec == Fifo!Spec

-----------------------------------------------------------------------------
(* What a comment says, and the code does not do. *)

\* "Add a process to the tail of its queue.  Called when process becomes RUNNABLE
\* or needs to be re-queued" (enqueue()), under the "Lock for MLFQ operations": no
\* RUNNABLE process is left out of the queues.
RunnableIsQueued ==
  Settled => \A p \in Procs : state[p] = "RUNNABLE" => \E l \in Levels : p \in Queued(l)
=============================================================================
