----------------------------- MODULE FifoQueues -----------------------------
(***************************************************************************)
(* What the MLFQ run queues promise: one FIFO queue per level, a process in *)
(* at most one place, strict priority between the levels, and a boost that  *)
(* moves everything that is queued to level 0 and loses nothing.            *)
(***************************************************************************)
EXTENDS Naturals, Sequences

CONSTANTS Procs, Levels

VARIABLES
  queue,      \* the processes waiting at each level, in order
  boosting,   \* a boost is rebuilding the queues
  saved       \* the processes that the boost must keep

vars == <<queue, boosting, saved>>

Entries(level) == {queue[level][i] : i \in DOMAIN queue[level]}

\* A process joins the queue of a level at its end.
Put(p, level) ==
  /\ \A l \in Levels : p \notin Entries(l)
  /\ boosting => p \in saved /\ level = 0
  /\ queue' = [queue EXCEPT ![level] = Append(@, p)]
  /\ UNCHANGED <<boosting, saved>>

\* The first process of the best non-empty level is taken out to run.
Take(level) ==
  /\ ~boosting
  /\ queue[level] # <<>>
  /\ \A l \in Levels : l < level => queue[l] = <<>>
  /\ queue' = [queue EXCEPT ![level] = Tail(@)]
  /\ UNCHANGED <<boosting, saved>>

\* A boost starts from the processes that are queued, and from any others that
\* are ready but in no queue.
BoostBegin ==
  /\ ~boosting
  /\ boosting' = TRUE
  /\ saved' = UNION {Entries(l) : l \in Levels}
  /\ UNCHANGED queue

BoostAdopt(p) ==
  /\ boosting
  /\ saved' = saved \cup {p}
  /\ UNCHANGED <<queue, boosting>>

BoostClear(level) ==
  /\ boosting
  /\ queue' = [queue EXCEPT ![level] = <<>>]
  /\ UNCHANGED <<boosting, saved>>

\* It ends with all of them at level 0, each once.
BoostFinish ==
  /\ boosting
  /\ Entries(0) = saved
  /\ \A i, j \in DOMAIN queue[0] : queue[0][i] = queue[0][j] => i = j
  /\ \A l \in Levels : l # 0 => queue[l] = <<>>
  /\ boosting' = FALSE
  /\ saved' = {}
  /\ UNCHANGED queue

Init == queue \in [Levels -> Seq(Procs)] /\ boosting = FALSE /\ saved = {}

Next ==
  \/ \E p \in Procs, l \in Levels : Put(p, l)
  \/ \E l \in Levels : Take(l) \/ BoostClear(l)
  \/ \E p \in Procs : BoostAdopt(p)
  \/ BoostBegin \/ BoostFinish

Spec == Init /\ [][Next]_vars
=============================================================================
