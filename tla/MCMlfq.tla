------------------------------- MODULE MCMlfq -------------------------------
(* Small instances of the scheduler, on one CPU and on two. *)
EXTENDS MlfqUni

BootSpec == Boot /\ [][Next]_vars
BusySpec == Busy /\ [][Next]_vars
\* The same with every system call made on one CPU, any but cpu0; the clock and the
\* scheduler run on all of them.
OneCallerNext == \E c \in CPUs : KernelStep(c) \/ (c # cpu0 /\ Request(c))
OneCallerSpec == Busy /\ [][OneCallerNext]_vars
FairBootSpec == BootSpec /\ Fairness

\* Quanta: one tick at every level; or growing with the level as in get_quantum().
MCQuantumOne == [l \in Levels |-> 1]
MCQuantumGrow == [l \in Levels |-> l + 1]
=============================================================================
