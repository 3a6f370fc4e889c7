----------------------------- MODULE AtomicDisk -----------------------------
(***************************************************************************)
(* What the write-ahead log promises to the file system: operations see    *)
(* each other's writes at once, a commit makes all writes of all finished  *)
(* operations durable in one step and never takes in part of an operation, *)
(* and a crash falls back to the last commit.                              *)
(***************************************************************************)
CONSTANTS Threads, Blocks, Data

VARIABLES
  mem,       \* the blocks as the file system sees them
  durable,   \* the blocks as they would be after a crash
  active     \* the threads that are inside an operation

vars == <<mem, durable, active>>

Init == mem \in [Blocks -> Data] /\ durable = mem /\ active = {}

Begin(t) == t \notin active /\ active' = active \cup {t} /\ UNCHANGED <<mem, durable>>

Write(t, b, v) == t \in active /\ mem' = [mem EXCEPT ![b] = v] /\ UNCHANGED <<durable, active>>

End(t) == t \in active /\ active' = active \ {t} /\ UNCHANGED <<mem, durable>>

Commit == active = {} /\ durable' = mem /\ UNCHANGED <<mem, active>>

Crash == mem' = durable /\ active' = {} /\ UNCHANGED durable

Next ==
  \/ \E t \in Threads : Begin(t) \/ End(t)
  \/ \E t \in Threads, b \in Blocks, v \in Data : Write(t, b, v)
  \/ Commit \/ Crash

Spec == Init /\ [][Next]_vars
=============================================================================
