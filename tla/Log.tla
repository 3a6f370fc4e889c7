-------------------------------- MODULE Log ---------------------------------
(***************************************************************************)
(* The write-ahead log of kernel/log.c: group commit of concurrent file    *)
(* system operations, crashes between any two disk writes, and recovery.   *)
(*                                                                         *)
(* A disk write of one block is atomic.  The buffer cache appears as what  *)
(* the log needs of it: cache[b] is what bread(b) returns, and a buffer    *)
(* that is not pinned may be recycled and b read from the disk again.      *)
(* A step holds log.lock, or is one disk write of the committing thread.   *)
(***************************************************************************)
EXTENDS Naturals, FiniteSets, Sequences

CONSTANTS
  Threads,       \* the processes that make file system calls
  Blocks,        \* home locations on the disk
  Data,          \* what a block can hold
  MAXOPBLOCKS,   \* log space that begin_op() reserves for one operation
  OpBlocks,      \* the most blocks that one operation writes
  LOGBLOCKS,     \* size of the log
  MaxCrashes     \* bound on the number of crashes

ASSUME LogAssumption ==
  /\ MAXOPBLOCKS \in Nat /\ OpBlocks \in Nat /\ LOGBLOCKS \in Nat /\ MaxCrashes \in Nat
  /\ OpBlocks < MAXOPBLOCKS /\ MAXOPBLOCKS <= LOGBLOCKS
  /\ IsFiniteSet(Threads) /\ Threads # {}
  /\ IsFiniteSet(Blocks) /\ Blocks # {} /\ Data # {}

VARIABLES
  disk, logblk, hdr,              \* on the disk: home blocks, log blocks, log header
  cache, pinned,                  \* the buffer cache
  outstanding, committing, lh,    \* struct log
  pc,                             \* control point of each thread, and of recovery
  written,                        \* the blocks that a thread's operation has written
  tail,                           \* loop index of write_log() and install_trans()
  crashes

vars == <<disk, logblk, hdr, cache, pinned, outstanding, committing, lh, pc, written, tail,
          crashes>>

boot == "boot"     \* the thread of control that runs initlog()
CommitPCs == {"write_log", "write_head", "install", "erase", "end_commit"}
RecoverPCs == {"read_head", "install", "erase"}

ASSUME BootAssumption == boot \notin Threads

TypeOK ==
  /\ disk \in [Blocks -> Data]
  /\ logblk \in [1 .. LOGBLOCKS -> Data]
  /\ hdr \in Seq(Blocks) /\ lh \in Seq(Blocks)
  /\ cache \in [Blocks -> Data]
  /\ pinned \in SUBSET Blocks
  /\ outstanding \in Nat /\ committing \in BOOLEAN
  /\ pc \in [Threads \cup {boot} ->
               {"idle", "asleep", "awake", "op"} \cup CommitPCs \cup RecoverPCs]
  /\ written \in [Threads -> SUBSET Blocks]
  /\ tail \in Nat /\ crashes \in 0 .. MaxCrashes

-----------------------------------------------------------------------------
Goto(t, label) == pc' = [pc EXCEPT ![t] = label]
Logged == {lh[i] : i \in DOMAIN lh}
InOp == {t \in Threads : pc[t] = "op"}

\* wakeup(&log), after which the caller goes on to label.
WakeupAndGoto(t, label) ==
  pc' = [u \in DOMAIN pc |-> IF u = t THEN label ELSE IF pc[u] = "asleep" THEN "awake" ELSE pc[u]]

\* The file system is up, and t runs.
Up(t, label) == pc[boot] = "idle" /\ pc[t] = label

\* Variant: without the space of the operation that begins.
begin_opUncounted(t) ==
  /\ Up(t, "idle") \/ Up(t, "awake")
  /\ IF committing \/ Len(lh) + outstanding * MAXOPBLOCKS > LOGBLOCKS
     THEN Goto(t, "asleep") /\ UNCHANGED <<outstanding, written>>
     ELSE /\ outstanding' = outstanding + 1
          /\ written' = [written EXCEPT ![t] = {}]
          /\ Goto(t, "op")
  /\ UNCHANGED <<disk, logblk, hdr, cache, pinned, committing, lh, tail, crashes>>

\* Variant: without the test of log.committing.
begin_opCommitting(t) ==
  /\ Up(t, "idle") \/ Up(t, "awake")
  /\ IF Len(lh) + (outstanding + 1) * MAXOPBLOCKS > LOGBLOCKS
     THEN Goto(t, "asleep") /\ UNCHANGED <<outstanding, written>>
     ELSE /\ outstanding' = outstanding + 1
          /\ written' = [written EXCEPT ![t] = {}]
          /\ Goto(t, "op")
  /\ UNCHANGED <<disk, logblk, hdr, cache, pinned, committing, lh, tail, crashes>>

begin_op(t) ==
  /\ Up(t, "idle") \/ Up(t, "awake")
  /\ IF committing \/ Len(lh) + (outstanding + 1) * MAXOPBLOCKS > LOGBLOCKS
     THEN Goto(t, "asleep") /\ UNCHANGED <<outstanding, written>>
     ELSE /\ outstanding' = outstanding + 1
          /\ written' = [written EXCEPT ![t] = {}]
          /\ Goto(t, "op")
  /\ UNCHANGED <<disk, logblk, hdr, cache, pinned, committing, lh, tail, crashes>>

\* Variant: no bpin().
log_writeUnpinned(t, b, v) ==
  /\ Up(t, "op")
  /\ Cardinality(written[t] \cup {b}) <= OpBlocks
  /\ cache' = [cache EXCEPT ![b] = v]
  /\ IF b \in Logged
     THEN UNCHANGED <<lh, pinned>>
     ELSE lh' = Append(lh, b) /\ UNCHANGED pinned
  /\ written' = [written EXCEPT ![t] = @ \cup {b}]
  /\ UNCHANGED <<disk, logblk, hdr, outstanding, committing, pc, tail, crashes>>

\* bread(b), a change of its data and log_write(b): the buffer is locked from the
\* first to the last.  An operation writes at most OpBlocks different blocks.
log_write(t, b, v) ==
  /\ Up(t, "op")
  /\ Cardinality(written[t] \cup {b}) <= OpBlocks
  /\ cache' = [cache EXCEPT ![b] = v]
  /\ IF b \in Logged
     THEN UNCHANGED <<lh, pinned>>
     ELSE lh' = Append(lh, b) /\ pinned' = pinned \cup {b}
  /\ written' = [written EXCEPT ![t] = @ \cup {b}]
  /\ UNCHANGED <<disk, logblk, hdr, outstanding, committing, pc, tail, crashes>>

\* end_op() up to the release of log.lock; the last operation commits.
end_op(t) ==
  /\ Up(t, "op")
  /\ outstanding' = outstanding - 1
  /\ IF outstanding = 1
     THEN /\ committing' = TRUE
          /\ tail' = 0
          /\ Goto(t, IF Len(lh) > 0 THEN "write_log" ELSE "end_commit")
     ELSE WakeupAndGoto(t, "idle") /\ UNCHANGED <<committing, tail>>
  /\ UNCHANGED <<disk, logblk, hdr, cache, pinned, lh, written, crashes>>

\* Variant: blocks are installed without a header.
write_logNoHead(t) ==
  /\ Up(t, "write_log")
  /\ logblk' = [logblk EXCEPT ![tail + 1] = cache[lh[tail + 1]]]
  /\ IF tail + 1 < Len(lh) THEN tail' = tail + 1 /\ UNCHANGED pc ELSE tail' = 0 /\ Goto(t, "install")
  /\ UNCHANGED <<disk, hdr, cache, pinned, outstanding, committing, lh, written, crashes>>

\* write_log(): one block.
write_log(t) ==
  /\ Up(t, "write_log")
  /\ logblk' = [logblk EXCEPT ![tail + 1] = cache[lh[tail + 1]]]
  /\ tail' = tail + 1
  /\ IF tail + 1 < Len(lh) THEN UNCHANGED pc ELSE Goto(t, "write_head")
  /\ UNCHANGED <<disk, hdr, cache, pinned, outstanding, committing, lh, written, crashes>>

\* write_head(): the commit point.
write_head(t) ==
  /\ Up(t, "write_head")
  /\ hdr' = lh
  /\ tail' = 0
  /\ Goto(t, "install")
  /\ UNCHANGED <<disk, logblk, cache, pinned, outstanding, committing, lh, written, crashes>>

\* install_trans(): one block; commit() also unpins it.
install_trans(t) ==
  LET b == lh[tail + 1]
  IN /\ pc[t] = "install"
     /\ disk' = [disk EXCEPT ![b] = logblk[tail + 1]]
     /\ cache' = [cache EXCEPT ![b] = logblk[tail + 1]]
     /\ pinned' = IF t = boot THEN pinned ELSE pinned \ {b}
     /\ tail' = tail + 1
     /\ IF tail + 1 < Len(lh) THEN UNCHANGED pc ELSE Goto(t, "erase")
     /\ UNCHANGED <<logblk, hdr, outstanding, committing, lh, written, crashes>>

\* log.lh.n = 0; write_head().
EraseLog(t) ==
  /\ pc[t] = "erase"
  /\ lh' = <<>>
  /\ hdr' = <<>>
  /\ Goto(t, IF t = boot THEN "idle" ELSE "end_commit")
  /\ UNCHANGED <<disk, logblk, cache, pinned, outstanding, committing, written, tail, crashes>>

\* Variant: no wakeup().
EndCommitSilent(t) ==
  /\ Up(t, "end_commit")
  /\ committing' = FALSE
  /\ Goto(t, "idle")
  /\ UNCHANGED <<disk, logblk, hdr, cache, pinned, outstanding, lh, written, tail, crashes>>

\* Variant: the operation is counted out again.
EndCommitCounts(t) ==
  /\ Up(t, "end_commit")
  /\ committing' = FALSE
  /\ outstanding' = outstanding - 1
  /\ WakeupAndGoto(t, "idle")
  /\ UNCHANGED <<disk, logblk, hdr, cache, pinned, lh, written, tail, crashes>>

\* The end of end_op(), after commit().
EndCommit(t) ==
  /\ Up(t, "end_commit")
  /\ committing' = FALSE
  /\ WakeupAndGoto(t, "idle")
  /\ UNCHANGED <<disk, logblk, hdr, cache, pinned, outstanding, lh, written, tail, crashes>>

-----------------------------------------------------------------------------
(* The buffer cache. *)

\* bget() of another block recycles the buffer of b, and bread(b) reads b again.
Recycle(b) ==
  /\ b \notin pinned
  /\ cache' = [cache EXCEPT ![b] = disk[b]]
  /\ UNCHANGED <<disk, logblk, hdr, pinned, outstanding, committing, lh, pc, written, tail,
                 crashes>>

-----------------------------------------------------------------------------
(* Crash and recovery. *)

Crash ==
  /\ crashes < MaxCrashes
  /\ crashes' = crashes + 1
  /\ cache' = disk
  /\ pinned' = {}
  /\ outstanding' = 0 /\ committing' = FALSE /\ lh' = <<>>
  /\ pc' = [t \in Threads \cup {boot} |-> IF t = boot THEN "read_head" ELSE "idle"]
  /\ written' = [t \in Threads |-> {}]
  /\ tail' = 0
  /\ UNCHANGED <<disk, logblk, hdr>>

\* recover_from_log() reads the header, and goes on with install_trans(1).
read_head ==
  /\ pc[boot] = "read_head"
  /\ lh' = hdr
  /\ tail' = 0
  /\ Goto(boot, IF Len(hdr) > 0 THEN "install" ELSE "erase")
  /\ UNCHANGED <<disk, logblk, hdr, cache, pinned, outstanding, committing, written, crashes>>

-----------------------------------------------------------------------------
\* The disk as mkfs leaves it, with an empty log, and the first boot.
Init ==
  /\ disk \in [Blocks -> Data] /\ \A b, d \in Blocks : disk[b] = disk[d]
  /\ logblk = [i \in 1 .. LOGBLOCKS |-> disk[CHOOSE b \in Blocks : TRUE]]
  /\ hdr = <<>> /\ lh = <<>>
  /\ cache = disk /\ pinned = {}
  /\ outstanding = 0 /\ committing = FALSE
  /\ pc = [t \in Threads \cup {boot} |-> IF t = boot THEN "read_head" ELSE "idle"]
  /\ written = [t \in Threads |-> {}]
  /\ tail = 0 /\ crashes = 0

CommitStep(t) == write_log(t) \/ write_head(t) \/ install_trans(t) \/ EraseLog(t) \/ EndCommit(t)
Recover == read_head \/ install_trans(boot) \/ EraseLog(boot)

Next ==
  \/ \E t \in Threads : begin_op(t) \/ end_op(t) \/ CommitStep(t)
  \/ \E t \in Threads, b \in Blocks, v \in Data : log_write(t, b, v)
  \/ \E b \in Blocks : Recycle(b)
  \/ Recover \/ Crash

Spec == Init /\ [][Next]_vars

\* Operations end, the committing thread and recovery go on, and a process that has
\* been woken runs.
Fairness ==
  /\ \A t \in Threads : WF_vars(end_op(t)) /\ WF_vars(CommitStep(t))
                          /\ WF_vars(pc[t] = "awake" /\ begin_op(t))
  /\ WF_vars(Recover)

FairSpec == Spec /\ Fairness

-----------------------------------------------------------------------------
(* Properties. *)

\* The blocks that the operations under way may still write, numbered for each thread.
StillToWrite ==
  {w \in InOp \X (1 .. OpBlocks) : w[2] > Cardinality(written[w[1]])}

\* The log has room for all that the operations under way may still write, so that
\* log_write() never panics with "too big a transaction" and, NBUF being LOGBLOCKS,
\* commit() finds a buffer that no logged block has pinned: begin_op() reserves enough.
LogFits == Len(lh) + Cardinality(StillToWrite) < LOGBLOCKS

\* No operation is under way while its blocks are being written to the log: end_op()
\* never panics with "log.committing", and exactly one thread commits.
CommitAlone ==
  /\ committing <=> \E t \in Threads : pc[t] \in CommitPCs
  /\ committing => outstanding = 0
  /\ \A t, u \in Threads : pc[t] \in CommitPCs /\ pc[u] \in CommitPCs => t = u
  /\ outstanding = Cardinality(InOp)

\* A block whose only up-to-date copy is in the cache cannot be recycled.
DirtyIsPinned ==
  \A b \in Blocks : cache[b] # disk[b] => b \in pinned /\ b \in Logged

\* begin_op() does not sleep forever: every commit, and every end of an operation that
\* frees log space, wakes it to look again.
SleepersWake == \A t \in Threads : pc[t] = "asleep" ~> pc[t] # "asleep"

\* The log implements an atomic disk.  A committed log holds the newest contents of
\* its blocks from the write of the header until they are all at home.
Durable ==
  [b \in Blocks |-> IF \E i \in DOMAIN hdr : hdr[i] = b
                    THEN logblk[CHOOSE i \in DOMAIN hdr : hdr[i] = b]
                    ELSE disk[b]]
Mem == IF pc[boot] = "idle" THEN cache ELSE Durable

Atomic == INSTANCE AtomicDisk WITH
  mem <- Mem, durable <- Durable, active <- InOp

AtomicSpec == Atomic!Spec
=============================================================================
