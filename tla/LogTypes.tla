------------------------------ MODULE LogTypes ------------------------------
(***************************************************************************)
(* Proofs about module Log, for any numbers of threads, blocks and crashes *)
(* and any size of the log.  This module has the inductive invariant, and  *)
(* shows that every step keeps the types, the order of a commit and the    *)
(* bound on the log.  The contents of the blocks are in module LogProofs.  *)
(***************************************************************************)
EXTENDS Log, FiniteSetTheorems, TLAPS

-----------------------------------------------------------------------------
(* The inductive invariant. *)

All == Threads \cup {boot}

\* x is between the write of the header, or its reading, and its erasure.
Installing(x) == pc[x] \in {"install", "erase"}

\* Recovery is alone, and begins with what a crash leaves.
Control ==
  /\ \A t \in Threads : pc[t] # "read_head"
  /\ pc[boot] \in {"idle"} \cup RecoverPCs
  /\ pc[boot] # "idle" => /\ \A t \in Threads : pc[t] = "idle"
                          /\ pinned = {} /\ cache = disk
  /\ pc[boot] = "read_head" => lh = <<>>

\* No block is logged twice (absorption), on the disk as in memory, and a header that was
\* written fits the log.
Distinct(s) == \A i, j \in DOMAIN s : s[i] = s[j] => i = j
Absorbed == Distinct(lh) /\ Distinct(hdr) /\ Len(hdr) < LOGBLOCKS

\* The header on the disk is empty but while blocks are installed.
Header ==
  /\ \A x \in All : Installing(x) => hdr = lh
  /\ (\A x \in All : ~ Installing(x)) /\ pc[boot] # "read_head" => hdr = <<>>

\* How far write_log() and install_trans() have come.
Progress ==
  \A x \in All :
    /\ pc[x] \in {"write_log", "install"} => tail < Len(lh)
    /\ pc[x] \in {"write_head", "erase"} => tail = Len(lh)
    /\ pc[x] = "write_head" => 0 < Len(lh)
    /\ pc[x] = "end_commit" => lh = <<>>

\* An operation has logged what it has written.
Writes == \A t \in Threads : pc[t] = "op" => written[t] \subseteq Logged

\* The log blocks hold what the cache holds, as far as write_log() has come.
Copied ==
  \A t \in Threads :
    /\ pc[t] \in {"write_log", "write_head"} => \A i \in 1 .. tail : logblk[i] = cache[lh[i]]
    /\ Installing(t) => \A i \in DOMAIN lh : logblk[i] = cache[lh[i]]

\* The home blocks hold what the log blocks hold, as far as install_trans() has come.
Installed == \A x \in All : Installing(x) => \A i \in 1 .. tail : disk[lh[i]] = logblk[i]

\* What is logged and not yet at home is pinned.
Pins ==
  /\ \A t \in Threads : Installing(t) => pinned = {lh[i] : i \in tail + 1 .. Len(lh)}
  /\ pc[boot] = "idle" /\ (\A t \in Threads : ~ Installing(t)) => pinned = Logged

IInv ==
  /\ TypeOK /\ Control /\ CommitAlone /\ Absorbed /\ Header /\ Progress
  /\ Writes /\ LogFits
  /\ Copied /\ Installed /\ Pins /\ DirtyIsPinned

-----------------------------------------------------------------------------
(* The steps. *)

Step(t, b, v) ==
  \/ begin_op(t) \/ log_write(t, b, v) \/ end_op(t)
  \/ write_log(t) \/ write_head(t) \/ install_trans(t) \/ EraseLog(t) \/ EndCommit(t)
  \/ Recycle(b) \/ read_head \/ install_trans(boot) \/ EraseLog(boot) \/ Crash

\* Every step is one of these.
LEMMA NextIsStep ==
  ASSUME [Next]_vars
  PROVE  (\E t \in Threads, b \in Blocks, v \in Data : Step(t, b, v)) \/ UNCHANGED vars
<1> QED
  BY LogAssumption, Zenon DEF Next, CommitStep, Recover, Step

\* The counts of CommitAlone and LogFits are numbers.
LEMMA Counts ==
  /\ IsFiniteSet(InOp) /\ Cardinality(InOp) \in Nat
  /\ IsFiniteSet(StillToWrite) /\ Cardinality(StillToWrite) \in Nat
<1>1. IsFiniteSet(InOp)
  BY LogAssumption, FS_Subset, Zenon DEF InOp
<1>2. IsFiniteSet(1 .. OpBlocks)
  BY LogAssumption, FS_Interval
<1>3. IsFiniteSet(InOp \X (1 .. OpBlocks))
  BY <1>1, <1>2, FS_Product, Zenon
<1>4. IsFiniteSet(StillToWrite)
  BY <1>3, FS_Subset, Zenon DEF StillToWrite
<1> QED
  BY <1>1, <1>4, FS_CardinalityType, Zenon

\* The log is shorter than its space.
LEMMA LogLength ==
  ASSUME TypeOK, LogFits
  PROVE  Len(lh) \in Nat /\ Len(lh) < LOGBLOCKS
<1>1. Len(lh) \in Nat
  BY DEF TypeOK
<1> QED
  BY <1>1, Counts, LogAssumption DEF LogFits

\* While a thread commits, it is alone.
LEMMA Committer ==
  ASSUME TypeOK, Control, CommitAlone, NEW t \in Threads, pc[t] \in CommitPCs
  PROVE  /\ committing /\ outstanding = 0 /\ pc[boot] = "idle"
         /\ \A u \in Threads : pc[u] # "op" /\ (u # t => pc[u] \notin CommitPCs)
<1>1. committing /\ outstanding = 0 /\ pc[boot] = "idle"
  BY Zenon DEF CommitAlone, Control, CommitPCs
<1>2. InOp = {}
  BY <1>1, Counts, FS_EmptySet, Zenon DEF CommitAlone, InOp
<1> QED
  BY <1>1, <1>2, Zenon DEF CommitAlone, InOp

\* An operation under way is counted, and nobody commits.
LEMMA Operating ==
  ASSUME TypeOK, Control, CommitAlone, NEW t \in Threads, pc[t] = "op"
  PROVE  /\ outstanding \in Nat /\ outstanding > 0 /\ ~ committing /\ pc[boot] = "idle"
         /\ \A u \in Threads : pc[u] \notin CommitPCs
<1>1. InOp # {}
  BY Zenon DEF InOp
<1>2. outstanding = Cardinality(InOp)
  BY Zenon DEF CommitAlone, InOp
<1>3. outstanding \in Nat /\ outstanding > 0
  BY <1>1, <1>2, Counts, FS_EmptySet
<1> QED
  BY <1>3 DEF CommitAlone, Control

\* What log_write() makes of log.lh when it adds a block.
LEMMA Appended ==
  ASSUME NEW s \in Seq(Blocks), NEW b \in Blocks
  PROVE  /\ Append(s, b) \in Seq(Blocks) /\ Len(Append(s, b)) = Len(s) + 1 /\ Len(s) \in Nat
         /\ DOMAIN s = 1 .. Len(s) /\ DOMAIN Append(s, b) = 1 .. Len(s) + 1
         /\ \A i \in DOMAIN s : Append(s, b)[i] = s[i]
         /\ Append(s, b)[Len(s) + 1] = b
<1> QED
  OBVIOUS

\* A step that adds nothing to the log and lets no operation begin keeps LogFits.
LEMMA FitsKept ==
  ASSUME LogFits, Len(lh) \in Nat, Len(lh') \in Nat, Len(lh') <= Len(lh),
         StillToWrite' \subseteq StillToWrite
  PROVE  LogFits'
<1>1. Cardinality(StillToWrite') <= Cardinality(StillToWrite) /\ Cardinality(StillToWrite') \in Nat
  BY Counts, FS_Subset, FS_CardinalityType, Zenon
<1> QED
  BY <1>1, Counts, LogAssumption DEF LogFits

\* More operations need strictly less than what is reserved for them.
LEMMA Smaller ==
  ASSUME NEW n \in Nat \ {0}
  PROVE  n * OpBlocks < n * MAXOPBLOCKS
<1> QED
  BY LogAssumption

\* The operations of a set S of threads write at most OpBlocks blocks each.
LEMMA Reserve ==
  ASSUME NEW S, IsFiniteSet(S), NEW T \in SUBSET (S \X (1 .. OpBlocks))
  PROVE  Cardinality(T) \in Nat /\ Cardinality(T) <= Cardinality(S) * OpBlocks
<1>1. IsFiniteSet(1 .. OpBlocks) /\ Cardinality(1 .. OpBlocks) = OpBlocks
  BY FS_Interval, LogAssumption
<1>2. /\ IsFiniteSet(S \X (1 .. OpBlocks))
      /\ Cardinality(S \X (1 .. OpBlocks)) = Cardinality(S) * Cardinality(1 .. OpBlocks)
  BY <1>1, FS_Product, Zenon
<1>3. IsFiniteSet(T) /\ Cardinality(T) <= Cardinality(S \X (1 .. OpBlocks))
  BY <1>2, FS_Subset, Zenon
<1> QED
  BY <1>1, <1>2, <1>3, FS_CardinalityType, Zenon

\* log_write() adds its block to those that are logged.
LEMMA LoggedGrows ==
  ASSUME TypeOK, NEW t \in Threads, NEW b \in Blocks, NEW v \in Data, log_write(t, b, v)
  PROVE  Logged' = Logged \cup {b}
<1>1. CASE b \in Logged
  BY <1>1, Zenon DEF log_write, Logged
<1>2. CASE b \notin Logged
  <2>1. lh' = Append(lh, b) /\ lh \in Seq(Blocks)
    BY <1>2, Zenon DEF log_write, TypeOK
  <2>2. \A i \in DOMAIN lh : lh'[i] = lh[i]
    BY <2>1, Appended, Zenon
  <2>3. lh'[Len(lh) + 1] = b /\ DOMAIN lh' = DOMAIN lh \cup {Len(lh) + 1}
    BY <2>1, Appended
  <2> QED
    BY <2>2, <2>3 DEF Logged
<1> QED
  BY <1>1, <1>2, Zenon

\* The variables keep their types.
LEMMA TypeStep ==
  ASSUME TypeOK, Control, CommitAlone, Header, Progress, LogFits, [Next]_vars
  PROVE  TypeOK'
<1> USE LogAssumption, BootAssumption DEF CommitPCs, RecoverPCs, All
<1> SUFFICES ASSUME NEW t \in Threads, NEW b \in Blocks, NEW v \in Data, Step(t, b, v)
    PROVE  TypeOK'
  BY NextIsStep, Zenon DEF vars, TypeOK
<1>1. CASE begin_op(t)
  <2>1. CASE committing \/ Len(lh) + (outstanding + 1) * MAXOPBLOCKS > LOGBLOCKS
    BY <1>1, <2>1, Zenon DEF begin_op, Up, Goto, TypeOK
  <2>2. CASE ~ (committing \/ Len(lh) + (outstanding + 1) * MAXOPBLOCKS > LOGBLOCKS)
    <3>1. /\ outstanding' = outstanding + 1
          /\ written' = [written EXCEPT ![t] = {}] /\ pc' = [pc EXCEPT ![t] = "op"]
      BY <1>1, <2>2, Zenon DEF begin_op, Goto
    <3> QED
      BY <1>1, <3>1 DEF begin_op, TypeOK
  <2> QED
    BY <2>1, <2>2, Zenon
<1>2. CASE log_write(t, b, v)
  <2>1. lh' \in Seq(Blocks)
    <3>1. lh' = lh \/ lh' = Append(lh, b)
      BY <1>2, Zenon DEF log_write
    <3>2. lh \in Seq(Blocks)
      BY Zenon DEF TypeOK
    <3> QED
      BY <3>1, <3>2, Appended, Zenon
  <2>2. pinned' \in SUBSET Blocks
    BY <1>2, Zenon DEF log_write, TypeOK
  <2>3. cache' \in [Blocks -> Data] /\ written' \in [Threads -> SUBSET Blocks]
    BY <1>2, Zenon DEF log_write, TypeOK
  <2> QED
    BY <1>2, <2>1, <2>2, <2>3, Zenon DEF log_write, TypeOK
<1>3. CASE end_op(t)
  <2>1. outstanding - 1 \in Nat
    BY <1>3, Operating DEF end_op, Up
  <2>2. CASE outstanding = 1
    BY <1>3, <2>1, <2>2 DEF end_op, Up, Goto, WakeupAndGoto, TypeOK
  <2>3. CASE outstanding # 1
    BY <1>3, <2>1, <2>3 DEF end_op, Up, Goto, WakeupAndGoto, TypeOK
  <2> QED
    BY <2>2, <2>3, Zenon
<1>4. CASE write_log(t)
  <2>1. tail + 1 \in DOMAIN lh /\ lh[tail + 1] \in Blocks
    BY <1>4 DEF write_log, Up, Progress, TypeOK
  <2>2. logblk' \in [1 .. LOGBLOCKS -> Data]
    BY <1>4, <2>1, Zenon DEF write_log, TypeOK
  <2>3. pc' \in [All -> {"idle", "asleep", "awake", "op"} \cup CommitPCs \cup RecoverPCs]
    BY <1>4, Zenon DEF write_log, Goto, TypeOK
  <2> QED
    BY <1>4, <2>2, <2>3 DEF write_log, TypeOK
<1>5. CASE write_head(t)
  BY <1>5, Zenon DEF write_head, Up, Goto, TypeOK
<1>6. CASE install_trans(t)
  <2>1. tail + 1 \in DOMAIN lh /\ lh[tail + 1] \in Blocks /\ tail + 1 \in 1 .. LOGBLOCKS
    BY <1>6, LogLength DEF install_trans, Progress, TypeOK
  <2>2. logblk[tail + 1] \in Data
    BY <2>1, Zenon DEF TypeOK
  <2>3. disk' \in [Blocks -> Data] /\ cache' \in [Blocks -> Data] /\ pinned' \in SUBSET Blocks
    BY <1>6, <2>2, Zenon DEF install_trans, TypeOK
  <2>4. pc' \in [All -> {"idle", "asleep", "awake", "op"} \cup CommitPCs \cup RecoverPCs]
    BY <1>6, Zenon DEF install_trans, Goto, TypeOK
  <2> QED
    BY <1>6, <2>3, <2>4 DEF install_trans, TypeOK
<1>7. CASE EraseLog(t)
  BY <1>7 DEF EraseLog, Goto, TypeOK
<1>8. CASE EndCommit(t)
  BY <1>8, Zenon DEF EndCommit, Up, Goto, WakeupAndGoto, TypeOK
<1>9. CASE Recycle(b)
  BY <1>9, Zenon DEF Recycle, TypeOK
<1>10. CASE read_head
  BY <1>10, Zenon DEF read_head, Goto, TypeOK
<1>11. CASE install_trans(boot)
  <2>1. tail + 1 \in DOMAIN lh /\ lh[tail + 1] \in Blocks /\ tail + 1 \in 1 .. LOGBLOCKS
    BY <1>11, LogLength DEF install_trans, Progress, TypeOK
  <2>2. logblk[tail + 1] \in Data
    BY <2>1 DEF TypeOK
  <2>3. disk' \in [Blocks -> Data] /\ cache' \in [Blocks -> Data] /\ pinned' \in SUBSET Blocks
    BY <1>11, <2>2, Zenon DEF install_trans, TypeOK
  <2>4. pc' \in [All -> {"idle", "asleep", "awake", "op"} \cup CommitPCs \cup RecoverPCs]
    BY <1>11, Zenon DEF install_trans, Goto, TypeOK
  <2> QED
    BY <1>11, <2>3, <2>4 DEF install_trans, TypeOK
<1>12. CASE EraseLog(boot)
  BY <1>12 DEF EraseLog, Goto, TypeOK
<1>13. CASE Crash
  <2>1. crashes' \in 0 .. MaxCrashes
    BY <1>13 DEF Crash, TypeOK
  <2>2. pc' \in [All -> {"idle", "asleep", "awake", "op"} \cup CommitPCs \cup RecoverPCs]
    BY <1>13, Zenon DEF Crash
  <2>3. lh' \in Seq(Blocks) /\ written' \in [Threads -> SUBSET Blocks]
    BY <1>13 DEF Crash
  <2> QED
    BY <1>13, <2>1, <2>2, <2>3, Zenon DEF Crash, TypeOK
<1> QED
  BY <1>1, <1>2, <1>3, <1>4, <1>5, <1>6, <1>7, <1>8, <1>9, <1>10, <1>11, <1>12, <1>13, Zenon DEF
     Step

\* Recovery and the threads never overlap.
LEMMA ControlStep ==
  ASSUME TypeOK, Control, CommitAlone, [Next]_vars
  PROVE  Control'
<1> USE LogAssumption, BootAssumption DEF CommitPCs, RecoverPCs, All
<1> SUFFICES ASSUME NEW t \in Threads, NEW b \in Blocks, NEW v \in Data, Step(t, b, v)
    PROVE  Control'
  BY NextIsStep, Zenon DEF vars, TypeOK, Control, CommitAlone
<1>1. CASE begin_op(t)
  BY <1>1 DEF begin_op, Up, Goto, TypeOK, Control, CommitAlone
<1>2. CASE log_write(t, b, v)
  BY <1>2, Zenon DEF log_write, Up, Logged, TypeOK, Control, CommitAlone
<1>3. CASE end_op(t)
  BY <1>3 DEF end_op, Up, Goto, WakeupAndGoto, TypeOK, Control, CommitAlone
<1>4. CASE write_log(t)
  BY <1>4 DEF write_log, Up, Goto, TypeOK, Control, CommitAlone
<1>5. CASE write_head(t)
  BY <1>5, Zenon DEF write_head, Up, Goto, TypeOK, Control, CommitAlone
<1>6. CASE install_trans(t)
  BY <1>6, Zenon DEF install_trans, Goto, TypeOK, Control, CommitAlone
<1>7. CASE EraseLog(t)
  BY <1>7, Zenon DEF EraseLog, Goto, TypeOK, Control, CommitAlone
<1>8. CASE EndCommit(t)
  BY <1>8, Zenon DEF EndCommit, Up, Goto, WakeupAndGoto, TypeOK, Control, CommitAlone
<1>9. CASE Recycle(b)
  BY <1>9, Zenon DEF Recycle, TypeOK, Control, CommitAlone
<1>10. CASE read_head
  BY <1>10, Zenon DEF read_head, Goto, TypeOK, Control, CommitAlone
<1>11. CASE install_trans(boot)
  BY <1>11, Zenon DEF install_trans, Goto, TypeOK, Control, CommitAlone
<1>12. CASE EraseLog(boot)
  BY <1>12, Zenon DEF EraseLog, Goto, TypeOK, Control, CommitAlone
<1>13. CASE Crash
  BY <1>13, Zenon DEF Crash, TypeOK, Control, CommitAlone
<1> QED
  BY <1>1, <1>2, <1>3, <1>4, <1>5, <1>6, <1>7, <1>8, <1>9, <1>10, <1>11, <1>12, <1>13, Zenon DEF
     Step

\* One thread commits, and no operation is under way meanwhile.
LEMMA AloneStep ==
  ASSUME TypeOK, Control, CommitAlone, Progress, [Next]_vars
  PROVE  CommitAlone'
<1> USE LogAssumption, BootAssumption DEF CommitPCs, RecoverPCs, All
<1> SUFFICES ASSUME NEW t \in Threads, NEW b \in Blocks, NEW v \in Data, Step(t, b, v)
    PROVE  CommitAlone'
  <2>1. CASE UNCHANGED vars
    <3>1. InOp' = InOp
      BY <2>1, Zenon DEF vars, InOp
    <3> QED
      BY <2>1, <3>1, Zenon DEF vars, CommitAlone
  <2> QED
    BY <2>1, NextIsStep, Zenon
<1>1. CASE begin_op(t)
  <2>0. pc[boot] = "idle" /\ pc[t] \notin {"op"} \cup CommitPCs
    BY <1>1, Zenon DEF begin_op, Up, TypeOK
  <2>1. CASE committing \/ Len(lh) + (outstanding + 1) * MAXOPBLOCKS > LOGBLOCKS
    <3>1. pc' = [pc EXCEPT ![t] = "asleep"] /\ UNCHANGED <<outstanding, committing>>
      BY <1>1, <2>1, Zenon DEF begin_op, Goto
    <3>2. InOp' = InOp
      BY <2>0, <3>1, Zenon DEF InOp, TypeOK
    <3> QED
      BY <2>0, <3>1, <3>2, Zenon DEF CommitAlone, TypeOK
  <2>2. CASE ~ (committing \/ Len(lh) + (outstanding + 1) * MAXOPBLOCKS > LOGBLOCKS)
    <3>1. /\ pc' = [pc EXCEPT ![t] = "op"] /\ outstanding' = outstanding + 1
          /\ ~ committing /\ ~ committing'
      BY <1>1, <2>2, Zenon DEF begin_op, Goto
    <3>2. InOp' = InOp \cup {t} /\ t \notin InOp
      BY <2>0, <3>1 DEF InOp, TypeOK
    <3>3. Cardinality(InOp') = Cardinality(InOp) + 1
      BY <3>2, Counts, FS_AddElement, Zenon
    <3> QED
      BY <2>0, <3>1, <3>3, Zenon DEF CommitAlone, TypeOK
  <2> QED
    BY <2>1, <2>2, Zenon
<1>2. CASE log_write(t, b, v)
  BY <1>2, Zenon DEF log_write, CommitAlone, InOp
<1>3. CASE end_op(t)
  <2>1. /\ outstanding \in Nat /\ outstanding > 0 /\ ~ committing
        /\ \A u \in Threads : pc[u] \notin CommitPCs
    BY <1>3, Operating, Zenon DEF end_op, Up
  <2>2. InOp' = InOp \ {t} /\ t \in InOp
    BY <1>3, <2>1 DEF end_op, Up, Goto, WakeupAndGoto, InOp, TypeOK
  <2>3. outstanding' = Cardinality(InOp')
    BY <1>3, <2>1, <2>2, Counts, FS_RemoveElement, Zenon DEF end_op, CommitAlone
  <2>4. CASE outstanding = 1
    <3>1. committing' /\ outstanding' = 0 /\ pc'[t] \in CommitPCs
      BY <1>3, <2>4 DEF end_op, Goto, TypeOK
    <3>2. \A u \in Threads : u # t => pc'[u] = pc[u]
      BY <1>3, <2>4, Zenon DEF end_op, Goto, TypeOK
    <3> QED
      BY <2>1, <2>3, <3>1, <3>2, Zenon DEF CommitAlone
  <2>5. CASE outstanding # 1
    <3>1. ~ committing' /\ \A u \in Threads : pc'[u] \notin CommitPCs
      BY <1>3, <2>1, <2>5, ZenonT(30) DEF end_op, WakeupAndGoto, TypeOK
    <3> QED
      BY <2>3, <3>1, Zenon DEF CommitAlone
  <2> QED
    BY <2>4, <2>5, Zenon
<1>4. CASE write_log(t)
  <2>1. /\ pc[t] \in CommitPCs /\ pc'[t] \in CommitPCs /\ UNCHANGED <<committing, outstanding>>
        /\ \A u \in Threads : u # t => pc'[u] = pc[u]
    BY <1>4, Zenon DEF write_log, Up, Goto, TypeOK
  <2>2. InOp' = InOp
    BY <2>1, Zenon DEF InOp
  <2> QED
    BY <2>1, <2>2, Zenon DEF CommitAlone
<1>5. CASE write_head(t)
  <2>1. /\ pc[t] \in CommitPCs /\ pc'[t] \in CommitPCs /\ UNCHANGED <<committing, outstanding>>
        /\ \A u \in Threads : u # t => pc'[u] = pc[u]
    BY <1>5, Zenon DEF write_head, Up, Goto, TypeOK
  <2>2. InOp' = InOp
    BY <2>1 DEF InOp
  <2> QED
    BY <2>1, <2>2 DEF CommitAlone
<1>6. CASE install_trans(t)
  <2>1. /\ pc[t] \in CommitPCs /\ pc'[t] \in CommitPCs /\ UNCHANGED <<committing, outstanding>>
        /\ \A u \in Threads : u # t => pc'[u] = pc[u]
    BY <1>6, Zenon DEF install_trans, Goto, TypeOK
  <2>2. InOp' = InOp
    BY <2>1 DEF InOp
  <2> QED
    BY <2>1, <2>2 DEF CommitAlone
<1>7. CASE EraseLog(t)
  <2>1. /\ pc[t] \in CommitPCs /\ pc'[t] \in CommitPCs /\ UNCHANGED <<committing, outstanding>>
        /\ \A u \in Threads : u # t => pc'[u] = pc[u]
    BY <1>7, Zenon DEF EraseLog, Goto, TypeOK
  <2>2. InOp' = InOp
    BY <2>1 DEF InOp
  <2> QED
    BY <2>1, <2>2 DEF CommitAlone
<1>8. CASE EndCommit(t)
  <2>1. pc[t] \in CommitPCs
    BY <1>8, Zenon DEF EndCommit, Up
  <2>2. InOp' = InOp
    BY <1>8, <2>1, Zenon DEF EndCommit, Up, WakeupAndGoto, InOp, TypeOK
  <2>3. \A u \in Threads : pc'[u] \notin CommitPCs
    BY <1>8, <2>1, Committer, Zenon DEF EndCommit, WakeupAndGoto, TypeOK
  <2> QED
    BY <1>8, <2>1, <2>2, <2>3, Committer, Zenon DEF EndCommit, CommitAlone
<1>9. CASE Recycle(b)
  BY <1>9, Zenon DEF Recycle, CommitAlone, InOp
<1>10. CASE read_head
  <2>1. (\A u \in Threads : pc'[u] = pc[u]) /\ UNCHANGED <<committing, outstanding>>
    BY <1>10, Zenon DEF read_head, Goto, TypeOK
  <2>2. InOp' = InOp
    BY <2>1, Zenon DEF InOp
  <2> QED
    BY <2>1, <2>2, Zenon DEF CommitAlone
<1>11. CASE install_trans(boot)
  <2>1. (\A u \in Threads : pc'[u] = pc[u]) /\ UNCHANGED <<committing, outstanding>>
    BY <1>11, Zenon DEF install_trans, Goto, TypeOK
  <2>2. InOp' = InOp
    BY <2>1 DEF InOp
  <2> QED
    BY <2>1, <2>2 DEF CommitAlone
<1>12. CASE EraseLog(boot)
  <2>1. (\A u \in Threads : pc'[u] = pc[u]) /\ UNCHANGED <<committing, outstanding>>
    BY <1>12, Zenon DEF EraseLog, Goto, TypeOK
  <2>2. InOp' = InOp
    BY <2>1 DEF InOp
  <2> QED
    BY <2>1, <2>2 DEF CommitAlone
<1>13. CASE Crash
  <2>1. InOp' = {} /\ \A u \in Threads : pc'[u] = "idle"
    BY <1>13, Zenon DEF Crash, InOp
  <2> QED
    BY <1>13, <2>1, FS_EmptySet, Zenon DEF Crash, CommitAlone
<1> QED
  BY <1>1, <1>2, <1>3, <1>4, <1>5, <1>6, <1>7, <1>8, <1>9, <1>10, <1>11, <1>12, <1>13 DEF
     Step

\* The log has no duplicates, and a header that is written fits.
LEMMA AbsorbedStep ==
  ASSUME TypeOK, Control, Header, Absorbed, LogFits, [Next]_vars
  PROVE  Absorbed'
<1> USE LogAssumption, BootAssumption DEF CommitPCs, RecoverPCs, All
<1> SUFFICES ASSUME NEW t \in Threads, NEW b \in Blocks, NEW v \in Data, Step(t, b, v)
    PROVE  Absorbed'
  BY NextIsStep, Zenon DEF vars, TypeOK, Control, Absorbed, Distinct
<1>1. CASE begin_op(t)
  BY <1>1, Zenon DEF begin_op, Up, Goto, TypeOK, Control, Absorbed, Distinct
<1>2. CASE log_write(t, b, v)
  <2>1. CASE b \in Logged
    BY <1>2, <2>1, Zenon DEF log_write, Absorbed, Distinct
  <2>2. CASE b \notin Logged
    <3>1. lh' = Append(lh, b) /\ hdr' = hdr /\ lh \in Seq(Blocks)
      BY <1>2, <2>2, Zenon DEF log_write, TypeOK
    <3>2. \A i \in DOMAIN lh : lh'[i] = lh[i] /\ lh[i] # b
      BY <2>2, <3>1, Appended DEF Logged
    <3>3. lh'[Len(lh) + 1] = b /\ DOMAIN lh' = DOMAIN lh \cup {Len(lh) + 1}
      BY <3>1, Appended
    <3> QED
      BY <3>1, <3>2, <3>3 DEF Absorbed, Distinct
  <2> QED
    BY <2>1, <2>2, Zenon
<1>3. CASE end_op(t)
  BY <1>3, Zenon DEF end_op, Up, Goto, WakeupAndGoto, TypeOK, Control, Absorbed, Distinct
<1>4. CASE write_log(t)
  BY <1>4, Zenon DEF write_log, Up, Goto, TypeOK, Control, Absorbed, Distinct
<1>5. CASE write_head(t)
  BY <1>5, LogLength, Zenon DEF write_head, Absorbed, Distinct
<1>6. CASE install_trans(t)
  BY <1>6, Zenon DEF install_trans, Goto, TypeOK, Control, Absorbed, Distinct
<1>7. CASE EraseLog(t)
  BY <1>7 DEF EraseLog, Goto, TypeOK, Control, Absorbed, Distinct
<1>8. CASE EndCommit(t)
  BY <1>8, Zenon DEF EndCommit, Up, Goto, WakeupAndGoto, TypeOK, Control, Absorbed, Distinct
<1>9. CASE Recycle(b)
  BY <1>9, Zenon DEF Recycle, TypeOK, Control, Absorbed, Distinct
<1>10. CASE read_head
  BY <1>10, Zenon DEF read_head, Goto, TypeOK, Control, Absorbed, Distinct
<1>11. CASE install_trans(boot)
  BY <1>11, Zenon DEF install_trans, Goto, TypeOK, Control, Absorbed, Distinct
<1>12. CASE EraseLog(boot)
  BY <1>12 DEF EraseLog, Goto, TypeOK, Control, Absorbed, Distinct
<1>13. CASE Crash
  BY <1>13 DEF Crash, TypeOK, Control, Absorbed, Distinct
<1> QED
  BY <1>1, <1>2, <1>3, <1>4, <1>5, <1>6, <1>7, <1>8, <1>9, <1>10, <1>11, <1>12, <1>13 DEF
     Step

\* The header is empty outside of installation.
LEMMA HeaderStep ==
  ASSUME TypeOK, Control, CommitAlone, Header, [Next]_vars
  PROVE  Header'
<1> USE LogAssumption, BootAssumption DEF CommitPCs, RecoverPCs, All
<1> SUFFICES ASSUME NEW t \in Threads, NEW b \in Blocks, NEW v \in Data, Step(t, b, v)
    PROVE  Header'
  BY NextIsStep, Zenon DEF vars, TypeOK, Control, CommitAlone, Header, Installing
<1>1. CASE begin_op(t)
  BY <1>1 DEF begin_op, Up, Goto, TypeOK, Control, CommitAlone, Header, Installing
<1>2. CASE log_write(t, b, v)
  <2>1. \A x \in All : ~ Installing(x)
    BY <1>2, Operating, Zenon DEF log_write, Up, Installing
  <2> QED
    BY <1>2, <2>1, Zenon DEF log_write, Header, Installing
<1>3. CASE end_op(t)
  <2>1. pc[boot] = "idle" /\ \A x \in All : ~ Installing(x)
    BY <1>3, Operating, Zenon DEF end_op, Up, Installing
  <2>2. pc'[boot] = "idle" /\ \A x \in All : ~ Installing(x)'
    BY <1>3, <2>1 DEF end_op, Goto, WakeupAndGoto, Installing, TypeOK
  <2> QED
    BY <1>3, <2>1, <2>2, Zenon DEF end_op, Header
<1>4. CASE write_log(t)
  BY <1>4 DEF write_log, Up, Goto, TypeOK, Control, CommitAlone, Header, Installing
<1>5. CASE write_head(t)
  BY <1>5, Zenon DEF write_head, Up, Goto, TypeOK, Control, CommitAlone, Header, Installing
<1>6. CASE install_trans(t)
  BY <1>6, Zenon DEF install_trans, Goto, TypeOK, Control, CommitAlone, Header, Installing
<1>7. CASE EraseLog(t)
  BY <1>7, Zenon DEF EraseLog, Goto, TypeOK, Control, CommitAlone, Header, Installing
<1>8. CASE EndCommit(t)
  BY <1>8, Zenon DEF EndCommit, Up, Goto, WakeupAndGoto, TypeOK, Control, CommitAlone, Header,
     Installing
<1>9. CASE Recycle(b)
  BY <1>9, Zenon DEF Recycle, TypeOK, Control, CommitAlone, Header, Installing
<1>10. CASE read_head
  BY <1>10, Zenon DEF read_head, Goto, TypeOK, Control, CommitAlone, Header, Installing
<1>11. CASE install_trans(boot)
  BY <1>11, Zenon DEF install_trans, Goto, TypeOK, Control, CommitAlone, Header, Installing
<1>12. CASE EraseLog(boot)
  BY <1>12, Zenon DEF EraseLog, Goto, TypeOK, Control, CommitAlone, Header, Installing
<1>13. CASE Crash
  BY <1>13, Zenon DEF Crash, TypeOK, Control, CommitAlone, Header, Installing
<1> QED
  BY <1>1, <1>2, <1>3, <1>4, <1>5, <1>6, <1>7, <1>8, <1>9, <1>10, <1>11, <1>12, <1>13, Zenon DEF
     Step

\* The loops over the log keep their index.
LEMMA ProgressStep ==
  ASSUME TypeOK, Control, CommitAlone, Header, Progress, [Next]_vars
  PROVE  Progress'
<1> USE LogAssumption, BootAssumption DEF CommitPCs, RecoverPCs, All
<1> SUFFICES ASSUME NEW t \in Threads, NEW b \in Blocks, NEW v \in Data, Step(t, b, v)
    PROVE  Progress'
  BY NextIsStep, Zenon DEF vars, TypeOK, Control, CommitAlone, Progress
<1>1. CASE begin_op(t)
  BY <1>1, SMTT(20) DEF begin_op, Up, Goto, TypeOK, Control, CommitAlone, Progress
<1>2. CASE log_write(t, b, v)
  <2>1. \A x \in All : pc[x] \notin CommitPCs
    BY <1>2, Operating, Zenon DEF log_write, Up
  <2> QED
    BY <1>2, <2>1, Zenon DEF log_write, Progress
<1>3. CASE end_op(t)
  BY <1>3 DEF end_op, Up, Goto, WakeupAndGoto, TypeOK, Control, CommitAlone, Progress
<1>4. CASE write_log(t)
  <2>1. /\ pc[t] = "write_log" /\ tail \in Nat /\ tail < Len(lh) /\ tail' = tail + 1 /\ lh' = lh
        /\ Len(lh) \in Nat /\ \A x \in All \ {t} : pc'[x] = pc[x]
    BY <1>4 DEF write_log, Up, Goto, TypeOK, Progress
  <2>2. \A x \in All \ {t} : pc[x] \notin CommitPCs
    BY <2>1, Committer, Zenon
  <2>3. pc'[t] = IF tail + 1 < Len(lh) THEN "write_log" ELSE "write_head"
    BY <1>4, <2>1, Zenon DEF write_log, Goto, TypeOK
  <2> QED
    BY <2>1, <2>2, <2>3, SMTT(20) DEF Progress
<1>5. CASE write_head(t)
  <2>1. /\ pc[t] = "write_head" /\ pc'[t] = "install" /\ tail' = 0 /\ lh' = lh
        /\ \A x \in All \ {t} : pc'[x] = pc[x]
    BY <1>5, Zenon DEF write_head, Up, Goto, TypeOK
  <2>2. \A x \in All \ {t} : pc[x] \notin CommitPCs
    BY <2>1, Committer, Zenon
  <2> QED
    BY <2>1, <2>2, Zenon DEF Progress
<1>6. CASE install_trans(t)
  <2>1. /\ pc[t] = "install" /\ tail \in Nat /\ tail < Len(lh) /\ tail' = tail + 1 /\ lh' = lh
        /\ Len(lh) \in Nat /\ \A x \in All \ {t} : pc'[x] = pc[x]
    BY <1>6 DEF install_trans, Goto, TypeOK, Progress
  <2>2. \A x \in All \ {t} : pc[x] \notin CommitPCs
    BY <2>1, Committer, Zenon
  <2>3. pc'[t] = IF tail + 1 < Len(lh) THEN "install" ELSE "erase"
    BY <1>6, <2>1, Zenon DEF install_trans, Goto, TypeOK
  <2> QED
    BY <2>1, <2>2, <2>3 DEF Progress
<1>7. CASE EraseLog(t)
  BY <1>7, Zenon DEF EraseLog, Goto, TypeOK, Control, CommitAlone, Progress
<1>8. CASE EndCommit(t)
  BY <1>8, Zenon DEF EndCommit, Up, Goto, WakeupAndGoto, TypeOK, Control, CommitAlone, Progress
<1>9. CASE Recycle(b)
  BY <1>9, Zenon DEF Recycle, TypeOK, Control, CommitAlone, Progress
<1>10. CASE read_head
  BY <1>10 DEF read_head, Goto, TypeOK, Control, CommitAlone, Progress
<1>11. CASE install_trans(boot)
  BY <1>11, SMTT(20) DEF install_trans, Goto, TypeOK, Control, CommitAlone, Progress
<1>12. CASE EraseLog(boot)
  BY <1>12, Zenon DEF EraseLog, Goto, TypeOK, Control, CommitAlone, Progress
<1>13. CASE Crash
  BY <1>13, Zenon DEF Crash, TypeOK, Control, CommitAlone, Progress
<1> QED
  BY <1>1, <1>2, <1>3, <1>4, <1>5, <1>6, <1>7, <1>8, <1>9, <1>10, <1>11, <1>12, <1>13 DEF
     Step

\* An operation has logged what it has written.
LEMMA WritesStep ==
  ASSUME TypeOK, Control, CommitAlone, Writes, [Next]_vars
  PROVE  Writes'
<1> USE LogAssumption, BootAssumption DEF CommitPCs, RecoverPCs, All
<1> SUFFICES ASSUME NEW t \in Threads, NEW b \in Blocks, NEW v \in Data, Step(t, b, v)
    PROVE  Writes'
  BY NextIsStep DEF vars, TypeOK, Control, CommitAlone, Writes, Logged
<1>1. CASE begin_op(t)
  BY <1>1 DEF begin_op, Up, Goto, TypeOK, Control, CommitAlone, Writes, Logged
<1>2. CASE log_write(t, b, v)
  <2>1. \A u \in Threads : written'[u] = IF u = t THEN written[t] \cup {b} ELSE written[u]
    BY <1>2, Zenon DEF log_write, TypeOK
  <2>2. Logged' = Logged \cup {b}
    BY <1>2, LoggedGrows, Zenon
  <2> QED
    BY <1>2, <2>1, <2>2 DEF log_write, Writes
<1>3. CASE end_op(t)
  <2>1. \A u \in Threads : pc'[u] = "op" => pc[u] = "op"
    BY <1>3, Zenon DEF end_op, Goto, WakeupAndGoto, TypeOK, Up
  <2> QED
    BY <1>3, <2>1 DEF end_op, Writes, Logged
<1>4. CASE write_log(t)
  BY <1>4 DEF write_log, Up, Goto, TypeOK, Control, CommitAlone, Writes, Logged
<1>5. CASE write_head(t)
  BY <1>5 DEF write_head, Up, Goto, TypeOK, Control, CommitAlone, Writes, Logged
<1>6. CASE install_trans(t)
  BY <1>6 DEF install_trans, Goto, TypeOK, Control, CommitAlone, Writes, Logged
<1>7. CASE EraseLog(t)
  <2>1. \A u \in Threads : pc'[u] # "op"
    BY <1>7, Committer, Zenon DEF EraseLog, Goto, TypeOK
  <2> QED
    BY <2>1, Zenon DEF Writes
<1>8. CASE EndCommit(t)
  BY <1>8 DEF EndCommit, Up, Goto, WakeupAndGoto, TypeOK, Control, CommitAlone, Writes,
     Logged
<1>9. CASE Recycle(b)
  BY <1>9 DEF Recycle, TypeOK, Control, CommitAlone, Writes, Logged
<1>10. CASE read_head
  BY <1>10, Zenon DEF read_head, Goto, TypeOK, Control, CommitAlone, Writes, Logged
<1>11. CASE install_trans(boot)
  BY <1>11, Zenon DEF install_trans, Goto, TypeOK, Control, CommitAlone, Writes, Logged
<1>12. CASE EraseLog(boot)
  BY <1>12, Zenon DEF EraseLog, Goto, TypeOK, Control, CommitAlone, Writes, Logged
<1>13. CASE Crash
  BY <1>13, Zenon DEF Crash, TypeOK, Control, CommitAlone, Writes, Logged
<1> QED
  BY <1>1, <1>2, <1>3, <1>4, <1>5, <1>6, <1>7, <1>8, <1>9, <1>10, <1>11, <1>12, <1>13 DEF
     Step

\* begin_op() reserves enough.
LEMMA FitsStep ==
  ASSUME TypeOK, Control, CommitAlone, Absorbed, Writes, LogFits, [Next]_vars
  PROVE  LogFits'
<1> USE LogAssumption, BootAssumption DEF CommitPCs, RecoverPCs, All
<1> SUFFICES ASSUME NEW t \in Threads, NEW b \in Blocks, NEW v \in Data, Step(t, b, v)
    PROVE  LogFits'
  <2>1. CASE UNCHANGED vars
    <3>1. InOp' = InOp
      BY <2>1, Zenon DEF vars, InOp
    <3>2. StillToWrite' = StillToWrite /\ lh' = lh
      BY <2>1, <3>1, Zenon DEF vars, StillToWrite
    <3> QED
      BY <3>2, Zenon DEF LogFits
  <2> QED
    BY <2>1, NextIsStep, Zenon
<1>1. CASE begin_op(t)
  <2>0. pc[boot] = "idle" /\ pc[t] # "op" /\ lh' = lh
    BY <1>1, Zenon DEF begin_op, Up
  <2>1. CASE committing \/ Len(lh) + (outstanding + 1) * MAXOPBLOCKS > LOGBLOCKS
    <3>1. InOp' \subseteq InOp /\ written' = written
      BY <1>1, <2>1, Zenon DEF begin_op, Goto, InOp, TypeOK
    <3>2. StillToWrite' \subseteq StillToWrite
      BY <3>1, Zenon DEF StillToWrite
    <3> QED
      BY <2>0, <3>2, FitsKept DEF TypeOK
  <2>2. CASE ~ (committing \/ Len(lh) + (outstanding + 1) * MAXOPBLOCKS > LOGBLOCKS)
    <3> DEFINE n == outstanding + 1
    <3>1. Len(lh) \in Nat /\ n \in Nat \ {0} /\ Len(lh) + n * MAXOPBLOCKS <= LOGBLOCKS
      BY <2>2 DEF TypeOK
    <3>2. InOp' = InOp \cup {t} /\ t \notin InOp
      BY <1>1, <2>0, <2>2 DEF begin_op, Goto, InOp, TypeOK
    <3>3. IsFiniteSet(InOp') /\ Cardinality(InOp') = n
      BY <3>2, Counts, FS_AddElement, Zenon DEF CommitAlone
    <3>4. StillToWrite' \in SUBSET (InOp' \X (1 .. OpBlocks))
      BY Zenon DEF StillToWrite
    <3>5. Cardinality(StillToWrite') \in Nat /\ Cardinality(StillToWrite') <= Cardinality(InOp') * OpBlocks
      BY <3>3, <3>4, Reserve, Zenon
    <3>6. Cardinality(StillToWrite') <= n * OpBlocks
      BY <3>3, <3>5, Zenon
    <3>7. n * OpBlocks < n * MAXOPBLOCKS
      BY <3>1, Smaller, Zenon
    <3>8. n * OpBlocks \in Nat /\ n * MAXOPBLOCKS \in Nat
      BY <3>1
    <3> HIDE DEF n
    <3> QED
      BY <2>0, <3>1, <3>5, <3>6, <3>7, <3>8 DEF LogFits
  <2> QED
    BY <2>1, <2>2, Zenon
<1>2. CASE log_write(t, b, v)
  <2> DEFINE k == Cardinality(written[t])
  <2>1. IsFiniteSet(written[t]) /\ k \in Nat
    BY FS_Subset, FS_CardinalityType, Zenon DEF TypeOK
  <2>2. InOp' = InOp /\ t \in InOp /\ written'[t] = written[t] \cup {b}
        /\ \A u \in InOp : u # t => written'[u] = written[u]
    BY <1>2, Zenon DEF log_write, Up, InOp, TypeOK
  <2>3. CASE b \in written[t]
    <3>1. lh' = lh
      BY <1>2, <2>3, Zenon DEF log_write, Up, Writes
    <3>2. written' = written
      BY <1>2, <2>2, <2>3 DEF log_write, TypeOK
    <3>3. StillToWrite' \subseteq StillToWrite
      BY <2>2, <3>2, Zenon DEF StillToWrite
    <3> QED
      BY <3>1, <3>3, FitsKept DEF TypeOK
  <2>4. CASE b \notin written[t]
    <3>1. Cardinality(written'[t]) = k + 1
      BY <2>1, <2>2, <2>4, FS_AddElement, ZenonT(60)
    <3>2. k + 1 <= OpBlocks
      BY <1>2, <2>2, <3>1, Zenon DEF log_write
    <3>3. <<t, k + 1>> \in StillToWrite
      BY <2>1, <2>2, <3>2 DEF StillToWrite
    <3>4. StillToWrite' = StillToWrite \ {<<t, k + 1>>}
      <4>1. ASSUME NEW u \in InOp, NEW i \in 1 .. OpBlocks
            PROVE  <<u, i>> \in StillToWrite' <=>
                     <<u, i>> \in StillToWrite /\ <<u, i>> # <<t, k + 1>>
        <5>1. CASE u = t
          <6>1. <<t, i>> \in StillToWrite' <=> i > k + 1
            BY <2>2, <3>1, Zenon DEF StillToWrite
          <6>2. <<t, i>> \in StillToWrite <=> i > k
            BY <2>2, Zenon DEF StillToWrite
          <6> HIDE DEF k
          <6> QED
            BY <2>1, <5>1, <6>1, <6>2
        <5>2. CASE u # t
          BY <2>2, <5>2, Zenon DEF StillToWrite
        <5> QED
          BY <5>1, <5>2, Zenon
      <4>2. /\ StillToWrite \subseteq InOp \X (1 .. OpBlocks)
            /\ StillToWrite' \subseteq InOp \X (1 .. OpBlocks)
        BY <2>2, Zenon DEF StillToWrite
      <4> QED
        BY <4>1, <4>2
    <3>5. Cardinality(StillToWrite') = Cardinality(StillToWrite) - 1
      BY <3>3, <3>4, Counts, FS_RemoveElement, Zenon
    <3>6. Len(lh) \in Nat /\ Len(lh') \in Nat /\ Len(lh') <= Len(lh) + 1
      <4>1. lh' = lh \/ lh' = Append(lh, b)
        BY <1>2, Zenon DEF log_write
      <4> QED
        BY <4>1, Appended, SMTT(20) DEF TypeOK
    <3> QED
      BY <3>5, <3>6, Counts DEF LogFits
  <2> QED
    BY <2>3, <2>4, Zenon
<1>3. CASE end_op(t)
  <2>1. InOp' \subseteq InOp /\ written' = written /\ Len(lh') \in Nat /\ Len(lh') <= Len(lh)
    BY <1>3 DEF end_op, Up, Goto, WakeupAndGoto, InOp, TypeOK
  <2>2. StillToWrite' \subseteq StillToWrite
    BY <2>1, Zenon DEF StillToWrite
  <2> QED
    BY <2>1, <2>2, FitsKept DEF TypeOK
<1>4. CASE write_log(t)
  <2>1. InOp' \subseteq InOp /\ written' = written /\ Len(lh') \in Nat /\ Len(lh') <= Len(lh)
    BY <1>4, SMTT(20) DEF write_log, Up, Goto, InOp, TypeOK
  <2>2. StillToWrite' \subseteq StillToWrite
    BY <2>1 DEF StillToWrite
  <2> QED
    BY <2>1, <2>2, FitsKept DEF TypeOK
<1>5. CASE write_head(t)
  <2>1. InOp' \subseteq InOp /\ written' = written /\ Len(lh') \in Nat /\ Len(lh') <= Len(lh)
    BY <1>5 DEF write_head, Up, Goto, InOp, TypeOK
  <2>2. StillToWrite' \subseteq StillToWrite
    BY <2>1 DEF StillToWrite
  <2> QED
    BY <2>1, <2>2, FitsKept DEF TypeOK
<1>6. CASE install_trans(t)
  <2>1. InOp' \subseteq InOp /\ written' = written /\ Len(lh') \in Nat /\ Len(lh') <= Len(lh)
    BY <1>6, SMTT(20) DEF install_trans, Goto, InOp, TypeOK
  <2>2. StillToWrite' \subseteq StillToWrite
    BY <2>1 DEF StillToWrite
  <2> QED
    BY <2>1, <2>2, FitsKept DEF TypeOK
<1>7. CASE EraseLog(t)
  <2>1. InOp' \subseteq InOp /\ written' = written /\ Len(lh') \in Nat /\ Len(lh') <= Len(lh)
    BY <1>7 DEF EraseLog, Goto, InOp, TypeOK
  <2>2. StillToWrite' \subseteq StillToWrite
    BY <2>1 DEF StillToWrite
  <2> QED
    BY <2>1, <2>2, FitsKept DEF TypeOK
<1>8. CASE EndCommit(t)
  <2>1. InOp' \subseteq InOp /\ written' = written /\ Len(lh') \in Nat /\ Len(lh') <= Len(lh)
    BY <1>8 DEF EndCommit, Up, WakeupAndGoto, InOp, TypeOK
  <2>2. StillToWrite' \subseteq StillToWrite
    BY <2>1 DEF StillToWrite
  <2> QED
    BY <2>1, <2>2, FitsKept DEF TypeOK
<1>9. CASE Recycle(b)
  <2>1. InOp' \subseteq InOp /\ written' = written /\ Len(lh') \in Nat /\ Len(lh') <= Len(lh)
    BY <1>9 DEF Recycle, InOp, TypeOK
  <2>2. StillToWrite' \subseteq StillToWrite
    BY <2>1 DEF StillToWrite
  <2> QED
    BY <2>1, <2>2, FitsKept DEF TypeOK
<1>10. CASE read_head
  <2>1. lh' = hdr /\ Len(hdr) \in Nat
    BY <1>10 DEF read_head, TypeOK
  <2>2. InOp' = {}
    BY <1>10, Zenon DEF read_head, Goto, InOp, Control, TypeOK
  <2>3. StillToWrite' = {}
    BY <2>2, Zenon DEF StillToWrite
  <2> QED
    BY <2>1, <2>3, FS_EmptySet DEF LogFits, Absorbed
<1>11. CASE install_trans(boot)
  <2>1. InOp' \subseteq InOp /\ written' = written /\ Len(lh') \in Nat /\ Len(lh') <= Len(lh)
    BY <1>11, SMTT(20) DEF install_trans, Goto, InOp, TypeOK
  <2>2. StillToWrite' \subseteq StillToWrite
    BY <2>1 DEF StillToWrite
  <2> QED
    BY <2>1, <2>2, FitsKept DEF TypeOK
<1>12. CASE EraseLog(boot)
  <2>1. InOp' \subseteq InOp /\ written' = written /\ Len(lh') \in Nat /\ Len(lh') <= Len(lh)
    BY <1>12 DEF EraseLog, Goto, InOp, TypeOK
  <2>2. StillToWrite' \subseteq StillToWrite
    BY <2>1 DEF StillToWrite
  <2> QED
    BY <2>1, <2>2, FitsKept DEF TypeOK
<1>13. CASE Crash
  <2>1. InOp' = {} /\ lh' = <<>> /\ StillToWrite' = {}
    BY <1>13, Zenon DEF Crash, InOp, StillToWrite
  <2> QED
    BY <2>1, FitsKept DEF TypeOK
<1> QED
  BY <1>1, <1>2, <1>3, <1>4, <1>5, <1>6, <1>7, <1>8, <1>9, <1>10, <1>11, <1>12, <1>13 DEF
     Step
=============================================================================
