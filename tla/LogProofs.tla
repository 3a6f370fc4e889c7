----------------------------- MODULE LogProofs ------------------------------
(***************************************************************************)
(* Proofs about module Log: where the newest contents of a block are at    *)
(* each step of a commit and of recovery, the theorems, and the refinement *)
(* of module AtomicDisk.                                                   *)
(***************************************************************************)
EXTENDS LogTypes

\* The log blocks of a commit are those of the cache.
LEMMA CopiedStep ==
  ASSUME TypeOK, Control, CommitAlone, Absorbed, Progress, LogFits, Installed, Pins, Copied, [Next]_vars
  PROVE  Copied'
<1> USE LogAssumption, BootAssumption DEF CommitPCs, RecoverPCs, All
<1> SUFFICES ASSUME NEW t \in Threads, NEW b \in Blocks, NEW v \in Data, Step(t, b, v)
    PROVE  Copied'
  BY NextIsStep, Zenon DEF vars, Copied, Installing
<1>1. CASE begin_op(t)
  <2>1. \A u \in Threads : pc'[u] \in CommitPCs => pc'[u] = pc[u]
    BY <1>1, Zenon DEF begin_op, Goto, TypeOK
  <2> QED
    BY <1>1, <2>1, Zenon DEF begin_op, Copied, Installing
<1>2. CASE log_write(t, b, v)
  <2>1. \A x \in All : pc[x] \notin CommitPCs
    BY <1>2, Operating, Zenon DEF log_write, Up
  <2> QED
    BY <1>2, <2>1, Zenon DEF log_write, Copied, Installing
<1>3. CASE end_op(t)
  <2>1. \A x \in All : pc[x] \notin CommitPCs
    BY <1>3, Operating, Zenon DEF end_op, Up
  <2>2. \A u \in Threads : pc'[u] \in CommitPCs => pc'[u] \in {"write_log", "end_commit"} /\ tail' = 0
    BY <1>3, <2>1 DEF end_op, Goto, WakeupAndGoto, TypeOK
  <2> QED
    BY <2>2 DEF Copied, Installing
<1>4. CASE write_log(t)
  <2>1. \A x \in All \ {t} : pc[x] \notin CommitPCs /\ pc'[x] = pc[x]
    BY <1>4, Committer, Zenon DEF write_log, Up, Goto, TypeOK
  <2>2. /\ tail \in Nat /\ tail < Len(lh) /\ tail + 1 \in 1 .. LOGBLOCKS
        /\ pc[t] = "write_log" /\ pc'[t] \in {"write_log", "write_head"}
    BY <1>4, LogLength DEF write_log, Up, Goto, Progress, TypeOK
  <2>3. /\ \A i \in 1 .. LOGBLOCKS : logblk'[i] = IF i = tail + 1 THEN cache[lh[i]] ELSE logblk[i]
        /\ tail' = tail + 1 /\ cache' = cache /\ lh' = lh
    BY <1>4, <2>2, Zenon DEF write_log, TypeOK
  <2>4. \A i \in 1 .. tail' : logblk'[i] = cache'[lh'[i]]
    BY <2>2, <2>3 DEF Copied, TypeOK
  <2> QED
    BY <2>1, <2>2, <2>4 DEF Copied, Installing
<1>5. CASE write_head(t)
  <2>1. \A x \in All \ {t} : pc[x] \notin CommitPCs /\ pc'[x] = pc[x]
    BY <1>5, Committer, Zenon DEF write_head, Up, Goto, TypeOK
  <2>2. \A i \in DOMAIN lh : logblk[i] = cache[lh[i]]
    BY <1>5 DEF write_head, Up, Progress, Copied, TypeOK
  <2>3. pc'[t] = "install" /\ UNCHANGED <<lh, logblk, cache>>
    BY <1>5, Zenon DEF write_head, Goto, TypeOK
  <2> QED
    BY <2>1, <2>2, <2>3 DEF Copied, Installing
<1>6. CASE install_trans(t)
  <2>1. \A x \in All \ {t} : pc[x] \notin CommitPCs /\ pc'[x] = pc[x]
    BY <1>6, Committer, Zenon DEF install_trans, Up, Goto, TypeOK
  <2>2. tail + 1 \in DOMAIN lh
    BY <1>6 DEF install_trans, Progress, TypeOK
  <2>3. /\ \A i \in DOMAIN lh : cache'[lh[i]] = IF i = tail + 1 THEN logblk[i] ELSE cache[lh[i]]
        /\ logblk' = logblk /\ lh' = lh /\ pc'[t] \in {"install", "erase"}
    BY <1>6, <2>2 DEF install_trans, Goto, Absorbed, Distinct, TypeOK
  <2> QED
    BY <1>6, <2>1, <2>3 DEF install_trans, Copied, Installing
<1>7. CASE EraseLog(t)
  <2>1. \A x \in All \ {t} : pc[x] \notin CommitPCs /\ pc'[x] = pc[x]
    BY <1>7, Committer, Zenon DEF EraseLog, Up, Goto, TypeOK
  <2>2. pc'[t] = "end_commit"
    BY <1>7, Zenon DEF EraseLog, Goto, TypeOK
  <2> QED
    BY <2>1, <2>2 DEF Copied, Installing
<1>8. CASE EndCommit(t)
  <2>1. \A u \in Threads : pc'[u] \notin CommitPCs
    BY <1>8, Committer, Zenon DEF EndCommit, Up, WakeupAndGoto, TypeOK
  <2> QED
    BY <2>1, Zenon DEF Copied, Installing
<1>9. CASE Recycle(b)
  <2>1. ASSUME NEW u \in Threads, NEW i \in DOMAIN lh, logblk[i] = cache[lh[i]],
               pc[u] \in {"write_log", "write_head"} \/ Installing(u)
        PROVE  logblk[i] = cache'[lh[i]]
    <3>1. CASE lh[i] # b
      BY <1>9, <2>1, <3>1 DEF Recycle, TypeOK
    <3>2. CASE lh[i] = b /\ pc[u] \in {"write_log", "write_head"}
      <4>1. pinned = Logged
        BY <3>2, Committer, Zenon DEF Pins, Installing
      <4> QED
        BY <1>9, <3>2, <4>1, Zenon DEF Recycle, Logged
    <3>3. CASE lh[i] = b /\ Installing(u)
      <4>1. i \notin tail + 1 .. Len(lh)
        BY <1>9, <3>3, Zenon DEF Recycle, Pins
      <4>2. i \in 1 .. tail
        BY <4>1 DEF TypeOK
      <4>3. disk[b] = logblk[i]
        BY <3>3, <4>2, Zenon DEF Installed
      <4> QED
        BY <1>9, <3>3, <4>3, Zenon DEF Recycle, TypeOK
    <3> QED
      BY <2>1, <3>1, <3>2, <3>3, Zenon
  <2>2. \A u \in Threads : pc[u] \in {"write_log", "write_head"} => 1 .. tail \subseteq DOMAIN lh
    BY DEF Progress, TypeOK
  <2> QED
    BY <1>9, <2>1, <2>2 DEF Recycle, Copied, Installing
<1>10. CASE read_head
  <2>1. \A u \in Threads : pc'[u] = "idle"
    BY <1>10, Zenon DEF read_head, Control, Goto, TypeOK
  <2> QED
    BY <2>1, Zenon DEF Copied, Installing
<1>11. CASE install_trans(boot)
  <2>1. \A u \in Threads : pc'[u] = "idle"
    BY <1>11, Zenon DEF install_trans, Control, Goto, TypeOK
  <2> QED
    BY <2>1 DEF Copied, Installing
<1>12. CASE EraseLog(boot)
  <2>1. \A u \in Threads : pc'[u] = "idle"
    BY <1>12, Zenon DEF EraseLog, Control, Goto, TypeOK
  <2> QED
    BY <2>1 DEF Copied, Installing
<1>13. CASE Crash
  <2>1. \A u \in Threads : pc'[u] = "idle"
    BY <1>13, Zenon DEF Crash, Control, Goto, TypeOK
  <2> QED
    BY <2>1 DEF Copied, Installing
<1> QED
  BY <1>1, <1>2, <1>3, <1>4, <1>5, <1>6, <1>7, <1>8, <1>9, <1>10, <1>11, <1>12, <1>13 DEF
     Step

\* Blocks that are installed stay at home.
LEMMA InstalledStep ==
  ASSUME TypeOK, Control, CommitAlone, Absorbed, Progress, Installed, [Next]_vars
  PROVE  Installed'
<1> USE LogAssumption, BootAssumption DEF CommitPCs, RecoverPCs, All
<1> SUFFICES ASSUME NEW t \in Threads, NEW b \in Blocks, NEW v \in Data, Step(t, b, v)
    PROVE  Installed'
  BY NextIsStep, Zenon DEF vars, Installed, Installing
<1>1. CASE begin_op(t)
  <2>1. \A x \in All : Installing(x)' => Installing(x)
    BY <1>1, Zenon DEF begin_op, Goto, Installing, TypeOK
  <2> QED
    BY <1>1, <2>1, Zenon DEF begin_op, Installed
<1>2. CASE log_write(t, b, v)
  <2>1. \A x \in All : pc[x] \notin CommitPCs
    BY <1>2, Operating, Zenon DEF log_write, Up
  <2> QED
    BY <1>2, <2>1, Zenon DEF log_write, Installed, Installing
<1>3. CASE end_op(t)
  <2>1. \A x \in All : pc[x] \notin CommitPCs
    BY <1>3, Operating, Zenon DEF end_op, Up
  <2>2. \A x \in All : ~ Installing(x)'
    BY <1>3, <2>1 DEF end_op, Goto, WakeupAndGoto, Installing, TypeOK
  <2> QED
    BY <2>2, Zenon DEF Installed
<1>4. CASE write_log(t)
  <2>1. \A x \in All : ~ Installing(x)
    BY <1>4, Committer, Zenon DEF write_log, Up, Installing
  <2>2. \A x \in All : ~ Installing(x)'
    BY <1>4, <2>1, Zenon DEF write_log, Goto, WakeupAndGoto, Installing, TypeOK
  <2> QED
    BY <2>2 DEF Installed
<1>5. CASE write_head(t)
  BY <1>5 DEF write_head, Installed
<1>6. CASE install_trans(t)
  <2>2. tail + 1 \in DOMAIN lh /\ tail \in Nat
    BY <1>6 DEF install_trans, Progress, TypeOK
  <2>3. /\ \A i \in DOMAIN lh : disk'[lh[i]] = IF i = tail + 1 THEN logblk[i] ELSE disk[lh[i]]
        /\ logblk' = logblk /\ lh' = lh /\ tail' = tail + 1
    BY <1>6, <2>2 DEF install_trans, Absorbed, Distinct, TypeOK
  <2>4. \A i \in 1 .. tail' : disk'[lh'[i]] = logblk'[i]
    BY <1>6, <2>2, <2>3 DEF install_trans, Installed, Installing
  <2> QED
    BY <2>4, Zenon DEF Installed
<1>7. CASE EraseLog(t)
  <2>1. \A x \in All \ {t} : pc[x] \notin CommitPCs /\ pc'[x] = pc[x]
    BY <1>7, Committer, Zenon DEF EraseLog, Up, Goto, TypeOK
  <2>2. \A x \in All : ~ Installing(x)'
    BY <1>7, <2>1, Zenon DEF EraseLog, Goto, WakeupAndGoto, Installing, TypeOK
  <2> QED
    BY <2>2 DEF Installed
<1>8. CASE EndCommit(t)
  <2>1. \A x \in All : ~ Installing(x)
    BY <1>8, Committer, Zenon DEF EndCommit, Up, Installing
  <2>2. \A x \in All : ~ Installing(x)'
    BY <1>8, <2>1, Zenon DEF EndCommit, Goto, WakeupAndGoto, Installing, TypeOK
  <2> QED
    BY <2>2 DEF Installed
<1>9. CASE Recycle(b)
  BY <1>9, Zenon DEF Recycle, Installed, Installing
<1>10. CASE read_head
  <2>1. tail' = 0
    BY <1>10, Zenon DEF read_head
  <2> QED
    BY <2>1 DEF Installed
<1>11. CASE install_trans(boot)
  <2>2. tail + 1 \in DOMAIN lh /\ tail \in Nat
    BY <1>11 DEF install_trans, Progress, TypeOK
  <2>3. /\ \A i \in DOMAIN lh : disk'[lh[i]] = IF i = tail + 1 THEN logblk[i] ELSE disk[lh[i]]
        /\ logblk' = logblk /\ lh' = lh /\ tail' = tail + 1
    BY <1>11, <2>2 DEF install_trans, Absorbed, Distinct, TypeOK
  <2>4. \A i \in 1 .. tail' : disk'[lh'[i]] = logblk'[i]
    BY <1>11, <2>2, <2>3 DEF install_trans, Installed, Installing
  <2> QED
    BY <2>4 DEF Installed
<1>12. CASE EraseLog(boot)
  <2>1. \A u \in Threads : pc[u] = "idle"
    BY <1>12, Zenon DEF EraseLog, Control
  <2>2. \A x \in All : ~ Installing(x)'
    BY <1>12, <2>1, Zenon DEF EraseLog, Goto, WakeupAndGoto, Installing, TypeOK
  <2> QED
    BY <2>2 DEF Installed
<1>13. CASE Crash
  BY <1>13 DEF Crash, Installed
<1> QED
  BY <1>1, <1>2, <1>3, <1>4, <1>5, <1>6, <1>7, <1>8, <1>9, <1>10, <1>11, <1>12, <1>13 DEF
     Step

\* log_write() pins, and install_trans() unpins what is at home.
LEMMA PinsStep ==
  ASSUME TypeOK, Control, CommitAlone, Absorbed, Progress, Pins, [Next]_vars
  PROVE  Pins'
<1> USE LogAssumption, BootAssumption DEF CommitPCs, RecoverPCs, All
<1> SUFFICES ASSUME NEW t \in Threads, NEW b \in Blocks, NEW v \in Data, Step(t, b, v)
    PROVE  Pins'
  BY NextIsStep, Zenon DEF vars, Pins, Installing, Logged
<1>1. CASE begin_op(t)
  <2>1. \A x \in All : Installing(x)' <=> Installing(x)
    BY <1>1 DEF begin_op, Up, Goto, Installing, TypeOK
  <2>2. pc'[boot] = pc[boot]
    BY <1>1, Zenon DEF begin_op, Goto, TypeOK
  <2> QED
    BY <1>1, <2>1, <2>2 DEF begin_op, Pins, Logged
<1>2. CASE log_write(t, b, v)
  <2>1. \A x \in All : pc[x] \notin CommitPCs
    BY <1>2, Operating DEF log_write, Up
  <2>2. pinned = Logged /\ pc' = pc
    BY <1>2, <2>1, Zenon DEF log_write, Up, Pins, Installing
  <2>3. Logged' = Logged \cup {b}
    BY <1>2, LoggedGrows, Zenon
  <2>4. pinned' = pinned \cup {b}
    BY <1>2, <2>2, Zenon DEF log_write
  <2> QED
    BY <2>1, <2>2, <2>3, <2>4, Zenon DEF Pins, Installing
<1>3. CASE end_op(t)
  <2>1. \A x \in All : pc[x] \notin CommitPCs
    BY <1>3, Operating DEF end_op, Up
  <2>2. \A u \in Threads : ~ Installing(u)'
    BY <1>3, <2>1 DEF end_op, Goto, WakeupAndGoto, Installing, TypeOK
  <2>3. pinned = Logged /\ pinned' = pinned /\ Logged' = Logged
    BY <1>3, <2>1, Zenon DEF end_op, Up, Pins, Installing, Logged
  <2> QED
    BY <2>2, <2>3, Zenon DEF Pins
<1>4. CASE write_log(t)
  <2>1. \A x \in All \ {t} : pc[x] \notin CommitPCs /\ pc'[x] = pc[x]
    BY <1>4, Committer, Zenon DEF write_log, Up, Goto, TypeOK
  <2>2. \A u \in Threads : ~ Installing(u) /\ ~ Installing(u)'
    BY <1>4, <2>1, Zenon DEF write_log, Up, Goto, Installing, TypeOK
  <2>3. pinned = Logged /\ pinned' = pinned /\ Logged' = Logged
    BY <1>4, <2>2, Zenon DEF write_log, Up, Pins, Logged
  <2> QED
    BY <2>2, <2>3, Zenon DEF Pins
<1>5. CASE write_head(t)
  <2>1. \A x \in All \ {t} : pc[x] \notin CommitPCs /\ pc'[x] = pc[x]
    BY <1>5, Committer, Zenon DEF write_head, Up, Goto, TypeOK
  <2>2. \A u \in Threads : ~ Installing(u)
    BY <1>5, <2>1, Zenon DEF write_head, Up, Installing
  <2>3. pinned = Logged /\ pinned' = pinned /\ lh' = lh /\ tail' = 0 /\ Installing(t)'
    BY <1>5, <2>2, Zenon DEF write_head, Up, Pins, Goto, Installing, TypeOK
  <2>4. Logged = {lh[i] : i \in 0 + 1 .. Len(lh)}
    BY DEF Logged, TypeOK
  <2> QED
    BY <2>3, <2>4, Zenon DEF Pins
<1>6. CASE install_trans(t)
  <2>1. tail + 1 \in DOMAIN lh /\ tail \in Nat /\ Installing(t) /\ Installing(t)'
    BY <1>6 DEF install_trans, Progress, Goto, Installing, TypeOK
  <2>2. pinned' = pinned \ {lh[tail + 1]} /\ lh' = lh /\ tail' = tail + 1
    BY <1>6, Zenon DEF install_trans
  <2>3. pinned' = {lh[i] : i \in tail + 2 .. Len(lh)}
    <3>1. pinned = {lh[i] : i \in tail + 1 .. Len(lh)}
      BY <2>1, Zenon DEF Pins
    <3>2. tail + 1 .. Len(lh) = {tail + 1} \cup (tail + 2 .. Len(lh))
      BY <2>1 DEF TypeOK
    <3>3. \A i \in tail + 2 .. Len(lh) : lh[i] # lh[tail + 1]
      BY <2>1 DEF Absorbed, Distinct, TypeOK
    <3> QED
      BY <2>2, <3>1, <3>2, <3>3, Zenon
  <2> QED
    BY <2>1, <2>2, <2>3 DEF Pins
<1>7. CASE EraseLog(t)
  <2>1. pinned = {} /\ pinned' = pinned /\ lh' = <<>>
    BY <1>7 DEF EraseLog, Progress, Pins, Installing, TypeOK
  <2>2. \A u \in Threads : ~ Installing(u)'
    BY <1>7, Committer, Zenon DEF EraseLog, Goto, Installing, TypeOK
  <2> QED
    BY <2>1, <2>2 DEF Pins, Logged
<1>8. CASE EndCommit(t)
  <2>1. \A u \in Threads : ~ Installing(u) /\ ~ Installing(u)'
    BY <1>8, Committer, Zenon DEF EndCommit, Up, WakeupAndGoto, Installing, TypeOK
  <2>2. pinned = Logged /\ pinned' = pinned /\ Logged' = Logged
    BY <1>8, <2>1, Zenon DEF EndCommit, Up, Pins, Logged
  <2> QED
    BY <2>1, <2>2 DEF Pins
<1>9. CASE Recycle(b)
  BY <1>9, Zenon DEF Recycle, Pins, Installing, Logged
<1>10. CASE read_head
  <2>1. pc'[boot] # "idle" /\ \A u \in Threads : pc'[u] = "idle"
    BY <1>10, Zenon DEF read_head, Control, Goto, TypeOK
  <2> QED
    BY <2>1, Zenon DEF Pins, Installing
<1>11. CASE install_trans(boot)
  <2>1. pc'[boot] # "idle" /\ \A u \in Threads : pc'[u] = "idle"
    BY <1>11, Zenon DEF install_trans, Control, Goto, TypeOK
  <2> QED
    BY <2>1 DEF Pins, Installing
<1>12. CASE EraseLog(boot)
  <2>1. pinned' = {} /\ lh' = <<>> /\ \A u \in Threads : pc'[u] = "idle"
    BY <1>12, Zenon DEF EraseLog, Control, Goto, TypeOK
  <2> QED
    BY <2>1 DEF Pins, Installing, Logged
<1>13. CASE Crash
  <2>1. pc'[boot] # "idle" /\ \A u \in Threads : pc'[u] = "idle"
    BY <1>13, Zenon DEF Crash, Control, Goto, TypeOK
  <2> QED
    BY <2>1 DEF Pins, Installing
<1> QED
  BY <1>1, <1>2, <1>3, <1>4, <1>5, <1>6, <1>7, <1>8, <1>9, <1>10, <1>11, <1>12, <1>13 DEF
     Step

\* A block that only the cache has stays pinned.
LEMMA DirtyStep ==
  ASSUME TypeOK, Control, CommitAlone, Progress, Pins, DirtyIsPinned, [Next]_vars
  PROVE  DirtyIsPinned'
<1> USE LogAssumption, BootAssumption DEF CommitPCs, RecoverPCs, All
<1> SUFFICES ASSUME NEW t \in Threads, NEW b \in Blocks, NEW v \in Data, Step(t, b, v)
    PROVE  DirtyIsPinned'
  BY NextIsStep, Zenon DEF vars, DirtyIsPinned, Logged
<1>1. CASE begin_op(t)
  BY <1>1, Zenon DEF begin_op, DirtyIsPinned, Logged
<1>2. CASE log_write(t, b, v)
  <2>1. \A x \in All : pc[x] \notin CommitPCs
    BY <1>2, Operating, Zenon DEF log_write, Up
  <2>2. pinned = Logged
    BY <1>2, <2>1, Zenon DEF log_write, Up, Pins, Installing
  <2>3. Logged' = Logged \cup {b} /\ pinned' = pinned \cup {b}
    BY <1>2, <2>2, LoggedGrows, Zenon DEF log_write
  <2>4. disk' = disk /\ \A d \in Blocks : d # b => cache'[d] = cache[d]
    BY <1>2, Zenon DEF log_write, TypeOK
  <2> QED
    BY <2>3, <2>4, Zenon DEF DirtyIsPinned
<1>3. CASE end_op(t)
  BY <1>3, Zenon DEF end_op, DirtyIsPinned, Logged
<1>4. CASE write_log(t)
  BY <1>4, Zenon DEF write_log, DirtyIsPinned, Logged
<1>5. CASE write_head(t)
  BY <1>5, Zenon DEF write_head, DirtyIsPinned, Logged
<1>6. CASE install_trans(t)
  <2>1. lh[tail + 1] \in Blocks
    BY <1>6 DEF install_trans, Progress, TypeOK
  <2>2. \A d \in Blocks : cache'[d] # disk'[d] => cache[d] # disk[d] /\ d # lh[tail + 1]
    BY <1>6, <2>1, Zenon DEF install_trans, TypeOK
  <2>3. pinned' = pinned \ {lh[tail + 1]} /\ Logged' = Logged
    BY <1>6, Zenon DEF install_trans, Logged
  <2> QED
    BY <2>2, <2>3, Zenon DEF DirtyIsPinned
<1>7. CASE EraseLog(t)
  <2>1. pinned = {}
    BY <1>7 DEF EraseLog, Progress, Pins, Installing, TypeOK
  <2> QED
    BY <1>7, <2>1, Zenon DEF EraseLog, DirtyIsPinned
<1>8. CASE EndCommit(t)
  BY <1>8, Zenon DEF EndCommit, DirtyIsPinned, Logged
<1>9. CASE Recycle(b)
  BY <1>9 DEF Recycle, DirtyIsPinned, Logged, TypeOK
<1>10. CASE read_head
  BY <1>10, Zenon DEF read_head, Control, DirtyIsPinned
<1>11. CASE install_trans(boot)
  <2>1. cache = disk
    BY <1>11, Zenon DEF install_trans, Control
  <2>2. cache' = disk'
    BY <1>11, <2>1, Zenon DEF install_trans
  <2> QED
    BY <2>2, Zenon DEF DirtyIsPinned
<1>12. CASE EraseLog(boot)
  BY <1>12, Zenon DEF EraseLog, Control, DirtyIsPinned
<1>13. CASE Crash
  BY <1>13, Zenon DEF Crash, DirtyIsPinned
<1> QED
  BY <1>1, <1>2, <1>3, <1>4, <1>5, <1>6, <1>7, <1>8, <1>9, <1>10, <1>11, <1>12, <1>13, Zenon DEF
     Step

-----------------------------------------------------------------------------
(* The invariant. *)

\* It holds when mkfs has made the disk and the kernel boots.
LEMMA InitInv == Init => IInv
<1> SUFFICES ASSUME Init PROVE IInv
  OBVIOUS
<1> USE LogAssumption, BootAssumption DEF CommitPCs, RecoverPCs, All
<1>1. /\ pc[boot] = "read_head" /\ \A t \in Threads : pc[t] = "idle"
      /\ lh = <<>> /\ hdr = <<>> /\ cache = disk
  BY Zenon DEF Init
<1>2. TypeOK
  <2>1. disk[CHOOSE b \in Blocks : TRUE] \in Data
    BY Zenon DEF Init
  <2>2. lh \in Seq(Blocks) /\ hdr \in Seq(Blocks)
    BY <1>1
  <2>3. disk \in [Blocks -> Data] /\ logblk \in [1 .. LOGBLOCKS -> Data] /\ cache \in [Blocks -> Data]
    BY <1>1, <2>1, Zenon DEF Init
  <2>4. pc \in [All -> {"idle", "asleep", "awake", "op"} \cup CommitPCs \cup RecoverPCs]
    BY Zenon DEF Init
  <2>5. pinned \in SUBSET Blocks /\ written \in [Threads -> SUBSET Blocks]
    BY Zenon DEF Init
  <2>6. outstanding \in Nat /\ tail \in Nat /\ crashes \in 0 .. MaxCrashes
    BY DEF Init
  <2>7. committing \in BOOLEAN
    BY Zenon DEF Init
  <2> QED
    BY <2>2, <2>3, <2>4, <2>5, <2>6, <2>7 DEF TypeOK
<1>3. InOp = {}
  BY <1>1, Zenon DEF InOp
<1>4. CommitAlone
  BY <1>1, <1>3, FS_EmptySet, Zenon DEF Init, CommitAlone
<1>5. LogFits
  <2>1. StillToWrite = {}
    BY <1>3, Zenon DEF StillToWrite
  <2> QED
    BY <1>1, <2>1, FS_EmptySet DEF LogFits
<1>6. Control /\ Absorbed /\ Header /\ Progress /\ Writes
  BY <1>1 DEF Init, Control, Absorbed, Distinct, Header, Installing, Progress, Writes
<1>7. Copied /\ Installed /\ Pins /\ DirtyIsPinned
  BY <1>1, Zenon DEF Copied, Installed, Installing, Pins, DirtyIsPinned
<1> QED
  BY <1>2, <1>4, <1>5, <1>6, <1>7, Zenon DEF IInv

\* Every step keeps it.
LEMMA NextInv == IInv /\ [Next]_vars => IInv'
<1> SUFFICES ASSUME IInv, [Next]_vars PROVE IInv'
  OBVIOUS
<1>1. TypeOK' /\ Control' /\ CommitAlone' /\ Absorbed' /\ Header' /\ Progress'
  BY TypeStep, ControlStep, AloneStep, AbsorbedStep, HeaderStep, ProgressStep, Zenon DEF IInv
<1>2. Writes' /\ LogFits' /\ Copied' /\ Installed' /\ Pins' /\ DirtyIsPinned'
  BY WritesStep, FitsStep, CopiedStep, InstalledStep, PinsStep, DirtyStep, Zenon DEF IInv
<1> QED
  BY <1>1, <1>2, Zenon DEF IInv

\* It holds in every state that the log can reach.
LEMMA Invariance == Spec => []IInv
<1> QED
  BY InitInv, NextInv, PTL DEF Spec

\* The log's variables keep their types.
THEOREM TypeCorrect == Spec => []TypeOK
<1>1. IInv => TypeOK
  BY Zenon DEF IInv
<1> QED
  BY <1>1, Invariance, PTL

\* However many operations run at once, begin_op() lets in no more than the log has
\* space for, so that log_write() never panics.
THEOREM NeverTooBig == Spec => []LogFits
<1>1. IInv => LogFits
  BY Zenon DEF IInv
<1> QED
  BY <1>1, Invariance, PTL

\* commit() runs in one thread at a time, and with no operation under way.
THEOREM CommitsAlone == Spec => []CommitAlone
<1>1. IInv => CommitAlone
  BY Zenon DEF IInv
<1> QED
  BY <1>1, Invariance, PTL

\* The buffer cache never drops the only copy of a block.
THEOREM DirtyStays == Spec => []DirtyIsPinned
<1>1. IInv => DirtyIsPinned
  BY Zenon DEF IInv
<1> QED
  BY <1>1, Invariance, PTL

-----------------------------------------------------------------------------
(* The refinement of AtomicDisk. *)

\* What the CHOOSE of Durable finds: a block without duplicates in the header has one
\* place in the log.
LEMMA Contents ==
  ASSUME NEW h \in Seq(Blocks), Distinct(h), NEW l, NEW d, NEW c,
         c = [b \in Blocks |-> IF \E i \in DOMAIN h : h[i] = b
                               THEN l[CHOOSE i \in DOMAIN h : h[i] = b] ELSE d[b]]
  PROVE  /\ \A i \in DOMAIN h : c[h[i]] = l[i]
         /\ \A b \in Blocks : (\A i \in DOMAIN h : h[i] # b) => c[b] = d[b]
<1>1. ASSUME NEW i \in DOMAIN h
      PROVE  c[h[i]] = l[i]
  <2>1. h[i] \in Blocks
    OBVIOUS
  <2>2. (CHOOSE j \in DOMAIN h : h[j] = h[i]) = i
    BY Zenon DEF Distinct
  <2> QED
    BY <2>1, <2>2, Zenon
<1> QED
  BY <1>1, Zenon

\* The same for the log on the disk.
LEMMA DurableIs ==
  ASSUME TypeOK, Absorbed
  PROVE  /\ \A i \in DOMAIN hdr : Durable[hdr[i]] = logblk[i]
         /\ \A b \in Blocks : (\A i \in DOMAIN hdr : hdr[i] # b) => Durable[b] = disk[b]
<1> QED
  BY Contents, SMTT(20) DEF Durable, TypeOK, Absorbed

\* Durable as a function of the header, the log and the disk after a step.
LEMMA DurableNext ==
  ASSUME TypeOK', Absorbed'
  PROVE  /\ \A i \in DOMAIN hdr' : Durable'[hdr'[i]] = logblk'[i]
         /\ \A b \in Blocks : (\A i \in DOMAIN hdr' : hdr'[i] # b) => Durable'[b] = disk'[b]
<1> QED
  BY Contents, SMTT(20) DEF Durable, TypeOK, Absorbed

\* It is a function of the blocks.
LEMMA DurableFun ==
  Durable = [b \in Blocks |-> Durable[b]] /\ Durable' = [b \in Blocks |-> Durable'[b]]
<1> QED
  BY Zenon DEF Durable

\* What the file system sees while it is up, and after a crash.
LEMMA MemIs ==
  /\ pc[boot] = "idle" => Mem = cache
  /\ pc[boot] # "idle" => Mem = Durable
  /\ (pc[boot] = "idle" => Mem = cache)'
  /\ (pc[boot] # "idle" => Mem = Durable)'
<1> QED
  BY Zenon DEF Mem

\* A step that leaves the disk alone leaves alone what is durable.
LEMMA DurableKept ==
  ASSUME UNCHANGED <<disk, hdr, logblk>>
  PROVE  Durable' = Durable
<1> QED
  BY Zenon DEF Durable

\* Installing a logged block changes nothing of what is durable.
LEMMA DurableInstall ==
  ASSUME IInv, IInv', NEW x \in All, install_trans(x)
  PROVE  Durable' = Durable
<1>1. /\ hdr = lh /\ hdr' = hdr /\ logblk' = logblk /\ lh \in Seq(Blocks)
      /\ tail + 1 \in DOMAIN lh
  BY SMTT(20) DEF IInv, install_trans, Header, Installing, Progress, TypeOK
<1>2. \A b \in Blocks : b # hdr[tail + 1] => disk'[b] = disk[b]
  BY <1>1, Zenon DEF install_trans, IInv, TypeOK
<1>3. ASSUME NEW b \in Blocks
      PROVE  Durable'[b] = Durable[b]
  <2>1. CASE \E i \in DOMAIN hdr : hdr[i] = b
    BY <1>1, <2>1, DurableIs, DurableNext, SMTT(20) DEF IInv
  <2>2. CASE \A i \in DOMAIN hdr : hdr[i] # b
    BY <1>1, <1>2, <2>2, DurableIs, DurableNext DEF IInv
  <2> QED
    BY <2>1, <2>2, Zenon
<1> QED
  BY <1>3, Zenon DEF Durable

\* Nor does erasing the header once all its blocks are at home.
LEMMA DurableErase ==
  ASSUME IInv, IInv', NEW x \in All, EraseLog(x)
  PROVE  Durable' = Durable /\ Durable' = disk
<1>1. /\ hdr = lh /\ hdr' = <<>> /\ disk' = disk /\ lh \in Seq(Blocks)
      /\ \A i \in DOMAIN lh : disk[lh[i]] = logblk[i]
  BY SMTT(20) DEF IInv, EraseLog, Header, Installing, Installed, Progress, TypeOK
<1>2. \A b \in Blocks : Durable'[b] = disk[b]
  BY <1>1, DurableNext, SMTT(20), ZenonT(20), SMTT(21) DEF IInv
<1>3. \A b \in Blocks : Durable[b] = disk[b]
  BY <1>1, DurableIs, SMTT(20) DEF IInv
<1>4. disk = [b \in Blocks |-> disk[b]]
  BY Zenon DEF IInv, TypeOK
<1> QED
  BY <1>2, <1>3, <1>4, DurableFun, Zenon

\* A step of one of the log's actions is a step of the atomic disk or changes nothing of
\* it: write_head() is Commit, and all of recovery is invisible.
LEMMA StepRefines ==
  ASSUME IInv, IInv', [Next]_vars
  PROVE  [Atomic!Next]_Atomic!vars
<1> USE LogAssumption, BootAssumption DEF CommitPCs, RecoverPCs, All
<1>0. CASE UNCHANGED vars
  <2>1. InOp' = InOp /\ Mem' = Mem /\ Durable' = Durable
    BY <1>0, DurableKept, Zenon DEF vars, InOp, Mem
  <2> QED
    BY <2>1, Zenon DEF Atomic!vars
<1> SUFFICES ASSUME NEW t \in Threads, NEW b \in Blocks, NEW v \in Data, Step(t, b, v)
    PROVE  [Atomic!Next]_Atomic!vars
  BY <1>0, NextIsStep, Zenon
<1>1. CASE begin_op(t)
  <2>1. Durable' = Durable /\ Mem' = Mem /\ t \notin InOp
    <3>1. pc'[boot] = "idle" /\ pc[boot] = "idle" /\ cache' = cache
      BY <1>1 DEF begin_op, Up, Goto, IInv, TypeOK
    <3> QED
      BY <1>1, <3>1, MemIs, DurableKept DEF begin_op, Up, InOp
  <2>2. InOp' = InOp \/ InOp' = InOp \cup {t}
    BY <1>1, SMTT(20) DEF begin_op, Up, Goto, InOp, IInv, TypeOK
  <2>3. CASE InOp' = InOp
    BY <2>1, <2>3, Zenon DEF Atomic!vars
  <2>4. CASE InOp' = InOp \cup {t}
    BY <2>1, <2>4, Zenon DEF Atomic!Next, Atomic!Begin
  <2> QED
    BY <2>2, <2>3, <2>4, Zenon
<1>2. CASE log_write(t, b, v)
  <2>1. /\ Durable' = Durable /\ Mem = cache /\ Mem' = cache'
        /\ cache' = [cache EXCEPT ![b] = v]
    BY <1>2, MemIs, DurableKept, Zenon DEF log_write, Up
  <2>2. t \in InOp /\ InOp' = InOp
    BY <1>2, Zenon DEF log_write, Up, InOp
  <2>3. Atomic!Write(t, b, v)
    BY <2>1, <2>2, Zenon DEF Atomic!Write
  <2> QED
    BY <2>3, Zenon DEF Atomic!Next
<1>3. CASE end_op(t)
  <2>1. Durable' = Durable /\ Mem' = Mem
    <3>1. pc'[boot] = "idle" /\ pc[boot] = "idle" /\ cache' = cache
      BY <1>3, Zenon DEF end_op, Up, Goto, WakeupAndGoto, IInv, TypeOK
    <3> QED
      BY <1>3, <3>1, MemIs, DurableKept, Zenon DEF end_op
  <2>2. t \in InOp /\ InOp' = InOp \ {t}
    BY <1>3 DEF end_op, Up, Goto, WakeupAndGoto, InOp, IInv, TypeOK
  <2> QED
    BY <2>1, <2>2, Zenon DEF Atomic!Next, Atomic!End
<1>4. CASE write_log(t)
  <2>1. hdr = <<>> /\ hdr' = <<>>
    <3>1. pc[boot] = "idle" /\ \A x \in All : ~ Installing(x)
      BY <1>4, Committer, Zenon DEF write_log, Up, Installing, IInv
    <3> QED
      BY <1>4, <3>1, Zenon DEF write_log, IInv, Header
  <2>2. Durable' = Durable
    <3>1. disk' = disk
      BY <1>4, Zenon DEF write_log
    <3>2. \A d \in Blocks : Durable[d] = disk[d] /\ Durable'[d] = disk[d]
      BY <2>1, <3>1, DurableIs, DurableNext, SMTT(20) DEF IInv
    <3> QED
      BY <3>2, DurableFun, Zenon
  <2>3. Mem' = Mem /\ InOp' = InOp
    <3>1. pc'[boot] = "idle" /\ pc[boot] = "idle" /\ cache' = cache
      BY <1>4, Zenon DEF write_log, Up, Goto, IInv, TypeOK
    <3> QED
      BY <1>4, <3>1, MemIs DEF write_log, Up, Goto, InOp, IInv, TypeOK
  <2> QED
    BY <2>2, <2>3, Zenon DEF Atomic!vars
<1>5. CASE write_head(t)
  <2>1. InOp = {} /\ InOp' = {}
    <3>1. pc[t] \in CommitPCs
      BY <1>5, Zenon DEF write_head, Up
    <3>2. InOp = {}
      BY <3>1, Committer, Zenon DEF InOp, IInv
    <3> QED
      BY <1>5, <3>2, Zenon DEF write_head, Goto, InOp, IInv, TypeOK
  <2>2. Mem = cache /\ Mem' = cache /\ hdr' = lh /\ logblk' = logblk /\ disk' = disk
    <3>1. pc'[boot] = "idle" /\ pc[boot] = "idle" /\ cache' = cache
      BY <1>5 DEF write_head, Up, Goto, IInv, TypeOK
    <3> QED
      BY <1>5, <3>1, MemIs, Zenon DEF write_head
  <2>3. \A i \in DOMAIN lh : logblk[i] = cache[lh[i]]
    <3>1. pc[t] = "write_head" /\ t \in All
      BY <1>5, Zenon DEF write_head, Up, All
    <3>2. tail = Len(lh)
      BY <3>1, Zenon DEF IInv, Progress
    <3>3. DOMAIN lh = 1 .. tail
      BY <3>2 DEF IInv, TypeOK
    <3> QED
      BY <3>1, <3>3, Zenon DEF IInv, Copied
  <2>4. \A d \in Blocks : (\A i \in DOMAIN lh : lh[i] # d) => cache[d] = disk[d]
    BY Zenon DEF IInv, DirtyIsPinned, Logged
  <2>5. ASSUME NEW d \in Blocks
        PROVE  Durable'[d] = cache[d]
    <3>1. CASE \E i \in DOMAIN lh : lh[i] = d
      BY <2>2, <2>3, <3>1, DurableNext, SMTT(20) DEF IInv
    <3>2. CASE \A i \in DOMAIN lh : lh[i] # d
      BY <2>2, <2>4, <3>2, DurableNext DEF IInv
    <3> QED
      BY <3>1, <3>2
  <2>6. Durable' = cache
    BY <2>5, Zenon DEF Durable, IInv, TypeOK
  <2>7. Atomic!Commit
    BY <2>1, <2>2, <2>6, Zenon DEF Atomic!Commit
  <2> QED
    BY <2>7, Zenon DEF Atomic!Next
<1>6. CASE install_trans(t)
  <2>1. /\ pc[t] = "install" /\ pc[boot] = "idle" /\ pc'[boot] = "idle" /\ Installing(t)
        /\ tail + 1 \in DOMAIN lh
    <3>1. pc[t] = "install" /\ pc[boot] = "idle" /\ pc'[boot] = "idle" /\ Installing(t)
      <4>1. pc[t] = "install" /\ t # boot
        BY <1>6, BootAssumption, Zenon DEF install_trans
      <4>2. pc[boot] = "idle"
        BY <4>1, Zenon DEF IInv, Control
      <4>3. pc'[boot] = pc[boot]
        BY <1>6, <4>1, BootAssumption DEF install_trans, Goto, IInv, TypeOK, All
      <4> QED
        BY <4>1, <4>2, <4>3, Zenon DEF Installing
    <3>2. tail + 1 \in DOMAIN lh
      BY <3>1, SMTT(20), SMTT(21) DEF Progress, IInv, TypeOK
    <3> QED
      BY <3>1, <3>2, Zenon
  <2>2. cache' = cache
    <3>1. cache[lh[tail + 1]] = logblk[tail + 1]
      BY <2>1, Zenon DEF IInv, Copied
    <3> QED
      BY <1>6, <3>1, Zenon DEF install_trans, IInv, TypeOK
  <2>3. InOp' = InOp
    BY <1>6, <2>1, Zenon DEF install_trans, Goto, InOp, IInv, TypeOK
  <2> QED
    BY <1>6, <2>1, <2>2, <2>3, MemIs, DurableInstall, Zenon DEF Atomic!vars
<1>7. CASE EraseLog(t)
  <2>1. /\ pc[t] = "erase" /\ pc[boot] = "idle" /\ pc'[boot] = "idle" /\ Installing(t)
        /\ InOp' = InOp
    BY <1>7 DEF EraseLog, Goto, Installing, InOp, IInv, Control, TypeOK
  <2>2. Durable' = Durable
    BY <1>7, DurableErase, Zenon
  <2> QED
    BY <1>7, <2>1, <2>2, MemIs, Zenon DEF EraseLog, Atomic!vars
<1>8. CASE EndCommit(t)
  <2>1. pc[boot] = "idle" /\ pc'[boot] = "idle" /\ InOp' = InOp
    BY <1>8, Zenon DEF EndCommit, Up, WakeupAndGoto, InOp, IInv, TypeOK
  <2> QED
    BY <1>8, <2>1, MemIs, DurableKept, Zenon DEF EndCommit, Atomic!vars
<1>9. CASE Recycle(b)
  <2>1. cache' = cache
    BY <1>9, Zenon DEF Recycle, IInv, DirtyIsPinned, TypeOK
  <2>2. InOp' = InOp /\ pc' = pc
    BY <1>9, Zenon DEF Recycle, InOp
  <2> QED
    BY <1>9, <2>1, <2>2, MemIs, DurableKept, Zenon DEF Recycle, Atomic!vars
<1>10. CASE read_head
  <2>1. pc[boot] # "idle" /\ pc'[boot] # "idle" /\ InOp' = InOp
    BY <1>10, Zenon DEF read_head, Goto, InOp, IInv, TypeOK
  <2> QED
    BY <1>10, <2>1, MemIs, DurableKept, ZenonT(30) DEF read_head, Atomic!vars
<1>11. CASE install_trans(boot)
  <2>1. pc[boot] # "idle" /\ pc'[boot] # "idle" /\ InOp' = InOp
    BY <1>11, Zenon DEF install_trans, Goto, InOp, IInv, TypeOK
  <2> QED
    BY <1>11, <2>1, MemIs, DurableInstall, Zenon DEF Atomic!vars
<1>12. CASE EraseLog(boot)
  <2>1. pc[boot] # "idle" /\ pc'[boot] = "idle" /\ InOp' = InOp
    BY <1>12, Zenon DEF EraseLog, Goto, InOp, IInv, TypeOK
  <2>2. Durable' = Durable /\ Durable' = disk
    BY <1>12, DurableErase, Zenon
  <2>3. cache' = disk
    BY <1>12, <2>1, Zenon DEF EraseLog, IInv, Control
  <2> QED
    BY <2>1, <2>2, <2>3, MemIs, Zenon DEF Atomic!vars
<1>13. CASE Crash
  <2>1. pc'[boot] # "idle" /\ InOp' = {} /\ Durable' = Durable
    BY <1>13, DurableKept, Zenon DEF Crash, InOp
  <2>2. Atomic!Crash
    BY <2>1, MemIs, Zenon DEF Atomic!Crash
  <2> QED
    BY <2>2, Zenon DEF Atomic!Next
<1> QED
  BY <1>1, <1>2, <1>3, <1>4, <1>5, <1>6, <1>7, <1>8, <1>9, <1>10, <1>11, <1>12, <1>13 DEF
     Step

\* The log implements the atomic disk: a commit makes the writes of all finished
\* operations durable in one step, and a crash at any point, in recovery too, falls back
\* to the last commit.
THEOREM LogIsAtomic == Spec => AtomicSpec
<1>1. Init => Atomic!Init
  <2> SUFFICES ASSUME Init PROVE Atomic!Init
    OBVIOUS
  <2>1. IInv /\ pc[boot] # "idle" /\ hdr = <<>> /\ InOp = {}
    BY InitInv, BootAssumption DEF Init, InOp
  <2>2. Mem = Durable /\ Durable \in [Blocks -> Data]
    BY <2>1, MemIs, SMTT(20) DEF Durable, IInv, TypeOK
  <2> QED
    BY <2>1, <2>2, Zenon DEF Atomic!Init
<1>2. IInv /\ IInv' /\ [Next]_vars => [Atomic!Next]_Atomic!vars
  BY StepRefines, Zenon
<1> QED
  BY <1>1, <1>2, Invariance, PTL DEF Spec, AtomicSpec, Atomic!Spec
=============================================================================
