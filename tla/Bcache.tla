------------------------------- MODULE Bcache -------------------------------
(***************************************************************************)
(* The buffer cache of kernel/bio.c and the sleep locks of its buffers     *)
(* (kernel/sleeplock.c).  A process reads a block, may change it, and      *)
(* before it lets go of it either writes it (bwrite) or pins it, as        *)
(* log_write() does; a pinned block is written and unpinned later by the   *)
(* process that commits.  The steps are those between which bcache.lock    *)
(* and the locks of the buffers let another process in.  Of the content of *)
(* a block the model keeps whether it has the last change.                 *)
(***************************************************************************)
EXTENDS Integers, FiniteSets, Sequences, FiniteSetsExt

CONSTANTS
  Holders,    \* uses of a buffer: a process that has two at once is two of them
  Blocks,     \* block numbers
  NBUF,       \* buffers
  MAXPINS     \* pinned blocks at a time

Bufs == 1 .. NBUF
ASSUME BcacheAssumption ==
  NBUF \in Nat /\ MAXPINS \in Nat /\ 0 \notin Blocks /\ IsFiniteSet(Holders)

VARIABLES
  buf,       \* the buffers
  lru,       \* bcache.head: the buffers, most recently used first
  disk,      \* of each block: the disk has the last change
  hold,      \* of each process: where it is, its block and its buffer
  panicked   \* a process has panicked in bget(), and keeps bcache.lock

bcacheVars == <<buf, lru, disk, hold, panicked>>
NoBuf == 0
NoUse == [pc |-> "idle", blk |-> NoBuf, b |-> NoBuf]
Pinned == {b \in Bufs : buf[b].pins = 1}

\* Variant: a buffer found in the cache is not counted before its lock is free.
bgetUncounted(p, blk) ==
  LET hit  == {b \in Bufs : buf[b].blockno = blk}
      free == {k \in DOMAIN lru : buf[lru[k]].refcnt = 0}
      b    == IF hit # {} THEN CHOOSE x \in hit : TRUE ELSE lru[Max(free)]
  IN /\ hold[p].pc = "idle" /\ ~ panicked
     /\ hit # {} \/ free # {}
     /\ buf' = IF hit # {} THEN buf
               ELSE [buf EXCEPT ![b] = [@ EXCEPT !.blockno = blk, !.valid = FALSE, !.fresh = FALSE,
                                            !.refcnt = 1]]
     /\ hold' = [hold EXCEPT ![p] = [pc |-> "lock", blk |-> blk, b |-> b]]
     /\ UNCHANGED <<lru, disk, panicked>>

\* bget() up to acquiresleep(): the cached buffer, or the least recently used one that
\* nobody has.
bget(p, blk) ==
  LET hit  == {b \in Bufs : buf[b].blockno = blk}
      free == {k \in DOMAIN lru : buf[lru[k]].refcnt = 0}
      b    == IF hit # {} THEN CHOOSE x \in hit : TRUE ELSE lru[Max(free)]
  IN /\ hold[p].pc = "idle" /\ ~ panicked
     /\ hit # {} \/ free # {}
     /\ buf' = IF hit # {} THEN [buf EXCEPT ![b].refcnt = @ + 1]
               ELSE [buf EXCEPT ![b] = [@ EXCEPT !.blockno = blk, !.valid = FALSE, !.fresh = FALSE,
                                            !.refcnt = 1]]
     /\ hold' = [hold EXCEPT ![p] = [pc |-> "lock", blk |-> blk, b |-> b]]
     /\ UNCHANGED <<lru, disk, panicked>>

\* bget() finds neither: panic() does not return, so that nobody gets bcache.lock any more.
bgetPanics(p, blk) ==
  /\ hold[p].pc = "idle" /\ ~ panicked
  /\ \A b \in Bufs : buf[b].blockno # blk /\ buf[b].refcnt # 0
  /\ panicked' = TRUE
  /\ UNCHANGED <<buf, lru, disk, hold>>

\* acquiresleep(), which returns when the lock is free.
acquiresleep(p) ==
  LET b == hold[p].b
  IN /\ hold[p].pc = "lock" /\ ~ buf[b].locked
     /\ buf' = [buf EXCEPT ![b].locked = TRUE]
     /\ hold' = [hold EXCEPT ![p].pc = IF buf[b].valid THEN "have" ELSE "read"]
     /\ UNCHANGED <<lru, disk, panicked>>

\* The end of bread(): the disk fills the buffer.
bread(p) ==
  LET b == hold[p].b
  IN /\ hold[p].pc = "read"
     /\ buf' = [buf EXCEPT ![b] = [@ EXCEPT !.fresh = disk[buf[b].blockno], !.valid = TRUE]]
     /\ hold' = [hold EXCEPT ![p].pc = "have"]
     /\ UNCHANGED <<lru, disk, panicked>>

\* The process changes the block and will write or pin it; other copies are old now.
Modify(p) ==
  /\ hold[p].pc = "have"
  /\ buf' = [b \in Bufs |->
       IF buf[b].blockno = hold[p].blk THEN [buf[b] EXCEPT !.fresh = b = hold[p].b] ELSE buf[b]]
  /\ disk' = [disk EXCEPT ![hold[p].blk] = FALSE]
  /\ hold' = [hold EXCEPT ![p].pc = "dirty"]
  /\ UNCHANGED <<lru, panicked>>

\* bwrite(), and bunpin() of a block whose pin the commit ends, under bcache.lock.
bwrite(p) ==
  LET b == hold[p].b
  IN /\ hold[p].pc \in {"have", "dirty"} /\ (panicked => buf[b].pins = 0)
     /\ disk' = [disk EXCEPT ![buf[b].blockno] = buf[b].fresh]
     /\ buf' = [buf EXCEPT ![b] = [buf[b] EXCEPT !.refcnt = @ - buf[b].pins, !.pins = 0]]
     /\ hold' = [hold EXCEPT ![p].pc = "have"]
     /\ UNCHANGED <<lru, panicked>>

\* bpin() by log_write(); a block that is pinned already is in the log already.
bpin(p) ==
  LET b == hold[p].b
  IN /\ hold[p].pc = "dirty"
     /\ buf[b].pins = 1 \/ (Cardinality(Pinned) < MAXPINS /\ ~ panicked)
     /\ buf' = [buf EXCEPT ![b] = [buf[b] EXCEPT !.refcnt = @ + 1 - buf[b].pins, !.pins = 1]]
     /\ hold' = [hold EXCEPT ![p].pc = "have"]
     /\ UNCHANGED <<lru, disk, panicked>>

\* brelse(): releasesleep() ...
releasesleep(p) ==
  /\ hold[p].pc = "have"
  /\ buf' = [buf EXCEPT ![hold[p].b].locked = FALSE]
  /\ hold' = [hold EXCEPT ![p].pc = "release"]
  /\ UNCHANGED <<lru, disk, panicked>>

ToFront(b) ==
  LET i == CHOOSE k \in DOMAIN lru : lru[k] = b
  IN <<b>> \o (SubSeq(lru, 1, i - 1) \o SubSeq(lru, i + 1, Len(lru)))

\* ... and then the count, and the front of the list for a buffer that nobody has.
brelse(p) ==
  LET b == hold[p].b
  IN /\ hold[p].pc = "release" /\ ~ panicked
     /\ buf' = [buf EXCEPT ![b].refcnt = @ - 1]
     /\ lru' = IF buf[b].refcnt = 1 THEN ToFront(b) ELSE lru
     /\ hold' = [hold EXCEPT ![p] = NoUse]
     /\ UNCHANGED <<disk, panicked>>

\* binit(): the buffers have no block yet.
BcacheInit ==
  /\ buf = [b \in Bufs |-> [blockno |-> NoBuf, refcnt |-> 0, valid |-> FALSE, locked |-> FALSE,
                            fresh |-> FALSE, pins |-> 0]]
  /\ lru = [k \in 1 .. NBUF |-> NBUF + 1 - k]
  /\ disk = [blk \in Blocks |-> TRUE]
  /\ hold = [p \in Holders |-> NoUse]
  /\ panicked = FALSE

BcacheNext ==
  \E p \in Holders :
    \/ \E blk \in Blocks : bget(p, blk) \/ bgetPanics(p, blk)
    \/ acquiresleep(p) \/ bread(p) \/ Modify(p) \/ bwrite(p) \/ bpin(p) \/ releasesleep(p) \/ brelse(p)

BcacheSpec == BcacheInit /\ [][BcacheNext]_bcacheVars

\* A process that has a block has the only copy of it and sees the last change anyone
\* made, whether that change is still pinned in the cache or was written and the buffer
\* recycled since, up to and after a panic of bget().
CacheCoherent ==
  /\ \A p \in Holders : hold[p].pc \in {"have", "dirty"} =>
       /\ buf[hold[p].b].blockno = hold[p].blk
       /\ buf[hold[p].b].fresh
       /\ \A q \in Holders \ {p} : hold[q].blk = hold[p].blk => hold[q].pc \in {"lock", "release"}
  /\ \A b, c \in Bufs : b # c /\ buf[b].blockno # NoBuf => buf[b].blockno # buf[c].blockno
=============================================================================
