---------------------------- MODULE BcacheProofs ----------------------------
(***************************************************************************)
(* The buffer cache keeps every block coherent, for any number of buffers, *)
(* blocks and uses of them.                                                *)
(***************************************************************************)
EXTENDS Bcache, FiniteSetTheorems, TLAPS

-----------------------------------------------------------------------------
(* The inductive invariant. *)

Pcs == {"idle", "lock", "read", "have", "dirty", "release"}
BufType == [blockno : Blocks \cup {NoBuf}, refcnt : Nat, valid : BOOLEAN, locked : BOOLEAN,
            fresh : BOOLEAN, pins : {0, 1}]
HoldType == [pc : Pcs, blk : Blocks \cup {NoBuf}, b : Bufs \cup {NoBuf}]

BTypeOK ==
  /\ buf \in [Bufs -> BufType]
  /\ lru \in [1 .. NBUF -> Bufs]
  /\ disk \in [Blocks -> BOOLEAN]
  /\ hold \in [Holders -> HoldType]

\* The list of bcache.head has every buffer.
Listed == \A b \in Bufs : \E k \in 1 .. NBUF : lru[k] = b

\* A use that is not idle has a buffer, and the buffer has its block; an idle one has none.
Assigned ==
  \A p \in Holders : hold[p].pc # "idle" =>
    hold[p].b \in Bufs /\ hold[p].blk \in Blocks /\ buf[hold[p].b].blockno = hold[p].blk
IdleNoBlock == \A p \in Holders : hold[p].pc = "idle" => hold[p].blk = NoBuf

\* refcnt counts the uses and the pin.
UsesOf(b) == {p \in Holders : hold[p].pc # "idle" /\ hold[p].b = b}
Counted == \A b \in Bufs : buf[b].refcnt = Cardinality(UsesOf(b)) + buf[b].pins
PinsBounded == Cardinality(Pinned) <= MAXPINS

\* No block is in two buffers.
OneCopy == \A b, c \in Bufs : b # c /\ buf[b].blockno # NoBuf => buf[b].blockno # buf[c].blockno

\* The uses that have the sleep lock of their buffer; there is one when it is locked.
Inside(p) == hold[p].pc \in {"read", "have", "dirty"}
Exclusive ==
  /\ \A p, q \in Holders : Inside(p) /\ Inside(q) /\ hold[p].b = hold[q].b => p = q
  /\ \A p \in Holders : Inside(p) => buf[hold[p].b].locked = TRUE

\* A valid buffer has the last change; a use reads from the disk only what is not valid.
ValidFresh ==
  /\ \A b \in Bufs : buf[b].valid = TRUE => buf[b].fresh = TRUE
  /\ \A p \in Holders : hold[p].pc = "read" => buf[hold[p].b].valid = FALSE
  /\ \A p \in Holders : hold[p].pc \in {"have", "dirty"} => buf[hold[p].b].valid = TRUE

\* What the disk does not have is in a valid buffer that cannot be recycled.
Keeps(b, blk) ==
  /\ buf[b].blockno = blk /\ buf[b].valid = TRUE
  /\ buf[b].pins = 1 \/ \E p \in Holders : hold[p].pc = "dirty" /\ hold[p].b = b
Kept == \A blk \in Blocks : disk[blk] = FALSE => \E b \in Bufs : Keeps(b, blk)

BInv ==
  /\ BTypeOK /\ Listed /\ Assigned /\ IdleNoBlock /\ Counted /\ PinsBounded /\ OneCopy /\ Exclusive
  /\ ValidFresh /\ Kept
-----------------------------------------------------------------------------
(* The lemmas. *)

\* The entries of a concatenation.
LEMMA ConcatFacts ==
  ASSUME NEW V, NEW s \in Seq(V), NEW t \in Seq(V)
  PROVE  /\ s \o t \in Seq(V) /\ Len(s \o t) = Len(s) + Len(t)
         /\ \A k \in 1 .. Len(s) + Len(t) :
              (s \o t)[k] = IF k <= Len(s) THEN s[k] ELSE t[k - Len(s)]
OBVIOUS

\* A nonempty set of numbers up to n has a maximum, which Max() chooses.
LEMMA MaxIn ==
  ASSUME NEW n \in Nat, NEW S \in SUBSET (1 .. n), S # {}
  PROVE  Max(S) \in S
<1> DEFINE T == {n - k : k \in S}
<1>0. \A k \in S : k \in 1 .. n /\ n - k \in Nat
  OBVIOUS
<1>1a. T \subseteq Nat
  BY <1>0, Zenon
<1>1b. T # {}
  BY <1>0, Zenon
<1>1. T \subseteq Nat /\ T # {} BY <1>1a, <1>1b, Zenon
<1>2. PICK m \in T : \A y \in T : ~ (<<y, m>> \in OpToRel(<, Nat))
  <2>1. IsWellFoundedOn(OpToRel(<, Nat), Nat)
    BY NatLessThanWellFounded, Zenon
  <2> HIDE DEF T
  <2> QED
    BY <1>1, <2>1, WFMin, Zenon
<1>3. \A y \in T : m <= y
  <2> TAKE y \in T
  <2>1. ~ (<<y, m>> \in OpToRel(<, Nat)) BY <1>2, Zenon
  <2>2. ~ (<<y, m>> \in {ss \in Nat \X Nat : ss[1] < ss[2]}) BY <2>1, Zenon DEF OpToRel
  <2>3. y \in Nat /\ m \in Nat BY <1>1, <1>2, Zenon
  <2> QED BY <2>2, <2>3
<1>4. PICK k \in S : m = n - k
  BY <1>2, Zenon
<1>5. \A j \in S : k >= j
  <2> TAKE j \in S
  <2>1. n - j \in T
    OBVIOUS
  <2> QED
    BY <2>1, <1>3, <1>4, <1>0
<1> QED
  BY <1>5, Zenon DEF Max

\* The stores to the fields of a buffer keep its type.
LEMMA BufFields ==
  ASSUME NEW r \in BufType, NEW f \in BOOLEAN, NEW n \in Nat, NEW k \in {0, 1}
  PROVE  /\ [r EXCEPT !.fresh = f] \in BufType
         /\ [r EXCEPT !.refcnt = n, !.pins = k] \in BufType
         /\ [r EXCEPT !.refcnt = n] \in BufType
<1>1. [r EXCEPT !.fresh = f] \in BufType
  BY Zenon DEF BufType
<1>2. [r EXCEPT !.refcnt = n, !.pins = k] \in BufType
  BY Zenon DEF BufType
<1>3. [r EXCEPT !.refcnt = n] \in BufType
  BY Zenon DEF BufType
<1> QED
  BY <1>1, <1>2, <1>3, Zenon

\* The uses of a buffer are finitely many.
LEMMA UsesFinite ==
  \A b : IsFiniteSet(UsesOf(b)) /\ Cardinality(UsesOf(b)) \in Nat
<1> TAKE b
<1>1. UsesOf(b) \subseteq Holders
  BY Zenon DEF UsesOf
<1> QED
  BY <1>1, BcacheAssumption, FS_Subset, FS_CardinalityType, Zenon

\* So are the pinned buffers.
LEMMA PinnedFinite ==
  /\ IsFiniteSet(Pinned) /\ Cardinality(Pinned) \in Nat
  /\ IsFiniteSet(Pinned') /\ Cardinality(Pinned') \in Nat
<1>1. IsFiniteSet(Bufs)
  BY FS_Interval, BcacheAssumption DEF Bufs
<1>2. Pinned \subseteq Bufs /\ Pinned' \subseteq Bufs
  BY Zenon DEF Pinned
<1> QED
  BY <1>1, <1>2, FS_Subset, FS_CardinalityType, Zenon

\* A use that keeps its buffer changes no count.
LEMMA SameUses ==
  ASSUME NEW p \in Holders, hold[p].pc # "idle", BTypeOK, BTypeOK',
         hold'[p].pc # "idle", hold'[p].b = hold[p].b,
         \A q \in Holders \ {p} : hold'[q] = hold[q]
  PROVE  \A b \in Bufs : UsesOf(b)' = UsesOf(b)
BY Zenon DEF UsesOf

\* Nor does it change which block its buffer has.
LEMMA SameBlocks ==
  ASSUME NEW p \in Holders, hold[p].pc # "idle", Assigned, IdleNoBlock,
         hold'[p].pc # "idle", hold'[p].b = hold[p].b, hold'[p].blk = hold[p].blk,
         \A q \in Holders \ {p} : hold'[q] = hold[q],
         \A c \in Bufs : buf'[c].blockno = buf[c].blockno
  PROVE  Assigned' /\ IdleNoBlock'
<1>1. ASSUME NEW q \in Holders
      PROVE  /\ hold'[q].b = hold[q].b /\ hold'[q].blk = hold[q].blk
             /\ (hold'[q].pc # "idle") <=> (hold[q].pc # "idle")
  BY <1>1, Zenon
<1>2. Assigned'
  <2> SUFFICES ASSUME NEW q \in Holders, hold'[q].pc # "idle"
               PROVE  /\ hold'[q].b \in Bufs /\ hold'[q].blk \in Blocks
                      /\ buf'[hold'[q].b].blockno = hold'[q].blk
    BY Zenon DEF Assigned
  <2>1. /\ hold[q].b \in Bufs /\ hold[q].blk \in Blocks
        /\ buf[hold[q].b].blockno = hold[q].blk
    BY <1>1, Zenon DEF Assigned
  <2> QED
    BY <1>1, <2>1, Zenon
<1>3. IdleNoBlock'
  BY <1>1, Zenon DEF IdleNoBlock
<1> QED
  BY <1>2, <1>3, Zenon

\* A use that has the sleep lock of its buffer, and keeps it, stays the only one.
LEMMA SameLocks ==
  ASSUME NEW p \in Holders, Inside(p), Assigned, Exclusive, hold'[p].b = hold[p].b,
         \A q \in Holders \ {p} : hold'[q] = hold[q],
         \A c \in Bufs : buf'[c].locked = buf[c].locked
  PROVE  Exclusive'
<1>1. \A q \in Holders : hold'[q].b = hold[q].b
  BY Zenon
<1>2. \A q \in Holders : Inside(q)' => Inside(q)
  BY Zenon DEF Inside
<1>3. \A q \in Holders : Inside(q) => hold[q].b \in Bufs
  BY Zenon DEF Inside, Assigned
<1>4. \A q, r \in Holders : Inside(q)' /\ Inside(r)' /\ hold'[q].b = hold'[r].b => q = r
  BY <1>1, <1>2, Zenon DEF Exclusive
<1>5. \A q \in Holders : Inside(q)' => buf'[hold'[q].b].locked = TRUE
  BY <1>1, <1>2, <1>3, Zenon DEF Exclusive
<1> QED
  BY <1>4, <1>5, Zenon DEF Exclusive

\* A use that has read its buffer, and does not read it again, keeps the others valid.
LEMMA SameValid ==
  ASSUME NEW p \in Holders, hold[p].pc \in {"have", "dirty"}, Assigned, ValidFresh,
         hold'[p].b = hold[p].b, hold'[p].pc # "read",
         \A q \in Holders \ {p} : hold'[q] = hold[q],
         \A c \in Bufs : buf'[c].valid = buf[c].valid /\ (buf[c].fresh = TRUE => buf'[c].fresh = TRUE)
  PROVE  ValidFresh'
<1>1. \A q \in Holders : hold'[q].b = hold[q].b
  BY Zenon
<1>2. \A q \in Holders : /\ hold'[q].pc = "read" => hold[q].pc = "read"
                         /\ hold'[q].pc \in {"have", "dirty"} => hold[q].pc \in {"have", "dirty"}
  BY Zenon
<1>3. \A q \in Holders : hold[q].pc \in {"read", "have", "dirty"} => hold[q].b \in Bufs
  BY Zenon DEF Assigned
<1>4. \A c \in Bufs : buf'[c].valid = TRUE => buf'[c].fresh = TRUE
  BY Zenon DEF ValidFresh
<1>5. \A q \in Holders : hold'[q].pc = "read" => buf'[hold'[q].b].valid = FALSE
  BY <1>1, <1>2, <1>3, ZenonT(60) DEF ValidFresh
<1>6. \A q \in Holders : hold'[q].pc \in {"have", "dirty"} => buf'[hold'[q].b].valid = TRUE
  BY <1>1, <1>2, <1>3, ZenonT(60) DEF ValidFresh
<1> QED
  BY <1>4, <1>5, <1>6, Zenon DEF ValidFresh

\* acquiresleep() keeps the invariant: the lock is free, so that no other use has it.
LEMMA AcquiresleepStep ==
  ASSUME BInv, NEW p \in Holders, acquiresleep(p)
  PROVE  BInv'
<1>0. PICK b \in Bufs : b = hold[p].b
  BY Zenon DEF acquiresleep, BInv, Assigned
<1>1. /\ hold[p].pc = "lock" /\ buf[b].locked = FALSE
      /\ hold[p].blk \in Blocks /\ buf[b].blockno = hold[p].blk
      /\ lru' = lru /\ disk' = disk
  BY <1>0, Zenon DEF acquiresleep, BInv, Assigned, BTypeOK, BufType, HoldType
<1>2. /\ \A c \in Bufs \ {b} : buf'[c] = buf[c]
      /\ \A q \in Holders \ {p} : hold'[q] = hold[q]
  BY <1>0, <1>1, Zenon DEF acquiresleep, BInv, BTypeOK, BufType, HoldType
<1>3. BTypeOK'
  <2>1. buf' \in [Bufs -> BufType]
    BY <1>0, <1>1, ZenonT(30), SMTT(20) DEF acquiresleep, BInv, BTypeOK, BufType
  <2>2. hold' \in [Holders -> HoldType]
    BY <1>0, <1>1 DEF acquiresleep, BInv, BTypeOK, HoldType, Pcs
  <2>3. disk' \in [Blocks -> BOOLEAN]
    BY <1>0, <1>1, Zenon DEF acquiresleep, BInv, BTypeOK, BufType
  <2> QED
    BY <1>1, <2>1, <2>2, <2>3, Zenon DEF BInv, BTypeOK
<1>4. /\ buf'[b].blockno = buf[b].blockno /\ buf'[b].refcnt = buf[b].refcnt /\ buf'[b].valid = buf[b].valid
      /\ buf'[b].locked = TRUE /\ buf'[b].fresh = buf[b].fresh /\ buf'[b].pins = buf[b].pins
  BY <1>0, <1>1 DEF acquiresleep, BInv, BTypeOK, BufType
<1>5. /\ hold'[p].b = b /\ hold'[p].blk = hold[p].blk
      /\ hold'[p].pc = IF buf[b].valid = TRUE THEN "have" ELSE "read"
  BY <1>0, <1>1, Zenon DEF acquiresleep, BInv, BTypeOK, BufType, HoldType
<1>6. Listed'
  BY <1>1, Zenon DEF BInv, Listed
<1>7. Assigned' /\ IdleNoBlock'
  <2>1. \A c \in Bufs : buf'[c].blockno = buf[c].blockno
    BY <1>2, <1>4, Zenon
  <2> QED
    BY <1>0, <1>1, <1>2, <1>5, <2>1, SameBlocks, Zenon DEF BInv
<1>8. Counted'
  <2>1. \A c \in Bufs : UsesOf(c)' = UsesOf(c)
    BY <1>0, <1>1, <1>2, <1>3, <1>5, SameUses, Zenon DEF BInv
  <2> QED
    BY <2>1, <1>2, <1>4 DEF BInv, Counted
<1>9. PinsBounded'
  <2>1. Pinned' = Pinned
    BY <1>2, <1>4 DEF Pinned
  <2> QED
    BY <2>1, Zenon DEF BInv, PinsBounded
<1>10. OneCopy'
  BY <1>2, <1>4 DEF BInv, OneCopy
<1>11. Exclusive'
  <2>1. \A q \in Holders \ {p} : Inside(q) => hold[q].b \in Bufs \ {b}
    BY <1>0, <1>1, Zenon DEF BInv, Exclusive, Inside, Assigned
  <2>2. \A q \in Holders \ {p} : Inside(q)' => Inside(q) /\ hold'[q] = hold[q]
    BY <1>2, Zenon DEF Inside
  <2>3. ASSUME NEW q \in Holders, Inside(q)' PROVE buf'[hold'[q].b].locked = TRUE
    <3>1. CASE q = p
      BY <1>4, <1>5, <3>1, Zenon
    <3>2. CASE q # p
      <4>1. Inside(q) /\ hold'[q] = hold[q] /\ hold[q].b \in Bufs \ {b}
        BY <2>1, <2>2, <2>3, <3>2, Zenon
      <4> QED
        BY <1>2, <4>1, Zenon DEF BInv, Exclusive
    <3> QED
      BY <3>1, <3>2, Zenon
  <2>4. ASSUME NEW q \in Holders, NEW r \in Holders, Inside(q)', Inside(r)', hold'[q].b = hold'[r].b
        PROVE  q = r
    <3>1. CASE q = p \/ r = p
      BY <1>5, <2>1, <2>2, <2>4, <3>1, Zenon
    <3>2. CASE q # p /\ r # p
      BY <2>2, <2>4, <3>2, Zenon DEF BInv, Exclusive
    <3> QED
      BY <3>1, <3>2, Zenon
  <2> QED
    BY <2>3, <2>4, Zenon DEF Exclusive
<1>12. ValidFresh'
  <2>1. \A c \in Bufs : buf'[c].valid = buf[c].valid /\ buf'[c].fresh = buf[c].fresh
    BY <1>2, <1>4, Zenon
  <2>2. \A q \in Holders : hold'[q].pc \in {"read", "have", "dirty"} => hold'[q].b \in Bufs
    BY <1>0, <1>2, <1>5, Zenon DEF BInv, Assigned
  <2>3. \A c \in Bufs : buf'[c].valid = TRUE => buf'[c].fresh = TRUE
    BY <2>1, Zenon DEF BInv, ValidFresh
  <2>4. \A q \in Holders \ {p} : /\ hold'[q].pc = "read" => buf'[hold'[q].b].valid = FALSE
                                 /\ hold'[q].pc \in {"have", "dirty"} => buf'[hold'[q].b].valid = TRUE
    BY <1>2, <2>1, <2>2, ZenonT(60) DEF BInv, ValidFresh
  <2>5. buf[b].valid \in BOOLEAN
    BY Zenon DEF BInv, BTypeOK, BufType
  <2>6. /\ hold'[p].pc = "read" => buf'[hold'[p].b].valid = FALSE
        /\ hold'[p].pc \in {"have", "dirty"} => buf'[hold'[p].b].valid = TRUE
    <3>1. CASE buf[b].valid = TRUE
      BY <1>4, <1>5, <3>1
    <3>2. CASE buf[b].valid = FALSE
      BY <1>4, <1>5, <3>2
    <3> QED
      BY <2>5, <3>1, <3>2, Zenon
  <2>7. ASSUME NEW q \in Holders
        PROVE  /\ hold'[q].pc = "read" => buf'[hold'[q].b].valid = FALSE
               /\ hold'[q].pc \in {"have", "dirty"} => buf'[hold'[q].b].valid = TRUE
    <3>1. CASE q = p
      BY <2>6, <3>1, Zenon
    <3>2. CASE q \in Holders \ {p}
      BY <2>4, <3>2, Zenon
    <3> QED
      BY <3>1, <3>2, Zenon
  <2> QED
    BY <2>3, <2>7, Zenon DEF ValidFresh
<1>13. Kept'
  BY <1>0, <1>1, <1>2, <1>4, <1>5 DEF BInv, Kept, Keeps
<1> QED
  BY <1>3, <1>6, <1>7, <1>8, <1>9, <1>10, <1>11, <1>12, <1>13, Zenon DEF BInv

\* bread() keeps the invariant: what is not valid in the cache, the disk has.
LEMMA BreadStep ==
  ASSUME BInv, NEW p \in Holders, bread(p)
  PROVE  BInv'
<1>0. PICK b \in Bufs : b = hold[p].b
  BY Zenon DEF bread, BInv, Assigned
<1>1. /\ hold[p].pc = "read" /\ buf[b].valid = FALSE /\ disk[hold[p].blk] = TRUE
      /\ hold[p].blk \in Blocks /\ buf[b].blockno = hold[p].blk
      /\ lru' = lru /\ disk' = disk
  <2>1. /\ hold[p].pc = "read" /\ buf[b].valid = FALSE
        /\ hold[p].blk \in Blocks /\ buf[b].blockno = hold[p].blk
        /\ lru' = lru /\ disk' = disk
    BY <1>0, Zenon DEF bread, BInv, Assigned, ValidFresh
  <2>2. ASSUME disk[hold[p].blk] = FALSE PROVE FALSE
    <3>1. PICK c \in Bufs : buf[c].blockno = hold[p].blk /\ buf[c].valid = TRUE
      BY <2>1, <2>2, Zenon DEF BInv, Kept, Keeps
    <3>2. hold[p].blk # NoBuf
      BY <2>1, BcacheAssumption, Zenon DEF NoBuf
    <3> QED
      BY <3>1, <3>2, <2>1, Zenon DEF BInv, OneCopy
  <2> QED
    BY <2>1, <2>2, Zenon DEF BInv, BTypeOK
<1>2. /\ \A c \in Bufs \ {b} : buf'[c] = buf[c]
      /\ \A q \in Holders \ {p} : hold'[q] = hold[q]
  BY <1>0, <1>1, Zenon DEF bread, BInv, BTypeOK, BufType, HoldType
<1>3. BTypeOK'
  <2>1. buf' \in [Bufs -> BufType]
    <3>1. buf' = [buf EXCEPT ![b] = [buf[b] EXCEPT !.fresh = TRUE, !.valid = TRUE]]
      BY <1>0, <1>1, Zenon DEF bread
    <3>2. [buf[b] EXCEPT !.fresh = TRUE, !.valid = TRUE] \in BufType
      BY ZenonT(30), SMTT(20) DEF BInv, BTypeOK, BufType
    <3> QED
      BY <3>1, <3>2, Zenon DEF BInv, BTypeOK
  <2>2. hold' \in [Holders -> HoldType]
    BY <1>0, <1>1 DEF bread, BInv, BTypeOK, HoldType, Pcs
  <2>3. disk' \in [Blocks -> BOOLEAN]
    BY <1>0, <1>1, Zenon DEF bread, BInv, BTypeOK, BufType
  <2> QED
    BY <1>1, <2>1, <2>2, <2>3, Zenon DEF BInv, BTypeOK
<1>4. /\ buf'[b].blockno = buf[b].blockno /\ buf'[b].refcnt = buf[b].refcnt /\ buf'[b].valid = TRUE
      /\ buf'[b].locked = buf[b].locked /\ buf'[b].fresh = TRUE /\ buf'[b].pins = buf[b].pins
  BY <1>0, <1>1 DEF bread, BInv, BTypeOK, BufType
<1>5. /\ hold'[p].b = b /\ hold'[p].blk = hold[p].blk
      /\ hold'[p].pc = "have"
  BY <1>0, <1>1 DEF bread, BInv, BTypeOK, BufType, HoldType
<1>6. Listed'
  BY <1>1, Zenon DEF BInv, Listed
<1>7. Assigned' /\ IdleNoBlock'
  <2>1. \A c \in Bufs : buf'[c].blockno = buf[c].blockno
    BY <1>2, <1>4, Zenon
  <2> QED
    BY <1>0, <1>1, <1>2, <1>5, <2>1, SameBlocks, Zenon DEF BInv
<1>8. Counted'
  <2>1. \A c \in Bufs : UsesOf(c)' = UsesOf(c)
    BY <1>0, <1>1, <1>2, <1>3, <1>5, SameUses, Zenon DEF BInv
  <2> QED
    BY <2>1, <1>2, <1>4 DEF BInv, Counted
<1>9. PinsBounded'
  <2>1. Pinned' = Pinned
    BY <1>2, <1>4 DEF Pinned
  <2> QED
    BY <2>1 DEF BInv, PinsBounded
<1>10. OneCopy'
  BY <1>2, <1>4 DEF BInv, OneCopy
<1>11. Exclusive'
  <2>1. \A c \in Bufs : buf'[c].locked = buf[c].locked
    BY <1>2, <1>4, Zenon
  <2>2. Inside(p)
    BY <1>1, Zenon DEF Inside
  <2> QED
    BY <1>0, <1>2, <1>5, <2>1, <2>2, SameLocks, Zenon DEF BInv
<1>12. ValidFresh'
  <2>1. \A q \in Holders \ {p} : hold[q].pc = "read" => hold[q].b # b
    BY <1>0, <1>1, Zenon DEF BInv, Exclusive, Inside
  <2>2. \A q \in Holders : hold'[q].pc = "read" => buf'[hold'[q].b].valid = FALSE
    BY <1>2, <1>5, <2>1 DEF BInv, ValidFresh, Assigned
  <2>3. \A q \in Holders : hold'[q].pc \in {"have", "dirty"} => buf'[hold'[q].b].valid = TRUE
    BY <1>0, <1>2, <1>4, <1>5 DEF BInv, ValidFresh, Assigned
  <2> QED
    BY <1>2, <1>4, <2>2, <2>3 DEF BInv, ValidFresh
<1>13. Kept'
  BY <1>0, <1>1, <1>2, <1>4, <1>5 DEF BInv, Kept, Keeps
<1> QED
  BY <1>3, <1>6, <1>7, <1>8, <1>9, <1>10, <1>11, <1>12, <1>13 DEF BInv

\* Modify() keeps the invariant: the changed buffer is dirty, and no other has the block.
LEMMA ModifyStep ==
  ASSUME BInv, NEW p \in Holders, Modify(p)
  PROVE  BInv'
<1>0. PICK b \in Bufs : b = hold[p].b
  BY Zenon DEF Modify, BInv, Assigned
<1>1. /\ hold[p].pc = "have" /\ buf[b].valid = TRUE
      /\ hold[p].blk \in Blocks /\ buf[b].blockno = hold[p].blk
      /\ lru' = lru /\ disk' = [disk EXCEPT ![hold[p].blk] = FALSE]
  BY <1>0, Zenon DEF Modify, BInv, Assigned, ValidFresh
<1>2. /\ \A c \in Bufs \ {b} : buf'[c] = buf[c]
      /\ \A q \in Holders \ {p} : hold'[q] = hold[q]
  <2>1. \A c \in Bufs \ {b} : buf[c].blockno # hold[p].blk
    BY <1>1, BcacheAssumption, Zenon DEF BInv, OneCopy, NoBuf
  <2>2. \A c \in Bufs \ {b} : buf'[c] = buf[c]
    BY <2>1, Zenon DEF Modify
  <2>3. \A q \in Holders \ {p} : hold'[q] = hold[q]
    BY Zenon DEF Modify, BInv, BTypeOK
  <2> QED
    BY <2>2, <2>3, Zenon
<1>3. BTypeOK'
  <2>1. buf' \in [Bufs -> BufType]
    <3>0. buf[b] \in BufType /\ (b = hold[p].b) \in BOOLEAN
      BY Zenon DEF BInv, BTypeOK
    <3>1. [buf[b] EXCEPT !.fresh = (b = hold[p].b)] \in BufType
      BY <3>0, BufFields, Zenon
    <3>2. buf'[b] = [buf[b] EXCEPT !.fresh = (b = hold[p].b)]
      BY <1>1, Zenon DEF Modify
    <3>3. DOMAIN buf' = Bufs /\ buf' = [c \in Bufs |-> buf'[c]]
      BY Zenon DEF Modify
    <3> QED
      BY <1>2, <3>1, <3>2, <3>3 DEF BInv, BTypeOK
  <2>2. hold' \in [Holders -> HoldType]
    BY <1>0, <1>1 DEF Modify, BInv, BTypeOK, HoldType, Pcs
  <2>3. disk' \in [Blocks -> BOOLEAN]
    BY <1>0, <1>1, Zenon DEF Modify, BInv, BTypeOK, BufType
  <2> QED
    BY <1>1, <2>1, <2>2, <2>3, Zenon DEF BInv, BTypeOK
<1>4. /\ buf'[b].blockno = buf[b].blockno /\ buf'[b].refcnt = buf[b].refcnt /\ buf'[b].valid = buf[b].valid
      /\ buf'[b].locked = buf[b].locked /\ buf'[b].fresh = TRUE /\ buf'[b].pins = buf[b].pins
  BY <1>0, <1>1 DEF Modify, BInv, BTypeOK, BufType
<1>5. /\ hold'[p].b = b /\ hold'[p].blk = hold[p].blk
      /\ hold'[p].pc = "dirty"
  BY <1>0, <1>1 DEF Modify, BInv, BTypeOK, BufType, HoldType
<1>6. Listed'
  BY <1>1, Zenon DEF BInv, Listed
<1>7. Assigned' /\ IdleNoBlock'
  <2>1. \A c \in Bufs : buf'[c].blockno = buf[c].blockno
    BY <1>2, <1>4, Zenon
  <2> QED
    BY <1>0, <1>1, <1>2, <1>5, <2>1, SameBlocks, Zenon DEF BInv
<1>8. Counted'
  <2>1. \A c \in Bufs : UsesOf(c)' = UsesOf(c)
    BY <1>0, <1>1, <1>2, <1>3, <1>5, SameUses, Zenon DEF BInv
  <2> QED
    BY <2>1, <1>2, <1>4 DEF BInv, Counted
<1>9. PinsBounded'
  <2>1. Pinned' = Pinned
    BY <1>2, <1>4 DEF Pinned
  <2> QED
    BY <2>1 DEF BInv, PinsBounded
<1>10. OneCopy'
  BY <1>2, <1>4 DEF BInv, OneCopy
<1>11. Exclusive'
  <2>1. \A c \in Bufs : buf'[c].locked = buf[c].locked
    BY <1>2, <1>4, Zenon
  <2>2. Inside(p)
    BY <1>1, Zenon DEF Inside
  <2> QED
    BY <1>0, <1>2, <1>5, <2>1, <2>2, SameLocks, Zenon DEF BInv
<1>12. ValidFresh'
  <2>1. \A c \in Bufs : buf'[c].valid = buf[c].valid /\ (buf[c].fresh = TRUE => buf'[c].fresh = TRUE)
    BY <1>2, <1>4, Zenon
  <2> QED
    BY <1>0, <1>1, <1>2, <1>5, <2>1, SameValid, Zenon DEF BInv
<1>13. Kept'
  BY <1>0, <1>1, <1>2, <1>4, <1>5 DEF BInv, Kept, Keeps
<1> QED
  BY <1>3, <1>6, <1>7, <1>8, <1>9, <1>10, <1>11, <1>12, <1>13 DEF BInv

\* bwrite() and bunpin() keep the invariant: the disk has the last change then.
LEMMA BwriteStep ==
  ASSUME BInv, NEW p \in Holders, bwrite(p)
  PROVE  BInv'
<1>0. PICK b \in Bufs : b = hold[p].b
  BY Zenon DEF bwrite, BInv, Assigned
<1>1. /\ hold[p].pc \in {"have", "dirty"} /\ buf[b].valid = TRUE /\ buf[b].fresh = TRUE
      /\ hold[p].blk \in Blocks /\ buf[b].blockno = hold[p].blk
      /\ lru' = lru /\ disk' = [disk EXCEPT ![hold[p].blk] = TRUE]
  BY <1>0, Zenon DEF bwrite, BInv, Assigned, ValidFresh
<1>2. /\ \A c \in Bufs \ {b} : buf'[c] = buf[c]
      /\ \A q \in Holders \ {p} : hold'[q] = hold[q]
  BY <1>0, <1>1, Zenon DEF bwrite, BInv, BTypeOK, BufType, HoldType
<1>3. BTypeOK'
  <2>1. buf' \in [Bufs -> BufType]
    <3>1. buf[b].refcnt - buf[b].pins \in Nat
      <4>1. buf[b].refcnt = Cardinality(UsesOf(b)) + buf[b].pins /\ Cardinality(UsesOf(b)) \in Nat
        BY UsesFinite, Zenon DEF BInv, Counted
      <4>2. buf[b].pins \in {0, 1}
        BY Zenon DEF BInv, BTypeOK, BufType
      <4> QED
        BY <4>1, <4>2
    <3>2. [buf[b] EXCEPT !.refcnt = buf[b].refcnt - buf[b].pins, !.pins = 0] \in BufType
      <4>1. buf[b] \in BufType
        BY Zenon DEF BInv, BTypeOK
      <4> QED
        BY <3>1, <4>1, BufFields, Zenon
    <3>3. buf' = [buf EXCEPT ![b] = [buf[b] EXCEPT !.refcnt = buf[b].refcnt - buf[b].pins, !.pins = 0]]
      BY <1>0, Zenon DEF bwrite
    <3> QED
      BY <3>2, <3>3, Zenon DEF BInv, BTypeOK
  <2>2. hold' \in [Holders -> HoldType]
    BY <1>0, <1>1 DEF bwrite, BInv, BTypeOK, HoldType, Pcs
  <2>3. disk' \in [Blocks -> BOOLEAN]
    BY <1>0, <1>1, Zenon DEF bwrite, BInv, BTypeOK, BufType
  <2> QED
    BY <1>1, <2>1, <2>2, <2>3, Zenon DEF BInv, BTypeOK
<1>4. /\ buf'[b].blockno = buf[b].blockno /\ buf'[b].refcnt = buf[b].refcnt - buf[b].pins /\ buf'[b].valid = buf[b].valid
      /\ buf'[b].locked = buf[b].locked /\ buf'[b].fresh = buf[b].fresh /\ buf'[b].pins = 0
  <2>1. buf'[b] = [buf[b] EXCEPT !.refcnt = buf[b].refcnt - buf[b].pins, !.pins = 0]
    BY <1>0, Zenon DEF bwrite, BInv, BTypeOK
  <2> QED
    BY <2>1 DEF BInv, BTypeOK, BufType
<1>5. /\ hold'[p].b = b /\ hold'[p].blk = hold[p].blk
      /\ hold'[p].pc = "have"
  BY <1>0, <1>1 DEF bwrite, BInv, BTypeOK, BufType, HoldType
<1>6. Listed'
  BY <1>1, Zenon DEF BInv, Listed
<1>7. Assigned' /\ IdleNoBlock'
  <2>1. \A c \in Bufs : buf'[c].blockno = buf[c].blockno
    BY <1>2, <1>4, Zenon
  <2> QED
    BY <1>0, <1>1, <1>2, <1>5, <2>1, SameBlocks, Zenon DEF BInv
<1>8. Counted'
  <2>1. \A c \in Bufs : UsesOf(c)' = UsesOf(c)
    BY <1>0, <1>1, <1>2, <1>3, <1>5, SameUses, Zenon DEF BInv
  <2> QED
    BY <2>1, <1>2, <1>4, UsesFinite DEF BInv, Counted, BTypeOK, BufType
<1>9. PinsBounded'
  <2>1. Pinned' \subseteq Pinned
    BY <1>2, <1>4 DEF Pinned
  <2> QED
    <3>1. Cardinality(Pinned') <= Cardinality(Pinned)
      BY <2>1, PinnedFinite, FS_Subset, Zenon
    <3> QED
      BY <3>1, PinnedFinite, BcacheAssumption DEF BInv, PinsBounded
<1>10. OneCopy'
  BY <1>2, <1>4 DEF BInv, OneCopy
<1>11. Exclusive'
  <2>1. \A c \in Bufs : buf'[c].locked = buf[c].locked
    BY <1>2, <1>4, Zenon
  <2>2. Inside(p)
    BY <1>1, Zenon DEF Inside
  <2> QED
    BY <1>0, <1>2, <1>5, <2>1, <2>2, SameLocks, Zenon DEF BInv
<1>12. ValidFresh'
  <2>1. \A c \in Bufs : buf'[c].valid = buf[c].valid /\ (buf[c].fresh = TRUE => buf'[c].fresh = TRUE)
    BY <1>2, <1>4, Zenon
  <2> QED
    BY <1>0, <1>1, <1>2, <1>5, <2>1, SameValid, Zenon DEF BInv
<1>13. Kept'
  <2> SUFFICES ASSUME NEW blk \in Blocks, disk'[blk] = FALSE
               PROVE  \E c \in Bufs : Keeps(c, blk)'
    BY Zenon DEF Kept
  <2>1. blk # hold[p].blk /\ disk[blk] = FALSE
    BY <1>1, Zenon DEF BInv, BTypeOK
  <2>2. PICK c \in Bufs : Keeps(c, blk)
    BY <2>1, Zenon DEF BInv, Kept
  <2>3. c # b
    BY <2>1, <2>2, <1>1, Zenon DEF Keeps
  <2>4. buf'[c].pins = 1 \/ \E q \in Holders : hold'[q].pc = "dirty" /\ hold'[q].b = c
    BY <1>0, <1>2, <2>2, <2>3 DEF Keeps
  <2> QED
    BY <1>2, <2>2, <2>3, <2>4, Zenon DEF Keeps
<1> QED
  BY <1>3, <1>6, <1>7, <1>8, <1>9, <1>10, <1>11, <1>12, <1>13 DEF BInv

\* bpin() keeps the invariant: a dirty block stays in the cache.
LEMMA BpinStep ==
  ASSUME BInv, NEW p \in Holders, bpin(p)
  PROVE  BInv'
<1>0. PICK b \in Bufs : b = hold[p].b
  BY Zenon DEF bpin, BInv, Assigned
<1>1. /\ hold[p].pc = "dirty" /\ buf[b].valid = TRUE
      /\ hold[p].blk \in Blocks /\ buf[b].blockno = hold[p].blk
      /\ lru' = lru /\ disk' = disk
  BY <1>0, Zenon DEF bpin, BInv, Assigned, ValidFresh
<1>2. /\ \A c \in Bufs \ {b} : buf'[c] = buf[c]
      /\ \A q \in Holders \ {p} : hold'[q] = hold[q]
  BY <1>0, <1>1, Zenon DEF bpin, BInv, BTypeOK, BufType, HoldType
<1>3. BTypeOK'
  <2>1. buf' \in [Bufs -> BufType]
    <3>1. buf[b].refcnt + 1 - buf[b].pins \in Nat
      <4>1. buf[b].refcnt = Cardinality(UsesOf(b)) + buf[b].pins /\ Cardinality(UsesOf(b)) \in Nat
        BY UsesFinite DEF BInv, Counted
      <4>2. buf[b].pins \in {0, 1}
        BY DEF BInv, BTypeOK, BufType
      <4> QED
        BY <4>1, <4>2
    <3>2. [buf[b] EXCEPT !.refcnt = buf[b].refcnt + 1 - buf[b].pins, !.pins = 1] \in BufType
      <4>1. buf[b] \in BufType
        BY Zenon DEF BInv, BTypeOK
      <4> QED
        BY <3>1, <4>1, BufFields, Zenon
    <3>3. buf' = [buf EXCEPT ![b] = [buf[b] EXCEPT !.refcnt = buf[b].refcnt + 1 - buf[b].pins, !.pins = 1]]
      BY <1>0, Zenon DEF bpin
    <3> QED
      BY <3>2, <3>3, Zenon DEF BInv, BTypeOK
  <2>2. hold' \in [Holders -> HoldType]
    BY <1>0, <1>1 DEF bpin, BInv, BTypeOK, HoldType, Pcs
  <2>3. disk' \in [Blocks -> BOOLEAN]
    BY <1>0, <1>1, Zenon DEF bpin, BInv, BTypeOK, BufType
  <2> QED
    BY <1>1, <2>1, <2>2, <2>3, Zenon DEF BInv, BTypeOK
<1>4. /\ buf'[b].blockno = buf[b].blockno /\ buf'[b].refcnt = buf[b].refcnt + 1 - buf[b].pins /\ buf'[b].valid = buf[b].valid
      /\ buf'[b].locked = buf[b].locked /\ buf'[b].fresh = buf[b].fresh /\ buf'[b].pins = 1
  <2>1. buf'[b] = [buf[b] EXCEPT !.refcnt = buf[b].refcnt + 1 - buf[b].pins, !.pins = 1]
    BY <1>0, Zenon DEF bpin, BInv, BTypeOK
  <2> QED
    BY <2>1 DEF BInv, BTypeOK, BufType
<1>5. /\ hold'[p].b = b /\ hold'[p].blk = hold[p].blk
      /\ hold'[p].pc = "have"
  BY <1>0, <1>1 DEF bpin, BInv, BTypeOK, BufType, HoldType
<1>6. Listed'
  BY <1>1, Zenon DEF BInv, Listed
<1>7. Assigned' /\ IdleNoBlock'
  <2>1. \A c \in Bufs : buf'[c].blockno = buf[c].blockno
    BY <1>2, <1>4, Zenon
  <2> QED
    BY <1>0, <1>1, <1>2, <1>5, <2>1, SameBlocks, Zenon DEF BInv
<1>8. Counted'
  <2>1. \A c \in Bufs : UsesOf(c)' = UsesOf(c)
    BY <1>0, <1>1, <1>2, <1>3, <1>5, SameUses, Zenon DEF BInv
  <2> QED
    BY <2>1, <1>2, <1>4, UsesFinite DEF BInv, Counted, BTypeOK, BufType
<1>9. PinsBounded'
  <2>1. CASE buf[b].pins = 1
    <3>1. Pinned' = Pinned
      BY <1>2, <1>4, <2>1, Zenon DEF Pinned
    <3> QED
      BY <3>1 DEF BInv, PinsBounded
  <2>2. CASE Cardinality(Pinned) < MAXPINS /\ buf[b].pins # 1
    <3>1. Pinned' = Pinned \cup {b} /\ b \notin Pinned
      BY <1>2, <1>4, <2>2 DEF Pinned
    <3>2. Cardinality(Pinned') = Cardinality(Pinned) + 1
      BY <3>1, PinnedFinite, FS_AddElement, Zenon
    <3> QED
      BY <3>2, <2>2, PinnedFinite, BcacheAssumption DEF PinsBounded
  <2> QED
    BY <1>0, <2>1, <2>2, Zenon DEF bpin
<1>10. OneCopy'
  BY <1>2, <1>4 DEF BInv, OneCopy
<1>11. Exclusive'
  <2>1. \A c \in Bufs : buf'[c].locked = buf[c].locked
    BY <1>2, <1>4, Zenon
  <2>2. Inside(p)
    BY <1>1, Zenon DEF Inside
  <2> QED
    BY <1>0, <1>2, <1>5, <2>1, <2>2, SameLocks, Zenon DEF BInv
<1>12. ValidFresh'
  <2>1. \A c \in Bufs : buf'[c].valid = buf[c].valid /\ (buf[c].fresh = TRUE => buf'[c].fresh = TRUE)
    BY <1>2, <1>4, Zenon
  <2> QED
    BY <1>0, <1>1, <1>2, <1>5, <2>1, SameValid, Zenon DEF BInv
<1>13. Kept'
  BY <1>0, <1>1, <1>2, <1>4, <1>5 DEF BInv, Kept, Keeps
<1> QED
  BY <1>3, <1>6, <1>7, <1>8, <1>9, <1>10, <1>11, <1>12, <1>13 DEF BInv

\* releasesleep() keeps the invariant: what is not written is pinned.
LEMMA ReleasesleepStep ==
  ASSUME BInv, NEW p \in Holders, releasesleep(p)
  PROVE  BInv'
<1>0. PICK b \in Bufs : b = hold[p].b
  BY Zenon DEF releasesleep, BInv, Assigned
<1>1. /\ hold[p].pc = "have"
      /\ hold[p].blk \in Blocks /\ buf[b].blockno = hold[p].blk
      /\ lru' = lru /\ disk' = disk
  BY <1>0, Zenon DEF releasesleep, BInv, Assigned, ValidFresh
<1>2. /\ \A c \in Bufs \ {b} : buf'[c] = buf[c]
      /\ \A q \in Holders \ {p} : hold'[q] = hold[q]
  BY <1>0, <1>1, Zenon DEF releasesleep, BInv, BTypeOK, BufType, HoldType
<1>3. BTypeOK'
  <2>1. buf' \in [Bufs -> BufType]
    BY <1>0, <1>1, ZenonT(30), SMTT(20) DEF releasesleep, BInv, BTypeOK, BufType
  <2>2. hold' \in [Holders -> HoldType]
    BY <1>0, <1>1 DEF releasesleep, BInv, BTypeOK, HoldType, Pcs
  <2>3. disk' \in [Blocks -> BOOLEAN]
    BY <1>0, <1>1, Zenon DEF releasesleep, BInv, BTypeOK, BufType
  <2> QED
    BY <1>1, <2>1, <2>2, <2>3, Zenon DEF BInv, BTypeOK
<1>4. /\ buf'[b].blockno = buf[b].blockno /\ buf'[b].refcnt = buf[b].refcnt /\ buf'[b].valid = buf[b].valid
      /\ buf'[b].locked = FALSE /\ buf'[b].fresh = buf[b].fresh /\ buf'[b].pins = buf[b].pins
  BY <1>0, <1>1 DEF releasesleep, BInv, BTypeOK, BufType
<1>5. /\ hold'[p].b = b /\ hold'[p].blk = hold[p].blk
      /\ hold'[p].pc = "release"
  BY <1>0, <1>1, Zenon DEF releasesleep, BInv, BTypeOK, BufType, HoldType
<1>6. Listed'
  BY <1>1, Zenon DEF BInv, Listed
<1>7. Assigned' /\ IdleNoBlock'
  <2>1. \A c \in Bufs : buf'[c].blockno = buf[c].blockno
    BY <1>2, <1>4, Zenon
  <2> QED
    BY <1>0, <1>1, <1>2, <1>5, <2>1, SameBlocks, Zenon DEF BInv
<1>8. Counted'
  <2>1. \A c \in Bufs : UsesOf(c)' = UsesOf(c)
    BY <1>0, <1>1, <1>2, <1>3, <1>5, SameUses, Zenon DEF BInv
  <2> QED
    BY <2>1, <1>2, <1>4 DEF BInv, Counted
<1>9. PinsBounded'
  <2>1. Pinned' = Pinned
    BY <1>2, <1>4, Zenon DEF Pinned
  <2> QED
    BY <2>1 DEF BInv, PinsBounded
<1>10. OneCopy'
  BY <1>2, <1>4 DEF BInv, OneCopy
<1>11. Exclusive'
  <2>1. \A q \in Holders : Inside(q)' => q # p /\ hold'[q] = hold[q] /\ Inside(q)
    BY <1>2, <1>5, Zenon DEF Inside
  <2>2. \A q \in Holders \ {p} : Inside(q) => hold[q].b \in Bufs \ {b}
    BY <1>0, <1>1, Zenon DEF BInv, Exclusive, Inside, Assigned
  <2>3. \A q \in Holders : Inside(q)' => buf'[hold'[q].b].locked = TRUE
    <3> SUFFICES ASSUME NEW q \in Holders, Inside(q)'
                 PROVE  buf'[hold'[q].b].locked = TRUE
      BY Zenon
    <3>1. q # p /\ hold'[q] = hold[q] /\ Inside(q) /\ hold[q].b \in Bufs \ {b}
      BY <2>1, <2>2, Zenon
    <3>2. buf[hold[q].b].locked = TRUE
      BY <3>1, Zenon DEF BInv, Exclusive
    <3> QED
      BY <1>2, <3>1, <3>2, Zenon
  <2>4. \A q, r \in Holders : Inside(q)' /\ Inside(r)' /\ hold'[q].b = hold'[r].b => q = r
    BY <2>1, Zenon DEF BInv, Exclusive
  <2> QED
    BY <2>3, <2>4, Zenon DEF Exclusive
<1>12. ValidFresh'
  <2>1. \A c \in Bufs : buf'[c].valid = buf[c].valid /\ (buf[c].fresh = TRUE => buf'[c].fresh = TRUE)
    BY <1>2, <1>4, Zenon
  <2> QED
    BY <1>0, <1>1, <1>2, <1>5, <2>1, SameValid, Zenon DEF BInv
<1>13. Kept'
  BY <1>0, <1>1, <1>2, <1>4, <1>5 DEF BInv, Kept, Keeps
<1> QED
  BY <1>3, <1>6, <1>7, <1>8, <1>9, <1>10, <1>11, <1>12, <1>13 DEF BInv

\* A use that takes a buffer is one more of it.
LEMMA MoreUses ==
  ASSUME NEW p \in Holders, NEW b \in Bufs, hold[p].pc = "idle",
         hold'[p].pc # "idle", hold'[p].b = b,
         \A q \in Holders \ {p} : hold'[q] = hold[q]
  PROVE  /\ Cardinality(UsesOf(b)') = Cardinality(UsesOf(b)) + 1
         /\ \A c \in Bufs \ {b} : UsesOf(c)' = UsesOf(c)
<1>1. UsesOf(b)' = UsesOf(b) \cup {p} /\ p \notin UsesOf(b)
  BY DEF UsesOf
<1>2. \A c \in Bufs \ {b} : UsesOf(c)' = UsesOf(c)
  BY Zenon DEF UsesOf
<1>3. Cardinality(UsesOf(b) \cup {p}) = Cardinality(UsesOf(b)) + 1
  <2>1. IsFiniteSet(UsesOf(b))
    BY UsesFinite, Zenon
  <2> QED
    BY <1>1, <2>1, FS_AddElement, Zenon
<1> QED
  BY <1>1, <1>2, <1>3, Zenon

\* A use that gives its buffer back is one less of it.
LEMMA LessUses ==
  ASSUME NEW p \in Holders, NEW b \in Bufs, hold[p].pc # "idle", hold[p].b = b,
         hold'[p].pc = "idle",
         \A q \in Holders \ {p} : hold'[q] = hold[q]
  PROVE  /\ Cardinality(UsesOf(b)') = Cardinality(UsesOf(b)) - 1
         /\ \A c \in Bufs \ {b} : UsesOf(c)' = UsesOf(c)
<1>1. UsesOf(b)' = UsesOf(b) \ {p} /\ p \in UsesOf(b)
  BY Zenon DEF UsesOf
<1>2. \A c \in Bufs \ {b} : UsesOf(c)' = UsesOf(c)
  BY Zenon DEF UsesOf
<1>3. Cardinality(UsesOf(b) \ {p}) = Cardinality(UsesOf(b)) - 1
  BY <1>1, UsesFinite, FS_RemoveElement
<1> QED
  BY <1>1, <1>2, <1>3, Zenon

\* What bget() writes into a buffer has its type.
LEMMA BgetTypes ==
  ASSUME NEW r \in BufType, NEW blk \in Blocks
  PROVE  /\ [r EXCEPT !.refcnt = r.refcnt + 1] \in BufType
         /\ [r EXCEPT !.blockno = blk, !.valid = FALSE, !.fresh = FALSE, !.refcnt = 1] \in BufType
<1>1. r.refcnt + 1 \in Nat
  BY DEF BufType
<1>2. [r EXCEPT !.refcnt = r.refcnt + 1] \in BufType
  BY <1>1, Zenon DEF BufType
<1>3. [r EXCEPT !.blockno = blk, !.valid = FALSE, !.fresh = FALSE, !.refcnt = 1] \in BufType
  BY Zenon DEF BufType
<1> QED
  BY <1>2, <1>3, Zenon

\* bget() of a block in the cache keeps the invariant: the use is counted before it
\* waits for the lock.
LEMMA HitStep ==
  ASSUME BInv, NEW p \in Holders, NEW blk \in Blocks, NEW b \in Bufs,
         hold[p].pc = "idle", buf[b].blockno = blk,
         buf' = [buf EXCEPT ![b].refcnt = @ + 1],
         hold' = [hold EXCEPT ![p] = [pc |-> "lock", blk |-> blk, b |-> b]],
         lru' = lru, disk' = disk
  PROVE  BInv'
<1>1. /\ \A c \in Bufs \ {b} : buf'[c] = buf[c]
      /\ \A q \in Holders \ {p} : hold'[q] = hold[q]
  BY Zenon DEF BInv, BTypeOK
<1>2. BTypeOK'
  <2>1. buf' \in [Bufs -> BufType]
    <3> DEFINE r == [buf[b] EXCEPT !.refcnt = buf[b].refcnt + 1]
    <3>1. r \in BufType
      BY BgetTypes, Zenon DEF BInv, BTypeOK
    <3>2. buf' = [buf EXCEPT ![b] = r]
      OBVIOUS
    <3> HIDE DEF r
    <3> QED
      BY <3>1, <3>2, Zenon DEF BInv, BTypeOK
  <2>2. hold' \in [Holders -> HoldType]
    BY Zenon DEF BInv, BTypeOK, HoldType, Pcs
  <2> QED
    BY <2>1, <2>2, Zenon DEF BInv, BTypeOK
<1>3. /\ buf'[b].blockno = buf[b].blockno /\ buf'[b].refcnt = buf[b].refcnt + 1
      /\ buf'[b].valid = buf[b].valid /\ buf'[b].locked = buf[b].locked
      /\ buf'[b].fresh = buf[b].fresh /\ buf'[b].pins = buf[b].pins
  BY DEF BInv, BTypeOK, BufType
<1>4. hold'[p].pc = "lock" /\ hold'[p].b = b /\ hold'[p].blk = blk
  BY Zenon DEF BInv, BTypeOK
<1>5. Listed' /\ OneCopy'
  BY <1>1, <1>3 DEF BInv, Listed, OneCopy
<1>6. Assigned' /\ IdleNoBlock'
  BY <1>1, <1>3, <1>4 DEF BInv, Assigned, IdleNoBlock
<1>7. Counted'
  <2>1. /\ Cardinality(UsesOf(b)') = Cardinality(UsesOf(b)) + 1
        /\ \A c \in Bufs \ {b} : UsesOf(c)' = UsesOf(c)
    BY <1>1, <1>4, MoreUses, Zenon
  <2>2. buf[b].pins \in {0, 1}
    BY Zenon DEF BInv, BTypeOK, BufType
  <2>3. Cardinality(UsesOf(b)) \in Nat
    BY UsesFinite, Zenon
  <2>4. buf'[b].refcnt = Cardinality(UsesOf(b)') + buf'[b].pins
    BY <1>3, <2>1, <2>2, <2>3 DEF BInv, Counted
  <2>5. \A c \in Bufs \ {b} : buf'[c].refcnt = Cardinality(UsesOf(c)') + buf'[c].pins
    BY <1>1, <2>1, Zenon DEF BInv, Counted
  <2> QED
    BY <2>4, <2>5, Zenon DEF Counted
<1>8. PinsBounded'
  <2>1. Pinned' = Pinned
    BY <1>1, <1>3, Zenon DEF Pinned
  <2> QED
    BY <2>1, Zenon DEF BInv, PinsBounded
<1>9. Exclusive'
  BY <1>1, <1>3, <1>4 DEF BInv, Exclusive, Inside, Assigned
<1>10. ValidFresh'
  BY <1>1, <1>3, <1>4 DEF BInv, ValidFresh, Assigned
<1>11. Kept'
  BY <1>1, <1>3, <1>4 DEF BInv, Kept, Keeps
<1> QED
  BY <1>2, <1>5, <1>6, <1>7, <1>8, <1>9, <1>10, <1>11, Zenon DEF BInv

\* bget() of a block that is not in the cache keeps the invariant: a buffer that nobody
\* uses is not pinned, so that what it had is on the disk.
LEMMA MissStep ==
  ASSUME BInv, NEW p \in Holders, NEW blk \in Blocks, NEW b \in Bufs,
         hold[p].pc = "idle", buf[b].refcnt = 0, \A c \in Bufs : buf[c].blockno # blk,
         buf' = [buf EXCEPT ![b] = [@ EXCEPT !.blockno = blk, !.valid = FALSE, !.fresh = FALSE,
                                       !.refcnt = 1]],
         hold' = [hold EXCEPT ![p] = [pc |-> "lock", blk |-> blk, b |-> b]],
         lru' = lru, disk' = disk
  PROVE  BInv'
<1>1. /\ \A c \in Bufs \ {b} : buf'[c] = buf[c]
      /\ \A q \in Holders \ {p} : hold'[q] = hold[q]
  BY Zenon DEF BInv, BTypeOK
<1>2. BTypeOK'
  <2>1. buf' \in [Bufs -> BufType]
    <3> DEFINE r == [buf[b] EXCEPT !.blockno = blk, !.valid = FALSE, !.fresh = FALSE, !.refcnt = 1]
    <3>1. r \in BufType
      BY BgetTypes, Zenon DEF BInv, BTypeOK
    <3>2. buf' = [buf EXCEPT ![b] = r]
      OBVIOUS
    <3> HIDE DEF r
    <3> QED
      BY <3>1, <3>2, Zenon DEF BInv, BTypeOK
  <2>2. hold' \in [Holders -> HoldType]
    BY Zenon DEF BInv, BTypeOK, HoldType, Pcs
  <2> QED
    BY <2>1, <2>2, Zenon DEF BInv, BTypeOK
<1>3. /\ buf'[b].blockno = blk /\ buf'[b].refcnt = 1
      /\ buf'[b].valid = FALSE /\ buf'[b].locked = buf[b].locked
      /\ buf'[b].fresh = FALSE /\ buf'[b].pins = buf[b].pins
  BY DEF BInv, BTypeOK, BufType
<1>4. hold'[p].pc = "lock" /\ hold'[p].b = b /\ hold'[p].blk = blk
  BY Zenon DEF BInv, BTypeOK
<1>5. UsesOf(b) = {} /\ buf[b].pins = 0
  <2>1. Cardinality(UsesOf(b)) \in Nat /\ IsFiniteSet(UsesOf(b))
    BY UsesFinite, Zenon
  <2>2. buf[b].pins \in {0, 1}
    BY Zenon DEF BInv, BTypeOK, BufType
  <2>3. Cardinality(UsesOf(b)) = 0 /\ buf[b].pins = 0
    BY <2>1, <2>2 DEF BInv, Counted
  <2> QED
    BY <2>1, <2>3, FS_EmptySet, Zenon
<1>6. \A q \in Holders : hold[q].pc # "idle" => hold[q].b # b
  BY <1>5, Zenon DEF UsesOf
<1>7. Listed' /\ OneCopy'
  BY <1>1, <1>3 DEF BInv, Listed, OneCopy
<1>8. Assigned' /\ IdleNoBlock'
  BY <1>1, <1>3, <1>4, <1>6 DEF BInv, Assigned, IdleNoBlock
<1>9. Counted'
  <2>1. /\ Cardinality(UsesOf(b)') = Cardinality(UsesOf(b)) + 1
        /\ \A c \in Bufs \ {b} : UsesOf(c)' = UsesOf(c)
    BY <1>1, <1>4, MoreUses, Zenon
  <2>2. Cardinality(UsesOf(b)') = 1
    BY <1>5, <2>1, FS_EmptySet
  <2>3. buf'[b].refcnt = Cardinality(UsesOf(b)') + buf'[b].pins
    BY <1>3, <1>5, <2>2
  <2>4. \A c \in Bufs \ {b} : buf'[c].refcnt = Cardinality(UsesOf(c)') + buf'[c].pins
    BY <1>1, <2>1, Zenon DEF BInv, Counted
  <2> QED
    BY <2>3, <2>4, Zenon DEF Counted
<1>10. PinsBounded'
  <2>1. Pinned' = Pinned
    BY <1>1, <1>3 DEF Pinned
  <2> QED
    BY <2>1, Zenon DEF BInv, PinsBounded
<1>11. Exclusive'
  BY <1>1, <1>3, <1>4, <1>6 DEF BInv, Exclusive, Inside, Assigned
<1>12. ValidFresh'
  BY <1>1, <1>3, <1>4, <1>6 DEF BInv, ValidFresh, Assigned
<1>13. Kept'
  <2> SUFFICES ASSUME NEW x \in Blocks, disk[x] = FALSE
               PROVE  \E c \in Bufs : Keeps(c, x)'
    BY Zenon DEF Kept
  <2>1. PICK c \in Bufs : Keeps(c, x)
    BY Zenon DEF BInv, Kept
  <2>2. c # b
    BY <1>5, <1>6, <2>1 DEF Keeps
  <2> QED
    BY <1>1, <2>1, <2>2 DEF Keeps
<1> QED
  BY <1>2, <1>7, <1>8, <1>9, <1>10, <1>11, <1>12, <1>13, Zenon DEF BInv

\* bget() keeps the invariant.
LEMMA BgetStep ==
  ASSUME BInv, NEW p \in Holders, NEW blk \in Blocks, bget(p, blk)
  PROVE  BInv'
<1> DEFINE hit  == {b \in Bufs : buf[b].blockno = blk}
           free == {k \in DOMAIN lru : buf[lru[k]].refcnt = 0}
<1>1. CASE hit # {}
  <2>1. PICK b \in Bufs : b = (CHOOSE x \in hit : TRUE) /\ buf[b].blockno = blk
    BY <1>1, Zenon
  <2>2. /\ hold[p].pc = "idle" /\ lru' = lru /\ disk' = disk
        /\ buf' = [buf EXCEPT ![b].refcnt = @ + 1]
        /\ hold' = [hold EXCEPT ![p] = [pc |-> "lock", blk |-> blk, b |-> b]]
    BY <1>1, <2>1, Zenon DEF bget
  <2> QED
    BY <2>1, <2>2, HitStep, Zenon
<1>2. CASE hit = {}
  <2>1. free # {} /\ free \subseteq 1 .. NBUF
    BY <1>2, Zenon DEF bget, BInv, BTypeOK
  <2>2. Max(free) \in free
    <3> HIDE DEF free
    <3> QED
      BY <2>1, MaxIn, BcacheAssumption, Zenon
  <2>3. PICK b \in Bufs : b = lru[Max(free)] /\ buf[b].refcnt = 0
    BY <2>1, <2>2, Zenon DEF BInv, BTypeOK
  <2>4. /\ hold[p].pc = "idle" /\ lru' = lru /\ disk' = disk
        /\ buf' = [buf EXCEPT ![b] = [@ EXCEPT !.blockno = blk, !.valid = FALSE, !.fresh = FALSE,
                                         !.refcnt = 1]]
        /\ hold' = [hold EXCEPT ![p] = [pc |-> "lock", blk |-> blk, b |-> b]]
    BY <1>2, <2>3, Zenon DEF bget
  <2>5. \A c \in Bufs : buf[c].blockno # blk
    BY <1>2, Zenon
  <2> QED
    BY <2>3, <2>4, <2>5, MissStep, Zenon
<1> QED
  BY <1>1, <1>2, Zenon

\* The list has the same buffers after one of them went to its front.
LEMMA FrontListed ==
  ASSUME lru \in [1 .. NBUF -> Bufs], Listed, NEW b \in Bufs
  PROVE  /\ ToFront(b) \in [1 .. NBUF -> Bufs]
         /\ \A c \in Bufs : \E k \in 1 .. NBUF : ToFront(b)[k] = c
<1> DEFINE i  == CHOOSE k \in DOMAIN lru : lru[k] = b
           s1 == SubSeq(lru, 1, i - 1)
           s2 == SubSeq(lru, i + 1, Len(lru))
<1>0. NBUF \in Nat
  BY BcacheAssumption, Zenon
<1>1. lru \in Seq(Bufs) /\ Len(lru) = NBUF /\ DOMAIN lru = 1 .. NBUF
  BY <1>0
<1>2. i \in 1 .. NBUF /\ lru[i] = b
  BY <1>1, Zenon DEF Listed
<1>3. ToFront(b) = <<b>> \o (s1 \o s2)
  BY Zenon DEF ToFront
<1> HIDE DEF i
<1>4. /\ s1 \in Seq(Bufs) /\ Len(s1) = i - 1
      /\ \A k \in 1 .. i - 1 : s1[k] = lru[k]
  BY <1>0, <1>1, <1>2
<1>5. /\ s2 \in Seq(Bufs) /\ Len(s2) = NBUF - i
      /\ \A k \in 1 .. NBUF - i : s2[k] = lru[i + k]
  BY <1>0, <1>1, <1>2
<1> HIDE DEF s1, s2
<1> DEFINE t == s1 \o s2
<1>6. /\ t \in Seq(Bufs) /\ Len(t) = NBUF - 1
      /\ \A k \in 1 .. i - 1 : t[k] = lru[k]
      /\ \A k \in i .. NBUF - 1 : t[k] = s2[k - (i - 1)]
  <2>1. /\ t \in Seq(Bufs) /\ Len(t) = Len(s1) + Len(s2)
        /\ \A k \in 1 .. Len(s1) + Len(s2) :
             t[k] = IF k <= Len(s1) THEN s1[k] ELSE s2[k - Len(s1)]
    BY <1>4, <1>5, ConcatFacts, Zenon
  <2>2. Len(t) = NBUF - 1
    BY <1>0, <1>2, <1>4, <1>5, <2>1
  <2>3. \A k \in 1 .. i - 1 : k \in 1 .. Len(s1) + Len(s2) /\ k <= Len(s1)
    BY <1>0, <1>2, <1>4, <1>5
  <2>4. \A k \in i .. NBUF - 1 : k \in 1 .. Len(s1) + Len(s2) /\ ~ (k <= Len(s1))
    BY <1>0, <1>2, <1>4, <1>5
  <2>5. \A k \in 1 .. i - 1 : t[k] = lru[k]
    BY <1>4, <2>1, <2>3, Zenon
  <2>6. \A k \in i .. NBUF - 1 : t[k] = s2[k - (i - 1)]
    BY <1>4, <2>1, <2>4, Zenon
  <2> QED
    BY <2>1, <2>2, <2>5, <2>6, Zenon
<1>7. \A k \in i .. NBUF - 1 : t[k] = lru[k + 1]
  <2> TAKE k \in i .. NBUF - 1
  <2>1. k - (i - 1) \in 1 .. NBUF - i /\ i + (k - (i - 1)) = k + 1
    BY <1>0, <1>2
  <2> QED
    BY <1>5, <1>6, <2>1, Zenon
<1> HIDE DEF t
<1> DEFINE u == <<b>> \o t
<1>8. /\ u \in Seq(Bufs) /\ Len(u) = NBUF /\ u[1] = b
      /\ \A k \in 1 .. NBUF - 1 : u[k + 1] = t[k]
  BY <1>0, <1>2, <1>6
<1> HIDE DEF u
<1>9. u \in [1 .. NBUF -> Bufs]
  BY <1>0, <1>8
<1>10. ASSUME NEW c \in Bufs PROVE \E k \in 1 .. NBUF : u[k] = c
  <2>1. PICK k \in 1 .. NBUF : lru[k] = c
    BY Zenon DEF Listed
  <2>2. CASE k = i
    BY <1>0, <1>2, <1>8, <2>1, <2>2
  <2>3. CASE k < i
    <3>1. k \in 1 .. i - 1 /\ k \in 1 .. NBUF - 1 /\ k + 1 \in 1 .. NBUF
      BY <1>0, <1>2, <2>3
    <3> QED
      BY <1>6, <1>8, <2>1, <3>1, Zenon
  <2>4. CASE k > i
    <3>1. k - 1 \in i .. NBUF - 1 /\ k - 1 \in 1 .. NBUF - 1 /\ (k - 1) + 1 = k
      BY <1>0, <1>2, <2>4
    <3>2. u[(k - 1) + 1] = t[k - 1] /\ t[k - 1] = lru[(k - 1) + 1]
      BY <1>7, <1>8, <3>1, Zenon
    <3> QED
      BY <2>1, <3>1, <3>2, Zenon
  <2> QED
    BY <1>2, <2>2, <2>3, <2>4
<1> QED
  BY <1>3, <1>9, <1>10, Zenon DEF u, t

\* brelse() keeps the invariant.
LEMMA BrelseStep ==
  ASSUME BInv, NEW p \in Holders, brelse(p)
  PROVE  BInv'
<1>0. PICK b \in Bufs : b = hold[p].b
  BY Zenon DEF brelse, BInv, Assigned
<1>1. /\ hold[p].pc = "release" /\ disk' = disk
      /\ hold' = [hold EXCEPT ![p] = NoUse] /\ buf' = [buf EXCEPT ![b].refcnt = @ - 1]
  BY <1>0, Zenon DEF brelse
<1>2. /\ \A c \in Bufs \ {b} : buf'[c] = buf[c]
      /\ \A q \in Holders \ {p} : hold'[q] = hold[q]
  BY <1>1, Zenon DEF BInv, BTypeOK
<1>3. hold'[p].pc = "idle" /\ hold'[p].blk = NoBuf
  BY <1>1, Zenon DEF BInv, BTypeOK, NoUse
<1>4. /\ buf'[b].blockno = buf[b].blockno /\ buf'[b].refcnt = buf[b].refcnt - 1
      /\ buf'[b].valid = buf[b].valid /\ buf'[b].locked = buf[b].locked
      /\ buf'[b].fresh = buf[b].fresh /\ buf'[b].pins = buf[b].pins
  BY <1>1 DEF BInv, BTypeOK, BufType
<1>5. Counted' /\ buf[b].refcnt - 1 \in Nat
  <2>1. /\ Cardinality(UsesOf(b)') = Cardinality(UsesOf(b)) - 1
        /\ \A c \in Bufs \ {b} : UsesOf(c)' = UsesOf(c)
    BY <1>0, <1>1, <1>2, <1>3, LessUses, Zenon
  <2>2. buf[b].pins \in {0, 1} /\ buf[b].refcnt \in Nat
    BY Zenon DEF BInv, BTypeOK, BufType
  <2>3. Cardinality(UsesOf(b)) \in Nat /\ Cardinality(UsesOf(b)) # 0
    <3>1. p \in UsesOf(b)
      BY <1>0, <1>1, Zenon DEF UsesOf
    <3> QED
      BY <3>1, UsesFinite, FS_EmptySet, Zenon
  <2>4. buf[b].refcnt = Cardinality(UsesOf(b)) + buf[b].pins
    BY Zenon DEF BInv, Counted
  <2>5. buf'[b].refcnt = Cardinality(UsesOf(b)') + buf'[b].pins /\ buf[b].refcnt - 1 \in Nat
    BY <1>4, <2>1, <2>2, <2>3, <2>4
  <2>6. \A c \in Bufs \ {b} : buf'[c].refcnt = Cardinality(UsesOf(c)') + buf'[c].pins
    BY <1>2, <2>1, Zenon DEF BInv, Counted
  <2> QED
    BY <2>5, <2>6, Zenon DEF Counted
<1>6. lru' \in [1 .. NBUF -> Bufs] /\ Listed'
  <2>1. lru' = lru \/ lru' = ToFront(b)
    BY <1>0, Zenon DEF brelse
  <2>2. CASE lru' = lru
    BY <2>2, Zenon DEF BInv, BTypeOK, Listed
  <2>3. CASE lru' = ToFront(b)
    BY <2>3, FrontListed, Zenon DEF BInv, BTypeOK, Listed
  <2> QED
    BY <2>1, <2>2, <2>3, Zenon
<1>7. BTypeOK'
  <2>1. buf' \in [Bufs -> BufType]
    <3>1. buf[b] \in BufType
      BY Zenon DEF BInv, BTypeOK
    <3>2. [buf[b] EXCEPT !.refcnt = buf[b].refcnt - 1] \in BufType
      BY <1>5, <3>1, BufFields, Zenon
    <3>3. buf' = [buf EXCEPT ![b] = [buf[b] EXCEPT !.refcnt = buf[b].refcnt - 1]]
      BY <1>1, Zenon
    <3> QED
      BY <3>2, <3>3, Zenon DEF BInv, BTypeOK
  <2>2. hold' \in [Holders -> HoldType]
    BY <1>1, Zenon DEF BInv, BTypeOK, HoldType, Pcs, NoUse
  <2> QED
    BY <1>1, <1>6, <2>1, <2>2, Zenon DEF BInv, BTypeOK
<1>8. OneCopy'
  BY <1>2, <1>4 DEF BInv, OneCopy
<1>9. Assigned' /\ IdleNoBlock'
  BY <1>2, <1>3, <1>4 DEF BInv, Assigned, IdleNoBlock
<1>10. PinsBounded'
  <2>1. Pinned' = Pinned
    BY <1>2, <1>4, Zenon DEF Pinned
  <2> QED
    BY <2>1 DEF BInv, PinsBounded
<1>11. Exclusive'
  BY <1>2, <1>3, <1>4 DEF BInv, Exclusive, Inside, Assigned
<1>12. ValidFresh'
  BY <1>2, <1>3, <1>4 DEF BInv, ValidFresh, Assigned
<1>13. Kept'
  <2> SUFFICES ASSUME NEW blk \in Blocks, disk'[blk] = FALSE
               PROVE  \E c \in Bufs : Keeps(c, blk)'
    BY Zenon DEF Kept
  <2>1. PICK c \in Bufs : Keeps(c, blk)
    BY <1>1, Zenon DEF BInv, Kept
  <2>2. buf'[c].blockno = blk /\ buf'[c].valid = TRUE /\ buf'[c].pins = buf[c].pins
    BY <1>2, <1>4, <2>1, Zenon DEF Keeps
  <2>3. ASSUME NEW q \in Holders, hold[q].pc = "dirty" PROVE hold'[q] = hold[q]
    BY <1>0, <1>1, <1>2, <2>3, Zenon
  <2> QED
    BY <2>1, <2>2, <2>3, Zenon DEF Keeps
<1> QED
  BY <1>5, <1>6, <1>7, <1>8, <1>9, <1>10, <1>11, <1>12, <1>13 DEF BInv

\* binit() establishes the invariant.
LEMMA BcacheStart ==
  ASSUME BcacheInit
  PROVE  BInv
<1>1. BTypeOK
  <2>1. buf \in [Bufs -> BufType]
    BY Zenon DEF BcacheInit, BufType
  <2>2. lru \in [1 .. NBUF -> Bufs]
    BY BcacheAssumption DEF BcacheInit, Bufs
  <2>3. hold \in [Holders -> HoldType]
    BY Zenon DEF BcacheInit, HoldType, NoUse, Pcs
  <2> QED
    BY <2>1, <2>2, <2>3, Zenon DEF BcacheInit, BTypeOK
<1>2. Listed
  <2> SUFFICES ASSUME NEW b \in Bufs PROVE \E k \in 1 .. NBUF : lru[k] = b
    BY Zenon DEF Listed
  <2>1. NBUF + 1 - b \in 1 .. NBUF /\ lru[NBUF + 1 - b] = b
    BY BcacheAssumption DEF BcacheInit, Bufs
  <2> QED
    BY <2>1, Zenon
<1>3. \A p \in Holders : hold[p].pc = "idle" /\ hold[p].blk = NoBuf
  BY Zenon DEF BcacheInit, NoUse
<1>4. \A b \in Bufs : buf[b].refcnt = 0 /\ buf[b].pins = 0 /\ buf[b].blockno = NoBuf /\ buf[b].valid = FALSE
  BY Zenon DEF BcacheInit
<1>5. Counted
  <2> SUFFICES ASSUME NEW b \in Bufs PROVE buf[b].refcnt = Cardinality(UsesOf(b)) + buf[b].pins
    BY Zenon DEF Counted
  <2>1. UsesOf(b) = {}
    BY <1>3, Zenon DEF UsesOf
  <2> QED
    BY <1>4, <2>1, FS_EmptySet
<1>6. PinsBounded
  <2>1. Pinned = {}
    BY <1>4 DEF Pinned
  <2> QED
    BY <2>1, FS_EmptySet, BcacheAssumption DEF PinsBounded
<1>7. Assigned /\ IdleNoBlock /\ OneCopy /\ Exclusive /\ ValidFresh
  BY <1>3, <1>4, Zenon DEF Assigned, IdleNoBlock, OneCopy, Exclusive, Inside, ValidFresh
<1>8. Kept
  BY Zenon DEF BcacheInit, Kept
<1> QED
  BY <1>1, <1>2, <1>5, <1>6, <1>7, <1>8, Zenon DEF BInv

\* The invariant implies what the cache promises.
LEMMA InvCoherent ==
  ASSUME BInv
  PROVE  CacheCoherent
<1>1. ASSUME NEW p \in Holders, hold[p].pc \in {"have", "dirty"}
      PROVE  /\ buf[hold[p].b].blockno = hold[p].blk
             /\ buf[hold[p].b].fresh
             /\ \A q \in Holders \ {p} : hold[q].blk = hold[p].blk => hold[q].pc \in {"lock", "release"}
  <2>1. hold[p].b \in Bufs /\ hold[p].blk \in Blocks /\ buf[hold[p].b].blockno = hold[p].blk
    BY <1>1, Zenon DEF BInv, Assigned
  <2>2. buf[hold[p].b].fresh = TRUE
    BY <1>1, <2>1, Zenon DEF BInv, ValidFresh
  <2>3. ASSUME NEW q \in Holders \ {p}, hold[q].blk = hold[p].blk
        PROVE  hold[q].pc \in {"lock", "release"}
    <3>1. hold[q].pc # "idle"
      BY <2>1, <2>3, BcacheAssumption, Zenon DEF BInv, IdleNoBlock, NoBuf
    <3>2. hold[q].b \in Bufs /\ buf[hold[q].b].blockno = hold[p].blk
      BY <2>3, <3>1, Zenon DEF BInv, Assigned
    <3>3. hold[q].b = hold[p].b
      BY <2>1, <3>2, BcacheAssumption, Zenon DEF BInv, OneCopy, NoBuf
    <3>4. ~ Inside(q)
      BY <1>1, <3>3, Zenon DEF BInv, Exclusive, Inside
    <3> QED
      BY <3>1, <3>4, Zenon DEF BInv, BTypeOK, HoldType, Pcs, Inside
  <2> QED
    BY <2>1, <2>2, <2>3, Zenon
<1> QED
  BY <1>1, Zenon DEF BInv, OneCopy, CacheCoherent

\* A step that leaves buffers, list, disk and uses alone keeps the invariant.
LEMMA NothingStep ==
  ASSUME BInv, UNCHANGED <<buf, lru, disk, hold>>
  PROVE  BInv'
<1>1. buf' = buf /\ lru' = lru /\ disk' = disk /\ hold' = hold
  BY Zenon
<1>2. BTypeOK' /\ Listed' /\ Assigned' /\ IdleNoBlock'
  BY <1>1, Zenon DEF BInv, BTypeOK, Listed, Assigned, IdleNoBlock
<1>3. Counted' /\ PinsBounded'
  <2>1. Pinned' = Pinned /\ \A b \in Bufs : UsesOf(b)' = UsesOf(b)
    BY <1>1, Zenon DEF Pinned, UsesOf
  <2> QED
    BY <1>1, <2>1, Zenon DEF BInv, Counted, PinsBounded
<1>4. OneCopy' /\ Exclusive'
  <2>1. \A p \in Holders : Inside(p)' <=> Inside(p)
    BY <1>1, Zenon DEF Inside
  <2> QED
    BY <1>1, <2>1, Zenon DEF BInv, OneCopy, Exclusive
<1>5. ValidFresh' /\ Kept'
  <2>1. \A b \in Bufs, blk \in Blocks : Keeps(b, blk)' <=> Keeps(b, blk)
    BY <1>1, Zenon DEF Keeps
  <2> QED
    BY <1>1, <2>1, Zenon DEF BInv, ValidFresh, Kept
<1> QED
  BY <1>2, <1>3, <1>4, <1>5, Zenon DEF BInv

\* Every step keeps the invariant.
LEMMA BcacheStep ==
  ASSUME BInv, [BcacheNext]_bcacheVars
  PROVE  BInv'
<1>1. CASE BcacheNext
  <2>1. PICK p \in Holders :
          \/ \E blk \in Blocks : bget(p, blk) \/ bgetPanics(p, blk)
          \/ acquiresleep(p) \/ bread(p) \/ Modify(p) \/ bwrite(p) \/ bpin(p) \/ releasesleep(p) \/ brelse(p)
    BY <1>1, Zenon DEF BcacheNext
  <2>2. ASSUME NEW blk \in Blocks, bgetPanics(p, blk) PROVE BInv'
    BY <2>2, NothingStep, Zenon DEF bgetPanics
  <2> QED
    BY <2>1, <2>2, BgetStep, AcquiresleepStep, BreadStep, ModifyStep, BwriteStep, BpinStep,
       ReleasesleepStep, BrelseStep, Zenon
<1>2. CASE UNCHANGED bcacheVars
  BY <1>2, NothingStep, Zenon DEF bcacheVars
<1> QED
  BY <1>1, <1>2, Zenon

\* The buffer cache of kernel/bio.c is coherent: bread() gives one process at a time the
\* only copy of a block, with the last change anyone made to it, for any number of buffers,
\* uses and blocks, too few buffers and the panic of bget() included.
THEOREM CacheCorrect == BcacheSpec => []CacheCoherent
<1>1. BcacheInit => BInv
  BY BcacheStart, Zenon
<1>2. BInv /\ [BcacheNext]_bcacheVars => BInv'
  BY BcacheStep, Zenon
<1>3. BInv => CacheCoherent
  BY InvCoherent, Zenon
<1> QED
  BY <1>1, <1>2, <1>3, PTL DEF BcacheSpec
-----------------------------------------------------------------------------
(* How many buffers are enough. *)

\* With a buffer for every use and every pin, some buffer is free while a use is idle: the
\* other uses and the pins are too few to have them all.
LEMMA BufferFree ==
  ASSUME BInv, NBUF >= Cardinality(Holders) + MAXPINS, NEW p \in Holders, hold[p].pc = "idle"
  PROVE  \E b \in Bufs : buf[b].refcnt = 0
<1> SUFFICES ASSUME \A b \in Bufs : buf[b].refcnt # 0 PROVE FALSE
  OBVIOUS
<1> DEFINE Busy == Bufs \ Pinned
           U == {q \in Holders \ {p} : hold[q].pc # "idle" /\ hold[q].b \in Busy}
           f == [q \in U |-> hold[q].b]
<1>1. \A b \in Busy : \E q \in U : hold[q].b = b
  <2> TAKE b \in Busy
  <2>1. buf[b].pins = 0
    BY Zenon DEF BInv, BTypeOK, BufType, Pinned
  <2>2. Cardinality(UsesOf(b)) # 0
    BY <2>1, UsesFinite DEF BInv, Counted
  <2>3. UsesOf(b) # {}
    BY <2>2, FS_EmptySet, Zenon
  <2> QED
    BY <2>3, Zenon DEF UsesOf
<1>2. U \subseteq Holders \ {p} /\ IsFiniteSet(Holders)
  BY BcacheAssumption, Zenon
<1>3. /\ IsFiniteSet(U)
      /\ Cardinality(U) <= Cardinality(Holders) - 1
  <2>1. /\ IsFiniteSet(Holders \ {p})
        /\ Cardinality(Holders \ {p}) = Cardinality(Holders) - 1
    BY <1>2, FS_RemoveElement, Zenon
  <2> HIDE DEF U
  <2> QED
    BY <1>2, <2>1, FS_Subset
<1>4. f \in Surjection(U, Busy)
  BY <1>1, Zenon DEF Surjection
<1>5. Cardinality(Busy) <= Cardinality(U)
  <2> HIDE DEF U, Busy, f
  <2> QED
    BY <1>3, <1>4, FS_Surjection, Zenon
<1>6. Cardinality(Busy) = NBUF - Cardinality(Pinned)
  <2>1. IsFiniteSet(Bufs) /\ Cardinality(Bufs) = NBUF
    BY FS_Interval, BcacheAssumption, SMTT(20), SMTT(21) DEF Bufs
  <2>2. Cardinality(Bufs \ Pinned) = Cardinality(Bufs) - Cardinality(Bufs \cap Pinned)
    BY <2>1, PinnedFinite, FS_Difference, Zenon
  <2>3. Bufs \cap Pinned = Pinned
    BY Zenon DEF Pinned
  <2> QED
    BY <2>1, <2>2, <2>3, Zenon
<1>7. Cardinality(Pinned) <= MAXPINS /\ Cardinality(Pinned) \in Nat
  BY PinnedFinite, Zenon DEF BInv, PinsBounded
<1>8. Cardinality(Holders) \in Nat /\ Cardinality(U) \in Nat
  BY <1>2, <1>3, FS_CardinalityType, Zenon
<1> HIDE DEF U, Busy, f
<1> QED
  BY <1>3, <1>5, <1>6, <1>7, <1>8, BcacheAssumption

\* bget() does not come to its panic("bget: no buffers") if there is a buffer for every use
\* and every pin that can be at once.  kernel/param.h does not give that many: NBUF is 30,
\* and NPROC processes, which are 64, may each have one.
THEOREM EnoughBuffers ==
  ASSUME NBUF >= Cardinality(Holders) + MAXPINS
  PROVE  BcacheSpec => []~panicked
<1>1. BcacheInit => BInv /\ ~panicked
  BY BcacheStart, Zenon DEF BcacheInit
<1>2. BInv /\ ~panicked /\ [BcacheNext]_bcacheVars => BInv' /\ ~panicked'
  <2> SUFFICES ASSUME BInv, ~panicked, [BcacheNext]_bcacheVars PROVE ~panicked'
    BY BcacheStep, Zenon
  <2>1. ASSUME NEW p \in Holders, NEW blk \in Blocks PROVE ~ bgetPanics(p, blk)
    BY BufferFree, Zenon DEF bgetPanics
  <2>2. ASSUME NEW p \in Holders,
               \/ \E blk \in Blocks : bget(p, blk)
               \/ acquiresleep(p) \/ bread(p) \/ Modify(p) \/ bwrite(p) \/ bpin(p)
               \/ releasesleep(p) \/ brelse(p)
        PROVE  panicked' = panicked
    BY <2>2, Zenon
       DEF bget, acquiresleep, bread, Modify, bwrite, bpin, releasesleep, brelse
  <2> QED
    BY <2>1, <2>2, Zenon DEF BcacheNext, bcacheVars
<1> QED
  BY <1>1, <1>2, PTL DEF BcacheSpec
=============================================================================
