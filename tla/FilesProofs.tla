----------------------------- MODULE FilesProofs ----------------------------
(***************************************************************************)
(* The references to open files, pipes and inodes are counted exactly, for *)
(* any number of processes, descriptors, files and pipes.                  *)
(***************************************************************************)
EXTENDS Files, FiniteSetTheorems, TLAPS

-----------------------------------------------------------------------------
(* The inductive invariant. *)

FileType == [ref : Nat, type : {"NONE", "INODE", "PIPE"}, obj : Nat, writable : BOOLEAN]
PipeType == [readopen : BOOLEAN, writeopen : BOOLEAN, bytes : Int]
Lives == {"unused", "runs", "exits", "zombie"}
ScriptCalls == [op : {"pipe"}, arg : {0}] \cup [op : {"fork", "wait"}, arg : Openers]
                 \cup [op : {"close", "dup", "read", "write"}, arg : Fds]
Descriptors == [Openers -> [Fds -> 0 .. NFILE]]

FilesTypeOK ==
  /\ ftable \in [FileSlots -> FileType]
  /\ ofile \in Descriptors
  /\ pipes \in [PipePages -> PipeType]
  /\ iref \in Int
  /\ closing \in [Openers -> Seq(FileSlots)]
  /\ \A p \in Openers : Len(closing[p]) <= 2
  /\ ff \in [Openers -> FileType]
  /\ life \in [Openers -> Lives]

\* A free slot of the table has no type, as filealloc() relies on.
Cleared == \A f \in FileSlots : ftable[f].ref = 0 => ftable[f].type = "NONE"

\* A process that was not forked yet has no descriptors.
NoneYet == \A p \in Openers : life[p] = "unused" => \A fd \in Fds : ofile[p][fd] = 0

\* What fileclose() still has to release is a pipe or an inode.
Releases == \A p \in Openers : ff[p] # NoFile => ff[p].type # "NONE"

\* The calls of a script name descriptors and processes.
ScriptOK == script \in [Openers -> Seq(ScriptCalls)]

FilesCore == FilesTypeOK /\ Cleared /\ NoneYet /\ Releases /\ FilesExact
FilesInv == FilesCore /\ ScriptOK

-----------------------------------------------------------------------------
(* What the parts of FilesExact count, as functions of the state. *)

FdSet(of, f) == {x \in Openers \X Fds : of[x[1]][x[2]] = f}
CloseSet(cl, f) == {x \in Openers \X (1 .. 2) : x[2] \in DOMAIN cl[x[1]] /\ cl[x[1]][x[2]] = f}
EndSet(T, pi, w) ==
  {f \in FileSlots : T[f].ref > 0 /\ T[f].type = "PIPE" /\ T[f].obj = pi /\ T[f].writable = w}
InodeSet(T) == {f \in FileSlots : T[f].ref > 0 /\ T[f].type = "INODE"}
LeaveEnd(F, pi, w) == {p \in Openers : F[p].type = "PIPE" /\ F[p].obj = pi /\ F[p].writable = w}
LeaveInode(F) == {p \in Openers : F[p].type = "INODE"}
Open(P, pi, w) == IF w THEN P[pi].writeopen ELSE P[pi].readopen

Counted(T, of, cl) ==
  \A f \in FileSlots : T[f].ref = Cardinality(FdSet(of, f)) + Cardinality(CloseSet(cl, f))
EndsOpen(T, F, P) ==
  \A pi \in PipePages : \A w \in BOOLEAN :
    Cardinality(EndSet(T, pi, w)) + Cardinality(LeaveEnd(F, pi, w)) = IF Open(P, pi, w) THEN 1 ELSE 0
InodesHeld(T, F, n) == n = Cardinality(InodeSet(T)) + Cardinality(LeaveInode(F))

\* The three parts of FilesExact.
LEMMA ExactParts ==
  /\ FilesExact <=> /\ Counted(ftable, ofile, closing)
                    /\ EndsOpen(ftable, ff, pipes) /\ InodesHeld(ftable, ff, iref)
  /\ FilesExact' <=> /\ Counted(ftable', ofile', closing')
                     /\ EndsOpen(ftable', ff', pipes') /\ InodesHeld(ftable', ff', iref')
<1>1. \A pi, w : /\ Ends(pi, w) = EndSet(ftable, pi, w)
                 /\ Ends(pi, w)' = EndSet(ftable', pi, w)
                 /\ LeavingEnds(pi, w) = LeaveEnd(ff, pi, w)
                 /\ LeavingEnds(pi, w)' = LeaveEnd(ff', pi, w)
  BY DEF Ends, OfType, EndSet, Leaving, LeavingEnds, LeaveEnd
<1>2. /\ OfType("INODE") = InodeSet(ftable) /\ Leaving("INODE") = LeaveInode(ff)
      /\ OfType("INODE")' = InodeSet(ftable') /\ Leaving("INODE")' = LeaveInode(ff')
  BY Zenon DEF OfType, InodeSet, Leaving, LeaveInode
<1>3. \A f : /\ FdsOf(f) = FdSet(ofile, f) /\ FdsOf(f)' = FdSet(ofile', f)
             /\ Closers(f) = CloseSet(closing, f) /\ Closers(f)' = CloseSet(closing', f)
  BY Zenon DEF FdsOf, FdSet, Closers, CloseSet
<1>4. FilesExact <=> /\ Counted(ftable, ofile, closing)
                     /\ EndsOpen(ftable, ff, pipes) /\ InodesHeld(ftable, ff, iref)
  BY <1>1, <1>2, <1>3, Zenon DEF FilesExact, Counted, EndsOpen, InodesHeld, Open
<1>5. FilesExact' <=> /\ Counted(ftable', ofile', closing')
                      /\ EndsOpen(ftable', ff', pipes') /\ InodesHeld(ftable', ff', iref')
  BY <1>1, <1>2, <1>3, Zenon DEF FilesExact, Counted, EndsOpen, InodesHeld, Open
<1> QED
  BY <1>4, <1>5, Zenon

\* The sets are finite.
LEMMA FilesFinite ==
  /\ IsFiniteSet(Fds)
  /\ \A of, f : IsFiniteSet(FdSet(of, f)) /\ Cardinality(FdSet(of, f)) \in Nat
  /\ \A cl, f : IsFiniteSet(CloseSet(cl, f)) /\ Cardinality(CloseSet(cl, f)) \in Nat
  /\ \A T, pi, w : IsFiniteSet(EndSet(T, pi, w)) /\ Cardinality(EndSet(T, pi, w)) \in Nat
  /\ \A T : IsFiniteSet(InodeSet(T)) /\ Cardinality(InodeSet(T)) \in Nat
  /\ \A F, pi, w : IsFiniteSet(LeaveEnd(F, pi, w)) /\ Cardinality(LeaveEnd(F, pi, w)) \in Nat
  /\ \A F : IsFiniteSet(LeaveInode(F)) /\ Cardinality(LeaveInode(F)) \in Nat
<1>a. NOFILE - 1 \in Int /\ NFILE \in Int /\ 0 \in Int /\ 1 \in Int /\ 2 \in Int
  BY FilesAssumption
<1>b. IsFiniteSet(Fds) /\ IsFiniteSet(1 .. 2) /\ IsFiniteSet(FileSlots)
  BY <1>a, FS_Interval, Zenon DEF Fds, FileSlots
<1>1. IsFiniteSet(Openers) /\ IsFiniteSet(Fds) /\ IsFiniteSet(1 .. 2) /\ IsFiniteSet(FileSlots)
  BY <1>b, FilesAssumption, Zenon
<1>2. IsFiniteSet(Openers \X Fds) /\ IsFiniteSet(Openers \X (1 .. 2))
  BY <1>1, FS_Product, Zenon
<1>3. \A S, T : IsFiniteSet(S) /\ T \subseteq S => IsFiniteSet(T) /\ Cardinality(T) \in Nat
  BY FS_Subset, FS_CardinalityType, Zenon
<1>4. \A of, f : FdSet(of, f) \subseteq Openers \X Fds
  BY Zenon DEF FdSet
<1>5. \A cl, f : CloseSet(cl, f) \subseteq Openers \X (1 .. 2)
  BY Zenon DEF CloseSet
<1>6. \A T, pi, w : EndSet(T, pi, w) \subseteq FileSlots /\ InodeSet(T) \subseteq FileSlots
  BY Zenon DEF EndSet, InodeSet
<1>7. \A F, pi, w : LeaveEnd(F, pi, w) \subseteq Openers /\ LeaveInode(F) \subseteq Openers
  BY Zenon DEF LeaveEnd, LeaveInode
<1> QED
  BY <1>1, <1>2, <1>3, <1>4, <1>5, <1>6, <1>7, Zenon

\* Lowest() of a set of numbers is in it.
LEMMA LowestIn ==
  ASSUME NEW S \in SUBSET Nat
  PROVE  /\ S = {} => Lowest(S) = -1
         /\ S # {} => Lowest(S) \in S /\ Min(S) \in S
<1>1. ASSUME S # {}
      PROVE  Min(S) \in S
  <2>1. PICK m \in S : \A y \in S : ~ (<<y, m>> \in OpToRel(<, Nat))
    <3>1. IsWellFoundedOn(OpToRel(<, Nat), Nat)
      BY NatLessThanWellFounded, Zenon
    <3> QED
      BY <1>1, <3>1, WFMin, Zenon
  <2>2. \A y \in S : m <= y
    <3> TAKE y \in S
    <3>1. ~ (<<y, m>> \in OpToRel(<, Nat)) BY <2>1, Zenon
    <3>2. ~ (<<y, m>> \in {ss \in Nat \X Nat : ss[1] < ss[2]}) BY <3>1, Zenon DEF OpToRel
    <3>3. y \in Nat /\ m \in Nat BY <2>1, Zenon
    <3> QED BY <3>2, <3>3
  <2> QED
    BY <2>2, Zenon DEF Min
<1> QED
  BY <1>1, Zenon DEF Lowest

\* A free slot, or 0.
LEMMA FileallocIn ==
  ASSUME NEW T \in [FileSlots -> FileType]
  PROVE  /\ filealloc(T) \in 0 .. NFILE
         /\ filealloc(T) # 0 => filealloc(T) \in FileSlots /\ T[filealloc(T)].ref = 0
<1> DEFINE S == {i \in FileSlots : T[i].ref = 0}
<1>1. S \in SUBSET Nat /\ S \subseteq FileSlots
  BY FilesAssumption DEF FileSlots
<1>2. filealloc(T) = IF Lowest(S) = -1 THEN 0 ELSE Lowest(S)
  BY Zenon DEF filealloc
<1>3. CASE S = {}
  <2>1. filealloc(T) = 0
    BY <1>1, <1>2, <1>3, LowestIn, Zenon
  <2> QED
    BY <2>1, FilesAssumption
<1>4. CASE S # {}
  <2>1. Lowest(S) \in S
    BY <1>1, <1>4, LowestIn, Zenon
  <2> QED
    BY <2>1, <1>2, FilesAssumption DEF FileSlots
<1> QED
  BY <1>3, <1>4, Zenon

\* A free descriptor, or -1.
LEMMA FdallocIn ==
  ASSUME NEW of \in [Fds -> 0 .. NFILE], fdalloc(of) # -1
  PROVE  fdalloc(of) \in Fds /\ of[fdalloc(of)] = 0
<1> DEFINE S == {fd \in Fds : of[fd] = 0}
<1>1. S \in SUBSET Nat
  BY FilesAssumption DEF Fds
<1>2. fdalloc(of) = Lowest(S)
  BY Zenon DEF fdalloc
<1>3. Lowest(S) \in S
  BY <1>1, <1>2, LowestIn, Zenon
<1> QED
  BY <1>2, <1>3, Zenon

-----------------------------------------------------------------------------
(* How the counts change. *)

Moves(of, of2, p, fd, g) == of2 = [of EXCEPT ![p][fd] = g]
Puts(cl, cl2, p, x) == cl2 = [cl EXCEPT ![p] = x]

FdMore(of, of2, p, fd, g) ==
  /\ of2 \in Descriptors
  /\ Cardinality(FdSet(of2, g)) = Cardinality(FdSet(of, g)) + 1
  /\ \A f \in FileSlots \ {g} : FdSet(of2, f) = FdSet(of, f)
  /\ \A q \in Openers, d \in Fds : <<q, d>> # <<p, fd>> => of2[q][d] = of[q][d]

FdLess(of, of2, p, fd, g) ==
  /\ of2 \in Descriptors
  /\ Cardinality(FdSet(of2, g)) = Cardinality(FdSet(of, g)) - 1
  /\ Cardinality(FdSet(of, g)) > 0
  /\ \A f \in FileSlots \ {g} : FdSet(of2, f) = FdSet(of, f)
  /\ \A q \in Openers, d \in Fds : <<q, d>> # <<p, fd>> => of2[q][d] = of[q][d]
  /\ of2[p][fd] = 0

FdCopy(of, of2, p, q) ==
  /\ of2 \in Descriptors
  /\ \A f \in FileSlots :
       /\ Cardinality({d \in Fds : of[p][d] = f}) \in Nat
       /\ Cardinality(FdSet(of2, f))
            = Cardinality(FdSet(of, f)) + Cardinality({d \in Fds : of[p][d] = f})
  /\ \A r \in Openers \ {q} : of2[r] = of[r]

CloseMore(cl, cl2, p, a) ==
  /\ cl2 \in [Openers -> Seq(FileSlots)] /\ Len(cl2[p]) = 1
  /\ \A q \in Openers \ {p} : cl2[q] = cl[q]
  /\ Cardinality(CloseSet(cl2, a)) = Cardinality(CloseSet(cl, a)) + 1
  /\ \A f \in FileSlots \ {a} : CloseSet(cl2, f) = CloseSet(cl, f)

CloseTwo(cl, cl2, p, a, b) ==
  /\ cl2 \in [Openers -> Seq(FileSlots)] /\ Len(cl2[p]) = 2
  /\ \A q \in Openers \ {p} : cl2[q] = cl[q]
  /\ Cardinality(CloseSet(cl2, a)) = Cardinality(CloseSet(cl, a)) + 1
  /\ Cardinality(CloseSet(cl2, b)) = Cardinality(CloseSet(cl, b)) + 1
  /\ \A f \in FileSlots \ {a, b} : CloseSet(cl2, f) = CloseSet(cl, f)

CloseLess(cl, cl2, p) ==
  /\ Head(cl[p]) \in FileSlots
  /\ cl2 \in [Openers -> Seq(FileSlots)] /\ Len(cl2[p]) <= 2
  /\ \A q \in Openers \ {p} : cl2[q] = cl[q]
  /\ Cardinality(CloseSet(cl, Head(cl[p]))) > 0
  /\ Cardinality(CloseSet(cl2, Head(cl[p]))) = Cardinality(CloseSet(cl, Head(cl[p]))) - 1
  /\ \A f \in FileSlots \ {Head(cl[p])} : Cardinality(CloseSet(cl2, f)) = Cardinality(CloseSet(cl, f))

\* A descriptor that is given to a file is one more of it.
LEMMA FdGiven ==
  ASSUME NEW of \in Descriptors, NEW p \in Openers, NEW fd \in Fds, of[p][fd] = 0,
         NEW g \in FileSlots, NEW of2, Moves(of, of2, p, fd, g)
  PROVE  FdMore(of, of2, p, fd, g)
<1>0. g # 0 /\ g \in 0 .. NFILE
  BY FilesAssumption DEF FileSlots
<1>1. of2 \in Descriptors
  BY <1>0, Zenon DEF Descriptors, Moves
<1>2. of2[p][fd] = g /\ \A q \in Openers, d \in Fds : <<q, d>> # <<p, fd>> => of2[q][d] = of[q][d]
  BY <1>0, Zenon DEF Descriptors, Moves
<1>3. FdSet(of2, g) = FdSet(of, g) \cup {<<p, fd>>} /\ <<p, fd>> \notin FdSet(of, g)
  BY <1>0, <1>2 DEF FdSet
<1>4. \A f \in FileSlots \ {g} : FdSet(of2, f) = FdSet(of, f)
  <2> TAKE f \in FileSlots \ {g}
  <2>0. f # 0
    BY FilesAssumption DEF FileSlots
  <2> QED
    BY <1>2, <2>0 DEF FdSet
<1>5. Cardinality(FdSet(of, g) \cup {<<p, fd>>}) = Cardinality(FdSet(of, g)) + 1
  BY <1>3, FilesFinite, FS_AddElement, Zenon
<1> QED
  BY <1>1, <1>2, <1>3, <1>4, <1>5, Zenon DEF FdMore

\* A descriptor that is taken from a file is one less of it.
LEMMA FdTaken ==
  ASSUME NEW of \in Descriptors, NEW p \in Openers, NEW fd \in Fds, NEW g \in FileSlots,
         of[p][fd] = g, NEW of2, Moves(of, of2, p, fd, 0)
  PROVE  FdLess(of, of2, p, fd, g)
<1>0. g # 0 /\ 0 \in 0 .. NFILE
  BY FilesAssumption DEF FileSlots
<1>1. of2 \in Descriptors
  BY <1>0, Zenon DEF Descriptors, Moves
<1>2. of2[p][fd] = 0 /\ \A q \in Openers, d \in Fds : <<q, d>> # <<p, fd>> => of2[q][d] = of[q][d]
  BY <1>0, Zenon DEF Descriptors, Moves
<1>3. FdSet(of2, g) = FdSet(of, g) \ {<<p, fd>>} /\ <<p, fd>> \in FdSet(of, g)
  BY <1>0, <1>2 DEF FdSet
<1>4. \A f \in FileSlots \ {g} : FdSet(of2, f) = FdSet(of, f)
  <2> TAKE f \in FileSlots \ {g}
  <2>0. f # 0
    BY FilesAssumption DEF FileSlots
  <2> QED
    BY <1>2, <2>0 DEF FdSet
<1>5. Cardinality(FdSet(of, g) \ {<<p, fd>>}) = Cardinality(FdSet(of, g)) - 1
  BY <1>3, FilesFinite, FS_RemoveElement, Zenon
<1>6. Cardinality(FdSet(of, g) \ {<<p, fd>>}) \in Nat /\ Cardinality(FdSet(of, g)) \in Nat
  BY <1>3, FilesFinite, Zenon
<1>7. Cardinality(FdSet(of, g)) > 0
  BY <1>5, <1>6
<1> QED
  BY <1>1, <1>2, <1>3, <1>4, <1>5, <1>7, Zenon DEF FdLess

\* The descriptors of a forked process are as many more as its parent has.
LEMMA FdShared ==
  ASSUME NEW of \in Descriptors, NEW p \in Openers, NEW q \in Openers,
         \A d \in Fds : of[q][d] = 0, NEW of2, Puts(of, of2, q, of[p])
  PROVE  FdCopy(of, of2, p, q)
<1>1. of2 \in Descriptors /\ of2[q] = of[p] /\ \A r \in Openers \ {q} : of2[r] = of[r]
  BY Zenon DEF Descriptors, Puts
<1>2. ASSUME NEW f \in FileSlots
      PROVE  /\ Cardinality({d \in Fds : of[p][d] = f}) \in Nat
             /\ Cardinality(FdSet(of2, f))
                  = Cardinality(FdSet(of, f)) + Cardinality({d \in Fds : of[p][d] = f})
  <2> DEFINE D == {d \in Fds : of[p][d] = f}
             N == {q} \X D
  <2>0. f # 0
    BY FilesAssumption DEF FileSlots
  <2>1. FdSet(of2, f) = FdSet(of, f) \cup N
    BY <1>1, <2>0 DEF FdSet
  <2>2. FdSet(of, f) \cap N = {}
    BY <2>0, Zenon DEF FdSet
  <2>3. IsFiniteSet(D) /\ Cardinality(D) \in Nat
    <3>1. IsFiniteSet(Fds)
      BY FilesFinite, Zenon
    <3> QED
      BY <3>1, FS_Subset, FS_CardinalityType, Zenon
  <2>4. IsFiniteSet(N) /\ Cardinality(N) = Cardinality(D)
    <3>1. IsFiniteSet({q}) /\ Cardinality({q}) = 1
      BY FS_Singleton, Zenon
    <3>2. IsFiniteSet(N) /\ Cardinality(N) = Cardinality({q}) * Cardinality(D)
      BY <2>3, <3>1, FS_Product, Zenon
    <3> HIDE DEF D
    <3> QED
      BY <2>3, <3>1, <3>2
  <2>5. Cardinality({}) = 0
    BY FS_EmptySet, Zenon
  <2> HIDE DEF D, N
  <2>6. Cardinality(FdSet(of, f) \cup N) = Cardinality(FdSet(of, f)) + Cardinality(N) - Cardinality(FdSet(of, f) \cap N)
    BY <2>4, FilesFinite, FS_Union, Zenon
  <2>7. Cardinality(FdSet(of, f)) \in Nat
    BY FilesFinite, Zenon
  <2>8. Cardinality(FdSet(of2, f)) = Cardinality(FdSet(of, f)) + Cardinality(D)
    <3>1. Cardinality(FdSet(of2, f)) = Cardinality(FdSet(of, f)) + Cardinality(D) - 0
      BY <2>1, <2>2, <2>4, <2>5, <2>6, Zenon
    <3> QED
      BY <2>3, <2>7, <3>1
  <2> QED
    BY <2>3, <2>8, Zenon DEF D
<1> QED
  BY <1>1, <1>2, Zenon DEF FdCopy

\* A file that is to be closed is one more of those.
LEMMA ClosePut ==
  ASSUME NEW cl \in [Openers -> Seq(FileSlots)], NEW p \in Openers, cl[p] = <<>>,
         NEW a \in FileSlots, NEW cl2, Puts(cl, cl2, p, <<a>>)
  PROVE  CloseMore(cl, cl2, p, a)
<1>1. cl2 \in [Openers -> Seq(FileSlots)] /\ cl2[p] = <<a>> /\ \A q \in Openers \ {p} : cl2[q] = cl[q]
  BY DEF Puts
<1>2. DOMAIN cl[p] = {} /\ DOMAIN cl2[p] = {1} /\ cl2[p][1] = a /\ Len(cl2[p]) = 1
  BY <1>1
<1>3. CloseSet(cl2, a) = CloseSet(cl, a) \cup {<<p, 1>>} /\ <<p, 1>> \notin CloseSet(cl, a)
  BY <1>1, <1>2 DEF CloseSet
<1>4. \A f \in FileSlots \ {a} : CloseSet(cl2, f) = CloseSet(cl, f)
  BY <1>1, <1>2 DEF CloseSet
<1>5. Cardinality(CloseSet(cl, a) \cup {<<p, 1>>}) = Cardinality(CloseSet(cl, a)) + 1
  BY <1>3, FilesFinite, FS_AddElement, Zenon
<1> QED
  BY <1>1, <1>2, <1>3, <1>4, <1>5, Zenon DEF CloseMore

\* So are two.
LEMMA ClosePutTwo ==
  ASSUME NEW cl \in [Openers -> Seq(FileSlots)], NEW p \in Openers, cl[p] = <<>>,
         NEW a \in FileSlots, NEW b \in FileSlots, a # b,
         NEW cl2, Puts(cl, cl2, p, <<a, b>>)
  PROVE  CloseTwo(cl, cl2, p, a, b)
<1>1. cl2 \in [Openers -> Seq(FileSlots)] /\ cl2[p] = <<a, b>> /\ \A q \in Openers \ {p} : cl2[q] = cl[q]
  BY DEF Puts
<1>2. DOMAIN cl[p] = {} /\ DOMAIN cl2[p] = {1, 2} /\ cl2[p][1] = a /\ cl2[p][2] = b /\ Len(cl2[p]) = 2
  BY <1>1
<1>3. CloseSet(cl2, a) = CloseSet(cl, a) \cup {<<p, 1>>} /\ <<p, 1>> \notin CloseSet(cl, a)
  BY <1>1, <1>2 DEF CloseSet
<1>4. CloseSet(cl2, b) = CloseSet(cl, b) \cup {<<p, 2>>} /\ <<p, 2>> \notin CloseSet(cl, b)
  BY <1>1, <1>2 DEF CloseSet
<1>5. \A f \in FileSlots \ {a, b} : CloseSet(cl2, f) = CloseSet(cl, f)
  BY <1>1, <1>2 DEF CloseSet
<1>6. Cardinality(CloseSet(cl, a) \cup {<<p, 1>>}) = Cardinality(CloseSet(cl, a)) + 1
  BY <1>3, FilesFinite, FS_AddElement, Zenon
<1>7. Cardinality(CloseSet(cl, b) \cup {<<p, 2>>}) = Cardinality(CloseSet(cl, b)) + 1
  BY <1>4, FilesFinite, FS_AddElement, Zenon
<1> QED
  BY <1>1, <1>2, <1>3, <1>4, <1>5, <1>6, <1>7, Zenon DEF CloseTwo

\* When the first of them is closed it is one less.
LEMMA CloseTaken ==
  ASSUME NEW cl \in [Openers -> Seq(FileSlots)], NEW p \in Openers, cl[p] # <<>>, Len(cl[p]) <= 2,
         NEW cl2, Puts(cl, cl2, p, Tail(cl[p]))
  PROVE  CloseLess(cl, cl2, p)
<1>0. PICK s \in Seq(FileSlots) : s = cl[p]
  OBVIOUS
<1>1. s # <<>> /\ Len(s) \in 1 .. 2
  <2>1. s # <<>>
    BY <1>0, Zenon
  <2>2. Len(s) # 0
    BY <2>1
  <2>3. Len(s) \in Nat /\ Len(s) <= 2
    BY <1>0
  <2>4. Len(s) \in 1 .. 2
    <3>1. \A n \in Nat : n # 0 /\ n <= 2 => n \in 1 .. 2
      OBVIOUS
    <3> QED
      BY <2>2, <2>3, <3>1, Zenon
  <2> QED
    BY <2>1, <2>4, Zenon
<1>2. PICK a \in FileSlots : a = s[1] /\ a = Head(s)
  BY <1>1
<1>3. cl2 = [cl EXCEPT ![p] = Tail(s)] /\ Tail(s) \in Seq(FileSlots) /\ Len(Tail(s)) = Len(s) - 1
  BY <1>0, <1>1 DEF Puts
<1>4. cl2 \in [Openers -> Seq(FileSlots)] /\ cl2[p] = Tail(s) /\ \A q \in Openers \ {p} : cl2[q] = cl[q]
  BY <1>3, Zenon
<1>5. CASE Len(s) = 1
  <2>1. DOMAIN cl[p] = {1} /\ cl[p][1] = a /\ DOMAIN cl2[p] = {}
    BY <1>0, <1>2, <1>3, <1>4, <1>5
  <2>a. ASSUME NEW f \in FileSlots, NEW r \in Openers, NEW k \in 1 .. 2
        PROVE  /\ r # p => (<<r, k>> \in CloseSet(cl2, f) <=> <<r, k>> \in CloseSet(cl, f))
               /\ <<p, k>> \notin CloseSet(cl2, f)
               /\ <<p, k>> \in CloseSet(cl, f) <=> k = 1 /\ f = a
    <3>1. ASSUME r # p
          PROVE  <<r, k>> \in CloseSet(cl2, f) <=> <<r, k>> \in CloseSet(cl, f)
      BY <1>4, <3>1, Zenon DEF CloseSet
    <3>2. <<p, k>> \notin CloseSet(cl2, f) /\ (<<p, k>> \in CloseSet(cl, f) <=> k = 1 /\ f = a)
      BY <2>1, Zenon DEF CloseSet
    <3> QED
      BY <3>1, <3>2, Zenon
  <2>b. \A f : CloseSet(cl, f) \subseteq Openers \X (1 .. 2) /\ CloseSet(cl2, f) \subseteq Openers \X (1 .. 2)
    BY Zenon DEF CloseSet
  <2>c. ASSUME NEW f \in FileSlots, NEW x \in Openers \X (1 .. 2)
        PROVE  x \in CloseSet(cl2, f) <=> x \in CloseSet(cl, f) /\ ~ (f = a /\ x = <<p, 1>>)
    <3> PICK r \in Openers, k \in 1 .. 2 : x = <<r, k>>
      OBVIOUS
    <3>1. CASE r = p
      BY <3>1, <2>a, Zenon
    <3>2. CASE r # p
      BY <3>2, <2>a, Zenon
    <3> QED
      BY <3>1, <3>2, Zenon
  <2>d. <<p, 1>> \in CloseSet(cl, a)
    BY <2>1 DEF CloseSet
  <2>2. CloseSet(cl2, a) = CloseSet(cl, a) \ {<<p, 1>>} /\ <<p, 1>> \in CloseSet(cl, a)
    BY <2>b, <2>c, <2>d, Zenon
  <2>3. \A f \in FileSlots \ {a} : CloseSet(cl2, f) = CloseSet(cl, f)
    BY <2>b, <2>c, Zenon
  <2>4. Cardinality(CloseSet(cl, a) \ {<<p, 1>>}) = Cardinality(CloseSet(cl, a)) - 1
    BY <2>2, FilesFinite, FS_RemoveElement, Zenon
  <2>5. Cardinality(CloseSet(cl, a)) \in Nat /\ Cardinality(CloseSet(cl2, a)) \in Nat
    BY FilesFinite, Zenon
  <2>6. Cardinality(CloseSet(cl, a)) > 0 /\ Cardinality(CloseSet(cl2, a)) = Cardinality(CloseSet(cl, a)) - 1
    <3>1. Cardinality(CloseSet(cl2, a)) = Cardinality(CloseSet(cl, a)) - 1
      BY <2>2, <2>4, Zenon
    <3> QED
      BY <3>1, <2>5
  <2>7. Len(cl2[p]) <= 2
    BY <1>3, <1>4, <1>5
  <2>8. \A f \in FileSlots \ {a} : Cardinality(CloseSet(cl2, f)) = Cardinality(CloseSet(cl, f))
    BY <2>3, Zenon
  <2> QED
    BY <1>0, <1>2, <1>4, <2>6, <2>7, <2>8, Zenon DEF CloseLess
<1>6. CASE Len(s) = 2
  <2>0. PICK b \in FileSlots : b = s[2]
    <3>1. 2 \in 1 .. Len(s)
      BY <1>6
    <3> QED
      BY <3>1
  <2>1. DOMAIN cl[p] = {1, 2} /\ cl[p][1] = a /\ cl[p][2] = b
    BY <1>0, <1>2, <1>6, <2>0
  <2>2. DOMAIN cl2[p] = {1} /\ cl2[p][1] = b
    <3>1. Len(Tail(s)) = 1
      BY <1>3, <1>6
    <3>2. \A i \in 1 .. Len(Tail(s)) : Tail(s)[i] = s[i + 1]
      BY <1>1
    <3>3. Tail(s)[1] = s[2]
      BY <3>1, <3>2
    <3>4. DOMAIN Tail(s) = 1 .. Len(Tail(s))
      BY <1>3
    <3>5. 1 .. Len(Tail(s)) = {1}
      <4>1. 1 .. 1 = {1}
        OBVIOUS
      <4> QED
        BY <3>1, <4>1, Zenon
    <3> QED
      BY <1>4, <2>0, <3>3, <3>4, <3>5, Zenon
  <2> DEFINE Rest(f) == CloseSet(cl, f) \ {<<p, 1>>, <<p, 2>>}
  <2>3. \A f \in FileSlots : /\ CloseSet(cl, f) = Rest(f) \cup (IF f = a THEN {<<p, 1>>} ELSE {})
                                                     \cup (IF f = b THEN {<<p, 2>>} ELSE {})
                             /\ CloseSet(cl2, f) = Rest(f) \cup (IF f = b THEN {<<p, 1>>} ELSE {})
                             /\ <<p, 1>> \notin Rest(f) /\ <<p, 2>> \notin Rest(f)
    <3> SUFFICES ASSUME NEW f \in FileSlots, NEW x \in Openers \X (1 .. 2)
        PROVE  /\ x \in CloseSet(cl, f) <=> \/ x \in Rest(f) \/ (f = a /\ x = <<p, 1>>)
                                            \/ (f = b /\ x = <<p, 2>>)
               /\ x \in CloseSet(cl2, f) <=> x \in Rest(f) \/ (f = b /\ x = <<p, 1>>)
      BY DEF CloseSet
    <3> PICK r \in Openers, k \in 1 .. 2 : x = <<r, k>>
      OBVIOUS
    <3>1. CASE r = p
      BY <3>1, <2>1, <2>2, Zenon DEF CloseSet
    <3>2. CASE r # p
      BY <3>2, <1>4, Zenon DEF CloseSet
    <3> QED
      BY <3>1, <3>2, Zenon
  <2>4. \A f \in FileSlots : IsFiniteSet(Rest(f)) /\ Cardinality(Rest(f)) \in Nat
    <3> TAKE f \in FileSlots
    <3>1. IsFiniteSet(CloseSet(cl, f)) /\ Rest(f) \in SUBSET CloseSet(cl, f)
      BY FilesFinite, Zenon
    <3>2. IsFiniteSet(Rest(f))
      BY <3>1, FS_Subset, Zenon
    <3> QED
      BY <3>2, FS_CardinalityType, Zenon
  <2> HIDE DEF Rest
  <2>5. \A f \in FileSlots : /\ Cardinality(Rest(f) \cup {<<p, 1>>}) = Cardinality(Rest(f)) + 1
                             /\ Cardinality(Rest(f) \cup {<<p, 2>>}) = Cardinality(Rest(f)) + 1
                             /\ Cardinality(Rest(f) \cup {<<p, 1>>} \cup {<<p, 2>>}) = Cardinality(Rest(f)) + 2
    <3> TAKE f \in FileSlots
    <3>1. /\ IsFiniteSet(Rest(f) \cup {<<p, 1>>})
          /\ Cardinality(Rest(f) \cup {<<p, 1>>}) = Cardinality(Rest(f)) + 1
          /\ Cardinality(Rest(f) \cup {<<p, 2>>}) = Cardinality(Rest(f)) + 1
      BY <2>3, <2>4, FS_AddElement, Zenon
    <3>2. <<p, 2>> \notin Rest(f) \cup {<<p, 1>>}
      <4>1. <<p, 2>> \notin Rest(f)
        BY <2>3, Zenon
      <4>2. <<p, 2>> # <<p, 1>>
        OBVIOUS
      <4> QED
        BY <4>1, <4>2, Zenon
    <3>3. Cardinality(Rest(f) \cup {<<p, 1>>} \cup {<<p, 2>>}) = Cardinality(Rest(f) \cup {<<p, 1>>}) + 1
      BY <3>1, <3>2, FS_AddElement, Zenon
    <3> QED
      BY <2>4, <3>1, <3>3
  <2>6. ASSUME NEW f \in FileSlots
        PROVE  \E n \in Nat :
                 /\ Cardinality(CloseSet(cl, f)) = n + (IF f = a THEN 1 ELSE 0) + (IF f = b THEN 1 ELSE 0)
                 /\ Cardinality(CloseSet(cl2, f)) = n + (IF f = b THEN 1 ELSE 0)
    <3>0. PICK n \in Nat : n = Cardinality(Rest(f))
      BY <2>4, Zenon
    <3>a. /\ Cardinality(Rest(f) \cup {<<p, 1>>}) = n + 1
          /\ Cardinality(Rest(f) \cup {<<p, 2>>}) = n + 1
          /\ Cardinality(Rest(f) \cup {<<p, 1>>} \cup {<<p, 2>>}) = n + 2
      BY <2>5, <3>0, Zenon
    <3>b. WITNESS n \in Nat
    <3>1. CASE f = a /\ f = b
      <4>1. CloseSet(cl, f) = Rest(f) \cup {<<p, 1>>} \cup {<<p, 2>>} /\ CloseSet(cl2, f) = Rest(f) \cup {<<p, 1>>}
        BY <2>3, <3>1, Zenon
      <4>2. Cardinality(CloseSet(cl, f)) = n + 2 /\ Cardinality(CloseSet(cl2, f)) = n + 1
        BY <4>1, <3>a, Zenon
      <4> QED
        BY <4>2, <3>1
    <3>2. CASE f = a /\ f # b
      <4>1. CloseSet(cl, f) = Rest(f) \cup {<<p, 1>>} /\ CloseSet(cl2, f) = Rest(f)
        BY <2>3, <3>2, Zenon
      <4>2. Cardinality(CloseSet(cl, f)) = n + 1 /\ Cardinality(CloseSet(cl2, f)) = n
        BY <4>1, <3>a, <3>0, Zenon
      <4> QED
        BY <4>2, <3>2
    <3>3. CASE f # a /\ f = b
      <4>1. CloseSet(cl, f) = Rest(f) \cup {<<p, 2>>} /\ CloseSet(cl2, f) = Rest(f) \cup {<<p, 1>>}
        BY <2>3, <3>3, Zenon
      <4>2. Cardinality(CloseSet(cl, f)) = n + 1 /\ Cardinality(CloseSet(cl2, f)) = n + 1
        BY <4>1, <3>a, Zenon
      <4> QED
        BY <4>2, <3>3
    <3>4. CASE f # a /\ f # b
      <4>1. CloseSet(cl, f) = Rest(f) /\ CloseSet(cl2, f) = Rest(f)
        <5>1. CloseSet(cl, f) = Rest(f) \cup {} \cup {} /\ CloseSet(cl2, f) = Rest(f) \cup {}
          BY <2>3, <3>4, Zenon
        <5> QED
          BY <5>1, Zenon
      <4>2. Cardinality(CloseSet(cl, f)) = n /\ Cardinality(CloseSet(cl2, f)) = n
        BY <4>1, <3>0, Zenon
      <4> QED
        BY <4>2, <3>4
    <3> QED
      BY <3>1, <3>2, <3>3, <3>4, Zenon
  <2>7. /\ Cardinality(CloseSet(cl, a)) > 0
        /\ Cardinality(CloseSet(cl2, a)) = Cardinality(CloseSet(cl, a)) - 1
    <3>1. PICK n \in Nat :
            /\ Cardinality(CloseSet(cl, a)) = n + (IF a = a THEN 1 ELSE 0) + (IF a = b THEN 1 ELSE 0)
            /\ Cardinality(CloseSet(cl2, a)) = n + (IF a = b THEN 1 ELSE 0)
      BY <2>6, Zenon
    <3> QED
      BY <3>1
  <2>8. \A f \in FileSlots \ {a} : Cardinality(CloseSet(cl2, f)) = Cardinality(CloseSet(cl, f))
    <3> TAKE f \in FileSlots \ {a}
    <3>1. PICK n \in Nat :
            /\ Cardinality(CloseSet(cl, f)) = n + (IF f = a THEN 1 ELSE 0) + (IF f = b THEN 1 ELSE 0)
            /\ Cardinality(CloseSet(cl2, f)) = n + (IF f = b THEN 1 ELSE 0)
      BY <2>6, Zenon
    <3> QED
      BY <3>1
  <2>9. Len(cl2[p]) <= 2
    BY <1>3, <1>4, <1>6
  <2> QED
    BY <1>0, <1>2, <1>4, <2>7, <2>8, <2>9, Zenon DEF CloseLess
<1>7. Len(s) = 1 \/ Len(s) = 2
  BY <1>1
<1> QED
  BY <1>7, <1>5, <1>6, Zenon DEF CloseLess

-----------------------------------------------------------------------------
(* The table keeps its ends of pipes and its inodes. *)

InUse(T, f) == T[f].ref > 0 /\ T[f].type # "NONE"
Alike(T, U) ==
  \A f \in FileSlots : /\ InUse(T, f) <=> InUse(U, f)
                       /\ InUse(T, f) => /\ T[f].type = U[f].type /\ T[f].obj = U[f].obj
                                         /\ T[f].writable = U[f].writable

\* Tables with the same files in use have the same ends and inodes.
LEMMA AlikeSame ==
  ASSUME NEW T, NEW U, Alike(T, U)
  PROVE  /\ \A pi, w : EndSet(U, pi, w) = EndSet(T, pi, w)
         /\ InodeSet(U) = InodeSet(T)
         /\ \A F, P : EndsOpen(T, F, P) => EndsOpen(U, F, P)
         /\ \A F, n : InodesHeld(T, F, n) => InodesHeld(U, F, n)
<1>1. \A f \in FileSlots : \A pi, w :
        (T[f].ref > 0 /\ T[f].type = "PIPE" /\ T[f].obj = pi /\ T[f].writable = w)
          <=> (U[f].ref > 0 /\ U[f].type = "PIPE" /\ U[f].obj = pi /\ U[f].writable = w)
  BY Zenon DEF Alike, InUse
<1>2. \A f \in FileSlots : (T[f].ref > 0 /\ T[f].type = "INODE") <=> (U[f].ref > 0 /\ U[f].type = "INODE")
  BY Zenon DEF Alike, InUse
<1>3. \A pi, w : EndSet(U, pi, w) = EndSet(T, pi, w)
  BY <1>1 DEF EndSet
<1>4. InodeSet(U) = InodeSet(T)
  BY <1>2, Zenon DEF InodeSet
<1>5. \A F, P : EndsOpen(T, F, P) => EndsOpen(U, F, P)
  BY <1>3, Zenon DEF EndsOpen
<1>6. \A F, n : InodesHeld(T, F, n) => InodesHeld(U, F, n)
  BY <1>4, Zenon DEF InodesHeld
<1> QED
  BY <1>3, <1>4, <1>5, <1>6, Zenon

\* fileclose() under the lock counts the file down, and what it stood for goes from the
\* table to the copy that the process releases.
LEMMA FilecloseStep ==
  ASSUME FilesCore, NEW p \in Openers, NEW f \in FileSlots, ftable[f].ref >= 1, fileclose(p, f),
         pipes' = pipes, iref' = iref
  PROVE  /\ ftable' \in [FileSlots -> FileType] /\ ff' \in [Openers -> FileType]
         /\ ftable'[f].ref = ftable[f].ref - 1
         /\ \A g \in FileSlots \ {f} : ftable'[g] = ftable[g]
         /\ Cleared' /\ Releases'
         /\ EndsOpen(ftable', ff', pipes') /\ InodesHeld(ftable', ff', iref')
<1>0. /\ ftable \in [FileSlots -> FileType] /\ ff \in [Openers -> FileType] /\ ff[p] = NoFile
      /\ Cleared /\ Releases /\ EndsOpen(ftable, ff, pipes) /\ InodesHeld(ftable, ff, iref)
      /\ pipes \in [PipePages -> PipeType] /\ iref \in Int
  BY ExactParts, Zenon DEF FilesCore, FilesTypeOK, fileclose
<1>a. NoFile \in FileType /\ NoFile.type = "NONE" /\ NoFile.ref = 0
  BY Zenon DEF NoFile, FileType
<1>1. CASE ftable[f].ref > 1
  <2>1. ftable' = [ftable EXCEPT ![f].ref = @ - 1] /\ ff' = ff
    BY <1>1, Zenon DEF fileclose
  <2>2. ftable[f].ref - 1 \in Nat /\ ftable[f].ref - 1 > 0
    BY <1>0, <1>1 DEF FileType
  <2>3. /\ ftable' \in [FileSlots -> FileType]
        /\ ftable'[f].ref = ftable[f].ref - 1 /\ ftable'[f].type = ftable[f].type
        /\ ftable'[f].obj = ftable[f].obj /\ ftable'[f].writable = ftable[f].writable
        /\ \A g \in FileSlots \ {f} : ftable'[g] = ftable[g]
    BY <1>0, <2>1, <2>2 DEF FileType
  <2>4. Alike(ftable, ftable')
    <3>1. ftable[f].ref > 0 /\ ftable'[f].ref > 0
      BY <1>0, <1>1, <2>2, <2>3 DEF FileType
    <3> QED
      BY <2>3, <3>1, Zenon DEF Alike, InUse
  <2>5. EndsOpen(ftable', ff', pipes') /\ InodesHeld(ftable', ff', iref')
    BY <1>0, <2>1, <2>4, AlikeSame, Zenon
  <2>6. Cleared'
    BY <1>0, <2>2, <2>3 DEF Cleared
  <2>7. Releases'
    BY <1>0, <2>1, Zenon DEF Releases
  <2> QED
    BY <1>0, <2>1, <2>3, <2>5, <2>6, <2>7, Zenon
<1>2. CASE ~ (ftable[f].ref > 1)
  <2>1. /\ ff' = IF ftable[f].type = "NONE" THEN ff ELSE [ff EXCEPT ![p] = ftable[f]]
        /\ ftable' = [ftable EXCEPT ![f] = NoFile]
    BY <1>2, Zenon DEF fileclose
  <2>2. ftable[f].ref = 1 /\ ftable[f] \in FileType
    BY <1>0, <1>2 DEF FileType
  <2>3. /\ ftable' \in [FileSlots -> FileType] /\ ftable'[f] = NoFile
        /\ \A g \in FileSlots \ {f} : ftable'[g] = ftable[g]
    BY <1>0, <1>a, <2>1, Zenon
  <2>4. ftable'[f].ref = ftable[f].ref - 1
    BY <1>a, <2>2, <2>3
  <2>5. Cleared'
    BY <1>0, <1>a, <2>3, Zenon DEF Cleared
  <2>6. ff' \in [Openers -> FileType] /\ \A q \in Openers \ {p} : ff'[q] = ff[q]
    BY <1>0, <2>1, <2>2, Zenon
  <2>7. CASE ftable[f].type = "NONE"
    <3>1. ff' = ff
      BY <2>1, <2>7, Zenon
    <3>2. Alike(ftable, ftable')
      BY <1>a, <2>3, <2>7, Zenon DEF Alike, InUse
    <3>3. EndsOpen(ftable', ff', pipes') /\ InodesHeld(ftable', ff', iref')
      BY <1>0, <3>1, <3>2, AlikeSame, Zenon
    <3>4. Releases'
      BY <1>0, <3>1, Zenon DEF Releases
    <3> QED
      BY <2>3, <2>4, <2>5, <2>6, <3>3, <3>4
  <2>8. CASE ftable[f].type # "NONE"
    <3>1. ff'[p] = ftable[f]
      BY <1>0, <2>1, <2>8, Zenon
    <3>2. Releases'
      BY <1>0, <2>6, <2>8, <3>1, Zenon DEF Releases
    <3>3. ASSUME NEW pi \in PipePages, NEW w \in BOOLEAN
          PROVE  Cardinality(EndSet(ftable', pi, w)) + Cardinality(LeaveEnd(ff', pi, w))
                   = Cardinality(EndSet(ftable, pi, w)) + Cardinality(LeaveEnd(ff, pi, w))
      <4> DEFINE This == ftable[f].type = "PIPE" /\ ftable[f].obj = pi /\ ftable[f].writable = w
      <4>1. CASE This
        <5>1. EndSet(ftable', pi, w) = EndSet(ftable, pi, w) \ {f} /\ f \in EndSet(ftable, pi, w)
          BY <1>a, <2>2, <2>3, <4>1 DEF EndSet
        <5>2. LeaveEnd(ff', pi, w) = LeaveEnd(ff, pi, w) \cup {p} /\ p \notin LeaveEnd(ff, pi, w)
          BY <1>0, <1>a, <2>6, <3>1, <4>1 DEF LeaveEnd
        <5>3. Cardinality(EndSet(ftable', pi, w)) = Cardinality(EndSet(ftable, pi, w)) - 1
          <6>1. IsFiniteSet(EndSet(ftable, pi, w))
            BY FilesFinite, Zenon
          <6>2. Cardinality(EndSet(ftable, pi, w) \ {f}) = Cardinality(EndSet(ftable, pi, w)) - 1
            BY <5>1, <6>1, FS_RemoveElement, Zenon
          <6> QED
            BY <5>1, <6>2, Zenon
        <5>4. Cardinality(LeaveEnd(ff', pi, w)) = Cardinality(LeaveEnd(ff, pi, w)) + 1
          BY <5>2, FilesFinite, FS_AddElement, Zenon
        <5>5. Cardinality(EndSet(ftable, pi, w)) \in Nat /\ Cardinality(LeaveEnd(ff, pi, w)) \in Nat
          BY FilesFinite, Zenon
        <5> QED
          BY <5>3, <5>4, <5>5
      <4>2. CASE ~ This
        <5>1. EndSet(ftable', pi, w) = EndSet(ftable, pi, w)
          BY <1>a, <2>2, <2>3, <4>2 DEF EndSet
        <5>2. LeaveEnd(ff', pi, w) = LeaveEnd(ff, pi, w)
          BY <1>0, <1>a, <2>6, <3>1, <4>2 DEF LeaveEnd
        <5> QED
          BY <5>1, <5>2, Zenon
      <4> QED
        BY <4>1, <4>2, Zenon
    <3>4. EndsOpen(ftable', ff', pipes')
      BY <1>0, <3>3, Zenon DEF EndsOpen
    <3>5. Cardinality(InodeSet(ftable')) + Cardinality(LeaveInode(ff'))
            = Cardinality(InodeSet(ftable)) + Cardinality(LeaveInode(ff))
      <4>1. CASE ftable[f].type = "INODE"
        <5>1. InodeSet(ftable') = InodeSet(ftable) \ {f} /\ f \in InodeSet(ftable)
          BY <1>a, <2>2, <2>3, <4>1 DEF InodeSet
        <5>2. LeaveInode(ff') = LeaveInode(ff) \cup {p} /\ p \notin LeaveInode(ff)
          BY <1>0, <1>a, <2>6, <3>1, <4>1, Zenon DEF LeaveInode
        <5>3. Cardinality(InodeSet(ftable')) = Cardinality(InodeSet(ftable)) - 1
          BY <5>1, FilesFinite, FS_RemoveElement, Zenon
        <5>4. Cardinality(LeaveInode(ff')) = Cardinality(LeaveInode(ff)) + 1
          BY <5>2, FilesFinite, FS_AddElement, Zenon
        <5>5. Cardinality(InodeSet(ftable)) \in Nat /\ Cardinality(LeaveInode(ff)) \in Nat
          BY FilesFinite, Zenon
        <5> QED
          BY <5>3, <5>4, <5>5
      <4>2. CASE ftable[f].type # "INODE"
        <5>1. InodeSet(ftable') = InodeSet(ftable)
          BY <1>a, <2>2, <2>3, <4>2, Zenon DEF InodeSet
        <5>2. LeaveInode(ff') = LeaveInode(ff)
          BY <1>0, <1>a, <2>6, <3>1, <4>2 DEF LeaveInode
        <5> QED
          BY <5>1, <5>2, Zenon
      <4> QED
        BY <4>1, <4>2, Zenon
    <3>6. InodesHeld(ftable', ff', iref')
      BY <1>0, <3>5, Zenon DEF InodesHeld
    <3> QED
      BY <2>3, <2>4, <2>5, <2>6, <3>2, <3>4, <3>6
  <2> QED
    BY <2>7, <2>8, Zenon
<1> QED
  BY <1>1, <1>2, Zenon

-----------------------------------------------------------------------------
(* The steps. *)

\* What FilesCore says of the state before a step.
LEMMA CoreParts ==
  ASSUME FilesCore
  PROVE  /\ ftable \in [FileSlots -> FileType] /\ ofile \in Descriptors
         /\ pipes \in [PipePages -> PipeType] /\ iref \in Int
         /\ closing \in [Openers -> Seq(FileSlots)] /\ \A p \in Openers : Len(closing[p]) <= 2
         /\ ff \in [Openers -> FileType] /\ life \in [Openers -> Lives]
         /\ Cleared /\ NoneYet /\ Releases
         /\ Counted(ftable, ofile, closing)
         /\ EndsOpen(ftable, ff, pipes) /\ InodesHeld(ftable, ff, iref)
  BY ExactParts, Zenon DEF FilesCore, FilesTypeOK

\* The counts are numbers.
LEMMA CountTypes ==
  \A of, cl, f : Cardinality(FdSet(of, f)) \in Nat /\ Cardinality(CloseSet(cl, f)) \in Nat
  BY FilesFinite, Zenon

\* What the steps need of arithmetic.
LEMMA Sums ==
  /\ 1 = 0 + 1 /\ 1 <= 2 /\ 2 <= 2
  /\ \A a, b \in Nat : /\ (a + b) + 1 = (a + 1) + b /\ (a + b) + 1 = a + (b + 1)
                       /\ a + b = 0 => (a + 1) + b = 1
  OBVIOUS

\* The next fileclose() of a system call.
LEMMA CloseNextStep ==
  ASSUME FilesCore, NEW p \in Openers, CloseNext(p)
  PROVE  FilesCore'
<1> DEFINE f == Head(closing[p])
<1>0. /\ closing[p] # <<>> /\ fileclose(p, f) /\ Puts(closing, closing', p, Tail(closing[p]))
      /\ ofile' = ofile /\ pipes' = pipes /\ iref' = iref /\ life' = life
  BY Zenon DEF CloseNext, Puts
<1>1. /\ f \in FileSlots /\ closing' \in [Openers -> Seq(FileSlots)] /\ Len(closing'[p]) <= 2
      /\ \A q \in Openers \ {p} : closing'[q] = closing[q]
      /\ Cardinality(CloseSet(closing, f)) > 0
      /\ Cardinality(CloseSet(closing', f)) = Cardinality(CloseSet(closing, f)) - 1
      /\ \A g \in FileSlots \ {f} : Cardinality(CloseSet(closing', g)) = Cardinality(CloseSet(closing, g))
  <2>1. closing \in [Openers -> Seq(FileSlots)] /\ Len(closing[p]) <= 2
    BY CoreParts, Zenon
  <2>2. CloseLess(closing, closing', p)
    BY <1>0, <2>1, CloseTaken, Zenon
  <2> QED
    BY <2>2, Zenon DEF CloseLess
<1> HIDE DEF f
<1>2. ftable[f].ref = Cardinality(FdSet(ofile, f)) + Cardinality(CloseSet(closing, f))
  BY <1>1, CoreParts, Zenon DEF Counted
<1>3. ftable[f].ref >= 1
  BY <1>1, <1>2, CountTypes
<1>4. /\ ftable' \in [FileSlots -> FileType] /\ ff' \in [Openers -> FileType]
      /\ ftable'[f].ref = ftable[f].ref - 1
      /\ \A g \in FileSlots \ {f} : ftable'[g] = ftable[g]
      /\ Cleared' /\ Releases'
      /\ EndsOpen(ftable', ff', pipes') /\ InodesHeld(ftable', ff', iref')
  BY <1>0, <1>1, <1>3, FilecloseStep, Zenon
<1>5. Counted(ftable', ofile', closing')
  <2> SUFFICES ASSUME NEW g \in FileSlots
      PROVE  ftable'[g].ref = Cardinality(FdSet(ofile', g)) + Cardinality(CloseSet(closing', g))
    BY Zenon DEF Counted
  <2>1. CASE g = f
    BY <1>0, <1>1, <1>2, <1>4, <2>1, CountTypes
  <2>2. CASE g # f
    <3>1. ftable[g].ref = Cardinality(FdSet(ofile, g)) + Cardinality(CloseSet(closing, g))
      BY CoreParts, Zenon DEF Counted
    <3> QED
      BY <1>0, <1>1, <1>4, <2>2, <3>1, Zenon
  <2> QED
    BY <2>1, <2>2, Zenon
<1>6. FilesExact'
  BY <1>4, <1>5, ExactParts, Zenon
<1>7. NoneYet'
  BY <1>0, CoreParts, Zenon DEF NoneYet
<1>8. \A q \in Openers : Len(closing'[q]) <= 2
  BY <1>1, CoreParts, Zenon
<1> QED
  BY <1>0, <1>1, <1>4, <1>6, <1>7, <1>8, CoreParts DEF FilesCore, FilesTypeOK

\* The next descriptor in the loop of kexit().
LEMMA ExitCloseStep ==
  ASSUME FilesCore, NEW p \in Openers, ExitClose(p)
  PROVE  FilesCore'
<1> DEFINE D == {d \in Fds : ofile[p][d] # 0}
<1>0. /\ life[p] = "exits" /\ Lowest(D) # -1 /\ fileclose(p, ofile[p][Lowest(D)])
      /\ ofile' = [ofile EXCEPT ![p][Lowest(D)] = 0]
      /\ pipes' = pipes /\ iref' = iref /\ closing' = closing /\ life' = life
  BY Zenon DEF ExitClose
<1>a. D \in SUBSET Nat
  BY FilesAssumption DEF Fds
<1>b. Lowest(D) \in D
  BY <1>0, <1>a, LowestIn, Zenon
<1>c. PICK fd \in Fds : fd = Lowest(D) /\ ofile[p][fd] # 0
  BY <1>b, Zenon
<1>d. ofile[p][fd] \in 0 .. NFILE
  BY CoreParts, Zenon DEF Descriptors
<1>e. PICK f \in FileSlots : f = ofile[p][fd]
  <2>1. ofile[p][fd] # 0
    BY <1>c, Zenon
  <2> HIDE DEF D
  <2> QED
    BY <2>1, <1>d, FilesAssumption DEF FileSlots
<1> HIDE DEF D
<1>f. fileclose(p, f) /\ Moves(ofile, ofile', p, fd, 0)
  BY <1>0, <1>c, <1>e, Zenon DEF Moves
<1>1. /\ ofile' \in Descriptors
      /\ Cardinality(FdSet(ofile', f)) = Cardinality(FdSet(ofile, f)) - 1
      /\ Cardinality(FdSet(ofile, f)) > 0
      /\ \A g \in FileSlots \ {f} : FdSet(ofile', g) = FdSet(ofile, g)
      /\ \A q \in Openers, d \in Fds : <<q, d>> # <<p, fd>> => ofile'[q][d] = ofile[q][d]
      /\ ofile'[p][fd] = 0
  <2>1. ofile \in Descriptors /\ ofile[p][fd] = f
    BY <1>e, CoreParts, Zenon
  <2>2. FdLess(ofile, ofile', p, fd, f)
    BY <1>f, <2>1, FdTaken, Zenon
  <2> QED
    BY <2>2, Zenon DEF FdLess
<1>2. ftable[f].ref = Cardinality(FdSet(ofile, f)) + Cardinality(CloseSet(closing, f))
  BY CoreParts, Zenon DEF Counted
<1>3. ftable[f].ref >= 1
  BY <1>1, <1>2, CountTypes
<1>4. /\ ftable' \in [FileSlots -> FileType] /\ ff' \in [Openers -> FileType]
      /\ ftable'[f].ref = ftable[f].ref - 1
      /\ \A g \in FileSlots \ {f} : ftable'[g] = ftable[g]
      /\ Cleared' /\ Releases'
      /\ EndsOpen(ftable', ff', pipes') /\ InodesHeld(ftable', ff', iref')
  BY <1>0, <1>f, <1>3, FilecloseStep, Zenon
<1>5. Counted(ftable', ofile', closing')
  <2> SUFFICES ASSUME NEW g \in FileSlots
      PROVE  ftable'[g].ref = Cardinality(FdSet(ofile', g)) + Cardinality(CloseSet(closing', g))
    BY Zenon DEF Counted
  <2>1. CASE g = f
    BY <1>0, <1>1, <1>2, <1>4, <2>1, CountTypes
  <2>2. CASE g # f
    <3>1. ftable[g].ref = Cardinality(FdSet(ofile, g)) + Cardinality(CloseSet(closing, g))
      BY CoreParts, Zenon DEF Counted
    <3> QED
      BY <1>0, <1>1, <1>4, <2>2, <3>1, Zenon
  <2> QED
    BY <2>1, <2>2, Zenon
<1>6. FilesExact'
  BY <1>4, <1>5, ExactParts, Zenon
<1>7. NoneYet'
  BY <1>0, <1>1, CoreParts DEF NoneYet
<1> QED
  BY <1>0, <1>1, <1>4, <1>6, <1>7, CoreParts DEF FilesCore, FilesTypeOK

\* sys_close(): the reference goes from the descriptor to the call.
LEMMA SysCloseStep ==
  ASSUME FilesCore, NEW p \in Openers, Ready(p), NEW fd \in Fds, sys_close(p, fd)
  PROVE  FilesCore'
<1>0. /\ closing[p] = <<>> /\ ofile[p][fd] # 0
      /\ Moves(ofile, ofile', p, fd, 0) /\ Puts(closing, closing', p, <<ofile[p][fd]>>)
      /\ ftable' = ftable /\ pipes' = pipes /\ iref' = iref /\ ff' = ff /\ life' = life
  BY Zenon DEF sys_close, Ready, Moves, Puts
<1>d. ofile[p][fd] \in 0 .. NFILE
  BY CoreParts, Zenon DEF Descriptors
<1>e. PICK f \in FileSlots : f = ofile[p][fd]
  BY <1>0, <1>d, FilesAssumption DEF FileSlots
<1>1. /\ ofile' \in Descriptors
      /\ Cardinality(FdSet(ofile', f)) = Cardinality(FdSet(ofile, f)) - 1
      /\ \A g \in FileSlots \ {f} : FdSet(ofile', g) = FdSet(ofile, g)
      /\ \A q \in Openers, d \in Fds : <<q, d>> # <<p, fd>> => ofile'[q][d] = ofile[q][d]
      /\ ofile'[p][fd] = 0
  <2>1. ofile \in Descriptors /\ ofile[p][fd] = f
    BY <1>e, CoreParts, Zenon
  <2>2. FdLess(ofile, ofile', p, fd, f)
    BY <1>0, <2>1, FdTaken, Zenon
  <2> QED
    BY <2>2, Zenon DEF FdLess
<1>2. /\ closing' \in [Openers -> Seq(FileSlots)] /\ Len(closing'[p]) = 1
      /\ \A q \in Openers \ {p} : closing'[q] = closing[q]
      /\ Cardinality(CloseSet(closing', f)) = Cardinality(CloseSet(closing, f)) + 1
      /\ \A g \in FileSlots \ {f} : CloseSet(closing', g) = CloseSet(closing, g)
  <2>1. closing \in [Openers -> Seq(FileSlots)] /\ Puts(closing, closing', p, <<f>>)
    BY <1>0, <1>e, CoreParts, Zenon
  <2>2. CloseMore(closing, closing', p, f)
    BY <1>0, <2>1, ClosePut, Zenon
  <2> QED
    BY <2>2, Zenon DEF CloseMore
<1>5. Counted(ftable', ofile', closing')
  <2> SUFFICES ASSUME NEW g \in FileSlots
      PROVE  ftable'[g].ref = Cardinality(FdSet(ofile', g)) + Cardinality(CloseSet(closing', g))
    BY Zenon DEF Counted
  <2>0. ftable[g].ref = Cardinality(FdSet(ofile, g)) + Cardinality(CloseSet(closing, g))
    BY CoreParts, Zenon DEF Counted
  <2>1. CASE g = f
    BY <1>0, <1>1, <1>2, <2>0, <2>1, CountTypes
  <2>2. CASE g # f
    BY <1>0, <1>1, <1>2, <2>0, <2>2, Zenon
  <2> QED
    BY <2>1, <2>2, Zenon
<1>6. FilesExact' /\ Cleared' /\ Releases'
  BY <1>0, <1>5, ExactParts, CoreParts, Zenon DEF Cleared, Releases
<1>7. NoneYet'
  BY <1>0, <1>1, CoreParts, Zenon DEF NoneYet
<1>8. \A q \in Openers : Len(closing'[q]) <= 2
  <2> TAKE q \in Openers
  <2>1. CASE q = p
    <3>1. Len(closing'[q]) = 1
      BY <1>2, <2>1, Zenon
    <3> QED
      BY <3>1
  <2>2. CASE q # p
    <3>1. closing'[q] = closing[q]
      BY <1>2, <2>2, Zenon
    <3> QED
      BY <3>1, CoreParts, Zenon
  <2> QED
    BY <2>1, <2>2, Zenon
<1> QED
  BY <1>0, <1>1, <1>2, <1>6, <1>7, <1>8, CoreParts, Zenon DEF FilesCore, FilesTypeOK

\* fileclose() lets go of the pipe or the inode it copied: an end that nobody else stands for.
LEMMA ReleaseStep ==
  ASSUME FilesCore, NEW p \in Openers, FileRelease(p)
  PROVE  FilesCore'
<1>0. /\ ff[p] # NoFile /\ ff' = [ff EXCEPT ![p] = NoFile]
      /\ ftable' = ftable /\ ofile' = ofile /\ closing' = closing /\ life' = life
  BY Zenon DEF FileRelease
<1>a. NoFile \in FileType /\ NoFile.type = "NONE" /\ ff[p] \in FileType /\ ff[p].type # "NONE"
  BY <1>0, CoreParts, Zenon DEF NoFile, FileType, Releases
<1>1. /\ ff' \in [Openers -> FileType] /\ ff'[p] = NoFile
      /\ \A q \in Openers \ {p} : ff'[q] = ff[q]
  BY <1>0, <1>a, CoreParts, Zenon
<1>2. Releases' /\ Cleared' /\ NoneYet' /\ Counted(ftable', ofile', closing')
  BY <1>0, <1>1, CoreParts DEF Releases, Cleared, NoneYet
<1>3. CASE ff[p].type = "PIPE"
  <2>1. /\ pipes' = IF ff[p].writable THEN [pipes EXCEPT ![ff[p].obj].writeopen = FALSE]
                                      ELSE [pipes EXCEPT ![ff[p].obj].readopen = FALSE]
        /\ iref' = iref
    BY <1>3, Zenon DEF FileRelease
  <2>2. pipes' \in [PipePages -> PipeType]
    BY <2>1, CoreParts, Zenon DEF PipeType
  <2>3. InodesHeld(ftable', ff', iref')
    <3>1. LeaveInode(ff') = LeaveInode(ff)
      BY <1>a, <1>1, <1>3, Zenon DEF LeaveInode
    <3> QED
      BY <1>0, <2>1, <3>1, CoreParts, Zenon DEF InodesHeld
  <2>4. ASSUME NEW pi \in PipePages, NEW w \in BOOLEAN
        PROVE  Cardinality(EndSet(ftable', pi, w)) + Cardinality(LeaveEnd(ff', pi, w))
                 = IF Open(pipes', pi, w) THEN 1 ELSE 0
    <3>0. Cardinality(EndSet(ftable, pi, w)) + Cardinality(LeaveEnd(ff, pi, w))
            = IF Open(pipes, pi, w) THEN 1 ELSE 0
      BY CoreParts, Zenon DEF EndsOpen
    <3>c. Cardinality(EndSet(ftable, pi, w)) \in Nat /\ Cardinality(LeaveEnd(ff, pi, w)) \in Nat
          /\ Cardinality(LeaveEnd(ff', pi, w)) \in Nat
      BY FilesFinite, Zenon
    <3>1. CASE ff[p].obj = pi /\ ff[p].writable = w
      <4>1. LeaveEnd(ff', pi, w) = LeaveEnd(ff, pi, w) \ {p} /\ p \in LeaveEnd(ff, pi, w)
        BY <1>a, <1>1, <1>3, <3>1, Zenon DEF LeaveEnd
      <4>2. Cardinality(LeaveEnd(ff', pi, w)) = Cardinality(LeaveEnd(ff, pi, w)) - 1
        <5>1. IsFiniteSet(LeaveEnd(ff, pi, w))
          BY FilesFinite, Zenon
        <5>2. Cardinality(LeaveEnd(ff, pi, w) \ {p}) = Cardinality(LeaveEnd(ff, pi, w)) - 1
          BY <4>1, <5>1, FS_RemoveElement, Zenon
        <5> QED
          BY <4>1, <5>2, Zenon
      <4>3. ~ Open(pipes', pi, w)
        BY <2>1, <3>1, CoreParts, Zenon DEF Open, PipeType
      <4>4. EndSet(ftable', pi, w) = EndSet(ftable, pi, w)
        BY <1>0, Zenon
      <4> QED
        BY <3>0, <3>c, <4>2, <4>3, <4>4
    <3>2. CASE ~ (ff[p].obj = pi /\ ff[p].writable = w)
      <4>1. LeaveEnd(ff', pi, w) = LeaveEnd(ff, pi, w)
        BY <1>a, <1>1, <1>3, <3>2, Zenon DEF LeaveEnd
      <4>2. Open(pipes', pi, w) = Open(pipes, pi, w)
        <5>1. ff[p].writable \in BOOLEAN /\ pipes \in [PipePages -> PipeType]
          BY <1>a, CoreParts, Zenon DEF FileType
        <5>2. CASE ff[p].obj = pi
          BY <2>1, <3>2, <5>1, <5>2, Zenon DEF Open, PipeType
        <5>3. CASE ff[p].obj # pi
          BY <2>1, <5>1, <5>3, Zenon DEF Open, PipeType
        <5> QED
          BY <5>2, <5>3, Zenon
      <4> QED
        BY <1>0, <3>0, <4>1, <4>2, Zenon
    <3> QED
      BY <3>1, <3>2, Zenon
  <2>5. EndsOpen(ftable', ff', pipes')
    BY <2>4, Zenon DEF EndsOpen
  <2>6. FilesExact'
    BY <1>2, <2>3, <2>5, ExactParts, Zenon
  <2> QED
    BY <1>0, <1>1, <1>2, <2>1, <2>2, <2>6, CoreParts, Zenon DEF FilesCore, FilesTypeOK
<1>4. CASE ff[p].type = "INODE"
  <2>1. iref' = iref - 1 /\ pipes' = pipes
    BY <1>4, Zenon DEF FileRelease
  <2>2. LeaveInode(ff') = LeaveInode(ff) \ {p} /\ p \in LeaveInode(ff)
    BY <1>a, <1>1, <1>4, Zenon DEF LeaveInode
  <2>3. Cardinality(LeaveInode(ff')) = Cardinality(LeaveInode(ff)) - 1
    <3>1. IsFiniteSet(LeaveInode(ff))
      BY FilesFinite, Zenon
    <3>2. Cardinality(LeaveInode(ff) \ {p}) = Cardinality(LeaveInode(ff)) - 1
      BY <2>2, <3>1, FS_RemoveElement, Zenon
    <3> QED
      BY <2>2, <3>2, Zenon
  <2>4. InodesHeld(ftable', ff', iref')
    <3>1. iref = Cardinality(InodeSet(ftable)) + Cardinality(LeaveInode(ff))
      BY CoreParts, Zenon DEF InodesHeld
    <3>2. Cardinality(InodeSet(ftable)) \in Nat /\ Cardinality(LeaveInode(ff)) \in Nat
      BY FilesFinite, Zenon
    <3>3. InodeSet(ftable') = InodeSet(ftable)
      BY <1>0, Zenon
    <3> QED
      BY <2>1, <2>3, <3>1, <3>2, <3>3 DEF InodesHeld
  <2>5. EndsOpen(ftable', ff', pipes')
    <3>1. \A pi, w : LeaveEnd(ff', pi, w) = LeaveEnd(ff, pi, w)
      BY <1>a, <1>1, <1>4 DEF LeaveEnd
    <3> QED
      BY <1>0, <2>1, <3>1, CoreParts, Zenon DEF EndsOpen
  <2>6. FilesExact'
    BY <1>2, <2>4, <2>5, ExactParts, Zenon
  <2> QED
    BY <1>0, <1>1, <1>2, <2>1, <2>6, CoreParts DEF FilesCore, FilesTypeOK
<1> QED
  BY <1>3, <1>4, <1>a, Zenon DEF FileType

\* A system call that keeps the copies of fileclose() and the lives of the processes, and
\* of the descriptors and the closes changes only its own.
LEMMA CallStep ==
  ASSUME FilesCore, NEW p \in Openers, Ready(p), ff' = ff, life' = life,
         ftable' \in [FileSlots -> FileType], ofile' \in Descriptors,
         pipes' \in [PipePages -> PipeType], iref' \in Int,
         closing' \in [Openers -> Seq(FileSlots)], Len(closing'[p]) <= 2,
         \A q \in Openers \ {p} : closing'[q] = closing[q],
         \A q \in Openers \ {p} : \A d \in Fds : ofile'[q][d] = ofile[q][d],
         Cleared', Counted(ftable', ofile', closing'),
         EndsOpen(ftable', ff', pipes'), InodesHeld(ftable', ff', iref')
  PROVE  FilesCore'
<1>1. FilesExact'
  BY ExactParts, Zenon
<1>2. Releases'
  BY CoreParts, Zenon DEF Releases
<1>3. NoneYet'
  <2>1. life[p] = "runs"
    BY Zenon DEF Ready
  <2> QED
    BY <2>1, CoreParts, Zenon DEF NoneYet
<1>4. \A q \in Openers : Len(closing'[q]) <= 2
  <2> TAKE q \in Openers
  <2>1. CASE q = p
    BY <2>1, Zenon
  <2>2. CASE q # p
    <3>1. Len(closing[q]) <= 2 /\ closing'[q] = closing[q]
      BY <2>2, CoreParts, Zenon
    <3> QED
      BY <3>1, Zenon
  <2> QED
    BY <2>1, <2>2, Zenon
<1> QED
  BY <1>1, <1>2, <1>3, <1>4, CoreParts DEF FilesCore, FilesTypeOK

\* A file that filealloc() gave and that is closed at once.
LEMMA UnusedClosed ==
  ASSUME FilesCore, NEW p \in Openers, Ready(p), NEW f \in FileSlots, ftable[f].ref = 0,
         ftable' = [ftable EXCEPT ![f].ref = 1], Puts(closing, closing', p, <<f>>),
         ofile' = ofile, iref' = iref, pipes' = pipes, ff' = ff, life' = life
  PROVE  FilesCore'
<1>0. ftable[f].type = "NONE" /\ ftable[f] \in FileType /\ ftable \in [FileSlots -> FileType]
  BY CoreParts, Zenon DEF Cleared
<1>1. /\ ftable' \in [FileSlots -> FileType] /\ ftable'[f].ref = 1 /\ ftable'[f].type = "NONE"
      /\ \A g \in FileSlots \ {f} : ftable'[g] = ftable[g]
  BY <1>0, Zenon DEF FileType
<1>2. CloseMore(closing, closing', p, f)
  <2>1. closing \in [Openers -> Seq(FileSlots)] /\ closing[p] = <<>>
    BY CoreParts, Zenon DEF Ready
  <2> QED
    BY <2>1, ClosePut, Zenon
<1>3. /\ closing' \in [Openers -> Seq(FileSlots)] /\ Len(closing'[p]) = 1
      /\ \A q \in Openers \ {p} : closing'[q] = closing[q]
      /\ Cardinality(CloseSet(closing', f)) = Cardinality(CloseSet(closing, f)) + 1
      /\ \A g \in FileSlots \ {f} : CloseSet(closing', g) = CloseSet(closing, g)
  BY <1>2, Zenon DEF CloseMore
<1>4. Counted(ftable', ofile', closing')
  <2> SUFFICES ASSUME NEW g \in FileSlots
      PROVE  ftable'[g].ref = Cardinality(FdSet(ofile', g)) + Cardinality(CloseSet(closing', g))
    BY Zenon DEF Counted
  <2>0. ftable[g].ref = Cardinality(FdSet(ofile, g)) + Cardinality(CloseSet(closing, g))
    BY CoreParts, Zenon DEF Counted
  <2>1. CASE g = f
    BY <1>1, <1>3, <2>0, <2>1, CountTypes
  <2>2. CASE g # f
    BY <1>1, <1>3, <2>0, <2>2, Zenon
  <2> QED
    BY <2>1, <2>2, Zenon
<1>5. Alike(ftable, ftable')
  BY <1>0, <1>1, Zenon DEF Alike, InUse
<1>6. EndsOpen(ftable', ff', pipes') /\ InodesHeld(ftable', ff', iref')
  BY <1>5, CoreParts, AlikeSame, Zenon
<1>7. Cleared'
  <2>1. \A g \in FileSlots \ {f} : ftable'[g].ref = 0 => ftable'[g].type = "NONE"
    BY <1>1, CoreParts, Zenon DEF Cleared
  <2> QED
    BY <1>1, <2>1, Zenon DEF Cleared
<1>8. ofile' \in Descriptors /\ pipes' \in [PipePages -> PipeType] /\ iref' \in Int
  BY CoreParts, Zenon
<1>9. Len(closing'[p]) <= 2
  BY <1>3, Sums, Zenon
<1> QED
  BY <1>1, <1>3, <1>4, <1>6, <1>7, <1>8, <1>9, CallStep, Zenon

\* sys_open() takes a free file, and an inode if there is a descriptor for it.
LEMMA SysOpenStep ==
  ASSUME FilesCore, NEW p \in Openers, Ready(p), sys_open(p)
  PROVE  FilesCore'
<1>0. /\ closing[p] = <<>> /\ filealloc(ftable) # 0
      /\ pipes' = pipes /\ ff' = ff /\ life' = life
  BY Zenon DEF sys_open, Ready
<1>1. PICK f \in FileSlots : f = filealloc(ftable) /\ ftable[f].ref = 0 /\ f # 0
  BY <1>0, CoreParts, FileallocIn, Zenon
<1>2. ftable[f].type = "NONE" /\ ftable[f] \in FileType /\ ftable \in [FileSlots -> FileType]
  BY <1>1, CoreParts, Zenon DEF Cleared
<1>c. \A g \in FileSlots : ftable[g].ref = Cardinality(FdSet(ofile, g)) + Cardinality(CloseSet(closing, g))
  BY CoreParts, Zenon DEF Counted
<1>r. Releases'
  BY <1>0, CoreParts, Zenon DEF Releases
<1>3. CASE fdalloc(ofile[p]) = -1
  <2>1. /\ ftable' = [ftable EXCEPT ![f].ref = 1]
        /\ Puts(closing, closing', p, <<f>>) /\ ofile' = ofile /\ iref' = iref
    BY <1>1, <1>3, Zenon DEF sys_open, Referenced, Puts
  <2> QED
    BY <1>0, <1>1, <2>1, UnusedClosed, Zenon
<1>4. CASE fdalloc(ofile[p]) # -1
  <2>0. PICK fd \in Fds : fd = fdalloc(ofile[p]) /\ ofile[p][fd] = 0
    <3>1. ofile[p] \in [Fds -> 0 .. NFILE]
      BY CoreParts, Zenon DEF Descriptors
    <3> QED
      BY <1>4, <3>1, FdallocIn, Zenon
  <2>1. /\ ftable' = [ftable EXCEPT ![f] = [ftable[f] EXCEPT !.ref = 1, !.type = "INODE", !.obj = 1]]
        /\ Moves(ofile, ofile', p, fd, f) /\ iref' = iref + 1 /\ closing' = closing
    BY <1>1, <1>4, <2>0, Zenon DEF sys_open, Moves
  <2>2. /\ ftable' \in [FileSlots -> FileType] /\ ftable'[f].ref = 1 /\ ftable'[f].type = "INODE"
        /\ \A g \in FileSlots \ {f} : ftable'[g] = ftable[g]
    <3>1. PICK new : new = [ftable[f] EXCEPT !.ref = 1, !.type = "INODE", !.obj = 1]
      OBVIOUS
    <3>2. new \in FileType /\ new.ref = 1 /\ new.type = "INODE"
      BY <1>2, <3>1, Zenon DEF FileType
    <3>3. ftable' = [ftable EXCEPT ![f] = new]
      BY <2>1, <3>1, Zenon
    <3> QED
      BY <1>2, <3>2, <3>3, Zenon
  <2>3. FdMore(ofile, ofile', p, fd, f)
    <3>1. ofile \in Descriptors
      BY CoreParts, Zenon
    <3> QED
      BY <2>0, <2>1, <3>1, FdGiven, Zenon
  <2>4. /\ ofile' \in Descriptors
        /\ Cardinality(FdSet(ofile', f)) = Cardinality(FdSet(ofile, f)) + 1
        /\ \A g \in FileSlots \ {f} : FdSet(ofile', g) = FdSet(ofile, g)
        /\ \A q \in Openers, d \in Fds : <<q, d>> # <<p, fd>> => ofile'[q][d] = ofile[q][d]
    BY <2>3, Zenon DEF FdMore
  <2>5. Counted(ftable', ofile', closing')
    <3> SUFFICES ASSUME NEW g \in FileSlots
        PROVE  ftable'[g].ref = Cardinality(FdSet(ofile', g)) + Cardinality(CloseSet(closing', g))
      BY Zenon DEF Counted
    <3>1. CASE g = f
      BY <1>1, <1>c, <2>1, <2>2, <2>4, <3>1, CountTypes
    <3>2. CASE g # f
      BY <1>c, <2>1, <2>2, <2>4, <3>2
    <3> QED
      BY <3>1, <3>2, Zenon
  <2>6. EndsOpen(ftable', ff', pipes')
    <3>1. \A pi, w : EndSet(ftable', pi, w) = EndSet(ftable, pi, w)
      BY <1>2, <2>2 DEF EndSet
    <3> QED
      BY <1>0, <3>1, CoreParts, Zenon DEF EndsOpen
  <2>7. InodesHeld(ftable', ff', iref')
    <3>1. InodeSet(ftable') = InodeSet(ftable) \cup {f} /\ f \notin InodeSet(ftable)
      BY <1>2, <2>2 DEF InodeSet
    <3>2. IsFiniteSet(InodeSet(ftable)) /\ Cardinality(InodeSet(ftable)) \in Nat
          /\ Cardinality(LeaveInode(ff)) \in Nat
      BY FilesFinite, Zenon
    <3>3. Cardinality(InodeSet(ftable) \cup {f}) = Cardinality(InodeSet(ftable)) + 1
      BY <3>1, <3>2, FS_AddElement, Zenon
    <3>4. Cardinality(InodeSet(ftable')) = Cardinality(InodeSet(ftable)) + 1
      BY <3>1, <3>3, Zenon
    <3>5. iref = Cardinality(InodeSet(ftable)) + Cardinality(LeaveInode(ff))
      BY CoreParts, Zenon DEF InodesHeld
    <3>6. LeaveInode(ff') = LeaveInode(ff)
      BY <1>0, Zenon
    <3> QED
      BY <2>1, <3>2, <3>4, <3>5, <3>6 DEF InodesHeld
  <2>8. FilesExact'
    BY <2>5, <2>6, <2>7, ExactParts, Zenon
  <2>9. Cleared'
    <3>1. \A g \in FileSlots \ {f} : ftable'[g].ref = 0 => ftable'[g].type = "NONE"
      BY <2>2, CoreParts, Zenon DEF Cleared
    <3> QED
      BY <2>2, <3>1 DEF Cleared
  <2>10. NoneYet'
    <3>1. life[p] = "runs"
      BY Zenon DEF Ready
    <3> QED
      BY <1>0, <2>4, <3>1, CoreParts, Zenon DEF NoneYet
  <2> QED
    BY <1>0, <1>r, <2>1, <2>2, <2>4, <2>8, <2>9, <2>10, CoreParts DEF FilesCore, FilesTypeOK
<1> QED
  BY <1>3, <1>4, Zenon

\* sys_dup(): one more descriptor of the same file.
LEMMA SysDupStep ==
  ASSUME FilesCore, NEW p \in Openers, Ready(p), NEW fd \in Fds, sys_dup(p, fd)
  PROVE  FilesCore'
<1>0. /\ ofile[p][fd] # 0 /\ fdalloc(ofile[p]) # -1 /\ ofile[p] \in [Fds -> 0 .. NFILE]
      /\ pipes' = pipes /\ iref' = iref /\ closing' = closing /\ ff' = ff /\ life' = life
  BY CoreParts, Zenon DEF sys_dup, Descriptors
<1>1. PICK f \in FileSlots : f = ofile[p][fd]
  BY <1>0, FilesAssumption DEF FileSlots
<1>2. PICK new \in Fds : new = fdalloc(ofile[p]) /\ ofile[p][new] = 0
  BY <1>0, FdallocIn, Zenon
<1>3. Moves(ofile, ofile', p, new, f) /\ ftable' = [ftable EXCEPT ![f].ref = @ + 1]
  BY <1>1, <1>2, Zenon DEF sys_dup, filedup, Moves
<1>4. FdMore(ofile, ofile', p, new, f)
  <2>1. ofile \in Descriptors
    BY CoreParts, Zenon
  <2> QED
    BY <1>2, <1>3, <2>1, FdGiven, Zenon
<1>5. /\ ofile' \in Descriptors
      /\ Cardinality(FdSet(ofile', f)) = Cardinality(FdSet(ofile, f)) + 1
      /\ \A g \in FileSlots \ {f} : FdSet(ofile', g) = FdSet(ofile, g)
      /\ \A q \in Openers, d \in Fds : <<q, d>> # <<p, new>> => ofile'[q][d] = ofile[q][d]
  BY <1>4, Zenon DEF FdMore
<1>6. ftable[f].ref > 0
  <2>1. <<p, fd>> \in FdSet(ofile, f)
    BY <1>1, Zenon DEF FdSet
  <2>2. Cardinality(FdSet(ofile, f)) # 0
    <3>1. IsFiniteSet(FdSet(ofile, f))
      BY FilesFinite, Zenon
    <3>2. FdSet(ofile, f) # {}
      BY <2>1, Zenon
    <3> QED
      BY <3>1, <3>2, FS_EmptySet, Zenon
  <2>3. ftable[f].ref = Cardinality(FdSet(ofile, f)) + Cardinality(CloseSet(closing, f))
    BY CoreParts, Zenon DEF Counted
  <2>4. Cardinality(FdSet(ofile, f)) \in Nat /\ Cardinality(CloseSet(closing, f)) \in Nat
    BY CountTypes, Zenon
  <2> QED
    BY <2>2, <2>3, <2>4
<1>7. /\ ftable' \in [FileSlots -> FileType] /\ ftable'[f].ref = ftable[f].ref + 1
      /\ ftable'[f].type = ftable[f].type /\ ftable'[f].obj = ftable[f].obj
      /\ ftable'[f].writable = ftable[f].writable /\ ftable'[f].ref > 0
      /\ \A g \in FileSlots \ {f} : ftable'[g] = ftable[g]
  <2>1. PICK new2 : new2 = [ftable[f] EXCEPT !.ref = ftable[f].ref + 1]
    BY Zenon
  <2>2. ftable[f] \in FileType /\ ftable \in [FileSlots -> FileType]
    BY CoreParts, Zenon
  <2>3. /\ new2 \in FileType /\ new2.ref = ftable[f].ref + 1 /\ new2.type = ftable[f].type
        /\ new2.obj = ftable[f].obj /\ new2.writable = ftable[f].writable /\ new2.ref > 0
    BY <1>6, <2>1, <2>2 DEF FileType
  <2>4. ftable' = [ftable EXCEPT ![f] = new2]
    BY <1>3, <2>1, <2>2, Zenon
  <2> QED
    BY <2>2, <2>3, <2>4, Zenon
<1>8. Counted(ftable', ofile', closing')
  <2> SUFFICES ASSUME NEW g \in FileSlots
      PROVE  ftable'[g].ref = Cardinality(FdSet(ofile', g)) + Cardinality(CloseSet(closing', g))
    BY Zenon DEF Counted
  <2>0. ftable[g].ref = Cardinality(FdSet(ofile, g)) + Cardinality(CloseSet(closing, g))
    BY CoreParts, Zenon DEF Counted
  <2>1. CASE g = f
    BY <1>0, <1>5, <1>7, <2>0, <2>1, CountTypes
  <2>2. CASE g # f
    BY <1>0, <1>5, <1>7, <2>0, <2>2, Zenon
  <2> QED
    BY <2>1, <2>2, Zenon
<1>9. Alike(ftable, ftable')
  BY <1>6, <1>7, Zenon DEF Alike, InUse
<1>10. EndsOpen(ftable', ff', pipes') /\ InodesHeld(ftable', ff', iref')
  BY <1>0, <1>9, CoreParts, AlikeSame, Zenon
<1>11. FilesExact'
  BY <1>8, <1>10, ExactParts, Zenon
<1>12. Cleared' /\ Releases'
  <2>1. \A g \in FileSlots \ {f} : ftable'[g].ref = 0 => ftable'[g].type = "NONE"
    BY <1>7, CoreParts, Zenon DEF Cleared
  <2>2. Releases'
    BY <1>0, CoreParts, Zenon DEF Releases
  <2> QED
    BY <1>7, <2>1, <2>2 DEF Cleared
<1>13. NoneYet'
  <2>1. life[p] = "runs"
    BY Zenon DEF Ready
  <2> QED
    BY <1>0, <1>5, <2>1, CoreParts, Zenon DEF NoneYet
<1> QED
  BY <1>0, <1>5, <1>7, <1>11, <1>12, <1>13, CoreParts, Zenon DEF FilesCore, FilesTypeOK

\* kfork() counts every descriptor it copies.
LEMMA ForkFilesStep ==
  ASSUME FilesCore, NEW p \in Openers, Ready(p), NEW q \in Openers, ForkFiles(p, q)
  PROVE  FilesCore'
<1> DEFINE N(f) == Cardinality({d \in Fds : ofile[p][d] = f})
<1>0. /\ life[q] = "unused" /\ life' = [life EXCEPT ![q] = "runs"] /\ Puts(ofile, ofile', q, ofile[p])
      /\ ftable' = [f \in FileSlots |-> [ftable[f] EXCEPT !.ref = @ + N(f)]]
      /\ pipes' = pipes /\ iref' = iref /\ closing' = closing /\ ff' = ff
  BY Zenon DEF ForkFiles, Puts
<1>1. FdCopy(ofile, ofile', p, q)
  <2>1. ofile \in Descriptors /\ \A d \in Fds : ofile[q][d] = 0
    BY <1>0, CoreParts, Zenon DEF NoneYet
  <2> QED
    BY <1>0, <2>1, FdShared, Zenon
<1>2. /\ ofile' \in Descriptors
      /\ \A f \in FileSlots : N(f) \in Nat /\ Cardinality(FdSet(ofile', f)) = Cardinality(FdSet(ofile, f)) + N(f)
      /\ \A r \in Openers \ {q} : ofile'[r] = ofile[r]
  BY <1>1, Zenon DEF FdCopy
<1> HIDE DEF N
<1>3. ASSUME NEW f \in FileSlots
      PROVE  /\ ftable'[f] \in FileType /\ ftable'[f].ref = ftable[f].ref + N(f)
             /\ ftable'[f].type = ftable[f].type /\ ftable'[f].obj = ftable[f].obj
             /\ ftable'[f].writable = ftable[f].writable
  <2>1. ftable[f] \in FileType /\ N(f) \in Nat
    BY <1>2, CoreParts, Zenon
  <2>2. ftable'[f] = [ftable[f] EXCEPT !.ref = @ + N(f)]
    BY <1>0, Zenon
  <2> QED
    BY <2>1, <2>2 DEF FileType
<1>4. ftable' \in [FileSlots -> FileType]
  BY <1>0, <1>3, Zenon
<1>5. Counted(ftable', ofile', closing')
  <2> SUFFICES ASSUME NEW f \in FileSlots
      PROVE  ftable'[f].ref = Cardinality(FdSet(ofile', f)) + Cardinality(CloseSet(closing', f))
    BY Zenon DEF Counted
  <2>1. ftable[f].ref = Cardinality(FdSet(ofile, f)) + Cardinality(CloseSet(closing, f))
    BY CoreParts, Zenon DEF Counted
  <2>2. ftable'[f].ref = ftable[f].ref + N(f) /\ N(f) \in Nat
        /\ Cardinality(FdSet(ofile', f)) = Cardinality(FdSet(ofile, f)) + N(f)
    BY <1>2, <1>3, Zenon
  <2>3. CloseSet(closing', f) = CloseSet(closing, f)
    BY <1>0, Zenon
  <2>4. Cardinality(FdSet(ofile, f)) \in Nat /\ Cardinality(CloseSet(closing, f)) \in Nat
    BY CountTypes, Zenon
  <2>5. ftable'[f].ref = Cardinality(FdSet(ofile', f)) + Cardinality(CloseSet(closing, f))
    BY <2>1, <2>2, <2>4
  <2> QED
    BY <2>3, <2>5, Zenon
<1>6. ASSUME NEW f \in FileSlots
      PROVE  ftable'[f].ref > 0 <=> ftable[f].ref > 0
  <2>1. ftable[f].ref = Cardinality(FdSet(ofile, f)) + Cardinality(CloseSet(closing, f))
    BY CoreParts, Zenon DEF Counted
  <2>2. Cardinality(FdSet(ofile, f)) \in Nat /\ Cardinality(CloseSet(closing, f)) \in Nat
    BY CountTypes, Zenon
  <2>3. ftable'[f].ref = ftable[f].ref + N(f) /\ N(f) \in Nat
    BY <1>2, <1>3, Zenon
  <2>4. ASSUME ftable[f].ref = 0
        PROVE  N(f) = 0
    <3>1. Cardinality(FdSet(ofile, f)) = 0
      BY <2>1, <2>2, <2>4
    <3>2. FdSet(ofile, f) = {}
      <4>1. IsFiniteSet(FdSet(ofile, f))
        BY FilesFinite, Zenon
      <4> QED
        BY <3>1, <4>1, FS_EmptySet, Zenon
    <3>3. {d \in Fds : ofile[p][d] = f} = {}
      <4> SUFFICES ASSUME NEW d \in Fds, ofile[p][d] = f
          PROVE  FALSE
        OBVIOUS
      <4>1. <<p, d>> \in FdSet(ofile, f)
        BY Zenon DEF FdSet
      <4> QED
        BY <3>2, <4>1, Zenon
    <3>4. Cardinality({}) = 0
      BY FS_EmptySet, Zenon
    <3> QED
      BY <3>3, <3>4, Zenon DEF N
  <2>5. ftable[f].ref \in Nat
    BY CoreParts, Zenon DEF FileType
  <2> QED
    BY <2>3, <2>4, <2>5
<1>7. Alike(ftable, ftable')
  BY <1>3, <1>6, Zenon DEF Alike, InUse
<1>8. EndsOpen(ftable', ff', pipes') /\ InodesHeld(ftable', ff', iref')
  BY <1>0, <1>7, CoreParts, AlikeSame, Zenon
<1>9. FilesExact'
  BY <1>5, <1>8, ExactParts, Zenon
<1>10. Cleared'
  <2> SUFFICES ASSUME NEW f \in FileSlots, ftable'[f].ref = 0
      PROVE  ftable'[f].type = "NONE"
    BY Zenon DEF Cleared
  <2>1. ftable[f].ref = 0
    <3>1. ftable[f].ref \in Nat
      BY CoreParts, Zenon DEF FileType
    <3> QED
      BY <1>6, <3>1
  <2>2. ftable[f].type = "NONE"
    <3>1. Cleared
      BY CoreParts, Zenon
    <3> QED
      BY <2>1, <3>1, Zenon DEF Cleared
  <2> QED
    BY <1>3, <2>2, Zenon
<1>11. life' \in [Openers -> Lives] /\ life'[q] = "runs" /\ \A r \in Openers \ {q} : life'[r] = life[r]
  BY <1>0, CoreParts, Zenon DEF Lives
<1>12. NoneYet' /\ Releases'
  <2>1. NoneYet /\ Releases
    BY CoreParts, Zenon
  <2>2. NoneYet'
    BY <1>2, <1>11, <2>1 DEF NoneYet
  <2>3. Releases'
    BY <1>0, <2>1, Zenon DEF Releases
  <2> QED
    BY <2>2, <2>3, Zenon
<1> QED
  BY <1>0, <1>2, <1>4, <1>9, <1>10, <1>11, <1>12, CoreParts, Zenon DEF FilesCore, FilesTypeOK

\* Steps that touch neither files nor descriptors.
LEMMA FilesKept ==
  ASSUME FilesCore, UNCHANGED <<ftable, ofile, iref, closing, ff>>,
         life' \in [Openers -> Lives], \A q \in Openers : life'[q] = "unused" => life[q] = "unused",
         pipes' \in [PipePages -> PipeType],
         \A pi \in PipePages : /\ pipes'[pi].readopen = pipes[pi].readopen
                               /\ pipes'[pi].writeopen = pipes[pi].writeopen
  PROVE  FilesCore'
<1>1. EndsOpen(ftable', ff', pipes')
  <2>1. \A pi \in PipePages, w \in BOOLEAN : Open(pipes', pi, w) = Open(pipes, pi, w)
    BY Zenon DEF Open
  <2> QED
    BY <2>1, CoreParts, Zenon DEF EndsOpen
<1>2. Counted(ftable', ofile', closing') /\ InodesHeld(ftable', ff', iref')
  BY CoreParts, Zenon
<1>3. FilesExact'
  BY <1>1, <1>2, ExactParts, Zenon
<1>4. Cleared' /\ NoneYet' /\ Releases'
  BY CoreParts, Zenon DEF Cleared, NoneYet, Releases
<1> QED
  BY <1>3, <1>4, CoreParts, Zenon DEF FilesCore, FilesTypeOK

\* Two files that filealloc() gave and that are closed at once.
LEMMA UnusedClosedTwo ==
  ASSUME FilesCore, NEW p \in Openers, Ready(p), NEW f \in FileSlots, NEW h \in FileSlots, f # h,
         ftable[f].ref = 0, ftable[h].ref = 0,
         ftable' = [[ftable EXCEPT ![f].ref = 1] EXCEPT ![h].ref = 1],
         Puts(closing, closing', p, <<f, h>>),
         ofile' = ofile, iref' = iref, pipes' = pipes, ff' = ff, life' = life
  PROVE  FilesCore'
<1>0. /\ ftable[f].type = "NONE" /\ ftable[f] \in FileType
      /\ ftable[h].type = "NONE" /\ ftable[h] \in FileType /\ ftable \in [FileSlots -> FileType]
  BY CoreParts, Zenon DEF Cleared
<1>1. /\ ftable' \in [FileSlots -> FileType] /\ ftable'[f].ref = 1 /\ ftable'[f].type = "NONE"
      /\ ftable'[h].ref = 1 /\ ftable'[h].type = "NONE"
      /\ \A g \in FileSlots \ {f, h} : ftable'[g] = ftable[g]
  <2>1. PICK a, b : a = [ftable[f] EXCEPT !.ref = 1] /\ b = [ftable[h] EXCEPT !.ref = 1]
    BY Zenon
  <2>2. /\ a \in FileType /\ a.ref = 1 /\ a.type = "NONE"
        /\ b \in FileType /\ b.ref = 1 /\ b.type = "NONE"
    BY <1>0, <2>1, Zenon DEF FileType
  <2>3. PICK T1 : T1 = [ftable EXCEPT ![f] = a]
    BY Zenon
  <2>4. T1 \in [FileSlots -> FileType] /\ T1[h] = ftable[h] /\ T1[f] = a
        /\ \A g \in FileSlots \ {f} : T1[g] = ftable[g]
    BY <1>0, <2>2, <2>3, Zenon
  <2>5. ftable' = [T1 EXCEPT ![h] = b]
    BY <1>0, <2>1, <2>3, <2>4, Zenon
  <2> QED
    BY <2>2, <2>4, <2>5, Zenon
<1>2. CloseTwo(closing, closing', p, f, h)
  <2>1. closing \in [Openers -> Seq(FileSlots)] /\ closing[p] = <<>>
    BY CoreParts, Zenon DEF Ready
  <2> QED
    BY <2>1, ClosePutTwo, Zenon
<1>3. /\ closing' \in [Openers -> Seq(FileSlots)] /\ Len(closing'[p]) = 2
      /\ \A q \in Openers \ {p} : closing'[q] = closing[q]
      /\ Cardinality(CloseSet(closing', f)) = Cardinality(CloseSet(closing, f)) + 1
      /\ Cardinality(CloseSet(closing', h)) = Cardinality(CloseSet(closing, h)) + 1
      /\ \A g \in FileSlots \ {f, h} : CloseSet(closing', g) = CloseSet(closing, g)
  BY <1>2, Zenon DEF CloseTwo
<1>4. Counted(ftable', ofile', closing')
  <2> SUFFICES ASSUME NEW g \in FileSlots
      PROVE  ftable'[g].ref = Cardinality(FdSet(ofile', g)) + Cardinality(CloseSet(closing', g))
    BY Zenon DEF Counted
  <2>0. ftable[g].ref = Cardinality(FdSet(ofile, g)) + Cardinality(CloseSet(closing, g))
    BY CoreParts, Zenon DEF Counted
  <2>n. Cardinality(FdSet(ofile, g)) \in Nat /\ Cardinality(CloseSet(closing, g)) \in Nat
    BY CountTypes, Zenon
  <2>1. CASE g \in {f, h}
    <3>1. /\ ftable[g].ref = 0 /\ ftable'[g].ref = 1 /\ FdSet(ofile', g) = FdSet(ofile, g)
          /\ Cardinality(CloseSet(closing', g)) = Cardinality(CloseSet(closing, g)) + 1
      BY <1>1, <1>3, <2>1, Zenon
    <3> QED
      BY <2>0, <2>n, <3>1
  <2>2. CASE g \notin {f, h}
    BY <1>1, <1>3, <2>0, <2>2
  <2> QED
    BY <2>1, <2>2, Zenon
<1>5. Alike(ftable, ftable')
  BY <1>0, <1>1, Zenon DEF Alike, InUse
<1>6. EndsOpen(ftable', ff', pipes') /\ InodesHeld(ftable', ff', iref')
  BY <1>5, CoreParts, AlikeSame, Zenon
<1>7. Cleared'
  <2>1. \A g \in FileSlots \ {f, h} : ftable'[g].ref = 0 => ftable'[g].type = "NONE"
    BY <1>1, CoreParts, Zenon DEF Cleared
  <2> QED
    BY <1>1, <2>1, Zenon DEF Cleared
<1>8. ofile' \in Descriptors /\ pipes' \in [PipePages -> PipeType] /\ iref' \in Int
  BY CoreParts, Zenon
<1>9. Len(closing'[p]) <= 2
  BY <1>3, Sums, Zenon
<1> QED
  BY <1>1, <1>3, <1>4, <1>6, <1>7, <1>8, <1>9, CallStep, Zenon

PipeEnd(pi, w) == [ref |-> 1, type |-> "PIPE", obj |-> pi, writable |-> w]
BothEnds(T, T2, f, h, pi) == T2 = [T EXCEPT ![f] = PipeEnd(pi, FALSE), ![h] = PipeEnd(pi, TRUE)]
Opened(P, P2, pi) == P2 = [P EXCEPT ![pi] = [readopen |-> TRUE, writeopen |-> TRUE, bytes |-> 0]]

\* pipealloc() opens both ends of a page that nobody uses, and two files stand for them.
LEMMA EndsMade ==
  ASSUME FilesCore, NEW f \in FileSlots, NEW h \in FileSlots, f # h,
         ftable[f].ref = 0, ftable[h].ref = 0, NEW pi \in PipePages,
         ~ pipes[pi].readopen, ~ pipes[pi].writeopen,
         BothEnds(ftable, ftable', f, h, pi), Opened(pipes, pipes', pi), ff' = ff, iref' = iref
  PROVE  /\ ftable' \in [FileSlots -> FileType] /\ pipes' \in [PipePages -> PipeType]
         /\ ftable'[f].ref = 1 /\ ftable'[h].ref = 1
         /\ \A g \in FileSlots \ {f, h} : ftable'[g] = ftable[g]
         /\ Cleared' /\ EndsOpen(ftable', ff', pipes') /\ InodesHeld(ftable', ff', iref')
<1>0. /\ ftable \in [FileSlots -> FileType] /\ pipes \in [PipePages -> PipeType]
      /\ ftable[f].type = "NONE" /\ ftable[h].type = "NONE"
  BY CoreParts, Zenon DEF Cleared
<1>1. PICK a, b : a = PipeEnd(pi, FALSE) /\ b = PipeEnd(pi, TRUE)
  BY Zenon
<1>2. /\ a \in FileType /\ a.ref = 1 /\ a.type = "PIPE" /\ a.obj = pi /\ a.writable = FALSE
      /\ b \in FileType /\ b.ref = 1 /\ b.type = "PIPE" /\ b.obj = pi /\ b.writable = TRUE
  <2>1. pi \in Nat
    BY FilesAssumption, Zenon
  <2> QED
    BY <1>1, <2>1, Zenon DEF PipeEnd, FileType
<1>3. ftable' = [ftable EXCEPT ![f] = a, ![h] = b]
  BY <1>1, Zenon DEF BothEnds
<1>4. /\ ftable' \in [FileSlots -> FileType] /\ ftable'[f] = a /\ ftable'[h] = b
      /\ \A g \in FileSlots \ {f, h} : ftable'[g] = ftable[g]
  BY <1>0, <1>2, <1>3
<1>5. PICK n : n = [readopen |-> TRUE, writeopen |-> TRUE, bytes |-> 0]
  BY Zenon
<1>6. n \in PipeType /\ n.readopen = TRUE /\ n.writeopen = TRUE
  BY <1>5 DEF PipeType
<1>7. pipes' = [pipes EXCEPT ![pi] = n]
  BY <1>5, Zenon DEF Opened
<1>8. pipes' \in [PipePages -> PipeType] /\ pipes'[pi] = n
      /\ \A pj \in PipePages \ {pi} : pipes'[pj] = pipes[pj]
  BY <1>0, <1>6, <1>7, Zenon
<1>9. Cleared'
  <2>1. \A g \in FileSlots \ {f, h} : ftable'[g].ref = 0 => ftable'[g].type = "NONE"
    BY <1>4, CoreParts, Zenon DEF Cleared
  <2> QED
    BY <1>2, <1>4, <2>1 DEF Cleared
<1>10. InodesHeld(ftable', ff', iref')
  <2>0. \A g \in {f, h} : ftable'[g].type # "INODE" /\ ftable[g].type # "INODE"
    BY <1>0, <1>2, <1>4, Zenon
  <2>1. InodeSet(ftable') = InodeSet(ftable)
    BY <1>4, <2>0, Zenon DEF InodeSet
  <2> QED
    BY <2>1, CoreParts, Zenon DEF InodesHeld
<1>11. EndsOpen(ftable', ff', pipes')
  <2> SUFFICES ASSUME NEW pj \in PipePages, NEW w \in BOOLEAN
      PROVE  Cardinality(EndSet(ftable', pj, w)) + Cardinality(LeaveEnd(ff', pj, w))
               = IF Open(pipes', pj, w) THEN 1 ELSE 0
    BY Zenon DEF EndsOpen
  <2>0. /\ Cardinality(EndSet(ftable, pj, w)) + Cardinality(LeaveEnd(ff, pj, w))
             = IF Open(pipes, pj, w) THEN 1 ELSE 0
        /\ LeaveEnd(ff', pj, w) = LeaveEnd(ff, pj, w)
    BY CoreParts, Zenon DEF EndsOpen
  <2>1. CASE pj # pi
    <3>1. EndSet(ftable', pj, w) = EndSet(ftable, pj, w)
      BY <1>0, <1>2, <1>4, <2>1 DEF EndSet
    <3>2. Open(pipes', pj, w) = Open(pipes, pj, w)
      BY <1>8, <2>1, Zenon DEF Open
    <3> QED
      BY <2>0, <3>1, <3>2, Zenon
  <2>2. CASE pj = pi
    <3>1. PICK e \in FileSlots : e = IF w THEN h ELSE f
      OBVIOUS
    <3>2. EndSet(ftable', pi, w) = EndSet(ftable, pi, w) \cup {e} /\ e \notin EndSet(ftable, pi, w)
      <4>1. /\ ftable[e].ref = 0 /\ ftable'[e].ref = 1 /\ ftable'[e].type = "PIPE"
            /\ ftable'[e].obj = pi /\ ftable'[e].writable = w
        <5>1. CASE w = TRUE
          BY <1>2, <1>4, <3>1, <5>1, Zenon
        <5>2. CASE w = FALSE
          BY <1>2, <1>4, <3>1, <5>2, Zenon
        <5> QED
          BY <5>1, <5>2, Zenon
      <4>2. \A g \in FileSlots : g \in {f, h} /\ g # e => ftable[g].ref = 0 /\ ftable'[g].writable # w
        <5>1. CASE w = TRUE
          BY <1>2, <1>4, <3>1, <5>1, Zenon
        <5>2. CASE w = FALSE
          BY <1>2, <1>4, <3>1, <5>2
        <5> QED
          BY <5>1, <5>2, Zenon
      <4>3. e \notin EndSet(ftable, pi, w) /\ e \in EndSet(ftable', pi, w)
        BY <4>1 DEF EndSet
      <4>4. ASSUME NEW g \in FileSlots, g # e
            PROVE  g \in EndSet(ftable', pi, w) <=> g \in EndSet(ftable, pi, w)
        <5>1. CASE g \in {f, h}
          BY <4>2, <4>4, <5>1 DEF EndSet
        <5>2. CASE g \notin {f, h}
          BY <1>4, <5>2, Zenon DEF EndSet
        <5> QED
          BY <5>1, <5>2, Zenon
      <4>5. EndSet(ftable', pi, w) \subseteq FileSlots /\ EndSet(ftable, pi, w) \subseteq FileSlots
        BY Zenon DEF EndSet
      <4> QED
        BY <4>3, <4>4, <4>5
    <3>3. IsFiniteSet(EndSet(ftable, pi, w)) /\ Cardinality(EndSet(ftable, pi, w)) \in Nat
          /\ Cardinality(LeaveEnd(ff, pi, w)) \in Nat
      BY FilesFinite, Zenon
    <3>4. Cardinality(EndSet(ftable, pi, w) \cup {e}) = Cardinality(EndSet(ftable, pi, w)) + 1
      BY <3>2, <3>3, FS_AddElement, Zenon
    <3>5. Cardinality(EndSet(ftable', pi, w)) = Cardinality(EndSet(ftable, pi, w)) + 1
      BY <3>2, <3>4, Zenon
    <3>6. Open(pipes, pi, w) = FALSE /\ Open(pipes', pi, w) = TRUE
      BY <1>0, <1>6, <1>8 DEF Open, PipeType
    <3>7. Cardinality(EndSet(ftable, pi, w)) + Cardinality(LeaveEnd(ff, pi, w)) = 0
      BY <2>0, <2>2, <3>6, Zenon
    <3>8. Cardinality(EndSet(ftable', pi, w)) + Cardinality(LeaveEnd(ff', pi, w)) = 1
      BY <2>0, <2>2, <3>3, <3>5, <3>7, Sums, Zenon
    <3> QED
      BY <2>2, <3>6, <3>8, Zenon
  <2> QED
    BY <2>1, <2>2, Zenon
<1> QED
  BY <1>2, <1>4, <1>8, <1>9, <1>10, <1>11, Zenon

HandsOut(of, of2, p, f, h) ==
  \E m, c, d : /\ c \in Fds /\ d \in Fds /\ of[p][c] = 0 /\ m[p][d] = 0
               /\ Moves(of, m, p, c, f) /\ Moves(m, of2, p, d, h)

\* sys_pipe() that has its files and its page: the descriptors, or the closes, of both.
LEMMA PipeMade ==
  ASSUME FilesCore, NEW p \in Openers, Ready(p), NEW f \in FileSlots, NEW h \in FileSlots, f # h,
         ftable[f].ref = 0, ftable[h].ref = 0, NEW pi \in PipePages,
         ~ pipes[pi].readopen, ~ pipes[pi].writeopen,
         BothEnds(ftable, ftable', f, h, pi), Opened(pipes, pipes', pi),
         ff' = ff, iref' = iref, life' = life,
         \/ closing' = closing /\ HandsOut(ofile, ofile', p, f, h)
         \/ ofile' = ofile /\ Puts(closing, closing', p, <<f, h>>)
  PROVE  FilesCore'
<1>1. /\ ftable' \in [FileSlots -> FileType] /\ pipes' \in [PipePages -> PipeType]
      /\ ftable'[f].ref = 1 /\ ftable'[h].ref = 1
      /\ \A g \in FileSlots \ {f, h} : ftable'[g] = ftable[g]
      /\ Cleared' /\ EndsOpen(ftable', ff', pipes') /\ InodesHeld(ftable', ff', iref')
  BY EndsMade, Zenon
<1>2. /\ closing \in [Openers -> Seq(FileSlots)] /\ closing[p] = <<>> /\ iref' \in Int
      /\ Len(closing[p]) <= 2 /\ ofile \in Descriptors
  BY CoreParts, Zenon DEF Ready
<1>n. \A of, cl, g : Cardinality(FdSet(of, g)) \in Nat /\ Cardinality(CloseSet(cl, g)) \in Nat
  BY CountTypes, Zenon
<1>c. \A g \in FileSlots : ftable[g].ref = Cardinality(FdSet(ofile, g)) + Cardinality(CloseSet(closing, g))
  BY CoreParts, Zenon DEF Counted
<1>o. ftable'[f].ref = ftable[f].ref + 1 /\ ftable'[h].ref = ftable[h].ref + 1
  BY <1>1, Sums, Zenon
<1>3. CASE closing' = closing /\ HandsOut(ofile, ofile', p, f, h)
  <2>1. PICK m, c, d : /\ c \in Fds /\ d \in Fds /\ ofile[p][c] = 0 /\ m[p][d] = 0
                       /\ Moves(ofile, m, p, c, f) /\ Moves(m, ofile', p, d, h)
    BY <1>3, Zenon DEF HandsOut
  <2>2. FdMore(ofile, m, p, c, f)
    BY <1>2, <2>1, FdGiven, Zenon
  <2>3. /\ m \in Descriptors
        /\ Cardinality(FdSet(m, f)) = Cardinality(FdSet(ofile, f)) + 1
        /\ \A g \in FileSlots \ {f} : FdSet(m, g) = FdSet(ofile, g)
        /\ \A q \in Openers, x \in Fds : <<q, x>> # <<p, c>> => m[q][x] = ofile[q][x]
    BY <2>2, Zenon DEF FdMore
  <2>4. FdMore(m, ofile', p, d, h)
    BY <2>1, <2>3, FdGiven, Zenon
  <2>5. /\ ofile' \in Descriptors
        /\ Cardinality(FdSet(ofile', h)) = Cardinality(FdSet(m, h)) + 1
        /\ \A g \in FileSlots \ {h} : FdSet(ofile', g) = FdSet(m, g)
        /\ \A q \in Openers, x \in Fds : <<q, x>> # <<p, d>> => ofile'[q][x] = m[q][x]
    BY <2>4, Zenon DEF FdMore
  <2>6. ASSUME NEW g \in FileSlots
        PROVE  ftable'[g].ref = Cardinality(FdSet(ofile', g)) + Cardinality(CloseSet(closing', g))
    <3>0. CloseSet(closing', g) = CloseSet(closing, g)
      BY <1>3, Zenon
    <3>1. CASE g \in {f, h}
      <4>1. /\ ftable'[g].ref = ftable[g].ref + 1
            /\ Cardinality(FdSet(ofile', g)) = Cardinality(FdSet(ofile, g)) + 1
        <5>1. CASE g = f
          <6>1. FdSet(ofile', f) = FdSet(m, f)
            BY <2>5, Zenon
          <6> QED
            BY <1>o, <2>3, <5>1, <6>1, Zenon
        <5>2. CASE g = h
          <6>1. FdSet(m, h) = FdSet(ofile, h)
            BY <2>3, Zenon
          <6> QED
            BY <1>o, <2>5, <5>2, <6>1, Zenon
        <5> QED
          BY <3>1, <5>1, <5>2, Zenon
      <4>2. /\ ftable[g].ref = Cardinality(FdSet(ofile, g)) + Cardinality(CloseSet(closing, g))
            /\ Cardinality(FdSet(ofile, g)) \in Nat /\ Cardinality(CloseSet(closing, g)) \in Nat
        BY <1>c, <1>n, Zenon
      <4>3. ftable'[g].ref = Cardinality(FdSet(ofile', g)) + Cardinality(CloseSet(closing, g))
        BY <4>1, <4>2, Sums, Zenon
      <4> QED
        BY <3>0, <4>3, Zenon
    <3>2. CASE g \notin {f, h}
      <4>1. FdSet(ofile', g) = FdSet(ofile, g) /\ ftable'[g] = ftable[g]
        BY <1>1, <2>3, <2>5, <3>2, Zenon
      <4> QED
        BY <1>c, <3>0, <4>1, Zenon
    <3> QED
      BY <3>1, <3>2, Zenon
  <2>7. Counted(ftable', ofile', closing')
    BY <2>6, Zenon DEF Counted
  <2>8. \A q \in Openers \ {p} : \A x \in Fds : ofile'[q][x] = ofile[q][x]
    <3> TAKE q \in Openers \ {p}
    <3> TAKE x \in Fds
    <3>1. <<q, x>> # <<p, c>> /\ <<q, x>> # <<p, d>>
      BY Zenon
    <3> QED
      BY <2>3, <2>5, <3>1, Zenon
  <2>9. closing' \in [Openers -> Seq(FileSlots)] /\ Len(closing'[p]) <= 2
        /\ \A q \in Openers \ {p} : closing'[q] = closing[q]
    BY <1>2, <1>3, Zenon
  <2> QED
    BY <1>1, <1>2, <2>5, <2>7, <2>8, <2>9, CallStep, Zenon
<1>4. CASE ofile' = ofile /\ Puts(closing, closing', p, <<f, h>>)
  <2>1. CloseTwo(closing, closing', p, f, h)
    BY <1>2, <1>4, ClosePutTwo, Zenon
  <2>2. /\ closing' \in [Openers -> Seq(FileSlots)] /\ Len(closing'[p]) = 2
        /\ \A q \in Openers \ {p} : closing'[q] = closing[q]
        /\ Cardinality(CloseSet(closing', f)) = Cardinality(CloseSet(closing, f)) + 1
        /\ Cardinality(CloseSet(closing', h)) = Cardinality(CloseSet(closing, h)) + 1
        /\ \A g \in FileSlots \ {f, h} : CloseSet(closing', g) = CloseSet(closing, g)
    BY <2>1, Zenon DEF CloseTwo
  <2>3. ASSUME NEW g \in FileSlots
        PROVE  ftable'[g].ref = Cardinality(FdSet(ofile', g)) + Cardinality(CloseSet(closing', g))
    <3>0. FdSet(ofile', g) = FdSet(ofile, g)
      BY <1>4, Zenon
    <3>1. CASE g \in {f, h}
      <4>1. /\ ftable'[g].ref = ftable[g].ref + 1
            /\ Cardinality(CloseSet(closing', g)) = Cardinality(CloseSet(closing, g)) + 1
        BY <1>o, <2>2, <3>1, Zenon
      <4>2. /\ ftable[g].ref = Cardinality(FdSet(ofile, g)) + Cardinality(CloseSet(closing, g))
            /\ Cardinality(FdSet(ofile, g)) \in Nat /\ Cardinality(CloseSet(closing, g)) \in Nat
        BY <1>c, <1>n, Zenon
      <4>3. ftable'[g].ref = Cardinality(FdSet(ofile, g)) + Cardinality(CloseSet(closing', g))
        BY <4>1, <4>2, Sums, Zenon
      <4> QED
        BY <3>0, <4>3, Zenon
    <3>2. CASE g \notin {f, h}
      <4>1. CloseSet(closing', g) = CloseSet(closing, g) /\ ftable'[g] = ftable[g]
        BY <1>1, <2>2, <3>2, Zenon
      <4> QED
        BY <1>c, <3>0, <4>1, Zenon
    <3> QED
      BY <3>1, <3>2, Zenon
  <2>4. Counted(ftable', ofile', closing')
    BY <2>3, Zenon DEF Counted
  <2>5. Len(closing'[p]) <= 2
    BY <2>2, Sums, Zenon
  <2>6. ofile' \in Descriptors /\ \A q \in Openers \ {p} : \A x \in Fds : ofile'[q][x] = ofile[q][x]
    BY <1>2, <1>4, Zenon
  <2> QED
    BY <1>1, <1>2, <2>2, <2>4, <2>5, <2>6, CallStep, Zenon
<1> QED
  BY <1>3, <1>4, Zenon

\* sys_pipe() with pipealloc(): it fails and closes the files it got, or makes a pipe.
LEMMA SysPipeStep ==
  ASSUME FilesCore, NEW p \in Openers, Ready(p), NEW copied \in BOOLEAN, sys_pipe(p, copied)
  PROVE  FilesCore'
<1> DEFINE f0 == filealloc(ftable)
           T1 == Referenced(ftable, f0)
           f1 == IF f0 = 0 THEN 0 ELSE filealloc(T1)
           T2 == Referenced(T1, f1)
           free == {pi \in PipePages : ~ pipes[pi].readopen /\ ~ pipes[pi].writeopen}
           page == Min(free)
           fd0 == fdalloc(ofile[p])
           of1 == [ofile[p] EXCEPT ![fd0] = f0]
           fd1 == IF fd0 = -1 THEN -1 ELSE fdalloc(of1)
           Fails == /\ f1 = 0 \/ free = {}
                    /\ ftable' = T2
                    /\ closing' = [closing EXCEPT ![p] =
                         IF f0 = 0 THEN <<>> ELSE IF f1 = 0 THEN <<f0>> ELSE <<f0, f1>>]
                    /\ ofile' = ofile /\ pipes' = pipes
           Makes == /\ f1 # 0 /\ free # {}
                    /\ Opened(pipes, pipes', page) /\ BothEnds(ftable, ftable', f0, f1, page)
                    /\ IF fd1 # -1 /\ copied
                       THEN ofile' = [ofile EXCEPT ![p] = [of1 EXCEPT ![fd1] = f1]] /\ closing' = closing
                       ELSE closing' = [closing EXCEPT ![p] = <<f0, f1>>] /\ ofile' = ofile
<1>0. (Fails \/ Makes) /\ iref' = iref /\ ff' = ff /\ life' = life
  BY Zenon DEF sys_pipe, Opened, BothEnds, PipeEnd
<1>1. /\ ftable \in [FileSlots -> FileType] /\ closing \in [Openers -> Seq(FileSlots)]
      /\ closing[p] = <<>> /\ ofile \in Descriptors /\ ofile[p] \in [Fds -> 0 .. NFILE]
  BY CoreParts, Zenon DEF Ready, Descriptors
<1>2. 0 \notin FileSlots /\ 0 \in 0 .. NFILE /\ \A x \in FileSlots : x \in 0 .. NFILE
  BY FilesAssumption DEF FileSlots
<1>3. f0 # 0 => f0 \in FileSlots /\ ftable[f0].ref = 0
  BY <1>1, FileallocIn, Zenon
<1>4. ASSUME f0 # 0
      PROVE  /\ T1 = [ftable EXCEPT ![f0].ref = 1] /\ T1 \in [FileSlots -> FileType]
             /\ T1[f0].ref = 1 /\ \A g \in FileSlots \ {f0} : T1[g] = ftable[g]
  <2>1. T1 = [ftable EXCEPT ![f0].ref = 1]
    BY <1>4, Zenon DEF Referenced
  <2>2. PICK f \in FileSlots : f = f0
    BY <1>3, <1>4, Zenon
  <2> HIDE DEF f0, T1
  <2>3. ftable[f] \in FileType
    BY <1>1, Zenon
  <2> QED
    BY <1>1, <2>1, <2>2, <2>3, Zenon DEF FileType
<1>5. ASSUME f1 # 0
      PROVE  /\ f0 # 0 /\ f0 \in FileSlots /\ f1 \in FileSlots /\ f0 # f1
             /\ ftable[f0].ref = 0 /\ ftable[f1].ref = 0
  <2>1. f0 # 0 /\ f1 = filealloc(T1)
    BY <1>5, Zenon
  <2>2. T1 \in [FileSlots -> FileType]
    BY <1>4, <2>1, Zenon
  <2> HIDE DEF f0, T1, f1
  <2>3. f1 \in FileSlots /\ T1[f1].ref = 0
    BY <1>5, <2>1, <2>2, FileallocIn, Zenon
  <2> QED
    BY <1>3, <1>4, <2>1, <2>3
<1>6. CASE Fails
  <2>1. CASE f0 = 0
    <3>1. f1 = 0 /\ T1 = ftable /\ T2 = ftable
      BY <2>1, Zenon DEF Referenced
    <3>2. ftable' = ftable /\ closing' = [closing EXCEPT ![p] = <<>>] /\ ofile' = ofile /\ pipes' = pipes
      BY <1>6, <2>1, <3>1, Zenon
    <3>3. closing' = closing
      BY <1>1, <3>2, Zenon
    <3>4. life' \in [Openers -> Lives] /\ pipes' \in [PipePages -> PipeType]
      BY <1>0, <3>2, CoreParts, Zenon
    <3> HIDE DEF f0, T1, f1, T2
    <3> QED
      BY <1>0, <3>2, <3>3, <3>4, FilesKept
  <2>2. CASE f0 # 0 /\ f1 = 0
    <3>1. T2 = T1
      BY <2>2, Zenon DEF Referenced
    <3>2. /\ ftable' = [ftable EXCEPT ![f0].ref = 1] /\ Puts(closing, closing', p, <<f0>>)
          /\ ofile' = ofile /\ pipes' = pipes
      BY <1>4, <1>6, <2>2, <3>1 DEF Puts
    <3> HIDE DEF f0, T1, f1, T2
    <3> QED
      BY <1>0, <1>3, <2>2, <3>2, UnusedClosed, Zenon
  <2>3. CASE f1 # 0
    <3>1. T2 = [T1 EXCEPT ![f1].ref = 1] /\ T1 = [ftable EXCEPT ![f0].ref = 1]
      BY <1>4, <1>5, <2>3, Zenon DEF Referenced
    <3>2. /\ ftable' = [[ftable EXCEPT ![f0].ref = 1] EXCEPT ![f1].ref = 1]
          /\ Puts(closing, closing', p, <<f0, f1>>) /\ ofile' = ofile /\ pipes' = pipes
      BY <1>5, <1>6, <2>3, <3>1, Zenon DEF Puts
    <3> HIDE DEF f0, T1, f1, T2
    <3> QED
      BY <1>0, <1>5, <2>3, <3>2, UnusedClosedTwo, Zenon
  <2> QED
    BY <2>1, <2>2, <2>3, Zenon
<1>7. CASE Makes
  <2>1. page \in PipePages /\ ~ pipes[page].readopen /\ ~ pipes[page].writeopen
    <3>1. free \in SUBSET Nat /\ free # {}
      BY <1>7, FilesAssumption, Zenon
    <3>2. page \in free
      BY <3>1, LowestIn, Zenon
    <3> QED
      BY <3>2, Zenon
  <2>2. Opened(pipes, pipes', page) /\ BothEnds(ftable, ftable', f0, f1, page) /\ f1 # 0
    BY <1>7, Zenon
  <2>3. CASE fd1 # -1 /\ copied
    <3>1. fd0 # -1 /\ fd1 = fdalloc(of1) /\ closing' = closing
          /\ ofile' = [ofile EXCEPT ![p] = [of1 EXCEPT ![fd1] = f1]]
      BY <1>7, <2>3, Zenon
    <3>2. fd0 \in Fds /\ ofile[p][fd0] = 0
      BY <1>1, <3>1, FdallocIn, Zenon
    <3>3. PICK m : m = [ofile EXCEPT ![p][fd0] = f0]
      BY Zenon
    <3>4. f0 \in 0 .. NFILE
      BY <1>2, <1>5, <2>2, Zenon
    <3>5. of1 \in [Fds -> 0 .. NFILE]
      <4> HIDE DEF f0, fd0
      <4> QED
        BY <1>1, <3>2, <3>4, Zenon
    <3>6. m[p] = of1
      BY <1>1, <3>3, Zenon DEF Descriptors
    <3> HIDE DEF f0, fd0, of1, f1
    <3>7. fd1 \in Fds /\ of1[fd1] = 0
      <4>1. fdalloc(of1) # -1
        BY <2>3, <3>1, Zenon
      <4> QED
        BY <3>1, <3>5, <4>1, FdallocIn
    <3>8. Moves(ofile, m, p, fd0, f0) /\ Moves(m, ofile', p, fd1, f1)
      <4> HIDE DEF fd1
      <4>1. Moves(ofile, m, p, fd0, f0)
        BY <3>3, Zenon DEF Moves
      <4>2. [m EXCEPT ![p][fd1] = f1] = [m EXCEPT ![p] = [of1 EXCEPT ![fd1] = f1]]
        BY <3>6, Zenon
      <4>3. [m EXCEPT ![p] = [of1 EXCEPT ![fd1] = f1]] = [ofile EXCEPT ![p] = [of1 EXCEPT ![fd1] = f1]]
        BY <3>3, Zenon
      <4> QED
        BY <3>1, <4>1, <4>2, <4>3 DEF Moves
    <3>9. HandsOut(ofile, ofile', p, f0, f1)
      <4>1. m[p][fd1] = 0
        BY <3>6, <3>7, Zenon
      <4> QED
        BY <3>2, <3>7, <3>8, <4>1, Zenon DEF HandsOut
    <3> HIDE DEF fd1, page, free
    <3> QED
      BY <1>0, <1>5, <2>1, <2>2, <3>1, <3>9, PipeMade, Zenon
  <2>4. CASE ~ (fd1 # -1 /\ copied)
    <3>1. ofile' = ofile /\ Puts(closing, closing', p, <<f0, f1>>)
      BY <1>7, <2>4, Zenon DEF Puts
    <3> HIDE DEF f0, f1, page, free
    <3> QED
      BY <1>0, <1>5, <2>1, <2>2, <3>1, PipeMade, Zenon
  <2> QED
    BY <2>3, <2>4, Zenon
<1> QED
  BY <1>0, <1>6, <1>7, Zenon

\* kexit() begins and ends, wait() finds a zombie: only lives change.
LEMMA LivesStep ==
  ASSUME FilesCore, NEW p \in Openers,
         \/ ExitFiles(p) \/ ExitEnd(p) \/ \E q \in Openers : wait(p, q)
  PROVE  FilesCore'
<1>1. UNCHANGED <<ftable, ofile, pipes, iref, closing, ff>>
  BY Zenon DEF ExitFiles, ExitEnd, wait
<1>2. \/ life' = [life EXCEPT ![p] = "exits"] \/ life' = [life EXCEPT ![p] = "zombie"] \/ life' = life
  BY Zenon DEF ExitFiles, ExitEnd, wait
<1>3. life \in [Openers -> Lives] /\ pipes' \in [PipePages -> PipeType]
  BY <1>1, CoreParts, Zenon
<1>4. life' \in [Openers -> Lives] /\ \A q \in Openers : life'[q] = "unused" => life[q] = "unused"
  BY <1>2, <1>3, Zenon DEF Lives
<1> QED
  BY <1>1, <1>3, <1>4, FilesKept

\* Reading and writing a pipe keep its ends.
LEMMA BytesStep ==
  ASSUME FilesCore, NEW p \in Openers, NEW fd \in Fds, ReadByte(p, fd) \/ WriteByte(p, fd)
  PROVE  FilesCore'
<1> DEFINE pg == ftable[ofile[p][fd]].obj
<1>1. UNCHANGED <<ftable, ofile, iref, closing, ff, life>>
  BY Zenon DEF ReadByte, WriteByte
<1>2. \/ pipes' = pipes \/ pipes' = [pipes EXCEPT ![pg].bytes = @ - 1]
      \/ pipes' = [pipes EXCEPT ![pg].bytes = @ + 1]
  BY Zenon DEF ReadByte, WriteByte
<1> HIDE DEF pg
<1>3. pipes \in [PipePages -> PipeType] /\ life' \in [Openers -> Lives]
  BY <1>1, CoreParts, Zenon
<1>4. /\ pipes' \in [PipePages -> PipeType]
      /\ \A pi \in PipePages : /\ pipes'[pi].readopen = pipes[pi].readopen
                               /\ pipes'[pi].writeopen = pipes[pi].writeopen
  <2>1. ASSUME NEW n \in Int, pg \in PipePages, pipes' = [pipes EXCEPT ![pg].bytes = n]
        PROVE  /\ pipes' \in [PipePages -> PipeType]
               /\ \A pi \in PipePages : /\ pipes'[pi].readopen = pipes[pi].readopen
                                        /\ pipes'[pi].writeopen = pipes[pi].writeopen
    <3>1. PICK new : new = [pipes[pg] EXCEPT !.bytes = n]
      BY Zenon
    <3>2. pipes[pg] \in PipeType
      BY <1>3, <2>1, Zenon
    <3>3. new \in PipeType /\ new.readopen = pipes[pg].readopen /\ new.writeopen = pipes[pg].writeopen
      BY <3>1, <3>2, Zenon DEF PipeType
    <3>4. pipes' = [pipes EXCEPT ![pg] = new]
      BY <2>1, <3>1, Zenon
    <3> QED
      BY <1>3, <2>1, <3>3, <3>4, Zenon
  <2>2. CASE pg \in PipePages
    <3>1. pipes[pg].bytes \in Int
      BY <1>3, <2>2, Zenon DEF PipeType
    <3>2. pipes[pg].bytes - 1 \in Int /\ pipes[pg].bytes + 1 \in Int
      BY <3>1
    <3>3. CASE pipes' = pipes
      BY <1>3, <3>3, Zenon
    <3>4. CASE pipes' = [pipes EXCEPT ![pg].bytes = @ - 1]
      <4>1. pipes' = [pipes EXCEPT ![pg].bytes = pipes[pg].bytes - 1]
        BY <3>4, Zenon
      <4> QED
        BY <2>1, <2>2, <3>2, <4>1, Zenon
    <3>5. CASE pipes' = [pipes EXCEPT ![pg].bytes = @ + 1]
      <4>1. pipes' = [pipes EXCEPT ![pg].bytes = pipes[pg].bytes + 1]
        BY <3>5, Zenon
      <4> QED
        BY <2>1, <2>2, <3>2, <4>1, Zenon
    <3> QED
      BY <1>2, <3>3, <3>4, <3>5, Zenon
  <2>3. CASE pg \notin PipePages
    <3>1. pipes' = pipes
      BY <1>2, <1>3, <2>3
    <3> QED
      BY <1>3, <3>1, Zenon
  <2> QED
    BY <2>2, <2>3, Zenon
<1> QED
  BY <1>1, <1>3, <1>4, FilesKept, Zenon

\* A step of a script is a call on descriptors and processes that exist.
LEMMA ScriptCoreStep ==
  ASSUME FilesInv, NEW p \in Openers, ScriptStep(p)
  PROVE  FilesInv'
<1>0. Ready(p) /\ script[p] # <<>> /\ script \in [Openers -> Seq(ScriptCalls)] /\ FilesCore
  BY Zenon DEF FilesInv, ScriptStep, ScriptOK
<1>1. PICK c \in ScriptCalls : c = Head(script[p])
  <2>1. script[p] \in Seq(ScriptCalls)
    BY <1>0, Zenon
  <2> QED
    BY <1>0, <2>1
<1>2. /\ c.op \in {"fork", "wait"} => c.arg \in Openers
      /\ c.op \in {"close", "dup", "read", "write"} => c.arg \in Fds
  BY <1>1, Zenon DEF ScriptCalls
<1>3. \/ c.op = "read" /\ ReadByte(p, c.arg)
      \/ c.op = "pipe" /\ sys_pipe(p, TRUE)
      \/ c.op = "fork" /\ ForkFiles(p, c.arg)
      \/ c.op = "close" /\ sys_close(p, c.arg)
      \/ c.op = "dup" /\ sys_dup(p, c.arg)
      \/ c.op = "write" /\ WriteByte(p, c.arg)
      \/ c.op = "wait" /\ wait(p, c.arg)
  BY <1>1, Zenon DEF ScriptStep
<1>4. FilesCore'
  <2>1. CASE c.op = "read" /\ ReadByte(p, c.arg)
    BY <1>0, <1>2, <2>1, BytesStep, Zenon
  <2>2. CASE c.op = "pipe" /\ sys_pipe(p, TRUE)
    BY <1>0, <2>2, SysPipeStep, Zenon
  <2>3. CASE c.op = "fork" /\ ForkFiles(p, c.arg)
    BY <1>0, <1>2, <2>3, ForkFilesStep, Zenon
  <2>4. CASE c.op = "close" /\ sys_close(p, c.arg)
    BY <1>0, <1>2, <2>4, SysCloseStep, Zenon
  <2>5. CASE c.op = "dup" /\ sys_dup(p, c.arg)
    BY <1>0, <1>2, <2>5, SysDupStep, Zenon
  <2>6. CASE c.op = "write" /\ WriteByte(p, c.arg)
    BY <1>0, <1>2, <2>6, BytesStep, Zenon
  <2>7. CASE c.op = "wait" /\ wait(p, c.arg)
    BY <1>0, <1>2, <2>7, LivesStep, Zenon
  <2> QED
    BY <1>3, <2>1, <2>2, <2>3, <2>4, <2>5, <2>6, <2>7, Zenon
<1>5. ScriptOK'
  <2>1. script' = script \/ script' = [script EXCEPT ![p] = Tail(script[p])]
    BY Zenon DEF ScriptStep, ReadByte
  <2>2. Tail(script[p]) \in Seq(ScriptCalls)
    <3>1. script[p] \in Seq(ScriptCalls)
      BY <1>0, Zenon
    <3> QED
      BY <1>0, <3>1
  <2> QED
    BY <1>0, <2>1, <2>2, Zenon DEF ScriptOK
<1> QED
  BY <1>4, <1>5, Zenon DEF FilesInv

\* Every step keeps the invariant.
LEMMA FilesStep ==
  ASSUME FilesInv, [FilesNext]_fileVars
  PROVE  FilesInv'
<1>0. FilesCore /\ ScriptOK
  BY Zenon DEF FilesInv
<1>1. CASE UNCHANGED fileVars
  <2>1. UNCHANGED <<ftable, ofile, pipes, iref, closing, ff, life, script>>
    BY <1>1, Zenon DEF fileVars
  <2>2. life' \in [Openers -> Lives] /\ pipes' \in [PipePages -> PipeType]
    BY <1>0, <2>1, CoreParts, Zenon
  <2>3. FilesCore'
    BY <1>0, <2>1, <2>2, FilesKept, Zenon
  <2> QED
    BY <1>0, <2>1, <2>3, Zenon DEF FilesInv, ScriptOK
<1>2. ASSUME NEW p \in Openers, AnyCall(p)
      PROVE  FilesInv'
  <2>1. Ready(p) /\ script' = script
    BY <1>2, Zenon DEF AnyCall
  <2>2. \/ sys_open(p)
        \/ \E fd \in Fds : sys_dup(p, fd) \/ sys_close(p, fd)
        \/ \E b \in BOOLEAN : sys_pipe(p, b)
        \/ \E q \in Openers : ForkFiles(p, q)
    BY <1>2, Zenon DEF AnyCall
  <2>3. FilesCore'
    BY <1>0, <2>1, <2>2, SysOpenStep, SysDupStep, SysCloseStep, SysPipeStep, ForkFilesStep
  <2> QED
    BY <1>0, <2>1, <2>3, Zenon DEF FilesInv, ScriptOK
<1>3. ASSUME NEW p \in Openers, ScriptStep(p)
      PROVE  FilesInv'
  BY <1>3, ScriptCoreStep, Zenon
<1>4. ASSUME NEW p \in Openers, script' = script,
             \/ ExitFiles(p) \/ CloseNext(p) \/ FileRelease(p) \/ ExitClose(p) \/ ExitEnd(p)
      PROVE  FilesInv'
  <2>1. FilesCore'
    BY <1>0, <1>4, LivesStep, CloseNextStep, ReleaseStep, ExitCloseStep
  <2> QED
    BY <1>0, <1>4, <2>1, Zenon DEF FilesInv, ScriptOK
<1> QED
  BY <1>1, <1>2, <1>3, <1>4, Zenon DEF FilesNext

\* The shell's console, open twice.
LEMMA FilesStart ==
  ASSUME FilesInit
  PROVE  FilesInv
<1>0. /\ 1 \in FileSlots /\ 0 \notin FileSlots /\ 0 \in 0 .. NFILE /\ 1 \in 0 .. NFILE
      /\ 0 \in Fds /\ 1 \in Fds /\ 2 \in Fds /\ 3 \in Fds /\ First \in Openers
  BY FilesAssumption DEF FileSlots, Fds
<1>1. NoFile \in FileType /\ NoFile.ref = 0 /\ NoFile.type = "NONE"
  BY Zenon DEF NoFile, FileType
<1>2. PICK con : con = [ref |-> 2, type |-> "INODE", obj |-> 1, writable |-> TRUE]
  BY Zenon
<1>3. con \in FileType /\ con.ref = 2 /\ con.type = "INODE"
  BY <1>2, Zenon DEF FileType
<1>4. ftable = [f \in FileSlots |-> IF f = 1 THEN con ELSE NoFile]
  BY <1>2, Zenon DEF FilesInit
<1>5. ftable \in [FileSlots -> FileType] /\ ftable[1] = con /\ \A f \in FileSlots \ {1} : ftable[f] = NoFile
  BY <1>0, <1>1, <1>3, <1>4
<1>6. /\ ofile \in Descriptors
      /\ \A p \in Openers, d \in Fds : ofile[p][d] = IF p = First /\ d \in {0, 1} THEN 1 ELSE 0
  BY <1>0, Zenon DEF FilesInit, Descriptors
<1>7. /\ pipes \in [PipePages -> PipeType]
      /\ \A pi \in PipePages : pipes[pi].readopen = FALSE /\ pipes[pi].writeopen = FALSE
  <2>1. NoPipe \in PipeType /\ NoPipe.readopen = FALSE /\ NoPipe.writeopen = FALSE
    BY DEF NoPipe, PipeType
  <2>2. pipes = [pi \in PipePages |-> NoPipe]
    BY Zenon DEF FilesInit
  <2> QED
    BY <2>1, <2>2, Zenon
<1>8. /\ closing \in [Openers -> Seq(FileSlots)] /\ \A p \in Openers : Len(closing[p]) <= 2
      /\ \A p \in Openers : closing[p] = <<>>
  BY DEF FilesInit
<1>9. ff \in [Openers -> FileType] /\ \A p \in Openers : ff[p] = NoFile
  BY <1>1, Zenon DEF FilesInit
<1>10. life \in [Openers -> Lives] /\ life[First] = "runs" /\ iref = 1
  BY <1>0, Zenon DEF FilesInit, Lives
<1>11. FilesTypeOK
  BY <1>5, <1>6, <1>7, <1>8, <1>9, <1>10 DEF FilesTypeOK
<1>12. Cleared /\ NoneYet /\ Releases
  BY <1>1, <1>3, <1>5, <1>6, <1>9, <1>10 DEF Cleared, NoneYet, Releases
<1>e. Cardinality({}) = 0
  BY FS_EmptySet, Zenon
<1>13. Counted(ftable, ofile, closing)
  <2> SUFFICES ASSUME NEW f \in FileSlots
      PROVE  ftable[f].ref = Cardinality(FdSet(ofile, f)) + Cardinality(CloseSet(closing, f))
    BY Zenon DEF Counted
  <2>0. f # 0
    BY <1>0, Zenon
  <2>1. CloseSet(closing, f) = {}
    <3>1. \A p \in Openers : DOMAIN closing[p] = {}
      BY <1>8
    <3> QED
      BY <3>1, Zenon DEF CloseSet
  <2>2. Cardinality(CloseSet(closing, f)) = 0
    BY <1>e, <2>1, Zenon
  <2>3. CASE f = 1
    <3>1. FdSet(ofile, 1) = {<<First, 0>>, <<First, 1>>}
      <4> SUFFICES ASSUME NEW x \in Openers \X Fds
          PROVE  ofile[x[1]][x[2]] = 1 <=> x \in {<<First, 0>>, <<First, 1>>}
        BY <1>0 DEF FdSet
      <4> PICK q \in Openers, d \in Fds : x = <<q, d>>
        OBVIOUS
      <4>1. ofile[x[1]][x[2]] = 1 <=> q = First /\ d \in {0, 1}
        BY <1>6
      <4> QED
        BY <4>1, Zenon
    <3>2. Cardinality({<<First, 0>>, <<First, 1>>}) = 2
      <4>1. <<First, 0>> # <<First, 1>>
        OBVIOUS
      <4>2. IsFiniteSet({<<First, 0>>}) /\ Cardinality({<<First, 0>>}) = 1
        BY FS_Singleton, Zenon
      <4>3. Cardinality({<<First, 0>>} \cup {<<First, 1>>}) = Cardinality({<<First, 0>>}) + 1
        BY <4>1, <4>2, FS_AddElement, Zenon
      <4>4. {<<First, 0>>} \cup {<<First, 1>>} = {<<First, 0>>, <<First, 1>>}
        OBVIOUS
      <4> QED
        BY <4>2, <4>3, <4>4
    <3> QED
      BY <1>3, <1>5, <2>2, <2>3, <3>1, <3>2
  <2>4. CASE f # 1
    <3>1. FdSet(ofile, f) = {}
      <4> SUFFICES ASSUME NEW x \in Openers \X Fds
          PROVE  ofile[x[1]][x[2]] # f
        BY Zenon DEF FdSet
      <4> PICK q \in Openers, d \in Fds : x = <<q, d>>
        OBVIOUS
      <4> QED
        BY <1>6, <2>0, <2>4
    <3>2. Cardinality(FdSet(ofile, f)) = 0
      BY <1>e, <3>1
    <3> QED
      BY <1>1, <1>5, <2>2, <2>4, <3>2
  <2> QED
    BY <2>3, <2>4, Zenon
<1>14. EndsOpen(ftable, ff, pipes)
  <2> SUFFICES ASSUME NEW pi \in PipePages, NEW w \in BOOLEAN
      PROVE  Cardinality(EndSet(ftable, pi, w)) + Cardinality(LeaveEnd(ff, pi, w))
               = IF Open(pipes, pi, w) THEN 1 ELSE 0
    BY Zenon DEF EndsOpen
  <2>1. EndSet(ftable, pi, w) = {} /\ LeaveEnd(ff, pi, w) = {}
    BY <1>1, <1>3, <1>5, <1>9 DEF EndSet, LeaveEnd
  <2>2. Open(pipes, pi, w) = FALSE
    BY <1>7, Zenon DEF Open
  <2> QED
    BY <1>e, <2>1, <2>2
<1>15. InodesHeld(ftable, ff, iref)
  <2>1. InodeSet(ftable) = {1} /\ LeaveInode(ff) = {}
    BY <1>0, <1>1, <1>3, <1>5, <1>9 DEF InodeSet, LeaveInode
  <2>2. Cardinality({1}) = 1
    BY FS_Singleton, Zenon
  <2> QED
    BY <1>e, <1>10, <2>1, <2>2 DEF InodesHeld
<1>16. FilesExact
  BY <1>13, <1>14, <1>15, ExactParts, Zenon
<1>17. ScriptOK
  <2>1. CASE script = [p \in Openers |-> <<>>]
    BY <2>1 DEF ScriptOK
  <2>2. CASE script = runcmd
    <3>1. Left \in Openers /\ Right \in Openers
      <4>1. PICK a, b \in Openers \ {First} : a # b
        BY FilesAssumption, Zenon
      <4>2. Left \in Openers \ {First}
        BY <4>1, Zenon DEF Left
      <4>3. Right \in Openers \ {First, Left}
        <5>1. \E x : x \in Openers \ {First, Left}
          BY <4>1
        <5> QED
          BY <5>1, Zenon DEF Right
      <4> QED
        BY <4>2, <4>3, Zenon
    <3>2. /\ \A q \in Openers : Call("fork", q) \in ScriptCalls /\ Call("wait", q) \in ScriptCalls
          /\ \A d \in Fds : /\ Call("close", d) \in ScriptCalls /\ Call("dup", d) \in ScriptCalls
                            /\ Call("read", d) \in ScriptCalls /\ Call("write", d) \in ScriptCalls
          /\ Call("pipe", 0) \in ScriptCalls
      BY Zenon DEF Call, ScriptCalls
    <3>3. <<Call("pipe", 0), Call("fork", Left), Call("fork", Right), Call("close", 2),
            Call("close", 3), Call("wait", Left), Call("wait", Right)>> \in Seq(ScriptCalls)
      BY <1>0, <3>1, <3>2
    <3>4. <<Call("close", 1), Call("dup", 3), Call("close", 2), Call("close", 3)>> \in Seq(ScriptCalls)
      BY <1>0, <3>2
    <3>5. [k \in 1 .. PIPEBYTES |-> Call("write", 1)] \in Seq(ScriptCalls)
      BY <1>0, <3>2, FilesAssumption
    <3>6. <<Call("close", 1), Call("dup", 3), Call("close", 2), Call("close", 3)>>
            \o [k \in 1 .. PIPEBYTES |-> Call("write", 1)] \in Seq(ScriptCalls)
      BY <3>4, <3>5
    <3>7. <<Call("close", 0), Call("dup", 2), Call("close", 2), Call("close", 3), Call("read", 0)>>
            \in Seq(ScriptCalls)
      BY <1>0, <3>2
    <3> QED
      BY <2>2, <3>3, <3>6, <3>7, Zenon DEF runcmd, ScriptOK
  <2> QED
    BY <2>1, <2>2, Zenon DEF FilesInit
<1> QED
  BY <1>11, <1>12, <1>16, <1>17, Zenon DEF FilesInv, FilesCore

\* The references of the descriptors, the open ends of the pipes and the references to
\* the inode are exact whatever the processes call, and while fileclose() and kexit()
\* have given up ftable.lock.
THEOREM FilesCorrect == FilesSpec => []FilesExact
<1>1. FilesInit => FilesInv
  BY FilesStart, Zenon
<1>2. FilesInv /\ [FilesNext]_fileVars => FilesInv'
  BY FilesStep, Zenon
<1>3. FilesInv => FilesExact
  BY Zenon DEF FilesInv, FilesCore
<1> QED
  BY <1>1, <1>2, <1>3, PTL DEF FilesSpec
=============================================================================
