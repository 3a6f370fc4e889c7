------------------------------- MODULE Memory -------------------------------
(***************************************************************************)
(* Physical and virtual memory: the page allocator of kernel/kalloc.c, the *)
(* user page tables of kernel/vm.c, and the calls that make, grow, copy,   *)
(* replace and free an address space: sbrk (eager and lazy), page faults,  *)
(* copies between kernel and user, fork, exec and the freeing of a process.*)
(*                                                                         *)
(* The operators on a memory M and a page table T are the functions of the *)
(* source; each returns the new M and T, and ok: whether it succeeded.     *)
(* The order of the free list is left out (pages are alike, the lowest is  *)
(* taken).  A call is one step: kalloc() is the only place where calls     *)
(* meet, and all they can do to each other there is to take a page.        *)
(* Addresses and sizes are in half pages, PGSIZE is 2.  Content is by page.*)
(***************************************************************************)
EXTENDS Integers, FiniteSets, Sequences, FiniteSetsExt, SequencesExt

CONSTANTS
  Spaces,       \* process slots
  Root,         \* the first process
  PageCounts,   \* the numbers of physical pages to try
  LEVELS,       \* page-table pages below the root on the way to a leaf
  MAXVP,        \* user pages below TRAPFRAME
  SEGSIZE,      \* size of the program that exec() loads: text, and data and bss
  DATASIZE,
  USERSTACK,    \* pages of the user stack
  NARG,         \* arguments of exec()
  MAXMCALLS     \* bound on the number of steps

PGSIZE == 2
WORD == 2^16    \* addresses wrap around, in the code at 2^64
TRAPFRAME == MAXVP * PGSIZE
VPages == 0 .. MAXVP - 1
PGROUNDUP(sz) == ((sz + PGSIZE - 1) \div PGSIZE) * PGSIZE
PagesOf(sz) == PGROUNDUP(sz) \div PGSIZE

ASSUME MemoryAssumption ==
  /\ Root \in Spaces /\ PageCounts \subseteq Nat
  /\ {LEVELS, MAXVP, SEGSIZE, DATASIZE, USERSTACK, NARG, MAXMCALLS} \subseteq Nat
  /\ SEGSIZE > 0 /\ PagesOf(SEGSIZE) + PagesOf(DATASIZE) + 1 + USERSTACK <= MAXVP

VARIABLES
  kmem,     \* free pages, content of the pages, and whether a page was freed twice
            \* or freewalk() met a leaf
  space,    \* of each process: its page table, its trapframe page and its size
  amem,     \* what each process should find at its pages (a ghost variable)
  mcalls

memVars == <<kmem, space, amem, mcalls>>

\* A page table: the root, the page-table pages for user memory and for the trampoline
\* and the trapframe at the top, and the leaves.
Unmapped == [pa |-> 0, w |-> FALSE, u |-> FALSE]
NoTable == [root |-> 0, low |-> {}, top |-> {}, map |-> [v \in VPages |-> Unmapped], tf |-> FALSE]
NoSpace == [pt |-> NoTable, trapframe |-> 0, sz |-> 0]
Alive(p) == space[p].trapframe # 0

-----------------------------------------------------------------------------
(* kalloc.c *)

kalloc(M) == IF M.free = {} THEN 0 ELSE Min(M.free)
Taken(M, pg) == [M EXCEPT !.free = @ \ {pg}, !.content[pg] = "junk"]
kfree(M, pg) ==
  [M EXCEPT !.free = @ \cup {pg}, !.content[pg] = "junk", !.panic = @ \/ pg \in M.free]
kfreeAll(M, pages) == FoldSet(LAMBDA pg, N : kfree(N, pg), M, pages)

-----------------------------------------------------------------------------
(* vm.c *)

Result(M, T, ok) == [m |-> M, t |-> T, ok |-> ok]

\* walk() with alloc = 1 takes the missing page-table pages one by one; those it got
\* stay in the table when it runs out.
walk(M, T, region) ==
  LET lack == LEVELS - Cardinality(T[region])
      got  == IF lack <= Cardinality(M.free) THEN lack ELSE Cardinality(M.free)
      new  == {pg \in M.free : Cardinality({x \in M.free : x < pg}) < got}
  IN Result([M EXCEPT !.free = @ \ new], [T EXCEPT ![region] = @ \cup new], got = lack)

Mapped(r, v, pte) == IF r.ok THEN [r EXCEPT !.t.map[v] = pte] ELSE r
mappages(M, T, v, pa, w) == Mapped(walk(M, T, "low"), v, [pa |-> pa, w |-> w, u |-> TRUE])

\* walkaddr(): the physical page of a user page, or 0.
walkaddr(T, v) == IF v \in VPages /\ T.map[v].u THEN T.map[v].pa ELSE 0
ismapped(T, v) == T.map[v].pa # 0

\* uvmunmap() with do_free of the pages vs.
uvmunmap(M, T, vs) ==
  Result(kfreeAll(M, {T.map[v].pa : v \in vs} \ {0}),
         [T EXCEPT !.map = [v \in VPages |-> IF v \in vs THEN Unmapped ELSE @[v]]], TRUE)

\* Variant: the new size is not rounded up, and the page it ends in goes.
uvmdeallocRoundsDown(M, T, oldsz, newsz) ==
  IF newsz >= oldsz THEN Result(M, T, TRUE)
  ELSE uvmunmap(M, T, {v \in VPages : v >= newsz \div PGSIZE /\ v < PagesOf(oldsz)})

uvmdealloc(M, T, oldsz, newsz) ==
  IF newsz >= oldsz THEN Result(M, T, TRUE)
  ELSE uvmunmap(M, T, {v \in VPages : v >= PagesOf(newsz) /\ v < PagesOf(oldsz)})

\* One page for uvmalloc() and vmfault(): zeroed and mapped, or given back.
OrFreed(r, pg) == IF r.ok THEN r ELSE Result(kfree(r.m, pg), r.t, FALSE)
NewPage(M, T, v, w) ==
  LET pg == kalloc(M)
  IN IF pg = 0 THEN Result(M, T, FALSE)
     ELSE OrFreed(mappages([Taken(M, pg) EXCEPT !.content[pg] = "zero"], T, v, pg, w), pg)

\* uvmalloc(): ok, or the table as before but for page-table pages.
OrUnmapped(r, vs) == IF r.ok THEN r ELSE [uvmunmap(r.m, r.t, vs) EXCEPT !.ok = FALSE]
uvmalloc(M, T, oldsz, newsz, w) ==
  LET step(r, v) == IF r.ok THEN NewPage(r.m, r.t, v, w) ELSE r
      new == [k \in 1 .. PagesOf(newsz) - PagesOf(oldsz) |-> PagesOf(oldsz) + k - 1]
  IN IF newsz < oldsz THEN Result(M, T, TRUE)
     ELSE OrUnmapped(FoldLeft(step, Result(M, T, TRUE), new), {v \in VPages : v >= PagesOf(oldsz)})

\* uvmfree() and freewalk(), which panics if a leaf is left.
uvmfree(M, T, sz) ==
  LET r == uvmunmap(M, T, {v \in VPages : v < PagesOf(sz)})
      leaf == \E v \in VPages : ismapped(r.t, v)
      N == kfreeAll(r.m, {T.root} \cup T.low \cup T.top)
  IN [N EXCEPT !.panic = @ \/ leaf]

\* proc_pagetable(): the trampoline and the trapframe share their page-table pages, so
\* that only the first of the two mappings can fail.
WithTrapframe(r) ==
  IF r.ok THEN [r EXCEPT !.t.tf = TRUE] ELSE Result(uvmfree(r.m, r.t, 0), NoTable, FALSE)
proc_pagetable(M) ==
  IF M.free = {} THEN Result(M, NoTable, FALSE)
  ELSE WithTrapframe(walk(Taken(M, kalloc(M)), [NoTable EXCEPT !.root = kalloc(M)], "top"))

\* The page v of a new table gets the content and the mode of a page of an old one.
Copied(r, v, content, user) ==
  IF r.ok THEN [r EXCEPT !.m.content[r.t.map[v].pa] = content, !.t.map[v].u = user] ELSE r
CopyPages(M, old, new, sz) ==
  LET copy(r, v) ==
        IF ~ r.ok \/ ~ ismapped(old, v) THEN r
        ELSE Copied(NewPage(r.m, r.t, v, old.map[v].w), v, r.m.content[old.map[v].pa], old.map[v].u)
  IN FoldLeft(copy, Result(M, new, TRUE), [k \in 1 .. PagesOf(sz) |-> k - 1])

\* Variant: a failure leaves the pages copied so far.
uvmcopyKeeps(M, old, new, sz) == CopyPages(M, old, new, sz)

uvmcopy(M, old, new, sz) == OrUnmapped(CopyPages(M, old, new, sz), VPages)

\* vmfault() of the running process: ok if a page was mapped.
vmfault(M, S, v) ==
  IF v * PGSIZE >= S.sz \/ ismapped(S.pt, v) THEN Result(M, S.pt, FALSE)
  ELSE NewPage(M, S.pt, v, TRUE)

\* The page under a user address for copyin() and copyout().
Faulted(M, S, v) ==
  IF walkaddr(S.pt, v) # 0 THEN Result(M, S.pt, TRUE) ELSE vmfault(M, S, v)

\* copyout() into one page.
Stored(r, v, val) ==
  IF r.ok /\ r.t.map[v].w THEN [r EXCEPT !.m.content[r.t.map[v].pa] = val] ELSE [r EXCEPT !.ok = FALSE]
copyout(M, S, v, val) == Stored(Faulted(M, S, v), v, val)

-----------------------------------------------------------------------------
(* The calls. *)

Counted == mcalls < MAXMCALLS /\ mcalls' = mcalls + 1
Zeros(n) == [v \in 0 .. n - 1 |-> "zero"]

\* A process stores to or loads from a page, with r the outcome.
Access(p, r, written) ==
  /\ Counted /\ Alive(p)
  /\ kmem' = r.m
  /\ space' = [space EXCEPT ![p].pt = r.t]
  /\ amem' = IF r.ok THEN [amem EXCEPT ![p] = written @@ @] ELSE amem

\* A store of the program, and usertrap() on a page fault; a fault that cannot be served
\* kills the process, which then exits.
UserStore(p, v) ==
  \E r \in {IF walkaddr(space[p].pt, v) # 0 THEN Result(kmem, space[p].pt, TRUE)
            ELSE vmfault(kmem, space[p], v)} :
    \E s \in {Stored(r, v, "data")} : Access(p, s, v :> "data")

\* A system call that writes user memory, through copyout() ...
KernelStore(p, v) == \E r \in {copyout(kmem, space[p], v, "data")} : Access(p, r, v :> "data")

\* ... and one that reads it, through copyin(); a load of the program does the same.
KernelLoad(p, v) == \E r \in {Faulted(kmem, space[p], v)} : Access(p, r, <<>>)

\* The content after the size has changed: new pages are zero, pages that go are lost.
Resized(a, sz) == [v \in 0 .. PagesOf(sz) - 1 |-> IF v \in DOMAIN a THEN a[v] ELSE "zero"]

\* growproc(): the memory and the address space after it; when it fails, the size is
\* as before.
Sized(S, r, sz) == [m |-> r.m, s |-> [S EXCEPT !.pt = r.t, !.sz = IF r.ok THEN sz ELSE @]]
growproc(M, S, n) ==
  CASE n > 0 /\ S.sz + n <= TRAPFRAME -> Sized(S, uvmalloc(M, S.pt, S.sz, S.sz + n, TRUE), S.sz + n)
    [] n < 0 -> \* below 0, the sum wraps around and the size stays
         LET sz == (S.sz + n) % WORD
         IN Sized(S, uvmdealloc(M, S.pt, S.sz, sz), IF sz < S.sz THEN sz ELSE S.sz)
    [] OTHER -> [m |-> M, s |-> S]

\* sys_sbrk(): lazily, only the size changes.
sys_sbrk(p, n, lazy) ==
  LET S == space[p]
      fits == S.sz + n <= TRAPFRAME
  IN \E g \in {IF n < 0 \/ ~ lazy THEN growproc(kmem, S, n)
               ELSE [m |-> kmem, s |-> IF fits THEN [S EXCEPT !.sz = @ + n] ELSE S]} :
       /\ Counted /\ Alive(p)
       /\ kmem' = g.m
       /\ space' = [space EXCEPT ![p] = g.s]
       /\ amem' = [amem EXCEPT ![p] = Resized(@, g.s.sz)]

\* freeproc()
Freeproc(M, S) == uvmfree(kfree(M, S.trapframe), S.pt, S.sz)

\* allocproc() and uvmcopy() of kfork().
ForkMemory(p, q) ==
  /\ Counted /\ Alive(p) /\ ~ Alive(q)
  /\ \E tf \in {kalloc(kmem)} :
       \/ tf = 0 /\ UNCHANGED <<kmem, space, amem>>
       \/ /\ tf # 0
          /\ \E t \in {proc_pagetable(Taken(kmem, tf))} :
               \/ /\ ~ t.ok
                  /\ kmem' = kfree(t.m, tf)
                  /\ UNCHANGED <<space, amem>>
               \/ /\ t.ok
                  /\ \E c \in {uvmcopy(t.m, space[p].pt, t.t, space[p].sz)} :
                       LET new == [pt |-> c.t, trapframe |-> tf, sz |-> space[p].sz]
                       IN IF c.ok THEN /\ kmem' = c.m
                                       /\ space' = [space EXCEPT ![q] = new]
                                       /\ amem' = [amem EXCEPT ![q] = amem[p]]
                          ELSE /\ kmem' = Freeproc(c.m, [new EXCEPT !.sz = 0])
                               /\ UNCHANGED <<space, amem>>

\* exit() and the freeproc() of the parent's wait().
FreeSpace(p) ==
  /\ Counted /\ Alive(p) /\ p # Root
  /\ kmem' = Freeproc(kmem, space[p])
  /\ space' = [space EXCEPT ![p] = NoSpace]
  /\ amem' = [amem EXCEPT ![p] = <<>>]

\* loadseg(): the file's content goes to the segment's pages.
loadseg(M, T, vs) ==
  [M EXCEPT !.content = [pg \in DOMAIN M.content |->
     IF \E v \in vs : T.map[v].pa = pg THEN "text" ELSE M.content[pg]]]

\* kexec() builds a new address space e with a read-only segment, a writable one that is
\* zero, a guard page and a stack that holds the arguments; e.sz is its local sz.
Grown(e, r, sz) == [m |-> r.m, t |-> r.t, sz |-> IF r.ok THEN sz ELSE e.sz, ok |-> r.ok]
GrowTo(e, sz, w) == IF e.ok THEN Grown(e, uvmalloc(e.m, e.t, e.sz, sz, w), sz) ELSE e
Loaded(e) == IF e.ok THEN [e EXCEPT !.m = loadseg(@, e.t, {v \in VPages : v < PagesOf(e.sz)})] ELSE e
Rounded(e) == IF e.ok THEN [e EXCEPT !.sz = PGROUNDUP(@)] ELSE e
WithArgs(e) ==
  LET guard == PagesOf(e.sz) - USERSTACK - 1
  IN IF ~ e.ok THEN e
     ELSE [e EXCEPT !.t.map[guard].u = FALSE, !.m.content[e.t.map[guard + USERSTACK].pa] = "args"]
FailIf(e, b) == [e EXCEPT !.ok = @ /\ ~ b]

\* Its end: the old address space goes, or after a failure ("bad:") the new one.
Committed(e, S) ==
  CASE e.ok -> [m |-> uvmfree(e.m, S.pt, S.sz), s |-> [S EXCEPT !.pt = e.t, !.sz = e.sz], ok |-> TRUE]
    [] ~ e.ok /\ e.t.root = 0 -> [m |-> e.m, s |-> S, ok |-> FALSE]
    [] ~ e.ok /\ e.t.root # 0 -> [m |-> uvmfree(e.m, e.t, e.sz), s |-> S, ok |-> FALSE]

\* fault is the step that fails for a reason other than memory: "file" (no such file, or
\* no program), "load" (a short read), "args" (the arguments do not fit) or "none".
kexec(M, S, fault) ==
  LET start == Grown([sz |-> 0], proc_pagetable(M), 0)
      text  == FailIf(Loaded(GrowTo(start, SEGSIZE, FALSE)), fault = "load")
      data  == Rounded(GrowTo(text, PGROUNDUP(SEGSIZE) + DATASIZE, TRUE))
      stack == GrowTo(data, PGROUNDUP(SEGSIZE) + PGROUNDUP(DATASIZE) + (USERSTACK + 1) * PGSIZE, TRUE)
  IN IF fault = "file" THEN [m |-> M, s |-> S, ok |-> FALSE]
     ELSE Committed(FailIf(WithArgs(stack), fault = "args"), S)

\* What a program finds when it starts.
NewImage ==
  LET guard == PagesOf(SEGSIZE) + PagesOf(DATASIZE)
  IN [v \in 0 .. guard + USERSTACK |->
        CASE v < PagesOf(SEGSIZE) -> "text" [] v = guard + USERSTACK -> "args" [] OTHER -> "zero"]

\* sys_exec() copies the arguments to pages of their own and frees them at the end.
sys_exec(p, fault) ==
  LET argv == {pg \in kmem.free : Cardinality({x \in kmem.free : x < pg}) < NARG}
      M    == [kmem EXCEPT !.free = @ \ argv]
  IN /\ Counted /\ Alive(p)
     /\ IF Cardinality(argv) < NARG THEN UNCHANGED <<kmem, space, amem>>
        ELSE \E e \in {kexec(M, space[p], fault)} :
               /\ kmem' = kfreeAll(e.m, argv)
               /\ space' = [space EXCEPT ![p] = e.s]
               /\ amem' = IF e.ok THEN [amem EXCEPT ![p] = NewImage] ELSE amem

-----------------------------------------------------------------------------
\* kinit() and userinit(): one process, with a trapframe and an empty page table.
MemoryInit ==
  \E n \in PageCounts :
    LET M == [free |-> 1 .. n, content |-> [pg \in 1 .. n |-> "junk"], panic |-> FALSE]
        t == proc_pagetable(Taken(M, 1))
    IN /\ t.ok
       /\ kmem = t.m
       /\ space = [p \in Spaces |-> IF p = Root THEN [pt |-> t.t, trapframe |-> 1, sz |-> 0]
                                                ELSE NoSpace]
       /\ amem = [p \in Spaces |-> <<>>]
       /\ mcalls = 0

MemoryNext ==
  \E p \in Spaces :
    \/ \E v \in VPages : UserStore(p, v) \/ KernelStore(p, v) \/ KernelLoad(p, v)
    \/ \E n \in {-3, -2, -1, 1, 2, 3} : \E lazy \in BOOLEAN : sys_sbrk(p, n, lazy)
    \/ \E q \in Spaces : ForkMemory(p, q)
    \/ FreeSpace(p)
    \/ \E fault \in {"file", "load", "args", "none"} : sys_exec(p, fault)

MemorySpec == MemoryInit /\ [][MemoryNext]_memVars

-----------------------------------------------------------------------------
(* Properties. *)

OwnedBy(S) ==
  ({S.trapframe, S.pt.root} \cup S.pt.low \cup S.pt.top \cup {S.pt.map[v].pa : v \in VPages}) \ {0}
PageCount(S) ==
  Cardinality({x \in {S.trapframe, S.pt.root} : x # 0}) + Cardinality(S.pt.low)
    + Cardinality(S.pt.top) + Cardinality({v \in VPages : S.pt.map[v].pa # 0})

\* Every page is on the free list or has exactly one use in one process: whatever fails
\* half way in fork(), exec(), sbrk() or a page fault, nothing leaks, nothing is freed
\* twice, and freewalk() finds no leaf.
PagesExact ==
  /\ ~ kmem.panic
  /\ kmem.free \cup UNION {OwnedBy(space[p]) : p \in Spaces} = DOMAIN kmem.content
  /\ Cardinality(kmem.free) + MapThenSumSet(LAMBDA p : PageCount(space[p]), Spaces)
       = Cardinality(DOMAIN kmem.content)

\* A process finds in its memory what it or the kernel on its behalf put there, zero in
\* new memory, a copy after fork() and the program after exec(), and nothing mapped
\* beyond its size; memory given lazily reads as zero when it comes.
MemoryAgrees ==
  \A p \in Spaces :
    /\ DOMAIN amem[p] = 0 .. PagesOf(space[p].sz) - 1
    /\ \A v \in VPages :
         LET pa == space[p].pt.map[v].pa
         IN IF v \in DOMAIN amem[p] THEN amem[p][v] = IF pa = 0 THEN "zero" ELSE kmem.content[pa]
            ELSE pa = 0
=============================================================================
