-------------------------------- MODULE Heap --------------------------------
(***************************************************************************)
(* The user-level allocator of user/umalloc.c: a circular list of free     *)
(* blocks in address order, searched first fit from where the last search  *)
(* ended.  Addresses and sizes are in headers (the allocator's unit).      *)
(***************************************************************************)
EXTENDS Integers, FiniteSets, FiniteSetsExt

CONSTANTS
  HEAPMAX,   \* sbrk() fails beyond this address
  NALLOC,    \* least number of units morecore() asks for (4096 in the code)
  MAXUNITS   \* largest request, header included

ASSUME HeapAssumption == {HEAPMAX, NALLOC, MAXUNITS} \subseteq Nat \ {0}

Base == 0                \* the address of the header base, below the heap
NULL == -1
Addrs == 0 .. HEAPMAX    \* the heap begins at 1
Header == [size |-> 0, ptr |-> NULL]

VARIABLES
  heap,       \* hdr: the headers at their addresses; freep; brk
  blocks,     \* allocated blocks: the addresses of their headers
  mine        \* units that malloc() got from sbrk()

heapVars == <<heap, blocks, mine>>

\* Where free() puts a block: after the last free block below it, or at the wrap.
RECURSIVE FreePlace(_, _, _)
FreePlace(h, bp, p) ==
  LET next == h.hdr[p].ptr
  IN IF (bp > p /\ bp < next) \/ (p >= next /\ (bp > p \/ bp < next)) THEN p
     ELSE FreePlace(h, bp, next)

\* Variant: a block is not joined with the one before it.
freeUnjoined(h, bp) ==
  LET p == FreePlace(h, bp, h.freep)
      next == h.hdr[p].ptr
      up == bp + h.hdr[bp].size = next
      new == IF up THEN [size |-> h.hdr[bp].size + h.hdr[next].size, ptr |-> h.hdr[next].ptr]
             ELSE [h.hdr[bp] EXCEPT !.ptr = next]
      H == [h.hdr EXCEPT ![bp] = new, ![next] = IF up THEN Header ELSE @]
  IN [h EXCEPT !.freep = p, !.hdr = [H EXCEPT ![p].ptr = bp]]

\* free(): joined with the block above and with the one below where they touch.
free(h, bp) ==
  LET p == FreePlace(h, bp, h.freep)
      next == h.hdr[p].ptr
      up == bp + h.hdr[bp].size = next
      new == IF up THEN [size |-> h.hdr[bp].size + h.hdr[next].size, ptr |-> h.hdr[next].ptr]
             ELSE [h.hdr[bp] EXCEPT !.ptr = next]
      H == [h.hdr EXCEPT ![bp] = new, ![next] = IF up THEN Header ELSE @]
      down == p + H[p].size = bp
  IN [h EXCEPT !.freep = p,
        !.hdr = IF down THEN [H EXCEPT ![p] = [size |-> @.size + new.size, ptr |-> new.ptr], ![bp] = Header]
                ELSE [H EXCEPT ![p].ptr = bp]]

\* morecore(): sbrk(), and the new block is freed into the list.
Asked(nu) == IF nu < NALLOC THEN NALLOC ELSE nu
morecoreFails(h, nu) == h.brk + Asked(nu) > HEAPMAX + 1
morecore(h, nu) ==
  free([h EXCEPT !.hdr[h.brk] = [size |-> Asked(nu), ptr |-> NULL], !.brk = @ + Asked(nu)], h.brk)

\* The loop of malloc(): the heap and the header of the block, or NULL.
RECURSIVE Search(_, _, _, _)
Search(h, prevp, p, nunits) ==
  LET left == h.hdr[p].size - nunits
  IN IF left = 0 THEN
       [bp |-> p, h |-> [h EXCEPT !.freep = prevp, !.hdr[prevp].ptr = h.hdr[p].ptr]]
     ELSE IF left > 0 THEN
       [bp |-> p + left, h |-> [h EXCEPT !.freep = prevp, !.hdr[p].size = left,
                                         !.hdr[p + left] = [size |-> nunits, ptr |-> NULL]]]
     ELSE IF p # h.freep THEN Search(h, p, h.hdr[p].ptr, nunits)
     ELSE IF morecoreFails(h, nunits) THEN [bp |-> NULL, h |-> h]
     ELSE LET m == morecore(h, nunits) IN Search(m, m.freep, m.hdr[m.freep].ptr, nunits)

malloc(nunits) ==
  LET h == IF heap.freep # NULL THEN heap
           ELSE [heap EXCEPT !.hdr[Base].ptr = Base, !.freep = Base]
      r == Search(h, h.freep, h.hdr[h.freep].ptr, nunits)
  IN /\ heap' = IF r.bp = NULL THEN r.h ELSE [r.h EXCEPT !.hdr[r.bp].ptr = NULL]
     /\ blocks' = IF r.bp = NULL THEN blocks ELSE blocks \cup {r.bp}
     /\ mine' = mine \cup (heap.brk .. r.h.brk - 1)

Free(bp) ==
  /\ heap' = free(heap, bp)
  /\ blocks' = blocks \ {bp}
  /\ UNCHANGED mine

\* The program moves the break itself: the heap is not contiguous any more.
UserSbrk ==
  /\ heap.brk <= HEAPMAX
  /\ heap' = [heap EXCEPT !.brk = @ + 1]
  /\ UNCHANGED <<blocks, mine>>

HeapInit ==
  /\ heap = [hdr |-> [a \in Addrs |-> Header], freep |-> NULL, brk |-> 1]
  /\ blocks = {} /\ mine = {}

HeapNext ==
  \/ \E n \in 2 .. MAXUNITS : malloc(n)
  \/ \E bp \in blocks : Free(bp)
  \/ UserSbrk

HeapSpec == HeapInit /\ [][HeapNext]_heapVars

-----------------------------------------------------------------------------
Extent(a) == a .. a + heap.hdr[a].size - 1
FreeList == {a \in Addrs : heap.hdr[a].ptr # NULL}
RECURSIVE Walk(_, _)
Walk(a, seen) == IF a \in seen THEN seen ELSE Walk(heap.hdr[a].ptr, seen \cup {a})

\* The units malloc() got from the system are split without gap or overlap into
\* allocated and free blocks, so that no two callers share memory and none is lost; the
\* list from freep passes every free block, rises but for one place, and no two of its
\* blocks touch.
HeapSound ==
  LET all == blocks \cup (FreeList \ {Base})
  IN /\ UNION {Extent(a) : a \in all} = mine
     /\ MapThenSumSet(LAMBDA a : heap.hdr[a].size, all) = Cardinality(mine)
     /\ \A a, b \in FreeList \ {Base} : a + heap.hdr[a].size # b
     /\ heap.freep # NULL =>
          /\ Walk(heap.freep, {}) = FreeList /\ Base \in FreeList
          /\ Cardinality({a \in FreeList : heap.hdr[a].ptr <= a}) = 1
=============================================================================
