-------------------------- MODULE GlobalAllocator --------------------------
(***************************************************************************)
(* The single-threaded allocator behind ba_alloc and ba_free (struct       *)
(* block_allocator), with a client that frees only blocks it owns.         *)
(*                                                                         *)
(* Two working headers are cached outside their page: a->h for the page    *)
(* blocks are allocated from (a->alloc), a->hf for the page a block was    *)
(* last freed into (a->last_free).  Their pages' own headers are stale     *)
(* until they are written back, and the lists the pages are on follow the  *)
(* pages' own headers: most of what can go wrong here is about that.       *)
(***************************************************************************)
EXTENDS PageSlots

VARIABLES s,         \* the allocator
          live,      \* <<page, block>> the client owns
          collided,  \* history: see Collides
          spoiled    \* history: see MaySpoil

vars == <<s, live, collided, spoiled>>

TypeOK == /\ s \in Allocator
          /\ live \subseteq Pages \X Blocks
          /\ collided \in BOOLEAN
          /\ spoiled \in BOOLEAN

Init == /\ s = EmptyAllocator
        /\ live = {}
        /\ collided = FALSE
        /\ spoiled = FALSE

LiveIn(p) == {b \in Blocks : <<p, b>> \in live}

----------------------------------------------------------------------------
(* Allocation *)

\* The page taken to allocate from is the one blocks were last freed into, and
\* those frees call for another list than the one it was just taken off.
Collides(new) ==
    LET p == TakenPage(s, new)
    IN  /\ p = s.last_free
        /\ ba_get_slot(s.header[p]) # ba_get_slot(s.hf)

\* Mutant of ba_global_get_page: the page taken is not stored in a->alloc.
GetPageForgetsAlloc(new) ==
    LET got == ba_get_page(s, s.alloc, new)
    IN  IF got.failed THEN got
        ELSE [got EXCEPT !.h = got.header[TakenPage(s, new)]]

ba_global_get_page(new) ==
    LET p     == TakenPage(s, new)
        got   == [ba_get_page(s, s.alloc, new) EXCEPT !.alloc = p]
        ready == IF p = got.last_free THEN FlushLastFree(got) ELSE got
    IN  IF got.failed THEN got
        ELSE IF ready.failed \/ p \notin ready.table THEN Fail(ready)
        ELSE [ready EXCEPT !.h = ready.header[p]]

\* The block is the first one of a->h: any of the free ones at this level.  In a
\* spoiled list h.first may also lie behind the page once the last block is taken,
\* not be NULL: ba_shift writes to the block it points to, which is not the page's.
Shift(a) ==
    \/ /\ a.failed \/ a.h = {} \/ spoiled
       /\ s' = Fail(a)
       /\ UNCHANGED live
    \/ /\ ~a.failed
       /\ \E b \in a.h :
            /\ s' = [a EXCEPT !.h = @ \ {b}]
            /\ live' = live \cup {<<a.alloc, b>>}

ba_alloc_fast ==
    /\ ~s.failed
    /\ s.h # {}
    /\ Shift(s)
    /\ UNCHANGED <<collided, spoiled>>

\* malloc never fails (ba_xalloc ends the process if it does), but the model's
\* addresses may be used up; it is called only if every list is empty.
MallocResults == IF NeedsMalloc(s) THEN Pages \ s.table ELSE {NULL}

ba_alloc_slow ==
    /\ ~s.failed
    /\ s.h = {}
    /\ \E new \in MallocResults :
            /\ Shift(ba_global_get_page(new))
            /\ collided' = (collided \/ Collides(new))
    /\ UNCHANGED spoiled

----------------------------------------------------------------------------
(* Release *)

\* The page a block is freed into becomes last_free, after the one that was.
ba_get_free_page(p) ==
    LET filed == FlushLastFree(s)
    IN  IF filed.failed \/ p \notin filed.table THEN Fail(filed)
        ELSE [filed EXCEPT !.last_free = p, !.hf = filed.header[p]]

Unshift(p, b) ==
    IF p = s.alloc THEN [s EXCEPT !.h = @ \cup {b}]
    ELSE IF p = s.last_free THEN [s EXCEPT !.hf = @ \cup {b}]
    ELSE LET found == ba_get_free_page(p)
         IN  IF found.failed THEN found
             ELSE [found EXCEPT !.hf = @ \cup {b}]

ba_free ==
    /\ ~s.failed
    /\ \E p \in Pages, b \in Blocks :
            /\ <<p, b>> \in live
            /\ s' = Unshift(p, b)
            /\ live' = live \ {<<p, b>>}
    /\ UNCHANGED <<collided, spoiled>>

----------------------------------------------------------------------------
(* Whole-allocator operations *)

\* Mutant of WriteBack: a->h is not stored in a->alloc.
WriteBackOfLastFreeOnly(a) == FlushLastFree(a)

\* Both cached headers are written back before the pages are visited.
WriteBack(a) ==
    FlushLastFree(IF a.alloc = NULL THEN a
                  ELSE [a EXCEPT !.header[a.alloc] = a.h])

\* What ba_count returns.
Counted(a) ==
    Cardinality({x \in Pages \X Blocks :
                    x[1] \in a.table /\ x[2] \notin a.header[x[1]]})

\* The blocks ba_walk shows to its callback.
Walked(a) ==
    {x \in Pages \X Blocks :
        /\ x[1] \in a.table
        /\ Used(a.header[x[1]]) # 0
        /\ x[2] \notin a.header[x[1]]}

\* The headers are written back and the pages of the hash table visited.
VisitPages ==
    /\ ~s.failed
    /\ s' = IF s.alloc # NULL /\ s.alloc \notin s.table THEN Fail(s)
            ELSE WriteBack(s)
    /\ UNCHANGED <<live, collided>>

ba_count == VisitPages /\ UNCHANGED spoiled

\* Sorting a list may leave BA_ONE in the last block of the page, and a walk its
\* callback stops leaves a->h somewhere inside a list that was sorted.  From then
\* on that header no longer stands for the free blocks of its page: module FreeList
\* has the words, and when this happens.  It takes a page with both free and used
\* blocks; which blocks those are, and whether the list was sorted, is left open.
MaySpoil(a) == \E p \in a.table : a.header[p] \notin {{}, Blocks}

\* Otherwise sorting the lists does not change which blocks are free, and the
\* a->h = a->alloc->h at the end gives back the header written before.
ba_walk ==
    /\ VisitPages
    /\ \/ UNCHANGED spoiled
       \/ MaySpoil(s') /\ spoiled' = TRUE

ShrinkPages ==
    /\ ~s.failed
    /\ s' = ba_shrink(s)
    /\ UNCHANGED <<live, collided, spoiled>>

\* ba_free_all and ba_destroy, which differ in the hash table's memory only.
\* Every block the client held is gone with its page.
ba_free_all ==
    /\ ~s.failed
    /\ s' = EmptyAllocator
    /\ live' = {}
    /\ collided' = FALSE
    /\ spoiled' = FALSE

Next == \/ ba_alloc_fast
        \/ ba_alloc_slow
        \/ ba_free
        \/ ba_count
        \/ ba_walk
        \/ ShrinkPages
        \/ ba_free_all

Spec == Init /\ [][Next]_vars

----------------------------------------------------------------------------
(* Properties.  Those about the page lists and the client's blocks say what *)
(* holds until ba_alloc takes the page that last_free still points to, or a *)
(* list is spoiled; the properties at the end say what the program's own    *)
(* checks and tests expect of every run, and fail in the first of the two   *)
(* cases.                                                                   *)

Intact == ~collided /\ ~spoiled

\* No block the client owns is free in the header that will be used to hand it
\* out, nor is its page released: ba_alloc never returns a block twice.
OwnedBlocksAreSafe ==
    Intact /\ ~s.failed =>
        /\ \A x \in live : x[1] \in s.table
        /\ s.h \cap LiveIn(s.alloc) = {}
        /\ s.hf \cap LiveIn(s.last_free) = {}
        /\ \A p \in s.table \ {s.alloc} : s.header[p] \cap LiveIn(p) = {}

\* The pages of list i are the pages other than alloc whose own header calls
\* for it, linked both ways.
ListIsExact(i) ==
    /\ ListPages(s, i) = {p \in s.table \ {s.alloc} :
                            ba_get_slot(s.header[p]) = i}
    /\ \A p \in ListPages(s, i) :
            /\ s.prev[p] = NULL <=> s.pages[i] = p
            /\ s.next[p] # NULL => s.prev[s.next[p]] = p
            /\ s.prev[p] # NULL => s.next[s.prev[p]] = p

\* Each of the three lists is exact although the headers the lists follow are
\* stale for two pages: no page with a free block is lost to ba_get_page.
ListsAreExact == Intact => \A i \in Slots : ListIsExact(i)

\* empty_pages and num_pages agree with the empty list and the hash table, and
\* the empty pages kept stay below max_empty_pages.
PagesAreCounted ==
    Intact => /\ s.empty_pages = Cardinality(ListPages(s, EMPTY))
              /\ s.empty_pages < MaxEmpty
              /\ s.num_pages = Cardinality(s.table)

\* The process never reads freed memory, writes behind a page, dereferences NULL,
\* loops for ever or meets an unknown pointer unless such a page was taken, or a
\* list was left unfit for allocation, before.
FailsOnlyAfterFault == s.failed => collided \/ spoiled

\* A walk or a count started in any state misses no block the client owns.
WalkMissesNoBlock ==
    Intact => /\ live \subseteq Walked(WriteBack(s))
              /\ Counted(WriteBack(s)) >= Cardinality(live)

\* ba_alloc's assertion (gjalloc.h:537-540, "a->first has no first block!"):
\* when ba_global_get_page returns, a->h.first is a block.
AllocFindsABlock ==
    ~s.failed /\ s.h = {} =>
        \A new \in MallocResults :
            LET a == ba_global_get_page(new) IN a.failed \/ a.h # {}

\* test_walk.c expects of ba_walk that it never shows a free block.
WalkShowsOwnedBlocksOnly == Walked(WriteBack(s)) \subseteq live
=============================================================================
