--------------------------- MODULE LocalAllocator ---------------------------
(***************************************************************************)
(* struct ba_local once it has outgrown its single page (module            *)
(* GrowingPage): it keeps the page to allocate from and the page last      *)
(* freed into itself, with their working headers, and a struct             *)
(* block_allocator a->a for all other pages, whose own alloc and last_free *)
(* are never set.                                                          *)
(*                                                                         *)
(* In s, alloc, h, last_free and hf are therefore the fields of ba_local,  *)
(* the others those of a->a.  ba_lalloc and ba_lfree do with them what     *)
(* ba_alloc and ba_free do with the fields of a single structure.          *)
(***************************************************************************)
EXTENDS Defragment

VARIABLE stale   \* history: a page a->page or a->last_free points to was freed

lvars == <<s, live, collided, spoiled, merging, goal, stale>>

\* Mutants of Transformed: the page is not counted; it is put on a list at once.
TransformedUncounted(p, free, a) ==
    [EmptyAllocator EXCEPT !.alloc = p, !.h = free, !.header[p] = free,
                           !.table = {p},
                           !.last_free = a.last_free, !.hf = a.hf]

TransformedListed(p, free, a) ==
    DOUBLE_LINK([EmptyAllocator EXCEPT !.alloc = p, !.h = free,
                                       !.header[p] = free,
                                       !.table = {p}, !.num_pages = 1,
                                       !.last_free = a.last_free, !.hf = a.hf],
                LOW, p)

\* ba_local_grow has made page p, with these free blocks, the only page of a new
\* a->a.  Of the fields of ba_local only last_free is not assigned.
Transformed(p, free, a) ==
    [EmptyAllocator EXCEPT !.alloc = p, !.h = free, !.header[p] = free,
                           !.table = {p}, !.num_pages = 1,
                           !.last_free = a.last_free, !.hf = a.hf]

\* The growing page has become an allocator's.  Its list may have been spoiled when
\* it was the only page.
ba_local_grow ==
    /\ s.alloc = NULL
    /\ \E p \in Pages, free \in (SUBSET Blocks) \ {{}} :
        /\ s' = Transformed(p, free, s)
        /\ live' = {p} \X (Blocks \ free)
    /\ spoiled' \in {spoiled, TRUE}
    /\ UNCHANGED <<collided, merging, goal, stale>>

LInit == DInit /\ stale = FALSE

----------------------------------------------------------------------------

Idle == ~s.failed /\ ~merging /\ s.alloc # NULL

\* ba_lalloc and ba_local_get_page
ba_lalloc == Idle /\ (ba_alloc_fast \/ ba_alloc_slow)

\* ba_lfree and ba_local_get_free_page
ba_lfree == Idle /\ ba_free

\* ba_walk_local, which reloads a->h even if the callback stops the walk
ba_walk_local == Idle /\ ba_walk

\* Mutant of Flushed: the page of last_free is filed and remains last_free.
FiledOnly(a) ==
    IF a.last_free = NULL THEN a ELSE ba_update_slot(a, a.last_free, a.hf)

\* The flush of last_free at the start of ba_ldefragment.
Flushed(a) == FlushLastFree(a)

\* ba_lcount: the page of last_free is filed, and remains last_free.  It is
\* perhaps released at once, being empty.
ba_lcount ==
    /\ Idle
    /\ LET a == [s EXCEPT !.header[s.alloc] = s.h]
       IN  s' = IF a.last_free = NULL THEN a
                ELSE ba_update_slot(a, a.last_free, a.hf)
    /\ stale' = (stale \/ s'.last_free \notin s'.table \cup {NULL})
    /\ UNCHANGED <<live, collided, spoiled>>

\* ba_lfree_all: a->a forgets its pages, ba_local does not.
ba_lfree_all ==
    /\ Idle
    /\ s' = [EmptyAllocator EXCEPT !.alloc = s.alloc, !.h = s.h,
                                   !.last_free = s.last_free, !.hf = s.hf]
    /\ live' = {}
    /\ stale' = TRUE
    /\ UNCHANGED <<collided, spoiled>>

\* ba_ldestroy: back to a local allocator with no page.
ba_ldestroy ==
    /\ Idle
    /\ s' = [EmptyAllocator EXCEPT !.last_free = s.last_free, !.hf = s.hf]
    /\ live' = {}
    /\ collided' = FALSE
    /\ spoiled' = FALSE
    /\ stale' = (stale \/ s.last_free # NULL)

\* ba_ldefragment up to the loop of ba_defragment, which has no a->alloc.
ba_ldefragment ==
    /\ Idle
    /\ \E n \in 0 .. Cardinality(Pages) :
        LET filed  == Flushed(s)
            shrunk == IF filed.failed THEN filed ELSE ba_shrink(filed)
            found  == shrunk.num_pages <= n
        IN  /\ s' = shrunk
            /\ merging' = (~shrunk.failed /\ ~found)
            /\ goal' = IF merging' THEN n ELSE 0
    /\ UNCHANGED <<live, collided, spoiled>>

LNext == \/ ba_local_grow
         \/ /\ ba_lalloc \/ ba_lfree \/ ba_walk_local
            /\ UNCHANGED <<merging, goal, stale>>
         \/ /\ ba_lcount \/ ba_lfree_all \/ ba_ldestroy
            /\ UNCHANGED <<merging, goal>>
         \/ /\ ba_ldefragment \/ Merge \/ Overshoot \/ EndDefragment
            /\ UNCHANGED stale

LSpec == LInit /\ [][LNext]_lvars

----------------------------------------------------------------------------
(* Properties.  They hold until ba_alloc's collision (GlobalAllocator),     *)
(* until a list is spoiled, by a sort or by a merge that overshoots, or     *)
(* until a page one of the two pointers names has been freed: ba_lfree_all, *)
(* ba_ldestroy and ba_lcount leave them as they are.                        *)

\* No block the client owns is free in the header it could be handed out from.
LocalBlocksAreSafe == ~stale => OwnedBlocksAreSafe

\* The lists of a->a hold exactly the pages their headers call for, the page
\* ba_local allocates from apart, and its counters agree with the lists and the
\* table, although last_free may be filed twice.
LocalPagesAreAccounted == ~stale => ListsAreExact /\ PagesAreCounted

\* The two pointers name pages of a->a, and nothing but these three faults lets an
\* operation fail: none of the operations between them frees a page they name.
LocalFailsOnlyAfterFault ==
    ~stale /\ Intact =>
        ~s.failed /\ {s.alloc, s.last_free} \subseteq s.table \cup {NULL}
=============================================================================
