----------------------------- MODULE Defragment -----------------------------
(***************************************************************************)
(* ba_defragment on top of module GlobalAllocator: the pages of the low    *)
(* list are merged two by two until few enough pages are left.  Each merge *)
(* moves the used blocks of a page into free blocks of another and tells   *)
(* the client where its blocks went.  Module MergePages has the steps of   *)
(* one merge; here it does what that module shows of the merges in which   *)
(* no chunk is overshot (Merge), and of the others (Overshoot).            *)
(***************************************************************************)
EXTENDS GlobalAllocator, Functions

VARIABLES merging,   \* ba_defragment is in its loop
          goal       \* its argument `capacity', in pages

dvars == <<s, live, collided, spoiled, merging, goal>>

DInit == Init /\ merging = FALSE /\ goal = 0

IsLow(free) == Used(free) < Threshold

----------------------------------------------------------------------------
(* Before the loop *)

\* Mutant of DiscardAlloc: alloc is never given up.
DiscardNever(a) == a

\* A low page is given up as a->alloc and put on the low list, empty or not.
DiscardAlloc(a) ==
    IF a.alloc # NULL /\ IsLow(a.h)
    THEN [DOUBLE_LINK([a EXCEPT !.header[a.alloc] = a.h], LOW, a.alloc)
            EXCEPT !.alloc = NULL, !.h = {}]
    ELSE a

BeginDefragment ==
    /\ ~s.failed /\ ~merging
    /\ \E n \in 0 .. Cardinality(Pages) :
        LET shrunk == ba_shrink(s)
            found  == shrunk.num_pages <= n
        IN  /\ s' = IF shrunk.failed \/ found THEN shrunk
                    ELSE FlushLastFree(DiscardAlloc(shrunk))
            /\ merging' = (~s'.failed /\ ~found)
            /\ goal' = IF merging' THEN n ELSE 0
    /\ UNCHANGED <<live, collided, spoiled>>

----------------------------------------------------------------------------
(* The loop *)

LowPair(p1, p2) == /\ s.pages[LOW] = p1 /\ p1 # NULL
                   /\ s.next[p1] = p2 /\ p2 # NULL

\* ba_merge_pages gives up on two pages that do not fit into one.
Crowded(p1, p2) ==
    Used(s.header[p1]) + Used(s.header[p2]) > Cardinality(Blocks)

\* Mutant of Merged: the free list of p1 stays as it was.
MergedKeepsHeader(p1, free) == s

\* ba_merge_pages leaves this free list in p1.
Merged(p1, free) == [s EXCEPT !.header[p1] = free]

\* Mutants of Unpaired: the page is still counted; it stays on its list.
UnpairedCounted(a, p2) == ReleasePages(DOUBLE_UNLINK(a, LOW, p2), {p2})

UnpairedLinked(a, p2) == [ReleasePages(a, {p2}) EXCEPT !.num_pages = @ - 1]

\* p2, which is empty now, is released.
Unpaired(a, p2) ==
    [ReleasePages(DOUBLE_UNLINK(a, LOW, p2), {p2}) EXCEPT !.num_pages = @ - 1]

\* Mutant of Resettled: p1 stays on the low list.
ResettledNever(a, p1) == a

\* p1 changes its list if the blocks it received make it a high page.
Resettled(a, p1) ==
    IF IsLow(a.header[p1]) THEN a
    ELSE DOUBLE_LINK(DOUBLE_SHIFT(a, LOW), HIGH, p1)

\* p2 has been merged into p1, which has this free list now.
PagesMerged(p1, p2, free) == Resettled(Unpaired(Merged(p1, free), p2), p1)

\* Where the client finds its blocks: it is told of those its page says are in use.
Relocated(p1, p2, to) ==
    {x \in live : x[1] # p2}
        \cup {<<p1, to[b]>> : b \in LiveIn(p2) \ s.header[p2]}

ContinueLoop == /\ merging' = (s'.num_pages > goal)
                /\ goal' = IF merging' THEN goal ELSE 0
                /\ UNCHANGED collided

\* No chunk of p2 is overshot: its blocks in use move into the free blocks of p1 that
\* `to' gives for them.  The lists are sorted first, which may leave BA_ONE in the last
\* block of p1.
Merge ==
    /\ ~s.failed /\ merging
    /\ \E p1, p2 \in s.table :
        /\ LowPair(p1, p2)
        /\ IF Crowded(p1, p2) THEN s' = Fail(s) /\ UNCHANGED live
           ELSE \E to \in Injection(Blocks \ s.header[p2], s.header[p1]) :
                    /\ s' = PagesMerged(p1, p2, s.header[p1] \ Range(to))
                    /\ live' = Relocated(p1, p2, to)
    /\ spoiled' \in {spoiled, TRUE}
    /\ ContinueLoop

\* More is moved than a chunk of p2 holds.  The merge dereferences NULL at the end of
\* the list of p1, or the callback is given a length that has wrapped; if that is
\* survived, the list has as many blocks as it should, but perhaps the client's, and
\* the client was told of any places.  Which lists and chunks lead here is left open.
Overshoot ==
    /\ ~s.failed /\ merging
    /\ \E p1, p2 \in s.table :
        /\ LowPair(p1, p2)
        /\ ~Crowded(p1, p2)
        /\ Used(s.header[p2]) # 0
        /\ \/ s' = Fail(s) /\ UNCHANGED live
           \/ \E free \in SUBSET Blocks, to \in [LiveIn(p2) -> Blocks] :
                /\ Used(free) = Used(s.header[p1]) + Used(s.header[p2])
                /\ s' = PagesMerged(p1, p2, free)
                /\ live' = Relocated(p1, p2, to)
    /\ spoiled' = TRUE
    /\ ContinueLoop

EndDefragment ==
    /\ ~s.failed /\ merging
    /\ \A p1, p2 \in s.table : ~LowPair(p1, p2)
    /\ merging' = FALSE
    /\ goal' = 0
    /\ UNCHANGED <<s, live, collided, spoiled>>

DNext == \/ ~merging /\ Next /\ UNCHANGED <<merging, goal>>
         \/ BeginDefragment
         \/ Merge
         \/ Overshoot
         \/ EndDefragment

DSpec == DInit /\ [][DNext]_dvars

----------------------------------------------------------------------------
(* Properties.  An overshoot spoils the list of the page: what they say of  *)
(* the allocator holds up to it.                                            *)

\* Between two merges too, the lists hold the pages their headers call for, with
\* one exception: an empty page that was a->alloc may be on the low list.
ListsHoldAllPages ==
    Intact =>
        LET Calling(i) == {p \in s.table \ {s.alloc} :
                                ba_get_slot(s.header[p]) = i}
            strays == ListPages(s, LOW) \cap Calling(EMPTY)
        IN  /\ ListPages(s, LOW) = Calling(LOW) \cup strays
            /\ ListPages(s, HIGH) = Calling(HIGH)
            /\ ListPages(s, EMPTY) = Calling(EMPTY) \ strays

\* As long as no chunk is overshot, defragmenting moves every block the client owns
\* to a place of its own, and ba_count gives the same number after every step of it
\* as before; a merge frees exactly one page.
MergeKeepsBlocks ==
    [][(merging \/ merging') /\ Intact /\ Intact' =>
        /\ Cardinality(live') = Cardinality(live)
        /\ Counted(WriteBack(s))' = Counted(WriteBack(s))
        /\ merging => s' = s \/ s'.num_pages = s.num_pages - 1]_dvars

Current(p) == IF p = s.alloc THEN s.h
              ELSE IF p = s.last_free THEN s.hf ELSE s.header[p]

\* The loop gives up only if at most one page is left that is in use but less
\* than half full, wherever the allocator keeps it.
LoopLeavesNoPair ==
    [][merging /\ ~merging' /\ Intact =>
        \/ s'.num_pages <= goal
        \/ Cardinality({p \in s'.table : /\ IsLow(Current(p)')
                                         /\ Current(p)' # Blocks}) <= 1]_dvars

\* "pages[2] contains all empty pages" (gjalloc.h:310).
EmptyPagesAreOnEmptyList ==
    ~s.failed /\ Intact =>
        \A p \in ListPages(s, LOW) \cup ListPages(s, HIGH) : Used(s.header[p]) # 0
=============================================================================
