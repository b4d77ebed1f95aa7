-------------------------- MODULE AllocatorProofs --------------------------
(***************************************************************************)
(* Proofs about modules PageSlots, GlobalAllocator, Defragment and         *)
(* LocalAllocator, for every set of page addresses, every number of blocks *)
(* per page and every limit on the empty pages.                            *)
(*                                                                         *)
(* First the operators of PageSlots: their types, what they leave alone,   *)
(* and what they do to the three page lists; then when the data of an      *)
(* allocator is sound, and that the page operations keep it so.  In a      *)
(* sound allocator each list holds the pages whose own headers call for    *)
(* it, whatever the two working headers say, and the counters agree with   *)
(* the lists.                                                              *)
(*                                                                         *)
(* Then GlobalAllocator.  Its safety properties follow from one inductive  *)
(* invariant: until ba_alloc takes the page that last_free still points    *)
(* to, or a list is spoiled, the data of the allocator is sound and no     *)
(* block the client owns is free in a header it is used with.              *)
(*                                                                         *)
(* Then Defragment: until a merge overshoots a chunk, ba_defragment keeps  *)
(* an allocator sound, loses no block and moves each block of the client   *)
(* to a place of its own; it never meets two pages that do not fit into    *)
(* one, and gives up only when no two pages are left to merge.  Strays are *)
(* the empty pages that were a->alloc when ba_defragment gave it up.       *)
(*                                                                         *)
(* Last LocalAllocator: until ba_alloc collides, a list is spoiled or a    *)
(* page ba_local points to is freed, the fields of ba_local and those of   *)
(* a->a together are a good allocator with no stray on its lists.  Unlike  *)
(* in GlobalAllocator, last_free may name an empty page: ba_lcount files   *)
(* it and goes on using it.                                                *)
(***************************************************************************)
EXTENDS LocalAllocator, FiniteSetTheorems, WellFoundedInduction, TLAPS


----------------------------------------------------------------------------
(* Sets of page addresses *)

LEMMA NullIsNoPage == NULL \notin Pages
<1>1. \A n \in Nat : n \in Int
  OBVIOUS
<1>2. \A p \in Pages : p \in Int
  BY <1>1, PagesAssumption, Zenon
<1> QED BY <1>2, NullAssumption, Zenon

\* Every set of pages has a highest one: ba_remove_page always finds a page.
LEMMA HighestPage ==
    ASSUME NEW S \in SUBSET Pages, S # {}
    PROVE  \E p \in S : \A q \in S : q <= p
<1> DEFINE Above(p) == {q \in S : q > p}
           T == {Above(p) : p \in S}
<1>1. S \in SUBSET Nat /\ IsFiniteSet(S)
  BY PagesAssumption, FS_Subset
<1>2. T \subseteq FiniteSubsetsOf(S) /\ T # {}
  <2>1. \A p \in S : Above(p) \in SUBSET S /\ IsFiniteSet(Above(p))
    BY <1>1, FS_Subset
  <2> QED BY <2>1 DEF FiniteSubsetsOf
<1>3. PICK U \in T : \A V \in T : <<V, U>> \notin StrictSubsetOrdering(S)
  <2>1. IsWellFoundedOn(StrictSubsetOrdering(S), FiniteSubsetsOf(S))
    BY FS_StrictSubsetOrderingWellFounded
  <2> HIDE DEF T
  <2> QED BY <2>1, <1>2, WFMin
<1>4. PICK p \in S : U = Above(p)
  BY <1>3
<1>5. SUFFICES ASSUME NEW q \in S, q > p PROVE FALSE
  BY <1>1
<1>6. Above(q) \subseteq Above(p) /\ Above(q) # Above(p)
  <2>1. p \in Nat /\ q \in Nat /\ \A r \in S : r \in Nat
    BY <1>1
  <2>2. q \in Above(p) /\ q \notin Above(q)
    BY <1>5, <2>1
  <2>3. \A r \in Above(q) : r \in Above(p)
    BY <1>5, <2>1
  <2> QED BY <2>2, <2>3
<1>7. <<Above(q), Above(p)>> \in StrictSubsetOrdering(S)
  BY <1>6 DEF StrictSubsetOrdering
<1> QED BY <1>3, <1>4, <1>7

----------------------------------------------------------------------------
(* Types *)

LEMMA FailType ==
    ASSUME NEW a \in Allocator PROVE Fail(a) \in Allocator
BY DEF Fail, Allocator

LEMMA SlotType ==
    ASSUME NEW free PROVE ba_get_slot(free) \in Slots \cup {NULL}
BY DEF ba_get_slot, Slots, LOW, HIGH, EMPTY

LEMMA CountersType ==
    ASSUME NEW a \in Allocator, NEW m \in Int, NEW n \in Int
    PROVE  [a EXCEPT !.num_pages = m, !.empty_pages = n] \in Allocator
BY DEF Allocator

LEMMA LinkType ==
    ASSUME NEW a \in Allocator, NEW i \in Slots, NEW p \in Pages
    PROVE  DOUBLE_LINK(a, i, p) \in Allocator
BY FailType DEF DOUBLE_LINK, Allocator, PageOrNull

LEMMA UnlinkType ==
    ASSUME NEW a \in Allocator, NEW i \in Slots, NEW p \in Pages
    PROVE  DOUBLE_UNLINK(a, i, p) \in Allocator
BY FailType DEF DOUBLE_UNLINK, Allocator, PageOrNull

LEMMA ShiftType ==
    ASSUME NEW a \in Allocator, NEW i \in Slots, a.pages[i] # NULL
    PROVE  DOUBLE_SHIFT(a, i) \in Allocator
BY FailType DEF DOUBLE_SHIFT, Allocator, PageOrNull

LEMMA ReleaseType ==
    ASSUME NEW a \in Allocator, NEW P
    PROVE  ReleasePages(a, P) \in Allocator
BY DEF ReleasePages, Allocator, PageOrNull, Header

LEMMA AllocPageType ==
    ASSUME NEW a \in Allocator, NEW p \in Pages
    PROVE  ba_alloc_page(a, p) \in Allocator
<1>1. [a.header EXCEPT ![p] = Blocks] \in [Pages -> Header]
  BY DEF Allocator, Header
<1>2. /\ [a.next EXCEPT ![p] = NULL] \in [Pages -> PageOrNull]
      /\ [a.prev EXCEPT ![p] = NULL] \in [Pages -> PageOrNull]
  BY DEF Allocator, PageOrNull
<1>3. a.num_pages + 1 \in Int /\ a.table \cup {p} \in SUBSET Pages
  BY DEF Allocator
<1> QED BY <1>1, <1>2, <1>3 DEF ba_alloc_page, Allocator

LEMMA GetPageType ==
    ASSUME NEW a \in Allocator, NEW old \in PageOrNull, NEW new,
           NeedsMalloc([a EXCEPT !.header[old] = {}]) => new \in Pages
    PROVE  ba_get_page(a, old, new) \in Allocator
<1> DEFINE full == IF old = NULL THEN a ELSE [a EXCEPT !.header[old] = {}]
<1>1. full \in Allocator /\ full.pages = a.pages
  <2>1. CASE old = NULL
    BY <2>1
  <2>2. CASE old # NULL
    <3>1. [a.header EXCEPT ![old] = {}] \in [Pages -> Header]
      BY <2>2 DEF Allocator, PageOrNull, Header
    <3> QED BY <2>2, <3>1 DEF Allocator
  <2> QED BY <2>1, <2>2
<1>2. CASE NeedsMalloc(full)
  <2>1. new \in Pages
    BY <1>1, <1>2 DEF NeedsMalloc, Allocator
  <2> HIDE DEF full
  <2>2. ba_alloc_page(full, new) \in Allocator
    BY <1>1, <2>1, AllocPageType
  <2> USE DEF full
  <2> QED BY <1>2, <2>2, FailType DEF ba_get_page
<1>3. CASE ~NeedsMalloc(full)
  <2> HIDE DEF full
  <2>1. TakeSlot(full) \in Slots /\ full.pages[TakeSlot(full)] # NULL
    BY <1>3 DEF NeedsMalloc, TakeSlot, Slots, LOW, HIGH, EMPTY
  <2>2. DOUBLE_SHIFT(full, TakeSlot(full)) \in Allocator
    BY <1>1, <2>1, ShiftType
  <2>3. [DOUBLE_SHIFT(full, TakeSlot(full)) EXCEPT !.empty_pages = @ - 1]
            \in Allocator
    BY <2>2 DEF Allocator
  <2> USE DEF full
  <2> QED BY <1>3, <2>2, <2>3, FailType DEF ba_get_page
<1> QED BY <1>2, <1>3

\* The page ba_remove_page picks is on the empty list.
LEMMA RemovedPage ==
    ASSUME NEW a, Walkable(a, EMPTY), a.pages[EMPTY] # NULL
    PROVE  (CHOOSE q \in ListPages(a, EMPTY) :
                \A r \in ListPages(a, EMPTY) : r <= q) \in ListPages(a, EMPTY)
<1>1. ListPages(a, EMPTY) \in SUBSET Pages /\ ListPages(a, EMPTY) # {}
  BY DEF Walkable, ListPages
<1> QED BY <1>1, HighestPage

LEMMA RemovePageType ==
    ASSUME NEW a \in Allocator PROVE ba_remove_page(a) \in Allocator
<1> DEFINE p == CHOOSE q \in ListPages(a, EMPTY) :
                    \A r \in ListPages(a, EMPTY) : r <= q
           unlinked == DOUBLE_UNLINK(a, EMPTY, p)
           released == ReleasePages(unlinked, {p})
<1>1. CASE ~Walkable(a, EMPTY) \/ a.pages[EMPTY] = NULL
  BY <1>1, FailType DEF ba_remove_page
<1>2. CASE Walkable(a, EMPTY) /\ a.pages[EMPTY] # NULL
  <2>1. p \in Pages
    BY <1>2, RemovedPage DEF ListPages
  <2> HIDE DEF p
  <2>2. unlinked \in Allocator
    BY <2>1, UnlinkType DEF Slots, EMPTY
  <2> HIDE DEF unlinked
  <2>3. released \in Allocator
    BY <2>2, ReleaseType
  <2> HIDE DEF released
  <2>4. [released EXCEPT !.num_pages = @ - 1, !.empty_pages = @ - 1]
            \in Allocator
    <3>1. released.num_pages - 1 \in Int /\ released.empty_pages - 1 \in Int
      BY <2>3 DEF Allocator
    <3> QED BY <2>3, <3>1, CountersType
  <2> USE DEF released, unlinked, p
  <2> QED BY <1>2, <2>2, <2>4 DEF ba_remove_page
<1> QED BY <1>1, <1>2

LEMMA UpdateSlotType ==
    ASSUME NEW a \in Allocator, NEW p \in Pages, NEW free \in Header
    PROVE  ba_update_slot(a, p, free) \in Allocator
<1> DEFINE old == ba_get_slot(a.header[p])
           new == ba_get_slot(free)
           off == IF old = NULL THEN a ELSE DOUBLE_UNLINK(a, old, p)
           on  == IF new = NULL THEN off ELSE DOUBLE_LINK(off, new, p)
           put == [on EXCEPT !.header[p] = free]
           emp == [put EXCEPT !.empty_pages = @ + 1]
<1>1. off \in Allocator
  BY SlotType, UnlinkType
<1>2. on \in Allocator
  <2> HIDE DEF off
  <2> QED BY <1>1, SlotType, LinkType
<1>3. put \in Allocator
  <2> HIDE DEF on
  <2>1. [on.header EXCEPT ![p] = free] \in [Pages -> Header]
    BY <1>2 DEF Allocator
  <2> QED BY <1>2, <2>1 DEF Allocator
<1>4. emp \in Allocator
  <2> HIDE DEF put
  <2> QED BY <1>3 DEF Allocator
<1>5. ba_remove_page(emp) \in Allocator /\ Fail(a) \in Allocator
  <2> HIDE DEF emp
  <2> QED BY <1>4, RemovePageType, FailType
<1> QED BY <1>2, <1>3, <1>4, <1>5 DEF ba_update_slot

LEMMA FlushType ==
    ASSUME NEW a \in Allocator PROVE FlushLastFree(a) \in Allocator
<1> DEFINE r == ba_update_slot(a, a.last_free, a.hf)
<1>1. CASE a.last_free = NULL
  BY <1>1 DEF FlushLastFree
<1>2. CASE a.last_free # NULL
  <2>1. r \in Allocator
    BY <1>2, UpdateSlotType DEF Allocator, PageOrNull
  <2> HIDE DEF r
  <2>2. [r EXCEPT !.last_free = NULL, !.hf = {}] \in Allocator
    BY <2>1 DEF Allocator, PageOrNull, Header
  <2> USE DEF r
  <2> QED BY <1>2, <2>2 DEF FlushLastFree
<1> QED BY <1>1, <1>2

LEMMA ShrinkType ==
    ASSUME NEW a \in Allocator PROVE ba_shrink(a) \in Allocator
<1> DEFINE r == ReleasePages(a, ListPages(a, EMPTY))
<1>1. r \in Allocator /\ r.num_pages - a.empty_pages \in Int
  BY ReleaseType DEF Allocator
<1> HIDE DEF r
<1>2. [r.pages EXCEPT ![EMPTY] = NULL] \in [Slots -> PageOrNull]
  BY <1>1 DEF Allocator, PageOrNull
<1>3. [r EXCEPT !.pages[EMPTY] = NULL, !.num_pages = @ - a.empty_pages,
                !.empty_pages = 0] \in Allocator
  <2> DEFINE f == [r.pages EXCEPT ![EMPTY] = NULL]
             m == r.num_pages - a.empty_pages
             n == 0
  <2>1. f \in [Slots -> PageOrNull] /\ m \in Int /\ n \in Int
    BY <1>1, <1>2
  <2> HIDE DEF f, m, n
  <2>2. [r EXCEPT !.pages = f, !.num_pages = m, !.empty_pages = n]
            \in Allocator
    BY <1>1, <2>1 DEF Allocator
  <2> QED BY <2>2 DEF f, m, n
<1> USE DEF r
<1> QED BY <1>3, FailType DEF ba_shrink

LEMMA EmptyAllocatorType == EmptyAllocator \in Allocator
BY DEF EmptyAllocator, Allocator, PageOrNull, Header

----------------------------------------------------------------------------
(* What an operation on the lists leaves alone *)

\* The working headers and the pages they stand for are the same in both.
SameWorking(a, r) == /\ r.alloc = a.alloc
                     /\ r.h = a.h
                     /\ r.last_free = a.last_free
                     /\ r.hf = a.hf

LEMMA LinkFrame ==
    ASSUME NEW a \in Allocator, NEW i \in Slots, NEW p \in Pages
    PROVE  SameWorking(a, DOUBLE_LINK(a, i, p))
BY DEF SameWorking, DOUBLE_LINK, Fail, Allocator

LEMMA UnlinkFrame ==
    ASSUME NEW a \in Allocator, NEW i \in Slots, NEW p
    PROVE  SameWorking(a, DOUBLE_UNLINK(a, i, p))
BY DEF SameWorking, DOUBLE_UNLINK, Fail, Allocator

LEMMA ReleaseFrame ==
    ASSUME NEW a \in Allocator, NEW P
    PROVE  SameWorking(a, ReleasePages(a, P))
BY DEF SameWorking, ReleasePages, Allocator

LEMMA RemovePageFrame ==
    ASSUME NEW a \in Allocator
    PROVE  SameWorking(a, ba_remove_page(a))
<1> DEFINE p == CHOOSE q \in ListPages(a, EMPTY) :
                    \A r \in ListPages(a, EMPTY) : r <= q
           unlinked == DOUBLE_UNLINK(a, EMPTY, p)
           released == ReleasePages(unlinked, {p})
<1>1. CASE ~Walkable(a, EMPTY) \/ a.pages[EMPTY] = NULL
  BY <1>1 DEF ba_remove_page, SameWorking, Fail, Allocator
<1>2. CASE Walkable(a, EMPTY) /\ a.pages[EMPTY] # NULL
  <2>1. p \in Pages
    BY <1>2, RemovedPage DEF ListPages
  <2> HIDE DEF p
  <2>2. unlinked \in Allocator /\ SameWorking(a, unlinked)
    BY <2>1, UnlinkType, UnlinkFrame DEF Slots, EMPTY
  <2> HIDE DEF unlinked
  <2>3. released \in Allocator /\ SameWorking(unlinked, released)
    BY <2>2, ReleaseType, ReleaseFrame
  <2> HIDE DEF released
  <2>4. SameWorking(a, [released EXCEPT !.num_pages = @ - 1,
                                        !.empty_pages = @ - 1])
    BY <2>2, <2>3 DEF SameWorking, Allocator
  <2> USE DEF released, unlinked, p
  <2> QED BY <1>2, <2>2, <2>4 DEF ba_remove_page
<1> QED BY <1>1, <1>2

LEMMA UpdateSlotFrame ==
    ASSUME NEW a \in Allocator, NEW p \in Pages, NEW free \in Header
    PROVE  SameWorking(a, ba_update_slot(a, p, free))
<1> DEFINE old == ba_get_slot(a.header[p])
           new == ba_get_slot(free)
           off == IF old = NULL THEN a ELSE DOUBLE_UNLINK(a, old, p)
           on  == IF new = NULL THEN off ELSE DOUBLE_LINK(off, new, p)
           put == [on EXCEPT !.header[p] = free]
           emp == [put EXCEPT !.empty_pages = @ + 1]
<1>1. off \in Allocator /\ SameWorking(a, off)
  BY SlotType, UnlinkType, UnlinkFrame DEF SameWorking
<1>2. on \in Allocator /\ SameWorking(a, on)
  <2> HIDE DEF off
  <2> QED BY <1>1, SlotType, LinkType, LinkFrame DEF SameWorking
<1>3. put \in Allocator /\ SameWorking(a, put)
  <2> HIDE DEF on
  <2>1. [on.header EXCEPT ![p] = free] \in [Pages -> Header]
    BY <1>2 DEF Allocator
  <2> QED BY <1>2, <2>1 DEF Allocator, SameWorking
<1>4. emp \in Allocator /\ SameWorking(a, emp)
  <2> HIDE DEF put
  <2> QED BY <1>3 DEF Allocator, SameWorking
<1>5. SameWorking(a, ba_remove_page(emp))
  <2> HIDE DEF emp
  <2> QED BY <1>4, RemovePageFrame DEF SameWorking
<1>6. SameWorking(a, Fail(a)) /\ SameWorking(a, a)
  BY DEF SameWorking, Fail, Allocator
<1> QED BY <1>2, <1>3, <1>4, <1>5, <1>6 DEF ba_update_slot

\* FlushLastFree keeps a->alloc and a->h.
LEMMA FlushFrame ==
    ASSUME NEW a \in Allocator
    PROVE  FlushLastFree(a).alloc = a.alloc /\ FlushLastFree(a).h = a.h
<1> DEFINE r == ba_update_slot(a, a.last_free, a.hf)
<1>1. CASE a.last_free = NULL
  BY <1>1 DEF FlushLastFree
<1>2. CASE a.last_free # NULL
  <2>1. r \in Allocator /\ SameWorking(a, r)
    BY <1>2, UpdateSlotType, UpdateSlotFrame DEF Allocator, PageOrNull
  <2> HIDE DEF r
  <2>2. /\ [r EXCEPT !.last_free = NULL, !.hf = {}].alloc = a.alloc
        /\ [r EXCEPT !.last_free = NULL, !.hf = {}].h = a.h
    BY <2>1 DEF Allocator, SameWorking
  <2> USE DEF r
  <2> QED BY <1>2, <2>2 DEF FlushLastFree
<1> QED BY <1>1, <1>2
----------------------------------------------------------------------------
(* The lists.  In these lemmas head, next and prev are the pointers of one   *)
(* list, and M is the set of the pages on it.                                *)

Closed(head, next, S) == /\ head \in S \cup {NULL}
                         /\ \A q \in S : next[q] \in S \cup {NULL}

\* The list is linked both ways and consists of the pages in M.
WellLinked(head, next, prev, M) ==
    /\ Closed(head, next, M)
    /\ head # NULL => prev[head] = NULL
    /\ \A p \in M :
        /\ next[p] # NULL => prev[next[p]] = p
        /\ prev[p] # NULL => prev[p] \in M /\ next[prev[p]] = p
        /\ prev[p] = NULL => head = p
    /\ \A S \in SUBSET Pages : Closed(head, next, S) => M \subseteq S

LEMMA LinkedPages ==
    ASSUME NEW a, NEW i, NEW M \in SUBSET Pages,
           WellLinked(a.pages[i], a.next, a.prev, M)
    PROVE  ListPages(a, i) = M
<1>1. ListPages(a, i) \subseteq M
  BY DEF ListPages, WellLinked, Closed
<1>2. M \subseteq ListPages(a, i)
  BY DEF ListPages, WellLinked, Closed
<1> QED BY <1>1, <1>2

\* DOUBLE_LINK on the list it adds p to.
LEMMA LinkAdds ==
    ASSUME NEW M \in SUBSET Pages, NEW p \in Pages, p \notin M,
           NEW head \in PageOrNull, NEW next \in [Pages -> PageOrNull],
           NEW prev \in [Pages -> PageOrNull],
           WellLinked(head, next, prev, M)
    PROVE  WellLinked(p, [next EXCEPT ![p] = head],
                      [q \in Pages |-> IF q = head THEN p
                                       ELSE IF q = p THEN NULL ELSE prev[q]],
                      M \cup {p})
<1> DEFINE n == [next EXCEPT ![p] = head]
           v == [q \in Pages |-> IF q = head THEN p
                                 ELSE IF q = p THEN NULL ELSE prev[q]]
           N == M \cup {p}
<1> USE NullIsNoPage
<1>1. Closed(p, n, N)
  BY DEF WellLinked, Closed
<1>2. p # NULL => v[p] = NULL
  BY DEF WellLinked, Closed
<1>3. ASSUME NEW q \in N
      PROVE  /\ n[q] # NULL => v[n[q]] = q
             /\ v[q] # NULL => v[q] \in N /\ n[v[q]] = q
             /\ v[q] = NULL => p = q
  BY <1>3 DEF WellLinked, Closed, PageOrNull
<1>4. ASSUME NEW S \in SUBSET Pages, Closed(p, n, S)
      PROVE  N \subseteq S
  <2>1. p \in S /\ head \in S \cup {NULL}
    BY <1>4 DEF Closed
  <2>2. Closed(head, next, S \cap M)
    BY <1>4, <2>1 DEF WellLinked, Closed
  <2>3. M \subseteq S \cap M
    BY <2>2 DEF WellLinked
  <2> QED BY <2>1, <2>3
<1> QED BY <1>1, <1>2, <1>3, <1>4 DEF WellLinked

\* ... and on a list p is not added to.
LEMMA LinkKeeps ==
    ASSUME NEW M \in SUBSET Pages, NEW p \in Pages, p \notin M,
           NEW top \in PageOrNull, top \notin M,
           NEW head \in PageOrNull, NEW next \in [Pages -> PageOrNull],
           NEW prev \in [Pages -> PageOrNull],
           WellLinked(head, next, prev, M)
    PROVE  WellLinked(head, [next EXCEPT ![p] = top],
                      [q \in Pages |-> IF q = top THEN p
                                       ELSE IF q = p THEN NULL ELSE prev[q]],
                      M)
<1> DEFINE n == [next EXCEPT ![p] = top]
           v == [q \in Pages |-> IF q = top THEN p
                                 ELSE IF q = p THEN NULL ELSE prev[q]]
<1> USE NullIsNoPage
<1>1. \A q \in M : n[q] = next[q] /\ v[q] = prev[q]
  OBVIOUS
<1>2. ASSUME NEW S \in SUBSET Pages, Closed(head, n, S)
      PROVE  M \subseteq S
  <2>1. Closed(head, next, S \cap M)
    BY <1>1, <1>2 DEF WellLinked, Closed
  <2> QED BY <2>1 DEF WellLinked
<1> HIDE DEF n, v
<1>3. /\ Closed(head, n, M)
      /\ head # NULL => v[head] = NULL
      /\ \A q \in M : /\ n[q] # NULL => v[n[q]] = q
                      /\ v[q] # NULL => v[q] \in M /\ n[v[q]] = q
                      /\ v[q] = NULL => head = q
  BY <1>1 DEF WellLinked, Closed
<1>4. WellLinked(head, n, v, M)
  BY <1>2, <1>3 DEF WellLinked
<1> QED BY <1>4 DEF n, v
\* The pointers DOUBLE_UNLINK leaves.
UnlinkedNext(next, prev, p) ==
    [q \in Pages |-> IF q = p THEN NULL
                     ELSE IF q = prev[p] THEN next[p] ELSE next[q]]
UnlinkedPrev(next, prev, p) ==
    [q \in Pages |-> IF q = p THEN NULL
                     ELSE IF q = next[p] THEN prev[p] ELSE prev[q]]

\* DOUBLE_UNLINK on the list p is on.
LEMMA UnlinkRemoves ==
    ASSUME NEW M \in SUBSET Pages, NEW p \in M,
           NEW head \in PageOrNull, NEW next \in [Pages -> PageOrNull],
           NEW prev \in [Pages -> PageOrNull],
           WellLinked(head, next, prev, M)
    PROVE  WellLinked(IF prev[p] = NULL THEN next[p] ELSE head,
                      UnlinkedNext(next, prev, p), UnlinkedPrev(next, prev, p),
                      M \ {p})
<1> DEFINE n == UnlinkedNext(next, prev, p)
           v == UnlinkedPrev(next, prev, p)
           h == IF prev[p] = NULL THEN next[p] ELSE head
           N == M \ {p}
<1> USE NullIsNoPage
<1>1. /\ next[p] # p /\ prev[p] # p
      /\ prev[p] # NULL => prev[p] \in M /\ next[prev[p]] = p
      /\ next[p] # NULL => next[p] \in M /\ prev[next[p]] = p
      /\ prev[p] = NULL => head = p
      /\ head # NULL => head \in M /\ prev[head] = NULL
  <2>1. ASSUME next[p] = p PROVE FALSE
    <3>1. prev[p] = p
      BY <2>1 DEF WellLinked
    <3>2. head # NULL /\ head # p
      <4>1. head # p
        BY <3>1 DEF WellLinked
      <4>2. head # NULL
        <5>1. Closed(head, next, {}) \/ head # NULL
          BY DEF Closed
        <5>2. head # NULL \/ M \subseteq {}
          BY <5>1 DEF WellLinked
        <5> QED BY <5>2
      <4> QED BY <4>1, <4>2
    <3>3. Closed(head, next, M \ {p})
      <4>1. \A q \in M \ {p} : next[q] # p
        BY <3>1 DEF WellLinked
      <4> QED BY <3>2, <4>1 DEF WellLinked, Closed
    <3>4. M \ {p} \in SUBSET Pages
      OBVIOUS
    <3> QED BY <3>3, <3>4 DEF WellLinked
  <2>2. prev[p] # p
    BY <2>1 DEF WellLinked
  <2> QED BY <2>1, <2>2 DEF WellLinked, Closed
<1>2. /\ \A q \in N : q # prev[p] => n[q] = next[q]
      /\ \A q \in N : q # next[p] => v[q] = prev[q]
      /\ prev[p] # NULL => prev[p] \in N /\ n[prev[p]] = next[p]
      /\ next[p] # NULL => next[p] \in N /\ v[next[p]] = prev[p]
  BY <1>1 DEF UnlinkedNext, UnlinkedPrev
<1>3. /\ \A q \in M : q # prev[p] => next[q] # p
      /\ \A q \in M : q # next[p] => prev[q] # p
  BY DEF WellLinked
<1> HIDE DEF n, v
<1>4. Closed(h, n, N)
  <2>1. h \in N \cup {NULL}
    BY <1>1, <1>2
  <2>2. ASSUME NEW q \in N PROVE n[q] \in N \cup {NULL}
    <3>1. CASE q = prev[p]
      BY <1>1, <1>2, <3>1
    <3>2. CASE q # prev[p]
      BY <1>2, <1>3, <3>2 DEF WellLinked, Closed
    <3> QED BY <3>1, <3>2
  <2> QED BY <2>1, <2>2 DEF Closed
<1>5. h # NULL => v[h] = NULL
  <2>1. CASE prev[p] = NULL
    BY <1>2, <2>1
  <2>2. CASE prev[p] # NULL
    <3>1. h = head /\ (head # NULL => head \in N /\ head # next[p])
      BY <1>1, <1>2, <2>2
    <3> QED BY <1>1, <1>2, <3>1
  <2> QED BY <2>1, <2>2
<1>6. ASSUME NEW q \in N, n[q] # NULL PROVE v[n[q]] = q
  <2>1. CASE q = prev[p]
    BY <1>1, <1>2, <1>6, <2>1
  <2>2. CASE q # prev[p]
    <3>1. n[q] = next[q] /\ next[q] \in M /\ prev[next[q]] = q /\ next[q] # p
      BY <1>2, <1>3, <1>6, <2>2 DEF WellLinked, Closed
    <3>2. next[q] # next[p]
      BY <1>1, <3>1
    <3> QED BY <1>2, <3>1, <3>2
  <2> QED BY <2>1, <2>2
<1>7. ASSUME NEW q \in N, v[q] # NULL PROVE v[q] \in N /\ n[v[q]] = q
  <2>1. CASE q = next[p]
    BY <1>1, <1>2, <1>7, <2>1
  <2>2. CASE q # next[p]
    <3>1. v[q] = prev[q] /\ prev[q] \in M /\ next[prev[q]] = q /\ prev[q] # p
      BY <1>2, <1>3, <1>7, <2>2 DEF WellLinked
    <3>2. prev[q] # prev[p]
      BY <1>1, <3>1
    <3> QED BY <1>2, <3>1, <3>2
  <2> QED BY <2>1, <2>2
<1>8. ASSUME NEW q \in N, v[q] = NULL PROVE h = q
  <2>1. CASE q = next[p]
    BY <1>1, <1>2, <1>8, <2>1
  <2>2. CASE q # next[p]
    <3>1. head = q
      BY <1>2, <1>8, <2>2 DEF WellLinked
    <3> QED BY <1>1, <3>1
  <2> QED BY <2>1, <2>2
<1>9. ASSUME NEW S \in SUBSET Pages, Closed(h, n, S) PROVE N \subseteq S
  <2> DEFINE R == (S \cap N) \cup
                  (IF prev[p] = NULL \/ prev[p] \in S THEN {p} ELSE {})
  <2>1. head \in R \cup {NULL}
    BY <1>1, <1>9 DEF Closed
  <2>2. ASSUME NEW q \in R PROVE next[q] \in R \cup {NULL}
    <3>1. CASE q = p
      <4>1. next[p] \in S \cup {NULL}
        <5>1. CASE prev[p] = NULL
          BY <1>9, <5>1 DEF Closed
        <5>2. CASE prev[p] # NULL
          <6>1. prev[p] \in S
            BY <2>2, <3>1, <5>2
          <6> QED BY <1>2, <1>9, <5>2, <6>1 DEF Closed
        <5> QED BY <5>1, <5>2
      <4> QED BY <1>1, <3>1, <4>1
    <3>2. CASE q # p /\ q = prev[p]
      BY <1>1, <2>2, <3>2
    <3>3. CASE q # p /\ q # prev[p]
      <4>1. q \in N /\ q \in S
        BY <2>2, <3>3
      <4>2. n[q] = next[q] /\ next[q] # p /\ next[q] \in M \cup {NULL}
        BY <1>2, <1>3, <3>3, <4>1 DEF WellLinked, Closed
      <4> QED BY <1>9, <4>1, <4>2 DEF Closed
    <3> QED BY <3>1, <3>2, <3>3
  <2>3. R \in SUBSET Pages
    OBVIOUS
  <2>4. Closed(head, next, R)
    <3> HIDE DEF R
    <3> QED BY <2>1, <2>2 DEF Closed
  <2>5. M \subseteq R
    <3> HIDE DEF R
    <3> QED BY <2>3, <2>4 DEF WellLinked
  <2> QED BY <2>5
<1>10. WellLinked(h, n, v, N)
  BY <1>4, <1>5, <1>6, <1>7, <1>8, <1>9 DEF WellLinked
<1> QED BY <1>10 DEF n, v

\* ... and on a list p is not on.
LEMMA UnlinkKeeps ==
    ASSUME NEW M \in SUBSET Pages, NEW p \in Pages, p \notin M,
           NEW head \in PageOrNull, NEW next \in [Pages -> PageOrNull],
           NEW prev \in [Pages -> PageOrNull],
           next[p] \notin M, prev[p] \notin M,
           WellLinked(head, next, prev, M)
    PROVE  WellLinked(head, UnlinkedNext(next, prev, p),
                      UnlinkedPrev(next, prev, p), M)
<1> DEFINE n == UnlinkedNext(next, prev, p)
           v == UnlinkedPrev(next, prev, p)
<1> USE NullIsNoPage
<1>1. \A q \in M : n[q] = next[q] /\ v[q] = prev[q]
  BY DEF UnlinkedNext, UnlinkedPrev
<1> HIDE DEF n, v
<1>2. ASSUME NEW S \in SUBSET Pages, Closed(head, n, S)
      PROVE  M \subseteq S
  <2>1. Closed(head, next, S \cap M)
    BY <1>1, <1>2 DEF WellLinked, Closed
  <2> QED BY <2>1 DEF WellLinked
<1>3. /\ Closed(head, n, M)
      /\ head # NULL => v[head] = NULL
      /\ \A q \in M : /\ n[q] # NULL => v[n[q]] = q
                      /\ v[q] # NULL => v[q] \in M /\ n[v[q]] = q
                      /\ v[q] = NULL => head = q
  BY <1>1 DEF WellLinked, Closed
<1>4. WellLinked(head, n, v, M)
  BY <1>2, <1>3 DEF WellLinked
<1> QED BY <1>4 DEF n, v
\* A loop along the list ends.
LEMMA LinkedIsWalkable ==
    ASSUME NEW a \in Allocator, NEW i \in Slots, NEW M \in SUBSET a.table,
           WellLinked(a.pages[i], a.next, a.prev, M)
    PROVE  Walkable(a, i)
<1>1. a.table \in SUBSET Pages /\ M \in SUBSET Pages
  BY DEF Allocator
<1>2. ListPages(a, i) = M
  BY <1>1, LinkedPages
<1>3. ASSUME a.pages[i] # NULL, \A p \in M : a.next[p] # NULL PROVE FALSE
  <2> DEFINE f == [p \in M |-> a.next[p]]
  <2>1. f \in [M -> M]
    BY <1>3 DEF WellLinked, Closed
  <2>2. \A p, q \in M : f[p] = f[q] => p = q
    BY <1>3 DEF WellLinked
  <2>3. f \in Injection(M, M)
    BY <2>1, <2>2 DEF Injection, IsInjective
  <2>4. IsFiniteSet(M)
    BY <1>1, PagesAssumption, FS_Subset
  <2>5. f \in Surjection(M, M)
    BY <2>3, <2>4, FS_Injection
  <2>6. a.pages[i] \in M
    BY <1>3 DEF WellLinked, Closed
  <2>7. PICK p \in M : f[p] = a.pages[i]
    BY <2>5, <2>6 DEF Surjection
  <2>8. a.prev[a.pages[i]] = p
    BY <1>3, <2>7 DEF WellLinked
  <2> QED BY <1>1, <1>3, <2>8, NullIsNoPage DEF WellLinked
<1> QED BY <1>2, <1>3 DEF Walkable

\* The three lists are well linked, list i consists of the pages F[i], and no
\* page is on two lists.
Lists(a, F) ==
    /\ F \in [Slots -> SUBSET a.table]
    /\ \A i \in Slots : WellLinked(a.pages[i], a.next, a.prev, F[i])
    /\ \A i, j \in Slots : i # j => F[i] \cap F[j] = {}

\* Only the list pointers differ.
SamePages(a, r) == /\ r.table = a.table
                   /\ r.header = a.header
                   /\ r.num_pages = a.num_pages
                   /\ r.empty_pages = a.empty_pages
                   /\ r.failed = a.failed

LEMMA UnlinkLists ==
    ASSUME NEW a \in Allocator, NEW F, Lists(a, F), NEW i \in Slots,
           NEW p \in F[i]
    PROVE  /\ SamePages(a, DOUBLE_UNLINK(a, i, p))
           /\ Lists(DOUBLE_UNLINK(a, i, p), [F EXCEPT ![i] = @ \ {p}])
<1> DEFINE r == DOUBLE_UNLINK(a, i, p)
           G == [F EXCEPT ![i] = @ \ {p}]
<1>1. /\ a.table \in SUBSET Pages /\ \A j \in Slots : F[j] \in SUBSET a.table
      /\ WellLinked(a.pages[i], a.next, a.prev, F[i])
      /\ p \in Pages
  BY DEF Lists, Allocator
<1>2. /\ a.next[p] \in F[i] \cup {NULL}
      /\ a.prev[p] \in F[i] \cup {NULL}
  BY <1>1 DEF WellLinked, Closed
<1>3. /\ r = [a EXCEPT !.next = UnlinkedNext(a.next, a.prev, p),
                       !.prev = UnlinkedPrev(a.next, a.prev, p),
                       !.pages[i] = IF a.prev[p] = NULL THEN a.next[p] ELSE @]
  BY <1>1, <1>2 DEF DOUBLE_UNLINK, Mapped, UnlinkedNext, UnlinkedPrev
<1>4. /\ SamePages(a, r)
      /\ r.next = UnlinkedNext(a.next, a.prev, p)
      /\ r.prev = UnlinkedPrev(a.next, a.prev, p)
      /\ r.pages[i] = IF a.prev[p] = NULL THEN a.next[p] ELSE a.pages[i]
      /\ \A j \in Slots \ {i} : r.pages[j] = a.pages[j]
  BY <1>3 DEF SamePages, Allocator
<1>5. /\ a.next \in [Pages -> PageOrNull] /\ a.prev \in [Pages -> PageOrNull]
      /\ \A j \in Slots : a.pages[j] \in PageOrNull
  BY DEF Allocator
<1> HIDE DEF r
<1>6. WellLinked(r.pages[i], r.next, r.prev, F[i] \ {p})
  <2>1. F[i] \in SUBSET Pages /\ a.pages[i] \in PageOrNull
    BY <1>1, <1>5
  <2>2. WellLinked(IF a.prev[p] = NULL THEN a.next[p] ELSE a.pages[i],
                   UnlinkedNext(a.next, a.prev, p),
                   UnlinkedPrev(a.next, a.prev, p), F[i] \ {p})
    BY <1>1, <1>5, <2>1, UnlinkRemoves
  <2> QED BY <1>4, <2>2
<1>7. ASSUME NEW j \in Slots \ {i}
      PROVE  WellLinked(r.pages[j], r.next, r.prev, F[j])
  <2>1. F[j] \cap F[i] = {} /\ NULL \notin F[j] /\ F[j] \in SUBSET Pages
    BY <1>1, NullIsNoPage DEF Lists
  <2>2. p \notin F[j] /\ a.next[p] \notin F[j] /\ a.prev[p] \notin F[j]
    BY <1>2, <2>1
  <2> QED BY <1>1, <1>4, <1>5, <2>1, <2>2, UnlinkKeeps DEF Lists
<1>8. Lists(r, G)
  BY <1>1, <1>4, <1>6, <1>7 DEF Lists, SamePages
<1> QED BY <1>4, <1>8 DEF r

LEMMA LinkLists ==
    ASSUME NEW a \in Allocator, NEW F, Lists(a, F), NEW i \in Slots,
           NEW p \in a.table, \A j \in Slots : p \notin F[j]
    PROVE  /\ SamePages(a, DOUBLE_LINK(a, i, p))
           /\ Lists(DOUBLE_LINK(a, i, p), [F EXCEPT ![i] = @ \cup {p}])
<1> DEFINE r == DOUBLE_LINK(a, i, p)
           G == [F EXCEPT ![i] = @ \cup {p}]
           n == [a.next EXCEPT ![p] = a.pages[i]]
           v == [q \in Pages |-> IF q = a.pages[i] THEN p
                                 ELSE IF q = p THEN NULL ELSE a.prev[q]]
<1>1. /\ a.table \in SUBSET Pages /\ \A j \in Slots : F[j] \in SUBSET a.table
      /\ WellLinked(a.pages[i], a.next, a.prev, F[i])
      /\ p \in Pages
  BY DEF Lists, Allocator
<1>2. a.pages[i] \in F[i] \cup {NULL}
  BY <1>1 DEF WellLinked, Closed
<1>3. r = [a EXCEPT !.next[p] = a.pages[i], !.prev = v, !.pages[i] = p]
  BY <1>1, <1>2 DEF DOUBLE_LINK, Mapped
<1>4. /\ SamePages(a, r) /\ r.next = n /\ r.prev = v
      /\ r.pages[i] = p
      /\ \A j \in Slots \ {i} : r.pages[j] = a.pages[j]
  BY <1>3 DEF SamePages, Allocator
<1>5. /\ a.next \in [Pages -> PageOrNull] /\ a.prev \in [Pages -> PageOrNull]
      /\ \A j \in Slots : a.pages[j] \in PageOrNull
  BY DEF Allocator
<1> HIDE DEF r
<1>6. WellLinked(r.pages[i], r.next, r.prev, F[i] \cup {p})
  BY <1>1, <1>4, <1>5, LinkAdds
<1>7. ASSUME NEW j \in Slots \ {i}
      PROVE  WellLinked(r.pages[j], r.next, r.prev, F[j])
  <2>1. F[j] \cap F[i] = {} /\ NULL \notin F[j] /\ F[j] \in SUBSET Pages
    BY <1>1, NullIsNoPage DEF Lists
  <2>2. p \notin F[j] /\ a.pages[i] \notin F[j]
    BY <1>2, <2>1
  <2> QED BY <1>1, <1>4, <1>5, <2>1, <2>2, LinkKeeps DEF Lists
<1>8. Lists(r, G)
  BY <1>1, <1>4, <1>6, <1>7 DEF Lists, SamePages
<1> QED BY <1>4, <1>8 DEF r
LEMMA ShiftLists ==
    ASSUME NEW a \in Allocator, NEW F, Lists(a, F), NEW i \in Slots,
           a.pages[i] # NULL
    PROVE  /\ a.pages[i] \in F[i]
           /\ SamePages(a, DOUBLE_SHIFT(a, i))
           /\ Lists(DOUBLE_SHIFT(a, i), [F EXCEPT ![i] = @ \ {a.pages[i]}])
<1> DEFINE p == a.pages[i]
<1>1. p \in F[i] /\ p \in a.table /\ p \in Pages /\ a.prev[p] = NULL
  BY DEF Lists, WellLinked, Closed, Allocator
<1>2. a.next[p] \in a.table \cup {NULL}
  BY <1>1 DEF Lists, WellLinked, Closed
<1>3. DOUBLE_SHIFT(a, i) = DOUBLE_UNLINK(a, i, p)
  <2>1. [q \in Pages |-> IF q \in {p, a.next[p]} THEN NULL ELSE a.prev[q]]
        = [q \in Pages |-> IF q = p THEN NULL
                           ELSE IF q = a.next[p] THEN a.prev[p] ELSE a.prev[q]]
    BY <1>1
  <2>2. [a.next EXCEPT ![p] = NULL]
        = [q \in Pages |-> IF q = p THEN NULL
                           ELSE IF q = a.prev[p] THEN a.next[p] ELSE a.next[q]]
    BY <1>1, NullIsNoPage DEF Allocator
  <2>3. [a EXCEPT !.prev = [q \in Pages |-> IF q \in {p, a.next[p]} THEN NULL
                                            ELSE a.prev[q]],
                  !.next[p] = NULL, !.pages[i] = a.next[p]]
        = [a EXCEPT !.next = [q \in Pages |-> IF q = p THEN NULL
                                ELSE IF q = a.prev[p] THEN a.next[p]
                                ELSE a.next[q]],
                    !.prev = [q \in Pages |-> IF q = p THEN NULL
                                ELSE IF q = a.next[p] THEN a.prev[p]
                                ELSE a.prev[q]],
                    !.pages[i] = IF a.prev[p] = NULL THEN a.next[p] ELSE @]
    BY <1>1, <2>1, <2>2 DEF Allocator
  <2> QED BY <1>1, <1>2, <2>3 DEF DOUBLE_SHIFT, DOUBLE_UNLINK, Mapped
<1> QED BY <1>1, <1>3, UnlinkLists

\* Pointers of pages that are not on the list do not matter.
LEMMA OtherPages ==
    ASSUME NEW M \in SUBSET Pages, NEW head, NEW next, NEW prev, NEW n, NEW v,
           \A q \in M : n[q] = next[q] /\ v[q] = prev[q],
           WellLinked(head, next, prev, M)
    PROVE  WellLinked(head, n, v, M)
<1>1. ASSUME NEW S \in SUBSET Pages, Closed(head, n, S)
      PROVE  M \subseteq S
  <2>1. Closed(head, next, S \cap M)
    BY <1>1 DEF WellLinked, Closed
  <2> QED BY <2>1 DEF WellLinked
<1>2. /\ Closed(head, n, M)
      /\ head # NULL => v[head] = NULL
      /\ \A q \in M : /\ n[q] # NULL => v[n[q]] = q
                      /\ v[q] # NULL => v[q] \in M /\ n[v[q]] = q
                      /\ v[q] = NULL => head = q
  BY DEF WellLinked, Closed
<1> QED BY <1>1, <1>2 DEF WellLinked

LEMMA ReleaseLists ==
    ASSUME NEW a \in Allocator, NEW F, Lists(a, F), NEW P \in SUBSET a.table,
           \A i \in Slots : F[i] \cap P = {}
    PROVE  /\ Lists(ReleasePages(a, P), F)
           /\ ReleasePages(a, P).table = a.table \ P
           /\ ReleasePages(a, P).pages = a.pages
           /\ ReleasePages(a, P).failed = a.failed
           /\ ReleasePages(a, P).num_pages = a.num_pages
           /\ ReleasePages(a, P).empty_pages = a.empty_pages
           /\ \A q \in a.table \ P :
                ReleasePages(a, P).header[q] = a.header[q]
<1> DEFINE r == ReleasePages(a, P)
<1>1. /\ r.table = a.table \ P /\ r.failed = a.failed
      /\ r.num_pages = a.num_pages /\ r.empty_pages = a.empty_pages
      /\ r.pages = a.pages
      /\ \A q \in Pages \ P : /\ r.header[q] = a.header[q]
                              /\ r.next[q] = a.next[q]
                              /\ r.prev[q] = a.prev[q]
  BY DEF ReleasePages, Allocator
<1> HIDE DEF r
<1>2. ASSUME NEW i \in Slots
      PROVE  F[i] \in SUBSET r.table /\ WellLinked(r.pages[i], r.next, r.prev, F[i])
  <2>1. F[i] \in SUBSET Pages /\ F[i] \in SUBSET (Pages \ P)
        /\ F[i] \in SUBSET a.table
    BY DEF Lists, Allocator
  <2>2. \A q \in F[i] : r.next[q] = a.next[q] /\ r.prev[q] = a.prev[q]
    BY <1>1, <2>1
  <2> QED BY <1>1, <2>1, <2>2, OtherPages DEF Lists
<1>3. Lists(r, F)
  BY <1>2 DEF Lists
<1>4. a.table \in SUBSET Pages
  BY DEF Allocator
<1> QED BY <1>1, <1>3, <1>4 DEF r

LEMMA RemovePageLists ==
    ASSUME NEW a \in Allocator, NEW F, Lists(a, F), a.pages[EMPTY] # NULL,
           ~a.failed
    PROVE  \E p \in F[EMPTY] :
             LET r == ba_remove_page(a)
             IN  /\ Lists(r, [F EXCEPT ![EMPTY] = @ \ {p}])
                 /\ r.table = a.table \ {p}
                 /\ \A q \in r.table : r.header[q] = a.header[q]
                 /\ r.num_pages = a.num_pages - 1
                 /\ r.empty_pages = a.empty_pages - 1
                 /\ ~r.failed
<1> DEFINE p == CHOOSE q \in ListPages(a, EMPTY) :
                    \A r \in ListPages(a, EMPTY) : r <= q
           unlinked == DOUBLE_UNLINK(a, EMPTY, p)
           released == ReleasePages(unlinked, {p})
           G == [F EXCEPT ![EMPTY] = @ \ {p}]
<1> USE DEF Slots
<1>1. EMPTY \in Slots /\ F[EMPTY] \in SUBSET a.table
  BY DEF Lists
<1>2. WellLinked(a.pages[EMPTY], a.next, a.prev, F[EMPTY])
  BY <1>1 DEF Lists
<1>3. Walkable(a, EMPTY)
  BY <1>1, <1>2, LinkedIsWalkable
<1>4. ListPages(a, EMPTY) = F[EMPTY]
  <2>1. F[EMPTY] \in SUBSET Pages
    BY <1>1 DEF Allocator
  <2> QED BY <1>2, <2>1, LinkedPages
<1>5. p \in F[EMPTY]
  BY <1>3, <1>4, RemovedPage
<1> HIDE DEF p
<1>6. SamePages(a, unlinked) /\ Lists(unlinked, G) /\ unlinked \in Allocator
  <2>1. p \in Pages
    BY <1>1, <1>5 DEF Allocator
  <2> QED BY <1>1, <1>5, <2>1, UnlinkLists, UnlinkType
<1> HIDE DEF unlinked
<1>7. \A i \in Slots : G[i] \cap {p} = {}
  BY <1>1, <1>5 DEF Lists
<1>8. /\ Lists(released, G) /\ released \in Allocator
      /\ released.table = a.table \ {p} /\ ~released.failed
      /\ released.num_pages = a.num_pages
      /\ released.empty_pages = a.empty_pages
      /\ \A q \in released.table : released.header[q] = a.header[q]
  <2>1. {p} \in SUBSET unlinked.table
    BY <1>1, <1>5, <1>6 DEF SamePages
  <2> HIDE DEF G
  <2> QED BY <1>6, <1>7, <2>1, ReleaseLists, ReleaseType DEF SamePages
<1> HIDE DEF released, G
<1> DEFINE r == [released EXCEPT !.num_pages = @ - 1, !.empty_pages = @ - 1]
<1>9. /\ r.table = a.table \ {p} /\ ~r.failed
      /\ r.num_pages = a.num_pages - 1
      /\ r.empty_pages = a.empty_pages - 1
      /\ r.header = released.header
      /\ r.pages = released.pages /\ r.next = released.next
      /\ r.prev = released.prev
  BY <1>8 DEF Allocator
<1>10. ba_remove_page(a) = r
  <2>1. ~unlinked.failed
    BY <1>6 DEF SamePages
  <2> QED BY <1>3, <2>1 DEF ba_remove_page, p, unlinked, released
<1> HIDE DEF r
<1>11. Lists(r, G)
  BY <1>8, <1>9 DEF Lists
<1> QED BY <1>5, <1>8, <1>9, <1>10, <1>11 DEF G

----------------------------------------------------------------------------
(* Sound allocators *)

\* The list page p belongs on.  The strays X are the empty pages that
\* ba_defragment has put on the low list; without it there are none.
FiledUnder(a, X, p) == IF p \in X THEN LOW ELSE ba_get_slot(a.header[p])

\* The pages that belong on each list.
Members(a, X) == [i \in Slots |-> {p \in a.table \ {a.alloc} :
                                        FiledUnder(a, X, p) = i}]

Sound(a, X) == /\ ~a.failed
               /\ a.alloc \in a.table \cup {NULL}
               /\ \A p \in X : p \in a.table \ {a.alloc} /\ a.header[p] = Blocks
               /\ Lists(a, Members(a, X))
               /\ a.num_pages = Cardinality(a.table)
               /\ a.empty_pages = Cardinality(Members(a, X)[EMPTY])
               /\ a.empty_pages < MaxEmpty

----------------------------------------------------------------------------

LEMMA SlotFacts ==
    ASSUME NEW free \in Header
    PROVE  /\ ba_get_slot(free) = NULL <=> free = {}
           /\ ba_get_slot(free) = EMPTY <=> free = Blocks
           /\ Used(free) = 0 <=> free = Blocks
           /\ ba_get_slot(free) \in Slots \cup {NULL}
           /\ NULL \notin Slots
<1>1. Used(free) \in Nat /\ (Used(free) = 0 <=> free = Blocks)
  <2>1. IsFiniteSet(Blocks \ free)
    BY BlocksAssumption, FS_Subset
  <2>2. Cardinality(Blocks \ free) \in Nat
    BY <2>1, FS_CardinalityType
  <2>3. Cardinality(Blocks \ free) = 0 <=> Blocks \ free = {}
    BY <2>1, FS_EmptySet
  <2> QED BY <2>2, <2>3 DEF Used, Header
<1>2. Blocks # {}
  BY BlocksAssumption, FS_EmptySet
<1>3. NULL \notin Slots
  BY NullAssumption DEF Slots, LOW, HIGH, EMPTY
<1> HIDE DEF Used
<1> QED BY <1>1, <1>2, <1>3 DEF ba_get_slot, Slots, LOW, HIGH, EMPTY

LEMMA SameLists ==
    ASSUME NEW a, NEW r, NEW F, Lists(a, F), r.table = a.table,
           r.pages = a.pages, r.next = a.next, r.prev = a.prev
    PROVE  Lists(r, F)
BY DEF Lists

LEMMA TableIsFinite ==
    ASSUME NEW a \in Allocator
    PROVE  /\ IsFiniteSet(a.table) /\ a.table \in SUBSET Pages
           /\ \A M \in SUBSET a.table : IsFiniteSet(M) /\ Cardinality(M) \in Nat
<1>1. a.table \in SUBSET Pages
  BY DEF Allocator
<1>2. IsFiniteSet(a.table)
  BY <1>1, PagesAssumption, FS_Subset
<1> QED BY <1>1, <1>2, FS_Subset, FS_CardinalityType

LEMMA MembersAreFiled ==
    ASSUME NEW a \in Allocator, NEW X
    PROVE  /\ Members(a, X) \in [Slots -> SUBSET a.table]
           /\ \A i \in Slots : /\ a.alloc \notin Members(a, X)[i]
                               /\ \A p \in Members(a, X)[i] :
                                    /\ p \in a.table \ {a.alloc}
                                    /\ FiledUnder(a, X, p) = i
           /\ \A i, j \in Slots : i # j => Members(a, X)[i] \cap Members(a, X)[j] = {}
BY DEF Members

\* ba_update_slot keeps an allocator sound: the page that is filed ends up on the
\* list its new header calls for; a page is released only if it is empty.
Stored(a, p, free) ==
    IF ba_get_slot(a.header[p]) = ba_get_slot(free) THEN a.header[p] ELSE free

UpdateSlotSafe(a, p, free, r, X) ==
    /\ Sound(r, X)
    /\ r.table \subseteq a.table
    /\ \A q \in r.table \ {p} : r.header[q] = a.header[q]
    /\ p \in r.table => r.header[p] = Stored(a, p, free)
    /\ \A q \in a.table \ r.table :
            q # a.alloc /\ (IF q = p THEN free ELSE a.header[q]) = Blocks

LEMMA UpdateSlotSound ==
    ASSUME NEW a \in Allocator, NEW X, Sound(a, X), NEW p \in a.table \ {a.alloc},
           NEW free \in Header, a.header[p] # Blocks \/ free = Blocks
    PROVE  UpdateSlotSafe(a, p, free, ba_update_slot(a, p, free), X)
<1> DEFINE old == ba_get_slot(a.header[p])
           new == ba_get_slot(free)
           off == IF old = NULL THEN a ELSE DOUBLE_UNLINK(a, old, p)
           on  == IF new = NULL THEN off ELSE DOUBLE_LINK(off, new, p)
           put == [on EXCEPT !.header[p] = free]
           emp == [put EXCEPT !.empty_pages = @ + 1]
           F   == Members(a, X)
           F0  == [i \in Slots |-> F[i] \ {p}]
           F1  == [i \in Slots |-> IF i = new THEN F0[i] \cup {p} ELSE F0[i]]
<1>p. p \in Pages /\ p \in a.table /\ p # a.alloc
  BY DEF Allocator
<1>h. a.header \in [Pages -> Header] /\ a.header[p] \in Header
  BY <1>p DEF Allocator
<1>o. old \in Slots \cup {NULL} /\ (old # new => old # EMPTY) /\ NULL \notin Slots
  BY <1>h, SlotFacts
<1>n. new \in Slots \cup {NULL} /\ (new = EMPTY <=> free = Blocks)
      /\ (Used(free) = 0 <=> free = Blocks)
  BY SlotFacts
<1>x. old # new => p \notin X
  BY DEF Sound
<1>m. /\ F \in [Slots -> SUBSET a.table]
      /\ old # new => \A i \in Slots : p \in F[i] <=> i = old
      /\ \A i \in Slots : a.alloc \notin F[i]
  BY <1>p, <1>x DEF Members, FiledUnder
<1>l. Lists(a, F) /\ ~a.failed
  BY DEF Sound
<1>w. SameWorking(a, a)
  BY DEF SameWorking
<1>1. CASE old = new
  <2>1. ba_update_slot(a, p, free) = a
    BY <1>1, <1>p DEF ba_update_slot
  <2> QED BY <1>1, <2>1 DEF UpdateSlotSafe, Stored
<1>2. CASE old # new
  <2>1. off \in Allocator /\ SamePages(a, off) /\ Lists(off, F0)
        /\ SameWorking(a, off)
    <3>1. CASE old = NULL
      <4>1. F0 = F
        BY <1>2, <3>1, <1>m, <1>o
      <4> HIDE DEF F0, F
      <4> QED BY <3>1, <4>1, <1>l, <1>w DEF SamePages
    <3>2. CASE old # NULL
      <4>1. old \in Slots /\ p \in F[old]
        BY <1>2, <3>2, <1>o, <1>m
      <4>2. F0 = [F EXCEPT ![old] = @ \ {p}]
        <5>1. \A i \in Slots : p \in F[i] <=> i = old
          BY <1>2, <1>m
        <5> HIDE DEF old, F
        <5> QED BY <4>1, <5>1, <1>m
      <4> HIDE DEF F0, F, old
      <4> QED BY <3>2, <4>1, <4>2, <1>l, <1>p, UnlinkLists, UnlinkType, UnlinkFrame
    <3> QED BY <3>1, <3>2
  <2>2. \A i \in Slots : p \notin F0[i]
    OBVIOUS
  <2>m. F0 \in [Slots -> SUBSET a.table] /\ F1 \in [Slots -> SUBSET a.table]
    BY <1>m, <1>p
  <2> HIDE DEF off, F
  <2>3. on \in Allocator /\ SamePages(a, on) /\ Lists(on, F1)
        /\ SameWorking(a, on)
    <3>1. CASE new = NULL
      <4>1. F1 = F0
        BY <3>1, <1>o
      <4> HIDE DEF F0, F1
      <4> QED BY <3>1, <4>1, <2>1
    <3>2. CASE new # NULL
      <4>1. new \in Slots
        BY <3>2, <1>n
      <4>2. F1 = [F0 EXCEPT ![new] = @ \cup {p}]
        BY <4>1
      <4> HIDE DEF F0, F1, new
      <4>3. p \in off.table
        BY <2>1, <1>p DEF SamePages
      <4>4. /\ SamePages(off, DOUBLE_LINK(off, new, p))
            /\ Lists(DOUBLE_LINK(off, new, p), F1)
        BY <4>1, <4>2, <4>3, <2>1, <2>2, LinkLists
      <4>5. DOUBLE_LINK(off, new, p) \in Allocator
            /\ SameWorking(off, DOUBLE_LINK(off, new, p))
        BY <4>1, <1>p, <2>1, LinkType, LinkFrame
      <4> QED BY <3>2, <4>4, <4>5, <2>1 DEF SamePages, SameWorking
    <3> QED BY <3>1, <3>2
  <2> HIDE DEF on, F0, F1
  <2>4. /\ put \in Allocator
        /\ put.table = a.table /\ put.alloc = a.alloc /\ ~put.failed
        /\ put.num_pages = a.num_pages /\ put.empty_pages = a.empty_pages
        /\ put.header[p] = free
        /\ \A q \in Pages \ {p} : put.header[q] = a.header[q]
        /\ Lists(put, F1)
    <3> DEFINE f == [on.header EXCEPT ![p] = free]
    <3>1. f \in [Pages -> Header] /\ f[p] = free
          /\ \A q \in Pages \ {p} : f[q] = a.header[q]
      BY <2>3, <1>p, <1>h DEF Allocator, SamePages
    <3> HIDE DEF f
    <3>2. [on EXCEPT !.header = f] \in Allocator
      BY <3>1, <2>3 DEF Allocator
    <3>3. put = [on EXCEPT !.header = f]
      BY DEF f
    <3>4. Lists([on EXCEPT !.header = f], F1)
      <4>1. /\ [on EXCEPT !.header = f].table = on.table
            /\ [on EXCEPT !.header = f].pages = on.pages
            /\ [on EXCEPT !.header = f].next = on.next
            /\ [on EXCEPT !.header = f].prev = on.prev
        BY <2>3 DEF Allocator
      <4> QED BY <4>1, <2>3, SameLists
    <3>5. [on EXCEPT !.header = f].header = f
          /\ [on EXCEPT !.header = f].table = on.table
          /\ [on EXCEPT !.header = f].alloc = on.alloc
          /\ [on EXCEPT !.header = f].failed = on.failed
          /\ [on EXCEPT !.header = f].num_pages = on.num_pages
          /\ [on EXCEPT !.header = f].empty_pages = on.empty_pages
      BY <2>3 DEF Allocator
    <3> HIDE DEF put
    <3> QED BY <3>1, <3>2, <3>3, <3>4, <3>5, <2>3, <1>l
             DEF SamePages, SameWorking
  <2>on. ~on.failed
    BY <2>3, <1>l DEF SamePages
  <2> HIDE DEF put
  <2>5. Members(put, X) = F1
    <3>1. ASSUME NEW i \in Slots
          PROVE  {q \in put.table \ {put.alloc} :
                        FiledUnder(put, X, q) = i} = F1[i]
      <4>1. a.table \in SUBSET Pages
        BY DEF Allocator
      <4>2. \A q \in a.table \ {a.alloc, p} : q \in F[i]
                <=> FiledUnder(put, X, q) = i
        BY <2>4, <4>1 DEF F, Members, FiledUnder
      <4>3. F[i] \in SUBSET (a.table \ {a.alloc})
        BY DEF F, Members
      <4> QED BY <1>2, <1>x, <2>4, <4>2, <4>3, <1>p DEF F0, F1, FiledUnder
    <3> QED BY <3>1, <2>m DEF Members
  <2>x. \A q \in X : q \in put.table \ {put.alloc} /\ put.header[q] = Blocks
    BY <1>2, <1>x, <2>4, TableIsFinite DEF Sound
  <2>6. CASE free # Blocks
    <3>1. ba_update_slot(a, p, free) = put
      BY <2>6, <2>on, <1>2, <1>n, <1>p DEF ba_update_slot, put, on, off
    <3>2. F1[EMPTY] = F[EMPTY]
      BY <1>2, <2>6, <1>n, <1>o, <1>m DEF F0, F1, F, Slots
    <3>3. Sound(put, X)
      BY <2>4, <2>5, <2>x, <3>2 DEF Sound, F
    <3> QED BY <3>1, <3>3, <2>4, <1>p, <1>2, TableIsFinite DEF UpdateSlotSafe, Stored
  <2>7. CASE free = Blocks
    <3>1. EMPTY \in Slots /\ new = EMPTY /\ Used(free) = 0
      BY <2>7, <1>n DEF Slots
    <3>2. /\ F1[EMPTY] = F[EMPTY] \cup {p} /\ p \notin F[EMPTY]
          /\ F[EMPTY] \in SUBSET a.table
      BY <1>2, <3>1, <1>o, <1>m DEF F0, F1, F
    <3>3. Cardinality(F1[EMPTY]) = a.empty_pages + 1
          /\ a.empty_pages + 1 \in Int /\ a.empty_pages \in Int
      <4>1. IsFiniteSet(F[EMPTY]) /\ Cardinality(F[EMPTY]) \in Nat
        BY <3>2, TableIsFinite
      <4>2. a.empty_pages = Cardinality(F[EMPTY])
        BY DEF Sound, F
      <4>3. Cardinality(F1[EMPTY]) = Cardinality(F[EMPTY]) + 1
        BY <4>1, <3>2, FS_AddElement
      <4> QED BY <4>1, <4>2, <4>3
    <3>4. /\ emp \in Allocator
          /\ emp.table = a.table /\ emp.alloc = a.alloc /\ ~emp.failed
          /\ emp.num_pages = a.num_pages
          /\ emp.empty_pages = a.empty_pages + 1
          /\ emp.header = put.header
          /\ Lists(emp, F1)
      <4>1. /\ emp.table = put.table /\ emp.alloc = put.alloc
            /\ emp.failed = put.failed /\ emp.num_pages = put.num_pages
            /\ emp.empty_pages = put.empty_pages + 1
            /\ emp.header = put.header /\ emp.pages = put.pages
            /\ emp.next = put.next /\ emp.prev = put.prev
            /\ emp \in Allocator
        BY <2>4 DEF Allocator
      <4> HIDE DEF emp
      <4> QED BY <4>1, <2>4, SameLists
    <3>5. Members(emp, X) = F1
      BY <3>4, <2>4, <2>5 DEF Members, FiledUnder
    <3>6. ba_update_slot(a, p, free)
            = IF emp.empty_pages >= MaxEmpty THEN ba_remove_page(emp) ELSE emp
      BY <3>1, <2>on, <1>2, <1>p DEF ba_update_slot, put, on, off
    <3> HIDE DEF emp
    <3>7. CASE ~(emp.empty_pages >= MaxEmpty)
      <4>1. ba_update_slot(a, p, free) = emp
        BY <3>6, <3>7
      <4>2. emp.empty_pages < MaxEmpty
        BY <3>7, <3>3, <3>4, MaxEmptyAssumption
      <4>3. Sound(emp, X)
        BY <2>4, <2>x, <3>3, <3>4, <3>5, <4>2 DEF Sound
      <4> QED BY <4>1, <4>3, <3>4, <2>4, <1>p, <1>2, TableIsFinite DEF UpdateSlotSafe, Stored
    <3>8. CASE emp.empty_pages >= MaxEmpty
      <4> DEFINE r == ba_remove_page(emp)
      <4>1. ba_update_slot(a, p, free) = r
        BY <3>6, <3>8
      <4>2. emp.pages[EMPTY] # NULL
        <5>1. WellLinked(emp.pages[EMPTY], emp.next, emp.prev, F1[EMPTY])
          BY <3>1, <3>4 DEF Lists
        <5>2. emp.pages[EMPTY] = NULL => Closed(emp.pages[EMPTY], emp.next, {})
          BY DEF Closed
        <5>3. p \in F1[EMPTY]
          BY <3>2
        <5> QED BY <5>1, <5>2, <5>3 DEF WellLinked
      <4>3. PICK q \in F1[EMPTY] :
                 /\ Lists(r, [F1 EXCEPT ![EMPTY] = @ \ {q}])
                 /\ r.table = emp.table \ {q}
                 /\ \A x \in r.table : r.header[x] = emp.header[x]
                 /\ r.num_pages = emp.num_pages - 1
                 /\ r.empty_pages = emp.empty_pages - 1
                 /\ ~r.failed
        BY <3>4, <4>2, RemovePageLists
      <4>4. r \in Allocator /\ r.alloc = a.alloc
        BY <3>4, RemovePageType, RemovePageFrame DEF SameWorking
      <4> HIDE DEF r
      <4>5. q \in a.table /\ q # a.alloc /\ emp.header[q] = Blocks /\ q \notin X
        <5>1. q \in Members(emp, X)[EMPTY]
          BY <3>5
        <5>2. q \in emp.table \ {emp.alloc} /\ FiledUnder(emp, X, q) = EMPTY
          BY <5>1, <3>1 DEF Members
        <5>4. q \notin X /\ ba_get_slot(emp.header[q]) = EMPTY
          BY <5>2 DEF FiledUnder, LOW, EMPTY
        <5>3. emp.header[q] \in Header
          BY <5>2, <3>4 DEF Allocator
        <5> QED BY <5>2, <5>3, <5>4, <3>4, SlotFacts
      <4>6. Members(r, X) = [F1 EXCEPT ![EMPTY] = @ \ {q}]
        <5>1. ASSUME NEW i \in Slots
              PROVE  Members(r, X)[i] = Members(emp, X)[i] \ {q}
          BY <4>3, <4>4, <3>4 DEF Members, FiledUnder
        <5>2. \A i \in Slots \ {EMPTY} : q \notin Members(emp, X)[i]
          BY <3>1, <3>5, MembersAreFiled, <3>4
        <5>3. \A i \in Slots : Members(r, X)[i] = [F1 EXCEPT ![EMPTY] = @ \ {q}][i]
          BY <5>1, <5>2, <3>5, <2>m
        <5> QED BY <5>3, <2>m DEF Members
      <4>7. /\ r.num_pages = Cardinality(r.table)
            /\ r.empty_pages = Cardinality(Members(r, X)[EMPTY])
            /\ r.empty_pages < MaxEmpty
        <5>1. IsFiniteSet(a.table) /\ IsFiniteSet(F1[EMPTY])
              /\ Cardinality(a.table) \in Nat
          BY <3>1, <2>m, TableIsFinite
        <5>2. r.num_pages = Cardinality(r.table)
          <6>1. Cardinality(a.table \ {q}) = Cardinality(a.table) - 1
            BY <5>1, <4>5, FS_RemoveElement
          <6>2. a.num_pages = Cardinality(a.table)
            BY DEF Sound
          <6> QED BY <6>1, <6>2, <4>3, <3>4
        <5>3. Members(r, X)[EMPTY] = F1[EMPTY] \ {q}
          BY <4>6, <3>1, <2>m
        <5>4. r.empty_pages = Cardinality(Members(r, X)[EMPTY])
          <6>1. Cardinality(F1[EMPTY] \ {q}) = Cardinality(F1[EMPTY]) - 1
            BY <5>1, FS_RemoveElement
          <6> QED BY <6>1, <5>3, <4>3, <3>3, <3>4
        <5>5. r.empty_pages < MaxEmpty
          BY <4>3, <3>3, <3>4, MaxEmptyAssumption DEF Sound
        <5> QED BY <5>2, <5>4, <5>5
      <4>8. Sound(r, X)
        <5>1. r.alloc \in r.table \cup {NULL}
          BY <4>3, <4>4, <4>5, <3>4 DEF Sound
        <5>2. Lists(r, Members(r, X))
          BY <4>3, <4>6
        <5>3. \A x \in X : x \in r.table \ {r.alloc} /\ r.header[x] = Blocks
          BY <2>4, <2>x, <3>4, <4>3, <4>4, <4>5
        <5> QED BY <5>1, <5>2, <5>3, <4>3, <4>7 DEF Sound
      <4>9. \A x \in a.table \ r.table :
                x # a.alloc /\ (IF x = p THEN free ELSE a.header[x]) = Blocks
        BY <4>3, <4>5, <3>4, <2>4, <2>7, TableIsFinite
      <4>10. /\ r.table \subseteq a.table
             /\ \A x \in r.table \ {p} : r.header[x] = a.header[x]
             /\ p \in r.table => r.header[p] = Stored(a, p, free)
        BY <1>2, <4>3, <3>4, <2>4, TableIsFinite DEF Stored
      <4> QED BY <4>1, <4>8, <4>9, <4>10 DEF UpdateSlotSafe
    <3> QED BY <3>7, <3>8
  <2> QED BY <2>6, <2>7
<1> QED BY <1>1, <1>2

----------------------------------------------------------------------------
(* Whole operations of an allocator *)

\* The page of the second working header is a page other than alloc, and filing
\* it takes it off no list that it is not on.
LastFreeOK(a) ==
    a.last_free # NULL => /\ a.last_free \in a.table \ {a.alloc}
                          /\ a.header[a.last_free] # Blocks \/ a.hf = Blocks

\* It had a block in use when its header was loaded.
LastFreeBusy(a) == a.last_free # NULL => a.header[a.last_free] # Blocks

\* r is a after pages were filed and empty pages released: only the header of
\* last_free may be another, and only pages without a block in use are gone.
Filed(a, r, X) ==
    /\ r \in Allocator
    /\ Sound(r, X)
    /\ LastFreeOK(r)
    /\ r.last_free # NULL => r.header[r.last_free] = a.header[r.last_free]
    /\ r.alloc = a.alloc /\ r.h = a.h
    /\ \/ r.last_free = NULL
       \/ r.last_free = a.last_free /\ r.hf = a.hf
    /\ r.table \subseteq a.table
    /\ \A q \in r.table \ {a.last_free} : r.header[q] = a.header[q]
    /\ a.last_free \in r.table =>
            r.header[a.last_free] \in {a.header[a.last_free], a.hf}
    /\ \A q \in a.table \ r.table :
            /\ q # a.alloc
            /\ (IF q = a.last_free THEN a.hf ELSE a.header[q]) = Blocks

LEMMA SameSound ==
    ASSUME NEW a, NEW r, NEW X, Sound(a, X), r.failed = a.failed, r.alloc = a.alloc,
           r.table = a.table, r.pages = a.pages, r.next = a.next,
           r.prev = a.prev, r.num_pages = a.num_pages,
           r.empty_pages = a.empty_pages,
           \A q \in a.table \ {a.alloc} : r.header[q] = a.header[q]
    PROVE  Sound(r, X)
<1>1. Members(r, X) = Members(a, X)
  <2>1. \A i \in Slots :
            {p \in r.table \ {r.alloc} : FiledUnder(r, X, p) = i}
          = {p \in a.table \ {a.alloc} : FiledUnder(a, X, p) = i}
    BY DEF FiledUnder
  <2> QED BY <2>1 DEF Members
<1>2. Lists(r, Members(a, X))
  BY SameLists DEF Sound
<1> QED BY <1>1, <1>2 DEF Sound

LEMMA FlushFiles ==
    ASSUME NEW a \in Allocator, NEW X, Sound(a, X), LastFreeOK(a)
    PROVE  /\ Filed(a, FlushLastFree(a), X) /\ FlushLastFree(a).last_free = NULL
           /\ a.last_free \in FlushLastFree(a).table =>
                FlushLastFree(a).header[a.last_free] = Stored(a, a.last_free, a.hf)
<1>1. CASE a.last_free = NULL
  <2>1. FlushLastFree(a) = a
    BY <1>1 DEF FlushLastFree
  <2>2. a.last_free \notin a.table
    BY <1>1, NullIsNoPage, TableIsFinite
  <2> QED BY <1>1, <2>1, <2>2 DEF Filed
<1>2. CASE a.last_free # NULL
  <2> DEFINE p == a.last_free
             u == ba_update_slot(a, p, a.hf)
             r == [u EXCEPT !.last_free = NULL, !.hf = {}]
  <2>1. /\ p \in a.table \ {a.alloc} /\ p \in Pages /\ a.hf \in Header
        /\ a.header[p] # Blocks \/ a.hf = Blocks
    BY <1>2 DEF LastFreeOK, Allocator
  <2>2. u \in Allocator /\ SameWorking(a, u) /\ UpdateSlotSafe(a, p, a.hf, u, X)
    BY <2>1, UpdateSlotType, UpdateSlotFrame, UpdateSlotSound
  <2>3. FlushLastFree(a) = r
    BY <1>2 DEF FlushLastFree
  <2> HIDE DEF u
  <2>4. /\ r \in Allocator
        /\ r.last_free = NULL
        /\ r.alloc = u.alloc /\ r.h = u.h /\ r.table = u.table
        /\ r.header = u.header /\ r.pages = u.pages /\ r.next = u.next
        /\ r.prev = u.prev /\ r.failed = u.failed
        /\ r.num_pages = u.num_pages /\ r.empty_pages = u.empty_pages
    BY <2>2 DEF Allocator, PageOrNull, Header
  <2> HIDE DEF r
  <2>5. Sound(r, X)
    BY <2>2, <2>4, SameSound DEF UpdateSlotSafe
  <2>6. LastFreeOK(r)
    BY <2>4 DEF LastFreeOK
  <2>7. p \in u.table => u.header[p] = Stored(a, p, a.hf)
    BY <2>2 DEF UpdateSlotSafe
  <2>8. Stored(a, p, a.hf) \in {a.header[p], a.hf}
    BY DEF Stored
  <2> QED BY <2>1, <2>2, <2>3, <2>4, <2>5, <2>6, <2>7, <2>8
           DEF Filed, UpdateSlotSafe, SameWorking
<1> QED BY <1>1, <1>2

LEMMA ShrinkFiles ==
    ASSUME NEW a \in Allocator, NEW X, Sound(a, X), LastFreeOK(a), LastFreeBusy(a)
    PROVE  Filed(a, ba_shrink(a), X)
<1> DEFINE F == Members(a, X)
           P == F[EMPTY]
           G == [F EXCEPT ![EMPTY] = {}]
           v == ReleasePages(a, P)
           r == [v EXCEPT !.pages[EMPTY] = NULL,
                          !.num_pages = @ - a.empty_pages, !.empty_pages = 0]
<1>e. EMPTY \in Slots
  BY DEF Slots
<1>1. CASE a.pages[EMPTY] = NULL
  <2>1. ba_shrink(a) = a
    BY <1>1 DEF ba_shrink
  <2> QED BY <2>1 DEF Filed
<1>2. CASE a.pages[EMPTY] # NULL
  <2>1. /\ EMPTY \in Slots /\ F \in [Slots -> SUBSET a.table]
        /\ P \in SUBSET a.table
        /\ Lists(a, F) /\ WellLinked(a.pages[EMPTY], a.next, a.prev, P)
        /\ ~a.failed
    BY <1>e, MembersAreFiled DEF Sound, Lists
  <2>2. Walkable(a, EMPTY) /\ ListPages(a, EMPTY) = P
    <3>1. P \in SUBSET Pages
      BY <2>1, TableIsFinite
    <3> HIDE DEF P
    <3> QED BY <2>1, <3>1, LinkedIsWalkable, LinkedPages
  <2>3. ba_shrink(a) = r
    BY <1>2, <2>2 DEF ba_shrink
  <2>4. \A q \in P : q # a.alloc /\ a.header[q] = Blocks /\ q \notin X
    <3>1. \A q \in P : q \in a.table \ {a.alloc} /\ FiledUnder(a, X, q) = EMPTY
      BY <2>1 DEF Members
    <3>2. \A q \in P : a.header[q] \in Header
      BY <2>1, TableIsFinite DEF Allocator
    <3>3. \A q \in P : q \notin X /\ ba_get_slot(a.header[q]) = EMPTY
      BY <3>1 DEF FiledUnder, LOW, EMPTY
    <3> QED BY <3>1, <3>2, <3>3, SlotFacts
  <2>5. \A i, j \in Slots : i # j => F[i] \cap F[j] = {}
    BY MembersAreFiled
  <2>g. G \in [Slots -> SUBSET a.table] /\ \A i \in Slots : G[i] \cap P = {}
    BY <2>1, <2>5
  <2>6. /\ v \in Allocator /\ SameWorking(a, v)
        /\ v.table = a.table \ P
        /\ v.pages = a.pages /\ v.failed = a.failed
        /\ v.num_pages = a.num_pages /\ v.empty_pages = a.empty_pages
        /\ \A q \in Pages \ P : /\ v.header[q] = a.header[q]
                                /\ v.next[q] = a.next[q]
                                /\ v.prev[q] = a.prev[q]
    <3>1. v \in Allocator /\ SameWorking(a, v)
      BY ReleaseType, ReleaseFrame
    <3> QED BY <3>1 DEF ReleasePages, Allocator
  <2> HIDE DEF v, F, P, G
  <2>7. /\ r \in Allocator /\ SameWorking(a, r)
        /\ r.table = v.table /\ r.failed = v.failed
        /\ r.header = v.header /\ r.next = v.next /\ r.prev = v.prev
        /\ r.pages = [v.pages EXCEPT ![EMPTY] = NULL]
        /\ r.num_pages = a.num_pages - a.empty_pages
        /\ r.empty_pages = 0
    <3> DEFINE f == [v.pages EXCEPT ![EMPTY] = NULL]
               m == v.num_pages - a.empty_pages
               w == [v EXCEPT !.pages = f, !.num_pages = m, !.empty_pages = 0]
    <3>f. f \in [Slots -> PageOrNull]
      BY <2>6 DEF Allocator, PageOrNull
    <3>m. m \in Int /\ 0 \in Int
      BY <2>6 DEF Allocator
    <3>2. r = w
      OBVIOUS
    <3>3. m = a.num_pages - a.empty_pages
      BY <2>6
    <3> HIDE DEF f, m, r
    <3>4. w \in Allocator
      <4> DEFINE n == 0
      <4>1. n \in Int
        OBVIOUS
      <4> HIDE DEF n
      <4>2. [v EXCEPT !.pages = f, !.num_pages = m, !.empty_pages = n]
                \in Allocator
        BY <2>6, <3>f, <3>m, <4>1 DEF Allocator
      <4> QED BY <4>2 DEF n
    <3>6. SameWorking(v, w)
      BY <2>6 DEF Allocator, SameWorking
    <3>5. /\ w.table = v.table /\ w.failed = v.failed
          /\ w.header = v.header /\ w.next = v.next /\ w.prev = v.prev
          /\ w.pages = f /\ w.num_pages = m /\ w.empty_pages = 0
      BY <2>6 DEF Allocator
    <3> QED BY <2>6, <3>2, <3>3, <3>4, <3>5, <3>6 DEF SameWorking, f
  <2> HIDE DEF r
  <2>8. ASSUME NEW i \in Slots
        PROVE  G[i] \in SUBSET r.table /\ WellLinked(r.pages[i], r.next, r.prev, G[i])
    <3>1. G[i] \in SUBSET r.table /\ G[i] \in SUBSET Pages /\ G[i] \cap P = {}
      BY <2>g, <2>6, <2>7, TableIsFinite
    <3>2. CASE i = EMPTY
      <4>1. G[i] = {} /\ r.pages[i] = NULL
        BY <2>1, <2>6, <2>7, <3>2 DEF G, Allocator
      <4>2. \A S : Closed(NULL, r.next, S) => {} \subseteq S
        OBVIOUS
      <4> QED BY <3>1, <4>1, <4>2 DEF WellLinked, Closed
    <3>3. CASE i # EMPTY
      <4>1. G[i] = F[i] /\ r.pages[i] = a.pages[i]
        BY <2>1, <2>6, <2>7, <3>3 DEF G, Allocator
      <4>2. WellLinked(a.pages[i], a.next, a.prev, G[i])
        BY <2>1, <4>1 DEF Lists
      <4>3. \A q \in G[i] : r.next[q] = a.next[q] /\ r.prev[q] = a.prev[q]
        BY <2>6, <2>7, <3>1
      <4> QED BY <3>1, <4>1, <4>2, <4>3, OtherPages
    <3> QED BY <3>2, <3>3
  <2>9. Members(r, X) = G
    <3>1. ASSUME NEW i \in Slots
          PROVE  {q \in r.table \ {r.alloc} : FiledUnder(r, X, q) = i} = G[i]
      <4>1. /\ r.table = a.table \ P /\ r.alloc = a.alloc
            /\ \A q \in r.table : r.header[q] = a.header[q]
        BY <2>6, <2>7, TableIsFinite DEF SameWorking
      <4>2. {q \in r.table \ {r.alloc} : FiledUnder(r, X, q) = i}
            = {q \in a.table \ {a.alloc} : FiledUnder(a, X, q) = i} \ P
        BY <4>1 DEF FiledUnder
      <4>3. {q \in a.table \ {a.alloc} : FiledUnder(a, X, q) = i} = F[i]
        BY DEF F, Members
      <4>4. G[i] = F[i] \ P
        BY <2>1, <2>5 DEF G, P
      <4> QED BY <4>2, <4>3, <4>4
    <3> QED BY <3>1, <2>g DEF Members
  <2>10. /\ r.num_pages = Cardinality(r.table)
         /\ r.empty_pages = Cardinality(G[EMPTY])
         /\ r.empty_pages < MaxEmpty
    <3>1. IsFiniteSet(a.table) /\ a.table \cap P = P
      BY <2>1, TableIsFinite
    <3>2. Cardinality(a.table \ P) = Cardinality(a.table) - Cardinality(P)
      BY <3>1, FS_Difference
    <3>3. a.num_pages = Cardinality(a.table) /\ a.empty_pages = Cardinality(P)
      BY DEF Sound, F, P
    <3>4. G[EMPTY] = {} /\ Cardinality({}) = 0
      BY <2>1, FS_EmptySet DEF G
    <3> QED BY <2>6, <2>7, <3>2, <3>3, <3>4, MaxEmptyAssumption
  <2>11. Sound(r, X)
    <3>1. Lists(r, G)
      BY <2>8, <2>g, <2>5, <2>1 DEF Lists, G
    <3>2. r.alloc \in r.table \cup {NULL}
      BY <2>4, <2>6, <2>7 DEF Sound, SameWorking
    <3>3. ~r.failed
      BY <2>1, <2>6, <2>7
    <3>4. \A q \in X : q \in r.table \ {r.alloc} /\ r.header[q] = Blocks
      BY <2>4, <2>6, <2>7, TableIsFinite DEF Sound, SameWorking
    <3> QED BY <2>9, <2>10, <3>1, <3>2, <3>3, <3>4 DEF Sound
  <2>12. a.last_free \notin P
    BY <2>1, <2>4, NullIsNoPage, TableIsFinite DEF LastFreeBusy
  <2>13. \A q \in r.table : r.header[q] = a.header[q]
    BY <2>6, <2>7, TableIsFinite
  <2>14. LastFreeOK(r)
    BY <2>6, <2>7, <2>12, <2>13 DEF LastFreeOK, SameWorking
  <2>15. r.last_free # NULL => r.header[r.last_free] = a.header[r.last_free]
    BY <2>13, <2>14 DEF LastFreeOK
  <2> QED BY <2>3, <2>4, <2>6, <2>7, <2>11, <2>12, <2>13, <2>14, <2>15
           DEF Filed, SameWorking
<1> QED BY <1>1, <1>2

\* The allocator after ba_get_page, with the page it returned in a->alloc: a page
\* that has a free block, while the page it had before counts as full.
Renewed(a, new) == [ba_get_page(a, a.alloc, new) EXCEPT !.alloc = TakenPage(a, new)]

LEMMA TakeSlotHasPage ==
    ASSUME NEW a, ~NeedsMalloc(a)
    PROVE  TakeSlot(a) \in Slots /\ a.pages[TakeSlot(a)] # NULL
BY DEF NeedsMalloc, TakeSlot, Slots, LOW, HIGH, EMPTY

LEMMA FullHeader ==
    ASSUME NEW a \in Allocator, NEW X, Sound(a, X)
    PROVE  LET full == IF a.alloc = NULL THEN a
                       ELSE [a EXCEPT !.header[a.alloc] = {}]
           IN  /\ full \in Allocator /\ SameWorking(a, full)
               /\ Lists(full, Members(a, X)) /\ full.table = a.table
               /\ full.pages = a.pages /\ ~full.failed
               /\ full.num_pages = a.num_pages
               /\ full.empty_pages = a.empty_pages
               /\ \A q \in Pages \ {a.alloc} : full.header[q] = a.header[q]
<1> DEFINE full == IF a.alloc = NULL THEN a
                   ELSE [a EXCEPT !.header[a.alloc] = {}]
<1>1. /\ full \in Allocator /\ SameWorking(a, full)
      /\ full.table = a.table /\ full.pages = a.pages
      /\ full.next = a.next /\ full.prev = a.prev
      /\ full.failed = a.failed /\ full.num_pages = a.num_pages
      /\ full.empty_pages = a.empty_pages
      /\ \A q \in Pages \ {a.alloc} : full.header[q] = a.header[q]
  <2>1. CASE a.alloc = NULL
    BY <2>1 DEF SameWorking
  <2>2. CASE a.alloc # NULL
    <3> DEFINE f == [a.header EXCEPT ![a.alloc] = {}]
    <3>1. f \in [Pages -> Header]
          /\ \A q \in Pages \ {a.alloc} : f[q] = a.header[q]
      BY DEF Allocator, Header
    <3>2. full = [a EXCEPT !.header = f]
      BY <2>2
    <3> HIDE DEF f, full
    <3>3. [a EXCEPT !.header = f] \in Allocator
      BY <3>1 DEF Allocator
    <3> QED BY <3>1, <3>2, <3>3 DEF Allocator, SameWorking
  <2> QED BY <2>1, <2>2
<1> HIDE DEF full
<1>2. Lists(full, Members(a, X)) /\ ~full.failed
  BY <1>1, SameLists DEF Sound
<1>3. /\ full \in Allocator /\ SameWorking(a, full)
      /\ Lists(full, Members(a, X)) /\ full.table = a.table
      /\ full.pages = a.pages /\ ~full.failed
      /\ full.num_pages = a.num_pages
      /\ full.empty_pages = a.empty_pages
      /\ \A q \in Pages \ {a.alloc} : full.header[q] = a.header[q]
  BY <1>1, <1>2
<1> QED BY <1>3 DEF full

LEMMA ShiftFrame ==
    ASSUME NEW a \in Allocator, NEW i \in Slots
    PROVE  SameWorking(a, DOUBLE_SHIFT(a, i))
BY DEF SameWorking, DOUBLE_SHIFT, Fail, Allocator

LEMMA RenewedIsSound ==
    ASSUME NEW a \in Allocator, NEW X, Sound(a, X), NEW new,
           NeedsMalloc(a) => new \in Pages \ a.table
    PROVE  LET r == Renewed(a, new)
               p == TakenPage(a, new)
           IN  /\ r \in Allocator
               /\ Sound(r, X \ {p})
               /\ r.alloc = p /\ p \in Pages
               /\ r.last_free = a.last_free /\ r.hf = a.hf
               /\ r.table = a.table \cup {p} /\ p # a.alloc
               /\ \A q \in a.table \ {a.alloc} : r.header[q] = a.header[q]
               /\ a.alloc # NULL => r.header[a.alloc] = {}
               /\ p \notin a.table => r.header[p] = Blocks
               /\ r.header[p] # {}
<1> DEFINE p == TakenPage(a, new)
           F == Members(a, X)
           full == IF a.alloc = NULL THEN a ELSE [a EXCEPT !.header[a.alloc] = {}]
           got == ba_get_page(a, a.alloc, new)
           r == Renewed(a, new)
<1>1. /\ full \in Allocator /\ SameWorking(a, full)
      /\ Lists(full, F) /\ full.table = a.table /\ ~full.failed
      /\ full.pages = a.pages
      /\ full.num_pages = a.num_pages /\ full.empty_pages = a.empty_pages
      /\ \A q \in Pages \ {a.alloc} : full.header[q] = a.header[q]
  BY FullHeader
<1>2. a.alloc # NULL => full.header[a.alloc] = {}
  BY DEF Allocator, PageOrNull
<1>3. /\ NeedsMalloc(full) = NeedsMalloc(a) /\ TakeSlot(full) = TakeSlot(a)
      /\ Mapped(a, a.alloc)
  BY <1>1 DEF NeedsMalloc, TakeSlot, Mapped, Sound
<1>4. /\ F \in [Slots -> SUBSET a.table] /\ \A i \in Slots : a.alloc \notin F[i]
      /\ a.table \in SUBSET Pages /\ EMPTY \in Slots
  BY MembersAreFiled, TableIsFinite DEF Slots
<1> DEFINE malloced == ba_alloc_page(full, new)
           taken == DOUBLE_SHIFT(full, TakeSlot(a))
<1>5. got = IF NeedsMalloc(a) THEN malloced
            ELSE IF TakeSlot(a) = EMPTY
                 THEN [taken EXCEPT !.empty_pages = @ - 1] ELSE taken
  BY <1>3 DEF ba_get_page
<1> HIDE DEF full, F, got, malloced, taken
\* What the page that is taken leaves behind, in each case.
<1> DEFINE G == [i \in Slots |-> F[i] \ {p}]
<1>6. /\ got \in Allocator /\ SameWorking(a, got) /\ ~got.failed
      /\ p \in Pages /\ p # a.alloc
      /\ got.table = a.table \cup {p}
      /\ got.num_pages = Cardinality(got.table)
      /\ \A q \in a.table : got.header[q] = full.header[q]
      /\ p \notin a.table => got.header[p] = Blocks
      /\ got.header[p] # {}
      /\ Lists(got, G)
      /\ got.empty_pages = Cardinality(G[EMPTY])
      /\ got.empty_pages < MaxEmpty
  <2>1. /\ a.num_pages = Cardinality(a.table) /\ IsFiniteSet(a.table)
        /\ a.empty_pages = Cardinality(F[EMPTY]) /\ a.empty_pages < MaxEmpty
        /\ IsFiniteSet(F[EMPTY]) /\ Cardinality(F[EMPTY]) \in Nat
    BY <1>4, TableIsFinite DEF Sound, F
  <2>2. CASE NeedsMalloc(a)
    <3>1. p = new /\ p \in Pages \ a.table /\ got = malloced
      BY <1>5, <2>2 DEF TakenPage
    <3>2. /\ malloced \in Allocator /\ SameWorking(full, malloced)
          /\ malloced.failed = full.failed
          /\ malloced.table = full.table \cup {p}
          /\ malloced.num_pages = full.num_pages + 1
          /\ malloced.empty_pages = full.empty_pages
          /\ malloced.header[p] = Blocks
          /\ malloced.pages = full.pages
          /\ \A q \in Pages \ {p} : /\ malloced.header[q] = full.header[q]
                                   /\ malloced.next[q] = full.next[q]
                                   /\ malloced.prev[q] = full.prev[q]
      <4>1. malloced \in Allocator
        BY <1>1, <3>1, AllocPageType DEF malloced
      <4> HIDE DEF p
      <4> QED BY <1>1, <3>1, <4>1
              DEF malloced, ba_alloc_page, Allocator, SameWorking
    <3>3. Blocks # {} /\ p # a.alloc
      BY BlocksAssumption, FS_EmptySet, NullIsNoPage, <3>1 DEF Sound
    <3>4. G = F
      BY <1>4, <3>1
    <3>5. Lists(malloced, F)
      <4>1. ASSUME NEW i \in Slots
            PROVE  /\ F[i] \in SUBSET malloced.table
                   /\ WellLinked(malloced.pages[i], malloced.next,
                                 malloced.prev, F[i])
        <5>1. F[i] \in SUBSET a.table /\ F[i] \in SUBSET Pages
          BY <1>4
        <5>2. \A q \in F[i] : /\ malloced.next[q] = full.next[q]
                              /\ malloced.prev[q] = full.prev[q]
          BY <3>1, <3>2, <5>1
        <5>3. WellLinked(full.pages[i], full.next, full.prev, F[i])
          BY <1>1 DEF Lists
        <5> QED BY <1>1, <3>2, <5>1, <5>2, <5>3, OtherPages
      <4> QED BY <4>1, <1>1 DEF Lists
    <3>6. Cardinality(a.table \cup {p}) = Cardinality(a.table) + 1
      BY <2>1, <3>1, FS_AddElement
    <3> HIDE DEF G, p
    <3> QED BY <1>1, <1>4, <2>1, <3>1, <3>2, <3>3, <3>4, <3>5, <3>6
            DEF SameWorking
  <2>3. CASE ~NeedsMalloc(a)
    <3> DEFINE i == TakeSlot(a)
    <3>1. i \in Slots /\ p = a.pages[i] /\ p # NULL
      BY <2>3, TakeSlotHasPage DEF TakenPage
    <3> HIDE DEF i, p
    <3>2. /\ p \in F[i] /\ SamePages(full, taken)
          /\ Lists(taken, [F EXCEPT ![i] = @ \ {p}])
          /\ taken \in Allocator /\ SameWorking(full, taken)
      <4>1. full.pages[i] = p
        BY <1>1, <3>1
      <4> QED BY <1>1, <3>1, <4>1, ShiftLists, ShiftType, ShiftFrame DEF taken, i
    <3>3. p \in a.table /\ p # a.alloc /\ p \in Pages
      BY <1>4, <3>1, <3>2
    <3>4. a.header[p] # {} /\ full.header[p] = a.header[p]
      <4>1. FiledUnder(a, X, p) = i /\ a.header[p] \in Header
        BY <3>1, <3>2, <3>3, MembersAreFiled DEF F, Allocator
      <4>2. a.header[p] # {}
        <5>1. Blocks # {}
          BY BlocksAssumption, FS_EmptySet
        <5>2. p \in X => a.header[p] = Blocks
          BY DEF Sound
        <5> QED BY <3>1, <4>1, <5>1, <5>2, SlotFacts DEF FiledUnder
      <4> QED BY <1>1, <3>3, <4>2
    <3>5. [F EXCEPT ![i] = @ \ {p}] = G
      <4>1. \A j \in Slots \ {i} : p \notin F[j]
        BY <3>1, <3>2, MembersAreFiled DEF F
      <4> QED BY <1>4, <3>1, <4>1
    <3>6. a.table \cup {p} = a.table
      BY <3>3
    <3>7. CASE i = EMPTY
      <4>1. got = [taken EXCEPT !.empty_pages = @ - 1]
        BY <1>5, <2>3, <3>7 DEF i
      <4> HIDE DEF G
      <4>2. /\ got \in Allocator /\ SameWorking(taken, got)
            /\ got.table = taken.table /\ got.failed = taken.failed
            /\ got.header = taken.header /\ got.num_pages = taken.num_pages
            /\ got.empty_pages = taken.empty_pages - 1
            /\ got.pages = taken.pages /\ got.next = taken.next
            /\ got.prev = taken.prev
        BY <3>2, <4>1 DEF Allocator, SameWorking
      <4>3. Lists(got, G)
        BY <3>2, <3>5, <4>2, SameLists
      <4>4. G[EMPTY] = F[EMPTY] \ {p}
        BY <1>4 DEF G
      <4>5. Cardinality(G[EMPTY]) = Cardinality(F[EMPTY]) - 1
        BY <2>1, <3>2, <3>7, <4>4, FS_RemoveElement
      <4>6. got.empty_pages = Cardinality(G[EMPTY]) /\ got.empty_pages < MaxEmpty
        BY <1>1, <2>1, <3>2, <4>2, <4>5, MaxEmptyAssumption DEF SamePages
      <4> QED BY <1>1, <2>1, <3>2, <3>3, <3>4, <3>6, <4>2, <4>3, <4>6
              DEF SamePages, SameWorking
    <3>8. CASE i # EMPTY
      <4>1. got = taken
        BY <1>5, <2>3, <3>8 DEF i
      <4>2. G[EMPTY] = F[EMPTY]
        BY <1>4, <3>1, <3>2, <3>8, MembersAreFiled DEF F
      <4> HIDE DEF G
      <4> QED BY <1>1, <2>1, <3>2, <3>3, <3>4, <3>5, <3>6, <4>1, <4>2
              DEF SamePages, SameWorking
    <3> QED BY <3>7, <3>8
  <2> QED BY <2>2, <2>3
<1> HIDE DEF p
<1>7. /\ r \in Allocator /\ r.alloc = p
      /\ r.last_free = got.last_free /\ r.hf = got.hf
      /\ r.table = got.table /\ r.header = got.header /\ r.pages = got.pages
      /\ r.next = got.next /\ r.prev = got.prev /\ r.failed = got.failed
      /\ r.num_pages = got.num_pages /\ r.empty_pages = got.empty_pages
  <2>1. r = [got EXCEPT !.alloc = p]
    BY DEF Renewed, got, p
  <2> HIDE DEF r
  <2> QED BY <1>6, <2>1 DEF Allocator, PageOrNull
<1> HIDE DEF r, G
<1>8. Members(r, X \ {p}) = G
  <2>1. ASSUME NEW i \in Slots
        PROVE  {q \in r.table \ {r.alloc} : FiledUnder(r, X \ {p}, q) = i} = G[i]
    <3>1. G[i] = {q \in a.table \ {a.alloc} :
                    FiledUnder(a, X, q) = i} \ {p}
      BY DEF G, F, Members
    <3>2. r.table \ {r.alloc} = a.table \ {p}
      BY <1>6, <1>7
    <3>3. \A q \in a.table \ {a.alloc} : r.header[q] = a.header[q]
      BY <1>1, <1>4, <1>6, <1>7
    <3>4. a.alloc \in a.table => ba_get_slot(r.header[a.alloc]) # i
      <4>1. a.alloc \in a.table => r.header[a.alloc] = {}
        BY <1>2, <1>4, <1>6, <1>7, NullIsNoPage
      <4>2. ba_get_slot({}) = NULL /\ NULL \notin Slots
        BY SlotFacts DEF Header
      <4> QED BY <4>1, <4>2
    <3>5. a.alloc \notin X
      BY DEF Sound
    <3> QED BY <3>1, <3>2, <3>3, <3>4, <3>5 DEF FiledUnder
  <2> QED BY <2>1 DEF Members, G
<1>9. Sound(r, X \ {p})
  <2>1. Lists(r, G)
    BY <1>6, <1>7, SameLists
  <2>2. \A q \in X \ {p} : q \in r.table \ {r.alloc} /\ r.header[q] = Blocks
    BY <1>1, <1>4, <1>6, <1>7 DEF Sound
  <2> QED BY <1>6, <1>7, <1>8, <2>1, <2>2 DEF Sound
<1>10. a.alloc # NULL => r.header[a.alloc] = {}
  BY <1>2, <1>6, <1>7 DEF Sound
<1>11. \A q \in a.table \ {a.alloc} : r.header[q] = a.header[q]
  BY <1>1, <1>4, <1>6, <1>7
<1>12. r.last_free = a.last_free /\ r.hf = a.hf
  BY <1>6, <1>7 DEF SameWorking
<1> QED BY <1>6, <1>7, <1>9, <1>10, <1>11, <1>12 DEF r, p

LEMMA EmptyIsSound ==
    /\ Sound(EmptyAllocator, {})
    /\ LastFreeOK(EmptyAllocator) /\ LastFreeBusy(EmptyAllocator)
<1> DEFINE a == EmptyAllocator
<1>1. /\ a.table = {} /\ a.alloc = NULL /\ ~a.failed /\ a.last_free = NULL
      /\ a.num_pages = 0 /\ a.empty_pages = 0
      /\ \A i \in Slots : a.pages[i] = NULL
  BY DEF EmptyAllocator
<1> HIDE DEF a
<1>2. Members(a, {}) = [i \in Slots |-> {}]
  BY <1>1 DEF Members, FiledUnder
<1>3. EMPTY \in Slots /\ Cardinality({}) = 0
  BY FS_EmptySet DEF Slots
<1>4. \A i \in Slots : WellLinked(a.pages[i], a.next, a.prev, {})
  BY <1>1 DEF WellLinked, Closed
<1>5. Lists(a, Members(a, {}))
  BY <1>2, <1>4 DEF Lists
<1>6. Sound(a, {}) /\ LastFreeOK(a) /\ LastFreeBusy(a)
  BY <1>1, <1>2, <1>3, <1>5, MaxEmptyAssumption DEF Sound, LastFreeOK, LastFreeBusy
<1> QED BY <1>6 DEF a

----------------------------------------------------------------------------
(* The type invariant *)

LEMMA GlobalGetPageType ==
    ASSUME s \in Allocator, NEW new \in MallocResults
    PROVE  ba_global_get_page(new) \in Allocator
<1> DEFINE p     == TakenPage(s, new)
           got0  == ba_get_page(s, s.alloc, new)
           got   == [got0 EXCEPT !.alloc = p]
           ready == IF p = got.last_free THEN FlushLastFree(got) ELSE got
<1>1. NeedsMalloc(s) => new \in Pages
  BY DEF MallocResults
<1>2. got0 \in Allocator
  <2>1. NeedsMalloc([s EXCEPT !.header[s.alloc] = {}]) = NeedsMalloc(s)
    BY DEF NeedsMalloc, Allocator
  <2>2. s.alloc \in PageOrNull
    BY DEF Allocator
  <2> QED BY <1>1, <2>1, <2>2, GetPageType
<1>3. p \in Pages
  BY <1>1 DEF TakenPage, TakeSlot, NeedsMalloc, Allocator, PageOrNull, Slots,
              LOW, HIGH, EMPTY
<1>4. got \in Allocator
  <2> HIDE DEF got0, p
  <2> QED BY <1>2, <1>3 DEF Allocator, PageOrNull
<1>5. ready \in Allocator
  <2> HIDE DEF got, p
  <2> QED BY <1>4, FlushType
<1>6. [ready EXCEPT !.h = ready.header[p]] \in Allocator
  <2> HIDE DEF ready, p
  <2> QED BY <1>3, <1>5 DEF Allocator
<1>7. Fail(ready) \in Allocator
  <2> HIDE DEF ready
  <2> QED BY <1>5, FailType
<1> QED BY <1>4, <1>6, <1>7 DEF ba_global_get_page

LEMMA ShiftStepType ==
    ASSUME TypeOK, NEW a \in Allocator, Shift(a),
           a.failed \/ a.h = {} \/ a.alloc # NULL
    PROVE  s' \in Allocator /\ live' \subseteq Pages \X Blocks
<1>1. CASE s' = Fail(a) /\ UNCHANGED live
  BY <1>1, FailType DEF TypeOK
<1>2. CASE ~a.failed /\ \E b \in a.h : /\ s' = [a EXCEPT !.h = @ \ {b}]
                                       /\ live' = live \cup {<<a.alloc, b>>}
  <2>1. PICK b \in a.h : /\ s' = [a EXCEPT !.h = @ \ {b}]
                         /\ live' = live \cup {<<a.alloc, b>>}
    BY <1>2
  <2>2. a.alloc \in Pages /\ b \in Blocks /\ a.h \ {b} \in Header
    BY <1>2 DEF Allocator, PageOrNull, Header
  <2>3. s' \in Allocator
    BY <2>1, <2>2 DEF Allocator
  <2>4. live' \subseteq Pages \X Blocks
    BY <2>1, <2>2 DEF TypeOK
  <2> QED BY <2>3, <2>4
<1> QED BY <1>1, <1>2 DEF Shift

\* ba_global_get_page leaves a page in a->alloc whenever it returns.
LEMMA GlobalGetPageAlloc ==
    ASSUME s \in Allocator, NEW new \in MallocResults
    PROVE  ba_global_get_page(new).alloc \in Pages
<1> DEFINE p     == TakenPage(s, new)
           got0  == ba_get_page(s, s.alloc, new)
           got   == [got0 EXCEPT !.alloc = p]
           ready == IF p = got.last_free THEN FlushLastFree(got) ELSE got
<1>1. p \in Pages
  BY DEF TakenPage, TakeSlot, NeedsMalloc, Allocator, PageOrNull, Slots,
         LOW, HIGH, EMPTY, MallocResults
<1>2. got0 \in Allocator
  <2>1. NeedsMalloc([s EXCEPT !.header[s.alloc] = {}]) = NeedsMalloc(s)
    BY DEF NeedsMalloc, Allocator
  <2>2. s.alloc \in PageOrNull /\ (NeedsMalloc(s) => new \in Pages)
    BY DEF Allocator, MallocResults
  <2> QED BY <2>1, <2>2, GetPageType
<1>3. got \in Allocator /\ got.alloc = p
  <2> HIDE DEF got0, p
  <2> QED BY <1>1, <1>2 DEF Allocator, PageOrNull
<1>4. ready \in Allocator /\ ready.alloc = p
  <2> HIDE DEF got, p
  <2> QED BY <1>3, FlushType, FlushFrame
<1>5. /\ [ready EXCEPT !.h = ready.header[p]].alloc = p
      /\ Fail(ready).alloc = p
  <2> HIDE DEF ready, p
  <2> QED BY <1>4 DEF Allocator, Fail
<1> QED BY <1>1, <1>3, <1>5 DEF ba_global_get_page

LEMMA GetFreePageType ==
    ASSUME s \in Allocator, NEW p \in Pages
    PROVE  /\ ba_get_free_page(p) \in Allocator
           /\ ba_get_free_page(p).alloc = s.alloc
           /\ ba_get_free_page(p).h = s.h
<1> DEFINE filed == FlushLastFree(s)
<1>1. filed \in Allocator /\ filed.alloc = s.alloc /\ filed.h = s.h
  BY FlushType, FlushFrame
<1> HIDE DEF filed
<1>2. filed.header[p] \in Header
  BY <1>1 DEF Allocator
<1>3. LET r == [filed EXCEPT !.last_free = p, !.hf = filed.header[p]]
      IN  r \in Allocator /\ r.alloc = s.alloc /\ r.h = s.h
  BY <1>1, <1>2 DEF Allocator, PageOrNull
<1>4. /\ Fail(filed) \in Allocator
      /\ Fail(filed).alloc = s.alloc /\ Fail(filed).h = s.h
  BY <1>1 DEF Fail, Allocator
<1> USE DEF filed
<1> QED BY <1>3, <1>4 DEF ba_get_free_page

LEMMA UnshiftType ==
    ASSUME s \in Allocator, s.h # {} => s.alloc # NULL,
           NEW p \in Pages, NEW b \in Blocks
    PROVE  /\ Unshift(p, b) \in Allocator
           /\ Unshift(p, b).h # {} => Unshift(p, b).alloc # NULL
<1> DEFINE found == ba_get_free_page(p)
<1>1. p # NULL
  BY NullIsNoPage
<1>2. CASE p = s.alloc
  <2>1. s.h \cup {b} \in Header
    BY DEF Allocator, Header
  <2>2. /\ [s EXCEPT !.h = @ \cup {b}] \in Allocator
        /\ [s EXCEPT !.h = @ \cup {b}].alloc # NULL
    BY <1>1, <1>2, <2>1 DEF Allocator
  <2> QED BY <1>2, <2>2 DEF Unshift
<1>3. CASE p # s.alloc /\ p = s.last_free
  <2>1. s.hf \cup {b} \in Header
    BY DEF Allocator, Header
  <2>2. /\ [s EXCEPT !.hf = @ \cup {b}] \in Allocator
        /\ [s EXCEPT !.hf = @ \cup {b}].alloc = s.alloc
        /\ [s EXCEPT !.hf = @ \cup {b}].h = s.h
    BY <2>1 DEF Allocator
  <2> QED BY <1>3, <2>2 DEF Unshift
<1>4. CASE p # s.alloc /\ p # s.last_free
  <2>1. found \in Allocator /\ found.alloc = s.alloc /\ found.h = s.h
    BY GetFreePageType
  <2> HIDE DEF found
  <2>2. found.hf \cup {b} \in Header
    BY <2>1 DEF Allocator, Header
  <2>3. /\ [found EXCEPT !.hf = @ \cup {b}] \in Allocator
        /\ [found EXCEPT !.hf = @ \cup {b}].alloc = s.alloc
        /\ [found EXCEPT !.hf = @ \cup {b}].h = s.h
    BY <2>1, <2>2 DEF Allocator
  <2> USE DEF found
  <2> QED BY <1>4, <2>1, <2>3 DEF Unshift
<1> QED BY <1>2, <1>3, <1>4

LEMMA WriteBackType ==
    ASSUME NEW a \in Allocator
    PROVE  /\ WriteBack(a) \in Allocator
           /\ WriteBack(a).alloc = a.alloc
           /\ WriteBack(a).h = a.h
<1> DEFINE w == IF a.alloc = NULL THEN a ELSE [a EXCEPT !.header[a.alloc] = a.h]
<1>1. w \in Allocator /\ w.alloc = a.alloc /\ w.h = a.h
  <2>1. CASE a.alloc = NULL
    BY <2>1
  <2>2. CASE a.alloc # NULL
    <3>1. [a.header EXCEPT ![a.alloc] = a.h] \in [Pages -> Header]
      BY <2>2 DEF Allocator, PageOrNull
    <3> QED BY <2>2, <3>1 DEF Allocator
  <2> QED BY <2>1, <2>2
<1> HIDE DEF w
<1>2. FlushLastFree(w) \in Allocator /\ FlushLastFree(w).alloc = a.alloc
                                     /\ FlushLastFree(w).h = a.h
  BY <1>1, FlushType, FlushFrame
<1> USE DEF w
<1> QED BY <1>2 DEF WriteBack

\* TypeOK is inductive together with: blocks are handed out of a page only.
TypeInv == TypeOK /\ (s.h # {} => s.alloc # NULL)

LEMMA TypeInit == Init => TypeInv
<1>1. EmptyAllocator.h = {}
  BY DEF EmptyAllocator
<1> QED BY <1>1, EmptyAllocatorType DEF Init, TypeInv, TypeOK

LEMMA ShiftStepAlloc ==
    ASSUME NEW a \in Allocator, Shift(a), a.h = {} \/ a.alloc # NULL
    PROVE  s'.h # {} => s'.alloc # NULL
BY DEF Shift, Fail, Allocator

LEMMA TypeStep == TypeInv /\ [Next]_vars => TypeInv'
<1> SUFFICES ASSUME TypeInv, [Next]_vars PROVE TypeInv'
  OBVIOUS
<1> USE DEF TypeInv
<1>0. s \in Allocator
  BY DEF TypeOK
<1>1. CASE ba_alloc_fast
  BY <1>0, <1>1, ShiftStepType, ShiftStepAlloc DEF ba_alloc_fast, TypeOK
<1>2. CASE ba_alloc_slow
  <2>1. PICK new \in MallocResults :
            /\ Shift(ba_global_get_page(new))
            /\ collided' = (collided \/ Collides(new))
    BY <1>2 DEF ba_alloc_slow
  <2>2. /\ ba_global_get_page(new) \in Allocator
        /\ ba_global_get_page(new).alloc # NULL
    <3>1. ba_global_get_page(new).alloc \in Pages
      BY <1>0, GlobalGetPageAlloc
    <3>2. ba_global_get_page(new) \in Allocator
      BY <1>0, GlobalGetPageType
    <3> QED BY <3>1, <3>2, NullIsNoPage
  <2>3. s' \in Allocator /\ live' \subseteq Pages \X Blocks
    BY <2>1, <2>2, ShiftStepType
  <2>4. s'.h # {} => s'.alloc # NULL
    BY <2>1, <2>2, ShiftStepAlloc
  <2>5. collided' \in BOOLEAN /\ spoiled' = spoiled
    BY <1>2, <2>1 DEF ba_alloc_slow, Collides, TypeOK
  <2> QED BY <2>3, <2>4, <2>5 DEF TypeOK
<1>3. CASE ba_free
  <2>1. PICK p \in Pages, b \in Blocks : /\ s' = Unshift(p, b)
                                         /\ live' = live \ {<<p, b>>}
    BY <1>3 DEF ba_free
  <2> QED BY <1>0, <1>3, <2>1, UnshiftType DEF ba_free, TypeOK
<1>4. CASE ba_count \/ ba_walk
  <2>1. /\ s' \in {Fail(s), WriteBack(s)} /\ UNCHANGED <<live, collided>>
        /\ spoiled' \in {spoiled, TRUE}
    BY <1>4 DEF ba_count, ba_walk, VisitPages
  <2>2. Fail(s) \in Allocator /\ Fail(s).alloc = s.alloc /\ Fail(s).h = s.h
    BY <1>0 DEF Fail, Allocator
  <2> QED BY <1>0, <2>1, <2>2, WriteBackType DEF TypeOK
<1>5. CASE ShrinkPages
  <2>1. ba_shrink(s) \in Allocator
    BY <1>0, ShrinkType
  <2>2. ba_shrink(s).alloc = s.alloc /\ ba_shrink(s).h = s.h
    BY <1>0 DEF ba_shrink, ReleasePages, Fail, Allocator
  <2> QED BY <1>5, <2>1, <2>2 DEF ShrinkPages, TypeOK
<1>6. CASE ba_free_all
  BY <1>6, EmptyAllocatorType DEF ba_free_all, TypeOK, EmptyAllocator
<1>7. CASE UNCHANGED vars
  BY <1>7 DEF vars, TypeOK
<1> QED BY <1>1, <1>2, <1>3, <1>4, <1>5, <1>6, <1>7 DEF Next

\* Every state of the allocator is a state of its data structures: list heads
\* and links are pages or NULL, free lists hold blocks of their page.
THEOREM TypeCorrect == Spec => []TypeOK
<1>1. Spec => []TypeInv
  BY TypeInit, TypeStep, PTL DEF Spec
<1>2. TypeInv => TypeOK
  BY DEF TypeInv
<1> QED BY <1>1, <1>2, PTL

----------------------------------------------------------------------------
(* The safety invariant *)

\* The blocks in L are free neither in the working header of their page nor, if
\* the page is not alloc, in its own one.
Holds(a, L) ==
    \A x \in L : /\ x[1] \in a.table
                 /\ x[1] = a.alloc => x[2] \notin a.h
                 /\ x[1] = a.last_free => x[2] \notin a.hf
                 /\ x[1] # a.alloc => x[2] \notin a.header[x[1]]

Good(a, L, X) == Sound(a, X) /\ LastFreeOK(a) /\ Holds(a, L)

Inv == TypeInv /\ (Intact => Good(s, live, {}) /\ LastFreeBusy(s))

----------------------------------------------------------------------------
(* The operations keep an allocator good *)

LEMMA FiledIsGood ==
    ASSUME NEW a \in Allocator, NEW r, NEW X, Filed(a, r, X),
           NEW L \in SUBSET (Pages \X Blocks), Holds(a, L)
    PROVE  Good(r, L, X)
<1>1. ASSUME NEW x \in L
      PROVE  /\ x[1] \in r.table
             /\ x[1] = r.alloc => x[2] \notin r.h
             /\ x[1] = r.last_free => x[2] \notin r.hf
             /\ x[1] # r.alloc => x[2] \notin r.header[x[1]]
  <2>1. x[1] \in Pages /\ x[2] \in Blocks /\ x[1] \in a.table /\ x[1] # NULL
    BY NullIsNoPage DEF Holds
  <2>2. x[1] \in r.table
    BY <2>1 DEF Filed, Holds
  <2>3. x[1] # r.alloc => x[2] \notin r.header[x[1]]
    BY <2>2 DEF Filed, Holds
  <2> QED BY <2>1, <2>2, <2>3 DEF Filed, Holds
<1> QED BY <1>1 DEF Good, Holds, Filed

LEMMA ShiftIsGood ==
    ASSUME NEW a \in Allocator, NEW X, Good(a, live, X), a.h # {}, a.alloc # NULL,
           ~spoiled, Shift(a)
    PROVE  Good(s', live', X) /\ (LastFreeBusy(a) => LastFreeBusy(s'))
<1>1. PICK b \in a.h : /\ s' = [a EXCEPT !.h = @ \ {b}]
                       /\ live' = live \cup {<<a.alloc, b>>}
  BY DEF Shift, Good, Sound
<1>2. /\ s'.alloc = a.alloc /\ s'.h = a.h \ {b}
      /\ s'.last_free = a.last_free /\ s'.hf = a.hf
      /\ s'.table = a.table /\ s'.header = a.header /\ s'.pages = a.pages
      /\ s'.next = a.next /\ s'.prev = a.prev /\ s'.failed = a.failed
      /\ s'.num_pages = a.num_pages /\ s'.empty_pages = a.empty_pages
  BY <1>1 DEF Allocator
<1>3. Sound(s', X)
  BY <1>2, SameSound DEF Good
<1>4. LastFreeOK(s') /\ (LastFreeBusy(a) => LastFreeBusy(s'))
  BY <1>2 DEF Good, LastFreeOK, LastFreeBusy
<1>5. Holds(s', live')
  <2>1. a.alloc \in a.table /\ a.alloc # a.last_free
    BY DEF Good, Sound, LastFreeOK
  <2>2. \A x \in live' : x \in live \/ (x[1] = a.alloc /\ x[2] = b)
    BY <1>1
  <2> QED BY <1>2, <2>1, <2>2 DEF Good, Holds
<1> QED BY <1>3, <1>4, <1>5 DEF Good

LEMMA GlobalGetPageIsGood ==
    ASSUME s \in Allocator, live \in SUBSET (Pages \X Blocks), NEW X, Good(s, live, X),
           s.h = {}, NEW new \in MallocResults, ~Collides(new)
    PROVE  LET a == ba_global_get_page(new)
           IN  /\ Good(a, live, X \ {TakenPage(s, new)}) /\ a.h # {}
               /\ LastFreeBusy(s) => LastFreeBusy(a)
<1> DEFINE p     == TakenPage(s, new)
           got   == Renewed(s, new)
           ready == IF p = got.last_free THEN FlushLastFree(got) ELSE got
           a     == [ready EXCEPT !.h = ready.header[p]]
<1>1. /\ got \in Allocator /\ Sound(got, X \ {p})
      /\ got.alloc = p /\ p \in Pages /\ p # s.alloc
      /\ got.last_free = s.last_free /\ got.hf = s.hf
      /\ got.table = s.table \cup {p}
      /\ \A q \in s.table \ {s.alloc} : got.header[q] = s.header[q]
      /\ s.alloc # NULL => got.header[s.alloc] = {}
      /\ got.header[p] # {}
  <2>1. NeedsMalloc(s) => new \in Pages \ s.table
    BY DEF MallocResults
  <2> QED BY <2>1, RenewedIsSound DEF Good
<1>2. p = s.last_free => ba_get_slot(s.header[p]) = ba_get_slot(s.hf)
  BY DEF Collides
<1>3. ba_global_get_page(new) = IF ready.failed \/ p \notin ready.table
                                THEN Fail(ready) ELSE a
  BY <1>1 DEF ba_global_get_page, Renewed, Sound
<1> HIDE DEF got, p
<1>4. /\ ready \in Allocator
      /\ ready.last_free = IF p = s.last_free THEN NULL ELSE s.last_free
      /\ p # s.last_free => ready.hf = s.hf
      /\ ready.alloc = p
      /\ ready.table = got.table /\ ready.header = got.header
      /\ ready.pages = got.pages /\ ready.next = got.next
      /\ ready.prev = got.prev /\ ready.failed = got.failed
      /\ ready.num_pages = got.num_pages
      /\ ready.empty_pages = got.empty_pages
  <2>1. CASE p # s.last_free
    BY <1>1, <2>1
  <2>2. CASE p = s.last_free
    <3>1. p # NULL /\ p \in s.table \ {s.alloc}
      BY <1>1, <2>2, NullIsNoPage DEF Good, LastFreeOK
    <3>2. ba_update_slot(got, p, got.hf) = got
      BY <1>1, <1>2, <2>2, <3>1 DEF ba_update_slot
    <3>3. ready = [got EXCEPT !.last_free = NULL, !.hf = {}]
      BY <1>1, <2>2, <3>1, <3>2 DEF FlushLastFree
    <3> HIDE DEF ready
    <3> QED BY <1>1, <2>2, <3>3 DEF Allocator, PageOrNull, Header
  <2> QED BY <2>1, <2>2
<1> HIDE DEF ready
<1>5. ba_global_get_page(new) = a
  BY <1>1, <1>3, <1>4 DEF Sound
<1>6. /\ a.h = got.header[p]
      /\ a.last_free = ready.last_free /\ a.hf = ready.hf /\ a.alloc = p
      /\ a.table = got.table /\ a.header = got.header
      /\ a.pages = got.pages /\ a.next = got.next
      /\ a.prev = got.prev /\ a.failed = got.failed
      /\ a.num_pages = got.num_pages /\ a.empty_pages = got.empty_pages
  BY <1>4 DEF Allocator
<1> HIDE DEF a
<1>7. Sound(a, X \ {p})
  BY <1>1, <1>6, SameSound
<1>8. LastFreeOK(a) /\ (LastFreeBusy(s) => LastFreeBusy(a))
  BY <1>1, <1>4, <1>6 DEF Good, LastFreeOK, LastFreeBusy
<1>9. ASSUME NEW x \in live
      PROVE  /\ x[1] \in a.table
             /\ x[1] = a.alloc => x[2] \notin a.h
             /\ x[1] = a.last_free => x[2] \notin a.hf
             /\ x[1] # a.alloc => x[2] \notin a.header[x[1]]
  <2>1. x[1] \in s.table /\ x[1] # NULL /\ x[1] \in Pages
    BY NullIsNoPage DEF Good, Holds
  <2>2. x[2] \notin got.header[x[1]]
    <3>1. CASE x[1] = s.alloc
      BY <1>1, <2>1, <3>1
    <3>2. CASE x[1] # s.alloc
      BY <1>1, <2>1, <3>2 DEF Good, Holds
    <3> QED BY <3>1, <3>2
  <2>3. x[1] = a.last_free => x[2] \notin a.hf
    BY <1>4, <1>6, <2>1 DEF Good, Holds
  <2> QED BY <1>1, <1>6, <2>1, <2>2, <2>3
<1>10. Good(a, live, X \ {p}) /\ a.h # {}
  BY <1>1, <1>6, <1>7, <1>8, <1>9 DEF Good, Holds
<1> QED BY <1>5, <1>8, <1>10 DEF p

LEMMA UnshiftIsGood ==
    ASSUME s \in Allocator, live \in SUBSET (Pages \X Blocks), NEW X, Good(s, live, X),
           NEW p \in Pages, NEW b \in Blocks, <<p, b>> \in live
    PROVE  /\ Good(Unshift(p, b), live \ {<<p, b>>}, X)
           /\ LastFreeBusy(s) => LastFreeBusy(Unshift(p, b))
<1> DEFINE L == live \ {<<p, b>>}
<1>1. \A x \in L : x[1] = p => x[2] # b
  OBVIOUS
<1>2. /\ p \in s.table
      /\ p # s.alloc => b \notin s.header[p]
  BY DEF Good, Holds
<1>3. CASE p = s.alloc
  <2> DEFINE r == [s EXCEPT !.h = @ \cup {b}]
  <2>1. /\ r.alloc = s.alloc /\ r.h = s.h \cup {b}
        /\ r.last_free = s.last_free /\ r.hf = s.hf
        /\ r.table = s.table /\ r.header = s.header /\ r.pages = s.pages
        /\ r.next = s.next /\ r.prev = s.prev /\ r.failed = s.failed
        /\ r.num_pages = s.num_pages /\ r.empty_pages = s.empty_pages
    BY DEF Allocator
  <2>2. Unshift(p, b) = r
    BY <1>3 DEF Unshift
  <2> HIDE DEF r
  <2>3. Sound(r, X) /\ LastFreeOK(r) /\ (LastFreeBusy(s) => LastFreeBusy(r))
    BY <2>1, SameSound DEF Good, LastFreeOK, LastFreeBusy
  <2>4. Holds(r, L)
    BY <1>1, <1>3, <2>1 DEF Good, Holds
  <2> QED BY <2>2, <2>3, <2>4 DEF Good
<1>4. CASE p # s.alloc /\ p = s.last_free
  <2> DEFINE r == [s EXCEPT !.hf = @ \cup {b}]
  <2>1. /\ r.alloc = s.alloc /\ r.h = s.h
        /\ r.last_free = s.last_free /\ r.hf = s.hf \cup {b}
        /\ r.table = s.table /\ r.header = s.header /\ r.pages = s.pages
        /\ r.next = s.next /\ r.prev = s.prev /\ r.failed = s.failed
        /\ r.num_pages = s.num_pages /\ r.empty_pages = s.empty_pages
    BY DEF Allocator
  <2>2. Unshift(p, b) = r
    BY <1>4 DEF Unshift
  <2> HIDE DEF r
  <2>3. Sound(r, X) /\ LastFreeOK(r) /\ (LastFreeBusy(s) => LastFreeBusy(r))
    BY <2>1, SameSound DEF Good, LastFreeOK, LastFreeBusy
  <2>4. Holds(r, L)
    BY <1>1, <1>4, <2>1 DEF Good, Holds
  <2> QED BY <2>2, <2>3, <2>4 DEF Good
<1>5. CASE p # s.alloc /\ p # s.last_free
  <2> DEFINE filed == FlushLastFree(s)
             r == [filed EXCEPT !.last_free = p, !.hf = filed.header[p] \cup {b}]
  <2>1. Filed(s, filed, X) /\ Good(filed, live, X) /\ filed \in Allocator
    <3>1. Filed(s, filed, X)
      BY FlushFiles DEF Good
    <3> HIDE DEF filed
    <3> QED BY <3>1, FiledIsGood DEF Good, Filed
  <2>2. /\ p \in filed.table /\ p # filed.alloc /\ b \notin filed.header[p]
        /\ ~filed.failed
    BY <1>5, <2>1 DEF Good, Holds, Sound, Filed
  <2> HIDE DEF filed
  <2>3. [[filed EXCEPT !.last_free = p, !.hf = filed.header[p]]
            EXCEPT !.hf = @ \cup {b}] = r
    BY <2>1 DEF Allocator
  <2>4. Unshift(p, b) = r
    <3>1. ba_get_free_page(p)
            = [filed EXCEPT !.last_free = p, !.hf = filed.header[p]]
      BY <2>2 DEF ba_get_free_page, filed
    <3>2. ~ba_get_free_page(p).failed
      BY <2>1, <2>2, <3>1 DEF Allocator
    <3> QED BY <1>5, <2>3, <3>1, <3>2 DEF Unshift
  <2>5. /\ r.alloc = filed.alloc /\ r.h = filed.h
        /\ r.last_free = p /\ r.hf = filed.header[p] \cup {b}
        /\ r.table = filed.table /\ r.header = filed.header
        /\ r.pages = filed.pages /\ r.next = filed.next
        /\ r.prev = filed.prev /\ r.failed = filed.failed
        /\ r.num_pages = filed.num_pages
        /\ r.empty_pages = filed.empty_pages
    BY <2>1 DEF Allocator
  <2> HIDE DEF r
  <2>6. Sound(r, X)
    BY <2>1, <2>5, SameSound DEF Good
  <2>7. LastFreeOK(r) /\ LastFreeBusy(r)
    BY <2>2, <2>5 DEF LastFreeOK, LastFreeBusy
  <2>8. Holds(r, L)
    BY <1>1, <2>1, <2>2, <2>5 DEF Good, Holds
  <2> QED BY <2>4, <2>6, <2>7, <2>8 DEF Good
<1> QED BY <1>3, <1>4, <1>5

\* After both cached headers are written back, the page of each of the client's
\* blocks says that the block is in use.
LEMMA WriteBackIsGood ==
    ASSUME s \in Allocator, live \in SUBSET (Pages \X Blocks), NEW X, Good(s, live, X)
    PROVE  /\ Good(WriteBack(s), live, X) /\ LastFreeBusy(WriteBack(s))
           /\ \A x \in live : /\ x[1] \in WriteBack(s).table
                              /\ x[2] \notin WriteBack(s).header[x[1]]
<1> DEFINE w == IF s.alloc = NULL THEN s ELSE [s EXCEPT !.header[s.alloc] = s.h]
           r == FlushLastFree(w)
<1>1. /\ w \in Allocator
      /\ w.alloc = s.alloc /\ w.h = s.h
      /\ w.last_free = s.last_free /\ w.hf = s.hf
      /\ w.table = s.table /\ w.pages = s.pages
      /\ w.next = s.next /\ w.prev = s.prev /\ w.failed = s.failed
      /\ w.num_pages = s.num_pages /\ w.empty_pages = s.empty_pages
      /\ \A q \in Pages \ {s.alloc} : w.header[q] = s.header[q]
      /\ s.alloc # NULL => w.header[s.alloc] = s.h
  <2>1. CASE s.alloc = NULL
    BY <2>1
  <2>2. CASE s.alloc # NULL
    <3> DEFINE f == [s.header EXCEPT ![s.alloc] = s.h]
    <3>1. /\ f \in [Pages -> Header] /\ f[s.alloc] = s.h
          /\ \A q \in Pages \ {s.alloc} : f[q] = s.header[q]
      BY <2>2 DEF Allocator, PageOrNull
    <3>2. w = [s EXCEPT !.header = f]
      BY <2>2
    <3> HIDE DEF f, w
    <3> QED BY <3>1, <3>2 DEF Allocator
  <2> QED BY <2>1, <2>2
<1>2. WriteBack(s) = r
  BY DEF WriteBack
<1> HIDE DEF w
<1>3. s.table \in SUBSET Pages
  BY DEF Allocator
<1>4. Sound(w, X) /\ LastFreeOK(w)
  BY <1>1, <1>3, SameSound DEF Good, LastFreeOK
<1>5. Holds(w, live)
  BY <1>1, <1>3 DEF Good, Holds
<1>6. Filed(w, r, X) /\ r.last_free = NULL
  BY <1>1, <1>4, FlushFiles
<1> HIDE DEF r
<1>7. Good(r, live, X)
  BY <1>1, <1>5, <1>6, FiledIsGood
<1>8. ASSUME NEW x \in live
      PROVE  x[1] \in r.table /\ x[2] \notin r.header[x[1]]
  <2>1. x[1] \in r.table /\ x[1] # NULL /\ x[1] \in Pages
    BY <1>7, NullIsNoPage DEF Good, Holds
  <2>2. CASE x[1] = s.alloc
    <3>1. x[1] # s.last_free /\ x[2] \notin s.h
      BY <2>1, <2>2 DEF Good, Holds, LastFreeOK
    <3> QED BY <1>1, <1>6, <2>1, <2>2, <3>1 DEF Filed
  <2>3. CASE x[1] # s.alloc
    BY <1>1, <1>6, <1>7, <2>1, <2>3 DEF Filed, Good, Holds
  <2> QED BY <2>1, <2>2, <2>3
<1> QED BY <1>2, <1>6, <1>7, <1>8 DEF LastFreeBusy

----------------------------------------------------------------------------
(* The invariant is inductive *)

LEMMA InvInit == Init => Inv
BY TypeInit, EmptyIsSound DEF Init, Inv, Good, Holds

\* A step leaves no strays that were not there before.  Unlike ba_shrink, these
\* need not know that the page of last_free is not on the empty list.
LEMMA OperationIsGood ==
    ASSUME TypeInv, NEW X, Intact => Good(s, live, X),
           ba_alloc_fast \/ ba_alloc_slow \/ ba_free \/ ba_count \/ ba_walk,
           Intact'
    PROVE  /\ Intact
           /\ \E Y \in SUBSET X :
                /\ Good(s', live', Y)
                /\ LastFreeBusy(s) => LastFreeBusy(s')
<1>1. /\ s \in Allocator /\ live \in SUBSET (Pages \X Blocks)
      /\ s.h # {} => s.alloc # NULL
  BY DEF TypeInv, TypeOK
<1>2. X \in SUBSET X
  OBVIOUS
<1>3. CASE ba_alloc_fast
  <2>1. Good(s, live, X) /\ Intact
    BY <1>3 DEF ba_alloc_fast, Intact
  <2>2. Good(s', live', X) /\ (LastFreeBusy(s) => LastFreeBusy(s'))
    BY <1>1, <1>3, <2>1, ShiftIsGood DEF ba_alloc_fast, Intact
  <2> QED BY <1>2, <2>1, <2>2
<1>4. CASE ba_alloc_slow
  <2>1. PICK new \in MallocResults :
            /\ Shift(ba_global_get_page(new))
            /\ collided' = (collided \/ Collides(new))
    BY <1>4 DEF ba_alloc_slow
  <2>2. Intact /\ ~Collides(new) /\ s.h = {} /\ Good(s, live, X)
    BY <1>4, <2>1 DEF ba_alloc_slow, Collides, Intact
  <2> DEFINE Y == X \ {TakenPage(s, new)}
  <2>3. /\ Good(ba_global_get_page(new), live, Y)
        /\ LastFreeBusy(s) => LastFreeBusy(ba_global_get_page(new))
        /\ ba_global_get_page(new).h # {}
    BY <1>1, <2>2, GlobalGetPageIsGood
  <2>4. /\ ba_global_get_page(new) \in Allocator
        /\ ba_global_get_page(new).alloc \in Pages
    BY <1>1, GlobalGetPageType, GlobalGetPageAlloc
  <2>5. Y \in SUBSET X
    OBVIOUS
  <2> HIDE DEF Y
  <2>6. Good(s', live', Y) /\ (LastFreeBusy(s) => LastFreeBusy(s'))
    BY <2>1, <2>2, <2>3, <2>4, NullIsNoPage, ShiftIsGood DEF Intact
  <2> QED BY <2>2, <2>5, <2>6
<1>5. CASE ba_free
  <2>1. PICK p \in Pages, b \in Blocks : /\ <<p, b>> \in live
                                         /\ s' = Unshift(p, b)
                                         /\ live' = live \ {<<p, b>>}
    BY <1>5 DEF ba_free
  <2>2. Good(s, live, X) /\ Intact
    BY <1>5 DEF ba_free, Intact
  <2>3. Good(s', live', X) /\ (LastFreeBusy(s) => LastFreeBusy(s'))
    BY <1>1, <2>1, <2>2, UnshiftIsGood
  <2> QED BY <1>2, <2>2, <2>3
<1>6. CASE ba_count \/ ba_walk
  <2>1. Good(s, live, X) /\ live' = live /\ Intact
    BY <1>6 DEF ba_count, ba_walk, VisitPages, Intact
  <2>2. s' = WriteBack(s)
    BY <1>6, <2>1 DEF ba_count, ba_walk, VisitPages, Good, Sound
  <2>3. Good(s', live', X) /\ LastFreeBusy(s')
    BY <1>1, <2>1, <2>2, WriteBackIsGood
  <2> QED BY <1>2, <2>1, <2>3
<1> QED BY <1>3, <1>4, <1>5, <1>6

LEMMA StepIsGood ==
    ASSUME TypeInv, NEW X, Intact => Good(s, live, X),
           Intact /\ ShrinkPages => LastFreeBusy(s), [Next]_vars, Intact'
    PROVE  \E Y \in SUBSET X :
                /\ Good(s', live', Y)
                /\ ~Intact \/ LastFreeBusy(s) => LastFreeBusy(s')
<1>1. s \in Allocator /\ live \in SUBSET (Pages \X Blocks)
  BY DEF TypeInv, TypeOK
<1>2. X \in SUBSET X /\ {} \in SUBSET X
  OBVIOUS
<1>3. CASE ba_alloc_fast \/ ba_alloc_slow \/ ba_free \/ ba_count \/ ba_walk
  BY <1>3, OperationIsGood
<1>4. CASE ShrinkPages
  <2>1. /\ Good(s, live, X) /\ LastFreeBusy(s) /\ Intact
        /\ live' = live /\ s' = ba_shrink(s)
    BY <1>4 DEF ShrinkPages, Intact
  <2>2. Filed(s, s', X) /\ Holds(s, live)
    BY <1>1, <2>1, ShrinkFiles DEF Good
  <2>3. Good(s', live, X)
    BY <1>1, <2>2, FiledIsGood
  <2>4. LastFreeBusy(s')
    BY <2>1, <2>2 DEF Filed, LastFreeBusy
  <2> QED BY <1>2, <2>1, <2>3, <2>4
<1>5. CASE ba_free_all
  <2>1. Good(s', live', {}) /\ LastFreeBusy(s')
    BY <1>5, EmptyIsSound DEF ba_free_all, Good, Holds
  <2> QED BY <1>2, <2>1
<1>6. CASE UNCHANGED vars
  <2>1. Good(s', live', X) /\ Intact /\ (LastFreeBusy(s) => LastFreeBusy(s'))
    BY <1>6 DEF vars, Intact
  <2> QED BY <1>2, <2>1
<1> QED BY <1>3, <1>4, <1>5, <1>6 DEF Next

LEMMA InvStep == Inv /\ [Next]_vars => Inv'
<1> SUFFICES ASSUME Inv, [Next]_vars PROVE Inv'
  OBVIOUS
<1>1. TypeInv /\ TypeInv'
  BY TypeStep DEF Inv
<1>2. ASSUME Intact' PROVE Good(s', live', {}) /\ LastFreeBusy(s')
  <2>1. PICK Y \in SUBSET {} :
                /\ Good(s', live', Y)
                /\ ~Intact \/ LastFreeBusy(s) => LastFreeBusy(s')
    BY <1>1, <1>2, StepIsGood DEF Inv
  <2>2. Y = {}
    OBVIOUS
  <2> QED BY <2>1, <2>2 DEF Inv
<1> QED BY <1>1, <1>2 DEF Inv, Good, Sound, Holds, LastFreeOK, LastFreeBusy, Lists,
                          Members, FiledUnder

\* The inductive invariant holds of every run.
THEOREM Invariance == Spec => []Inv
BY InvInit, InvStep, PTL DEF Spec

----------------------------------------------------------------------------
(* What follows from it *)

LEMMA InvFacts ==
    ASSUME Inv
    PROVE  /\ s \in Allocator /\ live \in SUBSET (Pages \X Blocks)
           /\ Intact => Good(s, live, {}) /\ LastFreeBusy(s)
BY DEF Inv, TypeInv, TypeOK

\* The list heads and links give exactly the pages each list should hold.
LEMMA SoundLists ==
    ASSUME NEW a \in Allocator, NEW X, Sound(a, X), NEW i \in Slots
    PROVE  /\ Members(a, X)[i] \in SUBSET a.table
           /\ Members(a, X)[i] \in SUBSET Pages
           /\ WellLinked(a.pages[i], a.next, a.prev, Members(a, X)[i])
           /\ ListPages(a, i) = Members(a, X)[i]
<1>1. /\ Members(a, X)[i] \in SUBSET a.table
      /\ Members(a, X)[i] \in SUBSET Pages
      /\ WellLinked(a.pages[i], a.next, a.prev, Members(a, X)[i])
  BY TableIsFinite DEF Sound, Lists
<1> QED BY <1>1, LinkedPages

LEMMA HoldsIsSafe ==
    ASSUME Holds(s, live)
    PROVE  OwnedBlocksAreSafe
<1>1. ASSUME NEW p, NEW b \in LiveIn(p)
      PROVE  /\ p = s.alloc => b \notin s.h
             /\ p = s.last_free => b \notin s.hf
             /\ p # s.alloc => b \notin s.header[p]
  <2> DEFINE x == <<p, b>>
  <2>1. x \in live /\ x[1] = p /\ x[2] = b
    BY DEF LiveIn
  <2> HIDE DEF x
  <2> QED BY <2>1 DEF Holds
<1>2. s.h \cap LiveIn(s.alloc) = {}
  BY <1>1
<1>3. s.hf \cap LiveIn(s.last_free) = {}
  BY <1>1
<1>4. \A p \in s.table \ {s.alloc} : s.header[p] \cap LiveIn(p) = {}
  BY <1>1
<1> QED BY <1>2, <1>3, <1>4 DEF OwnedBlocksAreSafe, Holds

LEMMA SoundIsExact ==
    ASSUME s \in Allocator, Sound(s, {})
    PROVE  ListsAreExact
<1> SUFFICES ASSUME NEW i \in Slots PROVE ListIsExact(i)
  BY DEF ListsAreExact
<1> DEFINE M == Members(s, {})[i]
<1>1. /\ M \in SUBSET Pages /\ ListPages(s, i) = M
      /\ WellLinked(s.pages[i], s.next, s.prev, M)
  BY SoundLists
<1>2. M = {p \in s.table \ {s.alloc} : ba_get_slot(s.header[p]) = i}
  BY DEF Members, FiledUnder
<1> HIDE DEF M
<1>3. ASSUME NEW p \in M
      PROVE  /\ s.prev[p] = NULL <=> s.pages[i] = p
             /\ s.next[p] # NULL => s.prev[s.next[p]] = p
             /\ s.prev[p] # NULL => s.next[s.prev[p]] = p
  BY <1>1, NullIsNoPage DEF WellLinked
<1> QED BY <1>1, <1>2, <1>3 DEF ListIsExact

LEMMA SoundIsCounted ==
    ASSUME s \in Allocator, NEW X, Sound(s, X)
    PROVE  PagesAreCounted
<1>1. EMPTY \in Slots
  BY DEF Slots
<1>2. ListPages(s, EMPTY) = Members(s, X)[EMPTY]
  BY <1>1, SoundLists
<1> QED BY <1>2 DEF Sound, PagesAreCounted

\* ba_alloc never returns a block the client owns, and the page of an owned block
\* is not released, before the collision at gjalloc.c:766 or a list that is spoiled.
THEOREM NoBlockIsReturnedTwice == Spec => []OwnedBlocksAreSafe
<1>1. Inv => OwnedBlocksAreSafe
  BY InvFacts, HoldsIsSafe DEF Good, OwnedBlocksAreSafe
<1> QED BY <1>1, Invariance, PTL

\* Each page with a free block is on the list its header calls for, and on no
\* other: ba_get_page loses no page.
THEOREM NoPageIsLost == Spec => []ListsAreExact
<1>1. Inv => ListsAreExact
  BY InvFacts, SoundIsExact DEF Good, ListsAreExact
<1> QED BY <1>1, Invariance, PTL

\* The counters agree with the empty list and the hash table, and the empty
\* pages that are kept stay below max_empty_pages.
THEOREM CountersAreTrue == Spec => []PagesAreCounted
<1>1. Inv => PagesAreCounted
  BY InvFacts, SoundIsCounted DEF Good, PagesAreCounted
<1> QED BY <1>1, Invariance, PTL

\* The allocator dereferences no NULL, reads no freed page, hands out no block behind
\* a page, meets no unknown pointer and never loops for ever unless the collision
\* came first, or a walk whose sort may have left BA_ONE in the last block of a page.
THEOREM OnlyAFaultFails == Spec => []FailsOnlyAfterFault
<1>1. Inv => FailsOnlyAfterFault
  BY DEF Inv, Good, Sound, FailsOnlyAfterFault, Intact
<1> QED BY <1>1, Invariance, PTL

\* A walk or a count started in any state misses no block the client owns, before the
\* collision or a list that is spoiled.
THEOREM WalksAreComplete == Spec => []WalkMissesNoBlock
<1>1. Inv => WalkMissesNoBlock
  <2> SUFFICES ASSUME Inv, Intact
               PROVE  /\ live \subseteq Walked(WriteBack(s))
                      /\ Counted(WriteBack(s)) >= Cardinality(live)
    BY DEF WalkMissesNoBlock
  <2> DEFINE r == WriteBack(s)
             C == {x \in Pages \X Blocks :
                        x[1] \in r.table /\ x[2] \notin r.header[x[1]]}
  <2>1. r \in Allocator /\ live \in SUBSET (Pages \X Blocks)
    BY InvFacts, WriteBackType
  <2>2. \A x \in live : x[1] \in r.table /\ x[2] \notin r.header[x[1]]
    BY InvFacts, WriteBackIsGood
  <2> HIDE DEF r
  <2>3. ASSUME NEW x \in live PROVE Used(r.header[x[1]]) # 0
    <3>1. x[1] \in Pages /\ x[2] \in Blocks /\ r.header[x[1]] \in Header
      BY <2>1 DEF Allocator
    <3> QED BY <3>1, <2>2, SlotFacts
  <2>4. live \subseteq Walked(r)
    BY <2>1, <2>2, <2>3 DEF Walked
  <2>5. IsFiniteSet(C) /\ live \subseteq C
    <3>1. IsFiniteSet(Pages \X Blocks)
      BY PagesAssumption, BlocksAssumption, FS_Product
    <3> QED BY <3>1, <2>1, <2>2, FS_Subset
  <2>6. Cardinality(live) <= Cardinality(C)
    BY <2>5, FS_Subset
  <2>7. Cardinality(C) \in Nat /\ Cardinality(live) \in Nat
    BY <2>5, FS_Subset, FS_CardinalityType
  <2>8. Counted(r) = Cardinality(C)
    BY DEF Counted
  <2> HIDE DEF C
  <2> QED BY <2>4, <2>6, <2>7, <2>8 DEF r
<1> QED BY <1>1, Invariance, PTL


----------------------------------------------------------------------------
(* a->alloc is given up *)

LEMMA LowIsNotFull ==
    ASSUME NEW free \in Header, IsLow(free)
    PROVE  free # {}
<1>1. Used({}) = Cardinality(Blocks) /\ Cardinality(Blocks) \in Nat
  BY BlocksAssumption, FS_CardinalityType DEF Used
<1> QED BY <1>1, BlocksAssumption DEF IsLow, Threshold

\* The pages that are given up as a->alloc get their working header.
LEMMA StoreHeader ==
    ASSUME NEW a \in Allocator, NEW p \in Pages, NEW free \in Header
    PROVE  LET w == [a EXCEPT !.header[p] = free]
           IN  /\ w \in Allocator /\ SameWorking(a, w)
               /\ w.table = a.table /\ w.pages = a.pages
               /\ w.next = a.next /\ w.prev = a.prev /\ w.failed = a.failed
               /\ w.num_pages = a.num_pages /\ w.empty_pages = a.empty_pages
               /\ w.header[p] = free
               /\ \A q \in Pages \ {p} : w.header[q] = a.header[q]
<1> DEFINE f == [a.header EXCEPT ![p] = free]
           w == [a EXCEPT !.header = f]
<1>1. /\ f \in [Pages -> Header] /\ f[p] = free
      /\ \A q \in Pages \ {p} : f[q] = a.header[q]
  BY DEF Allocator
<1> HIDE DEF f
<1>2. w \in Allocator /\ SameWorking(a, w) /\ w.header = f
  BY <1>1 DEF Allocator, SameWorking
<1>3. /\ w.table = a.table /\ w.pages = a.pages
      /\ w.next = a.next /\ w.prev = a.prev /\ w.failed = a.failed
      /\ w.num_pages = a.num_pages /\ w.empty_pages = a.empty_pages
  BY DEF Allocator
<1> HIDE DEF w
<1> QED BY <1>1, <1>2, <1>3 DEF w, f

LEMMA NoAlloc ==
    ASSUME NEW a \in Allocator
    PROVE  LET d == [a EXCEPT !.alloc = NULL, !.h = {}]
           IN  /\ d \in Allocator /\ d.alloc = NULL /\ d.h = {}
               /\ d.last_free = a.last_free /\ d.hf = a.hf
               /\ d.table = a.table /\ d.header = a.header
               /\ d.pages = a.pages /\ d.next = a.next /\ d.prev = a.prev
               /\ d.failed = a.failed /\ d.num_pages = a.num_pages
               /\ d.empty_pages = a.empty_pages
BY DEF Allocator, PageOrNull, Header

LEMMA DiscardType ==
    ASSUME NEW a \in Allocator, a.h # {} => a.alloc # NULL
    PROVE  /\ DiscardAlloc(a) \in Allocator
           /\ DiscardAlloc(a).h # {} => DiscardAlloc(a).alloc # NULL
<1>1. CASE ~(a.alloc # NULL /\ IsLow(a.h))
  BY <1>1 DEF DiscardAlloc
<1>2. CASE a.alloc # NULL /\ IsLow(a.h)
  <2> DEFINE w == [a EXCEPT !.header[a.alloc] = a.h]
             l == DOUBLE_LINK(w, LOW, a.alloc)
  <2>1. a.alloc \in Pages /\ a.h \in Header
    BY <1>2 DEF Allocator, PageOrNull
  <2>2. w \in Allocator
    BY <2>1, StoreHeader
  <2> HIDE DEF w
  <2>3. l \in Allocator
    BY <2>1, <2>2, LinkType DEF Slots
  <2> HIDE DEF l
  <2>4. LET d == [l EXCEPT !.alloc = NULL, !.h = {}]
        IN  d \in Allocator /\ d.h = {}
    BY <2>3, NoAlloc
  <2>5. DiscardAlloc(a) = [l EXCEPT !.alloc = NULL, !.h = {}]
    BY <1>2 DEF DiscardAlloc, l, w
  <2> QED BY <2>4, <2>5
<1> QED BY <1>1, <1>2

LEMMA LowSlot ==
    ASSUME NEW free \in Header, IsLow(free), free # Blocks
    PROVE  ba_get_slot(free) = LOW
BY LowIsNotFull, SlotFacts DEF ba_get_slot, IsLow

\* What DiscardAlloc does with the page it gives up: it is on the low list, where
\* only its being a stray can explain it if it is empty.
LEMMA DiscardIsGood ==
    ASSUME NEW a \in Allocator, NEW X, Sound(a, X), LastFreeOK(a),
           NEW L \in SUBSET (Pages \X Blocks), Holds(a, L)
    PROVE  LET d == DiscardAlloc(a)
           IN  /\ \E Y \in SUBSET Pages : Good(d, L, Y)
               /\ d.last_free = a.last_free /\ d.hf = a.hf
               /\ d.table = a.table /\ d.num_pages = a.num_pages
               /\ d.alloc # NULL => d.alloc = a.alloc /\ d.h = a.h /\ ~IsLow(d.h)
               /\ \A q \in a.table \ {a.alloc} : d.header[q] = a.header[q]
               /\ d.alloc = NULL /\ a.alloc # NULL => d.header[a.alloc] = a.h
<1> DEFINE d == DiscardAlloc(a)
<1>t. X \in SUBSET Pages
  BY TableIsFinite DEF Sound
<1>1. CASE ~(a.alloc # NULL /\ IsLow(a.h))
  <2>1. d = a
    BY <1>1 DEF DiscardAlloc
  <2> QED BY <1>t, <1>1, <2>1 DEF Good
<1>2. CASE a.alloc # NULL /\ IsLow(a.h)
  <2> DEFINE p == a.alloc
             w == [a EXCEPT !.header[p] = a.h]
             l == DOUBLE_LINK(w, LOW, p)
             F == Members(a, X)
             G == [F EXCEPT ![LOW] = @ \cup {p}]
             Y == IF a.h = Blocks THEN X \cup {p} ELSE X
  <2>1. /\ p \in Pages /\ a.h \in Header /\ p \in a.table
        /\ LOW \in Slots /\ EMPTY \in Slots /\ LOW # EMPTY
    BY <1>2 DEF Allocator, PageOrNull, Sound, Slots, LOW, EMPTY
  <2>2. /\ w \in Allocator /\ SameWorking(a, w)
        /\ w.table = a.table /\ w.pages = a.pages
        /\ w.next = a.next /\ w.prev = a.prev /\ w.failed = a.failed
        /\ w.num_pages = a.num_pages /\ w.empty_pages = a.empty_pages
        /\ w.header[p] = a.h
        /\ \A q \in Pages \ {p} : w.header[q] = a.header[q]
    BY <2>1, StoreHeader
  <2> HIDE DEF w
  <2>3. /\ F \in [Slots -> SUBSET a.table]
        /\ \A i \in Slots : p \notin F[i]
    BY MembersAreFiled
  <2>4. Lists(w, F)
    BY <2>2, SameLists DEF Sound
  <2> HIDE DEF F
  <2>5. SamePages(w, l) /\ Lists(l, G)
    BY <2>1, <2>2, <2>3, <2>4, LinkLists
  <2>6. l \in Allocator /\ SameWorking(w, l)
    BY <2>1, <2>2, LinkType, LinkFrame
  <2> HIDE DEF l, G
  <2>7. d = [l EXCEPT !.alloc = NULL, !.h = {}]
    BY <1>2 DEF DiscardAlloc, l, w
  <2>8. /\ d \in Allocator /\ d.alloc = NULL /\ d.h = {}
        /\ d.last_free = a.last_free /\ d.hf = a.hf
        /\ d.table = a.table /\ d.header = w.header
        /\ d.pages = l.pages /\ d.next = l.next /\ d.prev = l.prev
        /\ d.failed = a.failed /\ d.num_pages = a.num_pages
        /\ d.empty_pages = a.empty_pages
    <3>1. LET e == [l EXCEPT !.alloc = NULL, !.h = {}]
          IN  /\ e \in Allocator /\ e.alloc = NULL /\ e.h = {}
              /\ e.last_free = l.last_free /\ e.hf = l.hf
              /\ e.table = l.table /\ e.header = l.header
              /\ e.pages = l.pages /\ e.next = l.next /\ e.prev = l.prev
              /\ e.failed = l.failed /\ e.num_pages = l.num_pages
              /\ e.empty_pages = l.empty_pages
      BY <2>6, NoAlloc
    <3> HIDE DEF d
    <3> QED BY <2>2, <2>5, <2>6, <2>7, <3>1 DEF SamePages, SameWorking
  <2> HIDE DEF d
  <2>9. Lists(d, G)
    BY <2>2, <2>5, <2>8, SameLists DEF SamePages
  <2>10. a.table \in SUBSET Pages /\ p # NULL /\ p \notin X
    BY <1>2, TableIsFinite DEF Sound
  <2>11. FiledUnder(d, Y, p) = LOW
    <3>1. CASE a.h = Blocks
      BY <3>1 DEF FiledUnder
    <3>2. CASE a.h # Blocks
      BY <1>2, <2>1, <2>2, <2>8, <2>10, <3>2, LowSlot DEF FiledUnder
    <3> QED BY <3>1, <3>2
  <2>12. ASSUME NEW q \in a.table \ {p}
         PROVE  FiledUnder(d, Y, q) = FiledUnder(a, X, q)
    BY <2>2, <2>8, <2>10 DEF FiledUnder
  <2>13. Members(d, Y) = G
    <3>1. ASSUME NEW i \in Slots
          PROVE  {q \in d.table \ {d.alloc} : FiledUnder(d, Y, q) = i} = G[i]
      <4>1. d.table \ {d.alloc} = a.table
        BY <2>8, <2>10, NullIsNoPage
      <4>2. G[i] = F[i] \cup {q \in {p} : i = LOW}
        BY <2>1, <2>3 DEF G
      <4>3. F[i] = {q \in a.table \ {p} : FiledUnder(a, X, q) = i}
        BY DEF F, Members
      <4> QED BY <2>1, <2>11, <2>12, <4>1, <4>2, <4>3
    <3>2. G \in [Slots -> SUBSET a.table]
      BY <2>1, <2>3 DEF G
    <3> QED BY <3>1, <3>2 DEF Members
  <2>14. G[EMPTY] = F[EMPTY]
    BY <2>1, <2>3 DEF G
  <2>15. \A q \in Y : q \in d.table \ {d.alloc} /\ d.header[q] = Blocks
    BY <2>1, <2>2, <2>8, <2>10, NullIsNoPage DEF Sound
  <2>16. Sound(d, Y)
    BY <2>8, <2>9, <2>13, <2>14, <2>15 DEF Sound, F
  <2>17. LastFreeOK(d)
    BY <2>2, <2>8, <2>10, NullIsNoPage DEF LastFreeOK
  <2>18. Holds(d, L)
    <3>1. ASSUME NEW x \in L
          PROVE  /\ x[1] \in d.table
                 /\ x[1] = d.alloc => x[2] \notin d.h
                 /\ x[1] = d.last_free => x[2] \notin d.hf
                 /\ x[1] # d.alloc => x[2] \notin d.header[x[1]]
      <4>1. x[1] \in a.table /\ x[1] \in Pages /\ x[1] # NULL
        BY <2>10, NullIsNoPage DEF Holds
      <4>2. x[2] \notin d.header[x[1]]
        BY <2>2, <2>8, <4>1 DEF Holds
      <4>3. x[1] = d.last_free => x[2] \notin d.hf
        BY <2>8 DEF Holds
      <4> QED BY <2>8, <4>1, <4>2, <4>3
    <3> QED BY <3>1 DEF Holds
  <2>19. Y \in SUBSET Pages
    BY <1>t, <2>1
  <2>20. Good(d, L, Y)
    BY <2>16, <2>17, <2>18 DEF Good
  <2>21. \A q \in a.table \ {p} : d.header[q] = a.header[q]
    BY <2>2, <2>8, <2>10
  <2> HIDE DEF Y
  <2> QED BY <2>2, <2>8, <2>19, <2>20, <2>21 DEF d
<1> QED BY <1>1, <1>2

----------------------------------------------------------------------------
(* The blocks ba_count counts *)

\* The free blocks of page p once both working headers are written back.
Kept(a, p) == IF p = a.alloc THEN a.h
              ELSE IF p = a.last_free THEN Stored(a, p, a.hf)
              ELSE a.header[p]

InUse(a) == {x \in Pages \X Blocks : x[1] \in a.table /\ x[2] \notin Kept(a, x[1])}

LEMMA StoredEmpty ==
    ASSUME NEW a \in Allocator, NEW p \in Pages
    PROVE  Stored(a, p, Blocks) = Blocks
<1>1. a.header[p] \in Header /\ Blocks \in Header
  BY DEF Allocator, Header
<1> QED BY <1>1, SlotFacts DEF Stored

LEMMA InUseIsFinite ==
    ASSUME NEW a
    PROVE  IsFiniteSet(InUse(a)) /\ Cardinality(InUse(a)) \in Nat
<1>1. IsFiniteSet(Pages \X Blocks)
  BY PagesAssumption, BlocksAssumption, FS_Product
<1>2. InUse(a) \in SUBSET (Pages \X Blocks)
  BY DEF InUse
<1> HIDE DEF InUse
<1> QED BY <1>1, <1>2, FS_Subset, FS_CardinalityType

\* Filing a page and releasing empty ones changes no count.
LEMMA FiledKeepsUse ==
    ASSUME NEW a \in Allocator, NEW r, NEW X, Sound(a, X), LastFreeOK(a),
           Filed(a, r, X),
           \/ r.last_free = a.last_free /\ r.hf = a.hf
           \/ /\ r.last_free = NULL
              /\ a.last_free \in r.table =>
                    r.header[a.last_free] = Stored(a, a.last_free, a.hf)
    PROVE  InUse(r) = InUse(a)
<1>1. a.table \in SUBSET Pages /\ NULL \notin Pages
  BY TableIsFinite, NullIsNoPage
<1>2. ASSUME NEW p \in r.table PROVE Kept(r, p) = Kept(a, p)
  <2>1. p \in a.table /\ p \in Pages /\ p # NULL /\ r.alloc = a.alloc /\ r.h = a.h
    BY <1>1 DEF Filed
  <2>2. CASE p = a.alloc
    BY <2>1, <2>2 DEF Kept
  <2>3. CASE p # a.alloc /\ p # a.last_free
    <3>1. r.header[p] = a.header[p] /\ p # r.last_free
      BY <2>1, <2>3 DEF Filed
    <3> QED BY <2>1, <2>3, <3>1 DEF Kept
  <2>4. CASE p # a.alloc /\ p = a.last_free
    <3>1. CASE r.last_free = a.last_free /\ r.hf = a.hf
      <4>1. r.header[p] = a.header[p]
        BY <2>1, <2>4, <3>1 DEF Filed
      <4> QED BY <2>1, <2>4, <3>1, <4>1 DEF Kept, Stored
    <3>2. CASE r.last_free = NULL /\ r.header[p] = Stored(a, p, a.hf)
      BY <2>1, <2>4, <3>2 DEF Kept
    <3> QED BY <2>4, <3>1, <3>2
  <2> QED BY <2>2, <2>3, <2>4
<1>3. ASSUME NEW p \in a.table \ r.table PROVE Kept(a, p) = Blocks
  <2>1. /\ p # a.alloc /\ p \in Pages
        /\ (IF p = a.last_free THEN a.hf ELSE a.header[p]) = Blocks
    BY <1>1 DEF Filed
  <2> QED BY <2>1, StoredEmpty DEF Kept
<1>4. r.table \subseteq a.table
  BY DEF Filed
<1>5. ASSUME NEW x \in Pages \X Blocks
      PROVE  (x[1] \in r.table /\ x[2] \notin Kept(r, x[1]))
                <=> (x[1] \in a.table /\ x[2] \notin Kept(a, x[1]))
  BY <1>2, <1>3, <1>4
<1> QED BY <1>5 DEF InUse

\* The working header of alloc counts for its page, whatever is written there.
LEMMA WriteBackUse ==
    ASSUME NEW a \in Allocator, NEW X, Sound(a, X), LastFreeOK(a)
    PROVE  Counted(WriteBack(a)) = Cardinality(InUse(a))
<1> DEFINE w == IF a.alloc = NULL THEN a ELSE [a EXCEPT !.header[a.alloc] = a.h]
           r == FlushLastFree(w)
<1>1. /\ w \in Allocator
      /\ w.alloc = a.alloc /\ w.h = a.h
      /\ w.last_free = a.last_free /\ w.hf = a.hf
      /\ w.table = a.table /\ w.pages = a.pages
      /\ w.next = a.next /\ w.prev = a.prev /\ w.failed = a.failed
      /\ w.num_pages = a.num_pages /\ w.empty_pages = a.empty_pages
      /\ \A q \in Pages \ {a.alloc} : w.header[q] = a.header[q]
      /\ a.alloc # NULL => w.header[a.alloc] = a.h
  <2>1. CASE a.alloc = NULL
    BY <2>1
  <2>2. CASE a.alloc # NULL
    <3>1. a.alloc \in Pages /\ a.h \in Header
      BY <2>2 DEF Allocator, PageOrNull
    <3> QED BY <2>2, <3>1, StoreHeader DEF SameWorking
  <2> QED BY <2>1, <2>2
<1>2. WriteBack(a) = r
  BY DEF WriteBack
<1> HIDE DEF w
<1>3. a.table \in SUBSET Pages /\ NULL \notin Pages
  BY TableIsFinite, NullIsNoPage
<1>4. Sound(w, X) /\ LastFreeOK(w)
  BY <1>1, <1>3, SameSound DEF LastFreeOK
<1>5. /\ Filed(w, r, X) /\ r.last_free = NULL
      /\ w.last_free \in r.table =>
            r.header[w.last_free] = Stored(w, w.last_free, w.hf)
  BY <1>1, <1>4, FlushFiles
<1> HIDE DEF r
<1>6. InUse(r) = InUse(w)
  BY <1>1, <1>4, <1>5, FiledKeepsUse
<1>7. InUse(w) = InUse(a)
  <2>1. ASSUME NEW p \in Pages PROVE Kept(w, p) = Kept(a, p)
    BY <1>1, <2>1 DEF Kept, Stored
  <2> QED BY <1>1, <2>1 DEF InUse
<1>8. ASSUME NEW p \in r.table PROVE Kept(r, p) = r.header[p]
  <2>1. p \in Pages /\ p # NULL
    BY <1>1, <1>3, <1>5 DEF Filed
  <2>2. p = r.alloc => r.header[p] = r.h
    BY <1>1, <1>4, <1>5, <2>1 DEF Filed, LastFreeOK
  <2> QED BY <1>5, <2>1, <2>2 DEF Kept
<1>9. InUse(r) = {x \in Pages \X Blocks :
                    x[1] \in r.table /\ x[2] \notin r.header[x[1]]}
  BY <1>8 DEF InUse
<1> QED BY <1>2, <1>6, <1>7, <1>9 DEF Counted

LEMMA HeldIsInUse ==
    ASSUME NEW a \in Allocator, NEW L \in SUBSET (Pages \X Blocks), Holds(a, L)
    PROVE  L \in SUBSET InUse(a)
<1>1. ASSUME NEW x \in L PROVE x \in InUse(a)
  <2>1. x \in Pages \X Blocks /\ x[1] \in a.table
    BY DEF Holds
  <2>2. x[2] \notin Kept(a, x[1])
    BY DEF Holds, Kept, Stored
  <2> QED BY <2>1, <2>2 DEF InUse
<1> QED BY <1>1

\* Giving up a->alloc changes no count.
LEMMA DiscardKeepsUse ==
    ASSUME NEW a \in Allocator, NEW X, Sound(a, X), LastFreeOK(a)
    PROVE  InUse(DiscardAlloc(a)) = InUse(a)
<1> DEFINE d == DiscardAlloc(a)
<1>1. /\ d.last_free = a.last_free /\ d.hf = a.hf /\ d.table = a.table
      /\ d.alloc # NULL => d.alloc = a.alloc /\ d.h = a.h
      /\ \A q \in a.table \ {a.alloc} : d.header[q] = a.header[q]
      /\ d.alloc = NULL /\ a.alloc # NULL => d.header[a.alloc] = a.h
  <2>1. {} \in SUBSET (Pages \X Blocks) /\ Holds(a, {})
    BY DEF Holds
  <2> QED BY <2>1, DiscardIsGood
<1> HIDE DEF d
<1>2. ASSUME NEW p \in a.table PROVE Kept(d, p) = Kept(a, p)
  <2>1. p # NULL
    BY TableIsFinite, NullIsNoPage
  <2>2. CASE p = a.alloc
    <3>1. p # a.last_free
      BY <2>1, <2>2 DEF LastFreeOK
    <3> QED BY <1>1, <2>1, <2>2, <3>1 DEF Kept
  <2>3. CASE p # a.alloc
    BY <1>1, <2>1, <2>3 DEF Kept, Stored
  <2> QED BY <2>2, <2>3
<1>3. InUse(d) = InUse(a)
  BY <1>1, <1>2 DEF InUse
<1> QED BY <1>3 DEF d

----------------------------------------------------------------------------
(* ba_defragment before its loop *)

LEMMA ShrinkFrame ==
    ASSUME NEW a \in Allocator
    PROVE  SameWorking(a, ba_shrink(a))
BY DEF SameWorking, ba_shrink, ReleasePages, Fail, Allocator

LEMMA ShrinkIsGood ==
    ASSUME NEW a \in Allocator, NEW X, NEW L \in SUBSET (Pages \X Blocks),
           Good(a, L, X), LastFreeBusy(a)
    PROVE  /\ Good(ba_shrink(a), L, X) /\ LastFreeBusy(ba_shrink(a))
           /\ InUse(ba_shrink(a)) = InUse(a)
<1> DEFINE r == ba_shrink(a)
<1>1. Filed(a, r, X) /\ SameWorking(a, r)
  BY ShrinkFiles, ShrinkFrame DEF Good
<1> HIDE DEF r
<1>2. Good(r, L, X)
  BY <1>1, FiledIsGood DEF Good
<1>3. LastFreeBusy(r)
  BY <1>1 DEF Filed, LastFreeBusy
<1>4. InUse(r) = InUse(a)
  BY <1>1, FiledKeepsUse DEF Good, SameWorking
<1> QED BY <1>2, <1>3, <1>4 DEF r

LEMMA BeginIsGood ==
    ASSUME NEW a \in Allocator, NEW X, NEW L \in SUBSET (Pages \X Blocks),
           Good(a, L, X)
    PROVE  LET r == FlushLastFree(DiscardAlloc(a))
           IN  /\ \E Y \in SUBSET Pages : Good(r, L, Y)
               /\ r.last_free = NULL
               /\ r.alloc # NULL => ~IsLow(r.h)
               /\ InUse(r) = InUse(a)
<1> DEFINE d == DiscardAlloc(a)
           r == FlushLastFree(d)
<1>1. /\ \E Y \in SUBSET Pages : Good(d, L, Y)
      /\ d.alloc # NULL => ~IsLow(d.h)
  BY DiscardIsGood DEF Good
<1>2. InUse(d) = InUse(a)
  BY DiscardKeepsUse DEF Good
<1>3. d \in Allocator
  <2>1. CASE ~(a.alloc # NULL /\ IsLow(a.h))
    BY <2>1 DEF DiscardAlloc
  <2>2. CASE a.alloc # NULL
    BY <2>2, DiscardType
  <2> QED BY <2>1, <2>2
<1> HIDE DEF d
<1>4. PICK Y \in SUBSET Pages : Good(d, L, Y)
  BY <1>1
<1>5. /\ Filed(d, r, Y) /\ r.last_free = NULL
      /\ d.last_free \in r.table =>
            r.header[d.last_free] = Stored(d, d.last_free, d.hf)
  BY <1>3, <1>4, FlushFiles DEF Good
<1> HIDE DEF r
<1>6. Good(r, L, Y)
  BY <1>3, <1>4, <1>5, FiledIsGood DEF Good
<1>7. InUse(r) = InUse(d)
  BY <1>3, <1>4, <1>5, FiledKeepsUse DEF Good
<1>8. r.alloc # NULL => ~IsLow(r.h)
  BY <1>1, <1>5 DEF Filed
<1> QED BY <1>2, <1>4, <1>5, <1>6, <1>7, <1>8 DEF r, d

----------------------------------------------------------------------------
(* A merge *)

LEMMA MergeType ==
    ASSUME s \in Allocator, NEW p1 \in s.table, NEW p2 \in s.table,
           NEW free \in Header
    PROVE  LET r == PagesMerged(p1, p2, free)
           IN  r \in Allocator /\ SameWorking(s, r)
<1> DEFINE m == Merged(p1, free)
           u == DOUBLE_UNLINK(m, LOW, p2)
           l == ReleasePages(u, {p2})
           v == Unpaired(m, p2)
           t == DOUBLE_SHIFT(v, LOW)
           r == Resettled(v, p1)
<1>1. p1 \in Pages /\ p2 \in Pages /\ LOW \in Slots /\ HIGH \in Slots
  BY DEF Allocator, Slots
<1>2. m \in Allocator /\ SameWorking(s, m)
  <2>1. m = [s EXCEPT !.header[p1] = free]
    BY DEF Merged
  <2> HIDE DEF m
  <2> QED BY <1>1, <2>1, StoreHeader
<1> HIDE DEF m
<1>3. u \in Allocator /\ SameWorking(m, u)
  BY <1>1, <1>2, UnlinkType, UnlinkFrame
<1>4. l \in Allocator /\ SameWorking(u, l)
  <2> HIDE DEF u
  <2> QED BY <1>3, ReleaseType, ReleaseFrame
<1>5. v = [l EXCEPT !.num_pages = @ - 1]
  BY DEF Unpaired
<1> HIDE DEF v, l, u
<1>6. v \in Allocator /\ SameWorking(l, v)
  BY <1>4, <1>5 DEF Allocator, SameWorking
<1>7. t \in Allocator /\ SameWorking(v, t)
  <2>1. CASE v.pages[LOW] = NULL
    <3>1. t = Fail(v)
      BY <1>6, <2>1, NullIsNoPage DEF DOUBLE_SHIFT, Allocator
    <3> QED BY <1>6, <3>1, FailType DEF Fail, SameWorking, Allocator
  <2>2. CASE v.pages[LOW] # NULL
    BY <1>1, <1>6, <2>2, ShiftType, ShiftFrame
  <2> QED BY <2>1, <2>2
<1>8. r \in {v, DOUBLE_LINK(t, HIGH, p1)}
  BY DEF Resettled
<1> HIDE DEF r, t
<1>9. DOUBLE_LINK(t, HIGH, p1) \in Allocator
      /\ SameWorking(t, DOUBLE_LINK(t, HIGH, p1))
  BY <1>1, <1>7, LinkType, LinkFrame
<1>10. r \in Allocator /\ SameWorking(s, r)
  BY <1>2, <1>3, <1>4, <1>6, <1>7, <1>8, <1>9 DEF SameWorking
<1> QED BY <1>10 DEF PagesMerged, r, v, m

LEMMA LowPage ==
    ASSUME NEW a \in Allocator, NEW X, Sound(a, X), NEW p \in Members(a, X)[LOW]
    PROVE  /\ p \in a.table \ {a.alloc} /\ p \in Pages
           /\ a.header[p] \in Header /\ IsLow(a.header[p])
           /\ p \in X <=> a.header[p] = Blocks
<1>1. LOW \in Slots /\ LOW # EMPTY
  BY DEF Slots, LOW, EMPTY
<1>2. p \in a.table \ {a.alloc} /\ FiledUnder(a, X, p) = LOW
  BY <1>1, MembersAreFiled
<1>3. p \in Pages /\ a.header[p] \in Header
  BY <1>2, TableIsFinite DEF Allocator
<1>4. CASE p \in X
  <2>1. a.header[p] = Blocks
    BY <1>4 DEF Sound
  <2>2. Used(Blocks) = 0
    BY SlotFacts DEF Header
  <2>3. Cardinality(Blocks) \in Nat
    BY BlocksAssumption, FS_CardinalityType
  <2>4. IsLow(Blocks)
    BY <2>2, <2>3, BlocksAssumption DEF IsLow, Threshold
  <2> QED BY <1>2, <1>3, <1>4, <2>1, <2>4
<1>5. CASE p \notin X
  <2>1. ba_get_slot(a.header[p]) = LOW
    BY <1>2, <1>5 DEF FiledUnder
  <2>2. a.header[p] # Blocks
    BY <1>1, <1>3, <2>1, SlotFacts
  <2>3. IsLow(a.header[p])
    BY <2>1, NullAssumption DEF ba_get_slot, IsLow, LOW, HIGH, EMPTY
  <2> QED BY <1>2, <1>3, <1>5, <2>2, <2>3
<1> QED BY <1>4, <1>5

LEMMA LowPairPages ==
    ASSUME s \in Allocator, NEW X, Sound(s, X), NEW p1, NEW p2, LowPair(p1, p2)
    PROVE  /\ p1 \in Members(s, X)[LOW] /\ p2 \in Members(s, X)[LOW]
           /\ p1 # p2 /\ s.pages[LOW] = p1 /\ s.prev[p2] = p1
<1>1. WellLinked(s.pages[LOW], s.next, s.prev, Members(s, X)[LOW])
  BY DEF Sound, Lists, Slots
<1>2. p1 \in Members(s, X)[LOW] /\ s.pages[LOW] = p1 /\ s.prev[p1] = NULL
  BY <1>1 DEF LowPair, WellLinked, Closed
<1>3. p2 \in Members(s, X)[LOW] /\ s.prev[p2] = p1
  BY <1>1, <1>2 DEF LowPair, WellLinked, Closed
<1> QED BY <1>2, <1>3 DEF LowPair

\* Two pages of the low list fit into one: ba_merge_pages never gives up on them.
LEMMA LowPagesFit ==
    ASSUME s \in Allocator, NEW X, Sound(s, X), NEW p1, NEW p2, LowPair(p1, p2)
    PROVE  ~Crowded(p1, p2)
<1>1. /\ s.header[p1] \in Header /\ IsLow(s.header[p1])
      /\ s.header[p2] \in Header /\ IsLow(s.header[p2])
  BY LowPairPages, LowPage
<1>2. /\ Used(s.header[p1]) \in Nat /\ Used(s.header[p2]) \in Nat
      /\ Cardinality(Blocks) \in Nat
  BY <1>1, BlocksAssumption, FS_Subset, FS_CardinalityType DEF Used, Header
<1> HIDE DEF Used
<1> QED BY <1>1, <1>2 DEF IsLow, Threshold, Crowded

\* The ways to move the blocks in use of a page with header h2 into the free ones
\* of a page with header h1.
Moves(h1, h2) == Injection(Blocks \ h2, h1)

\* The blocks of two pages that are less than half full do not fill one.
LEMMA MergedHeader ==
    ASSUME NEW h1 \in Header, NEW h2 \in Header, IsLow(h1), IsLow(h2),
           NEW to \in Moves(h1, h2)
    PROVE  /\ h1 \ Range(to) \in Header /\ h1 \ Range(to) # {}
           /\ h1 \ Range(to) = Blocks => h1 = Blocks
<1> DEFINE R == Range(to)
<1>1. R \in SUBSET h1 /\ to \in Surjection(Blocks \ h2, R)
  BY DEF Injection, Range, Surjection, Moves
<1>2. to \in Injection(Blocks \ h2, R)
  BY <1>1 DEF Injection, Surjection, Moves
<1> HIDE DEF R
<1>3. IsFiniteSet(Blocks \ h1) /\ IsFiniteSet(Blocks \ h2) /\ IsFiniteSet(R)
      /\ R \in SUBSET Blocks
  BY <1>1, BlocksAssumption, FS_Subset DEF Header
<1>4. Cardinality(R) = Used(h2)
  BY <1>1, <1>2, <1>3, FS_Surjection DEF Used
<1>5. /\ Cardinality(R) \in Nat /\ Used(h1) \in Nat /\ Cardinality(Blocks) \in Nat
  BY <1>3, BlocksAssumption, FS_CardinalityType DEF Used
<1>6. Cardinality((Blocks \ h1) \cup R) <= Used(h1) + Cardinality(R)
  <2>1. (Blocks \ h1) \cap R = {}
    BY <1>1
  <2>2. Cardinality((Blocks \ h1) \cap R) = 0
    BY <2>1, FS_EmptySet
  <2>3. Cardinality((Blocks \ h1) \cup R)
            = Cardinality(Blocks \ h1) + Cardinality(R)
                - Cardinality((Blocks \ h1) \cap R)
    BY <1>3, FS_Union
  <2>4. Cardinality(Blocks \ h1) = Used(h1)
    BY DEF Used
  <2> HIDE DEF Used
  <2> QED BY <1>5, <2>2, <2>3, <2>4
<1>7. h1 \ R # {}
  <2>1. SUFFICES ASSUME h1 \ R = {} PROVE FALSE
    OBVIOUS
  <2>2. (Blocks \ h1) \cup R = Blocks
    BY <1>1, <1>3, <2>1
  <2>3. Used(h1) < Threshold /\ Cardinality(R) < Threshold
    BY <1>4 DEF IsLow
  <2>4. Threshold \in Int /\ 2 * Threshold <= Cardinality(Blocks)
    BY <1>5 DEF Threshold
  <2>5. Cardinality(Blocks) <= Used(h1) + Cardinality(R)
    BY <1>6, <2>2
  <2> HIDE DEF Used
  <2> QED BY <1>5, <2>3, <2>4, <2>5
<1> QED BY <1>1, <1>7 DEF R, Header

\* The blocks of p2 find room in p1, which moves to the list its fill calls for;
\* no stray is left that was none before.
LEMMA MergeIsGood ==
    ASSUME s \in Allocator, live \in SUBSET (Pages \X Blocks), NEW X,
           Good(s, live, X), s.last_free = NULL,
           NEW p1 \in s.table, NEW p2 \in s.table, LowPair(p1, p2),
           NEW to \in Moves(s.header[p1], s.header[p2])
    PROVE  LET r == PagesMerged(p1, p2, s.header[p1] \ Range(to))
           IN  /\ \E Y \in SUBSET X : Good(r, Relocated(p1, p2, to), Y)
               /\ r.num_pages = s.num_pages - 1
               /\ r.table = s.table \ {p2}
               /\ r.header[p1] = s.header[p1] \ Range(to)
               /\ \A q \in r.table \ {p1} : r.header[q] = s.header[q]
<1> DEFINE h1 == s.header[p1]
           h2 == s.header[p2]
           n1 == h1 \ Range(to)
           F  == Members(s, X)
           F2 == [F EXCEPT ![LOW] = @ \ {p2}]
           F3 == [F2 EXCEPT ![LOW] = @ \ {p1}]
           F4 == [F3 EXCEPT ![HIGH] = @ \cup {p1}]
           m  == Merged(p1, n1)
           u  == DOUBLE_UNLINK(m, LOW, p2)
           l  == ReleasePages(u, {p2})
           v  == Unpaired(m, p2)
           t  == DOUBLE_SHIFT(v, LOW)
           r  == Resettled(v, p1)
           Y  == IF n1 = Blocks THEN X \ {p2} ELSE X \ {p1, p2}
<1>s. Sound(s, X)
  BY DEF Good
<1>1. /\ p1 \in F[LOW] /\ p2 \in F[LOW]
      /\ p1 # p2 /\ s.pages[LOW] = p1 /\ s.prev[p2] = p1
  BY <1>s, LowPairPages
<1>2. /\ p1 \in s.table \ {s.alloc} /\ p1 \in Pages /\ p1 # NULL
      /\ p2 \in s.table \ {s.alloc} /\ p2 \in Pages
      /\ h1 \in Header /\ IsLow(h1) /\ (p1 \in X <=> h1 = Blocks)
      /\ h2 \in Header /\ IsLow(h2)
  <2> HIDE DEF F
  <2> QED BY <1>s, <1>1, LowPage, NullIsNoPage DEF F
<1>3. /\ n1 \in Header /\ n1 # {}
      /\ n1 = Blocks => h1 = Blocks
  BY <1>2, MergedHeader
<1>4. /\ LOW \in Slots /\ HIGH \in Slots /\ EMPTY \in Slots
      /\ LOW # HIGH /\ LOW # EMPTY /\ HIGH # EMPTY
  BY DEF Slots, LOW, HIGH, EMPTY
<1>5. s.table \in SUBSET Pages /\ NULL \notin Pages
  BY TableIsFinite, NullIsNoPage
<1>6. /\ F \in [Slots -> SUBSET s.table] /\ s.alloc \notin F[LOW]
      /\ \A i \in Slots \ {LOW} : p1 \notin F[i] /\ p2 \notin F[i]
  BY <1>1, <1>4, MembersAreFiled
<1>7. /\ m \in Allocator /\ SameWorking(s, m)
      /\ m.table = s.table /\ m.pages = s.pages
      /\ m.next = s.next /\ m.prev = s.prev /\ m.failed = s.failed
      /\ m.num_pages = s.num_pages /\ m.empty_pages = s.empty_pages
      /\ m.header[p1] = n1
      /\ \A q \in Pages \ {p1} : m.header[q] = s.header[q]
  <2>1. m = [s EXCEPT !.header[p1] = n1]
    BY DEF Merged
  <2> HIDE DEF m, n1
  <2> QED BY <1>2, <1>3, <2>1, StoreHeader
<1> HIDE DEF m, n1, h1, h2, F
<1>8. Lists(m, F)
  BY <1>s, <1>7, SameLists DEF Sound, F
<1>9. /\ u \in Allocator /\ SameWorking(m, u) /\ SamePages(m, u)
      /\ Lists(u, F2)
      /\ u.pages[LOW] = p1
  <2>1. SamePages(m, u) /\ Lists(u, F2)
    BY <1>1, <1>4, <1>7, <1>8, UnlinkLists
  <2>2. u \in Allocator /\ SameWorking(m, u)
    BY <1>2, <1>4, <1>7, UnlinkType, UnlinkFrame
  <2>3. u.pages[LOW] = p1
    <3>1. ~m.failed /\ m.prev[p2] = p1 /\ m.pages[LOW] = p1
      BY <1>s, <1>1, <1>7 DEF Sound
    <3>2. ~u.failed
      BY <2>1, <3>1 DEF SamePages
    <3> QED BY <1>2, <1>4, <1>7, <3>1, <3>2 DEF DOUBLE_UNLINK, Allocator, Fail
  <2> QED BY <2>1, <2>2, <2>3
<1> HIDE DEF u
<1>10. /\ l \in Allocator /\ SameWorking(u, l)
       /\ Lists(l, F2) /\ l.table = s.table \ {p2}
       /\ l.pages = u.pages /\ l.failed = s.failed
       /\ l.num_pages = s.num_pages /\ l.empty_pages = s.empty_pages
       /\ \A q \in s.table \ {p2} : l.header[q] = m.header[q]
  <2>1. \A i \in Slots : F2[i] \cap {p2} = {}
    BY <1>4, <1>6
  <2>2. {p2} \in SUBSET u.table
    BY <1>7, <1>9 DEF SamePages
  <2> HIDE DEF F2
  <2>3. l \in Allocator /\ SameWorking(u, l)
    BY <1>9, ReleaseType, ReleaseFrame
  <2>4. /\ Lists(l, F2) /\ l.table = u.table \ {p2} /\ l.pages = u.pages
        /\ l.failed = u.failed /\ l.num_pages = u.num_pages
        /\ l.empty_pages = u.empty_pages
        /\ \A q \in u.table \ {p2} : l.header[q] = u.header[q]
    BY <1>9, <2>1, <2>2, ReleaseLists
  <2> HIDE DEF l
  <2> QED BY <1>7, <1>9, <2>3, <2>4 DEF SamePages
<1>11. v = [l EXCEPT !.num_pages = @ - 1]
  BY DEF Unpaired, u
<1> HIDE DEF l, v
<1>12. /\ v \in Allocator /\ SameWorking(s, v)
       /\ v.table = s.table \ {p2} /\ v.failed = s.failed
       /\ v.pages = u.pages /\ v.next = l.next /\ v.prev = l.prev
       /\ v.num_pages = s.num_pages - 1 /\ v.empty_pages = s.empty_pages
       /\ v.header[p1] = n1
       /\ \A q \in s.table \ {p1, p2} : v.header[q] = s.header[q]
  <2>1. /\ v \in Allocator /\ SameWorking(l, v)
        /\ v.table = l.table /\ v.failed = l.failed
        /\ v.pages = l.pages /\ v.next = l.next /\ v.prev = l.prev
        /\ v.num_pages = l.num_pages - 1 /\ v.empty_pages = l.empty_pages
        /\ v.header = l.header
    BY <1>10, <1>11 DEF Allocator, SameWorking
  <2> QED BY <1>1, <1>2, <1>5, <1>7, <1>9, <1>10, <2>1 DEF SameWorking
<1>13. Lists(v, F2)
  BY <1>10, <1>12, SameLists
\* Which list each page belongs on afterwards.
<1>14. ASSUME NEW a, a.alloc = s.alloc, a.table = s.table \ {p2},
              a.header[p1] = n1,
              \A q \in s.table \ {p1, p2} : a.header[q] = s.header[q]
       PROVE  /\ IsLow(n1) => Members(a, Y) = F2
              /\ ~IsLow(n1) => Members(a, Y) = F4
              /\ \A q \in Y : q \in a.table \ {a.alloc} /\ a.header[q] = Blocks
  <2>1. ASSUME NEW q \in s.table \ {p1, p2}
        PROVE  FiledUnder(a, Y, q) = FiledUnder(s, X, q)
    BY <1>14, <2>1 DEF FiledUnder
  <2>2. IsLow(n1) => FiledUnder(a, Y, p1) = LOW
    <3>1. CASE n1 = Blocks
      BY <1>1, <1>2, <1>3, <3>1 DEF FiledUnder
    <3>2. CASE n1 # Blocks
      BY <1>3, <1>14, <3>2, LowSlot DEF FiledUnder
    <3> QED BY <3>1, <3>2
  <2>3. ~IsLow(n1) => FiledUnder(a, Y, p1) = HIGH
    <3>1. SUFFICES ASSUME ~IsLow(n1) PROVE FiledUnder(a, Y, p1) = HIGH
      OBVIOUS
    <3>2. n1 # Blocks
      BY <1>2, <1>3, <3>1
    <3>3. ba_get_slot(n1) = HIGH
      BY <1>3, <3>1, <3>2, SlotFacts DEF ba_get_slot, IsLow
    <3>4. p1 \notin Y
      BY <3>2
    <3> HIDE DEF Y
    <3> QED BY <1>14, <3>3, <3>4 DEF FiledUnder
  <2>4. ASSUME NEW i \in Slots
        PROVE  F[i] = {q \in s.table \ {s.alloc} : FiledUnder(s, X, q) = i}
    BY DEF F, Members
  <2> DEFINE Rest(i) == {q \in s.table \ {s.alloc, p1, p2} : FiledUnder(s, X, q) = i}
             Here(i) == {q \in {p1} : FiledUnder(a, Y, p1) = i}
  <2>5. ASSUME NEW i \in Slots
        PROVE  /\ {q \in a.table \ {a.alloc} : FiledUnder(a, Y, q) = i}
                    = Rest(i) \cup Here(i)
               /\ F[i] \ {p1, p2} = Rest(i)
    <3>1. a.table \ {a.alloc} = (s.table \ {s.alloc, p1, p2}) \cup {p1}
      BY <1>1, <1>2, <1>14
    <3> HIDE DEF Y
    <3> QED BY <2>1, <2>4, <3>1
  <2>6. ASSUME IsLow(n1) PROVE Members(a, Y) = F2
    <3>1. ASSUME NEW i \in Slots PROVE F2[i] = Rest(i) \cup Here(i)
      BY <1>1, <1>4, <1>6, <2>2, <2>5, <2>6
    <3>2. F2 \in [Slots -> SUBSET s.table]
      BY <1>4, <1>6
    <3> HIDE DEF F2, Y, Rest, Here
    <3> QED BY <2>5, <3>1, <3>2 DEF Members
  <2>7. ASSUME ~IsLow(n1) PROVE Members(a, Y) = F4
    <3>1. ASSUME NEW i \in Slots PROVE F4[i] = Rest(i) \cup Here(i)
      BY <1>1, <1>4, <1>6, <2>3, <2>5, <2>7
    <3>2. F4 \in [Slots -> SUBSET s.table]
      BY <1>4, <1>6
    <3> HIDE DEF F4, Y, Rest, Here
    <3> QED BY <2>5, <3>1, <3>2 DEF Members
  <2>8. \A q \in Y : q \in a.table \ {a.alloc} /\ a.header[q] = Blocks
    <3>1. \A q \in X : q \in s.table \ {s.alloc} /\ s.header[q] = Blocks
      BY <1>s DEF Sound
    <3> QED BY <1>1, <1>2, <1>14, <3>1
  <2> QED BY <2>6, <2>7, <2>8
<1>15. F2[EMPTY] = F[EMPTY] /\ F4[EMPTY] = F[EMPTY]
  BY <1>4, <1>6
<1> HIDE DEF F2, F4, Y
\* The counters, the lists and the headers make the result sound.
<1>16. ASSUME NEW a \in Allocator, SamePages(v, a), SameWorking(v, a),
              IF IsLow(n1) THEN Lists(a, F2) ELSE Lists(a, F4)
       PROVE  /\ Good(a, Relocated(p1, p2, to), Y)
              /\ a.num_pages = s.num_pages - 1
              /\ a.table = s.table \ {p2} /\ a.header[p1] = n1
              /\ \A q \in a.table \ {p1} : a.header[q] = s.header[q]
  <2>1. /\ a.alloc = s.alloc /\ a.table = s.table \ {p2} /\ a.h = s.h
        /\ a.last_free = NULL /\ a.failed = s.failed
        /\ a.num_pages = s.num_pages - 1 /\ a.empty_pages = s.empty_pages
        /\ a.header[p1] = n1
        /\ \A q \in s.table \ {p1, p2} : a.header[q] = s.header[q]
    BY <1>12, <1>16 DEF SamePages, SameWorking
  <2>2. /\ IsLow(n1) => Members(a, Y) = F2
        /\ ~IsLow(n1) => Members(a, Y) = F4
        /\ \A q \in Y : q \in a.table \ {a.alloc} /\ a.header[q] = Blocks
    BY <1>14, <2>1
  <2>3. Lists(a, Members(a, Y)) /\ Members(a, Y)[EMPTY] = F[EMPTY]
    BY <1>15, <1>16, <2>2
  <2>4. a.num_pages = Cardinality(a.table)
    <3>1. Cardinality(s.table \ {p2}) = Cardinality(s.table) - 1
      BY TableIsFinite, FS_RemoveElement
    <3> QED BY <1>s, <2>1, <3>1 DEF Sound
  <2>5. Sound(a, Y)
    BY <1>s, <1>2, <2>1, <2>2, <2>3, <2>4 DEF Sound, F
  <2>6. LastFreeOK(a)
    BY <2>1 DEF LastFreeOK
  <2>7. Holds(s, live)
    BY DEF Good
  <2>8. ASSUME NEW x \in Relocated(p1, p2, to)
        PROVE  /\ x[1] \in a.table
               /\ x[1] = a.alloc => x[2] \notin a.h
               /\ x[1] = a.last_free => x[2] \notin a.hf
               /\ x[1] # a.alloc => x[2] \notin a.header[x[1]]
    <3>1. CASE x \in live /\ x[1] # p2
      <4>1. x[1] \in s.table /\ x[1] # NULL /\ x[1] \in a.table
        BY <1>5, <2>1, <2>7, <3>1 DEF Holds
      <4>2. x[1] = s.alloc => x[2] \notin s.h
        BY <2>7, <3>1 DEF Holds
      <4>3. x[1] # s.alloc => x[2] \notin s.header[x[1]]
        BY <2>7, <3>1 DEF Holds
      <4>4. x[1] # s.alloc => x[2] \notin a.header[x[1]]
        <5>1. CASE x[1] = p1
          BY <1>2, <2>1, <4>3, <5>1 DEF n1, h1
        <5>2. CASE x[1] # p1
          BY <2>1, <3>1, <4>1, <4>3, <5>2
        <5> QED BY <5>1, <5>2
      <4> QED BY <2>1, <4>1, <4>2, <4>4
    <3>2. CASE \E b \in LiveIn(p2) \ s.header[p2] : x = <<p1, to[b]>>
      <4>1. PICK b \in LiveIn(p2) \ s.header[p2] : x = <<p1, to[b]>>
        BY <3>2
      <4>2. b \in Blocks \ s.header[p2]
        BY <4>1 DEF LiveIn
      <4>3. to[b] \in Range(to)
        BY <4>2 DEF Range, Injection, Moves
      <4> QED BY <1>1, <1>2, <2>1, <4>1, <4>3 DEF n1
    <3> QED BY <3>1, <3>2 DEF Relocated
  <2>9. Holds(a, Relocated(p1, p2, to))
    BY <2>8 DEF Holds
  <2> QED BY <2>1, <2>5, <2>6, <2>9 DEF Good
<1>17. /\ Good(r, Relocated(p1, p2, to), Y)
       /\ r.num_pages = s.num_pages - 1
       /\ r.table = s.table \ {p2} /\ r.header[p1] = n1
       /\ \A q \in r.table \ {p1} : r.header[q] = s.header[q]
  <2>1. CASE IsLow(n1)
    <3>1. r = v
      BY <1>12, <2>1 DEF Resettled
    <3>2. SamePages(v, v) /\ SameWorking(v, v)
      BY DEF SamePages, SameWorking
    <3> HIDE DEF r
    <3> QED BY <1>12, <1>13, <1>16, <2>1, <3>1, <3>2
  <2>2. CASE ~IsLow(n1)
    <3>1. r = DOUBLE_LINK(t, HIGH, p1)
      BY <1>12, <2>2 DEF Resettled
    <3>2. v.pages[LOW] = p1
      BY <1>9, <1>12
    <3>3. SamePages(v, t) /\ Lists(t, F3)
      BY <1>2, <1>4, <1>12, <1>13, <3>2, ShiftLists
    <3>4. t \in Allocator /\ SameWorking(v, t)
      BY <1>2, <1>4, <1>12, <3>2, ShiftType, ShiftFrame
    <3>5. \A i \in Slots : p1 \notin F3[i]
      BY <1>4, <1>6 DEF F2
    <3>6. p1 \in t.table
      BY <1>1, <1>2, <1>12, <3>3 DEF SamePages
    <3> HIDE DEF r, t, F3
    <3>7. SamePages(t, r) /\ Lists(r, F4)
      BY <1>4, <3>1, <3>3, <3>4, <3>5, <3>6, LinkLists DEF F4
    <3>8. r \in Allocator /\ SameWorking(t, r)
      BY <1>2, <1>4, <3>1, <3>4, LinkType, LinkFrame
    <3>9. SamePages(v, r) /\ SameWorking(v, r)
      BY <3>3, <3>4, <3>7, <3>8 DEF SamePages, SameWorking
    <3> QED BY <1>16, <2>2, <3>7, <3>8, <3>9
  <2> QED BY <2>1, <2>2
<1>18. Y \in SUBSET X
  BY DEF Y
<1> HIDE DEF r, Y
<1> QED BY <1>17, <1>18 DEF PagesMerged, r, v, m, n1, h1

----------------------------------------------------------------------------
(* A merge loses no block *)

\* Where the blocks of L are after p2 was merged into p1.
Moved(L, p1, p2, to) ==
    {IF x[1] = p2 THEN <<p1, to[x[2]]>> ELSE x : x \in L}

LEMMA MovedCount ==
    ASSUME NEW h1, NEW h2, NEW p1, NEW p2, p1 # p2,
           NEW to \in Moves(h1, h2),
           NEW L \in SUBSET (Pages \X Blocks), IsFiniteSet(L),
           \A x \in L : /\ x[1] = p1 => x[2] \notin h1
                        /\ x[1] = p2 => x[2] \notin h2
    PROVE  Cardinality(Moved(L, p1, p2, to)) = Cardinality(L)
<1> DEFINE f == [x \in L |-> IF x[1] = p2 THEN <<p1, to[x[2]]>> ELSE x]
           M == Moved(L, p1, p2, to)
<1>1. f \in Surjection(L, M)
  BY DEF Surjection, Moved
<1>2. ASSUME NEW x \in L, NEW y \in L, f[x] = f[y] PROVE x = y
  <2>1. /\ x = <<x[1], x[2]>> /\ y = <<y[1], y[2]>>
        /\ x[2] \in Blocks /\ y[2] \in Blocks
    OBVIOUS
  <2>2. CASE x[1] = p2 /\ y[1] = p2
    <3>1. to[x[2]] = to[y[2]]
      BY <1>2, <2>2
    <3>2. x[2] \in Blocks \ h2 /\ y[2] \in Blocks \ h2
      BY <2>1, <2>2
    <3>3. x[2] = y[2]
      BY <3>1, <3>2 DEF Injection, IsInjective, Moves
    <3> QED BY <2>1, <2>2, <3>3
  <2>3. CASE x[1] # p2 /\ y[1] # p2
    BY <1>2, <2>3
  <2>4. CASE x[1] = p2 /\ y[1] # p2
    <3>1. y = <<p1, to[x[2]]>>
      BY <1>2, <2>4
    <3>2. to[x[2]] \in h1
      BY <2>1, <2>4 DEF Injection, Moves
    <3> QED BY <3>1, <3>2
  <2>5. CASE x[1] # p2 /\ y[1] = p2
    <3>1. x = <<p1, to[y[2]]>>
      BY <1>2, <2>5
    <3>2. to[y[2]] \in h1
      BY <2>1, <2>5 DEF Injection, Moves
    <3> QED BY <3>1, <3>2
  <2> QED BY <2>2, <2>3, <2>4, <2>5
<1>3. f \in Injection(L, M)
  BY <1>1, <1>2 DEF Injection, IsInjective, Surjection
<1> HIDE DEF f, M
<1>4. Cardinality(M) = Cardinality(L)
  BY <1>1, <1>3, FS_Surjection
<1> QED BY <1>4 DEF M

LEMMA RelocatedIsMoved ==
    ASSUME live \in SUBSET (Pages \X Blocks), NEW p1, NEW p2, NEW to,
           \A x \in live : x[1] = p2 => x[2] \notin s.header[p2]
    PROVE  Relocated(p1, p2, to) = Moved(live, p1, p2, to)
<1>1. ASSUME NEW x \in live, x[1] = p2
      PROVE  x[2] \in LiveIn(p2) \ s.header[p2]
  BY <1>1 DEF LiveIn
<1>2. ASSUME NEW b \in LiveIn(p2) \ s.header[p2]
      PROVE  <<p1, to[b]>> \in Moved(live, p1, p2, to)
  <2> DEFINE x == <<p2, b>>
  <2>1. x \in live /\ x[1] = p2 /\ x[2] = b
    BY DEF LiveIn
  <2> HIDE DEF x
  <2> QED BY <2>1 DEF Moved
<1>3. Relocated(p1, p2, to) \subseteq Moved(live, p1, p2, to)
  BY <1>2 DEF Relocated, Moved
<1>4. Moved(live, p1, p2, to) \subseteq Relocated(p1, p2, to)
  BY <1>1 DEF Relocated, Moved
<1> QED BY <1>3, <1>4

LEMMA MergeMovesUse ==
    ASSUME NEW a \in Allocator, NEW r \in Allocator, SameWorking(a, r),
           a.last_free = NULL, NEW p1 \in a.table \ {a.alloc},
           NEW p2 \in a.table \ {a.alloc}, p1 # p2,
           NEW to \in Moves(a.header[p1], a.header[p2]),
           r.table = a.table \ {p2},
           r.header[p1] = a.header[p1] \ Range(to),
           \A q \in r.table \ {p1} : r.header[q] = a.header[q]
    PROVE  /\ InUse(r) = Moved(InUse(a), p1, p2, to)
           /\ \A x \in InUse(a) : /\ x[1] = p1 => x[2] \notin a.header[p1]
                                  /\ x[1] = p2 => x[2] \notin a.header[p2]
<1>1. a.table \in SUBSET Pages /\ NULL \notin Pages
  BY TableIsFinite, NullIsNoPage
<1>2. /\ Kept(a, p1) = a.header[p1] /\ Kept(a, p2) = a.header[p2]
      /\ Kept(r, p1) = a.header[p1] \ Range(to)
      /\ \A q \in r.table \ {p1} : Kept(r, q) = Kept(a, q)
  BY <1>1 DEF Kept, SameWorking
<1>3. a.header[p1] \in SUBSET Blocks /\ p1 \in Pages /\ p2 \in Pages
  BY <1>1 DEF Allocator, Header
<1> HIDE DEF Kept
<1>4. \A x \in InUse(a) : /\ x[1] = p1 => x[2] \notin a.header[p1]
                          /\ x[1] = p2 => x[2] \notin a.header[p2]
  BY <1>2 DEF InUse
<1>5. ASSUME NEW x \in InUse(r) PROVE x \in Moved(InUse(a), p1, p2, to)
  <2>1. /\ x \in Pages \X Blocks /\ x[1] \in r.table /\ x[1] # p2
        /\ x[2] \notin Kept(r, x[1]) /\ x = <<x[1], x[2]>>
    BY DEF InUse
  <2>2. CASE x[1] # p1 \/ x[2] \notin a.header[p1]
    <3>1. x \in InUse(a)
      BY <1>2, <2>1, <2>2 DEF InUse
    <3> QED BY <2>1, <3>1 DEF Moved
  <2>3. CASE x[1] = p1 /\ x[2] \in a.header[p1]
    <3>1. PICK b \in Blocks \ a.header[p2] : to[b] = x[2]
      BY <1>2, <2>1, <2>3 DEF Range, Injection, Moves
    <3> DEFINE y == <<p2, b>>
    <3>2. y \in InUse(a) /\ y[1] = p2 /\ y[2] = b
      BY <1>2, <1>3 DEF InUse
    <3> HIDE DEF y
    <3> QED BY <2>1, <2>3, <3>1, <3>2 DEF Moved
  <2> QED BY <2>2, <2>3
<1>6. ASSUME NEW x \in InUse(a)
      PROVE  (IF x[1] = p2 THEN <<p1, to[x[2]]>> ELSE x) \in InUse(r)
  <2>1. /\ x \in Pages \X Blocks /\ x[1] \in a.table
        /\ x[2] \notin Kept(a, x[1])
    BY DEF InUse
  <2>2. CASE x[1] = p2
    <3>1. x[2] \in Blocks \ a.header[p2]
      BY <1>2, <2>1, <2>2
    <3>2. to[x[2]] \in a.header[p1] /\ to[x[2]] \in Range(to)
      BY <3>1 DEF Range, Injection, Moves
    <3> DEFINE y == <<p1, to[x[2]]>>
    <3>3. y[1] = p1 /\ y[2] = to[x[2]] /\ y \in Pages \X Blocks
      BY <1>3, <3>2
    <3> HIDE DEF y
    <3>4. y \in InUse(r)
      BY <1>2, <3>2, <3>3 DEF InUse
    <3> QED BY <2>2, <3>4 DEF y
  <2>3. CASE x[1] # p2
    BY <1>2, <2>1, <2>3 DEF InUse
  <2> QED BY <2>2, <2>3
<1>7. InUse(r) = Moved(InUse(a), p1, p2, to)
  <2>1. Moved(InUse(a), p1, p2, to) \subseteq InUse(r)
    <3>1. ASSUME NEW x \in Moved(InUse(a), p1, p2, to) PROVE x \in InUse(r)
      <4>1. PICK y \in InUse(a) :
                x = IF y[1] = p2 THEN <<p1, to[y[2]]>> ELSE y
        BY DEF Moved
      <4> QED BY <1>6, <4>1
    <3> QED BY <3>1
  <2> QED BY <1>5, <2>1
<1> QED BY <1>4, <1>7

\* The client owns as many blocks after a merge as before, and ba_count counts
\* as many.
LEMMA MergeCounts ==
    ASSUME s \in Allocator, live \in SUBSET (Pages \X Blocks), NEW X,
           Good(s, live, X), s.last_free = NULL,
           NEW p1 \in s.table, NEW p2 \in s.table, LowPair(p1, p2),
           NEW to \in Moves(s.header[p1], s.header[p2])
    PROVE  LET r == PagesMerged(p1, p2, s.header[p1] \ Range(to))
           IN  /\ Cardinality(Relocated(p1, p2, to)) = Cardinality(live)
               /\ Relocated(p1, p2, to) \in SUBSET (Pages \X Blocks)
               /\ Cardinality(InUse(r)) = Cardinality(InUse(s))
<1> DEFINE n1 == s.header[p1] \ Range(to)
           r == PagesMerged(p1, p2, n1)
<1>1. /\ r \in Allocator /\ SameWorking(s, r)
      /\ r.table = s.table \ {p2}
      /\ r.header[p1] = s.header[p1] \ Range(to)
      /\ \A q \in r.table \ {p1} : r.header[q] = s.header[q]
  <2>1. r \in Allocator /\ SameWorking(s, r)
    <3>1. n1 \in Header
      BY DEF Allocator, Header
    <3> HIDE DEF n1
    <3> QED BY <3>1, MergeType
  <2>2. /\ r.table = s.table \ {p2}
        /\ r.header[p1] = s.header[p1] \ Range(to)
        /\ \A q \in r.table \ {p1} : r.header[q] = s.header[q]
    BY MergeIsGood
  <2> QED BY <2>1, <2>2
<1> HIDE DEF r
<1>2. /\ p1 \in s.table \ {s.alloc} /\ p2 \in s.table \ {s.alloc}
      /\ p1 # p2 /\ p1 \in Pages
  BY LowPairPages, LowPage DEF Good
<1>3. /\ InUse(r) = Moved(InUse(s), p1, p2, to)
      /\ \A x \in InUse(s) : /\ x[1] = p1 => x[2] \notin s.header[p1]
                             /\ x[1] = p2 => x[2] \notin s.header[p2]
  BY <1>1, <1>2, MergeMovesUse
<1>4. InUse(s) \in SUBSET (Pages \X Blocks) /\ IsFiniteSet(InUse(s))
  BY InUseIsFinite DEF InUse
<1>5. Cardinality(InUse(r)) = Cardinality(InUse(s))
  BY <1>2, <1>3, <1>4, MovedCount
<1>6. live \in SUBSET InUse(s) /\ IsFiniteSet(live)
  <2>1. live \in SUBSET InUse(s)
    BY HeldIsInUse DEF Good
  <2> HIDE DEF InUse
  <2> QED BY <1>4, <2>1, FS_Subset
<1>7. Cardinality(Moved(live, p1, p2, to)) = Cardinality(live)
  <2>1. \A x \in live : /\ x[1] = p1 => x[2] \notin s.header[p1]
                        /\ x[1] = p2 => x[2] \notin s.header[p2]
    BY <1>3, <1>6
  <2> QED BY <1>2, <1>6, <2>1, MovedCount
<1>8. Relocated(p1, p2, to) = Moved(live, p1, p2, to)
  <2>1. \A x \in live : x[1] = p2 => x[2] \notin s.header[p2]
    BY <1>3, <1>6
  <2> QED BY <2>1, RelocatedIsMoved
<1>9. Relocated(p1, p2, to) \in SUBSET (Pages \X Blocks)
  <2>1. \A x \in live : x[1] = p2 => x[2] \in Blocks \ s.header[p2]
    BY <1>3, <1>6
  <2>2. \A b \in Blocks \ s.header[p2] : to[b] \in Blocks
    BY <1>2 DEF Injection, Allocator, Header, Moves
  <2>3. Moved(live, p1, p2, to) \in SUBSET (Pages \X Blocks)
    BY <1>2, <2>1, <2>2 DEF Moved
  <2> QED BY <1>8, <2>3
<1> QED BY <1>5, <1>7, <1>8, <1>9 DEF r

----------------------------------------------------------------------------
(* The invariant *)

\* In the loop of ba_defragment no working header hides a page with less than
\* half of its blocks in use.
DGood == /\ \E X \in SUBSET Pages : Good(s, live, X)
         /\ LastFreeBusy(s)
         /\ merging => /\ s.last_free = NULL
                       /\ s.alloc # NULL => ~IsLow(s.h)

DInv == TypeInv /\ goal \in Nat /\ (Intact => DGood)

LEMMA DInvInit == DInit => DInv
<1>1. Init => TypeInv /\ Good(s, live, {}) /\ LastFreeBusy(s)
  BY InvInit, TypeInit, EmptyIsSound DEF Init, Good, Holds
<1> QED BY <1>1 DEF DInit, DInv, DGood

LEMMA DiscardedType ==
    ASSUME NEW a \in Allocator, a.h # {} => a.alloc # NULL
    PROVE  LET k == ba_shrink(a)
               r == FlushLastFree(DiscardAlloc(k))
           IN  /\ k \in Allocator /\ (k.h # {} => k.alloc # NULL)
               /\ r \in Allocator /\ (r.h # {} => r.alloc # NULL)
<1> DEFINE k == ba_shrink(a)
           d == DiscardAlloc(k)
           r == FlushLastFree(d)
<1>1. k \in Allocator /\ (k.h # {} => k.alloc # NULL)
  BY ShrinkType, ShrinkFrame DEF SameWorking
<1> HIDE DEF k
<1>2. d \in Allocator /\ (d.h # {} => d.alloc # NULL)
  BY <1>1, DiscardType
<1> HIDE DEF d
<1>3. r \in Allocator /\ (r.h # {} => r.alloc # NULL)
  BY <1>2, FlushType, FlushFrame
<1> QED BY <1>1, <1>3 DEF r, d, k

LEMMA NextIsGood ==
    ASSUME DInv, [Next]_vars, ~merging, ~merging', Intact'
    PROVE  DGood'
<1>1. TypeInv /\ (Intact => DGood)
  BY DEF DInv
<1>2. PICK X \in SUBSET Pages : Intact => Good(s, live, X) /\ LastFreeBusy(s)
  BY <1>1 DEF DGood
<1>3. PICK Y \in SUBSET X :
            /\ Good(s', live', Y)
            /\ ~Intact \/ LastFreeBusy(s) => LastFreeBusy(s')
  BY <1>1, <1>2, StepIsGood
<1> QED BY <1>2, <1>3 DEF DGood

LEMMA BeginStep ==
    ASSUME TypeInv, DGood, BeginDefragment
    PROVE  DGood' /\ (merging' => InUse(s') = InUse(s))
<1> DEFINE k == ba_shrink(s)
           r == FlushLastFree(DiscardAlloc(k))
<1>1. PICK n \in 0 .. Cardinality(Pages) :
            /\ s' = IF k.failed \/ k.num_pages <= n THEN k ELSE r
            /\ merging' = (~s'.failed /\ ~(k.num_pages <= n))
            /\ goal' = IF merging' THEN n ELSE 0
  BY DEF BeginDefragment
<1>2. UNCHANGED <<live, collided>>
  BY DEF BeginDefragment
<1>3. PICK X \in SUBSET Pages : Good(s, live, X)
  BY DEF DGood
<1>4. /\ s \in Allocator /\ live \in SUBSET (Pages \X Blocks)
      /\ LastFreeBusy(s) /\ (s.h # {} => s.alloc # NULL)
  BY DEF DGood, TypeInv, TypeOK
<1>5. k \in Allocator /\ r \in Allocator
  BY <1>4, DiscardedType
<1>6. /\ Good(k, live, X) /\ LastFreeBusy(k) /\ InUse(k) = InUse(s)
  BY <1>3, <1>4, ShrinkIsGood
<1> HIDE DEF k
<1>7. /\ \E Y \in SUBSET Pages : Good(r, live, Y)
      /\ r.last_free = NULL
      /\ r.alloc # NULL => ~IsLow(r.h)
      /\ InUse(r) = InUse(k)
  BY <1>4, <1>5, <1>6, BeginIsGood
<1> HIDE DEF r
<1>9. ~k.failed
  BY <1>6 DEF Good, Sound
<1>10. CASE k.num_pages <= n
  <2>1. s' = k /\ ~merging'
    BY <1>1, <1>10
  <2> QED BY <1>2, <1>3, <1>6, <2>1 DEF DGood
<1>11. CASE ~(k.num_pages <= n)
  <2>1. s' = r
    BY <1>1, <1>9, <1>11
  <2>2. LastFreeBusy(r)
    BY <1>7 DEF LastFreeBusy
  <2> QED BY <1>2, <1>6, <1>7, <2>1, <2>2 DEF DGood
<1> QED BY <1>10, <1>11

\* An operation may spoil a list, and does not mend one.
LEMMA SpoiledStays ==
    ASSUME spoiled' \in {spoiled, TRUE}, collided' = collided, Intact'
    PROVE  Intact
<1>1. spoiled' = spoiled \/ spoiled' = TRUE
  OBVIOUS
<1>2. ~spoiled' /\ ~collided'
  BY DEF Intact
<1>3. ~spoiled
  BY <1>1, <1>2, Zenon
<1>4. ~collided
  BY <1>2, Zenon
<1> QED BY <1>3, <1>4 DEF Intact

\* What Merge does with two pages that fit into one.
MergedOnce(p1, p2) ==
    \E to \in Moves(s.header[p1], s.header[p2]) :
        /\ s' = PagesMerged(p1, p2, s.header[p1] \ Range(to))
        /\ live' = Relocated(p1, p2, to)

\* What Overshoot does with them if the process survives it.
OvershotOnce(p1, p2) ==
    \E free \in Header, to \in [LiveIn(p2) -> Blocks] :
        s' = PagesMerged(p1, p2, free) /\ live' = Relocated(p1, p2, to)

LEMMA MergeStep ==
    ASSUME TypeInv, DGood, Merge
    PROVE  /\ DGood'
           /\ s'.num_pages = s.num_pages - 1
           /\ Cardinality(live') = Cardinality(live)
           /\ Cardinality(InUse(s')) = Cardinality(InUse(s))
<1>1. PICK X \in SUBSET Pages : Good(s, live, X)
  BY DEF DGood
<1>2. /\ s \in Allocator /\ live \in SUBSET (Pages \X Blocks)
      /\ s.last_free = NULL /\ (s.alloc # NULL => ~IsLow(s.h))
  BY DEF DGood, TypeInv, TypeOK, Merge
<1>3. PICK p1 \in s.table, p2 \in s.table :
        LowPair(p1, p2) /\ (~Crowded(p1, p2) => MergedOnce(p1, p2))
  BY DEF Merge, Moves, MergedOnce
<1>4. MergedOnce(p1, p2)
  BY <1>1, <1>2, <1>3, LowPagesFit DEF Good
<1>5. PICK to \in Moves(s.header[p1], s.header[p2]) :
            /\ s' = PagesMerged(p1, p2, s.header[p1] \ Range(to))
            /\ live' = Relocated(p1, p2, to)
  BY <1>4 DEF MergedOnce
<1>6. /\ \E Y \in SUBSET X : Good(s', live', Y)
      /\ s'.num_pages = s.num_pages - 1
  BY <1>1, <1>2, <1>3, <1>5, MergeIsGood
<1>7. /\ Cardinality(live') = Cardinality(live)
      /\ Cardinality(InUse(s')) = Cardinality(InUse(s))
  BY <1>1, <1>2, <1>3, <1>5, MergeCounts
<1>8. s' \in Allocator /\ SameWorking(s, s')
  <2>1. s.header[p1] \ Range(to) \in Header
    BY <1>2 DEF Allocator, Header
  <2> QED BY <1>2, <1>5, <2>1, MergeType
<1>9. DGood'
  BY <1>2, <1>6, <1>8 DEF DGood, SameWorking, LastFreeBusy
<1> QED BY <1>6, <1>7, <1>9

\* A merge, an overshooting one too, keeps the types even of an allocator that
\* has collided.
LEMMA MergedTypes ==
    ASSUME TypeInv, NEW p1 \in s.table, NEW p2 \in s.table,
           NEW free \in Header, NEW to,
           \A b \in LiveIn(p2) \ s.header[p2] : to[b] \in Blocks,
           s' = PagesMerged(p1, p2, free), live' = Relocated(p1, p2, to)
    PROVE  /\ s' \in Allocator /\ SameWorking(s, s')
           /\ live' \in SUBSET (Pages \X Blocks)
<1>1. s \in Allocator /\ live \in SUBSET (Pages \X Blocks)
  BY DEF TypeInv, TypeOK
<1>2. s' \in Allocator /\ SameWorking(s, s')
  BY <1>1, MergeType
<1>3. p1 \in Pages
  BY <1>1 DEF Allocator
<1>4. live' \in SUBSET (Pages \X Blocks)
  BY <1>1, <1>3 DEF Relocated
<1> QED BY <1>2, <1>4

LEMMA FailedTypes ==
    ASSUME TypeInv, s' = Fail(s), live' = live
    PROVE  /\ s' \in Allocator /\ SameWorking(s, s')
           /\ live' \in SUBSET (Pages \X Blocks)
BY FailType DEF TypeInv, TypeOK, Fail, SameWorking, Allocator

LEMMA MergeTypeStep == TypeInv /\ (Merge \/ Overshoot) => TypeInv' /\ SameWorking(s, s')
<1> SUFFICES ASSUME TypeInv, Merge \/ Overshoot
             PROVE  TypeInv' /\ SameWorking(s, s')
  OBVIOUS
<1>1. /\ s \in Allocator /\ (s.h # {} => s.alloc # NULL)
      /\ collided \in BOOLEAN /\ spoiled \in BOOLEAN
  BY DEF TypeInv, TypeOK
<1>2. collided' = collided /\ spoiled' \in BOOLEAN
  BY <1>1 DEF Merge, Overshoot, ContinueLoop
<1>3. /\ s' \in Allocator /\ SameWorking(s, s')
      /\ live' \in SUBSET (Pages \X Blocks)
  <2>1. CASE s' = Fail(s) /\ live' = live
    BY <2>1, FailedTypes
  <2>2. CASE \E p1, p2 \in s.table : MergedOnce(p1, p2)
    <3>1. PICK p1 \in s.table, p2 \in s.table : MergedOnce(p1, p2)
      BY <2>2
    <3>2. PICK to \in Moves(s.header[p1], s.header[p2]) :
                /\ s' = PagesMerged(p1, p2, s.header[p1] \ Range(to))
                /\ live' = Relocated(p1, p2, to)
      BY <3>1 DEF MergedOnce
    <3>3. s.header[p1] \in SUBSET Blocks /\ s.header[p1] \ Range(to) \in Header
      BY <1>1 DEF Allocator, Header
    <3>4. \A b \in LiveIn(p2) \ s.header[p2] : to[b] \in Blocks
      BY <3>3 DEF LiveIn, Moves, Injection
    <3> QED BY <3>2, <3>3, <3>4, MergedTypes
  <2>3. CASE \E p1, p2 \in s.table : OvershotOnce(p1, p2)
    <3>1. PICK p1 \in s.table, p2 \in s.table : OvershotOnce(p1, p2)
      BY <2>3
    <3>2. PICK free \in Header, to \in [LiveIn(p2) -> Blocks] :
                s' = PagesMerged(p1, p2, free) /\ live' = Relocated(p1, p2, to)
      BY <3>1 DEF OvershotOnce
    <3> QED BY <3>2, MergedTypes
  <2> QED BY <2>1, <2>2, <2>3 DEF Merge, Overshoot, MergedOnce, OvershotOnce, Moves, Header
<1> QED BY <1>1, <1>2, <1>3 DEF TypeInv, TypeOK, SameWorking

LEMMA BeginTypeStep == TypeInv /\ BeginDefragment => TypeInv' /\ goal' \in Nat
<1> SUFFICES ASSUME TypeInv, BeginDefragment PROVE TypeInv' /\ goal' \in Nat
  OBVIOUS
<1>1. s' \in {ba_shrink(s), FlushLastFree(DiscardAlloc(ba_shrink(s)))}
  BY DEF BeginDefragment
<1>2. s \in Allocator /\ (s.h # {} => s.alloc # NULL)
  BY DEF TypeInv, TypeOK
<1>3. s' \in Allocator /\ (s'.h # {} => s'.alloc # NULL)
  BY <1>1, <1>2, DiscardedType
<1>4. UNCHANGED <<live, collided, spoiled>> /\ goal' \in Nat
  BY DEF BeginDefragment
<1> QED BY <1>3, <1>4 DEF TypeInv, TypeOK

LEMMA DInvStep == DInv /\ [DNext]_dvars => DInv'
<1> SUFFICES ASSUME DInv, [DNext]_dvars PROVE DInv'
  OBVIOUS
<1>1. TypeInv /\ goal \in Nat /\ (Intact => DGood)
  BY DEF DInv
<1>2. CASE ~merging /\ Next /\ UNCHANGED <<merging, goal>>
  <2>1. TypeInv'
    BY <1>1, <1>2, TypeStep
  <2> QED BY <1>1, <1>2, <2>1, NextIsGood DEF DInv
<1>3. CASE BeginDefragment
  <2>1. Intact' => Intact
    BY <1>3 DEF BeginDefragment, Intact
  <2> QED BY <1>1, <1>3, <2>1, BeginStep, BeginTypeStep DEF DInv
<1>4. CASE Merge
  <2>1. (Intact' => Intact) /\ goal' \in Nat
    BY <1>1, <1>4, SpoiledStays DEF Merge, ContinueLoop
  <2> QED BY <1>1, <1>4, <2>1, MergeStep, MergeTypeStep DEF DInv
<1>5. CASE Overshoot
  <2>1. ~Intact' /\ goal' \in Nat
    BY <1>1, <1>5 DEF Overshoot, ContinueLoop, Intact
  <2> QED BY <1>1, <1>5, <2>1, MergeTypeStep DEF DInv
<1>6. CASE EndDefragment
  BY <1>1, <1>6 DEF EndDefragment, DInv, DGood, TypeInv, TypeOK, Intact
<1>7. CASE UNCHANGED dvars
  BY <1>1, <1>7 DEF dvars, DInv, DGood, TypeInv, TypeOK, Intact
<1> QED BY <1>2, <1>3, <1>4, <1>5, <1>6, <1>7 DEF DNext

\* The inductive invariant holds of every run.
THEOREM DefragmentInvariance == DSpec => []DInv
BY DInvInit, DInvStep, PTL DEF DSpec

LEMMA DInvFacts ==
    ASSUME DInv, Intact
    PROVE  /\ s \in Allocator /\ live \in SUBSET (Pages \X Blocks)
           /\ \E X \in SUBSET Pages : Good(s, live, X)
BY DEF DInv, DGood, TypeInv, TypeOK

LEMMA GoodUse == TypeInv /\ DGood => Counted(WriteBack(s)) = Cardinality(InUse(s))
<1> SUFFICES ASSUME TypeInv, DGood PROVE Counted(WriteBack(s)) = Cardinality(InUse(s))
  OBVIOUS
<1>1. PICK X \in SUBSET Pages : Good(s, live, X)
  BY DEF DGood
<1> QED BY <1>1, WriteBackUse DEF Good, DGood, TypeInv, TypeOK

LEMMA GoodUseNext == (TypeInv /\ DGood => Counted(WriteBack(s)) = Cardinality(InUse(s)))'
BY GoodUse, PTL

\* Each page that is in use but less than half full is on the low list, which has
\* one page at most when no two of them are left on it.
LEMMA NoPairLeft ==
    ASSUME TypeInv, DGood, merging, \A p1, p2 \in s.table : ~LowPair(p1, p2)
    PROVE  Cardinality({p \in s.table : /\ IsLow(Current(p))
                                        /\ Current(p) # Blocks}) <= 1
<1> DEFINE Left == {p \in s.table : IsLow(Current(p)) /\ Current(p) # Blocks}
<1>1. PICK X \in SUBSET Pages : Good(s, live, X)
  BY DEF DGood
<1>2. s \in Allocator /\ Sound(s, X) /\ s.last_free = NULL
      /\ (s.alloc # NULL => ~IsLow(s.h))
  BY <1>1 DEF Good, DGood, TypeInv, TypeOK
<1> DEFINE M == Members(s, X)[LOW]
<1>3. LOW \in Slots /\ s.table \in SUBSET Pages /\ NULL \notin Pages
  BY <1>2, TableIsFinite, NullIsNoPage DEF Slots
<1>4. WellLinked(s.pages[LOW], s.next, s.prev, M) /\ M \in SUBSET s.table
  BY <1>2, <1>3 DEF Sound, Lists
<1>5. Left \in SUBSET M
  <2>1. ASSUME NEW p \in Left PROVE p \in M
    <3>1. p \in s.table /\ p # NULL /\ p \in Pages
      BY <1>3
    <3>2. IsLow(Current(p)) /\ Current(p) # Blocks
      OBVIOUS
    <3>3. p # s.alloc
      BY <1>2, <3>1, <3>2 DEF Current
    <3>4. Current(p) = s.header[p] /\ s.header[p] \in Header
      BY <1>2, <3>1, <3>3 DEF Current, Allocator
    <3>5. ba_get_slot(s.header[p]) = LOW
      BY <3>2, <3>4, LowSlot
    <3> QED BY <1>3, <3>1, <3>3, <3>5 DEF Members, FiledUnder
  <2> QED BY <2>1
<1> HIDE DEF Left, M
<1>6. CASE s.pages[LOW] = NULL
  <2>1. Closed(s.pages[LOW], s.next, {})
    BY <1>6 DEF Closed
  <2>2. M = {}
    BY <1>4, <2>1 DEF WellLinked
  <2>3. Left = {} /\ Cardinality({}) = 0
    BY <1>5, <2>2, FS_EmptySet
  <2> QED BY <2>3 DEF Left
<1>7. CASE s.pages[LOW] # NULL
  <2> DEFINE p1 == s.pages[LOW]
  <2>1. p1 \in M /\ s.next[p1] \in M \cup {NULL}
    BY <1>4, <1>7 DEF WellLinked, Closed
  <2>2. s.next[p1] = NULL
    BY <1>4, <1>7, <2>1 DEF LowPair
  <2>3. Closed(s.pages[LOW], s.next, {p1})
    BY <2>2 DEF Closed
  <2>4. {p1} \in SUBSET Pages
    BY <1>3, <1>4, <2>1
  <2>5. Left \in SUBSET {p1}
    BY <1>4, <1>5, <2>3, <2>4 DEF WellLinked
  <2>6. IsFiniteSet({p1}) /\ Cardinality({p1}) = 1
    BY FS_Singleton
  <2> HIDE DEF p1
  <2>7. Cardinality(Left) <= 1
    BY <2>5, <2>6, FS_Subset
  <2> QED BY <2>7 DEF Left
<1> QED BY <1>6, <1>7

----------------------------------------------------------------------------
(* What follows from it *)

\* Between two merges too, no block the client owns is free in a header it could
\* be handed out from, and its page is not released, unless ba_alloc has collided,
\* a list is spoiled or a merge has overshot a chunk.
THEOREM MergesFreeNoOwnedBlock == DSpec => []OwnedBlocksAreSafe
<1>1. DInv => OwnedBlocksAreSafe
  <2> SUFFICES ASSUME DInv, Intact PROVE OwnedBlocksAreSafe
    BY DEF OwnedBlocksAreSafe
  <2>1. PICK X \in SUBSET Pages : Good(s, live, X)
    BY DInvFacts
  <2> QED BY <2>1, HoldsIsSafe DEF Good
<1> QED BY <1>1, DefragmentInvariance, PTL

\* The counters agree with the empty list and the hash table throughout, up to the
\* same three faults.
THEOREM MergesCountPages == DSpec => []PagesAreCounted
<1>1. DInv => PagesAreCounted
  <2> SUFFICES ASSUME DInv, Intact PROVE PagesAreCounted
    BY DEF PagesAreCounted
  <2>1. PICK X \in SUBSET Pages : Good(s, live, X)
    BY DInvFacts
  <2> QED BY <2>1, DInvFacts, SoundIsCounted DEF Good
<1> QED BY <1>1, DefragmentInvariance, PTL

\* Defragmenting dereferences no NULL, reads no freed page and meets no two pages
\* that do not fit into one, unless a fault came first: an overshoot is one.
THEOREM OnlyAFaultFailsAMerge == DSpec => []FailsOnlyAfterFault
<1>1. DInv => FailsOnlyAfterFault
  <2> SUFFICES ASSUME DInv, Intact PROVE ~s.failed
    BY DEF FailsOnlyAfterFault, Intact
  <2>1. PICK X \in SUBSET Pages : Good(s, live, X)
    BY DInvFacts
  <2> QED BY <2>1 DEF Good, Sound
<1> QED BY <1>1, DefragmentInvariance, PTL

\* The lists hold the pages their headers call for, but for the empty pages on
\* the low list: no page with a free block is lost to ba_get_page.
THEOREM MergesKeepListsExact == DSpec => []ListsHoldAllPages
<1>1. DInv => ListsHoldAllPages
  <2> DEFINE Calling(i) == {p \in s.table \ {s.alloc} :
                                ba_get_slot(s.header[p]) = i}
             strays == ListPages(s, LOW) \cap Calling(EMPTY)
  <2> SUFFICES ASSUME DInv, Intact
               PROVE  /\ ListPages(s, LOW) = Calling(LOW) \cup strays
                      /\ ListPages(s, HIGH) = Calling(HIGH)
                      /\ ListPages(s, EMPTY) = Calling(EMPTY) \ strays
    BY DEF ListsHoldAllPages
  <2>1. PICK X \in SUBSET Pages : Good(s, live, X)
    BY DInvFacts
  <2>2. s \in Allocator /\ Sound(s, X)
    BY <2>1, DInvFacts DEF Good
  <2>3. /\ LOW \in Slots /\ HIGH \in Slots /\ EMPTY \in Slots
        /\ LOW # HIGH /\ LOW # EMPTY /\ HIGH # EMPTY
    BY DEF Slots, LOW, HIGH, EMPTY
  <2>4. ASSUME NEW i \in Slots
        PROVE  ListPages(s, i) = {p \in s.table \ {s.alloc} :
                                        FiledUnder(s, X, p) = i}
    <3>1. Members(s, X)[i] = {p \in s.table \ {s.alloc} : FiledUnder(s, X, p) = i}
      BY DEF Members
    <3>2. ListPages(s, i) = Members(s, X)[i]
      BY <2>2, SoundLists
    <3> QED BY <3>1, <3>2
  <2>5. X \in SUBSET Calling(EMPTY)
    <3>1. ba_get_slot(Blocks) = EMPTY
      BY SlotFacts DEF Header
    <3> QED BY <2>2, <3>1 DEF Sound
  <2>6. ListPages(s, LOW) = Calling(LOW) \cup X
    BY <2>3, <2>4, <2>5 DEF FiledUnder
  <2>7. ListPages(s, HIGH) = Calling(HIGH)
    BY <2>3, <2>4, <2>5 DEF FiledUnder
  <2>8. ListPages(s, EMPTY) = Calling(EMPTY) \ X
    BY <2>3, <2>4, <2>5 DEF FiledUnder
  <2>9. strays = X
    BY <2>3, <2>5, <2>6
  <2> HIDE DEF Calling, strays
  <2> QED BY <2>6, <2>7, <2>8, <2>9
<1> QED BY <1>1, DefragmentInvariance, PTL

\* A step of ba_defragment in which no chunk is overshot loses no block: the client
\* owns as many as before, ba_count counts as many, and a merge frees one page.
THEOREM MergesKeepBlocks == DSpec => MergeKeepsBlocks
<1>1. DInv /\ [DNext]_dvars =>
        [(merging \/ merging') /\ Intact /\ Intact' =>
            /\ Cardinality(live') = Cardinality(live)
            /\ Counted(WriteBack(s))' = Counted(WriteBack(s))
            /\ merging => s' = s \/ s'.num_pages = s.num_pages - 1]_dvars
  <2> SUFFICES ASSUME DInv, DNext, merging \/ merging', Intact, Intact'
               PROVE  /\ Cardinality(live') = Cardinality(live)
                      /\ Counted(WriteBack(s')) = Counted(WriteBack(s))
                      /\ merging => s' = s \/ s'.num_pages = s.num_pages - 1
    OBVIOUS
  <2>1. TypeInv /\ DGood
    BY DEF DInv
  <2>2. CASE BeginDefragment
    <3>1. live' = live /\ ~merging
      BY <2>2 DEF BeginDefragment
    <3>2. TypeInv' /\ DGood' /\ InUse(s') = InUse(s)
      BY <2>1, <2>2, <3>1, BeginStep, BeginTypeStep
    <3> QED BY <2>1, <3>1, <3>2, GoodUse, GoodUseNext
  <2>3. CASE Merge
    BY <2>1, <2>3, MergeStep, MergeTypeStep, GoodUse, GoodUseNext
  <2>4. CASE EndDefragment
    BY <2>4 DEF EndDefragment
  <2>5. ~Overshoot
    BY DEF Overshoot, Intact
  <2> QED BY <2>2, <2>3, <2>4, <2>5 DEF DNext
<1> QED BY <1>1, DefragmentInvariance, PTL DEF DSpec, MergeKeepsBlocks

\* When the loop gives up before its goal, at most one page is left that is in
\* use but less than half full, in whichever header its free blocks are.
THEOREM LoopsLeaveNoPair == DSpec => LoopLeavesNoPair
<1>1. DInv /\ [DNext]_dvars =>
        [merging /\ ~merging' /\ Intact =>
            \/ s'.num_pages <= goal
            \/ Cardinality({p \in s'.table : /\ IsLow(Current(p)')
                                             /\ Current(p)' # Blocks}) <= 1]_dvars
  <2> SUFFICES ASSUME DInv, DNext, merging, ~merging', Intact
               PROVE  \/ s'.num_pages <= goal
                      \/ Cardinality({p \in s'.table : /\ IsLow(Current(p)')
                                             /\ Current(p)' # Blocks}) <= 1
    OBVIOUS
  <2>1. TypeInv /\ DGood /\ goal \in Nat
    BY DEF DInv
  <2>2. CASE Merge \/ Overshoot
    <3>1. TypeInv'
      BY <2>1, <2>2, MergeTypeStep
    <3>2. s'.num_pages \in Int
      BY <3>1 DEF TypeInv, TypeOK, Allocator
    <3>3. merging' <=> s'.num_pages > goal
      BY <2>2 DEF Merge, Overshoot, ContinueLoop
    <3>4. ~(s'.num_pages > goal)
      BY <3>3
    <3> QED BY <2>1, <3>2, <3>4
  <2>3. CASE EndDefragment
    <3>1. s' = s /\ \A p1, p2 \in s.table : ~LowPair(p1, p2)
      BY <2>3 DEF EndDefragment
    <3> DEFINE Left == {p \in s.table : IsLow(Current(p)) /\ Current(p) # Blocks}
    <3>2. Cardinality(Left) <= 1
      BY <2>1, <3>1, NoPairLeft
    <3>3. {p \in s'.table : IsLow(Current(p)') /\ Current(p)' # Blocks} = Left
      BY <3>1 DEF Current
    <3> QED BY <3>2, <3>3
  <2> QED BY <2>2, <2>3 DEF DNext, BeginDefragment
<1> QED BY <1>1, DefragmentInvariance, PTL DEF DSpec, LoopLeavesNoPair

----------------------------------------------------------------------------
(* The allocator behind a ba_local *)

LGood == /\ Good(s, live, {})
         /\ s.alloc = NULL => s.last_free = NULL
         /\ merging => s.last_free = NULL

LInv == TypeInv /\ (Intact /\ ~stale => LGood)

LEMMA LInvInit == LInit => LInv
<1>1. Init => TypeInv /\ Good(s, live, {}) /\ s.last_free = NULL
  BY TypeInit, EmptyIsSound DEF Init, Good, Holds, EmptyAllocator
<1> QED BY <1>1 DEF LInit, DInit, LInv, LGood

LEMMA LFacts ==
    ASSUME TypeInv
    PROVE  /\ s \in Allocator /\ live \in SUBSET (Pages \X Blocks)
           /\ collided \in BOOLEAN /\ spoiled \in BOOLEAN
           /\ s.h # {} => s.alloc # NULL
BY DEF TypeInv, TypeOK

----------------------------------------------------------------------------
(* The operations of the allocator whose state ba_local shares *)

\* The allocator goes on having a page to allocate from.
LEMMA AllocStays ==
    ASSUME TypeInv, s.alloc # NULL,
           ba_alloc_fast \/ ba_alloc_slow \/ ba_free \/ ba_count \/ ba_walk
    PROVE  s'.alloc # NULL
<1>1. s \in Allocator /\ (s.h # {} => s.alloc # NULL)
  BY LFacts
<1>2. ASSUME NEW a \in Allocator, a.alloc # NULL, Shift(a) PROVE s'.alloc # NULL
  BY <1>2 DEF Shift, Fail, Allocator
<1>3. CASE ba_alloc_fast
  BY <1>1, <1>2, <1>3 DEF ba_alloc_fast
<1>4. CASE ba_alloc_slow
  <2>1. PICK new \in MallocResults : Shift(ba_global_get_page(new))
    BY <1>4 DEF ba_alloc_slow
  <2>2. /\ ba_global_get_page(new) \in Allocator
        /\ ba_global_get_page(new).alloc \in Pages
    BY <1>1, GlobalGetPageType, GlobalGetPageAlloc
  <2> QED BY <1>2, <2>1, <2>2, NullIsNoPage
<1>5. CASE ba_free
  <2>1. PICK p \in Pages, b \in Blocks : s' = Unshift(p, b)
    BY <1>5 DEF ba_free
  <2> DEFINE filed == FlushLastFree(s)
  <2>2. filed \in Allocator /\ filed.alloc = s.alloc
    BY <1>1, FlushType, FlushFrame
  <2> HIDE DEF filed
  <2>3. /\ ba_get_free_page(p) \in
            {Fail(filed), [filed EXCEPT !.last_free = p, !.hf = filed.header[p]]}
    BY DEF ba_get_free_page, filed
  <2>4. ba_get_free_page(p) \in Allocator /\ ba_get_free_page(p).alloc = s.alloc
    BY <2>2, <2>3 DEF Fail, Allocator, PageOrNull
  <2>5. Unshift(p, b) \in
            {[s EXCEPT !.h = @ \cup {b}], [s EXCEPT !.hf = @ \cup {b}],
             ba_get_free_page(p), [ba_get_free_page(p) EXCEPT !.hf = @ \cup {b}]}
    BY DEF Unshift
  <2> QED BY <1>1, <2>1, <2>4, <2>5 DEF Allocator
<1>6. CASE ba_count \/ ba_walk
  <2>1. s' \in {Fail(s), WriteBack(s)}
    BY <1>6 DEF ba_count, ba_walk, VisitPages
  <2>2. Fail(s).alloc = s.alloc /\ WriteBack(s).alloc = s.alloc
    BY <1>1, WriteBackType DEF Fail, Allocator
  <2> QED BY <2>1, <2>2
<1> QED BY <1>3, <1>4, <1>5, <1>6

LEMMA SharedStep ==
    ASSUME LInv, ba_lalloc \/ ba_lfree \/ ba_walk_local,
           UNCHANGED <<merging, goal, stale>>
    PROVE  LInv'
<1>1. /\ ba_alloc_fast \/ ba_alloc_slow \/ ba_free \/ ba_count \/ ba_walk
      /\ TypeInv /\ s.alloc # NULL /\ ~merging /\ [Next]_vars
  BY DEF LInv, Idle, ba_lalloc, ba_lfree, ba_walk_local, Next
<1>2. TypeInv' /\ s'.alloc # NULL
  BY <1>1, TypeStep, AllocStays
<1>3. ASSUME Intact', ~stale' PROVE LGood'
  <2>1. Intact => Good(s, live, {})
    BY <1>3 DEF LInv, LGood
  <2>2. PICK Y \in SUBSET {} : Good(s', live', Y)
    BY <1>1, <1>3, <2>1, OperationIsGood
  <2>3. Y = {}
    OBVIOUS
  <2> QED BY <1>1, <1>2, <2>2, <2>3 DEF LGood
<1> QED BY <1>2, <1>3 DEF LInv

----------------------------------------------------------------------------
(* The operations of ba_local alone *)

\* A new a->a with one page, which ba_local allocates from, has empty lists.
LEMMA TransformedIsGood ==
    ASSUME NEW a \in Allocator, NEW p \in Pages, NEW free \in Header
    PROVE  LET r == Transformed(p, free, a)
           IN  /\ r \in Allocator /\ r.alloc = p
               /\ a.last_free = NULL =>
                    /\ Good(r, {p} \X (Blocks \ free), {})
                    /\ r.last_free = NULL
<1> DEFINE e == EmptyAllocator
           f == [e.header EXCEPT ![p] = free]
           r == Transformed(p, free, a)
<1>1. /\ e \in Allocator /\ e.num_pages = 0 /\ e.empty_pages = 0 /\ ~e.failed
      /\ \A i \in Slots : e.pages[i] = NULL
  BY EmptyAllocatorType DEF EmptyAllocator
<1>2. f \in [Pages -> Header] /\ f[p] = free
  BY <1>1 DEF Allocator
<1>3. r = [e EXCEPT !.alloc = p, !.h = free, !.header = f, !.table = {p},
                    !.num_pages = 1, !.last_free = a.last_free, !.hf = a.hf]
  BY DEF Transformed
<1> HIDE DEF e, f, r
<1>4. /\ r \in Allocator
      /\ r.alloc = p /\ r.h = free /\ r.header = f /\ r.table = {p}
      /\ r.last_free = a.last_free /\ r.hf = a.hf
      /\ r.pages = e.pages /\ r.next = e.next /\ r.prev = e.prev
      /\ r.failed = e.failed /\ r.num_pages = 1 /\ r.empty_pages = 0
  <2>1. /\ p \in PageOrNull /\ a.last_free \in PageOrNull /\ a.hf \in Header
        /\ {p} \in SUBSET Pages
    BY DEF Allocator, PageOrNull
  <2>2. e \in Allocator /\ e.empty_pages = 0
    BY <1>1
  <2>3. /\ r.alloc = p /\ r.h = free /\ r.header = f /\ r.table = {p}
        /\ r.last_free = a.last_free /\ r.hf = a.hf /\ r.num_pages = 1
    BY <1>3, <2>2 DEF Allocator
  <2>4. /\ r.pages = e.pages /\ r.next = e.next /\ r.prev = e.prev
        /\ r.failed = e.failed /\ r.empty_pages = 0
    BY <1>3, <2>2 DEF Allocator
  <2>5. r \in Allocator
    <3> DEFINE d == [e EXCEPT !.alloc = p, !.h = free, !.header = f, !.table = {p}]
    <3>1. d \in Allocator
      BY <1>2, <2>1, <2>2 DEF Allocator
    <3>2. r = [d EXCEPT !.num_pages = 1, !.last_free = a.last_free, !.hf = a.hf]
      BY <1>3
    <3>3. \A x \in PageOrNull, y \in Header, n \in Int :
            [d EXCEPT !.num_pages = n, !.last_free = x, !.hf = y] \in Allocator
      <4> HIDE DEF d
      <4> QED BY <3>1 DEF Allocator
    <3> HIDE DEF d
    <3>4. 1 \in Int
      OBVIOUS
    <3> QED BY <2>1, <3>2, <3>3, <3>4
  <2> QED BY <2>3, <2>4, <2>5
<1>5. Members(r, {}) = [i \in Slots |-> {}]
  BY <1>4 DEF Members
<1>6. Lists(r, Members(r, {}))
  <2>1. \A i \in Slots : WellLinked(r.pages[i], r.next, r.prev, {})
    BY <1>1, <1>4 DEF WellLinked, Closed
  <2> QED BY <1>5, <2>1 DEF Lists
<1>7. EMPTY \in Slots /\ Cardinality({}) = 0 /\ Cardinality({p}) = 1
  BY FS_EmptySet, FS_Singleton DEF Slots
<1>8. Sound(r, {})
  BY <1>1, <1>4, <1>5, <1>6, <1>7, MaxEmptyAssumption DEF Sound
<1>9. ASSUME a.last_free = NULL PROVE Good(r, {p} \X (Blocks \ free), {})
  BY <1>4, <1>8, <1>9, NullIsNoPage DEF Good, Holds, LastFreeOK
<1> QED BY <1>4, <1>9 DEF r

LEMMA GrowStep ==
    ASSUME LInv, ba_local_grow
    PROVE  LInv'
<1>1. PICK p \in Pages, free \in (SUBSET Blocks) \ {{}} :
            s' = Transformed(p, free, s) /\ live' = {p} \X (Blocks \ free)
  BY DEF ba_local_grow
<1>2. /\ s.alloc = NULL /\ UNCHANGED <<collided, merging, goal, stale>>
      /\ s \in Allocator /\ collided \in BOOLEAN /\ spoiled' \in BOOLEAN
      /\ Intact' => Intact
  BY LFacts, SpoiledStays DEF ba_local_grow, LInv
<1>3. /\ s' \in Allocator /\ s'.alloc = p /\ p # NULL
      /\ s.last_free = NULL => Good(s', live', {}) /\ s'.last_free = NULL
  BY <1>1, <1>2, TransformedIsGood, NullIsNoPage DEF Header
<1>4. live' \subseteq Pages \X Blocks
  BY <1>1
<1>5. TypeInv'
  BY <1>2, <1>3, <1>4 DEF TypeInv, TypeOK
<1> QED BY <1>2, <1>3, <1>5 DEF LInv, LGood

\* Filing the page of last_free keeps what it needs to go on being last_free,
\* unless the page was empty and has been released.
LEMMA CountStep ==
    ASSUME LInv, ba_lcount, UNCHANGED <<merging, goal>>
    PROVE  LInv'
<1> DEFINE a == [s EXCEPT !.header[s.alloc] = s.h]
           p == a.last_free
<1>1. /\ s' = IF p = NULL THEN a ELSE ba_update_slot(a, p, a.hf)
      /\ stale' = (stale \/ s'.last_free \notin s'.table \cup {NULL})
      /\ UNCHANGED <<live, collided, spoiled>> /\ s.alloc # NULL /\ ~merging
  BY DEF ba_lcount, Idle
<1>2. /\ s \in Allocator /\ live \in SUBSET (Pages \X Blocks)
      /\ collided \in BOOLEAN /\ spoiled \in BOOLEAN
  BY LFacts DEF LInv
<1>3. s.alloc \in Pages /\ s.h \in Header
  BY <1>1, <1>2 DEF Allocator, PageOrNull
<1>4. /\ a \in Allocator /\ SameWorking(s, a)
      /\ a.table = s.table /\ a.pages = s.pages
      /\ a.next = s.next /\ a.prev = s.prev /\ a.failed = s.failed
      /\ a.num_pages = s.num_pages /\ a.empty_pages = s.empty_pages
      /\ \A q \in Pages \ {s.alloc} : a.header[q] = s.header[q]
  BY <1>2, <1>3, StoreHeader
<1> HIDE DEF a
<1>5. s' \in Allocator /\ SameWorking(a, s')
  <2>1. CASE p = NULL
    BY <1>1, <1>4, <2>1 DEF SameWorking
  <2>2. CASE p # NULL
    <3>1. p \in Pages /\ a.hf \in Header
      BY <1>4, <2>2 DEF Allocator, PageOrNull
    <3> QED BY <1>1, <1>4, <2>2, <3>1, UpdateSlotType, UpdateSlotFrame
  <2> QED BY <2>1, <2>2
<1>6. TypeInv'
  BY <1>1, <1>2, <1>4, <1>5 DEF SameWorking, LInv, TypeInv, TypeOK
<1>7. ASSUME Intact', ~stale' PROVE LGood'
  <2>1. /\ Good(s, live, {}) /\ s.table \subseteq Pages
        /\ s'.last_free \in s'.table \cup {NULL}
    BY <1>1, <1>2, <1>7, TableIsFinite DEF LInv, LGood, Intact
  <2>2. Sound(a, {})
    <3>1. \A q \in s.table \ {s.alloc} : a.header[q] = s.header[q]
      BY <1>4, <2>1
    <3> QED BY <1>4, <2>1, <3>1, SameSound DEF Good, SameWorking
  <2>3. LastFreeOK(a)
    BY <1>4, <2>1, NullIsNoPage DEF Good, LastFreeOK, SameWorking
  <2>4. Holds(a, live)
    BY <1>4, <2>1 DEF Good, Holds, SameWorking
  <2>5. CASE p = NULL
    <3>1. s' = a
      BY <1>1, <2>5
    <3> QED BY <1>1, <1>4, <2>2, <2>3, <2>4, <3>1 DEF LGood, Good, SameWorking
  <2>6. CASE p # NULL
    <3>1. /\ p \in a.table \ {a.alloc} /\ p \in Pages /\ a.hf \in Header
          /\ a.header[p] # Blocks \/ a.hf = Blocks
      BY <1>4, <2>3, <2>6 DEF LastFreeOK, Allocator, PageOrNull
    <3>2. UpdateSlotSafe(a, p, a.hf, s', {})
      BY <1>1, <1>4, <2>2, <2>6, <3>1, UpdateSlotSound
    <3>3. /\ s'.alloc = a.alloc /\ s'.h = a.h /\ s'.last_free = p
          /\ s'.hf = a.hf /\ p \in s'.table
      BY <1>5, <2>1, <2>6 DEF SameWorking
    <3>4. s'.header[p] \in {a.header[p], a.hf} /\ p # a.alloc
          /\ (s'.header[p] # Blocks \/ a.hf = Blocks)
      BY <3>1, <3>2, <3>3 DEF UpdateSlotSafe, Stored
    <3>5. LastFreeOK(s')
      BY <3>3, <3>4 DEF LastFreeOK
    <3>6. ASSUME NEW x \in live
          PROVE  /\ x[1] \in s'.table
                 /\ x[1] = s'.alloc => x[2] \notin s'.h
                 /\ x[1] = s'.last_free => x[2] \notin s'.hf
                 /\ x[1] # s'.alloc => x[2] \notin s'.header[x[1]]
      <4>1. x[1] \in a.table /\ x[2] \in Blocks
        BY <1>2, <2>4 DEF Holds
      <4>2. x[1] \in s'.table
        BY <2>4, <3>2, <4>1 DEF UpdateSlotSafe, Holds
      <4>3. x[1] # a.alloc => x[2] \notin s'.header[x[1]]
        BY <2>4, <3>2, <3>4, <4>1, <4>2 DEF UpdateSlotSafe, Holds
      <4> QED BY <2>4, <3>3, <4>2, <4>3 DEF Holds
    <3>7. Holds(s', live)
      BY <3>6 DEF Holds
    <3>8. Sound(s', {})
      BY <3>2 DEF UpdateSlotSafe
    <3>9. s'.alloc # NULL
      BY <1>1, <1>4, <3>3 DEF SameWorking
    <3> QED BY <1>1, <3>5, <3>7, <3>8, <3>9 DEF LGood, Good
  <2> QED BY <2>5, <2>6
<1> QED BY <1>6, <1>7 DEF LInv

\* ba_local keeps its pointers, which are stale from here on.
LEMMA FreeAllStep ==
    ASSUME LInv, ba_lfree_all
    PROVE  LInv'
<1>1. /\ s \in Allocator /\ s.alloc # NULL
      /\ collided \in BOOLEAN /\ spoiled \in BOOLEAN
      /\ UNCHANGED <<collided, spoiled>> /\ stale' = TRUE /\ live' = {}
      /\ s' = [EmptyAllocator EXCEPT !.alloc = s.alloc, !.h = s.h,
                                     !.last_free = s.last_free, !.hf = s.hf]
  BY LFacts DEF ba_lfree_all, Idle, LInv
<1>2. s' \in Allocator /\ s'.alloc = s.alloc
  BY <1>1, EmptyAllocatorType DEF Allocator
<1> QED BY <1>1, <1>2 DEF LInv, TypeInv, TypeOK

\* Unless last_free is left behind, the allocator is again as it was at first.
LEMMA DestroyStep ==
    ASSUME LInv, ba_ldestroy, UNCHANGED <<merging, goal>>
    PROVE  LInv'
<1>1. /\ s \in Allocator /\ ~merging
      /\ collided' = FALSE /\ spoiled' = FALSE /\ live' = {}
      /\ stale' = (stale \/ s.last_free # NULL)
      /\ s' = [EmptyAllocator EXCEPT !.last_free = s.last_free, !.hf = s.hf]
  BY LFacts DEF ba_ldestroy, Idle, LInv
<1> DEFINE e == EmptyAllocator
<1>2. e \in Allocator /\ e.h = {} /\ e.alloc = NULL /\ Sound(e, {})
  BY EmptyAllocatorType, EmptyIsSound DEF EmptyAllocator
<1>3. s' = [e EXCEPT !.last_free = s.last_free, !.hf = s.hf]
  BY <1>1
<1> HIDE DEF e
<1>4. /\ s' \in Allocator /\ s'.h = {} /\ s'.alloc = e.alloc
      /\ s'.last_free = s.last_free
      /\ s'.table = e.table /\ s'.header = e.header /\ s'.pages = e.pages
      /\ s'.next = e.next /\ s'.prev = e.prev /\ s'.failed = e.failed
      /\ s'.num_pages = e.num_pages /\ s'.empty_pages = e.empty_pages
  BY <1>1, <1>2, <1>3 DEF Allocator
<1>5. Sound(s', {})
  BY <1>2, <1>4, SameSound
<1>6. TypeInv'
  BY <1>1, <1>4 DEF TypeInv, TypeOK
<1>7. ASSUME ~stale' PROVE LGood'
  <2>1. s'.last_free = NULL /\ live' = {}
    BY <1>1, <1>4, <1>7
  <2> QED BY <1>5, <2>1 DEF LGood, Good, LastFreeOK, Holds
<1> QED BY <1>6, <1>7 DEF LInv

\* last_free is flushed before the pages are merged, so that ba_shrink need not
\* care for it.
LEMMA LocalDefragmentStep ==
    ASSUME LInv, ba_ldefragment, stale' = stale
    PROVE  LInv'
<1> DEFINE f == Flushed(s)
           k == IF f.failed THEN f ELSE ba_shrink(f)
<1>1. s' = k /\ UNCHANGED <<live, collided, spoiled>> /\ s.alloc # NULL /\ ~merging
  BY DEF ba_ldefragment, Idle
<1>2. /\ s \in Allocator /\ live \in SUBSET (Pages \X Blocks)
      /\ collided \in BOOLEAN /\ spoiled \in BOOLEAN
  BY LFacts DEF LInv
<1>3. f \in Allocator /\ f.alloc = s.alloc /\ f.h = s.h
  BY <1>2, FlushType, FlushFrame DEF Flushed
<1> HIDE DEF f
<1>4. k \in Allocator /\ SameWorking(f, k)
  BY <1>3, ShrinkType, ShrinkFrame DEF SameWorking
<1> HIDE DEF k
<1>5. TypeInv'
  BY <1>1, <1>3, <1>4 DEF SameWorking, LInv, TypeInv, TypeOK
<1>6. ASSUME Intact', ~stale' PROVE LGood'
  <2>1. Good(s, live, {})
    BY <1>1, <1>6 DEF LInv, LGood, Intact
  <2>2. Filed(s, f, {}) /\ f.last_free = NULL
    BY <1>2, <2>1, FlushFiles DEF Good, Flushed, f
  <2>3. Good(f, live, {}) /\ LastFreeBusy(f)
    BY <1>2, <2>1, <2>2, FiledIsGood DEF Good, LastFreeBusy
  <2>4. k = ba_shrink(f)
    BY <2>3 DEF k, Good, Sound
  <2>5. Good(k, live, {})
    BY <1>2, <1>3, <2>3, <2>4, ShrinkIsGood
  <2>6. k.last_free = NULL /\ k.alloc # NULL
    BY <1>1, <1>3, <1>4, <2>2 DEF SameWorking
  <2> QED BY <1>1, <2>5, <2>6 DEF LGood
<1> QED BY <1>5, <1>6 DEF LInv

LEMMA LocalMergeStep ==
    ASSUME LInv, Merge, stale' = stale
    PROVE  LInv'
<1>1. /\ s \in Allocator /\ live \in SUBSET (Pages \X Blocks)
      /\ TypeInv /\ merging /\ (Intact' => Intact)
  BY LFacts, SpoiledStays DEF LInv, Merge, ContinueLoop
<1>2. TypeInv' /\ SameWorking(s, s')
  BY <1>1, MergeTypeStep
<1>3. ASSUME Intact', ~stale' PROVE LGood'
  <2>1. Good(s, live, {}) /\ s.last_free = NULL
    BY <1>1, <1>3 DEF LInv, LGood
  <2>2. PICK p1 \in s.table, p2 \in s.table :
            LowPair(p1, p2) /\ (~Crowded(p1, p2) => MergedOnce(p1, p2))
    BY DEF Merge, Moves, MergedOnce
  <2>3. MergedOnce(p1, p2)
    BY <1>1, <2>1, <2>2, LowPagesFit DEF Good
  <2>4. PICK to \in Moves(s.header[p1], s.header[p2]) :
                /\ s' = PagesMerged(p1, p2, s.header[p1] \ Range(to))
                /\ live' = Relocated(p1, p2, to)
    BY <2>3 DEF MergedOnce
  <2>5. PICK Y \in SUBSET {} : Good(s', live', Y)
    BY <1>1, <2>1, <2>2, <2>4, MergeIsGood
  <2>6. Y = {}
    OBVIOUS
  <2> QED BY <1>2, <2>1, <2>5, <2>6 DEF LGood, SameWorking
<1> QED BY <1>2, <1>3 DEF LInv

LEMMA LInvStep == LInv /\ [LNext]_lvars => LInv'
<1> SUFFICES ASSUME LInv, [LNext]_lvars PROVE LInv'
  OBVIOUS
<1>1. CASE ba_local_grow
  BY <1>1, GrowStep
<1>2. CASE (ba_lalloc \/ ba_lfree \/ ba_walk_local)
           /\ UNCHANGED <<merging, goal, stale>>
  BY <1>2, SharedStep
<1>3. CASE (ba_lcount \/ ba_lfree_all \/ ba_ldestroy)
           /\ UNCHANGED <<merging, goal>>
  BY <1>3, CountStep, FreeAllStep, DestroyStep
<1>4. CASE (ba_ldefragment \/ Merge \/ Overshoot \/ EndDefragment) /\ UNCHANGED stale
  <2>1. CASE EndDefragment
    BY <1>4, <2>1 DEF EndDefragment, LInv, LGood, TypeInv, TypeOK, Intact
  <2>2. CASE Overshoot
    <3>1. ~Intact'
      BY <2>2 DEF Overshoot, Intact
    <3> QED BY <2>2, <3>1, MergeTypeStep DEF LInv
  <2> QED BY <1>4, <2>1, <2>2, LocalDefragmentStep, LocalMergeStep
<1>5. CASE UNCHANGED lvars
  BY <1>5 DEF lvars, LInv, LGood, TypeInv, TypeOK, Intact
<1> QED BY <1>1, <1>2, <1>3, <1>4, <1>5 DEF LNext

----------------------------------------------------------------------------
(* What follows from it *)

\* The inductive invariant holds of every run.
THEOREM LocalInvariance == LSpec => []LInv
BY LInvInit, LInvStep, PTL DEF LSpec

LEMMA LInvFacts ==
    ASSUME LInv, Intact, ~stale
    PROVE  /\ s \in Allocator /\ live \in SUBSET (Pages \X Blocks)
           /\ Good(s, live, {})
BY LFacts DEF LInv, LGood

\* No block the client of a local allocator owns is free in a header it could be
\* handed out from, and its page is not released, before ba_alloc collides, a list is
\* spoiled, a merge overshoots a chunk or a pointer of ba_local is stale.
THEOREM LocalBlocksAreNotReused == LSpec => []LocalBlocksAreSafe
<1>1. LInv => LocalBlocksAreSafe
  <2> SUFFICES ASSUME LInv, ~stale, Intact PROVE OwnedBlocksAreSafe
    BY DEF LocalBlocksAreSafe, OwnedBlocksAreSafe
  <2> QED BY LInvFacts, HoldsIsSafe DEF Good
<1> QED BY <1>1, LocalInvariance, PTL

\* The lists of a->a hold the pages their headers call for and its counters
\* agree with them, although ba_lcount files the page of last_free again and
\* again.
THEOREM LocalPagesAreNotLost == LSpec => []LocalPagesAreAccounted
<1>1. LInv => LocalPagesAreAccounted
  <2> SUFFICES ASSUME LInv, ~stale, Intact PROVE ListsAreExact /\ PagesAreCounted
    BY DEF LocalPagesAreAccounted, ListsAreExact, PagesAreCounted
  <2> QED BY LInvFacts, SoundIsExact, SoundIsCounted DEF Good
<1> QED BY <1>1, LocalInvariance, PTL

\* Up to these faults the pointers of ba_local name pages of a->a, and no operation
\* dereferences NULL, reads a freed page or merges two pages that do not fit into one.
THEOREM OnlyAFaultFailsALocal == LSpec => []LocalFailsOnlyAfterFault
<1>1. LInv => LocalFailsOnlyAfterFault
  <2> SUFFICES ASSUME LInv, ~stale, Intact
               PROVE  ~s.failed /\ {s.alloc, s.last_free} \subseteq s.table \cup {NULL}
    BY DEF LocalFailsOnlyAfterFault
  <2> QED BY LInvFacts DEF Good, Sound, LastFreeOK
<1> QED BY <1>1, LocalInvariance, PTL
=============================================================================
