----------------------------- MODULE PageSlots -----------------------------
(***************************************************************************)
(* The pages of a struct block_allocator, and the operations every         *)
(* allocator front end (global, local) performs on them: taking a page to  *)
(* allocate from, filing a page under the list its fill calls for, and     *)
(* releasing empty pages.  There are no variables here.  Each operator     *)
(* maps one value s of the structure to the next, so that the modules that *)
(* own an allocator compose them exactly as the C functions call each      *)
(* other.                                                                  *)
(*                                                                         *)
(* A page header {first, used, flags} is abstracted to the set of blocks   *)
(* its free list holds: first = NULL iff the set is empty, and used counts *)
(* the blocks that are not in it.  Module FreeList models the list itself  *)
(* and checks that `used' and the list agree, until the list is `spoiled': *)
(* the modules that own an allocator record when that may happen, and      *)
(* claim nothing of what comes after it.  The hash table is                *)
(* abstracted to the set of pages it finds, which are the pages obtained   *)
(* from malloc and not yet freed.                                          *)
(***************************************************************************)
EXTENDS Integers, FiniteSets

CONSTANTS Pages,     \* addresses malloc may return for a page
          Blocks,    \* the block positions of a page
          MaxEmpty,  \* a->max_empty_pages, BA_MAX_EMPTY
          NULL

ASSUME PagesAssumption == Pages \subseteq Nat /\ IsFiniteSet(Pages)
ASSUME BlocksAssumption == IsFiniteSet(Blocks) /\ Cardinality(Blocks) >= 2
ASSUME MaxEmptyAssumption == MaxEmpty \in Nat \ {0}
ASSUME NullAssumption == NULL \notin Int

LOW   == 0    \* BA_SLOT_LOW:  less than half of the blocks are used
HIGH  == 1    \* BA_SLOT_HIGH: at least half are used
EMPTY == 2    \* no block is used
Slots == {LOW, HIGH, EMPTY}

PageOrNull == Pages \cup {NULL}

Header == SUBSET Blocks

\* struct block_allocator together with the struct ba_page of every page.
\* The fields of a page that is not in `table' are those of freed memory: a
\* call that reads them sets `failed', as does a dereference of NULL, a loop
\* that never ends and BA_ERROR.  `h' is kept empty while alloc = NULL (ba_init
\* sets h.first = NULL), and so is `hf' while last_free = NULL, when no code
\* reads it.
Allocator == [alloc     : PageOrNull,               \* page allocated from
              h         : Header,                   \* its working header
              last_free : PageOrNull,               \* page last freed into
              hf        : Header,                   \* its working header
              pages     : [Slots -> PageOrNull],    \* list heads
              next      : [Pages -> PageOrNull],
              prev      : [Pages -> PageOrNull],
              header    : [Pages -> Header],        \* p->h
              table     : SUBSET Pages,
              num_pages   : Int,
              empty_pages : Int,
              failed    : BOOLEAN]

EmptyAllocator ==
    [alloc |-> NULL, h |-> {}, last_free |-> NULL, hf |-> {},
     pages |-> [i \in Slots |-> NULL],
     next |-> [p \in Pages |-> NULL], prev |-> [p \in Pages |-> NULL],
     header |-> [p \in Pages |-> {}], table |-> {},
     num_pages |-> 0, empty_pages |-> 0, failed |-> FALSE]

Fail(s) == [s EXCEPT !.failed = TRUE]

----------------------------------------------------------------------------
(* Fill of a page *)

Used(free) == Cardinality(Blocks \ free)

Threshold == Cardinality(Blocks) \div 2

\* The list a page with this header belongs to, NULL when it is full.
ba_get_slot(free) ==
    IF free = {} THEN NULL
    ELSE IF Used(free) = 0 THEN EMPTY
    ELSE IF Used(free) < Threshold THEN LOW ELSE HIGH

----------------------------------------------------------------------------
(* The doubly linked lists *)

Mapped(s, p) == p = NULL \/ p \in s.table

DOUBLE_LINK(s, i, p) ==
    LET head == s.pages[i]
    IN  IF ~Mapped(s, head) THEN Fail(s)
        ELSE [s EXCEPT !.next[p] = head,
                       !.prev = [q \in Pages |-> IF q = head THEN p
                                                 ELSE IF q = p THEN NULL
                                                 ELSE s.prev[q]],
                       !.pages[i] = p]

\* Mutant of DOUBLE_UNLINK: the next page still points back to p.
UnlinkKeepsBackPointer(s, i, p) ==
    IF ~Mapped(s, s.prev[p]) \/ ~Mapped(s, s.next[p]) THEN Fail(s)
    ELSE [s EXCEPT !.next = [q \in Pages |-> IF q = p THEN NULL
                                             ELSE IF q = s.prev[p] THEN s.next[p]
                                             ELSE s.next[q]],
                   !.prev[p] = NULL,
                   !.pages[i] = IF s.prev[p] = NULL THEN s.next[p] ELSE @]

\* Taking a page off a list it is not on has its effect too: with prev = NULL
\* the head is overwritten with the page's next.
DOUBLE_UNLINK(s, i, p) ==
    LET before == s.prev[p]
        after  == s.next[p]
    IN  IF ~Mapped(s, before) \/ ~Mapped(s, after) THEN Fail(s)
        ELSE [s EXCEPT !.next = [q \in Pages |-> IF q = p THEN NULL
                                                 ELSE IF q = before THEN after
                                                 ELSE s.next[q]],
                       !.prev = [q \in Pages |-> IF q = p THEN NULL
                                                 ELSE IF q = after THEN before
                                                 ELSE s.prev[q]],
                       !.pages[i] = IF before = NULL THEN after ELSE @]

\* DOUBLE_SHIFT, and the p->next = NULL that follows it in ba_get_page.
DOUBLE_SHIFT(s, i) ==
    LET p     == s.pages[i]
        after == s.next[p]
    IN  IF p \notin s.table \/ ~Mapped(s, after) THEN Fail(s)
        ELSE [s EXCEPT !.prev = [q \in Pages |-> IF q \in {p, after} THEN NULL
                                                 ELSE s.prev[q]],
                       !.next[p] = NULL,
                       !.pages[i] = after]

\* The pages a loop from the head of list i along `next' visits: the least set
\* that contains the head and is closed under next.
ListPages(s, i) ==
    {p \in Pages :
        \A S \in SUBSET Pages :
            /\ s.pages[i] \in S \cup {NULL}
            /\ \A q \in S : s.next[q] \in S \cup {NULL}
            => p \in S}

\* Such a loop ends, and reads no freed memory.
Walkable(s, i) ==
    /\ ListPages(s, i) \subseteq s.table
    /\ s.pages[i] = NULL \/ \E p \in ListPages(s, i) : s.next[p] = NULL

----------------------------------------------------------------------------
(* Obtaining and releasing pages *)

\* free(p) after ba_htable_delete(a, p).
ReleasePages(s, P) ==
    [s EXCEPT !.table  = @ \ P,
              !.next   = [p \in Pages |-> IF p \in P THEN NULL ELSE s.next[p]],
              !.prev   = [p \in Pages |-> IF p \in P THEN NULL ELSE s.prev[p]],
              !.header = [p \in Pages |-> IF p \in P THEN {} ELSE s.header[p]]]

\* malloc has returned p: every block of it is free (ba_free_page).
ba_alloc_page(s, p) ==
    [s EXCEPT !.num_pages = @ + 1, !.table = @ \cup {p},
              !.header[p] = Blocks, !.next[p] = NULL, !.prev[p] = NULL]

NeedsMalloc(s) == \A i \in Slots : s.pages[i] = NULL

\* The list ba_get_page takes the head of.
TakeSlot(s) == IF s.pages[LOW] # NULL THEN LOW
               ELSE IF s.pages[HIGH] # NULL THEN HIGH ELSE EMPTY

\* The page ba_get_page returns; `new' is what malloc returns if it is called.
TakenPage(s, new) == IF NeedsMalloc(s) THEN new ELSE s.pages[TakeSlot(s)]

\* Mutant of ba_get_page: the full page keeps the header it was taken with.
GetPageKeepsHeader(s, old, new) ==
    LET taken == DOUBLE_SHIFT(s, TakeSlot(s))
    IN  IF ~Mapped(s, old) THEN Fail(s)
        ELSE IF NeedsMalloc(s) THEN ba_alloc_page(s, new)
        ELSE IF TakeSlot(s) = EMPTY THEN [taken EXCEPT !.empty_pages = @ - 1]
        ELSE taken

\* Mutant of ba_get_page: a page taken off the empty list stays counted.
GetPageKeepsCount(s, old, new) ==
    LET full == IF old = NULL THEN s ELSE [s EXCEPT !.header[old] = {}]
    IN  IF ~Mapped(s, old) THEN Fail(s)
        ELSE IF NeedsMalloc(full) THEN ba_alloc_page(full, new)
        ELSE DOUBLE_SHIFT(full, TakeSlot(full))

\* The caller's page `old' is full and lost to the lists until a block of it is
\* freed; a page leaves the lists, or is obtained from malloc.
ba_get_page(s, old, new) ==
    LET full  == IF old = NULL THEN s ELSE [s EXCEPT !.header[old] = {}]
        taken == DOUBLE_SHIFT(full, TakeSlot(full))
    IN  IF ~Mapped(s, old) THEN Fail(s)
        ELSE IF NeedsMalloc(full) THEN ba_alloc_page(full, new)
        ELSE IF TakeSlot(full) = EMPTY
             THEN [taken EXCEPT !.empty_pages = @ - 1]
             ELSE taken

\* Releases the empty page that is highest in memory.
ba_remove_page(s) ==
    LET p == CHOOSE q \in ListPages(s, EMPTY) :
                    \A r \in ListPages(s, EMPTY) : r <= q
        unlinked == DOUBLE_UNLINK(s, EMPTY, p)
    IN  IF ~Walkable(s, EMPTY) \/ s.pages[EMPTY] = NULL THEN Fail(s)
        ELSE IF unlinked.failed THEN unlinked
        ELSE [ReleasePages(unlinked, {p}) EXCEPT !.num_pages = @ - 1,
                                                 !.empty_pages = @ - 1]

\* Files page p, whose working header is `free', under the list it now belongs
\* to and stores the header in the page.  Nothing at all happens when the list
\* is the one p->h already says: the page keeps its old header.
ba_update_slot(s, p, free) ==
    LET old == ba_get_slot(s.header[p])
        new == ba_get_slot(free)
        off == IF old = NULL THEN s ELSE DOUBLE_UNLINK(s, old, p)
        on  == IF new = NULL THEN off ELSE DOUBLE_LINK(off, new, p)
        put == [on EXCEPT !.header[p] = free]
        emp == [put EXCEPT !.empty_pages = @ + 1]
    IN  IF p \notin s.table THEN Fail(s)
        ELSE IF old = new THEN s
        ELSE IF on.failed THEN on
        ELSE IF Used(free) # 0 THEN put
        ELSE IF emp.empty_pages >= MaxEmpty THEN ba_remove_page(emp)
        ELSE emp

\* The guarded flush of last_free that ba_count, ba_walk and ba_defragment make.
FlushLastFree(s) ==
    IF s.last_free = NULL THEN s
    ELSE [ba_update_slot(s, s.last_free, s.hf) EXCEPT !.last_free = NULL,
                                                     !.hf = {}]

\* Mutant of ba_shrink: the empty list keeps its head.
ShrinkKeepsHead(s) ==
    IF s.pages[EMPTY] = NULL THEN s
    ELSE IF ~Walkable(s, EMPTY) THEN Fail(s)
    ELSE [ReleasePages(s, ListPages(s, EMPTY))
            EXCEPT !.num_pages = @ - s.empty_pages, !.empty_pages = 0]

\* Frees every page on the empty list.
ba_shrink(s) ==
    IF s.pages[EMPTY] = NULL THEN s
    ELSE IF ~Walkable(s, EMPTY) THEN Fail(s)
    ELSE [ReleasePages(s, ListPages(s, EMPTY))
            EXCEPT !.pages[EMPTY] = NULL,
                   !.num_pages = @ - s.empty_pages, !.empty_pages = 0]
=============================================================================
