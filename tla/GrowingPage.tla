---------------------------- MODULE GrowingPage ----------------------------
(***************************************************************************)
(* The allocators that work on one page without a table: struct ba_local   *)
(* until it becomes a full allocator and struct ba_doubling, which let the *)
(* page grow with realloc, and struct ba_temporary, which starts another   *)
(* one and never frees a block.  Growing may move the page; the client's   *)
(* callback (rel->simple) is then told which blocks moved, chunk by chunk. *)
(*                                                                         *)
(* The free list is that of module BlockList, with the layout that is      *)
(* current where the code uses it: while the page grows that is still the  *)
(* old one.  The page's own header is written before every use and is not  *)
(* kept.  Once ba_local has become an allocator only ba_ldestroy is left   *)
(* here; module LocalAllocator has the rest.                               *)
(***************************************************************************)
EXTENDS BlockList, Powers, Sequences

CONSTANTS InitBlocks,    \* the `blocks' both kinds are initialized with
          MaxBlocks,     \* a->max_blocks
          AlignedBlocks, \* the blocks ba_align_layout makes of MaxBlocks
          MaxSize,       \* bound: pages grow up to this many blocks
          MaxBehind      \* bound: full pages of a temporary allocator

ASSUME SizeAssumption ==
    /\ InitBlocks \in Nat /\ InitBlocks >= 2
    /\ MaxBlocks \in Nat /\ MaxBlocks >= InitBlocks
    /\ AlignedBlocks \in Nat /\ AlignedBlocks >= MaxBlocks
    /\ MaxSize \in Nat /\ MaxSize >= AlignedBlocks /\ MaxSize >= 2 * InitBlocks
    /\ MaxBehind \in Nat

VARIABLES kind,        \* "local", "doubling" or "temporary"
          page,        \* l.blocks, the first words of the blocks, and a->h
          have,        \* there is a page: a->page (a->p) is not NULL
          behind,      \* temporary: the blocks the client owns in each of the
                       \* pages behind a->page
          transformed, \* a->a is not NULL
          live,        \* the blocks the client owns
          promised,    \* history: allocations that must not move the page
          told,        \* history: the blocks the callback was told of when the
                       \* page has just moved, NULL otherwise
          spoiled,     \* history: a call has left less than a sound list
          failed       \* the process has dereferenced NULL or written past the
                       \* page

vars == <<kind, page, have, behind, transformed, live, promised, told, spoiled,
          failed>>

Sizes == 2 .. MaxSize

Words(n) == [0 .. (n - 1) -> 0 .. n \cup {NULL, ONE, DATA}]

TypeOK == /\ kind \in {"local", "doubling", "temporary"}
          /\ page.blocks \in Sizes
          /\ page.link \in Words(page.blocks)
          /\ page.h \in [first : 0 .. page.blocks \cup {NULL}, used : Int,
                         sorted : BOOLEAN]
          /\ have \in BOOLEAN /\ transformed \in BOOLEAN
          /\ behind \in Seq(SUBSET (0 .. (MaxSize - 1)))
          /\ live \subseteq 0 .. (page.blocks - 1)
          /\ promised \in 0 .. MaxSize
          /\ told \in (SUBSET (0 .. MaxSize)) \cup {NULL}
          /\ spoiled \in BOOLEAN /\ failed \in BOOLEAN

----------------------------------------------------------------------------
(* Pages *)

Listed(pg) == Chain(pg.blocks, pg.link, pg.h.first)

Free(pg) == FreeSet(pg.blocks, pg.link, pg.h.first)

\* ba_free_page
Fresh(n) == [blocks |-> n, link |-> FreshLinks(n),
             h |-> FreshHeader]

NoPage(n, used) == [blocks |-> n, link |-> [b \in 0 .. (n - 1) |-> DATA],
                    h |-> [first |-> NULL, used |-> used, sorted |-> FALSE]]

\* The list ends in NULL, not in a tail that covers the new blocks as well.
Linked(pg) == \A b \in Listed(pg) : pg.link[b] # ONE

\* Mutant of Extended: the new tail begins at the last of the old blocks.
ExtendedTooEarly(pg, new) ==
    LET tail == pg.blocks - 1
    IN  [pg EXCEPT
            !.h.first = IF @ = NULL THEN tail ELSE @,
            !.link = [b \in 0 .. (new - 1) |->
                         IF b = tail /\ Linked(pg) THEN ONE
                         ELSE IF b >= pg.blocks THEN DATA
                         ELSE IF b \in Listed(pg) /\ pg.link[b] = NULL THEN tail
                         ELSE pg.link[b]]]

\* After realloc the first new block, with all behind it, is put at the end of
\* the list.  The links are moved with the page.
Extended(pg, new) ==
    [pg EXCEPT
        !.h.first = IF @ = NULL THEN pg.blocks ELSE @,
        !.link = [b \in 0 .. (new - 1) |->
                     IF b = pg.blocks THEN (IF Linked(pg) THEN ONE ELSE DATA)
                     ELSE IF b > pg.blocks THEN DATA
                     ELSE IF b \in Listed(pg) /\ pg.link[b] = NULL THEN pg.blocks
                     ELSE pg.link[b]]]

\* BA_WALK_CHUNKS with the old layout, which the extended page still has: the
\* list is sorted as if it ended before the first new block.
Resorted(pg) ==
    LET sorted == Sorted(pg.blocks, pg.link, pg.h)
    IN  [pg EXCEPT !.h = sorted.header,
                   !.link = [b \in DOMAIN @ |-> IF b < pg.blocks
                                                THEN sorted.link[b] ELSE @[b]]]

Told(pg) == Shown(pg.blocks, pg.link, pg.h.first)

\* Mutant of ba_grow_page: the callback is called before the list is sorted.
GrowThenTell(pg, new, moves) ==
    LET extended == Extended(pg, new)
        resorted == IF moves THEN Resorted(extended) ELSE extended
    IN  [page |-> [resorted EXCEPT !.blocks = new],
         told |-> IF moves THEN Told(extended) ELSE NULL]

ba_grow_page(pg, new, moves) ==
    LET extended == Extended(pg, new)
        resorted == IF moves THEN Resorted(extended) ELSE extended
    IN  [page |-> [resorted EXCEPT !.blocks = new],
         told |-> IF moves THEN Told(resorted) ELSE NULL]

\* Sorting the old blocks takes the new ones off the list if the last old block
\* is in use; a single new block is left with BA_ONE, which ba_shift takes for a
\* sign of more blocks.
Spoils(new, moves) ==
    \/ /\ moves /\ ~page.h.sorted
       /\ Linked(page) /\ (page.blocks - 1) \notin Listed(page)
    \/ new = page.blocks + 1

----------------------------------------------------------------------------
(* Growing *)

\* ba_local_grow: from max_blocks on the page gets the layout of an allocator.
Size(wanted) == IF wanted >= MaxBlocks THEN AlignedBlocks ELSE wanted

\* What growing to new blocks makes of the page.  By no block at all: the word of
\* a block behind the page is written.
Grown(new, moves) ==
    LET grown == ba_grow_page(page, new, moves)
    IN  IF new = page.blocks
        THEN [page |-> page, told |-> NULL, spoils |-> TRUE, failed |-> TRUE]
        ELSE [page |-> grown.page, told |-> grown.told,
              spoils |-> Spoils(new, moves), failed |-> FALSE]

\* The page grows and the call does nothing else.
GrowTo(new, moves) ==
    \E g \in {Grown(new, moves)} :
        /\ page' = g.page
        /\ failed' = g.failed
        /\ told' = g.told
        /\ spoiled' = (spoiled \/ g.spoils)
        /\ UNCHANGED live

\* ba_shift of a page in which the client owns these blocks
Shift(pg, owned) ==
    IF pg.h.first = NULL
    THEN page' = pg /\ failed' = TRUE /\ live' = owned
    ELSE LET r == Shifted(pg.blocks, pg.link, pg.h)
         IN  /\ page' = [pg EXCEPT !.link = r.link, !.h = r.h]
             /\ failed' = r.failed
             /\ live' = owned \cup ({pg.h.first} \cap 0 .. (pg.blocks - 1))

Fulfil == promised' = IF promised = 0 THEN 0 ELSE promised - 1

----------------------------------------------------------------------------
(* ba_local and ba_doubling *)

Running(k) == ~failed /\ ~transformed /\ kind = k

\* ba_lfree, ba_dfree
Release ==
    /\ Running("local") \/ Running("doubling")
    /\ \E b \in live :
        /\ live' = live \ {b}
        /\ page' = [page EXCEPT !.link[b] = page.h.first,
                                !.h = Unshifted(@, b)]
    /\ told' = NULL
    /\ UNCHANGED <<kind, behind, have, transformed, promised, spoiled, failed>>

----------------------------------------------------------------------------
(* struct ba_local *)

\* ba_lalloc
LallocFromList ==
    /\ Running("local")
    /\ page.h.first # NULL
    /\ Shift(page, live)
    /\ told' = NULL
    /\ Fulfil
    /\ UNCHANGED <<kind, behind, have, transformed, spoiled>>

LallocFirstPage ==
    /\ Running("local")
    /\ page.h.first = NULL /\ ~have
    /\ Shift(Fresh(page.blocks), live)
    /\ have' = TRUE
    /\ told' = NULL
    /\ Fulfil
    /\ UNCHANGED <<kind, behind, transformed, spoiled>>

\* "double the size" in ba_local_get_page
LallocGrows ==
    /\ Running("local")
    /\ page.h.first = NULL /\ have
    /\ \E moves \in BOOLEAN : \E g \in {Grown(Size(2 * page.blocks), moves)} :
        /\ IF g.failed THEN failed' = TRUE /\ UNCHANGED <<page, live>>
                       ELSE Shift(g.page, live)
        /\ told' = g.told
        /\ spoiled' = (spoiled \/ g.spoils)
    /\ transformed' = (2 * page.blocks >= MaxBlocks)
    /\ Fulfil
    /\ UNCHANGED <<kind, behind, have>>

\* Mutant of Doubled: the size is doubled only once.
DoubledOnce(n) == page.blocks * 2

\* Least of page.blocks * 2, * 4, ... that holds n blocks.
Doubled(n) == CHOOSE m \in {page.blocks * Pow2[k] : k \in 1 .. n} :
                  m >= n /\ (m = page.blocks * 2 \/ m \div 2 < n)

\* ba_lreserve for n allocations
Lreserve ==
    /\ Running("local")
    /\ \E n \in 1 .. MaxSize, moves \in BOOLEAN :
        LET wanted == Doubled(page.h.used + n)
        IN  /\ IF page.blocks >= page.h.used + n
               THEN /\ told' = NULL
                    /\ UNCHANGED <<page, live, spoiled, transformed, failed>>
               ELSE IF have
               THEN /\ GrowTo(Size(wanted), moves)
                    /\ transformed' = (wanted >= MaxBlocks)
               ELSE /\ failed' = TRUE
                    /\ told' = NULL
                    /\ UNCHANGED <<page, live, spoiled, transformed>>
            /\ promised' = n
    /\ UNCHANGED <<kind, behind, have>>

\* ba_walk_local
Lwalk ==
    /\ Running("local")
    /\ have
    /\ LET sorted == Resorted(page)
       IN  /\ page' = sorted
           /\ spoiled' = (spoiled \/ (sorted # page
                                      /\ sorted.link[page.blocks - 1] = ONE))
    /\ told' = NULL
    /\ UNCHANGED <<kind, behind, have, transformed, live, promised, failed>>

LfreeAll ==
    /\ Running("local")
    /\ IF have THEN page' = Fresh(page.blocks) /\ UNCHANGED failed
               ELSE failed' = TRUE /\ UNCHANGED page
    /\ live' = {}
    /\ told' = NULL
    /\ UNCHANGED <<kind, behind, have, transformed, promised, spoiled>>

\* ba_ldestroy, for the allocator too: the layout stays.
Ldestroy ==
    /\ ~failed
    /\ kind = "local"
    /\ page' = NoPage(page.blocks, page.h.used)
    /\ have' = FALSE /\ transformed' = FALSE
    /\ live' = {} /\ promised' = 0 /\ told' = NULL
    /\ UNCHANGED <<kind, behind, spoiled, failed>>

----------------------------------------------------------------------------
(* struct ba_doubling *)

\* round_up32
RoundedUp(n) == CHOOSE m \in {Pow2[k] : k \in 1 .. n} : m > n /\ m <= 2 * n

\* ba_init_doubling
InitDoubling == Fresh(IF \E k \in 1 .. InitBlocks : InitBlocks = Pow2[k]
                      THEN InitBlocks ELSE RoundedUp(InitBlocks))

\* ba_dreserve
Dreserve ==
    /\ Running("doubling")
    /\ \E n \in 1 .. MaxSize, moves \in BOOLEAN :
        /\ RoundedUp(page.h.used + n) <= MaxSize
        /\ IF page.blocks >= page.h.used + n
           THEN told' = NULL /\ UNCHANGED <<page, live, spoiled, failed>>
           ELSE GrowTo(RoundedUp(page.h.used + n), moves)
        /\ promised' = n
    /\ UNCHANGED <<kind, behind, have, transformed>>

\* ba_dalloc does not look whether there is a block; the client asks for no more
\* than it reserved.
Dalloc ==
    /\ Running("doubling")
    /\ Cardinality(live) < page.blocks
    /\ Shift(page, live)
    /\ told' = NULL
    /\ Fulfil
    /\ UNCHANGED <<kind, behind, have, transformed, spoiled>>

\* ba_ddestroy and a new ba_init_doubling.
Drenew ==
    /\ Running("doubling")
    /\ page' = InitDoubling
    /\ live' = {} /\ promised' = 0 /\ told' = NULL
    /\ spoiled' = FALSE
    /\ UNCHANGED <<kind, behind, have, transformed, failed>>

----------------------------------------------------------------------------
(* struct ba_temporary *)

\* ba_init_temporary aligns the layout at once.
InitTemporary == NoPage(AlignedBlocks, 0)

\* ba_talloc: when the page is full another one is put in front of it.
Talloc ==
    /\ Running("temporary")
    /\ IF page.h.first # NULL
       THEN Shift(page, live) /\ UNCHANGED <<have, behind>>
       ELSE /\ Len(behind) < MaxBehind
            /\ Shift(Fresh(page.blocks), {})
            /\ have' = TRUE
            /\ behind' = IF have THEN Append(behind, live) ELSE behind
    /\ UNCHANGED <<kind, transformed, promised, told, spoiled>>

\* ba_tdestroy
Tdestroy ==
    /\ Running("temporary")
    /\ page' = NoPage(page.blocks, page.h.used)
    /\ have' = FALSE /\ behind' = <<>> /\ live' = {}
    /\ UNCHANGED <<kind, transformed, promised, told, spoiled, failed>>

\* ba_walk_temporary does not look at a list: it shows a->page up to its first
\* free block, and the pages behind it from end to end.
TemporaryShown == 0 .. ((IF page.h.first = NULL THEN page.blocks
                         ELSE page.h.first) - 1)

BehindShown == 0 .. (page.blocks - 1)

----------------------------------------------------------------------------

Init == /\ \/ kind = "local" /\ page = NoPage(InitBlocks, 0) /\ have = FALSE
           \/ kind = "doubling" /\ page = InitDoubling /\ have = TRUE
           \/ kind = "temporary" /\ page = InitTemporary /\ have = FALSE
        /\ behind = <<>>
        /\ transformed = FALSE
        /\ live = {} /\ promised = 0 /\ told = NULL
        /\ spoiled = FALSE /\ failed = FALSE

Next == \/ Release
        \/ LallocFromList \/ LallocFirstPage \/ LallocGrows
        \/ Lreserve \/ Lwalk \/ LfreeAll \/ Ldestroy
        \/ Dreserve \/ Dalloc \/ Drenew
        \/ Talloc \/ Tdestroy

Spec == Init /\ [][Next]_vars

----------------------------------------------------------------------------
(* Properties.  They hold until a call spoils the page: a page grows by      *)
(* nothing, loses its new blocks, or is left with BA_ONE in its last block.  *)

\* The list has every block the client does not own and no other, whatever the
\* page went through, and `used' counts the rest.  Only an operation on an
\* allocator that has no page yet fails.  The type invariant goes with it.
ListIsExact ==
    ~spoiled =>
        /\ TypeOK
        /\ failed => ~have
        /\ have =>
            /\ EndsWell(page.blocks, page.link, page.h.first)
            /\ Free(page) = (0 .. (page.blocks - 1)) \ live
            /\ page.h.used = Cardinality(live)

\* When the page moves, the callback is told of the client's blocks, and of
\* nothing else: it would treat any other memory as a block of the client.
RelocationIsTold == [][~spoiled /\ told' # NULL => told' = live]_vars

\* After reserving n blocks, n allocations find a block in the page.
ReserveIsKept ==
    ~spoiled /\ have /\ ~transformed => Cardinality(Free(page)) >= promised

\* A walk shows exactly the client's blocks.  Of a temporary allocator that means
\* that a page is only left behind when all of it has been given out, and that
\* what is free in the page in front is behind what is not.
WalkShowsOwnedBlocks ==
    ~spoiled /\ have =>
        IF kind = "temporary"
        THEN /\ TemporaryShown = live
             /\ \A i \in DOMAIN behind : behind[i] = BehindShown
        ELSE Told(Resorted(page)) = live

\* "Guarentee that for a minimum of n allocations no relocation will be
\* triggered" (gjalloc.h:735), whatever happened to the page.
ReserveIsAlwaysKept ==
    have /\ ~failed /\ ~transformed => Cardinality(Free(page)) >= promised
=============================================================================
