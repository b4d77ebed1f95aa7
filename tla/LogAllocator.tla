---------------------------- MODULE LogAllocator ----------------------------
(***************************************************************************)
(* struct ba_log: pages that double in size, blocks allocated from the     *)
(* last one only.  A free searches the pages from the last to the first,   *)
(* halving the layout at each step, and when it empties the last page the  *)
(* empty pages at the end are released.                                    *)
(***************************************************************************)
EXTENDS Integers, FiniteSets, FiniteSetsExt

CONSTANTS NPages,   \* the length of a->pages
          B,        \* blocks of the first page; round_up32 makes it a power of 2
          NULL

ASSUME NPagesAssumption == NPages \in Nat \ {0}
ASSUME BAssumption == B \in Nat /\ B >= 2
ASSUME NullAssumption == NULL \notin Int

VARIABLES size,    \* index of the last page
          blocks,  \* a->l.blocks
          pages,   \* what each page's list holds, NULL where there is no page
          live,    \* <<page index, block>> the client owns
          failed   \* NULL dereferenced, or written past a page or a->pages

vars == <<size, blocks, pages, live, failed>>

\* What happens to the number of blocks of a layout.
ba_double_layout == [n \in Nat |-> 2 * n]
ba_half_layout == [n \in Nat |-> n \div 2]

\* f applied n times to x.
Times(f, n, x) ==
    LET after[k \in Nat] == IF k = 0 THEN x ELSE f[after[k - 1]]
    IN  after[n]

Capacity(i) == Times(ba_double_layout, i, B)

Index == 0 .. (NPages - 1)

\* The list of a page: blocks linked one by one, then the block that holds
\* BA_ONE, which stands for itself and all the blocks behind it.
Page(i) == [linked : SUBSET (0 .. (Capacity(i) - 1)),
            lazy   : 0 .. (Capacity(i) - 1) \cup {NULL},
            used   : Int]

TypeOK == /\ size \in 0 .. NPages
          /\ blocks \in Nat
          /\ DOMAIN pages = Index
          /\ \A i \in Index : pages[i] \in Page(i) \cup {NULL}
          /\ \A x \in live : x[1] \in Index /\ x[2] \in 0 .. (Capacity(x[1]) - 1)
          /\ failed \in BOOLEAN

ba_alloc_log_page == [linked |-> {}, lazy |-> 0, used |-> 0]

Init == /\ size = 0
        /\ blocks = B
        /\ pages = [i \in Index |-> IF i = 0 THEN ba_alloc_log_page ELSE NULL]
        /\ live = {}
        /\ failed = FALSE

----------------------------------------------------------------------------
(* Allocation *)

HasFirst(p) == p.linked # {} \/ p.lazy # NULL

\* The blocks p->h.first may be.
Heads(p) == IF p.linked # {} THEN p.linked ELSE {p.lazy}

\* The page after its head b is taken.  The block behind the one with BA_ONE gets
\* BA_ONE, or NULL if the layout says that it is the last.
Taken(p, b) ==
    IF p.linked # {} THEN [p EXCEPT !.linked = @ \ {b}, !.used = @ + 1]
    ELSE IF b + 1 = blocks - 1
         THEN [linked |-> {b + 1}, lazy |-> NULL, used |-> p.used + 1]
         ELSE [linked |-> {}, lazy |-> b + 1, used |-> p.used + 1]

\* The last page has a block; when it was the only one, the next page follows at
\* once, in the array if there is room.
ba_log_alloc ==
    /\ ~failed
    /\ \E b \in Heads(pages[size]) :
        LET p == Taken(pages[size], b)
        IN  /\ live' = live \cup {<<size, b>>}
            /\ IF HasFirst(p)
               THEN /\ pages' = [pages EXCEPT ![size] = p]
                    /\ failed' = (p.lazy \notin 0 .. (Capacity(size) - 1) \cup {NULL})
                    /\ UNCHANGED <<size, blocks>>
               ELSE /\ blocks' = ba_double_layout[blocks]
                    /\ size' = size + 1
                    /\ failed' = (size' \notin Index)
                    /\ pages' = [i \in Index |-> CASE i = size -> p
                                                   [] i = size' -> ba_alloc_log_page
                                                   [] OTHER -> pages[i]]

----------------------------------------------------------------------------
(* Release *)

\* Mutant of Halved: one ba_half_layout however many pages are passed.
HalvedOnce(n) == IF n = 0 THEN blocks ELSE ba_half_layout[blocks]

Halved(n) == Times(ba_half_layout, n, blocks)

\* Whether the search of ba_log_free meets the page of this block with a layout
\* that reaches to the block.
Finds(i, b) == i <= size /\ b < Halved(size - i)

\* Mutants of Released: the page below may be used up; the page may have blocks
\* in use.
ReleasedBelowFull(ps) == Max({i \in 0 .. size : i = 0 \/ ps[i].used # 0})

ReleasedInUse(ps) == Max({i \in 0 .. size : i = 0 \/ ~HasFirst(ps[i - 1])})

\* The page that is last once the empty pages at the end are released: not below
\* a page that has blocks in use, or whose predecessor has no block to give.
Released(ps) ==
    Max({i \in 0 .. size : \/ i = 0
                           \/ ps[i].used # 0
                           \/ ~HasFirst(ps[i - 1])})

ba_log_free ==
    /\ ~failed
    /\ \E x \in live :
        LET i  == x[1]
            ps == [pages EXCEPT ![i].linked = @ \cup {x[2]}, ![i].used = @ - 1]
            last == IF i = size /\ ps[i].used = 0 THEN Released(ps) ELSE size
        IN  IF Finds(i, x[2])
            THEN /\ live' = live \ {x}
                 /\ size' = last
                 /\ blocks' = Halved(size - last)
                 /\ pages' = [j \in Index |-> IF j > last THEN NULL ELSE ps[j]]
                 /\ UNCHANGED failed
            ELSE failed' = TRUE /\ UNCHANGED <<size, blocks, pages, live>>

Next == ba_log_alloc \/ ba_log_free

Spec == Init /\ [][Next]_vars

----------------------------------------------------------------------------
(* Properties *)

\* ba_log_alloc reads pages[size]->h.first unchecked: the last page always has a
\* block, after any release too.  The state is well typed.
LastPageHasBlock == TypeOK /\ (~failed => HasFirst(pages[size]))

\* No block of any page is lost or handed out twice, `used' counts the blocks
\* that are out, and no page with blocks in use is released.
BlocksAreAccounted ==
    ~failed =>
        /\ \A i \in 0 .. size :
            LET p    == pages[i]
                tail == IF p.lazy = NULL THEN {} ELSE p.lazy .. (Capacity(i) - 1)
                out  == {b \in 0 .. (Capacity(i) - 1) : <<i, b>> \in live}
            IN  /\ p.linked \cap tail = {}
                /\ (p.linked \cup tail) = (0 .. (Capacity(i) - 1)) \ out
                /\ p.used = Cardinality(out)
        /\ \A x \in live : x[1] <= size

\* The allocator's layout is the last page's, through all doubling and halving:
\* every block in use is found, and ba_log_alloc knows the page's last block.  So
\* nothing goes wrong before a->pages is full.
LayoutFollowsLastPage ==
    /\ ~failed => /\ blocks = Capacity(size)
                  /\ \A x \in live : Finds(x[1], x[2])
    /\ failed => size = NPages

\* ba_log_alloc's assertion (gjalloc.c:1523-1525, "bad."): the index of the last
\* page never leaves a->pages.
IndexStaysInArray == size \in Index
=============================================================================
