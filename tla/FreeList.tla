------------------------------ MODULE FreeList ------------------------------
(***************************************************************************)
(* The free list of one page (module BlockList) through all the page goes  *)
(* through in a struct block_allocator, whose other pages are not          *)
(* modelled.  The role of the page decides which header is current:        *)
(*   "alloc"      a->alloc: current is a->h, the page's own header is stale*)
(*   "last_free"  a->last_free: current is a->hf                           *)
(*   "filed"      on a list, or full and on none: its own header           *)
(***************************************************************************)
EXTENDS BlockList

CONSTANT B  \* l.blocks

ASSUME BAssumption == B \in Layouts

VARIABLES link,      \* the first word of each block
          role,
          h,         \* the working header: a->h or a->hf
          header,    \* the page's own header, p->h
          live,      \* the blocks the client owns
          spoiled,   \* history: a list was left unfit for allocation, see Walk
          failed     \* the process has written past the page, followed a word
                     \* that is no link, or entered a loop that never ends

vars == <<link, role, h, header, live, spoiled, failed>>

Roles == {"alloc", "last_free", "filed"}

TypeOK == /\ link \in [Blocks(B) -> Word(B)]
          /\ role \in Roles
          /\ h \in Header(B)
          /\ header \in Header(B)
          /\ live \subseteq Blocks(B)
          /\ spoiled \in BOOLEAN
          /\ failed \in BOOLEAN

\* The header ba_get_page gives a page that has no free block left.
FullHeader == [first |-> NULL, used |-> B, sorted |-> TRUE]

Init == /\ link = FreshLinks(B)
        /\ role = "alloc"
        /\ h = FreshHeader
        /\ header = FreshHeader
        /\ live = {}
        /\ spoiled = FALSE
        /\ failed = FALSE

----------------------------------------------------------------------------
(* Allocation and release of a block *)

ba_shift ==
    /\ ~failed
    /\ role = "alloc"
    /\ h.first # NULL
    /\ LET r == Shifted(B, link, h)
       IN  /\ link' = r.link
           /\ h' = r.h
           /\ failed' = r.failed
           /\ live' = IF h.first = B THEN live ELSE live \cup {h.first}
    /\ UNCHANGED <<role, header, spoiled>>

\* ba_free: into a->h, into a->hf, or into the a->hf that ba_get_free_page loads
\* from the page.
ba_free ==
    /\ ~failed
    /\ \E b \in live :
        LET hd == IF role = "filed" THEN header ELSE h
        IN  /\ hd.first # B
            /\ h' = Unshifted(hd, b)
            /\ link' = [link EXCEPT ![b] = hd.first]
            /\ live' = live \ {b}
    /\ role' = IF role = "filed" THEN "last_free" ELSE role
    /\ UNCHANGED <<header, spoiled, failed>>

----------------------------------------------------------------------------
(* The page changes its role *)

\* ba_get_page, for the page that has no block left.
LeaveAlloc ==
    /\ ~failed
    /\ role = "alloc"
    /\ h.first = NULL
    /\ role' = "filed"
    /\ header' = FullHeader
    /\ UNCHANGED <<link, h, live, spoiled, failed>>

Slot(hd) == CASE hd.first = NULL   -> NULL
              [] hd.used = 0       -> 2
              [] hd.used < B \div 2 -> 0
              [] OTHER             -> 1

\* ba_update_slot: the page's header and the words after the call.  An empty
\* page's list is reset; a page that stays on its list keeps its header.
SlotHeader(hd) == IF Slot(header) = Slot(hd) THEN header
                  ELSE IF hd.used = 0 THEN [hd EXCEPT !.first = 0]
                  ELSE hd

\* Mutant of SlotLinks: the list of an empty page is not reset.
SlotLinksKept(hd) == link

SlotLinks(hd) == IF Slot(header) # Slot(hd) /\ hd.used = 0
                 THEN [link EXCEPT ![0] = ONE] ELSE link

\* ba_update_slot for last_free, from ba_get_free_page or ba_count.
FileAway ==
    /\ ~failed
    /\ role = "last_free"
    /\ role' = "filed"
    /\ header' = SlotHeader(h)
    /\ link' = SlotLinks(h)
    /\ UNCHANGED <<h, live, spoiled, failed>>

\* ba_global_get_page takes the page off a list, flushing last_free first if it
\* is this page.
TakeToAlloc ==
    /\ ~failed
    /\ role # "alloc"
    /\ header.first # NULL
    /\ role' = "alloc"
    /\ IF role = "last_free"
       THEN /\ header' = SlotHeader(h)
            /\ link' = SlotLinks(h)
       ELSE UNCHANGED <<header, link>>
    /\ h' = header'
    /\ UNCHANGED <<live, spoiled, failed>>

\* ba_remove_page frees the page, ba_alloc_page obtains it again.
Renew ==
    /\ ~failed
    /\ role = "filed"
    /\ header.used = 0
    /\ role' = "alloc"
    /\ link' = FreshLinks(B)
    /\ header' = FreshHeader
    /\ h' = FreshHeader
    /\ UNCHANGED <<live, spoiled, failed>>
----------------------------------------------------------------------------
(* Walking the page *)

\* The header and the words ba_walk finds in the page, the current header
\* written back.
Written == [header |-> CASE role = "alloc"     -> h
                         [] role = "last_free" -> SlotHeader(h)
                         [] role = "filed"     -> header,
            link   |-> IF role = "last_free" THEN SlotLinks(h) ELSE link]

\* The same after ba_walk_page, which is called for pages in use.
Visited(w) == IF w.header.used = 0 THEN w ELSE Sorted(B, w.link, w.header)

\* A list is unfit for allocation once a sort has put BA_ONE in the last block,
\* where ba_shift does not expect it, and once it has moved the list away
\* under a->h.
Spoils(w, v, completed) ==
    /\ v # w
    /\ \/ v.link[B - 1] = ONE
       \/ role = "alloc" /\ ~completed

\* ba_walk, as far as it concerns this page: the page is visited unless a
\* callback stopped the walk before it; a->h is reloaded only if no callback
\* stops the walk at all.
ba_walk ==
    /\ ~failed
    /\ \E visited \in BOOLEAN, completed \in BOOLEAN :
        LET w == Written
            v == IF visited THEN Visited(w) ELSE w
        IN  /\ completed => visited
            /\ IF v # w /\ ~EndsWell(B, w.link, w.header.first)
               THEN failed' = TRUE /\ UNCHANGED <<link, header, role, h, spoiled>>
               ELSE /\ header' = v.header
                    /\ link' = v.link
                    /\ role' = IF role = "last_free" THEN "filed" ELSE role
                    /\ h' = IF role = "alloc" /\ completed THEN v.header ELSE h
                    /\ spoiled' = (spoiled \/ Spoils(w, v, completed))
                    /\ UNCHANGED failed
    /\ UNCHANGED live

Next == \/ ba_shift
        \/ ba_free
        \/ LeaveAlloc
        \/ FileAway
        \/ TakeToAlloc
        \/ Renew
        \/ ba_walk

Spec == Init /\ [][Next]_vars

----------------------------------------------------------------------------
(* Properties.  They hold until a walk spoils the list; those at the end say *)
(* what the program's assertions and tests expect of every run.              *)

Current == IF role = "filed" THEN header ELSE h

\* In a well-typed state the current list ends, has the blocks `used' does not
\* count, and shares none with the client; the words of its blocks are links.
\* While blocks are freed into a->hf, the page's own header keeps such a list too.
ListsAreSound ==
    /\ TypeOK
    /\ ~spoiled =>
        /\ ~failed
        /\ \A hd \in {Current} \cup (IF role = "alloc" THEN {} ELSE {header}) :
            /\ EndsWell(B, link, hd.first)
            /\ \A b \in Chain(B, link, hd.first) : link[b] # DATA
            /\ hd.used = B - Cardinality(FreeSet(B, link, hd.first))
            /\ FreeSet(B, link, hd.first) \cap live = {}

\* A walk that visits the page shows exactly the blocks that are not in its
\* list, so every block the client owns, sorting changes nothing of which
\* blocks the list has, and it leaves them in the order the walk relies on.
WalkShowsUsedBlocks ==
    LET w    == Written
        v    == Visited(w)
        free == FreeSet(B, w.link, w.header.first)
        seen == Shown(B, v.link, v.header.first)
    IN  ~spoiled /\ w.header.used # 0 =>
            /\ seen = Blocks(B) \ free
            /\ live \subseteq seen
            /\ FreeSet(B, v.link, v.header.first) = free
            /\ Increasing(B, v.link, v.header.first)

\* Until a list is spoiled, the page behaves as PagePool says, a header standing
\* for the blocks its list reaches.
Pool == INSTANCE PagePool
            WITH Positions <- Blocks(B),
                 work   <- IF role = "filed" THEN {} ELSE FreeSet(B, link, h.first),
                 filed  <- IF role = "alloc" THEN {}
                          ELSE FreeSet(B, link, header.first)

ImplementsPool == Pool!Init /\ [][spoiled' \/ Pool!Next]_(Pool!vars)

\* ba_shift's assertion (gjalloc.h:460): the block lies in the page.
ShiftStaysInPage == role = "alloc" /\ h.first # NULL => h.first \in Blocks(B)

\* test_relocate.c: "allocated the same chunk twice" never happens.
ShiftTakesFreeBlock == role = "alloc" => h.first \notin live
=============================================================================
