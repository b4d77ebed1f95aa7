------------------------------- MODULE Layout -------------------------------
(***************************************************************************)
(* The layout of a page: how many blocks ba_init makes of the number asked *)
(* for, and the magnitude the hash table works with.  Sizes are uint32_t,  *)
(* W bits wide here, except for offset, which is a size_t and wider.       *)
(* ba_init runs again when an allocator is used after ba_destroy, with the *)
(* layout it made before.                                                  *)
(***************************************************************************)
EXTENDS Powers

CONSTANTS W,             \* bits of uint32_t
          PageHeader,    \* sizeof(struct ba_page)
          Overhead,      \* MALLOC_OVERHEAD
          Pointer,       \* sizeof(struct ba_block_header)
          DefaultBlocks, \* 512
          BlockSizes,    \* the block sizes and block numbers asked for
          BlockNumbers,
          Reserved       \* the numbers of blocks that reservations must make room
                         \* for: n and the blocks in use

ASSUME WAssumption == W \in Nat \ {0}
ASSUME SizesAssumption == /\ PageHeader \in Nat \ {0}
                          /\ Overhead \in Nat \ {0}
                          /\ Pointer \in Nat /\ Pointer >= 2
                          /\ DefaultBlocks \in Nat \ {0}
ASSUME RequestAssumption == /\ BlockSizes \subseteq 1 .. (Pow2[W] - 1)
                            /\ BlockNumbers \subseteq 0 .. (Pow2[W] - 1)
                            /\ Reserved \subseteq 1 .. (Pow2[W] - 1)

VARIABLES asked,      \* [block_size, blocks] given to ba_init first
          l,          \* a->l
          magnitude,  \* a->magnitude
          inits       \* how often ba_init has run: 0, 1 or 2

layoutVars == <<asked, l, magnitude, inits>>

UInt(x) == x % Pow2[W]

\* BA_INIT, and the arguments of a call of ba_init.
LayoutInit ==
    /\ asked \in [block_size : BlockSizes, blocks : BlockNumbers]
    /\ l = [block_size |-> asked.block_size, blocks |-> asked.blocks, offset |-> 0]
    /\ magnitude = 0
    /\ inits = 0

----------------------------------------------------------------------------
(* Arithmetic *)

IsPower(x) == \E k \in 0 .. (W - 1) : x = Pow2[k]

\* The least k with x < 2^k.
Log(x) == CHOOSE k \in 0 .. W : x < Pow2[k] /\ \A j \in 0 .. (k - 1) : Pow2[j] <= x

\* One more than x with all bits below its highest set: 0 when that is 2^W.
round_up32(x) == UInt(Pow2[Log(x)])

ba_init_layout(bs, n) ==
    [block_size |-> bs, blocks |-> n, offset |-> PageHeader + UInt((n - 1) * bs)]

BA_PAGESIZE(ly) == ly.offset + ly.block_size

\* What a page of this layout takes from malloc.
Footprint(ly) == BA_PAGESIZE(ly) + Overhead

\* Mutants of ba_align_layout: a power of two is rounded up like any other size;
\* the page header is not taken off.
AlignAlways(ly) ==
    LET size == round_up32(UInt(Footprint(ly)))
    IN  ba_init_layout(ly.block_size,
                       UInt(size - (Overhead + PageHeader)) \div ly.block_size)

AlignKeepsHeader(ly) ==
    LET total == UInt(Footprint(ly))
        size  == IF total = 0 \/ IsPower(total) THEN total ELSE round_up32(total)
    IN  ba_init_layout(ly.block_size, UInt(size - Overhead) \div ly.block_size)

\* As many blocks as fit into the next power of two.
ba_align_layout(ly) ==
    LET total == UInt(Footprint(ly))
        size  == IF total = 0 \/ IsPower(total) THEN total ELSE round_up32(total)
    IN  ba_init_layout(ly.block_size,
                       UInt(size - (Overhead + PageHeader)) \div ly.block_size)

\* The layout ba_init makes.
Made(bs, n) == ba_align_layout(ba_init_layout(IF bs < Pointer THEN Pointer ELSE bs,
                                              IF n = 0 THEN DefaultBlocks ELSE n))

\* Mutant of Magnitudes: rounded down instead of up.
MagnitudesRoundedDown(size) == {Log(UInt(size) \div 2)}

\* ctz32(round_up32(size)): undefined where round_up32 gives 0.
Magnitudes(size) == IF round_up32(UInt(size)) = 0 THEN 0 .. W
                    ELSE {Log(UInt(size))}

\* What the hash table knows of an address.
Key(ptr) == ptr \div Pow2[magnitude]

\* The loop of ba_lreserve, in uint32_t, is past its first k doublings.
AfterDoublings(blocks, k) == UInt(blocks * Pow2[k + 1])

DoublingEnds(blocks, n) == \E k \in 0 .. W : AfterDoublings(blocks, k) >= n

\* Mutant of DoubledBlocks: the loop is `while (blocks * 2 < n)'.
DoubledTooLittle(blocks, n) ==
    AfterDoublings(blocks, CHOOSE k \in 0 .. W :
        /\ AfterDoublings(blocks, k + 1) >= n
        /\ \A j \in 0 .. (k - 1) : AfterDoublings(blocks, j + 1) < n)

\* What ba_lreserve makes of a page with too few blocks for n.
DoubledBlocks(blocks, n) ==
    AfterDoublings(blocks, CHOOSE k \in 0 .. W :
        /\ AfterDoublings(blocks, k) >= n
        /\ \A j \in 0 .. (k - 1) : AfterDoublings(blocks, j) < n)

----------------------------------------------------------------------------

\* The first call, and the one ba_grow makes after ba_destroy.
ba_init ==
    /\ inits < 2
    /\ inits' = inits + 1
    /\ l' = Made(l.block_size, l.blocks)
    /\ magnitude' \in Magnitudes(BA_PAGESIZE(l'))
    /\ UNCHANGED asked

LayoutSpec == LayoutInit /\ [][ba_init]_layoutVars

----------------------------------------------------------------------------
(* Properties.  They are about pages of less than half the size a uint32_t    *)
(* can hold: beyond it "overrun anyone" (gjalloc.h:511) comes true.           *)

\* What was asked for, with the defaults of ba_init.
Wanted == [block_size |-> IF asked.block_size < Pointer THEN Pointer
                          ELSE asked.block_size,
           blocks     |-> IF asked.blocks = 0 THEN DefaultBlocks ELSE asked.blocks]

Sane == inits > 0 /\ PageHeader + Wanted.blocks * Wanted.block_size + Overhead
                        <= Pow2[W - 1]

\* A page and malloc's overhead fill a power of two but for less than a block,
\* and hold at least the blocks that were asked for.
PagesFillPowers ==
    Sane => /\ l.block_size = Wanted.block_size
            /\ l.blocks >= Wanted.blocks
            /\ l.offset = PageHeader + (l.blocks - 1) * l.block_size
            /\ \E k \in 1 .. (W - 1) : /\ Footprint(l) <= Pow2[k]
                                       /\ Pow2[k] < Footprint(l) + l.block_size

\* A key of the hash table spans more than a page, and no more than two, so that few
\* pages have the same key.
MagnitudeCoversPage ==
    Sane => /\ BA_PAGESIZE(l) < Pow2[magnitude]
            /\ Pow2[magnitude] <= 2 * BA_PAGESIZE(l)

\* Two addresses in a page, wherever it begins, have keys that differ by one at most:
\* this is why ba_htable_lookup needs two buckets only, and what KeyAssumption of
\* PageTable takes for granted.  No run checks it: it is about all addresses.
PageKeysAreNeighbours ==
    Sane => \A first \in Nat : \A offset \in 0 .. (BA_PAGESIZE(l) - 1) :
                Key(first + offset) - Key(first) \in {0, 1}

\* An allocator that is used again after ba_destroy keeps its layout: pages do
\* not grow with every destruction.
ReinitKeepsLayout ==
    [][Sane => l' = l /\ magnitude' = magnitude]_layoutVars

\* ba_lreserve and ba_dreserve find a size for every number of blocks up to half of
\* what a uint32_t holds, whatever size they start from: the doubling loop ends.  If
\* a page twice as large as needed can be counted in a uint32_t, the new layout has
\* the blocks that are wanted, and its size is not cut off.
ReservationsFit ==
    \A n \in Reserved :
        Wanted.blocks < n /\ n <= Pow2[W - 1] =>
            /\ DoublingEnds(Wanted.blocks, n)
            /\ 2 * n * Wanted.block_size <= Pow2[W] =>
                \A blocks \in {DoubledBlocks(Wanted.blocks, n), round_up32(n)} :
                    /\ blocks >= n
                    /\ BA_PAGESIZE(ba_init_layout(Wanted.block_size, blocks))
                           = PageHeader + blocks * Wanted.block_size

\* The slot of an empty page: its index in a->pages.
EmptySlot(ly) == (IF 0 >= ly.blocks \div 2 THEN 1 ELSE 0) + 2

\* "pages[2] contains all empty pages" (gjalloc.h:310).
EmptyPagesInSlotTwo == Sane => EmptySlot(l) = 2
=============================================================================
