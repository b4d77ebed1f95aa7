# GJAlloc in TLA+

GJAlloc is a C library of allocators for blocks of one size. Blocks live in *pages* obtained
from malloc; the free blocks of a page are chained through their own memory. Everything runs in
the thread of its client, so the difficulty is not concurrency: it is that the same facts are
kept in several places which are brought up to date at different times. A page's header exists
in the page and, for the page blocks are allocated from and the page a block was last freed
into, a second time in the allocator; the lists of pages follow the first copy. The end of a
free list is not linked before it is needed. Layouts are doubled and halved in place. And pages
move while the client holds pointers into them.

The C++ half of the library puts a reference-counted allocator per block size and
reference-counted pointers on top.

The modules here model the source (`src/src/gjalloc.c`, 1592 lines, `gjalloc.h`, 910,
`gjalloc.hh`, 146, `smartpointer.hh`, 129), TLC checks them on small instances, and TLAPS proves
the safety properties of all of it for every number of pages, of blocks and of empty pages kept,
and for words of every width, up to the faults that section 6 lists: of the global allocator, of
defragmentation, of the local allocator before and behind its transformation; of the parts they
stand on, the free list of a page, the bit vector that sorts it, the merge of two pages, the
page hash table and the arithmetic of a page's layout; and of the doubling, the temporary and
the log allocator and `SmartPointer`. What is left to TLC is that a merge ends, which is
liveness (section 4).

## 1. Inventory

| Component | State | Operations | Module |
|---|---|---|---|
| pages of an allocator | the lists of low, high and empty pages, each page's header, `num_pages`, `empty_pages` | `ba_get_page`, `ba_update_slot`, `ba_alloc_page`, `ba_remove_page`, `ba_shrink` | PageSlots |
| global allocator (`struct block_allocator`) | the above, `alloc` with `h`, `last_free` with `hf` | `ba_alloc`, `ba_free`, `ba_count`, `ba_walk`, `ba_shrink`, `ba_free_all`, `ba_destroy` | GlobalAllocator |
| defragmentation | the same, and its place in the loop | `ba_defragment` | Defragment |
| merging two pages | both free lists, the chunk being moved | `ba_merge_pages` | MergePages |
| free list of a page | the first word of each block, the header | `ba_shift`, `ba_unshift`, `ba_sort_list`, `BA_WALK_CHUNKS` | BlockList, FreeList |
| page hash table | buckets, chains, `allocated` | insert, delete, lookup, grow, shrink | PageTable |
| page layout | block size, blocks, offset, magnitude | `ba_init`, `ba_align_layout`, `round_up32` | Layout |
| local allocator (`struct ba_local`), one page | the page, its layout, `max_blocks` | `ba_lalloc`, `ba_lfree`, `ba_lreserve`, `ba_walk_local`, `ba_lfree_all`, `ba_ldestroy` | GrowingPage |
| local allocator, transformed | `page`, `h`, `last_free`, `hf` in front of a `block_allocator` | the same, `ba_lcount`, `ba_ldefragment` | LocalAllocator |
| doubling allocator (`struct ba_doubling`) | one page | `ba_dreserve`, `ba_dalloc`, `ba_dfree`, `ba_ddestroy` | GrowingPage |
| log allocator (`struct ba_log`) | an array of pages of doubling size, the last one's layout | `ba_log_alloc`, `ba_log_free` | LogAllocator |
| temporary allocator (`struct ba_temporary`) | a chain of pages | `ba_talloc`, `ba_walk_temporary`, `ba_tdestroy` | GrowingPage |
| bit vector | words, length | `bv_set`, `bv_get`, `bv_ctz`, their use in `ba_sort_list` | BitVector, PageVector |
| C++ allocator `GJAlloc<T>` | one allocator per block size, the count of the `GJAlloc` objects that share it | constructors, destructor, `allocate`, `deallocate` | GJAlloc, SmartPointer |
| `SmartPointer<T>` | object and counter of each pointer, the counters | constructors, both assignments, destructor (`init`, `release`) | SmartPointer |

**How they interact.** An allocator front end calls the page operations, which call the hash
table when a page appears or goes. `ba_free` finds the page of a pointer through the hash table
unless it lies in `alloc` or `last_free`. Free lists are changed by allocation and release, by
walks and merges, which sort them, and by `ba_update_slot`, which resets the list of an emptied
page. `ba_local` grows its page by `realloc` until that reaches `max_blocks`, then it makes the
page the first one of a `block_allocator` it owns. Growing and merging call back into the
client, which is told chunk by chunk where its blocks went. A `SmartPointer` takes the block of
its object from the static `GJAlloc` of its class. All `GJAlloc` objects for blocks of one size
share a `block_allocator`, which the first of them initializes and the last one destroys; static
ones do so before `main` and during `exit`.

**What is hard**, and what makes each part correct:

* *Stale copies.* `ba_update_slot` unlinks a page according to the header in the page and links
  it according to the header it is given; when the two call for the same list it does nothing,
  and frees are forgotten. Correct: no block in use is ever free in a header that will be read,
  each list holds exactly the pages whose own header calls for it.
* *Pages that disappear.* Filing a page may release another one, or the same one; shrinking and
  merging release pages. Correct: `alloc` and `last_free` are never among them, the counters
  agree, nothing reads a freed page.
* *Lazily linked tails.* `BA_ONE` means "this block and all behind". Correct: list and `used`
  agree after any order of frees, allocations, sorts and resets.
* *Sorting under someone's feet.* Walks sort the list of a page; a list that another header
  starts may have moved. Correct: sorting changes no block's state.
* *Cutting and moving.* Chunks in use and runs of free blocks have different lengths. Correct:
  every block in use arrives, once, in a block that was free. That fails for some chunks of one
  block (section 6).
* *Resizing.* The table doubles and halves, and a page is filed under one key and looked up
  under another. Correct: every pointer into a page leads to it.
* *Growing.* A page is walked with the layout it had before it grew. Correct: the new blocks are
  in the list, the client hears of its blocks only, a reservation is kept.
* *Sharing and order of life.* An assignment lets go of the old object before it looks at the
  new one, and the allocator under the objects comes and goes with the first and the last
  `GJAlloc`. Correct: an object lives exactly as long as it has an owner, and the allocator as
  long as it has a user.

The full list of these hazards, each with its line, is in PROJECT.json.

## 2. Modules

    PageSlots ---> GlobalAllocator ---> Defragment ---> LocalAllocator
                                            .
                                            . states what a merge does
                                        MergePages ---> BlockList

    BlockList ---> FreeList ==> PagePool             PageTable ==> PageSet
              ---> MergePages                        LogAllocator
              ---> GrowingPage ---> PageVector
              |    ^                ^
              |  Powers ---> Layout |
              ---> BitVector -------+
    GJAlloc -----> SmartPointer ==> SharedOwnership

Proofs, each with the module it is about:

    AllocatorProofs (PageSlots, GlobalAllocator, Defragment, LocalAllocator)
    BlockListProofs ---> FreeListProofs
                    ---> MergePagesProofs
                    ---> GrowingPageProofs (GrowingPage, then Layout, then PageVector)
    PageTableProofs      LogAllocatorProofs      SmartPointerProofs

(`-->` EXTENDS or INSTANCE, `==>` shown to implement.)

**PageSlots** has no variables. Each operator takes a value of `struct block_allocator` with its
pages, and gives the next one, so that the modules above compose them the way the C functions
call each other: `ba_update_slot` may call `ba_remove_page`, and all of it is one step. A page
header is abstracted to the *set* of blocks its list holds, the hash table to the set of pages
it finds. The lists are modelled with their `next` and `prev` pointers, taking a page off a list
it is not on included, because that is what goes wrong. Reading a freed page, dereferencing
NULL, an endless loop, `BA_ERROR` and a write behind a page set `failed`.

**GlobalAllocator** is the state machine: `s` (the structure), `live` (the client's blocks) and
two history variables, `collided` (section 6) and `spoiled`. Allocation is split into
`ba_alloc_fast` and `ba_alloc_slow` along the branch of `ba_alloc`. `ba_count` and `ba_walk`
write both headers back and visit the pages (`VisitPages`); `ba_walk` sorts their lists as well.
A sort may leave `BA_ONE` in the last block of a page, and a walk that its callback stops leaves
`a->h` in the middle of a list that was sorted: the header then stands for something else than a
set of free blocks, `ba_shift` leaves a `first` behind the page where the model has none. Which
lists come out so is a matter of words, and FreeList has those; here a walk *may* set `spoiled`
whenever a page has free blocks and blocks in use, and with `spoiled` set an allocation may
fail. `Intact == ~collided /\ ~spoiled` is what the properties assume, and FailsOnlyAfterFault
says that nothing fails before. `ba_free_all` and `ba_destroy` differ in the hash table's memory
only, which PageTable tells apart. Which block a list has first is left open here: any free
block may be allocated next. The *blueprint*, an optional page that new pages are copied from,
is abstracted: a copied page and a page made by `ba_free_page` both have all blocks free.

**FreeList** has one page, word by word, in every role it plays (`alloc`, `last_free`, filed),
and shows that the sets PageSlots uses are enough: through the mapping "a header stands for the
set of blocks its list reaches" it implements **PagePool**, whose constant `Positions` are the
blocks of a page. **BlockList** has the operators on one list. They take the number of blocks of
the layout the page is looked at through as an argument, like the functions that are given an
`l`: FreeList and MergePages have one layout, and GrowingPage looks at the same words through
the old one and the new one.

**PageTable** is the hash table with its chains as sequences; the bit mixing is an arbitrary
function `Mix`. It implements **PageSet**, the set of pages PageSlots works with, where a page
is found from a pointer to any of its blocks.

**MergePages** is `ba_merge_pages`, one chunk or part of a chunk per step, since the client's
callback runs between them and overwrites the words the rest of the list is in. When the inner
loop moves more than is left of a chunk, its `bytes` goes below zero and it does not stop: the
history `overshot` records that, and the model follows the loop along the list, to the NULL at
its end or to `in_row` with a negative length, where the callback may not survive a length that
has wrapped; if it does, the list is put together again from wherever `free_block` went.

**Defragment** composes `ba_defragment` with GlobalAllocator: each merge is one step. `Merge`
does what MergePages shows of a merge that overshoots no chunk: the blocks in use of one page go
to different free blocks of the other; two pages that do not fit into one (`Crowded`) make it
fail, as `ba_merge_pages` does. `Overshoot` does what it shows of the others: the process fails,
or goes on with a list that has the right number of blocks, but any blocks, and a client that
was told of any places. Which lists and chunks overshoot is left open, so any two pages may;
`spoiled` is set then, and by a merge whose sort leaves `BA_ONE` in the last block. The callback
may not call the allocator, so nothing happens between the steps but the loop.

**GrowingPage** has the allocators that work without a table: `ba_grow_page` with its two users,
`ba_local` and `ba_doubling`, and `ba_temporary`, which puts a new page in front of the full one
and never frees a block. `moves` is whether `realloc` moved the page. **BitVector** has
`ba_sort_list` as the code does it, with bits that are set, cleared, found, and accesses to the
word behind the vector, where `garbage` may be anything; it takes the number of blocks like
BlockList, and the loops are recursive functions. **PageVector** puts the two together: every
list that GrowingPage reaches, and every one that grows and is sorted with the layout it had
before, comes out of BitVector as out of BlockList. **LocalAllocator** is `ba_local` behind its
transformation: since its `page`, `h`, `last_free` and `hf` are used exactly like the fields of
a `block_allocator`, whose own are unset then, it reuses the actions of GlobalAllocator for
`ba_lalloc`, `ba_lfree` and `ba_walk_local` and the loop of Defragment, and adds those that
differ. The page it begins with may come with a list that was spoiled while it was the only one.

**LogAllocator** and **Layout** stand alone. **Powers** has the powers of two that Layout and
GrowingPage round to, as a recursive function: the provers know nothing of exponentiation.
LogAllocator doubles and halves its layout as the code does, one step after the other (`Times`),
and does not know that page i has B * 2^i blocks. Layout has `ba_init` in W-bit arithmetic, run
twice as `ba_grow` does after a `ba_destroy`, and the sizes `ba_lreserve` and `ba_dreserve`
choose.

**GJAlloc** has the operations on a singleton, with its `block_allocator` reduced to whether it
is initialized and which blocks it would find. **SmartPointer** is a program that uses the two
classes: `program` says which one (are `BLOCKS` zero, are the classes T and X of one size),
`built` in which order static objects were constructed, and `m` is memory: the singletons, the
pointers, the counters. A pointer is named by its place, which may be inside the block of
another object, as in a list. Static initialization is in any order, as between translation
units, and `exit` destroys in the opposite one. It implements **SharedOwnership**: holders that
take, join, hand over and let go of objects, where an object is in memory exactly while it is
held.

PROJECT.json maps each definition to its lines.

## 3. Runs

| Run | Instance | Checks |
|---|---|---|
| GlobalAllocator | 3 pages of 4 blocks, 2 empty pages kept at most | OwnedBlocksAreSafe, ListsAreExact, PagesAreCounted, FailsOnlyAfterFault, WalkMissesNoBlock |
| FreeList | a page of 5 blocks | ListsAreSound, WalkShowsUsedBlocks, ImplementsPool |
| PageTable | 9 pages, 1 to 8 buckets | BucketsAreExact, PagesAreCounted, ImplementsPageSet |
| Layout | 12-bit words, 68 block sizes, 41 block numbers | PagesFillPowers, MagnitudeCoversPage, ReinitKeepsLayout, ReservationsFit |
| MergePages | two pages of 8 blocks, all contents | NothingIsOverwritten, ListIsWhatIsLeft, MergeIsComplete, MergeEnds |
| Defragment | as GlobalAllocator, every goal | OwnedBlocksAreSafe, ListsHoldAllPages, PagesAreCounted, FailsOnlyAfterFault, MergeKeepsBlocks, LoopLeavesNoPair |
| GrowingPage | pages of 2 to 6 blocks, `max_blocks` 5, aligned to 6; 2 full temporary pages; 2-bit words | ListIsExact, ReserveIsKept, VectorSortsAlike, WalkShowsOwnedBlocks, RelocationIsTold |
| LocalAllocator | as GlobalAllocator | LocalBlocksAreSafe, LocalPagesAreAccounted, LocalFailsOnlyAfterFault |
| LogAllocator | pages of 2, 4 and 8 blocks | LastPageHasBlock, BlocksAreAccounted, LayoutFollowsLastPage |
| SmartPointer | a static pointer, an automatic one, one to a derived class; 2 blocks, 2 counters | CountsAreTrue, PoolsFollowHandles, ImplementsOwnership |

Two further runs each end in the violation of one property that a comment or an assertion of the
repository states (section 6): GlobalAllocatorCollision and GrowingPageLostBlocks. A module's
type invariant is a conjunct of the first property of its run; GlobalAllocator checks it by
itself because a theorem states it.

**Why the bounds are enough.** Three pages are one more than the two with a working header, so
that every list operation can meet a neighbour that is neither; four blocks are the fewest for
which a page can be empty, low with one block, high, and full, with the threshold strictly
between; with `max_empty_pages` 2 a first empty page is kept and a second one releases a page,
which may be either. Five blocks in FreeList allow a run of free blocks at the end of a page, a
gap before it, and a tail that begins behind either. Eight blocks in MergePages let a chunk of
one to three blocks meet runs shorter, equal and longer than it. Nine pages make the hash table
double three times; their keys are chosen so that some pages share a key, some different keys
share a hash, some a bucket only while there are few, and most pages begin under another key
than they end. In GrowingPage two to six blocks are: the first size, one doubling, and the size
of the transformation; a doubling allocator takes two and four. A byte and a word of two bits
give a vector of four bits per four blocks, so that the layouts of two to six blocks leave bits
over, fill the vector, or need a second word, and a list may go on behind each. The numbers of
`Reserved` are all small ones and those around each power of two up to the 12-bit limit. Three
pointers let one be assigned from another while a third still holds the object; two blocks give
an object that holds the other; three classes of static objects (pointers, the template's
allocators, a client's GJAlloc) come in every order. `CntMod` 8 is more than the GJAlloc objects
there are. Three pages of the log allocator give a page with one below and one above; blocks of
three sizes tell the layouts apart.

**Bounds that are not constants.** Each MC module names what it cuts off:

* `BeforeCollision`, `BeforeStale`, `BeforeSpoiling`, `BeforeFailure`: states behind the event
  that the history variable records are reached, checked, and not left. No property claims
  anything about them.
* `SpoiledBound`, in the runs over GlobalAllocator: behind a spoiled list only states with one
  page at most are left, up to the first failure. No property claims anything there either;
  the bound lets `Shift` fail and `ba_free_all` and `ba_ldestroy` start anew.
* `LostBound`: at most one block is lost at a time to the dropped frees of `ba_update_slot`
  (section 6). Each lost block stays in use for ever, and more of them only shrink the page. The
  proofs know no such bound.
* `LiveState`, the VIEW of FreeList: `h` and `header` count only while the page's role lets them
  be read.
* `MaxSize` in GrowingPage: the doubling allocator does not grow beyond it. It is assumed to
  leave room for the first doubling. `MaxBehind`: a temporary allocator gets no more full pages.
* `Running` in SmartPointer: nothing happens after the first of the `Faults`, the events
  recorded in `m.faults` (section 6).
* Symmetry: the blocks of a page may be permuted in the runs over PageSlots, where no order of
  blocks exists; pages may not, since `ba_remove_page` prefers the highest address. In
  SmartPointer the blocks and the counters may be permuted: no operation compares their
  addresses.

**Deadlock** is checked in all runs that pass but Layout, MergePages and SmartPointer, which
come to an end, and GrowingPage and LocalAllocator, where the process may stop on a NULL
dereference or a page the client cannot grow any more.

**Fairness.** The library acts only when its client calls, it waits for nothing, and nothing in
it has to happen eventually unless the client asks, so no fairness is assumed of clients. What
remains is that each call returns. Most calls are single steps, where a loop along a list that
does not end sets `failed` (`Walkable`, `EndsWell`). The two calls that take several steps are
loops of the library itself: MergePages assumes `WF_vars(Next)`, which only says that the
processor goes on, and MergeEnds says that the loops over chunks and free blocks come to their
end, the inner one also when it has passed the zero it stops at. Each merge of the loop of
`ba_defragment` releases exactly one page (MergeKeepsBlocks), so that one ends as well.

Every property of a passing run has a mutant in PROJECT.json: a plausible wrong form of one
definition, written next to it as "Mutant of", under which TLC finds the property violated.

## 4. What is proved

The assumptions are those on the constants. PageSlots: `Pages` is a finite set of naturals,
`Blocks` is finite and has two elements at least, `MaxEmpty` is positive, `NULL` is no integer.
Defragment and LocalAllocator have no others. FreeList and MergePages: two blocks at least in a
page, and `NULL`, `BA_ONE` and the client's `DATA` are different and no integers. PageTable:
finitely many pages, the first key of each is its last or at most one before it, the hash of a
key is any natural number (`Mix` is arbitrary), one bucket at least in the first table, which
need not be a power of two: `Mask` is the remainder. LogAllocator: one page at least, two blocks
at least in the first one, which need not be a power of two, `NULL` no integer. GrowingPage: a
page begins with `InitBlocks` of at least two blocks, `MaxBlocks` is no less, `AlignedBlocks` no
less than `MaxBlocks` (which is what LayoutFillsPowers shows of `ba_align_layout`), and the
bound `MaxSize` no less than either and than the first doubling. BitVector: a byte has a bit at
least, a word is some bytes. Layout: the width `W`, the header of a page and the default number
of blocks are positive, what is asked for fits into a word; `Overhead`, what malloc keeps of a
page, is positive, and `Pointer`, the least block, is two bytes at least (both are
`sizeof(void*)` in the code). The last two are needed: without overhead a page of exactly
2^(W-1) bytes has no magnitude that a word can hold, and with blocks of one byte one can be
asked for whose page has no power of two above it. SmartPointer: pointers, blocks and counters
are any sets, infinite ones too, that share no elements where the code has different addresses;
the four `GJAlloc` objects are different, and `cnt` counts at least that far. The code refuses
no page of a single block, for which the lists of pages go wrong (section 6,
EmptyPagesInSlotTwo); the proofs are about larger ones. TLAPS checks, for all constants that
satisfy them:

| Module | Theorem | Property |
|---|---|---|
| AllocatorProofs | TypeCorrect | `Spec => []TypeOK` |
| | Invariance | `Spec => []Inv` |
| | NoBlockIsReturnedTwice | `Spec => []OwnedBlocksAreSafe` |
| | NoPageIsLost | `Spec => []ListsAreExact` |
| | CountersAreTrue | `Spec => []PagesAreCounted` |
| | OnlyAFaultFails | `Spec => []FailsOnlyAfterFault` |
| | WalksAreComplete | `Spec => []WalkMissesNoBlock` |
| | UpdateSlotSound, RenewedIsSound | what `ba_update_slot` and `ba_get_page` preserve |
| | DefragmentInvariance | `DSpec => []DInv` |
| | MergesFreeNoOwnedBlock | `DSpec => []OwnedBlocksAreSafe` |
| | MergesKeepListsExact | `DSpec => []ListsHoldAllPages` |
| | MergesCountPages | `DSpec => []PagesAreCounted` |
| | OnlyAFaultFailsAMerge | `DSpec => []FailsOnlyAfterFault` |
| | MergesKeepBlocks | `DSpec => MergeKeepsBlocks` (an action property) |
| | LoopsLeaveNoPair | `DSpec => LoopLeavesNoPair` (an action property) |
| | LocalInvariance | `LSpec => []LInv` |
| | LocalBlocksAreNotReused | `LSpec => []LocalBlocksAreSafe` |
| | LocalPagesAreNotLost | `LSpec => []LocalPagesAreAccounted` |
| | OnlyAFaultFailsALocal | `LSpec => []LocalFailsOnlyAfterFault` |
| FreeListProofs | Invariance | `Spec => []IInv` |
| | ListsStaySound | `Spec => []ListsAreSound` |
| | WalksShowUsedBlocks | `Spec => []WalkShowsUsedBlocks` |
| | ListIsPool | `Spec => ImplementsPool` (the refinement) |
| MergePagesProofs | Invariance | `Spec => []IInv` |
| | NothingIsEverOverwritten | `Spec => []NothingIsOverwritten` |
| | ListStaysWhatIsLeft | `Spec => []ListIsWhatIsLeft` |
| | MergesAreComplete | `Spec => []MergeIsComplete` |
| | MergesMoveOn | `Spec => []StepsRemain /\ MovesOn`: at most 3 * B + 1 steps |
| GrowingPageProofs | GrowFacts, GrowTold | what `ba_grow_page` makes of a list, and what it tells the client |
| | GrowingInvariance | `Spec => []IInv` |
| | GrowingListIsExact | `Spec => []ListIsExact` |
| | GrowingReserveIsKept | `Spec => []ReserveIsKept` |
| | GrowingWalksShowOwned | `Spec => []WalkShowsOwnedBlocks` |
| | GrowingRelocationIsTold | `Spec => RelocationIsTold` (an action property) |
| | AlignFacts | what `ba_align_layout` makes of a page that fits |
| | LayoutInvariance | `LayoutSpec => []LayoutIInv` |
| | LayoutFillsPowers | `LayoutSpec => []PagesFillPowers` |
| | LayoutMagnitudeCovers | `LayoutSpec => []MagnitudeCoversPage` |
| | LayoutKeysAreNeighbours | `LayoutSpec => []PageKeysAreNeighbours` (of every address, so no run checks it) |
| | LayoutSurvivesReinit | `LayoutSpec => ReinitKeepsLayout` (an action property) |
| | LayoutReservationsFit | `LayoutSpec => []ReservationsFit` |
| | CtzFacts, BitSortFacts | what `bv_ctz` finds; the sort in the vector against the sort as such |
| | GrowingVectorSorts | `Spec => []VectorSortsAlike` |
| PageTableProofs | TableInvariance | `Spec => []TInv` |
| | BucketsStayExact | `Spec => []BucketsAreExact` |
| | PagesStayCounted | `Spec => []PagesAreCounted` |
| | TableIsPageSet | `Spec => ImplementsPageSet` (the refinement) |
| LogAllocatorProofs | HalvedFacts | halving the last layout gives those of the pages before it |
| | LogInvariance | `Spec => []LogInv` |
| | LastPageAlwaysHasBlock | `Spec => []LastPageHasBlock` |
| | BlocksAreAlwaysAccounted | `Spec => []BlocksAreAccounted` |
| | LayoutAlwaysFollows | `Spec => []LayoutFollowsLastPage` |
| SmartPointerProofs | Invariance | `Spec => []Inv` |
| | CountsAreAlwaysTrue | `Spec => []CountsAreTrue` |
| | PoolsAlwaysFollowHandles | `Spec => []PoolsFollowHandles` |
| | SharesOwnership | `Spec => ImplementsOwnership` (the refinement) |

**The global allocator.** None of the properties is inductive. Lists that hold the right pages
do not stay right unless they are linked well in both directions, and a page is unlinked from
the right list only if the header it is filed by is the one it was linked by. The inductive
invariant is

    Inv == TypeInv /\ (Intact => Good(s, live, {}) /\ LastFreeBusy(s))
    Good(a, L, X) == Sound(a, X) /\ LastFreeOK(a) /\ Holds(a, L)     (X \in SUBSET Pages)

* `TypeInv` adds to TypeOK that `h` is empty without `alloc`, so that the fast path has a page.
* `Sound`: nothing failed; `alloc` is NULL or a page; there is a set of pages for each list,
  namely those other than `alloc` whose own header calls for it, and the list is well linked
  over it; the counters are the sizes of these sets and of the table. `X` are the *strays*:
  empty pages on the low list instead of their own. Without `ba_defragment` there are none.
* `LastFreeOK`: `last_free` is a page other than `alloc`, with the own header of an empty page
  only if it is empty by `hf` too.
* `LastFreeBusy`: the *own* header of `last_free` is not that of an empty page. This is the
  point of the proof: it is why `ba_shrink` and `ba_remove_page`, which look at own headers,
  never release the page frees are collected in, although it may be empty by its working header.
* `Holds`: a block the client owns is in use in each header of its page that may be read: `h`,
  `hf`, and the own header unless the page is `alloc`. The own header of `last_free` has fewer
  free blocks than `hf`, which is why dropping `hf` loses blocks but hands none out twice.

Behind a collision, or once a list may be spoiled, only the types are left. AllocatorProofs
first has types and frames of the page operations, and what linking and unlinking do to a well
linked list, over its set of pages rather than along the list: `WellLinked` needs no induction.
It lifts that to the three lists together, the counters and released pages (`UpdateSlotSound`,
`RenewedIsSound`). Then it has one lemma per operation (`FiledIsGood`, `ShiftIsGood`,
`GlobalGetPageIsGood`, `UnshiftIsGood`, `WriteBackIsGood`), then one step per action.

**Defragmentation** makes strays: an empty `alloc` is filed as a low page. So

    DInv == TypeInv /\ goal \in Nat /\ (Intact => DGood)

where `DGood` has `Good(s, live, X)` for *some* X, `LastFreeBusy`, and, between two merges, no
`last_free` and no low `alloc`. All operations of the global allocator were proved for any X,
and only shrink it: a stray is taken from the low list like any page of it, and gone. A merge
does not fail because two pages that are both low have together fewer blocks in use than a page
has blocks (`LowPagesFit`). Unless it overshoots a chunk it keeps `Good` because the blocks that
move go, by an injection, to free blocks of a page whose own header is the one that is read.
From there the properties follow; MergeKeepsBlocks compares cardinalities through that
injection, and LoopLeavesNoPair is the negated guard of the merge.

**The local allocator** reuses the lemmas on operations, since its four fields and the
`block_allocator` behind it together are one allocator in the sense of `Good`. But
`LastFreeBusy` is false here: `ba_lcount` files the page of `last_free` and keeps the pointer,
so that page may be empty by its own header. `LInv == TypeInv /\ (Intact /\ ~stale => LGood)`
gets on without it, because `ba_ldefragment` gives up `last_free` before it releases the empty
pages.

**The free list of a page.** `Chain`, what a list reaches, is the intersection of the sets that
have its first block and are closed under `next`. So no proof goes along a list: to show that a
list is what it was, or lost one block, or gained one, the lemmas of BlockListProofs give a
closed set and let minimality do the rest (`ShiftFacts`, `UnshiftFacts`). A list that ends has
exactly one block in which it ends, and the lazily linked tail begins there or not at all
(`FreeFacts`); a list in ascending order is determined by its set. `ba_sort_list` takes the free
blocks in order, up to the first block with nothing in use behind it, and the proof that it
leaves the same blocks is by the least block on which the two lists differ (`SortedInOrder`,
`SortFacts`). `ShownFacts` says that a walk, which shows the chunks between one free block and
the next, shows just the others. The inductive invariant is

    IInv == TypeOK /\ (~spoiled => Healthy)

where `Healthy` has that `h` is sound, and the page's own header too unless the page is `alloc`:
*both* stand for lists in the same words, and an operation on one must leave the other one
sound. `spoiled` records the two defects of section 6 (ShiftStaysInPage, ShiftTakesFreeBlock),
behind which nothing is claimed. Each action is then one of PagePool's, or a stutter.

**The merge.** `Listed(w, f, F, t)` is the state of a list that is consumed from its low end: in
the words `w` it begins at `f`, has the blocks `F` in order, and is lazily linked from `t` on.
`IInv` has that what is *left* of the free blocks is listed like this, for some `t`; that the
blocks moved so far are, one to one, in blocks that were free (`Placed`); and, as both pages are
low, that more blocks are left than are still to be moved, which is why no step dereferences
NULL and why the loop ends with every block moved. A chunk that is moved into a run of free
blocks takes an interval out of `Left`, which is listed again from behind it. `overshot`, the
third defect of section 6, is where the count of the interval goes wrong. Behind it
`OvershotInv` has no more than what the loop goes by: the list still leads upwards from
`free_block` (`Behind`), or, once the loop has left through `in_row`, ends in a lazily linked
tail there (`Tail`). That is enough for the last sentence of MergeIsComplete, that the header of
the page counts as many blocks as its list has, and for `MergesMoveOn`, the safety half of
MergeEnds: `Remaining`, a natural number, is positive until the merge ends and gets smaller with
each step, those with a negative length included.

**The page hash table.** `TInv` has that each page is in the bucket of its *last* key
(`Chained`), once, that `num_pages` is their number and at most twice the buckets', and that the
number of buckets is `Initial` doubled some number of times: `IsSize`, which is again a least
set, the one closed under doubling. That `n` and `2n` agree on a hash up to one bit
(`HomeDoubled`) is arithmetic; what `ba_htable_grow` does to a chain is that each half keeps the
pages it wants (`OnlyFacts`), with the moved ones turned around (`ReverseFacts`), and shrinking
concatenates the two (`ConcatFacts`): each keeps distinct pages distinct. ba_find_page looks
under the key of the pointer and then, if it has to, under the next one; a pointer has its
page's first or last key, and the last one is where the page is, so that PageTable implements
PageSet. That the keys are such neighbours is an assumption here (`KeyAssumption`), and
LayoutKeysAreNeighbours shows that `ba_init` chooses the magnitude so.

**Growing pages.** `IInv == Frame /\ (~spoiled => Healthy)`. `Healthy` has that the list is
sound (as in FreeListProofs) and its free blocks are just those the client does not own, that
what is in use and what is promised fit into the page, and that a temporary allocator, whose
walk looks at no list, has given out its blocks in order (`InOrder`). `Frame` is what a spoiled
page cannot disturb and a new `ba_doubling` starts from. The work is in `ba_grow_page`, where
one list is looked at through two layouts. The new blocks are appended to a list that ends
(`EndGrows`), or are in its lazy tail already (`TailGrows`). Seen through the *old* layout the
extended list is the one it was, since what leads out of the layout ends the list like NULL
(`ExtendedShown`, `ExtendedSort`), and sorting it so leaves a tail, which then covers the new
blocks, if the last old block is free (`SortLeavesTail`); if it is in use the new blocks are
gone, which is the defect `spoiled` records. `GrowTold` needs nothing of that, so that
RelocationIsTold is proved of the call that spoils the list too. The sizes (`Doubled`,
`RoundedUp`) are chosen among powers of two; one that will do exists by the least number for
which there is none.

**The layout of a page.** The product of `blocks` and `block_size` is opaque to the solver, so
the lemmas keep it a name and reason about sums. Two facts carry everything: there is at most
one power of two between a size and twice that size (`OnePower`), and a quotient is determined
by its remainder being small (`QuotientIs`). From the first, `round_up32` of a page and of the
page it was aligned to agree; from the second, aligning again gives the same number of blocks,
so that `ba_init` is idempotent. `LayoutIInv` says that before the first `ba_init` the layout is
what was asked for, and from then on what `ba_init` makes of that (`MadeFacts`,
`MagnitudeFacts`). No step of it may be cut off at W bits, which is what `WordsFit` is for.

**The bit vector.** `Walkable` says of a set of blocks that it is the list of a header, the one
block behind the layout included, again by minimality; `Walked` is the invariant of the loop
that marks it: what is marked so far, and the block it goes on with, are in that set and closed
but for that block. A block is not marked twice (`NotMarkedTwice`), so the loop ends within its
n + 1 steps by counting (`MarkedFacts`). `CtzFacts` shows that `bv_ctz`, which steps from word
to word and compares what it finds with the length only at the end, finds the lowest bit from i
on that is below the length, whatever the garbage is. A recursive function has to be shown to
exist before its equation may be used: `ScanExists` and `TrimmedFacts` give it explicitly,
`Iterates` shows that a step can be taken any number of times. `BitSortFacts` puts the parts
together, and `ListIsWalkable` and `ExtendedSorts` say that the lists of a page, and of one that
has just grown, are walkable.

**The log allocator.** `LogInv` says of each page that its list and the blocks in use make up
the page, that the block with `BA_ONE` is not the last one (it is linked on before it is), and
of the layout that it is the last page's. What makes it inductive is that halving undoes
doubling, any number of times. That is induction over data, which the induction theorems of the
library cannot do here, since they take an operator as parameter. It is done instead with a
*set*: the naturals for which a statement fails have a least element (`Least`, from the
well-foundedness of `<`), and there the step gives a contradiction. `TimesFacts` shows in this
way that the recursive function behind `Times` exists, `HalvedFacts` that it halves what it has
doubled, `ReleasedFacts` that the `Max` in `Released` is of a set that has one.

**SmartPointer.** `Inv == TypeOK /\ (m.faults = {} => Clean)`. `Clean` has that the memory is
sound (a counter is the number of the pointers that share it; pointers share a counter exactly
if they share an object; every block in use has an owner, a pointer or the client), that each
singleton counts its `GJAlloc` objects and is ready as long as there is one, and that the static
pointers in memory are the constructed ones. The memory is sound *between* the calls of one
operation too, with the blocks the client holds on its own as a parameter, so the lemmas follow
the calls: `release`, `init`, `allocate`, `deallocate`. Each fault is the case in which one of
the conjuncts would break. The refinement maps a holder to the objects its pointer has or its
block contains, and an object to its block; each action is a take, join, hand over or let go, or
a stutter.

**Only model-checked**: that a merge ends (MergeEnds), which is liveness under fairness;
MergesMoveOn is as much of it as can be proved here. Liveness, fairness and ENABLED are out of
the prover's reach, as are statements that a run ends in a violation. The counts behind
LostBound, SpoiledBound, BeforeCollision and the other constraints of the runs appear in no
proof; `MaxSize` and `MaxBehind` are constants, and the proofs hold for every value of them.

## 5. Not modelled

* `ba_show_pages`, `ba_print_htable`, `ba_count_all`, the counting functions of `GJAlloc`,
  statistics, valgrind annotations: they change no state.
* `ba_check_allocator` and the assertions of debug builds: the properties state what they test.
* `GJAlloc::rebind` and containers that use a `GJAlloc`: a container only constructs, copies and
  destroys one, as the client does here.
* Counters of SmartPointers that overflow an `int`, and a `new int` that returns nothing (it
  throws: fault "throw").
* The blueprint (section 2), and failing `malloc`, which ends the process.
* Page sizes that overflow `uint32_t` while a page grows: Layout has the arithmetic, GrowingPage
  sizes that fit.
* Client errors: freeing a block twice or one that was never allocated, calling the allocator
  from a relocation callback.

## 6. Where the code and its own statements disagree

Two are runs of their own:

* **GlobalAllocatorCollision** (`gjalloc.c:766`). `ba_global_get_page` takes a page off its
  list; if that page is still `last_free`, `ba_update_slot` then unlinks it *again* (overwriting
  the head of the list), and links it into another although it is `alloc`, or releases it as
  empty. The run ends with no first block where `ba_alloc` asserts one (`gjalloc.h:537-540`).
  This is what `collided` records, and what the other properties exclude; FailsOnlyAfterFault
  and its theorem say that it and a spoiled list (below) are the only ways to fail.
* **GrowingPageLostBlocks** (`gjalloc.c:1000`). `ba_grow_page` appends the new blocks to the
  free list, then sorts that list with the old layout, which drops them unless the last old
  block is free. `ba_lreserve` promises otherwise (`gjalloc.h:735`).

Others are definitions in the modules; added as an INVARIANT to the cfg of their module (without
its CONSTRAINTs), TLC violates each:

* `WalkShowsOwnedBlocksOnly` (GlobalAllocator): frees collected in `hf` are dropped at
  `gjalloc.c:729` when the page stays on its list. The blocks are never allocated again, a walk
  shows them, a count counts them.
* `ShiftStaysInPage` (FreeList): a sort leaves `BA_ONE` in the last block when only that one is
  free at the end (`gjalloc.c:1248`); `ba_shift` then takes the block behind the page for the
  next one (`gjalloc.h:470-475`). The allocation after that returns it, and its `ba_free` ends
  with "Unknown pointer" (`gjalloc.c:836`). In FreeList and in GlobalAllocator this is recorded
  by `spoiled`.
* `ShiftTakesFreeBlock` (FreeList): a walk stopped by its callback returns before `a->h` is
  reloaded (`gjalloc.c:1152`), and `a->h` keeps pointing into the list as it was before the
  sort. `spoiled` records this as well.
* `IndexStaysInArray` (LogAllocator): the index runs past `a->pages`; the check compares with a
  bound one too large and is absent without `BA_DEBUG` (`gjalloc.c:1523-1530`).
* `EmptyPagesInSlotTwo` (Layout): a page of one block is "high" when it is empty, its list index
  is 3 (`gjalloc.h:346`), and `a->pages` has three.
* `EmptyPagesAreOnEmptyList` (Defragment): an empty `alloc` is put on the low list
  (`gjalloc.c:1388`) although "pages[2] contains all empty pages" (`gjalloc.h:310`).
* `OnlyUsedBlocksMove` (MergePages): a chunk of one block that meets a run of free blocks is
  moved together with what is behind it, because the length is compared only after one step, and
  for equality (`gjalloc.c:1326`). `test_relocate.c:55-57` calls moving a free block an error.
  `bytes` is negative then, and the loop goes on: with the list 0, 1, 3 of a page, where it ends
  in NULL, and block 0 alone in use in the other, it dereferences NULL (`gjalloc.c:1326-1336`).
  If the list ends in `BA_ONE` the loop leaves through `in_row` (`gjalloc.c:1329`) and gives the
  callback a length that has wrapped; `BA_ONE` is then written into a block that may be the
  client's, and that block becomes the first of the free list. `overshot` records it in
  MergePages. In Defragment and LocalAllocator it is the action `Overshoot`, which sets
  `spoiled`.

`ReservationsFit` (Layout) has the other side of a bound: the doubling loop of `ba_lreserve`
(`gjalloc.h:746`) finds a size for every n up to 2^(W-1). Nothing refuses a larger n, for which
a number of blocks that is a power of two is doubled to zero, and for ever. The property claims
nothing of those.

In GrowingPage and LocalAllocator some are recorded by `spoiled` and `stale`: a page that grows
by one block or by none at the transformation (`gjalloc.c:1046`); `ba_lreserve` before the first
allocation, which grows a page that does not exist (`gjalloc.h:748`); `ba_lfree_all` and
`ba_ldestroy`, which leave `page` or `last_free` pointing to released pages (`gjalloc.c:1113`,
`1104`); `ba_lcount`, which files `last_free` and keeps it (`gjalloc.c:921`).

A page that has just grown is sorted with its old layout while its list goes on with the first
new block (`gjalloc.c:1000`). If the old size fills the bit vector (512 blocks with 64-bit
words), `bv_set` writes a bit behind the memory of the vector (`gjalloc.c:1208`).
VectorSortsAlike states exactly when; the list itself comes out right.

The properties of SmartPointer hold until one of these, the first of which ends the model:

| Fault | What happens |
|---|---|
| order | a static `GJAlloc` is constructed before the singleton's `mv`, whose constructor then resets the count to 0 (`gjalloc.hh:16`): the next `GJAlloc` initializes the allocator again, and the first one to go destroys it under the others |
| early | a static SmartPointer allocates before its static `allocator` is constructed: `ba_init` without a block size |
| late | the last `GJAlloc` goes while pointers have objects in its allocator (`gjalloc.hh:30`): a static SmartPointer that was constructed before the allocator is destroyed after it |
| self | the source of an assignment goes with the old object: `p = p` with one owner, or `p = p->next`. The counter or the pointer is then read from freed memory, contrary to the comment that the stale values do not matter because `operator=` "overwrites refs and t anyway" (`smartpointer.hh:110-112`) |
| null | a SmartPointer made from a NULL pointer gives NULL back to the allocator (`smartpointer.hh:107`), which does not know it |
| bitwise | with `BLOCKS` other than 0 the constructor from `SmartPointer<T>` is no copy constructor (`smartpointer.hh:32`), the compiler's copies the fields, and the count is one short |
| size | assigning a pointer to a larger derived class (`smartpointer.hh:86` has no check like that of the constructor at line 39) gives the block to the wrong allocator |
| member | `release` never runs the destructor of T (`smartpointer.hh:107`): what a member points to stays in memory for ever |
| throw | the copy constructor of T throws in `init` (`smartpointer.hh:121`) and the block stays in use |

`smartpointer.hh` includes `block_allocator.hh`, which is not in the repository; it is read as
`gjalloc.hh`.

## 7. Plan

Built in this order, the core first: PageSlots, GlobalAllocator and its proofs; BlockList,
FreeList; PageTable; LogAllocator, Layout; MergePages, Defragment; GrowingPage, LocalAllocator;
then BitVector with PageVector, the temporary allocator in GrowingPage, reservations in Layout,
the end of a merge, GJAlloc and SmartPointer; then the proofs for GrowingPage, Layout and
PageVector. Every component with state is modelled, and every safety property that a run checks
is a theorem as well. Left: *GlobalAllocator with PageTable*, the composed lookup of `ba_free`
instead of the interface alone.
