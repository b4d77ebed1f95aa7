----------------------------- MODULE MergePages -----------------------------
(***************************************************************************)
(* ba_merge_pages: the used blocks of page p2 are moved into free blocks   *)
(* of page p1, chunk by chunk, along the sorted free list of p1.  A chunk  *)
(* is a run of used blocks of p2; it is cut where a run of free blocks of  *)
(* p1 ends.  The caller's relocation callback runs between the steps.      *)
(*                                                                         *)
(* The lists of both pages are sorted first (module FreeList checks the    *)
(* sort), so the steps begin with sorted lists.  Only the words of p1 are  *)
(* kept, as in BlockList.                                                  *)
(*                                                                         *)
(* The inner loop may move more than is left of the chunk: it is overshot. *)
(* `bytes', here stop - start, is then negative, and the loop, which only  *)
(* stops at 0, goes on along the list of p1.                               *)
(***************************************************************************)
EXTENDS BlockList, FiniteSetsExt

CONSTANT B  \* l.blocks

ASSUME BAssumption == B \in Layouts

VARIABLES used1,       \* blocks of p1 in use before the merge
          used2,       \* blocks of p2 in use
          link,        \* first word of each block of p1
          free_block,
          start, stop, \* what is left to move of the chunk of p2
          moved,       \* history: the block of p2 each block of p1 received
          first, used, \* h1, once it is written
          overshot,    \* history: more was moved than the chunk holds
          pc           \* "walk", "move", "done", "failed"

vars == <<used1, used2, link, free_block, start, stop, moved, first, used,
          overshot, pc>>

TypeOK == /\ used1 \subseteq Blocks(B) /\ used2 \subseteq Blocks(B)
          /\ link \in [Blocks(B) -> Word(B)]
          /\ free_block \in 0 .. B \cup {NULL}
          /\ start \in 0 .. 2 * B /\ stop \in 0 .. B
          /\ moved \in [Blocks(B) -> Blocks(B) \cup {B, NULL}]
          /\ first \in Blocks(B) \cup {NULL}
          /\ used \in 0 .. B
          /\ overshot \in BOOLEAN
          /\ pc \in {"walk", "move", "done", "failed"}

----------------------------------------------------------------------------
(* Sorted free lists *)

\* Where the lazily linked tail of a page with these used blocks may begin; B
\* stands for a list that is linked to its end.
Tails(U) == {t \in 0 .. B : \A b \in U : b < t}

Head(U, t) == LET free == (Blocks(B) \ U) \cap 0 .. t
              IN  IF free = {} THEN NULL ELSE Min(free)

Words(U, t) ==
    [b \in Blocks(B) |->
        LET rest == {c \in Blocks(B) \ U : c > b /\ c <= t}
        IN  CASE b \in U \/ b > t -> DATA
              [] b = t            -> ONE
              [] b \notin U /\ b < t -> IF rest = {} THEN NULL ELSE Min(rest)]

\* ba_defragment merges pages of its list of low pages only: each has less than
\* half of its blocks in use, and p2 is not empty.
IsLow(n) == n < B \div 2

Init == /\ used1 \in {U \in SUBSET Blocks(B) : IsLow(Cardinality(U))}
        /\ used2 \in {U \in SUBSET Blocks(B) : U # {} /\ IsLow(Cardinality(U))}
        /\ \E t \in Tails(used1) : /\ link = Words(used1, t)
                                   /\ free_block = Head(used1, t)
        /\ start = 0 /\ stop = 0
        /\ moved = [b \in Blocks(B) |-> NULL]
        /\ first = NULL /\ used = Cardinality(used1)
        /\ overshot = FALSE
        /\ pc = "walk"

----------------------------------------------------------------------------

\* BA_WALK_CHUNKS goes on to the next run of used blocks of p2; the first thing
\* done with it is to read free_block->next.
Rest == {b \in used2 : b >= stop}

NextChunk ==
    /\ pc = "walk"
    /\ Rest # {}
    /\ start' = Min(Rest)
    /\ stop' = Min({b \in 0 .. B : b > start' /\ b \notin used2})
    /\ pc' = IF free_block = NULL THEN "failed" ELSE "move"
    /\ UNCHANGED <<used1, used2, link, free_block, moved, first, used, overshot>>

\* The last block of the run of linked neighbours at free_block that the inner
\* loop stops at: where the run ends, or where it is exactly as long as what is
\* left to move.  The length is compared after each step along the run only.
RunEnd ==
    Min({t \in Blocks(B) :
            /\ t >= free_block
            /\ \A c \in free_block .. (t - 1) : link[c] = c + 1
            /\ \/ link[t] # t + 1
               \/ t > free_block /\ t - free_block + 1 = stop - start})

\* Mutant of Cut: the chunk is never cut.
WholeChunk == stop - start

\* The blocks moved at once when they go into a run.
Cut == RunEnd - free_block + 1

\* relocate(dst, src, bytes) for n blocks: what it reads behind p2 is block B.
Relocate(dst, src, n) ==
    /\ moved' = [b \in Blocks(B) |-> IF b \in dst .. (dst + n - 1)
                                  THEN Min({src + b - dst, B}) ELSE moved[b]]
    /\ overshot' = (overshot \/ n > stop - start)

Relocated(dst, n) == [b \in Blocks(B) |-> IF b \in dst .. (dst + n - 1) THEN DATA
                                       ELSE link[b]]

\* Mutant of TailBehindChunk: the tail begins at the last block moved.
TailAtChunk == free_block + (stop - start) - 1

TailBehindChunk == free_block + (stop - start)

\* in_row: everything behind the run is free, so all of the chunk fits here.
\* The word that marks the new tail is written behind the chunk.  If the chunk has
\* been overshot the callback is given a length that has wrapped, and need not
\* survive it; if it does, free_block goes back by as much as was moved too many,
\* into what may be a block of the client's.
InRow ==
    /\ pc = "move"
    /\ link[RunEnd] = ONE
    /\ LET n == stop - start
       IN  /\ Relocate(free_block, start, n)
           /\ free_block' = TailBehindChunk
           /\ \/ /\ n < 0 \/ free_block' > B - 1
                 /\ pc' = "failed"
                 /\ UNCHANGED link
              \/ /\ free_block' \in Blocks(B)
                 /\ pc' = "walk"
                 /\ link' = [Relocated(free_block, n) EXCEPT ![free_block'] = ONE]
    /\ start' = stop
    /\ UNCHANGED <<used1, used2, stop, first, used>>

\* Mutant of NextFree: free_block is not moved on.
SameFree == free_block

\* The free block behind the run.
NextFree == link[RunEnd]

\* Mutant of Advanced: `bytes' is reduced, `start' stays.
AdvancedNot(n) == start

\* The list of p1 ends before start comes to the bound 2 * B.
Advanced(n) == Min({start + n, 2 * B})

\* As much of the chunk as the run takes, or more, then on to the next free block.
\* The loop goes on until exactly the chunk is moved; at the end of the list it
\* dereferences NULL.
IntoRun ==
    /\ pc = "move"
    /\ link[RunEnd] # ONE
    /\ LET n == Cut
       IN  /\ Relocate(free_block, start, n)
           /\ link' = Relocated(free_block, n)
           /\ free_block' = NextFree
           /\ start' = Advanced(n)
           /\ pc' = IF n = stop - start THEN "walk"
                    ELSE IF free_block' = NULL THEN "failed" ELSE "move"
    /\ UNCHANGED <<used1, used2, stop, first, used>>

\* Mutant of UsedByBoth: the blocks of p2 are not counted.
UsedByOne == used

UsedByBoth == used + Cardinality(used2)

Finish ==
    /\ pc = "walk"
    /\ Rest = {}
    /\ used' = UsedByBoth
    /\ first' = IF used' = B THEN NULL ELSE free_block
    /\ pc' = "done"
    /\ UNCHANGED <<used1, used2, link, free_block, start, stop, moved, overshot>>

Next == NextChunk \/ InRow \/ IntoRun \/ Finish

\* The loop is the library's own; nothing else runs before it ends.
Spec == Init /\ [][Next]_vars /\ WF_vars(Next)

----------------------------------------------------------------------------
(* Properties *)

\* In a well-typed state no block of p1 that was in use is overwritten, and no
\* block of p2 is moved to two places, which the client's callback would take for
\* two blocks.
NothingIsOverwritten ==
    /\ TypeOK
    /\ ~overshot =>
        /\ \A b \in used1 : moved[b] = NULL
        /\ \A b, c \in Blocks(B) : moved[b] # NULL /\ moved[b] = moved[c] => b = c

\* As long as no chunk is overshot, the rest of p1's list is exactly what is neither
\* used nor filled, in ascending order, so that the next chunk finds its room.
ListIsWhatIsLeft ==
    ~overshot /\ pc \in {"walk", "move"} =>
        /\ FreeSet(B, link, free_block) = {b \in Blocks(B) \ used1 : moved[b] = NULL}
        /\ \A b \in FreeSet(B, link, free_block) : link[b] \in Blocks(B) => link[b] > b

\* Unless a chunk is overshot the merge comes to its end without leaving a page, and
\* with every used block of p2 moved.  Wherever it comes to its end, and be it behind
\* an overshoot, the header of p1 counts as many blocks as its list has.
MergeIsComplete ==
    /\ pc = "failed" => overshot
    /\ pc = "done" =>
        /\ ~overshot => {moved[b] : b \in Blocks(B)} \ {NULL} = used2
        /\ used = B - Cardinality(FreeSet(B, link, first))

\* The loops over the chunks of p2 and the free blocks of p1 come to an end, also
\* the inner one with a negative `bytes' that it never stops at 0.
MergeEnds == <>(pc \in {"done", "failed"})

\* test_relocate.c expects that a free block is never moved.
OnlyUsedBlocksMove == \A b \in Blocks(B) : moved[b] # NULL => moved[b] \in used2
=============================================================================
