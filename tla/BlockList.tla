----------------------------- MODULE BlockList -----------------------------
(***************************************************************************)
(* The free list inside one page, word by word.  A free block's first word *)
(* links to the next free block; NULL ends the list; BA_ONE in a block     *)
(* says that it and every block after it are free but not linked yet.      *)
(*                                                                         *)
(* There are no variables here: w is the first word of each block, and hd  *)
(* a struct ba_page_header.  n is the number of blocks of the layout the   *)
(* page is looked at through, l.blocks.  The page may have more: what is   *)
(* behind the last block of the layout is no part of the list.             *)
(***************************************************************************)
EXTENDS Integers, FiniteSets

CONSTANTS NULL,
          ONE,     \* BA_ONE
          DATA     \* a word that is not part of the list

ASSUME WordAssumption == {NULL, ONE, DATA} \cap Int = {}
                         /\ NULL # ONE /\ NULL # DATA /\ ONE # DATA

Layouts == {n \in Nat : n >= 2}

Blocks(n) == 0 .. (n - 1)

Word(n) == Blocks(n) \cup {NULL, ONE, DATA}

\* first = n is the address just past the page.
Header(n) == [first : Blocks(n) \cup {NULL, n}, used : Int, sorted : BOOLEAN]

FreshLinks(n) == [b \in Blocks(n) |-> IF b = 0 THEN ONE ELSE DATA]

\* The header ba_free_page gives a page.
FreshHeader == [first |-> 0, used |-> 0, sorted |-> TRUE]

----------------------------------------------------------------------------
(* The list of a header *)

\* The blocks a loop along the links visits: the least set that contains first
\* and is closed under link.
Chain(n, w, first) ==
    {b \in Blocks(n) :
        \A S \in SUBSET Blocks(n) :
            /\ first \in S \/ first \notin Blocks(n)
            /\ \A c \in S : w[c] \in S \/ w[c] \notin Blocks(n)
            => b \in S}

\* The blocks a header stands for.
FreeSet(n, w, first) ==
    LET listed == Chain(n, w, first)
        lazy   == {c \in listed : w[c] = ONE}
    IN  listed \cup {b \in Blocks(n) : \E c \in lazy : b >= c}

\* The loop ends at NULL or BA_ONE.
EndsWell(n, w, first) ==
    \/ first = NULL
    \/ \E b \in Chain(n, w, first) : w[b] \in {NULL, ONE}

\* Links go to higher addresses only.
Increasing(n, w, first) ==
    \A b \in Chain(n, w, first) : w[b] \in Blocks(n) => w[b] > b

----------------------------------------------------------------------------
(* Allocation and release of a block *)

\* ba_shift takes the first block.  Nothing is allocated past the page; a tail
\* that is not linked yet moves on by one block, and ends as NULL.
Shifted(n, w, hd) ==
    LET b == hd.first
    IN  IF b = n THEN [link |-> w, h |-> hd, failed |-> TRUE]
        ELSE IF w[b] = ONE
        THEN [link   |-> [c \in Blocks(n) |->
                            CASE c = b     -> DATA
                              [] c = b + 1 -> IF c = n - 1 THEN NULL ELSE ONE
                              [] OTHER     -> w[c]],
              h      |-> [first |-> b + 1, used |-> hd.used + 1, sorted |-> TRUE],
              failed |-> b + 1 = n]
        ELSE [link   |-> [w EXCEPT ![b] = DATA],
              h      |-> [hd EXCEPT !.first = IF w[b] = DATA THEN n ELSE w[b],
                                    !.used = @ + 1],
              failed |-> w[b] = DATA]

\* Mutants of Unshifted: the sorted flag is never cleared; the block is not put
\* in front of the list.
UnshiftedStaysSorted(hd, b) == [hd EXCEPT !.first = b, !.used = @ - 1]

UnshiftedNotLinked(hd, b) == [hd EXCEPT !.used = @ - 1]

\* The header hd after ba_unshift of block b, whose word becomes hd.first.
Unshifted(hd, b) ==
    [first  |-> b,
     used   |-> hd.used - 1,
     sorted |-> hd.sorted /\ ~(hd.first # NULL /\ b > hd.first)]

----------------------------------------------------------------------------
(* Walking the page *)

Lowest(S)  == CHOOSE x \in S : \A y \in S : x <= y
Highest(S) == CHOOSE x \in S : \A y \in S : x >= y

\* ba_sort_list: the blocks marked in its bit vector are those of the list.  The
\* vector ends at the block that holds BA_ONE, then before the run of free
\* blocks at its end, block 0 never being part of the run.  What it returns, the
\* first block, and the words it leaves behind.
ba_sort_list(n, w, first) ==
    LET marked == Chain(n, w, first)
        lazy   == {b \in marked : w[b] = ONE}
        last   == IF lazy = {} THEN n - 1 ELSE Lowest(lazy)
        length == 1 + Highest({i \in 0 .. last : i = 0 \/ i \notin marked})
        tail   == IF length < n THEN length ELSE NULL
        kept   == {b \in marked : b < length}
        From(k) == LET rest == {b \in kept : b >= k}
                   IN  IF rest = {} THEN tail ELSE Lowest(rest)
    IN  [first |-> From(0),
         link  |-> [b \in Blocks(n) |-> CASE b = tail    -> ONE
                                       [] b \in kept  -> From(b + 1)
                                       [] OTHER       -> w[b]]]

\* Mutant of Sorted: the first block is not stored in the header.
SortedKeepsFirst(n, w, hd) ==
    [header |-> [hd EXCEPT !.sorted = TRUE],
     link   |-> IF hd.sorted THEN w ELSE ba_sort_list(n, w, hd.first).link]

\* ba_sort: the header and the words after it.
Sorted(n, w, hd) ==
    IF hd.sorted THEN [header |-> hd, link |-> w]
    ELSE LET sorted == ba_sort_list(n, w, hd.first)
         IN  [header |-> [hd EXCEPT !.first = sorted.first, !.sorted = TRUE],
              link   |-> sorted.link]

\* The blocks BA_WALK_CHUNKS shows: from the start of the page, and from behind
\* each listed block, up to the next listed block or the end of the page;
\* nothing behind the block that holds BA_ONE.
Shown(n, w, first) ==
    LET Stop(word) == IF word = NULL THEN n ELSE word
    IN  (0 .. (Stop(first) - 1)) \cup
        UNION {(c + 1) .. (Stop(w[c]) - 1) : c \in {b \in Chain(n, w, first) :
                                                       w[b] # ONE}}
=============================================================================
