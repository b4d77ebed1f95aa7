----------------------------- MODULE PageVector -----------------------------
(***************************************************************************)
(* The growing page, with its list sorted the way the code does it: in a   *)
(* bit vector (module BitVector).  A page that has just grown is sorted    *)
(* with the layout it had before, and its list may end behind that layout. *)
(***************************************************************************)
EXTENDS GrowingPage, BitVector

\* Sorting pg in the vector leaves the header and the words that
\* BlockList!ba_sort_list gives, whatever is behind the vector.
SortsAlike(pg) ==
    LET n      == pg.blocks
        sorted == ba_sort_list(n, pg.link, pg.h.first)
    IN  \A garbage \in SUBSET Behind(n) :
            \E r \in {ba_sort_bits(n, pg.link, pg.h.first, garbage)} :
                /\ r.first = sorted.first
                /\ r.link = sorted.link
                /\ r.overruns <=>
                       /\ n = Bits(n)
                       /\ n \in {pg.h.first} \cup {pg.link[b] : b \in Listed(pg)}

\* bv_ctz reads the word behind the vector, and the sort of a page that has just
\* grown sets and reads the bit right behind its layout: no word that may be
\* there changes the list, and a write behind the vector happens exactly where that
\* layout fills the vector and the list goes on behind it.
VectorSortsAlike ==
    ~spoiled /\ have /\ ~page.h.sorted =>
        /\ SortsAlike(page)
        /\ \A new \in (page.blocks + 1) .. MaxSize : SortsAlike(Extended(page, new))
=============================================================================
