------------------------- MODULE MCGlobalAllocator -------------------------
(* GlobalAllocator for TLC: the block positions of a page are               *)
(* interchangeable at this level; page addresses are ordered.               *)
EXTENDS GlobalAllocator, TLC

Symmetry == Permutations(Blocks)

\* The properties of the run are about the states before a collision, and the
\* only way back from one leads to the initial state.
BeforeCollision == ~collided

\* What follows a spoiled list is explored for a single page only, up to a failure.
SpoiledBound == spoiled => Cardinality(s.table) <= 1 /\ ~s.failed

LostBound == Counted(WriteBack(s)) - Cardinality(live) <= 1
=============================================================================
