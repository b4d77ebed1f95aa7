-------------------------- MODULE MCLocalAllocator --------------------------
(* LocalAllocator for TLC, with the bounds of MCGlobalAllocator.            *)
EXTENDS LocalAllocator, TLC

Symmetry == Permutations(Blocks)

BeforeCollision == ~collided

\* What follows a spoiled list is explored for a single page only, up to a failure.
SpoiledBound == spoiled => Cardinality(s.table) <= 1 /\ ~s.failed

BeforeStale == ~stale

LostBound == Counted(WriteBack(s)) - Cardinality(live) <= 1
=============================================================================
