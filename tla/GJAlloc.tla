------------------------------ MODULE GJAlloc ------------------------------
(***************************************************************************)
(* GJAlloc_Singleton: the one struct block_allocator that all GJAlloc      *)
(* objects for blocks of a size share.  It is initialized when the first   *)
(* of them registers and destroyed when the last one goes.  s is the       *)
(* singleton's `mv'; there are no variables here.                          *)
(*                                                                         *)
(* Of struct block_allocator only this is kept: whether it was never       *)
(* initialized, is ready, or was destroyed, and which blocks its page      *)
(* table would find.                                                       *)
(***************************************************************************)
EXTENDS Naturals

CONSTANTS Blocks,  \* addresses of blocks
          CntMod   \* 2^w for the w bits of mv.cnt

ASSUME CntAssumption == CntMod \in Nat /\ CntMod >= 2

Singleton == [cnt : 0 .. (CntMod - 1), pool : {"zero", "ready", "destroyed"},
              blocks : SUBSET Blocks]

\* Memory of static storage duration before any constructor has run.
StaticMemory == [cnt |-> 0, pool |-> "zero", blocks |-> {}]

\* The constructor of mv sets the count and leaves the allocator alone.
MV(s) == [s EXCEPT !.cnt = 0]

\* ba_init does not look whether there are pages already.
ba_init(s) == [s EXCEPT !.pool = "ready", !.blocks = {}]

\* ba_destroy returns early if nothing is allocated.
ba_destroy(s) == IF s.pool = "ready"
                 THEN [s EXCEPT !.pool = "destroyed", !.blocks = {}]
                 ELSE s

register_alloc(s) ==
    LET counted == [s EXCEPT !.cnt = (@ + 1) % CntMod]
    IN  IF s.cnt = 0 THEN ba_init(counted) ELSE counted

\* Mutant of unregister_alloc: the allocator is destroyed one object too early.
UnregisterTooEarly(s) ==
    LET counted == [s EXCEPT !.cnt = (@ + CntMod - 1) % CntMod]
    IN  IF counted.cnt <= 1 THEN ba_destroy(counted) ELSE counted

unregister_alloc(s) ==
    LET counted == [s EXCEPT !.cnt = (@ + CntMod - 1) % CntMod]
    IN  IF counted.cnt = 0 THEN ba_destroy(counted) ELSE counted

\* ba_alloc ends the program if the allocator was never initialized, because it
\* does not know its block size; after ba_destroy it starts anew.
CanAllocate(s) == s.pool # "zero"

allocate(s, b) == [s EXCEPT !.pool = "ready", !.blocks = @ \cup {b}]

\* ba_free ends the program unless it finds the block's page.
CanDeallocate(s, b) == s.pool = "ready" /\ b \in s.blocks

deallocate(s, b) == [s EXCEPT !.blocks = @ \ {b}]
=============================================================================
