----------------------------- MODULE MCFreeList -----------------------------
(* FreeList for TLC.                                                        *)
EXTENDS FreeList

\* What follows a spoiled list is not explored: no property speaks of it.
BeforeSpoiling == ~spoiled

\* The header that is not current in a role is overwritten before it is read.
LiveState == <<link, role, live, spoiled, failed,
               IF role = "filed" THEN FreshHeader ELSE h,
               IF role = "alloc" THEN FreshHeader ELSE header>>
=============================================================================
