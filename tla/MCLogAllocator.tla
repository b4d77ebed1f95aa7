--------------------------- MODULE MCLogAllocator ---------------------------
(* LogAllocator for TLC.                                                    *)
EXTENDS LogAllocator

\* What follows a failure is not explored.
BeforeFailure == ~failed
=============================================================================
