--------------------------- MODULE MCGrowingPage ---------------------------
(* GrowingPage for TLC.                                                     *)
EXTENDS PageVector

\* What follows a spoiled page is not explored: no property speaks of it.
BeforeSpoiling == ~spoiled
=============================================================================
