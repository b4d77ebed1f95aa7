--------------------------- MODULE MCSmartPointer ---------------------------
(* A static pointer, an automatic one, and one to a class derived from T,  *)
(* over two blocks and two counters.                                      *)
EXTENDS SmartPointer, TLC

CONSTANTS static, auto, derived, b1, b2, c1, c2

MCStatics  == {static}
MCAutos    == {auto, derived}
MCDerived  == {derived}
MCBlocks   == {b1, b2}
MCCounters == {c1, c2}

Symmetric == Permutations(MCBlocks) \cup Permutations(MCCounters)
=============================================================================
