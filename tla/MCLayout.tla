------------------------------ MODULE MCLayout ------------------------------
(* Layout for TLC: 12-bit words, the sizes of a 64-bit machine.             *)
EXTENDS Layout

MCBlockSizes == (1 .. 64) \cup {100, 250, 500, 1000}
MCBlockNumbers == 0 .. 40
MCReserved ==
    (1 .. 66)
    \cup UNION {{Pow2[k] - 1, Pow2[k], Pow2[k] + 1, 3 * Pow2[k - 1]} : k \in 7 .. 11}
=============================================================================
