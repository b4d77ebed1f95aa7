----------------------------- MODULE BitVector -----------------------------
(***************************************************************************)
(* ba_sort_list with its bit vector, word by word: which bits are marked,  *)
(* how they are found again, and what is touched behind the vector.        *)
(* BlockList!ba_sort_list says what the sort comes to.                     *)
(*                                                                         *)
(* A vector is the set of the bits that are set, in its own memory and in  *)
(* the word behind, where malloc keeps something else.  n is l->blocks and *)
(* w the first word of each block of the page, which may have more blocks  *)
(* than its layout.                                                        *)
(***************************************************************************)
EXTENDS BlockList

CONSTANTS WordBits,  \* BV_LENGTH
          ByteBits   \* 8

ASSUME VectorAssumption == /\ ByteBits \in Nat \ {0}
                           /\ WordBits \in {k * ByteBits : k \in 1 .. WordBits}

NotFound == -1  \* (size_t)-1

\* The number of bytes is rounded up to a multiple of the bits of a word.
bv_byte_length(length) ==
    LET bytes == length \div ByteBits + (IF length % ByteBits = 0 THEN 0 ELSE 1)
    IN  IF bytes % WordBits = 0 THEN bytes
        ELSE bytes + WordBits - (bytes % WordBits)

\* The bits that are allocated, and those of the word behind them.
Bits(n) == bv_byte_length(n) * ByteBits

Behind(n) == Bits(n) .. (Bits(n) + WordBits - 1)

bv_set(v, i) == v \cup {i}

bv_get(v, i) == i \in v

\* The bits of word c that are not below i.
Masked(v, c, i) == {b \in v : b \div WordBits = c /\ b >= i}

\* Mutant of bv_ctz: what it finds is not compared with the length.
CtzIgnoresLength(v, length, i) ==
    LET Scan[c \in Nat] ==
            IF Masked(v, c, i) # {} THEN Lowest(Masked(v, c, i))
            ELSE IF c * WordBits >= length THEN NotFound ELSE Scan[c + 1]
    IN  Scan[i \div WordBits]

\* The first set bit from i on.  An empty word is left for the next one before
\* anything asks whether that is still in the vector.
bv_ctz(v, length, i) ==
    LET Scan[c \in Nat] ==
            IF Masked(v, c, i) # {} THEN Lowest(Masked(v, c, i))
            ELSE IF c * WordBits >= length THEN NotFound ELSE Scan[c + 1]
        found == Scan[i \div WordBits]
    IN  IF found >= length THEN NotFound ELSE found

\* k steps along the list from first, over a vector with this garbage behind it.
Marked(n, w, first, garbage) ==
    LET Step[k \in 0 .. (n + 1)] ==
            IF k = 0
            THEN [b |-> first, v |-> garbage, length |-> n, overruns |-> FALSE]
            ELSE LET s == Step[k - 1]
                 IN  IF s.b = NULL THEN s
                     ELSE [b      |-> IF w[s.b] = ONE THEN NULL ELSE w[s.b],
                           v      |-> bv_set(s.v, s.b),
                           length |-> IF w[s.b] = ONE THEN s.b + 1 ELSE s.length,
                           overruns |-> s.overruns \/ s.b >= Bits(n)]
    IN  Step[n + 1]

\* "Handle consecutive free blocks in the end": block 0 is not looked at.
Trimmed(v, length) ==
    LET Down[i \in Nat] == IF i > 0 /\ bv_get(v, i) THEN Down[i - 1] ELSE i
    IN  Down[length - 1] + 1

\* What ba_sort_list returns, the words of the layout's blocks after it, and
\* whether it wrote behind the vector.
ba_sort_bits(n, w, first, garbage) ==
    LET marked == Marked(n, w, first, garbage)
        length == Trimmed(marked.v, marked.length)
        tail   == IF length < n THEN length ELSE NULL
        NextBit(j) == LET i == bv_ctz(marked.v, length, j)
                      IN  IF i = NotFound THEN tail ELSE i
        chain  == {bv_ctz(marked.v, length, j) : j \in 0 .. n}
    IN  [first    |-> NextBit(0),
         link     |-> [b \in Blocks(n) |-> IF b = tail THEN ONE
                                           ELSE IF b \in chain THEN NextBit(b + 1)
                                           ELSE w[b]],
         overruns |-> marked.overruns]
=============================================================================
