------------------------- MODULE GrowingPageProofs -------------------------
(***************************************************************************)
(* The safety properties of module GrowingPage, for pages of any size.     *)
(* What is new against FreeListProofs is that a list outlives its layout:  *)
(* it is extended, sorted and walked with the old number of blocks and     *)
(* then read with the new one.  The second part is about module Layout,    *)
(* which says what the sizes are: the two share the powers of two.  The    *)
(* third is about the bit vector that sorts the list (module PageVector),  *)
(* whose words are counted off with the division of the second.            *)
(***************************************************************************)
EXTENDS PageVector, Layout, BlockListProofs

----------------------------------------------------------------------------
(* Powers of two *)

\* The recursive function exists.
LEMMA PowerSteps == Pow2[0] = 1 /\ \A n \in Nat : Pow2[n + 1] = 2 * Pow2[n]
<1> DEFINE Runs(h, n) == h[0] = 1 /\ \A k \in 0 .. (n - 1) : h[k + 1] = 2 * h[k]
\* The first n applications are a function.
<1>1. ASSUME NEW n \in Nat PROVE \E h : Runs(h, n)
  <2> DEFINE T == {m \in Nat : ~\E h : Runs(h, m)}
  <2>1. SUFFICES ASSUME T # {} PROVE FALSE
    OBVIOUS
  <2>2. PICK m \in T : \A k \in T : m <= k
    <3>1. T \in SUBSET Nat
      OBVIOUS
    <3> HIDE DEF T
    <3> QED BY <2>1, <3>1, Least
  <2>3. m \in Nat /\ ~\E h : Runs(h, m)
    OBVIOUS
  <2>4. m # 0
    <3> DEFINE h == [k \in {0} |-> 1]
    <3>1. Runs(h, 0)
      OBVIOUS
    <3> QED BY <2>3, <3>1
  <2>5. PICK h : Runs(h, m - 1)
    <3>1. m - 1 \in Nat /\ ~(m <= m - 1)
      BY <2>3, <2>4
    <3> QED BY <2>2, <3>1
  <2> DEFINE g == [k \in 0 .. m |-> IF k = m THEN 2 * h[m - 1] ELSE h[k]]
  <2>6. g[0] = 1
    BY <2>3, <2>4, <2>5
  <2>7. ASSUME NEW k \in 0 .. (m - 1) PROVE g[k + 1] = 2 * g[k]
    <3>1. k \in 0 .. m /\ k # m /\ k + 1 \in 0 .. m
      BY <2>3
    <3>2. CASE k + 1 = m
      <4>1. k = m - 1
        BY <2>3, <3>2
      <4> QED BY <3>1, <3>2, <4>1
    <3>3. CASE k + 1 # m
      <4>1. k \in 0 .. ((m - 1) - 1)
        BY <2>3, <3>3
      <4> QED BY <2>5, <3>1, <3>3, <4>1
    <3> QED BY <3>2, <3>3
  <2> HIDE DEF g
  <2>8. Runs(g, m)
    BY <2>6, <2>7
  <2> QED BY <2>3, <2>8
\* Two such functions agree as far as both go.
<1>2. ASSUME NEW m \in Nat, NEW n \in Nat, m <= n,
             NEW g, NEW h, Runs(g, m), Runs(h, n)
      PROVE  g[m] = h[m]
  <2> DEFINE T == {k \in Nat : k <= m /\ g[k] # h[k]}
  <2>1. SUFFICES ASSUME T # {} PROVE FALSE
    BY <1>2
  <2>2. PICK j \in T : \A k \in T : j <= k
    <3>1. T \in SUBSET Nat
      OBVIOUS
    <3> HIDE DEF T
    <3> QED BY <2>1, <3>1, Least
  <2>3. j \in Nat /\ j <= m /\ g[j] # h[j]
    OBVIOUS
  <2>4. j # 0
    BY <1>2, <2>3
  <2>5. j - 1 \in Nat /\ j - 1 <= m /\ ~(j <= j - 1)
        /\ j - 1 \in 0 .. (m - 1) /\ j - 1 \in 0 .. (n - 1)
    BY <1>2, <2>3, <2>4
  <2>6. g[j - 1] = h[j - 1]
    BY <2>2, <2>5
  <2>7. g[(j - 1) + 1] = 2 * g[j - 1] /\ h[(j - 1) + 1] = 2 * h[j - 1]
    BY <1>2, <2>5
  <2>8. (j - 1) + 1 = j
    BY <2>3
  <2> QED BY <2>3, <2>6, <2>7, <2>8
<1> DEFINE first(n) == CHOOSE h : Runs(h, n)
           all == [n \in Nat |-> first(n)[n]]
<1>3. ASSUME NEW n \in Nat PROVE Runs(first(n), n)
  BY <1>1
<1>4. all[0] = 1
  BY <1>3
<1>5. ASSUME NEW n \in Nat PROVE all[n + 1] = 2 * all[n]
  <2>1. n + 1 \in Nat /\ n <= n + 1 /\ n \in 0 .. ((n + 1) - 1)
    OBVIOUS
  <2> DEFINE g == first(n)
             h == first(n + 1)
  <2>2. Runs(h, n + 1) /\ Runs(g, n)
    BY <1>3, <2>1
  <2>3. all[n] = g[n] /\ all[n + 1] = h[n + 1]
    BY <2>1
  <2> HIDE DEF g, h, all
  <2>5. h[n + 1] = 2 * h[n]
    BY <2>1, <2>2
  <2> HIDE DEF Runs
  <2>4. g[n] = h[n]
    <3>1. n \in Nat /\ n + 1 \in Nat
      OBVIOUS
    <3> QED BY <1>2, <2>1, <2>2, <3>1
  <2> QED BY <2>3, <2>4, <2>5
<1>6. all = [k \in Nat |-> all[k]]
  OBVIOUS
<1> HIDE DEF all
<1>7. all = [k \in Nat |-> IF k = 0 THEN 1 ELSE 2 * all[k - 1]]
  <2>1. ASSUME NEW k \in Nat
        PROVE  all[k] = IF k = 0 THEN 1 ELSE 2 * all[k - 1]
    <3>1. CASE k = 0
      BY <1>4, <3>1
    <3>2. CASE k # 0
      <4>1. k - 1 \in Nat /\ (k - 1) + 1 = k
        BY <3>2
      <4> QED BY <1>5, <3>2, <4>1
    <3> QED BY <3>1, <3>2
  <2> QED BY <1>6, <2>1
<1>8. Pow2 = [k \in Nat |-> IF k = 0 THEN 1 ELSE 2 * Pow2[k - 1]]
  BY <1>7 DEF Pow2
<1>9. Pow2[0] = 1
  BY <1>8
<1>10. ASSUME NEW n \in Nat PROVE Pow2[n + 1] = 2 * Pow2[n]
  <2>1. n + 1 \in Nat /\ n + 1 # 0 /\ (n + 1) - 1 = n
    OBVIOUS
  <2> QED BY <1>8, <2>1
<1> QED BY <1>9, <1>10

LEMMA PowerTypes == \A n \in Nat : Pow2[n] \in Nat /\ Pow2[n] > n
<1> DEFINE T == {n \in Nat : ~(Pow2[n] \in Nat /\ Pow2[n] > n)}
<1>1. SUFFICES ASSUME T # {} PROVE FALSE
  OBVIOUS
<1>2. PICK m \in T : \A n \in T : m <= n
  <2>1. T \in SUBSET Nat
    OBVIOUS
  <2> HIDE DEF T
  <2> QED BY <1>1, <2>1, Least
<1>3. m \in Nat /\ m # 0
  BY PowerSteps
<1>4. m - 1 \in Nat /\ ~(m <= m - 1) /\ (m - 1) + 1 = m
  BY <1>3
<1>5. Pow2[m - 1] \in Nat /\ Pow2[m - 1] > m - 1
  BY <1>2, <1>4
<1>6. Pow2[m] = 2 * Pow2[m - 1]
  BY <1>4, PowerSteps
<1>7. Pow2[m] \in Nat /\ Pow2[m] > m
  BY <1>3, <1>5, <1>6
<1> QED BY <1>7

\* There is a least power of two above n.
LEMMA RoundedUpFacts ==
    ASSUME NEW n \in Nat, n >= 1
    PROVE  RoundedUp(n) \in Nat /\ RoundedUp(n) > n /\ RoundedUp(n) <= 2 * n
<1> DEFINE T == {k \in Nat : Pow2[k] > n}
<1>1. n \in T /\ T \in SUBSET Nat
  BY PowerTypes
<1> HIDE DEF T
<1>2. PICK k \in T : \A j \in T : k <= j
  BY <1>1, Least
<1>3. k \in Nat /\ Pow2[k] > n /\ k <= n
  BY <1>1, <1>2 DEF T
<1>4. k # 0
  BY <1>3, PowerSteps
<1>5. k - 1 \in Nat /\ ~(k <= k - 1) /\ (k - 1) + 1 = k
  BY <1>3, <1>4
<1>6. ~(Pow2[k - 1] > n) /\ Pow2[k] = 2 * Pow2[k - 1] /\ Pow2[k - 1] \in Nat
  BY <1>2, <1>5, PowerSteps, PowerTypes DEF T
<1>7. k \in 1 .. n /\ Pow2[k] <= 2 * n
  BY <1>3, <1>4, <1>6
<1>8. \E m \in {Pow2[j] : j \in 1 .. n} : m > n /\ m <= 2 * n
  BY <1>3, <1>7
<1>9. RoundedUp(n) \in {Pow2[j] : j \in 1 .. n} /\ RoundedUp(n) > n /\ RoundedUp(n) <= 2 * n
  BY <1>8 DEF RoundedUp
<1> QED BY <1>9, PowerTypes

\* Doubling the size of the page often enough makes room for n blocks.
LEMMA DoubledFacts ==
    ASSUME NEW n \in Nat, page.blocks \in Layouts, n > page.blocks
    PROVE  Doubled(n) \in Nat /\ Doubled(n) >= n
<1> DEFINE b == page.blocks
           T == {k \in Nat : k >= 1 /\ b * Pow2[k] >= n}
<1>1. b \in Nat /\ b >= 2 /\ n >= 1
  BY DEF Layouts
<1>2. n \in T /\ T \in SUBSET Nat
  <2>1. Pow2[n] \in Nat /\ Pow2[n] > n
    BY PowerTypes
  <2>2. b * Pow2[n] >= Pow2[n]
    BY <1>1, <2>1
  <2> QED BY <1>1, <2>1, <2>2
<1> HIDE DEF T, b
<1>3. PICK k \in T : \A j \in T : k <= j
  BY <1>2, Least
<1>4. k \in 1 .. n /\ b * Pow2[k] >= n /\ k \in Nat
  BY <1>2, <1>3 DEF T
<1>5. b * Pow2[k] = b * 2 \/ (b * Pow2[k]) \div 2 < n
  <2>1. CASE k = 1
    BY <2>1, PowerSteps
  <2>2. CASE k # 1
    <3>1. k - 1 \in Nat /\ k - 1 >= 1 /\ ~(k <= k - 1) /\ (k - 1) + 1 = k
      BY <1>4, <2>2
    <3>2. Pow2[k - 1] \in Nat /\ Pow2[k] = 2 * Pow2[k - 1]
      BY <3>1, PowerSteps, PowerTypes
    <3>3. ~(b * Pow2[k - 1] >= n)
      BY <1>3, <3>1 DEF T
    <3> DEFINE c == b * Pow2[k - 1]
    <3>4. b * Pow2[k] = 2 * c /\ c \in Nat
      BY <1>1, <3>2
    <3> HIDE DEF c
    <3>5. (2 * c) \div 2 = c
      BY <3>4
    <3> QED BY <3>3, <3>4, <3>5 DEF c
  <2> QED BY <2>1, <2>2
<1>6. \E m \in {b * Pow2[j] : j \in 1 .. n} : m >= n /\ (m = b * 2 \/ m \div 2 < n)
  BY <1>4, <1>5
<1>7. Doubled(n) \in {b * Pow2[j] : j \in 1 .. n} /\ Doubled(n) >= n
  BY <1>6 DEF Doubled, b
<1>8. \A j \in 1 .. n : b * Pow2[j] \in Nat
  BY <1>1, PowerTypes
<1> QED BY <1>7, <1>8

LEMMA SizeFacts ==
    ASSUME NEW n \in Nat
    PROVE  /\ Size(n) \in Nat /\ Size(n) <= AlignedBlocks
           /\ n < MaxBlocks => Size(n) = n
           /\ ~(n < MaxBlocks) => Size(n) = AlignedBlocks
BY SizeAssumption DEF Size

----------------------------------------------------------------------------
(* A list seen through a larger layout *)

\* A list that is not a cycle ends in one block.
LEMMA OneEnd ==
    ASSUME NEW n \in Layouts, NEW w, NEW first,
           NEW c \in Chain(n, w, first), w[c] \notin Blocks(n),
           NEW d \in Chain(n, w, first), w[d] \notin Blocks(n)
    PROVE  c = d
<1> DEFINE S == {b \in Chain(n, w, first) : c \in Chain(n, w, b)}
<1>1. Chain(n, w, first) \subseteq Blocks(n) /\ first \in Blocks(n)
  BY ChainFacts, NoChain
<1>2. first \in S /\ S \in SUBSET Blocks(n)
  BY <1>1, ChainFacts
<1>3. Closed(n, w, S)
  <2> SUFFICES ASSUME NEW b \in S, w[b] \in Blocks(n) PROVE w[b] \in S
    BY DEF Closed
  <2>1. w[b] \in Chain(n, w, first) /\ b \in Blocks(n)
    BY <1>1, ChainFacts DEF Closed
  <2>2. c \in {b} \cup Chain(n, w, w[b]) /\ c # b
    BY <2>1, ChainUnfolds
  <2> QED BY <2>1, <2>2
<1> HIDE DEF S
<1>4. Chain(n, w, first) \subseteq S
  BY <1>2, <1>3, ChainIsLeast
<1>5. c \in Chain(n, w, d) /\ d \in Blocks(n)
  BY <1>1, <1>4 DEF S
<1>6. c \in {d} \cup Chain(n, w, w[d])
  BY <1>5, ChainUnfolds
<1> QED BY <1>6, NoChain

\* The new blocks behind a set of old ones.
LEMMA NewBlocks ==
    ASSUME NEW n \in Layouts, NEW m \in Layouts, n < m, NEW F \in SUBSET Blocks(n)
    PROVE  /\ Blocks(n) \subseteq Blocks(m) /\ n \in Blocks(m)
           /\ F \cup (n .. (m - 1)) \subseteq Blocks(m)
           /\ F \cap (n .. (m - 1)) = {}
           /\ m - Cardinality(F \cup (n .. (m - 1))) = n - Cardinality(F)
<1>1. n \in Nat /\ m \in Nat
  BY WordFacts
<1>2. Blocks(n) \subseteq Blocks(m) /\ n \in Blocks(m) /\ n .. (m - 1) \subseteq Blocks(m)
  BY <1>1 DEF Blocks
<1>3. Blocks(n) \cap (n .. (m - 1)) = {}
  BY <1>1 DEF Blocks
<1>4. IsFiniteSet(n .. (m - 1)) /\ Cardinality(n .. (m - 1)) = m - n
  <2>1. m - 1 \in Int /\ n \in Int /\ ~(n > m - 1) /\ (m - 1) - n + 1 = m - n
    BY <1>1
  <2>2. IsFiniteSet(n .. (m - 1)) /\ Cardinality(n .. (m - 1)) = (m - 1) - n + 1
    BY <2>1, FS_Interval
  <2> QED BY <2>1, <2>2
<1>5. IsFiniteSet(F) /\ Cardinality(F) \in Nat
  BY BlockCount, FS_Subset, FS_CardinalityType
<1>6. F \cap (n .. (m - 1)) = {}
  BY <1>3
<1>7. Cardinality(F \cup (n .. (m - 1)))
          = Cardinality(F) + Cardinality(n .. (m - 1)) - Cardinality(F \cap (n .. (m - 1)))
  BY <1>4, <1>5, FS_Union
<1>8. Cardinality(F \cup (n .. (m - 1))) = Cardinality(F) + (m - n)
  <2>1. Cardinality(F \cap (n .. (m - 1))) = 0
    BY <1>6, FS_EmptySet
  <2> QED BY <1>1, <1>4, <1>5, <1>7, <2>1
<1> QED BY <1>1, <1>2, <1>5, <1>6, <1>8

\* A tail that is not linked yet covers the new blocks as well.
LEMMA TailGrows ==
    ASSUME NEW n \in Layouts, NEW m \in Layouts, n < m,
           NEW w \in Links(n), NEW hd \in Header(n), WellLinked(n, w, hd),
           NEW c \in Chain(n, w, hd.first), w[c] = ONE,
           NEW v, \A b \in Chain(n, w, hd.first) : v[b] = w[b]
    PROVE  /\ Chain(m, v, hd.first) = Chain(n, w, hd.first)
           /\ FreeSet(m, v, hd.first) = FreeSet(n, w, hd.first) \cup (n .. (m - 1))
           /\ WellLinked(m, v, hd)
<1> DEFINE f == hd.first
           C == Chain(n, w, f)
<1>1. /\ C \subseteq Blocks(n) /\ f \in C /\ f \in Blocks(n) /\ Closed(n, w, C)
      /\ Blocks(n) \subseteq Blocks(m)
      /\ \A b \in C : w[b] \in Blocks(n) \/ w[b] \notin Blocks(m)
  <2>1. C \subseteq Blocks(n) /\ f \in Blocks(n) /\ Closed(n, w, C)
    BY ChainFacts, NoChain
  <2>2. f \in C
    BY <2>1, ChainFacts
  <2>3. Blocks(n) \subseteq Blocks(m)
    BY NewBlocks
  <2>4. \A b \in C : w[b] \in Blocks(n) \/ w[b] \notin Blocks(m)
    BY <2>1, WordFacts DEF Links, Word
  <2> QED BY <2>1, <2>2, <2>3, <2>4
<1>2. Chain(m, v, f) = C
  <2>1. C \in SUBSET Blocks(m) /\ Closed(m, v, C)
    BY <1>1 DEF Closed
  <2>2. Chain(m, v, f) \subseteq C
    BY <1>1, <2>1, ChainIsLeast
  <2>3. f \in Chain(m, v, f) /\ Closed(m, v, Chain(m, v, f))
    BY <1>1, ChainFacts
  <2>4. Closed(n, w, Chain(m, v, f)) /\ Chain(m, v, f) \in SUBSET Blocks(n)
    BY <1>1, <2>2, <2>3 DEF Closed
  <2>5. C \subseteq Chain(m, v, f)
    BY <2>3, <2>4, ChainIsLeast
  <2> QED BY <2>2, <2>5
<1> HIDE DEF C, f
<1>3. FreeSet(m, v, f) = FreeSet(n, w, f) \cup (n .. (m - 1))
  <2>1. \A x \in Blocks(n) : x \in FreeSet(n, w, f) <=>
            x \in C \/ \E d \in C : w[d] = ONE /\ x >= d
    BY FreeFacts DEF C
  <2>2. \A x \in Blocks(m) : x \in FreeSet(m, v, f) <=>
            x \in C \/ \E d \in C : w[d] = ONE /\ x >= d
    BY <1>2, FreeFacts DEF C, f
  <2>3. \A x \in n .. (m - 1) : x \in Blocks(m) /\ x >= c
    BY <1>1, WordFacts DEF Blocks, C, f
  <2>4. \A x \in n .. (m - 1) : x \in FreeSet(m, v, f)
    BY <2>2, <2>3 DEF C, f
  <2>5. \A x \in Blocks(m) : x \in Blocks(n) \/ x \in n .. (m - 1)
    BY WordFacts DEF Blocks
  <2>6. FreeSet(n, w, f) \subseteq Blocks(n) /\ FreeSet(m, v, f) \subseteq Blocks(m)
    BY FreeFacts
  <2> QED BY <1>1, <2>1, <2>2, <2>4, <2>5, <2>6
<1>4. WellLinked(m, v, hd)
  <2>1. EndsWell(m, v, f)
    BY <1>2 DEF EndsWell, C, f
  <2>2. hd.sorted => Increasing(m, v, f)
    BY <1>1, <1>2 DEF WellLinked, Increasing, C, f
  <2> QED BY <1>2, <2>1, <2>2 DEF WellLinked, C, f
<1> QED BY <1>2, <1>3, <1>4 DEF C, f

\* The first header of a list that is extended by block n.
ExtendedFirst(n, first) == IF first = NULL THEN n ELSE first

\* The first of the new blocks is put behind a list without such a tail.
LEMMA EndGrows ==
    ASSUME NEW n \in Layouts, NEW m \in Layouts, n < m,
           NEW w \in Links(n), NEW hd \in Header(n), WellLinked(n, w, hd),
           \A b \in Chain(n, w, hd.first) : w[b] # ONE,
           NEW v, v[n] = ONE,
           \A b \in Chain(n, w, hd.first) : v[b] = IF w[b] = NULL THEN n ELSE w[b],
           NEW g, g.first = ExtendedFirst(n, hd.first), g.sorted = hd.sorted
    PROVE  /\ Chain(m, v, g.first) = Chain(n, w, hd.first) \cup {n}
           /\ FreeSet(m, v, g.first) = FreeSet(n, w, hd.first) \cup (n .. (m - 1))
           /\ WellLinked(m, v, g)
<1> DEFINE f == hd.first
           C == Chain(n, w, f)
           D == Chain(m, v, g.first)
<1>1. /\ C \subseteq Blocks(n) /\ Closed(n, w, C) /\ n \in Blocks(m)
      /\ Blocks(n) \subseteq Blocks(m) /\ n \notin Blocks(n)
      /\ (f = NULL /\ C = {}) \/ (f \in Blocks(n) /\ f \in C)
      /\ v[n] \notin Blocks(m) /\ n # NULL /\ n # ONE /\ n # DATA
      /\ NULL \notin Blocks(m) /\ DATA \notin Blocks(m)
  <2>1. C \subseteq Blocks(n) /\ Closed(n, w, C)
    BY ChainFacts
  <2>2. n \in Blocks(m) /\ Blocks(n) \subseteq Blocks(m)
    BY NewBlocks
  <2>3. (f = NULL /\ C = {}) \/ (f \in Blocks(n) /\ f \in C)
    <3>1. f = NULL \/ (f \in Blocks(n) /\ f \in C)
      BY FirstFacts DEF WellLinked
    <3>2. NULL \notin Blocks(n)
      BY WordFacts
    <3>3. f = NULL => C = {}
      BY <3>2, NoChain
    <3> QED BY <3>1, <3>3
  <2>4. /\ n \notin Blocks(n) /\ n # NULL /\ n # ONE /\ n # DATA
        /\ NULL \notin Blocks(m) /\ DATA \notin Blocks(m) /\ ONE \notin Blocks(m)
    BY WordFacts
  <2> HIDE DEF C, f
  <2> QED BY <2>1, <2>2, <2>3, <2>4
<1>2. \A b \in C :
          \/ w[b] = NULL /\ v[b] = n
          \/ w[b] \in Blocks(n) /\ v[b] = w[b] /\ w[b] \in C
  <2> SUFFICES ASSUME NEW b \in C
               PROVE  \/ w[b] = NULL /\ v[b] = n
                      \/ w[b] \in Blocks(n) /\ v[b] = w[b] /\ w[b] \in C
    OBVIOUS
  <2>1. w[b] \in Blocks(n) \cup {NULL, ONE, DATA} /\ w[b] # ONE /\ w[b] # DATA
    BY <1>1 DEF Links, Word, WellLinked
  <2>2. w[b] \in Blocks(n) => w[b] \in C /\ w[b] # NULL
    BY <1>1 DEF Closed
  <2>3. w[b] = NULL => v[b] = n
    OBVIOUS
  <2>4. w[b] # NULL => v[b] = w[b]
    OBVIOUS
  <2> HIDE DEF C, f
  <2> QED BY <2>1, <2>2, <2>3, <2>4
<1>3. g.first = IF f = NULL THEN n ELSE f
  BY DEF ExtendedFirst
<1>4. /\ D \subseteq Blocks(m) /\ Closed(m, v, D) /\ g.first \in D
  <2>1. g.first \in Blocks(m)
    BY <1>1, <1>3
  <2> QED BY <2>1, ChainFacts
<1>5. D \subseteq C \cup {n}
  <2>1. C \cup {n} \in SUBSET Blocks(m) /\ g.first \in C \cup {n}
    BY <1>1, <1>3
  <2>2. Closed(m, v, C \cup {n})
    BY <1>1, <1>2 DEF Closed
  <2> HIDE DEF C, f
  <2> QED BY <2>1, <2>2, ChainIsLeast
<1>6. C \subseteq D
  <2> DEFINE S == C \cap D
  <2>1. S \in SUBSET Blocks(n) /\ (f \in S \/ f \notin Blocks(n))
    BY <1>1, <1>3, <1>4
  <2>2. Closed(n, w, S)
    BY <1>1, <1>2, <1>4 DEF Closed
  <2> HIDE DEF S
  <2>3. C \subseteq S
    BY <2>1, <2>2, ChainIsLeast
  <2> QED BY <2>3 DEF S
<1>7. n \in D
  <2>1. CASE f = NULL
    BY <1>3, <1>4, <2>1
  <2>2. CASE f # NULL
    <3>1. PICK e \in C : w[e] \in {NULL, ONE}
      BY <2>2 DEF WellLinked, EndsWell
    <3>2. v[e] = n /\ e \in D
      BY <1>2, <1>6, <3>1, <1>1, WordFacts
    <3> QED BY <1>1, <1>4, <3>2 DEF Closed
  <2> QED BY <2>1, <2>2
<1>8. D = C \cup {n}
  BY <1>5, <1>6, <1>7
<1> HIDE DEF C, D, f
<1>9. \A d \in C : v[d] # ONE
  BY <1>1, <1>2, WordFacts
<1>10. FreeSet(m, v, g.first) = FreeSet(n, w, f) \cup (n .. (m - 1))
  <2>1. \A x \in Blocks(n) : x \in FreeSet(n, w, f) <=> x \in C
    BY FreeFacts DEF C, f
  <2>2. \A x \in Blocks(m) : x \in FreeSet(m, v, g.first) <=>
            x \in D \/ \E d \in D : v[d] = ONE /\ x >= d
    BY FreeFacts DEF D
  <2>3. \A x \in Blocks(m) : x \in FreeSet(m, v, g.first) <=> x \in C \/ x >= n
    <3>1. n >= n
      BY WordFacts
    <3> QED BY <1>8, <1>9, <2>2, <3>1
  <2>4. \A x \in Blocks(m) : x >= n <=> x \in n .. (m - 1)
    BY WordFacts DEF Blocks
  <2>5. n .. (m - 1) \subseteq Blocks(m)
    BY WordFacts DEF Blocks
  <2>6. FreeSet(n, w, f) \subseteq Blocks(n) /\ FreeSet(m, v, g.first) \subseteq Blocks(m)
    BY FreeFacts
  <2> QED BY <1>1, <2>1, <2>3, <2>4, <2>5, <2>6
<1>11. WellLinked(m, v, g)
  <2>1. EndsWell(m, v, g.first)
    BY <1>8 DEF EndsWell, D
  <2>2. \A b \in D : v[b] # DATA
    BY <1>1, <1>2, <1>8, WordFacts
  <2>3. \A b, d \in D : v[d] = ONE => b <= d
    <3> SUFFICES ASSUME NEW b \in D, NEW d \in D, v[d] = ONE PROVE b <= d
      OBVIOUS
    <3>1. d = n
      BY <1>8, <1>9
    <3> QED BY <1>1, <1>8, <3>1, WordFacts
  <2>4. g.sorted => Increasing(m, v, g.first)
    <3> SUFFICES ASSUME hd.sorted, NEW b \in D, v[b] \in Blocks(m) PROVE v[b] > b
      BY DEF Increasing, D
    <3>1. b \in C
      BY <1>1, <1>8
    <3>2. CASE w[b] = NULL /\ v[b] = n
      BY <1>1, <3>1, <3>2, WordFacts
    <3>3. CASE w[b] \in Blocks(n) /\ v[b] = w[b]
      BY <3>1, <3>3 DEF WellLinked, Increasing, C, f
    <3> QED BY <1>2, <3>1, <3>2, <3>3
  <2> QED BY <2>1, <2>2, <2>3, <2>4 DEF WellLinked, D
<1> QED BY <1>8, <1>10, <1>11 DEF C, D, f

----------------------------------------------------------------------------
(* The extended page seen through the old layout *)

\* Beyond the old layout the list is at its end, so that it reaches the same
\* blocks and is walked to the same end.
LEMMA ExtendedShown ==
    ASSUME NEW n \in Layouts, NEW w, NEW first, NEW v,
           \A b \in Chain(n, w, first) : v[b] = IF w[b] = NULL THEN n ELSE w[b]
    PROVE  /\ Chain(n, v, ExtendedFirst(n, first)) = Chain(n, w, first)
           /\ Shown(n, v, ExtendedFirst(n, first)) = Shown(n, w, first)
<1> DEFINE C == Chain(n, w, first)
           g == ExtendedFirst(n, first)
           D == Chain(n, v, g)
<1>1. /\ n \notin Blocks(n) /\ NULL \notin Blocks(n) /\ n # NULL /\ n # ONE /\ NULL # ONE
  BY WordFacts
<1>2. g \in Blocks(n) => g = first
  BY <1>1 DEF ExtendedFirst
<1>3. first \in Blocks(n) => g = first
  BY <1>1 DEF ExtendedFirst
<1>4. \A b \in C : (v[b] \in Blocks(n) \/ w[b] \in Blocks(n)) => v[b] = w[b]
  <2> SUFFICES ASSUME NEW b \in C, v[b] \in Blocks(n) \/ w[b] \in Blocks(n)
               PROVE  v[b] = w[b]
    OBVIOUS
  <2>1. w[b] = NULL => v[b] = n
    OBVIOUS
  <2>2. w[b] # NULL => v[b] = w[b]
    OBVIOUS
  <2> QED BY <1>1, <2>1, <2>2
<1>5. C \subseteq Blocks(n) /\ (first \in C \/ first \notin Blocks(n)) /\ Closed(n, w, C)
  BY ChainFacts
<1>6. D \subseteq Blocks(n) /\ (g \in D \/ g \notin Blocks(n)) /\ Closed(n, v, D)
  BY ChainFacts
<1> HIDE DEF g
<1>7. D \subseteq C
  <2>1. Closed(n, v, C) /\ (g \in C \/ g \notin Blocks(n))
    BY <1>2, <1>4, <1>5 DEF Closed
  <2> HIDE DEF C
  <2> QED BY <1>5, <2>1, ChainIsLeast
<1>8. C \subseteq D
  <2>1. Closed(n, w, D) /\ (first \in D \/ first \notin Blocks(n))
    BY <1>3, <1>4, <1>6, <1>7 DEF Closed
  <2> HIDE DEF D
  <2> QED BY <1>6, <2>1, ChainIsLeast
<1>9. C = D
  BY <1>7, <1>8
<1> DEFINE Stop(word) == IF word = NULL THEN n ELSE word
<1>10. Stop(g) = Stop(first)
  BY <1>1 DEF ExtendedFirst, g
<1>11. \A b \in C : Stop(v[b]) = Stop(w[b]) /\ (v[b] = ONE <=> w[b] = ONE)
  <2> SUFFICES ASSUME NEW b \in C
               PROVE  Stop(v[b]) = Stop(w[b]) /\ (v[b] = ONE <=> w[b] = ONE)
    OBVIOUS
  <2>1. w[b] = NULL => v[b] = n
    OBVIOUS
  <2>2. w[b] # NULL => v[b] = w[b]
    OBVIOUS
  <2> QED BY <1>1, <2>1, <2>2
<1>12. /\ Shown(n, v, g) = (0 .. (Stop(g) - 1)) \cup
             UNION {(c + 1) .. (Stop(v[c]) - 1) : c \in {b \in D : v[b] # ONE}}
       /\ Shown(n, w, first) = (0 .. (Stop(first) - 1)) \cup
             UNION {(c + 1) .. (Stop(w[c]) - 1) : c \in {b \in C : w[b] # ONE}}
  BY DEF Shown
<1> HIDE DEF C, D, Stop
<1>13. {(c + 1) .. (Stop(v[c]) - 1) : c \in {b \in D : v[b] # ONE}}
           = {(c + 1) .. (Stop(w[c]) - 1) : c \in {b \in C : w[b] # ONE}}
  BY <1>9, <1>11
<1>14. Shown(n, v, g) = Shown(n, w, first)
  BY <1>10, <1>12, <1>13
<1> QED BY <1>9, <1>14 DEF C, D, g

\* It is sorted to the same list.
LEMMA ExtendedSort ==
    ASSUME NEW n \in Layouts, NEW w \in Links(n), NEW hd \in Header(n),
           WellLinked(n, w, hd), NEW v,
           \A b \in Chain(n, w, hd.first) : v[b] = IF w[b] = NULL THEN n ELSE w[b]
    PROVE  LET r == ba_sort_list(n, w, hd.first)
               s == ba_sort_list(n, v, ExtendedFirst(n, hd.first))
           IN  /\ s.first = r.first
               /\ \A b \in Chain(n, r.link, r.first) : s.link[b] = r.link[b]
               /\ \A b \in Blocks(n) : s.link[b] \in Blocks(n) \cup {NULL, ONE, v[b]}
<1> DEFINE f == hd.first
           g == ExtendedFirst(n, f)
           r == ba_sort_list(n, w, f)
           s == ba_sort_list(n, v, g)
           k == Length(n, w, f)
           K == Kept(n, w, f)
           t == TailWord(n, k)
<1>1. Chain(n, v, g) = Chain(n, w, f)
  BY ExtendedShown
<1>2. \A b \in Chain(n, w, f) : v[b] = ONE <=> w[b] = ONE
  <2> SUFFICES ASSUME NEW b \in Chain(n, w, f) PROVE v[b] = ONE <=> w[b] = ONE
    OBVIOUS
  <2>1. w[b] = NULL => v[b] = n
    OBVIOUS
  <2>2. w[b] # NULL => v[b] = w[b]
    OBVIOUS
  <2> QED BY <2>1, <2>2, WordFacts
<1>3. Lazy(n, v, g) = Lazy(n, w, f)
  BY <1>1, <1>2 DEF Lazy
<1>4. Length(n, v, g) = k /\ Kept(n, v, g) = K
  BY <1>1, <1>3 DEF Length, Stays, Last, Kept
<1>5. /\ r.first = From(K, t, 0)
      /\ r.link = [b \in Blocks(n) |-> CASE b = t    -> ONE
                                        [] b \in K -> From(K, t, b + 1)
                                        [] OTHER   -> w[b]]
  BY SortParts
<1>6. /\ s.first = From(K, t, 0)
      /\ s.link = [b \in Blocks(n) |-> CASE b = t    -> ONE
                                        [] b \in K -> From(K, t, b + 1)
                                        [] OTHER   -> v[b]]
  <2> HIDE DEF s, K, t, k, g
  <2>1. LET k2 == Length(n, v, g)
            K2 == Kept(n, v, g)
            t2 == TailWord(n, k2)
            r2 == ba_sort_list(n, v, g)
        IN  /\ r2.first = From(K2, t2, 0)
            /\ r2.link = [b \in Blocks(n) |-> CASE b = t2    -> ONE
                                               [] b \in K2 -> From(K2, t2, b + 1)
                                               [] OTHER    -> v[b]]
    BY SortParts
  <2> QED BY <1>4, <2>1 DEF s, t
<1>7. /\ K \in SUBSET Blocks(n) /\ k \in 1 .. n
      /\ t \in Blocks(n) \cup {NULL}
  BY LengthFacts, WordFacts DEF TailWord, Blocks
<1>8. Chain(n, r.link, r.first) = K \cup {b \in Blocks(n) : b = k}
  BY SortedInOrder
<1>9. \A b \in Blocks(n) : b = k => b = t
  BY WordFacts DEF TailWord
<1>10. \A x : From(K, t, x) \in Blocks(n) \cup {NULL}
  <2> HIDE DEF K, t
  <2> QED BY <1>7, FromFacts
<1> HIDE DEF r, s, k, K, t
<1>11. ASSUME NEW b \in Chain(n, r.link, r.first) PROVE s.link[b] = r.link[b]
  <2>1. b \in Blocks(n) /\ (b \in K \/ b = t)
    BY <1>7, <1>8, <1>9
  <2> QED BY <1>5, <1>6, <2>1
<1>12. ASSUME NEW b \in Blocks(n)
       PROVE  s.link[b] \in Blocks(n) \cup {NULL, ONE, v[b]}
  BY <1>6, <1>10
<1> QED BY <1>5, <1>6, <1>11, <1>12 DEF r, s

\* The list ends in a tail after the sort, unless the last of the blocks is in use
\* and the list had no tail.
LEMMA SortLeavesTail ==
    ASSUME NEW n \in Layouts, NEW w \in Links(n), NEW hd \in Header(n),
           WellLinked(n, w, hd),
           \/ \E b \in Chain(n, w, hd.first) : w[b] = ONE
           \/ n - 1 \in Chain(n, w, hd.first)
    PROVE  LET r == ba_sort_list(n, w, hd.first)
           IN  \E b \in Chain(n, r.link, r.first) : r.link[b] = ONE
<1> DEFINE f == hd.first
           r == ba_sort_list(n, w, f)
           k == Length(n, w, f)
<1>1. /\ k \in 1 .. n /\ Last(n, w, f) \in Blocks(n) /\ k - 1 \in Stays(n, w, f)
  BY LengthFacts
<1>2. Last(n, w, f) \in Chain(n, w, f)
  <2>1. CASE Lazy(n, w, f) # {}
    <3>1. Lazy(n, w, f) \in SUBSET Blocks(n)
      BY ChainFacts DEF Lazy
    <3>2. Lowest(Lazy(n, w, f)) \in Lazy(n, w, f)
      BY <2>1, <3>1, LowestFacts
    <3> QED BY <2>1, <3>2 DEF Last, Lazy
  <2>2. CASE Lazy(n, w, f) = {}
    BY <2>2 DEF Last, Lazy
  <2> QED BY <2>1, <2>2
<1>3. /\ k - 1 \in 0 .. Last(n, w, f) /\ (k - 1 = 0 \/ k - 1 \notin Chain(n, w, f))
      /\ Last(n, w, f) \in Nat /\ Last(n, w, f) <= n - 1 /\ n \in Nat /\ n >= 2
  BY <1>1, WordFacts DEF Stays
<1> HIDE DEF k
<1>4. k # n
  <2> SUFFICES ASSUME k = n PROVE FALSE
    OBVIOUS
  <2>1. Last(n, w, f) = k - 1 /\ k - 1 # 0
    BY <1>1, <1>3
  <2> QED BY <1>2, <1>3, <2>1
<1>5. k \in Blocks(n)
  BY <1>1, <1>3, <1>4 DEF Blocks
<1>6. k \in Chain(n, r.link, r.first) /\ r.link[k] = ONE
  BY <1>5, SortedInOrder DEF k
<1> QED BY <1>6

----------------------------------------------------------------------------
(* Growing a page *)

\* A page of at least two blocks, its words and its header.
IsPage(pg) ==
    /\ pg = [blocks |-> pg.blocks, link |-> pg.link, h |-> pg.h]
    /\ pg.blocks \in Layouts
    /\ pg.link \in Links(pg.blocks)
    /\ pg.h \in Header(pg.blocks)

LEMMA ExtendedFacts ==
    ASSUME NEW pg, IsPage(pg), NEW m \in Layouts, pg.blocks < m
    PROVE  LET e == Extended(pg, m)
           IN  /\ e = [blocks |-> pg.blocks, link |-> e.link, h |-> e.h]
               /\ e.blocks = pg.blocks
               /\ e.link \in Links(m)
               /\ e.h = [pg.h EXCEPT !.first = ExtendedFirst(pg.blocks, pg.h.first)]
               /\ e.h \in Header(m) /\ e.h \in Header(pg.blocks)
               /\ \A b \in Listed(pg) :
                     e.link[b] = IF pg.link[b] = NULL THEN pg.blocks ELSE pg.link[b]
               /\ Linked(pg) => e.link[pg.blocks] = ONE
<1> DEFINE n == pg.blocks
           e == Extended(pg, m)
           Words2(b) == IF b = n THEN (IF Linked(pg) THEN ONE ELSE DATA)
                        ELSE IF b > n THEN DATA
                        ELSE IF b \in Listed(pg) /\ pg.link[b] = NULL THEN n
                        ELSE pg.link[b]
           v == [b \in 0 .. (m - 1) |-> Words2(b)]
           g == [pg.h EXCEPT !.first = ExtendedFirst(n, pg.h.first)]
<1>1. /\ n \in Layouts /\ pg.link \in Links(n) /\ pg.h \in Header(n)
      /\ Blocks(n) \subseteq Blocks(m) /\ n \in Blocks(m) /\ n \in Nat /\ m \in Nat
      /\ n \notin Blocks(n)
      /\ Listed(pg) \subseteq Blocks(n)
      /\ \A b \in Blocks(m) : b \in Nat
      /\ \A b \in Blocks(n) : b # n /\ ~(b > n)
      /\ \A b \in Blocks(m) : b = n \/ b > n \/ b \in Blocks(n)
  <2>1. n \in Layouts /\ pg.link \in Links(n) /\ pg.h \in Header(n)
    BY DEF IsPage
  <2>2. Listed(pg) \subseteq Blocks(n)
    BY <2>1, ChainFacts DEF Listed
  <2>3. Blocks(n) \subseteq Blocks(m) /\ n \in Blocks(m) /\ n \in Nat /\ m \in Nat
    BY <2>1, NewBlocks, WordFacts
  <2>4. n \notin Blocks(n) /\ (\A b \in Blocks(m) : b \in Nat)
    BY <2>1, WordFacts
  <2>5. /\ \A b \in Blocks(n) : b # n /\ ~(b > n)
        /\ \A b \in Blocks(m) : b = n \/ b > n \/ b \in Blocks(n)
    BY <2>3 DEF Blocks
  <2> QED BY <2>1, <2>2, <2>3, <2>4, <2>5
<1>2. e = [blocks |-> n, link |-> v, h |-> g]
  <2>1. e = [pg EXCEPT !.h.first = IF @ = NULL THEN n ELSE @, !.link = v]
    BY DEF Extended
  <2>2. g = [pg.h EXCEPT !.first = IF @ = NULL THEN n ELSE @]
    BY <1>1 DEF ExtendedFirst, Header
  <2> HIDE DEF v, e, g, n
  <2> QED BY <2>1, <2>2 DEF IsPage, n
<1> HIDE DEF e
<1>3. v \in Links(m)
  <2>1. ASSUME NEW b \in Blocks(m) PROVE Words2(b) \in Word(m)
    <3>1. b \in Blocks(n) => pg.link[b] \in Word(n)
      BY <1>1 DEF Links
    <3> QED BY <1>1, <3>1 DEF Word
  <2> HIDE DEF Words2
  <2> QED BY <2>1 DEF Links, Blocks
<1>4. g \in Header(m) /\ g \in Header(n)
  <2>1. ExtendedFirst(n, pg.h.first) \in Blocks(n) \cup {NULL, n}
    BY <1>1 DEF ExtendedFirst, Header
  <2>2. ExtendedFirst(n, pg.h.first) \in Blocks(m) \cup {NULL, m}
    BY <1>1, <2>1
  <2> HIDE DEF n
  <2> QED BY <1>1, <2>1, <2>2 DEF Header
<1>5. \A b \in Listed(pg) : v[b] = IF pg.link[b] = NULL THEN n ELSE pg.link[b]
  <2> SUFFICES ASSUME NEW b \in Listed(pg)
               PROVE  v[b] = IF pg.link[b] = NULL THEN n ELSE pg.link[b]
    OBVIOUS
  <2>1. b \in Blocks(n) /\ b \in 0 .. (m - 1) /\ b # n /\ ~(b > n)
    BY <1>1 DEF Blocks
  <2>2. v[b] = Words2(b)
    BY <2>1
  <2> QED BY <2>1, <2>2
<1>6. Linked(pg) => v[n] = ONE
  <2>1. n \in 0 .. (m - 1)
    BY <1>1 DEF Blocks
  <2> QED BY <2>1
<1> HIDE DEF v, g
<1>7. e.blocks = n /\ e.link = v /\ e.h = g
  BY <1>2
<1> QED BY <1>2, <1>3, <1>4, <1>5, <1>6, <1>7 DEF e, g, n

LEMMA GrownIsSound ==
    ASSUME NEW n \in Layouts, NEW m \in Layouts, n + 1 < m,
           NEW w, NEW hd, NEW L \in SUBSET Blocks(n), Sound(n, w, hd, L),
           NEW v, NEW g, WellLinked(m, v, g), g.used = hd.used,
           Chain(m, v, g.first) \subseteq Blocks(n) \cup {n},
           FreeSet(m, v, g.first) = FreeSet(n, w, hd.first) \cup (n .. (m - 1))
    PROVE  Sound(m, v, g, L)
<1>1. n \in Nat /\ m \in Nat /\ n < m
  BY WordFacts
<1>2. FreeSet(n, w, hd.first) \in SUBSET Blocks(n)
  BY FreeFacts
<1>3. /\ m - Cardinality(FreeSet(m, v, g.first)) = n - Cardinality(FreeSet(n, w, hd.first))
      /\ L \cap (n .. (m - 1)) = {}
  <2> DEFINE F == FreeSet(n, w, hd.first)
  <2>1. F \in SUBSET Blocks(n) /\ FreeSet(m, v, g.first) = F \cup (n .. (m - 1))
    BY <1>2
  <2> HIDE DEF F
  <2>2. m - Cardinality(F \cup (n .. (m - 1))) = n - Cardinality(F)
    BY <1>1, <2>1, NewBlocks
  <2>3. L \cap (n .. (m - 1)) = {}
    BY <1>1, NewBlocks
  <2> QED BY <2>1, <2>2, <2>3 DEF F
<1>4. m - 1 \notin Blocks(n) \cup {n}
  BY <1>1 DEF Blocks
<1> QED BY <1>3, <1>4 DEF Sound

\* What the callback is told of, whatever growing does to the list: the blocks the
\* old layout shows between the free ones.
LEMMA GrowTold ==
    ASSUME NEW pg, IsPage(pg), WellLinked(pg.blocks, pg.link, pg.h),
           NEW m \in Layouts, pg.blocks < m, NEW moves \in BOOLEAN
    PROVE  ba_grow_page(pg, m, moves).told
               = IF moves THEN Blocks(pg.blocks) \ Free(pg) ELSE NULL
<1> DEFINE n == pg.blocks
           w == pg.link
           f == pg.h.first
           e == Extended(pg, m)
           so == Sorted(n, e.link, e.h)
           v == [b \in Blocks(m) |-> IF b < n THEN so.link[b] ELSE e.link[b]]
<1>1. /\ n \in Layouts /\ w \in Links(n) /\ pg.h \in Header(n) /\ n \in Nat
      /\ WellLinked(n, w, pg.h)
      /\ Listed(pg) = Chain(n, w, f) /\ Free(pg) = FreeSet(n, w, f)
      /\ Chain(n, w, f) \subseteq Blocks(n)
  BY WordFacts, ChainFacts DEF IsPage, Listed, Free
<1>2. /\ e = [blocks |-> n, link |-> e.link, h |-> e.h]
      /\ e.link \in Links(m)
      /\ e.h = [pg.h EXCEPT !.first = ExtendedFirst(n, f)]
      /\ e.h \in Header(n)
      /\ \A b \in Chain(n, w, f) : e.link[b] = IF w[b] = NULL THEN n ELSE w[b]
  BY <1>1, ExtendedFacts
<1>3. e.h.first = ExtendedFirst(n, f) /\ e.h.sorted = pg.h.sorted
  BY <1>1, <1>2 DEF Header
<1>4. ba_grow_page(pg, m, moves).told = IF moves THEN Told(Resorted(e)) ELSE NULL
  BY DEF ba_grow_page
<1> HIDE DEF e
<1>5. Told(Resorted(e)) = Shown(n, v, so.header.first)
  <2>1. DOMAIN e.link = Blocks(m)
    BY <1>2 DEF Links
  <2>2. Resorted(e) = [e EXCEPT
          !.h = Sorted(e.blocks, e.link, e.h).header,
          !.link = [b \in DOMAIN e.link |->
                       IF b < e.blocks THEN Sorted(e.blocks, e.link, e.h).link[b]
                       ELSE e.link[b]]]
    BY DEF Resorted
  <2>3. e.blocks = n
    BY <1>2
  <2>4. Resorted(e) = [e EXCEPT !.h = so.header, !.link = v]
    BY <2>1, <2>2, <2>3
  <2> HIDE DEF so, v
  <2>5. Resorted(e) = [blocks |-> n, link |-> v, h |-> so.header]
    <3>1. e = [blocks |-> n, link |-> e.link, h |-> e.h]
      BY <1>2
    <3> DEFINE hr == so.header
               el == e.link
               eh == e.h
    <3>2. Resorted(e) = [e EXCEPT !.h = hr, !.link = v] /\ e = [blocks |-> n, link |-> el, h |-> eh]
      BY <2>4, <3>1
    <3> HIDE DEF n, hr, el, eh
    <3>3. Resorted(e) = [blocks |-> n, link |-> v, h |-> hr]
      BY <3>2
    <3> QED BY <3>3 DEF hr
  <2>6. Told(Resorted(e)) = Shown(n, v, so.header.first)
    BY <2>5 DEF Told
  <2> QED BY <2>6
<1>6. \A b \in Blocks(n) : b < n /\ b \in Blocks(m)
  BY <1>1, NewBlocks, WordFacts
<1>7. CASE pg.h.sorted
  <2>1. so = [header |-> e.h, link |-> e.link]
    BY <1>3, <1>7 DEF Sorted
  <2> HIDE DEF so
  <2>2. so.header.first = ExtendedFirst(n, f) /\ so.link = e.link
    BY <1>3, <2>1
  <2>3. \A b \in Chain(n, w, f) : v[b] = IF w[b] = NULL THEN n ELSE w[b]
    BY <1>1, <1>2, <1>6, <2>2
  <2>4. Increasing(n, w, f)
    BY <1>7 DEF WellLinked
  <2> HIDE DEF v
  <2>5. Shown(n, v, ExtendedFirst(n, f)) = Shown(n, w, f)
    BY <1>1, <2>3, ExtendedShown
  <2>6. Shown(n, w, f) = Blocks(n) \ FreeSet(n, w, f)
    BY <1>1, <2>4, ShownFacts
  <2> QED BY <1>1, <1>4, <1>5, <2>2, <2>5, <2>6
<1>8. CASE ~pg.h.sorted
  <2> DEFINE r == ba_sort_list(n, w, f)
             s == ba_sort_list(n, e.link, e.h.first)
             ro == Sorted(n, w, pg.h)
  <2>1. /\ s.first = r.first
        /\ \A b \in Chain(n, r.link, r.first) : s.link[b] = r.link[b]
    <3> DEFINE el == e.link
               q == ba_sort_list(n, el, ExtendedFirst(n, f))
    <3> HIDE DEF v, so, ro, s
    <3>1. \A b \in Chain(n, w, f) : el[b] = IF w[b] = NULL THEN n ELSE w[b]
      BY <1>2
    <3> HIDE DEF el
    <3>2. /\ q.first = r.first
          /\ \A b \in Chain(n, r.link, r.first) : q.link[b] = r.link[b]
          /\ \A b \in Blocks(n) : q.link[b] \in Blocks(n) \cup {NULL, ONE, el[b]}
      BY <1>1, <3>1, ExtendedSort
    <3>3. s = q
      BY <1>3 DEF s, el
    <3> HIDE DEF q, r
    <3> QED BY <3>2, <3>3
  <2>2. /\ ro = [header |-> [pg.h EXCEPT !.first = r.first, !.sorted = TRUE], link |-> r.link]
        /\ so = [header |-> [e.h EXCEPT !.first = s.first, !.sorted = TRUE], link |-> s.link]
    BY <1>3, <1>8 DEF Sorted
  <2>3. /\ ro.header.first = r.first /\ ro.link = r.link
        /\ so.header.first = s.first /\ so.link = s.link
    <3> HIDE DEF r, s, ro, so
    <3> QED BY <1>1, <1>2, <2>2 DEF Header
  <2>4. /\ ro.link \in Links(n) /\ ro.header \in Header(n)
        /\ FreeSet(n, ro.link, ro.header.first) = FreeSet(n, w, f)
        /\ Increasing(n, ro.link, ro.header.first)
        /\ WellLinked(n, ro.link, ro.header)
    BY <1>1, SortTypes, SortFacts
  <2> HIDE DEF r, s, ro, so
  <2>5. Chain(n, ro.link, ro.header.first) \subseteq Blocks(n)
    BY <1>1, ChainFacts
  <2>6. \A b \in Chain(n, ro.link, ro.header.first) : v[b] = ro.link[b]
    BY <1>6, <2>1, <2>3, <2>5
  <2> HIDE DEF v
  <2>7. Chain(n, v, ro.header.first) = Chain(n, ro.link, ro.header.first)
    BY <1>1, <2>6, SameChain
  <2>8. Shown(n, v, ro.header.first) = Shown(n, ro.link, ro.header.first)
    BY <2>6, <2>7 DEF Shown
  <2>9. Shown(n, ro.link, ro.header.first)
            = Blocks(n) \ FreeSet(n, ro.link, ro.header.first)
    BY <1>1, <2>4, ShownFacts
  <2> QED BY <1>1, <1>4, <1>5, <2>1, <2>3, <2>4, <2>8, <2>9
<1> QED BY <1>7, <1>8

\* What growing by two blocks or more makes of a page that is not spoiled by it.
LEMMA GrowFacts ==
    ASSUME NEW pg, IsPage(pg), NEW L \in SUBSET Blocks(pg.blocks),
           Sound(pg.blocks, pg.link, pg.h, L),
           NEW m \in Layouts, pg.blocks + 1 < m, NEW moves \in BOOLEAN,
           moves /\ ~pg.h.sorted => ~Linked(pg) \/ pg.blocks - 1 \in Listed(pg)
    PROVE  LET g == ba_grow_page(pg, m, moves)
           IN  /\ IsPage(g.page) /\ g.page.blocks = m
               /\ Sound(m, g.page.link, g.page.h, L)
               /\ Free(g.page) = Free(pg) \cup (pg.blocks .. (m - 1))
               /\ g.page.h.used = pg.h.used
<1> DEFINE n == pg.blocks
           w == pg.link
           f == pg.h.first
           e == Extended(pg, m)
           g == ba_grow_page(pg, m, moves)
<1>1. /\ n \in Layouts /\ w \in Links(n) /\ pg.h \in Header(n) /\ n < m
      /\ WellLinked(n, w, pg.h) /\ n \in Nat /\ m \in Nat
      /\ Listed(pg) = Chain(n, w, f) /\ Free(pg) = FreeSet(n, w, f)
      /\ Chain(n, w, f) \subseteq Blocks(n)
  <2>1. n \in Layouts /\ w \in Links(n) /\ pg.h \in Header(n)
    BY DEF IsPage
  <2>2. n \in Nat /\ m \in Nat
    BY <2>1, WordFacts
  <2>3. n < m
    BY <2>2
  <2> QED BY <2>1, <2>2, <2>3, ChainFacts DEF Sound, Listed, Free
<1>2. /\ e = [blocks |-> n, link |-> e.link, h |-> e.h]
      /\ e.blocks = n
      /\ e.link \in Links(m)
      /\ e.h = [pg.h EXCEPT !.first = ExtendedFirst(n, f)]
      /\ e.h \in Header(m) /\ e.h \in Header(n)
      /\ \A b \in Chain(n, w, f) : e.link[b] = IF w[b] = NULL THEN n ELSE w[b]
      /\ Linked(pg) => e.link[n] = ONE
  BY <1>1, ExtendedFacts
<1>3. e.h.first = ExtendedFirst(n, f) /\ e.h.used = pg.h.used /\ e.h.sorted = pg.h.sorted
  BY <1>1, <1>2 DEF Header
<1>4. g = [page |-> [(IF moves THEN Resorted(e) ELSE e) EXCEPT !.blocks = m],
           told |-> IF moves THEN Told(IF moves THEN Resorted(e) ELSE e) ELSE NULL]
  BY DEF ba_grow_page
<1> HIDE DEF g, e
<1>5. CASE ~moves \/ pg.h.sorted
  <2>1. moves => Resorted(e) = e
    <3> SUFFICES ASSUME moves PROVE Resorted(e) = e
      OBVIOUS
    <3>1. Sorted(n, e.link, e.h) = [header |-> e.h, link |-> e.link]
      BY <1>3, <1>5 DEF Sorted
    <3>2. e.link = [b \in DOMAIN e.link |-> IF b < n THEN e.link[b] ELSE e.link[b]]
      BY <1>2 DEF Links
    <3>3. Resorted(e) = [e EXCEPT !.h = e.h, !.link = e.link]
      <4>1. Resorted(e) = [e EXCEPT
              !.h = Sorted(e.blocks, e.link, e.h).header,
              !.link = [b \in DOMAIN e.link |->
                           IF b < e.blocks THEN Sorted(e.blocks, e.link, e.h).link[b]
                           ELSE e.link[b]]]
        BY DEF Resorted
      <4>2. /\ Sorted(e.blocks, e.link, e.h).header = e.h
            /\ Sorted(e.blocks, e.link, e.h).link = e.link
        BY <1>2, <3>1
      <4> QED BY <1>2, <3>2, <4>1, <4>2
    <3> QED BY <1>2, <3>3
  <2>2. g.page = [blocks |-> m, link |-> e.link, h |-> e.h]
    <3>1. g.page = [e EXCEPT !.blocks = m]
      BY <1>4, <2>1
    <3> QED BY <1>2, <3>1
  <2>3. IsPage(g.page)
    BY <1>2, <2>2 DEF IsPage
  <2>5. /\ Chain(m, e.link, e.h.first) \subseteq Chain(n, w, f) \cup {n}
        /\ FreeSet(m, e.link, e.h.first) = FreeSet(n, w, f) \cup (n .. (m - 1))
        /\ WellLinked(m, e.link, e.h)
    <3>1. CASE Linked(pg)
      <4>1. \A b \in Chain(n, w, f) : w[b] # ONE
        BY <1>1, <3>1 DEF Linked
      <4>2. e.link[n] = ONE
        BY <1>2, <3>1
      <4>3. /\ Chain(m, e.link, e.h.first) = Chain(n, w, f) \cup {n}
            /\ FreeSet(m, e.link, e.h.first) = FreeSet(n, w, f) \cup (n .. (m - 1))
            /\ WellLinked(m, e.link, e.h)
        <5> DEFINE v == e.link
                   x == e.h
                   hd == pg.h
        <5>1. /\ v[n] = ONE /\ x.first = ExtendedFirst(n, hd.first) /\ x.sorted = hd.sorted
              /\ \A b \in Chain(n, w, hd.first) : v[b] = IF w[b] = NULL THEN n ELSE w[b]
              /\ \A b \in Chain(n, w, hd.first) : w[b] # ONE
              /\ hd \in Header(n) /\ WellLinked(n, w, hd)
          BY <1>1, <1>2, <1>3, <4>1, <4>2
        <5> HIDE DEF v, x, hd, n, w
        <5>2. /\ Chain(m, v, x.first) = Chain(n, w, hd.first) \cup {n}
              /\ FreeSet(m, v, x.first) = FreeSet(n, w, hd.first) \cup (n .. (m - 1))
              /\ WellLinked(m, v, x)
          BY <1>1, <5>1, EndGrows
        <5> QED BY <5>2 DEF v, x, hd
      <4> QED BY <4>3
    <3>2. CASE ~Linked(pg)
      <4>1. PICK c \in Chain(n, w, f) : w[c] = ONE
        BY <1>1, <3>2 DEF Linked
      <4>2. f \in Blocks(n) /\ f # NULL
        BY <1>1, <4>1, NoChain, WordFacts
      <4>3. e.h.first = f
        BY <1>3, <4>2 DEF ExtendedFirst
      <4>4. \A b \in Chain(n, w, f) : e.link[b] = w[b]
        <5> SUFFICES ASSUME NEW b \in Chain(n, w, f) PROVE e.link[b] = w[b]
          OBVIOUS
        <5>1. w[b] # NULL
          BY <1>1, <4>1, OneEnd, WordFacts
        <5> QED BY <1>2, <5>1
      <4>5. /\ Chain(m, e.link, f) = Chain(n, w, f)
            /\ FreeSet(m, e.link, f) = FreeSet(n, w, f) \cup (n .. (m - 1))
            /\ WellLinked(m, e.link, pg.h)
        <5> HIDE DEF n, w
        <5> QED BY <1>1, <4>1, <4>4, TailGrows DEF f
      <4>6. WellLinked(m, e.link, e.h)
        BY <1>3, <4>3, <4>5 DEF WellLinked
      <4> QED BY <4>3, <4>5, <4>6
    <3> QED BY <3>1, <3>2
  <2>6. Sound(m, e.link, e.h, L)
    <3>1. Chain(m, e.link, e.h.first) \subseteq Blocks(n) \cup {n}
      BY <1>1, <2>5
    <3> QED BY <1>1, <1>3, <2>5, <3>1, GrownIsSound
  <2>7. /\ g.page.blocks = m /\ g.page.link = e.link /\ g.page.h = e.h
        /\ Free(g.page) = FreeSet(n, w, f) \cup (n .. (m - 1))
    BY <2>2, <2>5 DEF Free
  <2> QED BY <1>1, <1>3, <2>3, <2>6, <2>7 DEF g
<1>6. CASE moves /\ ~pg.h.sorted
  <2> DEFINE r == ba_sort_list(n, w, f)
             s == ba_sort_list(n, e.link, e.h.first)
             hr == [pg.h EXCEPT !.first = r.first, !.sorted = TRUE]
             v == [b \in Blocks(m) |-> IF b < n THEN s.link[b] ELSE e.link[b]]
  <2>1. /\ s.first = r.first
        /\ \A b \in Chain(n, r.link, r.first) : s.link[b] = r.link[b]
        /\ \A b \in Blocks(n) : s.link[b] \in Blocks(n) \cup {NULL, ONE, e.link[b]}
    BY <1>1, <1>2, <1>3, ExtendedSort
  <2>2. Sorted(n, w, pg.h) = [header |-> hr, link |-> r.link]
    BY <1>6 DEF Sorted
  <2>3. /\ r.link \in Links(n) /\ hr \in Header(n)
        /\ FreeSet(n, r.link, hr.first) = FreeSet(n, w, f)
        /\ Increasing(n, r.link, hr.first)
        /\ WellLinked(n, r.link, hr)
        /\ hr.first = r.first /\ hr.used = pg.h.used
    <3> DEFINE so == Sorted(n, w, pg.h)
    <3>1. /\ so.link \in Links(n) /\ so.header \in Header(n)
          /\ FreeSet(n, so.link, so.header.first) = FreeSet(n, w, f)
          /\ Increasing(n, so.link, so.header.first)
          /\ WellLinked(n, so.link, so.header)
          /\ so.header.used = pg.h.used
      BY <1>1, SortTypes, SortFacts
    <3> HIDE DEF so, hr
    <3>2. so.link = r.link /\ so.header = hr
      BY <2>2 DEF so
    <3>3. hr.first = r.first
      BY <1>1 DEF hr, Header
    <3> QED BY <3>1, <3>2, <3>3
  <2>4. Sorted(n, e.link, e.h) = [header |-> hr, link |-> s.link]
    <3>1. Sorted(n, e.link, e.h) = [header |-> [e.h EXCEPT !.first = s.first, !.sorted = TRUE],
                                    link   |-> s.link]
      BY <1>3, <1>6 DEF Sorted
    <3>2. [e.h EXCEPT !.first = s.first, !.sorted = TRUE] = hr
      <4> HIDE DEF s, r
      <4> QED BY <1>1, <1>2, <2>1 DEF Header
    <3> QED BY <3>1, <3>2
  <2>5. Resorted(e) = [blocks |-> n, link |-> v, h |-> hr]
    <3> HIDE DEF s, hr
    <3>1. DOMAIN e.link = Blocks(m)
      BY <1>2 DEF Links
    <3>2. Resorted(e) = [e EXCEPT !.h = hr, !.link = v]
      <4>1. Resorted(e) = [e EXCEPT
              !.h = Sorted(e.blocks, e.link, e.h).header,
              !.link = [b \in DOMAIN e.link |->
                           IF b < e.blocks THEN Sorted(e.blocks, e.link, e.h).link[b]
                           ELSE e.link[b]]]
        BY DEF Resorted
      <4>2. /\ Sorted(e.blocks, e.link, e.h).header = hr
            /\ Sorted(e.blocks, e.link, e.h).link = s.link
        BY <1>2, <2>4
      <4> QED BY <1>2, <3>1, <4>1, <4>2
    <3> HIDE DEF v
    <3> QED BY <1>2, <3>2
  <2> HIDE DEF s, hr, r
  <2>6. g.page = [blocks |-> m, link |-> v, h |-> hr]
    <3> HIDE DEF v
    <3> QED BY <1>4, <1>6, <2>5
  <2>7. v \in Links(m)
    <3>1. \A b \in Blocks(m) : b < n => b \in Blocks(n)
      BY <1>1, WordFacts DEF Blocks
    <3>2. Blocks(n) \subseteq Blocks(m)
      BY <1>1, NewBlocks
    <3> QED BY <1>2, <2>1, <3>1, <3>2 DEF Links, Word
  <2>8. hr \in Header(m)
    <3>1. Blocks(n) \subseteq Blocks(m) /\ n \in Blocks(m)
      BY <1>1, NewBlocks
    <3> QED BY <2>3, <3>1 DEF Header
  <2>9. \A b \in Chain(n, r.link, r.first) : v[b] = r.link[b]
    <3>1. /\ Chain(n, r.link, r.first) \subseteq Blocks(n)
          /\ Blocks(n) \subseteq Blocks(m)
      <4>1. Chain(n, r.link, r.first) \subseteq Blocks(n)
        BY <1>1, ChainFacts
      <4>2. Blocks(n) \subseteq Blocks(m)
        BY <1>1, NewBlocks
      <4> QED BY <4>1, <4>2
    <3>2. \A b \in Blocks(n) : b < n
      BY <1>1, WordFacts
    <3> QED BY <2>1, <3>1, <3>2
  <2> HIDE DEF v
  <2>10. PICK c \in Chain(n, r.link, r.first) : r.link[c] = ONE
    <3>1. (\E b \in Chain(n, w, f) : w[b] = ONE) \/ n - 1 \in Chain(n, w, f)
      BY <1>1, <1>6 DEF Linked
    <3> QED BY <1>1, <3>1, SortLeavesTail DEF r
  <2>11. /\ Chain(m, v, hr.first) = Chain(n, r.link, hr.first)
         /\ FreeSet(m, v, hr.first) = FreeSet(n, r.link, hr.first) \cup (n .. (m - 1))
         /\ WellLinked(m, v, hr)
    <3> HIDE DEF n
    <3> QED BY <1>1, <2>3, <2>9, <2>10, TailGrows
  <2>12. Sound(m, v, hr, L)
    <3>1. Chain(m, v, hr.first) \subseteq Blocks(n) \cup {n}
      BY <1>1, <2>11, ChainFacts
    <3>2. FreeSet(m, v, hr.first) = FreeSet(n, w, f) \cup (n .. (m - 1))
      BY <2>3, <2>11
    <3> QED BY <1>1, <2>3, <2>11, <3>1, <3>2, GrownIsSound
  <2>13. IsPage(g.page)
    BY <2>6, <2>7, <2>8 DEF IsPage
  <2>14. /\ g.page.blocks = m /\ g.page.link = v /\ g.page.h = hr
         /\ Free(g.page) = FreeSet(n, w, f) \cup (n .. (m - 1))
    BY <2>3, <2>6, <2>11 DEF Free
  <2> QED BY <1>1, <2>3, <2>12, <2>13, <2>14 DEF g
<1> QED BY <1>5, <1>6

----------------------------------------------------------------------------
(* The inductive invariant *)

Types ==
    /\ have \in BOOLEAN /\ transformed \in BOOLEAN
    /\ behind \in Seq(SUBSET (0 .. (MaxSize - 1)))
    /\ promised \in 0 .. MaxSize
    /\ told \in (SUBSET (0 .. MaxSize)) \cup {NULL}

Typed ==
    /\ IsPage(page) /\ page.blocks <= MaxSize
    /\ live \subseteq Blocks(page.blocks)
    /\ Types

\* The list is sound and has what the client does not own.  Without a page there
\* is no list, and of the last one the number of blocks in use is left.
Listing ==
    /\ have => /\ Sound(page.blocks, page.link, page.h, live)
               /\ Free(page) = Blocks(page.blocks) \ live
    /\ ~have => page.h.first = NULL /\ live = {}
    /\ page.h.used \in Nat
    /\ failed => ~have

\* What is promised fits into the page, or into the one that will be there.
Reserve ==
    /\ have /\ ~transformed => page.h.used + promised <= page.blocks
    /\ ~have /\ ~failed => promised <= page.blocks

\* A temporary allocator gives out its blocks from the first to the last, the tail
\* of the list never being linked.
InOrder ==
    kind = "temporary" =>
        /\ promised = 0
        /\ have => TemporaryShown = live
        /\ page.h.first # NULL => page.link[page.h.first] \in {ONE, NULL}
        /\ \A i \in DOMAIN behind : behind[i] = BehindShown

Healthy == /\ Typed /\ Listing /\ Reserve /\ InOrder
           /\ kind = "local" => page.blocks <= AlignedBlocks

\* What no spoiled page can disturb, and a new ba_doubling starts from.
Frame == /\ kind \in {"local", "doubling", "temporary"}
         /\ kind = "doubling" => have /\ behind = <<>> /\ ~transformed
         /\ kind = "temporary" => told = NULL
         /\ have \in BOOLEAN /\ transformed \in BOOLEAN
         /\ spoiled \in BOOLEAN /\ failed \in BOOLEAN

IInv == Frame /\ (~spoiled => Healthy)

----------------------------------------------------------------------------
(* Pages and lists *)

LEMMA NoFirst ==
    ASSUME NEW n \in Layouts, NEW w, NEW first, first \notin Blocks(n)
    PROVE  FreeSet(n, w, first) = {}
BY NoChain DEF FreeSet

LEMMA Counts ==
    ASSUME NEW n \in Layouts, NEW w, NEW hd, NEW L \in SUBSET Blocks(n),
           Sound(n, w, hd, L), FreeSet(n, w, hd.first) = Blocks(n) \ L
    PROVE  /\ hd.used \in Nat /\ hd.used <= n
           /\ hd.used = Cardinality(L)
           /\ Cardinality(FreeSet(n, w, hd.first)) = n - hd.used
<1> DEFINE F == FreeSet(n, w, hd.first)
<1>1. /\ IsFiniteSet(Blocks(n)) /\ Cardinality(Blocks(n)) = n /\ n \in Nat
      /\ hd.used = n - Cardinality(F) /\ F = Blocks(n) \ L
  BY BlockCount, WordFacts DEF Sound
<1>2. L = Blocks(n) \cap L
  OBVIOUS
<1>3. IsFiniteSet(L) /\ Cardinality(L) \in Nat /\ Cardinality(L) <= n
  BY <1>1, FS_Subset, FS_CardinalityType
<1>4. Cardinality(F) = Cardinality(Blocks(n)) - Cardinality(Blocks(n) \cap L)
  BY <1>1, FS_Difference
<1>5. Cardinality(F) = n - Cardinality(L)
  BY <1>1, <1>2, <1>4
<1> HIDE DEF F
<1>6. hd.used = Cardinality(L) /\ Cardinality(F) = n - hd.used
  BY <1>1, <1>3, <1>5
<1> QED BY <1>3, <1>6 DEF F

LEMMA FreshFacts ==
    ASSUME NEW n \in Layouts
    PROVE  /\ IsPage(Fresh(n)) /\ Fresh(n).blocks = n
           /\ Sound(n, Fresh(n).link, Fresh(n).h, {})
           /\ Free(Fresh(n)) = Blocks(n)
           /\ Fresh(n).h.first = 0 /\ Fresh(n).h.used = 0
           /\ Fresh(n).link[0] = ONE
<1> DEFINE pg == Fresh(n)
<1>1. pg.blocks = n /\ pg.link = FreshLinks(n) /\ pg.h = FreshHeader
      /\ pg = [blocks |-> pg.blocks, link |-> pg.link, h |-> pg.h]
  BY DEF Fresh
<1>2. FreshLinks(n) \in Links(n) /\ FreshLinks(n)[0] = ONE
  BY WordFacts DEF FreshLinks, Links, Word
<1>3. FreshHeader \in Header(n) /\ FreshHeader.first = 0 /\ FreshHeader.used = 0
  BY WordFacts DEF FreshHeader, Header
<1>4. Sound(n, FreshLinks(n), FreshHeader, {}) /\ FreeSet(n, FreshLinks(n), 0) = Blocks(n)
  BY <1>2, <1>3, LazyIsSound
<1> HIDE DEF pg
<1> QED BY <1>1, <1>2, <1>3, <1>4 DEF IsPage, Free, pg

LEMMA NoPageFacts ==
    ASSUME NEW n \in Layouts, NEW u \in Nat
    PROVE  /\ IsPage(NoPage(n, u)) /\ NoPage(n, u).blocks = n
           /\ NoPage(n, u).h.first = NULL /\ NoPage(n, u).h.used = u
<1> DEFINE pg == NoPage(n, u)
<1>1. /\ pg.blocks = n /\ pg.link = [b \in 0 .. (n - 1) |-> DATA]
      /\ pg.h = [first |-> NULL, used |-> u, sorted |-> FALSE]
      /\ pg = [blocks |-> pg.blocks, link |-> pg.link, h |-> pg.h]
  BY DEF NoPage
<1>2. pg.link \in Links(n) /\ pg.h \in Header(n)
  BY <1>1 DEF Links, Word, Header, Blocks
<1> HIDE DEF pg
<1> QED BY <1>1, <1>2 DEF IsPage, pg

LEMMA ShiftTypes ==
    ASSUME NEW n \in Layouts, NEW w \in Links(n), NEW hd \in Header(n),
           hd.first \in Blocks(n)
    PROVE  LET r == Shifted(n, w, hd)
           IN  /\ r.link \in Links(n) /\ r.h \in Header(n)
               /\ r.h.used = hd.used + 1
               /\ w[hd.first] = ONE =>
                     /\ r.h.first = hd.first + 1
                     /\ hd.first + 1 \in Blocks(n) =>
                            r.link[hd.first + 1] \in {NULL, ONE}
               /\ w[hd.first] = NULL => r.h.first = NULL
<1> DEFINE b == hd.first
           r == Shifted(n, w, hd)
<1>1. /\ b \in Blocks(n) /\ b # n /\ b \in Nat /\ n \in Nat /\ b + 1 # b
      /\ w[b] \in Word(n) /\ hd.used \in Int
      /\ NULL # ONE /\ NULL # DATA
  BY WordFacts DEF Links, Header
<1>2. CASE w[b] = ONE
  <2>1. /\ r.link = [c \in Blocks(n) |-> CASE c = b     -> DATA
                                          [] c = b + 1 -> IF c = n - 1 THEN NULL ELSE ONE
                                          [] OTHER     -> w[c]]
        /\ r.h = [first |-> b + 1, used |-> hd.used + 1, sorted |-> TRUE]
    BY <1>1, <1>2 DEF Shifted
  <2> HIDE DEF r
  <2>2. r.link \in Links(n)
    BY <2>1 DEF Links, Word
  <2>3. b + 1 \in Blocks(n) \cup {NULL, n}
    BY <1>1 DEF Blocks
  <2>4. r.h \in Header(n) /\ r.h.used = hd.used + 1 /\ r.h.first = b + 1
    BY <1>1, <2>1, <2>3 DEF Header
  <2>5. b + 1 \in Blocks(n) => r.link[b + 1] \in {NULL, ONE}
    BY <1>1, <2>1
  <2> QED BY <1>1, <1>2, <2>2, <2>4, <2>5 DEF r
<1>3. CASE w[b] # ONE
  <2>1. /\ r.link = [w EXCEPT ![b] = DATA]
        /\ r.h = [hd EXCEPT !.first = IF w[b] = DATA THEN n ELSE w[b],
                            !.used = @ + 1]
    BY <1>1, <1>3 DEF Shifted
  <2> HIDE DEF r
  <2>2. r.link \in Links(n)
    BY <2>1 DEF Links, Word
  <2>3. (IF w[b] = DATA THEN n ELSE w[b]) \in Blocks(n) \cup {NULL, n}
    BY <1>1, <1>3 DEF Word
  <2> DEFINE next == IF w[b] = DATA THEN n ELSE w[b]
  <2>4. r.h \in Header(n) /\ r.h.used = hd.used + 1 /\ r.h.first = next
    <3> HIDE DEF next
    <3>1. next \in Blocks(n) \cup {NULL, n}
      BY <2>3 DEF next
    <3>2. r.h = [hd EXCEPT !.first = next, !.used = @ + 1]
      BY <2>1 DEF next
    <3>3. r.h = [first |-> next, used |-> hd.used + 1, sorted |-> hd.sorted]
      BY <3>2 DEF Header
    <3> QED BY <1>1, <3>1, <3>3 DEF Header
  <2> QED BY <1>1, <1>3, <2>2, <2>4 DEF r
<1> QED BY <1>2, <1>3

\* What ba_shift does to a sound page.
LEMMA ShiftStep ==
    ASSUME NEW pg, IsPage(pg), NEW L \in SUBSET Blocks(pg.blocks),
           Sound(pg.blocks, pg.link, pg.h, L), Free(pg) = Blocks(pg.blocks) \ L,
           pg.h.first # NULL, Shift(pg, L)
    PROVE  /\ IsPage(page') /\ page'.blocks = pg.blocks
           /\ pg.h.first \in Blocks(pg.blocks) \ L
           /\ failed' = FALSE /\ live' = L \cup {pg.h.first}
           /\ live' \subseteq Blocks(pg.blocks)
           /\ Sound(page'.blocks, page'.link, page'.h, live')
           /\ Free(page') = Blocks(pg.blocks) \ live'
           /\ page'.h.used = pg.h.used + 1
           /\ pg.link[pg.h.first] = ONE =>
                 /\ page'.h.first = pg.h.first + 1
                 /\ pg.h.first + 1 \in Blocks(pg.blocks) =>
                        page'.link[pg.h.first + 1] \in {NULL, ONE}
           /\ pg.link[pg.h.first] = NULL => page'.h.first = NULL
<1> DEFINE n == pg.blocks
           f == pg.h.first
           r == Shifted(n, pg.link, pg.h)
<1>1. /\ n \in Layouts /\ pg.link \in Links(n) /\ pg.h \in Header(n)
      /\ Free(pg) = FreeSet(n, pg.link, f)
  BY DEF IsPage, Free
<1>2. /\ f \in FreeSet(n, pg.link, f) /\ f \in Blocks(n)
      /\ r.failed = FALSE
      /\ FreeSet(n, r.link, r.h.first) = FreeSet(n, pg.link, f) \ {f}
      /\ Sound(n, r.link, r.h, L \cup {f})
  BY <1>1, ShiftFacts
<1>3. /\ r.link \in Links(n) /\ r.h \in Header(n)
      /\ r.h.used = pg.h.used + 1
      /\ pg.link[f] = ONE => /\ r.h.first = f + 1
                             /\ f + 1 \in Blocks(n) => r.link[f + 1] \in {NULL, ONE}
      /\ pg.link[f] = NULL => r.h.first = NULL
  BY <1>1, <1>2, ShiftTypes
<1>4. /\ page' = [pg EXCEPT !.link = r.link, !.h = r.h]
      /\ failed' = r.failed
      /\ live' = L \cup ({f} \cap 0 .. (n - 1))
  BY DEF Shift
<1> HIDE DEF r, n
<1>5. page' = [blocks |-> n, link |-> r.link, h |-> r.h]
  BY <1>4 DEF IsPage, n
<1>6. live' = L \cup {f} /\ L \in SUBSET Blocks(n)
  BY <1>2, <1>4 DEF Blocks, n
<1>7. page'.blocks = n /\ page'.link = r.link /\ page'.h = r.h
  BY <1>5
<1>8. IsPage(page')
  BY <1>1, <1>3, <1>5, <1>7 DEF IsPage
<1>9. Free(page') = Blocks(n) \ live'
  BY <1>1, <1>2, <1>6, <1>7 DEF Free, n
<1>10. f \in Blocks(n) \ L
  BY <1>1, <1>2 DEF n
<1>11. Sound(n, page'.link, page'.h, live')
  BY <1>2, <1>6, <1>7
<1>12. live' \subseteq Blocks(n)
  BY <1>2, <1>6
<1> QED BY <1>2, <1>3, <1>4, <1>6, <1>7, <1>8, <1>9, <1>10, <1>11, <1>12 DEF n

\* Sorting the page in place.
LEMMA ResortedFacts ==
    ASSUME NEW pg, IsPage(pg), WellLinked(pg.blocks, pg.link, pg.h)
    PROVE  LET s == Resorted(pg)
           IN  /\ IsPage(s) /\ s.blocks = pg.blocks
               /\ WellLinked(pg.blocks, s.link, s.h)
               /\ Free(s) = Free(pg)
               /\ s.h.used = pg.h.used
               /\ Told(s) = Blocks(pg.blocks) \ Free(pg)
<1> DEFINE n == pg.blocks
           so == Sorted(n, pg.link, pg.h)
           s == Resorted(pg)
<1>1. n \in Layouts /\ pg.link \in Links(n) /\ pg.h \in Header(n)
  BY DEF IsPage
<1>2. /\ so.link \in Links(n) /\ so.header \in Header(n)
      /\ FreeSet(n, so.link, so.header.first) = FreeSet(n, pg.link, pg.h.first)
      /\ Increasing(n, so.link, so.header.first)
      /\ WellLinked(n, so.link, so.header)
      /\ so.header.used = pg.h.used
  BY <1>1, SortTypes, SortFacts
<1>3. s = [blocks |-> n, link |-> so.link, h |-> so.header]
  <2>1. s = [pg EXCEPT !.h = so.header,
                       !.link = [b \in DOMAIN pg.link |-> IF b < n THEN so.link[b]
                                                          ELSE pg.link[b]]]
    BY DEF Resorted
  <2> HIDE DEF s, so
  <2>2. DOMAIN pg.link = Blocks(n) /\ \A b \in Blocks(n) : b < n
    BY <1>1, WordFacts DEF Links
  <2>3. so.link = [b \in Blocks(n) |-> so.link[b]]
    BY <1>2 DEF Links
  <2>4. [b \in DOMAIN pg.link |-> IF b < n THEN so.link[b] ELSE pg.link[b]] = so.link
    <3> HIDE DEF n
    <3> QED BY <2>2, <2>3
  <2> QED BY <2>1, <2>4 DEF IsPage
<1> HIDE DEF s, so
<1>4. s.blocks = n /\ s.link = so.link /\ s.h = so.header
  BY <1>3
<1>5. IsPage(s)
  BY <1>1, <1>2, <1>3, <1>4 DEF IsPage
<1>6. Free(s) = Free(pg)
  BY <1>2, <1>4 DEF Free
<1>7. Told(s) = Blocks(n) \ Free(pg)
  <2>1. Shown(n, so.link, so.header.first) = Blocks(n) \ FreeSet(n, so.link, so.header.first)
    BY <1>1, <1>2, ShownFacts
  <2> QED BY <1>2, <1>4, <2>1 DEF Told, Free
<1> QED BY <1>2, <1>4, <1>5, <1>6, <1>7 DEF s

\* What growing does to a healthy page: the callback is told of the client's blocks
\* even when the list is spoiled.
LEMMA GrownFacts ==
    ASSUME Healthy, have, NEW new \in Nat, new >= page.blocks, NEW moves \in BOOLEAN
    PROVE  LET g == Grown(new, moves)
           IN  /\ g.told \in {live, NULL}
               /\ g.spoils \in BOOLEAN /\ g.failed \in BOOLEAN
               /\ ~g.spoils =>
                     /\ g.failed = FALSE
                     /\ new > page.blocks
                     /\ IsPage(g.page) /\ g.page.blocks = new
                     /\ Sound(new, g.page.link, g.page.h, live)
                     /\ Free(g.page) = Blocks(new) \ live
                     /\ live \subseteq Blocks(new)
                     /\ g.page.h.used = page.h.used
                     /\ g.page.h.first # NULL
<1> DEFINE n == page.blocks
           g == Grown(new, moves)
           b == ba_grow_page(page, new, moves)
<1>1. /\ IsPage(page) /\ n \in Layouts /\ n \in Nat /\ n >= 2
      /\ live \in SUBSET Blocks(n)
      /\ Sound(n, page.link, page.h, live)
      /\ Free(page) = Blocks(n) \ live
  <2>1. IsPage(page) /\ live \in SUBSET Blocks(n)
    BY DEF Healthy, Typed
  <2>2. n \in Layouts
    BY <2>1 DEF IsPage
  <2> QED BY <2>1, <2>2, WordFacts DEF Healthy, Listing
<1>2. CASE new = n
  <2>1. g = [page |-> page, told |-> NULL, spoils |-> TRUE, failed |-> TRUE]
    BY <1>2 DEF Grown
  <2> QED BY <2>1
<1>3. CASE new # n
  <2>1. g = [page |-> b.page, told |-> b.told, spoils |-> Spoils(new, moves), failed |-> FALSE]
    BY <1>3 DEF Grown
  <2>2. new \in Layouts /\ n < new
    BY <1>1, <1>3 DEF Layouts
  <2>3. b.told \in {live, NULL}
    <3>1. WellLinked(n, page.link, page.h)
      BY <1>1 DEF Sound
    <3>2. b.told = IF moves THEN Blocks(n) \ Free(page) ELSE NULL
      BY <1>1, <2>2, <3>1, GrowTold
    <3> HIDE DEF b
    <3> QED BY <1>1, <3>2
  <2>4. Spoils(new, moves) \in BOOLEAN
    BY DEF Spoils
  <2>5. ASSUME ~Spoils(new, moves)
        PROVE  /\ IsPage(b.page) /\ b.page.blocks = new
               /\ Sound(new, b.page.link, b.page.h, live)
               /\ Free(b.page) = Blocks(new) \ live
               /\ live \subseteq Blocks(new)
               /\ b.page.h.used = page.h.used
               /\ b.page.h.first # NULL
    <3>1. /\ new # n + 1
          /\ moves /\ ~page.h.sorted => ~Linked(page) \/ n - 1 \in Listed(page)
      BY <2>5 DEF Spoils
    <3>2. n + 1 < new
      BY <1>1, <2>2, <3>1 DEF Layouts
    <3>3. /\ IsPage(b.page) /\ b.page.blocks = new
          /\ Sound(new, b.page.link, b.page.h, live)
          /\ Free(b.page) = Free(page) \cup (n .. (new - 1))
          /\ b.page.h.used = page.h.used
      <4>1. ASSUME NEW pg, pg = page
            PROVE  LET q == ba_grow_page(pg, new, moves)
                   IN  /\ IsPage(q.page) /\ q.page.blocks = new
                       /\ Sound(new, q.page.link, q.page.h, live)
                       /\ Free(q.page) = Free(pg) \cup (pg.blocks .. (new - 1))
                       /\ q.page.h.used = pg.h.used
        <5>1. /\ IsPage(pg) /\ live \in SUBSET Blocks(pg.blocks)
              /\ Sound(pg.blocks, pg.link, pg.h, live)
              /\ pg.blocks + 1 < new
              /\ moves /\ ~pg.h.sorted => ~Linked(pg) \/ pg.blocks - 1 \in Listed(pg)
          BY <1>1, <3>1, <3>2, <4>1
        <5> HIDE DEF n, g, b
        <5> QED BY <2>2, <5>1, GrowFacts
      <4> QED BY <4>1
    <3> HIDE DEF b
    <3>4. /\ Free(b.page) = Blocks(new) \ live /\ live \subseteq Blocks(new)
          /\ n \in Free(b.page)
      <4>1. /\ Blocks(new) = Blocks(n) \cup (n .. (new - 1))
            /\ Blocks(n) \cap (n .. (new - 1)) = {}
            /\ n \in n .. (new - 1)
        BY <1>1, <2>2 DEF Blocks, Layouts
      <4> QED BY <1>1, <3>3, <4>1
    <3>5. b.page.h.first # NULL
      <4> SUFFICES ASSUME b.page.h.first = NULL PROVE FALSE
        OBVIOUS
      <4>1. FreeSet(new, b.page.link, b.page.h.first) = {}
        BY <2>2, NoFirst, WordFacts
      <4> QED BY <3>3, <3>4, <4>1 DEF Free
    <3> QED BY <3>3, <3>4, <3>5
  <2> HIDE DEF g, b
  <2>6. /\ g.page = b.page /\ g.told = b.told /\ g.failed = FALSE
        /\ g.spoils = Spoils(new, moves)
    BY <2>1
  <2>7. new > n
    BY <1>1, <2>2 DEF Layouts
  <2> QED BY <2>3, <2>4, <2>5, <2>6, <2>7 DEF g
<1> QED BY <1>2, <1>3

----------------------------------------------------------------------------
(* Steps *)

\* A step that leaves a sound page keeps the rest of the invariant.
LEMMA StillHealthy ==
    ASSUME have', IsPage(page'), page'.blocks <= MaxSize,
           live' \subseteq Blocks(page'.blocks),
           Sound(page'.blocks, page'.link, page'.h, live'),
           Free(page') = Blocks(page'.blocks) \ live',
           Types',
           failed' = FALSE,
           ~transformed' => page'.h.used + promised' <= page'.blocks,
           InOrder',
           kind' = "local" => page'.blocks <= AlignedBlocks
    PROVE  Healthy'
<1>1. page'.h.used \in Nat
  <2>1. page'.blocks \in Layouts
    BY DEF IsPage
  <2> QED BY <2>1, Counts DEF Free
<1>2. Typed'
  BY DEF Typed, IsPage
<1>3. Listing'
  BY <1>1 DEF Listing, Free
<1>4. Reserve'
  BY DEF Reserve
<1> QED BY <1>2, <1>3, <1>4 DEF Healthy

\* The same without a page.
LEMMA StillHealthyWithoutPage ==
    ASSUME ~have', IsPage(page'), page'.blocks <= MaxSize, page'.h.first = NULL,
           page'.h.used \in Nat, live' = {},
           Types',
           ~failed' => promised' <= page'.blocks,
           InOrder',
           kind' = "local" => page'.blocks <= AlignedBlocks
    PROVE  Healthy'
<1>1. Typed'
  BY DEF Typed, IsPage
<1>2. Listing'
  BY DEF Listing
<1>3. Reserve'
  BY DEF Reserve
<1> QED BY <1>1, <1>2, <1>3 DEF Healthy

\* What a step may use of a healthy state.
LEMMA HealthyFacts ==
    ASSUME Healthy
    PROVE  /\ IsPage(page)
           /\ page.blocks \in Layouts /\ page.blocks \in Nat
           /\ page.blocks >= 2 /\ page.blocks <= MaxSize
           /\ page.link \in Links(page.blocks) /\ page.h \in Header(page.blocks)
           /\ live \in SUBSET Blocks(page.blocks)
           /\ live \in SUBSET (0 .. MaxSize)
           /\ page.h.used \in Nat
           /\ page.h.first # NULL => have
           /\ have => /\ Sound(page.blocks, page.link, page.h, live)
                      /\ Free(page) = Blocks(page.blocks) \ live
                      /\ page.h.used = Cardinality(live)
                      /\ page.h.used <= page.blocks
                      /\ page.h.first = NULL => page.h.used = page.blocks
                      /\ page.h.first \in Blocks(page.blocks) \cup {NULL}
                      /\ page.h.first # NULL => page.h.first \in Listed(page)
<1> DEFINE n == page.blocks
<1>1. /\ IsPage(page) /\ n \in Layouts /\ n \in Nat /\ n >= 2 /\ n <= MaxSize
      /\ page.link \in Links(n) /\ page.h \in Header(n)
      /\ live \in SUBSET Blocks(n) /\ page.h.used \in Nat
      /\ page.h.first # NULL => have
  BY DEF Healthy, Typed, Listing, IsPage, Layouts
<1>2. live \in SUBSET (0 .. MaxSize)
  BY <1>1, SizeAssumption DEF Blocks
<1>3. ASSUME have
      PROVE  /\ Sound(n, page.link, page.h, live)
             /\ Free(page) = Blocks(n) \ live
             /\ page.h.used = Cardinality(live)
             /\ page.h.used <= n
             /\ page.h.first = NULL => page.h.used = n
             /\ page.h.first \in Blocks(n) \cup {NULL}
             /\ page.h.first # NULL => page.h.first \in Listed(page)
  <2>1. Sound(n, page.link, page.h, live) /\ Free(page) = Blocks(n) \ live
    BY <1>3 DEF Healthy, Listing
  <2>2. FreeSet(n, page.link, page.h.first) = Blocks(n) \ live
    BY <2>1 DEF Free
  <2>3. /\ page.h.used = Cardinality(live) /\ page.h.used <= n
        /\ Cardinality(FreeSet(n, page.link, page.h.first)) = n - page.h.used
    <3> DEFINE hd == page.h
               w == page.link
    <3>1. Sound(n, w, hd, live) /\ FreeSet(n, w, hd.first) = Blocks(n) \ live
      BY <2>1, <2>2
    <3> HIDE DEF n, hd, w
    <3>2. /\ hd.used = Cardinality(live) /\ hd.used <= n
          /\ Cardinality(FreeSet(n, w, hd.first)) = n - hd.used
      BY <1>1, <3>1, Counts
    <3> QED BY <3>2 DEF hd, w
  <2>4. page.h.first = NULL => page.h.used = n
    <3> SUFFICES ASSUME page.h.first = NULL PROVE page.h.used = n
      OBVIOUS
    <3>1. FreeSet(n, page.link, page.h.first) = {}
      BY <1>1, NoFirst, WordFacts
    <3> QED BY <1>1, <2>3, <3>1, FS_EmptySet
  <2>5. page.h.first = NULL \/ (page.h.first \in Blocks(n) /\ page.h.first \in Listed(page))
    <3>1. EndsWell(n, page.link, page.h.first)
      BY <2>1 DEF Sound, WellLinked
    <3> QED BY <1>1, <3>1, FirstFacts DEF Listed
  <2> QED BY <2>1, <2>3, <2>4, <2>5
<1> QED BY <1>1, <1>2, <1>3

LEMMA TypesStep ==
    ASSUME Healthy, told' \in {live, NULL}, have' \in BOOLEAN, transformed' \in BOOLEAN,
           behind' = behind, promised' \in 0 .. MaxSize
    PROVE  Types'
<1>1. live \in SUBSET (0 .. MaxSize)
  BY HealthyFacts
<1>2. told' \in (SUBSET (0 .. MaxSize)) \cup {NULL}
  BY <1>1
<1> QED BY <1>2 DEF Healthy, Typed, Types

LEMMA FulfilFacts ==
    ASSUME promised \in 0 .. MaxSize, Fulfil
    PROVE  promised' \in 0 .. MaxSize /\ (promised' = 0 \/ promised' + 1 = promised)
BY SizeAssumption DEF Fulfil

\* A page that ba_shift has taken a block from.
LEMMA ShiftedCounts ==
    ASSUME IsPage(page'), live' \in SUBSET Blocks(page'.blocks),
           Sound(page'.blocks, page'.link, page'.h, live'),
           Free(page') = Blocks(page'.blocks) \ live'
    PROVE  page'.h.used \in Nat /\ page'.h.used <= page'.blocks
BY Counts DEF IsPage, Free

----------------------------------------------------------------------------
(* ba_local and ba_doubling *)

LEMMA ReleaseStep ==
    ASSUME Frame, Healthy, Release
    PROVE  Healthy' /\ told' = NULL
<1> DEFINE n == page.blocks
           f == page.h.first
<1>1. PICK b \in live :
          /\ live' = live \ {b}
          /\ page' = [page EXCEPT !.link[b] = page.h.first, !.h = Unshifted(@, b)]
  BY DEF Release
<1> DEFINE v == [page.link EXCEPT ![b] = f]
           u == Unshifted(page.h, b)
<1>2. /\ ~failed /\ ~transformed /\ kind # "temporary" /\ told' = NULL
      /\ UNCHANGED <<kind, behind, have, transformed, promised, spoiled, failed>>
  BY DEF Release, Running
<1>3. have
  BY <1>1 DEF Healthy, Listing
<1>4. /\ IsPage(page) /\ n \in Layouts /\ n \in Nat /\ n <= MaxSize
      /\ page.link \in Links(n) /\ page.h \in Header(n)
      /\ live \in SUBSET Blocks(n) /\ page.h.used \in Nat
      /\ Sound(n, page.link, page.h, live) /\ Free(page) = Blocks(n) \ live
      /\ f \in Blocks(n) \cup {NULL}
  BY <1>3, HealthyFacts
<1>5. page' = [blocks |-> n, link |-> v, h |-> u]
  <2>1. page' = [page EXCEPT !.link = v, !.h = u]
    BY <1>1
  <2> HIDE DEF v, u
  <2> QED BY <1>4, <2>1 DEF IsPage
<1>6. /\ FreeSet(n, v, u.first) = FreeSet(n, page.link, f) \cup {b}
      /\ Sound(n, v, u, live \ {b})
  BY <1>4, UnshiftFacts
<1>7. v \in Links(n)
  BY <1>4 DEF Links, Word
<1>8. u \in Header(n) /\ u.used = page.h.used - 1
  BY <1>1, <1>4 DEF Header, Unshifted
<1> HIDE DEF v, u
<1>9. page'.blocks = n /\ page'.link = v /\ page'.h = u
  BY <1>5
<1>10. IsPage(page')
  BY <1>4, <1>5, <1>7, <1>8, <1>9 DEF IsPage
<1>11. Free(page') = Blocks(n) \ live'
  BY <1>1, <1>4, <1>6, <1>9 DEF Free
<1>12. InOrder'
  BY <1>2 DEF InOrder
<1>13. page'.h.used + promised' <= page'.blocks
  BY <1>2, <1>3, <1>4, <1>8, <1>9 DEF Healthy, Reserve, Typed, Types
<1>14. /\ promised \in 0 .. MaxSize
       /\ have \in BOOLEAN /\ transformed \in BOOLEAN /\ failed \in BOOLEAN
       /\ kind = "local" => n <= AlignedBlocks
  BY DEF Healthy, Typed, Types, Frame
<1>15. Sound(page'.blocks, page'.link, page'.h, live')
  BY <1>1, <1>6, <1>9
<1>16. live' = live \ {b} /\ live' \subseteq Blocks(page'.blocks)
  BY <1>1, <1>4, <1>9
<1>17. have' /\ page'.blocks <= MaxSize /\ failed' = FALSE
  BY <1>2, <1>3, <1>4, <1>9, <1>14
<1>18. Types' /\ (kind' = "local" => page'.blocks <= AlignedBlocks)
  BY <1>2, <1>9, <1>14, TypesStep
<1>19. Free(page') = Blocks(page'.blocks) \ live'
  BY <1>9, <1>11
<1> QED BY <1>2, <1>10, <1>12, <1>13, <1>15, <1>16, <1>17, <1>18, <1>19, StillHealthy

----------------------------------------------------------------------------
(* struct ba_local *)

LEMMA LallocFromListStep ==
    ASSUME Frame, Healthy, LallocFromList
    PROVE  Healthy' /\ told' = NULL
<1> DEFINE n == page.blocks
<1>1. /\ ~failed /\ ~transformed /\ kind = "local" /\ page.h.first # NULL
      /\ Shift(page, live) /\ told' = NULL /\ Fulfil
      /\ UNCHANGED <<kind, behind, have, transformed, spoiled>>
  BY DEF LallocFromList, Running
<1>2. /\ have /\ IsPage(page) /\ n \in Nat /\ n <= MaxSize /\ live \in SUBSET Blocks(n)
      /\ Sound(n, page.link, page.h, live) /\ Free(page) = Blocks(n) \ live
      /\ page.h.used \in Nat
  BY <1>1, HealthyFacts
<1>3. /\ IsPage(page') /\ page'.blocks = n /\ failed' = FALSE
      /\ live' \subseteq Blocks(n)
      /\ Sound(page'.blocks, page'.link, page'.h, live')
      /\ Free(page') = Blocks(n) \ live'
      /\ page'.h.used = page.h.used + 1
  BY <1>1, <1>2, ShiftStep
<1>4. promised' \in 0 .. MaxSize /\ (promised' = 0 \/ promised' + 1 = promised)
  BY <1>1, FulfilFacts DEF Healthy, Typed, Types
<1>5. page'.h.used \in Nat /\ page'.h.used <= page'.blocks
  BY <1>3, ShiftedCounts
<1>6. page'.h.used + promised' <= page'.blocks
  <2>1. page.h.used + promised <= n
    BY <1>1, <1>2 DEF Healthy, Reserve
  <2> QED BY <1>2, <1>3, <1>4, <1>5, <2>1
<1>7. InOrder'
  BY <1>1 DEF InOrder
<1>8. Types' /\ (kind' = "local" => page'.blocks <= AlignedBlocks)
  <2>1. have \in BOOLEAN /\ transformed \in BOOLEAN /\ (kind = "local" => n <= AlignedBlocks)
    BY DEF Healthy, Typed, Types
  <2> QED BY <1>1, <1>3, <1>4, <2>1, TypesStep
<1>9. /\ have' /\ page'.blocks <= MaxSize /\ live' \subseteq Blocks(page'.blocks)
      /\ Free(page') = Blocks(page'.blocks) \ live'
  BY <1>1, <1>2, <1>3
<1> QED BY <1>1, <1>3, <1>6, <1>7, <1>8, <1>9, StillHealthy

LEMMA LallocFirstPageStep ==
    ASSUME Frame, Healthy, LallocFirstPage
    PROVE  Healthy' /\ told' = NULL
<1> DEFINE n == page.blocks
           pg == Fresh(n)
<1>1. /\ ~failed /\ ~transformed /\ kind = "local" /\ ~have
      /\ Shift(pg, live) /\ have' = TRUE /\ told' = NULL /\ Fulfil
      /\ UNCHANGED <<kind, behind, transformed, spoiled>>
  BY DEF LallocFirstPage, Running
<1>2. /\ n \in Layouts /\ n \in Nat /\ n <= MaxSize /\ n >= 2 /\ live = {}
      /\ promised <= n
  BY <1>1, HealthyFacts DEF Healthy, Listing, Reserve
<1>3. /\ IsPage(pg) /\ pg.blocks = n /\ Sound(n, pg.link, pg.h, {})
      /\ Free(pg) = Blocks(n) /\ pg.h.first = 0 /\ pg.h.used = 0
  BY <1>2, FreshFacts
<1> HIDE DEF pg
<1>4. /\ IsPage(page') /\ page'.blocks = n /\ failed' = FALSE
      /\ live' \subseteq Blocks(n)
      /\ Sound(page'.blocks, page'.link, page'.h, live')
      /\ Free(page') = Blocks(n) \ live'
      /\ page'.h.used = 1
  <2>1. /\ {} \in SUBSET Blocks(pg.blocks) /\ Sound(pg.blocks, pg.link, pg.h, {})
        /\ Free(pg) = Blocks(pg.blocks) \ {} /\ pg.h.first # NULL /\ Shift(pg, {})
    BY <1>1, <1>2, <1>3, WordFacts
  <2> HIDE DEF n
  <2>2. /\ IsPage(page') /\ page'.blocks = pg.blocks /\ failed' = FALSE
        /\ live' \subseteq Blocks(pg.blocks)
        /\ Sound(page'.blocks, page'.link, page'.h, live')
        /\ Free(page') = Blocks(pg.blocks) \ live'
        /\ page'.h.used = pg.h.used + 1
    BY <1>3, <2>1, ShiftStep
  <2> QED BY <1>3, <2>2
<1>5. promised' \in 0 .. MaxSize /\ (promised' = 0 \/ promised' + 1 = promised)
  BY <1>1, FulfilFacts DEF Healthy, Typed, Types
<1>6. page'.h.used + promised' <= page'.blocks
  BY <1>2, <1>4, <1>5
<1>7. InOrder'
  BY <1>1 DEF InOrder
<1>8. Types' /\ (kind' = "local" => page'.blocks <= AlignedBlocks)
  <2>1. transformed \in BOOLEAN /\ (kind = "local" => n <= AlignedBlocks)
    BY DEF Healthy, Typed, Types
  <2> QED BY <1>1, <1>4, <1>5, <2>1, TypesStep
<1>9. /\ have' /\ page'.blocks <= MaxSize /\ live' \subseteq Blocks(page'.blocks)
      /\ Free(page') = Blocks(page'.blocks) \ live'
  BY <1>1, <1>2, <1>4
<1> QED BY <1>1, <1>4, <1>6, <1>7, <1>8, <1>9, StillHealthy

\* What GrowTo leaves, if it does not spoil the list.
LEMMA GrowToFacts ==
    ASSUME Healthy, have, NEW new \in Nat, new >= page.blocks, NEW moves \in BOOLEAN,
           GrowTo(new, moves)
    PROVE  /\ told' \in {live, NULL} /\ live' = live
           /\ ~spoiled' =>
                 /\ failed' = FALSE
                 /\ IsPage(page') /\ page'.blocks = new
                 /\ Sound(page'.blocks, page'.link, page'.h, live')
                 /\ Free(page') = Blocks(page'.blocks) \ live'
                 /\ live' \subseteq Blocks(page'.blocks)
                 /\ page'.h.used = page.h.used
<1> DEFINE g == Grown(new, moves)
<1>1. /\ page' = g.page /\ failed' = g.failed /\ told' = g.told
      /\ spoiled' = (spoiled \/ g.spoils) /\ live' = live
  BY DEF GrowTo
<1>2. /\ g.told \in {live, NULL}
      /\ ~g.spoils =>
            /\ g.failed = FALSE
            /\ IsPage(g.page) /\ g.page.blocks = new
            /\ Sound(new, g.page.link, g.page.h, live)
            /\ Free(g.page) = Blocks(new) \ live
            /\ live \subseteq Blocks(new)
            /\ g.page.h.used = page.h.used
  BY GrownFacts
<1> HIDE DEF g
<1>3. ASSUME ~spoiled' PROVE ~g.spoils
  BY <1>1, <1>3
<1>4. ASSUME ~spoiled'
      PROVE  /\ failed' = FALSE
             /\ IsPage(page') /\ page'.blocks = new
             /\ Sound(page'.blocks, page'.link, page'.h, live')
             /\ Free(page') = Blocks(page'.blocks) \ live'
             /\ live' \subseteq Blocks(page'.blocks)
             /\ page'.h.used = page.h.used
  <2>1. ~g.spoils
    BY <1>3, <1>4
  <2>2. /\ g.failed = FALSE
        /\ IsPage(g.page) /\ g.page.blocks = new
        /\ Sound(new, g.page.link, g.page.h, live)
        /\ Free(g.page) = Blocks(new) \ live
        /\ live \subseteq Blocks(new)
        /\ g.page.h.used = page.h.used
    BY <1>2, <2>1
  <2> DEFINE gp == g.page
  <2> HIDE DEF gp
  <2>3. page' = gp /\ live' = live /\ failed' = FALSE
    BY <1>1, <2>2 DEF gp
  <2>4. /\ IsPage(gp) /\ gp.blocks = new
        /\ Sound(new, gp.link, gp.h, live)
        /\ Free(gp) = Blocks(new) \ live
        /\ live \subseteq Blocks(new)
        /\ gp.h.used = page.h.used
    BY <2>2 DEF gp
  <2> QED BY <2>3, <2>4
<1> QED BY <1>1, <1>2, <1>4

LEMMA LallocGrowsStep ==
    ASSUME Frame, Healthy, LallocGrows
    PROVE  /\ told' \in {live, NULL}
           /\ ~spoiled' => Healthy'
<1> DEFINE n == page.blocks
           new == Size(2 * n)
<1>1. /\ ~failed /\ ~transformed /\ kind = "local" /\ page.h.first = NULL /\ have
      /\ transformed' = (2 * n >= MaxBlocks) /\ Fulfil
      /\ UNCHANGED <<kind, behind, have>>
  BY DEF LallocGrows, Running
<1>2. PICK moves \in BOOLEAN :
          LET g == Grown(new, moves)
          IN  /\ IF g.failed THEN failed' = TRUE /\ UNCHANGED <<page, live>>
                             ELSE Shift(g.page, live)
              /\ told' = g.told
              /\ spoiled' = (spoiled \/ g.spoils)
  BY DEF LallocGrows
<1> DEFINE g == Grown(new, moves)
           pg == g.page
<1>3. /\ n \in Layouts /\ n \in Nat /\ n >= 2 /\ n <= MaxSize
      /\ page.h.used = n /\ n <= AlignedBlocks
  BY <1>1, HealthyFacts DEF Healthy
<1>4. new \in Nat /\ new >= n /\ new <= AlignedBlocks
  <2>1. 2 * n \in Nat /\ 2 * n >= n
    BY <1>3
  <2> QED BY <1>3, <2>1, SizeFacts, SizeAssumption
<1> HIDE DEF new
<1>5. /\ g.told \in {live, NULL}
      /\ ~g.spoils =>
            /\ g.failed = FALSE
            /\ IsPage(pg) /\ pg.blocks = new
            /\ Sound(new, pg.link, pg.h, live)
            /\ Free(pg) = Blocks(new) \ live
            /\ live \subseteq Blocks(new)
            /\ pg.h.first # NULL
  BY <1>1, <1>3, <1>4, GrownFacts
<1> HIDE DEF g, pg
<1>6. /\ IF g.failed THEN failed' = TRUE /\ UNCHANGED <<page, live>> ELSE Shift(pg, live)
      /\ told' = g.told
      /\ spoiled' = (spoiled \/ g.spoils)
  BY <1>2 DEF g, pg
<1>7. told' \in {live, NULL}
  BY <1>5, <1>6
<1>8. ASSUME ~spoiled' PROVE Healthy'
  <2>1. ~g.spoils
    BY <1>6, <1>8
  <2>2. /\ IsPage(pg) /\ pg.blocks = new /\ pg.h.first # NULL
        /\ live \in SUBSET Blocks(pg.blocks)
        /\ Sound(pg.blocks, pg.link, pg.h, live)
        /\ Free(pg) = Blocks(pg.blocks) \ live
        /\ Shift(pg, live)
    BY <1>5, <1>6, <2>1
  <2>3. /\ IsPage(page') /\ page'.blocks = pg.blocks /\ failed' = FALSE
        /\ live' \subseteq Blocks(pg.blocks)
        /\ Sound(page'.blocks, page'.link, page'.h, live')
        /\ Free(page') = Blocks(pg.blocks) \ live'
    BY <2>2, ShiftStep
  <2>4. page'.h.used \in Nat /\ page'.h.used <= page'.blocks
    BY <2>3, ShiftedCounts
  <2>5. promised \in 0 .. MaxSize /\ promised = 0
    BY <1>1, <1>3 DEF Healthy, Reserve, Typed, Types
  <2>6. promised' = 0
    BY <1>1, <2>5 DEF Fulfil
  <2>7. InOrder'
    BY <1>1 DEF InOrder
  <2>8. have' \in BOOLEAN /\ transformed' \in BOOLEAN
    BY <1>1 DEF Healthy, Typed, Types
  <2>9. Types'
    BY <1>1, <1>7, <2>5, <2>6, <2>8, TypesStep
  <2>10. /\ have' /\ page'.blocks <= MaxSize /\ live' \subseteq Blocks(page'.blocks)
         /\ Free(page') = Blocks(page'.blocks) \ live'
         /\ kind' = "local" => page'.blocks <= AlignedBlocks
         /\ page'.h.used + promised' <= page'.blocks
    BY <1>1, <1>4, <2>2, <2>3, <2>4, <2>6, SizeAssumption
  <2> QED BY <2>3, <2>7, <2>9, <2>10, StillHealthy
<1> QED BY <1>7, <1>8

LEMMA LwalkStep ==
    ASSUME Frame, Healthy, Lwalk
    PROVE  /\ told' = NULL
           /\ ~spoiled' => Healthy'
<1> DEFINE n == page.blocks
           r == Resorted(page)
<1>1. /\ ~failed /\ ~transformed /\ kind = "local" /\ have
      /\ page' = r
      /\ spoiled' = (spoiled \/ (r # page /\ r.link[n - 1] = ONE))
      /\ told' = NULL
      /\ UNCHANGED <<kind, behind, have, transformed, live, promised, failed>>
  BY DEF Lwalk, Running
<1>2. /\ IsPage(page) /\ n \in Nat /\ n <= MaxSize /\ live \in SUBSET Blocks(n)
      /\ Sound(n, page.link, page.h, live) /\ Free(page) = Blocks(n) \ live
      /\ WellLinked(n, page.link, page.h)
  BY <1>1, HealthyFacts DEF Sound
<1>3. /\ IsPage(r) /\ r.blocks = n /\ WellLinked(n, r.link, r.h)
      /\ Free(r) = Free(page) /\ r.h.used = page.h.used
  BY <1>2, ResortedFacts
<1> HIDE DEF r
<1>4. ASSUME ~spoiled' PROVE Healthy'
  <2>1. r = page \/ r.link[n - 1] # ONE
    BY <1>1, <1>4
  <2>2. Sound(n, r.link, r.h, live)
    <3>1. CASE r = page
      BY <1>2, <3>1
    <3>2. CASE r.link[n - 1] # ONE
      BY <1>2, <1>3, <3>2 DEF Sound, Free
    <3> QED BY <2>1, <3>1, <3>2
  <2>3. /\ promised \in 0 .. MaxSize /\ have \in BOOLEAN /\ transformed \in BOOLEAN
        /\ failed \in BOOLEAN /\ n <= AlignedBlocks
        /\ page.h.used + promised <= n
    BY <1>1 DEF Healthy, Typed, Types, Frame, Reserve
  <2>4. Types'
    BY <1>1, <2>3, TypesStep
  <2>5. InOrder'
    BY <1>1 DEF InOrder
  <2>6. /\ IsPage(page') /\ page'.blocks = n /\ page'.link = r.link /\ page'.h = r.h
        /\ Free(page') = Blocks(page'.blocks) \ live' /\ live' = live
    BY <1>1, <1>2, <1>3
  <2>7. /\ live' \subseteq Blocks(page'.blocks)
        /\ Sound(page'.blocks, page'.link, page'.h, live')
        /\ page'.blocks <= MaxSize
    BY <1>2, <2>2, <2>6
  <2>8. page'.h.used + promised' <= page'.blocks
    BY <1>1, <1>3, <2>3, <2>6
  <2>9. /\ kind' = "local" => page'.blocks <= AlignedBlocks
        /\ have' /\ failed' = FALSE
    <3>1. have' = have /\ failed' = failed /\ kind' = kind
      BY <1>1
    <3>2. n <= AlignedBlocks /\ failed = FALSE
      BY <1>1, <2>3
    <3> QED BY <1>1, <2>6, <3>1, <3>2
  <2> QED BY <2>4, <2>5, <2>6, <2>7, <2>8, <2>9, StillHealthy
<1> QED BY <1>1, <1>4

LEMMA LreserveStep ==
    ASSUME Frame, Healthy, Lreserve
    PROVE  /\ told' \in {live, NULL}
           /\ ~spoiled' => Healthy'
<1> DEFINE b == page.blocks
<1>1. PICK n \in 1 .. MaxSize, moves \in BOOLEAN :
        LET wanted == Doubled(page.h.used + n)
        IN  /\ IF page.blocks >= page.h.used + n
               THEN /\ told' = NULL
                    /\ UNCHANGED <<page, live, spoiled, transformed, failed>>
               ELSE IF have
               THEN /\ GrowTo(Size(wanted), moves)
                    /\ transformed' = (wanted >= MaxBlocks)
               ELSE /\ failed' = TRUE
                    /\ told' = NULL
                    /\ UNCHANGED <<page, live, spoiled, transformed>>
            /\ promised' = n
  BY DEF Lreserve
<1> DEFINE all == page.h.used + n
           wanted == Doubled(all)
           new == Size(wanted)
<1>2. /\ ~failed /\ ~transformed /\ kind = "local"
      /\ UNCHANGED <<kind, behind, have>>
  BY DEF Lreserve, Running
<1>3. /\ n \in Nat /\ n >= 1 /\ n <= MaxSize /\ promised' = n /\ promised' \in 0 .. MaxSize
  BY <1>1, SizeAssumption
<1>4. /\ IsPage(page) /\ b \in Layouts /\ b \in Nat /\ b <= MaxSize /\ b <= AlignedBlocks
      /\ live \in SUBSET Blocks(b)
      /\ page.h.used \in Nat
      /\ page.h.first # NULL => have
      /\ have => Sound(b, page.link, page.h, live) /\ Free(page) = Blocks(b) \ live
  BY <1>2, HealthyFacts DEF Healthy
<1>5. all \in Nat /\ all >= n
  BY <1>3, <1>4
<1>6. /\ have \in BOOLEAN /\ transformed \in BOOLEAN /\ failed \in BOOLEAN
      /\ ~have => page.h.first = NULL /\ live = {}
  BY DEF Healthy, Typed, Types, Frame, Listing
<1>7. InOrder'
  BY <1>2 DEF InOrder
<1>8. CASE b >= all
  <2>1. told' = NULL /\ UNCHANGED <<page, live, spoiled, transformed, failed>>
    BY <1>1, <1>8
  <2>2. Types'
    BY <1>2, <1>3, <1>6, <2>1, TypesStep
  <2>3. /\ page' = page /\ live' = live /\ failed' = FALSE /\ kind' = kind /\ have' = have
    BY <1>2, <1>6, <2>1
  <2>4. CASE have
    <3>1. /\ have' /\ IsPage(page') /\ page'.blocks <= MaxSize
          /\ live' \subseteq Blocks(page'.blocks)
          /\ Sound(page'.blocks, page'.link, page'.h, live')
          /\ Free(page') = Blocks(page'.blocks) \ live'
          /\ kind' = "local" => page'.blocks <= AlignedBlocks
      BY <1>4, <2>3, <2>4
    <3>2. page'.h.used + promised' <= page'.blocks
      BY <1>3, <1>8, <2>3
    <3> QED BY <1>7, <2>1, <2>2, <2>3, <3>1, <3>2, StillHealthy
  <2>5. CASE ~have
    <3>1. /\ ~have' /\ IsPage(page') /\ page'.blocks <= MaxSize
          /\ page'.h.first = NULL /\ live' = {}
          /\ page'.h.used \in Nat
          /\ kind' = "local" => page'.blocks <= AlignedBlocks
      BY <1>4, <1>6, <2>3, <2>5
    <3>2. promised' <= page'.blocks
      BY <1>3, <1>4, <1>5, <1>8, <2>3
    <3> QED BY <1>7, <2>1, <2>2, <2>3, <3>1, <3>2, StillHealthyWithoutPage
  <2> QED BY <2>1, <2>4, <2>5
<1>9. CASE ~(b >= all) /\ have
  <2>1. GrowTo(new, moves) /\ transformed' = (wanted >= MaxBlocks)
    BY <1>1, <1>9
  <2>2. wanted \in Nat /\ wanted >= all
    BY <1>4, <1>5, <1>9, DoubledFacts
  <2> HIDE DEF wanted
  <2>3. /\ new \in Nat /\ new <= AlignedBlocks /\ new >= b
        /\ wanted < MaxBlocks => new = wanted
    <3>1. /\ Size(wanted) \in Nat /\ Size(wanted) <= AlignedBlocks
          /\ wanted < MaxBlocks => Size(wanted) = wanted
          /\ ~(wanted < MaxBlocks) => Size(wanted) = AlignedBlocks
      BY <2>2, SizeFacts
    <3> QED BY <1>4, <1>5, <1>9, <2>2, <3>1
  <2> HIDE DEF new, all
  <2>4. /\ told' \in {live, NULL} /\ live' = live
        /\ ~spoiled' =>
              /\ failed' = FALSE
              /\ IsPage(page') /\ page'.blocks = new
              /\ Sound(page'.blocks, page'.link, page'.h, live')
              /\ Free(page') = Blocks(page'.blocks) \ live'
              /\ live' \subseteq Blocks(page'.blocks)
              /\ page'.h.used = page.h.used
    BY <1>9, <2>1, <2>3, GrowToFacts
  <2>5. ASSUME ~spoiled' PROVE Healthy'
    <3>1. Types'
      BY <1>2, <1>3, <1>6, <2>1, <2>4, TypesStep
    <3>2. ~transformed' => page'.h.used + promised' <= page'.blocks
      <4>1. all = page.h.used + n
        BY DEF all
      <4>2. ~transformed' => wanted < MaxBlocks
        <5>1. ~transformed' => ~(wanted >= MaxBlocks)
          BY <2>1
        <5> QED BY <2>2, <5>1, SizeAssumption
      <4>3. page'.h.used = page.h.used /\ page'.blocks = new
        BY <2>4, <2>5
      <4> QED BY <1>3, <1>4, <2>2, <2>3, <4>1, <4>2, <4>3
    <3>3. /\ have' /\ page'.blocks <= MaxSize
          /\ kind' = "local" => page'.blocks <= AlignedBlocks
      BY <1>2, <1>9, <2>3, <2>4, <2>5, SizeAssumption
    <3> QED BY <1>7, <2>4, <2>5, <3>1, <3>2, <3>3, StillHealthy
  <2> QED BY <2>4, <2>5
<1>10. CASE ~(b >= all) /\ ~have
  <2>1. failed' = TRUE /\ told' = NULL /\ UNCHANGED <<page, live, spoiled, transformed>>
    BY <1>1, <1>10
  <2>2. Types'
    BY <1>2, <1>3, <1>6, <2>1, TypesStep
  <2>3. /\ ~have' /\ IsPage(page') /\ page'.blocks <= MaxSize
        /\ page'.h.first = NULL /\ live' = {}
        /\ page'.h.used \in Nat
        /\ kind' = "local" => page'.blocks <= AlignedBlocks
    BY <1>2, <1>4, <1>6, <1>10, <2>1
  <2> QED BY <1>7, <2>1, <2>2, <2>3, StillHealthyWithoutPage
<1> QED BY <1>8, <1>9, <1>10

LEMMA LfreeAllStep ==
    ASSUME Frame, Healthy, LfreeAll
    PROVE  Healthy' /\ told' = NULL
<1> DEFINE n == page.blocks
           pg == Fresh(n)
<1>1. /\ ~failed /\ ~transformed /\ kind = "local"
      /\ IF have THEN page' = pg /\ UNCHANGED failed ELSE failed' = TRUE /\ UNCHANGED page
      /\ live' = {} /\ told' = NULL
      /\ UNCHANGED <<kind, behind, have, transformed, promised, spoiled>>
  BY DEF LfreeAll, Running
<1>2. /\ IsPage(page) /\ n \in Layouts /\ n \in Nat /\ n <= MaxSize /\ n <= AlignedBlocks
      /\ page.h.used \in Nat /\ (page.h.first # NULL => have)
  BY <1>1, HealthyFacts DEF Healthy
<1>3. /\ promised \in 0 .. MaxSize /\ have \in BOOLEAN /\ transformed \in BOOLEAN
      /\ failed \in BOOLEAN
      /\ have => page.h.used + promised <= n
  BY <1>1 DEF Healthy, Typed, Types, Frame, Reserve
<1>4. Types'
  BY <1>1, <1>3, TypesStep
<1>5. InOrder'
  BY <1>1 DEF InOrder
<1>6. CASE have
  <2>1. /\ IsPage(pg) /\ pg.blocks = n /\ Sound(n, pg.link, pg.h, {})
        /\ Free(pg) = Blocks(n) /\ pg.h.used = 0
    BY <1>2, FreshFacts
  <2> HIDE DEF pg
  <2>2. page' = pg /\ failed' = FALSE /\ have' /\ kind' = kind
    BY <1>1, <1>3, <1>6
  <2>3. /\ IsPage(page') /\ page'.blocks <= MaxSize
        /\ live' \subseteq Blocks(page'.blocks)
        /\ Sound(page'.blocks, page'.link, page'.h, live')
        /\ Free(page') = Blocks(page'.blocks) \ live'
        /\ kind' = "local" => page'.blocks <= AlignedBlocks
    BY <1>1, <1>2, <2>1, <2>2
  <2>4. page'.h.used + promised' <= page'.blocks
    BY <1>1, <1>2, <1>3, <1>6, <2>1, <2>2
  <2> QED BY <1>1, <1>4, <1>5, <2>2, <2>3, <2>4, StillHealthy
<1>7. CASE ~have
  <2>1. failed' = TRUE /\ page' = page /\ ~have' /\ kind' = kind
    BY <1>1, <1>7
  <2>2. /\ IsPage(page') /\ page'.blocks <= MaxSize
        /\ page'.h.first = NULL /\ live' = {}
        /\ page'.h.used \in Nat
        /\ kind' = "local" => page'.blocks <= AlignedBlocks
    BY <1>1, <1>2, <1>7, <2>1
  <2> QED BY <1>1, <1>4, <1>5, <2>1, <2>2, StillHealthyWithoutPage
<1> QED BY <1>6, <1>7

LEMMA LdestroyStep ==
    ASSUME Frame, Healthy, Ldestroy
    PROVE  Healthy' /\ told' = NULL
<1> DEFINE n == page.blocks
           pg == NoPage(n, page.h.used)
<1>1. /\ kind = "local" /\ page' = pg /\ have' = FALSE /\ transformed' = FALSE
      /\ live' = {} /\ promised' = 0 /\ told' = NULL
      /\ UNCHANGED <<kind, behind, spoiled, failed>>
  BY DEF Ldestroy
<1>2. n \in Layouts /\ n \in Nat /\ n <= MaxSize /\ n <= AlignedBlocks /\ page.h.used \in Nat
  BY <1>1, HealthyFacts DEF Healthy
<1>3. IsPage(pg) /\ pg.blocks = n /\ pg.h.first = NULL /\ pg.h.used = page.h.used
  BY <1>2, NoPageFacts
<1> HIDE DEF pg
<1>4. Types'
  <2>1. have' \in BOOLEAN /\ transformed' \in BOOLEAN
    BY <1>1
  <2>2. promised' \in 0 .. MaxSize
    BY <1>1, SizeAssumption
  <2> QED BY <1>1, <2>1, <2>2, TypesStep
<1>5. InOrder'
  BY <1>1 DEF InOrder
<1>6. /\ ~have' /\ IsPage(page') /\ page'.blocks <= MaxSize
      /\ page'.h.first = NULL /\ page'.h.used \in Nat /\ promised' <= page'.blocks
      /\ kind' = "local" => page'.blocks <= AlignedBlocks
  BY <1>1, <1>2, <1>3
<1> QED BY <1>1, <1>4, <1>5, <1>6, StillHealthyWithoutPage

----------------------------------------------------------------------------
(* struct ba_doubling *)

LEMMA DreserveStep ==
    ASSUME Frame, Healthy, Dreserve
    PROVE  /\ told' \in {live, NULL}
           /\ ~spoiled' => Healthy'
<1> DEFINE b == page.blocks
<1>1. PICK n \in 1 .. MaxSize, moves \in BOOLEAN :
        /\ RoundedUp(page.h.used + n) <= MaxSize
        /\ IF page.blocks >= page.h.used + n
           THEN told' = NULL /\ UNCHANGED <<page, live, spoiled, failed>>
           ELSE GrowTo(RoundedUp(page.h.used + n), moves)
        /\ promised' = n
  BY DEF Dreserve
<1> DEFINE all == page.h.used + n
           new == RoundedUp(all)
<1>2. /\ ~failed /\ ~transformed /\ kind = "doubling"
      /\ UNCHANGED <<kind, behind, have, transformed>>
  BY DEF Dreserve, Running
<1>3. have /\ failed \in BOOLEAN
  BY <1>2 DEF Frame
<1>4. /\ n \in Nat /\ n >= 1 /\ promised' = n /\ promised' \in 0 .. MaxSize
  BY <1>1, SizeAssumption
<1>5. /\ IsPage(page) /\ b \in Nat /\ b <= MaxSize
      /\ live \in SUBSET Blocks(b)
      /\ page.h.used \in Nat
      /\ Sound(b, page.link, page.h, live) /\ Free(page) = Blocks(b) \ live
  BY <1>3, HealthyFacts
<1>6. have \in BOOLEAN /\ transformed \in BOOLEAN
  BY DEF Healthy, Typed, Types
<1>7. InOrder' /\ (kind' = "local" => page'.blocks <= AlignedBlocks)
  BY <1>2 DEF InOrder
<1>8. CASE b >= all
  <2>1. told' = NULL /\ UNCHANGED <<page, live, spoiled, failed>>
    BY <1>1, <1>8
  <2>2. Types'
    BY <1>2, <1>4, <1>6, <2>1, TypesStep
  <2>3. page' = page /\ live' = live /\ failed' = FALSE /\ have'
    BY <1>2, <1>3, <2>1
  <2>4. /\ IsPage(page') /\ page'.blocks <= MaxSize
        /\ live' \subseteq Blocks(page'.blocks)
        /\ Sound(page'.blocks, page'.link, page'.h, live')
        /\ Free(page') = Blocks(page'.blocks) \ live'
    BY <1>5, <2>3
  <2>5. page'.h.used + promised' <= page'.blocks
    BY <1>4, <1>8, <2>3
  <2> QED BY <1>7, <2>1, <2>2, <2>3, <2>4, <2>5, StillHealthy
<1>9. CASE ~(b >= all)
  <2>1. GrowTo(new, moves) /\ new <= MaxSize
    BY <1>1, <1>9
  <2>2. all \in Nat /\ all >= 1 /\ all > b
    BY <1>4, <1>5, <1>9
  <2>3. new \in Nat /\ new > all
    BY <2>2, RoundedUpFacts
  <2> HIDE DEF new
  <2>4. new >= b
    BY <1>5, <2>2, <2>3
  <2> HIDE DEF all
  <2>5. /\ told' \in {live, NULL} /\ live' = live
        /\ ~spoiled' =>
              /\ failed' = FALSE
              /\ IsPage(page') /\ page'.blocks = new
              /\ Sound(page'.blocks, page'.link, page'.h, live')
              /\ Free(page') = Blocks(page'.blocks) \ live'
              /\ live' \subseteq Blocks(page'.blocks)
              /\ page'.h.used = page.h.used
    BY <1>3, <2>1, <2>3, <2>4, GrowToFacts
  <2>6. ASSUME ~spoiled' PROVE Healthy'
    <3>1. Types'
      BY <1>2, <1>4, <1>6, <2>5, TypesStep
    <3>2. page'.h.used + promised' <= page'.blocks
      <4>1. all = page.h.used + n
        BY DEF all
      <4>2. page'.h.used = page.h.used /\ page'.blocks = new
        BY <2>5, <2>6
      <4> QED BY <1>4, <1>5, <2>2, <2>3, <4>1, <4>2
    <3>3. have' /\ page'.blocks <= MaxSize
      BY <1>2, <1>3, <2>1, <2>5, <2>6
    <3> QED BY <1>7, <2>5, <2>6, <3>1, <3>2, <3>3, StillHealthy
  <2> QED BY <2>5, <2>6
<1> QED BY <1>8, <1>9

LEMMA DallocStep ==
    ASSUME Frame, Healthy, Dalloc
    PROVE  Healthy' /\ told' = NULL
<1> DEFINE n == page.blocks
<1>1. /\ ~failed /\ ~transformed /\ kind = "doubling" /\ Cardinality(live) < n
      /\ Shift(page, live) /\ told' = NULL /\ Fulfil
      /\ UNCHANGED <<kind, behind, have, transformed, spoiled>>
  BY DEF Dalloc, Running
<1>2. have
  BY <1>1 DEF Frame
<1>3. /\ IsPage(page) /\ n \in Nat /\ n <= MaxSize /\ live \in SUBSET Blocks(n)
      /\ Sound(n, page.link, page.h, live) /\ Free(page) = Blocks(n) \ live
      /\ page.h.used \in Nat /\ page.h.used = Cardinality(live)
      /\ page.h.first = NULL => page.h.used = n
  BY <1>2, HealthyFacts
<1>4. page.h.first # NULL
  BY <1>1, <1>3
<1>5. /\ IsPage(page') /\ page'.blocks = n /\ failed' = FALSE
      /\ live' \subseteq Blocks(n)
      /\ Sound(page'.blocks, page'.link, page'.h, live')
      /\ Free(page') = Blocks(n) \ live'
      /\ page'.h.used = page.h.used + 1
  BY <1>1, <1>3, <1>4, ShiftStep
<1>6. promised' \in 0 .. MaxSize /\ (promised' = 0 \/ promised' + 1 = promised)
  BY <1>1, FulfilFacts DEF Healthy, Typed, Types
<1>7. page'.h.used \in Nat /\ page'.h.used <= page'.blocks
  BY <1>5, ShiftedCounts
<1>8. page'.h.used + promised' <= page'.blocks
  <2>1. page.h.used + promised <= n
    BY <1>1, <1>2 DEF Healthy, Reserve
  <2> QED BY <1>3, <1>5, <1>6, <1>7, <2>1
<1>9. InOrder' /\ (kind' = "local" => page'.blocks <= AlignedBlocks)
  BY <1>1 DEF InOrder
<1>10. Types'
  <2>1. have \in BOOLEAN /\ transformed \in BOOLEAN
    BY DEF Healthy, Typed, Types
  <2> QED BY <1>1, <1>6, <2>1, TypesStep
<1>11. /\ have' /\ page'.blocks <= MaxSize /\ live' \subseteq Blocks(page'.blocks)
       /\ Free(page') = Blocks(page'.blocks) \ live'
  BY <1>1, <1>2, <1>3, <1>5
<1> QED BY <1>1, <1>5, <1>8, <1>9, <1>10, <1>11, StillHealthy

\* The page a ba_doubling starts with.
LEMMA InitDoublingFacts == \E n \in Layouts : n <= MaxSize /\ InitDoubling = Fresh(n)
<1> DEFINE n == IF \E k \in 1 .. InitBlocks : InitBlocks = Pow2[k]
                THEN InitBlocks ELSE RoundedUp(InitBlocks)
<1>1. InitDoubling = Fresh(n)
  BY DEF InitDoubling
<1>2. /\ RoundedUp(InitBlocks) \in Nat /\ RoundedUp(InitBlocks) > InitBlocks
      /\ RoundedUp(InitBlocks) <= 2 * InitBlocks
  BY SizeAssumption, RoundedUpFacts
<1>3. InitBlocks \in Layouts /\ InitBlocks <= MaxSize
  BY SizeAssumption DEF Layouts
<1>4. RoundedUp(InitBlocks) \in Layouts /\ RoundedUp(InitBlocks) <= MaxSize
  BY <1>2, SizeAssumption DEF Layouts
<1>5. n \in Layouts /\ n <= MaxSize
  BY <1>3, <1>4
<1> QED BY <1>1, <1>5

\* Whatever the page was, a new ba_doubling is healthy.
LEMMA DrenewStep ==
    ASSUME Frame, Drenew
    PROVE  Healthy' /\ told' = NULL
<1>1. /\ ~failed /\ ~transformed /\ kind = "doubling"
      /\ page' = InitDoubling /\ live' = {} /\ promised' = 0 /\ told' = NULL
      /\ UNCHANGED <<kind, behind, have, transformed, failed>>
  BY DEF Drenew, Running
<1>2. have /\ behind = <<>> /\ failed \in BOOLEAN
  BY <1>1 DEF Frame
<1>3. PICK n \in Layouts : n <= MaxSize /\ InitDoubling = Fresh(n)
  BY InitDoublingFacts
<1> DEFINE pg == Fresh(n)
<1>4. /\ IsPage(pg) /\ pg.blocks = n /\ Sound(n, pg.link, pg.h, {})
      /\ Free(pg) = Blocks(n) /\ pg.h.used = 0
  BY FreshFacts
<1> HIDE DEF pg
<1>5. page' = pg /\ n \in Nat
  BY <1>1, <1>3, WordFacts DEF pg
<1>6. have' /\ have' \in BOOLEAN /\ transformed' \in BOOLEAN /\ failed' = FALSE
  <2>1. have \in BOOLEAN /\ transformed \in BOOLEAN
    BY DEF Frame
  <2>2. have' = have /\ transformed' = transformed /\ failed' = failed
    BY <1>1
  <2> QED BY <1>1, <1>2, <2>1, <2>2
<1>7. Types'
  <2>1. behind' \in Seq(SUBSET (0 .. (MaxSize - 1)))
    BY <1>1, <1>2
  <2>2. promised' \in 0 .. MaxSize
    BY <1>1, SizeAssumption
  <2>3. told' \in (SUBSET (0 .. MaxSize)) \cup {NULL}
    BY <1>1
  <2> QED BY <1>6, <2>1, <2>2, <2>3 DEF Types
<1>8. InOrder' /\ (kind' = "local" => page'.blocks <= AlignedBlocks)
  BY <1>1 DEF InOrder
<1>9. /\ IsPage(page') /\ page'.blocks <= MaxSize
      /\ live' \subseteq Blocks(page'.blocks)
      /\ Sound(page'.blocks, page'.link, page'.h, live')
      /\ Free(page') = Blocks(page'.blocks) \ live'
      /\ page'.h.used + promised' <= page'.blocks
  BY <1>1, <1>3, <1>4, <1>5
<1> QED BY <1>1, <1>6, <1>7, <1>8, <1>9, StillHealthy

----------------------------------------------------------------------------
(* struct ba_temporary *)

LEMMA TallocStep ==
    ASSUME Frame, Healthy, Talloc
    PROVE  Healthy' /\ told' = NULL
<1> DEFINE n == page.blocks
           f == page.h.first
<1>1. /\ ~failed /\ ~transformed /\ kind = "temporary"
      /\ UNCHANGED <<kind, transformed, promised, told, spoiled>>
      /\ IF f # NULL
         THEN Shift(page, live) /\ UNCHANGED <<have, behind>>
         ELSE /\ Len(behind) < MaxBehind
              /\ Shift(Fresh(page.blocks), {})
              /\ have' = TRUE
              /\ behind' = IF have THEN Append(behind, live) ELSE behind
  BY DEF Talloc, Running
<1>2. told' = NULL /\ kind' = "temporary"
  BY <1>1 DEF Frame
<1>3. /\ IsPage(page) /\ n \in Layouts /\ n \in Nat /\ n >= 2 /\ n <= MaxSize
      /\ live \in SUBSET Blocks(n)
      /\ page.h.used \in Nat
      /\ f # NULL => have
      /\ have => /\ Sound(n, page.link, page.h, live)
                 /\ Free(page) = Blocks(n) \ live
                 /\ page.h.used <= n
                 /\ f \in Blocks(n) \cup {NULL}
                 /\ f # NULL => f \in Listed(page)
  BY HealthyFacts
<1>4. /\ promised = 0 /\ promised' = 0
      /\ have => live = IF f = NULL THEN Blocks(n) ELSE 0 .. (f - 1)
      /\ f # NULL => page.link[f] \in {ONE, NULL}
      /\ \A i \in DOMAIN behind : behind[i] = Blocks(n)
  BY <1>1 DEF Healthy, InOrder, TemporaryShown, BehindShown, Blocks
<1>5. /\ behind \in Seq(SUBSET (0 .. (MaxSize - 1)))
      /\ transformed \in BOOLEAN /\ transformed' \in BOOLEAN
  BY <1>1 DEF Healthy, Typed, Types
<1>6. ASSUME have', behind' \in Seq(SUBSET (0 .. (MaxSize - 1))),
             IsPage(page'), page'.blocks = n, failed' = FALSE,
             live' \subseteq Blocks(n),
             Sound(page'.blocks, page'.link, page'.h, live'),
             Free(page') = Blocks(n) \ live',
             live' = IF page'.h.first = NULL THEN Blocks(n) ELSE 0 .. (page'.h.first - 1),
             page'.h.first # NULL => page'.link[page'.h.first] \in {ONE, NULL},
             \A i \in DOMAIN behind' : behind'[i] = Blocks(n),
             have' \in BOOLEAN
      PROVE  Healthy'
  <2>1. Types'
    <3>1. promised' \in 0 .. MaxSize
      BY <1>4, SizeAssumption
    <3>2. told' \in (SUBSET (0 .. MaxSize)) \cup {NULL}
      BY <1>2
    <3> QED BY <1>5, <1>6, <3>1, <3>2 DEF Types
  <2>2. InOrder'
    <3>1. TemporaryShown' = live'
      BY <1>6 DEF TemporaryShown, Blocks
    <3>2. \A i \in DOMAIN behind' : behind'[i] = BehindShown'
      BY <1>6 DEF BehindShown, Blocks
    <3> QED BY <1>4, <1>6, <3>1, <3>2 DEF InOrder
  <2>3. page'.h.used \in Nat /\ page'.h.used <= page'.blocks
    BY <1>6, ShiftedCounts
  <2>4. page'.h.used + promised' <= page'.blocks
    BY <1>3, <1>4, <1>6, <2>3
  <2>5. /\ page'.blocks <= MaxSize /\ live' \subseteq Blocks(page'.blocks)
        /\ Free(page') = Blocks(page'.blocks) \ live'
        /\ kind' = "local" => page'.blocks <= AlignedBlocks
    BY <1>2, <1>3, <1>6
  <2> QED BY <1>6, <2>1, <2>2, <2>4, <2>5, StillHealthy
<1>7. CASE f # NULL
  <2>1. Shift(page, live) /\ have' = have /\ behind' = behind /\ have
    BY <1>1, <1>3, <1>7
  <2>2. f \in Blocks(n) /\ f \in Chain(n, page.link, f) /\ f \in Nat
    BY <1>3, <1>7, <2>1, WordFacts DEF Listed
  <2>3. /\ IsPage(page') /\ page'.blocks = n
        /\ failed' = FALSE /\ live' = live \cup {f}
        /\ live' \subseteq Blocks(n)
        /\ Sound(page'.blocks, page'.link, page'.h, live')
        /\ Free(page') = Blocks(n) \ live'
        /\ page.link[f] = ONE =>
              /\ page'.h.first = f + 1
              /\ f + 1 \in Blocks(n) => page'.link[f + 1] \in {NULL, ONE}
        /\ page.link[f] = NULL => page'.h.first = NULL
    BY <1>3, <1>7, <2>1, ShiftStep
  <2>4. live = 0 .. (f - 1)
    BY <1>4, <1>7, <2>1
  <2>5. /\ live' = IF page'.h.first = NULL THEN Blocks(n) ELSE 0 .. (page'.h.first - 1)
        /\ page'.h.first # NULL => page'.link[page'.h.first] \in {ONE, NULL}
    <3>1. CASE page.link[f] = ONE
      <4>1. f # n - 1
        BY <1>3, <2>1, <2>2, <3>1 DEF Sound
      <4>2. f + 1 \in Blocks(n)
        BY <1>3, <2>2, <4>1 DEF Blocks
      <4>3. f + 1 # NULL
        BY <1>3, <4>2, WordFacts
      <4>4. live' = 0 .. ((f + 1) - 1)
        BY <2>2, <2>3, <2>4
      <4> QED BY <2>3, <3>1, <4>2, <4>3, <4>4
    <3>2. CASE page.link[f] = NULL
      <4>1. page'.h.first = NULL
        BY <2>3, <3>2
      <4>2. Free(page') = {}
        BY <1>3, <2>3, <4>1, NoFirst, WordFacts DEF Free
      <4>3. live' = Blocks(n)
        BY <2>3, <4>2
      <4> QED BY <4>1, <4>3
    <3> QED BY <1>4, <1>7, <3>1, <3>2
  <2>6. /\ have' /\ have' \in BOOLEAN
        /\ behind' \in Seq(SUBSET (0 .. (MaxSize - 1)))
        /\ \A i \in DOMAIN behind' : behind'[i] = Blocks(n)
    BY <1>4, <1>5, <2>1 DEF Frame
  <2> QED BY <1>2, <1>6, <2>3, <2>5, <2>6
<1>8. CASE f = NULL
  <2> DEFINE pg == Fresh(n)
  <2>1. /\ Shift(pg, {}) /\ have' = TRUE
        /\ behind' = IF have THEN Append(behind, live) ELSE behind
    BY <1>1, <1>8
  <2>2. /\ IsPage(pg) /\ pg.blocks = n /\ Sound(n, pg.link, pg.h, {})
        /\ Free(pg) = Blocks(n) /\ pg.h.first = 0 /\ pg.link[0] = ONE
    BY <1>3, FreshFacts
  <2> HIDE DEF pg
  <2>3. /\ IsPage(page') /\ page'.blocks = n
        /\ failed' = FALSE /\ live' = {0}
        /\ live' \subseteq Blocks(n)
        /\ Sound(page'.blocks, page'.link, page'.h, live')
        /\ Free(page') = Blocks(n) \ live'
        /\ page'.h.first = 1
        /\ 1 \in Blocks(n) => page'.link[1] \in {NULL, ONE}
    <3>1. /\ {} \in SUBSET Blocks(pg.blocks) /\ Sound(pg.blocks, pg.link, pg.h, {})
          /\ Free(pg) = Blocks(pg.blocks) \ {} /\ pg.h.first # NULL
      BY <1>3, <2>2, WordFacts
    <3> HIDE DEF n
    <3>2. /\ IsPage(page') /\ page'.blocks = pg.blocks
          /\ failed' = FALSE /\ live' = {} \cup {pg.h.first}
          /\ live' \subseteq Blocks(pg.blocks)
          /\ Sound(page'.blocks, page'.link, page'.h, live')
          /\ Free(page') = Blocks(pg.blocks) \ live'
          /\ pg.link[pg.h.first] = ONE =>
                /\ page'.h.first = pg.h.first + 1
                /\ pg.h.first + 1 \in Blocks(pg.blocks) =>
                       page'.link[pg.h.first + 1] \in {NULL, ONE}
      BY <2>1, <2>2, <3>1, ShiftStep
    <3> QED BY <2>2, <3>2
  <2>4. 1 \in Blocks(n) /\ 1 # NULL
    BY <1>3, WordFacts DEF Blocks
  <2>5. /\ live' = IF page'.h.first = NULL THEN Blocks(n) ELSE 0 .. (page'.h.first - 1)
        /\ page'.h.first # NULL => page'.link[page'.h.first] \in {ONE, NULL}
    <3>1. {0} = 0 .. (1 - 1)
      OBVIOUS
    <3> QED BY <2>3, <2>4, <3>1
  <2>6. /\ behind' \in Seq(SUBSET (0 .. (MaxSize - 1)))
        /\ \A i \in DOMAIN behind' : behind'[i] = Blocks(n)
    <3>1. CASE have
      <4> DEFINE S == SUBSET (0 .. (MaxSize - 1))
      <4>1. live = Blocks(n) /\ live \in S
        <5>1. live = Blocks(n)
          BY <1>4, <1>8, <3>1
        <5> QED BY <1>3, <5>1, SizeAssumption DEF Blocks
      <4>2. behind \in Seq(S) /\ behind' = Append(behind, live)
        BY <1>5, <2>1, <3>1
      <4> HIDE DEF S
      <4>3. behind' \in Seq(S)
        BY <4>1, <4>2
      <4>4. \A i \in DOMAIN behind' : behind'[i] = Blocks(n)
        BY <1>4, <4>1, <4>2
      <4> QED BY <4>3, <4>4 DEF S
    <3>2. CASE ~have
      BY <1>4, <1>5, <2>1, <3>2
    <3> QED BY <3>1, <3>2
  <2> QED BY <1>2, <1>6, <2>1, <2>3, <2>5, <2>6
<1> QED BY <1>7, <1>8

LEMMA TdestroyStep ==
    ASSUME Frame, Healthy, Tdestroy
    PROVE  Healthy' /\ told' = NULL
<1> DEFINE n == page.blocks
           pg == NoPage(n, page.h.used)
<1>1. /\ kind = "temporary" /\ page' = pg /\ have' = FALSE /\ behind' = <<>> /\ live' = {}
      /\ UNCHANGED <<kind, transformed, promised, told, spoiled, failed>>
  BY DEF Tdestroy, Running
<1>2. n \in Layouts /\ n \in Nat /\ n <= MaxSize /\ page.h.used \in Nat
  BY HealthyFacts
<1>3. IsPage(pg) /\ pg.blocks = n /\ pg.h.first = NULL /\ pg.h.used = page.h.used
  BY <1>2, NoPageFacts
<1> HIDE DEF pg
<1>4. told' = NULL /\ promised = 0
  BY <1>1 DEF Frame, Healthy, InOrder
<1>5. Types'
  <2>1. have' \in BOOLEAN /\ transformed' \in BOOLEAN
    BY <1>1 DEF Frame
  <2>2. promised' \in 0 .. MaxSize
    BY <1>1, <1>4, SizeAssumption
  <2>3. told' \in (SUBSET (0 .. MaxSize)) \cup {NULL}
    BY <1>4
  <2>4. behind' \in Seq(SUBSET (0 .. (MaxSize - 1)))
    BY <1>1
  <2> QED BY <2>1, <2>2, <2>3, <2>4 DEF Types
<1>6. page'.h.first = NULL /\ promised' = 0 /\ ~have'
  BY <1>1, <1>3, <1>4
<1>7. InOrder'
  BY <1>1, <1>6 DEF InOrder
<1>8. /\ IsPage(page') /\ page'.blocks <= MaxSize
      /\ page'.h.used \in Nat /\ promised' <= page'.blocks
      /\ kind' = "local" => page'.blocks <= AlignedBlocks
  BY <1>1, <1>2, <1>3, <1>6
<1> QED BY <1>1, <1>4, <1>5, <1>6, <1>7, <1>8, StillHealthyWithoutPage

----------------------------------------------------------------------------
(* The inductive invariant *)

LEMMA ShiftFails ==
    ASSUME NEW pg, NEW L, Shift(pg, L)
    PROVE  failed' \in BOOLEAN
<1>1. CASE pg.h.first = NULL
  BY <1>1 DEF Shift
<1>2. CASE pg.h.first # NULL
  <2> DEFINE r == Shifted(pg.blocks, pg.link, pg.h)
  <2>1. failed' = r.failed
    BY <1>2 DEF Shift
  <2>2. r.failed \in BOOLEAN
    BY DEF Shifted
  <2> HIDE DEF r
  <2> QED BY <2>1, <2>2
<1> QED BY <1>1, <1>2

LEMMA GrowToFails ==
    ASSUME NEW new, NEW moves, GrowTo(new, moves), spoiled \in BOOLEAN
    PROVE  failed' \in BOOLEAN /\ spoiled' \in BOOLEAN
<1> DEFINE g == Grown(new, moves)
<1>1. g.failed \in BOOLEAN
  BY DEF Grown
<1> HIDE DEF g
<1>2. failed' = g.failed /\ spoiled' = (spoiled \/ g.spoils)
  BY DEF GrowTo, g
<1> QED BY <1>1, <1>2

LEMMA FrameStep ==
    ASSUME Frame, [Next]_vars
    PROVE  Frame'
<1>1. /\ kind \in {"local", "doubling", "temporary"}
      /\ kind = "doubling" => have /\ behind = <<>> /\ ~transformed
      /\ kind = "temporary" => told = NULL
      /\ have \in BOOLEAN /\ transformed \in BOOLEAN
      /\ spoiled \in BOOLEAN /\ failed \in BOOLEAN
  BY DEF Frame
<1>2. CASE UNCHANGED vars
  BY <1>1, <1>2 DEF Frame, vars
<1>3. CASE Release
  BY <1>1, <1>3 DEF Release, Running, Frame
<1>4. CASE LallocFromList
  <2>1. failed' \in BOOLEAN
    BY <1>4, ShiftFails DEF LallocFromList
  <2> QED BY <1>1, <1>4, <2>1 DEF LallocFromList, Running, Frame
<1>5. CASE LallocFirstPage
  <2>1. failed' \in BOOLEAN
    BY <1>5, ShiftFails DEF LallocFirstPage
  <2> QED BY <1>1, <1>5, <2>1 DEF LallocFirstPage, Running, Frame
<1>6. CASE LallocGrows
  <2>1. failed' \in BOOLEAN
    BY <1>6, ShiftFails DEF LallocGrows
  <2>2. kind = "local" /\ UNCHANGED <<kind, behind, have>>
    BY <1>6 DEF LallocGrows, Running
  <2>3. spoiled' \in BOOLEAN /\ transformed' \in BOOLEAN
    BY <1>6 DEF LallocGrows
  <2> QED BY <1>1, <2>1, <2>2, <2>3 DEF Frame
<1>7. CASE Lreserve
  <2>1. kind = "local" /\ UNCHANGED <<kind, behind, have>>
    BY <1>7 DEF Lreserve, Running
  <2>2. failed' \in BOOLEAN /\ spoiled' \in BOOLEAN /\ transformed' \in BOOLEAN
    <3>1. PICK n \in 1 .. MaxSize, moves \in BOOLEAN :
             \/ UNCHANGED <<spoiled, transformed, failed>>
             \/ /\ GrowTo(Size(Doubled(page.h.used + n)), moves)
                /\ transformed' = (Doubled(page.h.used + n) >= MaxBlocks)
             \/ failed' = TRUE /\ UNCHANGED <<spoiled, transformed>>
      BY <1>7 DEF Lreserve
    <3>2. CASE GrowTo(Size(Doubled(page.h.used + n)), moves)
               /\ transformed' = (Doubled(page.h.used + n) >= MaxBlocks)
      BY <1>1, <3>2, GrowToFails
    <3> QED BY <1>1, <3>1, <3>2
  <2> QED BY <1>1, <2>1, <2>2 DEF Frame
<1>8. CASE Lwalk
  BY <1>1, <1>8 DEF Lwalk, Running, Frame
<1>9. CASE LfreeAll
  BY <1>1, <1>9 DEF LfreeAll, Running, Frame
<1>10. CASE Ldestroy
  BY <1>1, <1>10 DEF Ldestroy, Frame
<1>11. CASE Dreserve
  <2>1. kind = "doubling" /\ UNCHANGED <<kind, behind, have, transformed>>
    BY <1>11 DEF Dreserve, Running
  <2>2. failed' \in BOOLEAN /\ spoiled' \in BOOLEAN
    <3>1. PICK n \in 1 .. MaxSize, moves \in BOOLEAN :
             \/ UNCHANGED <<spoiled, failed>>
             \/ GrowTo(RoundedUp(page.h.used + n), moves)
      BY <1>11 DEF Dreserve
    <3>2. CASE GrowTo(RoundedUp(page.h.used + n), moves)
      BY <1>1, <3>2, GrowToFails
    <3> QED BY <1>1, <3>1, <3>2
  <2> QED BY <1>1, <2>1, <2>2 DEF Frame
<1>12. CASE Dalloc
  <2>1. failed' \in BOOLEAN
    BY <1>12, ShiftFails DEF Dalloc
  <2> QED BY <1>1, <1>12, <2>1 DEF Dalloc, Running, Frame
<1>13. CASE Drenew
  BY <1>1, <1>13 DEF Drenew, Running, Frame
<1>14. CASE Talloc
  <2>1. failed' \in BOOLEAN
    BY <1>14, ShiftFails DEF Talloc
  <2>2. kind = "temporary" /\ UNCHANGED <<kind, transformed, told, spoiled>>
    BY <1>14 DEF Talloc, Running
  <2>3. have' \in BOOLEAN
    BY <1>1, <1>14 DEF Talloc
  <2> QED BY <1>1, <2>1, <2>2, <2>3 DEF Frame
<1>15. CASE Tdestroy
  BY <1>1, <1>15 DEF Tdestroy, Running, Frame
<1> QED BY <1>2, <1>3, <1>4, <1>5, <1>6, <1>7, <1>8, <1>9, <1>10, <1>11, <1>12,
           <1>13, <1>14, <1>15 DEF Next

\* A step from a healthy state leaves a healthy one or a spoiled one, and tells the
\* callback of the client's blocks in either case.
LEMMA HealthyStep ==
    ASSUME Frame, Healthy, Next
    PROVE  /\ ~spoiled' => Healthy'
           /\ told' # NULL => told' = live
BY ReleaseStep, LallocFromListStep, LallocFirstPageStep, LallocGrowsStep,
   LreserveStep, LwalkStep, LfreeAllStep, LdestroyStep, DreserveStep, DallocStep,
   DrenewStep, TallocStep, TdestroyStep DEF Next

\* Of a spoiled page only a new ba_doubling is free.
LEMMA SpoiledStep ==
    ASSUME Frame, spoiled, Next
    PROVE  ~spoiled' => Healthy'
<1>1. CASE Drenew
  BY <1>1, DrenewStep
<1>2. CASE ~Drenew
  <2>1. ASSUME NEW new, NEW moves, GrowTo(new, moves) PROVE spoiled'
    BY <2>1 DEF GrowTo
  <2>2. spoiled'
    <3>1. CASE LallocGrows
      BY <3>1 DEF LallocGrows
    <3>2. CASE Lreserve
      BY <2>1, <3>2 DEF Lreserve
    <3>3. CASE Dreserve
      BY <2>1, <3>3 DEF Dreserve
    <3>4. CASE Lwalk
      BY <3>4 DEF Lwalk
    <3>5. CASE Release \/ LallocFromList \/ LallocFirstPage \/ LfreeAll \/ Ldestroy
               \/ Dalloc \/ Talloc \/ Tdestroy
      BY <3>5 DEF Release, LallocFromList, LallocFirstPage, LfreeAll, Ldestroy, Dalloc,
                  Talloc, Tdestroy
    <3> QED BY <1>2, <3>1, <3>2, <3>3, <3>4, <3>5 DEF Next
  <2> QED BY <2>2
<1> QED BY <1>1, <1>2

LEMMA InitIInv == Init => IInv
<1> SUFFICES ASSUME Init PROVE Frame /\ Healthy
  BY DEF IInv
<1>1. /\ behind = <<>> /\ transformed = FALSE /\ live = {} /\ promised = 0 /\ told = NULL
      /\ spoiled = FALSE /\ failed = FALSE
      /\ \/ kind = "local" /\ page = NoPage(InitBlocks, 0) /\ have = FALSE
         \/ kind = "doubling" /\ page = InitDoubling /\ have = TRUE
         \/ kind = "temporary" /\ page = InitTemporary /\ have = FALSE
  BY DEF Init
<1>2. Frame
  BY <1>1 DEF Frame
<1>3. Types
  <2>1. promised \in 0 .. MaxSize
    BY <1>1, SizeAssumption
  <2>2. told \in (SUBSET (0 .. MaxSize)) \cup {NULL}
    BY <1>1
  <2>3. behind \in Seq(SUBSET (0 .. (MaxSize - 1)))
    BY <1>1
  <2>4. have \in BOOLEAN /\ transformed \in BOOLEAN
    BY <1>1
  <2> QED BY <2>1, <2>2, <2>3, <2>4 DEF Types
<1>4. ASSUME NEW n \in Layouts, n <= AlignedBlocks, page = NoPage(n, 0), have = FALSE
      PROVE  Healthy
  <2>1. IsPage(page) /\ page.blocks = n /\ page.h.first = NULL /\ page.h.used = 0
    BY <1>4, NoPageFacts
  <2>2. n \in Nat /\ n <= MaxSize
    BY <1>4, SizeAssumption, WordFacts
  <2>3. Typed
    BY <1>1, <1>3, <2>1, <2>2 DEF Typed
  <2>4. Listing /\ Reserve
    BY <1>1, <1>4, <2>1, <2>2 DEF Listing, Reserve
  <2>5. InOrder
    BY <1>1, <1>4, <2>1 DEF InOrder
  <2> QED BY <1>4, <2>1, <2>3, <2>4, <2>5 DEF Healthy
<1>5. CASE kind = "local" /\ page = NoPage(InitBlocks, 0) /\ have = FALSE
  <2>1. InitBlocks \in Layouts /\ InitBlocks <= AlignedBlocks
    BY SizeAssumption DEF Layouts
  <2> QED BY <1>2, <1>4, <1>5, <2>1
<1>6. CASE kind = "temporary" /\ page = InitTemporary /\ have = FALSE
  <2>1. AlignedBlocks \in Layouts /\ AlignedBlocks <= AlignedBlocks
    BY SizeAssumption DEF Layouts
  <2> QED BY <1>2, <1>4, <1>6, <2>1 DEF InitTemporary
<1>7. CASE kind = "doubling" /\ page = InitDoubling /\ have = TRUE
  <2>1. PICK n \in Layouts : n <= MaxSize /\ InitDoubling = Fresh(n)
    BY InitDoublingFacts
  <2> DEFINE pg == Fresh(n)
  <2>2. /\ IsPage(pg) /\ pg.blocks = n /\ Sound(n, pg.link, pg.h, {})
        /\ Free(pg) = Blocks(n) /\ pg.h.used = 0
    BY FreshFacts
  <2> HIDE DEF pg
  <2>3. page = pg /\ n \in Nat
    BY <1>7, <2>1, WordFacts DEF pg
  <2>4. Typed
    BY <1>1, <1>3, <2>1, <2>2, <2>3 DEF Typed
  <2>5. Listing
    BY <1>1, <1>7, <2>2, <2>3 DEF Listing
  <2>6. Reserve
    BY <1>1, <1>7, <2>2, <2>3 DEF Reserve
  <2>7. InOrder
    BY <1>7 DEF InOrder
  <2> QED BY <1>2, <1>7, <2>4, <2>5, <2>6, <2>7 DEF Healthy
<1> QED BY <1>1, <1>5, <1>6, <1>7

LEMMA NextIInv == IInv /\ [Next]_vars => IInv'
<1> SUFFICES ASSUME IInv, [Next]_vars PROVE IInv'
  OBVIOUS
<1>1. Frame /\ (~spoiled => Healthy)
  BY DEF IInv
<1>2. Frame'
  BY <1>1, FrameStep
<1>3. CASE UNCHANGED vars
  <2>1. Healthy => Healthy'
    <3> SUFFICES ASSUME Healthy PROVE Healthy'
      OBVIOUS
    <3>1. /\ page' = page /\ have' = have /\ behind' = behind /\ transformed' = transformed
          /\ live' = live /\ promised' = promised /\ told' = told /\ kind' = kind
          /\ failed' = failed
      BY <1>3 DEF vars
    <3>2. Typed' /\ Reserve'
      BY <3>1 DEF Healthy, Typed, Types, Reserve
    <3>3. Listing'
      BY <3>1 DEF Healthy, Listing, Free
    <3>4. InOrder'
      BY <3>1 DEF Healthy, InOrder, TemporaryShown, BehindShown
    <3> QED BY <3>1, <3>2, <3>3, <3>4 DEF Healthy
  <2> QED BY <1>1, <1>2, <1>3, <2>1 DEF IInv, vars
<1>4. CASE Next
  <2>1. ~spoiled' => Healthy'
    BY <1>1, <1>4, HealthyStep, SpoiledStep
  <2> QED BY <1>2, <2>1 DEF IInv
<1> QED BY <1>3, <1>4

\* The inductive invariant: until a call spoils the page its list is sound and
\* complete, what is promised fits, and a temporary allocator goes upwards.
THEOREM GrowingInvariance == Spec => []IInv
BY InitIInv, NextIInv, PTL DEF Spec

----------------------------------------------------------------------------
(* The properties *)

LEMMA IInvIsExact == IInv => ListIsExact
<1> SUFFICES ASSUME IInv, ~spoiled
             PROVE  /\ TypeOK
                    /\ failed => ~have
                    /\ have => /\ EndsWell(page.blocks, page.link, page.h.first)
                               /\ Free(page) = (0 .. (page.blocks - 1)) \ live
                               /\ page.h.used = Cardinality(live)
  BY DEF ListIsExact
<1> DEFINE n == page.blocks
<1>1. Frame /\ Healthy
  BY DEF IInv
<1>2. /\ n \in Layouts /\ n \in Nat /\ n >= 2 /\ n <= MaxSize
      /\ page.link \in Links(n) /\ page.h \in Header(n)
      /\ live \in SUBSET Blocks(n)
      /\ have => /\ Sound(n, page.link, page.h, live)
                 /\ Free(page) = Blocks(n) \ live
                 /\ page.h.used = Cardinality(live)
  BY <1>1, HealthyFacts
<1>3. TypeOK
  <2>1. Blocks(n) = 0 .. (n - 1) /\ Word(n) \subseteq 0 .. n \cup {NULL, ONE, DATA}
        /\ Blocks(n) \cup {NULL, n} \subseteq 0 .. n \cup {NULL}
    BY <1>2 DEF Blocks, Word
  <2>2. page.link \in Words(n)
    BY <1>2, <2>1 DEF Links, Words
  <2>3. page.h \in [first : 0 .. n \cup {NULL}, used : Int, sorted : BOOLEAN]
    BY <1>2, <2>1 DEF Header
  <2>4. n \in Sizes
    BY <1>2, SizeAssumption DEF Sizes
  <2>5. live \subseteq 0 .. (n - 1)
    BY <1>2, <2>1
  <2>6. Types
    BY <1>1 DEF Healthy, Typed
  <2> QED BY <1>1, <2>2, <2>3, <2>4, <2>5, <2>6 DEF TypeOK, Types, Frame
<1>4. failed => ~have
  BY <1>1 DEF Healthy, Listing
<1>5. have => EndsWell(n, page.link, page.h.first)
  BY <1>2 DEF Sound, WellLinked
<1> QED BY <1>2, <1>3, <1>4, <1>5 DEF Blocks

LEMMA IInvKeepsReserve == IInv => ReserveIsKept
<1> SUFFICES ASSUME IInv, ~spoiled, have, ~transformed
             PROVE  Cardinality(Free(page)) >= promised
  BY DEF ReserveIsKept
<1> DEFINE n == page.blocks
           F == FreeSet(n, page.link, page.h.first)
<1>1. Frame /\ Healthy
  BY DEF IInv
<1>2. /\ n \in Layouts /\ n \in Nat /\ live \in SUBSET Blocks(n)
      /\ Sound(n, page.link, page.h, live) /\ F = Blocks(n) \ live
      /\ page.h.used \in Nat
  BY <1>1, HealthyFacts DEF Free
<1>3. page.h.used + promised <= n /\ promised \in 0 .. MaxSize
  BY <1>1 DEF Healthy, Reserve, Typed, Types
<1>4. Cardinality(F) = n - page.h.used
  <2> DEFINE hd == page.h
             w == page.link
  <2>1. Sound(n, w, hd, live) /\ FreeSet(n, w, hd.first) = Blocks(n) \ live
    BY <1>2
  <2> HIDE DEF n, hd, w
  <2>2. Cardinality(FreeSet(n, w, hd.first)) = n - hd.used
    BY <1>2, <2>1, Counts
  <2> QED BY <2>2 DEF hd, w
<1> HIDE DEF F
<1>5. Cardinality(F) >= promised
  BY <1>2, <1>3, <1>4, SizeAssumption
<1> QED BY <1>5 DEF F, Free

LEMMA IInvWalks == IInv => WalkShowsOwnedBlocks
<1> SUFFICES ASSUME IInv, ~spoiled, have
             PROVE  IF kind = "temporary"
                    THEN /\ TemporaryShown = live
                         /\ \A i \in DOMAIN behind : behind[i] = BehindShown
                    ELSE Told(Resorted(page)) = live
  BY DEF WalkShowsOwnedBlocks
<1>1. Frame /\ Healthy
  BY DEF IInv
<1>2. CASE kind = "temporary"
  BY <1>1, <1>2 DEF Healthy, InOrder
<1>3. CASE kind # "temporary"
  <2>1. /\ IsPage(page) /\ live \in SUBSET Blocks(page.blocks)
        /\ WellLinked(page.blocks, page.link, page.h)
        /\ Free(page) = Blocks(page.blocks) \ live
    BY <1>1, HealthyFacts DEF Sound
  <2>2. Told(Resorted(page)) = Blocks(page.blocks) \ Free(page)
    BY <2>1, ResortedFacts
  <2> QED BY <1>3, <2>1, <2>2
<1> QED BY <1>2, <1>3

\* The list has every block the client does not own and no other, through growth
\* by realloc, sorting, release and walks, and `used' counts the rest.
THEOREM GrowingListIsExact == Spec => []ListIsExact
BY GrowingInvariance, IInvIsExact, PTL

\* What ba_lreserve and ba_dreserve promised fits into the page until it is used.
THEOREM GrowingReserveIsKept == Spec => []ReserveIsKept
BY GrowingInvariance, IInvKeepsReserve, PTL

\* ba_walk_local and ba_walk_temporary show the client's blocks and nothing else.
THEOREM GrowingWalksShowOwned == Spec => []WalkShowsOwnedBlocks
BY GrowingInvariance, IInvWalks, PTL

\* A callback is told of exactly the client's blocks when the page has moved, by
\* the step that spoils the list too.
THEOREM GrowingRelocationIsTold == Spec => RelocationIsTold
<1>1. IInv /\ [Next]_vars => [~spoiled /\ told' # NULL => told' = live]_vars
  <2> SUFFICES ASSUME IInv, Next, ~spoiled, told' # NULL PROVE told' = live
    BY DEF vars
  <2> QED BY HealthyStep DEF IInv
<1> QED BY <1>1, GrowingInvariance, PTL DEF Spec, RelocationIsTold

----------------------------------------------------------------------------
(* The layout of a page: arithmetic on powers of two, in words of W bits *)

LEMMA SizeTypes ==
    /\ W \in Nat /\ W >= 1 /\ W - 1 \in Nat
    /\ Pow2[W] \in Nat /\ Pow2[W - 1] \in Nat /\ Pow2[W - 1] >= 1
    /\ Pow2[W] = 2 * Pow2[W - 1]
    /\ PageHeader \in Nat /\ PageHeader >= 1
    /\ Overhead \in Nat /\ Overhead >= 1
    /\ Pointer \in Nat /\ Pointer >= 2 /\ DefaultBlocks \in Nat /\ DefaultBlocks >= 1
<1>1. W \in Nat /\ W >= 1 /\ W - 1 \in Nat /\ (W - 1) + 1 = W
  BY WAssumption
<1>2. Pow2[W] = 2 * Pow2[W - 1]
  BY <1>1, PowerSteps
<1>3. Pow2[W - 1] \in Nat /\ Pow2[W - 1] >= 1 /\ Pow2[W] \in Nat
  BY <1>1, PowerTypes
<1> QED BY <1>1, <1>2, <1>3, SizesAssumption

LEMMA Remainder ==
    ASSUME NEW m \in Nat, NEW x \in Nat, x < m
    PROVE  x % m = x
OBVIOUS

LEMMA Quotient ==
    ASSUME NEW m \in Nat, m >= 1, NEW x \in Nat
    PROVE  /\ x \div m \in Nat
           /\ (x \div m) * m <= x
           /\ x < (x \div m) * m + m
OBVIOUS

\* Two quotients that both leave less than m are the same.
LEMMA QuotientIs ==
    ASSUME NEW m \in Nat, m >= 1, NEW q \in Nat, NEW r \in Nat, NEW x \in Nat,
           q * m <= x, x < q * m + m, r * m <= x, x < r * m + m
    PROVE  q = r
<1>1. ASSUME NEW a \in Nat, NEW b \in Nat, a < b PROVE a * m + m <= b * m
  <2>1. b - (a + 1) \in Nat
    BY <1>1
  <2>2. (b - (a + 1)) * m \in Nat
    BY <2>1
  <2>3. (b - (a + 1)) * m = b * m - (a * m + m)
    OBVIOUS
  <2>4. a * m \in Nat /\ b * m \in Nat
    OBVIOUS
  <2> QED BY <2>2, <2>3, <2>4
<1>2. q * m \in Nat /\ r * m \in Nat
  OBVIOUS
<1>3. ~(q < r)
  BY <1>1, <1>2
<1>4. ~(r < q)
  BY <1>1, <1>2
<1> QED BY <1>3, <1>4

LEMMA WordsFit ==
    ASSUME NEW x \in Nat, x < Pow2[W]
    PROVE  UInt(x) = x
BY SizeTypes, Remainder DEF UInt

LEMMA PowersGrow ==
    ASSUME NEW j \in Nat, NEW k \in Nat, j < k
    PROVE  2 * Pow2[j] <= Pow2[k]
<1> DEFINE T == {i \in Nat : j < i /\ ~(2 * Pow2[j] <= Pow2[i])}
<1>1. SUFFICES ASSUME T # {} PROVE FALSE
  OBVIOUS
<1>2. PICK m \in T : \A i \in T : m <= i
  <2>1. T \in SUBSET Nat
    OBVIOUS
  <2> HIDE DEF T
  <2> QED BY <1>1, <2>1, Least
<1>3. m \in Nat /\ j < m /\ ~(2 * Pow2[j] <= Pow2[m])
  OBVIOUS
<1>4. m - 1 \in Nat /\ ~(m <= m - 1) /\ (m - 1) + 1 = m
  BY <1>3
<1>5. Pow2[m] = 2 * Pow2[m - 1] /\ Pow2[m - 1] \in Nat /\ Pow2[j] \in Nat
  BY <1>4, PowerSteps, PowerTypes
<1>6. CASE j = m - 1
  BY <1>3, <1>5, <1>6
<1>7. CASE j # m - 1
  <2>1. 2 * Pow2[j] <= Pow2[m - 1]
    BY <1>2, <1>3, <1>4, <1>7
  <2> QED BY <1>3, <1>5, <2>1
<1> QED BY <1>6, <1>7

LEMMA WordPowers ==
    ASSUME NEW k \in 1 .. (W - 1)
    PROVE  k \in Nat /\ Pow2[k] \in Nat /\ Pow2[k] <= Pow2[W - 1]
<1>1. k \in Nat /\ W - 1 \in Nat
  BY SizeTypes
<1>2. Pow2[k] \in Nat /\ Pow2[W - 1] \in Nat
  BY <1>1, PowerTypes
<1>3. CASE k = W - 1
  BY <1>2, <1>3
<1>4. CASE k # W - 1
  <2>1. k < W - 1
    BY <1>1, <1>4
  <2>2. 2 * Pow2[k] <= Pow2[W - 1]
    BY <1>1, <2>1, PowersGrow
  <2> QED BY <1>2, <2>2
<1> QED BY <1>1, <1>2, <1>3, <1>4

\* There is only one power of two from x up to twice x.
LEMMA OnePower ==
    ASSUME NEW x \in Nat, NEW j \in Nat, NEW k \in Nat,
           x <= Pow2[j], Pow2[j] < 2 * x, x <= Pow2[k], Pow2[k] < 2 * x
    PROVE  j = k
<1>1. Pow2[j] \in Nat /\ Pow2[k] \in Nat
  BY PowerTypes
<1>2. ~(j < k)
  BY <1>1, PowersGrow
<1>3. ~(k < j)
  BY <1>1, PowersGrow
<1> QED BY <1>2, <1>3

\* Log is the number of bits of a word.
LEMMA LogFacts ==
    ASSUME NEW x \in Nat, x >= 1, x < Pow2[W]
    PROVE  /\ Log(x) \in 1 .. W
           /\ Pow2[Log(x) - 1] <= x
           /\ x < Pow2[Log(x)]
<1> DEFINE T == {k \in Nat : x < Pow2[k]}
<1>1. T \in SUBSET Nat /\ W \in T
  BY SizeTypes
<1>2. PICK m \in T : \A i \in T : m <= i
  <2> HIDE DEF T
  <2> QED BY <1>1, Least
<1>3. m \in 0 .. W /\ x < Pow2[m]
  BY <1>1, <1>2, SizeTypes
<1>4. ASSUME NEW j \in 0 .. (m - 1) PROVE Pow2[j] <= x
  <2>1. j \in Nat /\ ~(m <= j)
    BY <1>3
  <2>2. Pow2[j] \in Nat /\ ~(x < Pow2[j])
    BY <1>2, <2>1, PowerTypes
  <2> QED BY <2>2
<1> HIDE DEF T
<1> DEFINE Fit(k) == x < Pow2[k] /\ \A j \in 0 .. (k - 1) : Pow2[j] <= x
           c == CHOOSE k \in 0 .. W : Fit(k)
<1>5. \E k \in 0 .. W : Fit(k)
  BY <1>3, <1>4
<1>6. c \in 0 .. W /\ Fit(c)
  BY <1>5
<1>7. Log(x) = c
  BY DEF Log
<1> HIDE DEF c
<1>8. c # 0
  BY <1>6, PowerSteps
<1>9. c - 1 \in 0 .. (c - 1)
  BY <1>6, <1>8
<1> QED BY <1>6, <1>7, <1>8, <1>9

LEMMA LogIs ==
    ASSUME NEW x \in Nat, x >= 1, x < Pow2[W],
           NEW k \in Nat, k >= 1, Pow2[k - 1] <= x, x < Pow2[k]
    PROVE  Log(x) = k
<1> DEFINE c == Log(x)
<1>1. c \in 1 .. W /\ Pow2[c - 1] <= x /\ x < Pow2[c]
  BY LogFacts
<1> HIDE DEF c
<1>2. c - 1 \in Nat /\ k - 1 \in Nat /\ c \in Nat
  BY <1>1, SizeTypes
<1>3. Pow2[c - 1] \in Nat /\ Pow2[k - 1] \in Nat /\ Pow2[c] \in Nat /\ Pow2[k] \in Nat
  BY <1>2, PowerTypes
<1>4. ~(k < c)
  <2>1. SUFFICES ASSUME k < c PROVE FALSE
    OBVIOUS
  <2>2. CASE k = c - 1
    BY <1>1, <1>3, <2>2
  <2>3. CASE k # c - 1
    <3>1. k < c - 1
      BY <1>2, <2>1, <2>3
    <3>2. 2 * Pow2[k] <= Pow2[c - 1]
      BY <1>2, <3>1, PowersGrow
    <3> QED BY <1>1, <1>3, <3>2
  <2> QED BY <2>2, <2>3
<1>5. ~(c < k)
  <2>1. SUFFICES ASSUME c < k PROVE FALSE
    OBVIOUS
  <2>2. CASE c = k - 1
    BY <1>1, <1>3, <2>2
  <2>3. CASE c # k - 1
    <3>1. c < k - 1
      BY <1>2, <2>1, <2>3
    <3>2. 2 * Pow2[c] <= Pow2[k - 1]
      BY <1>2, <3>1, PowersGrow
    <3> QED BY <1>1, <1>3, <3>2
  <2> QED BY <2>2, <2>3
<1>6. c = k
  BY <1>2, <1>4, <1>5
<1> QED BY <1>6 DEF c

\* A size that fits is rounded up to the next power of two, and to itself if it is
\* one: this is the only power from the size up to twice the size.
LEMMA RoundingFacts ==
    ASSUME NEW x \in Nat, x >= 1, x < Pow2[W - 1]
    PROVE  /\ round_up32(x) = Pow2[Log(x)]
           /\ Log(x) \in 1 .. (W - 1)
           /\ Pow2[Log(x)] \in Nat
           /\ x < Pow2[Log(x)] /\ Pow2[Log(x)] <= 2 * x
<1> DEFINE c == Log(x)
<1>1. x < Pow2[W]
  BY SizeTypes
<1>2. c \in 1 .. W /\ Pow2[c - 1] <= x /\ x < Pow2[c]
  BY <1>1, LogFacts
<1> HIDE DEF c
<1>3. c - 1 \in Nat /\ c \in Nat /\ (c - 1) + 1 = c
  BY <1>2, SizeTypes
<1>4. Pow2[c] = 2 * Pow2[c - 1] /\ Pow2[c - 1] \in Nat /\ Pow2[c] \in Nat
  BY <1>3, PowerSteps, PowerTypes
<1>5. c # W
  BY <1>2, SizeTypes
<1>6. c \in 1 .. (W - 1)
  BY <1>2, <1>5, SizeTypes
<1>7. Pow2[c] < Pow2[W]
  BY <1>2, <1>4, SizeTypes
<1>8. UInt(Pow2[c]) = Pow2[c]
  BY <1>4, <1>7, WordsFit
<1> QED BY <1>2, <1>4, <1>6, <1>8 DEF c, round_up32

\* The size ba_align_layout gives a page that takes x bytes now.
RoundedSize(x) == IF x = 0 \/ IsPower(x) THEN x ELSE round_up32(x)

LEMMA RoundedSizeFacts ==
    ASSUME NEW x \in Nat, x >= 2, x <= Pow2[W - 1]
    PROVE  \E k \in 1 .. (W - 1) : /\ RoundedSize(x) = Pow2[k]
                                   /\ x <= Pow2[k] /\ Pow2[k] < 2 * x
<1>1. CASE IsPower(x)
  <2>1. PICK k \in 0 .. (W - 1) : x = Pow2[k]
    BY <1>1 DEF IsPower
  <2>2. k # 0
    BY <2>1, PowerSteps
  <2>3. k \in 1 .. (W - 1)
    BY <2>1, <2>2, SizeTypes
  <2>4. RoundedSize(x) = x
    BY <1>1 DEF RoundedSize
  <2> QED BY <2>1, <2>3, <2>4
<1>2. CASE ~IsPower(x)
  <2>1. \A k \in 0 .. (W - 1) : x # Pow2[k]
    BY <1>2 DEF IsPower
  <2>2. W - 1 \in 0 .. (W - 1)
    BY SizeTypes
  <2>3. x < Pow2[W - 1]
    BY <2>1, <2>2, SizeTypes
  <2>4. RoundedSize(x) = round_up32(x)
    BY <1>2 DEF RoundedSize
  <2> DEFINE c == Log(x)
  <2>5. /\ round_up32(x) = Pow2[c] /\ c \in 1 .. (W - 1) /\ Pow2[c] \in Nat
        /\ x < Pow2[c] /\ Pow2[c] <= 2 * x
    BY <2>3, RoundingFacts
  <2> HIDE DEF c
  <2>6. c - 1 \in Nat /\ (c - 1) + 1 = c /\ c - 1 \in 0 .. (W - 1)
    BY <2>5, SizeTypes
  <2>7. Pow2[c] = 2 * Pow2[c - 1] /\ Pow2[c - 1] \in Nat
    BY <2>6, PowerSteps, PowerTypes
  <2>8. Pow2[c] # 2 * x
    BY <2>1, <2>6, <2>7
  <2> QED BY <2>4, <2>5, <2>8
<1> QED BY <1>1, <1>2

----------------------------------------------------------------------------
(* The layout of a page: ba_init_layout and ba_align_layout *)

\* A layout whose blocks end within a word is not cut off.
LEMMA InitLayoutFacts ==
    ASSUME NEW bs \in Nat, bs >= 1, NEW n \in Nat, n >= 1,
           n * bs < Pow2[W] + bs
    PROVE  /\ ba_init_layout(bs, n) = [block_size |-> bs, blocks |-> n,
                                       offset |-> PageHeader + (n - 1) * bs]
           /\ BA_PAGESIZE(ba_init_layout(bs, n)) = PageHeader + n * bs
           /\ Footprint(ba_init_layout(bs, n)) = PageHeader + n * bs + Overhead
<1> DEFINE r == (n - 1) * bs
           t == n * bs
<1>1. n - 1 \in Nat
  OBVIOUS
<1>2. r \in Nat /\ t \in Nat
  BY <1>1
<1>3. r + bs = t
  OBVIOUS
<1>4. r < Pow2[W]
  BY <1>2, <1>3, SizeTypes
<1>5. ba_init_layout(bs, n) = [block_size |-> bs, blocks |-> n,
                               offset |-> PageHeader + UInt(r)]
  BY DEF ba_init_layout
<1> HIDE DEF r, t
<1>6. UInt(r) = r
  BY <1>2, <1>4, WordsFit
<1>7. ba_init_layout(bs, n) = [block_size |-> bs, blocks |-> n,
                               offset |-> PageHeader + r]
  BY <1>5, <1>6
<1>8. BA_PAGESIZE(ba_init_layout(bs, n)) = PageHeader + t
  BY <1>2, <1>3, <1>7, SizeTypes DEF BA_PAGESIZE
<1>9. Footprint(ba_init_layout(bs, n)) = PageHeader + t + Overhead
  BY <1>8 DEF Footprint
<1> QED BY <1>7, <1>8, <1>9 DEF r, t

\* ba_align_layout turns n blocks that fit into the layout that fills the next power
\* of two: the only one.
LEMMA AlignFacts ==
    ASSUME NEW bs \in Nat, bs >= 1, NEW n \in Nat, n >= 1,
           PageHeader + n * bs + Overhead <= Pow2[W - 1]
    PROVE  \E k \in 1 .. (W - 1), q \in Nat :
              /\ PageHeader + n * bs + Overhead <= Pow2[k]
              /\ Pow2[k] < 2 * (PageHeader + n * bs + Overhead)
              /\ q >= n
              /\ q * bs <= Pow2[k] - (Overhead + PageHeader)
              /\ Pow2[k] - (Overhead + PageHeader) < q * bs + bs
              /\ ba_align_layout(ba_init_layout(bs, n))
                     = [block_size |-> bs, blocks |-> q,
                        offset |-> PageHeader + (q - 1) * bs]
<1> DEFINE t == n * bs
           x == PageHeader + t + Overhead
           ly == ba_init_layout(bs, n)
<1>1. t \in Nat /\ t >= 1
  <2>1. t \in Nat
    OBVIOUS
  <2>2. n - 1 \in Nat
    OBVIOUS
  <2>3. (n - 1) * bs \in Nat /\ t = (n - 1) * bs + bs
    BY <2>2
  <2> QED BY <2>1, <2>3
<1>2. t < Pow2[W] + bs
  <2>1. x <= Pow2[W - 1]
    OBVIOUS
  <2> HIDE DEF t
  <2> QED BY <1>1, <2>1, SizeTypes
<1>3. Footprint(ly) = x /\ ly.block_size = bs
  BY <1>2, InitLayoutFacts
<1>4. x \in Nat /\ x >= 2 /\ x <= Pow2[W - 1] /\ x < Pow2[W]
  <2>1. x <= Pow2[W - 1]
    OBVIOUS
  <2> HIDE DEF t
  <2> QED BY <1>1, <2>1, SizeTypes
<1>5. UInt(x) = x
  <2> HIDE DEF x
  <2> QED BY <1>4, WordsFit
<1>6. ba_align_layout(ly)
        = ba_init_layout(bs, UInt(RoundedSize(x) - (Overhead + PageHeader)) \div bs)
  <2> HIDE DEF ly, x
  <2> QED BY <1>3, <1>5 DEF ba_align_layout, RoundedSize
<1> HIDE DEF ly
<1>7. PICK k \in 1 .. (W - 1) : /\ RoundedSize(x) = Pow2[k]
                                /\ x <= Pow2[k] /\ Pow2[k] < 2 * x
  <2> HIDE DEF x
  <2> QED BY <1>4, RoundedSizeFacts
<1> DEFINE s == Pow2[k] - (Overhead + PageHeader)
           q == s \div bs
<1>8. k \in Nat /\ Pow2[k] \in Nat /\ Pow2[k] <= Pow2[W - 1]
  BY WordPowers
<1>9. s \in Nat /\ s >= t /\ s < Pow2[W]
  <2> HIDE DEF t
  <2> QED BY <1>1, <1>7, <1>8, SizeTypes
<1>10. UInt(s) = s
  <2> HIDE DEF s
  <2> QED BY <1>9, WordsFit
<1>11. ba_align_layout(ly) = ba_init_layout(bs, q)
  BY <1>6, <1>7, <1>10
<1>12. q \in Nat /\ q * bs <= s /\ s < q * bs + bs
  <2> HIDE DEF s
  <2> QED BY <1>9, Quotient
<1>13. q >= n
  <2>1. SUFFICES ASSUME q < n PROVE FALSE
    BY <1>12
  <2> HIDE DEF q, s
  <2>2. n - (q + 1) \in Nat
    BY <1>12, <2>1
  <2>3. (n - (q + 1)) * bs \in Nat
    BY <2>2
  <2>4. (n - (q + 1)) * bs = n * bs - (q * bs + bs)
    BY <1>12
  <2>5. q * bs \in Nat
    BY <1>12
  <2> QED BY <1>9, <1>12, <2>3, <2>4, <2>5
<1>14. q * bs < Pow2[W] + bs
  <2> HIDE DEF q, s
  <2>1. q * bs \in Nat
    BY <1>12
  <2> QED BY <1>9, <1>12, <2>1, SizeTypes
<1>15. q >= 1
  <2> HIDE DEF q, s, t, x
  <2> QED BY <1>12, <1>13
<1>16. ba_init_layout(bs, q) = [block_size |-> bs, blocks |-> q,
                                offset |-> PageHeader + (q - 1) * bs]
  <2> HIDE DEF q, s, t, x
  <2> QED BY <1>12, <1>14, <1>15, InitLayoutFacts
<1> HIDE DEF q
<1> QED BY <1>7, <1>11, <1>12, <1>13, <1>16 DEF ly

\* The layout ba_init makes of a request that fits fills a power of two, and is the
\* one it makes of that layout.
LEMMA MadeFacts ==
    ASSUME NEW bs \in Nat, bs >= Pointer, NEW n \in Nat, n >= 1,
           PageHeader + n * bs + Overhead <= Pow2[W - 1]
    PROVE  /\ Made(bs, n).block_size = bs
           /\ Made(bs, n).blocks \in Nat
           /\ Made(bs, n).blocks >= n
           /\ Made(bs, n).offset = PageHeader + (Made(bs, n).blocks - 1) * bs
           /\ BA_PAGESIZE(Made(bs, n)) \in Nat
           /\ BA_PAGESIZE(Made(bs, n)) >= 1
           /\ \E k \in 1 .. (W - 1) :
                 /\ Footprint(Made(bs, n)) <= Pow2[k]
                 /\ Pow2[k] < Footprint(Made(bs, n)) + bs
           /\ Made(bs, Made(bs, n).blocks) = Made(bs, n)
<1>1. bs >= 1
  BY SizeTypes
<1> DEFINE t == n * bs
<1>2. PICK k \in 1 .. (W - 1), q \in Nat :
              /\ PageHeader + t + Overhead <= Pow2[k]
              /\ Pow2[k] < 2 * (PageHeader + t + Overhead)
              /\ q >= n
              /\ q * bs <= Pow2[k] - (Overhead + PageHeader)
              /\ Pow2[k] - (Overhead + PageHeader) < q * bs + bs
              /\ ba_align_layout(ba_init_layout(bs, n))
                     = [block_size |-> bs, blocks |-> q,
                        offset |-> PageHeader + (q - 1) * bs]
  BY <1>1, AlignFacts
<1> DEFINE ly == [block_size |-> bs, blocks |-> q, offset |-> PageHeader + (q - 1) * bs]
           u == q * bs
<1>3. Made(bs, n) = ly
  <2>1. ~(bs < Pointer) /\ n # 0
    BY SizeTypes
  <2> HIDE DEF ly
  <2>2. Made(bs, n) = ba_align_layout(ba_init_layout(bs, n))
    BY <2>1 DEF Made
  <2> QED BY <1>2, <2>2 DEF ly
<1>4. q >= 1 /\ q # 0
  BY <1>2
<1>5. t \in Nat /\ u \in Nat /\ (q - 1) * bs = u - bs
  <2>1. t \in Nat /\ u \in Nat
    BY <1>2
  <2> QED BY <1>2, <2>1
<1>6. t >= bs /\ u >= t
  <2>1. n - 1 \in Nat /\ q - n \in Nat
    BY <1>2
  <2>2. (n - 1) * bs \in Nat /\ (q - n) * bs \in Nat
    BY <2>1
  <2>3. (n - 1) * bs = t - bs /\ (q - n) * bs = u - t
    BY <1>2
  <2> HIDE DEF t, u
  <2> QED BY <1>5, <2>2, <2>3
<1>7. k \in Nat /\ Pow2[k] \in Nat /\ Pow2[k] <= Pow2[W - 1]
  BY WordPowers
<1> HIDE DEF t, u
<1>8. BA_PAGESIZE(ly) = PageHeader + u /\ Footprint(ly) = PageHeader + u + Overhead
  BY <1>5, SizeTypes DEF BA_PAGESIZE, Footprint
<1>9. /\ u <= Pow2[k] - (Overhead + PageHeader)
      /\ Pow2[k] - (Overhead + PageHeader) < u + bs
  BY <1>2 DEF u
<1>10. Footprint(ly) <= Pow2[k] /\ Pow2[k] < Footprint(ly) + bs
  <2> HIDE DEF ly
  <2> QED BY <1>5, <1>7, <1>8, <1>9, SizeTypes
\* The same request again: the power of two is the only one, and so is the quotient.
<1>11. Made(bs, q) = ly
  <2>1. PageHeader + u + Overhead <= Pow2[W - 1]
    BY <1>5, <1>7, <1>9, SizeTypes
  <2>2. Pow2[k] < 2 * (PageHeader + u + Overhead)
    BY <1>5, <1>6, <1>7, <1>9, SizeTypes
  <2>3. PageHeader + u + Overhead <= Pow2[k]
    BY <1>5, <1>7, <1>9, SizeTypes
  <2>4. PICK j \in 1 .. (W - 1), r \in Nat :
              /\ PageHeader + u + Overhead <= Pow2[j]
              /\ Pow2[j] < 2 * (PageHeader + u + Overhead)
              /\ r >= q
              /\ r * bs <= Pow2[j] - (Overhead + PageHeader)
              /\ Pow2[j] - (Overhead + PageHeader) < r * bs + bs
              /\ ba_align_layout(ba_init_layout(bs, q))
                     = [block_size |-> bs, blocks |-> r,
                        offset |-> PageHeader + (r - 1) * bs]
    <3>1. PageHeader + q * bs + Overhead <= Pow2[W - 1]
      BY <2>1 DEF u
    <3> QED BY <1>1, <1>4, <3>1, AlignFacts DEF u
  <2>5. j = k
    <3>1. j \in Nat
      OBVIOUS
    <3>2. PageHeader + u + Overhead \in Nat
      BY <1>5, SizeTypes
    <3> QED BY <1>7, <2>2, <2>3, <2>4, <3>1, <3>2, OnePower
  <2> DEFINE s == Pow2[k] - (Overhead + PageHeader)
  <2>6. s \in Nat
    BY <1>5, <1>7, <1>9, SizeTypes
  <2>7. q * bs <= s /\ s < q * bs + bs /\ r * bs <= s /\ s < r * bs + bs
    BY <1>2, <2>4, <2>5
  <2> HIDE DEF s
  <2>8. r = q
    BY <1>1, <2>6, <2>7, QuotientIs
  <2>9. ~(bs < Pointer)
    BY SizeTypes
  <2>10. Made(bs, q) = ba_align_layout(ba_init_layout(bs, q))
    BY <1>4, <2>9 DEF Made
  <2> QED BY <2>4, <2>8, <2>10
<1>12. ly.block_size = bs /\ ly.blocks = q /\ ly.offset = PageHeader + (q - 1) * bs
  OBVIOUS
<1>13. BA_PAGESIZE(ly) \in Nat /\ BA_PAGESIZE(ly) >= 1
  <2> HIDE DEF ly
  <2> QED BY <1>5, <1>8, SizeTypes
<1> HIDE DEF ly
<1> QED BY <1>2, <1>3, <1>10, <1>11, <1>12, <1>13

\* The magnitude of such a page: it is defined, and there is only one.
LEMMA MagnitudeFacts ==
    ASSUME NEW bs \in Nat, bs >= Pointer, NEW n \in Nat, n >= 1,
           PageHeader + n * bs + Overhead <= Pow2[W - 1]
    PROVE  LET size == BA_PAGESIZE(Made(bs, n))
           IN  /\ Magnitudes(size) = {Log(size)}
               /\ Log(size) \in Nat
               /\ size < Pow2[Log(size)] /\ Pow2[Log(size)] <= 2 * size
<1> DEFINE size == BA_PAGESIZE(Made(bs, n))
           foot == Footprint(Made(bs, n))
<1>1. size \in Nat /\ size >= 1
  BY MadeFacts
<1>2. foot = size + Overhead
  BY DEF Footprint
<1>3. PICK k \in 1 .. (W - 1) : foot <= Pow2[k]
  BY MadeFacts
<1> HIDE DEF size, foot
<1>4. Pow2[k] \in Nat /\ Pow2[k] <= Pow2[W - 1]
  BY WordPowers
<1>5. size < Pow2[W - 1] /\ size < Pow2[W]
  BY <1>1, <1>2, <1>3, <1>4, SizeTypes
<1>6. UInt(size) = size
  BY <1>1, <1>5, WordsFit
<1>7. /\ round_up32(size) = Pow2[Log(size)] /\ Log(size) \in 1 .. (W - 1)
      /\ Pow2[Log(size)] \in Nat
      /\ size < Pow2[Log(size)] /\ Pow2[Log(size)] <= 2 * size
  BY <1>1, <1>5, RoundingFacts
<1>8. round_up32(size) # 0
  <2> DEFINE p == Pow2[Log(size)]
  <2> HIDE DEF p
  <2>1. p \in Nat /\ size < p /\ round_up32(size) = p
    BY <1>7 DEF p
  <2> QED BY <1>1, <2>1
<1>9. Magnitudes(size) = {Log(size)}
  BY <1>6, <1>8 DEF Magnitudes
<1>10. Log(size) \in Nat
  BY <1>7, SizeTypes
<1> QED BY <1>7, <1>9, <1>10 DEF size

----------------------------------------------------------------------------
(* What ba_init does, once and again *)

\* The layout is what was asked for until ba_init has run, and the one it makes of
\* that from then on.
LayoutIInv ==
    /\ asked \in [block_size : BlockSizes, blocks : BlockNumbers]
    /\ inits \in 0 .. 2
    /\ inits = 0 => l = [block_size |-> asked.block_size, blocks |-> asked.blocks,
                         offset |-> 0]
    /\ Sane => /\ l = Made(Wanted.block_size, Wanted.blocks)
               /\ magnitude = Log(BA_PAGESIZE(l))

\* A request that fits.
Fits == PageHeader + Wanted.blocks * Wanted.block_size + Overhead <= Pow2[W - 1]

LEMMA WantedFacts ==
    ASSUME asked \in [block_size : BlockSizes, blocks : BlockNumbers]
    PROVE  /\ Wanted.block_size \in Nat /\ Wanted.block_size >= Pointer
           /\ Wanted.blocks \in Nat /\ Wanted.blocks >= 1
           /\ Made(asked.block_size, asked.blocks)
                  = Made(Wanted.block_size, Wanted.blocks)
<1> DEFINE bs == asked.block_size
           n == asked.blocks
           wb == Wanted.block_size
           wn == Wanted.blocks
<1>1. bs \in Nat /\ n \in Nat
  <2>1. BlockSizes \subseteq Nat /\ BlockNumbers \subseteq Nat
    BY RequestAssumption, SizeTypes
  <2>2. bs \in BlockSizes /\ n \in BlockNumbers
    OBVIOUS
  <2> QED BY <2>1, <2>2
<1>2. wb = (IF bs < Pointer THEN Pointer ELSE bs) /\ wn = (IF n = 0 THEN DefaultBlocks ELSE n)
  BY DEF Wanted
<1> HIDE DEF bs, n, wb, wn
<1>3. wb \in Nat /\ wb >= Pointer /\ wn \in Nat /\ wn >= 1
  BY <1>1, <1>2, SizeTypes
<1>4. ~(wb < Pointer) /\ wn # 0
  BY <1>3, SizeTypes
<1>5. Made(bs, n) = ba_align_layout(ba_init_layout(wb, wn))
  BY <1>2 DEF Made
<1>6. Made(wb, wn) = ba_align_layout(ba_init_layout(wb, wn))
  BY <1>4 DEF Made
<1> QED BY <1>3, <1>5, <1>6 DEF bs, n, wb, wn

LEMMA InitLayoutIInv == LayoutInit => LayoutIInv
<1> SUFFICES ASSUME LayoutInit PROVE LayoutIInv
  OBVIOUS
<1>1. inits = 0 /\ ~Sane
  BY DEF LayoutInit, Sane
<1> QED BY <1>1 DEF LayoutInit, LayoutIInv

\* ba_init keeps the invariant, and changes nothing when it has run before.
LEMMA MadeStep ==
    ASSUME LayoutIInv, ba_init
    PROVE  LayoutIInv' /\ (Sane => l' = l /\ magnitude' = magnitude)
<1> USE DEF LayoutIInv, ba_init
<1> DEFINE bs == Wanted.block_size
           n == Wanted.blocks
           made == Made(bs, n)
<1>1. asked' = asked /\ Wanted' = Wanted
  BY DEF Wanted
<1>2. inits \in Nat /\ inits < 2 /\ inits' = inits + 1
  OBVIOUS
<1>3. inits' \in 0 .. 2 /\ inits' # 0 /\ inits' > 0
  BY <1>2
<1>4. /\ bs \in Nat /\ bs >= Pointer /\ n \in Nat /\ n >= 1
      /\ Made(asked.block_size, asked.blocks) = made
  BY WantedFacts
<1> HIDE DEF bs, n, made
<1>5. Fits' = Fits
  BY <1>1 DEF Fits
<1>6. (Sane <=> inits > 0 /\ Fits) /\ (Sane' <=> Fits)
  BY <1>3, <1>5 DEF Sane, Fits
<1>7. ASSUME Fits
      PROVE  /\ l' = made /\ magnitude' = Log(BA_PAGESIZE(made))
             /\ Sane => l' = l /\ magnitude' = magnitude
  <2>1. PageHeader + n * bs + Overhead <= Pow2[W - 1]
    BY <1>7 DEF Fits, bs, n
  <2>2. made.block_size = bs /\ Made(bs, made.blocks) = made
    BY <1>4, <2>1, MadeFacts DEF made
  <2>3. Magnitudes(BA_PAGESIZE(made)) = {Log(BA_PAGESIZE(made))}
    BY <1>4, <2>1, MagnitudeFacts DEF made
  <2>4. CASE inits = 0
    <3>1. ~Sane
      BY <1>6, <2>4
    <3>2. l.block_size = asked.block_size /\ l.blocks = asked.blocks
      BY <2>4
    <3>3. l' = made
      BY <1>4, <3>2
    <3> QED BY <2>3, <3>1, <3>3
  <2>5. CASE inits # 0
    <3>1. Sane
      BY <1>2, <1>6, <1>7, <2>5
    <3>2. l = made /\ magnitude = Log(BA_PAGESIZE(made))
      BY <3>1 DEF made, bs, n
    <3>3. l' = made
      BY <2>2, <3>2
    <3> QED BY <2>3, <3>2, <3>3
  <2> QED BY <2>4, <2>5
<1>8. Sane' => /\ l' = Made(Wanted'.block_size, Wanted'.blocks)
               /\ magnitude' = Log(BA_PAGESIZE(l'))
  BY <1>1, <1>6, <1>7 DEF made, bs, n
<1>9. LayoutIInv'
  BY <1>1, <1>3, <1>8
<1> QED BY <1>6, <1>7, <1>9

LEMMA LayoutStep == LayoutIInv /\ [ba_init]_layoutVars => LayoutIInv'
<1>1. ASSUME LayoutIInv, ba_init PROVE LayoutIInv'
  BY <1>1, MadeStep
<1>2. ASSUME LayoutIInv, UNCHANGED layoutVars PROVE LayoutIInv'
  BY <1>2 DEF LayoutIInv, layoutVars, Sane, Wanted
<1> QED BY <1>1, <1>2

THEOREM LayoutInvariance == LayoutSpec => []LayoutIInv
<1> QED BY InitLayoutIInv, LayoutStep, PTL DEF LayoutSpec

\* ba_align_layout: a page and malloc's overhead fill a power of two but for less than
\* a block, and hold what was asked for, for words, headers and sizes of any width.
THEOREM LayoutFillsPowers == LayoutSpec => []PagesFillPowers
<1>1. ASSUME LayoutIInv PROVE PagesFillPowers
  <2> SUFFICES ASSUME Sane
      PROVE  /\ l.block_size = Wanted.block_size
             /\ l.blocks >= Wanted.blocks
             /\ l.offset = PageHeader + (l.blocks - 1) * l.block_size
             /\ \E k \in 1 .. (W - 1) : /\ Footprint(l) <= Pow2[k]
                                        /\ Pow2[k] < Footprint(l) + l.block_size
    BY DEF PagesFillPowers
  <2> DEFINE bs == Wanted.block_size
             n == Wanted.blocks
  <2>1. l = Made(bs, n)
    BY <1>1 DEF LayoutIInv
  <2>2. bs \in Nat /\ bs >= Pointer /\ n \in Nat /\ n >= 1
    BY <1>1, WantedFacts DEF LayoutIInv
  <2>3. PageHeader + n * bs + Overhead <= Pow2[W - 1]
    BY DEF Sane
  <2> HIDE DEF bs, n
  <2>4. /\ l.block_size = bs /\ l.blocks >= n
        /\ l.offset = PageHeader + (l.blocks - 1) * bs
        /\ \E k \in 1 .. (W - 1) : Footprint(l) <= Pow2[k] /\ Pow2[k] < Footprint(l) + bs
    BY <2>1, <2>2, <2>3, MadeFacts
  <2> QED BY <2>4 DEF bs, n
<1> QED BY <1>1, LayoutInvariance, PTL

\* ba_init's magnitude: a key of the hash table spans a page and at most two.
THEOREM LayoutMagnitudeCovers == LayoutSpec => []MagnitudeCoversPage
<1>1. ASSUME LayoutIInv PROVE MagnitudeCoversPage
  <2> SUFFICES ASSUME Sane
      PROVE  /\ BA_PAGESIZE(l) < Pow2[magnitude]
             /\ Pow2[magnitude] <= 2 * BA_PAGESIZE(l)
    BY DEF MagnitudeCoversPage
  <2> DEFINE bs == Wanted.block_size
             n == Wanted.blocks
  <2>1. l = Made(bs, n) /\ magnitude = Log(BA_PAGESIZE(l))
    BY <1>1 DEF LayoutIInv
  <2>2. bs \in Nat /\ bs >= Pointer /\ n \in Nat /\ n >= 1
    BY <1>1, WantedFacts DEF LayoutIInv
  <2>3. PageHeader + n * bs + Overhead <= Pow2[W - 1]
    BY DEF Sane
  <2> HIDE DEF bs, n
  <2> QED BY <2>1, <2>2, <2>3, MagnitudeFacts
<1> QED BY <1>1, LayoutInvariance, PTL

LEMMA QuotientsAreNeighbours ==
    ASSUME NEW m \in Nat, NEW x \in Nat, NEW d \in Nat, d < m
    PROVE  ((x + d) \div m) - (x \div m) \in {0, 1}
<1> DEFINE q == x \div m
           y == x + d
           r == y \div m
<1>1. m >= 1 /\ y \in Nat
  OBVIOUS
<1>2. q \in Nat /\ q * m <= x /\ x < q * m + m
  BY <1>1, Quotient
<1>3. r \in Nat /\ r * m <= y /\ y < r * m + m
  <2> HIDE DEF y
  <2> QED BY <1>1, Quotient
<1>4. q * m \in Nat /\ (q + 1) * m = q * m + m /\ y < q * m + 2 * m
  BY <1>2
<1>5. CASE y < q * m + m
  <2>1. q * m <= y
    BY <1>2
  <2>2. q = r
    <3> HIDE DEF q, r, y
    <3> QED BY <1>1, <1>2, <1>3, <1>5, <2>1, QuotientIs
  <2> QED BY <1>2, <2>2
<1>6. CASE ~(y < q * m + m)
  <2> DEFINE p == q + 1
  <2>1. p \in Nat /\ p * m <= y /\ y < p * m + m
    BY <1>2, <1>4, <1>6
  <2>2. p = r
    <3> HIDE DEF p, q, r, y
    <3> QED BY <1>1, <1>3, <2>1, QuotientIs
  <2> QED BY <1>2, <2>2
<1> QED BY <1>5, <1>6

\* ba_htable_lookup: an address in a page has the key of the page's first byte or the
\* next one, which is what PageTable assumes of keys.
THEOREM LayoutKeysAreNeighbours == LayoutSpec => []PageKeysAreNeighbours
<1>1. ASSUME LayoutIInv, MagnitudeCoversPage PROVE PageKeysAreNeighbours
  <2> SUFFICES ASSUME Sane, NEW first \in Nat, NEW offset \in 0 .. (BA_PAGESIZE(l) - 1)
      PROVE  Key(first + offset) - Key(first) \in {0, 1}
    BY DEF PageKeysAreNeighbours
  <2> DEFINE bs == Wanted.block_size
             n == Wanted.blocks
             size == BA_PAGESIZE(l)
             span == Pow2[magnitude]
  <2>1. l = Made(bs, n) /\ magnitude = Log(size)
    BY <1>1 DEF LayoutIInv
  <2>2. bs \in Nat /\ bs >= Pointer /\ n \in Nat /\ n >= 1
    BY <1>1, WantedFacts DEF LayoutIInv
  <2>3. PageHeader + n * bs + Overhead <= Pow2[W - 1]
    BY DEF Sane
  <2>4. size < span
    BY <1>1 DEF MagnitudeCoversPage
  <2> HIDE DEF bs, n
  <2>5. size \in Nat /\ magnitude \in Nat
    BY <2>1, <2>2, <2>3, MadeFacts, MagnitudeFacts
  <2>6. span \in Nat
    BY <2>5, PowerTypes
  <2>7. offset \in 0 .. (size - 1)
    OBVIOUS
  <2>8. Key(first + offset) = (first + offset) \div span /\ Key(first) = first \div span
    BY DEF Key
  <2> HIDE DEF size, span
  <2>9. offset \in Nat /\ offset < span
    BY <2>4, <2>5, <2>6, <2>7
  <2> QED BY <2>6, <2>8, <2>9, QuotientsAreNeighbours
<1> QED BY <1>1, LayoutInvariance, LayoutMagnitudeCovers, PTL

\* ba_init after ba_destroy makes the layout it made before.
THEOREM LayoutSurvivesReinit == LayoutSpec => ReinitKeepsLayout
<1>1. LayoutIInv /\ [ba_init]_layoutVars
          => [Sane => l' = l /\ magnitude' = magnitude]_layoutVars
  <2>1. ASSUME LayoutIInv, ba_init PROVE Sane => l' = l /\ magnitude' = magnitude
    BY <2>1, MadeStep
  <2> QED BY <2>1
<1> QED BY <1>1, LayoutInvariance, PTL DEF LayoutSpec, ReinitKeepsLayout

\* The doubling loop ends at the least size that will do, and no size on the way is
\* cut off.
LEMMA DoublingFacts ==
    ASSUME NEW b \in Nat, b >= 1, NEW n \in Nat, b < n, n <= Pow2[W - 1]
    PROVE  /\ DoublingEnds(b, n)
           /\ DoubledBlocks(b, n) \in Nat
           /\ DoubledBlocks(b, n) >= n
           /\ DoubledBlocks(b, n) < 2 * n
<1> DEFINE D(k) == b * Pow2[k]
           T == {k \in Nat : D(k + 1) >= n}
<1>1. ASSUME NEW k \in Nat
      PROVE  /\ Pow2[k] \in Nat /\ Pow2[k + 1] \in Nat
             /\ D(k) \in Nat /\ D(k + 1) \in Nat /\ D(k + 1) = 2 * D(k)
  <2>1. Pow2[k] \in Nat /\ Pow2[k + 1] \in Nat /\ Pow2[k + 1] = 2 * Pow2[k]
    BY PowerSteps, PowerTypes
  <2> QED BY <2>1
<1>2. D(0) = b
  BY PowerSteps
<1>3. W \in T /\ T \in SUBSET Nat
  <2>1. Pow2[W + 1] = 2 * Pow2[W] /\ Pow2[W + 1] \in Nat
    BY PowerSteps, PowerTypes, SizeTypes
  <2>2. Pow2[W + 1] >= n
    BY <2>1, SizeTypes
  <2>3. b * Pow2[W + 1] >= Pow2[W + 1]
    <3>1. b - 1 \in Nat
      OBVIOUS
    <3>2. (b - 1) * Pow2[W + 1] \in Nat
      BY <2>1, <3>1
    <3> QED BY <2>1, <3>2
  <2>4. D(W + 1) >= n
    BY <1>1, <2>1, <2>2, <2>3, SizeTypes
  <2> QED BY <2>4, SizeTypes
<1>4. PICK m \in T : \A i \in T : m <= i
  <2> HIDE DEF T
  <2> QED BY <1>3, Least
<1>5. m \in Nat /\ m <= W /\ D(m + 1) >= n
  BY <1>3, <1>4
<1>6. \A j \in Nat : j < m => D(j + 1) < n
  <2> SUFFICES ASSUME NEW j \in Nat, j < m PROVE D(j + 1) < n
    OBVIOUS
  <2>1. j \notin T
    BY <1>4, <1>5
  <2> QED BY <1>1, <2>1
<1> HIDE DEF D, T
<1>7. D(m) < n
  <2>1. CASE m = 0
    BY <1>2, <2>1
  <2>2. CASE m # 0
    <3>1. m - 1 \in Nat /\ m - 1 < m /\ (m - 1) + 1 = m
      BY <1>5, <2>2
    <3> QED BY <1>6, <3>1
  <2> QED BY <2>1, <2>2
<1>8. /\ D(m) \in Nat /\ D(m + 1) \in Nat
      /\ D(m + 1) < 2 * n /\ D(m + 1) < Pow2[W]
  <2>1. D(m) \in Nat /\ D(m + 1) \in Nat /\ D(m + 1) = 2 * D(m)
    BY <1>1, <1>5
  <2> QED BY <1>7, <2>1, SizeTypes
<1>9. ASSUME NEW k \in Nat, D(k + 1) < Pow2[W]
      PROVE  AfterDoublings(b, k) = D(k + 1)
  <2>1. D(k + 1) \in Nat
    BY <1>1
  <2>2. UInt(D(k + 1)) = D(k + 1)
    BY <1>9, <2>1, WordsFit
  <2> QED BY <2>2 DEF AfterDoublings, D
<1>10. AfterDoublings(b, m) = D(m + 1)
  BY <1>5, <1>8, <1>9
<1>11. \A j \in Nat : j < m => AfterDoublings(b, j) < n
  <2> SUFFICES ASSUME NEW j \in Nat, j < m PROVE AfterDoublings(b, j) < n
    OBVIOUS
  <2>1. D(j + 1) < n /\ D(j + 1) \in Nat
    BY <1>1, <1>6
  <2>2. D(j + 1) < Pow2[W]
    BY <2>1, SizeTypes
  <2> QED BY <1>9, <2>1, <2>2
<1> DEFINE Ends(k) == /\ AfterDoublings(b, k) >= n
                      /\ \A j \in 0 .. (k - 1) : AfterDoublings(b, j) < n
           c == CHOOSE k \in 0 .. W : Ends(k)
<1>12. m \in 0 .. W /\ Ends(m)
  <2>1. m \in 0 .. W
    BY <1>5, SizeTypes
  <2>2. \A j \in 0 .. (m - 1) : j \in Nat /\ j < m
    BY <1>5
  <2> QED BY <1>5, <1>10, <1>11, <2>1, <2>2
<1>13. c \in 0 .. W /\ Ends(c)
  BY <1>12
<1>14. DoubledBlocks(b, n) = AfterDoublings(b, c)
  BY DEF DoubledBlocks
<1> HIDE DEF c
<1>15. c \in Nat
  BY <1>13, SizeTypes
<1>16. ~(c < m)
  <2>1. SUFFICES ASSUME c < m PROVE FALSE
    OBVIOUS
  <2>2. D(c + 1) < n /\ D(c + 1) \in Nat
    BY <1>1, <1>6, <1>15, <2>1
  <2>3. AfterDoublings(b, c) = D(c + 1)
    BY <1>9, <1>15, <2>2, SizeTypes
  <2> QED BY <1>13, <2>2, <2>3
<1>17. ~(m < c)
  <2>1. SUFFICES ASSUME m < c PROVE FALSE
    OBVIOUS
  <2>2. m \in 0 .. (c - 1)
    BY <1>5, <1>15, <2>1
  <2>3. AfterDoublings(b, m) < n
    BY <1>13, <2>2
  <2> QED BY <1>5, <1>8, <1>10, <2>3
<1>18. c = m
  BY <1>5, <1>15, <1>16, <1>17
<1>19. DoublingEnds(b, n)
  BY <1>12 DEF DoublingEnds
<1> QED BY <1>5, <1>8, <1>10, <1>14, <1>18, <1>19

\* ba_lreserve and ba_dreserve: the loop ends, and the layout they make has the blocks
\* wanted and is not cut off, for words and sizes of any width.
THEOREM LayoutReservationsFit == LayoutSpec => []ReservationsFit
<1>1. ASSUME LayoutIInv PROVE ReservationsFit
  <2> DEFINE bs == Wanted.block_size
             b == Wanted.blocks
  <2>1. bs \in Nat /\ bs >= 2 /\ b \in Nat /\ b >= 1
    BY <1>1, WantedFacts, SizeTypes DEF LayoutIInv
  <2>2. Reserved \subseteq Nat
    BY RequestAssumption, SizeTypes
  <2> SUFFICES ASSUME NEW n \in Reserved, b < n, n <= Pow2[W - 1]
      PROVE  /\ DoublingEnds(b, n)
             /\ 2 * n * bs <= Pow2[W] =>
                 \A blocks \in {DoubledBlocks(b, n), round_up32(n)} :
                    /\ blocks >= n
                    /\ BA_PAGESIZE(ba_init_layout(bs, blocks)) = PageHeader + blocks * bs
    BY DEF ReservationsFit
  <2> HIDE DEF bs, b
  <2>3. n \in Nat /\ n >= 1
    BY <2>1, <2>2
  <2>4. /\ DoublingEnds(b, n) /\ DoubledBlocks(b, n) \in Nat
        /\ DoubledBlocks(b, n) >= n /\ DoubledBlocks(b, n) < 2 * n
    BY <2>1, <2>3, DoublingFacts
  <2>5. ASSUME 2 * n * bs <= Pow2[W], NEW blocks \in {DoubledBlocks(b, n), round_up32(n)}
        PROVE  /\ blocks >= n
               /\ BA_PAGESIZE(ba_init_layout(bs, blocks)) = PageHeader + blocks * bs
    <3> DEFINE t == n * bs
    <3>1. t \in Nat /\ t >= 2 * n /\ 2 * t <= Pow2[W]
      <4>1. bs - 2 \in Nat
        BY <2>1
      <4>2. n * (bs - 2) \in Nat
        BY <2>3, <4>1
      <4>3. n * (bs - 2) = t - 2 * n /\ 2 * t = 2 * n * bs
        BY <2>1, <2>3
      <4>4. t \in Nat
        BY <2>1, <2>3
      <4>5. t >= 2 * n
        <5> DEFINE v == n * (bs - 2)
        <5>1. v \in Nat /\ v = t - 2 * n
          BY <4>2, <4>3
        <5> HIDE DEF t, v
        <5> QED BY <2>3, <4>4, <5>1
      <4>6. 2 * t <= Pow2[W]
        BY <2>5, <4>3
      <4> QED BY <4>4, <4>5, <4>6
    <3> HIDE DEF t
    <3>2. n < Pow2[W - 1]
      BY <2>3, <3>1, SizeTypes
    <3>3. blocks \in Nat /\ blocks >= n /\ blocks <= 2 * n
      <4>1. CASE blocks = DoubledBlocks(b, n)
        BY <2>3, <2>4, <4>1
      <4>2. CASE blocks = round_up32(n)
        <5>1. /\ round_up32(n) = Pow2[Log(n)] /\ Pow2[Log(n)] \in Nat
              /\ n < Pow2[Log(n)] /\ Pow2[Log(n)] <= 2 * n
          BY <2>3, <3>2, RoundingFacts
        <5> DEFINE p == Pow2[Log(n)]
        <5>2. blocks = p /\ p \in Nat /\ n < p /\ p <= 2 * n
          BY <4>2, <5>1
        <5> HIDE DEF p
        <5> QED BY <2>3, <5>2
      <4> QED BY <4>1, <4>2
    <3>4. blocks * bs <= 2 * t
      <4>1. 2 * n - blocks \in Nat
        BY <2>3, <3>3
      <4>2. (2 * n - blocks) * bs \in Nat
        BY <2>1, <4>1
      <4>3. (2 * n - blocks) * bs = 2 * t - blocks * bs
        BY <2>1, <2>3, <3>3 DEF t
      <4>4. blocks * bs \in Nat
        BY <2>1, <3>3
      <4> QED BY <3>1, <4>2, <4>3, <4>4
    <3>5. blocks * bs < Pow2[W] + bs
      <4>1. blocks * bs \in Nat
        BY <2>1, <3>3
      <4> QED BY <2>1, <3>1, <3>4, <4>1, SizeTypes
    <3>6. blocks >= 1 /\ bs >= 1
      BY <2>1, <2>3, <3>3
    <3>7. BA_PAGESIZE(ba_init_layout(bs, blocks)) = PageHeader + blocks * bs
      BY <2>1, <3>3, <3>5, <3>6, InitLayoutFacts
    <3> QED BY <3>3, <3>7
  <2> QED BY <2>4, <2>5
<1> QED BY <1>1, LayoutInvariance, PTL

----------------------------------------------------------------------------
(* The bit vector *)

LEMMA VectorTypes == WordBits \in Nat /\ WordBits >= 1 /\ ByteBits \in Nat /\ ByteBits >= 1
<1>1. PICK k \in 1 .. WordBits : WordBits = k * ByteBits
  BY VectorAssumption
<1>2. ByteBits \in Nat /\ ByteBits >= 1 /\ k \in Nat /\ k >= 1
  BY VectorAssumption, <1>1
<1>3. k * ByteBits \in Nat
  BY <1>2
<1>4. (k - 1) * ByteBits \in Nat
  BY <1>2
<1>5. k * ByteBits = (k - 1) * ByteBits + ByteBits
  BY <1>2
<1> QED BY <1>1, <1>2, <1>3, <1>4, <1>5

LEMMA LowestOf ==
    ASSUME NEW S \in SUBSET Nat, S # {}
    PROVE  Lowest(S) \in S /\ \A b \in S : Lowest(S) <= b
<1>1. \E m \in S : \A n \in S : m <= n
  BY Least
<1> QED BY <1>1 DEF Lowest

LEMMA LowestIs ==
    ASSUME NEW S \in SUBSET Nat, NEW m \in S, \A b \in S : m <= b
    PROVE  Lowest(S) = m
<1>1. Lowest(S) \in S /\ \A b \in S : Lowest(S) <= b
  BY LowestOf
<1>2. Lowest(S) \in Nat /\ m \in Nat /\ Lowest(S) <= m /\ m <= Lowest(S)
  BY <1>1
<1> QED BY <1>2

\* Bits of a lower word are lower.
LEMMA WordsAscend ==
    ASSUME NEW a \in Nat, NEW b \in Nat
    PROVE  /\ a \div WordBits \in Nat /\ b \div WordBits \in Nat
           /\ (a \div WordBits) * WordBits <= a
           /\ a <= b => a \div WordBits <= b \div WordBits
<1> DEFINE p == a \div WordBits
           q == b \div WordBits
<1>1. /\ p \in Nat /\ p * WordBits <= a /\ a < p * WordBits + WordBits
      /\ q \in Nat /\ q * WordBits <= b /\ b < q * WordBits + WordBits
  BY VectorTypes, Quotient
<1>2. ASSUME q < p PROVE b < a
  <2> HIDE DEF p, q
  <2>1. p - (q + 1) \in Nat
    BY <1>1, <1>2
  <2>2. (p - (q + 1)) * WordBits \in Nat
    BY <2>1, VectorTypes
  <2>3. (p - (q + 1)) * WordBits = p * WordBits - (q * WordBits + WordBits)
    BY <1>1, VectorTypes
  <2> DEFINE x == p * WordBits
             y == q * WordBits
  <2>4. x \in Nat /\ y \in Nat /\ x - (y + WordBits) \in Nat
    BY <1>1, <2>2, <2>3, VectorTypes
  <2>5. x <= a /\ b < y + WordBits
    BY <1>1
  <2> HIDE DEF x, y
  <2> QED BY <2>4, <2>5, VectorTypes
<1> HIDE DEF p, q
<1>3. a <= b => p <= q
  BY <1>1, <1>2
<1> QED BY <1>1, <1>3 DEF p, q

\* The scan over the words is defined.
LEMMA ScanExists ==
    ASSUME NEW v \in SUBSET Nat, NEW length \in Nat, NEW i \in Nat
    PROVE  \E f : f = [c \in Nat |->
                          IF Masked(v, c, i) # {} THEN Lowest(Masked(v, c, i))
                          ELSE IF c * WordBits >= length THEN NotFound ELSE f[c + 1]]
\* What the scan from word c finds is the least of these.
<1> DEFINE Seen(c) == {b \in v : /\ b >= i
                                 /\ \/ b \div WordBits = c
                                    \/ /\ b \div WordBits > c
                                       /\ (b \div WordBits - 1) * WordBits < length}
           f == [c \in Nat |-> IF Seen(c) = {} THEN NotFound ELSE Lowest(Seen(c))]
<1>1. ASSUME NEW c \in Nat, Masked(v, c, i) # {}
      PROVE  f[c] = Lowest(Masked(v, c, i))
  <2> DEFINE m == Lowest(Masked(v, c, i))
  <2>1. Masked(v, c, i) \in SUBSET Nat
    BY DEF Masked
  <2>2. m \in Masked(v, c, i) /\ \A b \in Masked(v, c, i) : m <= b
    BY <1>1, <2>1, LowestOf
  <2> HIDE DEF m
  <2>3. m \in v /\ m \in Nat /\ m >= i /\ m \div WordBits = c
    BY <2>2 DEF Masked
  <2>4. m \in Seen(c) /\ Seen(c) \in SUBSET Nat
    BY <2>3
  <2>5. ASSUME NEW b \in Seen(c) PROVE m <= b
    <3>1. b \in v /\ b \in Nat /\ b >= i
      OBVIOUS
    <3>2. CASE b \div WordBits = c
      <4>1. b \in Masked(v, c, i)
        BY <3>1, <3>2 DEF Masked
      <4> QED BY <2>2, <4>1
    <3>3. CASE b \div WordBits # c
      <4>1. b \div WordBits > c
        BY <3>3
      <4>2. b <= m => b \div WordBits <= m \div WordBits
        BY <2>3, <3>1, WordsAscend
      <4>3. b \div WordBits \in Nat
        BY <3>1, WordsAscend
      <4> QED BY <2>3, <3>1, <4>1, <4>2, <4>3
    <3> QED BY <3>2, <3>3
  <2>6. Lowest(Seen(c)) = m
    <3> HIDE DEF Seen
    <3> QED BY <2>4, <2>5, LowestIs
  <2>7. Seen(c) # {}
    BY <2>4
  <2> HIDE DEF Seen
  <2> QED BY <2>6, <2>7 DEF m
<1>2. ASSUME NEW c \in Nat, Masked(v, c, i) = {}, c * WordBits >= length
      PROVE  f[c] = NotFound
  <2>1. ASSUME NEW b \in Seen(c) PROVE FALSE
    <3>1. b \in v /\ b \in Nat /\ b >= i
      OBVIOUS
    <3>2. b \div WordBits # c
      BY <1>2, <3>1 DEF Masked
    <3>3. b \div WordBits > c /\ (b \div WordBits - 1) * WordBits < length
      BY <3>2
    <3> DEFINE d == b \div WordBits
    <3>4. d \in Nat
      BY <3>1, WordsAscend
    <3> HIDE DEF d
    <3>5. (d - 1) - c \in Nat
      BY <3>3, <3>4 DEF d
    <3>6. ((d - 1) - c) * WordBits \in Nat
      BY <3>5, VectorTypes
    <3>7. ((d - 1) - c) * WordBits = (d - 1) * WordBits - c * WordBits
      BY <3>4, VectorTypes
    <3>8. (d - 1) * WordBits < length
      BY <3>3 DEF d
    <3>9. c * WordBits \in Nat /\ (d - 1) * WordBits \in Int
      BY <3>4, VectorTypes
    <3> QED BY <1>2, <3>6, <3>7, <3>8, <3>9
  <2>2. Seen(c) = {}
    BY <2>1
  <2> HIDE DEF Seen
  <2> QED BY <2>2
<1>3. ASSUME NEW c \in Nat, Masked(v, c, i) = {}, ~(c * WordBits >= length)
      PROVE  f[c] = f[c + 1]
  <2>1. c + 1 \in Nat /\ c * WordBits \in Nat /\ c * WordBits < length
    BY <1>3, VectorTypes
  <2>2. ASSUME NEW b \in v, b >= i PROVE b \in Seen(c) <=> b \in Seen(c + 1)
    <3> DEFINE d == b \div WordBits
    <3>1. d \in Nat
      BY WordsAscend
    <3>2. d # c
      BY <1>3, <2>2 DEF Masked
    <3>3. d = c + 1 => (d - 1) * WordBits < length
      <4> HIDE DEF d
      <4>1. d = c + 1 => d - 1 = c
        BY <3>1
      <4> QED BY <2>1, <4>1
    <3>4. b \in Seen(c) <=> d = c \/ (d > c /\ (d - 1) * WordBits < length)
      BY <2>2
    <3>5. b \in Seen(c + 1) <=> d = c + 1 \/ (d > c + 1 /\ (d - 1) * WordBits < length)
      BY <2>2
    <3>6. d > c <=> d = c + 1 \/ d > c + 1
      <4> HIDE DEF d
      <4> QED BY <3>1, <3>2
    <3> HIDE DEF d, Seen
    <3> QED BY <3>2, <3>3, <3>4, <3>5, <3>6
  <2>3. Seen(c) = Seen(c + 1)
    BY <2>2
  <2> HIDE DEF Seen
  <2> QED BY <2>1, <2>3
<1> HIDE DEF f, Seen
<1>4. f = [c \in Nat |-> f[c]]
  BY DEF f
<1>5. \A c \in Nat : f[c] = IF Masked(v, c, i) # {} THEN Lowest(Masked(v, c, i))
                            ELSE IF c * WordBits >= length THEN NotFound ELSE f[c + 1]
  BY <1>1, <1>2, <1>3
<1>6. f = [c \in Nat |-> IF Masked(v, c, i) # {} THEN Lowest(Masked(v, c, i))
                         ELSE IF c * WordBits >= length THEN NotFound ELSE f[c + 1]]
  BY <1>4, <1>5
<1> QED BY <1>6

\* bv_ctz finds the first bit from i on that is set, if it is below length.
LEMMA CtzFacts ==
    ASSUME NEW v \in SUBSET Nat, NEW length \in Nat, NEW i \in Nat
    PROVE  LET rest == {b \in v : b >= i /\ b < length}
           IN  bv_ctz(v, length, i) = IF rest = {} THEN NotFound ELSE Lowest(rest)
<1> DEFINE rest == {b \in v : b >= i /\ b < length}
           M(c) == Masked(v, c, i)
           Scans(f) == f = [c \in Nat |->
                               IF M(c) # {} THEN Lowest(M(c))
                               ELSE IF c * WordBits >= length THEN NotFound ELSE f[c + 1]]
           scan == CHOOSE f : Scans(f)
           start == i \div WordBits
<1>1. Scans(scan)
  BY ScanExists
<1>2. bv_ctz(v, length, i) = IF scan[start] >= length THEN NotFound ELSE scan[start]
  BY DEF bv_ctz
<1>3. ASSUME NEW c \in Nat
      PROVE  scan[c] = IF M(c) # {} THEN Lowest(M(c))
                       ELSE IF c * WordBits >= length THEN NotFound ELSE scan[c + 1]
  <2> HIDE DEF scan, M
  <2> QED BY <1>1
<1>4. ASSUME NEW c \in Nat
      PROVE  /\ M(c) \in SUBSET v /\ M(c) \in SUBSET Nat
             /\ \A b \in M(c) : b \div WordBits = c /\ b >= i
             /\ \A b \in v : b >= i /\ b \div WordBits = c => b \in M(c)
  BY DEF Masked
<1>5. start \in Nat /\ i \in Nat
  BY WordsAscend
<1> HIDE DEF scan, M, start
<1>6. CASE rest # {}
  <2> DEFINE u == Lowest(rest)
  <2>1. rest \in SUBSET Nat
    OBVIOUS
  <2>2. u \in rest /\ \A b \in rest : u <= b
    BY <1>6, <2>1, LowestOf
  <2> HIDE DEF u
  <2>3. u \in v /\ u \in Nat /\ u >= i /\ u < length
    BY <2>2
  <2>4. \A b \in v : b >= i => u <= b
    <3> SUFFICES ASSUME NEW b \in v, b >= i PROVE u <= b
      OBVIOUS
    <3>1. b \in Nat
      OBVIOUS
    <3>2. CASE b < length
      BY <2>2, <3>2
    <3>3. CASE ~(b < length)
      BY <2>3, <3>1, <3>3
    <3> QED BY <3>2, <3>3
  <2> DEFINE last == u \div WordBits
  <2>5. last \in Nat /\ last * WordBits <= u /\ start <= last
    BY <1>5, <2>3, WordsAscend DEF start
\* The words from start up to the one that holds u come to u.
  <2> DEFINE T == {k \in Nat : k <= last /\ scan[last - k] # u /\ last - k >= start}
  <2>6. T = {}
    <3> SUFFICES ASSUME T # {} PROVE FALSE
      OBVIOUS
    <3>1. PICK k \in T : \A j \in T : k <= j
      <4>1. T \in SUBSET Nat
        OBVIOUS
      <4> HIDE DEF T
      <4> QED BY <4>1, Least
    <3> DEFINE c == last - k
    <3>2. k \in Nat /\ k <= last /\ scan[c] # u /\ c >= start
      OBVIOUS
    <3> HIDE DEF last
    <3>3. c \in Nat /\ c <= last
      BY <2>5, <3>2
    <3> HIDE DEF c
    <3>4. CASE k = 0
      <4>1. c = last
        BY <2>5, <3>4 DEF c
      <4>2. u \in M(c)
        BY <1>4, <2>3, <3>3, <4>1 DEF last
      <4>3. \A b \in M(c) : u <= b
        BY <1>4, <2>4, <3>3
      <4>4. Lowest(M(c)) = u
        BY <1>4, <3>3, <4>2, <4>3, LowestIs
      <4>5. scan[c] = u
        BY <1>3, <3>3, <4>2, <4>4
      <4> QED BY <3>2, <4>5
    <3>5. CASE k # 0
      <4>1. c < last /\ c + 1 \in Nat /\ c + 1 = last - (k - 1) /\ k - 1 \in Nat
        BY <2>5, <3>2, <3>5 DEF c
      <4>2. M(c) = {}
        <5> SUFFICES ASSUME NEW b \in M(c) PROVE FALSE
          OBVIOUS
        <5>1. b \in Nat /\ b \div WordBits = c /\ u <= b
          BY <1>4, <2>4, <3>3
        <5>2. last <= c
          BY <2>3, <5>1, WordsAscend DEF last
        <5> QED BY <2>5, <3>3, <4>1, <5>2
      <4>3. ~(c * WordBits >= length)
        <5>1. last - c \in Nat
          BY <2>5, <3>3, <4>1
        <5>2. (last - c) * WordBits \in Nat /\ c * WordBits \in Nat
          BY <3>3, <5>1, VectorTypes
        <5>3. (last - c) * WordBits = last * WordBits - c * WordBits
          BY <2>5, <3>3, VectorTypes
        <5> DEFINE x == c * WordBits
                   y == last * WordBits
        <5>4. x \in Nat /\ y - x \in Nat /\ y <= u
          BY <2>5, <5>2, <5>3
        <5>5. y \in Int
          BY <2>5, VectorTypes
        <5> HIDE DEF x, y
        <5>6. ~(x >= length)
          BY <2>3, <5>4, <5>5
        <5> QED BY <5>6 DEF x
      <4>4. scan[c] = scan[c + 1]
        BY <1>3, <3>3, <4>2, <4>3
      <4>5. k - 1 \in T
        <5>1. last - (k - 1) >= start /\ k - 1 <= last
          BY <1>5, <2>5, <3>2, <3>3, <4>1
        <5>2. scan[last - (k - 1)] # u
          BY <3>2, <4>1, <4>4
        <5> QED BY <4>1, <5>1, <5>2
      <4>6. k <= k - 1
        BY <3>1, <4>5
      <4> QED BY <3>2, <4>6
    <3> QED BY <3>4, <3>5
  <2>7. scan[start] = u
    <3> HIDE DEF last
    <3> DEFINE k == last - start
    <3>1. k \in Nat /\ k <= last /\ last - k = start /\ last - k >= start
      BY <1>5, <2>5
    <3> HIDE DEF k
    <3>2. k \notin T
      BY <2>6
    <3> QED BY <3>1, <3>2
  <2>8. ~(u >= length)
    BY <2>3
  <2> QED BY <1>2, <1>6, <2>7, <2>8 DEF u
<1>7. CASE rest = {}
  <2>1. \A b \in v : b >= i => b >= length
    <3> SUFFICES ASSUME NEW b \in v, b >= i PROVE b >= length
      OBVIOUS
    <3>1. b \in Nat /\ ~(b < length)
      BY <1>7
    <3> QED BY <3>1
\* The scan comes to its end at the word number length at the latest.
  <2> DEFINE Nothing(x) == x = NotFound \/ (x \in Nat /\ x >= length)
             T == {k \in Nat : k <= length /\ ~Nothing(scan[length - k])}
  <2>2. ASSUME NEW c \in Nat, M(c) # {} PROVE Nothing(scan[c])
    <3>1. Lowest(M(c)) \in M(c)
      BY <1>4, <2>2, LowestOf
    <3>2. Lowest(M(c)) \in v /\ Lowest(M(c)) >= i /\ Lowest(M(c)) \in Nat
      BY <1>4, <3>1
    <3>3. scan[c] = Lowest(M(c))
      BY <1>3, <2>2
    <3> QED BY <2>1, <3>2, <3>3
  <2>3. ASSUME NEW c \in Nat, M(c) = {}, c * WordBits >= length PROVE Nothing(scan[c])
    BY <1>3, <2>3
  <2>4. ASSUME NEW c \in Nat, c >= length PROVE Nothing(scan[c])
    <3>1. c * WordBits >= length
      <4>1. c * (WordBits - 1) \in Nat
        BY VectorTypes
      <4>2. c * (WordBits - 1) = c * WordBits - c
        BY VectorTypes
      <4> DEFINE x == c * WordBits
      <4>3. x - c \in Nat /\ x \in Int
        BY <4>1, <4>2, VectorTypes
      <4> HIDE DEF x
      <4>4. x >= length
        BY <2>4, <4>3
      <4> QED BY <4>4 DEF x
    <3> QED BY <2>2, <2>3, <3>1
  <2>5. T = {}
    <3> SUFFICES ASSUME T # {} PROVE FALSE
      OBVIOUS
    <3>1. PICK k \in T : \A j \in T : k <= j
      <4>1. T \in SUBSET Nat
        OBVIOUS
      <4> HIDE DEF T
      <4> QED BY <4>1, Least
    <3> DEFINE c == length - k
    <3>2. k \in Nat /\ k <= length /\ ~Nothing(scan[c])
      OBVIOUS
    <3>3. c \in Nat
      BY <3>2
    <3>4. k # 0
      BY <2>4, <3>2
    <3>5. k - 1 \in Nat /\ ~(k <= k - 1) /\ k - 1 <= length /\ length - (k - 1) = c + 1
      BY <3>2, <3>4
    <3> HIDE DEF c, Nothing
    <3>6. M(c) = {} /\ ~(c * WordBits >= length)
      BY <2>2, <2>3, <3>2, <3>3
    <3>7. scan[c] = scan[c + 1]
      BY <1>3, <3>3, <3>6
    <3>8. k - 1 \in T
      BY <3>2, <3>5, <3>7
    <3> QED BY <3>1, <3>5, <3>8
  <2>6. Nothing(scan[start])
    <3>1. CASE start >= length
      BY <1>5, <2>4, <3>1
    <3>2. CASE ~(start >= length)
      <4> DEFINE k == length - start
      <4>1. k \in Nat /\ k <= length /\ length - k = start
        BY <1>5, <3>2
      <4> HIDE DEF k, Nothing
      <4>2. k \notin T
        BY <2>5
      <4> QED BY <4>1, <4>2
    <3> QED BY <3>1, <3>2
  <2>7. (scan[start] = NotFound /\ ~(scan[start] >= length)) \/ scan[start] >= length
    BY <2>6 DEF NotFound
  <2> QED BY <1>2, <1>7, <2>7
<1> QED BY <1>6, <1>7

\* The vector is cut off behind the last bit that is not set, or is bit 0.
LEMMA TrimmedFacts ==
    ASSUME NEW v \in SUBSET Nat, NEW length \in Nat, length >= 1
    PROVE  Trimmed(v, length) = 1 + Highest({j \in 0 .. (length - 1) : j = 0 \/ j \notin v})
<1> DEFINE Unset(i) == {j \in 0 .. i : j = 0 \/ j \notin v}
           Goes(f) == f = [i \in Nat |-> IF i > 0 /\ bv_get(v, i) THEN f[i - 1] ELSE i]
           down == CHOOSE f : Goes(f)
<1>1. ASSUME NEW i \in Nat
      PROVE  /\ i > 0 /\ i \in v => i - 1 \in Nat /\ Unset(i) = Unset(i - 1)
             /\ ~(i > 0 /\ i \in v) => Highest(Unset(i)) = i
  <2>1. ASSUME i > 0, i \in v PROVE i - 1 \in Nat /\ Unset(i) = Unset(i - 1)
    <3>1. i - 1 \in Nat
      BY <2>1
    <3>2. \A j \in Nat : j \in 0 .. i <=> j \in 0 .. (i - 1) \/ j = i
      BY <3>1
    <3>3. 0 .. i \subseteq Nat /\ 0 .. (i - 1) \subseteq Nat
      BY <3>1
    <3>4. i # 0
      BY <2>1
    <3> QED BY <2>1, <3>1, <3>2, <3>3, <3>4
  <2>2. ASSUME ~(i > 0 /\ i \in v) PROVE Highest(Unset(i)) = i
    <3>1. i \in Unset(i)
      BY <2>2
    <3>2. i + 2 \in Layouts /\ Unset(i) \in SUBSET Blocks(i + 2)
      BY DEF Layouts, Blocks
    <3>3. \A j \in Unset(i) : j \in Nat /\ j <= i
      OBVIOUS
    <3> HIDE DEF Unset
    <3> DEFINE h == Highest(Unset(i))
    <3>4. h \in Unset(i) /\ \A j \in Unset(i) : j <= h
      BY <3>1, <3>2, HighestFacts
    <3> HIDE DEF h
    <3>5. h = i
      BY <3>1, <3>3, <3>4
    <3> QED BY <3>5 DEF h
  <2> QED BY <2>1, <2>2
<1>2. \E f : Goes(f)
  <2> DEFINE f == [i \in Nat |-> Highest(Unset(i))]
  <2>1. \A i \in Nat : f[i] = IF i > 0 /\ bv_get(v, i) THEN f[i - 1] ELSE i
    <3> SUFFICES ASSUME NEW i \in Nat
        PROVE  f[i] = IF i > 0 /\ bv_get(v, i) THEN f[i - 1] ELSE i
      OBVIOUS
    <3> HIDE DEF Unset
    <3>1. CASE i > 0 /\ i \in v
      BY <1>1, <3>1 DEF bv_get
    <3>2. CASE ~(i > 0 /\ i \in v)
      BY <1>1, <3>2 DEF bv_get
    <3> QED BY <3>1, <3>2
  <2>2. f = [i \in Nat |-> f[i]]
    OBVIOUS
  <2> HIDE DEF f
  <2>3. f = [i \in Nat |-> IF i > 0 /\ bv_get(v, i) THEN f[i - 1] ELSE i]
    BY <2>1, <2>2
  <2> QED BY <2>3
<1>3. Goes(down)
  <2> HIDE DEF Goes
  <2> QED BY <1>2
<1>4. Trimmed(v, length) = down[length - 1] + 1
  BY DEF Trimmed
<1>5. ASSUME NEW i \in Nat
      PROVE  down[i] = IF i > 0 /\ i \in v THEN down[i - 1] ELSE i
  <2> HIDE DEF down
  <2> QED BY <1>3 DEF bv_get
<1> HIDE DEF down, Unset
<1> DEFINE T == {i \in Nat : down[i] # Highest(Unset(i))}
<1>6. T = {}
  <2> SUFFICES ASSUME T # {} PROVE FALSE
    OBVIOUS
  <2>1. PICK i \in T : \A j \in T : i <= j
    <3>1. T \in SUBSET Nat
      OBVIOUS
    <3> HIDE DEF T
    <3> QED BY <3>1, Least
  <2>2. i \in Nat /\ down[i] # Highest(Unset(i))
    OBVIOUS
  <2>3. CASE i > 0 /\ i \in v
    <3>1. i - 1 \in Nat /\ ~(i <= i - 1)
      BY <2>2, <2>3
    <3>2. down[i] = down[i - 1] /\ Unset(i) = Unset(i - 1)
      BY <1>1, <1>5, <2>2, <2>3
    <3>3. i - 1 \in T
      BY <2>2, <3>1, <3>2
    <3> QED BY <2>1, <3>1, <3>3
  <2>4. CASE ~(i > 0 /\ i \in v)
    BY <1>1, <1>5, <2>2, <2>4
  <2> QED BY <2>3, <2>4
<1>7. length - 1 \in Nat
  OBVIOUS
<1>8. down[length - 1] = Highest(Unset(length - 1))
  BY <1>6, <1>7
<1>9. Highest(Unset(length - 1)) \in Nat
  <2>1. length + 1 \in Layouts /\ Unset(length - 1) \in SUBSET Blocks(length + 1)
    BY DEF Layouts, Blocks, Unset
  <2>2. 0 \in Unset(length - 1)
    BY DEF Unset
  <2>3. Highest(Unset(length - 1)) \in Unset(length - 1)
    BY <2>1, <2>2, HighestFacts
  <2> QED BY <1>7, <2>3 DEF Unset
<1> QED BY <1>4, <1>8, <1>9 DEF Unset

\* The states h of m steps F from x.
Iterated(h, S, x, F, m) == /\ h \in [0 .. m -> S] /\ h[0] = x
                           /\ \A k \in 1 .. m : h[k] = F[h[k - 1]]

\* Any number of steps can be taken from any state.
LEMMA Iterates ==
    ASSUME NEW S, NEW x \in S, NEW F \in [S -> S], NEW m \in Nat
    PROVE  \E h : Iterated(h, S, x, F, m)
<1> DEFINE Runs(h, n) == /\ h \in [0 .. n -> S] /\ h[0] = x
                         /\ \A k \in 1 .. n : h[k] = F[h[k - 1]]
           T == {n \in Nat : ~\E h : Runs(h, n)}
<1>1. T = {}
  <2> SUFFICES ASSUME T # {} PROVE FALSE
    OBVIOUS
  <2>1. PICK n \in T : \A j \in T : n <= j
    <3>1. T \in SUBSET Nat
      OBVIOUS
    <3> HIDE DEF T
    <3> QED BY <3>1, Least
  <2>2. n \in Nat /\ ~\E h : Runs(h, n)
    OBVIOUS
  <2>3. n # 0
    <3>1. Runs([k \in 0 .. 0 |-> x], 0)
      OBVIOUS
    <3> QED BY <2>2, <3>1
  <2>4. n - 1 \in Nat /\ ~(n <= n - 1)
    BY <2>2, <2>3
  <2>5. PICK h : Runs(h, n - 1)
    <3>1. n - 1 \notin T
      BY <2>1, <2>4
    <3> QED BY <2>4, <3>1
  <2> DEFINE g == [k \in 0 .. n |-> IF k = n THEN F[h[n - 1]] ELSE h[k]]
  <2>6. n - 1 \in 0 .. (n - 1) /\ h[n - 1] \in S
    BY <2>4, <2>5
  <2>7. g \in [0 .. n -> S]
    <3> SUFFICES ASSUME NEW k \in 0 .. n PROVE g[k] \in S
      OBVIOUS
    <3>1. CASE k = n
      BY <2>6, <3>1
    <3>2. CASE k # n
      <4>1. k \in 0 .. (n - 1)
        BY <2>4, <3>2
      <4> QED BY <2>5, <3>2, <4>1
    <3> QED BY <3>1, <3>2
  <2>8. g[0] = x
    BY <2>2, <2>3, <2>5
  <2>9. ASSUME NEW k \in 1 .. n PROVE g[k] = F[g[k - 1]]
    <3>1. k \in 0 .. n /\ k - 1 \in 0 .. n /\ k - 1 # n /\ k - 1 \in 0 .. (n - 1)
      BY <2>4
    <3>2. CASE k = n
      BY <3>1, <3>2
    <3>3. CASE k # n
      <4>1. k \in 1 .. (n - 1)
        BY <2>4, <3>3
      <4> QED BY <2>5, <3>1, <3>3, <4>1
    <3> QED BY <3>2, <3>3
  <2> HIDE DEF g
  <2>10. Runs(g, n)
    BY <2>7, <2>8, <2>9
  <2> QED BY <2>2, <2>10
<1>2. \E h : Runs(h, m)
  <2> HIDE DEF Runs
  <2> QED BY <1>1
<1> QED BY <1>2 DEF Iterated

\* X is the list of first, from its first block to the one that ends it, which may be
\* the one right behind the layout.
Walkable(n, w, first, X) ==
    /\ X \in SUBSET (0 .. n)
    /\ first \in X \cup {NULL}
    /\ \A c \in X : w[c] \in X \cup {NULL, ONE}
    /\ \A S \in SUBSET X :
           /\ first \in S \/ first = NULL
           /\ \A c \in S : w[c] \in S \cup {NULL, ONE}
           => S = X
    /\ first # NULL => \E c \in X : w[c] \in {NULL, ONE}

\* What a loop that has marked the blocks V and goes on with block b has found.
Walked(n, w, first, garbage, X, s, V) ==
    /\ V \in SUBSET X
    /\ s.b \in X \cup {NULL}
    /\ s.v = garbage \cup V
    /\ s.length \in Nat
    /\ s.overruns \in BOOLEAN
    /\ first \in V \cup {s.b}
    /\ \A c \in V : /\ w[c] \notin {NULL, ONE} => w[c] \in V \cup {s.b}
                    /\ w[c] \in {NULL, ONE} => s.b = NULL
                    /\ w[c] = ONE => s.length = c + 1
    /\ (\A c \in V : w[c] # ONE) => s.length = n
    /\ s.overruns <=> \E c \in V : c >= Bits(n)

\* One step of the loop.
Onward(n, w, s) ==
    [b        |-> IF w[s.b] = ONE THEN NULL ELSE w[s.b],
     v        |-> bv_set(s.v, s.b),
     length   |-> IF w[s.b] = ONE THEN s.b + 1 ELSE s.length,
     overruns |-> s.overruns \/ s.b >= Bits(n)]

\* A block that is reached was not reached before.
LEMMA NotMarkedTwice ==
    ASSUME NEW n \in Layouts, NEW w, NEW first, NEW garbage, NEW X, NEW s, NEW V,
           Walkable(n, w, first, X), Walked(n, w, first, garbage, X, s, V),
           s.b # NULL
    PROVE  s.b \in X /\ s.b \notin V
<1>1. s.b \in X
  BY DEF Walked
<1>2. ASSUME s.b \in V PROVE FALSE
  <2>1. first \in V /\ \A c \in V : w[c] \in V
    BY <1>2 DEF Walked
  <2>2. V = X
    BY <2>1 DEF Walkable, Walked
  <2>3. first # NULL
    <3>1. first \in 0 .. n
      BY <2>1, <2>2 DEF Walkable
    <3>2. first \in Nat
      BY <3>1, WordFacts
    <3> QED BY <3>2, WordAssumption
  <2>4. PICK c \in X : w[c] \in {NULL, ONE}
    BY <2>3 DEF Walkable
  <2> QED BY <2>2, <2>4 DEF Walked
<1> QED BY <1>1, <1>2

LEMMA OnwardFacts ==
    ASSUME NEW n \in Layouts, NEW w, NEW first, NEW garbage, NEW X, NEW s, NEW V,
           Walkable(n, w, first, X), Walked(n, w, first, garbage, X, s, V),
           s.b # NULL
    PROVE  Walked(n, w, first, garbage, X, Onward(n, w, s), V \cup {s.b})
<1> DEFINE b == s.b
           t == Onward(n, w, s)
           U == V \cup {b}
<1>1. b \in X /\ b \notin V /\ b \in Nat
  <2>1. b \in X /\ b \notin V
    BY NotMarkedTwice
  <2>2. X \in SUBSET (0 .. n) /\ 0 .. n \subseteq Nat
    BY WordFacts DEF Walkable
  <2> QED BY <2>1, <2>2
<1>2. /\ V \in SUBSET X /\ s.v = garbage \cup V /\ s.length \in Nat
      /\ s.overruns \in BOOLEAN /\ first \in V \cup {b}
      /\ \A c \in V : w[c] \notin {NULL, ONE} /\ w[c] \in V \cup {b}
      /\ s.length = n
      /\ s.overruns <=> \E c \in V : c >= Bits(n)
  BY DEF Walked
<1>3. /\ t.b = IF w[b] = ONE THEN NULL ELSE w[b]
      /\ t.v = s.v \cup {b}
      /\ t.length = IF w[b] = ONE THEN b + 1 ELSE s.length
      /\ t.overruns = (s.overruns \/ b >= Bits(n))
  BY DEF Onward, bv_set
<1>4. w[b] \in X \cup {NULL, ONE}
  BY <1>1 DEF Walkable
<1> HIDE DEF b, t
<1>5. U \in SUBSET X /\ t.b \in X \cup {NULL} /\ t.v = garbage \cup U
  BY <1>1, <1>2, <1>3, <1>4
<1>6. t.length \in Nat /\ t.overruns \in BOOLEAN
  BY <1>1, <1>2, <1>3
<1>7. first \in U \cup {t.b}
  BY <1>2
<1>8. NULL # ONE
  BY WordAssumption
<1>9. \A c \in U : /\ w[c] \notin {NULL, ONE} => w[c] \in U \cup {t.b}
                   /\ w[c] \in {NULL, ONE} => t.b = NULL
                   /\ w[c] = ONE => t.length = c + 1
  <2> SUFFICES ASSUME NEW c \in U
      PROVE  /\ w[c] \notin {NULL, ONE} => w[c] \in U \cup {t.b}
             /\ w[c] \in {NULL, ONE} => t.b = NULL
             /\ w[c] = ONE => t.length = c + 1
    OBVIOUS
  <2>1. CASE c \in V
    BY <1>2, <2>1
  <2>2. CASE c = b
    BY <1>3, <1>8, <2>2
  <2> QED BY <2>1, <2>2
<1>10. (\A c \in U : w[c] # ONE) => t.length = n
  BY <1>2, <1>3
<1>11. t.overruns <=> \E c \in U : c >= Bits(n)
  BY <1>2, <1>3
<1>12. Walked(n, w, first, garbage, X, t, U)
  BY <1>5, <1>6, <1>7, <1>9, <1>10, <1>11 DEF Walked
<1> QED BY <1>12 DEF b, t

\* The loop of ba_sort_list marks the blocks of the list and ends.
LEMMA MarkedFacts ==
    ASSUME NEW n \in Layouts, NEW w, NEW first, NEW garbage \in SUBSET Nat, NEW X,
           Walkable(n, w, first, X)
    PROVE  LET m == Marked(n, w, first, garbage)
           IN  /\ m.v = garbage \cup X
               /\ m.length \in Nat
               /\ \A c \in X : w[c] = ONE => m.length = c + 1
               /\ (\A c \in X : w[c] # ONE) => m.length = n
               /\ m.overruns \in BOOLEAN
               /\ m.overruns <=> \E c \in X : c >= Bits(n)
<1> DEFINE start == [b |-> first, v |-> garbage, length |-> n, overruns |-> FALSE]
           Next1(s) == IF s.b = NULL THEN s ELSE Onward(n, w, s)
           Steps(f) == f = [k \in 0 .. (n + 1) |-> IF k = 0 THEN start ELSE Next1(f[k - 1])]
           S == [b : X \cup {NULL}, v : SUBSET Nat, length : Nat, overruns : BOOLEAN]
           step == CHOOSE f : Steps(f)
<1>1. n \in Nat /\ n + 1 \in Nat /\ X \in SUBSET Nat /\ X \in SUBSET (0 .. n)
      /\ NULL \notin X /\ NULL # ONE
  <2>1. n \in Nat
    BY WordFacts
  <2>2. X \in SUBSET (0 .. n)
    BY DEF Walkable
  <2>3. X \in SUBSET Nat
    BY <2>1, <2>2
  <2>4. NULL \notin Nat /\ NULL # ONE
    BY WordAssumption
  <2>5. NULL \notin X
    BY <2>3, <2>4
  <2> QED BY <2>1, <2>2, <2>3, <2>4, <2>5
<1>2. start \in S
  BY <1>1 DEF Walkable
<1>3. ASSUME NEW s \in S PROVE Next1(s) \in S
  <2>1. CASE s.b = NULL
    BY <2>1
  <2>2. CASE s.b # NULL
    <3>1. /\ s.b \in X /\ s.b \in Nat /\ s.v \in SUBSET Nat
          /\ s.length \in Nat /\ s.overruns \in BOOLEAN
      BY <1>1, <2>2
    <3>2. w[s.b] \in X \cup {NULL, ONE}
      BY <3>1 DEF Walkable
    <3> DEFINE t == Onward(n, w, s)
    <3>3. t = [b |-> t.b, v |-> t.v, length |-> t.length, overruns |-> t.overruns]
      BY DEF Onward
    <3>4. t.b \in X \cup {NULL}
      BY <3>2 DEF Onward
    <3>5. t.v \in SUBSET Nat
      BY <3>1 DEF Onward, bv_set
    <3>6. t.length \in Nat
      BY <3>1 DEF Onward
    <3>7. t.overruns \in BOOLEAN
      BY <3>1 DEF Onward
    <3> HIDE DEF t
    <3>8. t \in S
      BY <3>3, <3>4, <3>5, <3>6, <3>7
    <3> QED BY <2>2, <3>8 DEF t
  <2> QED BY <2>1, <2>2
<1>4. \E f : Steps(f)
  <2> DEFINE F == [s \in S |-> Next1(s)]
  <2> HIDE DEF S, start, Next1
  <2>1. F \in [S -> S]
    BY <1>3
  <2> HIDE DEF F
  <2>6. PICK h : Iterated(h, S, start, F, n + 1)
    BY <1>1, <1>2, <2>1, Iterates
  <2>2. /\ h \in [0 .. (n + 1) -> S] /\ h[0] = start
        /\ \A k \in 1 .. (n + 1) : h[k] = F[h[k - 1]]
    BY <2>6 DEF Iterated
  <2>3. ASSUME NEW k \in 0 .. (n + 1)
        PROVE  h[k] = IF k = 0 THEN start ELSE Next1(h[k - 1])
    <3>1. CASE k = 0
      BY <2>2, <3>1
    <3>2. CASE k # 0
      <4>1. k \in 1 .. (n + 1) /\ k - 1 \in 0 .. (n + 1)
        BY <1>1, <3>2
      <4>2. h[k - 1] \in S
        BY <2>2, <4>1
      <4>3. F[h[k - 1]] = Next1(h[k - 1])
        BY <4>2 DEF F
      <4> QED BY <2>2, <3>2, <4>1, <4>3
    <3> QED BY <3>1, <3>2
  <2>4. h = [k \in 0 .. (n + 1) |-> h[k]]
    BY <2>2
  <2>5. h = [k \in 0 .. (n + 1) |-> IF k = 0 THEN start ELSE Next1(h[k - 1])]
    BY <2>3, <2>4
  <2> QED BY <2>5
<1>5. Steps(step)
  <2> HIDE DEF Steps
  <2> QED BY <1>4
<1>6. Marked(n, w, first, garbage) = step[n + 1]
  BY DEF Marked, Onward
<1>7. step[0] = start /\ \A k \in 1 .. (n + 1) : step[k] = Next1(step[k - 1])
  <2> HIDE DEF step, start, Next1
  <2>1. 0 \in 0 .. (n + 1) /\ \A k \in 1 .. (n + 1) : k \in 0 .. (n + 1) /\ k # 0
    BY <1>1
  <2> QED BY <1>5, <2>1
<1> DEFINE Good(k) == \E V : /\ Walked(n, w, first, garbage, X, step[k], V)
                             /\ step[k].b # NULL => Cardinality(V) = k
           T == {k \in Nat : k <= n + 1 /\ ~Good(k)}
<1> HIDE DEF step
<1>8. Good(0)
  <2>1. Walked(n, w, first, garbage, X, start, {})
    BY <1>1 DEF Walked, Walkable
  <2>2. Cardinality({}) = 0
    BY FS_EmptySet
  <2> QED BY <1>7, <2>1, <2>2
<1>9. ASSUME NEW k \in 1 .. (n + 1), Good(k - 1) PROVE Good(k)
  <2> DEFINE s == step[k - 1]
  <2>1. PICK V : /\ Walked(n, w, first, garbage, X, s, V)
                 /\ s.b # NULL => Cardinality(V) = k - 1
    BY <1>9
  <2>2. step[k] = Next1(s)
    BY <1>7
  <2> HIDE DEF s
  <2>3. CASE s.b = NULL
    <3>1. step[k] = s
      BY <2>2, <2>3
    <3> QED BY <2>1, <2>3, <3>1
  <2>4. CASE s.b # NULL
    <3>1. step[k] = Onward(n, w, s)
      BY <2>2, <2>4
    <3>2. Walked(n, w, first, garbage, X, step[k], V \cup {s.b})
      BY <2>1, <2>4, <3>1, OnwardFacts
    <3>3. s.b \notin V
      BY <2>1, <2>4, NotMarkedTwice
    <3>4. IsFiniteSet(V)
      <4>1. IsFiniteSet(0 .. n)
        BY <1>1, FS_Interval
      <4>2. V \subseteq 0 .. n
        BY <1>1, <2>1 DEF Walked
      <4> QED BY <4>1, <4>2, FS_Subset
    <3>5. Cardinality(V \cup {s.b}) = k
      <4>1. Cardinality(V \cup {s.b}) = Cardinality(V) + 1
        BY <3>3, <3>4, FS_AddElement
      <4>2. k \in Nat
        BY <1>1
      <4> QED BY <2>1, <2>4, <4>1, <4>2
    <3> QED BY <3>2, <3>5
  <2> QED BY <2>3, <2>4
<1> HIDE DEF Good
<1>10. T = {}
  <2> SUFFICES ASSUME T # {} PROVE FALSE
    OBVIOUS
  <2>1. PICK k \in T : \A j \in T : k <= j
    <3>1. T \in SUBSET Nat
      OBVIOUS
    <3> HIDE DEF T
    <3> QED BY <3>1, Least
  <2>2. k \in Nat /\ k <= n + 1 /\ ~Good(k)
    OBVIOUS
  <2>3. k # 0
    BY <1>8, <2>2
  <2>4. k \in 1 .. (n + 1) /\ k - 1 \in Nat /\ k - 1 <= n + 1 /\ ~(k <= k - 1)
    BY <1>1, <2>2, <2>3
  <2>5. Good(k - 1)
    BY <2>1, <2>4
  <2> QED BY <1>9, <2>2, <2>4, <2>5
<1>11. Good(n + 1)
  <2>1. n + 1 \notin T
    BY <1>10
  <2> QED BY <1>1, <2>1
<1> DEFINE m == step[n + 1]
<1>12. PICK V : Walked(n, w, first, garbage, X, m, V) /\ (m.b # NULL => Cardinality(V) = n + 1)
  BY <1>11 DEF Good
<1> HIDE DEF m
\* n + 1 different blocks from 0 to n leave no other.
<1>13. m.b = NULL
  <2> SUFFICES ASSUME m.b # NULL PROVE FALSE
    OBVIOUS
  <2>1. m.b \in X /\ m.b \notin V
    BY <1>12, NotMarkedTwice
  <2>2. IsFiniteSet(0 .. n) /\ Cardinality(0 .. n) = n + 1
    BY <1>1, FS_Interval
  <2>3. V \subseteq 0 .. n /\ V # 0 .. n
    BY <1>1, <1>12, <2>1 DEF Walked
  <2>4. Cardinality(V) = Cardinality(0 .. n)
    BY <1>12, <2>2
  <2> QED BY <2>2, <2>3, <2>4, FS_Subset
<1>14. V = X
  <2>1. V \in SUBSET X /\ (first \in V \/ first = NULL)
    BY <1>12, <1>13 DEF Walked
  <2>2. \A c \in V : w[c] \in V \cup {NULL, ONE}
    BY <1>12, <1>13 DEF Walked
  <2> QED BY <2>1, <2>2 DEF Walkable
<1>15. Marked(n, w, first, garbage) = m
  BY <1>6 DEF m
<1> QED BY <1>12, <1>14, <1>15 DEF Walked

\* The vector has a bit for every block.
LEMMA BitsFacts ==
    ASSUME NEW n \in Nat
    PROVE  /\ Bits(n) \in Nat /\ Bits(n) >= n
           /\ Behind(n) \in SUBSET Nat /\ \A b \in Behind(n) : b >= n
<1> DEFINE q == n \div ByteBits
           r == n % ByteBits
           bytes == q + (IF r = 0 THEN 0 ELSE 1)
           rest == bytes % WordBits
           all == bv_byte_length(n)
<1>1. q \in Nat /\ r \in Nat /\ n = q * ByteBits + r /\ r < ByteBits
  BY VectorTypes
<1> HIDE DEF q, r
<1>2. bytes \in Nat /\ bytes * ByteBits >= n
  <2>1. CASE r = 0
    <3>1. bytes = q
      BY <1>1, <2>1
    <3> QED BY <1>1, <2>1, <3>1, VectorTypes
  <2>2. CASE r # 0
    <3>1. bytes = q + 1
      BY <1>1, <2>2
    <3>2. (q + 1) * ByteBits = q * ByteBits + ByteBits /\ q * ByteBits \in Nat
      BY <1>1, VectorTypes
    <3> QED BY <1>1, <3>1, <3>2, VectorTypes
  <2> QED BY <2>1, <2>2
<1>3. all = IF rest = 0 THEN bytes ELSE bytes + WordBits - rest
  BY DEF bv_byte_length, q, r
<1> HIDE DEF bytes, all
<1>4. rest \in Nat /\ rest < WordBits
  BY <1>2, VectorTypes
<1> HIDE DEF rest
<1>5. all \in Nat /\ all >= bytes
  BY <1>2, <1>3, <1>4, VectorTypes
<1>6. all * ByteBits \in Nat /\ all * ByteBits >= n
  <2>1. all - bytes \in Nat
    BY <1>2, <1>5
  <2>2. (all - bytes) * ByteBits \in Nat
    BY <2>1, VectorTypes
  <2>3. (all - bytes) * ByteBits = all * ByteBits - bytes * ByteBits
    BY <1>2, <1>5, VectorTypes
  <2> DEFINE x == all * ByteBits
             y == bytes * ByteBits
  <2>4. x \in Nat /\ y \in Nat /\ x - y \in Nat /\ y >= n
    BY <1>2, <1>5, <2>2, <2>3, VectorTypes
  <2> HIDE DEF x, y
  <2>5. x \in Nat /\ x >= n
    BY <2>4
  <2> QED BY <2>5 DEF x
<1>7. Bits(n) \in Nat /\ Bits(n) >= n
  BY <1>6 DEF Bits, all
<1> QED BY <1>7, VectorTypes DEF Behind

\* What the sort in the vector does comes to what BlockList says of it.
LEMMA BitSortFacts ==
    ASSUME NEW n \in Layouts, NEW w, NEW first, NEW X,
           Walkable(n, w, first, X), Chain(n, w, first) = X \ {n},
           n \in X => w[n] = ONE,
           NEW garbage \in SUBSET Behind(n)
    PROVE  LET r == ba_sort_bits(n, w, first, garbage)
               s == ba_sort_list(n, w, first)
           IN  /\ r.first = s.first
               /\ r.link = s.link
               /\ r.overruns <=> n = Bits(n) /\ n \in X
<1> DEFINE C == Chain(n, w, first)
           marked == Marked(n, w, first, garbage)
           L == marked.length
           v == marked.v
           len == Length(n, w, first)
           K == Kept(n, w, first)
           tail == TailWord(n, len)
<1>1. /\ n \in Nat /\ n >= 2 /\ X \in SUBSET Nat /\ \A b \in X : b <= n
      /\ NULL \notin Nat
  <2>1. n \in Nat /\ n >= 2
    BY WordFacts
  <2>2. X \in SUBSET (0 .. n)
    BY DEF Walkable
  <2>3. NULL \notin Nat
    BY WordAssumption
  <2> QED BY <2>1, <2>2, <2>3
<1>2. /\ garbage \in SUBSET Nat /\ \A b \in garbage : b >= n /\ b >= Bits(n)
      /\ Bits(n) \in Nat /\ Bits(n) >= n
  <2>1. Bits(n) \in Nat /\ Bits(n) >= n
    BY <1>1, BitsFacts
  <2>2. garbage \in SUBSET Nat /\ \A b \in garbage : b >= n
    BY <1>1, BitsFacts
  <2>3. \A b \in Behind(n) : b >= Bits(n)
    BY <2>1, VectorTypes DEF Behind
  <2> QED BY <2>1, <2>2, <2>3
<1>3. /\ v = garbage \cup X
      /\ L \in Nat
      /\ \A c \in X : w[c] = ONE => L = c + 1
      /\ (\A c \in X : w[c] # ONE) => L = n
      /\ marked.overruns \in BOOLEAN
      /\ marked.overruns <=> \E c \in X : c >= Bits(n)
  BY <1>2, MarkedFacts
<1> HIDE DEF marked
<1>4. v \in SUBSET Nat
  BY <1>1, <1>2, <1>3
<1>5. C = X \ {n} /\ C \in SUBSET Nat /\ \A b \in C : b < n
  <2>1. C = X \ {n}
    OBVIOUS
  <2> HIDE DEF C
  <2> QED BY <1>1, <2>1
<1> HIDE DEF C, v, L
\* The end of the vector.
<1>6. L >= 1 /\ L <= n + 1 /\ (L = n + 1 => n \in X)
  <2>1. CASE \A c \in X : w[c] # ONE
    BY <1>1, <1>3, <2>1
  <2>2. CASE \E c \in X : w[c] = ONE
    <3>1. PICK c \in X : w[c] = ONE
      BY <2>2
    <3>2. c \in Nat /\ c <= n /\ L = c + 1
      BY <1>1, <1>3, <3>1
    <3>3. L = n + 1 => c = n
      BY <1>1, <3>2
    <3> QED BY <1>1, <3>1, <3>2, <3>3
  <2> QED BY <2>1, <2>2
<1>7. {j \in 0 .. (L - 1) : j = 0 \/ j \notin v} = Stays(n, w, first)
  <2>1. \A j \in 0 .. (L - 1) : j \in v <=> j \in X
    <3> SUFFICES ASSUME NEW j \in 0 .. (L - 1), j \in garbage PROVE j \in X
      BY <1>3
    <3>1. j \in Nat /\ j >= n /\ j <= L - 1
      BY <1>2
    <3>2. j = n /\ L = n + 1
      BY <1>1, <1>3, <1>6, <3>1
    <3> QED BY <1>6, <3>2
  <2>2. CASE n \notin X
    <3>1. C = X
      BY <1>5, <2>2
    <3>2. Last(n, w, first) = L - 1
      <4>1. CASE \A c \in X : w[c] # ONE
        <5>1. Lazy(n, w, first) = {}
          BY <3>1, <4>1 DEF Lazy, C
        <5> QED BY <1>3, <4>1, <5>1 DEF Last
      <4>2. CASE \E c \in X : w[c] = ONE
        <5>1. PICK c \in X : w[c] = ONE
          BY <4>2
        <5>2. c \in Nat /\ L = c + 1
          BY <1>1, <1>3, <5>1
        <5>3. \A d \in X : w[d] = ONE => d = c
          <6> SUFFICES ASSUME NEW d \in X, w[d] = ONE PROVE d = c
            OBVIOUS
          <6>1. d \in Nat /\ L = d + 1
            BY <1>1, <1>3
          <6> QED BY <5>2, <6>1
        <5>4. Lazy(n, w, first) = {c}
          BY <3>1, <5>1, <5>3 DEF Lazy, C
        <5>5. Lowest({c}) = c
          BY <5>2, LowestIs
        <5> QED BY <5>2, <5>4, <5>5 DEF Last
      <4> QED BY <4>1, <4>2
    <3> QED BY <2>1, <3>1, <3>2 DEF Stays, C
  <2>3. CASE n \in X
    <3>1. L = n + 1
      BY <1>3, <2>3
    <3>2. Lazy(n, w, first) = {}
      <4> SUFFICES ASSUME NEW c \in C, w[c] = ONE PROVE FALSE
        BY DEF Lazy, C
      <4>1. c \in X /\ c \in Nat /\ c < n
        BY <1>5
      <4>2. L = c + 1
        BY <1>3, <4>1
      <4> QED BY <1>1, <3>1, <4>1, <4>2
    <3>3. Last(n, w, first) = n - 1
      BY <3>2 DEF Last
    <3> DEFINE A == {j \in 0 .. (L - 1) : j = 0 \/ j \notin v}
    <3>4. \A j \in Nat : j \in 0 .. (L - 1) <=> j \in 0 .. (n - 1) \/ j = n
      BY <1>1, <3>1
    <3>5. n # 0 /\ n \in 0 .. (L - 1) /\ n \in v
      BY <1>1, <2>1, <2>3, <3>1
    <3>6. A \in SUBSET Nat /\ Stays(n, w, first) \in SUBSET Nat
      BY <1>1, <1>3, <3>3 DEF Stays
    <3>7. \A j \in 0 .. (n - 1) : j \in v <=> j \in C
      BY <1>1, <1>5, <2>1, <3>1
    <3>8. \A j \in Nat : j \in A <=> j \in 0 .. (n - 1) /\ (j = 0 \/ j \notin C)
      BY <3>4, <3>5, <3>7
    <3>9. \A j \in Nat : j \in Stays(n, w, first) <=> j \in 0 .. (n - 1) /\ (j = 0 \/ j \notin C)
      BY <3>3 DEF Stays, C
    <3> HIDE DEF A
    <3>10. A = Stays(n, w, first)
      BY <3>6, <3>8, <3>9
    <3> QED BY <3>10 DEF A
  <2> QED BY <2>2, <2>3
<1>8. Trimmed(v, L) = len
  <2>1. Trimmed(v, L) = 1 + Highest({j \in 0 .. (L - 1) : j = 0 \/ j \notin v})
    BY <1>3, <1>4, <1>6, TrimmedFacts
  <2> QED BY <1>7, <2>1 DEF Length
<1>9. len \in 1 .. n /\ len \in Nat /\ len <= n /\ K \in SUBSET Blocks(n)
  <2>1. len \in 1 .. n /\ K \in SUBSET Blocks(n)
    BY LengthFacts
  <2> HIDE DEF len, K
  <2> QED BY <1>1, <2>1
<1> HIDE DEF len
\* The bits that are found.
<1>10. ASSUME NEW j \in Nat
       PROVE  /\ {b \in v : b >= j /\ b < len} = {b \in K : b >= j}
              /\ bv_ctz(v, len, j) = IF {b \in K : b >= j} = {} THEN NotFound
                                     ELSE Lowest({b \in K : b >= j})
  <2>1. \A b \in Nat : b < len => (b \in v <=> b \in C)
    <3> SUFFICES ASSUME NEW b \in Nat, b < len PROVE b \in v <=> b \in C
      OBVIOUS
    <3>1. b < n /\ b # n
      BY <1>1, <1>9
    <3>2. b \notin garbage
      BY <1>1, <1>2, <3>1
    <3> QED BY <1>3, <1>5, <3>1, <3>2
  <2>2. K = {b \in C : b < len}
    BY DEF Kept, C, len
  <2>3. {b \in v : b >= j /\ b < len} = {b \in K : b >= j}
    BY <1>4, <1>5, <2>1, <2>2
  <2>4. bv_ctz(v, len, j) = IF {b \in v : b >= j /\ b < len} = {} THEN NotFound
                            ELSE Lowest({b \in v : b >= j /\ b < len})
    BY <1>4, <1>9, CtzFacts
  <2> QED BY <2>3, <2>4
<1>11. K \in SUBSET Nat /\ tail \notin K
  <2>1. K \in SUBSET Nat
    BY <1>9, WordFacts
  <2>2. \A b \in K : b < len
    BY DEF Kept, len
  <2> HIDE DEF K
  <2>3. tail = len \/ tail = NULL
    BY DEF TailWord
  <2> HIDE DEF tail
  <2>4. len \notin K
    BY <1>9, <2>2
  <2>5. NULL \notin K
    BY <1>1, <2>1
  <2> QED BY <2>1, <2>3, <2>4, <2>5
<1> HIDE DEF K
<1> DEFINE NextBit(j) == IF bv_ctz(v, len, j) = NotFound THEN tail ELSE bv_ctz(v, len, j)
           found == {bv_ctz(v, len, j) : j \in 0 .. n}
<1>12. ASSUME NEW j \in Nat PROVE NextBit(j) = From(K, tail, j)
  <2> DEFINE rest == {b \in K : b >= j}
  <2>1. CASE rest = {}
    BY <1>10, <2>1 DEF From
  <2>2. CASE rest # {}
    <3>1. rest \in SUBSET Nat
      BY <1>11
    <3>2. Lowest(rest) \in Nat
      <4> HIDE DEF rest
      <4> QED BY <2>2, <3>1, LowestOf
    <3>3. Lowest(rest) # NotFound
      BY <3>2 DEF NotFound
    <3>4. bv_ctz(v, len, j) = Lowest(rest)
      BY <1>10, <2>2
    <3>5. From(K, tail, j) = Lowest(rest)
      BY <2>2 DEF From
    <3> QED BY <3>3, <3>4, <3>5
  <2> QED BY <2>1, <2>2
<1>13. ASSUME NEW b \in Blocks(n) PROVE b \in found <=> b \in K
  <2>1. b \in Nat /\ b \in 0 .. n
    BY <1>1, WordFacts
  <2>2. ASSUME b \in K PROVE b \in found
    <3> DEFINE rest == {c \in K : c >= b}
    <3>1. rest \in SUBSET Nat /\ b \in rest /\ \A c \in rest : b <= c
      <4>1. rest \in SUBSET Nat
        BY <1>11
      <4>2. b \in rest
        BY <2>1, <2>2
      <4>3. \A c \in rest : b <= c
        BY <1>11, <2>1
      <4> QED BY <4>1, <4>2, <4>3
    <3>2. Lowest(rest) = b
      <4> HIDE DEF rest
      <4> QED BY <3>1, LowestIs
    <3>3. bv_ctz(v, len, b) = b
      BY <1>10, <2>1, <3>1, <3>2
    <3> QED BY <2>1, <3>3
  <2>3. ASSUME b \in found PROVE b \in K
    <3>1. PICK j \in 0 .. n : b = bv_ctz(v, len, j)
      BY <2>3
    <3> DEFINE rest == {c \in K : c >= j}
    <3>2. j \in Nat
      BY <1>1
    <3>3. b # NotFound
      BY <2>1 DEF NotFound
    <3>4. rest # {} /\ b = Lowest(rest)
      BY <1>10, <3>1, <3>2, <3>3
    <3>5. rest \in SUBSET Nat
      BY <1>11
    <3>6. b \in rest
      <4> HIDE DEF rest
      <4> QED BY <3>4, <3>5, LowestOf
    <3> QED BY <3>6
  <2> QED BY <2>2, <2>3
<1> DEFINE r == ba_sort_bits(n, w, first, garbage)
           s == ba_sort_list(n, w, first)
<1>14. tail = IF len < n THEN len ELSE NULL
  BY DEF TailWord
<1> HIDE DEF tail
<1>15. r = [first |-> NextBit(0),
            link |-> [b \in Blocks(n) |-> IF b = tail THEN ONE
                                          ELSE IF b \in found THEN NextBit(b + 1) ELSE w[b]],
            overruns |-> marked.overruns]
  <2>1. Trimmed(Marked(n, w, first, garbage).v, Marked(n, w, first, garbage).length) = len
    BY <1>8 DEF v, L, marked
  <2> QED BY <1>14, <2>1 DEF ba_sort_bits, v, marked
<1>16. /\ s.first = From(K, tail, 0)
       /\ s.link = [b \in Blocks(n) |-> CASE b = tail  -> ONE
                                          [] b \in K   -> From(K, tail, b + 1)
                                          [] OTHER     -> w[b]]
  BY SortParts DEF K, tail, len
<1> HIDE DEF NextBit, found, r, s
<1>17. r.first = s.first
  BY <1>12, <1>15, <1>16
<1>18. r.link = s.link
  <2>1. ASSUME NEW b \in Blocks(n)
        PROVE  (IF b = tail THEN ONE ELSE IF b \in found THEN NextBit(b + 1) ELSE w[b])
               = (CASE b = tail -> ONE [] b \in K -> From(K, tail, b + 1) [] OTHER -> w[b])
    <3>1. b + 1 \in Nat
      BY WordFacts
    <3>2. NextBit(b + 1) = From(K, tail, b + 1) /\ (b \in found <=> b \in K)
      BY <1>12, <1>13, <3>1
    <3>3. CASE b = tail
      BY <1>11, <3>3
    <3>4. CASE b # tail /\ b \in K
      BY <3>2, <3>4
    <3>5. CASE b # tail /\ b \notin K
      BY <3>2, <3>5
    <3> QED BY <3>3, <3>4, <3>5
  <2>2. r.link = [b \in Blocks(n) |-> IF b = tail THEN ONE
                                      ELSE IF b \in found THEN NextBit(b + 1) ELSE w[b]]
    BY <1>15
  <2> QED BY <1>16, <2>1, <2>2
<1>19. r.overruns <=> n = Bits(n) /\ n \in X
  <2>1. r.overruns = marked.overruns
    BY <1>15
  <2>2. (\E c \in X : c >= Bits(n)) <=> n = Bits(n) /\ n \in X
    BY <1>1, <1>2
  <2> QED BY <1>3, <2>1, <2>2
<1> QED BY <1>17, <1>18, <1>19 DEF r, s

\* A list that ends in its page can be walked.
LEMMA ListIsWalkable ==
    ASSUME NEW n \in Layouts, NEW w, NEW first \in Blocks(n) \cup {NULL},
           EndsWell(n, w, first),
           \A b \in Chain(n, w, first) : w[b] \in Blocks(n) \cup {NULL, ONE}
    PROVE  /\ Walkable(n, w, first, Chain(n, w, first))
           /\ n \notin Chain(n, w, first)
<1> DEFINE C == Chain(n, w, first)
<1>1. /\ C \in SUBSET Blocks(n) /\ (first \in Blocks(n) => first \in C)
      /\ \A c \in C : w[c] \in C \/ w[c] \notin Blocks(n)
  BY ChainFacts DEF Closed
<1>2. C \in SUBSET (0 .. n) /\ n \notin C
  BY <1>1, WordFacts DEF Blocks
<1>3. \A c \in C : w[c] \in C \cup {NULL, ONE}
  BY <1>1
<1>4. ASSUME NEW S \in SUBSET C, first \in S \/ first = NULL,
             \A c \in S : w[c] \in S \cup {NULL, ONE}
      PROVE  S = C
  <2>1. S \in SUBSET Blocks(n) /\ (first \in S \/ first \notin Blocks(n))
    BY <1>1, <1>4, WordFacts
  <2>2. Closed(n, w, S)
    BY <1>4, WordFacts DEF Closed
  <2>3. C \subseteq S
    BY <2>1, <2>2, ChainIsLeast
  <2> QED BY <2>3
<1>5. first # NULL => \E c \in C : w[c] \in {NULL, ONE}
  BY DEF EndsWell
<1>6. first \in C \cup {NULL}
  BY <1>1
<1> HIDE DEF C
<1>7. Walkable(n, w, first, C)
  BY <1>2, <1>3, <1>4, <1>5, <1>6 DEF Walkable
<1> QED BY <1>2, <1>7 DEF C

LEMMA WalkableSorts ==
    ASSUME NEW pg, pg.blocks \in Layouts, NEW X,
           Walkable(pg.blocks, pg.link, pg.h.first, X), Listed(pg) = X \ {pg.blocks},
           pg.blocks \in X => pg.link[pg.blocks] = ONE
    PROVE  SortsAlike(pg)
<1> DEFINE n == pg.blocks
           w == pg.link
           first == pg.h.first
<1>1. Chain(n, w, first) = X \ {n}
  BY DEF Listed
<1>2. n \in Layouts /\ Walkable(n, w, first, X) /\ (n \in X => w[n] = ONE)
      /\ Listed(pg) = X \ {n}
  OBVIOUS
<1> HIDE DEF n, w, first
<1>3. n \in Nat /\ n # NULL /\ n # ONE
  BY <1>2, WordFacts
<1>4. n \in X <=> n \in {first} \cup {w[b] : b \in X \ {n}}
  <2>1. ASSUME n \in X PROVE n \in {first} \cup {w[b] : b \in X \ {n}}
    <3> SUFFICES ASSUME n # first, \A b \in X \ {n} : w[b] # n PROVE FALSE
      OBVIOUS
    <3> DEFINE S == X \ {n}
    <3>1. S \in SUBSET X /\ S # X
      BY <2>1
    <3>2. first \in S \/ first = NULL
      BY <1>2 DEF Walkable
    <3>3. \A c \in S : w[c] \in S \cup {NULL, ONE}
      BY <1>2 DEF Walkable
    <3> HIDE DEF S
    <3> QED BY <1>2, <3>1, <3>2, <3>3 DEF Walkable
  <2>2. ASSUME n \in {first} \cup {w[b] : b \in X \ {n}} PROVE n \in X
    <3>1. CASE n = first
      BY <1>2, <1>3, <3>1 DEF Walkable
    <3>2. CASE \E b \in X \ {n} : n = w[b]
      BY <1>2, <1>3, <3>2 DEF Walkable
    <3> QED BY <2>2, <3>1, <3>2
  <2> QED BY <2>1, <2>2
<1>5. ASSUME NEW garbage \in SUBSET Behind(n)
      PROVE  LET r == ba_sort_bits(n, w, first, garbage)
                 s == ba_sort_list(n, w, first)
             IN  /\ r.first = s.first
                 /\ r.link = s.link
                 /\ r.overruns <=> n = Bits(n) /\ n \in X
  BY <1>1, <1>2, BitSortFacts
<1> QED BY <1>2, <1>4, <1>5 DEF SortsAlike, n, w, first

LEMMA PageSorts ==
    ASSUME NEW pg, IsPage(pg), WellLinked(pg.blocks, pg.link, pg.h)
    PROVE  SortsAlike(pg)
<1> DEFINE n == pg.blocks
           w == pg.link
           first == pg.h.first
           C == Chain(n, w, first)
<1>1. /\ n \in Layouts /\ w \in Links(n) /\ pg.h \in Header(n)
      /\ WellLinked(n, w, pg.h)
  BY DEF IsPage
<1>2. first \in Blocks(n) \cup {NULL}
  BY <1>1, FirstFacts DEF WellLinked
<1>3. EndsWell(n, w, first) /\ \A b \in C : w[b] \in Blocks(n) \cup {NULL, ONE}
  <2>1. C \subseteq Blocks(n)
    BY <1>1, ChainFacts
  <2>2. \A b \in Blocks(n) : w[b] \in Blocks(n) \cup {NULL, ONE, DATA}
    BY <1>1 DEF Links, Word
  <2> QED BY <1>1, <2>1, <2>2 DEF WellLinked
<1>4. Walkable(n, w, first, C) /\ n \notin C
  BY <1>1, <1>2, <1>3, ListIsWalkable
<1>5. Listed(pg) = C
  BY DEF Listed
<1> QED BY <1>1, <1>4, <1>5, WalkableSorts

\* A page that has just grown is seen through the layout it had: its list either ends
\* before the blocks behind that layout or goes on with the first of them.
LEMMA ExtendedSorts ==
    ASSUME NEW pg, IsPage(pg), WellLinked(pg.blocks, pg.link, pg.h),
           NEW m \in Layouts, pg.blocks < m
    PROVE  SortsAlike(Extended(pg, m))
<1> DEFINE n == pg.blocks
           w == pg.link
           first == pg.h.first
           e == Extended(pg, m)
           v == e.link
           g == e.h.first
           C == Chain(n, w, first)
<1>1. /\ n \in Layouts /\ w \in Links(n) /\ pg.h \in Header(n)
      /\ EndsWell(n, w, first) /\ \A b \in C : w[b] # DATA
  BY DEF IsPage, WellLinked
<1>2. /\ e.blocks = n /\ g = ExtendedFirst(n, first)
      /\ \A b \in C : v[b] = IF w[b] = NULL THEN n ELSE w[b]
      /\ (\A b \in C : w[b] # ONE) => v[n] = ONE
  <2>1. /\ e.blocks = n
        /\ e.h = [pg.h EXCEPT !.first = ExtendedFirst(n, first)]
        /\ \A b \in Listed(pg) : e.link[b] = IF pg.link[b] = NULL THEN n ELSE pg.link[b]
        /\ Linked(pg) => e.link[n] = ONE
    BY ExtendedFacts
  <2>2. g = ExtendedFirst(n, first)
    BY <1>1, <2>1 DEF Header
  <2> QED BY <2>1, <2>2 DEF Listed, Linked
<1>3. Chain(n, v, g) = C
  <2> HIDE DEF v, n, w, first, g
  <2> QED BY <1>1, <1>2, ExtendedShown DEF C
<1>4. Listed(e) = C
  BY <1>2, <1>3 DEF Listed
<1> HIDE DEF e, v, g, n, w, first
<1>5. /\ C \in SUBSET Blocks(n) /\ Closed(n, w, C)
      /\ first = NULL \/ (first \in Blocks(n) /\ first \in C)
      /\ \A b \in C : w[b] \in Blocks(n) \cup {NULL, ONE}
  <2>1. C \in SUBSET Blocks(n) /\ Closed(n, w, C)
    BY <1>1, ChainFacts
  <2>2. first = NULL \/ (first \in Blocks(n) /\ first \in C)
    BY <1>1, FirstFacts
  <2>3. \A b \in Blocks(n) : w[b] \in Blocks(n) \cup {NULL, ONE, DATA}
    BY <1>1 DEF Links, Word
  <2> QED BY <1>1, <2>1, <2>2, <2>3
<1>6. n \in Nat /\ n # NULL /\ n # ONE /\ n \notin Blocks(n)
      /\ NULL \notin Blocks(n) /\ ONE \notin Blocks(n) /\ NULL # ONE
  BY <1>1, WordFacts
<1>7. ASSUME NEW X, Walkable(n, v, g, X), C = X \ {n}, n \in X => v[n] = ONE
      PROVE  SortsAlike(e)
  <2> HIDE DEF C
  <2>1. /\ e.blocks \in Layouts /\ Walkable(e.blocks, e.link, e.h.first, X)
        /\ Listed(e) = X \ {e.blocks} /\ (e.blocks \in X => e.link[e.blocks] = ONE)
    BY <1>1, <1>2, <1>4, <1>7 DEF v, g
  <2> QED BY <2>1, WalkableSorts
<1>8. CASE \E c \in C : w[c] = ONE
  <2>1. PICK c \in C : w[c] = ONE
    BY <1>8
  <2>2. \A d \in C : w[d] # NULL
    <3> SUFFICES ASSUME NEW d \in C, w[d] = NULL PROVE FALSE
      OBVIOUS
    <3>1. c = d
      BY <1>1, <1>6, <2>1, OneEnd
    <3> QED BY <1>6, <2>1, <3>1
  <2>3. \A d \in C : v[d] = w[d]
    BY <1>2, <2>2
  <2>4. first \in Blocks(n) /\ g = first
    <3>1. first \in Blocks(n)
      BY <1>1, <2>1, NoChain
    <3> QED BY <1>2, <1>6, <3>1 DEF ExtendedFirst
  <2>5. EndsWell(n, v, g) /\ \A b \in Chain(n, v, g) : v[b] \in Blocks(n) \cup {NULL, ONE}
    BY <1>3, <1>5, <2>1, <2>3 DEF EndsWell
  <2>6. Walkable(n, v, g, C) /\ n \notin C
    BY <1>1, <1>3, <2>4, <2>5, ListIsWalkable
  <2> HIDE DEF C
  <2>7. C = C \ {n}
    BY <2>6
  <2> QED BY <1>7, <2>6, <2>7 DEF e
<1>9. CASE \A c \in C : w[c] # ONE
  <2> DEFINE X == C \cup {n}
  <2>1. v[n] = ONE /\ n \in X /\ n \notin C
    BY <1>2, <1>5, <1>6, <1>9
  <2>2. \A c \in C : /\ v[c] \in C \cup {n}
                     /\ v[c] # n => v[c] = w[c]
                     /\ w[c] # NULL => v[c] = w[c]
    <3> SUFFICES ASSUME NEW c \in C
                 PROVE  /\ v[c] \in C \cup {n}
                        /\ v[c] # n => v[c] = w[c]
                        /\ w[c] # NULL => v[c] = w[c]
      OBVIOUS
    <3>1. v[c] = IF w[c] = NULL THEN n ELSE w[c]
      BY <1>2
    <3>2. w[c] = NULL \/ w[c] \in C
      BY <1>5, <1>9 DEF Closed
    <3> QED BY <3>1, <3>2
  <2>3. g \in X /\ (g # n => g = first) /\ (first \in C => g = first) /\ (first = NULL => g = n)
    BY <1>2, <1>5, <1>6 DEF ExtendedFirst
  <2>4. ASSUME NEW S \in SUBSET X, g \in S \/ g = NULL,
               \A c \in S : v[c] \in S \cup {NULL, ONE}
        PROVE  S = X
    <3>1. g \in S
      BY <1>5, <1>6, <2>3, <2>4
    <3>2. C \subseteq S
      <4> DEFINE T == S \cap C
      <4>1. T \in SUBSET Blocks(n)
        BY <1>5
      <4>2. first \in T \/ first \notin Blocks(n)
        BY <1>5, <1>6, <2>3, <3>1
      <4>3. Closed(n, w, T)
        <5> SUFFICES ASSUME NEW c \in T, w[c] \in Blocks(n) PROVE w[c] \in T
          BY DEF Closed
        <5>1. w[c] \in C /\ w[c] # NULL /\ w[c] # ONE
          BY <1>5, <1>6 DEF Closed
        <5>2. v[c] = w[c]
          BY <2>2, <5>1
        <5>3. v[c] \in S \cup {NULL, ONE}
          BY <2>4
        <5> QED BY <5>1, <5>2, <5>3
      <4> HIDE DEF T
      <4>4. C \subseteq T
        BY <1>1, <4>1, <4>2, <4>3, ChainIsLeast
      <4> QED BY <4>4 DEF T
    <3>3. n \in S
      <4>1. CASE first = NULL
        BY <2>3, <3>1, <4>1
      <4>2. CASE first # NULL
        <5>1. PICK c \in C : w[c] \in {NULL, ONE}
          BY <1>1, <4>2 DEF EndsWell
        <5>2. v[c] = n
          BY <1>2, <1>9, <5>1
        <5>3. v[c] \in S \cup {NULL, ONE}
          BY <2>4, <3>2
        <5> QED BY <1>6, <5>2, <5>3
      <4> QED BY <4>1, <4>2
    <3> QED BY <3>2, <3>3
  <2>5. X \in SUBSET (0 .. n)
    BY <1>5, <1>6 DEF Blocks
  <2>6. X \ {n} = C
    BY <2>1
  <2>7. \A c \in X : v[c] \in X \cup {NULL, ONE}
    BY <2>1, <2>2
  <2>8. Walkable(n, v, g, X)
    <3> HIDE DEF X
    <3> QED BY <2>1, <2>3, <2>4, <2>5, <2>7 DEF Walkable
  <2> HIDE DEF X, C
  <2> QED BY <1>7, <2>1, <2>6, <2>8 DEF e
<1> QED BY <1>8, <1>9 DEF e

LEMMA IInvSortsAlike == IInv => VectorSortsAlike
<1> SUFFICES ASSUME IInv, ~spoiled, have PROVE
        /\ SortsAlike(page)
        /\ \A new \in (page.blocks + 1) .. MaxSize : SortsAlike(Extended(page, new))
  BY DEF VectorSortsAlike
<1>1. Healthy
  BY DEF IInv
<1>2. /\ IsPage(page) /\ WellLinked(page.blocks, page.link, page.h)
      /\ page.blocks \in Nat /\ page.blocks >= 2
  BY <1>1, HealthyFacts DEF Sound
<1>3. SortsAlike(page)
  BY <1>2, PageSorts
<1>4. ASSUME NEW new \in (page.blocks + 1) .. MaxSize PROVE SortsAlike(Extended(page, new))
  <2>1. new \in Nat /\ new >= 2 /\ page.blocks < new
    BY <1>2, SizeAssumption
  <2>2. new \in Layouts
    BY <2>1 DEF Layouts
  <2> QED BY <1>2, <2>1, <2>2, ExtendedSorts
<1> QED BY <1>3, <1>4

\* Sorting in the bit vector leaves the list that the sort is said to leave, whatever
\* is kept behind the vector.
THEOREM GrowingVectorSorts == Spec => []VectorSortsAlike
<1> QED BY GrowingInvariance, IInvSortsAlike, PTL
=============================================================================
