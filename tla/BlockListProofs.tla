-------------------------- MODULE BlockListProofs --------------------------
(***************************************************************************)
(* Lemmas about the operators of module BlockList, for pages of any number *)
(* of blocks.  What a list reaches is a least set, so that the proofs are  *)
(* about closed sets of blocks and need no induction along the list.       *)
(***************************************************************************)
EXTENDS BlockList, FiniteSetTheorems, WellFoundedInduction, TLAPS

Links(B) == [Blocks(B) -> Word(B)]

LEMMA WordFacts ==
    ASSUME NEW B \in Layouts
    PROVE  /\ NULL \notin Blocks(B) /\ ONE \notin Blocks(B) /\ DATA \notin Blocks(B)
           /\ NULL # ONE /\ NULL # DATA /\ ONE # DATA
           /\ B # NULL /\ B # ONE /\ B # DATA
           /\ B \in Nat /\ B >= 2 /\ B \notin Blocks(B) /\ 0 \in Blocks(B)
           /\ \A b \in Blocks(B) : b \in Nat /\ b < B /\ b <= B - 1
BY WordAssumption DEF Layouts, Blocks

----------------------------------------------------------------------------
(* Least and greatest blocks *)

LEMMA LessIsWellFounded ==
    \E R : /\ IsWellFoundedOn(R, Nat)
           /\ \A m, n \in Nat : m < n => <<m, n>> \in R
<1> DEFINE R == OpToRel(<, Nat)
<1>1. IsWellFoundedOn(R, Nat)
  BY NatLessThanWellFounded
<1>2. \A m, n \in Nat : m < n => <<m, n>> \in R
  BY DEF OpToRel
<1> QED BY <1>1, <1>2

LEMMA Least ==
    ASSUME NEW T \in SUBSET Nat, T # {}
    PROVE  \E m \in T : \A n \in T : m <= n
<1>1. PICK R : /\ IsWellFoundedOn(R, Nat)
               /\ \A m, n \in Nat : m < n => <<m, n>> \in R
  BY LessIsWellFounded
<1>2. IsWellFoundedOn(R, Nat) /\ T \subseteq Nat
  BY <1>1
<1>3. PICK m \in T : \A n \in T : <<n, m>> \notin R
  BY <1>2, WFMin
<1>4. ASSUME NEW n \in T PROVE m <= n
  <2>1. m \in Nat /\ n \in Nat
    OBVIOUS
  <2>2. ~(n < m)
    BY <1>1, <1>3, <2>1
  <2> QED BY <2>1, <2>2
<1> QED BY <1>4

LEMMA LowestFacts ==
    ASSUME NEW B \in Layouts, NEW S \in SUBSET Blocks(B), S # {}
    PROVE  Lowest(S) \in S /\ \A b \in S : Lowest(S) <= b
<1>1. S \in SUBSET Nat
  BY WordFacts
<1>2. \E m \in S : \A n \in S : m <= n
  BY <1>1, Least
<1> QED BY <1>2 DEF Lowest

LEMMA HighestFacts ==
    ASSUME NEW B \in Layouts, NEW S \in SUBSET Blocks(B), S # {}
    PROVE  Highest(S) \in S /\ \A b \in S : b <= Highest(S)
<1> DEFINE T == {u \in Nat : \A b \in S : b <= u}
<1>1. S \in SUBSET Nat /\ B - 1 \in T /\ T \in SUBSET Nat
  BY WordFacts
<1> HIDE DEF T
<1>2. PICK u \in T : \A v \in T : u <= v
  BY <1>1, Least
<1>3. u \in S
  <2> SUFFICES ASSUME u \notin S PROVE FALSE
    OBVIOUS
  <2>1. u \in Nat /\ \A b \in S : b <= u /\ b # u /\ b \in Nat
    BY <1>1, <1>2 DEF T
  <2>2. u # 0
    <3>1. PICK b \in S : TRUE
      OBVIOUS
    <3> QED BY <2>1, <3>1
  <2>3. u - 1 \in T
    BY <2>1, <2>2 DEF T
  <2> QED BY <1>2, <2>1, <2>3
<1>4. \E x \in S : \A y \in S : x >= y
  BY <1>1, <1>3 DEF T
<1>5. /\ Highest(S) \in S /\ \A y \in S : Highest(S) >= y
  BY <1>4 DEF Highest
<1> QED BY <1>1, <1>5

----------------------------------------------------------------------------
(* What a list reaches *)

Closed(B, w, S) == \A c \in S : w[c] \in S \/ w[c] \notin Blocks(B)

LEMMA ChainFacts ==
    ASSUME NEW B \in Layouts, NEW w, NEW first
    PROVE  /\ Chain(B, w, first) \subseteq Blocks(B)
           /\ first \in Blocks(B) => first \in Chain(B, w, first)
           /\ Closed(B, w, Chain(B, w, first))
BY DEF Chain, Closed

LEMMA ChainIsLeast ==
    ASSUME NEW B \in Layouts, NEW w, NEW first, NEW S \in SUBSET Blocks(B),
           first \in S \/ first \notin Blocks(B), Closed(B, w, S)
    PROVE  Chain(B, w, first) \subseteq S
BY DEF Chain, Closed

LEMMA NoChain ==
    ASSUME NEW B \in Layouts, NEW w, NEW first, first \notin Blocks(B)
    PROVE  Chain(B, w, first) = {}
<1>1. {} \in SUBSET Blocks(B) /\ Closed(B, w, {})
  BY DEF Closed
<1>2. Chain(B, w, first) \subseteq {}
  BY <1>1, ChainIsLeast
<1> QED BY <1>2

LEMMA ChainUnfolds ==
    ASSUME NEW B \in Layouts, NEW w, NEW first \in Blocks(B)
    PROVE  Chain(B, w, first) = {first} \cup Chain(B, w, w[first])
<1> DEFINE S == {first} \cup Chain(B, w, w[first])
<1>1. S \in SUBSET Blocks(B) /\ first \in S /\ Closed(B, w, S)
  BY ChainFacts DEF Closed
<1>2. Chain(B, w, first) \subseteq S
  BY <1>1, ChainIsLeast
<1>3. /\ first \in Chain(B, w, first) /\ Closed(B, w, Chain(B, w, first))
      /\ Chain(B, w, first) \in SUBSET Blocks(B)
  BY ChainFacts
<1>4. w[first] \in Chain(B, w, first) \/ w[first] \notin Blocks(B)
  BY <1>3 DEF Closed
<1>5. Chain(B, w, w[first]) \subseteq Chain(B, w, first)
  BY <1>3, <1>4, ChainIsLeast
<1> QED BY <1>2, <1>3, <1>5

\* Only the words of the list itself decide what it reaches.
LEMMA SameChain ==
    ASSUME NEW B \in Layouts, NEW w, NEW v, NEW first, \A c \in Chain(B, w, first) : v[c] = w[c]
    PROVE  Chain(B, v, first) = Chain(B, w, first)
<1>1. Chain(B, v, first) \subseteq Chain(B, w, first)
  <2>1. /\ Chain(B, w, first) \in SUBSET Blocks(B)
        /\ first \in Chain(B, w, first) \/ first \notin Blocks(B)
        /\ Closed(B, v, Chain(B, w, first))
    BY ChainFacts DEF Closed
  <2> QED BY <2>1, ChainIsLeast
<1>2. Chain(B, w, first) \subseteq Chain(B, v, first)
  <2>1. /\ Chain(B, v, first) \in SUBSET Blocks(B)
        /\ first \in Chain(B, v, first) \/ first \notin Blocks(B)
        /\ Closed(B, w, Chain(B, v, first))
    BY <1>1, ChainFacts DEF Closed
  <2> QED BY <2>1, ChainIsLeast
<1> QED BY <1>1, <1>2

\* A list that ends does not come back to its first block.
LEMMA NoCycle ==
    ASSUME NEW B \in Layouts, NEW w, NEW first \in Blocks(B), EndsWell(B, w, first)
    PROVE  first \notin Chain(B, w, w[first])
<1> SUFFICES ASSUME first \in Chain(B, w, w[first]) PROVE FALSE
  OBVIOUS
<1>1. PICK e \in Chain(B, w, first) : w[e] \in {NULL, ONE}
  BY WordFacts DEF EndsWell
<1>2. e \in Blocks(B) /\ w[e] \notin Blocks(B)
  BY <1>1, ChainFacts, WordFacts
<1> DEFINE S == {c \in Blocks(B) : first \in Chain(B, w, c)}
<1>3. first \in S
  BY ChainFacts
<1>4. Closed(B, w, S)
  <2> SUFFICES ASSUME NEW c \in S, w[c] \in Blocks(B)
               PROVE  first \in Chain(B, w, w[c])
    BY DEF Closed
  <2>1. first \in {c} \cup Chain(B, w, w[c])
    BY ChainUnfolds
  <2> QED BY <2>1
<1>5. e \in S
  <2>1. S \in SUBSET Blocks(B)
    OBVIOUS
  <2> HIDE DEF S
  <2> QED BY <1>1, <1>3, <1>4, <2>1, ChainIsLeast
<1>6. Chain(B, w, e) = {e}
  BY <1>2, ChainUnfolds, NoChain
<1>7. first = e
  BY <1>5, <1>6
<1> QED BY <1>2, <1>7, NoChain

\* In an ascending list the blocks from c on are those not below it.
LEMMA AscendingFrom ==
    ASSUME NEW B \in Layouts, NEW w, NEW first \in Blocks(B), Increasing(B, w, first)
    PROVE  \A b \in Chain(B, w, first) : first <= b
<1> DEFINE S == {b \in Chain(B, w, first) : first <= b}
<1>1. S \in SUBSET Blocks(B) /\ first \in S
  BY ChainFacts, WordFacts
<1>2. Closed(B, w, S)
  <2> SUFFICES ASSUME NEW c \in S, w[c] \in Blocks(B) PROVE w[c] \in S
    BY DEF Closed
  <2>1. w[c] \in Chain(B, w, first) /\ w[c] > c
    BY ChainFacts DEF Closed, Increasing
  <2>2. c \in Nat /\ w[c] \in Nat /\ first \in Nat
    BY <2>1, ChainFacts, WordFacts
  <2> QED BY <2>1, <2>2
<1> HIDE DEF S
<1>3. Chain(B, w, first) \subseteq S
  BY <1>1, <1>2, ChainIsLeast
<1> QED BY <1>3 DEF S

LEMMA AscendingSplit ==
    ASSUME NEW B \in Layouts, NEW w, NEW first \in Blocks(B), Increasing(B, w, first),
           NEW c \in Chain(B, w, first)
    PROVE  \A d \in Chain(B, w, first) : d <= c \/ (w[c] \in Blocks(B) /\ w[c] <= d)
<1> DEFINE S == {d \in Chain(B, w, first) : c \in Chain(B, w, d)} \cup Chain(B, w, w[c])
<1>1. S \in SUBSET Blocks(B) /\ first \in S
  BY ChainFacts
<1>2. Closed(B, w, S)
  <2> SUFFICES ASSUME NEW d \in S, w[d] \in Blocks(B) PROVE w[d] \in S
    BY DEF Closed
  <2>1. CASE d \in Chain(B, w, w[c])
    BY <2>1, ChainFacts DEF Closed
  <2>2. CASE d \in Chain(B, w, first) /\ c \in Chain(B, w, d)
    <3>1. w[d] \in Chain(B, w, first) /\ d \in Blocks(B)
      BY <2>2, ChainFacts DEF Closed
    <3>2. c = d \/ c \in Chain(B, w, w[d])
      BY <2>2, <3>1, ChainUnfolds
    <3>3. w[d] \in Chain(B, w, w[d])
      BY ChainFacts
    <3> QED BY <3>1, <3>2, <3>3
  <2> QED BY <2>1, <2>2
<1> HIDE DEF S
<1>3. Chain(B, w, first) \subseteq S
  BY <1>1, <1>2, ChainIsLeast
\* The rest of an ascending list ascends.
<1>4. ASSUME NEW d \in Chain(B, w, first) PROVE Chain(B, w, d) \subseteq Chain(B, w, first)
                                             /\ Increasing(B, w, d)
  <2>1. Chain(B, w, d) \subseteq Chain(B, w, first)
    BY ChainFacts, ChainIsLeast
  <2> QED BY <2>1 DEF Increasing
<1>5. ASSUME NEW d \in Chain(B, w, first) PROVE d <= c \/ (w[c] \in Blocks(B) /\ w[c] <= d)
  <2>1. CASE c \in Chain(B, w, d)
    <3>1. d \in Blocks(B)
      BY ChainFacts
    <3> QED BY <1>4, <2>1, <3>1, AscendingFrom
  <2>2. CASE d \in Chain(B, w, w[c])
    <3>1. w[c] \in Blocks(B)
      BY <2>2, NoChain
    <3>2. w[c] \in Chain(B, w, first)
      BY <3>1, ChainFacts DEF Closed
    <3> QED BY <1>4, <2>2, <3>1, <3>2, AscendingFrom
  <2> QED BY <1>3, <2>1, <2>2 DEF S
<1> QED BY <1>5

----------------------------------------------------------------------------
(* Sound lists *)

\* A list the program can follow: it ends, its words are links, and only its
\* highest block may hold BA_ONE.
WellLinked(B, w, hd) ==
    /\ EndsWell(B, w, hd.first)
    /\ \A b \in Chain(B, w, hd.first) : w[b] # DATA
    /\ \A c, d \in Chain(B, w, hd.first) : w[d] = ONE => c <= d
    /\ hd.sorted => Increasing(B, w, hd.first)

\* A list fit for allocation, L being the blocks the client owns.
Sound(B, w, hd, L) ==
    /\ WellLinked(B, w, hd)
    /\ w[B - 1] # ONE \/ B - 1 \notin Chain(B, w, hd.first)
    /\ hd.used = B - Cardinality(FreeSet(B, w, hd.first))
    /\ FreeSet(B, w, hd.first) \cap L = {}

LEMMA FreeFacts ==
    ASSUME NEW B \in Layouts, NEW w, NEW first
    PROVE  /\ Chain(B, w, first) \subseteq FreeSet(B, w, first)
           /\ FreeSet(B, w, first) \subseteq Blocks(B)
           /\ IsFiniteSet(FreeSet(B, w, first))
           /\ \A b \in Blocks(B) : b \in FreeSet(B, w, first) <=>
                  \/ b \in Chain(B, w, first)
                  \/ \E d \in Chain(B, w, first) : w[d] = ONE /\ b >= d
<1>1. FreeSet(B, w, first) \subseteq Blocks(B)
  BY ChainFacts DEF FreeSet
<1>2. IsFiniteSet(Blocks(B))
  BY WordFacts, FS_Interval DEF Blocks
<1> QED BY <1>1, <1>2, FS_Subset DEF FreeSet

LEMMA BlockCount ==
    ASSUME NEW B \in Layouts
    PROVE  IsFiniteSet(Blocks(B)) /\ Cardinality(Blocks(B)) = B
BY WordFacts, FS_Interval DEF Blocks

LEMMA FirstFacts ==
    ASSUME NEW B \in Layouts, NEW w, NEW first, EndsWell(B, w, first)
    PROVE  first = NULL \/ (first \in Blocks(B) /\ first \in Chain(B, w, first))
BY NoChain, ChainFacts DEF EndsWell

\* Words outside a list do not matter to it.
LEMMA Untouched ==
    ASSUME NEW B \in Layouts, NEW w, NEW v, NEW hd, NEW L, NEW L2 \in SUBSET L, Sound(B, w, hd, L),
           \A c \in Chain(B, w, hd.first) : v[c] = w[c]
    PROVE  /\ Sound(B, v, hd, L2)
           /\ FreeSet(B, v, hd.first) = FreeSet(B, w, hd.first)
<1>1. Chain(B, v, hd.first) = Chain(B, w, hd.first)
  BY SameChain
<1>2. FreeSet(B, v, hd.first) = FreeSet(B, w, hd.first)
  BY <1>1 DEF FreeSet
<1>3. WellLinked(B, v, hd)
  BY <1>1 DEF WellLinked, Sound, EndsWell, Increasing
<1> QED BY <1>1, <1>2, <1>3 DEF Sound

\* A page none of whose blocks is linked yet.
LEMMA LazyIsSound ==
    ASSUME NEW B \in Layouts, NEW w, NEW hd, w[0] = ONE, hd.first = 0, hd.used = 0
    PROVE  Sound(B, w, hd, {}) /\ FreeSet(B, w, 0) = Blocks(B)
<1>1. Chain(B, w, 0) = {0}
  <2>1. Chain(B, w, w[0]) = {}
    BY NoChain, WordFacts
  <2>2. Chain(B, w, 0) = {0} \cup Chain(B, w, w[0])
    BY ChainUnfolds, WordFacts
  <2> QED BY <2>1, <2>2
<1>2. FreeSet(B, w, 0) = Blocks(B)
  <2>1. 0 \in Chain(B, w, 0) /\ \A b \in Blocks(B) : b >= 0
    BY <1>1, WordFacts
  <2>2. \A b \in Blocks(B) : b \in FreeSet(B, w, 0)
    BY <2>1, FreeFacts
  <2> QED BY <2>2, FreeFacts
<1>3. Cardinality(FreeSet(B, w, 0)) = B
  BY <1>2, BlockCount
<1>4. WellLinked(B, w, hd)
  BY <1>1, WordFacts DEF WellLinked, EndsWell, Increasing
<1> QED BY <1>1, <1>2, <1>3, <1>4, WordFacts DEF Sound

LEMMA UnusedIsAllFree ==
    ASSUME NEW B \in Layouts, NEW w, NEW hd, NEW L \in SUBSET Blocks(B),
           Sound(B, w, hd, L), hd.used = 0
    PROVE  FreeSet(B, w, hd.first) = Blocks(B) /\ L = {}
<1>1. /\ FreeSet(B, w, hd.first) \in SUBSET Blocks(B)
      /\ Cardinality(FreeSet(B, w, hd.first)) \in Nat
  BY FreeFacts, FS_CardinalityType
<1>2. Cardinality(FreeSet(B, w, hd.first)) = Cardinality(Blocks(B))
  BY <1>1, BlockCount, WordFacts DEF Sound
<1>3. FreeSet(B, w, hd.first) = Blocks(B)
  BY <1>1, <1>2, BlockCount, FS_Subset
<1> QED BY <1>3 DEF Sound

----------------------------------------------------------------------------
(* Allocation and release of a block *)

\* ba_shift takes the first block from the list and nothing else, and does not
\* fail.
LEMMA ShiftFacts ==
    ASSUME NEW B \in Layouts, NEW w \in Links(B), NEW hd \in Header(B), NEW L \in SUBSET Blocks(B),
           Sound(B, w, hd, L), hd.first # NULL
    PROVE  LET r == Shifted(B, w, hd)
           IN  /\ hd.first \in FreeSet(B, w, hd.first) /\ hd.first \in Blocks(B)
               /\ r.failed = FALSE
               /\ FreeSet(B, r.link, r.h.first) = FreeSet(B, w, hd.first) \ {hd.first}
               /\ Sound(B, r.link, r.h, L \cup {hd.first})
<1> DEFINE b == hd.first
           r == Shifted(B, w, hd)
           free == FreeSet(B, w, b)
<1>1. /\ b \in Blocks(B) /\ b \in Chain(B, w, b) /\ b \in free /\ b # B
      /\ w[b] \in Word(B) /\ w[b] # DATA
  BY FirstFacts, FreeFacts, WordFacts DEF Sound, WellLinked, Links
<1>2. hd.used \in Int /\ Cardinality(free) \in Nat /\ B \in Nat
  BY WordFacts, FreeFacts, FS_CardinalityType DEF Header
<1>3. CASE w[b] = ONE
  <2>1. Chain(B, w, b) = {b}
    <3>1. Chain(B, w, w[b]) = {}
      BY <1>3, NoChain, WordFacts
    <3> QED BY <1>1, <3>1, ChainUnfolds
  <2>2. b < B - 1 /\ b + 1 \in Blocks(B) /\ b + 1 # B /\ b + 1 # b
    <3>1. b # B - 1
      BY <1>1, <1>3 DEF Sound
    <3> QED BY <1>1, <3>1, WordFacts DEF Blocks
  <2>3. /\ r.link = [c \in Blocks(B) |-> CASE c = b     -> DATA
                                        [] c = b + 1 -> IF c = B - 1 THEN NULL ELSE ONE
                                        [] OTHER     -> w[c]]
        /\ r.h = [first |-> b + 1, used |-> hd.used + 1, sorted |-> TRUE]
        /\ r.failed = FALSE
    BY <1>1, <1>3, <2>2 DEF Shifted
  <2>4. /\ r.link[b + 1] = IF b + 1 = B - 1 THEN NULL ELSE ONE
        /\ r.h.first = b + 1 /\ r.h.used = hd.used + 1
    BY <2>2, <2>3
  <2>5. Chain(B, r.link, b + 1) = {b + 1}
    <3>1. r.link[b + 1] \notin Blocks(B)
      BY <2>4, WordFacts
    <3>2. Chain(B, r.link, r.link[b + 1]) = {}
      BY <3>1, NoChain
    <3> QED BY <2>2, <3>2, ChainUnfolds
  <2>6. \A x \in Blocks(B) : x \in free <=> x >= b
    BY <1>1, <1>3, <2>1, FreeFacts, WordFacts
  <2>7. \A x \in Blocks(B) : x \in FreeSet(B, r.link, b + 1) <=> x >= b + 1
    BY <2>2, <2>4, <2>5, FreeFacts, WordFacts
  <2>8. FreeSet(B, r.link, r.h.first) = free \ {b}
    <3>1. \A x \in Blocks(B) : x >= b + 1 <=> (x >= b /\ x # b)
      BY <1>1, WordFacts
    <3> HIDE DEF b, r, free
    <3>2. free \subseteq Blocks(B) /\ FreeSet(B, r.link, b + 1) \subseteq Blocks(B)
      BY FreeFacts DEF free
    <3> QED BY <2>4, <2>6, <2>7, <3>1, <3>2
  <2>9. r.h.used = B - Cardinality(FreeSet(B, r.link, r.h.first))
    <3>1. Cardinality(FreeSet(B, r.link, r.h.first)) = Cardinality(free) - 1
      <4> HIDE DEF b, r
      <4>1. b \in FreeSet(B, w, b) /\ FreeSet(B, r.link, r.h.first) = FreeSet(B, w, b) \ {b}
        BY <1>1, <2>8
      <4> QED BY <4>1, FreeFacts, FS_RemoveElement
    <3> QED BY <1>2, <2>4, <3>1 DEF Sound
  <2>10. WellLinked(B, r.link, r.h)
    <3>1. r.link[b + 1] \in {NULL, ONE} /\ r.link[b + 1] # DATA
          /\ r.link[b + 1] \notin Blocks(B)
      BY <2>4, WordFacts
    <3> QED BY <2>2, <2>4, <2>5, <3>1, WordFacts DEF WellLinked, EndsWell, Increasing
  <2>11. r.link[B - 1] # ONE \/ B - 1 \notin Chain(B, r.link, r.h.first)
    BY <2>4, <2>5, WordFacts
  <2>12. FreeSet(B, r.link, r.h.first) \cap (L \cup {b}) = {}
    BY <2>8 DEF Sound
  <2> QED BY <1>1, <2>3, <2>8, <2>9, <2>10, <2>11, <2>12 DEF Sound
<1>4. CASE w[b] # ONE
  <2>1. /\ r.link = [w EXCEPT ![b] = DATA]
        /\ r.h.first = w[b] /\ r.h.used = hd.used + 1 /\ r.h.sorted = hd.sorted
        /\ r.failed = FALSE
    BY <1>1, <1>4 DEF Shifted, Header
  <2>2. b \notin Chain(B, w, w[b])
    BY <1>1, NoCycle DEF Sound, WellLinked
  <2>3. Chain(B, w, b) = {b} \cup Chain(B, w, w[b])
    BY <1>1, ChainUnfolds
  <2>4. \A c \in Chain(B, w, w[b]) : r.link[c] = w[c]
    BY <2>1, <2>2, ChainFacts DEF Links
  <2>5. Chain(B, r.link, w[b]) = Chain(B, w, w[b])
    BY <2>4, SameChain
  <2>6. \A d \in Chain(B, w, b) : w[d] = ONE => b < d
    <3> SUFFICES ASSUME NEW d \in Chain(B, w, b), w[d] = ONE PROVE b < d
      OBVIOUS
    <3>1. b <= d /\ b # d /\ d \in Blocks(B)
      BY <1>1, <1>4, ChainFacts DEF Sound, WellLinked
    <3> QED BY <1>1, <3>1, WordFacts
  <2>7. FreeSet(B, r.link, r.h.first) = free \ {b}
    <3>1. \A x \in Blocks(B) : x \in FreeSet(B, r.link, w[b]) <=>
              \/ x \in Chain(B, w, w[b])
              \/ \E d \in Chain(B, w, w[b]) : w[d] = ONE /\ x >= d
      BY <2>4, <2>5, FreeFacts
    <3>2. \A x \in Blocks(B) : x \in free <=>
              \/ x \in Chain(B, w, b)
              \/ \E d \in Chain(B, w, b) : w[d] = ONE /\ x >= d
      BY FreeFacts
    <3>3. \A d \in Chain(B, w, b) : w[d] = ONE => ~(b >= d)
      BY <1>1, <2>6, ChainFacts, WordFacts
    <3>4. free \subseteq Blocks(B) /\ FreeSet(B, r.link, w[b]) \subseteq Blocks(B)
      BY FreeFacts
    <3> HIDE DEF free, b, r
    <3> QED BY <1>4, <2>1, <2>2, <2>3, <3>1, <3>2, <3>3, <3>4
  <2>8. r.h.used = B - Cardinality(FreeSet(B, r.link, r.h.first))
    <3>1. Cardinality(FreeSet(B, r.link, r.h.first)) = Cardinality(free) - 1
      <4> HIDE DEF b, r
      <4>1. b \in FreeSet(B, w, b) /\ FreeSet(B, r.link, r.h.first) = FreeSet(B, w, b) \ {b}
        BY <1>1, <2>7
      <4> QED BY <4>1, FreeFacts, FS_RemoveElement
    <3> QED BY <1>2, <2>1, <3>1 DEF Sound
  <2>9. EndsWell(B, r.link, w[b])
    <3>1. PICK e \in Chain(B, w, b) : w[e] \in {NULL, ONE}
      BY <1>1, WordFacts DEF Sound, WellLinked, EndsWell
    <3>2. CASE e = b
      BY <1>4, <3>1, <3>2 DEF EndsWell
    <3>3. CASE e # b
      BY <2>3, <2>4, <2>5, <3>1, <3>3 DEF EndsWell
    <3> QED BY <3>2, <3>3
  <2>10. WellLinked(B, r.link, r.h)
    BY <2>1, <2>3, <2>4, <2>5, <2>9 DEF Sound, WellLinked, Increasing
  <2>11. r.link[B - 1] # ONE \/ B - 1 \notin Chain(B, r.link, r.h.first)
    BY <2>1, <2>3, <2>4, <2>5 DEF Sound
  <2>12. FreeSet(B, r.link, r.h.first) \cap (L \cup {b}) = {}
    BY <2>7 DEF Sound
  <2> QED BY <1>1, <2>1, <2>7, <2>8, <2>10, <2>11, <2>12 DEF Sound
<1> QED BY <1>3, <1>4

\* ba_unshift puts the block in front, and its word concerns no list yet.
LEMMA UnshiftFacts ==
    ASSUME NEW B \in Layouts, NEW w \in Links(B), NEW hd \in Header(B), NEW L \in SUBSET Blocks(B),
           Sound(B, w, hd, L), NEW b \in L
    PROVE  LET v == [w EXCEPT ![b] = hd.first]
               u == Unshifted(hd, b)
           IN  /\ FreeSet(B, v, u.first) = FreeSet(B, w, hd.first) \cup {b}
               /\ Sound(B, v, u, L \ {b})
               /\ \A c \in FreeSet(B, w, hd.first) : v[c] = w[c]
<1> DEFINE f == hd.first
           v == [w EXCEPT ![b] = f]
           u == Unshifted(hd, b)
           free == FreeSet(B, w, f)
<1>1. /\ b \in Blocks(B) /\ b \notin free /\ b \notin Chain(B, w, f)
      /\ f = NULL \/ (f \in Blocks(B) /\ f \in Chain(B, w, f))
      /\ hd.used \in Int /\ Cardinality(free) \in Nat /\ B \in Nat
  BY FirstFacts, FreeFacts, WordFacts, FS_CardinalityType DEF Sound, WellLinked, Header
<1>2. /\ u.first = b /\ u.used = hd.used - 1
      /\ u.sorted = (hd.sorted /\ ~(f # NULL /\ b > f))
      /\ v[b] = f
      /\ \A c \in free : v[c] = w[c]
  BY <1>1, FreeFacts DEF Unshifted, Links
<1>3. Chain(B, v, b) = {b} \cup Chain(B, w, f)
  <2>1. \A c \in Chain(B, w, f) : v[c] = w[c]
    BY <1>2, FreeFacts
  <2> HIDE DEF f, v
  <2>2. Chain(B, v, f) = Chain(B, w, f)
    BY <2>1, SameChain
  <2>3. Chain(B, v, b) = {b} \cup Chain(B, v, v[b])
    BY <1>1, ChainUnfolds
  <2> QED BY <1>2, <2>2, <2>3
<1>4. \A d \in Chain(B, v, b) : v[d] = ONE => d \in Chain(B, w, f) /\ w[d] = ONE
  BY <1>1, <1>2, <1>3, FreeFacts, WordFacts
<1>5. \A d \in Chain(B, w, f) : w[d] = v[d] /\ d \in Blocks(B)
  BY <1>2, FreeFacts
<1>6. FreeSet(B, v, b) = free \cup {b}
  <2>1. \A x \in Blocks(B) : x \in FreeSet(B, v, b) <=>
            \/ x \in Chain(B, v, b)
            \/ \E d \in Chain(B, v, b) : v[d] = ONE /\ x >= d
    BY FreeFacts
  <2>2. \A x \in Blocks(B) : x \in free <=>
            \/ x \in Chain(B, w, f)
            \/ \E d \in Chain(B, w, f) : w[d] = ONE /\ x >= d
    BY FreeFacts
  <2>3. free \subseteq Blocks(B) /\ FreeSet(B, v, b) \subseteq Blocks(B)
    BY FreeFacts
  <2> HIDE DEF free, f, v
  <2> QED BY <1>1, <1>3, <1>4, <1>5, <2>1, <2>2, <2>3
<1>7. u.used = B - Cardinality(FreeSet(B, v, b))
  <2>1. Cardinality(FreeSet(B, v, b)) = Cardinality(free) + 1
    BY <1>1, <1>6, FreeFacts, FS_AddElement
  <2> QED BY <1>1, <1>2, <2>1 DEF Sound
<1>8. \A d \in Chain(B, v, b) : v[d] = ONE => b <= d
  <2> SUFFICES ASSUME NEW d \in Chain(B, v, b), v[d] = ONE PROVE b <= d
    OBVIOUS
  <2>1. d \in Chain(B, w, f) /\ w[d] = ONE /\ d \in Blocks(B)
    BY <1>4, <1>5
  <2>2. ~(b >= d)
    BY <1>1, <2>1, FreeFacts
  <2> QED BY <1>1, <2>1, <2>2, WordFacts
<1>9. u.sorted => Increasing(B, v, b)
  <2> SUFFICES ASSUME u.sorted, NEW c \in Chain(B, v, b), v[c] \in Blocks(B)
               PROVE  v[c] > c
    BY DEF Increasing
  <2>1. CASE c = b
    <3>1. f \in Blocks(B) /\ ~(b > f) /\ b # f /\ v[c] = f
      BY <1>1, <1>2, <2>1, WordFacts
    <3> QED BY <1>1, <2>1, <3>1, WordFacts
  <2>2. CASE c # b
    <3>1. c \in Chain(B, w, f) /\ hd.sorted
      BY <1>2, <1>3, <2>2
    <3> QED BY <1>5, <3>1 DEF Sound, WellLinked, Increasing
  <2> QED BY <2>1, <2>2
<1>10. EndsWell(B, v, b)
  <2>1. CASE f = NULL
    BY <1>2, <1>3, <2>1 DEF EndsWell
  <2>2. CASE f # NULL
    <3>1. PICK e \in Chain(B, w, f) : w[e] \in {NULL, ONE}
      BY <2>2 DEF Sound, WellLinked, EndsWell
    <3> QED BY <1>3, <1>5, <3>1 DEF EndsWell
  <2> QED BY <2>1, <2>2
<1>11. WellLinked(B, v, u)
  <2>1. \A d \in Chain(B, v, b) : v[d] # DATA
    BY <1>1, <1>2, <1>3, <1>5, WordFacts DEF Sound, WellLinked
  <2>2. \A c, d \in Chain(B, v, b) : v[d] = ONE => c <= d
    BY <1>3, <1>4, <1>8 DEF Sound, WellLinked
  <2> QED BY <1>2, <1>9, <1>10, <2>1, <2>2 DEF WellLinked
<1>12. v[B - 1] # ONE \/ B - 1 \notin Chain(B, v, b)
  BY <1>4 DEF Sound
<1>13. FreeSet(B, v, b) \cap (L \ {b}) = {}
  BY <1>6 DEF Sound
<1> QED BY <1>2, <1>6, <1>7, <1>11, <1>12, <1>13 DEF Sound

----------------------------------------------------------------------------
(* Sorting the list *)

\* A list that links each block of K to the next higher one reaches just K.
LEMMA LinkedInOrder ==
    ASSUME NEW B \in Layouts, NEW v, NEW first, NEW K \in SUBSET Blocks(B),
           K = {} => first \notin Blocks(B),
           K # {} => first \in K /\ \A c \in K : first <= c,
           \A b \in K : \/ v[b] \notin Blocks(B) /\ \A c \in K : c <= b
                        \/ /\ v[b] \in K /\ b < v[b]
                           /\ \A c \in K : c <= b \/ v[b] <= c
    PROVE  Chain(B, v, first) = K /\ Increasing(B, v, first)
<1>1. Closed(B, v, K) /\ (first \in K \/ first \notin Blocks(B))
  BY DEF Closed
<1>2. Chain(B, v, first) \subseteq K
  BY <1>1, ChainIsLeast
<1>3. K \subseteq Chain(B, v, first)
  <2> DEFINE M == K \ Chain(B, v, first)
  <2> SUFFICES ASSUME M # {} PROVE FALSE
    OBVIOUS
  <2> DEFINE m == Lowest(M)
  <2>1. m \in M /\ \A c \in M : m <= c
    BY LowestFacts
  <2> HIDE DEF m
  <2>2. m \in K /\ m \notin Chain(B, v, first) /\ m \in Nat /\ m \in Blocks(B)
    BY <2>1, WordFacts
  <2>3. first \in K /\ first \in Blocks(B) /\ first \in Chain(B, v, first) /\ first <= m
    BY <2>2, ChainFacts
  <2> DEFINE P == {c \in K : c < m}
             p == Highest(P)
  <2>4. first \in P /\ P \in SUBSET Blocks(B)
    <3>1. first # m
      BY <2>2, <2>3
    <3>2. first < m
      BY <2>2, <2>3, <3>1, WordFacts
    <3> QED BY <2>3, <3>2
  <2> HIDE DEF P
  <2>5. p \in P /\ \A c \in P : c <= p
    BY <2>4, HighestFacts
  <2> HIDE DEF p
  <2>6. p \in K /\ p < m /\ p \in Nat
    BY <2>5, WordFacts DEF P
  <2>7. p \in Chain(B, v, first)
    <3>1. ~(m <= p)
      BY <2>2, <2>6
    <3>2. p \notin M
      BY <2>1, <3>1
    <3> QED BY <2>6, <3>2
  <2>8. v[p] \in K /\ p < v[p] /\ v[p] <= m /\ v[p] \in Nat /\ v[p] \in Blocks(B)
    <3>1. ~(m <= p)
      BY <2>2, <2>6
    <3>2. v[p] \in K /\ p < v[p] /\ v[p] <= m
      BY <2>2, <2>6, <3>1
    <3>3. v[p] \in Blocks(B)
      BY <3>2
    <3> QED BY <3>2, <3>3, WordFacts
  <2>9. v[p] \in Chain(B, v, first)
    BY <2>7, <2>8, ChainFacts DEF Closed
  <2>10. v[p] # m
    BY <2>2, <2>9
  <2>11. v[p] \in P
    BY <2>2, <2>8, <2>10 DEF P
  <2> QED BY <2>5, <2>6, <2>8, <2>11
<1>4. \A b \in K : v[b] \in Blocks(B) => v[b] > b
  BY WordFacts
<1> QED BY <1>2, <1>3, <1>4 DEF Increasing

\* The parts of ba_sort_list.
Lazy(B, w, first)   == {b \in Chain(B, w, first) : w[b] = ONE}
Last(B, w, first)   == IF Lazy(B, w, first) = {} THEN B - 1 ELSE Lowest(Lazy(B, w, first))
Stays(B, w, first)  == {i \in 0 .. Last(B, w, first) : i = 0 \/ i \notin Chain(B, w, first)}
Length(B, w, first) == 1 + Highest(Stays(B, w, first))
Kept(B, w, first)   == {b \in Chain(B, w, first) : b < Length(B, w, first)}
TailWord(B, n)          == IF n < B THEN n ELSE NULL
From(K, t, n)    == LET rest == {b \in K : b >= n}
                    IN  IF rest = {} THEN t ELSE Lowest(rest)

LEMMA SortParts ==
    ASSUME NEW B \in Layouts, NEW w, NEW first
    PROVE  LET n == Length(B, w, first)
               K == Kept(B, w, first)
               t == TailWord(B, n)
               r == ba_sort_list(B, w, first)
           IN  /\ r.first = From(K, t, 0)
               /\ r.link = [b \in Blocks(B) |-> CASE b = t    -> ONE
                                               [] b \in K  -> From(K, t, b + 1)
                                               [] OTHER    -> w[b]]
BY DEF ba_sort_list, Lazy, Last, Stays, Length, Kept, TailWord, From

LEMMA LengthFacts ==
    ASSUME NEW B \in Layouts, NEW w, NEW first
    PROVE  /\ Length(B, w, first) \in 1 .. B
           /\ Last(B, w, first) \in Blocks(B)
           /\ Length(B, w, first) - 1 \in Stays(B, w, first)
           /\ \A i \in Blocks(B) : i >= Length(B, w, first) /\ i <= Last(B, w, first)
                                    => i \in Chain(B, w, first)
           /\ Kept(B, w, first) \in SUBSET Blocks(B)
<1>1. Lazy(B, w, first) \in SUBSET Blocks(B)
  BY ChainFacts DEF Lazy
<1>2. Last(B, w, first) \in Blocks(B)
  <2>1. B - 1 \in Blocks(B)
    BY WordFacts DEF Blocks
  <2> QED BY <1>1, <2>1, LowestFacts DEF Last
<1>3. 0 \in Stays(B, w, first) /\ Stays(B, w, first) \in SUBSET Blocks(B)
  BY <1>2, WordFacts DEF Stays, Blocks
<1> DEFINE H == Highest(Stays(B, w, first))
<1>4. H \in Stays(B, w, first) /\ \A i \in Stays(B, w, first) : i <= H
  BY <1>3, HighestFacts
<1>5. H \in Blocks(B)
  BY <1>3, <1>4
<1> HIDE DEF H
<1>6. Length(B, w, first) = 1 + H
  BY DEF Length, H
<1>7. Length(B, w, first) \in 1 .. B /\ Length(B, w, first) - 1 = H
  BY <1>5, <1>6, WordFacts
<1>8. ASSUME NEW i \in Blocks(B), i >= Length(B, w, first), i <= Last(B, w, first)
      PROVE  i \in Chain(B, w, first)
  <2>1. ~(i <= H)
    BY <1>5, <1>6, <1>8, WordFacts
  <2>2. i \in 0 .. Last(B, w, first)
    BY <1>2, <1>8, WordFacts
  <2> QED BY <1>4, <2>1, <2>2 DEF Stays
<1>9. Kept(B, w, first) \in SUBSET Blocks(B)
  BY ChainFacts DEF Kept
<1> QED BY <1>2, <1>4, <1>7, <1>8, <1>9

LEMMA FromFacts ==
    ASSUME NEW B \in Layouts, NEW K \in SUBSET Blocks(B), NEW t, NEW n
    PROVE  \/ From(K, t, n) = t /\ \A b \in K : ~(b >= n)
           \/ /\ From(K, t, n) \in K /\ From(K, t, n) >= n
              /\ \A b \in K : b >= n => From(K, t, n) <= b
<1> DEFINE rest == {b \in K : b >= n}
<1>1. rest \in SUBSET Blocks(B)
  OBVIOUS
<1>2. rest # {} => Lowest(rest) \in rest /\ \A b \in rest : Lowest(rest) <= b
  BY <1>1, LowestFacts
<1> QED BY <1>2 DEF From

\* Sorting makes a list of blocks and links, whatever it finds.
LEMMA SortTypes ==
    ASSUME NEW B \in Layouts, NEW w \in Links(B), NEW hd \in Header(B)
    PROVE  /\ Sorted(B, w, hd).link \in Links(B)
           /\ Sorted(B, w, hd).header \in Header(B)
<1> DEFINE f == hd.first
           n == Length(B, w, f)
           K == Kept(B, w, f)
           t == TailWord(B, n)
           r == ba_sort_list(B, w, f)
<1>1. K \in SUBSET Blocks(B) /\ t \in Blocks(B) \cup {NULL}
  BY LengthFacts, WordFacts DEF TailWord, Blocks
<1>2. \A m : From(K, t, m) \in Blocks(B) \cup {NULL}
  BY <1>1, FromFacts
<1>3. /\ r.first = From(K, t, 0)
      /\ r.link = [b \in Blocks(B) |-> CASE b = t    -> ONE
                                      [] b \in K  -> From(K, t, b + 1)
                                      [] OTHER    -> w[b]]
  BY SortParts
<1> HIDE DEF K, t, r
<1>4. r.first \in Blocks(B) \cup {NULL} /\ r.link \in Links(B)
  BY <1>2, <1>3 DEF Links, Word
<1> USE DEF r
<1>5. CASE hd.sorted
  BY <1>5 DEF Sorted
<1>6. CASE ~hd.sorted
  <2>1. /\ Sorted(B, w, hd).link = r.link
        /\ Sorted(B, w, hd).header = [hd EXCEPT !.first = r.first, !.sorted = TRUE]
    BY <1>6 DEF Sorted
  <2> QED BY <1>4, <2>1 DEF Header
<1> QED BY <1>5, <1>6

\* What the sorted list leaves out below its tail is what was not free.
LEMMA KeptFacts ==
    ASSUME NEW B \in Layouts, NEW w, NEW hd, WellLinked(B, w, hd)
    PROVE  LET n == Length(B, w, hd.first)
           IN  \A x \in Blocks(B) : x \in FreeSet(B, w, hd.first)
                                     <=> x >= n \/ x \in Kept(B, w, hd.first)
<1> DEFINE f == hd.first
           n == Length(B, w, f)
<1>1. /\ n \in 1 .. B /\ Last(B, w, f) \in Blocks(B)
      /\ n - 1 \in Stays(B, w, f)
      /\ \A i \in Blocks(B) : i >= n /\ i <= Last(B, w, f) => i \in Chain(B, w, f)
  BY LengthFacts
<1>2. /\ n \in Int /\ Last(B, w, f) \in Int /\ n - 1 <= Last(B, w, f)
      /\ n = 1 \/ n - 1 \notin Chain(B, w, f)
  BY <1>1, WordFacts DEF Stays
<1> HIDE DEF n
<1>3. \A x \in Blocks(B) : x \in Kept(B, w, f) <=> x \in Chain(B, w, f) /\ x < n
  BY DEF Kept, n
<1>4. CASE Lazy(B, w, f) = {}
  <2>1. Last(B, w, f) = B - 1
    BY <1>4 DEF Last
  <2>2. \A x \in Blocks(B) : x \in FreeSet(B, w, f) <=> x \in Chain(B, w, f)
    BY <1>4, FreeFacts DEF Lazy
  <2>3. \A x \in Blocks(B) : x < n \/ x \in Chain(B, w, f)
    BY <1>1, <1>2, <2>1, WordFacts
  <2>4. \A x \in Blocks(B) : ~(x < n) <=> x >= n
    BY <1>2, WordFacts
  <2> QED BY <1>3, <2>2, <2>3, <2>4 DEF n
<1>5. CASE Lazy(B, w, f) # {}
  <2> DEFINE d == Last(B, w, f)
  <2>1. d \in Chain(B, w, f) /\ w[d] = ONE /\ d \in Blocks(B)
    <3>1. Lazy(B, w, f) \in SUBSET Blocks(B)
      BY ChainFacts DEF Lazy
    <3>2. Lowest(Lazy(B, w, f)) \in Lazy(B, w, f)
      BY <1>5, <3>1, LowestFacts
    <3> QED BY <1>1, <1>5, <3>2 DEF Last, Lazy
  <2>2. \A c \in Chain(B, w, f) : c <= d
    BY <2>1 DEF WellLinked
  <2>3. \A c \in Chain(B, w, f) : w[c] = ONE => c = d
    <3> SUFFICES ASSUME NEW c \in Chain(B, w, f), w[c] = ONE PROVE c = d
      OBVIOUS
    <3>1. c <= d /\ d <= c /\ c \in Blocks(B)
      BY <2>1, <2>2, ChainFacts DEF WellLinked
    <3> QED BY <2>1, <3>1, WordFacts
  <2>4. \A x \in Blocks(B) : x \in FreeSet(B, w, f) <=> x \in Chain(B, w, f) \/ x >= d
    BY <2>1, <2>3, FreeFacts
  <2> HIDE DEF d
  <2>5. n <= d \/ (n = 1 /\ d = 0)
    <3>1. n - 1 <= d /\ d \in Nat
      BY <1>2, <2>1, WordFacts DEF d
    <3>2. n - 1 = d => n = 1
      BY <1>2, <2>1
    <3> QED BY <1>2, <3>1, <3>2
  <2>6. ASSUME NEW x \in Blocks(B)
        PROVE  (x \in Chain(B, w, f) \/ x >= d) <=> (x >= n \/ (x \in Chain(B, w, f) /\ x < n))
    <3>1. x \in Nat /\ d \in Nat /\ n \in Int
      BY <1>2, <2>1, WordFacts
    <3>2. x >= n /\ x <= d => x \in Chain(B, w, f)
      BY <1>1 DEF d
    <3>3. d = 0 => 0 \in Chain(B, w, f)
      BY <2>1
    <3> HIDE DEF f
    <3>4. CASE x \in Chain(B, w, f)
      BY <3>1, <3>4
    <3>5. CASE x \notin Chain(B, w, f)
      <4>1. CASE n <= d
        BY <3>1, <3>2, <3>5, <4>1
      <4>2. CASE n = 1 /\ d = 0
        <5>1. x # 0
          BY <3>3, <3>5, <4>2
        <5> QED BY <3>1, <3>5, <4>2, <5>1
      <4> QED BY <2>5, <4>1, <4>2
    <3> QED BY <3>4, <3>5
  <2> QED BY <1>3, <2>4, <2>6 DEF n
<1> QED BY <1>4, <1>5


LEMMA SortedInOrder ==
    ASSUME NEW B \in Layouts, NEW w \in Links(B), NEW f, NEW hd \in Header(B),
           hd.first = f, WellLinked(B, w, hd)
    PROVE  LET r == ba_sort_list(B, w, f)
           IN  /\ FreeSet(B, r.link, r.first) = FreeSet(B, w, f)
               /\ Increasing(B, r.link, r.first)
               /\ EndsWell(B, r.link, r.first)
               /\ \A b \in Chain(B, r.link, r.first) : r.link[b] # DATA
               /\ \A c, d \in Chain(B, r.link, r.first) : r.link[d] = ONE => c <= d
               /\ Chain(B, r.link, r.first) =
                      Kept(B, w, f) \cup {b \in Blocks(B) : b = Length(B, w, f)}
               /\ Length(B, w, f) \in Blocks(B) => r.link[Length(B, w, f)] = ONE
<1> DEFINE n == Length(B, w, f)
           K == Kept(B, w, f)
           t == TailWord(B, n)
           r == ba_sort_list(B, w, f)
           v == r.link
           first == r.first
           tail == {b \in Blocks(B) : b = n}
           all == K \cup tail
<1>1. /\ n \in 1 .. B /\ K \in SUBSET Blocks(B)
      /\ \A b \in K : b < n
  BY LengthFacts DEF Kept
<1>2. /\ n < B => n \in Blocks(B) /\ t = n
      /\ ~(n < B) => n \notin Blocks(B) /\ t = NULL /\ tail = {}
      /\ n \in Nat
  BY <1>1, WordFacts DEF TailWord, Blocks
<1>3. \A x \in Blocks(B) : x \in FreeSet(B, w, f) <=> x >= n \/ x \in K
  BY KeptFacts
<1>4. /\ first = From(K, t, 0)
      /\ v = [b \in Blocks(B) |-> CASE b = t    -> ONE
                                 [] b \in K  -> From(K, t, b + 1)
                                 [] OTHER    -> w[b]]
  BY SortParts
<1> HIDE DEF n, K, t, r
<1>5. /\ n \in Blocks(B) => v[n] = ONE
      /\ \A b \in K : v[b] = From(K, t, b + 1)
  <2>1. n \in Blocks(B) => v[n] = ONE
    <3> SUFFICES ASSUME n \in Blocks(B) PROVE v[n] = ONE
      OBVIOUS
    <3>1. t = n /\ n \notin K
      BY <1>1, <1>2, WordFacts
    <3> QED BY <1>4, <3>1
  <2>2. ASSUME NEW b \in K PROVE v[b] = From(K, t, b + 1)
    <3>1. b # t /\ b \in Blocks(B)
      BY <1>1, <1>2, WordFacts
    <3> QED BY <1>4, <3>1
  <2> QED BY <2>1, <2>2
<1> HIDE DEF v, first
<1>6. \A m : \/ From(K, t, m) = t /\ \A b \in K : ~(b >= m)
             \/ /\ From(K, t, m) \in K /\ From(K, t, m) >= m
                /\ \A b \in K : b >= m => From(K, t, m) <= b
  BY <1>1, FromFacts
<1>7. all \in SUBSET Blocks(B) /\ \A b \in all : b \in Nat /\ (b \in K \/ b = n)
  BY <1>1, WordFacts
<1>8. all = {} => first \notin Blocks(B)
  <2>1. all = {} => K = {} /\ ~(n < B)
    BY <1>2
  <2> QED BY <1>2, <1>4, <1>6, <2>1, WordFacts
<1>9. all # {} => first \in all /\ \A c \in all : first <= c
  <2>1. CASE K # {}
    <3>1. PICK c \in K : c >= 0
      BY <1>7, <2>1
    <3>2. first \in K /\ \A b \in K : first <= b
      BY <1>4, <1>6, <1>7, <3>1
    <3>3. first < n /\ first \in Nat
      BY <1>1, <1>7, <3>2
    <3> QED BY <1>2, <1>7, <3>2, <3>3
  <2>2. CASE K = {}
    <3>1. first = t
      BY <1>4, <1>6, <2>2
    <3> QED BY <1>2, <1>7, <2>2, <3>1
  <2> QED BY <2>1, <2>2
<1>10. ASSUME NEW b \in all
       PROVE  /\ \/ v[b] \notin Blocks(B) /\ \A c \in all : c <= b
                 \/ /\ v[b] \in all /\ b < v[b]
                    /\ \A c \in all : c <= b \/ v[b] <= c
              /\ v[b] = ONE => b = n
              /\ v[b] # DATA
              /\ v[b] \notin Blocks(B) => v[b] \in {NULL, ONE}
  <2>1. CASE b = n
    <3>1. v[b] = ONE /\ \A c \in all : c <= b
      BY <1>1, <1>2, <1>5, <1>7, <2>1
    <3> QED BY <2>1, <3>1, WordFacts
  <2>2. CASE b \in K
    <3>1. v[b] = From(K, t, b + 1) /\ b \in Nat /\ b < n
      BY <1>1, <1>5, <1>7, <2>2
    <3>2. CASE v[b] = t /\ \A c \in K : ~(c >= b + 1)
      <4>1. \A c \in K : c <= b
        BY <1>7, <3>1, <3>2
      <4>2. CASE n < B
        <5>1. v[b] = n /\ n \in all /\ v[b] \in Blocks(B)
          BY <1>2, <3>2, <4>2
        <5>2. \A c \in all : c <= b \/ v[b] <= c
          BY <1>2, <1>7, <4>1, <5>1
        <5> QED BY <3>1, <5>1, <5>2, WordFacts
      <4>3. CASE ~(n < B)
        <5>1. v[b] = NULL /\ \A c \in all : c \in K
          BY <1>2, <3>2, <4>3
        <5> QED BY <4>1, <5>1, WordFacts
      <4> QED BY <4>2, <4>3
    <3>3. CASE /\ v[b] \in K /\ v[b] >= b + 1
               /\ \A c \in K : c >= b + 1 => v[b] <= c
      <4>1. v[b] \in all /\ v[b] \in Blocks(B) /\ v[b] \in Nat /\ v[b] < n
        BY <1>1, <1>7, <3>3
      <4>2. b < v[b]
        BY <3>1, <3>3, <4>1
      <4>3. \A c \in all : c <= b \/ v[b] <= c
        <5> SUFFICES ASSUME NEW c \in all PROVE c <= b \/ v[b] <= c
          OBVIOUS
        <5>1. CASE c = n
          BY <1>2, <4>1, <5>1
        <5>2. CASE c \in K
          <6>1. c <= b \/ c >= b + 1
            BY <1>7, <3>1
          <6> QED BY <3>3, <5>2, <6>1
        <5> QED BY <1>7, <5>1, <5>2
      <4> QED BY <4>1, <4>2, <4>3, WordFacts
    <3> QED BY <1>6, <3>1, <3>2, <3>3
  <2> QED BY <1>7, <2>1, <2>2
<1> HIDE DEF all
<1>11. Chain(B, v, first) = all /\ Increasing(B, v, first)
  <2>1. all \in SUBSET Blocks(B)
    BY <1>7
  <2> QED BY <1>8, <1>9, <1>10, <2>1, LinkedInOrder
<1>12. EndsWell(B, v, first)
  <2>1. CASE all = {}
    <3>1. first = NULL
      <4>1. K = {} /\ ~(n < B)
        BY <1>2, <2>1 DEF all
      <4> QED BY <1>2, <1>4, <1>6, <4>1
    <3> QED BY <3>1 DEF EndsWell
  <2>2. CASE all # {}
    <3> DEFINE e == Highest(all)
    <3>1. e \in all /\ \A c \in all : c <= e
      BY <1>7, <2>2, HighestFacts
    <3> HIDE DEF e
    <3>2. v[e] \notin Blocks(B)
      <4> SUFFICES ASSUME v[e] \in Blocks(B) PROVE FALSE
        OBVIOUS
      <4>1. v[e] \in all /\ e < v[e] /\ v[e] <= e
        BY <1>10, <3>1
      <4>2. v[e] \in Nat /\ e \in Nat
        BY <1>7, <3>1, <4>1
      <4> QED BY <4>1, <4>2
    <3>3. v[e] \in {NULL, ONE}
      BY <1>10, <3>1, <3>2
    <3> QED BY <1>11, <3>1, <3>3 DEF EndsWell
  <2> QED BY <2>1, <2>2
<1>13. \A c, d \in all : v[d] = ONE => c <= d
  <2> SUFFICES ASSUME NEW c \in all, NEW d \in all, v[d] = ONE PROVE c <= d
    OBVIOUS
  <2>1. d = n
    BY <1>10
  <2> QED BY <1>1, <1>2, <1>7, <2>1
<1>14. FreeSet(B, v, first) = FreeSet(B, w, f)
  <2>1. \A x \in Blocks(B) : x \in FreeSet(B, v, first) <=>
            \/ x \in all \/ \E d \in all : v[d] = ONE /\ x >= d
    BY <1>11, FreeFacts
  <2>2. ASSUME NEW x \in Blocks(B)
        PROVE  x \in FreeSet(B, v, first) <=> x >= n \/ x \in K
    <3>1. x \in all <=> x = n \/ x \in K
      BY DEF all
    <3>2. (\E d \in all : v[d] = ONE /\ x >= d) <=> x >= n
      <4>1. CASE n \in Blocks(B)
        <5>1. n \in all /\ v[n] = ONE
          BY <1>5, <4>1 DEF all
        <5> QED BY <1>10, <5>1
      <4>2. CASE n \notin Blocks(B)
        <5>1. ~(x >= n)
          BY <1>1, <1>2, <4>2, WordFacts
        <5>2. \A d \in all : v[d] # ONE
          BY <1>7, <1>10, <4>2
        <5> QED BY <5>1, <5>2
      <4> QED BY <4>1, <4>2
    <3>3. x = n => x >= n
      BY <1>2
    <3> QED BY <2>1, <3>1, <3>2, <3>3
  <2>3. FreeSet(B, v, first) \subseteq Blocks(B) /\ FreeSet(B, w, f) \subseteq Blocks(B)
    BY FreeFacts
  <2> QED BY <1>3, <2>2, <2>3
<1>15. \A b \in all : v[b] # DATA
  BY <1>10
<1>16. all = K \cup {b \in Blocks(B) : b = n} /\ (n \in Blocks(B) => v[n] = ONE)
  BY <1>5 DEF all
<1> QED BY <1>11, <1>12, <1>13, <1>14, <1>15, <1>16 DEF v, first, r, n, K

\* ba_sort changes the order of the list and nothing of what is in it.
LEMMA SortFacts ==
    ASSUME NEW B \in Layouts, NEW w \in Links(B), NEW hd \in Header(B), WellLinked(B, w, hd)
    PROVE  LET v == Sorted(B, w, hd)
           IN  /\ FreeSet(B, v.link, v.header.first) = FreeSet(B, w, hd.first)
               /\ Increasing(B, v.link, v.header.first)
               /\ WellLinked(B, v.link, v.header)
               /\ v.header.used = hd.used
<1>1. CASE hd.sorted
  BY <1>1 DEF Sorted, WellLinked
<1>2. CASE ~hd.sorted
  <2> DEFINE r == ba_sort_list(B, w, hd.first)
             v == Sorted(B, w, hd)
  <2>1. /\ v.link = r.link /\ v.header.first = r.first
        /\ v.header.used = hd.used
    <3>1. v = [header |-> [hd EXCEPT !.first = r.first, !.sorted = TRUE],
               link   |-> r.link]
      BY <1>2 DEF Sorted
    <3> HIDE DEF r, v
    <3> QED BY <3>1 DEF Header
  <2>2. /\ FreeSet(B, r.link, r.first) = FreeSet(B, w, hd.first)
        /\ Increasing(B, r.link, r.first)
        /\ EndsWell(B, r.link, r.first)
        /\ \A b \in Chain(B, r.link, r.first) : r.link[b] # DATA
        /\ \A c, d \in Chain(B, r.link, r.first) : r.link[d] = ONE => c <= d
    BY SortedInOrder
  <2> HIDE DEF r, v
  <2> QED BY <2>1, <2>2 DEF WellLinked, v
<1> QED BY <1>1, <1>2

----------------------------------------------------------------------------
(* What a walk shows *)

LEMMA ShownFacts ==
    ASSUME NEW B \in Layouts, NEW w \in Links(B), NEW hd,
           WellLinked(B, w, hd), Increasing(B, w, hd.first)
    PROVE  Shown(B, w, hd.first) = Blocks(B) \ FreeSet(B, w, hd.first)
<1> DEFINE f == hd.first
           Stop(word) == IF word = NULL THEN B ELSE word
<1>1. /\ f = NULL \/ (f \in Blocks(B) /\ f \in Chain(B, w, f))
      /\ \A b \in Chain(B, w, f) :
            /\ b \in Blocks(B) /\ w[b] # DATA
            /\ w[b] # ONE => w[b] = NULL \/ w[b] \in Blocks(B)
            /\ w[b] \in Blocks(B) => w[b] \in Chain(B, w, f)
  BY FirstFacts, ChainFacts DEF WellLinked, Links, Word, Closed
<1>2. \A x : x \in Shown(B, w, f) <=>
          \/ x \in 0 .. (Stop(f) - 1)
          \/ \E c \in Chain(B, w, f) : w[c] # ONE /\ x \in (c + 1) .. (Stop(w[c]) - 1)
  BY DEF Shown
<1>3. \A x \in Blocks(B) : x \in FreeSet(B, w, f) <=>
          \/ x \in Chain(B, w, f)
          \/ \E d \in Chain(B, w, f) : w[d] = ONE /\ x >= d
  BY FreeFacts
<1>4. ASSUME NEW x \in 0 .. (Stop(f) - 1)
      PROVE  x \in Blocks(B) \ FreeSet(B, w, f)
  <2>1. CASE f = NULL
    <3>1. x \in Blocks(B) /\ Chain(B, w, f) = {}
      BY <1>4, <2>1, NoChain, WordFacts DEF Blocks
    <3> QED BY <1>3, <3>1
  <2>2. CASE f \in Blocks(B)
    <3>1. x \in Blocks(B) /\ x < f /\ x \in Nat /\ f \in Nat
      BY <1>4, <2>2, WordFacts DEF Blocks
    <3>2. \A d \in Chain(B, w, f) : d \in Nat /\ f <= d
      BY <1>1, <2>2, AscendingFrom, WordFacts
    <3>3. \A d \in Chain(B, w, f) : x # d /\ ~(x >= d)
      BY <3>1, <3>2
    <3> QED BY <1>3, <3>1, <3>3
  <2> QED BY <1>1, <2>1, <2>2
<1>5. ASSUME NEW c \in Chain(B, w, f), w[c] # ONE, NEW x \in (c + 1) .. (Stop(w[c]) - 1)
      PROVE  x \in Blocks(B) \ FreeSet(B, w, f)
  <2>1. c \in Blocks(B) /\ c \in Nat /\ (w[c] = NULL \/ (w[c] \in Blocks(B) /\ w[c] \in Nat))
        /\ f \in Blocks(B)
    BY <1>1, <1>5, NoChain, WordFacts
  <2>2. x \in Blocks(B) /\ x \in Nat /\ c < x /\ (w[c] \in Blocks(B) => x < w[c])
    BY <1>5, <2>1, WordFacts DEF Blocks
  <2>3. \A d \in Chain(B, w, f) : d \in Nat /\ (d <= c \/ (w[c] \in Blocks(B) /\ w[c] <= d))
    BY <1>1, <2>1, AscendingSplit, WordFacts
  <2>4. x \notin Chain(B, w, f)
    <3> SUFFICES ASSUME x \in Chain(B, w, f) PROVE FALSE
      OBVIOUS
    <3>1. ~(x <= c)
      BY <2>1, <2>2
    <3>2. w[c] \in Blocks(B) /\ w[c] <= x
      BY <2>3, <3>1
    <3>3. x < w[c] /\ w[c] \in Nat /\ x \in Nat
      BY <2>2, <3>2, WordFacts
    <3> HIDE DEF Stop
    <3> QED BY <3>2, <3>3
  <2>5. ASSUME NEW d \in Chain(B, w, f), w[d] = ONE PROVE ~(x >= d)
    <3>1. c <= d /\ c # d
      BY <1>5, <2>5 DEF WellLinked
    <3>2. d \in Nat /\ ~(d <= c)
      BY <2>1, <2>3, <3>1
    <3>3. w[c] \in Blocks(B) /\ w[c] <= d
      BY <2>3, <3>2
    <3>4. x < w[c] /\ w[c] \in Nat /\ x \in Nat
      BY <2>2, <3>3, WordFacts
    <3> QED BY <3>2, <3>3, <3>4
  <2> QED BY <1>3, <2>2, <2>4, <2>5
<1>6. ASSUME NEW x \in Blocks(B), x \notin FreeSet(B, w, f)
      PROVE  x \in Shown(B, w, f)
  <2>1. x \in Nat /\ x < B /\ x \notin Chain(B, w, f) /\ B \in Nat
    BY <1>3, <1>6, WordFacts
  <2>2. CASE f = NULL
    BY <1>2, <2>1, <2>2
  <2>3. CASE f \in Blocks(B) /\ x < f
    <3>1. Stop(f) = f /\ f \in Nat
      BY <2>3, WordFacts
    <3>2. x \in 0 .. (Stop(f) - 1)
      BY <2>1, <2>3, <3>1
    <3> QED BY <1>2, <3>2
  <2>4. CASE f \in Blocks(B) /\ ~(x < f)
    <3> DEFINE P == {c \in Chain(B, w, f) : c < x}
               c == Highest(P)
    <3>1. f \in P /\ P \in SUBSET Blocks(B)
      <4>1. f \in Chain(B, w, f) /\ f # x /\ f \in Nat
        BY <1>1, <2>1, <2>4, WordFacts
      <4>2. f < x
        BY <2>1, <2>4, <4>1
      <4> QED BY <1>1, <4>1, <4>2
    <3> HIDE DEF P
    <3>2. c \in P /\ \A b \in P : b <= c
      BY <3>1, HighestFacts
    <3> HIDE DEF c
    <3>3. c \in Chain(B, w, f) /\ c < x /\ c \in Nat
      BY <1>1, <3>2, WordFacts DEF P
    <3>4. w[c] # ONE
      <4>1. x >= c
        BY <2>1, <3>3
      <4> QED BY <1>3, <1>6, <3>3, <4>1
    <3>5. CASE w[c] = NULL
      <4>1. x \in (c + 1) .. (Stop(w[c]) - 1)
        BY <2>1, <3>3, <3>5
      <4> QED BY <1>2, <3>3, <3>4, <4>1
    <3>6. CASE w[c] \in Blocks(B)
      <4>1. w[c] \in Chain(B, w, f) /\ c < w[c] /\ w[c] \in Nat /\ w[c] # NULL
        BY <1>1, <3>3, <3>6, WordFacts DEF Increasing
      <4>2. w[c] \notin P
        BY <3>2, <3>3, <4>1
      <4>3. ~(w[c] < x) /\ w[c] # x
        BY <2>1, <4>1, <4>2 DEF P
      <4>4. x \in (c + 1) .. (Stop(w[c]) - 1)
        BY <2>1, <3>3, <4>1, <4>3
      <4> QED BY <1>2, <3>3, <3>4, <4>4
    <3> QED BY <1>1, <3>3, <3>4, <3>5, <3>6
  <2> QED BY <1>1, <2>2, <2>3, <2>4
<1>7. FreeSet(B, w, f) \subseteq Blocks(B)
  BY FreeFacts
<1> QED BY <1>2, <1>4, <1>5, <1>6, <1>7
=============================================================================
