-------------------------- MODULE MergePagesProofs --------------------------
(***************************************************************************)
(* The safety properties of module MergePages, for pages of any number of  *)
(* blocks with any blocks in use, as long as both are low, and how many    *)
(* steps a merge takes.  Half of the inductive invariant is about what     *)
(* follows an overshoot.                                                   *)
(***************************************************************************)
EXTENDS MergePages, BlockListProofs

\* The blocks of p1 that are free and not filled yet, and the blocks of p2 that
\* have been moved.
Left == {b \in Blocks(B) \ used1 : moved[b] = NULL}
Sent == {c \in used2 : c < start}

\* The words w hold the sorted list, from f, of the free blocks F, with a lazily
\* linked tail that begins at t.  Behind t there may be words of an earlier list.
Listed(w, f, F, t) ==
    /\ t \in 0 .. B /\ \A b \in Blocks(B) : b >= t => b \in F
    /\ IF F = {} THEN f = NULL ELSE f \in F /\ \A c \in F : f <= c
    /\ t \in F => w[t] = ONE
    /\ \A b \in F : b < t => \/ w[b] = NULL /\ \A c \in F : c <= b
                             \/ /\ w[b] \in F /\ b < w[b]
                                /\ \A c \in F : c <= b \/ w[b] <= c
    /\ \A b \in F : b > t /\ w[b] \in Blocks(B) => b < w[b]

\* The blocks that have been moved are in different blocks that were free.
Placed == /\ \A b \in Blocks(B) : moved[b] # NULL => b \notin used1 /\ moved[b] \in Sent
          /\ \A c \in Sent : \E b \in Blocks(B) : moved[b] = c
          /\ \A b, c \in Blocks(B) : moved[b] # NULL /\ moved[b] = moved[c] => b = c

Underway == /\ Placed
            /\ Cardinality(Left) = B - Cardinality(used1) - Cardinality(Sent)
            /\ \E t \in 0 .. B : Listed(link, free_block, Left, t)

\* The blocks of p2 in the chunks up to the one being moved.
Passed == {c \in used2 : c < stop}

\* Behind an overshoot the inner loop goes on along what is left of the list.  It has
\* come far enough for the way back to end in the page.
Behind == /\ \E t \in 0 .. B : Listed(link, free_block, Left, t)
          /\ Left # {}
          /\ start - stop <= free_block
          /\ Cardinality(Left) + (start - stop) = B - Cardinality(used1) - Cardinality(Passed)

\* Once it has gone back, the list is a tail that has not been linked.
Tail == free_block \in Blocks(B) /\ link[free_block] = ONE

\* What is so once a chunk was overshot: what the inner loop moved too much is moved
\* too little later on, so that the length of the list is right in the end.
OvershotInv == /\ pc = "walk" => Tail /\ free_block = Cardinality(used1) + Cardinality(Passed)
               /\ pc = "move" /\ start <= stop =>
                     /\ Tail /\ start < stop
                     /\ free_block + (stop - start) = Cardinality(used1) + Cardinality(Passed)
               /\ pc = "move" /\ start > stop => Behind

\* Unless a chunk is overshot the list of p1 is what is left, and there is more left
\* than there is to be moved.
IInv == /\ TypeOK
        /\ Cardinality(used1) + Cardinality(used2) < B
        /\ pc = "failed" => overshot
        /\ pc \in {"walk", "move"} => used = Cardinality(used1)
        /\ pc = "done" => used = B - Cardinality(FreeSet(B, link, first))
        /\ overshot => OvershotInv
        /\ ~overshot => /\ pc = "walk" => Underway /\ start = stop
                        /\ pc = "move" => /\ Underway /\ start < stop
                                          /\ start .. (stop - 1) \subseteq used2
                        /\ pc = "done" => Placed /\ Sent = used2

LEMMA MinFacts ==
    ASSUME NEW T \in SUBSET Nat, T # {}
    PROVE  Min(T) \in T /\ \A n \in T : Min(T) <= n
<1>1. \E m \in T : \A n \in T : m <= n
  BY Least
<1> QED BY <1>1 DEF Min

LEMMA BlockRange == Blocks(B) \cup {NULL} \subseteq (0 .. B) \cup {NULL}
<1>1. \A b \in Blocks(B) : b \in 0 .. B
  BY BAssumption, WordFacts
<1> QED BY <1>1

LEMMA SetFacts ==
    ASSUME NEW S \in SUBSET Blocks(B)
    PROVE  IsFiniteSet(S) /\ Cardinality(S) \in Nat /\ Cardinality(S) <= B
<1>1. IsFiniteSet(S) /\ Cardinality(S) <= Cardinality(Blocks(B))
  BY BAssumption, BlockCount, FS_Subset
<1> QED BY BAssumption, <1>1, BlockCount, FS_CardinalityType

----------------------------------------------------------------------------
(* Sorted lists *)

\* The list reaches the free blocks, and ascends.
LEMMA ListedFacts ==
    ASSUME NEW w \in Links(B), NEW f, NEW F \in SUBSET Blocks(B), NEW t, Listed(w, f, F, t)
    PROVE  /\ FreeSet(B, w, f) = F
           /\ \A b \in F : w[b] \in Blocks(B) => w[b] > b
<1> DEFINE L == {b \in F : b <= t}
<1>1. /\ t \in Nat /\ (t = B \/ t \in Blocks(B)) /\ \A b \in F : b \in Nat /\ b \in Blocks(B)
      /\ \A b \in Blocks(B) : b >= t => b \in F
  BY BAssumption, WordFacts DEF Listed, Blocks
<1>2. t \in Blocks(B) => t \in F /\ t \in L /\ w[t] = ONE
  BY <1>1 DEF Listed
<1>3. L = {} => f \notin Blocks(B)
  <2> SUFFICES ASSUME L = {} PROVE f \notin Blocks(B)
    OBVIOUS
  <2>1. t = B
    BY <1>1, <1>2
  <2>2. F = {}
    BY BAssumption, <1>1, <2>1, WordFacts
  <2> QED BY BAssumption, <2>2, WordFacts DEF Listed
<1>4. L # {} => f \in L /\ \A c \in L : f <= c
  <2> SUFFICES ASSUME NEW c \in L PROVE f \in L /\ f <= c
    BY DEF Listed
  <2>1. f \in F /\ f <= c /\ c <= t /\ c \in Nat /\ f \in Nat
    BY <1>1 DEF Listed
  <2> QED BY <1>1, <2>1
<1>5. ASSUME NEW b \in L
      PROVE  \/ w[b] \notin Blocks(B) /\ \A c \in L : c <= b
             \/ /\ w[b] \in L /\ b < w[b]
                /\ \A c \in L : c <= b \/ w[b] <= c
  <2>1. CASE b = t
    BY BAssumption, <1>1, <1>2, <2>1, WordFacts
  <2>2. CASE b < t /\ w[b] = NULL
    BY BAssumption, <1>5, <2>2, WordFacts DEF Listed
  <2>3. CASE b < t /\ w[b] # NULL
    <3>1. /\ w[b] \in F /\ b < w[b]
          /\ \A c \in F : c <= b \/ w[b] <= c
      BY <1>5, <2>3 DEF Listed
    <3>2. w[b] <= t
      <4>1. CASE t = B
        BY BAssumption, <1>1, <3>1, <4>1, WordFacts
      <4>2. CASE t \in F
        <5>1. ~(t <= b)
          BY <1>1, <1>5, <2>3
        <5> QED BY <3>1, <4>2, <5>1
      <4> QED BY <1>1, <1>2, <4>1, <4>2
    <3> QED BY <3>1, <3>2
  <2>4. b = t \/ b < t
    BY <1>1, <1>5
  <2> QED BY <2>1, <2>2, <2>3, <2>4
<1>6. Chain(B, w, f) = L
  <2>1. L \in SUBSET Blocks(B)
    BY <1>1
  <2> HIDE DEF L
  <2> QED BY BAssumption, <1>3, <1>4, <1>5, <2>1, LinkedInOrder
<1>7. FreeSet(B, w, f) = F
  <2>1. \A x \in Blocks(B) : x \in FreeSet(B, w, f) <=>
            x \in L \/ \E d \in L : w[d] = ONE /\ x >= d
    BY BAssumption, <1>6, FreeFacts
  <2>2. \A d \in L : w[d] = ONE => d = t
    <3> SUFFICES ASSUME NEW d \in L, w[d] = ONE, d # t PROVE FALSE
      OBVIOUS
    <3>1. d \in F /\ d < t
      BY <1>1
    <3>2. w[d] = NULL \/ w[d] \in Blocks(B)
      BY <1>1, <3>1 DEF Listed
    <3> QED BY BAssumption, <3>2, WordFacts
  <2>3. ASSUME NEW x \in Blocks(B) PROVE x \in FreeSet(B, w, f) <=> x \in F
    <3>1. x \in F /\ x \notin L => x >= t /\ t \in Blocks(B)
      BY BAssumption, <1>1, <2>3, WordFacts
    <3>2. x >= t => x \in F
      BY <1>1
    <3> QED BY <1>2, <2>1, <2>2, <3>1, <3>2
  <2> QED BY BAssumption, <2>3, FreeFacts
<1>8. ASSUME NEW b \in F, w[b] \in Blocks(B) PROVE w[b] > b
  <2>1. b < t => b < w[b]
    BY BAssumption, <1>8, WordFacts DEF Listed
  <2>2. b > t => b < w[b]
    BY <1>8 DEF Listed
  <2>3. b # t
    BY BAssumption, <1>1, <1>2, <1>8, WordFacts
  <2>4. b \in Nat /\ w[b] \in Nat /\ t \in Nat
    BY BAssumption, <1>1, <1>8, WordFacts
  <2> QED BY <2>1, <2>2, <2>3, <2>4
<1> QED BY <1>7, <1>8

\* The words a page has before the merge.
LEMMA WordsAreListed ==
    ASSUME NEW U \in SUBSET Blocks(B), NEW t \in Tails(U)
    PROVE  /\ Listed(Words(U, t), Head(U, t), Blocks(B) \ U, t)
           /\ Words(U, t) \in Links(B)
           /\ Head(U, t) \in Blocks(B) \cup {NULL}
<1> DEFINE F == Blocks(B) \ U
           L == F \cap 0 .. t
           w == Words(U, t)
           Further(b) == {c \in F : c > b /\ c <= t}
<1>1. t \in 0 .. B /\ t \in Nat /\ \A b \in U : b < t
  BY BAssumption, WordFacts DEF Tails
<1>2. /\ \A b \in Blocks(B) : b >= t => b \in F
      /\ \A b \in F : b \in Nat /\ b < B
      /\ t \in F \/ t = B
  BY BAssumption, <1>1, WordFacts DEF Blocks
<1>3. /\ Head(U, t) \in Blocks(B) \cup {NULL}
      /\ IF F = {} THEN Head(U, t) = NULL ELSE Head(U, t) \in F /\ \A c \in F : Head(U, t) <= c
  <2>1. Head(U, t) = IF L = {} THEN NULL ELSE Min(L)
    BY DEF Head
  <2>2. L # {} => Min(L) \in L /\ \A c \in L : Min(L) <= c
    <3>1. L \in SUBSET Nat
      BY <1>2
    <3> QED BY <3>1, MinFacts
  <2>3. L = {} => F = {}
    <3> SUFFICES ASSUME L = {}, NEW b \in F PROVE FALSE
      OBVIOUS
    <3>1. t \notin L
      OBVIOUS
    <3>2. t = B
      BY <1>1, <1>2, <3>1
    <3> QED BY <1>1, <1>2, <3>2
  <2>4. \A c \in F : c \in L \/ (t \in L /\ t <= c)
    BY <1>1, <1>2
  <2> HIDE DEF L
  <2>5. L # {} => Min(L) \in F /\ \A c \in F : Min(L) <= c
    <3> SUFFICES ASSUME L # {}, NEW c \in F PROVE Min(L) \in F /\ Min(L) <= c
      BY <2>3 DEF L
    <3>1. Min(L) \in F /\ Min(L) \in Nat
      BY <1>2, <2>2 DEF L
    <3>2. CASE c \in L
      BY <2>2, <3>1, <3>2
    <3>3. CASE t \in L /\ t <= c
      BY <1>1, <1>2, <2>2, <3>1, <3>3
    <3> QED BY <2>4, <3>1, <3>2, <3>3
  <2>6. L = {} <=> F = {}
    BY <2>3 DEF L
  <2> HIDE DEF F
  <2>7. F \subseteq Blocks(B)
    BY DEF F
  <2> QED BY <2>1, <2>5, <2>6, <2>7
<1>4. ASSUME NEW b \in Blocks(B)
      PROVE  /\ b \in U \/ b > t => w[b] = DATA
             /\ b = t => w[b] = ONE
             /\ b \in F /\ b < t => w[b] = IF Further(b) = {} THEN NULL ELSE Min(Further(b))
  <2>1. /\ b \in U => ~(b = t) /\ ~(b > t)
        /\ b \in Nat
    BY BAssumption, <1>1, WordFacts
  <2>2. w[b] = CASE b \in U \/ b > t -> DATA
                 [] b = t            -> ONE
                 [] b \notin U /\ b < t -> IF Further(b) = {} THEN NULL ELSE Min(Further(b))
    BY DEF Words
  <2> HIDE DEF w, Further
  <2>3. CASE b \in U \/ b > t
    <3>1. b # t /\ ~(b \notin U /\ b < t)
      BY <1>1, <2>1, <2>3
    <3> QED BY <2>2, <2>3, <3>1
  <2>4. CASE b = t
    <3>1. b \notin U /\ ~(b > t) /\ ~(b < t)
      BY <1>1, <2>1, <2>4
    <3> QED BY <2>2, <2>4, <3>1
  <2>5. CASE b \notin U /\ b < t
    <3>1. ~(b > t) /\ b # t
      BY <1>1, <2>1, <2>5
    <3> QED BY <2>2, <2>5, <3>1
  <2> QED BY <1>1, <2>1, <2>3, <2>4, <2>5
<1>5. ASSUME NEW b \in F
      PROVE  /\ Further(b) # {} => /\ Min(Further(b)) \in Further(b)
                                   /\ \A c \in Further(b) : Min(Further(b)) <= c
  <2>1. Further(b) \in SUBSET Nat
    BY <1>2
  <2> QED BY <2>1, MinFacts
<1>6. ASSUME NEW b \in F, b < t
      PROVE  \/ w[b] = NULL /\ \A c \in F : c <= b
             \/ /\ w[b] \in F /\ b < w[b]
                /\ \A c \in F : c <= b \/ w[b] <= c
  <2>1. /\ b \in Nat
        /\ \A c \in F : /\ c \in Nat
                        /\ c <= b \/ c \in Further(b) \/ (c > t /\ t \in Further(b))
    <3> SUFFICES ASSUME NEW c \in F
                 PROVE  c <= b \/ c \in Further(b) \/ (c > t /\ t \in Further(b))
      BY <1>2
    <3>1. c \in Nat /\ b \in Nat /\ c < B
      BY <1>2
    <3>2. CASE c <= t
      BY <3>1, <3>2, <1>1
    <3>3. CASE c > t
      <4>1. t \in F
        BY <1>1, <1>2, <3>1, <3>3
      <4> QED BY <1>1, <1>6, <3>1, <3>3, <4>1
    <3> QED BY <1>1, <3>1, <3>2, <3>3
  <2>2. CASE Further(b) = {}
    <3>1. w[b] = NULL
      BY <1>4, <1>6, <2>2
    <3> QED BY <2>1, <2>2, <3>1
  <2>3. CASE Further(b) # {}
    <3>1. w[b] = Min(Further(b))
      BY <1>4, <1>6, <2>3
    <3>2. w[b] \in Further(b) /\ \A c \in Further(b) : w[b] <= c
      BY <1>5, <2>3, <3>1
    <3>3. w[b] \in F /\ b < w[b] /\ w[b] \in Nat
      BY <1>2, <3>2
    <3>4. \A c \in F : c <= b \/ w[b] <= c
      BY <1>1, <2>1, <3>2, <3>3
    <3> QED BY <3>3, <3>4
  <2> QED BY <2>2, <2>3
<1>7. w \in Links(B)
  <2>1. ASSUME NEW b \in Blocks(B) PROVE w[b] \in Word(B)
    <3>1. b \in U \/ b > t \/ b = t \/ (b \in F /\ b < t)
      BY BAssumption, <1>1, WordFacts
    <3>2. CASE b \in F /\ b < t
      BY <1>6, <3>2 DEF Word
    <3> QED BY <1>4, <3>1, <3>2 DEF Word
  <2>2. w = [b \in Blocks(B) |-> w[b]]
    <3> DEFINE Body(b) == LET rest == {c \in Blocks(B) \ U : c > b /\ c <= t}
                          IN  CASE b \in U \/ b > t -> DATA
                                [] b = t            -> ONE
                                [] b \notin U /\ b < t ->
                                     IF rest = {} THEN NULL ELSE Min(rest)
    <3>1. w = [b \in Blocks(B) |-> Body(b)]
      BY DEF Words
    <3> HIDE DEF w, Body
    <3> QED BY <3>1
  <2> HIDE DEF w
  <2> QED BY <2>1, <2>2 DEF Links
<1>8. \A b \in F : b > t => w[b] \notin Blocks(B)
  BY BAssumption, <1>4, WordFacts
<1>9. t \in F => w[t] = ONE
  BY <1>4
<1> HIDE DEF F, w
<1>10. Listed(w, Head(U, t), F, t)
  BY <1>1, <1>2, <1>3, <1>6, <1>8, <1>9 DEF Listed
<1> QED BY <1>3, <1>7, <1>10 DEF F, w

----------------------------------------------------------------------------
(* Chunks and runs *)

LEMMA MinPair ==
    ASSUME NEW x \in Nat, NEW y \in Nat
    PROVE  Min({x, y}) = IF x <= y THEN x ELSE y
<1>1. {x, y} \in SUBSET Nat /\ {x, y} # {}
  OBVIOUS
<1> DEFINE m == Min({x, y})
<1>2. m \in {x, y} /\ m <= x /\ m <= y
  BY <1>1, MinFacts
<1> HIDE DEF m
<1>3. m = IF x <= y THEN x ELSE y
  BY <1>2
<1> QED BY <1>3 DEF m

LEMMA Interval ==
    ASSUME NEW a \in Nat, NEW n \in Nat
    PROVE  /\ IsFiniteSet(a .. (a + n - 1))
           /\ Cardinality(a .. (a + n - 1)) = n
<1>1. a \in Int /\ a + n - 1 \in Int
  OBVIOUS
<1>2. Cardinality(a .. (a + n - 1)) = IF a > a + n - 1 THEN 0 ELSE (a + n - 1) - a + 1
  BY <1>1, FS_Interval
<1> QED BY <1>1, <1>2, FS_Interval

\* There is more room in p1 than there are blocks left to move.
LEMMA RoomFacts ==
    ASSUME TypeOK, Underway, Cardinality(used1) + Cardinality(used2) < B
    PROVE  /\ Left \in SUBSET Blocks(B) /\ Sent \in SUBSET Blocks(B)
           /\ Left # {}
           /\ Cardinality(Sent) <= Cardinality(used2)
           /\ Cardinality(Left) > Cardinality(used2) - Cardinality(Sent)
<1>1. Left \in SUBSET Blocks(B) /\ Sent \in SUBSET Blocks(B) /\ used1 \in SUBSET Blocks(B)
      /\ used2 \in SUBSET Blocks(B)
  BY DEF TypeOK, Left, Sent
<1>2. /\ Cardinality(Left) \in Nat /\ Cardinality(Sent) \in Nat
      /\ Cardinality(used1) \in Nat /\ Cardinality(used2) \in Nat /\ B \in Nat
  BY BAssumption, <1>1, SetFacts, WordFacts
<1>3. Cardinality(Sent) <= Cardinality(used2)
  <2>1. Sent \subseteq used2
    BY DEF Sent
  <2> QED BY <1>1, <2>1, SetFacts, FS_Subset
<1>4. Cardinality(Left) > Cardinality(used2) - Cardinality(Sent)
  BY <1>2 DEF Underway
<1>5. Left # {}
  <2> SUFFICES ASSUME Left = {} PROVE FALSE
    OBVIOUS
  <2>1. Cardinality(Left) = 0
    BY FS_EmptySet
  <2> QED BY <1>2, <1>3, <1>4, <2>1
<1> QED BY <1>1, <1>3, <1>4, <1>5

\* The run of free blocks at the head of the list.
LEMMA RunFacts ==
    ASSUME TypeOK, Left # {}, NEW t, Listed(link, free_block, Left, t)
    PROVE  /\ free_block \in Left /\ RunEnd \in Blocks(B) /\ free_block <= RunEnd
           /\ free_block .. RunEnd \subseteq Left
           /\ RunEnd <= t /\ (link[RunEnd] = ONE <=> RunEnd = t)
           /\ link[RunEnd] \in Left \cup {NULL, ONE}
<1> DEFINE f == free_block
           e == RunEnd
           Run == {b \in Blocks(B) : /\ b >= f
                                  /\ \A c \in f .. (b - 1) : link[c] = c + 1}
           Ends == {b \in Blocks(B) :
                       /\ b >= f
                       /\ \A c \in f .. (b - 1) : link[c] = c + 1
                       /\ \/ link[b] # b + 1
                          \/ b > f /\ b - f + 1 = stop - start}
<1>1. /\ f \in Left /\ f \in Blocks(B) /\ f \in Nat /\ Left \in SUBSET Blocks(B)
      /\ t \in Nat /\ (t = B \/ t \in Blocks(B))
      /\ \A b \in Left : f <= b /\ b \in Nat
  BY BAssumption, WordFacts DEF Listed, Left, Blocks
<1>2. f \in Run /\ Run \in SUBSET Blocks(B)
  <2>1. f >= f /\ f .. (f - 1) = {}
    BY <1>1
  <2> QED BY <1>1, <2>1
<1>3. \E b \in Run : link[b] # b + 1
  <2> DEFINE m == Highest(Run)
  <2> HIDE DEF Run
  <2>1. m \in Run /\ \A b \in Run : b <= m
    BY BAssumption, <1>2, HighestFacts
  <2> HIDE DEF m
  <2>2. SUFFICES ASSUME link[m] = m + 1 PROVE FALSE
    BY <2>1
  <2>3. m \in Blocks(B) /\ m \in Nat /\ link[m] \in Word(B) /\ m + 1 \in Int
    BY BAssumption, <1>2, <2>1, WordFacts DEF TypeOK
  <2>4. m + 1 \in Blocks(B)
    BY <2>2, <2>3, WordAssumption DEF Word
  <2>5. \A c \in f .. ((m + 1) - 1) : c = m \/ c \in f .. (m - 1)
    BY <1>1, <2>3
  <2>6. m + 1 \in Run
    BY <1>1, <2>1, <2>2, <2>3, <2>4, <2>5 DEF Run
  <2> QED BY <2>1, <2>3, <2>6
<1>4. Ends \in SUBSET Nat /\ Ends # {}
  <2>1. Ends \in SUBSET Nat
    BY BAssumption, WordFacts
  <2> QED BY <1>3, <2>1
<1>5. e \in Ends
  BY <1>4, MinFacts DEF RunEnd
<1>6. /\ e \in Blocks(B) /\ e \in Nat /\ f <= e
      /\ \A c \in f .. (e - 1) : link[c] = c + 1
  BY BAssumption, <1>5, WordFacts
<1> HIDE DEF e, Run, Ends
\* The run is part of the list.
<1> DEFINE In(c) == c \in Left /\ c <= t
<1>7. In(f)
  <2>1. t = B \/ t \in Left
    BY <1>1 DEF Listed
  <2> QED BY BAssumption, <1>1, <2>1, WordFacts
<1>8. ASSUME NEW c \in f .. (e - 1), In(c) PROVE In(c + 1)
  <2>1. link[c] = c + 1 /\ c \in Nat /\ c + 1 \in Int
    BY <1>1, <1>6
  <2>2. link[c] # ONE /\ link[c] # NULL
    BY <2>1, WordAssumption
  <2>3. c < t
    <3>1. c # t
      BY <1>8, <2>2 DEF Listed
    <3> QED BY <1>1, <1>8, <2>1, <3>1
  <2>4. c + 1 \in Left
    BY <1>8, <2>1, <2>2, <2>3 DEF Listed
  <2> QED BY <1>1, <2>1, <2>3, <2>4
<1>9. \A c \in f .. e : In(c)
  <2> DEFINE Out == {c \in f .. e : ~In(c)}
  <2> SUFFICES ASSUME Out # {} PROVE FALSE
    OBVIOUS
  <2>1. Out \in SUBSET Nat
    BY <1>1
  <2> HIDE DEF In
  <2>2. PICK c \in Out : \A d \in Out : c <= d
    BY <2>1, Least
  <2>3. c # f /\ c \in f .. e
    BY <1>7, <2>2
  <2>4. c - 1 \in f .. (e - 1) /\ c - 1 \in f .. e /\ (c - 1) + 1 = c
    BY <1>1, <1>6, <2>3
  <2>5. In(c - 1)
    <3>1. ~(c <= c - 1)
      BY <2>4
    <3> QED BY <2>2, <2>4, <3>1
  <2>6. In((c - 1) + 1)
    BY <1>8, <2>4, <2>5
  <2> QED BY <2>2, <2>4, <2>6
<1>10. e \in Left /\ e <= t
  <2>1. e \in f .. e
    BY <1>1, <1>6
  <2> QED BY <1>9, <2>1
<1>11. link[e] = ONE <=> e = t
  <2>1. e = t => link[e] = ONE
    BY <1>10 DEF Listed
  <2>2. e < t => link[e] # ONE
    BY BAssumption, <1>1, <1>10, WordFacts DEF Listed
  <2> QED BY <1>1, <1>6, <1>10, <2>1, <2>2
<1>12. link[e] \in Left \cup {NULL, ONE}
  <2>1. e < t => link[e] \in Left \cup {NULL}
    BY <1>10 DEF Listed
  <2> QED BY <1>1, <1>6, <1>10, <1>11, <2>1
<1> QED BY <1>1, <1>6, <1>9, <1>10, <1>11, <1>12 DEF e

LEMMA MovedType ==
    ASSUME TypeOK, free_block \in Blocks(B), NEW n \in Nat,
           moved' = [b \in Blocks(B) |->
                        IF b \in free_block .. (free_block + n - 1)
                        THEN Min({start + b - free_block, B}) ELSE moved[b]]
    PROVE  moved' \in [Blocks(B) -> Blocks(B) \cup {B, NULL}]
<1>1. free_block \in Nat /\ start \in Nat /\ moved \in [Blocks(B) -> Blocks(B) \cup {B, NULL}]
  BY BAssumption, WordFacts DEF TypeOK
<1>2. ASSUME NEW b \in Blocks(B), b \in free_block .. (free_block + n - 1)
      PROVE  Min({start + b - free_block, B}) \in Blocks(B) \cup {B}
  <2>1. start + b - free_block \in Nat
    BY BAssumption, <1>1, <1>2, WordFacts
  <2>2. Min({start + b - free_block, B}) \in 0 .. B
    BY BAssumption, <2>1, MinPair, WordFacts
  <2> QED BY BAssumption, <2>2, WordFacts DEF Blocks
<1> QED BY <1>1, <1>2

\* n blocks of the chunk are moved to the free blocks from free_block on.
LEMMA MoveFacts ==
    ASSUME TypeOK, Underway, Cardinality(used1) + Cardinality(used2) < B,
           start .. (stop - 1) \subseteq used2, free_block \in Blocks(B),
           NEW n \in Nat, n >= 1, n <= stop - start,
           free_block .. (free_block + n - 1) \subseteq Left,
           used1' = used1, used2' = used2, start' = start + n,
           moved' = [b \in Blocks(B) |->
                        IF b \in free_block .. (free_block + n - 1)
                        THEN Min({start + b - free_block, B}) ELSE moved[b]]
    PROVE  /\ Placed'
           /\ Left' = Left \ (free_block .. (free_block + n - 1))
           /\ Cardinality(Left') = B - Cardinality(used1') - Cardinality(Sent')
<1> DEFINE f == free_block
           To == f .. (f + n - 1)
           Src == start .. (start + n - 1)
<1>1. /\ f \in Nat /\ start \in Nat /\ stop \in Nat /\ start + n <= stop /\ stop <= B
      /\ B \in Nat /\ used1 \in SUBSET Blocks(B) /\ used2 \in SUBSET Blocks(B)
      /\ moved \in [Blocks(B) -> Blocks(B) \cup {B, NULL}]
      /\ To \in SUBSET Left /\ Left \in SUBSET Blocks(B)
  BY BAssumption, WordFacts DEF TypeOK, Left
<1>2. /\ Src \in SUBSET used2
      /\ Sent' = Sent \cup Src
      /\ Sent \cap Src = {}
      /\ Sent \in SUBSET Blocks(B)
  <2>1. \A c \in Src : c \in start .. (stop - 1)
    BY <1>1
  <2>2. \A c \in used2 : c < start + n <=> c < start \/ c \in Src
    BY BAssumption, <1>1, WordFacts
  <2>3. \A c \in Src : ~(c < start)
    BY <1>1
  <2> QED BY <1>1, <2>1, <2>2, <2>3 DEF Sent
<1>3. ASSUME NEW b \in To
      PROVE  /\ moved'[b] = start + b - f
             /\ moved'[b] \in Src /\ moved'[b] \in Blocks(B) /\ moved'[b] # NULL
             /\ b \in Left /\ moved[b] = NULL /\ b \notin used1
             /\ b \in Nat
  <2>1. b \in Left /\ b \in Blocks(B) /\ b \in Nat /\ moved[b] = NULL /\ b \notin used1
    BY <1>1 DEF Left
  <2>2. /\ start + b - f \in Nat /\ start + b - f < stop
        /\ start + b - f \in Src
    BY <1>1, <2>1
  <2>3. Min({start + b - f, B}) = start + b - f
    BY <1>1, <2>2, MinPair
  <2>4. moved'[b] = start + b - f
    BY <2>1, <2>3
  <2> QED BY BAssumption, <1>1, <1>2, <2>1, <2>2, <2>4, WordFacts
<1>4. \A b \in Blocks(B) : b \notin To => moved'[b] = moved[b]
  OBVIOUS
<1>6. Left' = Left \ To
  <2>1. Left' = {b \in Blocks(B) \ used1 : moved'[b] = NULL}
    BY DEF Left
  <2>2. ASSUME NEW b \in Blocks(B) \ used1
        PROVE  moved'[b] = NULL <=> b \in Left /\ b \notin To
    BY <1>3, <1>4 DEF Left
  <2> HIDE DEF To
  <2> QED BY <1>1, <2>1, <2>2 DEF Left
<1>7. Cardinality(Left') = B - Cardinality(used1') - Cardinality(Sent')
  <2>1. /\ IsFiniteSet(Left) /\ IsFiniteSet(Sent) /\ IsFiniteSet(To) /\ IsFiniteSet(Src)
        /\ Cardinality(To) = n /\ Cardinality(Src) = n
        /\ Cardinality(Left) \in Nat /\ Cardinality(Sent) \in Nat
        /\ Cardinality(used1) \in Nat
    BY <1>1, <1>2, SetFacts, Interval
  <2>2. Cardinality(Left') = Cardinality(Left) - n
    <3>1. Left \cap To = To
      BY <1>1
    <3> HIDE DEF To
    <3>2. Cardinality(Left \ To) = Cardinality(Left) - Cardinality(Left \cap To)
      BY <2>1, FS_Difference
    <3> QED BY <1>6, <2>1, <3>1, <3>2
  <2>3. Cardinality(Sent') = Cardinality(Sent) + n
    <3> HIDE DEF Src
    <3>1. Cardinality(Sent \cup Src)
            = Cardinality(Sent) + Cardinality(Src) - Cardinality(Sent \cap Src)
      BY <2>1, FS_Union
    <3>2. Cardinality(Sent \cap Src) = 0
      BY <1>2, FS_EmptySet
    <3> QED BY <1>2, <2>1, <3>1, <3>2
  <2> QED BY <1>1, <2>1, <2>2, <2>3 DEF Underway
<1>8. Placed'
  <2>1. /\ \A b \in Blocks(B) : moved[b] # NULL => b \notin used1 /\ moved[b] \in Sent
        /\ \A c \in Sent : \E b \in Blocks(B) : moved[b] = c
        /\ \A b, c \in Blocks(B) : moved[b] # NULL /\ moved[b] = moved[c] => b = c
    BY DEF Underway, Placed
  <2>2. \A b \in Blocks(B) : moved'[b] # NULL => b \notin used1 /\ moved'[b] \in Sent \cup Src
    BY <1>3, <1>4, <2>1
  <2>3. ASSUME NEW c \in Sent \cup Src PROVE \E b \in Blocks(B) : moved'[b] = c
    <3>1. CASE c \in Sent
      <4>1. PICK b \in Blocks(B) : moved[b] = c
        BY <2>1, <3>1
      <4>2. c # NULL
        BY BAssumption, <1>2, <3>1, WordFacts
      <4>3. b \notin To
        BY <1>3, <4>1, <4>2
      <4> QED BY <1>4, <4>1, <4>3
    <3>2. CASE c \in Src
      <4>1. f + c - start \in To /\ start + (f + c - start) - f = c
        BY <1>1, <3>2
      <4>2. moved'[f + c - start] = c /\ f + c - start \in Blocks(B)
        BY <1>1, <1>3, <4>1
      <4> QED BY <4>2
    <3> QED BY <2>3, <3>1, <3>2
  <2>4. ASSUME NEW b \in Blocks(B), NEW c \in Blocks(B), moved'[b] # NULL, moved'[b] = moved'[c]
        PROVE  b = c
    <3>1. CASE b \in To /\ c \in To
      <4>1. start + b - f = start + c - f /\ b \in Nat /\ c \in Nat
        BY <1>3, <2>4, <3>1
      <4> QED BY <1>1, <4>1
    <3>2. CASE b \notin To /\ c \notin To
      BY <1>4, <2>1, <2>4, <3>2
    <3>3. CASE b \in To /\ c \notin To
      BY <1>2, <1>3, <1>4, <2>1, <2>4, <3>3
    <3>4. CASE b \notin To /\ c \in To
      BY <1>2, <1>3, <1>4, <2>1, <2>4, <3>4
    <3> QED BY <3>1, <3>2, <3>3, <3>4
  <2> QED BY <1>2, <2>2, <2>3, <2>4 DEF Placed
<1> QED BY <1>6, <1>7, <1>8

----------------------------------------------------------------------------
(* The steps *)

LEMMA InitIsSound == Init => IInv
<1> SUFFICES ASSUME Init PROVE IInv
  OBVIOUS
<1>1. /\ used1 \in SUBSET Blocks(B) /\ used2 \in SUBSET Blocks(B)
      /\ IsLow(Cardinality(used1)) /\ IsLow(Cardinality(used2))
      /\ start = 0 /\ stop = 0
      /\ moved = [b \in Blocks(B) |-> NULL]
      /\ first = NULL /\ used = Cardinality(used1)
      /\ overshot = FALSE /\ pc = "walk"
  BY DEF Init
<1>2. PICK t \in Tails(used1) : /\ link = Words(used1, t)
                                /\ free_block = Head(used1, t)
  BY DEF Init
<1>3. /\ Cardinality(used1) \in Nat /\ Cardinality(used2) \in Nat
      /\ Cardinality(used1) <= B /\ B \in Nat
  BY BAssumption, <1>1, SetFacts, WordFacts
<1>4. Cardinality(used1) + Cardinality(used2) < B
  BY <1>1, <1>3 DEF IsLow
<1>5. Left = Blocks(B) \ used1 /\ Sent = {}
  <2>1. \A c \in used2 : ~(c < start)
    BY BAssumption, <1>1, WordFacts
  <2> QED BY <1>1, <2>1 DEF Left, Sent
<1>6. /\ Listed(link, free_block, Left, t)
      /\ link \in Links(B) /\ free_block \in Blocks(B) \cup {NULL} /\ t \in 0 .. B
  BY <1>1, <1>2, <1>5, WordsAreListed DEF Tails
<1>7. TypeOK
  <2>1. free_block \in 0 .. B \cup {NULL}
    BY <1>6, BlockRange
  <2>2. 0 \in 0 .. B /\ 0 \in 0 .. 2 * B /\ used \in 0 .. B
    BY <1>1, <1>3
  <2> QED BY <1>1, <1>6, <2>1, <2>2 DEF TypeOK, Links
<1>8. Placed
  BY <1>1, <1>5 DEF Placed
<1>9. Cardinality(Left) = B - Cardinality(used1) - Cardinality(Sent)
  <2>1. Cardinality(Blocks(B) \ used1) = Cardinality(Blocks(B)) - Cardinality(Blocks(B) \cap used1)
    BY BAssumption, BlockCount, FS_Difference
  <2>2. Blocks(B) \cap used1 = used1 /\ Cardinality(Sent) = 0
    BY <1>1, <1>5, FS_EmptySet
  <2>3. Cardinality(Left) = Cardinality(Blocks(B)) - Cardinality(used1)
    BY <1>5, <2>1, <2>2
  <2>4. Cardinality(Blocks(B)) = B
    BY BAssumption, BlockCount
  <2> QED BY <1>3, <2>2, <2>3, <2>4
<1> QED BY <1>1, <1>4, <1>6, <1>7, <1>8, <1>9 DEF IInv, Underway

\* The blocks of p2 that have been passed.
LEMMA PassedFacts ==
    ASSUME TypeOK
    PROVE  /\ used1 \in SUBSET Blocks(B) /\ used2 \in SUBSET Blocks(B)
           /\ Passed \in SUBSET Blocks(B) /\ Sent \in SUBSET Blocks(B)
           /\ Cardinality(used1) \in Nat /\ Cardinality(used2) \in Nat
           /\ Cardinality(Passed) \in Nat /\ Cardinality(Passed) <= Cardinality(used2)
           /\ B \in Nat /\ start \in Nat /\ stop \in Nat /\ stop <= B
<1>1. /\ used1 \in SUBSET Blocks(B) /\ used2 \in SUBSET Blocks(B)
      /\ Passed \in SUBSET Blocks(B) /\ Sent \in SUBSET Blocks(B) /\ Passed \subseteq used2
  BY DEF TypeOK, Passed, Sent
<1>2. B \in Nat /\ start \in Nat /\ stop \in Nat /\ stop <= B
  BY BAssumption, WordFacts DEF TypeOK
<1>3. Cardinality(Passed) <= Cardinality(used2)
  BY <1>1, SetFacts, FS_Subset
<1> QED BY <1>1, <1>2, <1>3, SetFacts

\* The next chunk is a run of blocks of p2 that begins behind the one before.
LEMMA ChunkFacts ==
    ASSUME TypeOK, NextChunk
    PROVE  /\ start' \in used2 /\ start' \in Blocks(B) /\ start' \in Nat
           /\ stop' \in 0 .. B /\ stop <= start' /\ start' < stop'
           /\ start' .. (stop' - 1) \subseteq used2
           /\ \A c \in used2 : c < start' <=> c < stop
<1>1. /\ Rest # {} /\ start' = Min(Rest)
      /\ stop' = Min({b \in 0 .. B : b > start' /\ b \notin used2})
  BY DEF NextChunk
<1>3. used2 \in SUBSET Blocks(B) /\ stop \in Nat /\ B \in Nat
  BY PassedFacts
<1>4. start' \in Rest /\ \A b \in Rest : start' <= b
  <2>1. Rest \in SUBSET Nat
    BY BAssumption, <1>3, WordFacts DEF Rest
  <2> QED BY <1>1, <2>1, MinFacts
<1>5. start' \in used2 /\ start' \in Blocks(B) /\ start' \in Nat /\ start' < B /\ stop <= start'
  BY BAssumption, <1>3, <1>4, WordFacts DEF Rest
<1> DEFINE Gap == {b \in 0 .. B : b > start' /\ b \notin used2}
<1>6. stop' \in Gap /\ \A b \in Gap : stop' <= b
  <2>1. B \in Gap /\ Gap \in SUBSET Nat
    BY BAssumption, <1>3, <1>5, WordFacts
  <2> QED BY <1>1, <2>1, MinFacts
<1>7. stop' \in 0 .. B /\ start' < stop' /\ start' .. (stop' - 1) \subseteq used2
  <2>1. stop' \in 0 .. B /\ start' < stop'
    BY <1>6
  <2> DEFINE lo == start'
             hi == stop'
  <2>2. /\ lo \in Nat /\ hi \in Nat /\ hi <= B /\ B \in Nat /\ lo \in used2
        /\ \A b \in 0 .. B : b > lo /\ b \notin used2 => hi <= b
    BY <1>3, <1>5, <1>6, <2>1
  <2> HIDE DEF lo, hi
  <2>3. ASSUME NEW c \in lo .. (hi - 1) PROVE c \in used2
    <3>1. c \in 0 .. B /\ ~(hi <= c) /\ (c = lo \/ c > lo)
      BY <2>2
    <3> QED BY <2>2, <3>1
  <2>4. start' .. (stop' - 1) \subseteq used2
    BY <2>3 DEF lo, hi
  <2> QED BY <2>1, <2>4
<1>8. \A c \in used2 : c < start' <=> c < stop
  BY BAssumption, <1>3, <1>4, <1>5, WordFacts DEF Rest
<1> QED BY <1>5, <1>7, <1>8

LEMMA ChunkCount ==
    ASSUME TypeOK, NextChunk
    PROVE  Cardinality(Passed') = Cardinality(Passed) + (stop' - start')
<1> DEFINE lo == start'
           n == stop' - start'
           Chunk == lo .. (lo + n - 1)
<1>1. used2' = used2 /\ Passed \in SUBSET Blocks(B) /\ used2 \in SUBSET Blocks(B) /\ stop \in Nat
  BY PassedFacts DEF NextChunk
<1>2. /\ lo \in Nat /\ n \in Nat /\ stop' = lo + n /\ stop <= lo
      /\ lo .. (stop' - 1) \subseteq used2
      /\ \A c \in used2 : c < lo <=> c < stop
  BY ChunkFacts
<1> HIDE DEF lo, n
<1>3. Chunk \subseteq used2 /\ Passed \cap Chunk = {}
  <2>1. Chunk \subseteq used2
    BY <1>2
  <2>2. \A c \in Chunk : ~(c < stop)
    BY <1>1, <1>2
  <2> QED BY <2>1, <2>2 DEF Passed
<1>4. Passed' = Passed \cup Chunk
  <2>1. Passed' = {c \in used2 : c < lo + n}
    BY <1>1, <1>2 DEF Passed
  <2>2. \A c \in used2 : c < lo + n <=> c < stop \/ c \in Chunk
    BY BAssumption, <1>1, <1>2, WordFacts
  <2> HIDE DEF Chunk
  <2> QED BY <1>3, <2>1, <2>2 DEF Passed
<1>5. Cardinality(Chunk) = n /\ IsFiniteSet(Chunk) /\ IsFiniteSet(Passed)
  BY <1>1, <1>2, Interval, SetFacts
<1> HIDE DEF Chunk
<1>6. Cardinality(Passed \cup Chunk)
        = Cardinality(Passed) + Cardinality(Chunk) - Cardinality(Passed \cap Chunk)
  BY <1>5, FS_Union
<1>7. Cardinality(Passed) \in Nat /\ Cardinality(Passed \cap Chunk) = 0
  BY <1>3, PassedFacts, FS_EmptySet
<1> QED BY <1>2, <1>4, <1>5, <1>6, <1>7 DEF n, lo

\* A tail that has not been linked is a run of one block, and the rest of the page.
LEMMA TailFacts ==
    ASSUME TypeOK, Tail
    PROVE  /\ RunEnd = free_block
           /\ Cardinality(FreeSet(B, link, free_block)) = B - free_block
<1> DEFINE f == free_block
           Ends == {b \in Blocks(B) :
                       /\ b >= f
                       /\ \A c \in f .. (b - 1) : link[c] = c + 1
                       /\ \/ link[b] # b + 1
                          \/ b > f /\ b - f + 1 = stop - start}
<1>1. f \in Blocks(B) /\ f \in Nat /\ f < B /\ link[f] = ONE /\ B \in Nat
  BY BAssumption, WordFacts DEF Tail
<1>2. f \in Ends /\ Ends \in SUBSET Nat /\ \A b \in Ends : b >= f
  <2>1. f >= f /\ f .. (f - 1) = {} /\ link[f] # f + 1
    BY <1>1, WordAssumption
  <2>2. Ends \in SUBSET Nat
    BY BAssumption, WordFacts
  <2> QED BY <1>1, <2>1, <2>2
<1>3. RunEnd = Min(Ends)
  BY DEF RunEnd
<1> HIDE DEF Ends
<1>4. RunEnd = f
  <2>1. Min(Ends) \in Nat /\ Min(Ends) >= f /\ Min(Ends) <= f
    BY <1>2, MinFacts
  <2> QED BY <1>1, <1>3, <2>1
<1>5. Chain(B, link, f) = {f}
  <2> DEFINE K == {f}
  <2>1. K \in SUBSET Blocks(B) /\ K # {} /\ \A c \in K : f <= c
    BY <1>1
  <2>2. \A b \in K : link[b] \notin Blocks(B) /\ \A c \in K : c <= b
    BY BAssumption, <1>1, WordFacts
  <2>3. f \in K
    OBVIOUS
  <2> HIDE DEF K
  <2>4. Chain(B, link, f) = K
    BY BAssumption, <2>1, <2>2, <2>3, LinkedInOrder
  <2> QED BY <2>4 DEF K
<1>6. FreeSet(B, link, f) = f .. (f + (B - f) - 1)
  <2>1. \A b \in Blocks(B) : b \in FreeSet(B, link, f) <=> b >= f
    BY BAssumption, <1>1, <1>5, FreeFacts, WordFacts
  <2>2. \A b : b \in f .. (f + (B - f) - 1) <=> b \in Blocks(B) /\ b >= f
    BY <1>1 DEF Blocks
  <2>3. FreeSet(B, link, f) \subseteq Blocks(B)
    BY BAssumption, FreeFacts
  <2> QED BY <2>1, <2>2, <2>3
<1>7. B - f \in Nat
  BY <1>1
<1>8. Cardinality(f .. (f + (B - f) - 1)) = B - f
  BY <1>1, <1>7, Interval
<1> QED BY <1>4, <1>6, <1>8

LEMMA NextChunkStep ==
    ASSUME IInv, NextChunk
    PROVE  IInv'
<1>1. /\ pc = "walk"
      /\ pc' = IF free_block = NULL THEN "failed" ELSE "move"
      /\ UNCHANGED <<used1, used2, link, free_block, moved, first, used, overshot>>
  BY DEF NextChunk
<1>2. /\ TypeOK /\ Cardinality(used1) + Cardinality(used2) < B
      /\ used = Cardinality(used1)
  BY <1>1 DEF IInv
<1>3. /\ start' \in Blocks(B) /\ start' \in Nat /\ B \in Nat
      /\ stop' \in 0 .. B /\ start' < stop' /\ start' .. (stop' - 1) \subseteq used2
      /\ \A c \in used2 : c < start' <=> c < stop
  BY <1>2, ChunkFacts, PassedFacts
<1>4. ASSUME pc' = "move" PROVE TypeOK'
  <2>1. start' \in 0 .. 2 * B
    BY <1>3
  <2> QED BY <1>1, <1>2, <1>3, <1>4, <2>1 DEF TypeOK
<1>5. CASE overshot
  <2>1. Tail /\ free_block = Cardinality(used1) + Cardinality(Passed)
    BY <1>1, <1>5 DEF IInv, OvershotInv
  <2>2. pc' = "move" /\ Tail' /\ ~(start' > stop') /\ pc' # "walk"
    BY BAssumption, <1>1, <1>3, <2>1, WordFacts DEF Tail
  <2>3. (free_block + (stop - start))' = Cardinality(used1') + Cardinality(Passed')
    BY <1>1, <1>2, <1>3, <2>1, ChunkCount, PassedFacts
  <2>4. OvershotInv'
    BY <1>3, <2>2, <2>3 DEF OvershotInv
  <2> QED BY <1>1, <1>2, <1>4, <1>5, <2>2, <2>4 DEF IInv
<1>6. CASE ~overshot
  <2>1. Underway /\ start = stop
    BY <1>1, <1>6 DEF IInv
  <2>2. Sent' = Sent /\ Left' = Left /\ Left # {}
    BY <1>1, <1>2, <1>3, <2>1, RoomFacts DEF Sent, Left
  <2>3. Underway'
    <3>1. Placed'
      BY <1>1, <2>1, <2>2 DEF Underway, Placed
    <3> QED BY <1>1, <2>1, <2>2, <3>1 DEF Underway
  <2>4. pc' = "move"
    <3>1. free_block \in Left
      BY <2>1, <2>2 DEF Underway, Listed
    <3>2. free_block # NULL
      BY BAssumption, <3>1, WordFacts DEF Left
    <3> QED BY <1>1, <3>2
  <2> QED BY <1>1, <1>2, <1>3, <1>4, <1>6, <2>3, <2>4 DEF IInv
<1> QED BY <1>5, <1>6

LEMMA RelocatedFacts ==
    ASSUME TypeOK, NEW dst, NEW n
    PROVE  /\ Relocated(dst, n) \in Links(B)
           /\ \A b \in Blocks(B) : b \notin dst .. (dst + n - 1) => Relocated(dst, n)[b] = link[b]
BY DEF TypeOK, Links, Word, Relocated

\* A run of the list is filled, with blocks of the chunk or with what is behind it:
\* the list goes on behind the run.
LEMMA RunFilled ==
    ASSUME TypeOK, Left # {}, NEW t \in 0 .. B, Listed(link, free_block, Left, t), IntoRun
    PROVE  /\ free_block \in Blocks(B) /\ free_block \in Nat
           /\ Cut \in Nat /\ Cut >= 1
           /\ free_block .. (free_block + Cut - 1) \subseteq Left
           /\ Left' = Left \ (free_block .. (free_block + Cut - 1))
           /\ Cardinality(Left') = Cardinality(Left) - Cut
           /\ Listed(link', free_block', Left', t)
           /\ Left' = {} <=> free_block' = NULL
           /\ free_block' # NULL => /\ free_block' \in Blocks(B)
                                    /\ free_block' >= free_block + Cut
           /\ link' \in Links(B)
           /\ moved' \in [Blocks(B) -> Blocks(B) \cup {B, NULL}]
<1> DEFINE f == free_block
           e == RunEnd
           n == e - f + 1
           To == f .. (f + n - 1)
<1>1. /\ link[e] # ONE
      /\ Relocate(f, start, n)
      /\ link' = Relocated(f, n)
      /\ free_block' = link[e]
      /\ used1' = used1
  BY DEF IntoRun, Cut, NextFree
<1>3. Left \in SUBSET Blocks(B)
  BY DEF Left
<1>5. /\ f \in Left /\ e \in Blocks(B) /\ f <= e /\ f .. e \subseteq Left
      /\ e <= t /\ e # t /\ link[e] \in Left \cup {NULL}
  BY <1>1, RunFacts
<1> HIDE DEF e
<1>6. /\ f \in Blocks(B) /\ f \in Nat /\ e \in Nat /\ t \in Nat /\ B \in Nat /\ e < t
      /\ start \in Nat
      /\ n \in Nat /\ n >= 1 /\ f + n - 1 = e
  BY BAssumption, <1>3, <1>5, WordFacts DEF TypeOK
<1>7. moved' = [b \in Blocks(B) |-> IF b \in f .. (f + n - 1)
                                    THEN Min({start + b - f, B}) ELSE moved[b]]
  BY <1>1 DEF Relocate
<1>8. /\ link' \in Links(B)
      /\ \A b \in Blocks(B) : b \notin f .. e => link'[b] = link[b]
  BY <1>1, <1>6, RelocatedFacts
<1>9. /\ moved' \in [Blocks(B) -> Blocks(B) \cup {B, NULL}]
      /\ \A b \in To : moved'[b] # NULL
  <2>1. moved' \in [Blocks(B) -> Blocks(B) \cup {B, NULL}]
    BY <1>6, <1>7, MovedType
  <2>2. ASSUME NEW b \in To PROVE moved'[b] # NULL
    <3>1. b \in Blocks(B) /\ start + b - f \in Nat
      BY <1>3, <1>5, <1>6
    <3>2. moved'[b] = Min({start + b - f, B})
      BY <1>7, <3>1
    <3>3. Min({start + b - f, B}) \in Int
      BY <1>6, <3>1, MinPair
    <3> QED BY <3>2, <3>3, WordAssumption
  <2> QED BY <2>1, <2>2
<1> HIDE DEF n
<1>10. To \subseteq Left /\ Left' = Left \ To
  <2>1. To \subseteq Left
    BY <1>5, <1>6
  <2>2. Left' = {b \in Blocks(B) \ used1 : moved'[b] = NULL}
    BY <1>1 DEF Left
  <2>3. \A b \in Blocks(B) : b \notin To => moved'[b] = moved[b]
    BY <1>7
  <2> HIDE DEF To
  <2> QED BY <1>9, <2>1, <2>2, <2>3 DEF Left
<1>11. Cardinality(Left') = Cardinality(Left) - n
  <2>1. /\ IsFiniteSet(Left) /\ IsFiniteSet(To) /\ Cardinality(To) = n
        /\ Left \cap To = To
    BY <1>3, <1>6, <1>10, SetFacts, Interval
  <2> HIDE DEF To
  <2>2. Cardinality(Left \ To) = Cardinality(Left) - Cardinality(Left \cap To)
    BY <2>1, FS_Difference
  <2> QED BY <1>10, <2>1, <2>2
<1>12. /\ \A b \in Blocks(B) : b \in Left' <=> b \in Left /\ b > e
       /\ Left' \subseteq Left
  <2>1. \A b \in Left : f <= b /\ b \in Nat
    BY BAssumption, <1>3, WordFacts DEF Listed
  <2>2. \A b \in Left : b \in f .. e <=> ~(b > e)
    BY <1>6, <2>1
  <2> QED BY <1>6, <1>10, <2>2
<1>13. /\ link[e] = NULL => Left' = {}
       /\ link[e] # NULL => /\ link[e] \in Left' /\ link[e] > e
                            /\ \A c \in Left' : link[e] <= c
  <2>1. \/ link[e] = NULL /\ \A c \in Left : c <= e
        \/ /\ link[e] \in Left /\ e < link[e]
           /\ \A c \in Left : c <= e \/ link[e] <= c
    <3>1. e \in Left
      BY <1>5, <1>6
    <3> QED BY <1>6, <3>1 DEF Listed
  <2>2. \A c \in Left' : c \in Nat /\ ~(c <= e)
    BY BAssumption, <1>3, <1>6, <1>12, WordFacts
  <2>3. link[e] \in Left => link[e] \in Nat /\ link[e] # NULL /\ link[e] \in Blocks(B)
    BY BAssumption, <1>3, WordFacts
  <2> QED BY <1>6, <1>12, <2>1, <2>2, <2>3
<1>14. Listed(link', link[e], Left', t)
  <2>1. \A b \in Blocks(B) : b >= t => b \in Left'
    BY BAssumption, <1>6, <1>12, WordFacts DEF Listed
  <2>2. \A b \in Left' : /\ link'[b] = link[b] /\ b \in Left
                         /\ b > e /\ b \in Nat /\ b \in Blocks(B)
    <3> SUFFICES ASSUME NEW b \in Left'
                 PROVE  /\ link'[b] = link[b] /\ b \in Left
                        /\ b > e /\ b \in Nat /\ b \in Blocks(B)
      OBVIOUS
    <3>1. b \in Left /\ b \in Blocks(B) /\ b \in Nat
      BY BAssumption, <1>3, <1>12, WordFacts
    <3>2. b > e
      BY <1>12, <3>1
    <3>3. b \notin f .. e
      BY <1>6, <3>1, <3>2
    <3> QED BY <1>8, <3>1, <3>2, <3>3
  <2>3. t \in Left' => link'[t] = ONE
    BY <2>2 DEF Listed
  <2>4. ASSUME NEW b \in Left', b < t
        PROVE  \/ link'[b] = NULL /\ \A c \in Left' : c <= b
               \/ /\ link'[b] \in Left' /\ b < link'[b]
                  /\ \A c \in Left' : c <= b \/ link'[b] <= c
    <3>1. CASE link[b] = NULL
      <4>1. link[b] \notin Left
        BY BAssumption, <1>3, <3>1, WordFacts
      <4> QED BY <1>12, <2>2, <2>4, <3>1, <4>1 DEF Listed
    <3>2. CASE link[b] # NULL
      <4>1. /\ link[b] \in Left /\ b < link[b]
            /\ \A c \in Left : c <= b \/ link[b] <= c
        BY <2>2, <2>4, <3>2 DEF Listed
      <4>2. link[b] \in Blocks(B) /\ link[b] > e
        <5>1. b \in Nat /\ b > e /\ link[b] \in Nat /\ link[b] \in Blocks(B)
          BY BAssumption, <1>3, <2>2, <4>1, WordFacts
        <5> QED BY <1>6, <4>1, <5>1
      <4> QED BY <1>12, <2>2, <4>1, <4>2
    <3> QED BY <3>1, <3>2
  <2>5. \A b \in Left' : b > t /\ link'[b] \in Blocks(B) => b < link'[b]
    BY <2>2 DEF Listed
  <2>6. IF Left' = {} THEN link[e] = NULL
        ELSE link[e] \in Left' /\ \A c \in Left' : link[e] <= c
    BY <1>13
  <2> QED BY <1>6, <2>1, <2>3, <2>4, <2>5, <2>6 DEF Listed
<1>15. Cut = n
  BY DEF Cut, n, e
<1>16. Left' = {} <=> link[e] = NULL
  BY BAssumption, <1>13
<1>17. link[e] # NULL => link[e] \in Blocks(B) /\ link[e] >= f + n
  <2> SUFFICES ASSUME link[e] # NULL PROVE link[e] \in Blocks(B) /\ link[e] >= f + n
    OBVIOUS
  <2>1. link[e] \in Blocks(B) /\ link[e] > e
    BY <1>3, <1>12, <1>13
  <2>2. link[e] \in Nat
    BY BAssumption, <2>1, WordFacts
  <2> QED BY <1>6, <2>1, <2>2
<1> QED BY <1>1, <1>6, <1>8, <1>9, <1>10, <1>11, <1>14, <1>15, <1>16, <1>17

LEMMA SentCount ==
    ASSUME TypeOK, start <= stop, start .. (stop - 1) \subseteq used2
    PROVE  Cardinality(Passed) = Cardinality(Sent) + (stop - start)
<1> DEFINE n == stop - start
           Chunk == start .. (start + n - 1)
<1>1. /\ start \in Nat /\ n \in Nat /\ stop = start + n /\ Chunk \subseteq used2
      /\ Sent \in SUBSET Blocks(B) /\ used2 \in SUBSET Blocks(B)
  BY PassedFacts
<1> HIDE DEF n
<1>2. Passed = Sent \cup Chunk /\ Sent \cap Chunk = {}
  <2>1. \A c \in used2 : c < start + n <=> c < start \/ c \in Chunk
    BY BAssumption, <1>1, WordFacts
  <2>2. \A c \in Chunk : ~(c < start)
    BY <1>1
  <2> HIDE DEF Chunk
  <2> QED BY <1>1, <2>1, <2>2 DEF Passed, Sent
<1>3. Cardinality(Chunk) = n /\ IsFiniteSet(Chunk) /\ IsFiniteSet(Sent)
      /\ Cardinality(Sent) \in Nat
  BY <1>1, Interval, SetFacts
<1> HIDE DEF Chunk
<1>4. Cardinality(Sent \cup Chunk)
        = Cardinality(Sent) + Cardinality(Chunk) - Cardinality(Sent \cap Chunk)
  BY <1>3, FS_Union
<1>5. Cardinality(Sent \cap Chunk) = 0
  BY <1>2, FS_EmptySet
<1> QED BY <1>1, <1>2, <1>3, <1>4, <1>5 DEF n

\* What the inner loop needs to go on: there is a list, and if the chunk has been
\* overshot it has been so by no more than the loop has come along the page.
LEMMA IntoRunFacts ==
    ASSUME IInv, IntoRun
    PROVE  /\ Left # {} /\ \E t \in 0 .. B : Listed(link, free_block, Left, t)
           /\ overshot => start > stop /\ Behind
           /\ ~overshot => /\ start < stop /\ Underway
                           /\ start .. (stop - 1) \subseteq used2
<1>1. /\ pc = "move" /\ link[RunEnd] # ONE /\ TypeOK
      /\ Cardinality(used1) + Cardinality(used2) < B
      /\ start \in Nat /\ stop \in Nat
  BY PassedFacts DEF IInv, IntoRun
<1>2. CASE ~overshot
  BY <1>1, <1>2, RoomFacts DEF IInv, Underway
<1>3. CASE overshot
  <2>1. ~(start <= stop)
    <3> SUFFICES ASSUME start <= stop PROVE FALSE
      OBVIOUS
    <3>1. Tail
      BY <1>1, <1>3 DEF IInv, OvershotInv
    <3> QED BY <1>1, <3>1, TailFacts DEF Tail
  <2>2. start > stop
    BY <1>1, <2>1
  <2>3. Behind
    BY <1>1, <1>3, <2>2 DEF IInv, OvershotInv
  <2> QED BY <1>3, <2>2, <2>3 DEF Behind
<1> QED BY <1>2, <1>3

LEMMA IntoRunStep ==
    ASSUME IInv, IntoRun
    PROVE  IInv'
<1> DEFINE f == free_block
           n == Cut
           more == stop - start
<1>1. /\ pc = "move"
      /\ Relocate(f, start, n)
      /\ start' = Min({start + n, 2 * B})
      /\ pc' = IF n = more THEN "walk"
               ELSE IF free_block' = NULL THEN "failed" ELSE "move"
      /\ used1' = used1 /\ used2' = used2 /\ stop' = stop /\ first' = first /\ used' = used
  BY DEF IntoRun, Advanced
<1>2. /\ TypeOK /\ Cardinality(used1) + Cardinality(used2) < B
      /\ used = Cardinality(used1) /\ used' = Cardinality(used1')
  BY <1>1 DEF IInv
<1>3. PICK t \in 0 .. B : Listed(link, f, Left, t)
  BY IntoRunFacts
<1>4. /\ f \in Blocks(B) /\ f \in Nat /\ n \in Nat /\ n >= 1
      /\ f .. (f + n - 1) \subseteq Left
      /\ Left' = Left \ (f .. (f + n - 1))
      /\ Cardinality(Left') = Cardinality(Left) - n
      /\ Listed(link', free_block', Left', t)
      /\ Left' = {} <=> free_block' = NULL
      /\ free_block' # NULL => free_block' \in Blocks(B) /\ free_block' >= f + n
      /\ link' \in Links(B)
      /\ moved' \in [Blocks(B) -> Blocks(B) \cup {B, NULL}]
  BY <1>2, <1>3, IntoRunFacts, RunFilled
<1>5. /\ start \in Nat /\ stop \in Nat /\ stop <= B /\ B \in Nat
      /\ Left \in SUBSET Blocks(B)
      /\ Cardinality(used1) \in Nat /\ Cardinality(Passed) \in Nat
      /\ Cardinality(Left) \in Nat /\ Cardinality(Sent) \in Nat
  BY <1>2, PassedFacts, SetFacts DEF Left
<1>6. /\ moved' = [b \in Blocks(B) |-> IF b \in f .. (f + n - 1)
                                    THEN Min({start + b - f, B}) ELSE moved[b]]
      /\ overshot' = (overshot \/ n > more)
  BY <1>1 DEF Relocate
<1> HIDE DEF n
<1>7. f + n <= B
  <2>1. f + n - 1 \in f .. (f + n - 1)
    BY <1>4
  <2>2. f + n - 1 \in Blocks(B)
    BY <1>4, <1>5, <2>1
  <2> QED BY BAssumption, <1>4, <2>2, WordFacts
<1>8. start + n <= 2 * B /\ start' = start + n
  <2>1. overshot => start - stop <= f
    BY IntoRunFacts DEF Behind
  <2>2. start + n <= 2 * B
    BY <1>4, <1>5, <1>7, <2>1, IntoRunFacts
  <2> QED BY <1>1, <1>4, <1>5, <2>2, MinPair
<1>9. TypeOK'
  <2>1. free_block' \in 0 .. B \cup {NULL} /\ start' \in 0 .. 2 * B
    BY <1>4, <1>5, <1>8, BlockRange
  <2>2. overshot' \in BOOLEAN /\ pc' \in {"walk", "move", "failed"}
    BY <1>1, <1>6
  <2> QED BY <1>1, <1>2, <1>4, <2>1, <2>2 DEF TypeOK, Links
<1>10. CASE overshot \/ n > more
  <2>1. n # more
    BY <1>4, <1>5, <1>10, IntoRunFacts
  <2>2. overshot' /\ pc' = IF free_block' = NULL THEN "failed" ELSE "move"
    BY <1>1, <1>6, <1>10, <2>1
  <2>3. start' > stop' /\ start' - stop' = (start - stop) + n
    BY <1>1, <1>4, <1>5, <1>8, <1>10, IntoRunFacts
  <2>4. Passed' = Passed
    BY <1>1 DEF Passed
  <2>5. Cardinality(Left) + (start - stop) = B - Cardinality(used1) - Cardinality(Passed)
    <3>1. CASE overshot
      BY <3>1, IntoRunFacts DEF Behind
    <3>2. CASE ~overshot
      <4>1. /\ Cardinality(Passed) = Cardinality(Sent) + (stop - start)
            /\ Cardinality(Left) = B - Cardinality(used1) - Cardinality(Sent)
        BY <1>2, <1>5, <3>2, IntoRunFacts, SentCount DEF Underway
      <4> QED BY <1>5, <4>1
    <3> QED BY <3>1, <3>2
  <2>6. ASSUME free_block' # NULL PROVE Behind'
    <3>1. (start - stop)' <= free_block'
      <4>1. overshot => start - stop <= f
        BY IntoRunFacts DEF Behind
      <4>2. start - stop <= f
        BY <1>4, <1>5, <4>1, IntoRunFacts
      <4>3. free_block' \in Nat /\ free_block' >= f + n
        BY BAssumption, <1>4, <2>6, WordFacts
      <4> QED BY <1>4, <1>5, <2>3, <4>2, <4>3
    <3>2. Cardinality(Left') + (start - stop)'
              = B - Cardinality(used1') - Cardinality(Passed')
      BY <1>1, <1>4, <1>5, <2>3, <2>4, <2>5
    <3> QED BY <1>4, <2>6, <3>1, <3>2 DEF Behind
  <2>7. OvershotInv'
    <3>1. ~(start' <= stop') /\ pc' # "walk"
      BY <1>1, <1>5, <1>8, <1>4, <2>2, <2>3
    <3> QED BY <2>2, <2>6, <3>1 DEF OvershotInv
  <2> QED BY <1>1, <1>2, <1>9, <2>2, <2>7 DEF IInv
<1>11. CASE ~overshot /\ ~(n > more)
  <2> HIDE DEF more
  <2>1. ~overshot'
    BY <1>6, <1>11
  <2> USE DEF more
  <2>2. n <= more /\ more \in Nat
    BY <1>4, <1>5, <1>11, IntoRunFacts
  <2>3. /\ Placed'
        /\ Left' = Left \ (f .. (f + n - 1))
        /\ Cardinality(Left') = B - Cardinality(used1') - Cardinality(Sent')
    <3>1. /\ Underway /\ start .. (stop - 1) \subseteq used2
          /\ f .. (f + n - 1) \subseteq Left /\ n <= stop - start
      BY <1>4, <1>11, <2>2, IntoRunFacts
    <3> QED BY <1>1, <1>2, <1>4, <1>6, <1>8, <3>1, MoveFacts
  <2>4. Underway'
    BY <1>1, <1>4, <2>3 DEF Underway
  <2>5. free_block' # NULL
    <3>1. (Cardinality(used1) + Cardinality(used2) < B)'
      BY <1>1, <1>2
    <3>2. (TypeOK /\ Underway /\ Cardinality(used1) + Cardinality(used2) < B => Left # {})'
      BY RoomFacts, PTL
    <3> QED BY <1>4, <1>9, <2>4, <3>1, <3>2
  <2>6. CASE n = more
    <3>1. pc' = "walk" /\ start' = stop'
      BY <1>1, <1>5, <1>8, <2>6
    <3> QED BY <1>1, <1>2, <1>9, <2>1, <2>4, <3>1 DEF IInv
  <2>7. CASE n # more
    <3>1. pc' = "move"
      BY <1>1, <2>5, <2>7
    <3>2. start' < stop' /\ start' .. (stop' - 1) \subseteq used2'
      <4>1. start + n < stop
        BY <1>4, <1>5, <2>2, <2>7
      <4>2. \A c \in (start + n) .. (stop - 1) : c \in start .. (stop - 1)
        BY <1>4, <1>5
      <4>3. start .. (stop - 1) \subseteq used2
        BY <1>11, IntoRunFacts
      <4> QED BY <1>1, <1>8, <4>1, <4>2, <4>3
    <3> QED BY <1>1, <1>2, <1>9, <2>1, <2>4, <3>1, <3>2 DEF IInv
  <2> QED BY <2>6, <2>7
<1> QED BY <1>10, <1>11

\* If the run at the head of the list ends in BA_ONE, the list is the rest of the page.
LEMMA InRowFacts ==
    ASSUME TypeOK, Left # {}, NEW t \in 0 .. B, Listed(link, free_block, Left, t),
           link[RunEnd] = ONE
    PROVE  /\ free_block \in Blocks(B) /\ free_block \in Nat /\ free_block < B
           /\ \A b \in Blocks(B) : b \in Left <=> b >= free_block
           /\ Cardinality(Left) = B - free_block
<1> DEFINE f == free_block
           e == RunEnd
<1>1. Left \in SUBSET Blocks(B)
  BY DEF Left
<1>2. /\ f \in Left /\ e \in Blocks(B) /\ f <= e /\ f .. e \subseteq Left /\ e = t
  BY RunFacts
<1> HIDE DEF e
<1>3. f \in Blocks(B) /\ f \in Nat /\ f < B /\ e \in Nat /\ B \in Nat
  BY BAssumption, <1>1, <1>2, WordFacts
<1>4. \A b \in Blocks(B) : b \in Left <=> b >= f
  <2>1. \A b \in Left : f <= b
    BY <1>2 DEF Listed
  <2>2. \A b \in Blocks(B) : b >= e => b \in Left
    BY <1>2 DEF Listed
  <2>3. \A b \in Blocks(B) : b >= f => b \in f .. e \/ b >= e
    BY BAssumption, <1>3, WordFacts
  <2> QED BY BAssumption, <1>1, <1>2, <1>3, <2>1, <2>2, <2>3, WordFacts
<1>5. Cardinality(Left) = B - f
  <2>1. \A b : b \in f .. (f + (B - f) - 1) <=> b \in Blocks(B) /\ b >= f
    BY <1>3 DEF Blocks
  <2>2. Left = f .. (f + (B - f) - 1)
    BY <1>1, <1>4, <2>1
  <2>3. B - f \in Nat
    BY <1>3
  <2> QED BY <1>3, <2>2, <2>3, Interval
<1> QED BY <1>3, <1>4, <1>5

LEMMA InRowStep ==
    ASSUME IInv, InRow, ~overshot
    PROVE  IInv'
<1> DEFINE f == free_block
           e == RunEnd
           n == stop - start
           t2 == f + n
           To == f .. (f + n - 1)
<1>1. /\ pc = "move" /\ link[e] = ONE
      /\ Relocate(f, start, n)
      /\ free_block' = t2
      /\ \/ n < 0 \/ t2 > B - 1
         \/ /\ pc' = "walk"
            /\ link' = [Relocated(f, n) EXCEPT ![t2] = ONE]
      /\ start' = stop
      /\ UNCHANGED <<used1, used2, stop, first, used>>
  BY DEF InRow, TailBehindChunk
<1>2. /\ ~overshot /\ TypeOK /\ Underway /\ start < stop
      /\ start .. (stop - 1) \subseteq used2
      /\ Cardinality(used1) + Cardinality(used2) < B
      /\ used = Cardinality(used1)
  BY <1>1 DEF IInv
<1>3. /\ Left # {} /\ Left \in SUBSET Blocks(B) /\ Sent \in SUBSET Blocks(B)
      /\ Cardinality(Left) > Cardinality(used2) - Cardinality(Sent)
  BY <1>2, RoomFacts
<1>4. PICK t \in 0 .. B : Listed(link, f, Left, t)
  BY <1>2 DEF Underway
<1>5. /\ f \in Left /\ e \in Blocks(B) /\ f <= e /\ f .. e \subseteq Left /\ e = t
  BY <1>1, <1>2, <1>3, <1>4, RunFacts
<1> HIDE DEF e
<1>6. /\ f \in Blocks(B) /\ f \in Nat /\ f < B /\ e \in Nat /\ t \in Nat /\ B \in Nat
      /\ start \in Nat /\ stop \in Nat /\ stop <= B
      /\ n \in Nat /\ n >= 1 /\ start + n = stop
      /\ used2 \in SUBSET Blocks(B)
  BY BAssumption, <1>2, <1>3, <1>5, WordFacts DEF TypeOK
\* Everything from free_block on is free, and that is more than the chunk.
<1>7. /\ \A b \in Blocks(B) : b \in Left <=> b >= f
      /\ Cardinality(Left) = B - f
  <2>1. link[RunEnd] = ONE
    BY DEF InRow
  <2> QED BY <1>2, <1>3, <1>4, <2>1, InRowFacts
<1>8. t2 \in Blocks(B) /\ t2 \in Nat /\ ~(t2 > B - 1)
  <2>2. Cardinality(used2) - Cardinality(Sent) >= n
    <3>1. /\ start .. (start + n - 1) \subseteq used2 \ Sent
      <4>1. \A c \in start .. (start + n - 1) : c \in start .. (stop - 1) /\ ~(c < start)
        BY <1>6
      <4> QED BY <1>2, <4>1 DEF Sent
    <3>2. Cardinality(start .. (start + n - 1)) = n
      BY <1>6, Interval
    <3>3. /\ IsFiniteSet(used2 \ Sent) /\ used2 \ Sent \in SUBSET Blocks(B)
          /\ Cardinality(used2 \ Sent) \in Nat
      BY <1>6, SetFacts
    <3>4. n <= Cardinality(used2 \ Sent)
      BY <3>1, <3>2, <3>3, FS_Subset
    <3>5. Cardinality(used2 \ Sent) = Cardinality(used2) - Cardinality(used2 \cap Sent)
      BY <1>6, SetFacts, FS_Difference
    <3>6. used2 \cap Sent = Sent
      BY DEF Sent
    <3>7. Cardinality(used2) \in Nat /\ Cardinality(Sent) \in Nat
      BY <1>3, <1>6, SetFacts
    <3> QED BY <1>6, <3>4, <3>5, <3>6, <3>7
  <2>3. Cardinality(used2) \in Nat /\ Cardinality(Sent) \in Nat
    BY <1>3, <1>6, SetFacts
  <2>4. t2 < B /\ t2 \in Nat
    BY <1>3, <1>6, <1>7, <2>2, <2>3
  <2> QED BY <1>6, <2>4 DEF Blocks
<1>9. /\ moved' = [b \in Blocks(B) |-> IF b \in f .. (f + n - 1)
                                    THEN Min({start + b - f, B}) ELSE moved[b]]
      /\ overshot' = (n > n)
  BY <1>1, <1>2 DEF Relocate
<1>10. ~overshot' /\ overshot' \in BOOLEAN
  <2>1. (n > n) = FALSE
    BY <1>6
  <2>2. overshot' = (n > n)
    BY <1>9
  <2> HIDE DEF n
  <2>3. overshot' = FALSE
    BY <2>1, <2>2, Zenon
  <2> QED BY <2>3
<1>11. /\ pc' = "walk"
       /\ link' = [Relocated(f, n) EXCEPT ![t2] = ONE]
  <2>1. ~(n < 0) /\ ~(t2 > B - 1)
    BY <1>6, <1>8
  <2> HIDE DEF n, t2
  <2> QED BY <1>1, <2>1
<1>12. /\ link' \in Links(B) /\ link'[t2] = ONE
       /\ \A b \in Blocks(B) : b \notin To /\ b # t2 => link'[b] = link[b]
  <2>1. /\ Relocated(f, n) \in Links(B)
        /\ \A b \in Blocks(B) : b \notin To => Relocated(f, n)[b] = link[b]
    BY <1>2, RelocatedFacts
  <2> HIDE DEF t2, To
  <2> QED BY <1>8, <1>11, <2>1 DEF Links, Word
<1>13. moved' \in [Blocks(B) -> Blocks(B) \cup {B, NULL}]
  BY <1>2, <1>6, <1>9, MovedType
<1> HIDE DEF n
<1>14. /\ Placed'
       /\ Left' = Left \ To
       /\ Cardinality(Left') = B - Cardinality(used1') - Cardinality(Sent')
  <2>1. To \subseteq Left
    <3>1. \A b \in To : b \in Blocks(B) /\ b >= f
      BY <1>6, <1>8 DEF Blocks
    <3> QED BY <1>7, <3>1
  <2>2. used1' = used1 /\ used2' = used2 /\ start' = start + n /\ n <= stop - start
    BY <1>1, <1>6 DEF n
  <2> QED BY <1>2, <1>6, <1>9, <2>1, <2>2, MoveFacts
<1>15. \A b \in Blocks(B) : b \in Left' <=> b >= t2
  <2>1. \A b \in Blocks(B) : b >= f => (b \notin To <=> b >= t2)
    BY BAssumption, <1>6, WordFacts
  <2>2. \A b \in Blocks(B) : b >= t2 => b >= f
    BY BAssumption, <1>6, WordFacts
  <2> QED BY <1>7, <1>14, <2>1, <2>2
<1>16. Listed(link', t2, Left', t2)
  <2>1. t2 \in Left' /\ \A c \in Left' : c \in Blocks(B) /\ t2 <= c /\ c \in Nat
    BY BAssumption, <1>3, <1>6, <1>8, <1>14, <1>15, WordFacts
  <2>2. ASSUME NEW b \in Left', b > t2, link'[b] \in Blocks(B) PROVE b < link'[b]
    <3>1. b \notin To /\ b # t2 /\ b \in Blocks(B) /\ b \in Left
      BY <1>6, <1>8, <1>14, <2>1, <2>2
    <3>2. link[b] \in Blocks(B)
      BY <1>12, <2>2, <3>1
    <3>3. link[b] > b
      BY <1>2, <1>3, <1>4, <3>1, <3>2, ListedFacts DEF TypeOK, Links
    <3> QED BY BAssumption, <1>12, <3>1, <3>2, <3>3, WordFacts
  <2>3. t2 \in 0 .. B /\ \A b \in Left' : ~(b < t2)
    BY <1>6, <1>8, <2>1, BlockRange
  <2> HIDE DEF t2
  <2> QED BY <1>12, <1>15, <2>1, <2>2, <2>3 DEF Listed
<1>17. Underway'
  <2>1. t2 \in 0 .. B
    BY BAssumption, <1>8, BlockRange, WordFacts
  <2> HIDE DEF t2
  <2> QED BY <1>1, <1>2, <1>14, <1>16, <2>1 DEF Underway
<1>18. TypeOK'
  <2>1. t2 \in 0 .. B /\ stop \in 0 .. 2 * B
    BY BAssumption, <1>6, <1>8, WordFacts
  <2> HIDE DEF t2
  <2> QED BY <1>1, <1>2, <1>10, <1>11, <1>12, <1>13, <2>1 DEF TypeOK, Links
<1> QED BY <1>1, <1>2, <1>10, <1>11, <1>17, <1>18 DEF IInv

\* Behind an overshoot too the new tail begins in the page: in_row takes free_block
\* back, by no more than the inner loop has come, or on, by no more than is left.
LEMMA InRowOvershot ==
    ASSUME IInv, InRow, overshot
    PROVE  IInv'
<1> DEFINE f == free_block
           n == stop - start
           t2 == f + n
<1>1. /\ pc = "move" /\ link[RunEnd] = ONE
      /\ Relocate(f, start, n)
      /\ free_block' = t2
      /\ \/ n < 0 /\ pc' = "failed" /\ link' = link
         \/ t2 > B - 1
         \/ /\ pc' = "walk"
            /\ link' = [Relocated(f, n) EXCEPT ![t2] = ONE]
      /\ start' = stop
      /\ used1' = used1 /\ used2' = used2 /\ stop' = stop /\ first' = first /\ used' = used
  BY DEF InRow, TailBehindChunk
<1>2. /\ TypeOK /\ Cardinality(used1) + Cardinality(used2) < B
      /\ used = Cardinality(used1) /\ used' = Cardinality(used1')
      /\ OvershotInv
  BY <1>1 DEF IInv
<1>3. /\ Cardinality(used1) \in Nat /\ Cardinality(Passed) \in Nat
      /\ Cardinality(used1) + Cardinality(Passed) < B
      /\ B \in Nat /\ start \in Nat /\ stop \in Nat /\ stop <= B
  BY <1>2, PassedFacts
<1>4. f \in Blocks(B) /\ f \in Nat /\ t2 = Cardinality(used1) + Cardinality(Passed)
  <2>1. CASE start <= stop
    <3>1. Tail /\ t2 = Cardinality(used1) + Cardinality(Passed)
      BY <1>1, <1>2, <2>1 DEF OvershotInv
    <3> QED BY BAssumption, <3>1, WordFacts DEF Tail
  <2>2. CASE start > stop
    <3>1. Behind
      BY <1>1, <1>2, <2>2 DEF OvershotInv
    <3>2. PICK t \in 0 .. B : Listed(link, f, Left, t)
      BY <3>1 DEF Behind
    <3>3. f \in Blocks(B) /\ f \in Nat /\ Cardinality(Left) = B - f
      BY <1>1, <1>2, <3>1, <3>2, InRowFacts DEF Behind
    <3>4. Cardinality(Left) + (start - stop) = B - Cardinality(used1) - Cardinality(Passed)
      BY <3>1 DEF Behind
    <3> QED BY <1>3, <3>3, <3>4
  <2> QED BY <1>3, <2>1, <2>2
<1>5. /\ t2 \in Blocks(B) /\ t2 \in Nat /\ ~(t2 > B - 1)
      /\ t2 \in 0 .. B /\ n \in Int
  BY <1>3, <1>4 DEF Blocks
<1>6. /\ moved' = [b \in Blocks(B) |-> IF b \in f .. (f + n - 1)
                                    THEN Min({start + b - f, B}) ELSE moved[b]]
      /\ overshot'
  BY <1>1 DEF Relocate
<1>7. moved' \in [Blocks(B) -> Blocks(B) \cup {B, NULL}]
  <2>1. CASE n \in Nat
    BY <1>2, <1>4, <1>6, <2>1, MovedType
  <2>2. CASE n < 0
    <3>1. f .. (f + n - 1) = {} /\ moved \in [Blocks(B) -> Blocks(B) \cup {B, NULL}]
      BY <1>2, <1>4, <1>5, <2>2 DEF TypeOK
    <3> QED BY <1>6, <3>1
  <2> QED BY <1>5, <2>1, <2>2
<1> HIDE DEF n, t2
<1>8. \/ pc' = "failed" /\ link' = link
      \/ /\ pc' = "walk"
         /\ link' = [Relocated(f, n) EXCEPT ![t2] = ONE]
  BY <1>1, <1>5
<1>9. pc' = "walk" => Tail'
  <2>1. pc' = "walk" => link'[t2] = ONE
    BY <1>2, <1>5, <1>8, RelocatedFacts DEF Links
  <2> QED BY <1>1, <1>5, <2>1 DEF Tail
<1>10. TypeOK'
  <2>1. link' \in Links(B)
    BY <1>2, <1>5, <1>8, RelocatedFacts DEF Links, Word, TypeOK
  <2>2. stop \in 0 .. 2 * B /\ pc' \in {"walk", "failed"} /\ overshot' \in BOOLEAN
    BY <1>3, <1>6, <1>8
  <2> QED BY <1>1, <1>2, <1>5, <1>7, <2>1, <2>2 DEF TypeOK, Links
<1>11. OvershotInv'
  <2>1. Passed' = Passed
    BY <1>1 DEF Passed
  <2>2. pc' # "move"
    BY <1>8
  <2> QED BY <1>1, <1>4, <1>9, <2>1, <2>2 DEF OvershotInv
<1> QED BY <1>1, <1>2, <1>6, <1>8, <1>10, <1>11 DEF IInv

LEMMA FinishStep ==
    ASSUME IInv, Finish
    PROVE  IInv'
<1>1. /\ pc = "walk" /\ Rest = {} /\ used' = used + Cardinality(used2)
      /\ first' = IF used' = B THEN NULL ELSE free_block
      /\ pc' = "done"
      /\ UNCHANGED <<used1, used2, link, free_block, start, stop, moved, overshot>>
  BY DEF Finish, UsedByBoth
<1>2. /\ TypeOK /\ Cardinality(used1) + Cardinality(used2) < B
      /\ used = Cardinality(used1)
  BY <1>1 DEF IInv
<1>3. /\ used1 \in SUBSET Blocks(B) /\ used2 \in SUBSET Blocks(B) /\ start \in Nat
      /\ Cardinality(used1) \in Nat /\ Cardinality(used2) \in Nat /\ B \in Nat /\ stop \in Nat
  BY <1>2, PassedFacts
<1>4. Passed = used2
  BY BAssumption, <1>1, <1>3, WordFacts DEF Rest, Passed
<1>5. used' # B /\ used' \in 0 .. B /\ first' = free_block
  BY <1>1, <1>2, <1>3
<1>6. ASSUME free_block \in Blocks(B) PROVE TypeOK'
  BY <1>1, <1>2, <1>5, <1>6 DEF TypeOK
<1>7. CASE overshot
  <2>1. Tail /\ free_block = Cardinality(used1) + Cardinality(used2)
    BY <1>1, <1>4, <1>7 DEF IInv, OvershotInv
  <2>2. Cardinality(FreeSet(B, link, free_block)) = B - free_block
    BY <1>2, <2>1, TailFacts
  <2>3. used' = B - Cardinality(FreeSet(B, link', first'))
    BY <1>1, <1>2, <1>3, <1>5, <2>1, <2>2
  <2>4. OvershotInv' /\ TypeOK'
    BY <1>1, <1>6, <2>1 DEF OvershotInv, Tail
  <2> QED BY <1>1, <1>2, <1>7, <2>3, <2>4 DEF IInv
<1>8. CASE ~overshot
  <2>1. Underway /\ start = stop
    BY <1>1, <1>8 DEF IInv
  <2>2. Sent = used2
    BY <1>4, <2>1 DEF Sent, Passed
  <2>3. PICK t \in 0 .. B : Listed(link, free_block, Left, t)
    BY <2>1 DEF Underway
  <2>4. Left # {} /\ Left \in SUBSET Blocks(B)
    BY <1>2, <2>1, RoomFacts
  <2>5. FreeSet(B, link, free_block) = Left
    BY <1>2, <2>3, <2>4, ListedFacts DEF TypeOK, Links
  <2>6. free_block \in Blocks(B)
    BY <2>3, <2>4 DEF Listed
  <2>7. used' = B - Cardinality(FreeSet(B, link', first'))
    <3>1. Cardinality(Left) \in Nat
      BY <2>4, SetFacts
    <3> QED BY <1>1, <1>2, <1>3, <1>5, <2>1, <2>2, <2>5, <3>1 DEF Underway
  <2>8. Placed' /\ Sent' = used2'
    BY <1>1, <2>1, <2>2 DEF Underway, Placed, Sent
  <2> QED BY <1>1, <1>2, <1>6, <1>8, <2>6, <2>7, <2>8 DEF IInv
<1> QED BY <1>7, <1>8

LEMMA InRowOnPage == ASSUME IInv, InRow PROVE free_block \in Int
<1>1. pc = "move" /\ link[RunEnd] = ONE /\ TypeOK
      /\ Cardinality(used1) + Cardinality(used2) < B
      /\ start \in Nat /\ stop \in Nat
  BY PassedFacts DEF IInv, InRow
<1>2. \/ Tail
      \/ Left # {} /\ \E t \in 0 .. B : Listed(link, free_block, Left, t)
  <2>1. CASE ~overshot
    BY <1>1, <2>1, RoomFacts DEF IInv, Underway
  <2>2. CASE overshot
    BY <1>1, <2>2 DEF IInv, OvershotInv, Behind
  <2> QED BY <2>1, <2>2
<1>3. free_block \in Blocks(B)
  BY <1>1, <1>2, InRowFacts DEF Tail
<1> QED BY BAssumption, <1>3, WordFacts

LEMMA StepIsSound == IInv /\ [Next]_vars => IInv'
<1> SUFFICES ASSUME IInv, [Next]_vars PROVE IInv'
  OBVIOUS
<1>1. CASE UNCHANGED vars
  BY <1>1 DEF vars, IInv, TypeOK, Underway, Placed, Left, Sent, OvershotInv, Behind,
              Tail, Passed
<1> QED BY <1>1, NextChunkStep, InRowStep, InRowOvershot, IntoRunStep, FinishStep DEF Next

----------------------------------------------------------------------------
(* The theorems *)

\* In every state of a merge of two low pages: unless a chunk has been overshot, what
\* p2 has in use up to `start' is in different blocks that were free, and the list of
\* p1 is what is left of its free blocks; behind an overshoot the list is in the page,
\* and as long as it has to be.
THEOREM Invariance == Spec => []IInv
BY InitIsSound, StepIsSound, PTL DEF Spec

\* ba_merge_pages overwrites no block of p1 that is in use, and tells the client
\* of different places for different blocks of p2, until a chunk is overshot.
THEOREM NothingIsEverOverwritten == Spec => []NothingIsOverwritten
<1>1. IInv => NothingIsOverwritten
  <2> SUFFICES ASSUME IInv, ~overshot PROVE Placed
    BY DEF IInv, NothingIsOverwritten, Placed, TypeOK
  <2> QED BY DEF IInv, Underway, TypeOK
<1> QED BY <1>1, Invariance, PTL

\* Between two chunks the list of p1 is linked through exactly the blocks that
\* are neither in use nor filled, in ascending order, until a chunk is overshot.
THEOREM ListStaysWhatIsLeft == Spec => []ListIsWhatIsLeft
<1>1. IInv => ListIsWhatIsLeft
  <2> SUFFICES ASSUME IInv, ~overshot, pc \in {"walk", "move"}
               PROVE  /\ FreeSet(B, link, free_block) = Left
                      /\ \A b \in Left : link[b] \in Blocks(B) => link[b] > b
    BY DEF ListIsWhatIsLeft, Left
  <2>1. Underway /\ TypeOK /\ Left \in SUBSET Blocks(B)
    BY DEF IInv, Left
  <2>2. PICK t \in 0 .. B : Listed(link, free_block, Left, t)
    BY <2>1 DEF Underway
  <2> QED BY <2>1, <2>2, ListedFacts DEF TypeOK, Links
<1> QED BY <1>1, Invariance, PTL

\* Unless a chunk is overshot the merge leaves neither page, and at its end every
\* block of p2 has moved.  In any case the header of p1 counts in the end what its
\* list has not: what the inner loop moved too much, in_row takes back.
THEOREM MergesAreComplete == Spec => []MergeIsComplete
<1>1. IInv => MergeIsComplete
  <2> SUFFICES ASSUME IInv
               PROVE  /\ pc = "failed" => overshot
                      /\ pc = "done" =>
                            /\ ~overshot => {moved[b] : b \in Blocks(B)} \ {NULL} = used2
                            /\ used = B - Cardinality(FreeSet(B, link, first))
    BY DEF MergeIsComplete
  <2>1. /\ pc = "failed" => overshot
        /\ pc = "done" => used = B - Cardinality(FreeSet(B, link, first))
    BY DEF IInv
  <2>2. ASSUME pc = "done", ~overshot
        PROVE  {moved[b] : b \in Blocks(B)} \ {NULL} = used2
    <3>1. Placed /\ Sent = used2
      BY <2>2 DEF IInv
    <3>2. NULL \notin used2
      BY BAssumption, WordFacts DEF IInv, TypeOK
    <3> QED BY <3>1, <3>2 DEF Placed
  <2> QED BY <2>1, <2>2
<1> QED BY <1>1, Invariance, PTL

----------------------------------------------------------------------------
(* How long it takes *)

\* A bound for the steps that are left: two for each block of p2 that is in no chunk
\* yet, to find its chunk and to finish it, one for each block of p1 that is left to
\* be filled, and one to finish.
Remaining == IF pc \in {"walk", "move"}
             THEN 1 + 2 * (B - stop) + Cardinality(Left) + (IF pc = "move" THEN 1 ELSE 0)
             ELSE 0

\* The bound is a natural number, and not reached while the loops go on.
StepsRemain == Remaining \in Nat /\ (pc \in {"walk", "move"} => Remaining > 0)

\* Each step of the loops of ba_merge_pages brings the merge nearer to its end.
MovesOn == [][Remaining' < Remaining]_vars

LEMMA RemainingFacts ==
    ASSUME IInv
    PROVE  /\ StepsRemain
           /\ stop \in Nat /\ stop <= B /\ B \in Nat
           /\ Cardinality(Left) \in Nat /\ IsFiniteSet(Left)
<1>1. stop \in Nat /\ stop <= B /\ B \in Nat /\ Left \in SUBSET Blocks(B)
  BY PassedFacts DEF IInv, Left
<1>2. Cardinality(Left) \in Nat /\ IsFiniteSet(Left)
  BY <1>1, SetFacts
<1> QED BY <1>1, <1>2 DEF StepsRemain, Remaining

LEMMA StepMovesOn == ASSUME IInv, IInv', Next PROVE Remaining' < Remaining
<1>1. /\ stop \in Nat /\ stop <= B /\ B \in Nat
      /\ Cardinality(Left) \in Nat /\ IsFiniteSet(Left)
      /\ stop' \in Nat /\ stop' <= B /\ Cardinality(Left') \in Nat
  <2>1. (IInv => stop \in Nat /\ stop <= B /\ Cardinality(Left) \in Nat)'
    BY RemainingFacts, PTL
  <2> QED BY <2>1, RemainingFacts
<1>2. CASE NextChunk
  <2>1. pc = "walk" /\ pc' \in {"move", "failed"} /\ Left' = Left
    BY <1>2 DEF NextChunk, Left
  <2>2. stop < stop'
    <3>1. stop <= start' /\ start' < stop' /\ start' \in Nat
      BY <1>2, ChunkFacts DEF IInv
    <3> QED BY <1>1, <3>1
  <2> QED BY <1>1, <2>1, <2>2 DEF Remaining
<1>3. CASE InRow
  <2>1. pc = "move" /\ pc' \in {"walk", "failed"} /\ stop' = stop
    BY <1>3 DEF InRow
  <2>2. Left' \subseteq Left
    <3>1. ASSUME NEW b \in Blocks(B), moved[b] # NULL PROVE moved'[b] # NULL
      <4>1. start \in Nat /\ free_block \in Int /\ B \in Nat
        BY <1>3, InRowOnPage, PassedFacts DEF IInv
      <4>2. \/ moved'[b] = moved[b]
            \/ b >= free_block /\ moved'[b] = Min({start + b - free_block, B})
        BY <1>3 DEF InRow, Relocate
      <4>3. b \in Nat
        BY BAssumption, WordFacts
      <4>4. b >= free_block => Min({start + b - free_block, B}) \in Int
        <5> SUFFICES ASSUME b >= free_block PROVE Min({start + b - free_block, B}) \in Int
          OBVIOUS
        <5>1. start + b - free_block \in Nat
          BY <4>1, <4>3
        <5> QED BY <4>1, <5>1, MinPair
      <4> QED BY <3>1, <4>2, <4>4, WordAssumption
    <3>2. used1' = used1
      BY <1>3 DEF InRow
    <3> QED BY <3>1, <3>2 DEF Left
  <2>3. Cardinality(Left') <= Cardinality(Left)
    BY <1>1, <2>2, FS_Subset
  <2> QED BY <1>1, <2>1, <2>3 DEF Remaining
<1>4. CASE IntoRun
  <2>1. pc = "move" /\ stop' = stop /\ pc' \in {"walk", "move", "failed"}
    BY <1>4 DEF IntoRun
  <2>2. PICK t \in 0 .. B : Listed(link, free_block, Left, t)
    BY <1>4, IntoRunFacts
  <2>3. Cardinality(Left') = Cardinality(Left) - Cut /\ Cut \in Nat /\ Cut >= 1
    BY <1>4, <2>2, IntoRunFacts, RunFilled DEF IInv
  <2> QED BY <1>1, <2>1, <2>3 DEF Remaining
<1>5. CASE Finish
  BY <1>1, <1>5 DEF Finish, Remaining
<1> QED BY <1>2, <1>3, <1>4, <1>5 DEF Next

\* A merge takes no more than 3 * B + 1 steps, be a chunk overshot or not: each one
\* takes it on along p2 or along the list of p1.
THEOREM MergesMoveOn == Spec => []StepsRemain /\ MovesOn
<1>1. IInv /\ IInv' /\ [Next]_vars => [Remaining' < Remaining]_vars
  BY StepMovesOn
<1> QED BY <1>1, RemainingFacts, Invariance, StepIsSound, PTL DEF Spec, MovesOn
=============================================================================
