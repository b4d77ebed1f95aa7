------------------------- MODULE LogAllocatorProofs -------------------------
(***************************************************************************)
(* The safety properties of module LogAllocator for every number of pages  *)
(* and every size of the first one.  The size of page i is the layout      *)
(* doubled i times; that it can be doubled and halved so, and that halving *)
(* undoes doubling, is shown first, by looking at the least number of      *)
(* times for which it would not be so.                                     *)
(***************************************************************************)
EXTENDS LogAllocator, TLAPS, FiniteSetTheorems, WellFoundedInduction

----------------------------------------------------------------------------
(* Doing something n times *)

LEMMA LessIsWellFounded ==
    \E R : /\ IsWellFoundedOn(R, Nat)
           /\ \A m, n \in Nat : m < n => <<m, n>> \in R
<1> DEFINE R == OpToRel(<, Nat)
<1>1. IsWellFoundedOn(R, Nat)
  BY NatLessThanWellFounded
<1>2. \A m, n \in Nat : m < n => <<m, n>> \in R
  BY DEF OpToRel
<1> QED BY <1>1, <1>2

LEMMA Least ==
    ASSUME NEW T \in SUBSET Nat, T # {}
    PROVE  \E m \in T : \A n \in T : m <= n
<1>1. PICK R : /\ IsWellFoundedOn(R, Nat)
               /\ \A m, n \in Nat : m < n => <<m, n>> \in R
  BY LessIsWellFounded
<1>2. IsWellFoundedOn(R, Nat) /\ T \subseteq Nat
  BY <1>1
<1>3. PICK m \in T : \A n \in T : <<n, m>> \notin R
  BY <1>2, WFMin
<1>4. ASSUME NEW n \in T PROVE m <= n
  <2>1. m \in Nat /\ n \in Nat
    OBVIOUS
  <2>2. ~(n < m)
    BY <1>1, <1>3, <2>1
  <2> QED BY <2>1, <2>2
<1> QED BY <1>4

\* The recursive function behind Times exists, and so ba_double_layout and
\* ba_half_layout can be applied any number of times.
LEMMA TimesFacts ==
    ASSUME NEW f, NEW x
    PROVE  /\ Times(f, 0, x) = x
           /\ \A n \in Nat : Times(f, n + 1, x) = f[Times(f, n, x)]
<1> DEFINE Runs(h, n) == h[0] = x /\ \A k \in 0 .. (n - 1) : h[k + 1] = f[h[k]]
\* The first n applications are a function.
<1>1. ASSUME NEW n \in Nat PROVE \E h : Runs(h, n)
  <2> DEFINE T == {m \in Nat : ~\E h : Runs(h, m)}
  <2>1. SUFFICES ASSUME T # {} PROVE FALSE
    OBVIOUS
  <2>2. PICK m \in T : \A k \in T : m <= k
    <3>1. T \in SUBSET Nat
      OBVIOUS
    <3> HIDE DEF T
    <3> QED BY <2>1, <3>1, Least
  <2>3. m \in Nat /\ ~\E h : Runs(h, m)
    OBVIOUS
  <2>4. m # 0
    <3> DEFINE h == [k \in {0} |-> x]
    <3>1. Runs(h, 0)
      OBVIOUS
    <3> QED BY <2>3, <3>1
  <2>5. PICK h : Runs(h, m - 1)
    <3>1. m - 1 \in Nat /\ ~(m <= m - 1)
      BY <2>3, <2>4
    <3> QED BY <2>2, <3>1
  <2> DEFINE g == [k \in 0 .. m |-> IF k = m THEN f[h[m - 1]] ELSE h[k]]
  <2>6. g[0] = x
    BY <2>3, <2>4, <2>5
  <2>7. ASSUME NEW k \in 0 .. (m - 1) PROVE g[k + 1] = f[g[k]]
    <3>1. k \in 0 .. m /\ k # m /\ k + 1 \in 0 .. m
      BY <2>3
    <3>2. CASE k + 1 = m
      <4>1. k = m - 1
        BY <2>3, <3>2
      <4> QED BY <3>1, <3>2, <4>1
    <3>3. CASE k + 1 # m
      <4>1. k \in 0 .. ((m - 1) - 1)
        BY <2>3, <3>3
      <4> QED BY <2>5, <3>1, <3>3, <4>1
    <3> QED BY <3>2, <3>3
  <2> HIDE DEF g
  <2>8. Runs(g, m)
    BY <2>6, <2>7
  <2> QED BY <2>3, <2>8
\* Two such functions agree as far as both go.
<1>2. ASSUME NEW m \in Nat, NEW n \in Nat, m <= n,
             NEW g, NEW h, Runs(g, m), Runs(h, n)
      PROVE  g[m] = h[m]
  <2> DEFINE T == {k \in Nat : k <= m /\ g[k] # h[k]}
  <2>1. SUFFICES ASSUME T # {} PROVE FALSE
    BY <1>2
  <2>2. PICK j \in T : \A k \in T : j <= k
    <3>1. T \in SUBSET Nat
      OBVIOUS
    <3> HIDE DEF T
    <3> QED BY <2>1, <3>1, Least
  <2>3. j \in Nat /\ j <= m /\ g[j] # h[j]
    OBVIOUS
  <2>4. j # 0
    BY <1>2, <2>3
  <2>5. j - 1 \in Nat /\ j - 1 <= m /\ ~(j <= j - 1)
        /\ j - 1 \in 0 .. (m - 1) /\ j - 1 \in 0 .. (n - 1)
    BY <1>2, <2>3, <2>4
  <2>6. g[j - 1] = h[j - 1]
    BY <2>2, <2>5
  <2>7. g[(j - 1) + 1] = f[g[j - 1]] /\ h[(j - 1) + 1] = f[h[j - 1]]
    BY <1>2, <2>5
  <2>8. (j - 1) + 1 = j
    BY <2>3
  <2> QED BY <2>3, <2>6, <2>7, <2>8
<1> DEFINE first(n) == CHOOSE h : Runs(h, n)
           all == [n \in Nat |-> first(n)[n]]
<1>3. ASSUME NEW n \in Nat PROVE Runs(first(n), n)
  BY <1>1
<1>4. all[0] = x
  BY <1>3
<1>5. ASSUME NEW n \in Nat PROVE all[n + 1] = f[all[n]]
  <2>1. n + 1 \in Nat /\ n <= n + 1 /\ n \in 0 .. ((n + 1) - 1)
    OBVIOUS
  <2> DEFINE g == first(n)
             h == first(n + 1)
  <2>2. Runs(h, n + 1) /\ Runs(g, n)
    BY <1>3, <2>1
  <2>3. all[n] = g[n] /\ all[n + 1] = h[n + 1]
    BY <2>1
  <2> HIDE DEF g, h, all
  <2>5. h[n + 1] = f[h[n]]
    BY <2>1, <2>2
  <2> HIDE DEF Runs
  <2>4. g[n] = h[n]
    <3>1. n \in Nat /\ n + 1 \in Nat
      OBVIOUS
    <3> QED BY <1>2, <2>1, <2>2, <3>1
  <2> QED BY <2>3, <2>4, <2>5
<1>6. all = [k \in Nat |-> all[k]]
  OBVIOUS
<1> HIDE DEF all
<1>7. all = [k \in Nat |-> IF k = 0 THEN x ELSE f[all[k - 1]]]
  <2>1. ASSUME NEW k \in Nat
        PROVE  all[k] = IF k = 0 THEN x ELSE f[all[k - 1]]
    <3>1. CASE k = 0
      BY <1>4, <3>1
    <3>2. CASE k # 0
      <4>1. k - 1 \in Nat /\ (k - 1) + 1 = k
        BY <3>2
      <4> QED BY <1>5, <3>2, <4>1
    <3> QED BY <3>1, <3>2
  <2> QED BY <1>6, <2>1
<1> DEFINE after[k \in Nat] == IF k = 0 THEN x ELSE f[after[k - 1]]
<1>8. after = [k \in Nat |-> IF k = 0 THEN x ELSE f[after[k - 1]]]
  BY <1>7
<1>9. ASSUME NEW n \in Nat PROVE Times(f, n, x) = after[n]
  BY DEF Times
<1> HIDE DEF after
<1>10. after[0] = x
  BY <1>8
<1>11. ASSUME NEW n \in Nat PROVE after[n + 1] = f[after[n]]
  <2>1. n + 1 \in Nat /\ n + 1 # 0 /\ (n + 1) - 1 = n
    OBVIOUS
  <2> QED BY <1>8, <2>1
<1> QED BY <1>9, <1>10, <1>11

----------------------------------------------------------------------------
(* Layouts *)

LEMMA CapacityFacts ==
    /\ Capacity(0) = B
    /\ \A i \in Nat : /\ Capacity(i) \in Nat /\ Capacity(i) >= 2
                      /\ Capacity(i + 1) = 2 * Capacity(i)
<1>1. Capacity(0) = B
  BY TimesFacts DEF Capacity
<1>2. ASSUME NEW i \in Nat, Capacity(i) \in Nat
      PROVE  Capacity(i + 1) = 2 * Capacity(i)
  <2>1. Capacity(i + 1) = ba_double_layout[Capacity(i)]
    BY TimesFacts DEF Capacity
  <2> QED BY <1>2, <2>1 DEF ba_double_layout
<1> DEFINE Small(i) == ~(Capacity(i) \in Nat /\ Capacity(i) >= 2)
           T == {i \in Nat : Small(i)}
<1>3. T = {}
  <2> SUFFICES ASSUME T # {} PROVE FALSE
    OBVIOUS
  <2>1. PICK m \in T : \A k \in T : m <= k
    <3>1. T \in SUBSET Nat
      OBVIOUS
    <3> HIDE DEF T
    <3> QED BY <3>1, Least
  <2>2. m \in Nat /\ Small(m)
    OBVIOUS
  <2>3. m # 0
    BY <1>1, <2>2, BAssumption
  <2>4. m - 1 \in Nat /\ ~(m <= m - 1) /\ (m - 1) + 1 = m
    BY <2>2, <2>3
  <2>5. ~Small(m - 1)
    BY <2>1, <2>4
  <2>6. Capacity(m) = 2 * Capacity(m - 1)
    BY <1>2, <2>4, <2>5
  <2> QED BY <2>2, <2>5, <2>6
<1>4. \A i \in Nat : ~Small(i)
  BY <1>3
<1> QED BY <1>1, <1>2, <1>4

\* Halving the layout of a page n times gives that of the page n before it.
LEMMA HalvedFacts ==
    ASSUME size \in Nat, blocks = Capacity(size)
    PROVE  \A n \in 0 .. size : Halved(n) = Capacity(size - n)
<1> DEFINE T == {n \in Nat : n <= size /\ Halved(n) # Capacity(size - n)}
<1>1. SUFFICES ASSUME T # {} PROVE FALSE
  OBVIOUS
<1>2. PICK m \in T : \A k \in T : m <= k
  <2>1. T \in SUBSET Nat
    OBVIOUS
  <2> HIDE DEF T
  <2> QED BY <1>1, <2>1, Least
<1>3. m \in Nat /\ m <= size /\ Halved(m) # Capacity(size - m)
  OBVIOUS
<1>4. m # 0
  <2>1. Halved(0) = blocks /\ size - 0 = size
    BY TimesFacts DEF Halved
  <2> QED BY <1>3, <2>1
<1>5. /\ m - 1 \in Nat /\ m - 1 <= size /\ ~(m <= m - 1) /\ (m - 1) + 1 = m
      /\ size - m \in Nat /\ (size - m) + 1 = size - (m - 1)
  BY <1>3, <1>4
<1>6. Halved(m - 1) = Capacity(size - (m - 1))
  BY <1>2, <1>5
<1>7. Halved(m) = ba_half_layout[Halved(m - 1)]
  <2>1. Halved((m - 1) + 1) = ba_half_layout[Halved(m - 1)]
    BY <1>5, TimesFacts DEF Halved
  <2> QED BY <1>5, <2>1
<1>8. /\ Capacity(size - m) \in Nat
      /\ Halved(m - 1) = 2 * Capacity(size - m)
  <2>1. Capacity((size - m) + 1) = 2 * Capacity(size - m)
    BY <1>5, CapacityFacts
  <2> QED BY <1>5, <1>6, <2>1, CapacityFacts
<1>9. Halved(m) = Capacity(size - m)
  <2>1. \A c \in Nat : (2 * c) \div 2 = c
    OBVIOUS
  <2> QED BY <1>7, <1>8, <2>1 DEF ba_half_layout
<1> QED BY <1>3, <1>9

\* Released gives the page up to which the pages from the end on are empty and
\* have a predecessor with a block to give.
LEMMA ReleasedFacts ==
    ASSUME size \in Nat, NEW ps
    PROVE  /\ Released(ps) \in 0 .. size
           /\ \A j \in 0 .. size : j > Released(ps) =>
                    ps[j].used = 0 /\ HasFirst(ps[j - 1])
<1> DEFINE S == {i \in 0 .. size : i = 0 \/ ps[i].used # 0 \/ ~HasFirst(ps[i - 1])}
           T == {u \in Nat : \A i \in S : i <= u}
<1>1. size \in T /\ 0 \in S /\ T \in SUBSET Nat
  OBVIOUS
<1> HIDE DEF T
<1>2. PICK u \in T : \A v \in T : u <= v
  BY <1>1, Least
<1> USE DEF T
<1>3. u \in S
  <2> SUFFICES ASSUME u \notin S PROVE FALSE
    OBVIOUS
  <2>1. u \in Nat /\ \A i \in S : i <= u /\ i # u /\ i \in Nat
    BY <1>2
  <2>2. u # 0
    BY <1>1
  <2>3. u - 1 \in Nat /\ \A i \in S : i <= u - 1
    BY <2>1, <2>2
  <2>4. u - 1 \in T /\ ~(u <= u - 1)
    BY <2>1, <2>3
  <2> QED BY <1>2, <2>4
<1>4. Max(S) \in S /\ \A i \in S : i <= Max(S)
  <2>1. \E m \in S : \A i \in S : m >= i
    BY <1>2, <1>3
  <2>2. Max(S) = CHOOSE m \in S : \A i \in S : m >= i
    BY DEF Max
  <2> HIDE DEF S
  <2>3. Max(S) \in S /\ \A i \in S : Max(S) >= i
    BY <2>1, <2>2
  <2>4. S \subseteq Int
    BY DEF S
  <2> QED BY <2>3, <2>4
<1>5. Released(ps) = Max(S)
  BY DEF Released
<1> DEFINE r == Released(ps)
<1>6. r \in S /\ \A i \in S : i <= r
  BY <1>4, <1>5
<1> HIDE DEF r
<1>7. r \in 0 .. size
  BY <1>6
<1>8. ASSUME NEW j \in 0 .. size, j > r
      PROVE  ps[j].used = 0 /\ HasFirst(ps[j - 1])
  <2>1. j \notin S
    BY <1>6, <1>7, <1>8
  <2> QED BY <2>1
<1> QED BY <1>7, <1>8 DEF r

----------------------------------------------------------------------------
(* The list of a page *)

Offsets(i) == 0 .. (Capacity(i) - 1)

Tail(i, p) == IF p.lazy = NULL THEN {} ELSE p.lazy .. (Capacity(i) - 1)

\* The list of page i holds each of its blocks but those in out, once.  The block
\* with BA_ONE is not the last of the page, so that there is one behind it.
Lists(i, p, out) == /\ p \in Page(i)
                    /\ p.lazy = NULL \/ p.lazy + 1 < Capacity(i)
                    /\ p.linked \cap Tail(i, p) = {}
                    /\ p.linked \cup Tail(i, p) = Offsets(i) \ out
                    /\ out \in SUBSET Offsets(i)
                    /\ p.used = Cardinality(out)

Out(L, i) == {b \in Offsets(i) : <<i, b>> \in L}

Sound == /\ size \in Index
         /\ blocks = Capacity(size)
         /\ \A i \in 0 .. size : Lists(i, pages[i], Out(live, i))
         /\ \A x \in live : x[1] <= size
         /\ HasFirst(pages[size])

LogInv == /\ TypeOK
          /\ live \in SUBSET (Index \X Nat)
          /\ IF failed THEN size = NPages ELSE Sound

LEMMA OffsetsAreFinite ==
    ASSUME NEW i \in Nat
    PROVE  \A out \in SUBSET Offsets(i) : IsFiniteSet(out) /\ Cardinality(out) \in Nat
<1>1. IsFiniteSet(Offsets(i))
  <2>1. 0 \in Int /\ Capacity(i) - 1 \in Int
    BY CapacityFacts
  <2> QED BY <2>1, FS_Interval DEF Offsets
<1> QED BY <1>1, FS_Subset, FS_CardinalityType

LEMMA FreshPage ==
    ASSUME NEW i \in Nat
    PROVE  Lists(i, ba_alloc_log_page, {}) /\ HasFirst(ba_alloc_log_page)
<1> DEFINE p == ba_alloc_log_page
<1>1. p.linked = {} /\ p.lazy = 0 /\ p.used = 0 /\ 0 # NULL
  BY NullAssumption DEF ba_alloc_log_page
<1>2. Capacity(i) \in Nat /\ Capacity(i) >= 2
  BY CapacityFacts
<1>3. p \in Page(i)
  BY <1>2 DEF ba_alloc_log_page, Page
<1>4. Tail(i, p) = Offsets(i)
  BY <1>1 DEF Tail, Offsets
<1>5. Cardinality({}) = 0
  BY FS_EmptySet
<1> HIDE DEF p
<1> QED BY <1>1, <1>2, <1>3, <1>4, <1>5 DEF Lists, HasFirst, p

LEMMA TakenPage ==
    ASSUME NEW i \in Nat, blocks = Capacity(i), NEW p, NEW out,
           Lists(i, p, out), HasFirst(p), NEW b \in Heads(p)
    PROVE  /\ b \in Offsets(i) \ out
           /\ Lists(i, Taken(p, b), out \cup {b})
<1> DEFINE c == Capacity(i)
           r == Taken(p, b)
<1>1. c \in Nat /\ c >= 2 /\ blocks = c /\ Offsets(i) = 0 .. (c - 1)
  BY CapacityFacts DEF Offsets
<1> HIDE DEF c
<1>2. /\ p.linked \in SUBSET (0 .. (c - 1)) /\ p.used \in Int
      /\ p.lazy \in (0 .. (c - 1)) \cup {NULL}
      /\ p = [linked |-> p.linked, lazy |-> p.lazy, used |-> p.used]
      /\ p.lazy = NULL \/ (p.lazy \in 0 .. (c - 1) /\ p.lazy + 1 < c)
  BY NullAssumption DEF Lists, Page, c
<1>3. Tail(i, p) = IF p.lazy = NULL THEN {} ELSE p.lazy .. (c - 1)
  BY DEF Tail, c
<1>4. /\ p.linked \cap Tail(i, p) = {}
      /\ p.linked \cup Tail(i, p) = Offsets(i) \ out
      /\ out \in SUBSET Offsets(i) /\ p.used = Cardinality(out)
  BY DEF Lists
<1>5. b \in p.linked \/ (p.linked = {} /\ p.lazy # NULL /\ b = p.lazy)
  BY DEF Heads, HasFirst
<1>6. b \in p.linked \cup Tail(i, p)
  BY <1>1, <1>2, <1>3, <1>5
<1>7. b \in Offsets(i) \ out
  BY <1>4, <1>6
<1>8. /\ out \cup {b} \in SUBSET Offsets(i)
      /\ Cardinality(out \cup {b}) = p.used + 1
  <2>1. IsFiniteSet(out) /\ b \notin out
    BY <1>4, <1>7, OffsetsAreFinite
  <2>2. Cardinality(out \cup {b}) = Cardinality(out) + 1
    BY <2>1, FS_AddElement
  <2> QED BY <1>4, <1>7, <2>2
<1>9. /\ r.linked \in SUBSET (0 .. (c - 1)) /\ r.used = p.used + 1
      /\ r.lazy \in (0 .. (c - 1)) \cup {NULL} /\ r \in Page(i)
      /\ r.lazy = NULL \/ (r.lazy \in 0 .. (c - 1) /\ r.lazy + 1 < c)
      /\ r.linked \cap Tail(i, r) = {}
      /\ r.linked \cup Tail(i, r) = (p.linked \cup Tail(i, p)) \ {b}
  <2>t. Tail(i, r) = IF r.lazy = NULL THEN {} ELSE r.lazy .. (c - 1)
    BY DEF Tail, c
  <2>p. r \in Page(i) <=> r \in [linked : SUBSET (0 .. (c - 1)),
                                 lazy : (0 .. (c - 1)) \cup {NULL}, used : Int]
    BY DEF Page, c
  <2>1. CASE p.linked # {}
    <3>1. r = [linked |-> p.linked \ {b}, lazy |-> p.lazy, used |-> p.used + 1]
      BY <1>2, <2>1 DEF Taken
    <3>2. b \in p.linked /\ b \notin Tail(i, p)
      BY <1>4, <1>5, <2>1
    <3>3. Tail(i, r) = Tail(i, p)
      BY <1>3, <2>t, <3>1
    <3> HIDE DEF r
    <3>4. /\ r.linked = p.linked \ {b} /\ r.lazy = p.lazy
          /\ r.used = p.used + 1 /\ r \in Page(i)
      BY <1>2, <2>p, <3>1
    <3> QED BY <1>2, <1>4, <3>2, <3>3, <3>4
  <2>2. CASE p.linked = {} /\ b + 1 = blocks - 1
    <3>1. r = [linked |-> {b + 1}, lazy |-> NULL, used |-> p.used + 1]
      BY <2>2 DEF Taken
    <3>2. b = p.lazy /\ b \in 0 .. (c - 1) /\ b + 1 = c - 1
      BY <1>1, <1>2, <1>5, <2>2
    <3>3. Tail(i, p) = {b, b + 1} /\ Tail(i, r) = {} /\ b # b + 1
      <4>1. Tail(i, p) = b .. (c - 1)
        BY <1>3, <1>5, <2>2
      <4> QED BY <1>1, <2>t, <3>1, <3>2, <4>1
    <3> HIDE DEF r
    <3>4. b + 1 \in 0 .. (c - 1) /\ p.used + 1 \in Int
      BY <1>1, <1>2, <3>2
    <3>5. /\ r.linked = {b + 1} /\ r.lazy = NULL
          /\ r.used = p.used + 1 /\ r \in Page(i)
      BY <2>p, <3>1, <3>4
    <3> QED BY <2>2, <3>3, <3>4, <3>5
  <2>3. CASE p.linked = {} /\ b + 1 # blocks - 1
    <3>1. r = [linked |-> {}, lazy |-> b + 1, used |-> p.used + 1]
      BY <2>3 DEF Taken
    <3>2. b = p.lazy /\ b \in 0 .. (c - 1) /\ b + 1 < c - 1
      BY <1>1, <1>2, <1>5, <2>3
    <3>3. b + 1 # NULL /\ b + 1 \in 0 .. (c - 1)
      BY <1>1, <3>2, NullAssumption
    <3>4. Tail(i, p) = b .. (c - 1) /\ Tail(i, r) = (b + 1) .. (c - 1)
      BY <1>3, <1>5, <2>3, <2>t, <3>1, <3>3
    <3>5. (b + 1) .. (c - 1) = (b .. (c - 1)) \ {b}
      BY <1>1, <3>2
    <3> HIDE DEF r
    <3>6. p.used + 1 \in Int
      BY <1>2
    <3>7. /\ r.linked = {} /\ r.lazy = b + 1
          /\ r.used = p.used + 1 /\ r \in Page(i)
      BY <2>p, <3>1, <3>3, <3>6
    <3>8. (b + 1) + 1 < c
      BY <1>1, <3>2
    <3> QED BY <2>3, <3>3, <3>4, <3>5, <3>7, <3>8
  <2> QED BY <2>1, <2>2, <2>3
<1> HIDE DEF r
<1>10. Lists(i, r, out \cup {b})
  <2>1. (Offsets(i) \ out) \ {b} = Offsets(i) \ (out \cup {b})
    OBVIOUS
  <2> QED BY <1>4, <1>8, <1>9, <2>1 DEF Lists, c
<1> QED BY <1>7, <1>10 DEF r

LEMMA ReturnedPage ==
    ASSUME NEW i \in Nat, NEW p, NEW out, Lists(i, p, out), NEW b \in out
    PROVE  LET r == [p EXCEPT !.linked = @ \cup {b}, !.used = @ - 1]
           IN  Lists(i, r, out \ {b}) /\ HasFirst(r)
<1> DEFINE r == [p EXCEPT !.linked = @ \cup {b}, !.used = @ - 1]
<1>1. /\ p \in Page(i) /\ out \in SUBSET Offsets(i) /\ b \in Offsets(i)
      /\ p.linked \cap Tail(i, p) = {} /\ p.used = Cardinality(out)
      /\ p.linked \cup Tail(i, p) = Offsets(i) \ out
      /\ p.lazy = NULL \/ p.lazy + 1 < Capacity(i)
  BY DEF Lists
<1>2. /\ r \in Page(i) /\ r.linked = p.linked \cup {b} /\ r.lazy = p.lazy
      /\ r.used = p.used - 1
  <2> DEFINE All == [linked : SUBSET Offsets(i), lazy : Offsets(i) \cup {NULL},
                     used : Int]
  <2>1. p \in All
    BY <1>1 DEF Page, Offsets
  <2>2. r \in All /\ r.linked = p.linked \cup {b} /\ r.lazy = p.lazy
        /\ r.used = p.used - 1
    <3>1. /\ p.linked \cup {b} \in SUBSET Offsets(i) /\ p.used - 1 \in Int
          /\ p.lazy \in Offsets(i) \cup {NULL}
      BY <1>1, <2>1
    <3>2. \A q \in All : \A x \in SUBSET Offsets(i), y \in Int :
            LET v == [q EXCEPT !.linked = x, !.used = y]
            IN  v \in All /\ v.linked = x /\ v.lazy = q.lazy /\ v.used = y
      OBVIOUS
    <3> QED BY <2>1, <3>1, <3>2
  <2> QED BY <2>2 DEF Page, Offsets
<1> HIDE DEF r
<1>3. Tail(i, r) = Tail(i, p)
  BY <1>2 DEF Tail
<1>4. Cardinality(out \ {b}) = Cardinality(out) - 1
  BY <1>1, OffsetsAreFinite, FS_RemoveElement
<1>5. b \notin Tail(i, p)
  BY <1>1
<1>6. Lists(i, r, out \ {b})
  <2>1. r.linked \cup Tail(i, r) = Offsets(i) \ (out \ {b})
    BY <1>1, <1>2, <1>3
  <2>2. r.linked \cap Tail(i, r) = {}
    BY <1>1, <1>2, <1>3, <1>5
  <2> QED BY <1>1, <1>2, <1>4, <2>1, <2>2 DEF Lists
<1> QED BY <1>2, <1>6 DEF r, HasFirst

----------------------------------------------------------------------------
(* The invariant is inductive *)

LEMMA LogInvInit == Init => LogInv
<1> SUFFICES ASSUME Init PROVE LogInv
  OBVIOUS
<1>1. /\ size = 0 /\ blocks = B /\ live = {} /\ failed = FALSE
      /\ pages = [i \in Index |-> IF i = 0 THEN ba_alloc_log_page ELSE NULL]
  BY DEF Init
<1>2. size \in Index /\ size \in 0 .. NPages /\ blocks = Capacity(size)
  BY <1>1, NPagesAssumption, CapacityFacts DEF Index
<1>3. pages[0] = ba_alloc_log_page
  BY <1>1, <1>2
<1>4. Out(live, 0) = {}
  BY <1>1 DEF Out
<1>5. Lists(0, pages[0], Out(live, 0)) /\ HasFirst(pages[0])
  BY <1>3, <1>4, FreshPage
<1>6. pages[0] \in Page(0)
  BY <1>5 DEF Lists
<1>7. TypeOK
  BY <1>1, <1>2, <1>6, BAssumption DEF TypeOK
<1>8. Sound
  <2>1. \A i \in 0 .. size : i = 0
    BY <1>1
  <2> QED BY <1>1, <1>2, <1>5, <2>1 DEF Sound
<1> QED BY <1>1, <1>7, <1>8 DEF LogInv

LEMMA SoundFacts ==
    ASSUME LogInv, ~failed
    PROVE  /\ Sound /\ TypeOK /\ live \in SUBSET (Index \X Nat)
           /\ size \in Nat /\ size < NPages /\ NPages \in Nat
           /\ \A i \in 0 .. size : i \in Index /\ i \in Nat
           /\ \A x \in live : /\ x = <<x[1], x[2]>> /\ x[1] \in 0 .. size
                              /\ x[2] \in Out(live, x[1])
<1>1. /\ Sound /\ TypeOK /\ live \in SUBSET (Index \X Nat)
      /\ size \in Nat /\ size < NPages /\ NPages \in Nat
  BY NPagesAssumption DEF LogInv, Sound, Index
<1>2. \A i \in 0 .. size : i \in Index /\ i \in Nat
  BY <1>1 DEF Index
<1>3. ASSUME NEW x \in live
      PROVE  /\ x = <<x[1], x[2]>> /\ x[1] \in 0 .. size
             /\ x[2] \in Out(live, x[1])
  <2>1. x = <<x[1], x[2]>> /\ x[1] \in Index /\ x[1] <= size
    BY <1>1 DEF Sound
  <2>2. x[2] \in Offsets(x[1])
    BY <1>1 DEF TypeOK, Offsets
  <2> QED BY <1>1, <2>1, <2>2 DEF Out, Index
<1> QED BY <1>1, <1>2, <1>3

LEMMA AllocStep ==
    ASSUME LogInv, ba_log_alloc
    PROVE  LogInv'
<1>1. ~failed
  BY DEF ba_log_alloc
<1>2. /\ Sound /\ TypeOK /\ live \in SUBSET (Index \X Nat)
      /\ size \in Nat /\ size < NPages /\ NPages \in Nat
      /\ \A i \in 0 .. size : i \in Index /\ i \in Nat
  BY <1>1, SoundFacts
<1>3. PICK b \in Heads(pages[size]) :
        LET p == Taken(pages[size], b)
        IN  /\ live' = live \cup {<<size, b>>}
            /\ IF HasFirst(p)
               THEN /\ pages' = [pages EXCEPT ![size] = p]
                    /\ failed' = (p.lazy \notin 0 .. (Capacity(size) - 1) \cup {NULL})
                    /\ UNCHANGED <<size, blocks>>
               ELSE /\ blocks' = ba_double_layout[blocks]
                    /\ size' = size + 1
                    /\ failed' = (size' \notin Index)
                    /\ pages' = [i \in Index |-> CASE i = size -> p
                                                   [] i = size' -> ba_alloc_log_page
                                                   [] OTHER -> pages[i]]
  BY DEF ba_log_alloc
<1> DEFINE p == Taken(pages[size], b)
           out == Out(live, size) \cup {b}
<1>4. /\ blocks = Capacity(size) /\ HasFirst(pages[size]) /\ size \in 0 .. size
      /\ \A i \in 0 .. size : Lists(i, pages[i], Out(live, i))
      /\ \A x \in live : x[1] <= size
  BY <1>2 DEF Sound
<1>5. /\ b \in Offsets(size) \ Out(live, size)
      /\ Lists(size, p, out)
  BY <1>2, <1>4, TakenPage
<1>6. /\ live' = live \cup {<<size, b>>} /\ b \in Nat /\ b \in Offsets(size)
      /\ size \in Index
  BY <1>2, <1>3, <1>4, <1>5 DEF Offsets
<1>7. /\ live' \in SUBSET (Index \X Nat)
      /\ \A x \in live' : x[1] \in Index /\ x[2] \in 0 .. (Capacity(x[1]) - 1)
  BY <1>2, <1>6 DEF TypeOK, Offsets
<1>8. \A x \in live' : x[1] <= size
  BY <1>2, <1>4, <1>6
<1>9. Out(live', size) = out
  BY <1>5, <1>6 DEF Out
<1>10. ASSUME NEW i \in 0 .. size, i # size PROVE Out(live', i) = Out(live, i)
  BY <1>6, <1>10 DEF Out
<1>11. p \in Page(size)
  BY <1>5 DEF Lists
<1> HIDE DEF p
<1>12. CASE HasFirst(p)
  <2>1. /\ pages' = [pages EXCEPT ![size] = p] /\ UNCHANGED <<size, blocks>>
        /\ failed' = (p.lazy \notin 0 .. (Capacity(size) - 1) \cup {NULL})
    BY <1>3, <1>12 DEF p
  <2>2. failed' = FALSE
    BY <1>11, <2>1 DEF Page
  <2>3. /\ DOMAIN pages' = Index /\ pages'[size] = p
        /\ \A i \in Index \ {size} : pages'[i] = pages[i]
    BY <1>2, <1>6, <2>1 DEF TypeOK
  <2>4. TypeOK'
    BY <1>2, <1>7, <1>11, <2>1, <2>2, <2>3 DEF TypeOK
  <2>5. ASSUME NEW i \in 0 .. size PROVE Lists(i, pages'[i], Out(live', i))
    BY <1>2, <1>4, <1>5, <1>9, <1>10, <2>3
  <2>6. Sound'
    BY <1>4, <1>6, <1>8, <1>12, <2>1, <2>3, <2>5 DEF Sound
  <2> QED BY <1>7, <2>2, <2>4, <2>6 DEF LogInv
<1>13. CASE ~HasFirst(p)
  <2>1. /\ blocks' = ba_double_layout[blocks] /\ size' = size + 1
        /\ failed' = (size' \notin Index)
        /\ pages' = [i \in Index |-> CASE i = size -> p
                                       [] i = size' -> ba_alloc_log_page
                                       [] OTHER -> pages[i]]
    BY <1>3, <1>13 DEF p
  <2>2. blocks' = Capacity(size') /\ Capacity(size') \in Nat
    BY <1>2, <1>4, <2>1, CapacityFacts DEF ba_double_layout
  <2>3. size' \in Nat /\ size' # size /\ size' \in 0 .. NPages
    BY <1>2, <2>1
  <2>4. /\ DOMAIN pages' = Index /\ pages'[size] = p
        /\ size' \in Index => pages'[size'] = ba_alloc_log_page
        /\ \A i \in Index \ {size, size'} : pages'[i] = pages[i]
    BY <1>6, <2>1, <2>3
  <2>5. Lists(size', ba_alloc_log_page, {}) /\ HasFirst(ba_alloc_log_page)
    BY <2>3, FreshPage
  <2>6. ba_alloc_log_page \in Page(size')
    BY <2>5 DEF Lists
  <2>7. TypeOK'
    <3>1. \A i \in Index : pages'[i] \in Page(i) \cup {NULL}
      BY <1>2, <1>11, <2>4, <2>6 DEF TypeOK
    <3> QED BY <1>7, <2>1, <2>2, <2>3, <2>4, <3>1 DEF TypeOK
  <2>8. CASE size' \in Index
    <3>1. failed' = FALSE
      BY <2>1, <2>8
    <3>2. Out(live', size') = {}
      <4>1. \A x \in live' : x[1] # size'
        BY <1>2, <1>7, <1>8, <2>1 DEF Index
      <4> QED BY <4>1 DEF Out
    <3>3. ASSUME NEW i \in 0 .. size' PROVE Lists(i, pages'[i], Out(live', i))
      <4>1. CASE i = size'
        BY <2>4, <2>5, <2>8, <3>2, <4>1
      <4>2. CASE i = size
        BY <1>5, <1>9, <2>4, <4>2
      <4>3. CASE i # size' /\ i # size
        <5>1. i \in 0 .. size /\ i \in Index
          BY <1>2, <2>1, <4>3
        <5> QED BY <1>4, <1>10, <2>4, <4>3, <5>1
      <4> QED BY <4>1, <4>2, <4>3
    <3>4. \A x \in live' : x[1] <= size'
      BY <1>2, <1>7, <1>8, <2>1 DEF Index
    <3>5. Sound'
      BY <2>2, <2>4, <2>5, <2>8, <3>3, <3>4 DEF Sound
    <3> QED BY <1>7, <2>7, <3>1, <3>5 DEF LogInv
  <2>9. CASE size' \notin Index
    <3>1. failed'
      BY <2>1, <2>9
    <3>2. size' = NPages
      BY <1>2, <2>1, <2>9 DEF Index
    <3> QED BY <1>7, <2>7, <3>1, <3>2 DEF LogInv
  <2> QED BY <2>8, <2>9
<1> QED BY <1>12, <1>13

\* The search of ba_log_free finds every block in use: halving the layout on the
\* way to a page gives the layout the page was made with.
LEMMA BlockIsFound ==
    ASSUME LogInv, ~failed, NEW x \in live
    PROVE  Finds(x[1], x[2])
<1>1. /\ size \in Nat /\ blocks = Capacity(size)
      /\ x[1] \in 0 .. size /\ x[2] \in Offsets(x[1])
  BY SoundFacts DEF Sound, Out
<1>2. size - x[1] \in 0 .. size /\ size - (size - x[1]) = x[1]
  BY <1>1
<1>3. Halved(size - x[1]) = Capacity(x[1])
  BY <1>1, <1>2, HalvedFacts
<1>4. Capacity(x[1]) \in Nat
  BY <1>1, CapacityFacts
<1> QED BY <1>1, <1>3, <1>4 DEF Finds, Offsets

LEMMA FreeStep ==
    ASSUME LogInv, ba_log_free
    PROVE  LogInv'
<1>1. ~failed
  BY DEF ba_log_free
<1>2. /\ Sound /\ TypeOK /\ live \in SUBSET (Index \X Nat)
      /\ size \in Nat /\ size < NPages /\ NPages \in Nat
      /\ \A i \in 0 .. size : i \in Index /\ i \in Nat
  BY <1>1, SoundFacts
<1>3. PICK x \in live :
        LET i  == x[1]
            ps == [pages EXCEPT ![i].linked = @ \cup {x[2]}, ![i].used = @ - 1]
            last == IF i = size /\ ps[i].used = 0 THEN Released(ps) ELSE size
        IN  IF Finds(i, x[2])
            THEN /\ live' = live \ {x}
                 /\ size' = last
                 /\ blocks' = Halved(size - last)
                 /\ pages' = [j \in Index |-> IF j > last THEN NULL ELSE ps[j]]
                 /\ UNCHANGED failed
            ELSE failed' = TRUE /\ UNCHANGED <<size, blocks, pages, live>>
  BY DEF ba_log_free
<1> DEFINE i == x[1]
           b == x[2]
           r == [pages[i] EXCEPT !.linked = @ \cup {b}, !.used = @ - 1]
           ps == [pages EXCEPT ![i].linked = @ \cup {x[2]}, ![i].used = @ - 1]
           last == IF i = size /\ ps[i].used = 0 THEN Released(ps) ELSE size
           out == Out(live, i) \ {b}
<1>4. Finds(i, b)
  BY <1>1, BlockIsFound
<1>5. /\ live' = live \ {x} /\ size' = last
      /\ blocks' = Halved(size - last)
      /\ pages' = [j \in Index |-> IF j > last THEN NULL ELSE ps[j]]
      /\ failed' = failed
  BY <1>3, <1>4
<1>6. /\ blocks = Capacity(size) /\ HasFirst(pages[size])
      /\ \A j \in 0 .. size : Lists(j, pages[j], Out(live, j))
      /\ \A y \in live : y[1] <= size
  BY <1>2 DEF Sound
<1>7. /\ x = <<i, b>> /\ i \in 0 .. size /\ i \in Nat /\ i \in Index
      /\ b \in Out(live, i)
  BY <1>1, <1>2, SoundFacts
<1>8. Lists(i, r, out) /\ HasFirst(r)
  <2>1. Lists(i, pages[i], Out(live, i))
    BY <1>6, <1>7
  <2> HIDE DEF i, b
  <2> QED BY <1>7, <2>1, ReturnedPage
<1>9. /\ ps[i] = r /\ DOMAIN ps = Index
      /\ \A j \in Index \ {i} : ps[j] = pages[j]
  BY <1>2, <1>7 DEF TypeOK
<1>10. live' \in SUBSET (Index \X Nat)
       /\ \A y \in live' : y[1] \in Index /\ y[2] \in 0 .. (Capacity(y[1]) - 1)
  BY <1>2, <1>5 DEF TypeOK
<1>11. Out(live', i) = out
  BY <1>5, <1>7 DEF Out
<1>12. ASSUME NEW j \in 0 .. size, j # i PROVE Out(live', j) = Out(live, j)
  BY <1>5, <1>7, <1>12 DEF Out
<1> HIDE DEF ps, r, out
<1>13. ASSUME NEW j \in 0 .. size
       PROVE  Lists(j, ps[j], Out(live', j))
  <2>1. j \in Index
    BY <1>2
  <2> HIDE DEF i
  <2> QED BY <1>6, <1>8, <1>9, <1>11, <1>12, <2>1
\* The pages above the last one are empty, and the last one has a block.
<1>14. /\ last \in 0 .. size
       /\ \A j \in 0 .. size : j > last => ps[j].used = 0
       /\ HasFirst(ps[last])
  <2>1. CASE last = size
    <3>1. HasFirst(ps[size])
      <4>1. CASE i = size
        BY <1>8, <1>9, <4>1
      <4>2. CASE i # size
        BY <1>2, <1>6, <1>9, <4>2
      <4> QED BY <4>1, <4>2
    <3> HIDE DEF last, i
    <3> QED BY <1>2, <2>1, <3>1
  <2>2. CASE last # size
    <3>1. last = Released(ps)
      BY <2>2
    <3> HIDE DEF last, i
    <3>2. /\ last \in 0 .. size
          /\ \A j \in 0 .. size : j > last => ps[j].used = 0 /\ HasFirst(ps[j - 1])
      BY <1>2, <3>1, ReleasedFacts
    <3>3. last + 1 \in 0 .. size /\ last + 1 > last /\ (last + 1) - 1 = last
      BY <1>2, <2>2, <3>2
    <3>4. HasFirst(ps[(last + 1) - 1])
      BY <3>2, <3>3
    <3>5. HasFirst(ps[last])
      BY <3>3, <3>4
    <3> QED BY <3>2, <3>5
  <2> QED BY <2>1, <2>2
<1> HIDE DEF last
<1>15. /\ last \in Nat /\ last \in Index /\ last \in 0 .. NPages
       /\ blocks' = Capacity(size') /\ Capacity(size') \in Nat
  <2>1. last \in Nat /\ last \in Index /\ last \in 0 .. NPages
    BY <1>2, <1>14
  <2>2. size - last \in 0 .. size /\ size - (size - last) = last
    BY <1>2, <1>14
  <2>3. Halved(size - last) = Capacity(last)
    BY <1>2, <1>6, <2>2, HalvedFacts
  <2> QED BY <1>5, <2>1, <2>3, CapacityFacts
<1>16. /\ DOMAIN pages' = Index
       /\ \A j \in Index : pages'[j] = IF j > last THEN NULL ELSE ps[j]
  BY <1>5
<1>17. ASSUME NEW j \in Index PROVE pages'[j] \in Page(j) \cup {NULL}
  <2>1. CASE j > last
    BY <1>16, <2>1
  <2>2. CASE ~(j > last)
    <3>1. j \in 0 .. size
      BY <1>2, <1>14, <2>2 DEF Index
    <3> QED BY <1>13, <1>16, <2>2, <3>1 DEF Lists
  <2> QED BY <2>1, <2>2
<1>18. TypeOK'
  <2>1. failed' \in BOOLEAN
    BY <1>2, <1>5 DEF TypeOK
  <2>2. size' \in 0 .. NPages /\ blocks' \in Nat
    BY <1>5, <1>15
  <2> QED BY <1>10, <1>16, <1>17, <2>1, <2>2 DEF TypeOK
<1>19. ASSUME NEW y \in live' PROVE y[1] <= last
  <2>1. y \in live /\ y[1] \in 0 .. size /\ y = <<y[1], y[2]>>
    BY <1>1, <1>5, SoundFacts
  <2>2. y[2] \in Out(live', y[1])
    BY <1>10, <2>1 DEF Out, Offsets
  <2>3. Lists(y[1], ps[y[1]], Out(live', y[1]))
    BY <1>13, <2>1
  <2>4. ps[y[1]].used # 0
    <3>1. /\ IsFiniteSet(Out(live', y[1]))
          /\ ps[y[1]].used = Cardinality(Out(live', y[1]))
      BY <1>2, <2>1, <2>3, OffsetsAreFinite DEF Lists
    <3> QED BY <2>2, <3>1, FS_EmptySet
  <2>5. ~(y[1] > last)
    BY <1>14, <2>1, <2>4
  <2> QED BY <1>14, <2>1, <2>5
<1>20. ASSUME NEW j \in 0 .. last PROVE Lists(j, pages'[j], Out(live', j))
  <2>1. j \in 0 .. size /\ j \in Index /\ ~(j > last)
    BY <1>2, <1>14
  <2> QED BY <1>13, <1>16, <2>1
<1>21. HasFirst(pages'[last])
  BY <1>14, <1>15, <1>16
<1>22. Sound'
  BY <1>5, <1>15, <1>19, <1>20, <1>21 DEF Sound
<1> QED BY <1>1, <1>5, <1>10, <1>18, <1>22 DEF LogInv

LEMMA LogInvStep == LogInv /\ [Next]_vars => LogInv'
<1> SUFFICES ASSUME LogInv, [Next]_vars PROVE LogInv'
  OBVIOUS
<1>1. CASE ba_log_alloc
  BY <1>1, AllocStep
<1>2. CASE ba_log_free
  BY <1>2, FreeStep
<1>3. CASE UNCHANGED vars
  BY <1>3 DEF vars, LogInv, Sound, TypeOK
<1> QED BY <1>1, <1>2, <1>3 DEF Next

----------------------------------------------------------------------------
(* What follows from it *)

\* The inductive invariant holds of every run.
THEOREM LogInvariance == Spec => []LogInv
BY LogInvInit, LogInvStep, PTL DEF Spec

\* ba_log_alloc, which reads the first block of the last page unchecked, finds
\* one there.
THEOREM LastPageAlwaysHasBlock == Spec => []LastPageHasBlock
<1>1. LogInv => LastPageHasBlock
  BY DEF LogInv, Sound, LastPageHasBlock
<1> QED BY <1>1, LogInvariance, PTL

\* Each page's list and the blocks the client owns of it make up the page, and
\* no page with a block in use is released.
THEOREM BlocksAreAlwaysAccounted == Spec => []BlocksAreAccounted
<1>1. LogInv => BlocksAreAccounted
  <2> SUFFICES ASSUME LogInv, ~failed
               PROVE  /\ \A i \in 0 .. size :
                            LET p    == pages[i]
                                tail == IF p.lazy = NULL THEN {}
                                        ELSE p.lazy .. (Capacity(i) - 1)
                                out  == {b \in 0 .. (Capacity(i) - 1) :
                                                <<i, b>> \in live}
                            IN  /\ p.linked \cap tail = {}
                                /\ (p.linked \cup tail)
                                        = (0 .. (Capacity(i) - 1)) \ out
                                /\ p.used = Cardinality(out)
                      /\ \A x \in live : x[1] <= size
    BY DEF BlocksAreAccounted
  <2>1. Sound
    BY DEF LogInv
  <2> QED BY <2>1 DEF Sound, Lists, Tail, Out, Offsets
<1> QED BY <1>1, LogInvariance, PTL

\* However often it is doubled and halved, the layout of the allocator is that of
\* its last page; nothing goes wrong before the array of pages is full.
THEOREM LayoutAlwaysFollows == Spec => []LayoutFollowsLastPage
<1>1. LogInv => LayoutFollowsLastPage
  <2> SUFFICES ASSUME LogInv PROVE LayoutFollowsLastPage
    OBVIOUS
  <2>1. CASE failed
    BY <2>1 DEF LogInv, LayoutFollowsLastPage
  <2>2. CASE ~failed
    <3>1. blocks = Capacity(size)
      BY <2>2 DEF LogInv, Sound
    <3> QED BY <2>2, <3>1, BlockIsFound DEF LayoutFollowsLastPage
  <2> QED BY <2>1, <2>2
<1> QED BY <1>1, LogInvariance, PTL
=============================================================================
