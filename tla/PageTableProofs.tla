-------------------------- MODULE PageTableProofs --------------------------
(***************************************************************************)
(* The properties of module PageTable for every set of pages, whatever the *)
(* keys of their addresses and the hashes of the keys, and the refinement  *)
(* of PageSet.  The table always has a doubled number of Initial buckets;  *)
(* a page is in the bucket of its last block's key, chained there once.    *)
(***************************************************************************)
EXTENDS PageTable, FiniteSetTheorems, SequenceTheorems, TLAPS

----------------------------------------------------------------------------
(* Chains *)

Distinct(c) == \A i, j \in 1 .. Len(c) : c[i] = c[j] => i = j

LEMMA ChainFacts ==
    ASSUME NEW c \in Seq(Pages)
    PROVE  /\ Len(c) \in Nat
           /\ ToSet(c) = {c[i] : i \in 1 .. Len(c)}
           /\ ToSet(c) \subseteq Pages
BY DEF ToSet

LEMMA MadeChain ==
    ASSUME NEW n \in Nat, NEW c \in [1 .. n -> Pages]
    PROVE  c \in Seq(Pages) /\ Len(c) = n
OBVIOUS

\* Distinct pages make a chain as long as there are pages.
LEMMA DistinctLength ==
    ASSUME NEW c \in Seq(Pages), Distinct(c)
    PROVE  Len(c) = Cardinality(ToSet(c))
<1>1. c \in Bijection(1 .. Len(c), ToSet(c))
  BY ChainFacts DEF Bijection, Injection, IsInjective, Surjection, Distinct
<1> QED BY <1>1, ChainFacts, FS_CountingElements DEF ExistsBijection

LEMMA OnlyFacts ==
    ASSUME NEW c \in Seq(Pages), NEW S, Distinct(c)
    PROVE  /\ Only(c, S) \in Seq(Pages)
           /\ ToSet(Only(c, S)) = ToSet(c) \cap S
           /\ Distinct(Only(c, S))
<1> DEFINE kept    == {i \in DOMAIN c : c[i] \in S}
           rank(i) == Cardinality({k \in kept : k <= i})
           m       == Cardinality(kept)
           at(j)   == CHOOSE i \in kept : rank(i) = j
           d       == [j \in 1 .. m |-> c[at(j)]]
<1>1. /\ Len(c) \in Nat /\ DOMAIN c = 1 .. Len(c)
      /\ kept \subseteq 1 .. Len(c)
      /\ \A i \in kept : i \in Int /\ c[i] \in Pages /\ c[i] \in S
  OBVIOUS
<1>2. IsFiniteSet(kept) /\ m \in Nat
  <2>1. IsFiniteSet(1 .. Len(c))
    BY <1>1, FS_Interval
  <2> HIDE DEF kept
  <2> QED BY <1>1, <2>1, FS_Subset, FS_CardinalityType
<1> HIDE DEF kept
<1>3. ASSUME NEW i \in kept PROVE rank(i) \in 1 .. m
  <2> DEFINE K == {k \in kept : k <= i}
  <2>1. K \in SUBSET kept /\ i \in K
    BY <1>1
  <2>2. IsFiniteSet(K) /\ Cardinality(K) <= m /\ Cardinality(K) \in Nat
    BY <1>2, <2>1, FS_Subset, FS_CardinalityType
  <2>3. Cardinality(K) # 0
    BY <2>1, <2>2, FS_EmptySet
  <2> HIDE DEF K
  <2>4. Cardinality(K) \in 1 .. m
    BY <1>2, <2>2, <2>3
  <2> QED BY <2>4 DEF K
<1>4. ASSUME NEW i \in kept, NEW j \in kept, i < j PROVE rank(i) < rank(j)
  <2> DEFINE K == {k \in kept : k <= i}
             L == {k \in kept : k <= j}
  <2>0. i \in Int /\ j \in Int /\ \A k \in kept : k \in Int
    BY <1>1
  <2>1. K \in SUBSET L /\ L \in SUBSET kept /\ j \in L /\ j \notin K
    <3>1. \A k \in kept : k <= i => k <= j
      BY <1>4, <2>0
    <3>2. ~(j <= i) /\ j <= j
      BY <1>4, <2>0
    <3> QED BY <3>1, <3>2
  <2>2. IsFiniteSet(L)
    BY <1>2, <2>1, FS_Subset
  <2>3. /\ Cardinality(K) <= Cardinality(L)
        /\ Cardinality(K) # Cardinality(L)
    BY <2>1, <2>2, FS_Subset
  <2>4. rank(i) = Cardinality(K) /\ rank(j) = Cardinality(L)
    OBVIOUS
  <2>5. rank(i) \in Int /\ rank(j) \in Int
    BY <1>2, <1>3
  <2> HIDE DEF K, L, rank
  <2> QED BY <2>3, <2>4, <2>5
<1> HIDE DEF rank
<1>5. \A i, j \in kept : rank(i) = rank(j) => i = j
  <2> SUFFICES ASSUME NEW i \in kept, NEW j \in kept, rank(i) = rank(j), i # j
               PROVE  FALSE
    OBVIOUS
  <2>1. i < j \/ j < i
    BY <1>1
  <2>2. rank(i) \in Int /\ rank(j) \in Int
    BY <1>2, <1>3
  <2> QED BY <1>4, <2>1, <2>2
<1>6. \A j \in 1 .. m : \E i \in kept : rank(i) = j
  <2> DEFINE f == [i \in kept |-> rank(i)]
  <2>1. f \in Injection(kept, 1 .. m)
    BY <1>3, <1>5 DEF Injection, IsInjective
  <2>2. IsFiniteSet(1 .. m) /\ Cardinality(1 .. m) = m
    <3>1. 1 \in Int /\ m \in Int
      BY <1>2
    <3>2. /\ IsFiniteSet(1 .. m)
          /\ Cardinality(1 .. m) = IF 1 > m THEN 0 ELSE m - 1 + 1
      BY <3>1, FS_Interval
    <3> QED BY <1>2, <3>2
  <2>3. f \in Surjection(kept, 1 .. m)
    <3> HIDE DEF f, m
    <3> QED BY <2>1, <2>2, FS_Injection DEF m
  <2>4. \A j \in 1 .. m : \E i \in kept : f[i] = j
    BY <2>3 DEF Surjection
  <2> QED BY <2>4
<1>7. ASSUME NEW j \in 1 .. m PROVE at(j) \in kept /\ rank(at(j)) = j
  BY <1>6
<1> HIDE DEF at
<1>8. d \in [1 .. m -> Pages]
  BY <1>1, <1>7
<1>9. Only(c, S) = d
  BY DEF Only, d, m, at, rank, kept
<1> HIDE DEF m
<1>10. d \in Seq(Pages) /\ Len(d) = m
  BY <1>2, <1>8, MadeChain
<1>11. Distinct(d)
  <2> SUFFICES ASSUME NEW i \in 1 .. m, NEW j \in 1 .. m, d[i] = d[j]
               PROVE  i = j
    BY <1>10 DEF Distinct
  <2>1. c[at(i)] = c[at(j)]
    OBVIOUS
  <2>2. at(i) = at(j)
    BY <1>1, <1>7, <2>1 DEF Distinct
  <2> QED BY <1>7, <2>2
<1>12. ToSet(d) = ToSet(c) \cap S
  <2>1. ToSet(d) = {c[at(j)] : j \in 1 .. m}
    <3>1. ToSet(d) = {d[j] : j \in 1 .. m}
      BY <1>10, ChainFacts
    <3> QED BY <3>1
  <2>2. {c[at(j)] : j \in 1 .. m} = {c[i] : i \in kept}
    <3>1. \A i \in kept : rank(i) \in 1 .. m /\ at(rank(i)) = i
      BY <1>3, <1>5, <1>7
    <3> QED BY <1>7, <3>1
  <2>3. {c[i] : i \in kept} = ToSet(c) \cap S
    BY <1>1 DEF kept, ToSet
  <2> HIDE DEF d
  <2> QED BY <2>1, <2>2, <2>3
<1> HIDE DEF d
<1> QED BY <1>9, <1>10, <1>11, <1>12

LEMMA ReverseFacts ==
    ASSUME NEW c \in Seq(Pages), Distinct(c)
    PROVE  /\ Reverse(c) \in Seq(Pages)
           /\ ToSet(Reverse(c)) = ToSet(c)
           /\ Distinct(Reverse(c))
<1> DEFINE n == Len(c)
           d == [i \in 1 .. n |-> c[(n - i) + 1]]
<1>1. n \in Nat /\ Reverse(c) = d
  BY DEF Reverse
<1>2. \A i \in 1 .. n : /\ (n - i) + 1 \in 1 .. n
                        /\ (n - ((n - i) + 1)) + 1 = i
  BY <1>1
<1>3. \A i \in 1 .. n : c[i] \in Pages
  OBVIOUS
<1> HIDE DEF n
<1>4. d \in [1 .. n -> Pages]
  BY <1>2, <1>3
<1>5. d \in Seq(Pages) /\ Len(d) = n
  BY <1>1, <1>4, MadeChain
<1>6. ToSet(d) = {d[i] : i \in 1 .. n}
  BY <1>5, ChainFacts
<1>7. ToSet(c) = {c[i] : i \in 1 .. n}
  BY ChainFacts DEF n
<1>8. {d[i] : i \in 1 .. n} = {c[i] : i \in 1 .. n}
  BY <1>2
<1>9. Distinct(d)
  <2> SUFFICES ASSUME NEW i \in 1 .. n, NEW j \in 1 .. n, d[i] = d[j]
               PROVE  i = j
    BY <1>5 DEF Distinct
  <2>1. c[(n - i) + 1] = c[(n - j) + 1]
    OBVIOUS
  <2>2. (n - i) + 1 = (n - j) + 1
    BY <1>2, <2>1 DEF Distinct, n
  <2> QED BY <1>1, <2>2
<1> HIDE DEF d
<1> QED BY <1>1, <1>5, <1>6, <1>7, <1>8, <1>9

LEMMA ConcatFacts ==
    ASSUME NEW c \in Seq(Pages), NEW d \in Seq(Pages), Distinct(c), Distinct(d),
           ToSet(c) \cap ToSet(d) = {}
    PROVE  /\ c \o d \in Seq(Pages)
           /\ ToSet(c \o d) = ToSet(c) \cup ToSet(d)
           /\ Distinct(c \o d)
<1> DEFINE m == Len(c)
           n == Len(d)
           e == c \o d
<1>1. /\ m \in Nat /\ n \in Nat /\ e \in Seq(Pages) /\ Len(e) = m + n
      /\ \A i \in 1 .. (m + n) : e[i] = IF i <= m THEN c[i] ELSE d[i - m]
  BY ConcatProperties
<1>2. /\ ToSet(c) = {c[i] : i \in 1 .. m} /\ ToSet(d) = {d[i] : i \in 1 .. n}
      /\ ToSet(e) = {e[i] : i \in 1 .. (m + n)}
  BY <1>1, ChainFacts
<1>3. /\ \A i \in 1 .. m : i \in 1 .. (m + n) /\ e[i] = c[i]
      /\ \A i \in 1 .. n : i + m \in 1 .. (m + n) /\ e[i + m] = d[i]
      /\ \A i \in 1 .. (m + n) : i \in 1 .. m \/ (i - m \in 1 .. n /\ (i - m) + m = i)
  BY <1>1
<1>4. Distinct(e)
  <2> SUFFICES ASSUME NEW i \in 1 .. (m + n), NEW j \in 1 .. (m + n), e[i] = e[j]
               PROVE  i = j
    BY <1>1 DEF Distinct
  <2> HIDE DEF e
  <2>1. CASE i \in 1 .. m /\ j \in 1 .. m
    BY <1>3, <2>1 DEF Distinct
  <2>2. CASE i - m \in 1 .. n /\ (i - m) + m = i /\ j - m \in 1 .. n /\ (j - m) + m = j
    <3>1. d[i - m] = d[j - m]
      BY <1>3, <2>2
    <3>2. i - m = j - m
      BY <2>2, <3>1 DEF Distinct
    <3> QED BY <2>2, <3>2
  <2>3. CASE i \in 1 .. m /\ j - m \in 1 .. n /\ (j - m) + m = j
    <3>1. c[i] = d[j - m]
      BY <1>3, <2>3
    <3> QED BY <1>2, <2>3, <3>1
  <2>4. CASE j \in 1 .. m /\ i - m \in 1 .. n /\ (i - m) + m = i
    <3>1. c[j] = d[i - m]
      BY <1>3, <2>4
    <3> QED BY <1>2, <2>4, <3>1
  <2> QED BY <1>3, <2>1, <2>2, <2>3, <2>4
<1>5. ToSet(e) = ToSet(c) \cup ToSet(d)
  <2> HIDE DEF e, m, n
  <2>1. ASSUME NEW x \in ToSet(e) PROVE x \in ToSet(c) \cup ToSet(d)
    <3>1. PICK i \in 1 .. (m + n) : x = e[i]
      BY <1>2
    <3> QED BY <1>2, <1>3, <3>1
  <2>2. ASSUME NEW x \in ToSet(c) PROVE x \in ToSet(e)
    BY <1>2, <1>3
  <2>3. ASSUME NEW x \in ToSet(d) PROVE x \in ToSet(e)
    BY <1>2, <1>3
  <2> QED BY <2>1, <2>2, <2>3
<1> QED BY <1>1, <1>4, <1>5

----------------------------------------------------------------------------
(* Buckets *)

LEMMA DivMod ==
    ASSUME NEW h \in Nat, NEW n \in Nat \ {0}
    PROVE  /\ h \div n \in Int /\ h % n \in 0 .. (n - 1)
           /\ h = n * (h \div n) + (h % n)
<1>1. h \div n \in Int
  OBVIOUS
<1>2. h % n \in 0 .. (n - 1)
  OBVIOUS
<1>3. \A i, m \in Int : m > 0 => i = m * (i \div m) + (i % m)
  OBVIOUS
<1> QED BY <1>1, <1>2, <1>3

\* Twice as many buckets tell the pages of a bucket apart by one more bit.
LEMMA MaskDoubled ==
    ASSUME NEW h \in Nat, NEW n \in Nat \ {0}
    PROVE  /\ Mask(h, n) \in Buckets(n)
           /\ Mask(h, 2 * n) \in Buckets(2 * n)
           /\ Mask(h, n) = IF Mask(h, 2 * n) < n THEN Mask(h, 2 * n)
                           ELSE Mask(h, 2 * n) - n
<1> DEFINE q == h \div n
           r == h % n
           u == h \div (2 * n)
           v == h % (2 * n)
<1>1. q \in Int /\ r \in 0 .. (n - 1) /\ h = n * q + r
  BY DivMod
<1>2. u \in Int /\ v \in 0 .. (2 * n - 1) /\ h = (2 * n) * u + v
  <2> DEFINE w == 2 * n
  <2>1. w \in Nat \ {0} /\ u = h \div w /\ v = h % w
    OBVIOUS
  <2> HIDE DEF w, u, v
  <2>2. u \in Int /\ v \in 0 .. (w - 1) /\ h = w * u + v
    BY <2>1, DivMod
  <2> QED BY <2>2 DEF w
<1> HIDE DEF q, r, u, v
<1> DEFINE d == q - 2 * u
<1>3. d \in Int /\ n * d = v - r
  BY <1>1, <1>2
<1> HIDE DEF d
<1>4. d = 0 \/ d = 1
  <2>1. \A x \in Int : x >= 2 => n * x >= 2 * n
    OBVIOUS
  <2>2. \A x \in Int : x <= -1 => n * x <= -n
    OBVIOUS
  <2>3. n * d < 2 * n /\ n * d > -n
    BY <1>1, <1>2, <1>3
  <2> QED BY <1>3, <2>1, <2>2, <2>3
<1>5. r = IF v < n THEN v ELSE v - n
  BY <1>1, <1>2, <1>3, <1>4
<1> QED BY <1>1, <1>2, <1>5 DEF Mask, Buckets, r, v

LEMMA HomeFacts ==
    ASSUME NEW p \in Pages
    PROVE  /\ LastKey[p] \in Keys /\ LastKey[p] \in Nat
           /\ \A n : Home(p, n) = Mask(Mix[LastKey[p]], n)
           /\ Mix[LastKey[p]] \in Nat
<1>1. /\ FirstKey[p] \in Nat /\ LastKey[p] \in Nat
      /\ LastKey[p] - FirstKey[p] \in {0, 1}
  BY KeyAssumption
<1>2. LastKey[p] \in FirstKey[p] .. (LastKey[p] + 1)
  BY <1>1
<1>3. LastKey[p] \in Keys
  BY <1>2 DEF Keys
<1> QED BY <1>1, <1>3, MixAssumption DEF Home, hash1

LEMMA HomeDoubled ==
    ASSUME NEW p \in Pages, NEW n \in Nat \ {0}
    PROVE  /\ Home(p, n) \in Buckets(n)
           /\ Home(p, 2 * n) \in Buckets(2 * n)
           /\ Home(p, n) = IF Home(p, 2 * n) < n THEN Home(p, 2 * n)
                           ELSE Home(p, 2 * n) - n
BY HomeFacts, MaskDoubled

\* The n buckets of t hold the pages that hash there, each once.
Chained(t, n) == /\ t \in [Buckets(n) -> Seq(Pages)]
                 /\ \A i \in Buckets(n) : /\ Distinct(t[i])
                                          /\ \A p \in ToSet(t[i]) : Home(p, n) = i

In(t) == UNION {ToSet(t[i]) : i \in DOMAIN t}

LEMMA InFacts ==
    ASSUME NEW n, NEW t, Chained(t, n)
    PROVE  /\ In(t) \subseteq Pages
           /\ \A p : p \in In(t) <=> \E i \in Buckets(n) : p \in ToSet(t[i])
<1>1. \A i \in Buckets(n) : t[i] \in Seq(Pages) /\ ToSet(t[i]) \subseteq Pages
  BY ChainFacts DEF Chained
<1>2. DOMAIN t = Buckets(n)
  BY DEF Chained
<1> QED BY <1>1, <1>2 DEF In

\* Being in the table is being in one's own bucket.
LEMMA InBucket ==
    ASSUME NEW n, NEW t, Chained(t, n), NEW p \in In(t)
    PROVE  Home(p, n) \in Buckets(n) /\ p \in ToSet(t[Home(p, n)])
BY InFacts DEF Chained

LEMMA EmptyChained ==
    ASSUME NEW n
    PROVE  Chained(EmptyTable(n), n) /\ In(EmptyTable(n)) = {}
<1>1. <<>> \in Seq(Pages) /\ Len(<<>>) = 0
  BY EmptySeq
<1>2. Distinct(<<>>) /\ ToSet(<<>>) = {}
  <2>1. ASSUME NEW c \in Seq(Pages), Len(c) = 0
        PROVE  Distinct(c) /\ ToSet(c) = {}
    <3>1. ToSet(c) = {c[i] : i \in 1 .. Len(c)}
      BY ChainFacts
    <3>2. 1 .. Len(c) = {}
      BY <2>1
    <3> QED BY <3>1, <3>2 DEF Distinct
  <2> QED BY <1>1, <2>1
<1>3. /\ EmptyTable(n) \in [Buckets(n) -> Seq(Pages)]
      /\ DOMAIN EmptyTable(n) = Buckets(n)
      /\ \A i \in Buckets(n) : EmptyTable(n)[i] = <<>>
  BY <1>1 DEF EmptyTable
<1> QED BY <1>2, <1>3 DEF Chained, In

LEMMA InsertChained ==
    ASSUME NEW n \in Nat \ {0}, NEW t, Chained(t, n), NEW p \in Pages \ In(t)
    PROVE  LET r == ba_htable_insert(t, n, p)
           IN  Chained(r, n) /\ In(r) = In(t) \cup {p}
<1> DEFINE r == ba_htable_insert(t, n, p)
           i == Home(p, n)
           c == <<p>> \o t[i]
<1>1. /\ i \in Buckets(n) /\ t \in [Buckets(n) -> Seq(Pages)]
      /\ t[i] \in Seq(Pages) /\ Distinct(t[i]) /\ p \notin ToSet(t[i])
  BY HomeDoubled, InFacts DEF Chained
<1>2. /\ <<p>> \in Seq(Pages) /\ Len(<<p>>) = 1 /\ <<p>>[1] = p
  OBVIOUS
<1>3. Distinct(<<p>>) /\ ToSet(<<p>>) = {p}
  <2>1. \A d \in Seq(Pages) : Len(d) = 1 => Distinct(d) /\ ToSet(d) = {d[1]}
    BY ChainFacts DEF Distinct
  <2> QED BY <1>2, <2>1
<1>4. c \in Seq(Pages) /\ ToSet(c) = {p} \cup ToSet(t[i]) /\ Distinct(c)
  BY <1>1, <1>2, <1>3, ConcatFacts
<1>5. r = [t EXCEPT ![i] = c]
  BY DEF ba_htable_insert
<1> HIDE DEF c, r, i
<1>6. /\ r \in [Buckets(n) -> Seq(Pages)] /\ r[i] = c
      /\ \A j \in Buckets(n) \ {i} : r[j] = t[j]
  BY <1>1, <1>4, <1>5
<1>7. Chained(r, n)
  <2>1. ASSUME NEW j \in Buckets(n)
        PROVE  Distinct(r[j]) /\ \A q \in ToSet(r[j]) : Home(q, n) = j
    BY <1>4, <1>6 DEF Chained, i
  <2> QED BY <1>6, <2>1 DEF Chained
<1>8. \A q : q \in In(r) <=> q \in In(t) \cup {p}
  <2>1. \A q : q \in In(r) <=> \E j \in Buckets(n) : q \in ToSet(r[j])
    BY <1>7, InFacts
  <2>2. \A q : q \in In(t) <=> \E j \in Buckets(n) : q \in ToSet(t[j])
    BY InFacts
  <2>3. ToSet(r[i]) = {p} \cup ToSet(t[i])
    BY <1>4, <1>6
  <2>4. \A j \in Buckets(n) \ {i} : ToSet(r[j]) = ToSet(t[j])
    BY <1>6
  <2> QED BY <1>1, <2>1, <2>2, <2>3, <2>4
<1> QED BY <1>7, <1>8 DEF r

LEMMA DeleteChained ==
    ASSUME NEW n \in Nat, NEW t, Chained(t, n), NEW P
    PROVE  LET r == ba_htable_delete(t, n, P)
           IN  Chained(r, n) /\ In(r) = In(t) \ P
<1> DEFINE r == ba_htable_delete(t, n, P)
           S(i) == Pages \ (P \cap HomedAt(i, n))
<1>1. /\ DOMAIN t = Buckets(n) /\ DOMAIN r = Buckets(n)
      /\ \A i \in Buckets(n) : t[i] \in Seq(Pages) /\ r[i] = Only(t[i], S(i))
  BY DEF ba_htable_delete, Chained
<1>2. ASSUME NEW i \in Buckets(n)
      PROVE  /\ r[i] \in Seq(Pages) /\ Distinct(r[i])
             /\ ToSet(r[i]) = ToSet(t[i]) \ P
  <2>1. /\ Distinct(t[i]) /\ ToSet(t[i]) \subseteq Pages
        /\ \A p \in ToSet(t[i]) : Home(p, n) = i
    BY <1>1, ChainFacts DEF Chained
  <2>2. /\ Only(t[i], S(i)) \in Seq(Pages) /\ Distinct(Only(t[i], S(i)))
        /\ ToSet(Only(t[i], S(i))) = ToSet(t[i]) \cap S(i)
    BY <1>1, <2>1, OnlyFacts
  <2>3. ToSet(t[i]) \cap S(i) = ToSet(t[i]) \ P
    BY <2>1 DEF HomedAt
  <2> QED BY <1>1, <2>2, <2>3
<1>3. r = [i \in Buckets(n) |-> r[i]]
  BY <1>1 DEF ba_htable_delete
<1> HIDE DEF r, S
<1>4. r \in [Buckets(n) -> Seq(Pages)]
  BY <1>2, <1>3
<1>5. Chained(r, n)
  BY <1>2, <1>4 DEF Chained
<1>6. \A p : p \in In(r) <=> p \in In(t) \ P
  BY <1>2, <1>5, InFacts
<1> QED BY <1>5, <1>6 DEF r


LEMMA GrowChained ==
    ASSUME NEW n \in Nat \ {0}, NEW t, Chained(t, n)
    PROVE  LET r == ba_htable_grow(t, n)
           IN  Chained(r, 2 * n) /\ In(r) = In(t)
<1> DEFINE r == ba_htable_grow(t, n)
           Low(i) == Only(t[i], HomedAt(i, 2 * n))
           High(i) == Only(t[i], Pages \ HomedAt(i, 2 * n))
<1>1. /\ n \in Int /\ n > 0 /\ 2 * n \in Nat
      /\ \A i \in Buckets(n) : i \in Buckets(2 * n) /\ i < n
                               /\ i + n \in Buckets(2 * n) /\ ~(i + n < n)
                               /\ (i + n) - n = i
      /\ \A i \in Buckets(2 * n) : i < n => i \in Buckets(n)
      /\ \A i \in Buckets(2 * n) : ~(i < n) => i - n \in Buckets(n) /\ (i - n) + n = i
  BY DEF Buckets
<1>2. ASSUME NEW i \in Buckets(n)
      PROVE  /\ t[i] \in Seq(Pages) /\ Distinct(t[i]) /\ ToSet(t[i]) \subseteq Pages
             /\ \A p \in ToSet(t[i]) : Home(p, n) = i /\ Home(p, 2 * n) \in {i, i + n}
  <2>1. /\ t[i] \in Seq(Pages) /\ Distinct(t[i]) /\ ToSet(t[i]) \subseteq Pages
        /\ \A p \in ToSet(t[i]) : Home(p, n) = i
    BY ChainFacts DEF Chained
  <2>2. ASSUME NEW p \in ToSet(t[i]) PROVE Home(p, 2 * n) \in {i, i + n}
    <3>1. /\ Home(p, 2 * n) \in Buckets(2 * n)
          /\ i = IF Home(p, 2 * n) < n THEN Home(p, 2 * n) ELSE Home(p, 2 * n) - n
      BY <2>1, HomeDoubled
    <3> QED BY <1>1, <3>1
  <2> QED BY <2>1, <2>2
<1>3. ASSUME NEW i \in Buckets(n)
      PROVE  /\ Low(i) \in Seq(Pages) /\ Distinct(Low(i))
             /\ ToSet(Low(i)) = {p \in ToSet(t[i]) : Home(p, 2 * n) = i}
  <2>1. /\ Low(i) \in Seq(Pages) /\ Distinct(Low(i))
        /\ ToSet(Low(i)) = ToSet(t[i]) \cap HomedAt(i, 2 * n)
    BY <1>2, OnlyFacts
  <2> QED BY <1>2, <2>1 DEF HomedAt
<1>4. ASSUME NEW i \in Buckets(n)
      PROVE  /\ High(i) \in Seq(Pages) /\ Distinct(High(i))
             /\ ToSet(High(i)) = {p \in ToSet(t[i]) : Home(p, 2 * n) # i}
  <2>1. /\ High(i) \in Seq(Pages) /\ Distinct(High(i))
        /\ ToSet(High(i)) = ToSet(t[i]) \cap (Pages \ HomedAt(i, 2 * n))
    BY <1>2, OnlyFacts
  <2> QED BY <1>2, <2>1 DEF HomedAt
<1> HIDE DEF Low, High
<1>5. r = [i \in Buckets(2 * n) |-> IF i < n THEN Low(i) ELSE Reverse(High(i - n))]
  BY DEF ba_htable_grow, Low, High
<1> HIDE DEF r
<1>6. ASSUME NEW i \in Buckets(n)
      PROVE  /\ r[i] \in Seq(Pages) /\ Distinct(r[i])
             /\ ToSet(r[i]) = {p \in ToSet(t[i]) : Home(p, 2 * n) = i}
  BY <1>1, <1>3, <1>5
<1>7. ASSUME NEW i \in Buckets(n)
      PROVE  /\ r[i + n] \in Seq(Pages) /\ Distinct(r[i + n])
             /\ ToSet(r[i + n]) = {p \in ToSet(t[i]) : Home(p, 2 * n) # i}
  <2>1. r[i + n] = Reverse(High(i))
    BY <1>1, <1>5
  <2> QED BY <1>4, <2>1, ReverseFacts
<1>8. ASSUME NEW i \in Buckets(2 * n)
      PROVE  /\ r[i] \in Seq(Pages) /\ Distinct(r[i])
             /\ \A p \in ToSet(r[i]) : Home(p, 2 * n) = i
  <2>1. CASE i < n
    BY <1>1, <1>6, <2>1
  <2>2. CASE ~(i < n)
    <3>1. i - n \in Buckets(n) /\ (i - n) + n = i
      BY <1>1, <2>2
    <3>2. /\ r[(i - n) + n] \in Seq(Pages) /\ Distinct(r[(i - n) + n])
          /\ \A p \in ToSet(r[(i - n) + n]) : Home(p, 2 * n) = (i - n) + n
      BY <1>2, <1>7, <3>1
    <3> QED BY <3>1, <3>2
  <2> QED BY <2>1, <2>2
<1>9. r \in [Buckets(2 * n) -> Seq(Pages)]
  BY <1>5, <1>8
<1>10. Chained(r, 2 * n)
  BY <1>8, <1>9 DEF Chained
<1>11. \A p : p \in In(r) <=> \E i \in Buckets(2 * n) : p \in ToSet(r[i])
  BY <1>1, <1>10, InFacts
<1>12. \A p : p \in In(t) <=> \E i \in Buckets(n) : p \in ToSet(t[i])
  BY InFacts
<1>13. ASSUME NEW p \in In(t) PROVE p \in In(r)
  <2>1. PICK i \in Buckets(n) : p \in ToSet(t[i])
    BY <1>12
  <2>2. p \in ToSet(r[i]) \/ p \in ToSet(r[i + n])
    BY <1>6, <1>7, <2>1
  <2> QED BY <1>1, <1>11, <2>2
<1>14. ASSUME NEW p \in In(r) PROVE p \in In(t)
  <2>1. PICK i \in Buckets(2 * n) : p \in ToSet(r[i])
    BY <1>11
  <2>2. CASE i < n
    <3>1. i \in Buckets(n)
      BY <1>1, <2>2
    <3>2. p \in ToSet(t[i])
      BY <1>6, <2>1, <3>1
    <3> QED BY <1>12, <3>1, <3>2
  <2>3. CASE ~(i < n)
    <3>1. i - n \in Buckets(n) /\ p \in ToSet(r[(i - n) + n])
      BY <1>1, <2>1, <2>3
    <3>2. p \in ToSet(t[i - n])
      BY <1>7, <3>1
    <3> QED BY <1>12, <3>1, <3>2
  <2> QED BY <2>2, <2>3
<1> QED BY <1>10, <1>13, <1>14 DEF r

LEMMA ShrinkChained ==
    ASSUME NEW n \in Nat \ {0}, NEW t, Chained(t, 2 * n)
    PROVE  LET r == ba_htable_shrink(t, 2 * n)
           IN  Chained(r, n) /\ In(r) = In(t)
<1> DEFINE r == ba_htable_shrink(t, 2 * n)
<1>1. /\ (2 * n) \div 2 = n
      /\ \A i \in Buckets(n) : i \in Buckets(2 * n) /\ n + i \in Buckets(2 * n)
                               /\ i < n /\ ~(n + i < n) /\ (n + i) - n = i /\ n + i # i
      /\ \A i \in Buckets(2 * n) : i \in Buckets(n)
                                   \/ (i - n \in Buckets(n) /\ n + (i - n) = i)
  BY DEF Buckets
<1>2. r = [i \in Buckets(n) |-> t[n + i] \o t[i]]
  BY <1>1 DEF ba_htable_shrink
<1> HIDE DEF r
<1>3. ASSUME NEW i \in Buckets(2 * n)
      PROVE  /\ t[i] \in Seq(Pages) /\ Distinct(t[i]) /\ ToSet(t[i]) \subseteq Pages
             /\ \A p \in ToSet(t[i]) : /\ Home(p, 2 * n) = i
                                       /\ Home(p, n) = IF i < n THEN i ELSE i - n
  <2>1. /\ t[i] \in Seq(Pages) /\ Distinct(t[i]) /\ ToSet(t[i]) \subseteq Pages
        /\ \A p \in ToSet(t[i]) : Home(p, 2 * n) = i
    BY ChainFacts DEF Chained
  <2> QED BY <2>1, HomeDoubled
<1>4. ASSUME NEW i \in Buckets(n)
      PROVE  /\ r[i] \in Seq(Pages) /\ Distinct(r[i])
             /\ ToSet(r[i]) = ToSet(t[n + i]) \cup ToSet(t[i])
             /\ \A p \in ToSet(r[i]) : Home(p, n) = i
  <2>1. /\ n + i \in Buckets(2 * n) /\ i \in Buckets(2 * n) /\ n + i # i
        /\ i < n /\ ~(n + i < n) /\ (n + i) - n = i
    BY <1>1
  <2>2. ToSet(t[n + i]) \cap ToSet(t[i]) = {}
    BY <1>3, <2>1
  <2>3. /\ t[n + i] \o t[i] \in Seq(Pages) /\ Distinct(t[n + i] \o t[i])
        /\ ToSet(t[n + i] \o t[i]) = ToSet(t[n + i]) \cup ToSet(t[i])
    BY <1>3, <2>1, <2>2, ConcatFacts
  <2>4. /\ \A p \in ToSet(t[i]) : Home(p, n) = i
        /\ \A p \in ToSet(t[n + i]) : Home(p, n) = i
    BY <1>3, <2>1
  <2> QED BY <1>2, <2>3, <2>4
<1>5. r \in [Buckets(n) -> Seq(Pages)]
  BY <1>2, <1>4
<1>6. Chained(r, n)
  BY <1>4, <1>5 DEF Chained
<1>7. \A p : p \in In(r) <=> \E i \in Buckets(n) : p \in ToSet(r[i])
  BY <1>6, InFacts
<1>8. \A p : p \in In(t) <=> \E i \in Buckets(2 * n) : p \in ToSet(t[i])
  BY InFacts
<1>9. ASSUME NEW p \in In(r) PROVE p \in In(t)
  <2>1. PICK i \in Buckets(n) : p \in ToSet(r[i])
    BY <1>7
  <2>2. p \in ToSet(t[n + i]) \/ p \in ToSet(t[i])
    BY <1>4, <2>1
  <2>3. i \in Buckets(2 * n) /\ n + i \in Buckets(2 * n)
    BY <1>1
  <2> QED BY <1>8, <2>2, <2>3
<1>10. ASSUME NEW p \in In(t) PROVE p \in In(r)
  <2>1. PICK i \in Buckets(2 * n) : p \in ToSet(t[i])
    BY <1>8
  <2>2. CASE i \in Buckets(n)
    BY <1>4, <1>7, <2>1, <2>2
  <2>3. CASE i - n \in Buckets(n) /\ n + (i - n) = i
    <3>1. p \in ToSet(t[n + (i - n)])
      BY <2>1, <2>3
    <3>2. p \in ToSet(r[i - n])
      BY <1>4, <2>3, <3>1
    <3> QED BY <1>7, <2>3, <3>2
  <2> QED BY <1>1, <2>2, <2>3
<1> QED BY <1>6, <1>9, <1>10 DEF r

----------------------------------------------------------------------------
(* How many buckets there are *)

\* n is Initial, doubled some number of times.
IsSize(n) == \A S \in SUBSET Nat :
                Initial \in S /\ (\A k \in S : 2 * k \in S) => n \in S

LEMMA SizeFacts ==
    /\ IsSize(Initial)
    /\ \A n : IsSize(n) => /\ n \in Nat \ {0} /\ n >= Initial /\ IsSize(2 * n)
                           /\ n = Initial \/ \E k \in Nat \ {0} : IsSize(k) /\ n = 2 * k
<1>1. IsSize(Initial)
  BY DEF IsSize
<1>2. ASSUME NEW n, IsSize(n) PROVE n \in Nat \ {0} /\ n >= Initial
  <2> DEFINE S == {k \in Nat : k >= Initial}
  <2>1. S \in SUBSET Nat /\ Initial \in S /\ \A k \in S : 2 * k \in S
    BY InitialAssumption
  <2>2. n \in S
    BY <1>2, <2>1 DEF IsSize
  <2> QED BY <2>2, InitialAssumption
<1>3. ASSUME NEW n, IsSize(n) PROVE IsSize(2 * n)
  <2> SUFFICES ASSUME NEW S \in SUBSET Nat, Initial \in S, \A k \in S : 2 * k \in S
               PROVE  2 * n \in S
    BY DEF IsSize
  <2>1. n \in S
    BY <1>3 DEF IsSize
  <2> QED BY <2>1
<1>4. ASSUME NEW n, IsSize(n), n # Initial
      PROVE  \E k \in Nat \ {0} : IsSize(k) /\ n = 2 * k
  <2> DEFINE S == {j \in Nat : /\ IsSize(j)
                               /\ j = Initial \/ \E k \in Nat \ {0} :
                                                    IsSize(k) /\ j = 2 * k}
  <2>1. S \in SUBSET Nat /\ Initial \in S
    BY <1>1, InitialAssumption
  <2>2. ASSUME NEW j \in S PROVE 2 * j \in S
    <3>1. IsSize(j) /\ j \in Nat \ {0}
      BY <1>2
    <3>2. 2 * j \in Nat /\ IsSize(2 * j)
      BY <1>3, <3>1
    <3> QED BY <3>1, <3>2
  <2>3. n \in S
    <3> HIDE DEF S
    <3> QED BY <1>4, <2>1, <2>2 DEF IsSize
  <2> QED BY <1>4, <2>3
<1> QED BY <1>1, <1>2, <1>3, <1>4


----------------------------------------------------------------------------
(* The invariant *)

TInv == /\ allocated = 0 \/ IsSize(allocated)
        /\ Chained(htable, allocated)
        /\ num_pages = Cardinality(InTable)
        /\ num_pages <= 2 * allocated

LEMMA TableFacts ==
    ASSUME TInv
    PROVE  /\ allocated \in Nat /\ num_pages \in Nat
           /\ InTable = In(htable) /\ InTable \subseteq Pages /\ IsFiniteSet(InTable)
<1>1. allocated \in Nat
  BY SizeFacts DEF TInv
<1>2. InTable = In(htable)
  BY DEF InTable, In
<1>3. InTable \subseteq Pages
  BY <1>2, InFacts DEF TInv
<1>4. IsFiniteSet(InTable)
  BY <1>3, PagesAssumption, FS_Subset
<1>5. num_pages \in Nat
  BY <1>4, FS_CardinalityType DEF TInv
<1> QED BY <1>1, <1>2, <1>3, <1>4, <1>5

LEMMA NoBucketsFacts == Chained(NoBuckets, 0) /\ In(NoBuckets) = {}
<1>1. Buckets(0) = {} /\ DOMAIN NoBuckets = {}
  BY DEF Buckets, NoBuckets
<1>2. NoBuckets \in [Buckets(0) -> Seq(Pages)]
  BY <1>1 DEF NoBuckets
<1> QED BY <1>1, <1>2 DEF Chained, In

LEMMA TInvInit == Init => TInv
<1> SUFFICES ASSUME Init PROVE TInv
  OBVIOUS
<1>1. Chained(htable, allocated) /\ InTable = {}
  BY NoBucketsFacts DEF Init, InTable, In
<1> QED BY <1>1, FS_EmptySet DEF Init, TInv

\* The pages left when those of P are deleted, and their number.
LEMMA Deleted ==
    ASSUME TInv, NEW P \in SUBSET InTable
    PROVE  LET left == ba_htable_delete(htable, allocated, P)
               n == num_pages - Cardinality(P)
           IN  /\ Chained(left, allocated) /\ In(left) = InTable \ P
               /\ n \in Nat /\ n = Cardinality(InTable \ P) /\ n <= 2 * allocated
<1>1. /\ Chained(ba_htable_delete(htable, allocated, P), allocated)
      /\ In(ba_htable_delete(htable, allocated, P)) = InTable \ P
  BY TableFacts, DeleteChained DEF TInv
<1>2. IsFiniteSet(P) /\ InTable \cap P = P
  BY TableFacts, FS_Subset
<1>3. /\ IsFiniteSet(InTable \ P)
      /\ Cardinality(InTable \ P) = Cardinality(InTable) - Cardinality(P)
  BY <1>2, TableFacts, FS_Difference
<1>4. Cardinality(P) \in Nat /\ Cardinality(InTable \ P) \in Nat
  BY <1>2, <1>3, FS_CardinalityType
<1> QED BY <1>1, <1>3, <1>4, TableFacts DEF TInv

LEMMA DeleteStep ==
    ASSUME TInv, NEW P \in SUBSET InTable, DeleteAndShrink(P)
    PROVE  TInv' /\ InTable' = InTable \ P
<1> DEFINE left == ba_htable_delete(htable, allocated, P)
           n == num_pages - Cardinality(P)
<1>1. /\ Chained(left, allocated) /\ In(left) = InTable \ P
      /\ n \in Nat /\ n = Cardinality(InTable \ P) /\ n <= 2 * allocated
  BY Deleted
<1>2. /\ num_pages' = n
      /\ IF allocated > Initial /\ n <= allocated \div 4
         THEN /\ allocated' = allocated \div 2
              /\ htable' = ba_htable_shrink(left, allocated)
         ELSE htable' = left /\ allocated' = allocated
  BY DEF DeleteAndShrink
<1> HIDE DEF left, n
<1>3. InTable' = In(htable')
  BY DEF InTable, In
<1>4. CASE ~(allocated > Initial /\ n <= allocated \div 4)
  BY <1>1, <1>2, <1>3, <1>4 DEF TInv
<1>5. CASE allocated > Initial /\ n <= allocated \div 4
  <2>1. PICK k \in Nat \ {0} : IsSize(k) /\ allocated = 2 * k
    <3>1. allocated # Initial /\ allocated # 0
      BY <1>5, InitialAssumption
    <3> QED BY <3>1, SizeFacts DEF TInv
  <2>2. allocated \div 2 = k /\ n <= 2 * k
    <3>1. (2 * k) \div 2 = k /\ (2 * k) \div 4 <= 2 * k
      OBVIOUS
    <3>2. (2 * k) \div 4 \in Int
      OBVIOUS
    <3> QED BY <1>1, <1>5, <2>1, <3>1, <3>2
  <2>3. htable' = ba_htable_shrink(left, 2 * k) /\ allocated' = k
    BY <1>2, <1>5, <2>1, <2>2
  <2>4. Chained(htable', k) /\ In(htable') = In(left)
    BY <1>1, <2>1, <2>3, ShrinkChained
  <2> QED BY <1>1, <1>2, <1>3, <2>1, <2>2, <2>3, <2>4 DEF TInv
<1> QED BY <1>4, <1>5

LEMMA InsertStep ==
    ASSUME TInv, NEW p \in Pages \ InTable, NEW now,
           now = IF num_pages >= 2 * allocated THEN Grown
                 ELSE [size |-> allocated, table |-> htable],
           num_pages' = num_pages + 1, allocated' = now.size,
           htable' = ba_htable_insert(now.table, now.size, p)
    PROVE  TInv' /\ InTable' = InTable \cup {p}
<1>1. /\ IsSize(now.size) /\ now.size \in Nat \ {0}
      /\ Chained(now.table, now.size) /\ In(now.table) = InTable
      /\ num_pages + 1 <= 2 * now.size
  <2>1. CASE ~(num_pages >= 2 * allocated)
    <3>1. now.size = allocated /\ now.table = htable
      BY <2>1
    <3>2. allocated # 0 /\ num_pages + 1 <= 2 * allocated
      BY <2>1, TableFacts
    <3> QED BY <3>1, <3>2, TableFacts, SizeFacts DEF TInv
  <2>2. CASE num_pages >= 2 * allocated /\ allocated = 0
    <3>1. now.size = Initial /\ now.table = EmptyTable(Initial)
      BY <2>2 DEF Grown
    <3>2. num_pages = 0
      BY <2>2, TableFacts DEF TInv
    <3>3. InTable = {}
      BY <3>2, TableFacts, FS_EmptySet DEF TInv
    <3> QED BY <3>1, <3>2, <3>3, EmptyChained, SizeFacts, InitialAssumption
  <2>3. CASE num_pages >= 2 * allocated /\ allocated # 0
    <3>1. now.size = 2 * allocated /\ now.table = ba_htable_grow(htable, allocated)
      BY <2>3 DEF Grown
    <3>2. /\ allocated \in Nat \ {0} /\ IsSize(2 * allocated)
          /\ num_pages + 1 <= 2 * (2 * allocated)
      BY <2>3, TableFacts, SizeFacts DEF TInv
    <3>3. Chained(now.table, 2 * allocated) /\ In(now.table) = InTable
      BY <3>1, <3>2, TableFacts, GrowChained DEF TInv
    <3> QED BY <3>1, <3>2, <3>3
  <2> QED BY <2>1, <2>2, <2>3
<1>2. Chained(htable', now.size) /\ In(htable') = InTable \cup {p}
  BY <1>1, InsertChained
<1>3. InTable' = In(htable')
  BY DEF InTable, In
<1>4. Cardinality(InTable \cup {p}) = num_pages + 1
  BY TableFacts, FS_AddElement DEF TInv
<1> QED BY <1>1, <1>2, <1>3, <1>4 DEF TInv

LEMMA SingleDeleted ==
    ASSUME TInv, ba_defragment
    PROVE  TInv' /\ \E p \in InTable : InTable' = InTable \ {p}
<1>1. PICK p \in InTable :
            /\ htable' = ba_htable_delete(htable, allocated, {p})
            /\ num_pages' = num_pages - 1
            /\ UNCHANGED allocated
  BY DEF ba_defragment
<1>2. {p} \in SUBSET InTable /\ Cardinality({p}) = 1
  BY FS_Singleton
<1>3. /\ Chained(htable', allocated) /\ In(htable') = InTable \ {p}
      /\ num_pages - 1 = Cardinality(InTable \ {p}) /\ num_pages - 1 <= 2 * allocated
  BY <1>1, <1>2, Deleted
<1>4. InTable' = In(htable')
  BY DEF InTable, In
<1> QED BY <1>1, <1>3, <1>4 DEF TInv

\* Every step inserts a page, deletes some, or changes nothing.
LEMMA TInvStep ==
    ASSUME TInv, [Next]_vars
    PROVE  /\ TInv'
           /\ \/ \E p \in Pages \ InTable : InTable' = InTable \cup {p}
              \/ \E P \in SUBSET InTable : InTable' = InTable \ P
<1>1. CASE ba_alloc_page
  <2>1. PICK p \in Pages \ InTable :
            LET now == IF num_pages >= 2 * allocated THEN Grown
                       ELSE [size |-> allocated, table |-> htable]
            IN  /\ num_pages' = num_pages + 1
                /\ allocated' = now.size
                /\ htable' = ba_htable_insert(now.table, now.size, p)
    BY <1>1 DEF ba_alloc_page
  <2> QED BY <2>1, InsertStep
<1>2. CASE ba_remove_page
  <2>1. PICK p \in InTable : DeleteAndShrink({p})
    BY <1>2 DEF ba_remove_page
  <2>2. {p} \in SUBSET InTable
    OBVIOUS
  <2> QED BY <2>1, <2>2, DeleteStep
<1>3. CASE ba_shrink
  <2>1. PICK P \in SUBSET InTable : DeleteAndShrink(P)
    BY <1>3 DEF ba_shrink
  <2> QED BY <2>1, DeleteStep
<1>4. CASE ba_defragment
  <2>1. TInv' /\ \E p \in InTable : InTable' = InTable \ {p}
    BY <1>4, SingleDeleted
  <2>2. \A p \in InTable : {p} \in SUBSET InTable
    OBVIOUS
  <2> QED BY <2>1, <2>2
<1>5. ASSUME ba_free_all \/ ba_destroy
      PROVE  TInv' /\ InTable' = {}
  <2>1. InTable' = In(htable')
    BY DEF InTable, In
  <2>2. num_pages' = 0 /\ (allocated' = 0 \/ allocated' = allocated)
    BY <1>5 DEF ba_free_all, ba_destroy
  <2>3. Chained(htable', allocated') /\ In(htable') = {}
    BY <1>5, EmptyChained, NoBucketsFacts DEF ba_free_all, ba_destroy
  <2>4. allocated' \in Nat /\ (allocated' = 0 \/ IsSize(allocated'))
    BY <2>2, TableFacts DEF TInv
  <2>5. InTable' = {} /\ num_pages' = Cardinality(InTable')
    BY <2>1, <2>2, <2>3, FS_EmptySet
  <2>6. num_pages' <= 2 * allocated'
    <3>1. \A k \in Nat : 0 <= 2 * k
      OBVIOUS
    <3> QED BY <2>2, <2>4, <3>1
  <2> QED BY <2>3, <2>4, <2>5, <2>6 DEF TInv
<1>6. CASE ba_free_all \/ ba_destroy
  <2>1. InTable \in SUBSET InTable /\ InTable \ InTable = {}
    OBVIOUS
  <2> QED BY <1>5, <1>6, <2>1
<1>7. CASE UNCHANGED vars
  <2>1. TInv' /\ InTable' = InTable
    BY <1>7 DEF vars, TInv, InTable, Chained
  <2>2. {} \in SUBSET InTable /\ InTable \ {} = InTable
    OBVIOUS
  <2> QED BY <2>1, <2>2
<1> QED BY <1>1, <1>2, <1>3, <1>4, <1>6, <1>7 DEF Next

----------------------------------------------------------------------------
(* What follows from it *)

\* ba_find_page finds each page in the table from any pointer into it.
LEMMA AllFound ==
    ASSUME TInv
    PROVE  \A p \in InTable : Found(p)
<1> SUFFICES ASSUME NEW p \in InTable, NEW key \in FirstKey[p] .. LastKey[p]
             PROVE  ba_htable_lookup(p, key)
  BY DEF Found
<1>1. p \in Pages
  BY TableFacts
<1>2. /\ FirstKey[p] \in Nat /\ LastKey[p] \in Nat
      /\ LastKey[p] - FirstKey[p] \in {0, 1}
  BY <1>1, KeyAssumption
<1>3. key = LastKey[p] \/ key + 1 = LastKey[p]
  BY <1>2
<1>4. p \in ToSet(htable[Home(p, allocated)])
  BY TableFacts, InBucket DEF TInv
<1> QED BY <1>3, <1>4 DEF ba_htable_lookup, hash1, hash2, Home

LEMMA AllOwned ==
    TInv => [p \in {q \in InTable : Found(q)} |-> p] = [p \in InTable |-> p]
<1> SUFFICES ASSUME TInv
             PROVE  {q \in InTable : Found(q)} = InTable
  OBVIOUS
<1> QED BY AllFound

LEMMA AllOwnedNext ==
    (TInv => [p \in {q \in InTable : Found(q)} |-> p] = [p \in InTable |-> p])'
BY AllOwned, PTL

\* The inductive invariant holds of every run.
THEOREM TableInvariance == Spec => []TInv
BY TInvInit, TInvStep, PTL DEF Spec

\* Through every growth and reduction of the table each page is in the bucket it
\* is looked up in, and chained there once.
THEOREM BucketsStayExact == Spec => []BucketsAreExact
<1>1. ASSUME TInv PROVE BucketsAreExact
  <2>1. TypeOK
    BY <1>1, TableFacts DEF TInv, TypeOK, Chained
  <2>2. ASSUME NEW n \in DOMAIN htable
        PROVE  /\ \A p \in ToSet(htable[n]) : Home(p, allocated) = n
               /\ Len(htable[n]) = Cardinality(ToSet(htable[n]))
    BY <1>1, DistinctLength DEF TInv, Chained
  <2> QED BY <2>1, <2>2 DEF BucketsAreExact
<1> QED BY <1>1, TableInvariance, PTL

\* The counter that decides when the table is resized is the number of pages in
\* it.
THEOREM PagesStayCounted == Spec => []PagesAreCounted
<1>1. TInv => PagesAreCounted
  BY DEF TInv, PagesAreCounted
<1> QED BY <1>1, TableInvariance, PTL

\* The table implements the set of pages that module PageSlots works with: ba_free
\* finds the page of every pointer, and of no other.
THEOREM TableIsPageSet == Spec => ImplementsPageSet
<1> DEFINE owned == [p \in {q \in InTable : Found(q)} |-> p]
<1>1. Init => Abstract!Init
  <2> SUFFICES ASSUME Init PROVE Abstract!Init
    OBVIOUS
  <2>1. InTable = {}
    BY NoBucketsFacts DEF Init, InTable, In
  <2>2. {q \in InTable : Found(q)} = {}
    BY <2>1
  <2> QED BY <2>1, <2>2 DEF Abstract!Init
<1>2. TInv /\ TInv' /\ [Next]_vars => [Abstract!Next]_vars
  <2> SUFFICES ASSUME TInv, TInv', [Next]_vars PROVE [Abstract!Next]_vars
    OBVIOUS
  <2>1. owned' = [p \in InTable' |-> p]
    BY AllOwnedNext
  <2> HIDE DEF owned
  <2>2. ASSUME NEW p \in Pages \ InTable, InTable' = InTable \cup {p}
        PROVE  Abstract!Next
    BY <2>1, <2>2 DEF Abstract!Next, Abstract!Insert, Abstract!Become, owned
  <2>3. ASSUME NEW P \in SUBSET InTable, InTable' = InTable \ P
        PROVE  Abstract!Next
    BY <2>1, <2>3 DEF Abstract!Next, Abstract!Delete, Abstract!Become, owned
  <2> QED BY <2>2, <2>3, TInvStep
<1>3. Init /\ [][Next]_vars /\ []TInv => Abstract!Init /\ [][Abstract!Next]_vars
  BY <1>1, <1>2, PTL
<1> QED BY <1>3, TableInvariance, PTL DEF Spec, ImplementsPageSet
=============================================================================
