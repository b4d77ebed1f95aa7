----------------------------- MODULE PageTable -----------------------------
(***************************************************************************)
(* The hash table in which ba_free finds the page of a block.  A page is   *)
(* filed once, under the hash of the address of its last block shifted     *)
(* right by a->magnitude.  A page is shorter than 2^magnitude bytes        *)
(* (module Layout), so an address in it has the key of the last block or   *)
(* the one before, and a lookup tries the buckets of the address's own key *)
(* and of the next.                                                        *)
(***************************************************************************)
EXTENDS Integers, FiniteSets, Sequences, SequencesExt

CONSTANTS Pages,      \* addresses malloc may return for a page
          FirstKey,   \* key of the first byte of each page
          LastKey,    \* key of its last block
          Mix,        \* the hash of each key, MIX
          Initial     \* BA_ALLOC_INITIAL, a power of 2

\* The keys a lookup may hash.
Keys == UNION {FirstKey[p] .. (LastKey[p] + 1) : p \in Pages}

ASSUME PagesAssumption == IsFiniteSet(Pages)
ASSUME KeyAssumption == /\ FirstKey \in [Pages -> Nat]
                        /\ LastKey \in [Pages -> Nat]
                        /\ \A p \in Pages : LastKey[p] - FirstKey[p] \in {0, 1}
ASSUME MixAssumption == Mix \in [Keys -> Nat]
ASSUME InitialAssumption == Initial \in Nat \ {0}

VARIABLES allocated,  \* number of buckets, 0 before ba_init
          htable,     \* the pages of each bucket, in the order of the chain
          num_pages

vars == <<allocated, htable, num_pages>>

Buckets(n) == 0 .. (n - 1)

TypeOK == /\ allocated \in Nat
          /\ htable \in [Buckets(allocated) -> Seq(Pages)]
          /\ num_pages \in Int

NoBuckets == [n \in {} |-> <<>>]

Init == /\ allocated = 0
        /\ htable = NoBuckets
        /\ num_pages = 0

----------------------------------------------------------------------------
(* The table as a value *)

hash1(key) == Mix[key]
hash2(key) == Mix[key + 1]

\* BA_HASH_MASK with n buckets.
Mask(h, n) == h % n

\* The bucket of a page among n.
Home(p, n) == Mask(hash1(LastKey[p]), n)

InTable == UNION {ToSet(htable[n]) : n \in DOMAIN htable}

EmptyTable(n) == [i \in Buckets(n) |-> <<>>]

\* The pages of the chain s that are in S, in their order.
Only(s, S) ==
    LET kept    == {i \in DOMAIN s : s[i] \in S}
        rank(i) == Cardinality({k \in kept : k <= i})
    IN  [j \in 1 .. Cardinality(kept) |-> s[CHOOSE i \in kept : rank(i) = j]]

\* The pages whose bucket among n is i.
HomedAt(i, n) == {p \in Pages : Home(p, n) = i}

\* Mutant of ba_htable_grow: pages stay in their bucket.
GrowWithoutMove(t, n) ==
    [i \in Buckets(2 * n) |-> IF i < n THEN t[i] ELSE <<>>]

\* Doubles the n buckets.  The page at each bucket's head that hashes elsewhere
\* now is pushed onto a bucket of the new half, in the order they are met.
ba_htable_grow(t, n) ==
    [i \in Buckets(2 * n) |->
        IF i < n THEN Only(t[i], HomedAt(i, 2 * n))
        ELSE Reverse(Only(t[i - n], Pages \ HomedAt(i - n, 2 * n)))]

\* Mutant of ba_htable_shrink: a chain of the upper half replaces the one of
\* the lower half.
ShrinkDropsChain(t, n) ==
    [i \in Buckets(n \div 2) |->
        IF t[n \div 2 + i] # <<>> THEN t[n \div 2 + i] ELSE t[i]]

\* Halves the n buckets: each chain of the upper half goes before the one of the
\* lower half.
ba_htable_shrink(t, n) ==
    [i \in Buckets(n \div 2) |-> t[n \div 2 + i] \o t[i]]

ba_htable_insert(t, n, p) == [t EXCEPT ![Home(p, n)] = <<p>> \o @]

\* A page that is not found is left alone.
ba_htable_delete(t, n, P) ==
    [i \in DOMAIN t |-> Only(t[i], Pages \ (P \cap HomedAt(i, n)))]

\* Mutant of ba_htable_lookup: only the bucket of the address's own key is read.
LookupOneKey(p, key) == p \in ToSet(htable[Mask(hash1(key), allocated)])

\* Whether a pointer into page p, with this key, is found: BA_CHECK_PTR holds
\* for no other page.
ba_htable_lookup(p, key) ==
    \E h \in {hash1(key), hash2(key)} : p \in ToSet(htable[Mask(h, allocated)])

----------------------------------------------------------------------------
(* The operations of an allocator on its table *)

\* The table ba_grow leaves: ba_init gives the first buckets.
Grown == IF allocated = 0
         THEN [size |-> Initial, table |-> EmptyTable(Initial)]
         ELSE [size |-> 2 * allocated, table |-> ba_htable_grow(htable, allocated)]

ba_alloc_page ==
    \E p \in Pages \ InTable :
        LET now == IF num_pages >= 2 * allocated THEN Grown
                   ELSE [size |-> allocated, table |-> htable]
        IN  /\ num_pages' = num_pages + 1
            /\ allocated' = now.size
            /\ htable' = ba_htable_insert(now.table, now.size, p)

\* Deletes P, and halves the table once if num_pages' then calls for it.
DeleteAndShrink(P) ==
    LET left == ba_htable_delete(htable, allocated, P)
    IN  /\ num_pages' = num_pages - Cardinality(P)
        /\ IF allocated > Initial /\ num_pages' <= allocated \div 4
           THEN /\ allocated' = allocated \div 2
                /\ htable' = ba_htable_shrink(left, allocated)
           ELSE /\ htable' = left
                /\ UNCHANGED allocated

ba_remove_page == \E p \in InTable : DeleteAndShrink({p})

\* ba_shrink releases all empty pages.
ba_shrink == \E P \in (SUBSET InTable) \ {{}} : DeleteAndShrink(P)

\* The page ba_defragment has merged into another: the table keeps its size.
ba_defragment ==
    \E p \in InTable :
        /\ htable' = ba_htable_delete(htable, allocated, {p})
        /\ num_pages' = num_pages - 1
        /\ UNCHANGED allocated

ba_free_all ==
    /\ allocated # 0
    /\ htable' = EmptyTable(allocated)
    /\ num_pages' = 0
    /\ UNCHANGED allocated

ba_destroy ==
    /\ allocated # 0
    /\ allocated' = 0
    /\ htable' = NoBuckets
    /\ num_pages' = 0

Next == \/ ba_alloc_page
        \/ ba_remove_page
        \/ ba_shrink
        \/ ba_defragment
        \/ ba_free_all
        \/ ba_destroy

Spec == Init /\ [][Next]_vars

----------------------------------------------------------------------------
(* Properties *)

\* ba_check_allocator (gjalloc.c:629-635): no page is found in a bucket that is
\* not its own, through every growth and reduction of the table; and no page is
\* chained twice, which would make a loop of its bucket.  The state is well typed:
\* there are `allocated' buckets.
BucketsAreExact ==
    /\ TypeOK
    /\ \A n \in DOMAIN htable :
        /\ \A p \in ToSet(htable[n]) : Home(p, allocated) = n
        /\ Len(htable[n]) = Cardinality(ToSet(htable[n]))

\* The counter that decides when the table grows and shrinks is the number of
\* pages in it, at most two per bucket after the table had to hold them all.
PagesAreCounted == /\ num_pages = Cardinality(InTable)
                   /\ num_pages <= 2 * allocated

\* The table implements the set of pages PageSlots works with: ba_find_page
\* finds the page of every pointer into a page, whichever half of the page it
\* points to and however often the table was resized.
Found(p) == \A key \in FirstKey[p] .. LastKey[p] : ba_htable_lookup(p, key)

Abstract == INSTANCE PageSet
                WITH pages <- InTable,
                     owner <- [p \in {q \in InTable : Found(q)} |-> p]

ImplementsPageSet == Abstract!Init /\ [][Abstract!Next]_vars
=============================================================================
