--------------------------- MODULE FreeListProofs ---------------------------
(***************************************************************************)
(* The properties of module FreeList for pages of any number of blocks,    *)
(* and the refinement of PagePool: the list of a page, with its lazily     *)
(* linked tail, stands for a set of blocks.                                *)
(***************************************************************************)
EXTENDS FreeList, BlockListProofs

----------------------------------------------------------------------------
(* The inductive invariant *)

\* Until a list is spoiled, the working header and the page's own header both
\* stand for sound lists as far as they are in use, and frees have put a block
\* into the list of a->hf.
Healthy ==
    /\ ~failed
    /\ Sound(B, link, Current, live)
    /\ role # "alloc" => Sound(B, link, header, live)
    /\ role = "last_free" => h.first \in Blocks(B)

IInv == TypeOK /\ (~spoiled => Healthy)

LEMMA FullIsSound ==
    ASSUME NEW w, NEW L
    PROVE  Sound(B, w, FullHeader, L) /\ FreeSet(B, w, NULL) = {}
<1>1. Chain(B, w, NULL) = {}
  BY BAssumption, NoChain, WordFacts
<1>2. FreeSet(B, w, NULL) = {}
  BY <1>1 DEF FreeSet
<1>3. Cardinality(FreeSet(B, w, NULL)) = 0
  BY <1>2, FS_EmptySet
<1>4. /\ FullHeader.first = NULL /\ FullHeader.used = B /\ B \in Nat
      /\ B - 1 \notin Chain(B, w, NULL)
  BY BAssumption, <1>1, WordFacts DEF FullHeader
<1> QED BY <1>1, <1>2, <1>3, <1>4
        DEF Sound, WellLinked, EndsWell, Increasing

LEMMA FreshTypes == /\ FreshLinks(B) \in Links(B)
                    /\ FreshHeader \in Header(B) /\ FullHeader \in Header(B)
BY BAssumption, WordFacts DEF FreshLinks, FreshHeader, FullHeader, Links, Word, Header

LEMMA SlotTypes ==
    ASSUME link \in Links(B), header \in Header(B), NEW hd \in Header(B)
    PROVE  SlotLinks(hd) \in Links(B) /\ SlotHeader(hd) \in Header(B)
BY BAssumption, WordFacts DEF SlotLinks, SlotHeader, Links, Word, Header

LEMMA WrittenTypes ==
    ASSUME TypeOK
    PROVE  /\ Written.link \in Links(B) /\ Written.header \in Header(B)
           /\ Visited(Written).link \in Links(B) /\ Visited(Written).header \in Header(B)
<1>1. Written.link \in Links(B) /\ Written.header \in Header(B)
  BY SlotTypes DEF Written, TypeOK, Links, Roles
<1> DEFINE w == Written
<1> HIDE DEF w
<1>2. w.link \in Links(B) /\ w.header \in Header(B)
  BY <1>1 DEF w
<1>3. Visited(w).link \in Links(B) /\ Visited(w).header \in Header(B)
  BY BAssumption, <1>2, SortTypes DEF Visited
<1> QED BY <1>1, <1>3 DEF w

LEMMA TypeInit == Init => TypeOK
BY FreshTypes DEF Init, TypeOK, Links, Roles

LEMMA TypeNext == TypeOK /\ [Next]_vars => TypeOK'
<1> SUFFICES ASSUME TypeOK, [Next]_vars PROVE TypeOK'
  OBVIOUS
<1>1. CASE ba_shift
  <2> DEFINE r == Shifted(B, link, h)
  <2>1. /\ link' = r.link /\ h' = r.h /\ failed' = r.failed
        /\ live' = IF h.first = B THEN live ELSE live \cup {h.first}
        /\ h.first \in Blocks(B) \cup {B}
        /\ role' = role /\ header' = header /\ spoiled' = spoiled
    BY <1>1 DEF ba_shift, TypeOK, Header
  <2>2. r.link \in Links(B) /\ r.h \in Header(B) /\ r.failed \in BOOLEAN
    <3>1. CASE h.first = B
      BY <3>1 DEF Shifted, TypeOK, Links
    <3>2. CASE h.first \in Blocks(B) /\ link[h.first] = ONE
      <4>1. h.first + 1 \in Blocks(B) \cup {B} /\ h.first # B /\ h.used + 1 \in Int
        BY BAssumption, <3>2, WordFacts DEF Blocks, TypeOK, Header
      <4>2. /\ r.link \in Links(B)
            /\ r.h = [first |-> h.first + 1, used |-> h.used + 1, sorted |-> TRUE]
            /\ r.failed \in BOOLEAN
        BY <3>2, <4>1 DEF Shifted, TypeOK, Links, Word
      <4> QED BY <4>1, <4>2 DEF Header
    <3>3. CASE h.first \in Blocks(B) /\ link[h.first] # ONE
      <4>1. /\ h.first # B /\ h.used + 1 \in Int
            /\ link[h.first] \in Blocks(B) \cup {NULL, DATA}
        BY BAssumption, <3>3, WordFacts DEF TypeOK, Header, Word
      <4>2. /\ r.link = [link EXCEPT ![h.first] = DATA]
            /\ r.h = [h EXCEPT !.first = IF link[h.first] = DATA THEN B
                                         ELSE link[h.first],
                               !.used = @ + 1]
            /\ r.failed \in BOOLEAN
        BY <3>3, <4>1 DEF Shifted
      <4>3. r.link \in Links(B)
        BY <4>2 DEF TypeOK, Links, Word
      <4>4. r.h \in Header(B)
        BY <4>1, <4>2 DEF TypeOK, Header
      <4> QED BY <4>2, <4>3, <4>4
    <3> QED BY <2>1, <3>1, <3>2, <3>3
  <2> HIDE DEF r
  <2>3. live' \in SUBSET Blocks(B)
    BY <2>1 DEF TypeOK
  <2> QED BY <2>1, <2>2, <2>3 DEF TypeOK, Links
<1>2. CASE ba_free
  <2> DEFINE hd == IF role = "filed" THEN header ELSE h
  <2>1. PICK b \in live : /\ hd.first # B
                          /\ h' = Unshifted(hd, b)
                          /\ link' = [link EXCEPT ![b] = hd.first]
                          /\ live' = live \ {b}
    BY <1>2 DEF ba_free
  <2>2. hd \in Header(B) /\ b \in Blocks(B)
    BY DEF TypeOK
  <2> HIDE DEF hd
  <2>3. h' \in Header(B)
    BY <2>1, <2>2 DEF Unshifted, Header
  <2>4. link' \in Links(B)
    BY <2>1, <2>2 DEF TypeOK, Links, Word, Header
  <2>5. role' \in Roles /\ header' = header /\ spoiled' = spoiled /\ failed' = failed
    BY <1>2 DEF ba_free, TypeOK, Roles
  <2> QED BY <2>1, <2>3, <2>4, <2>5 DEF TypeOK, Links
<1>3. CASE LeaveAlloc
  BY <1>3, FreshTypes DEF LeaveAlloc, TypeOK, Roles
<1>4. CASE FileAway
  BY <1>4, SlotTypes DEF FileAway, TypeOK, Roles, Links
<1>5. CASE TakeToAlloc
  BY <1>5, SlotTypes DEF TakeToAlloc, TypeOK, Roles, Links
<1>6. CASE Renew
  BY <1>6, FreshTypes DEF Renew, TypeOK, Roles, Links
<1>7. CASE ba_walk
  <2> DEFINE w == Written
             v == Visited(w)
  <2>1. /\ w.link \in Links(B) /\ w.header \in Header(B)
        /\ v.link \in Links(B) /\ v.header \in Header(B)
    BY WrittenTypes
  <2>2. PICK visited \in BOOLEAN, completed \in BOOLEAN :
        LET u == IF visited THEN v ELSE w
        IN  IF u # w /\ ~EndsWell(B, w.link, w.header.first)
            THEN failed' = TRUE /\ UNCHANGED <<link, header, role, h, spoiled>>
            ELSE /\ header' = u.header
                 /\ link' = u.link
                 /\ role' = IF role = "last_free" THEN "filed" ELSE role
                 /\ h' = IF role = "alloc" /\ completed THEN u.header ELSE h
                 /\ spoiled' = (spoiled \/ Spoils(w, u, completed))
                 /\ UNCHANGED failed
    BY <1>7 DEF ba_walk
  <2>3. live' = live
    BY <1>7 DEF ba_walk
  <2> DEFINE u == IF visited THEN v ELSE w
  <2> HIDE DEF w, v
  <2>4. u.link \in Links(B) /\ u.header \in Header(B)
    BY <2>1
  <2> HIDE DEF u
  <2>5. Spoils(w, u, completed) \in BOOLEAN
    BY DEF Spoils
  <2>6. CASE failed' = TRUE /\ UNCHANGED <<link, header, role, h, spoiled>>
    BY <2>3, <2>6 DEF TypeOK
  <2>7. CASE /\ header' = u.header
             /\ link' = u.link
             /\ role' = IF role = "last_free" THEN "filed" ELSE role
             /\ h' = IF role = "alloc" /\ completed THEN u.header ELSE h
             /\ spoiled' = (spoiled \/ Spoils(w, u, completed))
             /\ UNCHANGED failed
    <3>1. spoiled' \in BOOLEAN
      BY <2>5, <2>7 DEF TypeOK
    <3>2. role' \in Roles /\ h' \in Header(B) /\ failed' \in BOOLEAN
      BY <2>4, <2>7 DEF TypeOK, Roles
    <3> QED BY <2>3, <2>4, <2>7, <3>1, <3>2 DEF TypeOK, Links
  <2> QED BY <2>2, <2>6, <2>7 DEF u
<1>8. CASE UNCHANGED vars
  BY <1>8 DEF vars, TypeOK
<1> QED BY <1>1, <1>2, <1>3, <1>4, <1>5, <1>6, <1>7, <1>8 DEF Next

LEMMA SlotFacts ==
    ASSUME TypeOK, Healthy, role = "last_free"
    PROVE  /\ Sound(B, SlotLinks(h), SlotHeader(h), live)
           /\ FreeSet(B, SlotLinks(h), SlotHeader(h).first)
                \in {FreeSet(B, link, h.first), FreeSet(B, link, header.first)}
           /\ header.first # NULL =>
                FreeSet(B, SlotLinks(h), SlotHeader(h).first) # {}
<1>1. /\ Sound(B, link, h, live) /\ Sound(B, link, header, live) /\ h.first \in Blocks(B)
      /\ header.first = NULL \/ (header.first \in FreeSet(B, link, header.first))
      /\ h.first \in FreeSet(B, link, h.first)
      /\ h \in Header(B) /\ link \in [Blocks(B) -> Word(B)] /\ live \in SUBSET Blocks(B)
  BY BAssumption, FirstFacts, ChainFacts, FreeFacts DEF Healthy, Current, TypeOK, Sound, WellLinked
<1>2. CASE Slot(header) = Slot(h)
  BY <1>1, <1>2 DEF SlotLinks, SlotHeader
<1>3. CASE Slot(header) # Slot(h) /\ h.used = 0
  <2>1. FreeSet(B, link, h.first) = Blocks(B) /\ live = {}
    BY BAssumption, <1>1, <1>3, UnusedIsAllFree
  <2> DEFINE v == SlotLinks(h)
             u == SlotHeader(h)
  <2>2. v[0] = ONE /\ u.first = 0 /\ u.used = 0
    BY BAssumption, <1>1, <1>3, WordFacts DEF SlotLinks, SlotHeader, Header
  <2> HIDE DEF v, u
  <2>3. Sound(B, v, u, {}) /\ FreeSet(B, v, u.first) = Blocks(B)
    BY BAssumption, <2>2, LazyIsSound
  <2> QED BY BAssumption, <2>1, <2>3, WordFacts DEF v, u
<1>4. CASE Slot(header) # Slot(h) /\ h.used # 0
  BY <1>1, <1>4 DEF SlotLinks, SlotHeader
<1> QED BY <1>2, <1>3, <1>4

LEMMA WrittenFacts ==
    ASSUME TypeOK, Healthy
    PROVE  /\ Sound(B, Written.link, Written.header, live)
           /\ role # "last_free" => Written.header = Current /\ Written.link = link
           /\ role = "last_free" =>
                FreeSet(B, Written.link, Written.header.first)
                    \in {FreeSet(B, link, h.first), FreeSet(B, link, header.first)}
<1>1. CASE role = "last_free"
  BY <1>1, SlotFacts DEF Written
<1>2. CASE role # "last_free"
  BY <1>2 DEF Written, TypeOK, Roles, Healthy, Current
<1> QED BY <1>1, <1>2


----------------------------------------------------------------------------
(* What each action does to the lists, and to the pool they stand for *)

LEMMA ShiftStep ==
    ASSUME TypeOK, Healthy, ba_shift
    PROVE  Healthy' /\ Pool!Alloc
<1> DEFINE b == h.first
           r == Shifted(B, link, h)
<1>1. /\ role = "alloc" /\ b # NULL /\ ~failed /\ Sound(B, link, h, live)
      /\ link \in Links(B) /\ h \in Header(B) /\ live \in SUBSET Blocks(B)
  BY DEF ba_shift, Healthy, Current, TypeOK, Links
<1>2. /\ b \in FreeSet(B, link, b) /\ b \in Blocks(B)
      /\ r.failed = FALSE
      /\ FreeSet(B, r.link, r.h.first) = FreeSet(B, link, b) \ {b}
      /\ Sound(B, r.link, r.h, live \cup {b})
  BY BAssumption, <1>1, ShiftFacts
<1>3. /\ link' = r.link /\ h' = r.h /\ failed' = r.failed /\ live' = live \cup {b}
      /\ role' = role /\ header' = header
  BY BAssumption, <1>2, WordFacts DEF ba_shift
<1> HIDE DEF r
<1>4. Healthy'
  BY <1>1, <1>2, <1>3 DEF Healthy, Current
<1>5. Pool!Alloc
  BY <1>1, <1>2, <1>3 DEF Pool!Alloc
<1> QED BY <1>4, <1>5

LEMMA FreeStep ==
    ASSUME TypeOK, Healthy, ba_free
    PROVE  Healthy' /\ Pool!Free
<1> DEFINE hd == IF role = "filed" THEN header ELSE h
<1>1. PICK b \in live : /\ hd.first # B
                        /\ h' = Unshifted(hd, b)
                        /\ link' = [link EXCEPT ![b] = hd.first]
                        /\ live' = live \ {b}
  BY DEF ba_free
<1>2. /\ role' = IF role = "filed" THEN "last_free" ELSE role
      /\ header' = header /\ failed' = failed /\ ~failed /\ role \in Roles
  BY DEF ba_free, TypeOK
<1>3. /\ Sound(B, link, hd, live)
      /\ role # "alloc" => Sound(B, link, header, live)
      /\ hd \in Header(B) /\ link \in Links(B) /\ live \in SUBSET Blocks(B) /\ b \in Blocks(B)
  BY DEF Healthy, Current, TypeOK, Links
<1> DEFINE v == [link EXCEPT ![b] = hd.first]
           u == Unshifted(hd, b)
<1>4. /\ FreeSet(B, v, u.first) = FreeSet(B, link, hd.first) \cup {b}
      /\ Sound(B, v, u, live \ {b})
      /\ u.first = b
  BY BAssumption, <1>3, UnshiftFacts DEF Unshifted
<1>5. role # "alloc" => /\ Sound(B, v, header, live \ {b})
                        /\ FreeSet(B, v, header.first) = FreeSet(B, link, header.first)
  <2> SUFFICES ASSUME role # "alloc"
               PROVE  /\ Sound(B, v, header, live \ {b})
                      /\ FreeSet(B, v, header.first) = FreeSet(B, link, header.first)
    OBVIOUS
  <2>1. \A c \in Chain(B, link, header.first) : c # b /\ c \in Blocks(B)
    BY BAssumption, <1>3, FreeFacts DEF Sound
  <2>2. \A c \in Chain(B, link, header.first) : v[c] = link[c]
    BY <1>3, <2>1 DEF Links
  <2> HIDE DEF v, hd
  <2> QED BY BAssumption, <1>3, <2>2, Untouched
<1>6. h' = u /\ link' = v /\ live' = live \ {b}
  BY <1>1
<1> HIDE DEF u, v, hd
<1>7. Healthy'
  <2>1. Current' = h'
    BY <1>2 DEF Current, Roles
  <2> QED BY <1>2, <1>3, <1>4, <1>5, <1>6, <2>1 DEF Healthy
<1>8. Pool!Free
  <2>1. CASE role = "filed"
    <3>1. hd = header /\ role' = "last_free"
      BY <1>2, <2>1 DEF hd
    <3> QED BY <1>2, <1>4, <1>5, <1>6, <2>1, <3>1 DEF Pool!Free
  <2>2. CASE role # "filed"
    <3>1. hd = h /\ role' = role
      BY <1>2, <2>2 DEF hd
    <3> QED BY <1>2, <1>4, <1>5, <1>6, <2>2, <3>1 DEF Pool!Free
  <2> QED BY <2>1, <2>2
<1> QED BY <1>7, <1>8

LEMMA LeaveStep ==
    ASSUME TypeOK, Healthy, LeaveAlloc
    PROVE  Healthy' /\ Pool!Exhaust
<1>1. /\ role = "alloc" /\ role' = "filed" /\ header' = FullHeader /\ h.first = NULL
      /\ ~failed /\ UNCHANGED <<link, h, live, failed>>
  BY DEF LeaveAlloc
<1>2. /\ Sound(B, link, FullHeader, live) /\ FreeSet(B, link, NULL) = {}
      /\ FullHeader.first = NULL
  BY FullIsSound DEF FullHeader
<1> QED BY <1>1, <1>2 DEF Healthy, Current, Pool!Exhaust

LEMMA FileStep ==
    ASSUME TypeOK, Healthy, FileAway
    PROVE  Healthy' /\ Pool!FileAway
<1> DEFINE u == SlotHeader(h)
           v == SlotLinks(h)
<1>1. /\ role = "last_free" /\ role' = "filed" /\ header' = u /\ link' = v
      /\ ~failed /\ UNCHANGED <<h, live, failed>>
  BY DEF FileAway
<1>2. /\ Sound(B, v, u, live)
      /\ FreeSet(B, v, u.first) \in {FreeSet(B, link, h.first), FreeSet(B, link, header.first)}
  BY <1>1, SlotFacts
<1> HIDE DEF u, v
<1>3. Healthy'
  BY <1>1, <1>2 DEF Healthy, Current
<1>4. Pool!FileAway
  BY <1>1, <1>2 DEF Pool!FileAway, Pool!Flushed
<1> QED BY <1>3, <1>4

LEMMA TakeStep ==
    ASSUME TypeOK, Healthy, TakeToAlloc
    PROVE  Healthy' /\ Pool!Take
<1>1. /\ role \in {"filed", "last_free"} /\ role' = "alloc" /\ h' = header'
      /\ ~failed /\ header.first # NULL /\ UNCHANGED <<live, failed>>
  BY DEF TakeToAlloc, TypeOK, Roles
<1>2. CASE role = "last_free"
  <2> DEFINE u == SlotHeader(h)
             v == SlotLinks(h)
  <2>1. header' = u /\ link' = v
    BY <1>2 DEF TakeToAlloc
  <2>2. /\ Sound(B, v, u, live)
        /\ FreeSet(B, v, u.first) \in {FreeSet(B, link, h.first), FreeSet(B, link, header.first)}
        /\ FreeSet(B, v, u.first) # {}
    BY <1>1, <1>2, SlotFacts
  <2> HIDE DEF u, v
  <2>3. Healthy'
    BY <1>1, <2>1, <2>2 DEF Healthy, Current
  <2>4. Pool!Take
    BY <1>1, <1>2, <2>1, <2>2 DEF Pool!Take, Pool!Flushed
  <2> QED BY <2>3, <2>4
<1>3. CASE role = "filed"
  <2>1. header' = header /\ link' = link
    BY <1>3 DEF TakeToAlloc
  <2>2. Sound(B, link, header, live) /\ FreeSet(B, link, header.first) # {}
    BY BAssumption, <1>1, <1>3, FirstFacts, FreeFacts DEF Healthy, Current, Sound, WellLinked
  <2>3. Healthy'
    BY <1>1, <2>1, <2>2 DEF Healthy, Current
  <2>4. Pool!Take
    BY <1>1, <1>3, <2>1, <2>2 DEF Pool!Take
  <2> QED BY <2>3, <2>4
<1> QED BY <1>1, <1>2, <1>3

LEMMA FreshIsSound ==
    /\ Sound(B, FreshLinks(B), FreshHeader, {})
    /\ FreeSet(B, FreshLinks(B), FreshHeader.first) = Blocks(B)
<1>1. FreshLinks(B)[0] = ONE /\ FreshHeader.first = 0 /\ FreshHeader.used = 0
  BY BAssumption, WordFacts DEF FreshLinks, FreshHeader
<1> QED BY BAssumption, <1>1, LazyIsSound

LEMMA RenewStep ==
    ASSUME TypeOK, Healthy, Renew
    PROVE  Healthy' /\ Pool!Renew
<1>1. /\ role = "filed" /\ role' = "alloc" /\ header.used = 0
      /\ link' = FreshLinks(B) /\ header' = FreshHeader /\ h' = FreshHeader
      /\ ~failed /\ UNCHANGED <<live, failed>>
  BY DEF Renew
<1>2. FreeSet(B, link, header.first) = Blocks(B) /\ live = {}
  BY BAssumption, <1>1, UnusedIsAllFree DEF Healthy, Current, TypeOK
<1>3. Healthy'
  BY <1>1, <1>2, FreshIsSound DEF Healthy, Current
<1>4. Pool!Renew
  BY <1>1, <1>2, FreshIsSound DEF Pool!Renew
<1> QED BY <1>3, <1>4

LEMMA VisitFacts ==
    ASSUME NEW w, w.link \in Links(B), w.header \in Header(B), NEW L,
           Sound(B, w.link, w.header, L)
    PROVE  LET v == Visited(w)
           IN  /\ FreeSet(B, v.link, v.header.first) = FreeSet(B, w.link, w.header.first)
               /\ v.link[B - 1] # ONE => Sound(B, v.link, v.header, L)
               /\ w.header.used # 0 => /\ WellLinked(B, v.link, v.header)
                                       /\ Increasing(B, v.link, v.header.first)
<1>1. CASE w.header.used = 0
  BY <1>1 DEF Visited
<1>2. CASE w.header.used # 0
  <2> DEFINE v == Visited(w)
  <2>1. v = Sorted(B, w.link, w.header)
    BY <1>2 DEF Visited
  <2>2. /\ FreeSet(B, v.link, v.header.first) = FreeSet(B, w.link, w.header.first)
        /\ Increasing(B, v.link, v.header.first)
        /\ WellLinked(B, v.link, v.header)
        /\ v.header.used = w.header.used
    BY BAssumption, <2>1, SortFacts DEF Sound
  <2> HIDE DEF v
  <2>3. v.link[B - 1] # ONE => Sound(B, v.link, v.header, L)
    BY <2>2 DEF Sound
  <2> QED BY <2>2, <2>3 DEF v
<1> QED BY <1>1, <1>2

LEMMA WalkStep ==
    ASSUME TypeOK, Healthy, ~spoiled, ba_walk, ~spoiled'
    PROVE  Healthy' /\ (Pool!FileAway \/ UNCHANGED Pool!vars)
<1> DEFINE w == Written
           v == Visited(w)
<1>1. /\ w.link \in Links(B) /\ w.header \in Header(B) /\ Sound(B, w.link, w.header, live)
      /\ role # "last_free" => w.header = Current /\ w.link = link
      /\ role = "last_free" =>
            FreeSet(B, w.link, w.header.first)
                \in {FreeSet(B, link, h.first), FreeSet(B, link, header.first)}
  BY WrittenTypes, WrittenFacts
<1> HIDE DEF w
<1>2. PICK visited \in BOOLEAN, completed \in BOOLEAN :
        LET u == IF visited THEN v ELSE w
        IN  IF u # w /\ ~EndsWell(B, w.link, w.header.first)
            THEN failed' = TRUE /\ UNCHANGED <<link, header, role, h, spoiled>>
            ELSE /\ header' = u.header
                 /\ link' = u.link
                 /\ role' = IF role = "last_free" THEN "filed" ELSE role
                 /\ h' = IF role = "alloc" /\ completed THEN u.header ELSE h
                 /\ spoiled' = (spoiled \/ Spoils(w, u, completed))
                 /\ UNCHANGED failed
  BY DEF ba_walk, w
<1>3. live' = live /\ ~failed /\ role \in Roles
  BY DEF ba_walk, TypeOK
<1> DEFINE u == IF visited THEN v ELSE w
<1>4. /\ header' = u.header
      /\ link' = u.link
      /\ role' = IF role = "last_free" THEN "filed" ELSE role
      /\ h' = IF role = "alloc" /\ completed THEN u.header ELSE h
      /\ ~Spoils(w, u, completed)
      /\ failed' = failed
  BY <1>1, <1>2 DEF Sound, WellLinked
<1>5. /\ FreeSet(B, u.link, u.header.first) = FreeSet(B, w.link, w.header.first)
      /\ u = w \/ u.link[B - 1] # ONE => Sound(B, u.link, u.header, live)
  BY <1>1, VisitFacts
<1> HIDE DEF u
<1>6. /\ Sound(B, u.link, u.header, live)
      /\ u = w \/ role # "alloc" \/ completed
  BY <1>4, <1>5 DEF Spoils
<1>7. role = "alloc" => h' = u.header
  BY <1>1, <1>4, <1>6 DEF Current
<1>8. Healthy'
  <2>1. Current' = u.header /\ role' # "last_free"
    BY <1>3, <1>4, <1>7 DEF Current, Roles
  <2> QED BY <1>3, <1>4, <1>6, <2>1 DEF Healthy
<1>9. Pool!FileAway \/ UNCHANGED Pool!vars
  <2>1. CASE role = "last_free"
    <3>1. role' = "filed" /\ header' = u.header /\ link' = u.link
      BY <1>4, <2>1
    <3>2. Pool!FileAway
      BY <1>1, <1>3, <1>5, <2>1, <3>1 DEF Pool!FileAway, Pool!Flushed
    <3> QED BY <3>2
  <2>2. CASE role = "filed"
    <3>1. /\ role' = "filed"
          /\ FreeSet(B, link', header'.first) = FreeSet(B, link, header.first)
      BY <1>1, <1>4, <1>5, <2>2 DEF Current
    <3> QED BY <1>3, <2>2, <3>1 DEF Pool!vars
  <2>3. CASE role = "alloc"
    <3>1. /\ role' = "alloc"
          /\ FreeSet(B, link', h'.first) = FreeSet(B, link, h.first)
      BY <1>1, <1>4, <1>5, <1>7, <2>3 DEF Current
    <3> QED BY <1>3, <2>3, <3>1 DEF Pool!vars
  <2> QED BY <1>3, <2>1, <2>2, <2>3 DEF Roles
<1> QED BY <1>8, <1>9


----------------------------------------------------------------------------
(* The theorems *)

LEMMA StepFacts ==
    ASSUME IInv, [Next]_vars
    PROVE  /\ ~spoiled' => ~spoiled
           /\ ~spoiled' => Healthy' /\ (Pool!Next \/ UNCHANGED Pool!vars)
<1>1. /\ TypeOK
      /\ ~spoiled => Healthy
  BY DEF IInv
<1>2. CASE UNCHANGED vars
  BY <1>1, <1>2 DEF vars, Healthy, Current, Sound, WellLinked, Pool!vars
<1>3. CASE ba_walk
  <2>1. ~spoiled' => ~spoiled
    BY <1>3 DEF ba_walk
  <2> QED BY <1>1, <1>3, <2>1, WalkStep DEF Pool!Next
<1>4. CASE ba_shift \/ ba_free \/ LeaveAlloc \/ FileAway \/ TakeToAlloc \/ Renew
  <2>1. spoiled' = spoiled
    BY <1>4 DEF ba_shift, ba_free, LeaveAlloc, FileAway, TakeToAlloc, Renew
  <2> QED BY <1>1, <1>4, <2>1, ShiftStep, FreeStep, LeaveStep, FileStep, TakeStep, RenewStep
          DEF Pool!Next
<1> QED BY <1>2, <1>3, <1>4 DEF Next

LEMMA Inductive ==
    /\ Init => IInv
    /\ IInv /\ [Next]_vars => IInv'
<1>1. Init => IInv
  <2> SUFFICES ASSUME Init PROVE IInv
    OBVIOUS
  <2>1. /\ role = "alloc" /\ ~failed /\ live = {} /\ link = FreshLinks(B)
        /\ h = FreshHeader
    BY DEF Init
  <2>2. Healthy
    BY <2>1, FreshIsSound DEF Healthy, Current
  <2> QED BY <2>2, TypeInit DEF IInv
<1>2. IInv /\ [Next]_vars => IInv'
  BY TypeNext, StepFacts DEF IInv
<1> QED BY <1>1, <1>2

\* In every state the program can reach, until a walk spoils a list: both
\* headers in use stand for lists ba_shift, ba_unshift and ba_sort_list can
\* follow, of the blocks `used' does not count.
THEOREM Invariance == Spec => []IInv
BY Inductive, PTL DEF Spec

\* The lists a page's headers start stay sound through allocation, release,
\* changes of the page's role and sorting walks.
THEOREM ListsStaySound == Spec => []ListsAreSound
<1>1. IInv => ListsAreSound
  BY DEF IInv, Healthy, ListsAreSound, Sound, WellLinked
<1> QED BY <1>1, Invariance, PTL

\* ba_walk shows exactly the blocks that are not free, and every block the
\* client owns is among them.
THEOREM WalksShowUsedBlocks == Spec => []WalkShowsUsedBlocks
<1>1. IInv => WalkShowsUsedBlocks
  <2> DEFINE w == Written
             v == Visited(w)
  <2> SUFFICES ASSUME IInv, ~spoiled, w.header.used # 0
               PROVE  /\ Shown(B, v.link, v.header.first)
                            = Blocks(B) \ FreeSet(B, w.link, w.header.first)
                      /\ live \subseteq Shown(B, v.link, v.header.first)
                      /\ FreeSet(B, v.link, v.header.first)
                            = FreeSet(B, w.link, w.header.first)
                      /\ Increasing(B, v.link, v.header.first)
    BY DEF WalkShowsUsedBlocks
  <2>1. /\ Sound(B, w.link, w.header, live) /\ live \in SUBSET Blocks(B)
        /\ w.link \in Links(B) /\ w.header \in Header(B)
        /\ v.link \in Links(B)
    BY WrittenFacts, WrittenTypes DEF IInv, TypeOK
  <2> HIDE DEF w
  <2>2. /\ FreeSet(B, v.link, v.header.first) = FreeSet(B, w.link, w.header.first)
        /\ WellLinked(B, v.link, v.header)
        /\ Increasing(B, v.link, v.header.first)
    BY <2>1, VisitFacts
  <2> HIDE DEF v
  <2>3. Shown(B, v.link, v.header.first) = Blocks(B) \ FreeSet(B, v.link, v.header.first)
    BY BAssumption, <2>1, <2>2, ShownFacts
  <2> QED BY <2>1, <2>2, <2>3 DEF Sound
<1> QED BY <1>1, Invariance, PTL

\* The word-by-word list implements the pool of blocks that PageSlots takes a
\* page for.
THEOREM ListIsPool == Spec => ImplementsPool
<1>1. Init => Pool!Init
  BY FreshIsSound DEF Init, Pool!Init
<1>2. IInv /\ [Next]_vars => [spoiled' \/ Pool!Next]_(Pool!vars)
  BY StepFacts
<1> QED BY <1>1, <1>2, Invariance, PTL DEF Spec, ImplementsPool
=============================================================================
